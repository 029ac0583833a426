----------------------------- MODULE MCOrganization -----------------------------
(* Organization for TLC, with the symmetries of its values. *)
EXTENDS Organization, TLC

Symmetry ==
  Permutations(Org) \cup Permutations(Slug) \cup Permutations(User)
    \cup Permutations(Row) \cup Permutations(Req)
================================================================================
