----------------------------- MODULE MCAuthService -----------------------------
(* AuthService for TLC: two feature sets, and the symmetries of its values. *)
EXTENDS AuthService, TLC

MCConfigs == {Feature, Feature \ {"accountLinking", "emailVerification"}}

\* Emails, tokens, passwords and request slots are interchangeable.
Symmetry ==
  Permutations(Email) \cup Permutations(Password) \cup Permutations(Token)
    \cup Permutations(Req) \cup Permutations(SocialId)
================================================================================
