------------------------------ MODULE MCOtpService ------------------------------
(* OtpService for TLC: everything enabled, and the symmetries of its values. *)
EXTENDS OtpService, TLC

MCEnabled == {"totp", "sms", "email", "backup"}

Symmetry == Permutations(Gen) \cup Permutations(CodeNo) \cup Permutations(Req)
================================================================================
