----------------------------- MODULE MCOtpRateLimit -----------------------------
(* OtpRateLimit for TLC: small intervals in the proportion of the defaults. *)
EXTENDS OtpRateLimit, TLC
================================================================================
