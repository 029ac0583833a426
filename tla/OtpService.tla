------------------------------- MODULE OtpService -------------------------------
(****************************************************************************)
(* One user's second factors in OtpService (nestjs-otp/src/otp.service.ts): *)
(* TOTP enrolment, codes sent by SMS or email, backup codes, and the        *)
(* operations that a verified code authorises.  Every query of the service  *)
(* is keyed by userId, so users do not interact.                            *)
(*                                                                          *)
(* As in AuthService each action is one awaited database call (a            *)
(* $transaction is one call) with the pure work around it.  checkRateLimit  *)
(* and recordAttempt touch only OtpAttempt and are the subject of           *)
(* OtpRateLimit: a request they refuse does not start here.                 *)
(*                                                                          *)
(* A generated secret or batch of backup codes is a fresh Gen; a TOTP code  *)
(* is valid for the secret it was computed from.  OtpCode and OtpBackupCode *)
(* rows are kept in one set of one-time rows: both are found unused and     *)
(* later marked used by id.  The optional context of a code, a filter like  *)
(* its method, is left out.                                                 *)
(****************************************************************************)
EXTENDS Naturals, FiniteSets

CONSTANTS
  Gen,        \* values of a generated secret or batch: bounds how many are drawn
  CodeNo,     \* the codes of one batch
  MaxCodes,   \* bounds the codes sent
  Take,       \* how many of the newest codes a verification compares (5)
  Req,        \* slots for concurrent requests
  Enabled,    \* methods and features switched on
  NULL

Channel == {"sms", "email"}

ASSUME EnabledAssumption == Enabled \subseteq Channel \cup {"totp", "backup"}
ASSUME BoundsAssumption == MaxCodes \in Nat /\ Take \in Nat \ {0} /\ IsFiniteSet(Req)
ASSUME NullAssumption == NULL \notin Gen

SecretRow == [row : Gen, gen : Gen, active : BOOLEAN]   \* row is its id
CodeRow == [id : 1 .. MaxCodes, method : Channel]
BackupRow == [batch : Gen, no : CodeNo]
OneTime == CodeRow \cup BackupRow

VARIABLES
  secrets,    \* OtpSecret rows of the user, unique by method: at most one
  rows,       \* OtpCode and OtpBackupCode rows
  usedAt,     \* one-time rows marked used
  expired,    \* codes whose expiresAt has passed
  sent,       \* how many codes have been sent, which also orders them
  drawn,      \* generations drawn so far
  setups,     \* history: generations that a setup wrote
  confirmed,  \* history: secrets whose first code was accepted by confirmTotpSetup
  uses,       \* history: how often an existing one-time row has been accepted
  req         \* the local variables of each request

vars == <<secrets, rows, usedAt, expired, sent, drawn, setups, confirmed, uses, req>>

Local(pc, g, seen, code, then) ==
  [pc |-> pc, gen |-> g, seen |-> seen, code |-> code, then |-> then]

Idle == Local("idle", NULL, NULL, NULL, NULL)

Init ==
  /\ secrets = {} /\ rows = {} /\ usedAt = {} /\ expired = {}
  /\ sent = 0 /\ drawn = {} /\ setups = {} /\ confirmed = {}
  /\ uses = [c \in OneTime |-> 0]
  /\ req = [r \in Req |-> Idle]

At(r, pc) == req[r].pc = pc

Become(r, locals) == req' = [req EXCEPT ![r] = locals]

Return(r) == Become(r, Idle)

Batch(g) == [batch : {g}, no : CodeNo]

Backups == rows \cap BackupRow

\* A deleted row takes its columns with it; ids are never used again.
Keep(kept) ==
  /\ usedAt' = usedAt \cap kept
  /\ expired' = expired \cap kept
  /\ uses' = [c \in OneTime |-> IF c \in kept THEN uses[c] ELSE 0]

--------------------------------------------------------------------------------
(* setupTotp: read the row, generate a secret and codes, write them together. *)

SetupRead(r) ==
  /\ req[r] = Idle /\ "totp" \in Enabled
  /\ \E g \in Gen \ drawn :
       /\ drawn' = drawn \cup {g}
       /\ \/ secrets = {} /\ Become(r, Local("setupWrite", g, NULL, NULL, NULL))
          \/ \E s \in secrets : ~s.active /\ Become(r, Local("setupWrite", g, s.row, NULL, NULL))
  /\ UNCHANGED <<secrets, rows, usedAt, expired, sent, setups, confirmed, uses>>

\* Variant of SetupCreate: no unique index on the user and method.
SetupCreateAnother(r) ==
  /\ At(r, "setupWrite") /\ req[r].seen = NULL
  /\ secrets' = secrets \cup {[row |-> req[r].gen, gen |-> req[r].gen, active |-> FALSE]}
  /\ rows' = rows \cup Batch(req[r].gen)
  /\ setups' = setups \cup {req[r].gen}
  /\ Return(r)
  /\ UNCHANGED <<usedAt, expired, sent, drawn, confirmed, uses>>

\* No row was read: create one (unique per user and method) beside what codes there are.
SetupCreate(r) ==
  /\ At(r, "setupWrite") /\ req[r].seen = NULL
  /\ secrets = {}
  /\ secrets' = {[row |-> req[r].gen, gen |-> req[r].gen, active |-> FALSE]}
  /\ rows' = rows \cup Batch(req[r].gen)
  /\ setups' = setups \cup {req[r].gen}
  /\ Return(r)
  /\ UNCHANGED <<usedAt, expired, sent, drawn, confirmed, uses>>

\* Variant of SetupReplace: the backup codes of the setup it replaces stay.
SetupReplaceSecretOnly(r) ==
  /\ At(r, "setupWrite")
  /\ \E s \in secrets :
       /\ s.row = req[r].seen
       /\ secrets' = {[row |-> s.row, gen |-> req[r].gen, active |-> FALSE]}
  /\ rows' = rows \cup Batch(req[r].gen)
  /\ setups' = setups \cup {req[r].gen}
  /\ Return(r)
  /\ UNCHANGED <<usedAt, expired, uses, sent, drawn, confirmed>>

\* A row was read: overwrite the row with that id, whatever it holds by now.
SetupReplace(r) ==
  /\ At(r, "setupWrite")
  /\ \E s \in secrets :
       /\ s.row = req[r].seen
       /\ secrets' = {[row |-> s.row, gen |-> req[r].gen, active |-> FALSE]}
  /\ Keep(rows \ Backups)
  /\ rows' = (rows \ Backups) \cup Batch(req[r].gen)
  /\ setups' = setups \cup {req[r].gen}
  /\ Return(r)
  /\ UNCHANGED <<sent, drawn, confirmed>>

--------------------------------------------------------------------------------
(* confirmTotpSetup: the code is checked against the secret that was read, the *)
(* row is activated by id.                                                     *)

ConfirmRead(r, g) ==
  /\ req[r] = Idle /\ "totp" \in Enabled
  /\ \E s \in secrets : /\ ~s.active /\ s.gen = g
                        /\ Become(r, Local("confirmWrite", g, s.row, NULL, NULL))
  /\ UNCHANGED <<secrets, rows, usedAt, expired, sent, drawn, setups, confirmed, uses>>

ConfirmWrite(r) ==
  /\ At(r, "confirmWrite")
  /\ \E s \in secrets :
       /\ s.row = req[r].seen
       /\ secrets' = {[row |-> s.row, gen |-> s.gen, active |-> TRUE]}
  /\ confirmed' = confirmed \cup {req[r].gen}
  /\ Return(r)
  /\ UNCHANGED <<rows, usedAt, expired, sent, drawn, setups, uses>>

--------------------------------------------------------------------------------
(* sendOtp: the only row it writes is the new code. *)

SendOtp(m) ==
  /\ m \in Enabled
  /\ sent < MaxCodes
  /\ sent' = sent + 1
  /\ rows' = rows \cup {[id |-> sent + 1, method |-> m]}
  /\ UNCHANGED <<secrets, usedAt, expired, drawn, setups, confirmed, uses, req>>

--------------------------------------------------------------------------------
(* verifyOtp.  A request carries what it will do once verified: nothing more  *)
(* ("return"), disableMethod (the method) or regenerateBackupCodes.           *)

Then == {"return", "totp", "sms", "email", "regenerate"}

\* verifyTotp writes nothing: it matters when it authorises something.
VerifyTotp(r, g, then) ==
  /\ req[r] = Idle /\ "totp" \in Enabled
  /\ then # "return"
  /\ \E s \in secrets : s.active /\ s.gen = g
  /\ Become(r, Local("verified", NULL, NULL, NULL, then))
  /\ UNCHANGED <<secrets, rows, usedAt, expired, sent, drawn, setups, confirmed, uses>>

\* Variant of Unused: usedAt is not part of the query.
Present(c) == c \in rows

Unused(c) == c \in rows \ usedAt

\* The codes verifyCodeOtp compares: live ones of the methods asked for, newest first.
Live(methods) == {c \in rows \cap CodeRow :
                    Unused(c) /\ c \notin expired /\ c.method \in methods}
Candidates(methods) ==
  {c \in Live(methods) : Cardinality({d \in Live(methods) : d.id > c.id}) < Take}

\* Only a plain verification may name a method; the others accept any code.
VerifyCode(r, c, methods, then) ==
  /\ req[r] = Idle
  /\ methods = Channel \/ then = "return"
  /\ c \in Candidates(methods)
  /\ Become(r, Local("useCode", NULL, NULL, c, then))
  /\ UNCHANGED <<secrets, rows, usedAt, expired, sent, drawn, setups, confirmed, uses>>

VerifyBackup(r, b) ==
  /\ req[r] = Idle /\ "backup" \in Enabled
  /\ b \in Backups /\ Unused(b)
  /\ Become(r, Local("useCode", NULL, NULL, b, "return"))
  /\ UNCHANGED <<secrets, rows, usedAt, expired, sent, drawn, setups, confirmed, uses>>

\* The row is marked used by id: it must still exist, it need not be unused any more.
UseCode(r) ==
  /\ At(r, "useCode") /\ req[r].code \in rows
  /\ usedAt' = usedAt \cup {req[r].code}
  /\ uses' = [uses EXCEPT ![req[r].code] = @ + 1]
  /\ IF req[r].then = "return"
       THEN Return(r)
       ELSE Become(r, Local("verified", NULL, NULL, NULL, req[r].then))
  /\ UNCHANGED <<secrets, rows, expired, sent, drawn, setups, confirmed>>

--------------------------------------------------------------------------------
(* What a verified code authorises. *)

DisableTotp(r) ==
  /\ At(r, "verified") /\ req[r].then = "totp"
  /\ secrets' = {}
  /\ rows' = rows \ Backups
  /\ Keep(rows')
  /\ Return(r)
  /\ UNCHANGED <<sent, drawn, setups, confirmed>>

DisableChannel(r) ==
  /\ At(r, "verified") /\ req[r].then \in Channel
  /\ rows' = {c \in rows : c \in Backups \/ c.method # req[r].then}
  /\ Keep(rows')
  /\ Return(r)
  /\ UNCHANGED <<secrets, sent, drawn, setups, confirmed>>

RegenerateBackupCodes(r) ==
  /\ At(r, "verified") /\ req[r].then = "regenerate" /\ "backup" \in Enabled
  /\ \E g \in Gen \ drawn :
       /\ drawn' = drawn \cup {g}
       /\ rows' = (rows \ Backups) \cup Batch(g)
  /\ Keep(rows \ Backups)
  /\ Return(r)
  /\ UNCHANGED <<secrets, sent, setups, confirmed>>

--------------------------------------------------------------------------------
(* Failures and time. *)

\* The write finds its row deleted, or the unique index finds one already there.
Conflict(r) ==
  /\ \/ At(r, "setupWrite") /\ req[r].seen = NULL /\ secrets # {}
     \/ At(r, "setupWrite") /\ req[r].seen # NULL /\ \A s \in secrets : s.row # req[r].seen
     \/ At(r, "confirmWrite") /\ \A s \in secrets : s.row # req[r].seen
     \/ At(r, "useCode") /\ req[r].code \notin rows
  /\ Return(r)
  /\ UNCHANGED <<secrets, rows, usedAt, expired, sent, drawn, setups, confirmed, uses>>

\* The instance dies, or the awaited call rejects for any other reason.
Abort(r) ==
  /\ ~At(r, "idle")
  /\ Return(r)
  /\ UNCHANGED <<secrets, rows, usedAt, expired, sent, drawn, setups, confirmed, uses>>

Expire(c) ==
  /\ c \in (rows \cap CodeRow) \ expired
  /\ expired' = expired \cup {c}
  /\ UNCHANGED <<secrets, rows, usedAt, sent, drawn, setups, confirmed, uses, req>>

--------------------------------------------------------------------------------
Step(r) ==
  \/ SetupRead(r) \/ SetupCreate(r) \/ SetupReplace(r)
  \/ \E g \in Gen : ConfirmRead(r, g)
  \/ ConfirmWrite(r)
  \/ \E g \in Gen, then \in Then : VerifyTotp(r, g, then)
  \/ \E c \in rows, methods \in {Channel, {"sms"}, {"email"}}, then \in Then :
       VerifyCode(r, c, methods, then)
  \/ \E b \in rows : VerifyBackup(r, b)
  \/ UseCode(r)
  \/ DisableTotp(r) \/ DisableChannel(r) \/ RegenerateBackupCodes(r)
  \/ Conflict(r) \/ Abort(r)

Next ==
  \/ \E r \in Req : Step(r)
  \/ \E m \in Channel : SendOtp(m)
  \/ \E c \in rows : Expire(c)

Spec == Init /\ [][Next]_vars

--------------------------------------------------------------------------------
(* Properties. *)

Pc == {"idle", "setupWrite", "confirmWrite", "useCode", "verified"}

\* Every table keeps its shape, and the user has at most one TOTP secret.
TypeOK ==
  /\ secrets \in SUBSET SecretRow
  /\ \A s, u \in secrets : s = u
  /\ rows \in SUBSET OneTime /\ usedAt \in SUBSET OneTime /\ expired \in SUBSET CodeRow
  /\ sent \in 0 .. MaxCodes
  /\ drawn \in SUBSET Gen /\ setups \in SUBSET Gen /\ confirmed \in SUBSET Gen
  /\ uses \in [OneTime -> Nat]
  /\ req \in [Req -> [pc : Pc, gen : Gen \cup {NULL}, seen : Gen \cup {NULL},
                      code : OneTime \cup {NULL}, then : Then \cup {NULL}]]

\* Backup codes handed out by a setup live exactly as long as the secret of that setup:
\* however setups, confirmations and disables interleave, no code of an earlier setup is
\* still accepted beside a later secret, or after TOTP was disabled.
SetupCodesMatchSecret ==
  \A c \in Backups : c.batch \in setups => \E s \in secrets : s.gen = c.batch

Holders(c) == {r \in Req : At(r, "useCode") /\ req[r].code = c}

\* A used code, or backup code, that no earlier request still holds is never accepted
\* again and authorises nothing any more.
DrainedCodeIsDead ==
  [][\A c \in usedAt : Holders(c) = {} => Holders(c)' = {} /\ uses'[c] <= uses[c]]_vars

\* Racing verifications may each use the same code, but never more of them than run at
\* once: a used code gains no new holder.
UsesBounded ==
  \A c \in usedAt : uses[c] + Cardinality(Holders(c)) <= Cardinality(Req)

\* Enrolment: the secret that protects the account is one whose code was verified.
ActiveSecretWasConfirmed == \A s \in secrets : s.active => s.gen \in confirmed
================================================================================
