---------------------------- MODULE OtpService_proofs ----------------------------
(* What holds of OtpService for every number of generations, codes and concurrent *)
(* requests.                                                                      *)
EXTENDS OtpService, FiniteSetTheorems, TLAPS

Locals == [pc : Pc, gen : Gen \cup {NULL}, seen : Gen \cup {NULL},
           code : OneTime \cup {NULL}, then : Then \cup {NULL}]

\* What a request relies on while it waits.
LocalsOK(r) ==
  /\ At(r, "setupWrite") => req[r].gen \in drawn
  /\ At(r, "confirmWrite") => req[r].gen \in Gen
  /\ At(r, "useCode") => req[r].code \in OneTime /\ req[r].then \in Then

IInv ==
  /\ TypeOK
  /\ \A r \in Req : LocalsOK(r)
  /\ setups \subseteq drawn

USE DEF Local, Idle, At, Become, Return, SecretRow, Backups

\* A step of one request keeps what the others rely on; it is enough to look at the
\* locals of the request that moved.
LEMMA LocalsRule ==
  ASSUME IInv, NEW r \in Req, NEW l \in Locals, Become(r, l), drawn \subseteq drawn',
         l.pc = "setupWrite" => l.gen \in drawn',
         l.pc = "confirmWrite" => l.gen \in Gen,
         l.pc = "useCode" => l.code \in OneTime /\ l.then \in Then
  PROVE  req' \in [Req -> Locals] /\ \A q \in Req : LocalsOK(q)'
<1>1. req' \in [Req -> Locals] /\ req'[r] = l /\ \A q \in Req \ {r} : req'[q] = req[q]
  BY DEF IInv, TypeOK, Locals
<1> QED BY <1>1 DEF IInv, LocalsOK

\* The idle locals are locals.
LEMMA IdleLocals == Idle \in Locals
BY DEF Locals, Pc

\* Rows of a batch, and a freshly sent code, are one-time rows.
LEMMA NewRows ==
  /\ \A g \in Gen : Batch(g) \subseteq BackupRow
  /\ \A n \in 1 .. MaxCodes, m \in Channel : [id |-> n, method |-> m] \in CodeRow
  /\ CodeRow \subseteq OneTime /\ BackupRow \subseteq OneTime
BY DEF Batch, BackupRow, CodeRow, OneTime

\* The two tables share no row.
LEMMA TablesDisjoint == CodeRow \cap BackupRow = {}
<1> SUFFICES ASSUME NEW c \in CodeRow, c \in BackupRow PROVE FALSE
  OBVIOUS
<1>1. DOMAIN c = {"id", "method"}
  BY DEF CodeRow
<1>2. DOMAIN c = {"batch", "no"}
  BY DEF BackupRow
<1> QED BY <1>1, <1>2

\* Deleting rows keeps the shape of their columns.
LEMMA KeepType ==
  ASSUME TypeOK, NEW kept \in SUBSET OneTime, Keep(kept)
  PROVE  /\ usedAt' \in SUBSET OneTime /\ expired' \in SUBSET CodeRow
         /\ uses' \in [OneTime -> Nat]
BY DEF Keep, TypeOK

\* The initial state satisfies the strengthened invariant.
LEMMA InitIInv == Init => IInv
BY IdleLocals, BoundsAssumption DEF Init, IInv, TypeOK, LocalsOK, Locals, OneTime

\* Every step keeps it.
LEMMA StepIInv == IInv /\ [Next]_vars => IInv'
<1> SUFFICES ASSUME IInv, [Next]_vars PROVE IInv'
  OBVIOUS
<1> USE NullAssumption
<1> DEFINE Fits == req' \in [Req -> Locals] /\ \A q \in Req : LocalsOK(q)'
<1>i. ASSUME NEW r \in Req, Return(r), drawn \subseteq drawn' PROVE Fits
  BY <1>i, IdleLocals, LocalsRule
<1>1. ASSUME NEW r \in Req, SetupRead(r) PROVE IInv'
  <2>1. PICK g \in Gen \ drawn :
          /\ drawn' = drawn \cup {g}
          /\ \/ Become(r, Local("setupWrite", g, NULL, NULL, NULL))
             \/ \E s \in secrets : Become(r, Local("setupWrite", g, s.row, NULL, NULL))
    BY <1>1 DEF SetupRead
  <2>2. \A x \in Gen \cup {NULL} : Local("setupWrite", g, x, NULL, NULL) \in Locals
    BY DEF Locals, Pc
  <2>3. Fits
    BY <2>1, <2>2, LocalsRule DEF IInv, TypeOK
  <2> QED BY <1>1, <2>1, <2>3 DEF SetupRead, IInv, TypeOK, Locals
<1>2. ASSUME NEW r \in Req, SetupCreate(r) PROVE IInv'
  <2>1. req[r].gen \in Gen /\ req[r].gen \in drawn
    BY <1>2 DEF SetupCreate, IInv, TypeOK, LocalsOK
  <2>2. Fits
    BY <1>2, <1>i DEF SetupCreate
  <2> QED BY <1>2, <2>1, <2>2, NewRows DEF SetupCreate, IInv, TypeOK, Locals
<1>3. ASSUME NEW r \in Req, SetupReplace(r) PROVE IInv'
  <2>1. req[r].gen \in Gen /\ req[r].gen \in drawn
    BY <1>3 DEF SetupReplace, IInv, TypeOK, LocalsOK
  <2>2. Fits
    BY <1>3, <1>i DEF SetupReplace
  <2>3. rows \ Backups \in SUBSET OneTime /\ rows' \in SUBSET OneTime
    BY <1>3, <2>1, NewRows DEF SetupReplace, IInv, TypeOK
  <2>4. /\ usedAt' \in SUBSET OneTime /\ expired' \in SUBSET CodeRow
        /\ uses' \in [OneTime -> Nat]
    BY <1>3, <2>3, KeepType DEF SetupReplace, IInv
  <2> QED BY <1>3, <2>1, <2>2, <2>3, <2>4 DEF SetupReplace, IInv, TypeOK, Locals
<1>4. ASSUME NEW r \in Req, NEW g \in Gen, ConfirmRead(r, g) PROVE IInv'
  <2>1. PICK s \in secrets : Become(r, Local("confirmWrite", g, s.row, NULL, NULL))
    BY <1>4 DEF ConfirmRead
  <2>2. Local("confirmWrite", g, s.row, NULL, NULL) \in Locals
    BY <2>1 DEF Locals, Pc, IInv, TypeOK
  <2>3. Fits
    BY <1>4, <2>1, <2>2, LocalsRule DEF ConfirmRead
  <2> QED BY <1>4, <2>3 DEF ConfirmRead, IInv, TypeOK, Locals
<1>5. ASSUME NEW r \in Req, ConfirmWrite(r) PROVE IInv'
  <2>1. req[r].gen \in Gen
    BY <1>5 DEF ConfirmWrite, IInv, LocalsOK
  <2>2. Fits
    BY <1>5, <1>i DEF ConfirmWrite
  <2> QED BY <1>5, <2>1, <2>2 DEF ConfirmWrite, IInv, TypeOK, Locals
<1>6. ASSUME NEW m \in Channel, SendOtp(m) PROVE IInv'
  <2>1. sent + 1 \in 1 .. MaxCodes /\ sent' \in 0 .. MaxCodes
    BY <1>6, BoundsAssumption DEF SendOtp, IInv, TypeOK
  <2>2. rows' \in SUBSET OneTime
    BY <1>6, <2>1, NewRows DEF SendOtp, IInv, TypeOK
  <2> QED BY <1>6, <2>1, <2>2 DEF SendOtp, IInv, TypeOK, LocalsOK
<1>7. ASSUME NEW r \in Req, NEW g \in Gen, NEW then \in Then, VerifyTotp(r, g, then)
      PROVE  IInv'
  <2>1. Local("verified", NULL, NULL, NULL, then) \in Locals
    BY DEF Locals, Pc
  <2>2. Fits
    BY <1>7, <2>1, LocalsRule DEF VerifyTotp
  <2> QED BY <1>7, <2>2 DEF VerifyTotp, IInv, TypeOK, Locals
<1>8. ASSUME NEW r \in Req, NEW c \in rows, NEW methods, NEW then \in Then,
             VerifyCode(r, c, methods, then) \/ (VerifyBackup(r, c) /\ then = "return")
      PROVE  IInv'
  <2>1. Local("useCode", NULL, NULL, c, then) \in Locals /\ c \in OneTime
    BY DEF Locals, Pc, IInv, TypeOK
  <2>2. Fits
    BY <1>8, <2>1, LocalsRule DEF VerifyCode, VerifyBackup
  <2> QED BY <1>8, <2>2 DEF VerifyCode, VerifyBackup, IInv, TypeOK, Locals
<1>9. ASSUME NEW r \in Req, UseCode(r) PROVE IInv'
  <2>1. req[r].code \in OneTime /\ req[r].then \in Then
    BY <1>9 DEF UseCode, IInv, LocalsOK
  <2>2. Local("verified", NULL, NULL, NULL, req[r].then) \in Locals
    BY <2>1 DEF Locals, Pc
  <2>3. Fits
    BY <1>9, <1>i, <2>2, LocalsRule DEF UseCode
  <2> QED BY <1>9, <2>1, <2>3 DEF UseCode, IInv, TypeOK, Locals
<1>10. ASSUME NEW r \in Req, DisableTotp(r) \/ DisableChannel(r) PROVE IInv'
  <2>1. Fits
    BY <1>10, <1>i DEF DisableTotp, DisableChannel
  <2>2. rows' \in SUBSET OneTime
    BY <1>10 DEF DisableTotp, DisableChannel, IInv, TypeOK
  <2>3. /\ usedAt' \in SUBSET OneTime /\ expired' \in SUBSET CodeRow
        /\ uses' \in [OneTime -> Nat]
    BY <1>10, <2>2, KeepType DEF DisableTotp, DisableChannel, IInv
  <2> QED BY <1>10, <2>1, <2>2, <2>3 DEF DisableTotp, DisableChannel, IInv, TypeOK, Locals
<1>11. ASSUME NEW r \in Req, RegenerateBackupCodes(r) PROVE IInv'
  <2>1. PICK g \in Gen \ drawn : /\ drawn' = drawn \cup {g}
                                /\ rows' = (rows \ Backups) \cup Batch(g)
    BY <1>11 DEF RegenerateBackupCodes
  <2>2. Fits
    BY <1>11, <2>1, <1>i DEF RegenerateBackupCodes
  <2>3. rows \ Backups \in SUBSET OneTime /\ rows' \in SUBSET OneTime
    BY <2>1, NewRows DEF IInv, TypeOK
  <2>4. /\ usedAt' \in SUBSET OneTime /\ expired' \in SUBSET CodeRow
        /\ uses' \in [OneTime -> Nat]
    BY <1>11, <2>3, KeepType DEF RegenerateBackupCodes, IInv
  <2> QED BY <1>11, <2>1, <2>2, <2>3, <2>4 DEF RegenerateBackupCodes, IInv, TypeOK, Locals
<1>12. ASSUME NEW r \in Req, Conflict(r) \/ Abort(r) PROVE IInv'
  <2>1. Fits
    BY <1>12, <1>i DEF Conflict, Abort
  <2> QED BY <1>12, <2>1 DEF Conflict, Abort, IInv, TypeOK, Locals
<1>13. ASSUME NEW c \in rows, Expire(c) PROVE IInv'
  BY <1>13 DEF Expire, IInv, TypeOK, LocalsOK
<1>14. CASE UNCHANGED vars
  BY <1>14 DEF vars, IInv, TypeOK, LocalsOK
<1> QED
  BY <1>1, <1>2, <1>3, <1>4, <1>5, <1>6, <1>7, <1>8, <1>9, <1>10, <1>11, <1>12, <1>13,
     <1>14 DEF Next, Step, Then

\* The strengthened invariant holds in every reachable state.
LEMMA Invariant == Spec => []IInv
BY InitIInv, StepIInv, PTL DEF Spec

\* The tables keep their shape and the user never has two TOTP secrets.
THEOREM TypeCorrect == Spec => []TypeOK
<1>1. IInv => TypeOK
  BY DEF IInv
<1> QED BY <1>1, Invariant, PTL

--------------------------------------------------------------------------------
(* Who writes which table. *)

\* Only these operations write the secret, the backup codes or the record of setups.
LEMMA SetupWriters ==
  ASSUME [Next]_vars
  PROVE  \/ UNCHANGED <<secrets, rows, setups>>
         \/ \E r \in Req : SetupCreate(r) \/ SetupReplace(r) \/ ConfirmWrite(r)
                             \/ DisableTotp(r) \/ DisableChannel(r)
                             \/ RegenerateBackupCodes(r)
         \/ \E m \in Channel : SendOtp(m)
BY DEF Next, Step, vars, SetupRead, ConfirmRead, VerifyTotp, VerifyCode, VerifyBackup,
       UseCode, Conflict, Abort, Expire

\* A code is accepted by UseCode; otherwise rows are only kept or deleted.
LEMMA UseWriters ==
  ASSUME [Next]_vars
  PROVE  \/ UNCHANGED <<usedAt, uses>>
         \/ \E kept : Keep(kept)
         \/ \E r \in Req : UseCode(r)
BY DEF Next, Step, vars, SetupRead, SetupCreate, SetupReplace, ConfirmRead, ConfirmWrite,
       SendOtp, VerifyTotp, VerifyCode, VerifyBackup, DisableTotp, DisableChannel,
       RegenerateBackupCodes, Conflict, Abort, Expire

\* Secret and setup codes are replaced and deleted together, whatever interleaves: no
\* backup code of a setup outlives the secret it was handed out with.
THEOREM SetupCodesFollowSecret == Spec => []SetupCodesMatchSecret
<1>1. Init => SetupCodesMatchSecret
  BY DEF Init, SetupCodesMatchSecret
<1>2. ASSUME IInv, SetupCodesMatchSecret, [Next]_vars PROVE SetupCodesMatchSecret'
  <2> USE DEF SetupCodesMatchSecret
  <2>1. CASE UNCHANGED <<secrets, rows, setups>>
    BY <1>2, <2>1
  <2>2. ASSUME NEW r \in Req, SetupCreate(r) PROVE SetupCodesMatchSecret'
    <3>1. \A c \in Backups : c.batch \notin setups
      BY <1>2, <2>2 DEF SetupCreate
    <3>2. \A c \in Backups' : c \in Backups \/ c.batch = req[r].gen
      BY <2>2 DEF SetupCreate, Batch
    <3> QED BY <2>2, <3>1, <3>2 DEF SetupCreate
  <2>3. ASSUME NEW r \in Req, SetupReplace(r) PROVE SetupCodesMatchSecret'
    <3>1. \A c \in Backups' : c.batch = req[r].gen
      BY <2>3 DEF SetupReplace, Batch
    <3>2. \E s \in secrets' : s.gen = req[r].gen
      BY <2>3 DEF SetupReplace
    <3> QED BY <3>1, <3>2
  <2>4. ASSUME NEW r \in Req, ConfirmWrite(r) PROVE SetupCodesMatchSecret'
    <3>1. \A s \in secrets : \E u \in secrets' : u.gen = s.gen
      BY <1>2, <2>4 DEF ConfirmWrite, IInv, TypeOK
    <3> QED BY <1>2, <2>4, <3>1 DEF ConfirmWrite
  <2>5. ASSUME NEW r \in Req, DisableTotp(r) PROVE SetupCodesMatchSecret'
    BY <2>5 DEF DisableTotp
  <2>6. ASSUME NEW r \in Req, DisableChannel(r) PROVE SetupCodesMatchSecret'
    BY <1>2, <2>6 DEF DisableChannel
  <2>7. ASSUME NEW r \in Req, RegenerateBackupCodes(r) PROVE SetupCodesMatchSecret'
    <3>1. \A c \in Backups' : c.batch \notin setups
      BY <1>2, <2>7 DEF RegenerateBackupCodes, Batch, IInv
    <3> QED BY <2>7, <3>1 DEF RegenerateBackupCodes
  <2>8. ASSUME NEW m \in Channel, SendOtp(m) PROVE SetupCodesMatchSecret'
    <3>1. [id |-> sent + 1, method |-> m] \in CodeRow
      BY <1>2, <2>8, BoundsAssumption, NewRows DEF SendOtp, IInv, TypeOK
    <3>2. Backups' = Backups
      BY <2>8, <3>1, TablesDisjoint DEF SendOtp
    <3> QED BY <1>2, <2>8, <3>2 DEF SendOtp
  <2> QED BY <1>2, <2>1, <2>2, <2>3, <2>4, <2>5, <2>6, <2>7, <2>8, SetupWriters
<1> QED BY <1>1, <1>2, Invariant, PTL DEF Spec

--------------------------------------------------------------------------------
(* One-time codes. *)

\* A used code gains no holder: both verifications ask for unused rows.
LEMMA HoldersShrink ==
  ASSUME IInv, [Next]_vars, NEW c \in usedAt
  PROVE  Holders(c)' \subseteq Holders(c)
<1> SUFFICES ASSUME NEW q \in Req, q \in Holders(c)' PROVE q \in Holders(c)
  BY DEF Holders
<1> USE DEF Holders, IInv, TypeOK
<1>1. CASE UNCHANGED req
  BY <1>1
<1> DEFINE NoHolder(r) == /\ r \notin Holders(c)'
                          /\ \A u \in Req \ {r} : req'[u] = req[u]
<1>2. ASSUME NEW r \in Req, NoHolder(r) PROVE q \in Holders(c)
  BY <1>2
<1>3. ASSUME NEW r \in Req, Step(r) PROVE NoHolder(r)
  <2>1. CASE SetupRead(r)
    BY <2>1 DEF SetupRead
  <2>2. CASE \E g \in Gen : ConfirmRead(r, g)
    BY <2>2 DEF ConfirmRead
  <2>3. CASE \E g \in Gen, then \in Then : VerifyTotp(r, g, then)
    BY <2>3 DEF VerifyTotp
  <2>4. ASSUME NEW d \in rows, NEW methods, NEW then \in Then, VerifyCode(r, d, methods, then)
        PROVE  NoHolder(r)
    <3>1. d # c
      BY <2>4 DEF VerifyCode, Candidates, Live, Unused
    <3> QED BY <2>4, <3>1 DEF VerifyCode
  <2>5. ASSUME NEW d \in rows, VerifyBackup(r, d) PROVE NoHolder(r)
    <3>1. d # c
      BY <2>5 DEF VerifyBackup, Unused
    <3> QED BY <2>5, <3>1 DEF VerifyBackup
  <2>6. CASE UseCode(r)
    BY <2>6 DEF UseCode
  <2>7. CASE Return(r)
    BY <2>7
  <2>8. CASE \/ SetupCreate(r) \/ SetupReplace(r) \/ ConfirmWrite(r)
             \/ DisableTotp(r) \/ DisableChannel(r) \/ RegenerateBackupCodes(r)
             \/ Conflict(r) \/ Abort(r)
    <3>1. Return(r)
      BY <2>8 DEF SetupCreate, SetupReplace, ConfirmWrite, DisableTotp, DisableChannel,
                  RegenerateBackupCodes, Conflict, Abort
    <3> QED BY <3>1, <2>7
  <2> HIDE DEF NoHolder
  <2> QED BY <1>3, <2>1, <2>2, <2>3, <2>4, <2>5, <2>6, <2>8 DEF Step
<1> QED BY <1>1, <1>2, <1>3 DEF Next, SendOtp, Expire, vars

\* Only a request that holds a code can have it accepted.
THEOREM DrainedCodesAreDead == Spec => DrainedCodeIsDead
<1> DEFINE Dead == \A c \in usedAt : Holders(c) = {} => Holders(c)' = {} /\ uses'[c] <= uses[c]
<1>1. ASSUME IInv, [Next]_vars PROVE Dead
  <2>0. \A c \in usedAt : c \in OneTime /\ uses[c] \in Nat
    BY <1>1 DEF IInv, TypeOK
  <2>shrink. \A c \in usedAt : Holders(c) = {} => Holders(c)' = {}
    BY <1>1, HoldersShrink
  <2>1. CASE UNCHANGED <<usedAt, uses>>
    BY <2>0, <2>shrink, <2>1
  <2>2. CASE \E kept : Keep(kept)
    BY <2>0, <2>shrink, <2>2 DEF Keep
  <2>3. ASSUME NEW r \in Req, UseCode(r) PROVE Dead
    <3>1. r \in Holders(req[r].code)
      BY <2>3 DEF UseCode, Holders
    <3>2. \A c \in OneTime \ {req[r].code} : uses'[c] = uses[c]
      BY <1>1, <2>3 DEF UseCode, IInv, TypeOK
    <3> QED BY <2>0, <2>shrink, <3>1, <3>2
  <2> QED BY <1>1, <2>1, <2>2, <2>3, UseWriters
<1>2. IInv /\ [Next]_vars => [Dead]_vars
  BY <1>1
<1> QED BY <1>2, Invariant, PTL DEF Spec, DrainedCodeIsDead

\* The count behind UsesBounded.
Counted ==
  \A c \in OneTime :
    /\ c \notin usedAt => uses[c] = 0
    /\ c \in usedAt => uses[c] + Cardinality(Holders(c)) <= Cardinality(Req)

\* Holders are requests: finitely many, and no more than there are slots.
LEMMA HoldersFinite ==
  ASSUME NEW c
  PROVE  /\ IsFiniteSet(Holders(c)) /\ Cardinality(Holders(c)) \in Nat
         /\ Cardinality(Holders(c)) <= Cardinality(Req) /\ Cardinality(Req) \in Nat
<1>1. Holders(c) \subseteq Req
  BY DEF Holders
<1> QED BY <1>1, BoundsAssumption, FS_Subset, FS_CardinalityType

\* The count survives every step.
LEMMA StepCounted == ASSUME IInv, Counted, [Next]_vars PROVE Counted'
<1> SUFFICES ASSUME NEW c \in OneTime
             PROVE  /\ c \notin usedAt' => uses'[c] = 0
                    /\ c \in usedAt' =>
                         uses'[c] + Cardinality(Holders(c)') <= Cardinality(Req)
  BY DEF Counted
<1>0. uses[c] \in Nat
  BY DEF IInv, TypeOK
<1>1. ASSUME c \in usedAt' <=> c \in usedAt, uses'[c] = uses[c]
      PROVE  /\ c \notin usedAt' => uses'[c] = 0
             /\ c \in usedAt' => uses'[c] + Cardinality(Holders(c)') <= Cardinality(Req)
  <2>1. CASE c \notin usedAt
    BY <1>1, <2>1 DEF Counted
  <2>2. CASE c \in usedAt
    <3>1. Holders(c)' \subseteq Holders(c)
      BY <2>2, HoldersShrink
    <3>2. Cardinality(Holders(c)') <= Cardinality(Holders(c)) /\ Cardinality(Holders(c)') \in Nat
      BY <3>1, HoldersFinite, FS_Subset, FS_CardinalityType
    <3>3. uses[c] + Cardinality(Holders(c)) <= Cardinality(Req)
      BY <2>2 DEF Counted
    <3> QED BY <1>0, <1>1, <2>2, <3>2, <3>3, HoldersFinite
  <2> QED BY <2>1, <2>2
<1>2. ASSUME NEW r \in Req, UseCode(r), req[r].code = c
      PROVE  uses'[c] + Cardinality(Holders(c)') <= Cardinality(Req) /\ c \in usedAt'
  <2>1. usedAt' = usedAt \cup {c} /\ uses'[c] = uses[c] + 1 /\ r \in Holders(c)
    BY <1>2 DEF UseCode, Holders, IInv, TypeOK
  <2>2. Holders(c)' = Holders(c) \ {r}
    BY <1>2 DEF UseCode, Holders, IInv, TypeOK
  <2>3. Cardinality(Holders(c)') = Cardinality(Holders(c)) - 1
    BY <2>1, <2>2, HoldersFinite, FS_RemoveElement
  <2>4. c \notin usedAt => uses[c] = 0
    BY DEF Counted
  <2>5. c \in usedAt => uses[c] + Cardinality(Holders(c)) <= Cardinality(Req)
    BY DEF Counted
  <2> QED BY <1>0, <2>1, <2>3, <2>4, <2>5, HoldersFinite
<1>3. ASSUME NEW r \in Req, UseCode(r), req[r].code # c
      PROVE  (c \in usedAt' <=> c \in usedAt) /\ uses'[c] = uses[c]
  BY <1>3 DEF UseCode, IInv, TypeOK
<1>4. ASSUME NEW kept, Keep(kept), c \notin kept
      PROVE  uses'[c] = 0 /\ c \notin usedAt'
  BY <1>4 DEF Keep
<1>5. ASSUME NEW kept, Keep(kept), c \in kept
      PROVE  (c \in usedAt' <=> c \in usedAt) /\ uses'[c] = uses[c]
  BY <1>5 DEF Keep
<1> QED BY <1>1, <1>2, <1>3, <1>4, <1>5, UseWriters

\* However many verifications race on a code, it is accepted at most once per slot.
THEOREM UsesAreBounded == Spec => []UsesBounded
<1>1. Init => Counted
  BY DEF Init, Counted
<1>2. IInv /\ Counted /\ [Next]_vars => Counted'
  BY StepCounted
<1>3. IInv /\ Counted => UsesBounded
  BY DEF IInv, TypeOK, Counted, UsesBounded
<1> QED BY <1>1, <1>2, <1>3, Invariant, PTL DEF Spec

--------------------------------------------------------------------------------
(* Enrolment. *)

\* What a confirmation read is still what its row holds.
ReadIsCurrent ==
  \A r \in Req : At(r, "confirmWrite") =>
    \A s \in secrets : s.row = req[r].seen => s.gen = req[r].gen

\* With one request at a time an active secret has been confirmed: the exception TLC
\* finds needs a setup between the read and the write of a confirmation.
THEOREM OneAtATimeIsConfirmed ==
  ASSUME Cardinality(Req) = 1
  PROVE  Spec => []ActiveSecretWasConfirmed
<1> DEFINE J == ActiveSecretWasConfirmed /\ ReadIsCurrent
<1> USE DEF ActiveSecretWasConfirmed, ReadIsCurrent
<1>1. Init => J
  BY DEF Init
<1>2. PICK only : Req = {only}
  BY BoundsAssumption, FS_Singleton
<1>3. ASSUME IInv, J, [Next]_vars PROVE J'
  <2> USE DEF IInv, TypeOK
  <2>1. ASSUME Return(only), UNCHANGED <<secrets, confirmed>> PROVE J'
    BY <1>2, <1>3, <2>1
  <2>2. ASSUME Return(only), \A s \in secrets' : ~s.active PROVE J'
    BY <1>2, <1>3, <2>2
  <2>3. CASE SetupRead(only)
    BY <1>2, <1>3, <2>3 DEF SetupRead
  <2>4. CASE SetupCreate(only) \/ SetupReplace(only) \/ DisableTotp(only)
    BY <2>2, <2>4 DEF SetupCreate, SetupReplace, DisableTotp
  <2>5. ASSUME NEW g \in Gen, ConfirmRead(only, g) PROVE J'
    BY <1>2, <1>3, <2>5 DEF ConfirmRead
  <2>6. CASE ConfirmWrite(only)
    <3>1. \A s \in secrets' : s.gen = req[only].gen
      BY <1>2, <1>3, <2>6 DEF ConfirmWrite
    <3> QED BY <1>2, <2>6, <3>1 DEF ConfirmWrite
  <2>7. CASE \E g \in Gen, then \in Then : VerifyTotp(only, g, then)
    BY <1>2, <1>3, <2>7 DEF VerifyTotp
  <2>8. ASSUME NEW c, NEW methods, NEW then,
               VerifyCode(only, c, methods, then) \/ VerifyBackup(only, c)
        PROVE  J'
    BY <1>2, <1>3, <2>8 DEF VerifyCode, VerifyBackup
  <2>9. CASE UseCode(only)
    BY <1>2, <1>3, <2>9 DEF UseCode
  <2>10. CASE DisableChannel(only) \/ RegenerateBackupCodes(only) \/ Conflict(only) \/ Abort(only)
    BY <2>1, <2>10 DEF DisableChannel, RegenerateBackupCodes, Conflict, Abort
  <2>11. CASE UNCHANGED <<secrets, confirmed, req>>
    BY <1>3, <2>11
  <2> QED
    BY <1>2, <1>3, <2>3, <2>4, <2>5, <2>6, <2>7, <2>8, <2>9, <2>10, <2>11
       DEF Next, Step, SendOtp, Expire, vars
<1>4. IInv /\ J /\ [Next]_vars => J'
  BY <1>3
<1> QED BY <1>1, <1>4, Invariant, PTL DEF Spec

\* The row a setup has read is still waiting for its confirmation.
ReadIsInactive ==
  \A r \in Req : At(r, "setupWrite") /\ req[r].seen # NULL =>
    \A s \in secrets : s.row = req[r].seen => ~s.active

\* With one request at a time a confirmed secret stays as it is until its method is disabled:
\* setupTotp replaces only rows it has found inactive, so it takes a confirmation between its
\* read and its write to lose one (otp.service.ts:67).
THEOREM OneAtATimeKeepsActive ==
  ASSUME Cardinality(Req) = 1
  PROVE  Spec => [][\A s \in secrets :
                      s.active => s \in secrets' \/ \E r \in Req : DisableTotp(r)]_vars
<1> DEFINE Kept == \A s \in secrets : s.active => s \in secrets' \/ \E r \in Req : DisableTotp(r)
<1>1. Init => ReadIsInactive
  BY DEF Init, ReadIsInactive
<1>2. PICK only : Req = {only}
  BY BoundsAssumption, FS_Singleton
<1>3. ASSUME IInv, ReadIsInactive, [Next]_vars PROVE ReadIsInactive' /\ Kept
  <2> USE DEF IInv, TypeOK
  <2>1. ASSUME req'[only].pc # "setupWrite" PROVE ReadIsInactive'
    BY <1>2, <2>1 DEF ReadIsInactive
  <2>2. ASSUME Return(only), UNCHANGED secrets PROVE ReadIsInactive' /\ Kept
    BY <1>2, <1>3, <2>1, <2>2
  <2>3. CASE SetupRead(only)
    <3>1. \/ req'[only].seen = NULL
          \/ \E s \in secrets : ~s.active /\ req'[only].seen = s.row
      BY <1>2, <1>3, <2>3 DEF SetupRead
    <3>2. \A s, u \in secrets : s = u
      BY <1>3
    <3> QED BY <1>2, <2>3, <3>1, <3>2 DEF SetupRead, ReadIsInactive
  <2>4. CASE SetupCreate(only)
    <3>1. Return(only) /\ secrets = {}
      BY <2>4 DEF SetupCreate
    <3> QED BY <1>2, <1>3, <2>1, <3>1
  <2>5. CASE SetupReplace(only)
    <3>1. Return(only) /\ At(only, "setupWrite")
      BY <2>5 DEF SetupReplace
    <3>2. PICK s \in secrets : s.row = req[only].seen
      BY <2>5 DEF SetupReplace
    <3>3. req[only].seen # NULL
      BY <1>3, <3>2, NullAssumption
    <3>4. ~s.active
      BY <1>2, <1>3, <3>1, <3>2, <3>3 DEF ReadIsInactive
    <3>5. \A u \in secrets : u = s
      BY <1>3
    <3> QED BY <1>2, <1>3, <2>1, <3>1, <3>4, <3>5
  <2>6. ASSUME NEW g \in Gen, ConfirmRead(only, g) PROVE ReadIsInactive' /\ Kept
    BY <1>2, <1>3, <2>1, <2>6 DEF ConfirmRead
  <2>7. CASE ConfirmWrite(only)
    <3>1. Return(only)
      BY <2>7 DEF ConfirmWrite
    <3>2. PICK s \in secrets : secrets' = {[row |-> s.row, gen |-> s.gen, active |-> TRUE]}
      BY <2>7 DEF ConfirmWrite
    <3>3. \A u \in secrets : u = s
      BY <1>3
    <3>4. s.active => s = [row |-> s.row, gen |-> s.gen, active |-> TRUE]
      BY <1>3
    <3>5. \A u \in secrets : u.active => u \in secrets'
      BY <3>2, <3>3, <3>4
    <3>6. ReadIsInactive'
      BY <2>1, <1>2, <3>1, <1>3
    <3> QED BY <3>5, <3>6
  <2>8. CASE \E g \in Gen, then \in Then : VerifyTotp(only, g, then)
    BY <1>2, <1>3, <2>1, <2>8 DEF VerifyTotp
  <2>9. ASSUME NEW c, NEW methods, NEW then,
               VerifyCode(only, c, methods, then) \/ VerifyBackup(only, c)
        PROVE  ReadIsInactive' /\ Kept
    BY <1>2, <1>3, <2>1, <2>9 DEF VerifyCode, VerifyBackup
  <2>10. CASE UseCode(only)
    BY <1>2, <1>3, <2>1, <2>10 DEF UseCode
  <2>11. CASE DisableTotp(only)
    BY <1>2, <1>3, <2>1, <2>11 DEF DisableTotp
  <2>12. CASE DisableChannel(only) \/ RegenerateBackupCodes(only) \/ Conflict(only) \/ Abort(only)
    BY <1>2, <1>3, <2>2, <2>12 DEF DisableChannel, RegenerateBackupCodes, Conflict, Abort
  <2>13. CASE UNCHANGED <<secrets, req>>
    BY <1>3, <2>13 DEF ReadIsInactive
  <2> HIDE DEF Kept
  <2> QED
    BY <1>2, <1>3, <2>3, <2>4, <2>5, <2>6, <2>7, <2>8, <2>9, <2>10, <2>11, <2>12, <2>13
       DEF Next, Step, SendOtp, Expire, vars
<1>4. IInv /\ ReadIsInactive /\ [Next]_vars => ReadIsInactive' /\ [Kept]_vars
  BY <1>3
<1> QED BY <1>1, <1>4, Invariant, PTL DEF Spec
================================================================================
