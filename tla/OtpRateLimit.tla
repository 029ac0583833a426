------------------------------ MODULE OtpRateLimit ------------------------------
(****************************************************************************)
(* The attempt limit of OtpService (nestjs-otp/src/otp.service.ts):         *)
(* checkRateLimit decides from the failed OtpAttempt rows whether a         *)
(* verification may go ahead, and verifyOtp records its outcome afterwards. *)
(* Counting, looking up the last attempt and recording are separate awaits, *)
(* so several verifications of one user overlap.                            *)
(*                                                                          *)
(* Only failed rows are ever queried, and only by user, method and age: a   *)
(* row of the table is its label, its age in seconds and its number among   *)
(* the rows of that label and second.                                       *)
(* Rows older than both intervals answer no query differently from no row.  *)
(****************************************************************************)
EXTENDS Integers, FiniteSets

CONSTANTS
  Method,          \* methods a verification can name
  MaxAttempts,     \* rateLimiting.maxAttempts
  WindowSeconds,   \* rateLimiting.windowSeconds
  LockoutSeconds,  \* rateLimiting.lockoutSeconds
  Req              \* slots for concurrent verifications

ASSUME LimitsAssumption ==
  /\ MaxAttempts \in Nat \ {0} /\ WindowSeconds \in Nat /\ LockoutSeconds \in Nat
ASSUME LabelAssumption == {"any", "unknown"} \cap Method = {}
ASSUME ReqAssumption == IsFiniteSet(Req)

\* A verification that names no method counts attempts of any label, and its own
\* failure is labelled "unknown".
Asked == Method \cup {"any"}
Label == Method \cup {"unknown"}
Counts(m) == IF m = "any" THEN Label ELSE {m}
LabelOf(m) == IF m = "any" THEN "unknown" ELSE m

Oldest == IF WindowSeconds < LockoutSeconds THEN LockoutSeconds ELSE WindowSeconds
Age == 0 .. Oldest

VARIABLES
  failed,    \* the OtpAttempt rows that failed: [label, age, nth]
  req        \* what each verification is doing

vars == <<failed, req>>

Idle == [pc |-> "idle", method |-> "any"]

Init ==
  /\ failed = {}
  /\ req = [r \in Req |-> Idle]

\* The rows that the count finds.
Recent(labels) == {x \in failed : x.label \in labels /\ x.age <= WindowSeconds}
InWindow(labels) == Cardinality(Recent(labels))

\* The youngest failed row of those labels is younger than the lockout.
LastIsRecent(labels) == \E x \in failed : x.label \in labels /\ x.age < LockoutSeconds

At(r, pc) == req[r].pc = pc
Return(r) == req' = [req EXCEPT ![r] = Idle]
Goto(r, pc, m) == req' = [req EXCEPT ![r] = [pc |-> pc, method |-> m]]

--------------------------------------------------------------------------------
\* Variant of CountBelow: the limit is compared with > instead of >=.
CountNotAbove(r, m) ==
  /\ req[r] = Idle
  /\ InWindow(Counts(m)) <= MaxAttempts
  /\ Goto(r, "verify", m)
  /\ UNCHANGED failed

\* checkRateLimit, the count: below the limit the verification goes ahead.
CountBelow(r, m) ==
  /\ req[r] = Idle
  /\ InWindow(Counts(m)) < MaxAttempts
  /\ Goto(r, "verify", m)
  /\ UNCHANGED failed

CountReached(r, m) ==
  /\ req[r] = Idle
  /\ InWindow(Counts(m)) >= MaxAttempts
  /\ Goto(r, "last", m)
  /\ UNCHANGED failed

\* Variant of Refuse: a refusal also leaves a failed attempt.
RefuseRecorded(r) ==
  /\ At(r, "last")
  /\ LastIsRecent(Counts(req[r].method))
  /\ failed' = failed \cup {[label |-> LabelOf(req[r].method), age |-> 0, nth |-> 1]}
  /\ Return(r)

\* checkRateLimit, the last attempt: refuse while it is within the lockout.
Refuse(r) ==
  /\ At(r, "last")
  /\ LastIsRecent(Counts(req[r].method))
  /\ Return(r)
  /\ UNCHANGED failed

LockoutOver(r) ==
  /\ At(r, "last")
  /\ ~LastIsRecent(Counts(req[r].method))
  /\ Goto(r, "verify", req[r].method)
  /\ UNCHANGED failed

\* The row that a failure of that label leaves now.
InSecond(l, a) == {x \in failed : x.label = l /\ x.age = a}
NewRow(l) == [label |-> l, age |-> 0, nth |-> Cardinality(InSecond(l, 0)) + 1]

\* verifyOtp, a wrong code: recordAttempt adds a failed row.
RecordFailure(r) ==
  /\ At(r, "verify")
  /\ failed' = failed \cup {NewRow(LabelOf(req[r].method))}
  /\ Return(r)

\* A right code, whose row no query counts; or a sendOtp, which checks the limit and
\* records nothing; or the row could not be written, an error
\* recordAttempt swallows; or the instance died.
FinishUncounted(r) ==
  /\ ~At(r, "idle")
  /\ Return(r)
  /\ UNCHANGED failed

Older(x) == [x EXCEPT !.age = @ + 1]

Tick ==
  /\ failed' = {Older(x) : x \in {y \in failed : y.age < Oldest}}
  /\ UNCHANGED req

--------------------------------------------------------------------------------
Settle(r) == Refuse(r) \/ LockoutOver(r) \/ RecordFailure(r) \/ FinishUncounted(r)

Next ==
  \/ \E r \in Req, m \in Asked : CountBelow(r, m) \/ CountReached(r, m)
  \/ \E r \in Req : Settle(r)
  \/ Tick

Spec == Init /\ [][Next]_vars

\* Time passes, and every awaited call settles; nobody is obliged to try again.
FairSpec == Spec /\ WF_vars(Tick) /\ \A r \in Req : WF_vars(Settle(r))

--------------------------------------------------------------------------------
(* Properties. *)

Verifying(l) == {r \in Req : At(r, "verify") /\ LabelOf(req[r].method) = l}

Most == MaxAttempts - 1 + Cardinality(Req)

\* The tables keep their shape: the rows of a label and second are numbered from one, and
\* where there is a lockout no second collects more of them than Most.
TypeOK ==
  /\ failed \subseteq [label : Label, age : Age, nth : Nat \ {0}]
  /\ \A x \in failed : \A n \in 1 .. x.nth : [x EXCEPT !.nth = n] \in failed
  /\ LockoutSeconds > 0 => \A x \in failed : x.nth <= Most
  /\ req \in [Req -> [pc : {"idle", "last", "verify"}, method : Asked]]

\* What the limit really limits.  The count is read before the attempts in flight are
\* recorded, so maxAttempts can be passed - by no more than the verifications that run at
\* once: no window, or no lockout if that is shorter, sees a label collect more failures.
WindowBound ==
  \A l \in Label :
    Cardinality({x \in Recent({l}) : x.age < LockoutSeconds}) + Cardinality(Verifying(l)) <= Most

\* What checkRateLimit refuses.
Locked(m) == InWindow({m}) >= MaxAttempts /\ LastIsRecent({m})

\* A refused verification is not itself an attempt: a method that is locked is open
\* again some time later, however often it is tried meanwhile.
LockoutEnds == \A m \in Method : Locked(m) ~> ~Locked(m)

\* Some attempt of the last lockoutSeconds was the one that reached maxAttempts.
ReachedLimit(m) ==
  \E x \in failed :
    /\ x.label = m /\ x.age < LockoutSeconds
    /\ Cardinality({y \in failed : y.label = m /\ y.age \in x.age .. x.age + WindowSeconds})
         >= MaxAttempts

\* README: lockoutSeconds is the "Lockout duration after max attempts" - so for that
\* long after the attempt that reached the limit, checkRateLimit refuses.
LockoutLasts == \A m \in Method : ReachedLimit(m) => Locked(m)
================================================================================
