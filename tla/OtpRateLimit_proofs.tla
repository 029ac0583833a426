-------------------------- MODULE OtpRateLimit_proofs --------------------------
(* What holds of OtpRateLimit for every limit, window and lockout, and for every  *)
(* number of methods and of verifications at once.                                *)
EXTENDS OtpRateLimit, FiniteSetTheorems, TLAPS

Row == [label : Label, age : Age, nth : Nat \ {0}]
ReqType == [pc : {"idle", "last", "verify"}, method : Asked]

\* The rows of a label and second are numbered from one without a gap.
Numbered == \A x \in failed : \A n \in 1 .. x.nth : [x EXCEPT !.nth = n] \in failed

\* The rows that a count finds and a lockout waits for.
Guarded(l) == {x \in Recent({l}) : x.age < LockoutSeconds}

Shape ==
  /\ failed \subseteq Row /\ IsFiniteSet(failed)
  /\ req \in [Req -> ReqType]

NumbersBounded == LockoutSeconds > 0 => \A x \in failed : x.nth <= Most

IInv == Shape /\ Numbered /\ NumbersBounded /\ WindowBound

--------------------------------------------------------------------------------
(* Labels and counts. *)

LEMMA LimitFacts ==
  /\ MaxAttempts \in Nat \ {0} /\ WindowSeconds \in Nat /\ LockoutSeconds \in Nat
  /\ Oldest \in Nat /\ WindowSeconds <= Oldest /\ LockoutSeconds <= Oldest
  /\ 0 \in Age
BY LimitsAssumption DEF Oldest, Age

\* A method is counted by its own rows and by those who ask for any; its failures are its own.
LEMMA LabelFacts ==
  ASSUME NEW m \in Asked
  PROVE  /\ LabelOf(m) \in Label /\ LabelOf(m) \in Counts(m) /\ Counts(m) \subseteq Label
         /\ \A k \in Method : LabelOf(m) = k <=> m = k
         /\ \A k \in Method : m \in {k, "any"} => k \in Counts(m)
BY LabelAssumption DEF Asked, Label, LabelOf, Counts

\* The sets that are counted are finite, and a part counts no more than the whole.
LEMMA RowCounts ==
  ASSUME Shape, NEW S \in SUBSET failed
  PROVE  /\ IsFiniteSet(S) /\ Cardinality(S) \in Nat
         /\ \A T \in SUBSET S : Cardinality(T) \in Nat /\ Cardinality(T) <= Cardinality(S)
<1>1. IsFiniteSet(S)
  BY FS_Subset DEF Shape
<1> QED BY <1>1, FS_Subset, FS_CardinalityType

LEMMA SlotCounts ==
  ASSUME NEW S \in SUBSET Req
  PROVE  /\ IsFiniteSet(S) /\ Cardinality(S) \in Nat
         /\ Cardinality(Req) \in Nat /\ Cardinality(S) <= Cardinality(Req)
BY ReqAssumption, FS_Subset, FS_CardinalityType

LEMMA MostFacts == Most \in Nat /\ Most >= Cardinality(Req) /\ Most - (MaxAttempts - 1) = Cardinality(Req)
BY LimitFacts, SlotCounts DEF Most

\* The new row is of its label and of now, and it was not there: every failure counts.
LEMMA NewRowIsNew ==
  ASSUME Shape, Numbered, NEW l \in Label
  PROVE  /\ NewRow(l) \in Row /\ NewRow(l) \notin failed
         /\ NewRow(l).label = l /\ NewRow(l).age = 0
         /\ NewRow(l).nth = Cardinality(InSecond(l, 0)) + 1
<1> DEFINE S == InSecond(l, 0)
           k == Cardinality(S)
<1>1. IsFiniteSet(S) /\ k \in Nat
  BY RowCounts DEF InSecond
<1>2. NewRow(l) \in Row /\ NewRow(l) = [label |-> l, age |-> 0, nth |-> k + 1]
  BY <1>1, LimitFacts DEF NewRow, Row
<1>3. ASSUME NewRow(l) \in failed PROVE FALSE
  <2> DEFINE f == [n \in 1 .. k + 1 |-> [label |-> l, age |-> 0, nth |-> n]]
  <2>1. \A n \in 1 .. k + 1 : [label |-> l, age |-> 0, nth |-> n] \in failed
    BY <1>1, <1>2, <1>3 DEF Numbered
  <2>2. \A n \in 1 .. k + 1 : f[n] \in S
    BY <2>1 DEF InSecond
  <2>3. f \in Injection(1 .. k + 1, S)
    <3>1. f \in [1 .. k + 1 -> S]
      BY <2>2
    <3>2. \A n \in 1 .. k + 1 : f[n].nth = n
      OBVIOUS
    <3> HIDE DEF f
    <3> QED BY <3>1, <3>2 DEF Injection, IsInjective
  <2>4. Cardinality(1 .. k + 1) <= k
    BY <1>1, <2>3, FS_Injection
  <2>5. Cardinality(1 .. k + 1) = k + 1
    BY <1>1, FS_Interval
  <2> QED BY <1>1, <2>4, <2>5
<1> QED BY <1>2, <1>3

--------------------------------------------------------------------------------
(* The invariant, step by step. *)

LEMMA InitIInv == Init => IInv
<1> SUFFICES ASSUME Init PROVE IInv
  OBVIOUS
<1>1. Shape
  BY FS_EmptySet DEF Init, Shape, Idle, ReqType, Asked
<1>2. Numbered /\ NumbersBounded
  BY DEF Init, Numbered, NumbersBounded
<1>3. WindowBound
  <2> SUFFICES ASSUME NEW l \in Label
               PROVE  Cardinality(Guarded(l)) + Cardinality(Verifying(l)) <= Most
    BY DEF WindowBound, Guarded
  <2>1. Guarded(l) = {} /\ Verifying(l) = {}
    BY DEF Init, Guarded, Recent, Verifying, At, Idle
  <2> QED BY <2>1, FS_EmptySet, MostFacts
<1> QED BY <1>1, <1>2, <1>3 DEF IInv

\* A step that leaves the rows and lets no verification begin keeps the bound.
LEMMA NobodyBegins ==
  ASSUME IInv, UNCHANGED failed, req' \in [Req -> ReqType],
         \A l \in Label : Verifying(l)' \subseteq Verifying(l)
  PROVE  IInv'
<1>1. ASSUME NEW l \in Label
      PROVE  (Cardinality(Guarded(l)) + Cardinality(Verifying(l)) <= Most)'
  <2>1. Guarded(l)' = Guarded(l)
    BY DEF Guarded, Recent
  <2>2. Cardinality(Verifying(l)') <= Cardinality(Verifying(l))
    BY SlotCounts, FS_Subset DEF Verifying
  <2>3. Cardinality(Verifying(l)) \in Nat /\ Cardinality(Verifying(l)') \in Nat
    BY SlotCounts DEF Verifying
  <2>4. Cardinality(Guarded(l)) \in Nat
    BY RowCounts DEF IInv, Guarded, Recent
  <2>5. Cardinality(Guarded(l)) + Cardinality(Verifying(l)) <= Most
    BY DEF IInv, WindowBound, Guarded
  <2> QED BY <2>1, <2>2, <2>3, <2>4, <2>5, MostFacts DEF Most
<1> QED BY <1>1 DEF IInv, Shape, Numbered, NumbersBounded, WindowBound, Guarded, Most

\* A verification may begin where the guarded rows leave room for every slot.
LEMMA OneBegins ==
  ASSUME IInv, NEW r \in Req, NEW m \in Asked, Goto(r, "verify", m), UNCHANGED failed,
         Cardinality(Guarded(LabelOf(m))) <= MaxAttempts - 1
  PROVE  IInv'
<1>1. req' \in [Req -> ReqType]
  BY DEF IInv, Shape, Goto, ReqType
<1>2. \A q \in Req \ {r} : req'[q] = req[q]
  BY DEF Goto, IInv, Shape
<1>3. ASSUME NEW l \in Label
      PROVE  (Cardinality(Guarded(l)) + Cardinality(Verifying(l)) <= Most)'
  <2>1. Guarded(l)' = Guarded(l) /\ Cardinality(Guarded(l)) \in Nat
    BY RowCounts DEF IInv, Guarded, Recent
  <2>2. CASE l = LabelOf(m)
    <3>1. Cardinality(Verifying(l)') \in Nat /\ Cardinality(Verifying(l)') <= Cardinality(Req)
      BY SlotCounts DEF Verifying
    <3> QED BY <2>1, <2>2, <3>1, MostFacts, LimitFacts, SlotCounts DEF Most
  <2>3. CASE l # LabelOf(m)
    <3>1. Verifying(l)' \subseteq Verifying(l)
      BY <1>2, <2>3 DEF Verifying, At, Goto, IInv, Shape
    <3>2. /\ Cardinality(Verifying(l)') <= Cardinality(Verifying(l))
          /\ Cardinality(Verifying(l)) \in Nat /\ Cardinality(Verifying(l)') \in Nat
      BY <3>1, SlotCounts, FS_Subset DEF Verifying
    <3>3. Cardinality(Guarded(l)) + Cardinality(Verifying(l)) <= Most
      BY DEF IInv, WindowBound, Guarded
    <3> QED BY <2>1, <3>2, <3>3, MostFacts DEF Most
  <2> QED BY <2>2, <2>3
<1> QED BY <1>1, <1>3 DEF IInv, Shape, Numbered, NumbersBounded, WindowBound, Guarded, Most

\* Below the limit there is room: what is guarded is a part of what was counted.
LEMMA CountBelowKeeps ==
  ASSUME IInv, NEW r \in Req, NEW m \in Asked, CountBelow(r, m)
  PROVE  IInv'
<1>1. Guarded(LabelOf(m)) \subseteq Recent(Counts(m)) /\ Recent(Counts(m)) \subseteq failed
  BY LabelFacts DEF Guarded, Recent
<1>2. Cardinality(Guarded(LabelOf(m))) <= Cardinality(Recent(Counts(m)))
      /\ Cardinality(Guarded(LabelOf(m))) \in Nat /\ Cardinality(Recent(Counts(m))) \in Nat
  BY <1>1, RowCounts DEF IInv
<1>3. Cardinality(Guarded(LabelOf(m))) <= MaxAttempts - 1
  BY <1>2, LimitFacts DEF CountBelow, InWindow
<1> QED BY <1>3, OneBegins DEF CountBelow

\* Once the lockout is over nothing is guarded any more.
LEMMA LockoutOverKeeps ==
  ASSUME IInv, NEW r \in Req, LockoutOver(r)
  PROVE  IInv'
<1> DEFINE m == req[r].method
<1>1. m \in Asked
  BY DEF IInv, Shape, ReqType
<1>2. Guarded(LabelOf(m)) = {}
  BY <1>1, LabelFacts DEF LockoutOver, LastIsRecent, Guarded, Recent
<1>3. Cardinality(Guarded(LabelOf(m))) <= MaxAttempts - 1
  BY <1>2, FS_EmptySet, LimitFacts
<1> QED BY <1>1, <1>3, OneBegins DEF LockoutOver

LEMMA QuietKeeps ==
  ASSUME IInv, NEW r \in Req,
         (\E m \in Asked : CountReached(r, m)) \/ Refuse(r) \/ FinishUncounted(r)
  PROVE  IInv'
<1>1. UNCHANGED failed
  BY DEF CountReached, Refuse, FinishUncounted
<1>2. PICK x \in ReqType : req' = [req EXCEPT ![r] = x] /\ x.pc # "verify"
  <2>1. Idle \in ReqType /\ Idle.pc # "verify"
    BY DEF Idle, ReqType, Asked
  <2>2. \A m \in Asked : [pc |-> "last", method |-> m] \in ReqType
    BY DEF ReqType
  <2> QED BY <2>1, <2>2 DEF CountReached, Refuse, FinishUncounted, Goto, Return
<1>3. req' \in [Req -> ReqType] /\ \A l \in Label : Verifying(l)' \subseteq Verifying(l)
  BY <1>2 DEF IInv, Shape, Verifying, At
<1> QED BY <1>1, <1>3, NobodyBegins

\* A failure turns one that was verifying into one row.
LEMMA RecordFailureKeeps ==
  ASSUME IInv, NEW r \in Req, RecordFailure(r)
  PROVE  IInv'
<1>0. PICK k \in Label : k = LabelOf(req[r].method) /\ r \in Verifying(k)
  BY LabelFacts DEF IInv, Shape, ReqType, RecordFailure, Verifying, At
<1> DEFINE new == NewRow(k)
<1>1. new \in Row /\ new \notin failed /\ new.label = k /\ new.age = 0
      /\ new.nth = Cardinality(InSecond(k, 0)) + 1
  BY <1>0, NewRowIsNew DEF IInv
<1>2. failed' = failed \cup {new} /\ req' = [req EXCEPT ![r] = Idle]
  BY <1>0 DEF RecordFailure, Return
<1> HIDE DEF new
<1>3. Shape'
  <2>1. Idle \in ReqType
    BY DEF Idle, ReqType, Asked
  <2> QED BY <1>1, <1>2, <2>1, FS_AddElement DEF IInv, Shape
<1>4. /\ Verifying(k)' = Verifying(k) \ {r}
      /\ \A l \in Label \ {k} : Verifying(l)' = Verifying(l)
  <2>1. req'[r].pc # "verify" /\ \A q \in Req \ {r} : req'[q] = req[q]
    BY <1>2 DEF IInv, Shape, Idle
  <2>2. \A q \in Verifying(k)' : q \in Verifying(k) \ {r}
    BY <2>1 DEF Verifying, At
  <2>3. \A q \in Verifying(k) \ {r} : q \in Verifying(k)'
    BY <2>1 DEF Verifying, At
  <2>4. \A l \in Label \ {k} : r \notin Verifying(l) /\ r \notin Verifying(l)'
    BY <1>0, <2>1 DEF Verifying, At
  <2>5. \A l \in Label \ {k} : \A q \in Req \ {r} : q \in Verifying(l)' <=> q \in Verifying(l)
    BY <2>1 DEF Verifying, At
  <2>6. \A l \in Label : Verifying(l) \subseteq Req /\ Verifying(l)' \subseteq Req
    BY DEF Verifying
  <2> QED BY <2>2, <2>3, <2>4, <2>5, <2>6
<1>5. ASSUME NEW l \in Label
      PROVE  (Cardinality(Guarded(l)) + Cardinality(Verifying(l)) <= Most)'
  <2>1. Guarded(l) \subseteq failed /\ Cardinality(Guarded(l)) \in Nat /\ IsFiniteSet(Guarded(l))
    BY RowCounts DEF IInv, Guarded, Recent
  <2>2. Cardinality(Verifying(l)) \in Nat /\ IsFiniteSet(Verifying(l))
    BY SlotCounts DEF Verifying
  <2>3. Cardinality(Guarded(l)) + Cardinality(Verifying(l)) <= Most
    BY DEF IInv, WindowBound, Guarded
  <2>4. CASE l = k
    <3>1. Cardinality(Verifying(l)') = Cardinality(Verifying(l)) - 1
      <4>1. Verifying(l)' = Verifying(l) \ {r} /\ r \in Verifying(l)
        BY <1>0, <1>4, <2>4
      <4> QED BY <4>1, <2>2, FS_RemoveElement
    <3>2. Guarded(l)' \subseteq Guarded(l) \cup {new}
      BY <1>2 DEF Guarded, Recent
    <3>3. /\ IsFiniteSet(Guarded(l) \cup {new})
          /\ Cardinality(Guarded(l) \cup {new}) \in Nat
          /\ Cardinality(Guarded(l) \cup {new}) <= Cardinality(Guarded(l)) + 1
      <4>1. CASE new \in Guarded(l)
        <5>1. Guarded(l) \cup {new} = Guarded(l)
          BY <4>1
        <5>2. \A n \in Nat : n <= n + 1
          OBVIOUS
        <5> QED BY <2>1, <5>1, <5>2
      <4>2. CASE new \notin Guarded(l)
        BY <2>1, <4>2, FS_AddElement
      <4> QED BY <4>1, <4>2
    <3>4. Cardinality(Guarded(l)') <= Cardinality(Guarded(l)) + 1 /\ Cardinality(Guarded(l)') \in Nat
      BY <2>1, <3>2, <3>3, FS_Subset, FS_CardinalityType
    <3> QED BY <2>1, <2>2, <2>3, <3>1, <3>4, MostFacts DEF Most
  <2>5. CASE l # k
    <3>1. Guarded(l)' = Guarded(l)
      BY <1>1, <1>2, <2>5 DEF Guarded, Recent
    <3> QED BY <1>4, <2>3, <2>5, <3>1 DEF Most
  <2> QED BY <2>4, <2>5
<1>6. Numbered'
  <2> SUFFICES ASSUME NEW x \in failed', NEW n \in 1 .. x.nth
               PROVE  [x EXCEPT !.nth = n] \in failed'
    BY DEF Numbered
  <2>1. CASE x \in failed
    BY <1>2, <2>1 DEF IInv, Numbered
  <2>2. CASE x = new
    <3> DEFINE S == InSecond(k, 0)
               c == Cardinality(S)
    <3>1. IsFiniteSet(S) /\ c \in Nat
      BY RowCounts DEF IInv, InSecond
    <3>2. CASE n = c + 1
      BY <1>1, <1>2, <2>2, <3>2 DEF Row
    <3>3. CASE n # c + 1
      <4>1. n \in 1 .. c /\ [x EXCEPT !.nth = n] = [label |-> k, age |-> 0, nth |-> n]
        BY <1>1, <2>2, <3>1, <3>3 DEF Row
      <4>2. \E y \in S : y.nth >= n
        <5> SUFFICES ASSUME \A y \in S : y.nth < n PROVE FALSE
          BY <3>1, <4>1 DEF IInv, Shape, Row, InSecond
        <5> DEFINE g == [y \in S |-> y.nth]
        <5>1. \A y \in S : y \in Row /\ y.label = k /\ y.age = 0 /\ y.nth \in 1 .. n - 1
          BY <4>1 DEF IInv, Shape, Row, InSecond
        <5>2. g \in Injection(S, 1 .. n - 1)
          <6>1. g \in [S -> 1 .. n - 1]
            BY <5>1
          <6>2. \A y, z \in S : g[y] = g[z] => y = z
            BY <5>1 DEF Row
          <6> HIDE DEF g
          <6> QED BY <6>1, <6>2 DEF Injection, IsInjective
        <5>3. IsFiniteSet(1 .. n - 1) /\ Cardinality(1 .. n - 1) = n - 1
          BY <4>1, FS_Interval
        <5>4. c <= n - 1
          BY <5>2, <5>3, FS_Injection
        <5> QED BY <3>1, <4>1, <5>4
      <4>3. PICK y \in S : y.nth >= n
        BY <4>2
      <4>4. y \in failed /\ y = [label |-> k, age |-> 0, nth |-> y.nth] /\ n \in 1 .. y.nth
        BY <4>1, <4>3 DEF IInv, Shape, Row, InSecond
      <4>5. [y EXCEPT !.nth = n] = [label |-> k, age |-> 0, nth |-> n]
        BY <4>4
      <4> QED BY <1>2, <4>1, <4>4, <4>5 DEF IInv, Numbered
    <3> QED BY <3>2, <3>3
  <2> QED BY <1>2, <2>1, <2>2
<1>7. NumbersBounded'
  <2> SUFFICES ASSUME LockoutSeconds > 0 PROVE new.nth <= Most
    BY <1>2 DEF IInv, NumbersBounded, Most
  <2>1. InSecond(k, 0) \subseteq Guarded(k) /\ Guarded(k) \subseteq failed
    BY LimitFacts DEF InSecond, Guarded, Recent
  <2>2. /\ Cardinality(InSecond(k, 0)) <= Cardinality(Guarded(k))
        /\ Cardinality(InSecond(k, 0)) \in Nat /\ Cardinality(Guarded(k)) \in Nat
    BY <2>1, RowCounts DEF IInv
  <2>3. Cardinality(Verifying(k)) \in Nat /\ Cardinality(Verifying(k)) >= 1
    <3>1. IsFiniteSet(Verifying(k)) /\ Cardinality(Verifying(k)) \in Nat
      BY SlotCounts DEF Verifying
    <3> QED BY <1>0, <3>1, FS_EmptySet
  <2>4. Cardinality(Guarded(k)) + Cardinality(Verifying(k)) <= Most
    BY <1>0 DEF IInv, WindowBound, Guarded
  <2> QED BY <1>1, <2>2, <2>3, <2>4, MostFacts
<1> QED BY <1>3, <1>5, <1>6, <1>7 DEF IInv, WindowBound, Guarded

\* A second passes: each guarded row was one a second ago.
LEMMA TickKeeps ==
  ASSUME IInv, Tick
  PROVE  IInv'
<1> DEFINE Kept == {y \in failed : y.age < Oldest}
<1>1. failed' = {Older(x) : x \in Kept} /\ UNCHANGED req
  BY DEF Tick
<1>2. \A x \in Kept : /\ Older(x) \in Row /\ Older(x).label = x.label
                      /\ Older(x).age = x.age + 1 /\ Older(x).nth = x.nth
  BY LimitFacts DEF IInv, Shape, Row, Older, Age
<1>3. \A x, y \in Kept : Older(x) = Older(y) => x = y
  BY <1>2 DEF IInv, Shape, Row, Age
<1>4. Shape'
  <2> DEFINE f == [x \in Kept |-> Older(x)]
  <2>1. f \in Surjection(Kept, failed')
    BY <1>1 DEF Surjection
  <2>2. IsFiniteSet(Kept)
    BY FS_Subset DEF IInv, Shape
  <2>3. IsFiniteSet(failed')
    BY <2>1, <2>2, FS_Surjection
  <2> QED BY <1>1, <1>2, <2>3 DEF IInv, Shape
<1>5. ASSUME NEW l \in Label
      PROVE  (Cardinality(Guarded(l)) + Cardinality(Verifying(l)) <= Most)'
  <2> DEFINE S == {x \in Kept : Older(x) \in Guarded(l)'}
             f == [x \in S |-> Older(x)]
  <2>1. f \in Surjection(S, Guarded(l)')
    <3>1. \A y \in Guarded(l)' : \E x \in S : f[x] = y
      BY <1>1 DEF Guarded, Recent
    <3> QED BY <3>1 DEF Surjection
  <2>2. S \subseteq Guarded(l)
    BY <1>2, LimitFacts DEF Guarded, Recent, IInv, Shape, Row, Age
  <2>3. /\ IsFiniteSet(S) /\ Cardinality(S) \in Nat /\ Cardinality(Guarded(l)) \in Nat
        /\ Cardinality(S) <= Cardinality(Guarded(l))
    <3>1. Guarded(l) \subseteq failed
      BY DEF Guarded, Recent
    <3> QED BY <2>2, <3>1, RowCounts DEF IInv
  <2>4. Cardinality(Guarded(l)') <= Cardinality(S) /\ IsFiniteSet(Guarded(l)')
    BY <2>1, <2>3, FS_Surjection
  <2>5. Cardinality(Guarded(l)') \in Nat
    BY <2>4, FS_CardinalityType
  <2>6. Verifying(l)' = Verifying(l) /\ Cardinality(Verifying(l)) \in Nat
    BY <1>1, SlotCounts DEF Verifying, At
  <2>7. Cardinality(Guarded(l)) + Cardinality(Verifying(l)) <= Most
    BY DEF IInv, WindowBound, Guarded
  <2> QED BY <2>3, <2>4, <2>5, <2>6, <2>7, MostFacts DEF Most
<1>6. Numbered'
  <2> SUFFICES ASSUME NEW x \in Kept, NEW n \in 1 .. Older(x).nth
               PROVE  [Older(x) EXCEPT !.nth = n] \in failed'
    BY <1>1 DEF Numbered
  <2>1. [x EXCEPT !.nth = n] \in Kept
    BY <1>2 DEF IInv, Shape, Numbered, Row
  <2>2. Older([x EXCEPT !.nth = n]) = [Older(x) EXCEPT !.nth = n]
    BY DEF IInv, Shape, Row, Older
  <2> QED BY <1>1, <2>1, <2>2
<1>7. NumbersBounded'
  BY <1>1, <1>2 DEF IInv, NumbersBounded, Most
<1> QED BY <1>4, <1>5, <1>6, <1>7 DEF IInv, WindowBound, Guarded

LEMMA StepIInv == IInv /\ [Next]_vars => IInv'
<1> SUFFICES ASSUME IInv, [Next]_vars PROVE IInv'
  OBVIOUS
<1>1. ASSUME NEW r \in Req, NEW m \in Asked, CountBelow(r, m) \/ CountReached(r, m) PROVE IInv'
  BY <1>1, CountBelowKeeps, QuietKeeps
<1>2. ASSUME NEW r \in Req, Settle(r) PROVE IInv'
  BY <1>2, QuietKeeps, LockoutOverKeeps, RecordFailureKeeps DEF Settle
<1>3. CASE Tick
  BY <1>3, TickKeeps
<1>4. CASE UNCHANGED vars
  <2>1. req' \in [Req -> ReqType] /\ \A l \in Label : Verifying(l)' \subseteq Verifying(l)
    BY <1>4 DEF vars, IInv, Shape, Verifying, At
  <2> QED BY <1>4, <2>1, NobodyBegins DEF vars
<1> QED BY <1>1, <1>2, <1>3, <1>4 DEF Next

LEMMA AlwaysIInv == Spec => []IInv
BY InitIInv, StepIInv, PTL DEF Spec

--------------------------------------------------------------------------------
\* The rows of OtpAttempt keep their shape, and where there is a lockout no second collects
\* more failures of a label than Most, for every limit, window and lockout
\* (otp.service.ts, recordAttempt).
THEOREM TypeCorrect == Spec => []TypeOK
<1>1. IInv => TypeOK
  BY DEF IInv, Shape, Numbered, NumbersBounded, Row, ReqType, TypeOK
<1> QED BY <1>1, AlwaysIInv, PTL

\* No label collects more failures within the window, or the lockout if that is shorter,
\* than maxAttempts - 1 and one for each verification that can run at once, although
\* checkRateLimit counts before the others have recorded (otp.service.ts:450-495).
THEOREM AttemptsAreBounded == Spec => []WindowBound
<1>1. IInv => WindowBound
  BY DEF IInv
<1> QED BY <1>1, AlwaysIInv, PTL

\* With one verification at a time, and a lockout longer than the window as in the
\* defaults, the limit is maxAttempts: only verifications that overlap pass it.
THEOREM OneAtATimeIsLimited ==
  ASSUME Cardinality(Req) = 1, LockoutSeconds > WindowSeconds
  PROVE  Spec => [](\A l \in Label : InWindow({l}) <= MaxAttempts)
<1>1. IInv => \A l \in Label : InWindow({l}) <= MaxAttempts
  <2> SUFFICES ASSUME IInv, NEW l \in Label PROVE InWindow({l}) <= MaxAttempts
    OBVIOUS
  <2>1. Guarded(l) = Recent({l})
    BY LimitFacts DEF Guarded, Recent, IInv, Shape, Row, Age
  <2>2. Cardinality(Guarded(l)) + Cardinality(Verifying(l)) <= Most
    BY DEF IInv, WindowBound, Guarded
  <2>3. Cardinality(Guarded(l)) \in Nat /\ Cardinality(Verifying(l)) \in Nat
    BY RowCounts, SlotCounts DEF IInv, Guarded, Recent, Verifying
  <2>4. Most = MaxAttempts
    BY LimitFacts DEF Most
  <2> QED BY <2>1, <2>2, <2>3, <2>4, LimitFacts DEF InWindow
<1> QED BY <1>1, AlwaysIInv, PTL

--------------------------------------------------------------------------------
(* The lockout: who it keeps out, and that it runs out. *)

\* Nobody who counts the rows of a locked method starts verifying.
LEMMA LockedRefuses ==
  ASSUME IInv, [Next]_vars, NEW m \in Method, Locked(m),
         NEW r \in Req, At(r, "verify")', req'[r].method \in {m, "any"}
  PROVE  At(r, "verify") /\ req'[r] = req[r]
<1> DEFINE Counted(k) == m \in Counts(k)
<1>1. \A k \in Asked : k \in {m, "any"} => Counted(k)
  BY LabelFacts
<1>2. ASSUME NEW k \in Asked, Counted(k)
      PROVE  InWindow(Counts(k)) >= MaxAttempts /\ LastIsRecent(Counts(k))
  <2>1. Recent({m}) \subseteq Recent(Counts(k)) /\ Recent(Counts(k)) \subseteq failed
    BY <1>2 DEF Recent
  <2>2. /\ Cardinality(Recent({m})) <= Cardinality(Recent(Counts(k)))
        /\ Cardinality(Recent({m})) \in Nat /\ Cardinality(Recent(Counts(k))) \in Nat
    BY <2>1, RowCounts DEF IInv
  <2>3. InWindow(Counts(k)) >= MaxAttempts
    BY <2>2, LimitFacts DEF Locked, InWindow
  <2>4. LastIsRecent(Counts(k))
    BY <1>2 DEF Locked, LastIsRecent
  <2> QED BY <2>3, <2>4
<1>3. ASSUME NEW q \in Req, NEW k \in Asked, CountBelow(q, k) \/ CountReached(q, k)
      PROVE  At(r, "verify") /\ req'[r] = req[r]
  <2>1. CASE q # r
    BY <1>3, <2>1 DEF CountBelow, CountReached, Goto, IInv, Shape, At
  <2>2. CASE q = r
    <3>1. req'[r].method = k /\ CountBelow(q, k)
      BY <1>3, <2>2 DEF CountBelow, CountReached, Goto, IInv, Shape, At
    <3>2. InWindow(Counts(k)) \in Nat /\ InWindow(Counts(k)) >= MaxAttempts
      BY <1>1, <1>2, <3>1, RowCounts DEF IInv, InWindow, Recent
    <3> QED BY <3>1, <3>2, LimitFacts DEF CountBelow
  <2> QED BY <2>1, <2>2
<1>4. ASSUME NEW q \in Req, Settle(q)
      PROVE  At(r, "verify") /\ req'[r] = req[r]
  <2>1. CASE q # r
    BY <1>4, <2>1 DEF Settle, Refuse, LockoutOver, RecordFailure, FinishUncounted, Goto, Return,
                      IInv, Shape, At
  <2>2. CASE q = r
    <3>1. LockoutOver(r)
      BY <1>4, <2>2 DEF Settle, Refuse, RecordFailure, FinishUncounted, Return, IInv, Shape, At, Idle
    <3>2. req'[r].method = req[r].method /\ req[r].method \in Asked
      BY <3>1 DEF LockoutOver, Goto, IInv, Shape, ReqType
    <3> QED BY <1>1, <1>2, <3>1, <3>2 DEF LockoutOver
  <2> QED BY <2>1, <2>2
<1>5. CASE UNCHANGED req
  BY <1>5 DEF At
<1> QED BY <1>3, <1>4, <1>5 DEF Next, Tick, vars

\* While a method is locked nobody who names it, or names none, gets past checkRateLimit,
\* however many try at once and whatever the others record: only those let through before
\* go on (otp.service.ts:453-494).
THEOREM LockoutHolds ==
  Spec => [][\A m \in Method : Locked(m) =>
               \A r \in Req : /\ req'[r].method \in {m, "any"} /\ At(r, "verify")'
                              => At(r, "verify") /\ req'[r] = req[r]]_vars
<1>1. ASSUME IInv, [Next]_vars
      PROVE  [\A m \in Method : Locked(m) =>
                \A r \in Req : /\ req'[r].method \in {m, "any"} /\ At(r, "verify")'
                               => At(r, "verify") /\ req'[r] = req[r]]_vars
  BY <1>1, LockedRefuses DEF vars, At
<1> QED BY <1>1, AlwaysIInv, PTL DEF Spec

\* Nobody is verifying that method, and its failures are at least that old.
Quiet(m, a) == Verifying(m) = {} /\ \A x \in failed : x.label = m => x.age >= a

\* The bounds behind LockoutEnds.  While a method is locked no verification of it begins;
\* once those in flight are done its failures only grow older, a second at every tick,
\* whatever is tried meanwhile; and when they are as old as the lockout it is open.
THEOREM LockoutRunsOut ==
  Spec => /\ [][\A m \in Method : Locked(m) =>
                  /\ Verifying(m)' \subseteq Verifying(m)
                  /\ \A a \in Nat : Quiet(m, a) => Quiet(m, a)' /\ (Tick => Quiet(m, a + 1)')]_vars
          /\ [](\A m \in Method : Quiet(m, LockoutSeconds) => ~Locked(m))
<1> DEFINE Ages(m) == /\ Verifying(m)' \subseteq Verifying(m)
                      /\ \A a \in Nat : Quiet(m, a) => Quiet(m, a)' /\ (Tick => Quiet(m, a + 1)')
<1>1. ASSUME IInv, Next, NEW m \in Method, Locked(m) PROVE Ages(m)
  <2>1. Verifying(m)' \subseteq Verifying(m)
    <3>1. \A k \in Asked : LabelOf(k) = m => k = m
      BY LabelFacts
    <3>2. \A r \in Verifying(m)' : req'[r].method = m /\ At(r, "verify")'
      BY <1>1, <3>1, StepIInv DEF Verifying, IInv, Shape, ReqType
    <3>3. \A r \in Verifying(m)' : r \in Req /\ req'[r] = req[r] /\ At(r, "verify")
      BY <1>1, <3>2, LockedRefuses DEF Verifying, At
    <3> QED BY <3>3 DEF Verifying
  <2>2. ASSUME NEW a \in Nat, Quiet(m, a) PROVE Quiet(m, a)' /\ (Tick => Quiet(m, a + 1)')
    <3>1. Verifying(m)' = {}
      BY <2>1, <2>2 DEF Quiet
    <3>2. CASE Tick
      <4>1. \A x \in failed' : \E y \in failed : x.label = y.label /\ x.age = y.age + 1
        BY <1>1, <3>2 DEF Tick, Older, IInv, Shape, Row
      <4>2. \A x \in failed' : x.label = m => x.age >= a + 1 /\ x.age >= a
        BY <1>1, <2>2, <4>1 DEF Quiet, IInv, Shape, Row, Age
      <4> QED BY <3>1, <4>2 DEF Quiet
    <3>3. CASE ~Tick
      <4>1. \A x \in failed' : x.label = m => x \in failed
        <5>1. ASSUME NEW r \in Req, RecordFailure(r) PROVE \A x \in failed' : x.label = m => x \in failed
          <6>1. r \notin Verifying(m)
            BY <2>2 DEF Quiet
          <6>2. LabelOf(req[r].method) # m
            BY <5>1, <6>1 DEF RecordFailure, Verifying
          <6> QED BY <5>1, <6>2 DEF RecordFailure, NewRow
        <5> QED BY <1>1, <3>3, <5>1 DEF Next, Settle, CountBelow, CountReached, Refuse, LockoutOver,
                                        FinishUncounted
      <4> QED BY <2>2, <3>1, <3>3, <4>1 DEF Quiet
    <3> QED BY <3>2, <3>3
  <2> QED BY <2>1, <2>2
<1>2. ASSUME IInv, [Next]_vars PROVE [\A m \in Method : Locked(m) => Ages(m)]_vars
  BY <1>1, <1>2
<1>3. IInv => \A m \in Method : Quiet(m, LockoutSeconds) => ~Locked(m)
  BY LimitFacts DEF IInv, Shape, Row, Age, Quiet, Locked, LastIsRecent
<1> QED BY <1>2, <1>3, AlwaysIInv, PTL DEF Spec
================================================================================
