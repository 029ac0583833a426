-------------------------------- MODULE LiveStore --------------------------------
(* What a table promises to the code that uses it through the Prisma client,      *)
(* whatever stands between them: a row that was removed is not found again until  *)
(* it is restored, and every row that is there is found.  Nothing is said of how  *)
(* a removal is done (the row may be kept, marked) or recorded.                   *)
CONSTANT Ids

VARIABLES live,      \* the rows a reader finds
          removed,   \* the rows that were removed and are kept
          answer     \* what the last query that does not ask for removed rows found,
                     \* nothing after a change

vars == <<live, removed, answer>>

TypeOK ==
    /\ live \subseteq Ids
    /\ removed \subseteq Ids \ live
    /\ answer \subseteq live

Init ==
    /\ live \subseteq Ids
    /\ removed \subseteq Ids \ live
    /\ answer = {}

Create(i) ==
    /\ i \notin live \cup removed
    /\ live' = live \cup {i}
    /\ answer' = {}
    /\ UNCHANGED removed

(* The rows of S go; the store may keep them aside. *)
Remove(S) ==
    /\ S # {}
    /\ S \subseteq live
    /\ live' = live \ S
    /\ removed' \in {removed, removed \cup S}
    /\ answer' = {}

Restore(i) ==
    /\ i \in removed
    /\ live' = live \cup {i}
    /\ removed' = removed \ {i}
    /\ answer' = {}

(* A query over the rows S finds exactly the ones that are live at one moment. *)
Read(S) ==
    /\ answer' = live \cap S
    /\ UNCHANGED <<live, removed>>

Next ==
    \/ \E i \in Ids : Create(i) \/ Restore(i)
    \/ \E S \in SUBSET Ids : Remove(S) \/ Read(S)

Spec == Init /\ [][Next]_vars
=============================================================================
