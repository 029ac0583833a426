--------------------------- MODULE Organization_proofs ---------------------------
(* What holds of Organization for every number of organizations, users, membership *)
(* rows and concurrent requests.                                                   *)
EXTENDS Organization, FiniteSetTheorems, TLAPS

--------------------------------------------------------------------------------
(* What a request relies on at each of its awaits; x is its local variables. *)

LocalType == [pc : Pc, org : Org \cup {NULL}, actor : User \cup {NULL}, user : User \cup {NULL},
              row : Row \cup {NULL}, role : Role \cup {NULL}, slug : Slug \cup {NULL}]

Updates == {"updateRead", "updateLookup", "updateWrite"}
Adds == {"addLookup", "addCreate"}
HoldsRow == {"removeCount", "removeDelete", "roleWrite"}

\* The organization is there: it passed the guard, or was read with the member's row.
OrgIs(x, slugs) ==
  x.pc \notin {"idle", "create"} => x.org \in Org /\ slugs[x.org] # NULL

\* The row it read is, as long as it lives, of that organization.
RowIs(x, ms, used) ==
  x.pc \in HoldsRow => x.row \in used /\ \A m \in ms : m.row = x.row => m.org = x.org

InputIs(x) ==
  /\ x.pc = "create" => x.slug \in Slug /\ x.user \in User
  /\ x.pc \in Updates => x.slug \in Slug
  /\ x.pc \in Adds => x.user \in User /\ x.role \in Role
  /\ x.pc \in Removal => x.actor \in User /\ x.user \in User
  /\ x.pc = "roleWrite" => x.role \in Role

OwnersIn(ms, o) == {m \in ms : m.org = o /\ m.role = OWNER}

\* A removal that nobody raced: its caller still is an owner, and once it may delete there
\* is an owner that it does not delete.
UndisturbedIs(x, ms) ==
  /\ x.pc \in Removal => \E m \in OwnersIn(ms, x.org) : m.user = x.actor
  /\ x.pc = "removeDelete" => \E m \in OwnersIn(ms, x.org) : m.row # x.row

ReqOK(x, slugs, ms, used) ==
  x \in LocalType /\ OrgIs(x, slugs) /\ RowIs(x, ms, used) /\ InputIs(x)

\* An id is given to one row ever.
RowsOK ==
  /\ \A m \in members : m.row \in spent
  /\ \A m, n \in members : m.row = n.row => m = n

IInv ==
  /\ slugOf \in [Org -> Slug \cup {NULL}]
  /\ members \in SUBSET Member /\ spent \in SUBSET Row /\ raced \in SUBSET Req
  /\ NoDuplicates /\ RowsOK
  /\ req = [r \in Req |-> req[r]]
  /\ \A r \in Req : ReqOK(req[r], slugOf, members, spent)
  /\ \A r \in Req \ raced : UndisturbedIs(req[r], members)

--------------------------------------------------------------------------------
(* A step of one request keeps what the others rely on. *)

Moved(r, x) ==
  /\ req' = [q \in Req |-> req'[q]]
  /\ req'[r] = x
  /\ \A q \in Req \ {r} : req'[q] = req[q]

\* How a step leaves the tables: no organization goes, no id comes back, and a row that
\* stays does not change organizations.
Kept ==
  /\ \A o \in Org : slugOf[o] # NULL => slugOf'[o] # NULL
  /\ spent \subseteq spent'
  /\ \A m \in members' : m.row \in spent => \E n \in members : n.row = m.row /\ n.org = m.org

LEMMA FrameRule ==
  ASSUME Kept, NEW x, ReqOK(x, slugOf, members, spent)
  PROVE  ReqOK(x, slugOf', members', spent')
<1>1. OrgIs(x, slugOf')
  BY DEF Kept, ReqOK, OrgIs
<1>2. RowIs(x, members', spent')
  BY DEF Kept, ReqOK, RowIs
<1> QED BY <1>1, <1>2 DEF ReqOK

\* The tables keep their shape.
TablesNext ==
  /\ slugOf' \in [Org -> Slug \cup {NULL}]
  /\ members' \in SUBSET Member /\ spent' \in SUBSET Row /\ raced' \in SUBSET Req
  /\ NoDuplicates' /\ RowsOK'

\* The removals that nobody raced have lost none of their organization's owners.
OthersUndisturbed(r) ==
  \A q \in Req \ {r} : q \notin raced' =>
    q \notin raced /\ (req[q].pc \in Removal => OwnersIn(members, req[q].org) \subseteq members')

LEMMA ReqRule ==
  ASSUME IInv, Kept, TablesNext, NEW r \in Req, NEW x, Moved(r, x), OthersUndisturbed(r),
         ReqOK(x, slugOf', members', spent'), r \notin raced' => UndisturbedIs(x, members')
  PROVE  IInv'
<1>1. \A q \in Req : ReqOK(req'[q], slugOf', members', spent')
  BY FrameRule DEF Moved, IInv
<1>2. ASSUME NEW q \in Req \ {r}, q \notin raced'
      PROVE  UndisturbedIs(req'[q], members')
  <2>1. UndisturbedIs(req[q], members) /\ req'[q] = req[q]
    BY <1>2 DEF IInv, OthersUndisturbed, Moved
  <2>2. CASE req[q].pc \in Removal
    <3>1. OwnersIn(members, req[q].org) \subseteq OwnersIn(members', req[q].org)
      BY <1>2, <2>2 DEF OthersUndisturbed, OwnersIn
    <3> QED BY <2>1, <3>1 DEF UndisturbedIs
  <2>3. CASE req[q].pc \notin Removal
    BY <2>1, <2>3 DEF UndisturbedIs, Removal
  <2> QED BY <2>2, <2>3
<1>3. \A q \in Req : ReqOK(req[q], slugOf, members, spent)'
  BY <1>1
<1>4. \A q \in Req \ raced' : UndisturbedIs(req[q], members)'
  BY <1>2 DEF Moved
<1> QED BY <1>3, <1>4 DEF IInv, TablesNext, Moved

LEMMA MovedBy ==
  ASSUME IInv, NEW r \in Req, NEW x, Become(r, x)
  PROVE  Moved(r, x)
BY DEF IInv, Moved, Become

LEMMA GoesBy ==
  ASSUME IInv, NEW r \in Req, NEW pc, Goto(r, pc)
  PROVE  Moved(r, [req[r] EXCEPT !.pc = pc])
BY DEF IInv, Moved, Goto

\* A step that leaves the tables, and drops at most its own mark.
LEMMA LocalRule ==
  ASSUME IInv, UNCHANGED <<slugOf, members, spent>>, NEW r \in Req, NEW x, Moved(r, x),
         raced' \in {raced, raced \ {r}}, ReqOK(x, slugOf, members, spent),
         r \notin raced' => UndisturbedIs(x, members)
  PROVE  IInv'
<1>1. TablesNext
  BY DEF IInv, TablesNext, NoDuplicates, Of, RowsOK
<1>2. Kept /\ OthersUndisturbed(r)
  BY DEF Kept, OthersUndisturbed, OwnersIn
<1> QED BY <1>1, <1>2, ReqRule

LEMMA LocalFields ==
  ASSUME NEW pc, NEW o, NEW a, NEW u, NEW row, NEW role, NEW s
  PROVE  LET x == Local(pc, o, a, u, row, role, s) IN
         /\ x.pc = pc /\ x.org = o /\ x.actor = a /\ x.user = u /\ x.row = row /\ x.role = role
         /\ x.slug = s
         /\ pc \in Pc /\ o \in Org \cup {NULL} /\ a \in User \cup {NULL} /\ u \in User \cup {NULL}
            /\ row \in Row \cup {NULL} /\ role \in Role \cup {NULL} /\ s \in Slug \cup {NULL}
            => x \in LocalType
BY DEF Local, LocalType

LEMMA AtFields ==
  ASSUME NEW x \in LocalType, NEW pc \in Pc
  PROVE  LET y == [x EXCEPT !.pc = pc] IN
         /\ y \in LocalType /\ y.pc = pc /\ y.org = x.org /\ y.actor = x.actor /\ y.user = x.user
         /\ y.row = x.row /\ y.role = x.role /\ y.slug = x.slug
BY DEF LocalType

\* A request that has ended relies on nothing.
LEMMA IdleOK ==
  ASSUME NEW slugs, NEW ms, NEW used
  PROVE  ReqOK(Idle, slugs, ms, used) /\ UndisturbedIs(Idle, ms)
<1>1. Idle \in LocalType /\ Idle.pc = "idle"
  BY LocalFields DEF Idle, Pc
<1> QED BY <1>1 DEF ReqOK, OrgIs, RowIs, InputIs, UndisturbedIs, Removal, Updates, Adds, HoldsRow

LEMMA QuietKeeps ==
  ASSUME IInv, NEW r \in Req, Quiet(r), UNCHANGED <<slugOf, spent>>
  PROVE  IInv'
<1>1. Moved(r, Idle) /\ UNCHANGED members /\ raced' = raced \ {r}
  BY MovedBy DEF Quiet, Return
<1> QED BY <1>1, IdleOK, LocalRule
LEMMA ReqFacts ==
  ASSUME IInv, NEW r \in Req
  PROVE  /\ req[r] \in LocalType /\ OrgIs(req[r], slugOf) /\ RowIs(req[r], members, spent)
         /\ InputIs(req[r])
         /\ r \notin raced => UndisturbedIs(req[r], members)
BY DEF IInv, ReqOK

\* A request that goes on to an await at which it relies on no more than before.
LEMMA GotoKeeps ==
  ASSUME IInv, NEW r \in Req, NEW pc \in Pc, Goto(r, pc), UNCHANGED <<slugOf, members, spent, raced>>,
         \/ req[r].pc \in Updates /\ pc \in Updates
         \/ req[r].pc \in Adds /\ pc \in Adds
  PROVE  IInv'
<1> DEFINE x == req[r]
           y == [x EXCEPT !.pc = pc]
<1>1. /\ x \in LocalType /\ OrgIs(x, slugOf) /\ InputIs(x)
  BY ReqFacts
<1>2. /\ y \in LocalType /\ y.pc = pc /\ y.org = x.org /\ y.actor = x.actor /\ y.user = x.user
      /\ y.row = x.row /\ y.role = x.role /\ y.slug = x.slug
  BY <1>1, AtFields
<1>3. Moved(r, y)
  BY GoesBy
<1> HIDE DEF y
<1>4. ReqOK(y, slugOf, members, spent) /\ UndisturbedIs(y, members)
  BY <1>1, <1>2 DEF ReqOK, OrgIs, RowIs, InputIs, UndisturbedIs, Removal, Updates, Adds, HoldsRow
<1> QED BY <1>3, <1>4, LocalRule

--------------------------------------------------------------------------------
(* Requests that begin *)

LEMMA CreateLookupKeeps ==
  ASSUME IInv, NEW r \in Req, NEW s \in Slug, NEW u \in User, CreateLookup(r, s, u)
  PROVE  IInv'
<1> DEFINE x == Local("create", NULL, u, u, NULL, OWNER, s)
<1>1. x \in LocalType /\ x.pc = "create" /\ x.user = u /\ x.slug = s
  BY LocalFields DEF Pc, Role
<1>2. Moved(r, x)
  BY MovedBy DEF CreateLookup
<1> HIDE DEF x
<1>3. ReqOK(x, slugOf, members, spent) /\ UndisturbedIs(x, members)
  BY <1>1 DEF ReqOK, OrgIs, RowIs, InputIs, UndisturbedIs, Removal, Updates, Adds, HoldsRow
<1> QED BY <1>2, <1>3, LocalRule DEF CreateLookup

\* A user is a member only of an organization that is there.
LEMMA MemberFacts ==
  ASSUME IInv, NEW o, NEW u, NEW m \in Of(o, u)
  PROVE  /\ m \in members /\ m.org = o /\ m.user = u /\ m.role \in Role /\ m.row \in Row
         /\ m.row \in spent /\ slugOf[o] # NULL
         /\ \A n \in members : n.row = m.row => n = m
BY DEF IInv, NoDuplicates, RowsOK, Of, Member

LEMMA UpdateGuardKeeps ==
  ASSUME IInv, NEW r \in Req, NEW o \in Org, NEW a \in User, NEW s \in Slug, UpdateGuard(r, o, a, s)
  PROVE  IInv'
<1> DEFINE x == Local("updateRead", o, a, NULL, NULL, NULL, s)
<1>1. x \in LocalType /\ x.pc = "updateRead" /\ x.org = o /\ x.slug = s
  BY LocalFields DEF Pc
<1>2. Moved(r, x)
  BY MovedBy DEF UpdateGuard
<1>3. slugOf[o] # NULL
  BY MemberFacts DEF UpdateGuard, OrgMemberGuard
<1> HIDE DEF x
<1>4. ReqOK(x, slugOf, members, spent) /\ UndisturbedIs(x, members)
  BY <1>1, <1>3 DEF ReqOK, OrgIs, RowIs, InputIs, UndisturbedIs, Removal, Updates, Adds, HoldsRow
<1> QED BY <1>2, <1>4, LocalRule DEF UpdateGuard

LEMMA AddGuardKeeps ==
  ASSUME IInv, NEW r \in Req, NEW o \in Org, NEW a \in User, NEW u \in User, NEW role \in Role,
         AddGuard(r, o, a, u, role)
  PROVE  IInv'
<1> DEFINE x == Local("addLookup", o, a, u, NULL, role, NULL)
<1>1. x \in LocalType /\ x.pc = "addLookup" /\ x.org = o /\ x.user = u /\ x.role = role
  BY LocalFields DEF Pc
<1>2. Moved(r, x)
  BY MovedBy DEF AddGuard
<1>3. slugOf[o] # NULL
  BY MemberFacts DEF AddGuard, OrgMemberGuard
<1> HIDE DEF x
<1>4. ReqOK(x, slugOf, members, spent) /\ UndisturbedIs(x, members)
  BY <1>1, <1>3 DEF ReqOK, OrgIs, RowIs, InputIs, UndisturbedIs, Removal, Updates, Adds, HoldsRow
<1> QED BY <1>2, <1>4, LocalRule DEF AddGuard

LEMMA RemoveGuardKeeps ==
  ASSUME IInv, NEW r \in Req, NEW o \in Org, NEW a \in User, NEW u \in User, RemoveGuard(r, o, a, u)
  PROVE  IInv'
<1> DEFINE x == Local("removeRead", o, a, u, NULL, NULL, NULL)
<1>1. x \in LocalType /\ x.pc = "removeRead" /\ x.org = o /\ x.actor = a /\ x.user = u
  BY LocalFields DEF Pc, Removal
<1>2. Moved(r, x)
  BY MovedBy DEF RemoveGuard
<1>3. PICK m \in Of(o, a) : m.role = OWNER
  BY DEF RemoveGuard, OrgMemberGuard
<1>4. slugOf[o] # NULL /\ m \in OwnersIn(members, o) /\ m.user = a
  BY <1>3, MemberFacts DEF OwnersIn
<1> HIDE DEF x
<1>5. ReqOK(x, slugOf, members, spent) /\ UndisturbedIs(x, members)
  BY <1>1, <1>4 DEF ReqOK, OrgIs, RowIs, InputIs, UndisturbedIs, Removal, Updates, Adds, HoldsRow
<1> QED BY <1>2, <1>5, LocalRule DEF RemoveGuard

LEMMA RoleReadKeeps ==
  ASSUME IInv, NEW r \in Req, NEW o \in Org, NEW u \in User, NEW role \in Role, RoleRead(r, o, u, role)
  PROVE  IInv'
<1>1. PICK m \in Of(o, u) : Become(r, Local("roleWrite", o, NULL, u, m.row, role, NULL))
  BY DEF RoleRead
<1>2. /\ m \in members /\ m.org = o /\ m.row \in Row /\ m.row \in spent /\ slugOf[o] # NULL
      /\ \A n \in members : n.row = m.row => n = m
  BY MemberFacts
<1> DEFINE x == Local("roleWrite", o, NULL, u, m.row, role, NULL)
<1>3. x \in LocalType /\ x.pc = "roleWrite" /\ x.org = o /\ x.row = m.row /\ x.role = role
  BY <1>2, LocalFields DEF Pc
<1>4. Moved(r, x)
  BY <1>1, MovedBy
<1> HIDE DEF x
<1>5. ReqOK(x, slugOf, members, spent) /\ UndisturbedIs(x, members)
  BY <1>2, <1>3 DEF ReqOK, OrgIs, RowIs, InputIs, UndisturbedIs, Removal, Updates, Adds, HoldsRow
<1> QED BY <1>4, <1>5, LocalRule DEF RoleRead

--------------------------------------------------------------------------------
(* Requests that read *)

LEMMA UpdateReadsKeep ==
  ASSUME IInv, NEW r \in Req, UpdateRead(r) \/ UpdateLookup(r) \/ AddLookup(r)
  PROVE  IInv'
<1>1. UNCHANGED <<slugOf, members, spent, raced>>
  BY DEF UpdateRead, UpdateLookup, AddLookup
<1>2. CASE Return(r)
  BY <1>1, <1>2, MovedBy, IdleOK, LocalRule DEF Return
<1>3. CASE ~Return(r)
  <2>1. \/ /\ req[r].pc \in Updates
           /\ Goto(r, "updateWrite") \/ Goto(r, "updateLookup")
        \/ req[r].pc \in Adds /\ Goto(r, "addCreate")
    BY <1>3 DEF UpdateRead, UpdateLookup, AddLookup, At, Updates, Adds
  <2>2. {"updateWrite", "updateLookup"} \subseteq Updates \cap Pc /\ "addCreate" \in Adds \cap Pc
    BY DEF Updates, Adds, Pc
  <2> QED BY <1>1, <2>1, <2>2, GotoKeeps
<1> QED BY <1>2, <1>3

\* A member who is no owner is not the caller's row.
LEMMA RemoveReadKeeps ==
  ASSUME IInv, NEW r \in Req, RemoveRead(r)
  PROVE  IInv'
<1> DEFINE x == req[r]
<1>1. /\ x \in LocalType /\ OrgIs(x, slugOf) /\ InputIs(x) /\ x.pc = "removeRead"
      /\ r \notin raced => UndisturbedIs(x, members)
  BY ReqFacts DEF RemoveRead, At
<1>2. CASE Quiet(r)
  BY <1>2, QuietKeeps DEF RemoveRead
<1>3. ASSUME NEW m \in Of(x.org, x.user), UNCHANGED <<members, raced>>,
             req' = [req EXCEPT ![r].row = m.row,
                       ![r].pc = IF m.role = OWNER THEN "removeCount" ELSE "removeDelete"]
      PROVE  IInv'
  <2> DEFINE pc == IF m.role = OWNER THEN "removeCount" ELSE "removeDelete"
             y == [x EXCEPT !.row = m.row, !.pc = pc]
  <2>1. /\ m \in members /\ m.org = x.org /\ m.row \in Row /\ m.row \in spent
        /\ \A n \in members : n.row = m.row => n = m
    BY MemberFacts
  <2>2. pc \in Pc /\ pc \in {"removeCount", "removeDelete"}
    BY DEF Pc, Removal
  <2>3. y \in LocalType /\ y.pc = pc /\ y.row = m.row /\ y.org = x.org /\ y.actor = x.actor /\ y.user = x.user
    BY <1>1, <2>1, <2>2 DEF LocalType
  <2>4. Moved(r, y)
    BY <1>3 DEF Moved, IInv
  <2> HIDE DEF y
  <2>5. ReqOK(y, slugOf, members, spent)
    BY <1>1, <2>1, <2>2, <2>3 DEF ReqOK, OrgIs, RowIs, InputIs, Removal, Updates, Adds, HoldsRow
  <2>6. ASSUME r \notin raced PROVE UndisturbedIs(y, members)
    <3>1. PICK a \in OwnersIn(members, x.org) : a.user = x.actor
      BY <1>1, <2>6 DEF UndisturbedIs, Removal
    <3>2. y.pc = "removeDelete" => a.row # y.row
      BY <2>1, <2>2, <2>3, <3>1 DEF OwnersIn
    <3> QED BY <2>3, <3>1, <3>2 DEF UndisturbedIs
  <2> QED BY <1>3, <2>4, <2>5, <2>6, LocalRule DEF RemoveRead
<1> QED BY <1>2, <1>3 DEF RemoveRead

\* Among two owners there is one that is not deleted.
LEMMA TwoOwners ==
  ASSUME IInv, NEW o, NEW row, Cardinality(OwnersIn(members, o)) > 1
  PROVE  \E m \in OwnersIn(members, o) : m.row # row
<1> SUFFICES ASSUME \A m \in OwnersIn(members, o) : m.row = row PROVE FALSE
  OBVIOUS
<1>1. CASE OwnersIn(members, o) = {}
  BY <1>1, FS_EmptySet
<1>2. ASSUME NEW a \in OwnersIn(members, o)
      PROVE  FALSE
  <2>1. OwnersIn(members, o) = {a}
    BY DEF OwnersIn, IInv, RowsOK
  <2>2. Cardinality({a}) = 1
    BY FS_Singleton
  <2>3. Cardinality(OwnersIn(members, o)) = 1
    BY <2>1, <2>2
  <2> QED BY <2>3
<1> QED BY <1>1, <1>2

LEMMA RemoveCountKeeps ==
  ASSUME IInv, NEW r \in Req, RemoveCount(r)
  PROVE  IInv'
<1> DEFINE x == req[r]
           y == [x EXCEPT !.pc = "removeDelete"]
<1>1. /\ x \in LocalType /\ OrgIs(x, slugOf) /\ InputIs(x) /\ RowIs(x, members, spent)
      /\ x.pc = "removeCount"
      /\ r \notin raced => UndisturbedIs(x, members)
  BY ReqFacts DEF RemoveCount, At
<1>2. CASE Quiet(r)
  BY <1>2, QuietKeeps DEF RemoveCount
<1>3. CASE /\ Cardinality(Owners(x.org)) > 1 /\ Goto(r, "removeDelete")
           /\ UNCHANGED <<members, raced>>
  <2>1. /\ y \in LocalType /\ y.pc = "removeDelete" /\ y.org = x.org /\ y.actor = x.actor
        /\ y.user = x.user /\ y.row = x.row
    BY <1>1, AtFields DEF Pc, Removal
  <2>2. Moved(r, y)
    BY <1>3, GoesBy
  <2> HIDE DEF y
  <2>3. ReqOK(y, slugOf, members, spent)
    BY <1>1, <2>1 DEF ReqOK, OrgIs, RowIs, InputIs, Removal, Updates, Adds, HoldsRow
  <2>4. \E m \in OwnersIn(members, x.org) : m.row # x.row
    <3>1. Owners(x.org) = OwnersIn(members, x.org)
      BY DEF Owners, OwnersIn
    <3>2. Cardinality(OwnersIn(members, x.org)) > 1
      BY <1>3, <3>1
    <3> QED BY <3>2, TwoOwners
  <2>5. r \notin raced => UndisturbedIs(y, members)
    BY <1>1, <2>1, <2>4 DEF UndisturbedIs, Removal
  <2> QED BY <1>3, <2>2, <2>3, <2>5, LocalRule DEF RemoveCount
<1> QED BY <1>2, <1>3 DEF RemoveCount
--------------------------------------------------------------------------------
(* Requests that write *)

LEMMA ReturnRule ==
  ASSUME IInv, NEW r \in Req, Return(r), Kept, TablesNext, OthersUndisturbed(r)
  PROVE  IInv'
BY MovedBy, IdleOK, ReqRule DEF Return

\* Rows of one organization change, and when it loses an owner the removals under way
\* there are marked.
LEMMA ChangeRule ==
  ASSUME IInv, NEW r \in Req, NEW o, NEW rows, Changed(r, o, rows), Return(r),
         slugOf' \in [Org -> Slug \cup {NULL}], rows \in SUBSET Member, spent' \in SUBSET Row,
         NoDuplicates', RowsOK', Kept,
         \A p : p # o => OwnersIn(rows, p) = OwnersIn(members, p)
  PROVE  IInv'
<1>1. members' = rows /\ raced' \in SUBSET Req
  BY DEF Changed, IInv
<1>2. OthersUndisturbed(r)
  <2> SUFFICES ASSUME NEW q \in Req \ {r}, q \notin raced'
               PROVE  /\ q \notin raced
                      /\ req[q].pc \in Removal => OwnersIn(members, req[q].org) \subseteq members'
    BY DEF OthersUndisturbed
  <2>1. /\ q \notin raced
        /\ req[q].pc \in Removal /\ req[q].org = o => Owners(o) \subseteq rows
    BY DEF Changed
  <2>2. req[q].org # o => OwnersIn(members, req[q].org) \subseteq rows
    BY DEF OwnersIn
  <2> QED BY <1>1, <2>1, <2>2 DEF Owners, OwnersIn
<1>3. TablesNext
  BY <1>1 DEF TablesNext
<1> QED BY <1>2, <1>3, ReturnRule

\* A row with an id of its own, for a user who has none in that organization.
LEMMA NewRow ==
  ASSUME IInv, NEW row \in Row \ spent, NEW o \in Org, NEW u \in User, NEW role \in Role,
         Of(o, u) = {}, slugOf'[o] # NULL, \A p \in Org : slugOf[p] # NULL => slugOf'[p] # NULL,
         \A p, q \in Org : slugOf'[p] = slugOf'[q] => p = q \/ slugOf'[p] = NULL,
         spent' = spent \cup {row},
         members' = members \cup {[row |-> row, org |-> o, user |-> u, role |-> role]}
  PROVE  /\ members' \in SUBSET Member /\ spent' \in SUBSET Row
         /\ NoDuplicates' /\ RowsOK' /\ Kept
         /\ \A p : p # o => OwnersIn(members', p) = OwnersIn(members, p)
<1> DEFINE n == [row |-> row, org |-> o, user |-> u, role |-> role]
<1>1. n \in Member /\ n.row = row /\ n.org = o /\ n.user = u
  BY DEF Member
<1>2. members' = members \cup {n} /\ members \in SUBSET Member
  BY DEF IInv
<1> HIDE DEF n
<1>3. members' \in SUBSET Member /\ spent' \in SUBSET Row
  BY <1>1, <1>2 DEF IInv
<1>4. \A m \in members : m.row \in spent /\ m.org \in Org /\ m.row # row
  BY <1>2 DEF IInv, RowsOK, Member
<1>5. RowsOK'
  BY <1>1, <1>2, <1>4 DEF RowsOK, IInv
<1>6. Kept
  BY <1>1, <1>2 DEF Kept
<1>7. \A m \in members' : slugOf'[m.org] # NULL /\ (Of(m.org, m.user) = {m})'
  <2>1. ASSUME NEW m \in members
        PROVE  slugOf'[m.org] # NULL /\ (Of(m.org, m.user) = {m})'
    <3>1. slugOf[m.org] # NULL /\ Of(m.org, m.user) = {m}
      BY DEF IInv, NoDuplicates
    <3>2. ~(m.org = o /\ m.user = u)
      BY <3>1
    <3>3. {k \in members' : k.org = m.org /\ k.user = m.user} = {m}
      BY <1>1, <1>2, <3>1, <3>2 DEF Of
    <3> QED BY <1>4, <3>1, <3>3 DEF Of
  <2>2. slugOf'[n.org] # NULL /\ {k \in members' : k.org = n.org /\ k.user = n.user} = {n}
    BY <1>1, <1>2 DEF Of
  <2> QED BY <1>2, <2>1, <2>2 DEF Of
<1>8. NoDuplicates'
  BY <1>7 DEF NoDuplicates
<1>9. \A p : p # o => OwnersIn(members', p) = OwnersIn(members, p)
  BY <1>1, <1>2 DEF OwnersIn
<1> QED BY <1>3, <1>5, <1>6, <1>8, <1>9

LEMMA CreateKeeps ==
  ASSUME IInv, NEW r \in Req, Create(r)
  PROVE  IInv'
<1> DEFINE x == req[r]
<1>1. x.slug \in Slug /\ x.user \in User /\ ~Taken(x.slug) /\ Return(r)
  BY ReqFacts DEF Create, At, InputIs
<1>2. PICK o \in Org, row \in Row \ spent :
        /\ slugOf[o] = NULL
        /\ slugOf' = [slugOf EXCEPT ![o] = x.slug]
        /\ spent' = spent \cup {row}
        /\ Changed(r, o, members \cup {[row |-> row, org |-> o, user |-> x.user, role |-> OWNER]})
  BY DEF Create
<1>3. /\ slugOf' \in [Org -> Slug \cup {NULL}] /\ slugOf'[o] = x.slug
      /\ \A p \in Org \ {o} : slugOf'[p] = slugOf[p]
  BY <1>1, <1>2 DEF IInv
<1>4. x.slug # NULL
  BY <1>1, NullAssumption
<1>5. \A p, q \in Org : slugOf'[p] = slugOf'[q] => p = q \/ slugOf'[p] = NULL
  BY <1>1, <1>3 DEF Taken, IInv, NoDuplicates
<1>6. Of(o, x.user) = {}
  BY <1>2, MemberFacts
<1>7. OWNER \in Role /\ members' = members \cup {[row |-> row, org |-> o, user |-> x.user, role |-> OWNER]}
  BY <1>2 DEF Role, Changed
<1>8. /\ members' \in SUBSET Member /\ spent' \in SUBSET Row
      /\ NoDuplicates' /\ RowsOK' /\ Kept
      /\ \A p : p # o => OwnersIn(members', p) = OwnersIn(members, p)
  BY <1>1, <1>2, <1>3, <1>4, <1>5, <1>6, <1>7, NewRow
<1>9. Changed(r, o, members')
  BY <1>2, <1>7
<1> QED BY <1>1, <1>3, <1>8, <1>9, ChangeRule

LEMMA AddCreateKeeps ==
  ASSUME IInv, NEW r \in Req, AddCreate(r)
  PROVE  IInv'
<1> DEFINE x == req[r]
<1>1. x.org \in Org /\ slugOf[x.org] # NULL /\ x.user \in User /\ x.role \in Role
  BY ReqFacts DEF AddCreate, At, OrgIs, InputIs, Adds
<1>2. PICK row \in Row \ spent :
        /\ spent' = spent \cup {row}
        /\ Changed(r, x.org, members \cup
             {[row |-> row, org |-> x.org, user |-> x.user, role |-> x.role]})
  BY DEF AddCreate
<1>3. UNCHANGED slugOf /\ Return(r) /\ Of(x.org, x.user) = {}
  BY DEF AddCreate
<1>4. members' = members \cup {[row |-> row, org |-> x.org, user |-> x.user, role |-> x.role]}
  BY <1>2 DEF Changed
<1>5. \A p, q \in Org : slugOf'[p] = slugOf'[q] => p = q \/ slugOf'[p] = NULL
  BY <1>3 DEF IInv, NoDuplicates
<1>6. /\ members' \in SUBSET Member /\ spent' \in SUBSET Row
      /\ NoDuplicates' /\ RowsOK' /\ Kept
      /\ \A p : p # x.org => OwnersIn(members', p) = OwnersIn(members, p)
  BY <1>1, <1>2, <1>3, <1>4, <1>5, NewRow
<1>7. Changed(r, x.org, members')
  BY <1>2, <1>4
<1>8. slugOf' \in [Org -> Slug \cup {NULL}]
  BY <1>3 DEF IInv
<1> QED BY <1>3, <1>6, <1>7, <1>8, ChangeRule

LEMMA UpdateWriteKeeps ==
  ASSUME IInv, NEW r \in Req, UpdateWrite(r)
  PROVE  IInv'
<1> DEFINE x == req[r]
<1>1. x.slug \in Slug /\ x.org \in Org /\ ~TakenElsewhere(r)
  BY ReqFacts DEF UpdateWrite, At, InputIs, OrgIs, Updates
<1>2. Return(r) /\ UNCHANGED <<members, spent, raced>>
  BY DEF UpdateWrite
<1>3. /\ slugOf' \in [Org -> Slug \cup {NULL}] /\ slugOf'[x.org] = x.slug
      /\ \A p \in Org \ {x.org} : slugOf'[p] = slugOf[p]
  BY <1>1 DEF IInv, UpdateWrite
<1>4. x.slug # NULL
  BY <1>1, NullAssumption
<1>5. \A p, q \in Org : slugOf'[p] = slugOf'[q] => p = q \/ slugOf'[p] = NULL
  BY <1>1, <1>3 DEF TakenElsewhere, IInv, NoDuplicates
<1>6. \A p \in Org : slugOf[p] # NULL => slugOf'[p] # NULL
  BY <1>3, <1>4
<1>7. \A m \in members : m.org \in Org /\ slugOf[m.org] # NULL /\ Of(m.org, m.user) = {m}
  BY DEF IInv, NoDuplicates, Member
<1>8. NoDuplicates'
  <2>1. \A m \in members' : slugOf'[m.org] # NULL /\ (Of(m.org, m.user) = {m})'
    BY <1>2, <1>6, <1>7 DEF Of
  <2> QED BY <1>5, <2>1 DEF NoDuplicates
<1>9. TablesNext
  BY <1>2, <1>3, <1>8 DEF TablesNext, IInv, RowsOK
<1>10. Kept /\ OthersUndisturbed(r)
  BY <1>2, <1>6 DEF Kept, OthersUndisturbed, OwnersIn
<1> QED BY <1>2, <1>9, <1>10, ReturnRule

LEMMA RemoveDeleteKeeps ==
  ASSUME IInv, NEW r \in Req, RemoveDelete(r)
  PROVE  IInv'
<1> DEFINE x == req[r]
<1>1. PICK m \in members : m.row = x.row /\ Changed(r, x.org, members \ {m})
  BY DEF RemoveDelete
<1>2. m.org = x.org
  BY <1>1, ReqFacts DEF RemoveDelete, At, RowIs, HoldsRow
<1>3. UNCHANGED <<slugOf, spent>> /\ Return(r) /\ members' = members \ {m}
  BY <1>1 DEF RemoveDelete, Changed
<1>4. NoDuplicates'
  <2>1. \A k \in members' : (Of(k.org, k.user) = {k})'
    BY <1>3 DEF Of, IInv, NoDuplicates
  <2> QED BY <1>3, <2>1 DEF IInv, NoDuplicates
<1>5. RowsOK' /\ Kept
  BY <1>3 DEF IInv, RowsOK, Kept
<1>6. \A p : p # x.org => OwnersIn(members \ {m}, p) = OwnersIn(members, p)
  BY <1>2 DEF OwnersIn
<1>7. slugOf' \in [Org -> Slug \cup {NULL}] /\ members \ {m} \in SUBSET Member /\ spent' \in SUBSET Row
  BY <1>3 DEF IInv
<1> QED BY <1>1, <1>3, <1>4, <1>5, <1>6, <1>7, ChangeRule

LEMMA RoleWriteKeeps ==
  ASSUME IInv, NEW r \in Req, RoleWrite(r)
  PROVE  IInv'
<1> DEFINE x == req[r]
<1>1. PICK m \in members :
        m.row = x.row /\ Changed(r, x.org, (members \ {m}) \cup {[m EXCEPT !.role = x.role]})
  BY DEF RoleWrite
<1>2. m.org = x.org /\ x.role \in Role /\ m \in Member
  BY <1>1, ReqFacts DEF RoleWrite, At, RowIs, HoldsRow, InputIs, IInv
<1> DEFINE n == [m EXCEPT !.role = x.role]
           rows == (members \ {m}) \cup {n}
<1>3. n \in Member /\ n.row = m.row /\ n.org = m.org /\ n.user = m.user
  BY <1>2 DEF Member
<1>4. UNCHANGED <<slugOf, spent>> /\ Return(r) /\ members' = rows
  BY <1>1 DEF RoleWrite, Changed
<1>5. Changed(r, x.org, rows)
  BY <1>1
<1> HIDE DEF n
<1>6. NoDuplicates'
  <2>1. \A k \in members : slugOf[k.org] # NULL /\ Of(k.org, k.user) = {k}
    BY DEF IInv, NoDuplicates
  <2>2. ASSUME NEW k \in rows
        PROVE  slugOf[k.org] # NULL /\ {j \in rows : j.org = k.org /\ j.user = k.user} = {k}
    BY <1>3, <2>1, <2>2 DEF Of
  <2>3. \A k \in members' : slugOf'[k.org] # NULL /\ (Of(k.org, k.user) = {k})'
    BY <1>4, <2>2 DEF Of
  <2> QED BY <1>4, <2>3 DEF IInv, NoDuplicates
<1>7. RowsOK' /\ Kept
  BY <1>3, <1>4 DEF IInv, RowsOK, Kept
<1>8. \A p : p # x.org => OwnersIn(rows, p) = OwnersIn(members, p)
  BY <1>2, <1>3 DEF OwnersIn
<1>9. slugOf' \in [Org -> Slug \cup {NULL}] /\ rows \in SUBSET Member /\ spent' \in SUBSET Row
  BY <1>3, <1>4 DEF IInv
<1> HIDE DEF rows
<1> QED BY <1>4, <1>5, <1>6, <1>7, <1>8, <1>9, ChangeRule

--------------------------------------------------------------------------------
(* The inductive invariant *)

LEMMA InitIInv ==
  ASSUME Init
  PROVE  IInv
<1>1. \A r \in Req : ReqOK(req[r], slugOf, members, spent) /\ UndisturbedIs(req[r], members)
  BY IdleOK DEF Init
<1> QED BY <1>1 DEF Init, IInv, NoDuplicates, RowsOK

LEMMA StepIInv ==
  ASSUME IInv, [Next]_vars
  PROVE  IInv'
<1>1. ASSUME NEW r \in Req, Start(r)
      PROVE  IInv'
  BY <1>1, NewRolesAssumption, CreateLookupKeeps, UpdateGuardKeeps, AddGuardKeeps, RemoveGuardKeeps, RoleReadKeeps DEF Start
<1>2. ASSUME NEW r \in Req, Continue(r)
      PROVE  IInv'
  <2>1. CASE Conflict(r) \/ Abort(r)
    BY <2>1, QuietKeeps DEF Conflict, Abort
  <2>2. CASE \/ Create(r) \/ UpdateRead(r) \/ UpdateLookup(r) \/ UpdateWrite(r)
             \/ AddLookup(r) \/ AddCreate(r)
             \/ RemoveRead(r) \/ RemoveCount(r) \/ RemoveDelete(r) \/ RoleWrite(r)
    BY <2>2, CreateKeeps, UpdateReadsKeep, UpdateWriteKeeps, AddCreateKeeps, RemoveReadKeeps,
       RemoveCountKeeps, RemoveDeleteKeeps, RoleWriteKeeps
  <2> QED BY <1>2, <2>1, <2>2 DEF Continue
<1>3. CASE UNCHANGED vars
  <2>1. NoDuplicates' /\ RowsOK'
    BY <1>3 DEF vars, IInv, NoDuplicates, Of, RowsOK
  <2> QED BY <1>3, <2>1 DEF vars, IInv
<1> QED BY <1>1, <1>2, <1>3 DEF Next

LEMMA AlwaysIInv == Spec => []IInv
<1> QED BY InitIInv, StepIInv, PTL DEF Spec

\* The tables and the requests' locals keep their shape.
THEOREM TypeCorrect == Spec => []TypeOK
<1>1. IInv => TypeOK
  <2> SUFFICES ASSUME IInv PROVE TypeOK
    OBVIOUS
  <2>1. req = [r \in Req |-> req[r]] /\ \A r \in Req : req[r] \in LocalType
    BY DEF IInv, ReqOK
  <2>2. req \in [Req -> LocalType]
    BY <2>1
  <2> QED BY <2>2 DEF TypeOK, IInv, LocalType
<1> QED BY <1>1, AlwaysIInv, PTL

\* Slugs and memberships stay unique although each is looked up before it is written, and
\* a member's organization is there.
THEOREM SlugsAndMembersAreUnique == Spec => []NoDuplicates
<1>1. IInv => NoDuplicates
  BY DEF IInv
<1> QED BY <1>1, AlwaysIInv, PTL

\* A step moves one request, and starts only an idle one.
LEMMA StepIsOwn ==
  ASSUME IInv, NEW q \in Req, Start(q) \/ Continue(q), NEW r \in Req \ {q}
  PROVE  req'[r] = req[r]
<1>1. ASSUME NEW x, Become(q, x)
      PROVE  req'[r] = req[r]
  BY <1>1, MovedBy DEF Moved
<1>2. ASSUME NEW pc, Goto(q, pc)
      PROVE  req'[r] = req[r]
  BY <1>2, GoesBy DEF Moved
<1>3. CASE Start(q)
  BY <1>1, <1>3 DEF Start, CreateLookup, UpdateGuard, AddGuard, RemoveGuard, RoleRead
<1>4. CASE RemoveRead(q)
  BY <1>1, <1>4 DEF RemoveRead, Quiet, Return, IInv
<1>5. CASE Create(q) \/ AddCreate(q) \/ UpdateWrite(q) \/ RemoveDelete(q) \/ RoleWrite(q)
  BY <1>1, <1>5 DEF Create, AddCreate, UpdateWrite, RemoveDelete, RoleWrite, Return
<1>6. CASE UpdateRead(q) \/ UpdateLookup(q) \/ AddLookup(q)
  BY <1>1, <1>2, <1>6 DEF UpdateRead, UpdateLookup, AddLookup, Return
<1>7. CASE RemoveCount(q) \/ Conflict(q) \/ Abort(q)
  BY <1>1, <1>2, <1>7 DEF RemoveCount, Conflict, Abort, Quiet, Return
<1> QED BY <1>3, <1>4, <1>5, <1>6, <1>7 DEF Continue

LEMMA StartsIdle ==
  ASSUME NEW r \in Req, Start(r)
  PROVE  req[r].pc = "idle"
BY LocalFields DEF Start, CreateLookup, UpdateGuard, AddGuard, RemoveGuard, RoleRead, OrgMemberGuard, Idle

\* A removal during which no other request took an owner from its organization was asked for
\* by one who is an owner when the row goes, and leaves an owner.
THEOREM UndisturbedRemovalsAreRight == Spec => UndisturbedRemovalIsRight
<1>1. ASSUME IInv, [Next]_vars, NEW r \in Req \ raced, NEW o \in Org, Deletes(r, o)
      PROVE  (\E m \in Owners(o) : m.user = req[r].actor) /\ Owners(o)' # {}
  <2>1. PICK n \in members \ members' : n.row = req[r].row
    BY <1>1 DEF Deletes
  <2>2. req[r].pc = "removeDelete" /\ req[r].org = o /\ req'[r] # req[r]
    BY <1>1 DEF Deletes, At
  <2>3. UndisturbedIs(req[r], members)
    BY <1>1, ReqFacts
  <2>4. (\E m \in Owners(o) : m.user = req[r].actor) /\ \E m \in Owners(o) : m.row # req[r].row
    BY <2>2, <2>3 DEF UndisturbedIs, OwnersIn, Owners, Removal
  <2>5. RemoveDelete(r)
    <3>1. PICK q \in Req : Start(q) \/ Continue(q)
      BY <2>1, <1>1 DEF Next, vars
    <3>2. q = r
      BY <1>1, <2>2, <3>1, StepIsOwn
    <3>3. ~Start(r)
      BY <2>2, StartsIdle
    <3>4. ~(Conflict(r) \/ Abort(r))
      BY <2>1 DEF Conflict, Abort, Quiet
    <3> QED BY <2>2, <3>1, <3>2, <3>3, <3>4 DEF Continue, At, Create, UpdateRead, UpdateLookup,
               UpdateWrite, AddLookup, AddCreate, RemoveRead, RemoveCount, RoleWrite
  <2>6. PICK m \in Owners(o) : m.row # req[r].row
    BY <2>4
  <2>7. m \in Owners(o)'
    BY <2>5, <2>6 DEF RemoveDelete, Changed, Owners
  <2> QED BY <2>4, <2>7
<1>2. IInv /\ [Next]_vars =>
        [\A r \in Req \ raced, o \in Org :
           Deletes(r, o) => /\ \E m \in Owners(o) : m.user = req[r].actor
                            /\ Owners(o)' # {}]_vars
  BY <1>1
<1> QED BY <1>2, AlwaysIInv, PTL DEF Spec, UndisturbedRemovalIsRight

\* With one request at a time no removal is disturbed.
LEMMA OneAtATimeIsQuiet ==
  ASSUME NEW only, Req = {only}, raced = {}, [Next]_vars
  PROVE  raced' = {}
<1>1. ASSUME NEW o, NEW rows, Changed(only, o, rows)
      PROVE  raced' = {}
  BY <1>1 DEF Changed
<1>2. CASE UNCHANGED raced
  BY <1>2
<1>3. CASE Quiet(only)
  BY <1>3 DEF Quiet
<1>4. CASE Start(only)
  BY <1>2, <1>4 DEF Start, CreateLookup, UpdateGuard, AddGuard, RemoveGuard, RoleRead
<1>5. CASE Create(only) \/ AddCreate(only) \/ RemoveDelete(only) \/ RoleWrite(only)
  BY <1>1, <1>5 DEF Create, AddCreate, RemoveDelete, RoleWrite
<1>6. CASE UpdateRead(only) \/ UpdateLookup(only) \/ UpdateWrite(only) \/ AddLookup(only)
  BY <1>2, <1>6 DEF UpdateRead, UpdateLookup, UpdateWrite, AddLookup
<1>7. CASE RemoveRead(only) \/ RemoveCount(only) \/ Conflict(only) \/ Abort(only)
  BY <1>2, <1>3, <1>7 DEF RemoveRead, RemoveCount, Conflict, Abort
<1> QED BY <1>2, <1>4, <1>5, <1>6, <1>7 DEF Next, Continue, vars

\* With one request at a time 'Cannot remove the last owner of an organization' is true of
\* every removal: the one TLC finds to leave none needs another request between its count of
\* the owners and its delete (organization.service.ts:221).
THEOREM OneAtATimeLeavesOwner ==
  ASSUME Cardinality(Req) = 1
  PROVE  Spec => RemovalLeavesOwner
<1> DEFINE Calm == raced = {}
           Right == \A r \in Req \ raced, o \in Org :
                      Deletes(r, o) => /\ \E m \in Owners(o) : m.user = req[r].actor
                                       /\ Owners(o)' # {}
           Leaves == \A r \in Req, o \in Org :
                       Deletes(r, o) /\ Owners(o) # {} => Owners(o)' # {}
<1>1. PICK only : Req = {only}
  BY ReqAssumption, FS_Singleton
<1>2. Init => Calm
  BY DEF Init
<1>3. Calm /\ [Next]_vars => Calm'
  BY <1>1, OneAtATimeIsQuiet
<1>4. Calm /\ [Right]_vars => [Leaves]_vars
  OBVIOUS
<1> QED
  BY <1>2, <1>3, <1>4, UndisturbedRemovalsAreRight, PTL
     DEF Spec, UndisturbedRemovalIsRight, RemovalLeavesOwner
================================================================================
