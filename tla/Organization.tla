------------------------------ MODULE Organization ------------------------------
(****************************************************************************)
(* Organizations and their members (nestjs-auth/src/organizations): the     *)
(* endpoints of OrganizationController behind OrgMemberGuard, and           *)
(* updateMemberRole, a service method that the host application calls.      *)
(*                                                                          *)
(* As in AuthService each action is one awaited database call, and the rows *)
(* are shared by all requests.  The guard's read of the caller's membership *)
(* is such a call of its own, before the handler's.  Organizations and      *)
(* users are never deleted here, so reading that one exists needs no step.  *)
(* Names, logos and dates are left out.                                     *)
(****************************************************************************)
EXTENDS Naturals, FiniteSets

CONSTANTS
  Org,     \* ids of organizations
  Slug,    \* slugs
  User,    \* users of the application
  Row,     \* ids of membership rows: bounds how many are ever made
  Req,     \* slots for concurrent requests
  NewRoles,  \* roles that the host gives with updateMemberRole
  NULL

ASSUME NullAssumption == NULL \notin Org \cup Slug \cup User \cup Row
ASSUME ReqAssumption == IsFiniteSet(Req)

OWNER == "owner"
MEMBER == "member"
Role == {OWNER, "admin", MEMBER}

ASSUME NewRolesAssumption == NewRoles \subseteq Role

Member == [row : Row, org : Org, user : User, role : Role]

VARIABLES
  slugOf,   \* Organization.slug, NULL where no row exists
  members,  \* OrganizationMember rows
  spent,    \* ids that membership rows have had
  raced,    \* history: removals whose organization lost an owner to another request meanwhile
  req       \* the local variables of each request

vars == <<slugOf, members, spent, raced, req>>

Local(pc, o, a, u, row, role, s) ==
  [pc |-> pc, org |-> o, actor |-> a, user |-> u, row |-> row, role |-> role, slug |-> s]

Idle == Local("idle", NULL, NULL, NULL, NULL, NULL, NULL)

Init ==
  /\ slugOf = [o \in Org |-> NULL]
  /\ members = {} /\ spent = {} /\ raced = {}
  /\ req = [r \in Req |-> Idle]

At(r, pc) == req[r].pc = pc
Become(r, locals) == req' = [req EXCEPT ![r] = locals]
Goto(r, pc) == req' = [req EXCEPT ![r].pc = pc]
Return(r) == Become(r, Idle)

Removal == {"removeRead", "removeCount", "removeDelete"}

Taken(s) == \E o \in Org : slugOf[o] = s
Of(o, u) == {m \in members : m.org = o /\ m.user = u}
Owners(o) == {m \in members : m.org = o /\ m.role = OWNER}

\* The rows change in the course of r; other removals that already passed the guard
\* go on from what they have read, which an owner less makes stale.
Changed(r, o, rows) ==
  /\ members' = rows
  /\ raced' = (raced \ {r}) \cup
                {q \in Req \ {r} : /\ req[q].pc \in Removal /\ req[q].org = o
                                   /\ ~(Owners(o) \subseteq rows)}

Quiet(r) == Return(r) /\ raced' = raced \ {r} /\ UNCHANGED members

--------------------------------------------------------------------------------
(* create *)

CreateLookup(r, s, u) ==
  /\ req[r] = Idle
  /\ ~Taken(s)
  /\ Become(r, Local("create", NULL, u, u, NULL, OWNER, s))
  /\ UNCHANGED <<slugOf, members, spent, raced>>

Create(r) ==
  /\ At(r, "create") /\ ~Taken(req[r].slug)
  /\ \E o \in Org, row \in Row \ spent :
       /\ slugOf[o] = NULL
       /\ slugOf' = [slugOf EXCEPT ![o] = req[r].slug]
       /\ spent' = spent \cup {row}
       /\ Changed(r, o, members \cup
            {[row |-> row, org |-> o, user |-> req[r].user, role |-> OWNER]})
  /\ Return(r)

--------------------------------------------------------------------------------
(* OrgMemberGuard: the caller's membership, read once before the handler runs. *)

OrgMemberGuard(r, o, a, roles) ==
  /\ req[r] = Idle
  /\ \E m \in Of(o, a) : m.role \in roles

--------------------------------------------------------------------------------
(* update *)

UpdateGuard(r, o, a, s) ==
  /\ OrgMemberGuard(r, o, a, {OWNER, "admin"})
  /\ Become(r, Local("updateRead", o, a, NULL, NULL, NULL, s))
  /\ UNCHANGED <<slugOf, members, spent, raced>>

UpdateRead(r) ==
  /\ At(r, "updateRead")
  /\ Goto(r, IF slugOf[req[r].org] = req[r].slug THEN "updateWrite" ELSE "updateLookup")
  /\ UNCHANGED <<slugOf, members, spent, raced>>

UpdateLookup(r) ==
  /\ At(r, "updateLookup")
  /\ IF Taken(req[r].slug) THEN Return(r) ELSE Goto(r, "updateWrite")
  /\ UNCHANGED <<slugOf, members, spent, raced>>

\* Variant of UpdateWrite: no unique index on the slug.
UpdateWriteAnyway(r) ==
  /\ At(r, "updateWrite")
  /\ slugOf' = [slugOf EXCEPT ![req[r].org] = req[r].slug]
  /\ Return(r)
  /\ UNCHANGED <<members, spent, raced>>

TakenElsewhere(r) == \E o \in Org \ {req[r].org} : slugOf[o] = req[r].slug

UpdateWrite(r) ==
  /\ At(r, "updateWrite") /\ ~TakenElsewhere(r)
  /\ slugOf' = [slugOf EXCEPT ![req[r].org] = req[r].slug]
  /\ Return(r)
  /\ UNCHANGED <<members, spent, raced>>

--------------------------------------------------------------------------------
(* addMember *)

AddGuard(r, o, a, u, role) ==
  /\ OrgMemberGuard(r, o, a, {OWNER, "admin"})
  /\ Become(r, Local("addLookup", o, a, u, NULL, role, NULL))
  /\ UNCHANGED <<slugOf, members, spent, raced>>

AddLookup(r) ==
  /\ At(r, "addLookup")
  /\ IF Of(req[r].org, req[r].user) = {} THEN Goto(r, "addCreate") ELSE Return(r)
  /\ UNCHANGED <<slugOf, members, spent, raced>>

\* Variant of AddCreate: the row is written without its role.
AddCreateRoleless(r) ==
  /\ At(r, "addCreate") /\ Of(req[r].org, req[r].user) = {}
  /\ \E row \in Row \ spent :
       /\ spent' = spent \cup {row}
       /\ Changed(r, req[r].org, members \cup
            {[row |-> row, org |-> req[r].org, user |-> req[r].user, role |-> NULL]})
  /\ Return(r)
  /\ UNCHANGED slugOf

AddCreate(r) ==
  /\ At(r, "addCreate") /\ Of(req[r].org, req[r].user) = {}
  /\ \E row \in Row \ spent :
       /\ spent' = spent \cup {row}
       /\ Changed(r, req[r].org, members \cup
            {[row |-> row, org |-> req[r].org, user |-> req[r].user, role |-> req[r].role]})
  /\ Return(r)
  /\ UNCHANGED slugOf

--------------------------------------------------------------------------------
(* removeMember *)

RemoveGuard(r, o, a, u) ==
  /\ OrgMemberGuard(r, o, a, {OWNER})
  /\ Become(r, Local("removeRead", o, a, u, NULL, NULL, NULL))
  /\ UNCHANGED <<slugOf, members, spent, raced>>

\* The target's row: only an owner's is counted.
RemoveRead(r) ==
  /\ At(r, "removeRead")
  /\ \/ \E m \in Of(req[r].org, req[r].user) :
          /\ req' = [req EXCEPT ![r].row = m.row,
                       ![r].pc = IF m.role = OWNER THEN "removeCount" ELSE "removeDelete"]
          /\ UNCHANGED <<members, raced>>
     \/ Of(req[r].org, req[r].user) = {} /\ Quiet(r)
  /\ UNCHANGED <<slugOf, spent>>

\* Variant of RemoveCount: the last owner is refused only when none is left.
RemoveCountOff(r) ==
  /\ At(r, "removeCount")
  /\ \/ Cardinality(Owners(req[r].org)) > 0 /\ Goto(r, "removeDelete")
                                            /\ UNCHANGED <<members, raced>>
     \/ Cardinality(Owners(req[r].org)) = 0 /\ Quiet(r)
  /\ UNCHANGED <<slugOf, spent>>

RemoveCount(r) ==
  /\ At(r, "removeCount")
  /\ \/ Cardinality(Owners(req[r].org)) > 1 /\ Goto(r, "removeDelete")
                                            /\ UNCHANGED <<members, raced>>
     \/ Cardinality(Owners(req[r].org)) <= 1 /\ Quiet(r)
  /\ UNCHANGED <<slugOf, spent>>

\* By id, whatever role the row has by now.
RemoveDelete(r) ==
  /\ At(r, "removeDelete")
  /\ \E m \in members : m.row = req[r].row /\ Changed(r, req[r].org, members \ {m})
  /\ Return(r)
  /\ UNCHANGED <<slugOf, spent>>

--------------------------------------------------------------------------------
(* updateMemberRole: no guard, and no question who the last owner is. *)

RoleRead(r, o, u, role) ==
  /\ req[r] = Idle
  /\ \E m \in Of(o, u) : Become(r, Local("roleWrite", o, NULL, u, m.row, role, NULL))
  /\ UNCHANGED <<slugOf, members, spent, raced>>

RoleWrite(r) ==
  /\ At(r, "roleWrite")
  /\ \E m \in members :
       /\ m.row = req[r].row
       /\ Changed(r, req[r].org, (members \ {m}) \cup {[m EXCEPT !.role = req[r].role]})
  /\ Return(r)
  /\ UNCHANGED <<slugOf, spent>>

--------------------------------------------------------------------------------
(* Failures. *)

\* A unique index rejects the write, or the row it names is gone.
Conflict(r) ==
  /\ \/ At(r, "create") /\ Taken(req[r].slug)
     \/ At(r, "updateWrite") /\ TakenElsewhere(r)
     \/ At(r, "addCreate") /\ Of(req[r].org, req[r].user) # {}
     \/ req[r].pc \in {"removeDelete", "roleWrite"} /\ \A m \in members : m.row # req[r].row
  /\ Quiet(r)
  /\ UNCHANGED <<slugOf, spent>>

\* The instance dies, or the awaited call rejects for any other reason.
Abort(r) ==
  /\ ~At(r, "idle")
  /\ Quiet(r)
  /\ UNCHANGED <<slugOf, spent>>

--------------------------------------------------------------------------------
Start(r) ==
  \/ \E s \in Slug, u \in User : CreateLookup(r, s, u)
  \/ \E o \in Org, a \in User :
       \/ \E s \in Slug : UpdateGuard(r, o, a, s)
       \/ \E u \in User, role \in Role : AddGuard(r, o, a, u, role)
       \/ \E u \in User : RemoveGuard(r, o, a, u)
       \/ \E role \in NewRoles : RoleRead(r, o, a, role)

Continue(r) ==
  \/ Create(r)
  \/ UpdateRead(r) \/ UpdateLookup(r) \/ UpdateWrite(r)
  \/ AddLookup(r) \/ AddCreate(r)
  \/ RemoveRead(r) \/ RemoveCount(r) \/ RemoveDelete(r)
  \/ RoleWrite(r)
  \/ Conflict(r) \/ Abort(r)

Next == \E r \in Req : Start(r) \/ Continue(r)

Spec == Init /\ [][Next]_vars

--------------------------------------------------------------------------------
(* Properties. *)

Pc == {"idle", "create", "updateRead", "updateLookup", "updateWrite", "addLookup",
       "addCreate", "roleWrite"} \cup Removal

\* The tables keep their shape.
TypeOK ==
  /\ slugOf \in [Org -> Slug \cup {NULL}]
  /\ members \in SUBSET Member
  /\ spent \in SUBSET Row /\ raced \in SUBSET Req
  /\ req \in [Req -> [pc : Pc, org : Org \cup {NULL}, actor : User \cup {NULL},
                      user : User \cup {NULL}, row : Row \cup {NULL},
                      role : Role \cup {NULL}, slug : Slug \cup {NULL}]]

\* Whatever is looked up before it is written: a slug names one organization, and a user
\* is in an organization that exists, once.
NoDuplicates ==
  /\ \A o, p \in Org : slugOf[o] = slugOf[p] => o = p \/ slugOf[o] = NULL
  /\ \A m \in members : slugOf[m.org] # NULL /\ Of(m.org, m.user) = {m}

\* Request r deletes the row it looked up, of organization o.
Deletes(r, o) ==
  /\ At(r, "removeDelete") /\ req[r].org = o /\ req'[r] # req[r]
  /\ \E m \in members \ members' : m.row = req[r].row

\* A removal is right unless another request took an owner from the organization while it
\* ran, whoever was added or promoted and whichever other members were removed meanwhile:
\* its caller is an owner when the row goes, and an owner is left.
UndisturbedRemovalIsRight ==
  [][\A r \in Req \ raced, o \in Org :
       Deletes(r, o) => /\ \E m \in Owners(o) : m.user = req[r].actor
                        /\ Owners(o)' # {}]_vars

\* What 'Cannot remove the last owner of an organization' says, of every removal.
RemovalLeavesOwner ==
  [][\A r \in Req, o \in Org : Deletes(r, o) /\ Owners(o) # {} => Owners(o)' # {}]_vars
================================================================================
