---------------------------- MODULE TwoFactorLogin ----------------------------
(****************************************************************************)
(* Signing in and what a token then opens: AuthService.login,               *)
(* verifyTwoFactor, getProfile and the session calls                        *)
(* (nestjs-auth/src/auth.service.ts), JwtStrategy, the guards, and the      *)
(* routes of AuthController behind them.  The second factors of a user are  *)
(* OtpService's rows as getEnabledMethods sees them; how each is enrolled,  *)
(* sent and consumed is the subject of OtpService.                          *)
(*                                                                          *)
(* Each action is one awaited database call with the pure work around it.   *)
(* getEnabledMethods sends one query for each method with Promise.all, so   *)
(* each method is read at a moment of its own.  A signed token is the       *)
(* record of its claims and of the key that signed it: a challenge is       *)
(* signed with twoFactorJwt.challengeTokenSecret where the host sets one,   *)
(* and like an access token, with jwt.secret, where it does not.            *)
(* lastLoginAt, which nothing reads, is left out.                           *)
(****************************************************************************)
EXTENDS Naturals, FiniteSets, Sequences

CONSTANTS
  Users, Requests,
  SessionIds,       \* bounds the sessions created
  Roles, Passwords,
  Methods,          \* methods getEnabledMethods asks for; "backup" is never one
  CodeMethods,      \* code methods that isMethodEnabled accepts
  Features,         \* features switched on
  Handlers,         \* routes: [public, roles, permissions, does]
  RolePermissions,  \* permissions config: grants of each role, NULL without one
  SuperAdminRoles,
  AccessKey,        \* jwt.secret
  ChallengeSecret,  \* twoFactorJwt.challengeTokenSecret, NULL where the host sets none
  MaxChanges,       \* bounds the changes made by others to a user, a factor or a session
  NULL

ASSUME MethodsAssumption ==
  /\ "totp" \in Methods /\ "backup" \notin Methods
  /\ CodeMethods \subseteq Methods \ {"totp"}
ASSUME RolesAssumption == "user" \in Roles  \* the schema's default
ASSUME HandlersAssumption ==
  \A h \in Handlers : h.does \in {"me", "sessions", "revoke", "host"} /\ h.roles \subseteq Roles
ASSUME NullAssumption ==
  NULL \notin Roles \cup Users \cup SessionIds \cup {"login", "verify", "revoke", "ok", "token"}
ASSUME BoundsAssumption == MaxChanges \in Nat /\ IsFiniteSet(Requests)

VARIABLES
  users,     \* User rows, NULL once deleted
  factor,    \* OtpSecret, OtpCode and OtpBackupCode of each user, by method
  sessions,  \* Session row of each id: NULL before it is drawn
  tokens,    \* tokens signed; expiry only refuses them and is left out
  changes,   \* changes made so far
  req        \* the local variables of each request

vars == <<users, factor, sessions, tokens, changes, req>>

Row == [active : BOOLEAN, role : Roles, password : Passwords]
ASSUME RowAssumption == NULL \notin Row
SessionRow == [user : Users, state : {"live", "expired", "deleted"}]
ASSUME SessionRowAssumption == NULL \notin SessionRow
FactorState == {"none", "pending", "live", "dead"}
Kinds == Methods \cup {"backup"}

\* A code row makes its method enabled whether or not it can still be used.
IsMethodOn(f, m) ==
  IF m = "totp" THEN f[m] = "live" ELSE f[m] # "none" /\ m \in CodeMethods
EnabledIn(f) == {m \in Methods : IsMethodOn(f, m)}
Enabled(u) == EnabledIn(factor[u])

ChallengeKey == IF ChallengeSecret = NULL THEN AccessKey ELSE ChallengeSecret

Token(u, key, challenge, role, active) ==
  [user |-> u, key |-> key, twoFactorRequired |-> challenge, role |-> role, active |-> active]
generateToken(u, row) == Token(u, AccessKey, FALSE, row.role, row.active)
generateChallengeToken(u) == Token(u, ChallengeKey, TRUE, NULL, FALSE)

----------------------------------------------------------------------------
(* A request.  held and seen are history: the methods enabled and the rows  *)
(* of its user at every, at some, moment since it began.                    *)

Local(op, pc, u, input) ==
  [op |-> op, pc |-> pc, user |-> u, input |-> input, row |-> NULL, found |-> {},
   left |-> {}, answer |-> NULL, result |-> NULL, held |-> Enabled(u), seen |-> {users[u]}]

Idle == [op |-> NULL, pc |-> "idle", user |-> NULL, input |-> NULL, row |-> NULL, found |-> {},
         left |-> {}, answer |-> NULL, result |-> NULL, held |-> {}, seen |-> {}]

Busy(r) == req[r].pc \notin {"idle", "done"}

Open(r, op, pc, u, input) == req' = [req EXCEPT ![r] = Local(op, pc, u, input)]
Goto(r, pc) == req' = [req EXCEPT ![r].pc = pc]
Done(op, u, answer, result) ==
  [op |-> op, pc |-> "done", user |-> u, input |-> NULL, row |-> NULL, found |-> {}, left |-> {},
   answer |-> answer, result |-> result, held |-> {}, seen |-> {}]
Return(r, answer, result) ==
  req' = [req EXCEPT ![r] = Done(req[r].op, req[r].user, answer, result)]
Answer(r, answer) == Return(r, answer, NULL)

\* Every user holds the token that register returned; some have enrolled TOTP since.
Init ==
  /\ \E p \in Passwords :
       users = [u \in Users |-> [active |-> TRUE, role |-> "user", password |-> p]]
  /\ \E enrolled \in SUBSET Users :
       factor = [u \in Users |-> [k \in Kinds |->
                  IF u \in enrolled /\ k \in {"totp", "backup"} THEN "live" ELSE "none"]]
  /\ sessions = [i \in SessionIds |-> NULL]
  /\ tokens = {generateToken(u, users[u]) : u \in Users}
  /\ changes = 0
  /\ req = [r \in Requests |-> Idle]

----------------------------------------------------------------------------
(* login *)

LoginStart(r, u, p) ==
  /\ req[r] = Idle
  /\ "emailPassword" \in Features
  /\ Open(r, "login", "findUser", u, p)
  /\ UNCHANGED <<users, factor, sessions, tokens, changes>>

validateUser(row, p) == row # NULL /\ row.active /\ row.password = p

LoginFindUser(r) ==
  LET row == users[req[r].user] IN
  /\ req[r].pc = "findUser"
  /\ \/ /\ validateUser(row, req[r].input)
        /\ req' = [req EXCEPT ![r].pc = "methods", ![r].row = row,
                              ![r].left = IF "twoFactor" \in Features THEN Methods ELSE {}]
     \/ /\ ~validateUser(row, req[r].input)
        /\ Answer(r, "401")
  /\ UNCHANGED <<users, factor, sessions, tokens, changes>>

\* Variant of ReadMethod: the first query to come back decides.
ReadFirstMethod(r, m) ==
  /\ req[r].pc = "methods" /\ m \in req[r].left
  /\ req' = [req EXCEPT ![r].left = {}, ![r].found = Enabled(req[r].user) \cap {m}]
  /\ UNCHANGED <<users, factor, sessions, tokens, changes>>

\* One of the queries of getEnabledMethods.
ReadMethod(r, m) ==
  /\ req[r].pc = "methods" /\ m \in req[r].left
  /\ req' = [req EXCEPT ![r].left = @ \ {m},
                        ![r].found = @ \cup (Enabled(req[r].user) \cap {m})]
  /\ UNCHANGED <<users, factor, sessions, tokens, changes>>

LoginChallenge(r) ==
  /\ req[r].pc = "methods" /\ req[r].left = {} /\ req[r].found # {}
  /\ tokens' = tokens \cup {generateChallengeToken(req[r].user)}
  /\ Answer(r, "challenge")
  /\ UNCHANGED <<users, factor, sessions, changes>>

\* user.update rejects when the row is gone; the claims come from the row read first.
LoginToken(r) ==
  LET u == req[r].user IN
  /\ req[r].pc = "methods" /\ req[r].left = {} /\ req[r].found = {}
  /\ \/ /\ users[u] # NULL
        /\ tokens' = tokens \cup {generateToken(u, req[r].row)}
        /\ Return(r, "token", generateToken(u, req[r].row))
     \/ /\ users[u] = NULL
        /\ Answer(r, "500")
        /\ UNCHANGED tokens
  /\ UNCHANGED <<users, factor, sessions, changes>>

----------------------------------------------------------------------------
(* verifyTwoFactor *)

IsChallenge(t) == t.key = ChallengeKey /\ t.twoFactorRequired

VerifyStart(r, t) ==
  /\ req[r] = Idle
  /\ "twoFactor" \in Features
  /\ IsChallenge(t)
  /\ Open(r, "verify", "code", t.user, t)
  /\ UNCHANGED <<users, factor, sessions, tokens, changes>>

\* verifyOtp finds what the code matches: an unused code or backup code is then marked,
\* a TOTP secret is not.
VerifyCode(r, k) ==
  /\ req[r].pc = "code"
  /\ factor[req[r].user][k] = "live"
  /\ k = "backup" => "backupCodes" \in Features
  /\ IF k = "totp" THEN Goto(r, "stamp")
     ELSE req' = [req EXCEPT ![r].pc = "use", ![r].found = {k}]
  /\ UNCHANGED <<users, factor, sessions, tokens, changes>>

\* The mark is by id: it rejects when the row is gone, also where another took its place,
\* and other unused codes may be left.
UseCode(r) ==
  LET u == req[r].user IN
  /\ req[r].pc = "use"
  /\ \/ \E k \in req[r].found :
          /\ factor[u][k] # "none"
          /\ factor' \in {factor, [factor EXCEPT ![u][k] = "dead"]}
          /\ Goto(r, "stamp")
     \/ Answer(r, "500") /\ UNCHANGED factor
  /\ UNCHANGED <<users, sessions, tokens, changes>>

VerifyRefused(r) ==
  /\ req[r].pc = "code"
  /\ Answer(r, "401")
  /\ UNCHANGED <<users, factor, sessions, tokens, changes>>

VerifyStamp(r) ==
  LET u == req[r].user IN
  /\ req[r].pc = "stamp"
  /\ \/ users[u] # NULL /\ Goto(r, "profile")
     \/ users[u] = NULL /\ Answer(r, "500")
  /\ UNCHANGED <<users, factor, sessions, tokens, changes>>

\* Variant of VerifyToken: the claims of the challenge, with generateToken's defaults.
VerifyTokenOfChallenge(r) ==
  LET t == Token(req[r].user, AccessKey, FALSE, NULL, TRUE) IN
  /\ req[r].pc = "profile"
  /\ tokens' = tokens \cup {t}
  /\ Return(r, "token", t)
  /\ UNCHANGED <<users, factor, sessions, changes>>

VerifyToken(r) ==
  LET u == req[r].user IN
  /\ req[r].pc = "profile"
  /\ \/ /\ users[u] # NULL
        /\ tokens' = tokens \cup {generateToken(u, users[u])}
        /\ Return(r, "token", generateToken(u, users[u]))
     \/ users[u] = NULL /\ Answer(r, "404") /\ UNCHANGED tokens
  /\ UNCHANGED <<users, factor, sessions, changes>>

----------------------------------------------------------------------------
(* Calls with a bearer token: JwtStrategy, then the guards of the route.    *)

\* Variant of hasPermission: any grant in the area will do.
hasAreaPermission(grants, p) == \E g \in grants : g[1] \in {"*", p[1]}

\* A grant is <<"*">>, <<area, "*">> or the permission <<area, act>> itself.
hasPermission(grants, p) ==
  \/ <<"*">> \in grants
  \/ p \in grants
  \/ <<p[1], "*">> \in grants

JwtAuthGuard(h, t) == h.public \/ t.key = AccessKey

RolesGuard(h, role) == h.roles = {} \/ role \in h.roles

PermissionsGuard(h, role) ==
  \/ h.public
  \/ h.permissions = {}
  \/ /\ role # NULL
     /\ \/ RolePermissions = NULL
        \/ role \in SuperAdminRoles
        \/ \A p \in h.permissions : hasPermission(RolePermissions[role], p)

\* On a public route no strategy runs, so the request has no user and no role.
RoleOf(h, t) == IF h.public THEN NULL ELSE t.role

Admitted(h, t) ==
  /\ JwtAuthGuard(h, t)
  /\ RolesGuard(h, RoleOf(h, t))
  /\ PermissionsGuard(h, RoleOf(h, t))

Call(r, t, h, s) ==
  /\ req[r] = Idle
  /\ req' = [req EXCEPT ![r] =
       IF Admitted(h, t)
       THEN [Local(h.does, h.does, t.user, s) EXCEPT !.row = [token |-> t, handler |-> h]]
       ELSE Done(NULL, NULL, IF JwtAuthGuard(h, t) THEN "403" ELSE "401", NULL)]
  /\ UNCHANGED <<users, factor, sessions, tokens, changes>>

\* A route of the host application that the guards let through.
CallHost(r) ==
  /\ req[r].pc = "host"
  /\ Answer(r, "ok")
  /\ UNCHANGED <<users, factor, sessions, tokens, changes>>

getProfile(r) ==
  /\ req[r].pc = "me"
  /\ Answer(r, IF users[req[r].user] = NULL THEN "404" ELSE "ok")
  /\ UNCHANGED <<users, factor, sessions, tokens, changes>>

IsRow(s) == s # NULL /\ s.state # "deleted"
SessionsOf(u) == {i \in SessionIds : IsRow(sessions[i]) /\ sessions[i].user = u}

getUserSessions(r) ==
  /\ req[r].pc = "sessions"
  /\ IF "sessionManagement" \in Features
     THEN Return(r, "ok", {i \in SessionsOf(req[r].user) : sessions[i].state = "live"})
     ELSE Answer(r, "403")
  /\ UNCHANGED <<users, factor, sessions, tokens, changes>>

RevokeFind(r) ==
  /\ req[r].pc = "revoke"
  /\ IF "sessionManagement" \notin Features THEN Answer(r, "403")
     ELSE IF req[r].input \in SessionsOf(req[r].user) THEN Goto(r, "delete")
     ELSE Answer(r, "404")
  /\ UNCHANGED <<users, factor, sessions, tokens, changes>>

\* Variant of RevokeDelete: deleteMany, which never rejects.
RevokeDeleteMany(r) ==
  LET i == req[r].input IN
  /\ req[r].pc = "delete"
  /\ sessions' = [sessions EXCEPT ![i].state = "deleted"]
  /\ Return(r, "ok", i)
  /\ UNCHANGED <<users, factor, tokens, changes>>

\* session.delete names the id only, and rejects when the row is gone.
RevokeDelete(r) ==
  LET i == req[r].input IN
  /\ req[r].pc = "delete"
  /\ \/ /\ IsRow(sessions[i])
        /\ sessions' = [sessions EXCEPT ![i].state = "deleted"]
        /\ Return(r, "ok", i)
     \/ ~IsRow(sessions[i]) /\ Answer(r, "500") /\ UNCHANGED sessions
  /\ UNCHANGED <<users, factor, tokens, changes>>

----------------------------------------------------------------------------
(* Everyone else: the host application, OtpService and the clock.           *)

Watch(u) ==
  req' = [r \in Requests |->
            IF Busy(r) /\ req[r].user = u
            THEN [req[r] EXCEPT !.held = @ \cap EnabledIn(factor'[u]), !.seen = @ \cup {users'[u]}]
            ELSE req[r]]

createSession(u, i) ==
  /\ "sessionManagement" \in Features
  /\ users[u] # NULL /\ sessions[i] = NULL /\ changes < MaxChanges
  /\ changes' = changes + 1
  /\ sessions' = [sessions EXCEPT ![i] = [user |-> u, state |-> "live"]]
  /\ UNCHANGED <<users, factor, tokens, req>>

ExpireSession(i) ==
  /\ sessions[i] # NULL /\ sessions[i].state = "live" /\ changes < MaxChanges
  /\ changes' = changes + 1
  /\ sessions' = [sessions EXCEPT ![i].state = "expired"]
  /\ UNCHANGED <<users, factor, tokens, req>>

\* isActive and role are the host's to change, the password is also resetPassword's.
UpdateUser(u, row) ==
  /\ \E f \in DOMAIN row : users[u] # NULL /\ row = [users[u] EXCEPT ![f] = row[f]]
  /\ users[u] \notin {NULL, row} /\ changes < MaxChanges
  /\ changes' = changes + 1
  /\ users' = [users EXCEPT ![u] = row]
  /\ UNCHANGED factor /\ Watch(u)
  /\ UNCHANGED <<sessions, tokens>>

\* Variant of DeleteUser: the sessions do not cascade.
DeleteUserOnly(u) ==
  /\ users[u] # NULL /\ changes < MaxChanges
  /\ changes' = changes + 1
  /\ users' = [users EXCEPT ![u] = NULL]
  /\ UNCHANGED factor /\ Watch(u)
  /\ UNCHANGED <<sessions, tokens>>

\* Session rows cascade; VerificationToken and the OTP rows have no relation to User.
DeleteUser(u) ==
  /\ users[u] # NULL /\ changes < MaxChanges
  /\ changes' = changes + 1
  /\ users' = [users EXCEPT ![u] = NULL]
  /\ sessions' = [i \in SessionIds |-> IF i \in SessionsOf(u)
                                      THEN [sessions[i] EXCEPT !.state = "deleted"]
                                      ELSE sessions[i]]
  /\ UNCHANGED factor /\ Watch(u)
  /\ UNCHANGED tokens

\* setupTotp, confirmTotpSetup, sendOtp, regenerateBackupCodes, disableMethod, and a
\* code used elsewhere or expired.
FactorStep(f) ==
  (IF f["totp"] = "live"
   THEN {[f EXCEPT !["backup"] = "live"]}
   ELSE {[f EXCEPT !["totp"] = "pending", !["backup"] = "live"]})
  \cup {[f EXCEPT !["totp"] = "live"] : k \in {k \in {"totp"} : f[k] = "pending"}}
  \cup {[f EXCEPT ![m] = "live"] : m \in CodeMethods}
  \cup {[f EXCEPT ![k] = "dead"] : k \in {k \in Kinds \ {"totp"} : f[k] = "live"}}
  \cup {[f EXCEPT ![m] = "none"] : m \in Methods \ {"totp"}}
  \cup {[f EXCEPT !["totp"] = "none", !["backup"] = "none"]}

ChangeFactor(u, f) ==
  /\ f # factor[u] /\ changes < MaxChanges
  /\ changes' = changes + 1
  /\ factor' = [factor EXCEPT ![u] = f]
  /\ UNCHANGED users /\ Watch(u)
  /\ UNCHANGED <<sessions, tokens>>

Next ==
  \/ \E r \in Requests :
       \/ \E u \in Users, p \in Passwords : LoginStart(r, u, p)
       \/ LoginFindUser(r)
       \/ \E m \in Methods : ReadMethod(r, m)
       \/ LoginChallenge(r) \/ LoginToken(r)
       \/ \E t \in tokens : VerifyStart(r, t)
       \/ \E k \in Kinds : VerifyCode(r, k)
       \/ UseCode(r) \/ VerifyRefused(r) \/ VerifyStamp(r) \/ VerifyToken(r)
       \/ \E t \in tokens, h \in Handlers, s \in SessionIds : Call(r, t, h, s)
       \/ CallHost(r) \/ getProfile(r) \/ getUserSessions(r) \/ RevokeFind(r) \/ RevokeDelete(r)
  \/ \E u \in Users, i \in SessionIds : createSession(u, i)
  \/ \E i \in SessionIds : ExpireSession(i)
  \/ \E u \in Users, row \in Row : UpdateUser(u, row)
  \/ \E u \in Users : DeleteUser(u)
  \/ \E u \in Users : \E f \in FactorStep(factor[u]) : ChangeFactor(u, f)

Spec == Init /\ [][Next]_vars

----------------------------------------------------------------------------
(* Properties *)

\* Rows, factors, sessions, tokens and requests have the shapes above, a deleted user
\* has no session, and a request keeps a row only between its queries.
TypeOK ==
  /\ users \in [Users -> Row \cup {NULL}]
  /\ factor \in [Users -> [Kinds -> FactorState]]
  /\ sessions \in [SessionIds -> SessionRow \cup {NULL}]
  /\ \A i \in SessionIds : IsRow(sessions[i]) => users[sessions[i].user] # NULL
  /\ tokens \subseteq [user : Users, key : {AccessKey, ChallengeKey}, twoFactorRequired : BOOLEAN,
                       role : Roles \cup {NULL}, active : BOOLEAN]
  /\ changes \in 0 .. MaxChanges
  /\ \A r \in Requests : req[r].op = "login" /\ req[r].row # NULL => req[r].row \in Row

Granted(r) == req[r].answer = "token"
Proved(r) == CASE req[r].pc = "findUser" -> {}
               [] req[r].pc \in {"methods", "code"} -> {"password"}
               [] req[r].pc \in {"use", "stamp", "profile"} -> {"password", "code"}
Attempt(r) ==
  IF req[r].op \notin {"login", "verify"} THEN [stage |-> "idle"]
  ELSE IF Busy(r)
       THEN [stage |-> "running", user |-> req[r].user, proved |-> Proved(r), held |-> req[r].held]
       ELSE [stage |-> "over", user |-> req[r].user, granted |-> Granted(r)]

SF == INSTANCE SecondFactor
  WITH enabled <- [u \in Users |-> Enabled(u)],
       challenged <- {t.user : t \in {t \in tokens : t.twoFactorRequired}},
       attempt <- [r \in Requests |-> Attempt(r)]

\* login and verifyTwoFactor implement SecondFactor: although each method is read at its
\* own moment, no login is granted on the password alone while one method stays enabled
\* from its first query to its last, and no code is taken before a password.
ImplementsSecondFactor == SF!Spec

\* The claims a token carries (role, isActive) were all in the user's row at one moment of
\* the request that signed it; a login's password was right and its user active in that row.
ClaimsFromOneRow ==
  [][\A r \in Requests : Busy(r) /\ req'[r].answer = "token" =>
       \E row \in req[r].seen \ {NULL} :
         /\ req'[r].result.role = row.role /\ req'[r].result.active = row.active
         /\ req[r].op = "login" => validateUser(row, req[r].input)]_vars

\* What a role's grants cover, said without the code's matching rules.
Covers(g, p) == \A i \in 1 .. Len(g) : g[i] \in {"*", p[i]}
MayHold(role, p) == role \in SuperAdminRoles \/ \E g \in RolePermissions[role] : Covers(g, p)

\* A call that is past the guards of a protected route carries a token that was signed here,
\* whose role is one the route names and covers all the permissions it asks for.  The guards
\* do not tell a challenge from an access token: without a challengeTokenSecret a challenge,
\* for which only the password was shown, opens routes that ask for neither role nor
\* permission, and never any other.
AdmittedByGrant ==
  \A r \in Requests :
    Busy(r) /\ req[r].op \notin {"login", "verify"} /\ ~req[r].row.handler.public =>
    LET t == req[r].row.token  h == req[r].row.handler IN
    /\ t \in tokens
    /\ t.twoFactorRequired => /\ ChallengeSecret \in {NULL, AccessKey}
                              /\ h.roles = {} /\ h.permissions = {}
    /\ h.roles # {} => t.role \in h.roles
    /\ RolePermissions # NULL => \A p \in h.permissions : MayHold(t.role, p)

\* A session is revoked once and by its own user: of the requests that revoke it at most one
\* is told that it did, however their find and delete interleave with each other and with
\* the user's deletion, and nobody else is.
RevokedOnce ==
  \A r \in Requests : req[r].op = "revoke" /\ req[r].answer = "ok" =>
    /\ sessions[req[r].result].user = req[r].user
    /\ \A s \in Requests : req[s].op = "revoke" /\ req[s].result = req[r].result => s = r
===============================================================================
