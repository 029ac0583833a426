------------------------- MODULE TwoFactorLogin_proofs -------------------------
(* What holds of TwoFactorLogin for every number of users, requests, sessions,    *)
(* roles and changes, every configuration of methods, handlers and permissions.   *)
EXTENDS TwoFactorLogin, TLAPS

--------------------------------------------------------------------------------
(* What a request relies on at each of its awaits; x is its local variables. *)

Fields == {"op", "pc", "user", "input", "row", "found", "left", "answer", "result", "held", "seen"}

Shape(x) == x = [f \in Fields |-> x[f]]

IsBusy(x) == x.pc \notin {"idle", "done"}

Calls == {"me", "sessions", "revoke", "host"}

\* Which code a request is in.
PcOK(x) ==
  /\ x.op = "login" => x.pc \in {"findUser", "methods", "done"}
  /\ x.op = "verify" => x.pc \in {"code", "use", "stamp", "profile", "done"}
  /\ x.pc = "use" => x.found \subseteq Kinds \ {"totp"}
  /\ x.op \notin {"login", "verify"} => x.pc \in {"idle", "done", "delete"} \cup Calls
  /\ x.pc \in {"revoke", "delete"} => x.op = "revoke"
  /\ x.op = "revoke" => x.pc \in {"revoke", "delete", "done"}
  /\ x.pc = "idle" => x.op = NULL
  /\ x.pc # "done" => x.answer = NULL

\* What history has kept while the request runs, in the users' rows and factors of now.
WatchOK(x, us, fa) ==
  IsBusy(x) => /\ x.user \in Users
               /\ us[x.user] \in x.seen
               /\ x.held \subseteq EnabledIn(fa[x.user])

\* A login past its password: every method held was found, or will be asked about.
LoginOK(x) ==
  /\ x.op = "login" /\ x.row # NULL => x.row \in Row
  /\ x.pc = "methods" =>
       /\ x.row \in x.seen /\ validateUser(x.row, x.input)
       /\ "twoFactor" \in Features => x.held \subseteq x.found \cup x.left

\* A call past its guards.
CallOK(x, tk) ==
  IsBusy(x) /\ x.op \notin {"login", "verify"} =>
    /\ x.row.token \in tk /\ x.row.handler \in Handlers
    /\ Admitted(x.row.handler, x.row.token)

\* A revocation has found, and then deleted, a session of its own user.
Owned(i, u, ss) == i \in SessionIds /\ ss[i] # NULL /\ ss[i].user = u

RevokeOK(x, ss) ==
  /\ x.pc = "revoke" => x.input \in SessionIds
  /\ x.pc = "delete" => Owned(x.input, x.user, ss)
  /\ x.op = "revoke" /\ x.answer = "ok" =>
       x.pc = "done" /\ Owned(x.result, x.user, ss) /\ ~IsRow(ss[x.result])
  /\ x.op = "revoke" /\ x.answer # "ok" => x.result = NULL

ReqOK(x, us, fa, tk, ss) ==
  /\ Shape(x) /\ PcOK(x) /\ WatchOK(x, us, fa) /\ LoginOK(x) /\ CallOK(x, tk) /\ RevokeOK(x, ss)

SessionsOK(us, ss) ==
  /\ ss \in [SessionIds -> SessionRow \cup {NULL}]
  /\ \A i \in SessionIds : IsRow(ss[i]) => us[ss[i].user] # NULL

TokenType == [user : Users, key : {AccessKey, ChallengeKey}, twoFactorRequired : BOOLEAN,
              role : Roles \cup {NULL}, active : BOOLEAN]

\* What makes a token a challenge; it carries no role.
SignedRight(t) == t.twoFactorRequired => t.key = ChallengeKey /\ t.role = NULL

TokensOK(tk) == tk \subseteq TokenType /\ \A t \in tk : SignedRight(t)

TablesOK ==
  /\ users \in [Users -> Row \cup {NULL}]
  /\ factor \in [Users -> [Kinds -> FactorState]]
  /\ changes \in 0 .. MaxChanges
  /\ SessionsOK(users, sessions)
  /\ TokensOK(tokens)

IInv ==
  /\ TablesOK
  /\ DOMAIN req = Requests
  /\ \A r \in Requests : ReqOK(req[r], users, factor, tokens, sessions)

--------------------------------------------------------------------------------
(* The local variables after an action. *)

At(x, pc) == [x EXCEPT !.pc = pc]

\* Only request r has moved.
Moved(r, x) ==
  /\ DOMAIN req' = Requests
  /\ req'[r] = x
  /\ \A s \in Requests \ {r} : req'[s] = req[s]

LEMMA MovedBy ==
  ASSUME IInv, NEW r \in Requests, NEW x, req' = [req EXCEPT ![r] = x]
  PROVE  Moved(r, x)
BY DEF IInv, Moved

LEMMA ReturnMoves ==
  ASSUME IInv, NEW r \in Requests, NEW answer, NEW result, Return(r, answer, result)
  PROVE  Moved(r, Done(req[r].op, req[r].user, answer, result))
BY MovedBy DEF Return

LEMMA GotoMoves ==
  ASSUME IInv, NEW r \in Requests, NEW pc, Goto(r, pc)
  PROVE  Moved(r, At(req[r], pc))
BY MovedBy DEF Goto, At, IInv

LEMMA DoneFields ==
  ASSUME NEW op, NEW u, NEW answer, NEW result
  PROVE  LET y == Done(op, u, answer, result) IN
         /\ Shape(y) /\ y.op = op /\ y.user = u /\ y.pc = "done" /\ y.row = NULL
         /\ y.answer = answer /\ y.result = result
BY DEF Done, Shape, Fields

LEMMA AtFields ==
  ASSUME NEW x, Shape(x), NEW pc
  PROVE  LET y == At(x, pc) IN
         /\ Shape(y) /\ y.op = x.op /\ y.pc = pc /\ y.user = x.user /\ y.input = x.input
         /\ y.row = x.row /\ y.found = x.found /\ y.left = x.left /\ y.answer = x.answer
         /\ y.result = x.result /\ y.held = x.held /\ y.seen = x.seen
BY DEF At, Shape, Fields

--------------------------------------------------------------------------------
(* A step of one request keeps what the others rely on. *)

SessionsKept ==
  \A i \in SessionIds : sessions[i] # NULL =>
    /\ sessions'[i] # NULL /\ sessions'[i].user = sessions[i].user
    /\ ~IsRow(sessions[i]) => ~IsRow(sessions'[i])

\* How such a step leaves the tables: no user changes, no method goes on or off, tokens are
\* only added and sessions only deleted.
Kept ==
  /\ users' = users
  /\ \A u \in Users : EnabledIn(factor'[u]) = EnabledIn(factor[u])
  /\ tokens \subseteq tokens'
  /\ SessionsKept

LEMMA FrameRule ==
  ASSUME Kept, NEW x, ReqOK(x, users, factor, tokens, sessions)
  PROVE  ReqOK(x, users', factor', tokens', sessions')
<1>1. WatchOK(x, users', factor')
  BY DEF ReqOK, WatchOK, Kept
<1>2. CallOK(x, tokens')
  BY DEF ReqOK, CallOK, Kept
<1>3. RevokeOK(x, sessions')
  BY DEF ReqOK, RevokeOK, Owned, Kept, SessionsKept
<1> QED BY <1>1, <1>2, <1>3 DEF ReqOK

LEMMA ReqRule ==
  ASSUME IInv, Kept, TablesOK', NEW r \in Requests, NEW x, Moved(r, x),
         ReqOK(x, users', factor', tokens', sessions')
  PROVE  IInv'
<1>1. \A s \in Requests : ReqOK(req'[s], users', factor', tokens', sessions')
  BY FrameRule DEF Moved, IInv
<1>2. \A s \in Requests : ReqOK(req[s], users, factor, tokens, sessions)'
  BY <1>1
<1> QED BY <1>2 DEF IInv, Moved

\* A step that leaves the tables.
LEMMA LocalRule ==
  ASSUME IInv, UNCHANGED <<users, factor, sessions, tokens, changes>>,
         NEW r \in Requests, NEW x, Moved(r, x), ReqOK(x, users, factor, tokens, sessions)
  PROVE  IInv'
<1>1. TablesOK' /\ Kept
  BY DEF IInv, TablesOK, Kept, SessionsKept
<1> QED BY <1>1, ReqRule

\* A request that ends owes nothing but what a revocation has told.
LEMMA DoneOK ==
  ASSUME NEW x, PcOK(x), x.pc # "idle", NEW answer, NEW result,
         NEW us, NEW fa, NEW tk, NEW ss,
         x.op = "revoke" => answer # "ok" /\ result = NULL
  PROVE  ReqOK(Done(x.op, x.user, answer, result), us, fa, tk, ss)
<1> DEFINE y == Done(x.op, x.user, answer, result)
<1>1. /\ Shape(y) /\ y.op = x.op /\ y.user = x.user /\ y.pc = "done" /\ y.row = NULL
      /\ y.answer = answer /\ y.result = result
  BY DoneFields
<1>2. PcOK(y)
  BY <1>1 DEF PcOK
<1>3. WatchOK(y, us, fa) /\ CallOK(y, tk) /\ LoginOK(y)
  BY <1>1 DEF WatchOK, CallOK, LoginOK, IsBusy
<1>4. RevokeOK(y, ss)
  BY <1>1 DEF RevokeOK
<1> QED BY <1>1, <1>2, <1>3, <1>4 DEF ReqOK

\* An answer that is not a revocation's success, and changes no table.
LEMMA AnswerKeeps ==
  ASSUME IInv, NEW r \in Requests, Busy(r), NEW answer, NEW result, Return(r, answer, result),
         UNCHANGED <<users, factor, sessions, tokens, changes>>,
         req[r].op = "revoke" => answer # "ok" /\ result = NULL
  PROVE  IInv'
<1>1. Shape(req[r]) /\ PcOK(req[r]) /\ req[r].pc # "idle"
  BY DEF IInv, ReqOK, Busy
<1>2. ReqOK(Done(req[r].op, req[r].user, answer, result), users, factor, tokens, sessions)
  BY <1>1, DoneOK
<1> QED BY <1>2, ReturnMoves, LocalRule

--------------------------------------------------------------------------------
(* login *)

LEMMA ReqFacts ==
  ASSUME IInv, NEW r \in Requests
  PROVE  /\ ReqOK(req[r], users, factor, tokens, sessions)
         /\ Shape(req[r]) /\ PcOK(req[r]) /\ WatchOK(req[r], users, factor)
         /\ LoginOK(req[r]) /\ CallOK(req[r], tokens) /\ RevokeOK(req[r], sessions)
BY DEF IInv, ReqOK

LEMMA EnabledIsMethods == \A u : Enabled(u) \subseteq Methods
BY DEF Enabled, EnabledIn

\* A request that begins: op and pc are its own, the history starts with what is there.
LEMMA LocalFields ==
  ASSUME NEW op, NEW pc, NEW u, NEW input
  PROVE  LET y == Local(op, pc, u, input) IN
         /\ Shape(y) /\ y.op = op /\ y.pc = pc /\ y.user = u /\ y.input = input
         /\ y.row = NULL /\ y.answer = NULL /\ y.result = NULL
         /\ y.held = Enabled(u) /\ y.seen = {users[u]}
BY DEF Local, Shape, Fields

LEMMA LoginStartKeeps ==
  ASSUME IInv, NEW r \in Requests, NEW u \in Users, NEW p \in Passwords, LoginStart(r, u, p)
  PROVE  IInv'
<1> DEFINE y == Local("login", "findUser", u, p)
<1>1. /\ Shape(y) /\ y.op = "login" /\ y.pc = "findUser" /\ y.user = u
      /\ y.row = NULL /\ y.answer = NULL /\ y.held = Enabled(u) /\ y.seen = {users[u]}
  BY LocalFields
<1>2. Moved(r, y)
  BY MovedBy DEF LoginStart, Open
<1> HIDE DEF y
<1>3. ReqOK(y, users, factor, tokens, sessions)
  BY <1>1 DEF ReqOK, PcOK, WatchOK, LoginOK, CallOK, RevokeOK, Enabled
<1> QED BY <1>2, <1>3, LocalRule DEF LoginStart

LEMMA LoginFindUserKeeps ==
  ASSUME IInv, NEW r \in Requests, LoginFindUser(r)
  PROVE  IInv'
<1> DEFINE x == req[r]
           row == users[x.user]
           left == IF "twoFactor" \in Features THEN Methods ELSE {}
           y == [x EXCEPT !.pc = "methods", !.row = row, !.left = left]
<1>1. Shape(x) /\ PcOK(x) /\ WatchOK(x, users, factor) /\ LoginOK(x) /\ x.pc = "findUser" /\ x.op = "login"
  BY ReqFacts DEF LoginFindUser, PcOK, Calls
<1>2. UNCHANGED <<users, factor, sessions, tokens, changes>>
  BY DEF LoginFindUser
<1>3. CASE validateUser(row, x.input) /\ req' = [req EXCEPT ![r] = y]
  <2>1. /\ Shape(y) /\ y.op = "login" /\ y.pc = "methods" /\ y.user = x.user /\ y.input = x.input
        /\ y.row = row /\ y.left = left /\ y.found = x.found /\ y.held = x.held /\ y.seen = x.seen
        /\ y.answer = x.answer
    BY <1>1 DEF Shape, Fields
  <2>2. row \in Row /\ x.user \in Users /\ row \in x.seen /\ x.held \subseteq Enabled(x.user)
    BY <1>1, <1>3 DEF validateUser, WatchOK, IsBusy, IInv, TablesOK, Enabled
  <2>3. LoginOK(y)
    BY <1>3, <2>1, <2>2, EnabledIsMethods DEF LoginOK
  <2>4. WatchOK(y, users, factor)
    BY <2>1, <2>2 DEF WatchOK, Enabled
  <2>5. ReqOK(y, users, factor, tokens, sessions)
    BY <1>1, <2>1, <2>3, <2>4 DEF ReqOK, PcOK, CallOK, RevokeOK
  <2>6. Moved(r, y)
    BY <1>3, MovedBy
  <2> HIDE DEF y
  <2> QED BY <1>2, <2>5, <2>6, LocalRule
<1>4. CASE Answer(r, "401")
  BY <1>1, <1>2, <1>4, AnswerKeeps DEF Answer, Busy
<1>5. \/ validateUser(row, x.input) /\ req' = [req EXCEPT ![r] = y]
      \/ Answer(r, "401")
  BY DEF LoginFindUser, IInv
<1> QED BY <1>3, <1>4, <1>5

\* A method held is on when it is asked about, so it is found.
LEMMA ReadMethodKeeps ==
  ASSUME IInv, NEW r \in Requests, NEW m \in Methods, ReadMethod(r, m)
  PROVE  IInv'
<1> DEFINE x == req[r]
           left == x.left \ {m}
           found == x.found \cup (Enabled(x.user) \cap {m})
           y == [x EXCEPT !.left = left, !.found = found]
<1>1. Shape(x) /\ PcOK(x) /\ WatchOK(x, users, factor) /\ LoginOK(x) /\ RevokeOK(x, sessions)
      /\ x.pc = "methods" /\ x.op = "login"
  BY ReqFacts DEF ReadMethod, PcOK, Calls
<1>2. /\ Shape(y) /\ y.op = x.op /\ y.pc = x.pc /\ y.user = x.user /\ y.input = x.input
      /\ y.row = x.row /\ y.left = left /\ y.found = found /\ y.held = x.held /\ y.seen = x.seen
      /\ y.answer = x.answer /\ y.result = x.result
  BY <1>1 DEF Shape, Fields
<1>3. x.held \subseteq Enabled(x.user)
  BY <1>1 DEF WatchOK, IsBusy, Enabled
<1>4. LoginOK(y)
  BY <1>1, <1>2, <1>3 DEF LoginOK
<1>5. ReqOK(y, users, factor, tokens, sessions)
  BY <1>1, <1>2, <1>4 DEF ReqOK, PcOK, WatchOK, IsBusy, CallOK, RevokeOK
<1>6. Moved(r, y)
  BY MovedBy DEF ReadMethod, IInv
<1> HIDE DEF y
<1> QED BY <1>5, <1>6, LocalRule DEF ReadMethod

\* A token is added to the ones that are out.
LEMMA SignRule ==
  ASSUME IInv, NEW r \in Requests, Busy(r), req[r].op # "revoke", NEW t \in TokenType,
         SignedRight(t), NEW answer, NEW result, Return(r, answer, result),
         tokens' = tokens \cup {t}, UNCHANGED <<users, factor, sessions, changes>>
  PROVE  IInv'
<1>1. TablesOK' /\ Kept
  BY DEF IInv, TablesOK, TokensOK, Kept, SessionsKept
<1>2. PcOK(req[r]) /\ req[r].pc # "idle"
  BY ReqFacts DEF Busy
<1>3. ReqOK(Done(req[r].op, req[r].user, answer, result), users', factor', tokens', sessions')
  BY <1>2, DoneOK
<1> QED BY <1>1, <1>3, ReturnMoves, ReqRule

LEMMA LoginChallengeKeeps ==
  ASSUME IInv, NEW r \in Requests, LoginChallenge(r)
  PROVE  IInv'
<1> DEFINE t == generateChallengeToken(req[r].user)
<1>1. Busy(r) /\ req[r].op = "login" /\ req[r].user \in Users
  BY ReqFacts DEF LoginChallenge, Busy, PcOK, Calls, WatchOK, IsBusy
<1>2. t \in TokenType /\ SignedRight(t)
  BY <1>1 DEF generateChallengeToken, Token, TokenType, SignedRight
<1>3. Return(r, "challenge", NULL) /\ tokens' = tokens \cup {t} /\ UNCHANGED <<users, factor, sessions, changes>>
  BY DEF LoginChallenge, Answer
<1> HIDE DEF t
<1> QED BY <1>1, <1>2, <1>3, SignRule

LEMMA AccessTokenFacts ==
  ASSUME NEW u \in Users, NEW row \in Row
  PROVE  LET t == generateToken(u, row) IN
         /\ t \in TokenType /\ SignedRight(t) /\ t.user = u
         /\ t.role = row.role /\ t.active = row.active
BY DEF generateToken, Token, TokenType, Row, SignedRight

LEMMA LoginTokenKeeps ==
  ASSUME IInv, NEW r \in Requests, LoginToken(r)
  PROVE  IInv'
<1>1. Busy(r) /\ req[r].op = "login" /\ req[r].user \in Users /\ req[r].row \in Row
  BY ReqFacts DEF LoginToken, Busy, PcOK, Calls, WatchOK, IsBusy, LoginOK, validateUser
<1> DEFINE t == generateToken(req[r].user, req[r].row)
<1>2. t \in TokenType /\ SignedRight(t)
  BY <1>1, AccessTokenFacts
<1>3. UNCHANGED <<users, factor, sessions, changes>>
  BY DEF LoginToken
<1>4. \/ tokens' = tokens \cup {t} /\ Return(r, "token", t)
      \/ UNCHANGED tokens /\ Return(r, "500", NULL)
  BY DEF LoginToken, Answer
<1> HIDE DEF t
<1> QED BY <1>1, <1>2, <1>3, <1>4, SignRule, AnswerKeeps

--------------------------------------------------------------------------------
(* verifyTwoFactor *)

LEMMA VerifyStartKeeps ==
  ASSUME IInv, NEW r \in Requests, NEW t \in tokens, VerifyStart(r, t)
  PROVE  IInv'
<1> DEFINE y == Local("verify", "code", t.user, t)
<1>1. /\ Shape(y) /\ y.op = "verify" /\ y.pc = "code" /\ y.user = t.user
      /\ y.row = NULL /\ y.answer = NULL /\ y.held = Enabled(t.user) /\ y.seen = {users[t.user]}
  BY LocalFields
<1>2. t.user \in Users
  BY DEF IInv, TablesOK, TokensOK, TokenType
<1>3. Moved(r, y)
  BY MovedBy DEF VerifyStart, Open
<1> HIDE DEF y
<1>4. ReqOK(y, users, factor, tokens, sessions)
  BY <1>1, <1>2 DEF ReqOK, PcOK, WatchOK, LoginOK, CallOK, RevokeOK, Enabled
<1> QED BY <1>3, <1>4, LocalRule DEF VerifyStart

\* A request of verifyTwoFactor at its next await.
LEMMA VerifyGoes ==
  ASSUME NEW x, NEW pc \in {"stamp", "profile"}, x.op = "verify", x.pc \in {"code", "use", "stamp"},
         NEW us, NEW fa, NEW tk, NEW ss, ReqOK(x, us, fa, tk, ss)
  PROVE  ReqOK(At(x, pc), us, fa, tk, ss)
<1> DEFINE y == At(x, pc)
<1>1. /\ Shape(y) /\ y.op = x.op /\ y.pc = pc /\ y.user = x.user
      /\ y.held = x.held /\ y.seen = x.seen /\ y.answer = x.answer
  BY AtFields DEF ReqOK
<1>2. WatchOK(y, us, fa)
  BY <1>1 DEF ReqOK, WatchOK, IsBusy
<1> QED BY <1>1, <1>2 DEF ReqOK, PcOK, LoginOK, CallOK, RevokeOK

\* A code that is used up keeps its method on.
LEMMA UsedCodeKeepsMethods ==
  ASSUME NEW f \in [Kinds -> FactorState], NEW k \in Kinds \ {"totp"}, f[k] # "none"
  PROVE  /\ [f EXCEPT ![k] = "dead"] \in [Kinds -> FactorState]
         /\ EnabledIn([f EXCEPT ![k] = "dead"]) = EnabledIn(f)
<1> DEFINE g == [f EXCEPT ![k] = "dead"]
<1>1. g \in [Kinds -> FactorState]
  BY DEF FactorState
<1>2. \A m \in Methods : m \in Kinds
  BY DEF Kinds
<1>3. \A m \in Methods : IsMethodOn(g, m) <=> IsMethodOn(f, m)
  BY <1>2 DEF IsMethodOn
<1> QED BY <1>1, <1>3 DEF EnabledIn

LEMMA UsedCodes ==
  ASSUME IInv, NEW r \in Requests, req[r].user \in Users, NEW k \in Kinds \ {"totp"},
         factor[req[r].user][k] # "none",
         factor' \in {factor, [factor EXCEPT ![req[r].user][k] = "dead"]}
  PROVE  /\ factor' \in [Users -> [Kinds -> FactorState]]
         /\ \A u \in Users : EnabledIn(factor'[u]) = EnabledIn(factor[u])
<1> DEFINE x == req[r]
<1>1. factor \in [Users -> [Kinds -> FactorState]]
  BY DEF IInv, TablesOK
<1>2. CASE factor' = factor
  BY <1>1, <1>2
<1>3. CASE factor' = [factor EXCEPT ![x.user][k] = "dead"]
  <2>1. factor' = [factor EXCEPT ![x.user] = [factor[x.user] EXCEPT ![k] = "dead"]]
    BY <1>1, <1>3
  <2>2. factor[x.user] \in [Kinds -> FactorState] /\ factor[x.user][k] # "none"
    BY <1>1
  <2> QED BY <1>1, <2>1, <2>2, UsedCodeKeepsMethods
<1> QED BY <1>2, <1>3

\* A request that has found a code it has to mark.
LEMMA UseFields ==
  ASSUME NEW x, Shape(x), NEW k
  PROVE  LET y == [x EXCEPT !.pc = "use", !.found = {k}] IN
         /\ Shape(y) /\ y.op = x.op /\ y.pc = "use" /\ y.user = x.user /\ y.found = {k}
         /\ y.answer = x.answer /\ y.held = x.held /\ y.seen = x.seen
BY DEF Shape, Fields

LEMMA VerifyCodeKeeps ==
  ASSUME IInv, NEW r \in Requests, NEW k \in Kinds, VerifyCode(r, k)
  PROVE  IInv'
<1> DEFINE x == req[r]
           y == [x EXCEPT !.pc = "use", !.found = {k}]
<1>1. /\ ReqOK(x, users, factor, tokens, sessions) /\ x.op = "verify" /\ x.pc = "code" /\ Shape(x)
  BY ReqFacts DEF VerifyCode, PcOK, Calls
<1>2. UNCHANGED <<users, factor, sessions, tokens, changes>>
  BY DEF VerifyCode
<1>3. CASE Goto(r, "stamp")
  BY <1>1, <1>2, <1>3, VerifyGoes, GotoMoves, LocalRule
<1>4. CASE k # "totp" /\ req' = [req EXCEPT ![r] = y]
  <2>1. /\ Shape(y) /\ y.op = x.op /\ y.pc = "use" /\ y.user = x.user /\ y.found = {k}
        /\ y.answer = x.answer /\ y.held = x.held /\ y.seen = x.seen
    BY <1>1, UseFields
  <2>2. Moved(r, y)
    BY <1>4, MovedBy
  <2> HIDE DEF y
  <2>3. PcOK(y)
    BY <1>1, <1>4, <2>1 DEF ReqOK, PcOK
  <2>4. ReqOK(y, users, factor, tokens, sessions)
    BY <1>1, <2>1, <2>3 DEF ReqOK, WatchOK, IsBusy, LoginOK, CallOK, RevokeOK
  <2> QED BY <1>2, <2>2, <2>4, LocalRule
<1>5. Goto(r, "stamp") \/ (k # "totp" /\ req' = [req EXCEPT ![r] = y])
  BY DEF VerifyCode, IInv
<1> QED BY <1>3, <1>4, <1>5

LEMMA UseCodeKeeps ==
  ASSUME IInv, NEW r \in Requests, UseCode(r)
  PROVE  IInv'
<1> DEFINE x == req[r]
<1>1. /\ ReqOK(x, users, factor, tokens, sessions) /\ x.op = "verify" /\ x.pc = "use" /\ x.user \in Users
      /\ x.found \subseteq Kinds \ {"totp"} /\ Busy(r)
  BY ReqFacts DEF UseCode, PcOK, WatchOK, IsBusy, Busy, Calls
<1>2. UNCHANGED <<users, sessions, tokens, changes>>
  BY DEF UseCode
<1>3. CASE Return(r, "500", NULL) /\ UNCHANGED factor
  BY <1>1, <1>2, <1>3, AnswerKeeps
<1>4. ASSUME NEW k \in x.found, factor[x.user][k] # "none", Goto(r, "stamp"),
             factor' \in {factor, [factor EXCEPT ![x.user][k] = "dead"]}
      PROVE  IInv'
  <2>1. /\ factor' \in [Users -> [Kinds -> FactorState]]
        /\ \A u \in Users : EnabledIn(factor'[u]) = EnabledIn(factor[u])
    BY <1>1, <1>4, UsedCodes
  <2>2. TablesOK' /\ Kept
    BY <1>2, <2>1 DEF IInv, TablesOK, Kept, SessionsKept
  <2>3. ReqOK(x, users', factor', tokens', sessions')
    BY <1>1, <2>2, FrameRule
  <2>4. ReqOK(At(x, "stamp"), users', factor', tokens', sessions')
    BY <1>1, <2>3, VerifyGoes
  <2> QED BY <1>4, <2>2, <2>4, GotoMoves, ReqRule
<1> QED BY <1>3, <1>4 DEF UseCode, Answer

LEMMA VerifyRefusedKeeps ==
  ASSUME IInv, NEW r \in Requests, VerifyRefused(r)
  PROVE  IInv'
<1>1. Busy(r) /\ req[r].op # "revoke" /\ Return(r, "401", NULL)
  BY ReqFacts DEF VerifyRefused, Busy, PcOK, Answer, Calls
<1> QED BY <1>1, AnswerKeeps DEF VerifyRefused

LEMMA VerifyStampKeeps ==
  ASSUME IInv, NEW r \in Requests, VerifyStamp(r)
  PROVE  IInv'
<1>1. Busy(r) /\ req[r].op = "verify" /\ req[r].pc = "stamp"
  BY ReqFacts DEF VerifyStamp, Busy, PcOK, Calls
<1>2. UNCHANGED <<users, factor, sessions, tokens, changes>>
  BY DEF VerifyStamp
<1>3. CASE Goto(r, "profile")
  BY <1>1, <1>2, <1>3, ReqFacts, VerifyGoes, GotoMoves, LocalRule
<1>4. CASE Return(r, "500", NULL)
  BY <1>1, <1>2, <1>4, AnswerKeeps
<1> QED BY <1>3, <1>4 DEF VerifyStamp, Answer

LEMMA VerifyTokenKeeps ==
  ASSUME IInv, NEW r \in Requests, VerifyToken(r)
  PROVE  IInv'
<1> DEFINE u == req[r].user
           t == generateToken(u, users[u])
<1>1. Busy(r) /\ req[r].op = "verify" /\ u \in Users
  BY ReqFacts DEF VerifyToken, Busy, PcOK, Calls, WatchOK, IsBusy
<1>2. users[u] # NULL => t \in TokenType /\ SignedRight(t)
  BY <1>1, AccessTokenFacts DEF IInv, TablesOK
<1>3. UNCHANGED <<users, factor, sessions, changes>>
  BY DEF VerifyToken
<1>4. \/ users[u] # NULL /\ tokens' = tokens \cup {t} /\ Return(r, "token", t)
      \/ UNCHANGED tokens /\ Return(r, "404", NULL)
  BY DEF VerifyToken, Answer
<1> HIDE DEF t
<1> QED BY <1>1, <1>2, <1>3, <1>4, SignRule, AnswerKeeps

--------------------------------------------------------------------------------
(* Calls with a token *)

LEMMA CallKeeps ==
  ASSUME IInv, NEW r \in Requests, NEW t \in tokens, NEW h \in Handlers, NEW i \in SessionIds, Call(r, t, h, i)
  PROVE  IInv'
<1> DEFINE x == Local(h.does, h.does, t.user, i)
           call == [token |-> t, handler |-> h]
           y == [x EXCEPT !.row = call]
           code == IF JwtAuthGuard(h, t) THEN "403" ELSE "401"
           n == Done(NULL, NULL, code, NULL)
<1>1. UNCHANGED <<users, factor, sessions, tokens, changes>>
  BY DEF Call
<1>2. CASE Admitted(h, t)
  <2>1. Shape(x) /\ x.op = h.does /\ x.pc = h.does /\ x.user = t.user /\ x.input = i /\ x.answer = NULL
        /\ x.result = NULL /\ x.held = Enabled(t.user) /\ x.seen = {users[t.user]}
    BY LocalFields
  <2> HIDE DEF x
  <2>2. Shape(y) /\ y.op = h.does /\ y.pc = h.does /\ y.user = t.user /\ y.input = i /\ y.answer = NULL
        /\ y.result = NULL /\ y.held = Enabled(t.user) /\ y.seen = {users[t.user]} /\ y.row = call
    BY <2>1 DEF Shape, Fields
  <2>3. t.user \in Users /\ h.does \in Calls
    BY HandlersAssumption DEF IInv, TablesOK, TokensOK, TokenType, Calls
  <2> HIDE DEF y
  <2>4. ReqOK(y, users, factor, tokens, sessions)
    <3>1. PcOK(y)
      BY <2>2, <2>3 DEF PcOK, Calls
    <3>2. WatchOK(y, users, factor)
      BY <2>2, <2>3 DEF WatchOK, Enabled
    <3>3. LoginOK(y)
      BY <2>2, <2>3 DEF LoginOK, Calls
    <3>4. CallOK(y, tokens)
      BY <1>2, <2>2 DEF CallOK
    <3>5. RevokeOK(y, sessions)
      BY <2>2, <2>3, NullAssumption DEF RevokeOK, Calls
    <3> QED BY <2>2, <3>1, <3>2, <3>3, <3>4, <3>5 DEF ReqOK
  <2>5. Moved(r, y)
    BY <1>2, MovedBy DEF Call, x, y
  <2> QED BY <1>1, <2>4, <2>5, LocalRule
<1>3. CASE ~Admitted(h, t)
  <2>1. /\ Shape(n) /\ n.op = NULL /\ n.user = NULL /\ n.pc = "done" /\ n.row = NULL
        /\ n.answer = code /\ n.result = NULL
    BY DoneFields
  <2>2. Moved(r, n)
    BY <1>3, MovedBy DEF Call
  <2> HIDE DEF n
  <2>3. ReqOK(n, users, factor, tokens, sessions)
    BY <2>1, NullAssumption DEF ReqOK, PcOK, WatchOK, IsBusy, LoginOK, CallOK, RevokeOK
  <2> QED BY <1>1, <2>2, <2>3, LocalRule
<1> QED BY <1>2, <1>3

LEMMA ReadsKeep ==
  ASSUME IInv, NEW r \in Requests, CallHost(r) \/ getProfile(r) \/ getUserSessions(r)
  PROVE  IInv'
<1>1. Busy(r) /\ req[r].pc \in {"host", "me", "sessions"} /\ UNCHANGED <<users, factor, sessions, tokens, changes>>
  BY DEF CallHost, getProfile, getUserSessions, Busy
<1>2. PICK answer, result : Return(r, answer, result)
  BY DEF CallHost, getProfile, getUserSessions, Answer
<1>3. req[r].op # "revoke"
  BY <1>1, ReqFacts DEF PcOK
<1> QED BY <1>1, <1>2, <1>3, AnswerKeeps
LEMMA RevokeFindKeeps ==
  ASSUME IInv, NEW r \in Requests, RevokeFind(r)
  PROVE  IInv'
<1> DEFINE x == req[r]
           y == At(x, "delete")
<1>1. Busy(r) /\ x.op = "revoke" /\ x.pc = "revoke" /\ ReqOK(x, users, factor, tokens, sessions)
  BY ReqFacts DEF RevokeFind, Busy, PcOK
<1>2. UNCHANGED <<users, factor, sessions, tokens, changes>>
  BY DEF RevokeFind
<1>3. CASE Return(r, "403", NULL) \/ Return(r, "404", NULL)
  BY <1>1, <1>2, <1>3, AnswerKeeps
<1>4. CASE x.input \in SessionsOf(x.user) /\ Goto(r, "delete")
  <2>1. /\ Shape(y) /\ y.op = x.op /\ y.pc = "delete" /\ y.user = x.user /\ y.input = x.input
        /\ y.row = x.row /\ y.answer = x.answer /\ y.result = x.result /\ y.held = x.held /\ y.seen = x.seen
    BY <1>1, AtFields DEF ReqOK
  <2>2. Moved(r, y)
    BY <1>4, GotoMoves
  <2>3. Owned(x.input, x.user, sessions)
    BY <1>4 DEF SessionsOf, Owned, IsRow
  <2> HIDE DEF y
  <2>4. PcOK(y) /\ LoginOK(y)
    BY <1>1, <2>1 DEF PcOK, LoginOK, ReqOK
  <2>5. WatchOK(y, users, factor) /\ CallOK(y, tokens)
    BY <1>1, <2>1 DEF WatchOK, CallOK, IsBusy, ReqOK
  <2>6. RevokeOK(y, sessions)
    BY <1>1, <2>1, <2>3 DEF RevokeOK, ReqOK
  <2> QED BY <1>2, <2>1, <2>2, <2>4, <2>5, <2>6, LocalRule DEF ReqOK
<1> QED BY <1>3, <1>4 DEF RevokeFind, Answer

\* Deleting a session, by a revocation or by a cascade, leaves a row that is no row.
LEMMA DeletedSession ==
  ASSUME NEW s \in SessionRow
  PROVE  LET d == [s EXCEPT !.state = "deleted"] IN
         /\ d \in SessionRow /\ d # NULL /\ d.user = s.user /\ d.state = "deleted" /\ ~IsRow(d)
BY SessionRowAssumption DEF SessionRow, IsRow

LEMMA RevokeDeleteKeeps ==
  ASSUME IInv, NEW r \in Requests, RevokeDelete(r)
  PROVE  IInv'
<1> DEFINE x == req[r]
           i == x.input
           y == Done(x.op, x.user, "ok", i)
<1>1. Busy(r) /\ x.op = "revoke" /\ x.pc = "delete" /\ Owned(i, x.user, sessions) /\ RevokeOK(x, sessions)
  BY ReqFacts DEF RevokeDelete, Busy, PcOK, RevokeOK
<1>2. UNCHANGED <<users, factor, tokens, changes>>
  BY DEF RevokeDelete
<1>3. CASE Return(r, "500", NULL) /\ UNCHANGED sessions
  BY <1>1, <1>2, <1>3, AnswerKeeps
<1>4. CASE sessions' = [sessions EXCEPT ![i].state = "deleted"] /\ Return(r, "ok", i)
  <2>1. sessions[i] \in SessionRow /\ i \in SessionIds /\ DOMAIN sessions = SessionIds
    BY <1>1 DEF IInv, TablesOK, SessionsOK, Owned
  <2>2. sessions' = [sessions EXCEPT ![i] = [sessions[i] EXCEPT !.state = "deleted"]]
    BY <1>4, <2>1
  <2> DEFINE d == [sessions[i] EXCEPT !.state = "deleted"]
  <2>3. d \in SessionRow /\ d # NULL /\ d.user = sessions[i].user /\ ~IsRow(d)
    BY <2>1, DeletedSession, SessionRowAssumption DEF SessionRow
  <2>4. /\ sessions' \in [SessionIds -> SessionRow \cup {NULL}]
        /\ sessions'[i] = d /\ \A j \in SessionIds \ {i} : sessions'[j] = sessions[j]
    BY <2>1, <2>2, <2>3 DEF IInv, TablesOK, SessionsOK
  <2> HIDE DEF d
  <2>5. TablesOK' /\ Kept
    BY <1>2, <2>1, <2>3, <2>4 DEF IInv, TablesOK, SessionsOK, Kept, SessionsKept
  <2>6. /\ Shape(y) /\ y.op = x.op /\ y.user = x.user /\ y.pc = "done" /\ y.row = NULL
        /\ y.answer = "ok" /\ y.result = i
    BY DoneFields
  <2>7. Moved(r, y)
    BY <1>4, ReturnMoves
  <2> HIDE DEF y
  <2>8. ReqOK(y, users', factor', tokens', sessions')
    BY <1>1, <2>3, <2>4, <2>6 DEF ReqOK, PcOK, WatchOK, IsBusy, LoginOK, CallOK, RevokeOK, Owned
  <2> QED BY <2>5, <2>7, <2>8, ReqRule
<1> QED BY <1>3, <1>4 DEF RevokeDelete, Answer

--------------------------------------------------------------------------------
(* Everyone else *)

\* A step that leaves the users, the factors and the requests.
LEMMA SessionStepKeeps ==
  ASSUME IInv, SessionsKept, SessionsOK(users, sessions'), changes' \in 0 .. MaxChanges,
         UNCHANGED <<users, factor, tokens, req>>
  PROVE  IInv'
<1>1. Kept /\ TablesOK'
  BY DEF Kept, IInv, TablesOK
<1>2. \A r \in Requests : ReqOK(req[r], users', factor', tokens', sessions')
  BY <1>1, FrameRule DEF IInv
<1>3. \A r \in Requests : ReqOK(req[r], users, factor, tokens, sessions)'
  BY <1>2
<1> QED BY <1>1, <1>3 DEF IInv

LEMMA ChangesBound ==
  ASSUME changes \in 0 .. MaxChanges, changes < MaxChanges
  PROVE  changes + 1 \in 0 .. MaxChanges
BY BoundsAssumption

LEMMA createSessionKeeps ==
  ASSUME IInv, NEW u \in Users, NEW i \in SessionIds, createSession(u, i)
  PROVE  IInv'
<1>1. changes' \in 0 .. MaxChanges
  BY ChangesBound DEF createSession, IInv, TablesOK
<1> DEFINE s == [user |-> u, state |-> "live"]
<1>2. /\ sessions'[i] = s /\ DOMAIN sessions' = SessionIds
      /\ \A j \in SessionIds \ {i} : sessions'[j] = sessions[j]
  BY DEF createSession, IInv, TablesOK, SessionsOK
<1>3. s \in SessionRow /\ s.user = u
  BY DEF SessionRow
<1> HIDE DEF s
<1>4. SessionsOK(users, sessions') /\ SessionsKept
  BY <1>2, <1>3 DEF createSession, IInv, TablesOK, SessionsOK, SessionsKept, IsRow
<1> QED BY <1>1, <1>4, SessionStepKeeps DEF createSession

LEMMA ExpireSessionKeeps ==
  ASSUME IInv, NEW i \in SessionIds, ExpireSession(i)
  PROVE  IInv'
<1>1. changes' \in 0 .. MaxChanges
  BY ChangesBound DEF ExpireSession, IInv, TablesOK
<1>2. sessions[i] \in SessionRow /\ DOMAIN sessions = SessionIds /\ IsRow(sessions[i])
  BY DEF ExpireSession, IInv, TablesOK, SessionsOK, IsRow
<1> DEFINE s == [sessions[i] EXCEPT !.state = "expired"]
<1>3. s \in SessionRow /\ s.user = sessions[i].user /\ s # NULL
  BY <1>2, SessionRowAssumption DEF SessionRow
<1>4. /\ sessions' \in [SessionIds -> SessionRow \cup {NULL}] /\ sessions'[i] = s
      /\ \A j \in SessionIds \ {i} : sessions'[j] = sessions[j]
  BY <1>2, <1>3 DEF ExpireSession, IInv, TablesOK, SessionsOK
<1> HIDE DEF s
<1>5. SessionsOK(users, sessions') /\ SessionsKept
  BY <1>2, <1>3, <1>4 DEF IInv, TablesOK, SessionsOK, SessionsKept
<1> QED BY <1>1, <1>5, SessionStepKeeps DEF ExpireSession

\* The local variables of a request whose user another actor has changed.
Watched(x, ms, row) == [x EXCEPT !.held = @ \cap ms, !.seen = @ \cup {row}]

LEMMA WatchedFields ==
  ASSUME NEW x, Shape(x), NEW ms, NEW row
  PROVE  LET y == Watched(x, ms, row) IN
         /\ Shape(y) /\ y.op = x.op /\ y.pc = x.pc /\ y.user = x.user /\ y.input = x.input
         /\ y.row = x.row /\ y.found = x.found /\ y.left = x.left /\ y.answer = x.answer
         /\ y.result = x.result /\ y.held = x.held \cap ms /\ y.seen = x.seen \cup {row}
BY DEF Watched, Shape, Fields

\* Only user u is touched.
Touched(u) == \A v \in Users \ {u} : users'[v] = users[v] /\ factor'[v] = factor[v]

\* A step on the tables of one user, noted by the requests of that user.
LEMMA WatchRule ==
  ASSUME IInv, NEW u \in Users, Touched(u), Watch(u), UNCHANGED tokens, SessionsKept, TablesOK'
  PROVE  IInv'
<1> DEFINE ms == EnabledIn(factor'[u])
           row == users'[u]
<1>1. DOMAIN req' = Requests
  BY DEF Watch
<1>2. ASSUME NEW r \in Requests
      PROVE  ReqOK(req'[r], users', factor', tokens', sessions')
  <2> DEFINE x == req[r]
             y == Watched(x, ms, row)
  <2>1. /\ Shape(x) /\ PcOK(x) /\ WatchOK(x, users, factor) /\ LoginOK(x) /\ CallOK(x, tokens)
        /\ RevokeOK(x, sessions)
    BY ReqFacts
  <2>2. RevokeOK(x, sessions')
    BY <2>1 DEF RevokeOK, SessionsKept, Owned
  <2>3. CASE Busy(r) /\ x.user = u
    <3>1. req'[r] = y
      BY <2>3 DEF Watch, Watched
    <3>2. /\ Shape(y) /\ y.op = x.op /\ y.pc = x.pc /\ y.user = x.user /\ y.input = x.input
          /\ y.row = x.row /\ y.found = x.found /\ y.left = x.left /\ y.answer = x.answer
          /\ y.result = x.result /\ y.held = x.held \cap ms /\ y.seen = x.seen \cup {row}
      BY <2>1, WatchedFields
    <3> HIDE DEF y
    <3>3. WatchOK(y, users', factor')
      BY <2>3, <3>2 DEF WatchOK
    <3>4. LoginOK(y)
      BY <2>1, <3>2 DEF LoginOK
    <3>5. PcOK(y) /\ CallOK(y, tokens') /\ RevokeOK(y, sessions')
      BY <2>1, <2>2, <3>2 DEF PcOK, CallOK, IsBusy, RevokeOK
    <3> QED BY <3>1, <3>2, <3>3, <3>4, <3>5 DEF ReqOK
  <2>4. CASE ~(Busy(r) /\ x.user = u)
    <3>1. req'[r] = x
      BY <2>4 DEF Watch
    <3>2. WatchOK(x, users', factor')
      BY <2>1, <2>4 DEF WatchOK, IsBusy, Busy, Touched
    <3> QED BY <2>1, <2>2, <3>1, <3>2 DEF ReqOK
  <2> QED BY <2>3, <2>4
<1>3. \A r \in Requests : ReqOK(req[r], users, factor, tokens, sessions)'
  BY <1>2
<1> QED BY <1>1, <1>3 DEF IInv

LEMMA UpdateUserKeeps ==
  ASSUME IInv, NEW u \in Users, NEW row \in Row, UpdateUser(u, row)
  PROVE  IInv'
<1>1. changes' \in 0 .. MaxChanges
  BY ChangesBound DEF UpdateUser, IInv, TablesOK
<1>2. users' = [users EXCEPT ![u] = row] /\ UNCHANGED <<factor, sessions, tokens>> /\ Watch(u)
  BY DEF UpdateUser
<1>3. /\ users' \in [Users -> Row \cup {NULL}] /\ users'[u] # NULL
      /\ \A v \in Users \ {u} : users'[v] = users[v]
  BY <1>2, RowAssumption DEF IInv, TablesOK
<1>4. SessionsOK(users', sessions)
  <2>1. \A v \in Users : users[v] # NULL => users'[v] # NULL
    BY <1>3
  <2>2. \A i \in SessionIds : IsRow(sessions[i]) => sessions[i].user \in Users
    BY DEF IInv, TablesOK, SessionsOK, IsRow, SessionRow
  <2> QED BY <2>1, <2>2 DEF IInv, TablesOK, SessionsOK
<1>5. TablesOK' /\ Touched(u) /\ SessionsKept
  BY <1>1, <1>2, <1>3, <1>4 DEF IInv, TablesOK, Touched, SessionsKept
<1> QED BY <1>2, <1>5, WatchRule

LEMMA DeleteUserKeeps ==
  ASSUME IInv, NEW u \in Users, DeleteUser(u)
  PROVE  IInv'
<1>1. changes' \in 0 .. MaxChanges
  BY ChangesBound DEF DeleteUser, IInv, TablesOK
<1>2. users' = [users EXCEPT ![u] = NULL] /\ UNCHANGED <<factor, tokens>> /\ Watch(u)
  BY DEF DeleteUser
<1>3. /\ users' \in [Users -> Row \cup {NULL}]
      /\ \A v \in Users \ {u} : users'[v] = users[v]
  BY <1>2 DEF IInv, TablesOK
<1>4. /\ DOMAIN sessions' = SessionIds
      /\ \A i \in SessionIds : sessions'[i] = IF i \in SessionsOf(u)
                                              THEN [sessions[i] EXCEPT !.state = "deleted"]
                                              ELSE sessions[i]
  BY DEF DeleteUser
<1>5. \A i \in SessionIds : sessions[i] # NULL => sessions[i] \in SessionRow
  BY DEF IInv, TablesOK, SessionsOK
<1>6. ASSUME NEW i \in SessionsOf(u)
      PROVE  /\ sessions[i] # NULL /\ sessions'[i] \in SessionRow /\ sessions'[i] # NULL
             /\ sessions'[i].user = sessions[i].user /\ ~IsRow(sessions'[i])
  <2>1. i \in SessionIds /\ sessions[i] # NULL
    BY DEF SessionsOf, IsRow
  <2>2. sessions[i] \in SessionRow /\ sessions'[i] = [sessions[i] EXCEPT !.state = "deleted"]
    BY <1>4, <1>5, <2>1
  <2> QED BY <2>1, <2>2, DeletedSession
<1>7. SessionsKept
  BY <1>4, <1>6 DEF SessionsKept
<1>8. SessionsOK(users', sessions')
  <2>1. sessions' \in [SessionIds -> SessionRow \cup {NULL}]
    <3>1. \A i \in SessionIds : sessions'[i] \in SessionRow \cup {NULL}
      BY <1>4, <1>5, <1>6
    <3> QED BY <3>1 DEF DeleteUser
  <2>2. ASSUME NEW i \in SessionIds, IsRow(sessions'[i])
        PROVE  users'[sessions'[i].user] # NULL
    <3>1. i \notin SessionsOf(u) /\ sessions'[i] = sessions[i]
      BY <1>4, <1>6, <2>2
    <3>2. sessions[i].user \in Users \ {u}
      BY <1>5, <2>2, <3>1 DEF SessionsOf, IsRow, SessionRow
    <3> QED BY <1>3, <2>2, <3>1, <3>2 DEF IInv, TablesOK, SessionsOK
  <2> QED BY <2>1, <2>2 DEF SessionsOK
<1>9. TablesOK' /\ Touched(u)
  BY <1>1, <1>2, <1>3, <1>8 DEF IInv, TablesOK, Touched
<1> QED BY <1>2, <1>7, <1>9, WatchRule

\* Whatever is done to a user's factors leaves each of them in one of its states.
LEMMA FactorStepType ==
  ASSUME NEW f \in [Kinds -> FactorState], NEW g \in FactorStep(f)
  PROVE  g \in [Kinds -> FactorState]
<1>1. \A k : \A v \in FactorState : [f EXCEPT ![k] = v] \in [Kinds -> FactorState]
  OBVIOUS
<1>2. \A k, l : \A v, w \in FactorState : [f EXCEPT ![k] = v, ![l] = w] \in [Kinds -> FactorState]
  OBVIOUS
<1>3. {"none", "pending", "live", "dead"} \subseteq FactorState
  BY DEF FactorState
<1> QED BY <1>1, <1>2, <1>3 DEF FactorStep

LEMMA ChangeFactorKeeps ==
  ASSUME IInv, NEW u \in Users, NEW f \in FactorStep(factor[u]), ChangeFactor(u, f)
  PROVE  IInv'
<1>1. changes' \in 0 .. MaxChanges
  BY ChangesBound DEF ChangeFactor, IInv, TablesOK
<1>2. factor' = [factor EXCEPT ![u] = f] /\ UNCHANGED <<users, sessions, tokens>> /\ Watch(u)
  BY DEF ChangeFactor
<1>3. f \in [Kinds -> FactorState]
  BY FactorStepType DEF IInv, TablesOK
<1>4. TablesOK' /\ Touched(u) /\ SessionsKept
  BY <1>1, <1>2, <1>3 DEF IInv, TablesOK, Touched, SessionsKept
<1> QED BY <1>2, <1>4, WatchRule

--------------------------------------------------------------------------------
(* The inductive invariant *)

LEMMA InitIInv ==
  ASSUME Init
  PROVE  IInv
<1>1. PICK p \in Passwords : users = [u \in Users |-> [active |-> TRUE, role |-> "user", password |-> p]]
  BY DEF Init
<1>2. \A u \in Users : users[u] \in Row
  BY <1>1, RolesAssumption DEF Row
<1>3. factor \in [Users -> [Kinds -> FactorState]]
  BY DEF Init, FactorState
<1>4. TokensOK(tokens)
  <2>1. ASSUME NEW t \in tokens
        PROVE  t \in TokenType /\ SignedRight(t)
    <3>1. PICK u \in Users : t = generateToken(u, users[u])
      BY DEF Init
    <3> QED BY <1>2, <3>1, AccessTokenFacts
  <2> QED BY <2>1 DEF TokensOK
<1>5. TablesOK
  <2>1. users \in [Users -> Row \cup {NULL}]
    BY <1>1, <1>2
  <2>2. changes \in 0 .. MaxChanges
    BY BoundsAssumption DEF Init
  <2>3. SessionsOK(users, sessions)
    BY DEF Init, SessionsOK, IsRow
  <2> QED BY <1>3, <1>4, <2>1, <2>2, <2>3 DEF TablesOK
<1>6. ReqOK(Idle, users, factor, tokens, sessions)
  <2>1. Shape(Idle) /\ Idle.op = NULL /\ Idle.pc = "idle" /\ Idle.answer = NULL /\ Idle.result = NULL
        /\ Idle.row = NULL
    BY DEF Idle, Shape, Fields
  <2> QED BY <2>1, NullAssumption DEF ReqOK, PcOK, WatchOK, IsBusy, LoginOK, CallOK, RevokeOK
<1> QED BY <1>5, <1>6 DEF Init, IInv

LEMMA StepIInv ==
  ASSUME IInv, [Next]_vars
  PROVE  IInv'
<1>1. ASSUME NEW r \in Requests,
             \/ \E u \in Users, p \in Passwords : LoginStart(r, u, p)
             \/ LoginFindUser(r)
             \/ \E m \in Methods : ReadMethod(r, m)
             \/ LoginChallenge(r) \/ LoginToken(r)
      PROVE  IInv'
  BY <1>1, LoginStartKeeps, LoginFindUserKeeps, ReadMethodKeeps, LoginChallengeKeeps, LoginTokenKeeps
<1>2. ASSUME NEW r \in Requests,
             \/ \E t \in tokens : VerifyStart(r, t)
             \/ \E k \in Kinds : VerifyCode(r, k)
             \/ UseCode(r) \/ VerifyRefused(r) \/ VerifyStamp(r) \/ VerifyToken(r)
      PROVE  IInv'
  BY <1>2, VerifyStartKeeps, VerifyCodeKeeps, UseCodeKeeps, VerifyRefusedKeeps, VerifyStampKeeps, VerifyTokenKeeps
<1>3. ASSUME NEW r \in Requests,
             \/ \E t \in tokens, h \in Handlers, s \in SessionIds : Call(r, t, h, s)
             \/ CallHost(r) \/ getProfile(r) \/ getUserSessions(r) \/ RevokeFind(r) \/ RevokeDelete(r)
      PROVE  IInv'
  BY <1>3, CallKeeps, ReadsKeep, RevokeFindKeeps, RevokeDeleteKeeps
<1>4. ASSUME \/ \E u \in Users, i \in SessionIds : createSession(u, i)
             \/ \E i \in SessionIds : ExpireSession(i)
             \/ \E u \in Users, row \in Row : UpdateUser(u, row)
             \/ \E u \in Users : DeleteUser(u)
             \/ \E u \in Users : \E f \in FactorStep(factor[u]) : ChangeFactor(u, f)
      PROVE  IInv'
  BY <1>4, createSessionKeeps, ExpireSessionKeeps, UpdateUserKeeps, DeleteUserKeeps, ChangeFactorKeeps
<1>5. CASE UNCHANGED vars
  BY <1>5 DEF vars, IInv, TablesOK
<1> QED BY <1>1, <1>2, <1>3, <1>4, <1>5 DEF Next

LEMMA AlwaysIInv == Spec => []IInv
<1> QED BY InitIInv, StepIInv, PTL DEF Spec

\* In every state the tables and the requests are well formed, and a deleted user has no
\* session.
THEOREM TypeCorrect == Spec => []TypeOK
<1>1. IInv => TypeOK
  <2> SUFFICES ASSUME IInv PROVE TypeOK
    OBVIOUS
  <2>1. /\ sessions \in [SessionIds -> SessionRow \cup {NULL}]
        /\ \A i \in SessionIds : IsRow(sessions[i]) => users[sessions[i].user] # NULL
    BY DEF IInv, TablesOK, SessionsOK
  <2>2. \A r \in Requests : req[r].op = "login" /\ req[r].row # NULL => req[r].row \in Row
    BY ReqFacts DEF LoginOK
  <2> QED BY <2>1, <2>2 DEF TypeOK, IInv, TablesOK, TokensOK, TokenType
<1> QED BY <1>1, AlwaysIInv, PTL

--------------------------------------------------------------------------------
(* Permissions *)

LEMMA GrantCovers ==
  ASSUME NEW grants, NEW p, hasPermission(grants, p)
  PROVE  \E g \in grants : Covers(g, p)
<1>1. CASE <<"*">> \in grants
  <2>1. Covers(<<"*">>, p)
    BY DEF Covers
  <2> QED BY <1>1, <2>1
<1>2. CASE p \in grants
  <2>1. Covers(p, p)
    BY DEF Covers
  <2> QED BY <1>2, <2>1
<1>3. CASE <<p[1], "*">> \in grants
  <2>1. Covers(<<p[1], "*">>, p)
    BY DEF Covers
  <2> QED BY <1>3, <2>1
<1> QED BY <1>1, <1>2, <1>3 DEF hasPermission

\* A call that is past the guards of a protected route carries a token signed here, with a
\* role the route names and whose grants cover every permission it asks for; a challenge only
\* where the host gives challenges no secret of their own, and only to a route that asks for
\* neither.
THEOREM CallsAreAdmittedByGrant == Spec => []AdmittedByGrant
<1>1. ASSUME IInv, NEW r \in Requests, Busy(r), req[r].op \notin {"login", "verify"},
             ~req[r].row.handler.public
      PROVE  LET t == req[r].row.token  h == req[r].row.handler IN
             /\ t \in tokens
             /\ t.twoFactorRequired => /\ ChallengeSecret \in {NULL, AccessKey}
                                       /\ h.roles = {} /\ h.permissions = {}
             /\ h.roles # {} => t.role \in h.roles
             /\ RolePermissions # NULL => \A p \in h.permissions : MayHold(t.role, p)
  <2> DEFINE t == req[r].row.token
             h == req[r].row.handler
  <2>1. t \in tokens /\ h \in Handlers /\ Admitted(h, t)
    BY <1>1, ReqFacts DEF CallOK, Busy, IsBusy
  <2>2. t.key = AccessKey /\ RolesGuard(h, t.role) /\ PermissionsGuard(h, t.role)
    BY <1>1, <2>1 DEF Admitted, JwtAuthGuard, RoleOf
  <2>3. ASSUME t.twoFactorRequired
        PROVE  ChallengeSecret \in {NULL, AccessKey} /\ h.roles = {} /\ h.permissions = {}
    <3>1. ChallengeKey = AccessKey /\ t.role = NULL
      BY <1>1, <2>1, <2>2, <2>3 DEF IInv, TablesOK, TokensOK, SignedRight
    <3>2. NULL \notin h.roles
      BY <2>1, HandlersAssumption, NullAssumption
    <3> QED BY <1>1, <2>2, <3>1, <3>2 DEF ChallengeKey, RolesGuard, PermissionsGuard
  <2>4. h.roles # {} => t.role \in h.roles
    BY <2>2 DEF RolesGuard
  <2>5. ASSUME RolePermissions # NULL, NEW p \in h.permissions
        PROVE  MayHold(t.role, p)
    <3>1. t.role \in SuperAdminRoles \/ hasPermission(RolePermissions[t.role], p)
      BY <1>1, <2>2, <2>5 DEF PermissionsGuard
    <3> QED BY <3>1, GrantCovers DEF MayHold
  <2> QED BY <2>1, <2>3, <2>4, <2>5
<1>2. IInv => AdmittedByGrant
  BY <1>1 DEF AdmittedByGrant
<1> QED BY <1>2, AlwaysIInv, PTL

--------------------------------------------------------------------------------
(* What a step tells *)

\* A request that is running has no answer yet.
LEMMA NoAnswerYet ==
  ASSUME IInv, NEW r \in Requests, Busy(r)
  PROVE  req[r].answer = NULL
BY ReqFacts DEF PcOK, Busy

\* A step that signs nothing and tells nobody that it revoked a session.
Quiet ==
  \A s \in Requests :
    /\ Busy(s) => req'[s].answer # "token"
    /\ req'[s].op = "revoke" /\ req'[s].answer = "ok" =>
         req[s].op = "revoke" /\ req[s].answer = "ok" /\ req[s].result = req'[s].result

LEMMA QuietMove ==
  ASSUME IInv, NEW r \in Requests, NEW x, Moved(r, x),
         x.answer # "token", x.op = "revoke" => x.answer # "ok"
  PROVE  Quiet
BY NoAnswerYet, NullAssumption DEF Quiet, Moved

LEMMA QuietReturn ==
  ASSUME IInv, NEW r \in Requests, NEW answer, NEW result, Return(r, answer, result),
         answer # "token", req[r].op = "revoke" => answer # "ok"
  PROVE  Quiet
<1> DEFINE y == Done(req[r].op, req[r].user, answer, result)
<1>1. y.op = req[r].op /\ y.answer = answer /\ Moved(r, y)
  BY DoneFields, ReturnMoves
<1> HIDE DEF y
<1> QED BY <1>1, QuietMove

LEMMA QuietGoto ==
  ASSUME IInv, NEW r \in Requests, Busy(r), NEW pc, Goto(r, pc)
  PROVE  Quiet
<1>1. At(req[r], pc).answer = NULL
  BY ReqFacts, NoAnswerYet, AtFields
<1> QED BY <1>1, GotoMoves, QuietMove, NullAssumption

LEMMA QuietOpen ==
  ASSUME IInv, NEW r \in Requests, NEW op, NEW pc, NEW u, NEW input, Open(r, op, pc, u, input)
  PROVE  Quiet
<1> DEFINE y == Local(op, pc, u, input)
<1>1. y.answer = NULL
  BY LocalFields
<1>2. Moved(r, y)
  BY MovedBy DEF Open
<1> HIDE DEF y
<1> QED BY <1>1, <1>2, QuietMove, NullAssumption

LEMMA QuietLogin ==
  ASSUME IInv, NEW r \in Requests,
         \/ \E u \in Users, p \in Passwords : LoginStart(r, u, p)
         \/ LoginFindUser(r)
         \/ \E m \in Methods : ReadMethod(r, m)
         \/ LoginChallenge(r)
  PROVE  Quiet
<1>1. CASE \E u \in Users, p \in Passwords : LoginStart(r, u, p)
  BY <1>1, QuietOpen DEF LoginStart
<1>2. ASSUME req[r].pc \in {"findUser", "methods"}
      PROVE  req[r].answer = NULL /\ req[r].op = "login"
  BY <1>2, NoAnswerYet, ReqFacts DEF Busy, PcOK, Calls
<1>3. CASE LoginFindUser(r)
  <2>1. CASE Answer(r, "401")
    BY <1>2, <1>3, <2>1, QuietReturn DEF Answer, LoginFindUser
  <2>2. CASE ~Answer(r, "401")
    <3> DEFINE left == IF "twoFactor" \in Features THEN Methods ELSE {}
               y == [req[r] EXCEPT !.pc = "methods", !.row = users[req[r].user], !.left = left]
    <3>1. req' = [req EXCEPT ![r] = y]
      BY <1>3, <2>2 DEF LoginFindUser, IInv
    <3>2. y.answer = req[r].answer
      BY ReqFacts DEF Shape, Fields
    <3> HIDE DEF y
    <3> QED BY <1>2, <1>3, <3>1, <3>2, MovedBy, QuietMove, NullAssumption DEF LoginFindUser
  <2> QED BY <2>1, <2>2
<1>4. ASSUME NEW m \in Methods, ReadMethod(r, m)
      PROVE  Quiet
  <2> DEFINE y == [req[r] EXCEPT !.left = @ \ {m}, !.found = @ \cup (Enabled(req[r].user) \cap {m})]
  <2>1. req' = [req EXCEPT ![r] = y]
    BY <1>4 DEF ReadMethod, IInv
  <2>2. y.answer = req[r].answer
    BY ReqFacts DEF Shape, Fields
  <2> HIDE DEF y
  <2> QED BY <1>2, <1>4, <2>1, <2>2, MovedBy, QuietMove, NullAssumption DEF ReadMethod
<1>5. CASE LoginChallenge(r)
  BY <1>2, <1>5, QuietReturn DEF LoginChallenge, Answer
<1> QED BY <1>1, <1>3, <1>4, <1>5

LEMMA QuietVerify ==
  ASSUME IInv, NEW r \in Requests,
         \/ \E t \in tokens : VerifyStart(r, t)
         \/ \E k \in Kinds : VerifyCode(r, k)
         \/ UseCode(r) \/ VerifyRefused(r) \/ VerifyStamp(r)
  PROVE  Quiet
<1>1. CASE \E t \in tokens : VerifyStart(r, t)
  BY <1>1, QuietOpen DEF VerifyStart
<1>2. ASSUME NEW k \in Kinds, VerifyCode(r, k)
      PROVE  Quiet
  <2>1. Busy(r) /\ Shape(req[r]) /\ req[r].answer = NULL
    BY <1>2, ReqFacts DEF VerifyCode, Busy, PcOK
  <2>2. CASE Goto(r, "stamp")
    BY <2>1, <2>2, QuietGoto
  <2> DEFINE y == [req[r] EXCEPT !.pc = "use", !.found = {k}]
  <2>3. CASE req' = [req EXCEPT ![r] = y]
    <3>1. y.answer = NULL
      BY <2>1, UseFields
    <3> HIDE DEF y
    <3> QED BY <2>3, <3>1, MovedBy, QuietMove, NullAssumption
  <2>4. Goto(r, "stamp") \/ req' = [req EXCEPT ![r] = y]
    BY <1>2 DEF VerifyCode, IInv
  <2> QED BY <2>2, <2>3, <2>4
<1>5. CASE UseCode(r)
  <2>1. CASE Goto(r, "stamp")
    BY <1>5, <2>1, QuietGoto DEF UseCode, Busy
  <2>2. CASE Answer(r, "500")
    BY <2>2, QuietReturn DEF Answer
  <2> QED BY <1>5, <2>1, <2>2 DEF UseCode
<1>3. CASE VerifyRefused(r)
  BY <1>3, QuietReturn DEF VerifyRefused, Answer
<1>4. CASE VerifyStamp(r)
  <2>1. CASE Goto(r, "profile")
    BY <1>4, <2>1, QuietGoto DEF VerifyStamp, Busy
  <2>2. CASE Answer(r, "500")
    BY <2>2, QuietReturn DEF Answer
  <2> QED BY <1>4, <2>1, <2>2 DEF VerifyStamp
<1> QED BY <1>1, <1>2, <1>3, <1>4, <1>5

LEMMA QuietCalls ==
  ASSUME IInv, NEW r \in Requests,
         \/ \E t \in tokens, h \in Handlers, s \in SessionIds : Call(r, t, h, s)
         \/ CallHost(r) \/ getProfile(r) \/ getUserSessions(r) \/ RevokeFind(r)
  PROVE  Quiet
<1>1. ASSUME NEW t \in tokens, NEW h \in Handlers, NEW i \in SessionIds, Call(r, t, h, i)
      PROVE  Quiet
  <2> DEFINE x == Local(h.does, h.does, t.user, i)
             y == [x EXCEPT !.row = [token |-> t, handler |-> h]]
             n == Done(NULL, NULL, IF JwtAuthGuard(h, t) THEN "403" ELSE "401", NULL)
  <2>1. y.answer = NULL
    BY LocalFields DEF Shape, Fields
  <2>2. n.answer \in {"401", "403"} /\ n.op = NULL
    BY DoneFields
  <2>3. req' = [req EXCEPT ![r] = y] \/ req' = [req EXCEPT ![r] = n]
    BY <1>1 DEF Call
  <2> HIDE DEF y, n
  <2> QED BY <2>1, <2>2, <2>3, MovedBy, QuietMove, NullAssumption
<1>2. CASE CallHost(r) \/ getProfile(r) \/ getUserSessions(r)
  <2>1. req[r].op # "revoke"
    BY <1>2, ReqFacts DEF PcOK, CallHost, getProfile, getUserSessions
  <2>2. PICK answer, result : Return(r, answer, result) /\ answer \in {"ok", "403", "404"}
    BY <1>2 DEF CallHost, getProfile, getUserSessions, Answer
  <2> QED BY <2>1, <2>2, QuietReturn
<1>3. CASE RevokeFind(r)
  <2>1. CASE Goto(r, "delete")
    BY <1>3, <2>1, QuietGoto DEF RevokeFind, Busy
  <2>2. CASE Return(r, "403", NULL) \/ Return(r, "404", NULL)
    BY <2>2, QuietReturn
  <2> QED BY <1>3, <2>1, <2>2 DEF RevokeFind, Answer
<1> QED BY <1>1, <1>2, <1>3

LEMMA QuietOthers ==
  ASSUME IInv,
         \/ \E u \in Users, i \in SessionIds : createSession(u, i)
         \/ \E i \in SessionIds : ExpireSession(i)
         \/ \E u \in Users, row \in Row : UpdateUser(u, row)
         \/ \E u \in Users : DeleteUser(u)
         \/ \E u \in Users : \E f \in FactorStep(factor[u]) : ChangeFactor(u, f)
         \/ UNCHANGED vars
  PROVE  Quiet
<1>1. CASE UNCHANGED req
  BY <1>1, NoAnswerYet, NullAssumption DEF Quiet
<1>2. ASSUME NEW u \in Users, Watch(u)
      PROVE  Quiet
  <2>1. ASSUME NEW s \in Requests
        PROVE  req'[s].op = req[s].op /\ req'[s].answer = req[s].answer /\ req'[s].result = req[s].result
    <3>1. CASE req'[s] = req[s]
      BY <3>1
    <3>2. CASE req'[s] = Watched(req[s], EnabledIn(factor'[u]), users'[u])
      BY <3>2, ReqFacts, WatchedFields
    <3> QED BY <1>2, <3>1, <3>2 DEF Watch, Watched
  <2> QED BY <2>1, NoAnswerYet, NullAssumption DEF Quiet
<1> QED BY <1>1, <1>2 DEF createSession, ExpireSession, UpdateUser, DeleteUser, ChangeFactor, vars

\* Only three actions have anything to tell.
LEMMA StepTells ==
  ASSUME IInv, [Next]_vars
  PROVE  Quiet \/ \E r \in Requests : LoginToken(r) \/ VerifyToken(r) \/ RevokeDelete(r)
BY QuietLogin, QuietVerify, QuietCalls, QuietOthers DEF Next


\* Of the requests that revoke a session at most one is told that it did, and it is the
\* session's own user: the row that the delete needs is gone for every other.
THEOREM SessionsAreRevokedOnce == Spec => []RevokedOnce
<1> DEFINE Told(s) == req[s].op = "revoke" /\ req[s].answer = "ok"
<1>1. ASSUME IInv
      PROVE  \A r \in Requests : Told(r) =>
               /\ req[r].result \in SessionIds /\ sessions[req[r].result].user = req[r].user
               /\ ~IsRow(sessions[req[r].result])
  BY <1>1, ReqFacts DEF RevokeOK, Owned
<1>2. ASSUME IInv
      PROVE  \A r \in Requests : req[r].op = "revoke" /\ req[r].result # NULL => Told(r)
  BY <1>2, ReqFacts DEF RevokeOK
<1>3. ASSUME IInv'
      PROVE  \A r \in Requests : Told(r)' =>
               req'[r].result \in SessionIds /\ sessions'[req'[r].result].user = req'[r].user
  <2>1. ASSUME NEW r \in Requests, Told(r)'
        PROVE  req'[r].result \in SessionIds /\ sessions'[req'[r].result].user = req'[r].user
    <3>1. RevokeOK(req[r], sessions)'
      BY <1>3 DEF IInv, ReqOK
    <3> QED BY <2>1, <3>1 DEF RevokeOK, Owned
  <2> QED BY <2>1
<1>4. ASSUME IInv'
      PROVE  \A r \in Requests : req'[r].op = "revoke" /\ req'[r].result # NULL => Told(r)'
  <2>1. ASSUME NEW r \in Requests, req'[r].op = "revoke", req'[r].result # NULL
        PROVE  Told(r)'
    <3>1. RevokeOK(req[r], sessions)'
      BY <1>4 DEF IInv, ReqOK
    <3> QED BY <2>1, <3>1 DEF RevokeOK
  <2> QED BY <2>1
<1>5. ASSUME IInv, RevokedOnce, IInv', [Next]_vars,
             NEW r \in Requests, NEW s \in Requests, Told(r)', Told(s)', req'[s].result = req'[r].result
      PROVE  s = r
  <2>1. CASE Quiet
    <3>1. Told(r) /\ Told(s) /\ req[s].result = req[r].result
      BY <1>5, <2>1 DEF Quiet
    <3> QED BY <3>1, <1>5 DEF RevokedOnce
  <2>2. ASSUME NEW q \in Requests, LoginToken(q) \/ VerifyToken(q) \/ Return(q, "500", NULL)
        PROVE  Told(r) /\ Told(s) /\ req[s].result = req[r].result
    <3>1. PICK answer, result : Return(q, answer, result) /\ answer # "ok"
      BY <2>2 DEF LoginToken, VerifyToken, Answer
    <3>2. Moved(q, Done(req[q].op, req[q].user, answer, result)) /\ req'[q].answer = answer
      BY <1>5, <3>1, ReturnMoves, DoneFields DEF Moved
    <3> QED BY <1>5, <3>1, <3>2 DEF Moved
  <2>3. ASSUME NEW q \in Requests, RevokeDelete(q), ~Return(q, "500", NULL)
        PROVE  s = r
    <3>1. IsRow(sessions[req[q].input]) /\ Return(q, "ok", req[q].input)
      BY <2>3 DEF RevokeDelete, Answer
    <3>2. Moved(q, req'[q]) /\ req'[q].result = req[q].input
      BY <1>5, <3>1, ReturnMoves, DoneFields DEF Moved
    <3>3. \A o \in Requests \ {q} : Told(o)' => Told(o) /\ req'[o].result # req[q].input
      BY <1>1, <1>5, <3>1, <3>2 DEF Moved
    <3>4. CASE s = q \/ r = q
      BY <1>5, <3>2, <3>3, <3>4
    <3>5. CASE s # q /\ r # q
      BY <1>5, <3>2, <3>3, <3>5 DEF Moved, RevokedOnce
    <3> QED BY <3>4, <3>5
  <2> QED BY <1>5, <2>1, <2>2, <2>3, StepTells DEF RevokedOnce
<1>6. IInv /\ RevokedOnce /\ IInv' /\ [Next]_vars => RevokedOnce'
  <2> SUFFICES ASSUME IInv, RevokedOnce, IInv', [Next]_vars, NEW r \in Requests, Told(r)'
               PROVE  /\ sessions'[req'[r].result].user = req'[r].user
                      /\ \A s \in Requests : req'[s].op = "revoke" /\ req'[s].result = req'[r].result => s = r
    BY DEF RevokedOnce
  <2>1. req'[r].result \in SessionIds /\ sessions'[req'[r].result].user = req'[r].user
    BY <1>3
  <2>2. ASSUME NEW s \in Requests, req'[s].op = "revoke", req'[s].result = req'[r].result
        PROVE  s = r
    <3>1. Told(s)'
      BY <1>4, <2>1, <2>2, NullAssumption
    <3> QED BY <1>5, <2>2, <3>1
  <2> QED BY <2>1, <2>2
<1>7. Init => RevokedOnce
  BY NullAssumption DEF Init, Idle, RevokedOnce
<1> QED BY <1>6, <1>7, AlwaysIInv, PTL DEF Spec

\* The role and isActive a token carries were all in its user's row at one moment of the
\* request that signed it, and a login's password was right and its user active in that row.
THEOREM TokensClaimOneRow == Spec => ClaimsFromOneRow
<1>1. ASSUME IInv, [Next]_vars, NEW r \in Requests, Busy(r), req'[r].answer = "token"
      PROVE  \E row \in req[r].seen \ {NULL} :
               /\ req'[r].result.role = row.role /\ req'[r].result.active = row.active
               /\ req[r].op = "login" => validateUser(row, req[r].input)
  <2> DEFINE x == req[r]
  <2>1. PICK q \in Requests : LoginToken(q) \/ VerifyToken(q) \/ RevokeDelete(q)
    BY <1>1, StepTells DEF Quiet
  <2>2. PICK answer, result : Return(q, answer, result)
    BY <2>1 DEF LoginToken, VerifyToken, RevokeDelete, Answer
  <2>3. q = r
    BY <1>1, <2>2, ReturnMoves, NoAnswerYet, NullAssumption DEF Moved
  <2>4. ASSUME NEW a, NEW b, Return(r, a, b)
        PROVE  a = "token" /\ req'[r].result = b
    BY <1>1, <2>4, ReturnMoves, DoneFields DEF Moved
  <2>5. x.user \in Users /\ users[x.user] \in x.seen
    BY <1>1, ReqFacts DEF WatchOK, Busy, IsBusy
  <2>6. CASE LoginToken(r)
    <3>1. Return(r, "token", generateToken(x.user, x.row))
      BY <2>4, <2>6 DEF LoginToken, Answer
    <3>2. x.op = "login" /\ x.row \in x.seen /\ validateUser(x.row, x.input)
      BY <1>1, <2>6, ReqFacts DEF LoginToken, PcOK, LoginOK, Calls
    <3>3. x.row \in Row
      BY <1>1, <3>2, ReqFacts DEF LoginOK, validateUser
    <3>4. req'[r].result = generateToken(x.user, x.row)
      BY <2>4, <3>1
    <3> QED BY <2>5, <3>2, <3>3, <3>4, AccessTokenFacts DEF validateUser
  <2>7. CASE VerifyToken(r)
    <3>1. users[x.user] # NULL /\ Return(r, "token", generateToken(x.user, users[x.user]))
      BY <2>4, <2>7 DEF VerifyToken, Answer
    <3>2. x.op # "login"
      BY <1>1, <2>7, ReqFacts DEF VerifyToken, PcOK
    <3>3. req'[r].result = generateToken(x.user, users[x.user])
      BY <2>4, <3>1
    <3>4. users[x.user] \in Row
      BY <1>1, <2>5, <3>1 DEF IInv, TablesOK
    <3> QED BY <2>5, <3>1, <3>2, <3>3, <3>4, AccessTokenFacts
  <2>8. ~RevokeDelete(r)
    BY <2>4 DEF RevokeDelete, Answer
  <2> QED BY <2>1, <2>3, <2>6, <2>7, <2>8
<1>2. IInv /\ [Next]_vars =>
        [\A r \in Requests : Busy(r) /\ req'[r].answer = "token" =>
           \E row \in req[r].seen \ {NULL} :
             /\ req'[r].result.role = row.role /\ req'[r].result.active = row.active
             /\ req[r].op = "login" => validateUser(row, req[r].input)]_vars
  BY <1>1
<1> QED BY <1>2, AlwaysIInv, PTL DEF Spec, ClaimsFromOneRow

--------------------------------------------------------------------------------
(* The refinement: what SecondFactor sees of the tables and of each request. *)

enabledBar == [u \in Users |-> Enabled(u)]
challengedBar == {t.user : t \in {t \in tokens : t.twoFactorRequired}}
attemptBar == [r \in Requests |-> Attempt(r)]

AttemptIdle == [stage |-> "idle"]
AttemptRuns(u, proved, held) == [stage |-> "running", user |-> u, proved |-> proved, held |-> held]
AttemptOver(u, granted) == [stage |-> "over", user |-> u, granted |-> granted]

ProvedOf(x) == CASE x.pc = "findUser" -> {}
                 [] x.pc \in {"methods", "code"} -> {"password"}
                 [] x.pc \in {"use", "stamp", "profile"} -> {"password", "code"}

AttemptOf(x) ==
  IF x.op \notin {"login", "verify"} THEN AttemptIdle
  ELSE IF IsBusy(x) THEN AttemptRuns(x.user, ProvedOf(x), x.held)
       ELSE AttemptOver(x.user, x.answer = "token")

LEMMA AttemptIs == \A r \in Requests : attemptBar[r] = AttemptOf(req[r])
BY DEF attemptBar, Attempt, AttemptOf, AttemptIdle, AttemptRuns, AttemptOver, Busy, IsBusy,
       Proved, ProvedOf, Granted

LEMMA AttemptIsNext == \A r \in Requests : attemptBar'[r] = AttemptOf(req'[r])
BY DEF attemptBar, Attempt, AttemptOf, AttemptIdle, AttemptRuns, AttemptOver, Busy, IsBusy,
       Proved, ProvedOf, Granted

\* A step of one request is a step of one attempt.
LEMMA AttemptMoves ==
  ASSUME NEW r \in Requests, NEW x, Moved(r, x)
  PROVE  attemptBar' = [attemptBar EXCEPT ![r] = AttemptOf(x)]
<1>1. /\ DOMAIN attemptBar = Requests /\ DOMAIN attemptBar' = Requests
      /\ attemptBar = [s \in Requests |-> attemptBar[s]]
      /\ attemptBar' = [s \in Requests |-> attemptBar'[s]]
  BY DEF attemptBar
<1>2. \A s \in Requests : attemptBar'[s] = IF s = r THEN AttemptOf(x) ELSE attemptBar[s]
  BY AttemptIs, AttemptIsNext DEF Moved
<1> QED BY <1>1, <1>2

LEMMA AttemptStays ==
  ASSUME \A r \in Requests : AttemptOf(req'[r]) = AttemptOf(req[r])
  PROVE  attemptBar' = attemptBar
<1>1. /\ attemptBar = [s \in Requests |-> attemptBar[s]]
      /\ attemptBar' = [s \in Requests |-> attemptBar'[s]]
  BY DEF attemptBar
<1> QED BY <1>1, AttemptIs, AttemptIsNext

LEMMA EnabledStays ==
  ASSUME \A u \in Users : EnabledIn(factor'[u]) = EnabledIn(factor[u])
  PROVE  enabledBar' = enabledBar
BY DEF enabledBar, Enabled

LEMMA ChallengedStays ==
  ASSUME UNCHANGED tokens
  PROVE  challengedBar' = challengedBar
BY DEF challengedBar

LEMMA ChallengedUnmoved ==
  ASSUME NEW t, ~t.twoFactorRequired, tokens' = tokens \cup {t}
  PROVE  challengedBar' = challengedBar
BY DEF challengedBar

\* The steps of SecondFactor, said of what it sees.
LEMMA BeginRule ==
  ASSUME NEW r \in Requests, NEW u \in Users, attemptBar[r] = AttemptIdle,
         attemptBar' = [attemptBar EXCEPT ![r] = AttemptRuns(u, {}, enabledBar[u])],
         enabledBar' = enabledBar, challengedBar' = challengedBar
  PROVE  SF!Next
<1>1. SF!Begin(r, u)
  BY DEF SF!Begin, SF!Idle, SF!Running, AttemptIdle, AttemptRuns, attemptBar, enabledBar, challengedBar
<1> QED BY <1>1 DEF SF!Next

LEMMA ResumeRule ==
  ASSUME NEW r \in Requests, NEW u \in Users, attemptBar[r] = AttemptIdle, u \in challengedBar,
         attemptBar' = [attemptBar EXCEPT ![r] = AttemptRuns(u, {"password"}, enabledBar[u])],
         enabledBar' = enabledBar, challengedBar' = challengedBar
  PROVE  SF!Next
<1>1. SF!Resume(r, u)
  BY DEF SF!Resume, SF!Idle, SF!Running, AttemptIdle, AttemptRuns, attemptBar, enabledBar, challengedBar
<1> QED BY <1>1 DEF SF!Next

LEMMA ProveRule ==
  ASSUME NEW r \in Requests, NEW u, NEW proved, NEW held, NEW f \in {"password", "code"},
         attemptBar[r] = AttemptRuns(u, proved, held), f = "code" => "password" \in proved,
         attemptBar' = [attemptBar EXCEPT ![r] = AttemptRuns(u, proved \cup {f}, held)],
         enabledBar' = enabledBar, challengedBar' = challengedBar
  PROVE  SF!Next
<1>1. [attemptBar[r] EXCEPT !.proved = @ \cup {f}] = AttemptRuns(u, proved \cup {f}, held)
  BY DEF AttemptRuns
<1>2. attemptBar' = [attemptBar EXCEPT ![r].proved = @ \cup {f}]
  BY <1>1 DEF attemptBar
<1>3. attemptBar[r].stage = "running" /\ attemptBar[r].proved = proved
  BY DEF AttemptRuns
<1>4. SF!Prove(r, f)
  BY <1>2, <1>3 DEF SF!Prove, SF!IsRunning, attemptBar, enabledBar, challengedBar
<1> QED BY <1>4 DEF SF!Next, SF!Factors

LEMMA ChallengeRule ==
  ASSUME NEW r \in Requests, NEW u, NEW held,
         attemptBar[r] = AttemptRuns(u, {"password"}, held),
         attemptBar' = [attemptBar EXCEPT ![r] = AttemptOver(u, FALSE)],
         enabledBar' = enabledBar, challengedBar' = challengedBar \cup {u}
  PROVE  SF!Next
<1>1. attemptBar[r].stage = "running" /\ attemptBar[r].proved = {"password"} /\ attemptBar[r].user = u
  BY DEF AttemptRuns
<1>2. SF!Challenge(r)
  BY <1>1 DEF SF!Challenge, SF!IsRunning, SF!Over, AttemptOver, attemptBar, enabledBar, challengedBar
<1> QED BY <1>2 DEF SF!Next

LEMMA GrantRule ==
  ASSUME NEW r \in Requests, NEW u, NEW proved, NEW held,
         proved = {"password", "code"} \/ (proved = {"password"} /\ held = {}),
         attemptBar[r] = AttemptRuns(u, proved, held),
         attemptBar' = [attemptBar EXCEPT ![r] = AttemptOver(u, TRUE)],
         enabledBar' = enabledBar, challengedBar' = challengedBar
  PROVE  SF!Next
<1>1. /\ attemptBar[r].stage = "running" /\ attemptBar[r].proved = proved /\ attemptBar[r].user = u
      /\ attemptBar[r].held = held
  BY DEF AttemptRuns
<1>2. SF!Grant(r)
  BY <1>1 DEF SF!Grant, SF!IsRunning, SF!Factors, SF!Over, AttemptOver, attemptBar, enabledBar, challengedBar
<1> QED BY <1>2 DEF SF!Next

LEMMA FailRule ==
  ASSUME NEW r \in Requests, NEW u, NEW proved, NEW held,
         attemptBar[r] = AttemptRuns(u, proved, held),
         attemptBar' = [attemptBar EXCEPT ![r] = AttemptOver(u, FALSE)],
         enabledBar' = enabledBar, challengedBar' = challengedBar
  PROVE  SF!Next
<1>1. attemptBar[r].stage = "running" /\ attemptBar[r].user = u
  BY DEF AttemptRuns
<1>2. SF!Fail(r)
  BY <1>1 DEF SF!Fail, SF!IsRunning, SF!Over, AttemptOver, attemptBar, enabledBar, challengedBar
<1> QED BY <1>2 DEF SF!Next

LEMMA StutterRule ==
  ASSUME enabledBar' = enabledBar, challengedBar' = challengedBar, attemptBar' = attemptBar
  PROVE  UNCHANGED SF!vars
BY DEF SF!vars, attemptBar, enabledBar, challengedBar

\* An attempt that is running in the code is running in SecondFactor.
LEMMA RunningIs ==
  ASSUME IInv, NEW r \in Requests, Busy(r), req[r].op \in {"login", "verify"}
  PROVE  attemptBar[r] = AttemptRuns(req[r].user, ProvedOf(req[r]), req[r].held)
BY AttemptIs DEF AttemptOf, Busy, IsBusy

\* A request that returns ends its attempt.
LEMMA ReturnEnds ==
  ASSUME IInv, NEW r \in Requests, req[r].op \in {"login", "verify"},
         NEW answer, NEW result, Return(r, answer, result)
  PROVE  attemptBar' = [attemptBar EXCEPT ![r] = AttemptOver(req[r].user, answer = "token")]
<1> DEFINE y == Done(req[r].op, req[r].user, answer, result)
<1>1. y.op = req[r].op /\ y.pc = "done" /\ y.user = req[r].user /\ y.answer = answer
  BY DoneFields
<1>2. Moved(r, y)
  BY ReturnMoves
<1> HIDE DEF y
<1>3. AttemptOf(y) = AttemptOver(req[r].user, answer = "token")
  BY <1>1 DEF AttemptOf, IsBusy
<1> QED BY <1>2, <1>3, AttemptMoves

\* An answer other than a token, of an attempt that is running, with nothing signed.
LEMMA FailStep ==
  ASSUME IInv, NEW r \in Requests, Busy(r), req[r].op \in {"login", "verify"},
         NEW answer, NEW result, Return(r, answer, result), answer # "token",
         UNCHANGED <<factor, tokens>>
  PROVE  SF!Next
<1>1. enabledBar' = enabledBar /\ challengedBar' = challengedBar
  BY EnabledStays, ChallengedStays
<1>2. attemptBar[r] = AttemptRuns(req[r].user, ProvedOf(req[r]), req[r].held)
  BY RunningIs
<1>3. attemptBar' = [attemptBar EXCEPT ![r] = AttemptOver(req[r].user, answer = "token")]
  BY ReturnEnds
<1>4. AttemptOver(req[r].user, answer = "token") = AttemptOver(req[r].user, FALSE)
  BY DEF AttemptOver
<1>5. attemptBar' = [attemptBar EXCEPT ![r] = AttemptOver(req[r].user, FALSE)]
  BY <1>3, <1>4
<1> QED BY <1>1, <1>2, <1>5, FailRule

LEMMA LoginStartRefines ==
  ASSUME IInv, NEW r \in Requests, NEW u \in Users, NEW p \in Passwords, LoginStart(r, u, p)
  PROVE  SF!Next
<1> DEFINE y == Local("login", "findUser", u, p)
<1>1. y.op = "login" /\ y.pc = "findUser" /\ y.user = u /\ y.held = Enabled(u)
  BY LocalFields
<1>2. Moved(r, y)
  BY MovedBy DEF LoginStart, Open
<1> HIDE DEF y
<1>3. AttemptOf(y) = AttemptRuns(u, {}, enabledBar[u])
  BY <1>1 DEF AttemptOf, IsBusy, ProvedOf, enabledBar
<1>4. attemptBar[r] = AttemptIdle
  BY AttemptIs, NullAssumption DEF LoginStart, Idle, AttemptOf
<1>5. enabledBar' = enabledBar /\ challengedBar' = challengedBar
  BY EnabledStays, ChallengedStays DEF LoginStart
<1> QED BY <1>2, <1>3, <1>4, <1>5, AttemptMoves, BeginRule

LEMMA LoginFindUserRefines ==
  ASSUME IInv, NEW r \in Requests, LoginFindUser(r)
  PROVE  SF!Next
<1> DEFINE x == req[r]
           left == IF "twoFactor" \in Features THEN Methods ELSE {}
           y == [x EXCEPT !.pc = "methods", !.row = users[x.user], !.left = left]
<1>1. Busy(r) /\ x.op = "login" /\ x.pc = "findUser" /\ Shape(x)
  BY ReqFacts DEF LoginFindUser, PcOK, Calls, Busy
<1>2. UNCHANGED <<factor, tokens>>
  BY DEF LoginFindUser
<1>3. CASE Return(r, "401", NULL)
  BY <1>1, <1>2, <1>3, FailStep
<1>4. CASE req' = [req EXCEPT ![r] = y]
  <2>1. y.op = "login" /\ y.pc = "methods" /\ y.user = x.user /\ y.held = x.held
    BY <1>1 DEF Shape, Fields
  <2>2. Moved(r, y)
    BY <1>4, MovedBy
  <2> HIDE DEF y
  <2>3. AttemptOf(y) = AttemptRuns(x.user, {} \cup {"password"}, x.held)
    BY <2>1 DEF AttemptOf, IsBusy, ProvedOf
  <2>4. attemptBar[r] = AttemptRuns(x.user, {}, x.held)
    BY <1>1, RunningIs DEF ProvedOf
  <2>5. enabledBar' = enabledBar /\ challengedBar' = challengedBar
    BY <1>2, EnabledStays, ChallengedStays
  <2>6. attemptBar' = [attemptBar EXCEPT ![r] = AttemptRuns(x.user, {} \cup {"password"}, x.held)]
    BY <2>2, <2>3, AttemptMoves
  <2>7. "password" \in {"password", "code"} /\ "password" # "code"
    OBVIOUS
  <2> QED BY <2>4, <2>5, <2>6, <2>7, ProveRule
<1> QED BY <1>3, <1>4 DEF LoginFindUser, Answer, IInv

LEMMA ReadMethodRefines ==
  ASSUME IInv, NEW r \in Requests, NEW m \in Methods, ReadMethod(r, m)
  PROVE  UNCHANGED SF!vars
<1> DEFINE y == [req[r] EXCEPT !.left = @ \ {m}, !.found = @ \cup (Enabled(req[r].user) \cap {m})]
<1>1. Moved(r, y)
  BY MovedBy DEF ReadMethod, IInv
<1>2. y.op = req[r].op /\ y.pc = req[r].pc /\ y.user = req[r].user /\ y.held = req[r].held
      /\ y.answer = req[r].answer
  BY ReqFacts DEF Shape, Fields
<1> HIDE DEF y
<1>3. AttemptOf(y) = AttemptOf(req[r])
  BY <1>2 DEF AttemptOf, ProvedOf, IsBusy
<1>4. attemptBar' = attemptBar
  BY <1>1, <1>3, AttemptStays DEF Moved
<1> QED BY <1>4, EnabledStays, ChallengedStays, StutterRule DEF ReadMethod

LEMMA LoginChallengeRefines ==
  ASSUME IInv, NEW r \in Requests, LoginChallenge(r)
  PROVE  SF!Next
<1> DEFINE u == req[r].user
<1>1. Busy(r) /\ req[r].op = "login" /\ req[r].pc = "methods"
  BY ReqFacts DEF LoginChallenge, PcOK, Calls, Busy
<1>2. attemptBar[r] = AttemptRuns(u, {"password"}, req[r].held)
  BY <1>1, RunningIs DEF ProvedOf
<1>3. attemptBar' = [attemptBar EXCEPT ![r] = AttemptOver(u, FALSE)]
  <2>1. ("challenge" = "token") = FALSE
    OBVIOUS
  <2> QED BY <1>1, <2>1, ReturnEnds DEF LoginChallenge, Answer
<1>4. challengedBar' = challengedBar \cup {u}
  <2> DEFINE t == generateChallengeToken(u)
  <2>1. t.twoFactorRequired /\ t.user = u
    BY DEF generateChallengeToken, Token
  <2>2. tokens' = tokens \cup {t}
    BY DEF LoginChallenge
  <2> HIDE DEF t
  <2> QED BY <2>1, <2>2 DEF challengedBar
<1>5. enabledBar' = enabledBar
  BY EnabledStays DEF LoginChallenge
<1> QED BY <1>2, <1>3, <1>4, <1>5, ChallengeRule

\* Every method held was on when it was asked about, so with nothing found nothing was held.
LEMMA LoginTokenRefines ==
  ASSUME IInv, "twoFactor" \in Features, NEW r \in Requests, LoginToken(r)
  PROVE  SF!Next
<1> DEFINE x == req[r]
           t == generateToken(x.user, x.row)
<1>1. Busy(r) /\ x.op = "login" /\ x.pc = "methods" /\ x.left = {} /\ x.found = {} /\ LoginOK(x)
  BY ReqFacts DEF LoginToken, PcOK, Calls, Busy
<1>2. CASE Return(r, "500", NULL) /\ UNCHANGED tokens
  BY <1>1, <1>2, FailStep DEF LoginToken
<1>3. CASE tokens' = tokens \cup {t} /\ Return(r, "token", t)
  <2>1. attemptBar[r] = AttemptRuns(x.user, {"password"}, x.held)
    BY <1>1, RunningIs DEF ProvedOf
  <2>2. x.held = {}
    BY <1>1 DEF LoginOK
  <2>3. attemptBar' = [attemptBar EXCEPT ![r] = AttemptOver(x.user, TRUE)]
    <3>1. ("token" = "token") = TRUE
      OBVIOUS
    <3> QED BY <1>1, <1>3, <3>1, ReturnEnds
  <2>4. ~t.twoFactorRequired
    BY DEF generateToken, Token
  <2> HIDE DEF t
  <2>5. enabledBar' = enabledBar /\ challengedBar' = challengedBar
    BY <1>3, <2>4, EnabledStays, ChallengedUnmoved DEF LoginToken
  <2> QED BY <2>1, <2>2, <2>3, <2>5, GrantRule
<1> QED BY <1>2, <1>3 DEF LoginToken, Answer

LEMMA VerifyStartRefines ==
  ASSUME IInv, NEW r \in Requests, NEW t \in tokens, VerifyStart(r, t)
  PROVE  SF!Next
<1> DEFINE y == Local("verify", "code", t.user, t)
<1>1. y.op = "verify" /\ y.pc = "code" /\ y.user = t.user /\ y.held = Enabled(t.user)
  BY LocalFields
<1>2. Moved(r, y)
  BY MovedBy DEF VerifyStart, Open
<1> HIDE DEF y
<1>3. t.user \in Users /\ t.user \in challengedBar
  BY DEF IInv, TablesOK, TokensOK, TokenType, VerifyStart, IsChallenge, challengedBar
<1>4. AttemptOf(y) = AttemptRuns(t.user, {"password"}, enabledBar[t.user])
  BY <1>1, <1>3 DEF AttemptOf, IsBusy, ProvedOf, enabledBar
<1>5. attemptBar[r] = AttemptIdle
  BY AttemptIs, NullAssumption DEF VerifyStart, Idle, AttemptOf
<1>6. enabledBar' = enabledBar /\ challengedBar' = challengedBar
  BY EnabledStays, ChallengedStays DEF VerifyStart
<1> QED BY <1>2, <1>3, <1>4, <1>5, <1>6, AttemptMoves, ResumeRule

LEMMA VerifyCodeRefines ==
  ASSUME IInv, NEW r \in Requests, NEW k \in Kinds, VerifyCode(r, k)
  PROVE  SF!Next
<1> DEFINE x == req[r]
<1>1. Busy(r) /\ x.op = "verify" /\ x.pc = "code" /\ Shape(x)
  BY ReqFacts DEF VerifyCode, Busy, PcOK, Calls
<1>2. PICK y : /\ Moved(r, y) /\ y.op = x.op /\ y.pc \in {"use", "stamp"}
               /\ y.user = x.user /\ y.held = x.held
  <2>1. CASE Goto(r, "stamp")
    BY <1>1, <2>1, GotoMoves, AtFields
  <2> DEFINE z == [x EXCEPT !.pc = "use", !.found = {k}]
  <2>2. CASE req' = [req EXCEPT ![r] = z]
    <3>1. z.op = x.op /\ z.pc = "use" /\ z.user = x.user /\ z.held = x.held
      BY <1>1, UseFields
    <3> HIDE DEF z
    <3> QED BY <2>2, <3>1, MovedBy
  <2>3. Goto(r, "stamp") \/ req' = [req EXCEPT ![r] = z]
    BY DEF VerifyCode, IInv
  <2> QED BY <2>1, <2>2, <2>3
<1>3. AttemptOf(y) = AttemptRuns(x.user, {"password"} \cup {"code"}, x.held)
  BY <1>1, <1>2 DEF AttemptOf, IsBusy, ProvedOf
<1>4. attemptBar[r] = AttemptRuns(x.user, {"password"}, x.held)
  BY <1>1, RunningIs DEF ProvedOf
<1>5. enabledBar' = enabledBar /\ challengedBar' = challengedBar
  BY EnabledStays, ChallengedStays DEF VerifyCode
<1> QED BY <1>2, <1>3, <1>4, <1>5, AttemptMoves, ProveRule

\* The code is taken where it is found; marking it is the code's own business.
LEMMA UseCodeRefines ==
  ASSUME IInv, NEW r \in Requests, UseCode(r)
  PROVE  SF!Next \/ UNCHANGED SF!vars
<1> DEFINE x == req[r]
           y == At(x, "stamp")
<1>1. /\ Busy(r) /\ x.op = "verify" /\ x.pc = "use" /\ x.user \in Users /\ Shape(x)
      /\ x.found \subseteq Kinds \ {"totp"} /\ UNCHANGED tokens
  BY ReqFacts DEF UseCode, Busy, PcOK, WatchOK, IsBusy, Calls
<1>2. CASE Return(r, "500", NULL) /\ UNCHANGED factor
  BY <1>1, <1>2, FailStep
<1>3. ASSUME NEW k \in x.found, factor[x.user][k] # "none", Goto(r, "stamp"),
             factor' \in {factor, [factor EXCEPT ![x.user][k] = "dead"]}
      PROVE  UNCHANGED SF!vars
  <2>1. Moved(r, y) /\ y.op = x.op /\ y.pc = "stamp" /\ y.user = x.user /\ y.held = x.held
    BY <1>1, <1>3, GotoMoves, AtFields
  <2> HIDE DEF y
  <2>2. AttemptOf(y) = AttemptOf(x)
    BY <1>1, <2>1 DEF AttemptOf, ProvedOf, IsBusy
  <2>3. attemptBar' = attemptBar
    BY <2>1, <2>2, AttemptStays DEF Moved
  <2>4. \A u \in Users : EnabledIn(factor'[u]) = EnabledIn(factor[u])
    BY <1>1, <1>3, UsedCodes
  <2> QED BY <1>1, <2>3, <2>4, EnabledStays, ChallengedStays, StutterRule
<1> QED BY <1>2, <1>3 DEF UseCode, Answer

LEMMA VerifyStampRefines ==
  ASSUME IInv, NEW r \in Requests, VerifyStamp(r)
  PROVE  SF!Next \/ UNCHANGED SF!vars
<1> DEFINE x == req[r]
           y == At(x, "profile")
<1>1. Busy(r) /\ x.op = "verify" /\ x.pc = "stamp" /\ Shape(x) /\ UNCHANGED <<factor, tokens>>
  BY ReqFacts DEF VerifyStamp, Busy, PcOK, Calls
<1>2. CASE Return(r, "500", NULL)
  BY <1>1, <1>2, FailStep
<1>3. CASE Goto(r, "profile")
  <2>1. Moved(r, y) /\ y.op = x.op /\ y.pc = "profile" /\ y.user = x.user /\ y.held = x.held
    BY <1>1, <1>3, GotoMoves, AtFields
  <2> HIDE DEF y
  <2>2. AttemptOf(y) = AttemptOf(x)
    BY <1>1, <2>1 DEF AttemptOf, ProvedOf, IsBusy
  <2>3. attemptBar' = attemptBar
    BY <2>1, <2>2, AttemptStays DEF Moved
  <2> QED BY <1>1, <2>3, EnabledStays, ChallengedStays, StutterRule
<1> QED BY <1>2, <1>3 DEF VerifyStamp, Answer

LEMMA VerifyTokenRefines ==
  ASSUME IInv, NEW r \in Requests, VerifyToken(r)
  PROVE  SF!Next
<1> DEFINE x == req[r]
           t == generateToken(x.user, users[x.user])
<1>1. Busy(r) /\ x.op = "verify" /\ x.pc = "profile"
  BY ReqFacts DEF VerifyToken, PcOK, Calls, Busy
<1>2. CASE Return(r, "404", NULL) /\ UNCHANGED tokens
  BY <1>1, <1>2, FailStep DEF VerifyToken
<1>3. CASE tokens' = tokens \cup {t} /\ Return(r, "token", t)
  <2>1. attemptBar[r] = AttemptRuns(x.user, {"password", "code"}, x.held)
    BY <1>1, RunningIs DEF ProvedOf
  <2>2. attemptBar' = [attemptBar EXCEPT ![r] = AttemptOver(x.user, TRUE)]
    <3>1. ("token" = "token") = TRUE
      OBVIOUS
    <3> QED BY <1>1, <1>3, <3>1, ReturnEnds
  <2>3. ~t.twoFactorRequired
    BY DEF generateToken, Token
  <2> HIDE DEF t
  <2>4. enabledBar' = enabledBar /\ challengedBar' = challengedBar
    BY <1>3, <2>3, EnabledStays, ChallengedUnmoved DEF VerifyToken
  <2> QED BY <2>1, <2>2, <2>4, GrantRule
<1> QED BY <1>2, <1>3 DEF VerifyToken, Answer

\* A request that is not signing in is no attempt.
LEMMA NoAttempt ==
  ASSUME NEW r \in Requests, NEW x, Moved(r, x),
         req[r].op \notin {"login", "verify"}, x.op \notin {"login", "verify"}
  PROVE  attemptBar' = attemptBar
BY AttemptStays DEF Moved, AttemptOf

LEMMA CallsRefine ==
  ASSUME IInv, NEW r \in Requests,
         \/ \E t \in tokens, h \in Handlers, s \in SessionIds : Call(r, t, h, s)
         \/ CallHost(r) \/ getProfile(r) \/ getUserSessions(r) \/ RevokeFind(r) \/ RevokeDelete(r)
  PROVE  UNCHANGED SF!vars
<1>1. UNCHANGED <<factor, tokens>>
  BY DEF Call, CallHost, getProfile, getUserSessions, RevokeFind, RevokeDelete
<1>2. attemptBar' = attemptBar
  <2>1. ASSUME NEW t \in tokens, NEW h \in Handlers, NEW i \in SessionIds, Call(r, t, h, i)
        PROVE  attemptBar' = attemptBar
    <3> DEFINE x == Local(h.does, h.does, t.user, i)
               y == [x EXCEPT !.row = [token |-> t, handler |-> h]]
               n == Done(NULL, NULL, IF JwtAuthGuard(h, t) THEN "403" ELSE "401", NULL)
    <3>1. x.op = h.does /\ Shape(x)
      BY LocalFields
    <3> HIDE DEF x
    <3>2. y.op \notin {"login", "verify"}
      BY <3>1, HandlersAssumption DEF Shape, Fields
    <3>3. n.op \notin {"login", "verify"}
      BY DoneFields, NullAssumption
    <3>4. req[r].op \notin {"login", "verify"}
      BY <2>1, NullAssumption DEF Call, Idle
    <3>5. req' = [req EXCEPT ![r] = y] \/ req' = [req EXCEPT ![r] = n]
      BY <2>1 DEF Call, x
    <3> HIDE DEF y, n
    <3> QED BY <3>2, <3>3, <3>4, <3>5, MovedBy, NoAttempt
  <2>2. ASSUME NEW answer, NEW result, Return(r, answer, result), req[r].op \notin {"login", "verify"}
        PROVE  attemptBar' = attemptBar
    BY <2>2, ReturnMoves, DoneFields, NoAttempt
  <2>3. CASE CallHost(r) \/ getProfile(r) \/ getUserSessions(r) \/ RevokeFind(r) \/ RevokeDelete(r)
    <3>1. req[r].op \notin {"login", "verify"}
      BY <2>3, ReqFacts DEF PcOK, Calls, CallHost, getProfile, getUserSessions, RevokeFind, RevokeDelete
    <3>2. CASE Goto(r, "delete")
      BY <3>1, <3>2, GotoMoves, ReqFacts, AtFields, NoAttempt
    <3>3. CASE ~Goto(r, "delete")
      <4>1. PICK answer, result : Return(r, answer, result)
        BY <2>3, <3>3 DEF CallHost, getProfile, getUserSessions, RevokeFind, RevokeDelete, Answer
      <4> QED BY <2>2, <3>1, <4>1
    <3> QED BY <3>2, <3>3
  <2> QED BY <2>1, <2>3
<1> QED BY <1>1, <1>2, EnabledStays, ChallengedStays, StutterRule

LEMMA SessionStepsRefine ==
  ASSUME IInv,
         \/ \E u \in Users, i \in SessionIds : createSession(u, i)
         \/ \E i \in SessionIds : ExpireSession(i)
         \/ UNCHANGED vars
  PROVE  UNCHANGED SF!vars
<1>1. UNCHANGED <<factor, tokens, req>>
  BY DEF createSession, ExpireSession, vars
<1> QED BY <1>1, AttemptStays, EnabledStays, ChallengedStays, StutterRule

\* The attempts of a user whose row or factors change lose what is no longer enabled.
LEMMA WatchedAttempts ==
  ASSUME IInv, NEW u \in Users, Watch(u), NEW s \in Requests
  PROVE  AttemptOf(req'[s]) =
           IF req[s].op \in {"login", "verify"} /\ Busy(s) /\ req[s].user = u
           THEN AttemptRuns(u, ProvedOf(req[s]), req[s].held \cap EnabledIn(factor'[u]))
           ELSE AttemptOf(req[s])
<1> DEFINE x == req[s]
           y == Watched(x, EnabledIn(factor'[u]), users'[u])
<1>1. y.op = x.op /\ y.pc = x.pc /\ y.user = x.user /\ y.held = x.held \cap EnabledIn(factor'[u])
  BY ReqFacts, WatchedFields
<1>2. req'[s] = IF Busy(s) /\ x.user = u THEN y ELSE x
  BY DEF Watch, Watched
<1> HIDE DEF y
<1>3. CASE ~(Busy(s) /\ x.user = u)
  BY <1>2, <1>3
<1>4. CASE Busy(s) /\ x.user = u
  <2>1. ProvedOf(y) = ProvedOf(x)
    BY <1>1 DEF ProvedOf
  <2>2. CASE x.op \in {"login", "verify"}
    BY <1>1, <1>2, <1>4, <2>1, <2>2 DEF AttemptOf, Busy, IsBusy
  <2>3. CASE x.op \notin {"login", "verify"}
    BY <1>1, <1>2, <1>4, <2>3 DEF AttemptOf
  <2> QED BY <2>2, <2>3
<1> QED BY <1>3, <1>4

LEMMA UserStepsRefine ==
  ASSUME IInv, NEW u \in Users, Watch(u), UNCHANGED <<factor, tokens>>
  PROVE  UNCHANGED SF!vars
<1>1. ASSUME NEW s \in Requests
      PROVE  AttemptOf(req'[s]) = AttemptOf(req[s])
  <2>1. CASE req[s].op \in {"login", "verify"} /\ Busy(s) /\ req[s].user = u
    <3>1. req[s].held \cap EnabledIn(factor'[u]) = req[s].held
      BY <2>1, ReqFacts DEF WatchOK, Busy, IsBusy
    <3>2. AttemptOf(req[s]) = AttemptRuns(u, ProvedOf(req[s]), req[s].held)
      BY <2>1 DEF AttemptOf, Busy, IsBusy
    <3> QED BY <2>1, <3>1, <3>2, WatchedAttempts
  <2> QED BY <2>1, WatchedAttempts
<1> QED BY <1>1, AttemptStays, EnabledStays, ChallengedStays, StutterRule

LEMMA RunsFields ==
  ASSUME NEW u, NEW proved, NEW held, NEW ms
  PROVE  LET a == AttemptRuns(u, proved, held) IN
         /\ a.stage = "running" /\ a.user = u
         /\ [a EXCEPT !.held = @ \cap ms] = AttemptRuns(u, proved, held \cap ms)
BY DEF AttemptRuns

LEMMA ChangeFactorRefines ==
  ASSUME IInv, NEW u \in Users, NEW f \in FactorStep(factor[u]), ChangeFactor(u, f)
  PROVE  SF!Next
<1> DEFINE ms == EnabledIn(f)
<1>1. ms \in SUBSET Methods
  BY DEF EnabledIn
<1>2. /\ DOMAIN factor = Users /\ factor' = [factor EXCEPT ![u] = f] /\ Watch(u) /\ UNCHANGED tokens
  BY DEF ChangeFactor, IInv, TablesOK
<1>3. factor'[u] = f /\ \A v \in Users \ {u} : factor'[v] = factor[v]
  BY <1>2
<1>4. enabledBar' = [enabledBar EXCEPT ![u] = ms]
  BY <1>3 DEF enabledBar, Enabled
<1>5. challengedBar' = challengedBar
  BY <1>2, ChallengedStays
<1>6. ASSUME NEW s \in Requests
      PROVE  attemptBar'[s] = IF attemptBar[s].stage = "running" /\ attemptBar[s].user = u
                              THEN [attemptBar[s] EXCEPT !.held = @ \cap ms]
                              ELSE attemptBar[s]
  <2> DEFINE x == req[s]
  <2>1. attemptBar[s] = AttemptOf(x) /\ attemptBar'[s] = AttemptOf(req'[s])
    BY AttemptIs, AttemptIsNext
  <2>2. CASE x.op \in {"login", "verify"} /\ Busy(s)
    <3>1. AttemptOf(x) = AttemptRuns(x.user, ProvedOf(x), x.held)
      BY <2>2 DEF AttemptOf, Busy, IsBusy
    <3>2. /\ AttemptOf(x).stage = "running" /\ AttemptOf(x).user = x.user
          /\ [AttemptOf(x) EXCEPT !.held = @ \cap ms] = AttemptRuns(x.user, ProvedOf(x), x.held \cap ms)
      BY <3>1, RunsFields
    <3>3. AttemptOf(req'[s]) = IF x.user = u THEN AttemptRuns(u, ProvedOf(x), x.held \cap ms)
                               ELSE AttemptOf(x)
      BY <1>2, <1>3, <2>2, WatchedAttempts
    <3> QED BY <2>1, <3>2, <3>3
  <2>3. CASE ~(x.op \in {"login", "verify"} /\ Busy(s))
    <3>1. AttemptOf(req'[s]) = AttemptOf(x)
      BY <1>2, <2>3, WatchedAttempts
    <3>2. AttemptOf(x).stage # "running"
      BY <2>3 DEF AttemptOf, AttemptIdle, AttemptOver, Busy, IsBusy
    <3> QED BY <2>1, <3>1, <3>2
  <2> QED BY <2>2, <2>3
<1> HIDE DEF ms
<1>7. attemptBar' = [s \in Requests |-> IF attemptBar[s].stage = "running" /\ attemptBar[s].user = u
                                        THEN [attemptBar[s] EXCEPT !.held = @ \cap ms]
                                        ELSE attemptBar[s]]
  <2>1. attemptBar' = [s \in Requests |-> attemptBar'[s]]
    BY DEF attemptBar
  <2> QED BY <1>6, <2>1
<1>8. SF!Enable(u, ms)
  BY <1>4, <1>5, <1>7 DEF SF!Enable, SF!IsRunning, enabledBar, challengedBar, attemptBar
<1> QED BY <1>1, <1>8 DEF SF!Next

LEMMA InitRefines ==
  ASSUME Init
  PROVE  SF!Init
<1>1. enabledBar \in [Users -> SUBSET Methods]
  BY EnabledIsMethods DEF enabledBar
<1>2. challengedBar = {}
  <2>1. \A t \in tokens : t.twoFactorRequired = FALSE
    BY DEF Init, generateToken, Token
  <2> QED BY <2>1 DEF challengedBar
<1>3. attemptBar = [r \in Requests |-> AttemptIdle]
  <2>1. \A r \in Requests : attemptBar[r] = AttemptIdle
    BY AttemptIs, NullAssumption DEF Init, Idle, AttemptOf
  <2> QED BY <2>1 DEF attemptBar
<1> QED BY <1>1, <1>2, <1>3 DEF SF!Init, SF!Idle, AttemptIdle, enabledBar, challengedBar, attemptBar

LEMMA StepRefines ==
  ASSUME IInv, "twoFactor" \in Features, [Next]_vars
  PROVE  [SF!Next]_SF!vars
<1>1. ASSUME NEW r \in Requests,
             \/ \E u \in Users, p \in Passwords : LoginStart(r, u, p)
             \/ LoginFindUser(r)
             \/ \E m \in Methods : ReadMethod(r, m)
             \/ LoginChallenge(r) \/ LoginToken(r)
      PROVE  SF!Next \/ UNCHANGED SF!vars
  BY <1>1, LoginStartRefines, LoginFindUserRefines, ReadMethodRefines, LoginChallengeRefines,
     LoginTokenRefines
<1>2. ASSUME NEW r \in Requests,
             \/ \E t \in tokens : VerifyStart(r, t)
             \/ \E k \in Kinds : VerifyCode(r, k)
             \/ UseCode(r) \/ VerifyStamp(r) \/ VerifyToken(r)
      PROVE  SF!Next \/ UNCHANGED SF!vars
  BY <1>2, VerifyStartRefines, VerifyCodeRefines, UseCodeRefines, VerifyStampRefines,
     VerifyTokenRefines
<1>3. ASSUME NEW r \in Requests, VerifyRefused(r)
      PROVE  SF!Next
  <2>1. Busy(r) /\ req[r].op = "verify"
    BY <1>3, ReqFacts DEF VerifyRefused, Busy, PcOK, Calls
  <2> QED BY <1>3, <2>1, FailStep DEF VerifyRefused, Answer
<1>4. ASSUME NEW r \in Requests,
             \/ \E t \in tokens, h \in Handlers, s \in SessionIds : Call(r, t, h, s)
             \/ CallHost(r) \/ getProfile(r) \/ getUserSessions(r) \/ RevokeFind(r) \/ RevokeDelete(r)
      PROVE  UNCHANGED SF!vars
  BY <1>4, CallsRefine
<1>5. ASSUME \/ \E u \in Users, row \in Row : UpdateUser(u, row)
             \/ \E u \in Users : DeleteUser(u)
      PROVE  UNCHANGED SF!vars
  BY <1>5, UserStepsRefine DEF UpdateUser, DeleteUser
<1>6. ASSUME \E u \in Users : \E f \in FactorStep(factor[u]) : ChangeFactor(u, f)
      PROVE  SF!Next
  BY <1>6, ChangeFactorRefines
<1> QED BY <1>1, <1>2, <1>3, <1>4, <1>5, <1>6, SessionStepsRefine DEF Next

\* With the twoFactor feature on, login and verifyTwoFactor implement SecondFactor: no attempt
\* is granted on the password alone while one method stays enabled from its first query to
\* its last, and none takes a code before a password.
THEOREM LoginImplementsSecondFactor ==
  ASSUME "twoFactor" \in Features
  PROVE  Spec => ImplementsSecondFactor
<1>1. IInv /\ [Next]_vars => [SF!Next]_SF!vars
  BY StepRefines
<1> QED BY <1>1, InitRefines, AlwaysIInv, PTL DEF Spec, SF!Spec, ImplementsSecondFactor

================================================================================
