--------------------------- MODULE AuthService_proofs ---------------------------
(* What holds of AuthService for every set of emails, passwords, identities,    *)
(* tokens and concurrent requests.                                              *)
EXTENDS AuthService, FiniteSetTheorems, TLAPS

Created == [type : TokenType, owner : Email]

\* What a request may rely on about the rows while it waits: the strengthening
\* that makes the invariants below inductive.
LocalsOK(r) ==
  /\ ~At(r, "idle") => req[r].email \in Email
  /\ req[r].pc \in {"regCreate", "resetApply"} => req[r].pwd \in Password
  /\ req[r].pc \in {"regEmit", "forgotEmit", "verifyApply", "resetApply"} =>
       req[r].token \in Token
  /\ req[r].pc \in {"socialByEmail", "socialCreate", "socialLink", "socialVerify"} =>
       req[r].id \in SocialId
  /\ req[r].pc \in {"regToken", "forgotToken", "socialLink"} => req[r].email \in users
  /\ req[r].pc \in {"regEmit", "verifyApply"} =>
       tokens[req[r].token] = [type |-> EMAIL_VERIFICATION, owner |-> req[r].email]
  /\ req[r].pc \in {"forgotEmit", "resetApply"} =>
       tokens[req[r].token] = [type |-> PASSWORD_RESET, owner |-> req[r].email]
  /\ At(r, "socialVerify") => [id |-> req[r].id, owner |-> req[r].email] \in accounts

RequestsOK == \A r \in Req : LocalsOK(r)

\* A token that was mailed or used was created, for a user that exists.
TokensOK ==
  /\ mailed \cup usedAt \subseteq {t \in Token : tokens[t] \in Created}
  /\ \A t \in Token : tokens[t] \in Created => tokens[t].owner \in users

IInv == TypeOK /\ RequestsOK /\ TokensOK

USE DEF Local, Idle, NoToken, CREDENTIALS, EMAIL_VERIFICATION, PASSWORD_RESET, TokenType,
        Created, At, Become, Goto, Return, rows

\* The initial rows and idle requests satisfy the strengthened invariant.
LEMMA InitIInv == Init => IInv
BY ConfigsAssumption, NullAssumption
   DEF Init, IInv, TypeOK, RequestsOK, LocalsOK, TokensOK, Pc, Account

\* Starting a request only fills in its local variables, from rows just read.
LEMMA StartIInv == ASSUME IInv, NEW r \in Req, Start(r) PROVE IInv'
<1> USE NullAssumption DEF IInv, TypeOK, RequestsOK, LocalsOK, TokensOK
<1>1. CASE \E e \in Email, p \in Password : RegisterLookup(r, e, p)
  BY <1>1 DEF RegisterLookup, Pc
<1>2. CASE \E e \in Email : ForgotLookup(r, e)
  BY <1>2 DEF ForgotLookup, Pc
<1>3. CASE \E t \in Token : VerifyEmail(r, t)
  BY <1>3 DEF VerifyEmail, validateAndConsumeToken, Acceptable, Pc
<1>4. CASE \E t \in Token, p \in Password : ResetPassword(r, t, p)
  BY <1>4 DEF ResetPassword, validateAndConsumeToken, Acceptable, Pc
<1>5. CASE \E id \in SocialId, e \in Email : SocialLookup(r, id, e)
  BY <1>5 DEF SocialLookup, Pc
<1> QED BY <1>1, <1>2, <1>3, <1>4, <1>5 DEF Start

Locals == [pc : Pc, email : Email \cup {NULL}, pwd : Password \cup {NULL},
           token : Token \cup {NULL}, id : SocialId \cup {NULL}]

\* Rows only accumulate: users and accounts stay, and a created token never changes.
Frame ==
  /\ users \subseteq users' /\ accounts \subseteq accounts'
  /\ \A t \in Token : tokens[t] \in Created => tokens'[t] = tokens[t]

\* If the rows only accumulate, a step of one request spoils nothing another one
\* relies on; it is enough to look at the request that moved.
LEMMA FrameRule ==
  ASSUME TypeOK, RequestsOK, Frame,
         NEW r \in Req, NEW l \in Locals, Become(r, l), LocalsOK(r)'
  PROVE  RequestsOK' /\ req' \in [Req -> Locals]
<1>1. req' \in [Req -> Locals] /\ req'[r] = l /\ \A q \in Req \ {r} : req'[q] = req[q]
  BY DEF TypeOK, Locals
<1>2. ASSUME NEW q \in Req \ {r} PROVE LocalsOK(q)'
  <2>1. req'[q] = req[q] /\ LocalsOK(q)
    BY <1>1, <1>2 DEF RequestsOK
  <2>2. req[q].token \in Token /\ tokens[req[q].token] \in Created =>
          tokens'[req[q].token] = tokens[req[q].token]
    BY DEF Frame
  <2>3. req[q] \in Locals /\ (req[q].pc # "idle" => req[q].email \in Email)
    BY <2>1 DEF TypeOK, Locals, LocalsOK
  <2> HIDE DEF Created
  <2>4. req[q].pc \in {"regEmit", "verifyApply", "forgotEmit", "resetApply"} =>
          req[q].token \in Token /\ tokens[req[q].token] \in Created
    BY <2>1, <2>3 DEF LocalsOK, Created
  <2> QED
    BY <2>1, <2>2, <2>3, <2>4 DEF LocalsOK, Frame
<1> QED BY <1>1, <1>2 DEF RequestsOK

\* A request that has returned relies on nothing.
LEMMA IdleRule ==
  ASSUME TypeOK, RequestsOK, Frame, NEW r \in Req, Return(r)
  PROVE  RequestsOK' /\ req' \in [Req -> Locals]
<1>1. Idle \in Locals
  BY DEF Locals, Pc
<1>2. req'[r] = Idle
  BY DEF TypeOK
<1>3. LocalsOK(r)'
  BY <1>2 DEF LocalsOK
<1> QED BY <1>1, <1>3, FrameRule

\* A request that only moves on keeps its locals: it must rely on nothing new.
LEMMA GotoRule ==
  ASSUME TypeOK, RequestsOK, Frame, NEW r \in Req, NEW pc \in Pc, Goto(r, pc),
         req[r].email \in Email, req[r].id \in SocialId,
         \/ pc = "socialCreate"
         \/ pc = "socialLink" /\ req[r].email \in users
  PROVE  RequestsOK' /\ req' \in [Req -> Locals]
<1> DEFINE l == Local(pc, req[r].email, req[r].pwd, req[r].token, req[r].id)
<1>1. l \in Locals /\ req'[r] = l
  BY DEF TypeOK, Locals
<1>2. LocalsOK(r)'
  BY <1>1 DEF LocalsOK, Frame
<1> QED BY <1>1, <1>2, FrameRule

\* A fresh token row spoils nothing, and its maker then holds exactly that token.
LEMMA CreateTokenIInv ==
  ASSUME IInv, NEW r \in Req, req[r].email \in Email, req[r].email \in users,
         NEW type, NEW next, CreateToken(r, type, next),
         \/ type = EMAIL_VERIFICATION /\ next = "regEmit"
         \/ type = PASSWORD_RESET /\ next = "forgotEmit"
  PROVE  IInv'
<1> USE NullAssumption DEF IInv
<1>1. PICK t \in FreeTokens :
        /\ tokens' = [tokens EXCEPT ![t] = [type |-> type, owner |-> req[r].email]]
        /\ Become(r, Local(next, req[r].email, NULL, t, NULL))
  BY DEF CreateToken
<1>2. t \in Token /\ tokens[t] = NoToken /\ tokens[t] \notin Created
  BY <1>1 DEF FreeTokens
<1>3. tokens' \in [Token -> Created \cup {NoToken}]
  BY <1>1, <1>2 DEF TypeOK
<1>4. tokens'[t] = [type |-> type, owner |-> req[r].email]
      /\ \A u \in Token \ {t} : tokens'[u] = tokens[u]
  BY <1>1, <1>2 DEF TypeOK
<1>5. UNCHANGED <<features, users, passwordHash, emailVerified, accounts, usedAt,
                  expired, mailed, effects, lost>>
  BY DEF CreateToken
<1>6. Frame
  BY <1>2, <1>4, <1>5 DEF Frame
<1>7. TokensOK'
  <2>1. tokens'[t].owner = req[r].email
    BY <1>4
  <2>2. ASSUME NEW u \in Token, tokens'[u] \in Created PROVE tokens'[u].owner \in users'
    BY <1>4, <1>5, <2>1, <2>2 DEF TokensOK
  <2>3. mailed' \cup usedAt' \subseteq {u \in Token : tokens'[u] \in Created}
    BY <1>2, <1>4, <1>5 DEF TokensOK
  <2> QED BY <2>2, <2>3 DEF TokensOK
<1>8. Local(next, req[r].email, NULL, t, NULL) \in Locals
  BY <1>2 DEF Locals, Pc
<1>9. LocalsOK(r)'
  <2>1. req'[r] = Local(next, req[r].email, NULL, t, NULL)
    BY <1>1 DEF TypeOK
  <2> QED BY <1>2, <1>4, <2>1 DEF LocalsOK
<1>10. RequestsOK' /\ req' \in [Req -> Locals]
  BY <1>1, <1>6, <1>8, <1>9, FrameRule
<1>11. TypeOK'
  BY <1>3, <1>5, <1>10 DEF TypeOK, Locals
<1> QED BY <1>7, <1>10, <1>11

\* Mailing a token, or losing the mail, only concerns a token that exists.
LEMMA EmitTokenIInv ==
  ASSUME IInv, NEW r \in Req, LocalsOK(r), req[r].pc \in {"regEmit", "forgotEmit"},
         NEW loss \in SUBSET Email, EmitToken(r, loss)
  PROVE  IInv'
<1> USE DEF IInv
<1>1. req[r].token \in Token /\ tokens[req[r].token] \in Created
  BY DEF LocalsOK
<1>2. Frame /\ TokensOK'
  BY <1>1 DEF EmitToken, Frame, TokensOK
<1>3. RequestsOK' /\ req' \in [Req -> Locals]
  BY <1>2, IdleRule DEF EmitToken
<1>4. TypeOK'
  BY <1>1, <1>3 DEF EmitToken, TypeOK, Locals
<1> QED BY <1>2, <1>3, <1>4

\* Every awaited step of a request keeps the strengthened invariant.
LEMMA ContinueIInv == ASSUME IInv, NEW r \in Req, Continue(r) PROVE IInv'
<1> USE NullAssumption DEF IInv
<1>0. LocalsOK(r) /\ req[r] \in Locals
  BY DEF RequestsOK, TypeOK, Locals
<1>1. CASE RegisterCreate(r)
  <2> DEFINE e == req[r].email
  <2>1. e \in Email /\ req[r].pwd \in Password
    BY <1>0, <1>1 DEF RegisterCreate, LocalsOK
  <2>2. Frame /\ TokensOK'
    BY <1>1 DEF RegisterCreate, Frame, TokensOK
  <2>3. RequestsOK' /\ req' \in [Req -> Locals]
    <3>1. CASE Return(r)
      BY <3>1, <2>2, IdleRule
    <3>2. CASE Goto(r, "regToken")
      <4>1. Local("regToken", e, req[r].pwd, req[r].token, req[r].id) \in Locals
        BY <1>0 DEF Locals, Pc
      <4>2. req'[r] = Local("regToken", e, req[r].pwd, req[r].token, req[r].id)
        BY <3>2 DEF TypeOK
      <4>3. LocalsOK(r)'
        BY <4>2, <2>1, <1>1 DEF LocalsOK, RegisterCreate
      <4> QED BY <3>2, <4>1, <4>3, <2>2, FrameRule
    <3> QED BY <1>1, <3>1, <3>2 DEF RegisterCreate
  <2>4. TypeOK'
    BY <1>1, <2>1, <2>3 DEF RegisterCreate, TypeOK, Locals, Account
  <2> QED BY <2>2, <2>3, <2>4
<1>2. CASE RegisterToken(r)
  BY <1>0, <1>2, CreateTokenIInv DEF RegisterToken, LocalsOK
<1>3. CASE RegisterEmit(r)
  BY <1>0, <1>3, EmitTokenIInv DEF RegisterEmit, LocalsOK
<1>4. CASE ForgotToken(r)
  BY <1>0, <1>4, CreateTokenIInv DEF ForgotToken, LocalsOK
<1>5. CASE ForgotEmit(r)
  BY <1>0, <1>5, EmitTokenIInv DEF ForgotEmit, LocalsOK
<1>6. CASE VerifyEmailApply(r)
  <2>1. req[r].token \in Token /\ req[r].email \in Email /\ tokens[req[r].token] \in Created
    BY <1>0, <1>6 DEF VerifyEmailApply, LocalsOK
  <2>2. Frame /\ TokensOK'
    BY <1>6, <2>1 DEF VerifyEmailApply, MarkUsed, Frame, TokensOK
  <2>3. RequestsOK' /\ req' \in [Req -> Locals]
    BY <1>6, <2>2, IdleRule DEF VerifyEmailApply, MarkUsed
  <2>4. TypeOK'
    BY <1>6, <2>1, <2>3 DEF VerifyEmailApply, MarkUsed, TypeOK, Locals
  <2> QED BY <2>2, <2>3, <2>4
<1>7. CASE ResetPasswordApply(r)
  <2>1. /\ req[r].token \in Token /\ req[r].email \in Email /\ req[r].pwd \in Password
        /\ tokens[req[r].token] \in Created
    BY <1>0, <1>7 DEF ResetPasswordApply, LocalsOK
  <2>2. Frame /\ TokensOK'
    BY <1>7, <2>1 DEF ResetPasswordApply, MarkUsed, Frame, TokensOK
  <2>3. RequestsOK' /\ req' \in [Req -> Locals]
    BY <1>7, <2>2, IdleRule DEF ResetPasswordApply, MarkUsed
  <2>4. TypeOK'
    BY <1>7, <2>1, <2>3 DEF ResetPasswordApply, MarkUsed, TypeOK, Locals
  <2> QED BY <2>2, <2>3, <2>4
<1>8. CASE SocialByEmail(r)
  <2>1. Frame /\ TokensOK'
    BY <1>8 DEF SocialByEmail, Frame, TokensOK
  <2>2. RequestsOK' /\ req' \in [Req -> Locals]
    <3>1. CASE Return(r)
      BY <3>1, <2>1, IdleRule
    <3>2. CASE ~TakenByNow(r) /\ Goto(r, "socialCreate")
      BY <1>0, <1>8, <3>2, <2>1, GotoRule DEF SocialByEmail, LocalsOK, Pc
    <3>3. CASE TakenByNow(r) /\ Goto(r, "socialLink")
      BY <1>0, <1>8, <3>3, <2>1, GotoRule DEF SocialByEmail, LocalsOK, TakenByNow, Pc
    <3> QED BY <1>8, <3>1, <3>2, <3>3 DEF SocialByEmail
  <2>3. TypeOK'
    BY <1>8, <2>2 DEF SocialByEmail, TypeOK, Locals
  <2> QED BY <2>1, <2>2, <2>3
<1>9. CASE SocialCreate(r)
  <2>1. req[r].email \in Email /\ req[r].id \in SocialId
    BY <1>0, <1>9 DEF SocialCreate, LocalsOK
  <2>2. Frame /\ TokensOK'
    BY <1>9 DEF SocialCreate, Frame, TokensOK
  <2>3. RequestsOK' /\ req' \in [Req -> Locals]
    BY <1>9, <2>2, IdleRule DEF SocialCreate
  <2>4. TypeOK'
    BY <1>9, <2>1, <2>3 DEF SocialCreate, TypeOK, Locals, Account
  <2> QED BY <2>2, <2>3, <2>4
<1>10. CASE SocialLink(r)
  <2>1. req[r].email \in Email /\ req[r].id \in SocialId
    BY <1>0, <1>10 DEF SocialLink, LocalsOK
  <2>2. Frame /\ TokensOK'
    BY <1>10 DEF SocialLink, Frame, TokensOK
  <2>3. Local("socialVerify", req[r].email, req[r].pwd, req[r].token, req[r].id) \in Locals
    BY <1>0 DEF Locals, Pc
  <2>4. LocalsOK(r)'
    <3>1. req'[r] = Local("socialVerify", req[r].email, req[r].pwd, req[r].token, req[r].id)
      BY <1>10 DEF SocialLink, TypeOK
    <3> QED BY <1>10, <2>1, <3>1 DEF SocialLink, LocalsOK
  <2>5. RequestsOK' /\ req' \in [Req -> Locals]
    BY <1>10, <2>2, <2>3, <2>4, FrameRule DEF SocialLink
  <2>6. TypeOK'
    BY <1>10, <2>1, <2>5 DEF SocialLink, TypeOK, Locals, Account
  <2> QED BY <2>2, <2>5, <2>6
<1>11. CASE SocialVerify(r)
  <2>1. req[r].email \in Email
    BY <1>0, <1>11 DEF SocialVerify, LocalsOK
  <2>2. Frame /\ TokensOK'
    BY <1>11 DEF SocialVerify, Frame, TokensOK
  <2>3. RequestsOK' /\ req' \in [Req -> Locals]
    BY <1>11, <2>2, IdleRule DEF SocialVerify
  <2>4. TypeOK'
    BY <1>11, <2>1, <2>3 DEF SocialVerify, TypeOK, Locals
  <2> QED BY <2>2, <2>3, <2>4
<1>12. CASE UniqueViolation(r)
  <2>1. Frame /\ TokensOK'
    BY <1>12 DEF UniqueViolation, Frame, TokensOK
  <2>2. RequestsOK' /\ req' \in [Req -> Locals]
    BY <1>12, <2>1, IdleRule DEF UniqueViolation
  <2> QED BY <1>12, <2>1, <2>2 DEF UniqueViolation, TypeOK, Locals
<1> QED
  BY <1>1, <1>2, <1>3, <1>4, <1>5, <1>6, <1>7, <1>8, <1>9, <1>10, <1>11, <1>12
     DEF Continue

\* So does every step of the system.
LEMMA StepIInv == IInv /\ [Next]_vars => IInv'
<1> SUFFICES ASSUME IInv, [Next]_vars PROVE IInv'
  OBVIOUS
<1>1. CASE \E r \in Req : Start(r)
  BY <1>1, StartIInv
<1>2. CASE \E r \in Req : Continue(r)
  BY <1>2, ContinueIInv
<1>3. CASE \E r \in Req : Abort(r)
  <2>1. PICK r \in Req : Abort(r)
    BY <1>3
  <2>2. Frame /\ TokensOK'
    BY <2>1 DEF Abort, Frame, IInv, TokensOK
  <2>3. RequestsOK' /\ req' \in [Req -> Locals]
    BY <2>1, <2>2, IdleRule DEF Abort, IInv
  <2>4. LocalsOK(r)
    BY DEF IInv, RequestsOK
  <2>5. lost' \in SUBSET Email
    BY <2>1, <2>4 DEF Abort, IInv, TypeOK, LocalsOK
  <2>6. TypeOK'
    BY <2>1, <2>3, <2>5 DEF Abort, IInv, TypeOK, Locals
  <2> QED BY <2>2, <2>3, <2>6 DEF IInv
<1>4. CASE \E t \in Token : Expire(t)
  BY <1>4 DEF Expire, IInv, TypeOK, RequestsOK, LocalsOK, TokensOK
<1>5. CASE UNCHANGED vars
  BY <1>5 DEF vars, IInv, TypeOK, RequestsOK, LocalsOK, TokensOK
<1> QED BY <1>1, <1>2, <1>3, <1>4, <1>5 DEF Next

\* The invariant that everything below rests on holds in every reachable state.
LEMMA Invariant == Spec => []IInv
BY InitIInv, StepIInv, PTL DEF Spec

\* The tables keep their shape, and what a waiting request relies on stays true
\* whatever the other requests do.
THEOREM TypeCorrect == Spec => []TypeOK
<1>1. IInv => TypeOK
  BY DEF IInv
<1> QED BY <1>1, Invariant, PTL

--------------------------------------------------------------------------------
(* Which steps write which rows. *)

\* Only these three steps write an Account row.
LEMMA AccountWriters ==
  ASSUME [Next]_vars
  PROVE  \/ accounts' = accounts /\ users' = users
         \/ \E r \in Req : RegisterCreate(r) \/ SocialCreate(r) \/ SocialLink(r)
BY DEF Next, vars, Start, Continue, RegisterLookup, RegisterToken, CreateToken,
       RegisterEmit, EmitToken, ForgotLookup, ForgotToken, ForgotEmit, VerifyEmail,
       validateAndConsumeToken, VerifyEmailApply, ResetPassword, ResetPasswordApply,
       SocialLookup, SocialByEmail, SocialVerify, UniqueViolation, Abort, Expire

\* Only these three steps mark an email as verified.
LEMMA VerifiedWriters ==
  ASSUME [Next]_vars
  PROVE  \/ emailVerified' = emailVerified
         \/ \E r \in Req : VerifyEmailApply(r) \/ SocialCreate(r) \/ SocialVerify(r)
BY DEF Next, vars, Start, Continue, RegisterLookup, RegisterCreate, RegisterToken,
       CreateToken, RegisterEmit, EmitToken, ForgotLookup, ForgotToken, ForgotEmit,
       VerifyEmail, validateAndConsumeToken, ResetPassword, ResetPasswordApply,
       SocialLookup, SocialByEmail, SocialLink, UniqueViolation, Abort, Expire

\* Only registration and reset write a password.
LEMMA PasswordWriters ==
  ASSUME [Next]_vars
  PROVE  \/ passwordHash' = passwordHash
         \/ \E r \in Req : RegisterCreate(r) \/ ResetPasswordApply(r)
BY DEF Next, vars, Start, Continue, RegisterLookup, RegisterToken, CreateToken,
       RegisterEmit, EmitToken, ForgotLookup, ForgotToken, ForgotEmit, VerifyEmail,
       validateAndConsumeToken, VerifyEmailApply, ResetPassword, SocialLookup,
       SocialByEmail, SocialCreate, SocialLink, SocialVerify, UniqueViolation, Abort,
       Expire

\* A token takes effect, and is marked used, only in the two consuming transactions.
LEMMA TokenWriters ==
  ASSUME [Next]_vars
  PROVE  \/ usedAt' = usedAt /\ effects' = effects
         \/ \E r \in Req : VerifyEmailApply(r) \/ ResetPasswordApply(r)
BY DEF Next, vars, Start, Continue, RegisterLookup, RegisterCreate, RegisterToken,
       CreateToken, RegisterEmit, EmitToken, ForgotLookup, ForgotToken, ForgotEmit,
       VerifyEmail, validateAndConsumeToken, ResetPassword, SocialLookup,
       SocialByEmail, SocialCreate, SocialLink, SocialVerify, UniqueViolation, Abort,
       Expire

\* Rows only accumulate.
LEMMA NextFrame == ASSUME IInv, [Next]_vars PROVE Frame
<1>1. users \subseteq users' /\ accounts \subseteq accounts'
  BY AccountWriters DEF RegisterCreate, SocialCreate, SocialLink
<1>2. \A t \in Token : tokens[t] \in Created => tokens'[t] = tokens[t]
  <2>1. ASSUME NEW r \in Req, NEW type, NEW next, CreateToken(r, type, next)
        PROVE  \A u \in Token : tokens[u] \in Created => tokens'[u] = tokens[u]
    <3>1. PICK t \in FreeTokens :
            tokens' = [tokens EXCEPT ![t] = [type |-> type, owner |-> req[r].email]]
      BY <2>1 DEF CreateToken
    <3> QED BY <3>1, NullAssumption DEF FreeTokens, IInv, TypeOK
  <2>2. CASE tokens' = tokens
    BY <2>2
  <2>3. \/ tokens' = tokens
        \/ \E r \in Req : \/ CreateToken(r, EMAIL_VERIFICATION, "regEmit")
                         \/ CreateToken(r, PASSWORD_RESET, "forgotEmit")
    BY DEF Next, vars, Start, Continue, RegisterLookup, RegisterCreate, RegisterToken,
           RegisterEmit, EmitToken, ForgotLookup, ForgotToken, ForgotEmit, VerifyEmail,
           validateAndConsumeToken, VerifyEmailApply, ResetPassword, ResetPasswordApply,
           SocialLookup, SocialByEmail, SocialCreate, SocialLink, SocialVerify,
           UniqueViolation, Abort, Expire
  <2> QED BY <2>1, <2>2, <2>3
<1> QED BY <1>1, <1>2 DEF Frame

--------------------------------------------------------------------------------
(* The properties. *)

\* One provider identity, one user - although the lookup and the insert of a social
\* sign-in are separate steps that race: the unique index decides.
THEOREM SocialIdentityIsUnique == Spec => []SocialIdentityUnique
<1>1. Init => SocialIdentityUnique
  BY DEF Init, SocialIdentityUnique
<1>2. ASSUME IInv, SocialIdentityUnique, [Next]_vars PROVE SocialIdentityUnique'
  <2>1. CASE accounts' = accounts /\ users' = users
    BY <1>2, <2>1 DEF SocialIdentityUnique
  <2>2. ASSUME NEW r \in Req, RegisterCreate(r) PROVE SocialIdentityUnique'
    BY <1>2, <2>2, CredentialsAssumption DEF RegisterCreate, SocialIdentityUnique
  <2>3. ASSUME NEW r \in Req, SocialCreate(r) PROVE SocialIdentityUnique'
    BY <1>2, <2>3 DEF SocialCreate, Linked, SocialIdentityUnique
  <2>4. ASSUME NEW r \in Req, SocialLink(r) PROVE SocialIdentityUnique'
    <3>1. req[r].email \in users
      BY <1>2, <2>4 DEF IInv, RequestsOK, LocalsOK, SocialLink
    <3> QED BY <1>2, <2>4, <3>1 DEF SocialLink, Linked, SocialIdentityUnique
  <2> QED BY <1>2, <2>1, <2>2, <2>3, <2>4, AccountWriters
<1> QED BY <1>1, <1>2, Invariant, PTL DEF Spec

\* A verified email always has its evidence: the invariant on what a request at
\* verifyApply or socialVerify relies on supplies it, and evidence is never erased.
THEOREM VerifiedIsEvidenced == Spec => []VerifiedHasEvidence
<1>1. Init => VerifiedHasEvidence
  BY DEF Init, VerifiedHasEvidence
<1>2. ASSUME IInv, VerifiedHasEvidence, [Next]_vars PROVE VerifiedHasEvidence'
  <2> SUFFICES ASSUME NEW e \in emailVerified' PROVE HasEvidence(e)'
    BY DEF VerifiedHasEvidence
  <2>1. Frame /\ usedAt \subseteq usedAt'
    BY <1>2, NextFrame, TokenWriters DEF VerifyEmailApply, ResetPasswordApply, MarkUsed
  <2>2. CASE e \in emailVerified
    <3>1. HasEvidence(e)
      BY <1>2, <2>2 DEF VerifiedHasEvidence
    <3>2. \A t \in usedAt : tokens'[t] = tokens[t]
      BY <1>2, <2>1 DEF Frame, IInv, TokensOK
    <3> QED BY <2>1, <3>1, <3>2 DEF Frame, HasEvidence
  <2>3. ASSUME NEW r \in Req, VerifyEmailApply(r), e = req[r].email PROVE HasEvidence(e)'
    <3>1. tokens[req[r].token] = [type |-> EMAIL_VERIFICATION, owner |-> e]
      BY <1>2, <2>3 DEF IInv, RequestsOK, LocalsOK, VerifyEmailApply
    <3>2. req[r].token \in usedAt' /\ tokens' = tokens
      BY <2>3 DEF VerifyEmailApply, MarkUsed
    <3> QED BY <3>1, <3>2 DEF HasEvidence
  <2>4. ASSUME NEW r \in Req, SocialCreate(r) \/ SocialVerify(r), e = req[r].email
        PROVE  HasEvidence(e)'
    <3>1. req[r].id \in SocialId
      BY <1>2, <2>4 DEF IInv, RequestsOK, LocalsOK, SocialCreate, SocialVerify
    <3>2. [id |-> req[r].id, owner |-> e] \in accounts'
      BY <1>2, <2>4 DEF IInv, RequestsOK, LocalsOK, SocialCreate, SocialVerify
    <3> QED BY <3>1, <3>2 DEF HasEvidence
  <2>5. \/ e \in emailVerified
        \/ \E r \in Req : /\ e = req[r].email
                          /\ VerifyEmailApply(r) \/ SocialCreate(r) \/ SocialVerify(r)
    BY <1>2, VerifiedWriters DEF VerifyEmailApply, SocialCreate, SocialVerify
  <2> QED BY <2>2, <2>3, <2>4, <2>5
<1> QED BY <1>1, <1>2, Invariant, PTL DEF Spec

\* A lost registration or sign-in never overwrites a password: the only step that
\* writes the password of an existing user holds a reset token of that user.
THEOREM PasswordsChangeByReset == Spec => PasswordChangesByResetOnly
<1> DEFINE Allowed ==
      \A e \in users :
        passwordHash'[e] # passwordHash[e] =>
          \E t \in usedAt' : /\ tokens[t] = [type |-> PASSWORD_RESET, owner |-> e]
                             /\ effects'[t] = effects[t] + 1
<1>1. ASSUME IInv, [Next]_vars PROVE Allowed
  <2>1. CASE passwordHash' = passwordHash
    BY <2>1
  <2>2. ASSUME NEW r \in Req, RegisterCreate(r) PROVE Allowed
    BY <1>1, <2>2 DEF RegisterCreate, TakenByNow, IInv, TypeOK
  <2>3. ASSUME NEW r \in Req, ResetPasswordApply(r) PROVE Allowed
    <3>1. /\ req[r].token \in Token
          /\ tokens[req[r].token] = [type |-> PASSWORD_RESET, owner |-> req[r].email]
      BY <1>1, <2>3 DEF IInv, RequestsOK, LocalsOK, ResetPasswordApply
    <3>2. req[r].token \in usedAt' /\ effects'[req[r].token] = effects[req[r].token] + 1
      BY <1>1, <2>3, <3>1 DEF ResetPasswordApply, MarkUsed, IInv, TypeOK
    <3>3. \A e \in users : e # req[r].email => passwordHash'[e] = passwordHash[e]
      BY <1>1, <2>3 DEF ResetPasswordApply, IInv, TypeOK
    <3> QED BY <3>1, <3>2, <3>3
  <2> QED BY <1>1, <2>1, <2>2, <2>3, PasswordWriters
<1>2. IInv /\ [Next]_vars => [Allowed]_vars
  BY <1>1
<1> QED BY <1>2, Invariant, PTL DEF Spec, PasswordChangesByResetOnly

\* Nobody starts to hold a token that is already used: validateAndConsumeToken is the
\* only step that makes a holder, and it refuses used tokens.
LEMMA HoldersShrink ==
  ASSUME IInv, [Next]_vars, NEW t \in usedAt
  PROVE  Holders(t)' \subseteq Holders(t)
<1> SUFFICES ASSUME NEW q \in Req, q \in Holders(t)' PROVE q \in Holders(t)
  BY DEF Holders
<1>1. CASE req'[q] = req[q]
  BY <1>1 DEF Holders
<1>2. CASE UNCHANGED req
  BY <1>2 DEF Holders
<1> DEFINE NoHolder(r) == /\ r \notin Holders(t)'
                          /\ \A u \in Req \ {r} : req'[u] = req[u]
<1>5. ASSUME NEW r \in Req, NoHolder(r) PROVE q \in Holders(t)
  BY <1>1, <1>5
<1> USE DEF Holders, IInv, TypeOK
<1>6. ASSUME NEW r \in Req, Return(r) PROVE NoHolder(r)
  BY <1>6
<1>7. ASSUME NEW r \in Req, Start(r) PROVE NoHolder(r)
  <2>1. CASE \E u \in Token, p \in Password : ResetPassword(r, u, p)
    BY <2>1 DEF ResetPassword, validateAndConsumeToken, Acceptable
  <2>2. CASE \E u \in Token : VerifyEmail(r, u)
    BY <2>2 DEF VerifyEmail, validateAndConsumeToken, Acceptable
  <2>3. CASE \E e \in Email, p \in Password : RegisterLookup(r, e, p)
    BY <2>3 DEF RegisterLookup
  <2>4. CASE \E e \in Email : ForgotLookup(r, e)
    BY <2>4 DEF ForgotLookup
  <2>5. CASE \E id \in SocialId, e \in Email : SocialLookup(r, id, e)
    BY <2>5 DEF SocialLookup
  <2> QED BY <1>7, <2>1, <2>2, <2>3, <2>4, <2>5 DEF Start
<1>8. ASSUME NEW r \in Req, Continue(r) PROVE NoHolder(r)
  <2>1. CASE RegisterToken(r)
    BY <2>1 DEF RegisterToken, CreateToken
  <2>2. CASE ForgotToken(r)
    BY <2>2 DEF ForgotToken, CreateToken
  <2>3. CASE SocialByEmail(r)
    BY <2>3, <1>6 DEF SocialByEmail
  <2>4. CASE RegisterCreate(r)
    BY <2>4, <1>6 DEF RegisterCreate
  <2>5. CASE SocialLink(r)
    BY <2>5 DEF SocialLink
  <2>6. CASE Return(r)
    BY <2>6, <1>6
  <2> QED
    BY <1>8, <2>1, <2>2, <2>3, <2>4, <2>5, <2>6
       DEF Continue, RegisterEmit, ForgotEmit, EmitToken, VerifyEmailApply,
           ResetPasswordApply, MarkUsed, SocialCreate, SocialVerify, UniqueViolation
<1>9. CASE \E r \in Req : Abort(r)
  BY <1>9, <1>5, <1>6 DEF Abort
<1>10. CASE \E u \in Token : Expire(u)
  BY <1>10, <1>2 DEF Expire
<1>11. CASE UNCHANGED vars
  BY <1>11, <1>2 DEF vars
<1> QED BY <1>5, <1>7, <1>8, <1>9, <1>10, <1>11 DEF Next

\* A used token that no request still holds has no effect any more, and none will hold it.
THEOREM DrainedTokensAreDead == Spec => DrainedTokenIsDead
<1> DEFINE Dead == \A t \in usedAt : Holders(t) = {} => Holders(t)' = {} /\ effects'[t] = effects[t]
<1>1. ASSUME IInv, [Next]_vars PROVE Dead
  <2>0. \A t \in usedAt : Holders(t) = {} => Holders(t)' = {}
    BY <1>1, HoldersShrink
  <2>1. CASE effects' = effects
    BY <2>0, <2>1
  <2>2. ASSUME NEW r \in Req, VerifyEmailApply(r) \/ ResetPasswordApply(r) PROVE Dead
    <3>1. r \in Holders(req[r].token)
      BY <2>2 DEF Holders, VerifyEmailApply, ResetPasswordApply
    <3>2. \A t \in Token \ {req[r].token} : effects'[t] = effects[t]
      BY <1>1, <2>2 DEF VerifyEmailApply, ResetPasswordApply, MarkUsed, IInv, TypeOK
    <3> QED BY <1>1, <2>0, <3>1, <3>2 DEF IInv, TypeOK
  <2> QED BY <1>1, <2>1, <2>2, TokenWriters
<1>2. IInv /\ [Next]_vars => [Dead]_vars
  BY <1>1
<1> QED BY <1>2, Invariant, PTL DEF Spec, DrainedTokenIsDead

\* The count behind EffectsBounded: each application of a used token consumes one of
\* the holders it had, and before the first use there are at most as many holders as
\* requests.
Counted ==
  \A t \in Token :
    /\ t \notin usedAt => effects[t] = 0
    /\ t \in usedAt => effects[t] + Cardinality(Holders(t)) <= Cardinality(Req)

\* Holders are requests: finitely many, and no more than there are slots.
LEMMA HoldersFinite ==
  ASSUME NEW t
  PROVE  /\ IsFiniteSet(Holders(t)) /\ Cardinality(Holders(t)) \in Nat
         /\ Cardinality(Holders(t)) <= Cardinality(Req) /\ Cardinality(Req) \in Nat
<1>1. Holders(t) \subseteq Req
  BY DEF Holders
<1> QED BY <1>1, ReqAssumption, FS_Subset, FS_CardinalityType

\* The count survives every step.
LEMMA StepCounted == ASSUME IInv, Counted, [Next]_vars PROVE Counted'
<1> SUFFICES ASSUME NEW t \in Token
             PROVE  /\ t \notin usedAt' => effects'[t] = 0
                    /\ t \in usedAt' =>
                         effects'[t] + Cardinality(Holders(t)') <= Cardinality(Req)
  BY DEF Counted
<1>0. effects[t] \in Nat
  BY DEF IInv, TypeOK
<1>1. ASSUME t \in usedAt' <=> t \in usedAt, effects'[t] = effects[t]
      PROVE  /\ t \notin usedAt' => effects'[t] = 0
             /\ t \in usedAt' =>
                  effects'[t] + Cardinality(Holders(t)') <= Cardinality(Req)
  <2>1. CASE t \notin usedAt
    BY <1>1, <2>1 DEF Counted
  <2>2. CASE t \in usedAt
    <3>1. Holders(t)' \subseteq Holders(t)
      BY <2>2, HoldersShrink
    <3>2. Cardinality(Holders(t)') <= Cardinality(Holders(t)) /\ Cardinality(Holders(t)') \in Nat
      BY <3>1, HoldersFinite, FS_Subset, FS_CardinalityType
    <3>3. effects[t] + Cardinality(Holders(t)) <= Cardinality(Req)
      BY <2>2 DEF Counted
    <3> QED BY <1>0, <1>1, <2>2, <3>2, <3>3, HoldersFinite
  <2> QED BY <2>1, <2>2
<1>2. ASSUME NEW r \in Req, VerifyEmailApply(r) \/ ResetPasswordApply(r), req[r].token = t
      PROVE  effects'[t] + Cardinality(Holders(t)') <= Cardinality(Req) /\ t \in usedAt'
  <2>1. /\ usedAt' = usedAt \cup {t} /\ effects'[t] = effects[t] + 1
        /\ req' = [req EXCEPT ![r] = Idle] /\ r \in Holders(t)
    BY <1>2 DEF VerifyEmailApply, ResetPasswordApply, MarkUsed, Holders, IInv, TypeOK
  <2>2. Holders(t)' = Holders(t) \ {r}
    BY <2>1 DEF Holders, IInv, TypeOK
  <2>3. Cardinality(Holders(t)') = Cardinality(Holders(t)) - 1
    BY <2>1, <2>2, HoldersFinite, FS_RemoveElement
  <2>4. t \notin usedAt => effects[t] = 0
    BY DEF Counted
  <2>5. t \in usedAt => effects[t] + Cardinality(Holders(t)) <= Cardinality(Req)
    BY DEF Counted
  <2> QED BY <1>0, <2>1, <2>3, <2>4, <2>5, HoldersFinite
<1>3. ASSUME NEW r \in Req, VerifyEmailApply(r) \/ ResetPasswordApply(r), req[r].token # t
      PROVE  (t \in usedAt' <=> t \in usedAt) /\ effects'[t] = effects[t]
  BY <1>3 DEF VerifyEmailApply, ResetPasswordApply, MarkUsed, IInv, TypeOK
<1> QED BY <1>1, <1>2, <1>3, TokenWriters

\* However many requests race on a token, it is applied at most once per slot.
THEOREM EffectsAreBounded == Spec => []EffectsBounded
<1>1. Init => Counted
  BY DEF Init, Counted
<1>2. IInv /\ Counted /\ [Next]_vars => Counted'
  BY StepCounted
<1>3. Counted => EffectsBounded
  BY DEF Counted, EffectsBounded
<1> QED BY <1>1, <1>2, <1>3, Invariant, PTL DEF Spec

\* With a single request at a time - one slot - a token does take effect once: the
\* repeated effect that TLC finds needs two requests in flight.
THEOREM OneAtATimeIsSingleUse ==
  ASSUME Cardinality(Req) = 1
  PROVE  Spec => []TokenTakesEffectOnce
<1>1. Init => Counted
  BY DEF Init, Counted
<1>2. IInv /\ Counted /\ [Next]_vars => Counted'
  BY StepCounted
<1>3. IInv /\ Counted => TokenTakesEffectOnce
  <2> SUFFICES ASSUME IInv, Counted, NEW t \in Token PROVE effects[t] <= 1
    BY DEF TokenTakesEffectOnce
  <2>1. effects[t] \in Nat
    BY DEF IInv, TypeOK
  <2>2. CASE t \notin usedAt
    BY <2>2 DEF Counted
  <2>3. CASE t \in usedAt
    BY <2>1, <2>3, HoldersFinite DEF Counted
  <2> QED BY <2>2, <2>3
<1> QED BY <1>1, <1>2, <1>3, Invariant, PTL DEF Spec

--------------------------------------------------------------------------------
(* Nobody is left half-way in silence. *)

\* What a registered user waits for: the email is verified, or its mail is out.
Served(e) ==
  \/ e \in emailVerified
  \/ \E t \in mailed : tokens[t] = [type |-> EMAIL_VERIFICATION, owner |-> e]

Registering(r) == req[r].pc \in {"regToken", "regEmit"}

\* Who is served stays served, and who is lost stays lost.
LEMMA ServedStays ==
  ASSUME IInv, [Next]_vars
  PROVE  /\ features' = features /\ lost \subseteq lost'
         /\ emailVerified \subseteq emailVerified'
         /\ \A e : Served(e) => Served(e)'
<1>1. features' = features /\ lost \subseteq lost' /\ mailed \subseteq mailed'
  BY DEF Next, vars, Start, Continue, RegisterLookup, RegisterCreate, RegisterToken,
         CreateToken, RegisterEmit, EmitToken, ForgotLookup, ForgotToken, ForgotEmit,
         VerifyEmail, validateAndConsumeToken, VerifyEmailApply, ResetPassword,
         ResetPasswordApply, SocialLookup, SocialByEmail, SocialCreate, SocialLink,
         SocialVerify, UniqueViolation, Abort, Expire
<1>2. emailVerified \subseteq emailVerified'
  BY VerifiedWriters DEF VerifyEmailApply, SocialCreate, SocialVerify
<1>3. \A t \in mailed : t \in mailed' /\ tokens'[t] = tokens[t]
  BY <1>1, NextFrame DEF Frame, IInv, TokensOK
<1> QED BY <1>1, <1>2, <1>3 DEF Served

\* A step moves at most one request, by one of its own actions.
LEMMA OneMoves ==
  ASSUME IInv, [Next]_vars
  PROVE  \/ req' = req
         \/ \E q \in Req : /\ Start(q) \/ Continue(q) \/ Abort(q)
                           /\ \A r \in Req \ {q} : req'[r] = req[r]
<1>1. ASSUME NEW q \in Req, Start(q) \/ Continue(q) \/ Abort(q)
      PROVE  \E l : Become(q, l)
  BY <1>1 DEF Start, Continue, RegisterLookup, RegisterCreate, RegisterToken,
              CreateToken, RegisterEmit, EmitToken, ForgotLookup, ForgotToken, ForgotEmit,
              VerifyEmail, validateAndConsumeToken, VerifyEmailApply, ResetPassword,
              ResetPasswordApply, MarkUsed, SocialLookup, SocialByEmail, SocialCreate,
              SocialLink, SocialVerify, UniqueViolation, Abort
<1>2. ASSUME NEW q \in Req, NEW l, Become(q, l), NEW r \in Req \ {q}
      PROVE  req'[r] = req[r]
  BY <1>2 DEF IInv, TypeOK
<1>3. \/ req' = req
      \/ \E q \in Req : Start(q) \/ Continue(q) \/ Abort(q)
  BY DEF Next, vars, Expire
<1> QED BY <1>1, <1>2, <1>3

\* A registration past its insert ends with the mail sent or its user lost.
LEMMA RegistrationEnds ==
  ASSUME IInv, [Next]_vars, NEW r \in Req, Registering(r),
         NEW e, e = req[r].email
  PROVE  \/ req'[r].email = e /\ Registering(r)'
         \/ Served(e)'
         \/ e \in lost'
<1>1. CASE req'[r] = req[r]
  BY <1>1 DEF Registering
<1>2. CASE RegisterToken(r)
  <2>1. PICK t : Become(r, Local("regEmit", req[r].email, NULL, t, NULL))
    BY <1>2 DEF RegisterToken, CreateToken
  <2> QED BY <2>1 DEF IInv, TypeOK, Registering
<1>3. CASE RegisterEmit(r)
  <2>1. tokens[req[r].token] = [type |-> EMAIL_VERIFICATION, owner |-> e]
    BY <1>3 DEF IInv, RequestsOK, LocalsOK, RegisterEmit
  <2>2. tokens' = tokens
        /\ (mailed' = mailed \cup {req[r].token} \/ lost' = lost \cup {e})
    BY <1>3 DEF RegisterEmit, EmitToken
  <2>3. CASE lost' = lost \cup {e}
    BY <2>3
  <2>4. CASE mailed' = mailed \cup {req[r].token}
    <3>1. req[r].token \in mailed'
          /\ tokens'[req[r].token] = [type |-> EMAIL_VERIFICATION, owner |-> e]
      BY <2>1, <2>2, <2>4
    <3> QED BY <3>1 DEF Served
  <2> QED BY <2>2, <2>3, <2>4
<1>4. CASE Abort(r)
  BY <1>4 DEF Abort, Registering
<1>5. req'[r] = req[r] \/ RegisterToken(r) \/ RegisterEmit(r) \/ Abort(r)
  <2>1. CASE Start(r) \/ Continue(r)
    BY <2>1 DEF Registering, Start, Continue, RegisterLookup, RegisterCreate,
                ForgotLookup, ForgotToken, ForgotEmit, VerifyEmail,
                validateAndConsumeToken, VerifyEmailApply, ResetPassword,
                ResetPasswordApply, SocialLookup, SocialByEmail, SocialCreate,
                SocialLink, SocialVerify, UniqueViolation
  <2> QED BY <2>1, OneMoves
<1> QED BY <1>1, <1>2, <1>3, <1>4, <1>5

\* A sign-in that linked an account ends with its user verified or lost.
LEMMA LinkingEnds ==
  ASSUME IInv, [Next]_vars, NEW r \in Req, At(r, "socialVerify")
  PROVE  \/ req'[r] = req[r]
         \/ req[r].email \in emailVerified' \cup lost'
<1>1. CASE SocialVerify(r) \/ Abort(r)
  BY <1>1 DEF SocialVerify, Abort
<1>2. CASE Start(r) \/ Continue(r)
  <2>1. SocialVerify(r)
    BY <1>2 DEF Start, Continue, RegisterLookup, RegisterCreate, RegisterToken,
                RegisterEmit, ForgotLookup, ForgotToken, ForgotEmit, VerifyEmail,
                validateAndConsumeToken, VerifyEmailApply, ResetPassword,
                ResetPasswordApply, SocialLookup, SocialByEmail, SocialCreate,
                SocialLink, UniqueViolation
  <2> QED BY <1>1, <2>1
<1> QED BY <1>1, <1>2, OneMoves

\* A user or a social account is new: it is verified, or its request goes on.
LEMMA NewcomersAreCared ==
  ASSUME IInv, [Next]_vars
  PROVE  /\ \A e \in users' \ users :
              \/ "emailVerification" \notin features \/ e \in emailVerified'
              \/ \E r \in Req : req'[r].email = e /\ Registering(r)'
         /\ \A a \in accounts' \ accounts :
              \/ a.id \notin SocialId \/ a.owner \in emailVerified'
              \/ \E r \in Req : req'[r].email = a.owner /\ req'[r].pc = "socialVerify"
<1>1. CASE accounts' = accounts /\ users' = users
  BY <1>1
<1>2. ASSUME NEW r \in Req, RegisterCreate(r),
             NEW e \in users' \ users, "emailVerification" \in features
      PROVE  req'[r].email = e /\ Registering(r)'
  BY <1>2 DEF RegisterCreate, Registering, IInv, TypeOK
<1>3. ASSUME NEW r \in Req, RegisterCreate(r), NEW a \in accounts' \ accounts
      PROVE  a.id \notin SocialId
  BY <1>3, CredentialsAssumption DEF RegisterCreate
<1>4. ASSUME NEW r \in Req, SocialCreate(r)
      PROVE  /\ \A e \in users' \ users : e \in emailVerified'
             /\ \A a \in accounts' \ accounts : a.owner \in emailVerified'
  BY <1>4 DEF SocialCreate
<1>5. ASSUME NEW r \in Req, SocialLink(r)
      PROVE  /\ users' = users
             /\ \A a \in accounts' \ accounts :
                  req'[r].email = a.owner /\ req'[r].pc = "socialVerify"
  BY <1>5 DEF SocialLink, IInv, TypeOK
<1> QED BY <1>1, <1>2, <1>3, <1>4, <1>5, AccountWriters

\* A user is never left half-way without a request that died on the way: whoever is
\* registering or linking either finishes or enters `lost`, and what
\* serves a user is never taken back.
THEOREM NobodyIsStrandedSilently == Spec => []NoSilentStrand
<1>1. Init => NoSilentStrand
  BY DEF Init, NoSilentStrand
<1>2. ASSUME IInv, NoSilentStrand, [Next]_vars PROVE NoSilentStrand'
  <2>1. ASSUME NEW e \in (users \ lost)', "emailVerification" \in features'
        PROVE  \/ Served(e)'
               \/ \E r \in Req : req'[r].email = e /\ Registering(r)'
    <3>1. e \notin lost /\ "emailVerification" \in features
      BY <1>2, <2>1, ServedStays
    <3>2. CASE e \notin users
      BY <1>2, <2>1, <3>1, <3>2, NewcomersAreCared DEF Served
    <3>3. CASE e \in users /\ Served(e)
      BY <1>2, <3>3, ServedStays
    <3>4. CASE e \in users /\ ~Served(e)
      <4>1. PICK r \in Req : req[r].email = e /\ Registering(r)
        BY <1>2, <3>1, <3>4 DEF NoSilentStrand, Served, Registering
      <4>2. \/ req'[r].email = e /\ Registering(r)'
            \/ Served(e)'
            \/ e \in lost'
        BY <1>2, <4>1, RegistrationEnds
      <4> QED BY <2>1, <4>2
    <3> QED BY <3>2, <3>3, <3>4
  <2>2. ASSUME NEW a \in accounts', a.id \in SocialId, a.owner \notin lost'
        PROVE  \/ a.owner \in emailVerified'
               \/ \E r \in Req : req'[r].email = a.owner /\ req'[r].pc = "socialVerify"
    <3>1. a.owner \notin lost
      BY <1>2, <2>2, ServedStays
    <3>2. CASE a \notin accounts
      BY <1>2, <2>2, <3>2, NewcomersAreCared
    <3>3. CASE a \in accounts /\ a.owner \in emailVerified
      BY <1>2, <3>3, ServedStays
    <3>4. CASE a \in accounts /\ a.owner \notin emailVerified
      <4>1. PICK r \in Req : req[r].email = a.owner /\ At(r, "socialVerify")
        BY <1>2, <2>2, <3>1, <3>4 DEF NoSilentStrand
      <4> QED BY <1>2, <2>2, <4>1, LinkingEnds
    <3> QED BY <3>2, <3>3, <3>4
  <2> QED BY <2>1, <2>2 DEF NoSilentStrand, Served, Registering
<1> QED BY <1>1, <1>2, Invariant, PTL DEF Spec
================================================================================
