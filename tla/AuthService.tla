------------------------------ MODULE AuthService ------------------------------
(****************************************************************************)
(* The account lifecycle of AuthService (nestjs-auth/src/auth.service.ts):  *)
(* registration, email verification, password reset and social sign-in.     *)
(*                                                                          *)
(* Every request is one call of a service method.  The method runs on the   *)
(* event loop of some instance and gives control back at each await, so one *)
(* awaited database call is one action here; all requests, of all           *)
(* instances, share the rows.  A request that dies - its instance crashes   *)
(* or an awaited call rejects - leaves the rows it already wrote.           *)
(*                                                                          *)
(* Rows: a User is its email (unique, never changed, never deleted by this  *)
(* code); an Account is its owner and, for a social login, the (provider,   *)
(* providerAccountId) pair; a VerificationToken is its random value.        *)
(* Columns that no guard reads (lastLoginAt, avatarUrl, OAuth tokens, role) *)
(* are left out, and with them the sign-in that finds its Account row, which*)
(* writes nothing else.  Login and the second factor only read these rows.  *)
(****************************************************************************)
EXTENDS Naturals, FiniteSets

CONSTANTS
  Email,        \* emails that may be registered
  Password,     \* passwords
  SocialId,     \* (provider, providerAccountId) pairs
  Token,        \* random token values: bounds how many tokens are ever made
  Req,          \* slots for concurrent requests: bounds the concurrency
  Configs,      \* feature sets the module may be configured with
  NULL          \* absent value

Feature == {"emailPassword", "emailVerification", "passwordReset", "accountLinking"}

ASSUME ConfigsAssumption == Configs \subseteq SUBSET Feature
ASSUME ReqAssumption == IsFiniteSet(Req)
ASSUME NullAssumption ==
  NULL \notin Email \cup Password \cup SocialId \cup Token

EMAIL_VERIFICATION == "email_verification"
PASSWORD_RESET == "password_reset"
TokenType == {EMAIL_VERIFICATION, PASSWORD_RESET}

\* The provider of a password account, which has no providerAccountId.
CREDENTIALS == "credentials"

ASSUME CredentialsAssumption == CREDENTIALS \notin SocialId

VARIABLES
  features,      \* the features switched on, fixed at start-up
  users,         \* emails that have a User row
  passwordHash,  \* User.passwordHash
  emailVerified, \* users whose emailVerified column is true
  accounts,      \* Account rows
  tokens,        \* VerificationToken rows
  usedAt,        \* tokens whose usedAt column is set
  expired,       \* tokens whose expiresAt has passed
  mailed,        \* tokens an event has carried to their owner
  effects,       \* history: how often a token has changed a user
  lost,          \* history: users whose request died half-way
  req            \* the local variables of each request

rows == <<users, passwordHash, emailVerified, accounts, tokens, usedAt>>
vars == <<features, rows, expired, mailed, effects, lost, req>>

Local(pc, e, p, t, id) == [pc |-> pc, email |-> e, pwd |-> p, token |-> t, id |-> id]

Idle == Local("idle", NULL, NULL, NULL, NULL)

NoToken == [type |-> NULL, owner |-> NULL]

Account == [id : SocialId \cup {CREDENTIALS}, owner : Email]

Init ==
  /\ features \in Configs
  /\ users = {} /\ emailVerified = {} /\ accounts = {}
  /\ passwordHash = [e \in Email |-> NULL]
  /\ tokens = [t \in Token |-> NoToken]
  /\ usedAt = {} /\ expired = {} /\ mailed = {} /\ lost = {}
  /\ effects = [t \in Token |-> 0]
  /\ req = [r \in Req |-> Idle]

--------------------------------------------------------------------------------
(* How a request moves from one await to the next. *)

At(r, pc) == req[r].pc = pc

Become(r, locals) == req' = [req EXCEPT ![r] = locals]

Goto(r, pc) == Become(r, Local(pc, req[r].email, req[r].pwd, req[r].token, req[r].id))

Return(r) == Become(r, Idle)

FreeTokens == {t \in Token : tokens[t] = NoToken}

\* The bound on tokens: a request that will need one only starts if one is left.
TokenLeft ==
  Cardinality(FreeTokens) >
    Cardinality({r \in Req : req[r].pc \in {"regCreate", "regToken", "forgotToken"}})

\* Variant of CreateToken: the row is written without its user.
CreateOwnerlessToken(r, type, next) ==
  \E t \in FreeTokens :
    /\ tokens' = [tokens EXCEPT ![t] = [type |-> type, owner |-> NULL]]
    /\ Become(r, Local(next, req[r].email, NULL, t, NULL))
    /\ UNCHANGED <<features, users, passwordHash, emailVerified, accounts, usedAt,
                   expired, mailed, effects, lost>>

\* await prisma.verificationToken.create
CreateToken(r, type, next) ==
  \E t \in FreeTokens :
    /\ tokens' = [tokens EXCEPT ![t] = [type |-> type, owner |-> req[r].email]]
    /\ Become(r, Local(next, req[r].email, NULL, t, NULL))
    /\ UNCHANGED <<features, users, passwordHash, emailVerified, accounts, usedAt,
                   expired, mailed, effects, lost>>

\* emitEvent: the token reaches its owner, or a listener fails and the error is
\* swallowed.  Only a registration has no way to ask again.
EmitToken(r, loss) ==
  /\ Return(r)
  /\ \/ mailed' = mailed \cup {req[r].token} /\ UNCHANGED lost
     \/ lost' = lost \cup loss /\ UNCHANGED mailed
  /\ UNCHANGED <<features, rows, expired, effects>>

--------------------------------------------------------------------------------
(* register *)

TakenByNow(r) == req[r].email \in users

RegisterLookup(r, e, p) ==
  /\ req[r] = Idle /\ TokenLeft
  /\ "emailPassword" \in features
  /\ e \notin users
  /\ Become(r, Local("regCreate", e, p, NULL, NULL))
  /\ UNCHANGED <<features, rows, expired, mailed, effects, lost>>

\* Variant of RegisterCreate: an upsert, which a taken email does not stop.
RegisterUpsert(r) ==
  /\ At(r, "regCreate")
  /\ users' = users \cup {req[r].email}
  /\ passwordHash' = [passwordHash EXCEPT ![req[r].email] = req[r].pwd]
  /\ accounts' = accounts \cup {[id |-> CREDENTIALS, owner |-> req[r].email]}
  /\ IF "emailVerification" \in features THEN Goto(r, "regToken") ELSE Return(r)
  /\ UNCHANGED <<features, emailVerified, tokens, usedAt, expired, mailed, effects, lost>>

\* Also hashes the password: nothing else can be observed in between.
RegisterCreate(r) ==
  /\ At(r, "regCreate")
  /\ ~TakenByNow(r)
  /\ users' = users \cup {req[r].email}
  /\ passwordHash' = [passwordHash EXCEPT ![req[r].email] = req[r].pwd]
  /\ accounts' = accounts \cup {[id |-> CREDENTIALS, owner |-> req[r].email]}
  /\ IF "emailVerification" \in features THEN Goto(r, "regToken") ELSE Return(r)
  /\ UNCHANGED <<features, emailVerified, tokens, usedAt, expired, mailed, effects, lost>>

RegisterToken(r) ==
  At(r, "regToken") /\ CreateToken(r, EMAIL_VERIFICATION, "regEmit")

RegisterEmit(r) == At(r, "regEmit") /\ EmitToken(r, {req[r].email})

--------------------------------------------------------------------------------
(* forgotPassword *)

ForgotLookup(r, e) ==
  /\ req[r] = Idle /\ TokenLeft
  /\ "passwordReset" \in features
  /\ e \in users
  /\ Become(r, Local("forgotToken", e, NULL, NULL, NULL))
  /\ UNCHANGED <<features, rows, expired, mailed, effects, lost>>

ForgotToken(r) == At(r, "forgotToken") /\ CreateToken(r, PASSWORD_RESET, "forgotEmit")

ForgotEmit(r) == At(r, "forgotEmit") /\ EmitToken(r, {})

--------------------------------------------------------------------------------
(* verifyEmail and resetPassword: validateAndConsumeToken reads the row, and a *)
(* later transaction writes the user and usedAt together.                      *)

\* Variants of Acceptable: the type, or usedAt, is not looked at.
AcceptableAnyType(t, type) == t \in mailed /\ t \notin usedAt \cup expired
AcceptableAgain(t, type) == t \in mailed \ expired /\ tokens[t].type = type

Acceptable(t, type) ==
  /\ t \in mailed
  /\ t \notin usedAt
  /\ t \notin expired
  /\ tokens[t].type = type

validateAndConsumeToken(r, t, type, p, next) ==
  /\ req[r] = Idle
  /\ Acceptable(t, type)
  /\ Become(r, Local(next, tokens[t].owner, p, t, NULL))
  /\ UNCHANGED <<features, rows, expired, mailed, effects, lost>>

MarkUsed(r) ==
  /\ usedAt' = usedAt \cup {req[r].token}
  /\ effects' = [effects EXCEPT ![req[r].token] = @ + 1]
  /\ Return(r)

VerifyEmail(r, t) ==
  /\ "emailVerification" \in features
  /\ validateAndConsumeToken(r, t, EMAIL_VERIFICATION, NULL, "verifyApply")

VerifyEmailApply(r) ==
  /\ At(r, "verifyApply")
  /\ emailVerified' = emailVerified \cup {req[r].email}
  /\ MarkUsed(r)
  /\ UNCHANGED <<features, users, passwordHash, accounts, tokens, expired, mailed, lost>>

ResetPassword(r, t, p) ==
  /\ "passwordReset" \in features
  /\ validateAndConsumeToken(r, t, PASSWORD_RESET, p, "resetApply")

ResetPasswordApply(r) ==
  /\ At(r, "resetApply")
  /\ passwordHash' = [passwordHash EXCEPT ![req[r].email] = req[r].pwd]
  /\ MarkUsed(r)
  /\ UNCHANGED <<features, users, emailVerified, accounts, tokens, expired, mailed, lost>>

--------------------------------------------------------------------------------
(* findOrCreateSocialUser *)

Linked(id) == \E a \in accounts : a.id = id

\* account.findUnique on the provider pair finds no row.
SocialLookup(r, id, e) ==
  /\ req[r] = Idle
  /\ ~Linked(id)
  /\ Become(r, Local("socialByEmail", e, NULL, NULL, id))
  /\ UNCHANGED <<features, rows, expired, mailed, effects, lost>>

\* user.findUnique on the profile's email decides which branch is taken.
SocialByEmail(r) ==
  /\ At(r, "socialByEmail")
  /\ \/ ~TakenByNow(r) /\ Goto(r, "socialCreate")
     \/ TakenByNow(r) /\ "accountLinking" \in features /\ Goto(r, "socialLink")
     \/ TakenByNow(r) /\ "accountLinking" \notin features /\ Return(r)
  /\ UNCHANGED <<features, rows, expired, mailed, effects, lost>>

SocialCreate(r) ==
  /\ At(r, "socialCreate")
  /\ ~TakenByNow(r) /\ ~Linked(req[r].id)
  /\ users' = users \cup {req[r].email}
  /\ emailVerified' = emailVerified \cup {req[r].email}
  /\ accounts' = accounts \cup {[id |-> req[r].id, owner |-> req[r].email]}
  /\ Return(r)
  /\ UNCHANGED <<features, passwordHash, tokens, usedAt, expired, mailed, effects, lost>>

\* Variants of SocialLink: no unique index on the pair; the user is not updated.
SocialLinkTwice(r) ==
  /\ At(r, "socialLink")
  /\ accounts' = accounts \cup {[id |-> req[r].id, owner |-> req[r].email]}
  /\ Goto(r, "socialVerify")
  /\ UNCHANGED <<features, users, passwordHash, emailVerified, tokens, usedAt,
                 expired, mailed, effects, lost>>
SocialLinkOnly(r) ==
  /\ At(r, "socialLink")
  /\ ~Linked(req[r].id)
  /\ accounts' = accounts \cup {[id |-> req[r].id, owner |-> req[r].email]}
  /\ Return(r)
  /\ UNCHANGED <<features, users, passwordHash, emailVerified, tokens, usedAt,
                 expired, mailed, effects, lost>>

SocialLink(r) ==
  /\ At(r, "socialLink")
  /\ ~Linked(req[r].id)
  /\ accounts' = accounts \cup {[id |-> req[r].id, owner |-> req[r].email]}
  /\ Goto(r, "socialVerify")
  /\ UNCHANGED <<features, users, passwordHash, emailVerified, tokens, usedAt,
                 expired, mailed, effects, lost>>

SocialVerify(r) ==
  /\ At(r, "socialVerify")
  /\ emailVerified' = emailVerified \cup {req[r].email}
  /\ Return(r)
  /\ UNCHANGED <<features, users, passwordHash, accounts, tokens, usedAt,
                 expired, mailed, effects, lost>>

--------------------------------------------------------------------------------
(* Failures and time. *)

\* A unique index (User.email, Account's provider pair) rejects the create.
UniqueViolation(r) ==
  /\ \/ At(r, "regCreate") /\ TakenByNow(r)
     \/ At(r, "socialCreate") /\ (TakenByNow(r) \/ Linked(req[r].id))
     \/ At(r, "socialLink") /\ Linked(req[r].id)
  /\ Return(r)
  /\ UNCHANGED <<features, rows, expired, mailed, effects, lost>>

\* The instance dies, or the awaited call rejects for any other reason.
Abort(r) ==
  /\ ~At(r, "idle")
  /\ Return(r)
  /\ lost' = IF req[r].pc \in {"regToken", "regEmit", "socialVerify"}
               THEN lost \cup {req[r].email} ELSE lost
  /\ UNCHANGED <<features, rows, expired, mailed, effects>>

Expire(t) ==
  /\ t \notin FreeTokens \cup expired
  /\ expired' = expired \cup {t}
  /\ UNCHANGED <<features, rows, mailed, effects, lost, req>>

--------------------------------------------------------------------------------
Start(r) ==
  \/ \E e \in Email, p \in Password : RegisterLookup(r, e, p)
  \/ \E e \in Email : ForgotLookup(r, e)
  \/ \E t \in Token : VerifyEmail(r, t)
  \/ \E t \in Token, p \in Password : ResetPassword(r, t, p)
  \/ \E id \in SocialId, e \in Email : SocialLookup(r, id, e)

Continue(r) ==
  \/ RegisterCreate(r) \/ RegisterToken(r) \/ RegisterEmit(r)
  \/ ForgotToken(r) \/ ForgotEmit(r)
  \/ VerifyEmailApply(r) \/ ResetPasswordApply(r)
  \/ SocialByEmail(r) \/ SocialCreate(r) \/ SocialLink(r) \/ SocialVerify(r)
  \/ UniqueViolation(r)

Next ==
  \/ \E r \in Req : Start(r) \/ Continue(r) \/ Abort(r)
  \/ \E t \in Token : Expire(t)

Spec == Init /\ [][Next]_vars

--------------------------------------------------------------------------------
(* Properties. *)

Pc == {"idle", "regCreate", "regToken", "regEmit", "forgotToken", "forgotEmit",
       "verifyApply", "resetApply",
       "socialByEmail", "socialCreate", "socialLink", "socialVerify"}

\* Every table and every request keeps its shape; an idle request holds nothing.
TypeOK ==
  /\ features \in SUBSET Feature
  /\ users \in SUBSET Email /\ emailVerified \in SUBSET Email /\ lost \in SUBSET Email
  /\ passwordHash \in [Email -> Password \cup {NULL}]
  /\ accounts \in SUBSET Account
  /\ tokens \in [Token -> [type : TokenType, owner : Email] \cup {NoToken}]
  /\ usedAt \in SUBSET Token /\ expired \in SUBSET Token /\ mailed \in SUBSET Token
  /\ effects \in [Token -> Nat]
  /\ req \in [Req -> [pc : Pc, email : Email \cup {NULL}, pwd : Password \cup {NULL},
                      token : Token \cup {NULL}, id : SocialId \cup {NULL}]]

HasEvidence(e) ==
  \/ \E t \in usedAt : tokens[t] = [type |-> EMAIL_VERIFICATION, owner |-> e]
  \/ \E a \in accounts : a.owner = e /\ a.id \in SocialId

\* An email counts as verified only on evidence: its owner consumed a verification
\* token made for that very user, or a social account with that email was attached.
\* A reset token, or a token of another user, never verifies an email.
VerifiedHasEvidence == \A e \in emailVerified : HasEvidence(e)

\* However the sign-ins race, a provider identity belongs to one user, and every
\* Account row belongs to a user that exists.
SocialIdentityUnique ==
  /\ \A a, b \in accounts : a.id = b.id /\ a.id \in SocialId => a = b
  /\ \A a \in accounts : a.owner \in users

Holders(t) == {r \in Req : req[r].token = t /\ req[r].pc \in {"verifyApply", "resetApply"}}

\* Checking and consuming a token are two steps, so racing requests may each apply it;
\* but only requests that read it before its first use can, so the applications made
\* and still to come never exceed the number of requests that can run at once.
EffectsBounded ==
  \A t \in Token : t \in usedAt => effects[t] + Cardinality(Holders(t)) <= Cardinality(Req)

\* Nobody is left half-way in silence.  A user who registered under emailVerification is
\* verified, has a verification mail out, or is still being registered; a user with a
\* social account is verified or about to be: unless a request died on the way.
NoSilentStrand ==
  /\ \A e \in users \ lost :
       "emailVerification" \in features =>
         \/ e \in emailVerified
         \/ \E t \in mailed : tokens[t] = [type |-> EMAIL_VERIFICATION, owner |-> e]
         \/ \E r \in Req : req[r].email = e /\ req[r].pc \in {"regToken", "regEmit"}
  /\ \A a \in accounts :
       a.id \in SocialId /\ a.owner \notin lost =>
         \/ a.owner \in emailVerified
         \/ \E r \in Req : req[r].email = a.owner /\ req[r].pc = "socialVerify"

\* The password of an existing user changes only when a reset token of that same user
\* is applied: a registration or a sign-in that lost a race never overwrites it.
PasswordChangesByResetOnly ==
  [][\A e \in users :
       passwordHash'[e] # passwordHash[e] =>
         \E t \in usedAt' : /\ tokens[t] = [type |-> PASSWORD_RESET, owner |-> e]
                            /\ effects'[t] = effects[t] + 1]_vars

\* Once a token is used and every request that read it earlier has finished, it stays
\* without effect: whatever is sent later, no request accepts it again.
DrainedTokenIsDead ==
  [][\A t \in usedAt :
       Holders(t) = {} => Holders(t)' = {} /\ effects'[t] = effects[t]]_vars

\* What 'Token has already been used' says: a token takes effect once.
TokenTakesEffectOnce == \A t \in Token : effects[t] <= 1
================================================================================
