# A TLA+ development of nestjs-plugins

The repository is a set of NestJS packages that keep their state in a database reached
through Prisma (and, for notifications, in BullMQ queues in Redis). None of the packages
takes a lock. What keeps their data right is the order of their database calls, a few
unique indexes, and a few `$transaction`s. This directory states what follows from that,
checks it with TLC and proves part of it with TLAPS.

## How the code runs, and how it is modelled

A request is one call of a service method. It runs on Node's event loop and other work
runs only while it awaits, so the code between two awaits is one step, and an awaited
database call is the point where other requests come in between. Several instances of an
application share one database, which adds no finer steps: a database call takes effect at
once. A `$transaction([...])` is one step.

In every module:

- there is one action per awaited call, which also does the synchronous work up to the next
  one: its guard comes from the code's early returns and what the request has read;
- `req` (or `send`, `jobs`) holds the local variables of the running requests: what they
  read, which may be stale by the time they use it;
- `Abort` ends a request at any await: its instance died, or the call rejected for a reason
  that is not in the model. The rows it wrote stay. A rejected call is taken to have had no
  effect;
- a unique index is a guard of the write and an action of its own when it refuses
  (`UniqueViolation`, `Conflict`);
- requests arrive at any time and nobody has to send one, so the requests have no fairness,
  and only a system that has nothing left to do stops;
- random values (tokens, codes, secrets, ids) are members of a set that have not been used
  before. That set, the number of request slots and what the bounds named in a module count
  (`MaxChanges`, `MaxEdits`, `MaxJobs`, `MaxStops`) are what limits a behaviour.

## Inventory

| Component | State | Operations | Hard part |
|---|---|---|---|
| AuthService | `User`, `Account`, `VerificationToken` rows | register, verifyEmail, forgotPassword, resetPassword, findOrCreateSocialUser | a token is checked and consumed in two steps; registration and linking are several writes without a transaction |
| Organizations | `Organization`, `OrganizationMember` rows | create, update, addMember, removeMember, updateMemberRole behind `OrgMemberGuard` | the guard's read, the count of owners and the write are three steps |
| OtpService | `OtpSecret`, `OtpBackupCode`, `OtpCode` rows | setupTotp, confirmTotpSetup, sendOtp, verifyOtp, disableMethod, regenerateBackupCodes | codes are matched and marked used in two steps; setup and confirmation write a row they read earlier |
| OTP rate limit | `OtpAttempt` rows, the clock | checkRateLimit, recordAttempt | counted before, recorded after; two time intervals |
| Login, two-factor login | `User`, `Session` rows, signed tokens | login, verifyTwoFactor, the guards, getProfile, createSession, getUserSessions, revokeSession | the enabled methods are read by several queries at once; tokens are snapshots; find and delete of a session are two steps |
| NotificationService, processors | `Notification` rows, BullMQ jobs | send and its four routes, processWithStatusTracking | retries, worker crashes, several jobs that report into one row |
| In-app notifications | `Notification` rows | create, markAsRead, markAllAsRead | delivery and reading race |
| Device tokens | `DeviceToken` rows | register, unregister, unregisterAll | the fan-out reads them once, between two awaits of `send` |
| Preferences | `NotificationPreference` rows | upsertPreference, isEnabled | read once by `send`, stale afterwards |
| Notification module, WorkerCleanupService | options, workers, queues | forRoot, forRootAsync, onModuleDestroy | the two registrations provide different things; a shutdown under load |
| Templates | an in-memory FIFO cache, the template files | render | two or more awaits between lookup and insertion; files that change |
| Auth listener | none | an event becomes a notification | AuthService awaits it; an error on the way, a preference that forbids it |
| Audit log | `AuditLog` rows | log, the Prisma middleware, the wrapped delegates, the interceptor, cleanup | entries of operations that roll back, operations without entries |
| Storage | objects, `StoredFile` rows | upload, delete with four providers | two stores, no transaction |
| Soft delete | `deletedAt` | the Prisma middleware | which operations see a deleted row; its place in the chain |
| Pagination | none | paginate | page and total are two queries |
| OTP controller, guards and providers, AuthModule, Prisma module, response, logger, demo | none of their own | | |

The components meet in four places. AuthService calls OtpService (`getEnabledMethods`,
`verifyOtp`) when two-factor login is on: `TwoFactorLogin`. AuthService emits events, awaits their
handlers and drops their errors; `AuthNotificationListener` renders a template and calls `send`:
`AuthNotifications`, which extends `TemplateService`. `send` and the workers share the notification's
row, and the module decides which of them exist: `NotificationDelivery`, which extends
`NotificationModule`. All of them call Prisma, where the soft-delete and audit middlewares sit in an
order the host chooses; `PrismaClient` has that chain with the interceptor and `paginate`, and
`StorageService` extends it with the queries that track a file.

What makes each component right, and what is stated of it here, is in the sections below;
`PROJECT.json` lists the hazards by line with the properties that cover them.

## The modules

### AuthService

`AuthService.tla` has registration, verification, password reset and social sign-in. `users`
is the set of emails with a row, `passwordHash`, `emailVerified` are its columns, `accounts`
and `tokens` are the other tables. Each method is the chain of actions that carries its
name: `RegisterLookup`, `RegisterCreate`, `RegisterToken`, `RegisterEmit`, and so on. `Acceptable` is
the check of `validateAndConsumeToken`; `VerifyEmailApply` and `ResetPasswordApply` are the
transactions that update the user and mark the token used. `mailed` says that an event has
taken a token to its owner: no one else can present it. `effects` and `lost` are history
variables and no guard reads them. Left out: columns that no guard reads, the sign-in that
finds its account (it writes only `lastLoginAt` and OAuth tokens); login and sessions are in
`TwoFactorLogin`.

- `VerifiedHasEvidence`: a verified email has a consumed verification token of that user, or
  a social account.
- `SocialIdentityUnique`: a provider identity has one user, whatever sign-ins race.
- `PasswordChangesByResetOnly`: only an applied reset token of the same user changes an
  existing user's password.
- `EffectsBounded`, `DrainedTokenIsDead`: what is true instead of single use. A token takes
  effect at most once per request that can run at once, and never after those that had read
  it have finished.
- `NoSilentStrand`: a user is verified, has a mail out, or is being worked on, unless a request
  died or an emit failed on the way.
- `TokenTakesEffectOnce` fails (run `auth_single_use`): two resets with one token both succeed.

Run `auth`: two emails, two tokens, two passwords, one social identity, three requests, two
feature sets. Three requests let one interfere between the steps of another while a third
holds the same token; two tokens give one of each type or two of one user; all the races
found involve two requests over one row.

### OtpService

`OtpService.tla` has one user's second factor: users share no rows. A setup generation (`Gen`)
stands for a generated secret together with its backup codes. `setupTotp` is `SetupRead` and
`SetupCreate` or `SetupReplace`, depending on the row it read; `confirmTotpSetup` is `ConfirmRead` and
`ConfirmWrite`; a verification finds a code (`VerifyCode`, `VerifyBackup`), marks it used (`UseCode`) and
then does what it authorises (`DisableTotp`, `DisableChannel`, `RegenerateBackupCodes`).
`Candidates` keeps the rule that only the newest codes are compared, with `Take` for five.

- `SetupCodesMatchSecret`: backup codes handed out by a setup live as long as its secret.
- `UsesBounded`, `DrainedCodeIsDead`: as for tokens.
- `ActiveSecretWasConfirmed` fails (run `otp_enrolment`): a setup that lands between the read and
  the write of a confirmation leaves an active secret that nobody has verified.

Run `otp`: two generations, one backup code each, two sent codes, `Take` 1, two requests, all
methods enabled. Two codes with `Take` 1 make the older one unreachable.

### OtpRateLimit

`OtpRateLimit.tla` keeps the failed `OtpAttempt` rows as label, age in seconds and number within that
label and second, up to the longer of the two intervals; `Tick` makes them older. `CountBelow` and `CountReached` are the first query of
`checkRateLimit`; `Refuse` and `LockoutOver` the second; `RecordFailure` is `recordAttempt`
after the verification. A verification without a method counts all labels and is recorded
as "unknown", as in the code.

- `WindowBound`: the limit is passed by at most the number of verifications that overlap, in every stretch
  of a window's length, or a lockout's if that is shorter (after a lockout `checkRateLimit` lets
  verifications go ahead even while the window is still full).
- `LockoutEnds`: a locked method is open again later, whatever is tried meanwhile. `FairSpec`
  assumes that time passes and that an awaited call settles; nobody is obliged to try.
- `LockoutLasts` fails (run `otp_lockout`): `lockoutSeconds` is not the duration of a lockout.

Run `otp_rate_limit`: two attempts, a window of two and a lockout of four ticks, two
requests. The proportions are those of the defaults (five, 300 s, 900 s): the lockout is longer
than the window. The module assumes nothing about which is longer, and the proofs do without it.

### Organization

`Organization.tla` puts each endpoint behind the guard's own read (`OrgMemberGuard` in
`UpdateGuard`, `AddGuard`, `RemoveGuard`), and has `updateMemberRole`, which has no endpoint and no
guard, for the application to call with one of `NewRoles`. `raced` is a history variable: removals
whose organization has lost an owner to another request since they passed the guard.

- `NoDuplicates`: slugs and memberships are unique although they are looked up before they are
  written.
- `UndisturbedRemovalIsRight`: a removal during which nobody else took an owner from the organization
  was asked for by an owner, and leaves one, whoever joined, was promoted or left meanwhile. It says
  nothing of a removal that another removal or a demotion overtakes: those are the finding.
- `RemovalLeavesOwner` fails (run `org_last_owner`): two removals that overlap, one of each of the
  two owners, both count two owners before either deletes. In TLC's trace one owner asks for both,
  of the other and of itself; each of them asking for the other's goes the same way. The run leaves
  `updateMemberRole` out (`NewRoles` is empty), which could take the last owner away without any removal.

Run `organization`: two organizations, slugs, users and requests, three membership rows, every role
(about 125,000 states). The third row allows a member who was removed to come back under another id.

### NotificationModule, NotificationDelivery

`NotificationModule.tla` says what `forRoot` and `forRootAsync` provide for a set of options: queues,
workers, services, controllers and guards. `NotificationDelivery.tla` goes from `send` to the report.
`notes` are the rows, `send` the calls under way, `jobs` the BullMQ jobs, one per recipient, `devices` the
user's tokens, `host` the process. `Route` is the synchronous decision between the
row's creation and the next await; `FindDevices` reads the devices and `Add` queues a job for each.
The steps of a worker are those of
`processWithStatusTracking`: `Take`, `ProviderAccepts` or `ProviderRejects`, `MarkSent` or `MarkSentFails`
(inside the same `try`), `MarkFailed` or `MarkFailedFails`. `Complete`, `RetryOrFail` and `Stall` are
BullMQ's: external, modelled from the job options and from `attemptsMade` as the processor
uses it. `Stop`, `WorkersClose` or `WorkerCloseFails`, and `QueuesClose` are
`WorkerCleanupService.onModuleDestroy`, which only `forRootAsync` provides (after `forRoot` the shutdown is
that of `@nestjs/bullmq`); requests go on while it waits. A preference lets `send` go on or not: that
is a choice here, and a table in `AuthNotifications`.

- `StatusHasCause`: "sent" means that a provider accepted the message, "failed" that some job
  reached its last attempt. It says "some job" because all jobs of a fan-out write one row: a device
  that fails later overwrites another's success.
- `RepeatHasCause`: a message goes to a provider again after it was accepted only because a report
  was lost.
- `SingleReportIsFinal`: with one recipient and no crash, the report does not change any more.
- `ReadingIsKept`: `readAt` survives the late delivery.
- `QueuedIsReported`: what is queued is reported, unless the last report itself is lost. `FairSpec`
  assumes that workers run and that provider and database answer, one way or another; that what an
  ended process left is cleared (BullMQ's stalled check); and that a stop takes its course and
  whoever stopped the process starts it again. A provider call that never settles is not covered: the code sets no timeout.

Run `notification`: one notification, two devices and an explicit recipient, the real three
attempts and one stall, one stop, both registrations with everything on and with features switched off and no
Redis (about 370,000 states). Notifications share no row; two devices are enough for reports that race.

### SecondFactor, TwoFactorLogin

`SecondFactor.tla` is the promise of two-factor login without requests, queries or tokens: an
attempt is granted when it has proved the password and, unless no method stayed enabled all through it, a code; a
challenge stands for a password proved earlier. `TwoFactorLogin.tla` is `login` and
`verifyTwoFactor` query by query. `getEnabledMethods` sends a query for each method at once, so
`ReadMethod` answers them in any order, with changes in between. A token is its claims and the
key that signed it, and `JwtAuthGuard`, `RolesGuard`, `PermissionsGuard` decide on the claims alone
(`Admitted`); behind them are `getProfile`, `getUserSessions`, `revokeSession` (`RevokeFind`, `RevokeDelete`)
and a route of the host. `UpdateUser`, `DeleteUser`, `ChangeFactor`, `createSession` and
`ExpireSession` are what others do meanwhile. `held` and `seen` are history: the methods enabled all
through a request, and the rows its user had.

- `ImplementsSecondFactor`: the refinement. The method queries are no snapshot, but no login passes on
  the password alone while one method stays enabled throughout, and no code is taken before a password.
- `ClaimsFromOneRow`: a token's role and `isActive` were in one row of that user at one moment of the request.
- `AdmittedByGrant`: past the guards of a protected route there is a token that was signed here,
  whose role the route names and whose grants cover what the route asks for. `JwtStrategy` does not look at
  `twoFactorRequired`, and a challenge is signed with `jwt.secret` unless the host sets
  `twoFactorJwt.challengeTokenSecret` (`ChallengeKey`): then a challenge, which a password alone obtains,
  opens the routes that ask for neither role nor permission (`/auth/me`, the sessions). With a
  secret of its own it opens none, and with either it never passes a role or a permission.
  `SecondFactor` promises what `login` and `verifyTwoFactor` grant, and does not see this use of a challenge.
- `RevokedOnce`: of the requests that revoke a session one is told that it did, and it is the owner's.

Run `login`: two users, two requests, one session, two roles and passwords, TOTP and email codes, two changes by
others (to users, factors and sessions together), symmetric in users, requests and passwords (about 248,000
states). Two changes are what moving from one method to another takes. The run has the default set-up, without
a `challengeTokenSecret`, in which a challenge is admitted; the theorem is about every setting. Left out:
token expiry, `lastLoginAt`, the `emailVerified` claim, which nothing reads.

### TemplateService, AuthNotifications

`TemplateService.tla` is `render`: a look at the cache, `fs.access` and `fs.readFile` for each place in turn
(`Access`, `ReadFile`), then the eviction, the insertion and the compilation in one step. `Edit` changes a file
of the project at any time. `AuthNotifications.tla` puts the listener on top: `BeginRender`, the outcome of the
render, then `send`'s preference check and its row (`SendChecks`, `SendCreates`), each with its failure, and
`routeEmail`: a channel that is off is passed over, without a queue the row is marked failed
(`MarkAsFailed`), and otherwise the job is queued or Redis refuses it (`SendQueues`). `Hosts` are the
set-ups: the files at the start and which of the three the email channel is. An event always has its
user's address. `SetPreference` is `upsertPreference`. `shown`, `seen` and `silent` are history.

- `CacheBounded`: the cache stays within `maxCacheSize` although renders look and insert in different steps.
- `ResolutionOrder`: a loaded template was in its place during the load, and each earlier place was empty at
  some moment of it.
- `MailFromOwnTemplate`: a mail comes from a file of its own key, however renders share the cache.
- `ResolvedMeansMailed`: a handler that resolves, which the listener logs as a mail sent, has left its row and,
  where the email channel is on and has a queue, the job that sends it, or the user had muted that type
  (the password reset can be muted too). Where the channel is off or has no queue the handler
  resolves as well, with a row and no job: the property says so, and that no other host is told this.
- `EveryEventSettles`: the handler that `register` and `forgotPassword` wait for comes to an end. `Spec` is fair to the
  handlers' steps and the file system's answers: the event loop runs what is due. That the database,
  Redis and the file system answer every call, one way or another, is assumed: the code sets no timeout.

Run `auth_mail`: a registration and a reset of one user, one render of the host, a cache of one entry, one change
to a file or a preference, four hosts (about 403,000 states). A cache of one makes every
second insertion evict; one change is what puts a stale template into it.

### LiveStore, PrismaClient, StorageService

`LiveStore.tla` is a table whose removed rows stay hidden until they are restored. `PrismaClient.tla` has the chain
of the client: `SoftDelete` rewrites a query, `Sent` is what reaches the database, `Seen` what the audit
middleware takes from it, `Entry` the row it makes. `Exec` runs a query, `LogEntry` writes its entry in a call of its own, on
another client than an interactive transaction (`Commit`, `Rollback`); `Land` is the entry the interceptor
does not wait for. `Recorded` and `Contexts` say which writes are seen and whose name is known. `Page` and
`PageQuery` are `paginate`. `StorageService.tla` adds the providers' steps (`Put`, `Fill`, `MakePublic`, `Erase`)
and the tracking row, whose errors are dropped (`Track`). `writes`, `undone`, `lost`, `cause` and
`crowd` are history.

- `ImplementsLiveStore`: the refinement: a row removed in whichever way is hidden from every `findMany`,
  `findUnique` and `count` that follows, and nothing else is.
- `AuditTruthful`: an entry is of a write that happened, with its user or none, or of one in an interactive
  transaction that was rolled back or is still to be committed; of those it says nothing more.
- `AuditComplete`: a committed write of one row has its entry, unless that entry was lost. Left out by the code:
  updates without `trackChanges`, removals that an outer soft delete has made updates, excluded
  models, writes of many rows and, under the wrapped delegates, transactions and promises taken with
  `.catch` or `.finally` alone, since only `.then` is overridden (`Way` lists how a handler makes a write).
- `PageIsSlice`: a page is that slice of the total, when no write fell between its two queries: of a page that
  a write did fall into, whose rows and total may not add up, the code promises nothing.
- `RowDescribesFile`: a file and its row agree, unless two requests met on the key, one was cut off between
  the two stores, or a failed query was dropped (as it is when a key is uploaded again): these three
  are causes that the property excuses, and it says that there is no fourth.

Run `data_access`: two requests and users, two items, one key, a page of one, up to two jobs on items and
three on files, seven set-ups: each chain with items and with files, and the wrapped delegates once more with a
write taken by `.catch` (about 502,000 states). Items and files
meet only in the chain, so each set-up serves one of them. Three jobs are an upload, a removal and
another upload of the same key.

## Runs

| Run | Shows |
|---|---|
| `auth` | the account properties above hold |
| `auth_single_use` | finding: a token can take effect twice |
| `otp` | the second-factor properties hold |
| `otp_enrolment` | finding: an unverified secret can become active |
| `otp_rate_limit` | the bound on attempts and the end of a lockout |
| `otp_lockout` | finding: a lockout ends early |
| `organization` | the membership properties hold |
| `org_last_owner` | finding: an organization can lose its last owner |
| `notification` | the delivery properties hold |
| `login` | two-factor login implements its promise; what tokens, challenges and sessions open |
| `auth_mail` | template cache and listener, and that every event settles |
| `data_access` | soft delete implements a store of live rows; audit log, pages, files and their rows |

Deadlock is not checked where the system may rest (no request in flight, a notification
reported, every event settled). `OtpRateLimit` has a clock and never rests, so there it is.

Definitions headed "Variant of" are mistakes one could make in the code, used to see that
the properties notice them; no specification uses them.

## Proofs

Eight modules prove their theorems for every value of the
constants that satisfies the named assumptions: request slots are finite, `NULL` is no row,
"credentials" is no provider, the cache holds at least one template, a job has at least one attempt,
a guarded route does one of the four things `Call` knows and names roles that exist, a host's email
channel is off, without a queue or with one, a set-up of the Prisma plugins is one that the
options allow (`AppOK`).

**AuthService.** `TypeOK` is not inductive: whether a write keeps the tables' shape depends on what the
request holds. `IInv` adds `LocalsOK` (what a request at each await may rely on: at
`resetApply` its token is a reset token of its user, at `socialVerify` the account it linked
is there) and `TokensOK` (mailed and used tokens were created for users that exist). `FrameRule`
says that a step of one request keeps what the others rely on, because rows are only added;
then each action needs to look only at its own request. From `IInv` follow `TypeCorrect`,
`VerifiedIsEvidenced`, `PasswordsChangeByReset`, `DrainedTokensAreDead`; `SocialIdentityIsUnique` is
inductive over it. `EffectsAreBounded` counts: a use moves a request from the holders to
the effects, and a used token gains no holder. `OneAtATimeIsSingleUse` proves that with one
request at a time the property that `auth_single_use` refutes does hold: the finding is
exactly the race. `NobodyIsStrandedSilently` follows a newcomer: who is verified, mailed or lost stays so
(`ServedStays`), a registration past its insert goes on or ends in a mail or a loss (`RegistrationEnds`), a
linking in a verified email or a loss (`LinkingEnds`).

**OtpService.** `IInv` says which generation and code a waiting request holds. `SetupCodesFollowSecret` is
inductive over it because setups, confirmations and disables replace the secret and the codes in one transaction.
`DrainedCodesAreDead` and `UsesAreBounded` go as above. `OneAtATimeIsConfirmed` needs in
addition that a confirmation's read is current, which one request at a time gives; `OneAtATimeKeepsActive`
that the row a setup has read is still inactive when it writes. With several requests both fail: the
first is the finding of `otp_enrolment`, the second a setup that replaces a secret just confirmed.

**OtpRateLimit.** `IInv` is the tables' shape, `Numbered` (the rows of a label and second are numbered from one
without a gap), a bound on those numbers, and `WindowBound` itself. Because of `Numbered` the row that a
failure leaves is not there yet (`NewRowIsNew`), so every failure counts. `WindowBound` speaks of the rows in the
shorter of the two intervals (`Guarded`), and the argument is one of who may begin: `CountBelow` needs fewer
than `maxAttempts` of them, and `LockoutOver` finds none (`OneBegins`, `NobodyBegins`), so at the start of a
verification the rows and the verifications under way cannot pass `Most`; a failure then moves a verification
among the rows, and a `Tick` takes the rows of now from rows that were guarded before. From it follow
`AttemptsAreBounded`, `TypeCorrect` and, with one verification at a time and the lockout the longer, the limit
as it is configured (`OneAtATimeIsLimited`). What the refuted `LockoutLasts` leaves true is `LockoutHolds`: as long as
a method is `Locked`, nobody who names it, or names none, goes ahead. `LockoutRunsOut` is the safety half of
`LockoutEnds`: during a lockout the verifications under way for its label only get fewer, and once they are
gone each second without a failure adds to the quiet, until `lockoutSeconds` of it end the lockout.

**Organization.** `IInv` is the tables' shape, `NoDuplicates`, that an id is given to one row ever (`RowsOK`), and
what a request may rely on: the organization it found (`OrgIs`), the row it holds (`RowIs`), and, for a removal that
nobody has raced for an owner (`UndisturbedIs`), that its caller is an owner still and, when it counted two owners, that
one of them is not the row it deletes. `TwoOwners` turns a count above one into that second owner;
`NewRow` and `ChangeRule` say what an insert and an update leave of the uniqueness. So
`UndisturbedRemovalsAreRight` shows that the property which `org_last_owner` refutes needs another request that takes
an owner away, and
`OneAtATimeLeavesOwner` that with one request at a time it holds of every removal.

**AuthNotifications.** `IInv` has five parts: the files' history, the cache (bounded, one entry to a key,
every source one that a place of its key has held), what each render relies on at its await, the handlers
(each has a render of its own key from its start to its row) and the mails. The lemmas on `Evict` and `Set` say that
evicting makes room before anything is inserted, which is why any number of late insertions keeps the
bound. `TypeCorrect`, `CacheIsBounded`, `MailsAreOwn` and `ResolvedIsMailed` follow from `IInv`, which says that a
handler waits for the queue only where there is one, and what it has settled when it resolves (`Settled`).
`TemplatesResolveInOrder` adds `SearchOK`: the history a search carries has what its places hold now, and each place
it has passed was empty once; an `Edit` tells every search that has the place, and only `ReadFile` ends one in a text.
`HandlersRunOut` is the safety half of `EveryEventSettles`: `StepsLeft` bounds what the handling of an event still has to do
by thirteen steps (two for each of three places, and those of the listener and `send`); each step of the handler
or of its search lowers it (`HandlingShortens`, `SearchShortens`), and an edit of the files, a preference or another
render leaves it alone (`EditLeaves`).

**NotificationDelivery.** Notifications share only the options, the devices and the process, so `IInv` is
a predicate of one notification's row, send and jobs (`RowOK`, `ReportOK`), and `RowRule` looks at the one
that a step changes. `JobOK` counts: a job's accepted messages are its lost
reports, and one more while a success is in hand; it also bounds them by attempts and stalls, which
`TypeCorrect` and `RepeatsHaveCauses` need. `Goes` is what every step of a job respects (counters
grow; a job that has made its last report makes no other), so `GoesRule` carries over what is said of
the row. From `IInv` follow `StatusesHaveCauses`, and with `NoteStep`, which lists how a step may leave a row,
the action properties `ReadingsAreKept` and `SingleReportsAreFinal`. `JobsRunOut`
and `EndedIsReported` are the safety half of `QueuedIsReported`: `Left` measures what a job may still do, by its
state, attempts and stalls, and every step of the processor and of BullMQ lowers it; a job that has come to its
end has left a report or has lost it. The theorems are about `Spec`, which
`FairSpec` implies.

**TwoFactorLogin.** `IInv` is the tables' shape and, for each request, what it may rely on: `WatchOK` (its user's
row of now is among those it has seen, and what it holds is enabled now), `LoginOK` (between the method
queries, every method held has been found or is yet to be asked about), `CallOK` (the guards admitted the token it
carries; a challenge was signed with `ChallengeKey` and has no role: `SignedRight`), `RevokeOK` (the session it found is its user's, and one that it deleted is gone). A step of a request
disturbs the others only through the tables (`Kept`, `FrameRule`); a change by others touches the requests of one
user (`WatchRule`). From `IInv` follow `TypeCorrect` and `CallsAreAdmittedByGrant`; `SessionsAreRevokedOnce` is inductive
over it, because the delete needs a row that an earlier revocation has removed. `StepTells` leaves three actions
that tell anybody anything, which gives `TokensClaimOneRow`. `LoginImplementsSecondFactor` maps step by step, under the
assumption that the `twoFactor` feature is on (off, the code promises nothing): `LoginStart` is `Begin`,
`LoginFindUser` and a `VerifyCode` that finds the code are `Prove`, `UseCode` stutters or fails, `LoginChallenge` is `Challenge`, `VerifyStart` is `Resume`, the two signings
are `Grant` and errors `Fail`; `ChangeFactor` is `Enable` and the rest stutters. The step that needs `LoginOK` is the
signing without a code: nothing found and nothing left to ask leaves nothing held.

**PrismaClient and StorageService.** `StorageService_proofs` proves both, since `Spec` is of the two together. `Shape`
is the inductive form of the types: the kind of a request's job decides where it can be and what it asks
(`JobOK`), and every row, entry and blob is of a job that began. Five arguments rest on it.
- `ClientImplementsLiveStore`: a step changes the items as one of `LiveStore`'s actions, or not at all. What is not
  narrowed is right only because of `NoneKept`: where soft delete does not cover the items, no row is marked.
  `AnswersAreLive` carries `LiveStore`'s own invariant back over the refinement: what a query has answered is live.
- `PagesAreSlices`: what a page has read while nothing was written is what the items are now (`PagesOK`).
- `AuditTells` and `AuditMissesNothing` share `AuditOK`: an entry has its write, or one that is still to be
  committed (`Backed`); a write that is not left out is logged before its transaction can be committed, and before its
  handler can answer (`JobAudit`).
- `RowsDescribeFiles`: for each key (`KeyOK`), two requests at work on it are a crowd, and a crowd is a cause; a
  request alone on the key finds what it left there; without a cause, file and row agree when
  nobody is between the two stores.

Every invariant and every action property of a passing run is proved. Only model-checked are the three
liveness properties (`LockoutEnds`, `QueuedIsReported`, `EveryEventSettles`): fairness and ENABLED are beyond this
prover. What they rest on besides fairness is proved: the measures `LockoutRunsOut`,
`JobsRunOut` and `HandlersRunOut`, which each step lowers, and `EndedIsReported`. That some fair step is
enabled while a measure is above its end is what TLC's runs add. Of the four properties that runs refute, each
has a theorem for what is left of it: `OneAtATimeIsSingleUse`, `OneAtATimeIsConfirmed`, `OneAtATimeLeavesOwner`, `LockoutHolds`.

## Not modelled

- Cryptography, hashing, JWT encoding and expiry, templates' text, HTTP.
- `AuthModule` and the OTP module's wiring: they choose providers and secrets once, at the start. The OTP
  controller hands its calls on, its guards read a flag or a metadata key, and its providers compute or
  send a code and keep nothing. `GoogleStrategy` and `LocalStrategy` hand one request to AuthService.
- The Prisma module, the response and logger packages, which keep no state, and the demo application.
- Queries that soft delete does not narrow (`findFirstOrThrow`, `findUniqueOrThrow`, `aggregate`, `groupBy`): they
  see removed rows, and no package here sends them.
- Database isolation below a whole statement or `$transaction`. A call of the database that rejects although
  it took effect (storage providers may do that, and in `StorageService` they do).
- Reads that change nothing (lists of notifications, organizations, audit entries), but where a later step uses
  what they found.

## Plan

What could still be proved: that `SecondFactor` and `LiveStore` imply more of what their users rely on (a granted
attempt had proved a code while some method stayed enabled, for example), and the progress conditions of the
measures above (while a measure is not at its end, the guard of some fair step holds), which is the last step
towards liveness that needs no ENABLED. A second user of `OtpService` and a second notification in
`MCNotificationDelivery` would add nothing: their rows are apart.
