------------------------------ MODULE PrismaClient ------------------------------
(* The Prisma client the plugins share, and what they hang on it: the middleware *)
(* that turns deletes into marks (nestjs-prisma), the one that records writes in *)
(* the audit log, or the wrapped delegates that do so when the client has no     *)
(* $use (nestjs-audit-log), the @Audited interceptor, and paginate               *)
(* (nestjs-pagination).                                                          *)
(*                                                                               *)
(* Requests run concurrently; every query is one step of the database, and the   *)
(* awaits between a query and its audit row are where the others come in.  The   *)
(* tables are Item, a host's model with a deletedAt column, StoredFile and       *)
(* AuditLog, which have none.                                                    *)
EXTENDS Integers, FiniteSets

CONSTANTS
    Requests, Users, Ids, Keys, NULL,
    Apps,      \* how the host sets the plugins up: see AppOK
    Limit,     \* rows on a page
    MaxJobs    \* bound: writing jobs on each model

ASSUME PrismaAssumption ==
    /\ Ids \subseteq Nat
    /\ Limit \in Nat \ {0}
    /\ MaxJobs \in [{"Item", "StoredFile"} -> Nat]

VARIABLES
    app,       \* the set-up of this process
    tables,    \* the rows of Item and StoredFile
    log,       \* the rows of AuditLog
    loose,     \* audit rows sent by the interceptor and not awaited
    req,       \* what each request is doing
    answer,    \* history: what the last query for live items found, until a change
    jobs,      \* history: jobs begun
    writes,    \* history: the writes that were committed
    undone,    \* history: the jobs whose transaction was rolled back
    lost       \* history: the jobs whose audit row was lost, by a failure or a cleanup

clientVars == <<app, tables, log, loose, req, answer, jobs, writes, undone, lost>>

Models == {"Item", "StoredFile", "AuditLog"}

(* How a handler makes a write: it awaits it, or takes its promise with .catch or   *)
(* .finally alone, or gives it to $transaction in an array or in a callback.       *)
Way == {"none", "caught", "batch", "interactive"}

(* A set-up: the $use middlewares in the order they were registered, the first    *)
(* outermost, or the wrapped delegates; the models soft delete is told of (all    *)
(* when the option is left out), what the audit log leaves out, what the host     *)
(* serves and the items it starts with, and storage's own.                         *)
AppOK(a) ==
    /\ a.chain \in {<<"soft", "audit">>, <<"audit", "soft">>, <<"wrapped">>}
    /\ a.models \subseteq Models
    /\ a.exclude \subseteq Models
    /\ a.trackChanges \in BOOLEAN
    /\ a.hosts \subseteq {"items", "files"}
    /\ a.early \in BOOLEAN
    /\ a.kept \subseteq Ids /\ a.gone \subseteq Ids \ a.kept
    /\ a.gone # {} => a.chain # <<"wrapped">> /\ "Item" \in a.models
    /\ a.tx \in [{"create", "update", "delete", "deleteMany"} -> Way]
    /\ a.audited \subseteq {"create", "update", "delete", "deleteMany"}

ASSUME AppsAssumption == \A a \in Apps : AppOK(a)

Uses(m) == \E i \in DOMAIN app.chain : app.chain[i] = m
SoftOutside == app.chain = <<"soft", "audit">>

(* ---- soft-delete.middleware.ts ---- *)

(* Variant of SoftDelete: count is forgotten. *)
SoftDeleteWithoutCount(p) ==
    IF p.model \notin app.models THEN p ELSE
    CASE p.action = "delete" -> [p EXCEPT !.action = "update", !.stamp = "set"]
      [] p.action = "deleteMany" -> [p EXCEPT !.action = "updateMany", !.stamp = "set"]
      [] p.action \in {"findMany", "findUnique"} -> [p EXCEPT !.liveOnly = ~p.asked]
      [] OTHER -> p

(* Variant of SoftDelete: only a query without a condition is narrowed. *)
SoftDeleteUnlessWhere(p) ==
    IF p.model \notin app.models THEN p ELSE
    CASE p.action = "delete" -> [p EXCEPT !.action = "update", !.stamp = "set"]
      [] p.action = "deleteMany" -> [p EXCEPT !.action = "updateMany", !.stamp = "set"]
      [] p.action \in {"findMany", "findUnique", "count"} -> [p EXCEPT !.liveOnly = p.where = Ids]
      [] OTHER -> p

(* A delete becomes an update that stamps deletedAt, and a query that does not    *)
(* name deletedAt is narrowed to the rows without it.                             *)
SoftDelete(p) ==
    IF p.model \notin app.models THEN p ELSE
    CASE p.action = "delete" -> [p EXCEPT !.action = "update", !.stamp = "set"]
      [] p.action = "deleteMany" -> [p EXCEPT !.action = "updateMany", !.stamp = "set"]
      [] p.action \in {"findMany", "findUnique", "count"} -> [p EXCEPT !.liveOnly = ~p.asked]
      [] OTHER -> p

(* What the database is asked, and what the audit middleware takes from it, before *)
(* a soft delete further in changes it.                                           *)
Sent(p) == IF Uses("soft") THEN SoftDelete(p) ELSE p

(* Variant of Seen: the action is read after the query, from the changed params. *)
SeenAfterwards(p) == Sent(p)
Seen(p) == IF SoftOutside THEN SoftDelete(p) ELSE p

(* ---- the database ---- *)

Row(n) == [by |-> n, deleted |-> FALSE]
ASSUME RowAssumption == NULL \notin [by : Nat, deleted : BOOLEAN]
Present(t) == {k \in DOMAIN t : t[k] # NULL}
Live(t) == {k \in Present(t) : ~t[k].deleted}
Removed(t) == Present(t) \ Live(t)

(* Variant of Succeeds: every model has the column. *)
SucceedsAnyColumn(p) ==
    /\ p.action = "create" => p.where \cap Present(tables[p.model]) = {}
    /\ p.action \in {"update", "delete"} => p.where \subseteq Present(tables[p.model])

(* A query fails when it names deletedAt on a model that has no such column, when *)
(* a row with its key exists, or when the one row it is for does not.             *)
Succeeds(p) ==
    /\ p.stamp = "set" \/ p.liveOnly => p.model = "Item"
    /\ p.action = "create" => p.where \cap Present(tables[p.model]) = {}
    /\ p.action \in {"update", "delete"} => p.where \subseteq Present(tables[p.model])

Matched(p) ==
    p.where \cap (IF p.liveOnly THEN Live(tables[p.model]) ELSE Present(tables[p.model]))

Changed(p, row) ==
    CASE p.action = "create" -> Row(p.by)
      [] p.action \in {"delete", "deleteMany"} -> NULL
      [] OTHER -> IF p.stamp = "keep" THEN row ELSE [row EXCEPT !.deleted = p.stamp = "set"]

Apply(p) ==
    LET hit == IF p.action = "create" THEN p.where ELSE Matched(p)
    IN  [tables EXCEPT ![p.model] =
            [k \in DOMAIN @ |-> IF k \in hit THEN Changed(p, @[k]) ELSE @[k]]]

(* ---- prisma-audit.middleware.ts, audit-middleware-registrar.ts ---- *)

(* The audit log takes create, update and delete of one row: an update only when *)
(* changes are tracked, under $use; only what is awaited through the wrapped       *)
(* delegate's .then, when the delegates are wrapped: not a promise taken with      *)
(* .catch alone, nor a batch, whose promises are never awaited one by one, nor an  *)
(* interactive transaction, which has delegates of its own.                        *)
Recorded(q) ==
    LET p == Seen(q.p)
    IN  /\ p.action \in {"create", "update", "delete"}
        /\ p.model \notin app.exclude
        /\ IF Uses("wrapped")
             THEN q.tx = "none"
             ELSE p.action = "update" => app.trackChanges

(* Variant of Contexts: the context is one variable of the module. *)
ContextsShared(u) == {u} \cup {req[r].user : r \in {x \in Requests : req[x].pc # "idle"}}

(* AuditContextMiddleware runs before the guards: it knows the user only when the *)
(* host has something earlier than a guard that sets it.                          *)
Contexts(u) == IF app.early THEN {u} ELSE {NULL}

Entry(q) == [n |-> q.n, user |-> q.context, action |-> Seen(q.p).action, from |-> "client"]

(* ---- requests ---- *)

Idle == [pc |-> "idle"]

Params(model, action, where) ==
    [model |-> model, action |-> action, where |-> where, by |-> 0,
     skip |-> 0, stamp |-> "keep", asked |-> FALSE, liveOnly |-> FALSE]

Job(job, p) ==
    [pc |-> "query", job |-> job, n |-> 0, user |-> NULL, context |-> NULL, p |-> p, tx |-> "none",
     audited |-> FALSE, todo |-> {}, rows |-> {}, total |-> {}, quiet |-> TRUE]

Begin(r, q) ==
    /\ req[r].pc = "idle"
    /\ req' = [req EXCEPT ![r] = q]
    /\ UNCHANGED <<app, tables, log, loose, answer, writes, undone, lost>>

(* A job that writes is numbered and made by someone. *)
BeginWrite(r, q) ==
    /\ jobs < MaxJobs[q.p.model]
    /\ jobs' = jobs + 1
    /\ \E u \in Users : \E c \in Contexts(u) :
         Begin(r, [q EXCEPT !.n = jobs + 1, !.user = u, !.context = c])

ItemWrites ==
    {Params("Item", "create", {i}) : i \in Ids}
        \cup {Params("Item", "update", {i}) : i \in Ids}
        \cup {[Params("Item", "update", {i}) EXCEPT !.stamp = "clear"] : i \in Ids}
        \cup {Params("Item", "delete", {i}) : i \in Ids}
        \cup {Params("Item", "deleteMany", Ids)}

(* A handler of the host writes items; how it is written decides in which way, and *)
(* whether the handler is @Audited.                                                *)
Write(r) ==
    \E p \in ItemWrites :
        /\ "items" \in app.hosts
        /\ BeginWrite(r, [Job("write", p) EXCEPT !.tx = app.tx[p.action], !.audited = p.action \in app.audited])

(* A handler reads items, the removed ones too when it names deletedAt. *)
Find ==
    \E asked \in BOOLEAN, S \in {{i} : i \in Ids} \cup {Ids} :
        LET p == Sent([Params("Item", IF S = Ids THEN "findMany" ELSE "findUnique", S) EXCEPT !.asked = asked])
        IN  /\ "items" \in app.hosts
            /\ asked => S = Ids
            /\ Succeeds(p)
            /\ answer' = IF asked THEN answer ELSE Matched(p)
            /\ UNCHANGED <<app, tables, log, loose, req, jobs, writes, undone, lost>>

(* An interactive transaction locks the rows it wrote. *)
Unlocked(r) ==
    \A x \in Requests \ {r} :
        req[x].pc # "idle" /\ req[x].tx = "interactive" /\ req[x].pc \in {"log", "commit"}
            => req[x].p.where \cap req[r].p.where = {}

(* The interrupted pages of the others are no longer pictures of one moment. *)
Disturb(rq, changed) ==
    IF changed
      THEN [x \in Requests |-> IF rq[x].pc = "page" THEN [rq[x] EXCEPT !.quiet = FALSE] ELSE rq[x]]
      ELSE rq

Committed(q) == [n |-> q.n, user |-> q.user, verb |-> q.p.action, model |-> q.p.model, tx |-> q.tx]

PcAfter(q) == IF q.tx = "interactive" THEN "commit" ELSE "done"

(* StorageService catches what its queries throw; a handler lets it through. *)
PcFailed(q) == IF q.p.model = "StoredFile" THEN "done" ELSE "failed"

QueryFails(r) ==
    /\ req[r].pc = "query"
    /\ req' = [req EXCEPT ![r].pc = PcFailed(req[r])]
    /\ UNCHANGED <<app, tables, log, loose, answer, jobs, writes, undone, lost>>

Exec(r) ==
    LET q == req[r]
        p == Sent([q.p EXCEPT !.by = IF q.p.model = "Item" THEN 0 ELSE q.n])
        now == q.tx # "interactive"
    IN  /\ q.pc = "query"
        /\ Unlocked(r)
        /\ IF Succeeds(p)
             THEN /\ tables' = IF now THEN Apply(p) ELSE tables
                  /\ writes' = IF now THEN writes \cup {Committed(q)} ELSE writes
                  /\ answer' = IF now THEN {} ELSE answer
                  /\ req' = Disturb([req EXCEPT ![r].pc = IF Recorded(q) THEN "log" ELSE PcAfter(q)], now)
             ELSE /\ req' = [req EXCEPT ![r].pc = PcFailed(q)]
                  /\ UNCHANGED <<tables, writes, answer>>
        /\ UNCHANGED <<app, log, loose, jobs, undone, lost>>

(* AuditLogService.log: the row is written, or the error is logged and forgotten. *)
LogEntry(r) ==
    LET q == req[r]
    IN  /\ q.pc = "log"
        /\ \/ log' = log \cup {Entry(q)} /\ UNCHANGED lost
           \/ lost' = lost \cup {q.n} /\ UNCHANGED log
        /\ req' = [req EXCEPT ![r].pc = PcAfter(q)]
        /\ UNCHANGED <<app, tables, loose, answer, jobs, writes, undone>>

Commit(r) ==
    LET q == req[r]
    IN  /\ q.pc = "commit"
        /\ tables' = Apply(Sent(q.p))
        /\ writes' = writes \cup {Committed(q)}
        /\ answer' = {}
        /\ req' = Disturb([req EXCEPT ![r].pc = "done"], TRUE)
        /\ UNCHANGED <<app, log, loose, jobs, undone, lost>>

Rollback(r) ==
    /\ req[r].pc = "commit"
    /\ undone' = undone \cup {req[r].n}
    /\ req' = [req EXCEPT ![r].pc = "failed"]
    /\ UNCHANGED <<app, tables, log, loose, answer, jobs, writes, lost>>

(* The handler's answer; @Audited then sends its row and does not wait for it. *)
Reply(r) ==
    LET q == req[r]
    IN  /\ q.pc \in {"done", "failed"}
        /\ loose' = IF q.pc = "done" /\ q.audited
                      THEN loose \cup {[n |-> q.n, user |-> IF q.context # NULL THEN q.context ELSE q.user,
                                        action |-> q.p.action, from |-> "handler"]}
                      ELSE loose
        /\ req' = [req EXCEPT ![r] = Idle]
        /\ UNCHANGED <<app, tables, log, answer, jobs, writes, undone, lost>>

Land(e) ==
    /\ e \in loose
    /\ loose' = loose \ {e}
    /\ log' \in {log, log \cup {e}}
    /\ UNCHANGED <<app, tables, req, answer, jobs, writes, undone, lost>>

(* AuditLogService.cleanup: the rows of the first jobs go, unless soft delete      *)
(* covers AuditLog and the query names a column it does not have.                 *)
Cleanup ==
    \E upTo \in {e.n : e \in log} :
        LET old == {e \in log : e.n <= upTo}
        IN  /\ Succeeds(Sent(Params("AuditLog", "deleteMany", {})))
            /\ log' = log \ old
            /\ lost' = lost \cup {e.n : e \in old}
            /\ UNCHANGED <<app, tables, loose, req, answer, jobs, writes, undone>>

(* ---- paginate.ts: the rows and their number are two queries, sent together ---- *)

(* Two pages at once only read: one is a bound.                                   *)
Page(r) ==
    \E page \in 0 .. 1 :
        /\ "items" \in app.hosts
        /\ \A x \in Requests : req[x].pc # "page"
        /\ Begin(r, [Job("page", [Params("Item", "findMany", Ids) EXCEPT !.skip = page * Limit])
                        EXCEPT !.pc = "page", !.todo = {"findMany", "count"}])
        /\ UNCHANGED jobs

(* The rows of a page, newest first. *)
Slice(S, skip) ==
    {i \in S : Cardinality({j \in S : j > i}) \in skip .. (skip + Limit - 1)}

PageQuery(r) ==
    LET q == req[r]
    IN  /\ q.pc = "page"
        /\ \E act \in q.todo :
            LET found == Matched(Sent([q.p EXCEPT !.action = act]))
                next == [q EXCEPT !.todo = @ \ {act},
                                  !.pc = IF q.todo = {act} THEN "done" ELSE "page"]
            IN  /\ answer' = found
                /\ req' = [req EXCEPT ![r] =
                              IF act = "count" THEN [next EXCEPT !.total = found]
                                               ELSE [next EXCEPT !.rows = Slice(found, q.p.skip)]]
        /\ UNCHANGED <<app, tables, log, loose, jobs, writes, undone, lost>>

(* A process starts over the items an earlier one left, removed ones among them    *)
(* when it soft-deletes; no file has been uploaded.                               *)
ClientInit ==
    /\ app \in Apps
    /\ tables = [Item |-> [i \in Ids |-> CASE i \in app.kept -> Row(0)
                                            [] i \in app.gone -> [Row(0) EXCEPT !.deleted = TRUE]
                                            [] OTHER -> NULL],
                  StoredFile |-> [k \in Keys |-> NULL],
                  AuditLog |-> <<>>]
    /\ log = {}
    /\ loose = {}
    /\ req = [r \in Requests |-> Idle]
    /\ answer = {}
    /\ jobs = 0
    /\ writes = {}
    /\ undone = {}
    /\ lost = {}

(* The process dies: an open transaction rolls back, a row not yet sent is lost. *)
ClientCrash ==
    /\ \E r \in Requests : req[r].pc # "idle"
    /\ LET cut == {r \in Requests : req[r].pc # "idle"}
       IN  /\ undone' = undone \cup {req[r].n : r \in {x \in cut : req[x].tx = "interactive"}}
           /\ lost' = lost \cup {req[r].n : r \in {x \in cut : req[x].pc = "log"}}
    /\ req' = [r \in Requests |-> Idle]
    /\ loose' = {}
    /\ UNCHANGED <<app, tables, log, answer, jobs, writes>>

ClientStep(r) ==
    \/ Write(r) \/ Page(r)
    \/ PageQuery(r) \/ LogEntry(r) \/ Commit(r) \/ Rollback(r)

----
(* A query through the client sees a table as LiveStore promises, whichever way    *)
(* rows are removed: the step that removes a row hides it from every findMany,     *)
(* findUnique and count that follows, and nothing else is hidden.                  *)
LiveItems == INSTANCE LiveStore WITH
    live <- Live(tables.Item), removed <- Removed(tables.Item), answer <- answer
ImplementsLiveStore == LiveItems!Spec

(* paginate: when nothing was written while its two queries ran, the page is that  *)
(* slice of the live rows and the total is their number.                           *)
PageIsSlice ==
    \A r \in Requests :
        req[r].pc = "done" /\ req[r].job = "page" /\ req[r].quiet =>
            req[r].rows = Slice(req[r].total, req[r].p.skip)

(* Every row of the audit log is of a write that happened, or of one rolled back   *)
(* with an interactive transaction that the audit client is no part of; it names   *)
(* the user who made it or nobody, and the action is the caller's, except that     *)
(* a removal under an outer soft delete is an update.                              *)
AuditTruthful ==
    \A e \in log :
        \/ e.n \in undone
        \/ \E r \in Requests : req[r].pc = "commit" /\ req[r].n = e.n
        \/ \E w \in writes :
            /\ w.n = e.n
            /\ e.user \in {w.user, IF e.from = "client" THEN NULL ELSE w.user}
            /\ e.action = w.verb \/ (SoftOutside /\ w.verb = "delete" /\ e.action = "update")

(* A committed write of one row is in the audit log, or about to be, unless its    *)
(* row was lost; the writes left out are updates when changes are not tracked,     *)
(* removals an outer soft delete has made updates, and, under wrapped delegates,   *)
(* transactions and promises taken with .catch alone, and the models the host      *)
(* excluded.                                                                       *)
AuditComplete ==
    \A w \in writes :
        \/ w.verb \notin {"create", "update", "delete"} \/ w.model \in app.exclude
        \/ ~Uses("wrapped") /\ ~app.trackChanges
             /\ (w.verb = "update" \/ (SoftOutside /\ w.verb = "delete" /\ w.model \in app.models))
        \/ Uses("wrapped") /\ w.tx # "none"
        \/ w.n \in lost
        \/ \E e \in log : e.n = w.n /\ e.from = "client"
        \/ \E r \in Requests : req[r].pc = "log" /\ req[r].n = w.n
=============================================================================
