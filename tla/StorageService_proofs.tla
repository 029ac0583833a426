------------------------- MODULE StorageService_proofs -------------------------
(* What holds of the shared client, its middlewares and StorageService for any     *)
(* number of requests, users, items, keys and jobs, however the host sets the      *)
(* plugins up.                                                                     *)
EXTENDS StorageService, TLAPS

ItemRow == [by : {0}, deleted : BOOLEAN]
FileRow(n) == [by : 1 .. n, deleted : {FALSE}]
Verbs == {"create", "update", "delete", "deleteMany"}

\* Soft delete covers the items.
Soft == Uses("soft") /\ "Item" \in app.models

(* ---- what the requests hold ---- *)

ParamsOf(model, actions, wheres) ==
    [model : {model}, action : actions, where : wheres, by : {0}, skip : Nat,
     stamp : {"keep", "clear"}, asked : {FALSE}, liveOnly : {FALSE}]

ItemParams ==
    {p \in ParamsOf("Item", Verbs, SUBSET Ids) :
        /\ p.stamp = "clear" => p.action = "update"
        /\ p.action # "deleteMany" => \E i \in Ids : p.where = {i}}

PageParams == {p \in ParamsOf("Item", {"findMany"}, {Ids}) : p.stamp = "keep"}

FileParams(action) ==
    {p \in ParamsOf("StoredFile", {action}, {{k} : k \in Keys}) : p.stamp = "keep"}

PcsOf(job) ==
    CASE job = "write" -> {"query", "log", "commit", "done", "failed"}
      [] job = "page" -> {"page", "done"}
      [] job = "upload" -> {"put", "fill", "public", "query", "log", "done", "failed"}
      [] OTHER -> {"erase", "query", "log", "done", "failed"}

ParamsFor(job) ==
    CASE job = "write" -> ItemParams
      [] job = "page" -> PageParams
      [] job = "upload" -> FileParams("create")
      [] OTHER -> FileParams("deleteMany")

Pcs == {"query", "log", "commit", "done", "failed", "page", "put", "fill", "public", "erase"}

Jobs(n) ==
    [pc : Pcs, job : {"write", "page", "upload", "remove"}, n : 0 .. n,
     user : Users \cup {NULL}, context : Users \cup {NULL},
     p : ItemParams \cup PageParams \cup FileParams("create") \cup FileParams("deleteMany"),
     tx : Way, audited : BOOLEAN,
     todo : SUBSET {"findMany", "count"}, rows : SUBSET Ids, total : SUBSET Ids, quiet : BOOLEAN]

\* A job is where its kind can be and asks what its kind asks; all but a host's writes
\* are awaited, and not audited by a handler, and no batch of rows is logged.
JobOK(q) ==
    /\ q.pc \in PcsOf(q.job) /\ q.p \in ParamsFor(q.job)
    /\ q.pc = "commit" => q.tx = "interactive"
    /\ q.pc = "log" => q.p.action # "deleteMany"
    /\ q.job # "write" => q.tx = "none" /\ ~q.audited
    /\ q.job # "page" => q.n >= 1

Held(n) == {Idle} \cup {q \in Jobs(n) : JobOK(q)}

(* ---- the tables' shape ---- *)

TableType(n) ==
    [Item : [Ids -> {NULL} \cup ItemRow],
     StoredFile : [Keys -> {NULL} \cup FileRow(n)],
     AuditLog : {<<>>}]

Entries(n) == [n : 1 .. n, user : Users \cup {NULL}, action : Verbs, from : {"client", "handler"}]

Shape ==
    /\ app \in Apps /\ jobs \in Nat
    /\ tables \in TableType(jobs)
    /\ log \subseteq Entries(jobs) /\ loose \subseteq Entries(jobs)
    /\ req \in [Requests -> Held(jobs)]
    /\ answer \subseteq Ids
    /\ undone \cup lost \subseteq 1 .. jobs
    /\ writes \subseteq [n : 1 .. jobs, user : Users \cup {NULL}, verb : Verbs,
                         model : {"Item", "StoredFile"}, tx : Way]
    /\ blobs \in [Keys -> {NULL} \cup [by : 1 .. jobs, whole : BOOLEAN]]
    /\ crowd \subseteq Requests
    /\ cause \in [Keys -> SUBSET Causes]

USE DEF Idle

--------------------------------------------------------------------------------
(* Small facts on the records. *)

\* What a request that is not idle holds.
LEMMA JobFacts ==
    ASSUME Shape, NEW r \in Requests, req[r].pc # "idle"
    PROVE  req[r] \in Jobs(jobs) /\ JobOK(req[r])
BY DEF Shape, Held

LEMMA HeldGrows ==
    ASSUME jobs \in Nat
    PROVE  Held(jobs) \subseteq Held(jobs + 1)
<1>1. Jobs(jobs) \subseteq Jobs(jobs + 1)
    BY DEF Jobs
<1> QED BY <1>1 DEF Held

\* A job that only moves on.
LEMMA PcRule ==
    ASSUME Shape, NEW r \in Requests, req[r].pc # "idle", NEW pc \in PcsOf(req[r].job),
           pc = "commit" => req[r].tx = "interactive",
           pc = "log" => req[r].p.action # "deleteMany"
    PROVE  /\ [req EXCEPT ![r].pc = pc] \in [Requests -> Held(jobs)]
           /\ [req EXCEPT ![r].pc = pc][r] = [req[r] EXCEPT !.pc = pc]
           /\ \A x \in Requests \ {r} : [req EXCEPT ![r].pc = pc][x] = req[x]
<1> DEFINE q == [req[r] EXCEPT !.pc = pc]
<1>1. req[r] \in Jobs(jobs) /\ JobOK(req[r])
    BY JobFacts
<1>2. pc \in Pcs
    BY DEF PcsOf, Pcs
<1>3. q \in Jobs(jobs)
    BY <1>1, <1>2 DEF Jobs
<1>4. JobOK(q)
    BY <1>1 DEF JobOK, Jobs
<1>5. q \in Held(jobs)
    BY <1>3, <1>4 DEF Held
<1> QED BY <1>5 DEF Shape

\* Only an interrupted page is disturbed, and only in being quiet.
LEMMA DisturbRule ==
    ASSUME NEW rq \in [Requests -> Held(jobs)], NEW changed \in BOOLEAN
    PROVE  /\ Disturb(rq, changed) \in [Requests -> Held(jobs)]
           /\ \A x \in Requests :
                \/ Disturb(rq, changed)[x] = rq[x]
                \/ /\ changed /\ rq[x].pc = "page"
                   /\ Disturb(rq, changed)[x] = [rq[x] EXCEPT !.quiet = FALSE]
<1>1. ASSUME NEW x \in Requests, rq[x].pc = "page"
      PROVE  [rq[x] EXCEPT !.quiet = FALSE] \in Held(jobs)
    <2>1. rq[x] \in Jobs(jobs) /\ JobOK(rq[x])
        BY <1>1 DEF Held
    <2>2. [rq[x] EXCEPT !.quiet = FALSE] \in Jobs(jobs)
        BY <2>1 DEF Jobs
    <2>3. JobOK([rq[x] EXCEPT !.quiet = FALSE])
        BY <2>1 DEF JobOK, Jobs
    <2> QED BY <2>2, <2>3 DEF Held
<1> QED BY <1>1 DEF Disturb

--------------------------------------------------------------------------------
(* What the middleware sends and the database does with it. *)

LEMMA SentItem ==
    ASSUME NEW p \in ItemParams
    PROVE  /\ Sent(p).model = "Item" /\ Sent(p).where = p.where /\ Sent(p).by = 0
           /\ ~Sent(p).liveOnly
           /\ p.action \in {"create", "update"} \/ ~Soft => Sent(p) = p
           /\ p.action \in {"delete", "deleteMany"} /\ Soft =>
                Sent(p).action \in {"update", "updateMany"} /\ Sent(p).stamp = "set"
<1> USE DEF ItemParams, ParamsOf, Sent, SoftDelete, Soft, Verbs
<1>0. p.model = "Item" /\ p.by = 0 /\ p.liveOnly = FALSE /\ p.action \in Verbs
    OBVIOUS
<1>1. CASE ~Soft
    <2> HIDE DEF ItemParams, ParamsOf, Verbs, Soft
    <2>1. ~Uses("soft") => Sent(p) = p
        BY DEF Sent
    <2>2. Uses("soft") /\ "Item" \notin app.models => Sent(p) = p
        BY <1>0 DEF Sent, SoftDelete
    <2>3. Sent(p) = p
        BY <1>1, <2>1, <2>2 DEF Soft
    <2> QED BY <1>0, <1>1, <2>3 DEF Soft
<1>2. CASE Soft /\ p.action = "delete"
    BY <1>2
<1>3. CASE Soft /\ p.action = "deleteMany"
    BY <1>3
<1>4. CASE Soft /\ p.action \in {"create", "update"}
    BY <1>4
<1> QED BY <1>1, <1>2, <1>3, <1>4

\* The audit log sees the caller's action, but for a removal under an outer soft delete.
LEMMA SeenAction ==
    ASSUME NEW m, NEW W, NEW p \in ParamsOf(m, Verbs, W)
    PROVE  /\ Seen(p).action \in {"create", "update", "delete"} =>
                \/ Seen(p).action = p.action
                \/ SoftOutside /\ p.action = "delete" /\ Seen(p).action = "update" /\ p.model \in app.models
           /\ p.action = "deleteMany" => Seen(p).action \notin {"create", "update", "delete"}
           /\ p.action # "deleteMany" => Seen(p).action \in {"create", "update", "delete"}
<1> USE DEF ParamsOf
<1>1. CASE ~SoftOutside \/ p.model \notin app.models
    BY <1>1 DEF Seen, SoftDelete, Verbs
<1>2. CASE SoftOutside /\ p.model \in app.models /\ p.action = "delete"
    BY <1>2 DEF Seen, SoftDelete
<1>3. CASE SoftOutside /\ p.model \in app.models /\ p.action = "deleteMany"
    BY <1>3 DEF Seen, SoftDelete
<1>4. CASE SoftOutside /\ p.model \in app.models /\ p.action \in {"create", "update"}
    BY <1>4 DEF Seen, SoftDelete
<1> QED BY <1>1, <1>2, <1>3, <1>4 DEF Verbs

\* A query of the items leaves the other tables alone.
LEMMA ApplyItem ==
    ASSUME tables \in TableType(jobs), NEW p, p.model = "Item"
    PROVE  LET hit == IF p.action = "create" THEN p.where ELSE Matched(p)
           IN  /\ Apply(p).StoredFile = tables.StoredFile
               /\ Apply(p).AuditLog = tables.AuditLog
               /\ Apply(p).Item = [k \in Ids |-> IF k \in hit THEN Changed(p, tables.Item[k])
                                                          ELSE tables.Item[k]]
               /\ Apply(p) = [Item |-> Apply(p).Item, StoredFile |-> tables.StoredFile,
                              AuditLog |-> tables.AuditLog]
<1> DEFINE hit == IF p.action = "create" THEN p.where ELSE Matched(p)
           new == [k \in Ids |-> IF k \in hit THEN Changed(p, tables.Item[k]) ELSE tables.Item[k]]
<1>1. DOMAIN tables = {"Item", "StoredFile", "AuditLog"} /\ DOMAIN tables.Item = Ids
    BY DEF TableType
<1>2. Apply(p) = [tables EXCEPT !["Item"] = new]
    BY <1>1 DEF Apply
<1> HIDE DEF new
<1>3. /\ Apply(p).Item = new /\ Apply(p).StoredFile = tables.StoredFile
      /\ Apply(p).AuditLog = tables.AuditLog /\ DOMAIN Apply(p) = DOMAIN tables
    BY <1>1, <1>2
<1>4. Apply(p) = [Item |-> new, StoredFile |-> tables.StoredFile, AuditLog |-> tables.AuditLog]
    BY <1>1, <1>2
<1> QED BY <1>3, <1>4 DEF new

\* Writing the items keeps the tables' shape.
LEMMA ItemTable ==
    ASSUME tables \in TableType(jobs), NEW p \in ItemParams
    PROVE  /\ Apply(Sent(p)) \in TableType(jobs)
           /\ Apply(Sent(p)).StoredFile = tables.StoredFile
<1> DEFINE s == Sent(p)
           hit == IF s.action = "create" THEN s.where ELSE Matched(s)
<1>1. s.model = "Item" /\ s.where = p.where /\ s.by = 0
    BY SentItem
<1>2. s.action \in {"create", "update", "delete", "deleteMany", "updateMany"}
    BY SentItem DEF ItemParams, ParamsOf, Verbs
<1> HIDE DEF s
<1>3. ASSUME NEW row \in ItemRow
      PROVE  Changed(s, row) \in {NULL} \cup ItemRow
    BY <1>1, <1>2 DEF Changed, Row, ItemRow
<1>4. ASSUME NEW k \in Ids, k \in hit
      PROVE  Changed(s, tables.Item[k]) \in {NULL} \cup ItemRow
    <2>1. CASE s.action = "create"
        BY <1>1, <2>1 DEF Changed, Row, ItemRow
    <2>2. CASE s.action # "create"
        <3>1. k \in Present(tables.Item) \/ k \in Live(tables.Item)
            BY <1>1, <1>4, <2>2 DEF Matched
        <3>2. tables.Item[k] \in ItemRow
            BY <1>4, <3>1 DEF Present, Live, TableType
        <3> QED BY <1>3, <3>2
    <2> QED BY <2>1, <2>2
<1> HIDE DEF hit
<1>5. Apply(s).Item \in [Ids -> {NULL} \cup ItemRow]
    <2>1. Apply(s).Item = [k \in Ids |-> IF k \in hit THEN Changed(s, tables.Item[k])
                                                       ELSE tables.Item[k]]
        BY <1>1, ApplyItem DEF hit
    <2>2. tables.Item \in [Ids -> {NULL} \cup ItemRow]
        BY DEF TableType
    <2> QED BY <1>4, <2>1, <2>2
<1>6. Apply(s) = [Item |-> Apply(s).Item, StoredFile |-> tables.StoredFile, AuditLog |-> tables.AuditLog]
    BY <1>1, ApplyItem
<1>7. Apply(s) \in TableType(jobs)
    BY <1>5, <1>6 DEF TableType
<1>8. Apply(s).StoredFile = tables.StoredFile
    BY <1>1, ApplyItem
<1> QED BY <1>7, <1>8 DEF s

FileChange(act, k, s, n) ==
    /\ Apply(s) \in TableType(jobs)
    /\ Apply(s).Item = tables.Item
    /\ Apply(s).StoredFile = [tables.StoredFile EXCEPT ![k] = IF act = "create" THEN Row(n) ELSE NULL]
    /\ act = "create" => tables.StoredFile[k] = NULL

\* A query of the files changes the one row of its key, and is sent as it is: a delete
\* that soft delete turned into a mark fails, for files have no deletedAt.
LEMMA FileTable ==
    ASSUME tables \in TableType(jobs), jobs \in Nat, NEW act \in {"create", "deleteMany"},
           NEW k \in Keys, NEW p \in FileParams(act), p.where = {k}, NEW n \in 1 .. jobs,
           Succeeds(Sent([p EXCEPT !.by = n]))
    PROVE  FileChange(act, k, Sent([p EXCEPT !.by = n]), n)
<1> DEFINE pn == [p EXCEPT !.by = n]
           t == tables.StoredFile
<1>1. /\ pn.model = "StoredFile" /\ pn.action = act /\ pn.where = {k} /\ pn.by = n
      /\ pn.stamp = "keep" /\ pn.liveOnly = FALSE
    BY DEF FileParams, ParamsOf
<1>2. Sent(pn) = pn
    <2>0. pn \in [model : {"StoredFile"}, action : {act}, where : {{k}}, by : {n}, skip : Nat,
                  stamp : {"keep"}, asked : {FALSE}, liveOnly : {FALSE}]
        BY DEF FileParams, ParamsOf
    <2> HIDE DEF pn
    <2>1. ~Uses("soft") => Sent(pn) = pn
        BY DEF Sent
    <2>2. "StoredFile" \notin app.models => Sent(pn) = pn
        BY <1>1 DEF Sent, SoftDelete
    <2>3. act = "create" => Sent(pn) = pn
        BY <1>1 DEF Sent, SoftDelete
    <2>4. ~(Uses("soft") /\ "StoredFile" \in app.models /\ act = "deleteMany")
        <3> SUFFICES ASSUME Uses("soft"), "StoredFile" \in app.models, act = "deleteMany"
                     PROVE  FALSE
            OBVIOUS
        <3>1. Sent(pn) = [pn EXCEPT !.action = "updateMany", !.stamp = "set"]
            BY <1>1 DEF Sent, SoftDelete
        <3>2. Sent(pn).stamp = "set" /\ Sent(pn).model = "StoredFile"
            BY <2>0, <3>1
        <3> QED BY <3>2 DEF Succeeds, pn
    <2> QED BY <2>1, <2>2, <2>3, <2>4
<1> HIDE DEF pn
<1>3. Succeeds(pn)
    BY <1>2 DEF pn
<1>4. DOMAIN tables = {"Item", "StoredFile", "AuditLog"} /\ DOMAIN t = Keys
    BY DEF TableType
<1> DEFINE hit == IF act = "create" THEN {k} ELSE {k} \cap Present(t)
           new == [i \in Keys |-> IF i \in hit THEN Changed(pn, t[i]) ELSE t[i]]
<1>5. Apply(pn) = [tables EXCEPT !["StoredFile"] = new]
    BY <1>1, <1>4 DEF Apply, Matched
<1>6. Changed(pn, t[k]) = IF act = "create" THEN Row(n) ELSE NULL
    BY <1>1 DEF Changed
<1>7. new = [t EXCEPT ![k] = IF act = "create" THEN Row(n) ELSE NULL]
    <2>1. act # "create" /\ k \notin Present(t) => t[k] = NULL
        BY <1>4 DEF Present
    <2>2. t = [i \in Keys |-> t[i]]
        BY DEF TableType
    <2> QED BY <1>6, <2>1, <2>2
<1>8. new \in [Keys -> {NULL} \cup FileRow(jobs)]
    <2>1. t \in [Keys -> {NULL} \cup FileRow(jobs)]
        BY DEF TableType
    <2>2. Row(n) \in FileRow(jobs)
        BY DEF Row, FileRow
    <2> QED BY <1>7, <2>1, <2>2
<1>9. act = "create" => t[k] = NULL
    BY <1>1, <1>3, <1>4 DEF Succeeds, Present
<1> HIDE DEF new
<1>10. /\ Apply(pn) = [Item |-> tables.Item, StoredFile |-> new, AuditLog |-> tables.AuditLog]
       /\ Apply(pn).Item = tables.Item /\ Apply(pn).StoredFile = new
    BY <1>4, <1>5
<1>11. Apply(pn) \in TableType(jobs)
    BY <1>8, <1>10 DEF TableType
<1> QED BY <1>2, <1>7, <1>9, <1>10, <1>11 DEF pn, FileChange

--------------------------------------------------------------------------------
(* Shape is inductive: one lemma for each kind of action. *)

LEMMA InitShape == Init => Shape
<1> SUFFICES ASSUME Init PROVE Shape
    OBVIOUS
<1>1. tables \in TableType(jobs)
    <2>1. [i \in Ids |-> CASE i \in app.kept -> Row(0)
                           [] i \in app.gone -> [Row(0) EXCEPT !.deleted = TRUE]
                           [] OTHER -> NULL] \in [Ids -> {NULL} \cup ItemRow]
        BY DEF ItemRow, Row
    <2> QED BY <2>1 DEF Init, ClientInit, TableType
<1> QED BY <1>1 DEF Init, ClientInit, Shape, Held

\* Beginning a job disturbs nothing but its request, and the bounds only grow.
LEMMA BeginRule ==
    ASSUME Shape, jobs' \in {jobs, jobs + 1},
           UNCHANGED <<app, tables, log, loose, answer, writes, undone, lost, blobs>>,
           crowd' \subseteq Requests, cause' \in [Keys -> SUBSET Causes],
           req' \in [Requests -> Held(jobs')]
    PROVE  Shape'
<1>1. jobs \in Nat /\ jobs' \in Nat /\ 1 .. jobs \subseteq 1 .. jobs'
    BY DEF Shape
<1>2. TableType(jobs) \subseteq TableType(jobs')
    BY <1>1 DEF TableType, FileRow
<1>3. Entries(jobs) \subseteq Entries(jobs')
    BY <1>1 DEF Entries
<1>4. [Keys -> {NULL} \cup [by : 1 .. jobs, whole : BOOLEAN]]
        \subseteq [Keys -> {NULL} \cup [by : 1 .. jobs', whole : BOOLEAN]]
    BY <1>1
<1> HIDE DEF Idle
<1>5. writes' \subseteq [n : 1 .. jobs', user : Users \cup {NULL}, verb : Verbs,
                         model : {"Item", "StoredFile"}, tx : Way]
    BY <1>1 DEF Shape
<1> QED BY <1>1, <1>2, <1>3, <1>4, <1>5 DEF Shape

LEMMA BeginWriteShape ==
    ASSUME Shape, NEW r \in Requests, NEW q, BeginWrite(r, q), UNCHANGED blobs,
           crowd' \subseteq Requests, cause' \in [Keys -> SUBSET Causes],
           \A u \in Users, c \in Users \cup {NULL} :
               [q EXCEPT !.n = jobs + 1, !.user = u, !.context = c] \in Held(jobs + 1)
    PROVE  Shape'
<1>0. PICK u \in Users : \E c \in Contexts(u) :
          Begin(r, [q EXCEPT !.n = jobs + 1, !.user = u, !.context = c])
    BY DEF BeginWrite
<1>1. PICK c \in Contexts(u) :
          Begin(r, [q EXCEPT !.n = jobs + 1, !.user = u, !.context = c])
    BY <1>0
<1>2. c \in Users \cup {NULL}
    BY <1>1 DEF Contexts
<1>3. jobs' = jobs + 1 /\ jobs \in Nat
    BY DEF BeginWrite, Shape
<1>4. req' = [req EXCEPT ![r] = [q EXCEPT !.n = jobs + 1, !.user = u, !.context = c]]
    BY <1>1 DEF Begin
<1>5. req' \in [Requests -> Held(jobs')]
    <2>1. req \in [Requests -> Held(jobs + 1)]
        BY <1>3, HeldGrows DEF Shape
    <2> QED BY <1>2, <1>3, <1>4, <2>1
<1> QED BY <1>1, <1>3, <1>5, BeginRule DEF Begin

LEMMA ItemWritesAreParams == ItemWrites \subseteq ItemParams
<1> USE DEF ItemParams, ParamsOf, Verbs
<1>1. ASSUME NEW act \in {"create", "update", "delete"}, NEW i \in Ids
      PROVE  Params("Item", act, {i}) \in ItemParams
    BY DEF Params
<1>2. ASSUME NEW i \in Ids
      PROVE  [Params("Item", "update", {i}) EXCEPT !.stamp = "clear"] \in ItemParams
    <2> DEFINE p == Params("Item", "update", {i})
               c == [p EXCEPT !.stamp = "clear"]
    <2>1. p \in ParamsOf("Item", Verbs, SUBSET Ids) /\ p.where = {i} /\ p.action = "update"
        BY DEF Params
    <2> HIDE DEF p
    <2>2. /\ c \in ParamsOf("Item", Verbs, SUBSET Ids) /\ c.where = {i} /\ c.action = "update"
        BY <2>1
    <2> HIDE DEF c
    <2>3. c \in ItemParams
        BY <2>2
    <2> QED BY <2>3 DEF c, p
<1>3. Params("Item", "deleteMany", Ids) \in ItemParams
    BY DEF Params
<1> HIDE DEF ItemParams, ParamsOf, Verbs
<1>4. ASSUME NEW p \in ItemWrites
      PROVE  \/ \E i \in Ids : \/ p = Params("Item", "create", {i})
                               \/ p = Params("Item", "update", {i})
                               \/ p = Params("Item", "delete", {i})
                               \/ p = [Params("Item", "update", {i}) EXCEPT !.stamp = "clear"]
             \/ p = Params("Item", "deleteMany", Ids)
    BY DEF ItemWrites
<1> QED BY <1>1, <1>2, <1>3, <1>4

LEMMA AppFacts ==
    ASSUME Shape
    PROVE  AppOK(app)
BY AppsAssumption DEF Shape

\* A job as it begins, before it is numbered and given its user.
LEMMA JobBegins ==
    ASSUME NEW n \in Nat, NEW job \in {"write", "upload", "remove"}, NEW p \in ParamsFor(job)
    PROVE  /\ Job(job, p) \in Jobs(n)
           /\ Job(job, p).p = p /\ Job(job, p).pc = "query"
           /\ Job(job, p).tx = "none" /\ Job(job, p).audited = FALSE
<1>1. p \in ItemParams \cup PageParams \cup FileParams("create") \cup FileParams("deleteMany")
    BY DEF ParamsFor
<1> QED BY <1>1 DEF Job, Jobs, Pcs, Way

\* Numbered, it is a job like another.
LEMMA JobNumbered ==
    ASSUME NEW n \in Nat \ {0}, NEW q \in Jobs(n), NEW u \in Users, NEW c \in Users \cup {NULL},
           q.pc \in PcsOf(q.job) \ {"commit", "log"}, q.p \in ParamsFor(q.job),
           q.job # "write" => q.tx = "none" /\ ~q.audited
    PROVE  [q EXCEPT !.n = n, !.user = u, !.context = c] \in Held(n)
<1> DEFINE h == [q EXCEPT !.n = n, !.user = u, !.context = c]
<1>1. h \in Jobs(n)
    <2>1. n \in 0 .. n /\ c \in Users \cup {NULL} /\ u \in Users \cup {NULL}
        OBVIOUS
    <2>2. [q EXCEPT !.n = n] \in Jobs(n)
        BY <2>1 DEF Jobs
    <2>3. [[q EXCEPT !.n = n] EXCEPT !.user = u] \in Jobs(n)
        BY <2>1, <2>2 DEF Jobs
    <2>4. [[[q EXCEPT !.n = n] EXCEPT !.user = u] EXCEPT !.context = c] \in Jobs(n)
        BY <2>1, <2>3 DEF Jobs
    <2> QED BY <2>4
<1>2. h.pc = q.pc /\ h.job = q.job /\ h.p = q.p /\ h.tx = q.tx /\ h.audited = q.audited /\ h.n = n
    BY DEF Jobs
<1> HIDE DEF h
<1>3. JobOK(h)
    BY <1>2 DEF JobOK
<1>4. h \in Held(n)
    BY <1>1, <1>3 DEF Held
<1> QED BY <1>4 DEF h

LEMMA WriteShape ==
    ASSUME Shape, NEW r \in Requests, Write(r), UNCHANGED storageVars
    PROVE  Shape'
<1>1. PICK p \in ItemWrites :
          BeginWrite(r, [Job("write", p) EXCEPT !.tx = app.tx[p.action], !.audited = p.action \in app.audited])
    BY DEF Write
<1> DEFINE j == Job("write", p)
           tx == app.tx[p.action]
           au == p.action \in app.audited
           q == [j EXCEPT !.tx = tx, !.audited = au]
<1>2. p \in ItemParams /\ p.action \in Verbs
    BY ItemWritesAreParams DEF ItemParams, ParamsOf
<1>3. tx \in Way /\ au \in BOOLEAN
    BY <1>2, AppFacts DEF AppOK, Verbs
<1>4. jobs + 1 \in Nat \ {0} /\ p \in ParamsFor("write") /\ "query" \in PcsOf("write") \ {"commit", "log"}
    BY <1>2 DEF Shape, ParamsFor, PcsOf
<1>5. j \in Jobs(jobs + 1) /\ j.job = "write" /\ j.p = p /\ j.pc = "query"
    <2> DEFINE n == jobs + 1
    <2>1. n \in Nat
        BY <1>4
    <2> HIDE DEF n
    <2>2. j \in Jobs(n) /\ j.p = p /\ j.pc = "query"
        BY <1>4, <2>1, JobBegins
    <2>3. j.job = "write"
        BY DEF Job
    <2> QED BY <2>2, <2>3 DEF n
<1> HIDE DEF j, tx, au
<1>6. q \in Jobs(jobs + 1) /\ q.job = "write" /\ q.p = p /\ q.pc = "query"
    BY <1>3, <1>5 DEF Jobs
<1>7. BeginWrite(r, q)
    BY <1>1 DEF j, tx, au
<1> HIDE DEF q
<1>8. \A u \in Users, c \in Users \cup {NULL} :
          [q EXCEPT !.n = jobs + 1, !.user = u, !.context = c] \in Held(jobs + 1)
    BY <1>4, <1>6, JobNumbered
<1> QED BY <1>7, <1>8, BeginWriteShape DEF storageVars, Shape

LEMMA FileJobHeld ==
    ASSUME Shape, NEW job \in {"upload", "remove"}, NEW k \in Keys, NEW pc \in {"put", "failed", "erase"},
           pc \in PcsOf(job), NEW act, act = IF job = "upload" THEN "create" ELSE "deleteMany",
           NEW u \in Users, NEW c \in Users \cup {NULL}
    PROVE  [[Job(job, Params("StoredFile", act, {k})) EXCEPT !.pc = pc]
               EXCEPT !.n = jobs + 1, !.user = u, !.context = c] \in Held(jobs + 1)
<1> DEFINE p == Params("StoredFile", act, {k})
           j == Job(job, p)
           q == [j EXCEPT !.pc = pc]
<1>1. p \in FileParams(act)
    BY DEF Params, FileParams, ParamsOf
<1> HIDE DEF p
<1>2. jobs + 1 \in Nat \ {0} /\ p \in ParamsFor(job) /\ pc \in Pcs
    BY <1>1 DEF Shape, ParamsFor, Pcs
<1>3. j \in Jobs(jobs + 1) /\ j.job = job /\ j.p = p /\ j.tx = "none" /\ j.audited = FALSE
    <2> DEFINE n == jobs + 1
    <2>1. n \in Nat
        BY <1>2
    <2> HIDE DEF n
    <2>2. j \in Jobs(n) /\ j.p = p /\ j.tx = "none" /\ j.audited = FALSE
        <3>1. job \in {"write", "upload", "remove"}
            OBVIOUS
        <3>2. p \in ParamsFor(job)
            BY <1>2
        <3>3. j \in Jobs(n)
            BY <2>1, <3>1, <3>2, JobBegins
        <3>4. j.p = p /\ j.tx = "none" /\ j.audited = FALSE
            BY DEF Job
        <3> QED BY <3>3, <3>4
    <2>3. j.job = job
        BY DEF Job
    <2> QED BY <2>2, <2>3 DEF n
<1> HIDE DEF j
<1>4. /\ q \in Jobs(jobs + 1) /\ q.job = job /\ q.p = p /\ q.tx = "none" /\ q.audited = FALSE
      /\ q.pc = pc
    BY <1>2, <1>3 DEF Jobs
<1> HIDE DEF q
<1>5. [q EXCEPT !.n = jobs + 1, !.user = u, !.context = c] \in Held(jobs + 1)
    BY <1>2, <1>4, JobNumbered
<1> QED BY <1>5 DEF q, j, p

LEMMA EnterShape ==
    ASSUME Shape, NEW r \in Requests, NEW k \in Keys, Enter(r, k)
    PROVE  crowd' \subseteq Requests /\ cause' \in [Keys -> SUBSET Causes]
BY DEF Enter, Mark, Busy, Causes, Shape

LEMMA UploadShape ==
    ASSUME Shape, NEW r \in Requests, Upload(r) \/ Delete(r)
    PROVE  Shape'
<1>1. CASE Upload(r)
    <2>1. PICK k \in Keys, pc \in {"put", "failed"} :
            /\ BeginWrite(r, [Job("upload", Params("StoredFile", "create", {k})) EXCEPT !.pc = pc])
            /\ IF pc = "put" THEN Enter(r, k) ELSE UNCHANGED <<crowd, cause>>
            /\ UNCHANGED blobs
        BY <1>1 DEF Upload
    <2>2. crowd' \subseteq Requests /\ cause' \in [Keys -> SUBSET Causes]
        BY <2>1, EnterShape DEF Shape
    <2>3. pc \in PcsOf("upload")
        BY <2>1 DEF PcsOf
    <2>4. \A u \in Users, c \in Users \cup {NULL} :
            [[Job("upload", Params("StoredFile", "create", {k})) EXCEPT !.pc = pc]
               EXCEPT !.n = jobs + 1, !.user = u, !.context = c] \in Held(jobs + 1)
        BY <2>3, FileJobHeld
    <2> QED BY <2>1, <2>2, <2>4, BeginWriteShape
<1>2. CASE Delete(r)
    <2>1. PICK k \in Keys :
            /\ BeginWrite(r, [Job("remove", Params("StoredFile", "deleteMany", {k})) EXCEPT !.pc = "erase"])
            /\ Enter(r, k)
            /\ UNCHANGED blobs
        BY <1>2 DEF Delete
    <2>2. crowd' \subseteq Requests /\ cause' \in [Keys -> SUBSET Causes]
        BY <2>1, EnterShape DEF Shape
    <2>3. "erase" \in PcsOf("remove")
        BY DEF PcsOf
    <2>4. \A u \in Users, c \in Users \cup {NULL} :
            [[Job("remove", Params("StoredFile", "deleteMany", {k})) EXCEPT !.pc = "erase"]
               EXCEPT !.n = jobs + 1, !.user = u, !.context = c] \in Held(jobs + 1)
        BY <2>3, FileJobHeld
    <2> QED BY <2>1, <2>2, <2>4, BeginWriteShape
<1> QED BY <1>1, <1>2

\* What a request's place and kind tell of each other.
LEMMA JobKind ==
    ASSUME Shape, NEW r \in Requests, req[r].pc # "idle"
    PROVE  /\ req[r].job \in {"write", "page", "upload", "remove"}
           /\ req[r].pc = "page" => req[r].job = "page"
           /\ req[r].pc \in {"put", "fill", "public"} => req[r].job = "upload"
           /\ req[r].pc = "erase" => req[r].job = "remove"
           /\ req[r].pc = "commit" => req[r].job = "write" /\ req[r].tx = "interactive"
           /\ req[r].pc \in {"query", "log"} => req[r].job # "page"
           /\ req[r].job # "page" => req[r].n \in 1 .. jobs
           /\ req[r].job # "write" => req[r].tx = "none" /\ ~req[r].audited
           /\ req[r].p \in ParamsFor(req[r].job)
           /\ req[r].job = "write" => req[r].p \in ItemParams /\ req[r].p.model = "Item"
           /\ req[r].job = "page" => req[r].p \in PageParams /\ req[r].p.model = "Item"
           /\ req[r].job \in {"upload", "remove"} => req[r].p.model = "StoredFile"
<1>1. req[r] \in Jobs(jobs) /\ JobOK(req[r])
    BY JobFacts
<1>2. req[r].p \in ParamsFor(req[r].job) /\ req[r].job \in {"write", "page", "upload", "remove"}
      /\ req[r].pc \in PcsOf(req[r].job)
    BY <1>1 DEF JobOK, Jobs
<1>3. /\ req[r].pc = "page" => req[r].job = "page"
      /\ req[r].pc \in {"put", "fill", "public"} => req[r].job = "upload"
      /\ req[r].pc = "erase" => req[r].job = "remove"
      /\ req[r].pc = "commit" => req[r].job = "write"
      /\ req[r].pc \in {"query", "log"} => req[r].job # "page"
    BY <1>2 DEF PcsOf
<1>4. /\ req[r].job = "write" => req[r].p \in ItemParams /\ req[r].p.model = "Item"
      /\ req[r].job = "page" => req[r].p \in PageParams /\ req[r].p.model = "Item"
      /\ req[r].job \in {"upload", "remove"} => req[r].p.model = "StoredFile"
    BY <1>2 DEF ParamsFor, ItemParams, PageParams, FileParams, ParamsOf
<1>5. req[r].n \in 0 .. jobs /\ jobs \in Nat
    BY <1>1 DEF Jobs, Shape
<1> QED BY <1>1, <1>2, <1>3, <1>4, <1>5 DEF JobOK

\* A file's job has one key.
LEMMA FileKind ==
    ASSUME Shape, NEW r \in Requests, req[r].pc # "idle", req[r].p.model = "StoredFile"
    PROVE  /\ req[r].job \in {"upload", "remove"}
           /\ KeyOf(req[r]) \in Keys /\ req[r].p.where = {KeyOf(req[r])}
           /\ req[r].n \in 1 .. jobs /\ req[r].tx = "none"
           /\ req[r].job = "upload" => req[r].p \in FileParams("create")
           /\ req[r].job = "remove" => req[r].p \in FileParams("deleteMany")
<1>1. req[r].job \in {"upload", "remove"}
    BY JobKind
<1>2. req[r].p \in FileParams("create") \/ req[r].p \in FileParams("deleteMany")
    BY <1>1, JobKind DEF ParamsFor
<1>3. PICK k \in Keys : req[r].p.where = {k}
    BY <1>2 DEF FileParams, ParamsOf
<1>4. KeyOf(req[r]) = k
    BY <1>3 DEF KeyOf
<1> QED BY <1>1, <1>3, <1>4, JobKind DEF ParamsFor

LEMMA PageParamsOK == ASSUME NEW page \in 0 .. 1
    PROVE [Params("Item", "findMany", Ids) EXCEPT !.skip = page * Limit] \in PageParams
<1> DEFINE p == Params("Item", "findMany", Ids)
           s == page * Limit
           c == [p EXCEPT !.skip = s]
<1>1. p \in PageParams
    BY DEF Params, PageParams, ParamsOf
<1>2. s \in Nat
    BY PrismaAssumption
<1> HIDE DEF p, s
<1>3. c \in ParamsOf("Item", {"findMany"}, {Ids}) /\ c.stamp = "keep"
    BY <1>1, <1>2 DEF PageParams, ParamsOf
<1> HIDE DEF c
<1>4. c \in PageParams
    BY <1>3 DEF PageParams
<1> QED BY <1>4 DEF c, p, s

\* What the request of a page is from its start.
LEMMA PageBegins ==
    ASSUME Shape, NEW p \in PageParams
    PROVE  LET q == [Job("page", p) EXCEPT !.pc = "page", !.todo = {"findMany", "count"}]
           IN  q \in Held(jobs) /\ q.pc = "page" /\ q.p = p /\ q.todo = {"findMany", "count"}
<1> DEFINE j == Job("page", p)
           q == [j EXCEPT !.pc = "page", !.todo = {"findMany", "count"}]
<1>1. /\ j \in Jobs(jobs) /\ j.p = p /\ j.n = 0 /\ j.tx = "none" /\ j.audited = FALSE
    BY DEF Job, Jobs, Pcs, Way, Shape
<1>2. j.job = "page"
    BY DEF Job
<1> HIDE DEF j
<1>3. /\ q \in Jobs(jobs) /\ q.job = "page" /\ q.p = p /\ q.tx = "none" /\ q.audited = FALSE
      /\ q.pc = "page" /\ q.todo = {"findMany", "count"}
    BY <1>1, <1>2 DEF Jobs, Pcs
<1> HIDE DEF q
<1>4. JobOK(q)
    BY <1>3 DEF JobOK, PcsOf, ParamsFor
<1>5. q \in Held(jobs) /\ q.pc = "page" /\ q.p = p /\ q.todo = {"findMany", "count"}
    BY <1>3, <1>4 DEF Held
<1> QED BY <1>5 DEF q, j

LEMMA PageShape ==
    ASSUME Shape, NEW r \in Requests, Page(r), UNCHANGED storageVars
    PROVE  Shape'
<1>1. PICK page \in 0 .. 1 :
          /\ Begin(r, [Job("page", [Params("Item", "findMany", Ids) EXCEPT !.skip = page * Limit])
                          EXCEPT !.pc = "page", !.todo = {"findMany", "count"}])
          /\ UNCHANGED jobs
    BY DEF Page
<1> DEFINE p == [Params("Item", "findMany", Ids) EXCEPT !.skip = page * Limit]
           q == [Job("page", p) EXCEPT !.pc = "page", !.todo = {"findMany", "count"}]
<1>2. p \in PageParams
    BY PageParamsOK
<1> HIDE DEF p
<1>3. q \in Held(jobs)
    BY <1>2, PageBegins
<1>4. Begin(r, q) /\ jobs' = jobs
    BY <1>1 DEF p
<1> HIDE DEF q
<1>5. req' \in [Requests -> Held(jobs')]
    BY <1>3, <1>4 DEF Begin, Shape
<1> QED BY <1>4, <1>5, BeginRule DEF Begin, storageVars, Shape

\* What a query for live items finds, the first page's and the count alike.
Found == IF Soft THEN Live(tables.Item) ELSE Present(tables.Item)

LEMMA FoundItems ==
    ASSUME tables \in TableType(jobs), NEW p, p.model = "Item", p.action \in {"findMany", "findUnique", "count"},
           p.asked = FALSE, p.liveOnly = FALSE, NEW T, NEW W,
           p \in [model : {"Item"}, action : T, where : W, by : {0}, skip : Nat,
                  stamp : {"keep", "clear"}, asked : {FALSE}, liveOnly : {FALSE}]
    PROVE  Matched(Sent(p)) = p.where \cap Found
<1> DEFINE c == [p EXCEPT !.liveOnly = TRUE]
<1>1. c.liveOnly = TRUE /\ c.model = "Item" /\ c.where = p.where
    OBVIOUS
<1>2. [p EXCEPT !.liveOnly = ~p.asked] = c
    OBVIOUS
<1>3. Soft => Sent(p) = c
    BY <1>2 DEF Soft, Sent, SoftDelete
<1>4. ~Soft => Sent(p) = p
    BY DEF Soft, Sent, SoftDelete
<1> HIDE DEF c
<1>5. Soft => Matched(Sent(p)) = p.where \cap Live(tables.Item)
    BY <1>1, <1>3 DEF Matched
<1>6. ~Soft => Matched(Sent(p)) = p.where \cap Present(tables.Item)
    BY <1>4 DEF Matched
<1> QED BY <1>5, <1>6 DEF Found

LEMMA FoundPage ==
    ASSUME tables \in TableType(jobs), NEW p \in PageParams, NEW act \in {"findMany", "count"}
    PROVE  Matched(Sent([p EXCEPT !.action = act])) = Found
<1> DEFINE c == [p EXCEPT !.action = act]
           R == [model : {"Item"}, action : {"findMany", "count"}, where : {Ids}, by : {0}, skip : Nat,
                 stamp : {"keep", "clear"}, asked : {FALSE}, liveOnly : {FALSE}]
<1>1. p \in ParamsOf("Item", {"findMany"}, {Ids})
    BY DEF PageParams
<1>2. /\ c \in R /\ c.model = "Item" /\ c.action = act /\ c.asked = FALSE
      /\ c.liveOnly = FALSE /\ c.where = Ids
    <2>1. c \in R
        BY <1>1 DEF ParamsOf
    <2>2. c.action = act
        BY <1>1 DEF ParamsOf
    <2> HIDE DEF c
    <2>3. c.model = "Item" /\ c.where = Ids /\ c.asked = FALSE /\ c.liveOnly = FALSE
        BY <2>1
    <2> QED BY <2>1, <2>2, <2>3
<1> HIDE DEF c
<1>3. Matched(Sent(c)) = c.where \cap Found
    BY <1>2, FoundItems
<1>4. Found \subseteq Ids
    BY DEF Found, Live, Present, TableType
<1> QED BY <1>2, <1>3, <1>4 DEF c

\* A page's query takes one thing from what is to do and puts what it found in its place.
LEMMA PageQueryStep ==
    ASSUME Shape, NEW r \in Requests, PageQuery(r)
    PROVE  /\ req[r].job = "page" /\ req[r].p \in PageParams
           /\ answer' = Found
           /\ UNCHANGED <<app, tables, log, loose, jobs, writes, undone, lost>>
           /\ req' \in [Requests -> Held(jobs)]
           /\ \A x \in Requests \ {r} : req'[x] = req[x]
           /\ req'[r].job = "page" /\ req'[r].p = req[r].p /\ req'[r].quiet = req[r].quiet
           /\ req'[r].pc \in {"page", "done"}
           /\ req'[r].pc = "done" <=> req'[r].todo = {}
           /\ req[r].todo # {}
           /\ \/ /\ "count" \in req[r].todo /\ req'[r].todo = req[r].todo \ {"count"}
                 /\ req'[r].total = Found /\ req'[r].rows = req[r].rows
              \/ /\ "findMany" \in req[r].todo /\ req'[r].todo = req[r].todo \ {"findMany"}
                 /\ req'[r].rows = Slice(Found, req[r].p.skip) /\ req'[r].total = req[r].total
<1> DEFINE q == req[r]
<1>1. q.pc = "page" /\ UNCHANGED <<app, tables, log, loose, jobs, writes, undone, lost>>
    BY DEF PageQuery
<1>2. q.job = "page" /\ q.p \in PageParams /\ q.tx = "none" /\ ~q.audited
    BY <1>1, JobKind
<1>3. q \in Jobs(jobs) /\ JobOK(q)
    BY <1>1, JobFacts
<1>4. PICK act \in q.todo :
        LET found == Matched(Sent([q.p EXCEPT !.action = act]))
            next == [q EXCEPT !.todo = @ \ {act}, !.pc = IF q.todo = {act} THEN "done" ELSE "page"]
        IN  /\ answer' = found
            /\ req' = [req EXCEPT ![r] = IF act = "count" THEN [next EXCEPT !.total = found]
                                                          ELSE [next EXCEPT !.rows = Slice(found, q.p.skip)]]
    BY DEF PageQuery
<1>5. act \in {"findMany", "count"}
    BY <1>3 DEF Jobs
<1>6. Matched(Sent([q.p EXCEPT !.action = act])) = Found
    BY <1>2, <1>5, FoundPage DEF Shape
<1> DEFINE left == q.todo \ {act}
           pc == IF q.todo = {act} THEN "done" ELSE "page"
           next == [q EXCEPT !.todo = left, !.pc = pc]
           slice == Slice(Found, q.p.skip)
           last == IF act = "count" THEN [next EXCEPT !.total = Found] ELSE [next EXCEPT !.rows = slice]
<1>7. answer' = Found /\ req' = [req EXCEPT ![r] = last]
    BY <1>4, <1>6
<1>8. Found \subseteq Ids /\ slice \subseteq Ids
    BY DEF Found, Live, Present, TableType, Shape, Slice
<1>9. left \subseteq {"findMany", "count"} /\ pc \in {"page", "done"} /\ (pc = "done" <=> left = {})
    BY <1>3, <1>5 DEF Jobs
<1>10. q.todo # {}
    BY <1>4
<1> HIDE DEF left, pc, slice, q
<1>11. /\ next \in Jobs(jobs) /\ next.pc = pc /\ next.job = "page" /\ next.p = q.p /\ next.tx = q.tx
       /\ next.audited = q.audited /\ next.todo = left /\ next.quiet = q.quiet
       /\ next.rows = q.rows /\ next.total = q.total
    BY <1>2, <1>3, <1>9 DEF Jobs, Pcs
<1> HIDE DEF next
<1>12. /\ last \in Jobs(jobs) /\ last.pc = pc /\ last.job = "page" /\ last.p = q.p /\ last.tx = q.tx
       /\ last.audited = q.audited /\ last.todo = left /\ last.quiet = q.quiet
    BY <1>8, <1>11 DEF Jobs
<1>13. IF act = "count" THEN last.total = Found /\ last.rows = q.rows
                        ELSE last.rows = slice /\ last.total = q.total
    BY <1>8, <1>11 DEF Jobs
<1> HIDE DEF last
<1>14. JobOK(last)
    BY <1>2, <1>9, <1>12 DEF JobOK, PcsOf, ParamsFor
<1>15. last \in Held(jobs)
    BY <1>12, <1>14 DEF Held
<1>16. /\ req' \in [Requests -> Held(jobs)] /\ req'[r] = last
       /\ \A x \in Requests \ {r} : req'[x] = req[x]
    BY <1>7, <1>15 DEF Shape
<1> QED BY <1>1, <1>2, <1>5, <1>7, <1>9, <1>10, <1>12, <1>13, <1>16 DEF left, slice, q

\* One request moves on, and the interrupted pages hear of a write.
Moves(r, v, stir) ==
    /\ req' \in [Requests -> Held(jobs)]
    /\ req'[r] = [req[r] EXCEPT !.pc = v]
    /\ \A x \in Requests \ {r} :
        req'[x] = IF stir /\ req[x].pc = "page" THEN [req[x] EXCEPT !.quiet = FALSE] ELSE req[x]

LEMMA MovesRule ==
    ASSUME Shape, NEW r \in Requests, req[r].pc # "idle", NEW v \in PcsOf(req[r].job), v # "page",
           v = "commit" => req[r].tx = "interactive",
           v = "log" => req[r].p.action # "deleteMany", NEW stir \in BOOLEAN,
           \/ req' = Disturb([req EXCEPT ![r].pc = v], stir)
           \/ ~stir /\ req' = [req EXCEPT ![r].pc = v]
    PROVE  Moves(r, v, stir)
<1> DEFINE rq == [req EXCEPT ![r].pc = v]
<1>1. /\ rq \in [Requests -> Held(jobs)] /\ rq[r] = [req[r] EXCEPT !.pc = v]
      /\ \A x \in Requests \ {r} : rq[x] = req[x]
    BY PcRule
<1>2. rq[r].pc = v
    <2>1. req[r] \in Jobs(jobs)
        BY JobFacts
    <2> QED BY <1>1, <2>1 DEF Jobs
<1> HIDE DEF rq
<1>3. CASE req' = Disturb(rq, stir)
    <2>1. Disturb(rq, stir) \in [Requests -> Held(jobs)]
        BY <1>1, DisturbRule
    <2>2. \A x \in Requests : Disturb(rq, stir)[x] =
              IF stir /\ rq[x].pc = "page" THEN [rq[x] EXCEPT !.quiet = FALSE] ELSE rq[x]
        BY <1>1 DEF Disturb
    <2> QED BY <1>1, <1>2, <1>3, <2>1, <2>2 DEF Moves
<1>4. CASE ~stir /\ req' = rq
    BY <1>1, <1>4 DEF Moves
<1> QED BY <1>3, <1>4 DEF rq

\* The fields after a move.
LEMMA MovesFacts ==
    ASSUME Shape, NEW r \in Requests, req[r].pc # "idle", NEW v, NEW stir \in BOOLEAN, Moves(r, v, stir)
    PROVE  /\ req'[r].pc = v /\ req'[r].job = req[r].job /\ req'[r].n = req[r].n
           /\ req'[r].user = req[r].user /\ req'[r].context = req[r].context /\ req'[r].p = req[r].p
           /\ req'[r].tx = req[r].tx /\ req'[r].audited = req[r].audited /\ req'[r].todo = req[r].todo
           /\ req'[r].rows = req[r].rows /\ req'[r].total = req[r].total
           /\ req'[r].quiet = req[r].quiet
           /\ \A x \in Requests \ {r} :
                /\ req'[x].pc = req[x].pc
                /\ req[x].pc # "page" => req'[x] = req[x]
                /\ req[x].pc = "page" =>
                     /\ req'[x].job = req[x].job /\ req'[x].p = req[x].p /\ req'[x].todo = req[x].todo
                     /\ req'[x].rows = req[x].rows /\ req'[x].total = req[x].total
                     /\ req'[x].quiet => req[x].quiet /\ ~stir
<1>1. req[r] \in Jobs(jobs) /\ req'[r] = [req[r] EXCEPT !.pc = v]
    BY JobFacts DEF Moves
<1>2. /\ req'[r].pc = v /\ req'[r].job = req[r].job /\ req'[r].n = req[r].n
      /\ req'[r].user = req[r].user /\ req'[r].context = req[r].context /\ req'[r].p = req[r].p
      /\ req'[r].tx = req[r].tx /\ req'[r].audited = req[r].audited /\ req'[r].todo = req[r].todo
      /\ req'[r].rows = req[r].rows /\ req'[r].total = req[r].total
      /\ req'[r].quiet = req[r].quiet
    BY <1>1 DEF Jobs
<1>3. ASSUME NEW x \in Requests \ {r}, req[x].pc # "page"
      PROVE  req'[x] = req[x]
    BY <1>3 DEF Moves
<1>4. ASSUME NEW x \in Requests \ {r}, req[x].pc = "page"
      PROVE  /\ req'[x].pc = req[x].pc
             /\ req'[x].job = req[x].job /\ req'[x].p = req[x].p /\ req'[x].todo = req[x].todo
             /\ req'[x].rows = req[x].rows /\ req'[x].total = req[x].total
             /\ req'[x].quiet => req[x].quiet /\ ~stir
    <2>1. req[x] \in Jobs(jobs)
        BY <1>4, JobFacts
    <2>2. CASE stir
        <3>1. req'[x] = [req[x] EXCEPT !.quiet = FALSE]
            BY <1>4, <2>2 DEF Moves
        <3>2. req'[x].quiet = FALSE
            BY <2>1, <3>1 DEF Jobs
        <3> QED BY <1>4, <2>1, <3>1, <3>2 DEF Jobs
    <2>3. CASE ~stir
        BY <1>4, <2>3 DEF Moves
    <2> QED BY <2>2, <2>3
<1> QED BY <1>2, <1>3, <1>4

\* What a job that is no page asks for, and what of it is recorded.
LEMMA ActionOK ==
    ASSUME Shape, NEW r \in Requests, req[r].pc # "idle", req[r].job # "page"
    PROVE  /\ req[r].p.action \in Verbs
           /\ Recorded(req[r]) => req[r].p.action # "deleteMany"
           /\ req[r].p.action # "deleteMany" =>
                /\ Seen(req[r].p).action \in {"create", "update", "delete"}
                /\ \/ Seen(req[r].p).action = req[r].p.action
                   \/ /\ SoftOutside /\ req[r].p.action = "delete" /\ Seen(req[r].p).action = "update"
                      /\ req[r].p.model \in app.models
<1> DEFINE p == req[r].p
<1>1. p \in ItemParams \/ p \in FileParams("create") \/ p \in FileParams("deleteMany")
    BY JobKind DEF ParamsFor
<1>2. \E m, W : p \in ParamsOf(m, Verbs, W)
    <2>1. CASE p \in ItemParams
        BY <2>1 DEF ItemParams
    <2>2. CASE p \in FileParams("create") \/ p \in FileParams("deleteMany")
        <3>1. p \in ParamsOf("StoredFile", Verbs, {{k} : k \in Keys})
            BY <2>2 DEF FileParams, ParamsOf, Verbs
        <3> QED BY <3>1
    <2> QED BY <1>1, <2>1, <2>2
<1>3. p.action \in Verbs
    BY <1>2 DEF ParamsOf
<1> HIDE DEF p
<1>4. /\ Seen(p).action \in {"create", "update", "delete"} =>
           \/ Seen(p).action = p.action
           \/ SoftOutside /\ p.action = "delete" /\ Seen(p).action = "update" /\ p.model \in app.models
      /\ p.action = "deleteMany" => Seen(p).action \notin {"create", "update", "delete"}
      /\ p.action # "deleteMany" => Seen(p).action \in {"create", "update", "delete"}
    BY <1>2, SeenAction
<1>5. Recorded(req[r]) => Seen(p).action \in {"create", "update", "delete"}
    BY DEF Recorded, p
<1> QED BY <1>3, <1>4, <1>5 DEF p

\* What the database is asked for a request.
Asked(q) == Sent([q.p EXCEPT !.by = IF q.p.model = "Item" THEN 0 ELSE q.n])

LEMMA AskedItem ==
    ASSUME NEW q, q.p \in ItemParams
    PROVE  Asked(q) = Sent(q.p)
<1>1. q.p.model = "Item" /\ q.p.by = 0
    BY DEF ItemParams, ParamsOf
<1>2. [q.p EXCEPT !.by = 0] = q.p
    BY <1>1 DEF ItemParams, ParamsOf
<1> QED BY <1>1, <1>2 DEF Asked

\* The outcomes of Exec.
LEMMA ExecStep ==
    ASSUME Shape, NEW r \in Requests, Exec(r)
    PROVE  /\ req[r].pc = "query" /\ UNCHANGED <<app, log, loose, jobs, undone, lost>>
           /\ \/ /\ ~Succeeds(Asked(req[r])) /\ UNCHANGED <<tables, writes, answer>>
                 /\ Moves(r, PcFailed(req[r]), FALSE)
              \/ /\ Succeeds(Asked(req[r])) /\ req[r].tx = "interactive"
                 /\ UNCHANGED <<tables, writes, answer>>
                 /\ Moves(r, IF Recorded(req[r]) THEN "log" ELSE "commit", FALSE)
              \/ /\ Succeeds(Asked(req[r])) /\ req[r].tx # "interactive"
                 /\ tables' = Apply(Asked(req[r])) /\ answer' = {}
                 /\ writes' = writes \cup {Committed(req[r])}
                 /\ Moves(r, IF Recorded(req[r]) THEN "log" ELSE "done", TRUE)
<1> DEFINE q == req[r]
<1>1. /\ q.pc = "query" /\ UNCHANGED <<app, log, loose, jobs, undone, lost>>
      /\ IF Succeeds(Asked(q))
           THEN /\ tables' = IF q.tx # "interactive" THEN Apply(Asked(q)) ELSE tables
                /\ writes' = IF q.tx # "interactive" THEN writes \cup {Committed(q)} ELSE writes
                /\ answer' = IF q.tx # "interactive" THEN {} ELSE answer
                /\ req' = Disturb([req EXCEPT ![r].pc = IF Recorded(q) THEN "log" ELSE PcAfter(q)],
                                  q.tx # "interactive")
           ELSE /\ req' = [req EXCEPT ![r].pc = PcFailed(q)]
                /\ UNCHANGED <<tables, writes, answer>>
    BY DEF Exec, Asked
<1>2. /\ q.job \in {"write", "upload", "remove"}
      /\ q.job # "write" => q.tx = "none"
    BY <1>1, JobKind
<1>3. /\ PcFailed(q) \in PcsOf(q.job) \ {"page", "commit", "log"}
      /\ {"log", "done"} \subseteq PcsOf(q.job)
      /\ q.tx = "interactive" => "commit" \in PcsOf(q.job)
    BY <1>2 DEF PcFailed, PcsOf
<1>4. CASE ~Succeeds(Asked(q))
    <2>1. req' = [req EXCEPT ![r].pc = PcFailed(q)] /\ UNCHANGED <<tables, writes, answer>>
        BY <1>1, <1>4
    <2>2. Moves(r, PcFailed(q), FALSE)
        BY <1>1, <1>3, <2>1, MovesRule
    <2> QED BY <1>1, <1>4, <2>1, <2>2
<1>5. CASE Succeeds(Asked(q)) /\ q.tx = "interactive"
    <2> DEFINE v == IF Recorded(q) THEN "log" ELSE "commit"
    <2>1. req' = Disturb([req EXCEPT ![r].pc = v], FALSE) /\ UNCHANGED <<tables, writes, answer>>
        BY <1>1, <1>5 DEF PcAfter
    <2>2. v \in PcsOf(q.job) /\ v # "page" /\ (v = "log" => q.p.action # "deleteMany")
        BY <1>1, <1>2, <1>3, <1>5, ActionOK
    <2> HIDE DEF v
    <2>3. Moves(r, v, FALSE)
        BY <1>1, <1>5, <2>1, <2>2, MovesRule
    <2> QED BY <1>1, <1>5, <2>1, <2>3 DEF v
<1>6. CASE Succeeds(Asked(q)) /\ q.tx # "interactive"
    <2> DEFINE v == IF Recorded(q) THEN "log" ELSE "done"
    <2>1. /\ req' = Disturb([req EXCEPT ![r].pc = v], TRUE)
          /\ tables' = Apply(Asked(q)) /\ answer' = {} /\ writes' = writes \cup {Committed(q)}
        BY <1>1, <1>6 DEF PcAfter
    <2>2. /\ v \in PcsOf(q.job) /\ v # "page" /\ v # "commit"
          /\ v = "log" => q.p.action # "deleteMany"
        BY <1>1, <1>2, <1>3, ActionOK
    <2> HIDE DEF v
    <2>3. Moves(r, v, TRUE)
        BY <1>1, <2>1, <2>2, MovesRule
    <2> QED BY <1>1, <1>6, <2>1, <2>3 DEF v
<1> QED BY <1>4, <1>5, <1>6

\* The table after a query that took effect.
LEMMA AskedTable ==
    ASSUME Shape, NEW r \in Requests, req[r].pc \in {"query", "commit"}, Succeeds(Asked(req[r])) \/ req[r].pc = "commit"
    PROVE  /\ Apply(Asked(req[r])) \in TableType(jobs)
           /\ Committed(req[r]) \in [n : 1 .. jobs, user : Users \cup {NULL}, verb : Verbs,
                                     model : {"Item", "StoredFile"}, tx : Way]
           /\ req[r].job = "write" => Apply(Asked(req[r])).StoredFile = tables.StoredFile
           /\ req[r].job # "write" => Apply(Asked(req[r])).Item = tables.Item
<1> DEFINE q == req[r]
<1>1. q.job \in {"write", "upload", "remove"} /\ (q.pc = "commit" => q.job = "write") /\ q.n \in 1 .. jobs
    BY JobKind
<1>2. CASE q.job = "write"
    <2>1. q.p \in ItemParams
        BY <1>2, JobKind
    <2>2. Apply(Asked(q)) \in TableType(jobs) /\ Apply(Asked(q)).StoredFile = tables.StoredFile
        BY <2>1, AskedItem, ItemTable DEF Shape
    <2>3. q.p.action \in Verbs /\ q.p.model = "Item"
        BY <2>1 DEF ItemParams, ParamsOf
    <2>4. q \in Jobs(jobs)
        BY JobFacts
    <2> QED BY <1>1, <1>2, <2>2, <2>3, <2>4 DEF Committed, Jobs
<1>3. CASE q.job \in {"upload", "remove"}
    <2> DEFINE act == IF q.job = "upload" THEN "create" ELSE "deleteMany"
               k == KeyOf(q)
    <2>1. q.p.model = "StoredFile"
        BY <1>3, JobKind
    <2>2. k \in Keys /\ q.p.where = {k} /\ q.p \in FileParams(act) /\ act \in {"create", "deleteMany"}
        BY <1>3, <2>1, FileKind
    <2>3. Asked(q) = Sent([q.p EXCEPT !.by = q.n]) /\ Succeeds(Asked(q))
        BY <1>1, <1>3, <2>1 DEF Asked
    <2> HIDE DEF k, act
    <2>4. tables \in TableType(jobs) /\ jobs \in Nat
        BY DEF Shape
    <2>5. FileChange(act, k, Asked(q), q.n)
        BY <1>1, <2>2, <2>3, <2>4, FileTable
    <2>6. q.p.action \in Verbs /\ q.p.model = "StoredFile"
        BY <2>2 DEF FileParams, ParamsOf, Verbs, act
    <2>7. q \in Jobs(jobs)
        BY JobFacts
    <2> QED BY <1>1, <1>3, <2>5, <2>6, <2>7 DEF FileChange, Committed, Jobs
<1> QED BY <1>1, <1>2, <1>3

LEMMA QueryFailsStep ==
    ASSUME Shape, NEW r \in Requests, QueryFails(r)
    PROVE  /\ req[r].pc = "query" /\ Moves(r, PcFailed(req[r]), FALSE)
           /\ UNCHANGED <<app, tables, log, loose, answer, jobs, writes, undone, lost>>
<1>1. /\ req[r].pc = "query" /\ req' = [req EXCEPT ![r].pc = PcFailed(req[r])]
      /\ UNCHANGED <<app, tables, log, loose, answer, jobs, writes, undone, lost>>
    BY DEF QueryFails
<1>2. PcFailed(req[r]) \in PcsOf(req[r].job) \ {"page", "commit", "log"}
    BY <1>1, JobKind DEF PcFailed, PcsOf
<1> QED BY <1>1, <1>2, MovesRule

LEMMA LogEntryStep ==
    ASSUME Shape, NEW r \in Requests, LogEntry(r)
    PROVE  /\ req[r].pc = "log" /\ Moves(r, PcAfter(req[r]), FALSE)
           /\ \/ log' = log \cup {Entry(req[r])} /\ UNCHANGED lost
              \/ lost' = lost \cup {req[r].n} /\ UNCHANGED log
           /\ UNCHANGED <<app, tables, loose, answer, jobs, writes, undone>>
<1>1. /\ req[r].pc = "log" /\ req' = [req EXCEPT ![r].pc = PcAfter(req[r])]
      /\ \/ log' = log \cup {Entry(req[r])} /\ UNCHANGED lost
         \/ lost' = lost \cup {req[r].n} /\ UNCHANGED log
      /\ UNCHANGED <<app, tables, loose, answer, jobs, writes, undone>>
    BY DEF LogEntry
<1>2. /\ req[r].job \in {"write", "upload", "remove"}
      /\ req[r].job # "write" => req[r].tx = "none"
    BY <1>1, JobKind
<1>3. PcAfter(req[r]) \in PcsOf(req[r].job) \ {"page", "log"} /\ (PcAfter(req[r]) = "commit" => req[r].tx = "interactive")
    BY <1>2 DEF PcAfter, PcsOf
<1> QED BY <1>1, <1>3, MovesRule

LEMMA CommitStep ==
    ASSUME Shape, NEW r \in Requests, Commit(r)
    PROVE  /\ req[r].pc = "commit" /\ Moves(r, "done", TRUE)
           /\ tables' = Apply(Asked(req[r])) /\ answer' = {}
           /\ writes' = writes \cup {Committed(req[r])}
           /\ UNCHANGED <<app, log, loose, jobs, undone, lost>>
<1>1. /\ req[r].pc = "commit" /\ req' = Disturb([req EXCEPT ![r].pc = "done"], TRUE)
      /\ tables' = Apply(Sent(req[r].p)) /\ answer' = {} /\ writes' = writes \cup {Committed(req[r])}
      /\ UNCHANGED <<app, log, loose, jobs, undone, lost>>
    BY DEF Commit
<1>2. req[r].job = "write" /\ req[r].p \in ItemParams
    BY <1>1, JobKind
<1>3. Asked(req[r]) = Sent(req[r].p)
    BY <1>2, AskedItem
<1>4. "done" \in PcsOf(req[r].job)
    BY <1>2 DEF PcsOf
<1> QED BY <1>1, <1>3, <1>4, MovesRule

LEMMA RollbackStep ==
    ASSUME Shape, NEW r \in Requests, Rollback(r)
    PROVE  /\ req[r].pc = "commit" /\ Moves(r, "failed", FALSE)
           /\ undone' = undone \cup {req[r].n}
           /\ UNCHANGED <<app, tables, log, loose, answer, jobs, writes, lost>>
<1>1. /\ req[r].pc = "commit" /\ req' = [req EXCEPT ![r].pc = "failed"]
      /\ undone' = undone \cup {req[r].n}
      /\ UNCHANGED <<app, tables, log, loose, answer, jobs, writes, lost>>
    BY DEF Rollback
<1>2. "failed" \in PcsOf(req[r].job)
    BY <1>1, JobKind DEF PcsOf
<1> QED BY <1>1, <1>2, MovesRule

\* The provider's steps, as they move their request.
LEMMA ProviderStep ==
    ASSUME Shape, NEW r \in Requests, Put(r) \/ Fill(r) \/ MakePublic(r) \/ Erase(r)
    PROVE  /\ req[r].job \in {"upload", "remove"} /\ req[r].pc \in {"put", "fill", "public", "erase"}
           /\ req[r].p.model = "StoredFile"
           /\ \E v \in {"fill", "public", "query", "done", "failed"} :
                req' = [req EXCEPT ![r].pc = v] /\ Moves(r, v, FALSE)
           /\ UNCHANGED <<app, tables, log, loose, answer, jobs, writes, undone, lost, crowd>>
           /\ blobs' \in [Keys -> {NULL} \cup [by : 1 .. jobs, whole : BOOLEAN]]
           /\ cause' \in [Keys -> SUBSET Causes]
<1> DEFINE q == req[r]
           k == KeyOf(q)
           B == [by : 1 .. jobs, whole : BOOLEAN]
<1>1. q.pc \in {"put", "fill", "public", "erase"}
    BY DEF Put, Fill, MakePublic, Erase
<1>2. q.job = (IF q.pc = "erase" THEN "remove" ELSE "upload") /\ q.p.model = "StoredFile"
    BY <1>1, JobKind
<1>3. k \in Keys /\ q.n \in 1 .. jobs
    BY <1>1, <1>2, FileKind
<1> HIDE DEF k, q
<1>4. /\ blobs \in [Keys -> {NULL} \cup B] /\ cause \in [Keys -> SUBSET Causes]
      /\ \A w \in BOOLEAN : Blob(q.n, w) \in B
    BY <1>3 DEF Shape, Blob
<1>5. \A c \in Causes : [cause EXCEPT ![k] = @ \cup {c}] \in [Keys -> SUBSET Causes]
    BY <1>3, <1>4
<1>6. \A b \in {NULL} \cup B : [blobs EXCEPT ![k] = b] \in [Keys -> {NULL} \cup B]
    BY <1>4
<1>7. /\ blobs' \in [Keys -> {NULL} \cup B] /\ cause' \in [Keys -> SUBSET Causes]
      /\ \E v \in {"fill", "public", "query", "done", "failed"} :
           Goto(r, v) /\ v \in PcsOf(q.job)
    <2>1. CASE Put(r)
        <3>1. q.pc = "put"
            BY <2>1 DEF Put, q
        <3>2. CASE Goto(r, "failed")
            <4>1. blobs' = [blobs EXCEPT ![k] = Blob(q.n, app.provider # "local")] \/ UNCHANGED blobs
                BY <2>1 DEF Put, q, k
            <4>2. UNCHANGED cause \/ Mark(k, "interrupted")
                BY <2>1 DEF Put, q, k
            <4>3. "failed" \in PcsOf(q.job)
                BY <1>2, <3>1 DEF PcsOf
            <4>4. Blob(q.n, app.provider # "local") \in B
                BY <1>4
            <4>5. blobs' \in [Keys -> {NULL} \cup B]
                BY <1>4, <1>6, <4>1, <4>4
            <4>6. cause' \in [Keys -> SUBSET Causes]
                BY <1>4, <1>5, <4>2 DEF Mark, Causes
            <4> QED BY <3>2, <4>3, <4>5, <4>6
        <3>3. CASE ~Goto(r, "failed")
            <4>1. \E v \in {"fill", "public", "query", "done"} : Goto(r, v)
                BY <2>1, <3>3 DEF Put, PcTracked
            <4>2. blobs' = [blobs EXCEPT ![k] = Blob(q.n, app.provider # "local")] /\ UNCHANGED cause
                BY <2>1, <3>3 DEF Put, q, k
            <4>3. {"fill", "public", "query", "done"} \subseteq PcsOf(q.job)
                BY <1>2, <3>1 DEF PcsOf
            <4>4. Blob(q.n, app.provider # "local") \in B
                BY <1>4
            <4> QED BY <1>4, <1>6, <4>1, <4>2, <4>3, <4>4
        <3> QED BY <3>2, <3>3
    <2>2. CASE Fill(r)
        <3>1. q.pc = "fill"
            BY <2>2 DEF Fill, q
        <3>2. \/ \E b \in {blobs[k], Blob(q.n, TRUE), Blob(q.n, FALSE)} : blobs' = [blobs EXCEPT ![k] = b]
              \/ UNCHANGED blobs
            BY <2>2 DEF Fill, q, k
        <3>3. blobs' \in [Keys -> {NULL} \cup B]
            BY <1>3, <1>4, <1>6, <3>2
        <3>4. (UNCHANGED cause \/ Mark(k, "interrupted")) /\ (Goto(r, PcTracked) \/ Goto(r, "failed"))
            BY <2>2 DEF Fill, q, k
        <3> QED BY <1>2, <1>4, <1>5, <3>1, <3>3, <3>4 DEF Mark, Causes, PcsOf, PcTracked
    <2>3. CASE MakePublic(r)
        <3>1. q.pc = "public" /\ UNCHANGED blobs
            BY <2>3 DEF MakePublic, q
        <3>2. (UNCHANGED cause \/ Mark(k, "interrupted")) /\ (Goto(r, PcTracked) \/ Goto(r, "failed"))
            BY <2>3 DEF MakePublic, q, k
        <3> QED BY <1>2, <1>4, <1>5, <3>1, <3>2 DEF Mark, Causes, PcsOf, PcTracked
    <2>4. CASE Erase(r)
        <3>1. q.pc = "erase" /\ (UNCHANGED blobs \/ blobs' = [blobs EXCEPT ![k] = NULL])
            BY <2>4 DEF Erase, q, k
        <3>2. (UNCHANGED cause \/ Mark(k, "interrupted")) /\ (Goto(r, PcTracked) \/ Goto(r, "failed"))
            BY <2>4 DEF Erase, q, k
        <3> QED BY <1>2, <1>4, <1>5, <1>6, <3>1, <3>2 DEF Mark, Causes, PcsOf, PcTracked
    <2> QED BY <2>1, <2>2, <2>3, <2>4
<1>8. PICK v \in {"fill", "public", "query", "done", "failed"} : Goto(r, v) /\ v \in PcsOf(q.job)
    BY <1>7
<1>9. /\ req' = [req EXCEPT ![r].pc = v]
      /\ UNCHANGED <<app, tables, log, loose, answer, jobs, writes, undone, lost, crowd>>
    BY <1>8 DEF Goto
<1>10. Moves(r, v, FALSE)
    BY <1>1, <1>8, <1>9, MovesRule DEF q
<1> QED BY <1>1, <1>2, <1>7, <1>9, <1>10 DEF q

LEMMA ReplyStep ==
    ASSUME Shape, NEW r \in Requests, Reply(r)
    PROVE  /\ req[r].pc \in {"done", "failed"} /\ req' = [req EXCEPT ![r] = Idle]
           /\ \/ loose' = loose
              \/ /\ req[r].pc = "done" /\ req[r].audited
                 /\ loose' = loose \cup {[n |-> req[r].n,
                                          user |-> IF req[r].context # NULL THEN req[r].context ELSE req[r].user,
                                          action |-> req[r].p.action, from |-> "handler"]}
           /\ UNCHANGED <<app, tables, log, answer, jobs, writes, undone, lost>>
BY DEF Reply

\* Rows of the audit log have a shape.
LEMMA EntryOK ==
    ASSUME Shape, NEW r \in Requests, req[r].pc # "idle", req[r].job # "page"
    PROVE  /\ req[r].pc = "log" => Entry(req[r]) \in Entries(jobs)
           /\ [n |-> req[r].n, user |-> IF req[r].context # NULL THEN req[r].context ELSE req[r].user,
               action |-> req[r].p.action, from |-> "handler"] \in Entries(jobs)
<1>1. /\ req[r].n \in 1 .. jobs /\ req[r].user \in Users \cup {NULL}
      /\ req[r].context \in Users \cup {NULL}
    BY JobFacts, JobKind DEF Jobs
<1>2. req[r].p.action \in Verbs
    BY ActionOK
<1>3. req[r].pc = "log" => Seen(req[r].p).action \in Verbs
    <2>1. req[r].pc = "log" => req[r].p.action # "deleteMany"
        BY JobFacts DEF JobOK
    <2> QED BY <1>2, <2>1, ActionOK DEF Verbs
<1> QED BY <1>1, <1>2, <1>3 DEF Entries, Entry

\* A query for items finds those it is for, and asks for removed ones only to read them.
LEMMA FindStep ==
    ASSUME Shape, Find
    PROVE  /\ UNCHANGED <<app, tables, log, loose, req, jobs, writes, undone, lost>>
           /\ answer' = answer \/ \E S \in SUBSET Ids : answer' = S \cap Found
<1>1. PICK asked \in BOOLEAN : \E S \in {{i} : i \in Ids} \cup {Ids} :
        LET p == Sent([Params("Item", IF S = Ids THEN "findMany" ELSE "findUnique", S) EXCEPT !.asked = asked])
        IN  /\ answer' = IF asked THEN answer ELSE Matched(p)
            /\ UNCHANGED <<app, tables, log, loose, req, jobs, writes, undone, lost>>
    BY DEF Find
<1>2. PICK S \in {{i} : i \in Ids} \cup {Ids} :
        LET p == Sent([Params("Item", IF S = Ids THEN "findMany" ELSE "findUnique", S) EXCEPT !.asked = asked])
        IN  /\ answer' = IF asked THEN answer ELSE Matched(p)
            /\ UNCHANGED <<app, tables, log, loose, req, jobs, writes, undone, lost>>
    BY <1>1
<1>3. S \in SUBSET Ids
    OBVIOUS
<1>4. CASE asked
    BY <1>2, <1>4
<1>5. CASE ~asked
    <2> DEFINE act == IF S = Ids THEN "findMany" ELSE "findUnique"
               o == Params("Item", act, S)
               p == [o EXCEPT !.asked = asked]
               R == [model : {"Item"}, action : {"findMany", "findUnique"}, where : {S}, by : {0}, skip : Nat,
                     stamp : {"keep", "clear"}, asked : {FALSE}, liveOnly : {FALSE}]
    <2>1. o \in R
        BY DEF Params
    <2> HIDE DEF o
    <2>2. p \in R
        BY <1>5, <2>1
    <2> HIDE DEF p
    <2>3. Matched(Sent(p)) = p.where \cap Found
        BY <2>2, FoundItems DEF Shape
    <2>4. p.where = S
        BY <2>2
    <2>5. answer' = Matched(Sent(p))
        BY <1>2, <1>5 DEF p, o
    <2> QED BY <1>2, <1>3, <2>3, <2>4, <2>5
<1> QED BY <1>4, <1>5

LEMMA FoundAreItems ==
    ASSUME Shape
    PROVE  Found \subseteq Ids
BY DEF Shape, Found, Live, Present, TableType

\* The set-up and the bounds stand still but when a job begins.
LEMMA KeepRule ==
    ASSUME Shape, UNCHANGED <<app, jobs>>, tables' \in TableType(jobs),
           log' \subseteq Entries(jobs), loose' \subseteq Entries(jobs),
           req' \in [Requests -> Held(jobs)], answer' \subseteq Ids,
           undone' \subseteq 1 .. jobs, lost' \subseteq 1 .. jobs,
           writes' \subseteq [n : 1 .. jobs, user : Users \cup {NULL}, verb : Verbs,
                              model : {"Item", "StoredFile"}, tx : Way],
           blobs' \in [Keys -> {NULL} \cup [by : 1 .. jobs, whole : BOOLEAN]],
           crowd' \subseteq Requests, cause' \in [Keys -> SUBSET Causes]
    PROVE  Shape'
BY DEF Shape

\* What Track does to the causes.
TrackCause(r) ==
    \/ UNCHANGED cause
    \/ Mark(KeyOf(req[r]), "swallowed")
    \/ cause' = [cause EXCEPT ![KeyOf(req[r])] = {}]

LEMMA TrackShape ==
    ASSUME Shape, NEW r \in Requests, Track(r)
    PROVE  Shape'
<1>1. (Exec(r) \/ QueryFails(r)) /\ UNCHANGED <<blobs, crowd>> /\ TrackCause(r)
    BY DEF Track, TrackCause
<1>2. cause' \in [Keys -> SUBSET Causes]
    BY <1>1 DEF TrackCause, Mark, Causes, Shape
<1>3. CASE Exec(r)
    <2>1. req[r].pc = "query"
        BY <1>3, ExecStep
    <2>2. CASE UNCHANGED <<tables, writes, answer>>
        <3>1. UNCHANGED <<app, log, loose, jobs, undone, lost>> /\ req' \in [Requests -> Held(jobs)]
            BY <1>3, ExecStep DEF Moves
        <3> QED BY <1>1, <1>2, <2>2, <3>1, KeepRule DEF Shape
    <2>3. CASE /\ Succeeds(Asked(req[r]))
               /\ tables' = Apply(Asked(req[r])) /\ answer' = {}
               /\ writes' = writes \cup {Committed(req[r])}
        <3>1. UNCHANGED <<app, log, loose, jobs, undone, lost>> /\ req' \in [Requests -> Held(jobs)]
            BY <1>3, ExecStep DEF Moves
        <3>2. /\ tables' \in TableType(jobs)
              /\ Committed(req[r]) \in [n : 1 .. jobs, user : Users \cup {NULL}, verb : Verbs,
                                     model : {"Item", "StoredFile"}, tx : Way]
            BY <2>1, <2>3, AskedTable
        <3> QED BY <1>1, <1>2, <2>3, <3>1, <3>2, KeepRule DEF Shape
    <2> QED BY <1>3, <2>2, <2>3, ExecStep
<1>4. CASE QueryFails(r)
    <2>1. /\ req' \in [Requests -> Held(jobs)]
          /\ UNCHANGED <<app, tables, log, loose, answer, jobs, writes, undone, lost>>
        BY <1>4, QueryFailsStep DEF Moves
    <2> QED BY <1>1, <1>2, <2>1, KeepRule DEF Shape
<1> QED BY <1>1, <1>3, <1>4

LEMMA ClientStepShape ==
    ASSUME Shape, NEW r \in Requests, ClientStep(r), UNCHANGED storageVars
    PROVE  Shape'
<1>0. UNCHANGED <<blobs, crowd, cause>>
    BY DEF storageVars
<1>1. CASE Write(r)
    BY <1>1, WriteShape
<1>2. CASE Page(r)
    BY <1>2, PageShape
<1>3. CASE PageQuery(r)
    BY <1>0, <1>3, PageQueryStep, FoundAreItems, KeepRule DEF Shape
<1>4. CASE LogEntry(r)
    <2>1. /\ req[r].pc = "log" /\ req' \in [Requests -> Held(jobs)]
          /\ \/ log' = log \cup {Entry(req[r])} /\ UNCHANGED lost
             \/ lost' = lost \cup {req[r].n} /\ UNCHANGED log
          /\ UNCHANGED <<app, tables, loose, answer, jobs, writes, undone>>
        BY <1>4, LogEntryStep DEF Moves
    <2>2. req[r].n \in 1 .. jobs /\ Entry(req[r]) \in Entries(jobs)
        BY <2>1, JobKind, EntryOK
    <2> QED BY <1>0, <2>1, <2>2, KeepRule DEF Shape
<1>5. CASE Commit(r)
    <2>1. /\ req[r].pc = "commit" /\ req' \in [Requests -> Held(jobs)]
          /\ tables' = Apply(Asked(req[r])) /\ answer' = {}
          /\ writes' = writes \cup {Committed(req[r])}
          /\ UNCHANGED <<app, log, loose, jobs, undone, lost>>
        BY <1>5, CommitStep DEF Moves
    <2>2. /\ tables' \in TableType(jobs)
          /\ Committed(req[r]) \in [n : 1 .. jobs, user : Users \cup {NULL}, verb : Verbs,
                                 model : {"Item", "StoredFile"}, tx : Way]
        BY <2>1, AskedTable
    <2> QED BY <1>0, <2>1, <2>2, KeepRule DEF Shape
<1>6. CASE Rollback(r)
    <2>1. /\ req[r].pc = "commit" /\ req' \in [Requests -> Held(jobs)]
          /\ undone' = undone \cup {req[r].n}
          /\ UNCHANGED <<app, tables, log, loose, answer, jobs, writes, lost>>
        BY <1>6, RollbackStep DEF Moves
    <2>2. req[r].n \in 1 .. jobs
        BY <2>1, JobKind
    <2> QED BY <1>0, <2>1, <2>2, KeepRule DEF Shape
<1> QED BY <1>1, <1>2, <1>3, <1>4, <1>5, <1>6 DEF ClientStep

LEMMA LeaveShape ==
    ASSUME Shape, NEW r \in Requests, Leave(r)
    PROVE  Shape'
<1>1. Reply(r) /\ crowd' = crowd \ {r} /\ UNCHANGED <<blobs, cause>>
    BY DEF Leave
<1>2. /\ req[r].pc \in {"done", "failed"} /\ req' = [req EXCEPT ![r] = Idle]
      /\ UNCHANGED <<app, tables, log, answer, jobs, writes, undone, lost>>
    BY <1>1, ReplyStep
<1>3. req' \in [Requests -> Held(jobs)]
    BY <1>2 DEF Shape, Held
<1>4. loose' \subseteq Entries(jobs)
    <2>1. CASE loose' = loose
        BY <2>1 DEF Shape
    <2>2. CASE /\ req[r].audited
               /\ loose' = loose \cup {[n |-> req[r].n,
                                        user |-> IF req[r].context # NULL THEN req[r].context ELSE req[r].user,
                                        action |-> req[r].p.action, from |-> "handler"]}
        <3>1. req[r].job # "page"
            BY <1>2, <2>2, JobKind
        <3> QED BY <1>2, <2>2, <3>1, EntryOK DEF Shape
    <2> QED BY <1>1, <2>1, <2>2, ReplyStep
<1> QED BY <1>1, <1>2, <1>3, <1>4, KeepRule DEF Shape

LEMMA CrashShape ==
    ASSUME Shape, Crash
    PROVE  Shape'
<1>1. /\ req' = [r \in Requests |-> Idle] /\ loose' = {} /\ crowd' = {} /\ UNCHANGED blobs
      /\ UNCHANGED <<app, tables, log, answer, jobs, writes>>
    BY DEF Crash, ClientCrash
<1>2. ASSUME NEW x \in Requests, req[x].pc # "idle", req[x].tx = "interactive" \/ req[x].pc = "log"
      PROVE  req[x].n \in 1 .. jobs
    BY <1>2, JobKind
<1>3. undone' \subseteq 1 .. jobs /\ lost' \subseteq 1 .. jobs
    BY <1>2 DEF Crash, ClientCrash, Shape
<1>4. cause' \in [Keys -> SUBSET Causes]
    BY DEF Crash, Causes, Shape
<1>5. req' \in [Requests -> Held(jobs)]
    BY <1>1 DEF Held
<1> QED BY <1>1, <1>3, <1>4, <1>5, KeepRule DEF Shape

LEMMA CleanupStep ==
    ASSUME Cleanup
    PROVE  /\ log' \subseteq log /\ \A e \in log \ log' : e.n \in lost'
           /\ lost \subseteq lost' /\ \A n \in lost' \ lost : \E e \in log : n = e.n
           /\ UNCHANGED <<app, tables, loose, req, answer, jobs, writes, undone>>
BY DEF Cleanup

(* The shape of the tables, the log and each request is inductive: what a    *)
(* request may hold is known at every await of the chain and the providers.  *)
LEMMA ShapeHolds == Spec => []Shape
<1>1. Init => Shape
    BY InitShape
<1>2. ASSUME Shape, [Next]_vars
      PROVE  Shape'
    <2>1. CASE UNCHANGED vars
        BY <1>2, <2>1, KeepRule DEF vars, clientVars, Shape
    <2>2. ASSUME NEW r \in Requests, ClientStep(r) /\ UNCHANGED storageVars
          PROVE  Shape'
        BY <1>2, <2>2, ClientStepShape
    <2>3. ASSUME NEW r \in Requests, Upload(r) \/ Delete(r)
          PROVE  Shape'
        BY <1>2, <2>3, UploadShape
    <2>4. ASSUME NEW r \in Requests, Put(r) \/ Fill(r) \/ MakePublic(r) \/ Erase(r)
          PROVE  Shape'
        <3>1. req' \in [Requests -> Held(jobs)]
            BY <1>2, <2>4, ProviderStep DEF Moves
        <3> QED BY <1>2, <2>4, <3>1, ProviderStep, KeepRule DEF Shape
    <2>5. ASSUME NEW r \in Requests, Track(r) \/ Leave(r)
          PROVE  Shape'
        BY <1>2, <2>5, TrackShape, LeaveShape
    <2>6. ASSUME NEW e \in loose, Land(e), UNCHANGED storageVars
          PROVE  Shape'
        <3>1. /\ loose' \subseteq loose /\ log' \subseteq log \cup {e}
              /\ UNCHANGED <<app, tables, req, answer, jobs, writes, undone, lost, blobs, crowd, cause>>
            BY <2>6 DEF Land, storageVars
        <3> QED BY <1>2, <3>1, KeepRule DEF Shape
    <2>7. ASSUME Find, UNCHANGED storageVars
          PROVE  Shape'
        <3>1. /\ answer' \subseteq Ids /\ UNCHANGED <<blobs, crowd, cause>>
              /\ UNCHANGED <<app, tables, log, loose, req, jobs, writes, undone, lost>>
            BY <1>2, <2>7, FindStep DEF storageVars, Shape
        <3> QED BY <1>2, <3>1, KeepRule DEF Shape
    <2>8. ASSUME Cleanup, UNCHANGED storageVars
          PROVE  Shape'
        <3>1. /\ log' \subseteq log /\ UNCHANGED <<blobs, crowd, cause>>
              /\ UNCHANGED <<app, tables, loose, req, answer, jobs, writes, undone>>
            BY <2>8, CleanupStep DEF storageVars
        <3>2. \A e \in log : e.n \in 1 .. jobs
            BY <1>2 DEF Shape, Entries
        <3>3. lost' \subseteq 1 .. jobs
            BY <1>2, <2>8, <3>2, CleanupStep DEF Shape
        <3> QED BY <1>2, <3>1, <3>3, KeepRule DEF Shape
    <2>9. CASE Crash
        BY <1>2, <2>9, CrashShape
    <2> QED BY <1>2, <2>1, <2>2, <2>3, <2>4, <2>5, <2>6, <2>7, <2>8, <2>9 DEF Next
<1> QED BY <1>1, <1>2, PTL DEF Spec

(* TypeOK holds however many requests, items, keys and jobs there are: the set-up  *)
(* is one the options allow, the rows are of jobs that began, and each request is  *)
(* where its kind of job can be.                                                   *)
THEOREM TypeCorrect == Spec => []TypeOK
<1>1. ASSUME Shape
      PROVE  TypeOK
    <2>1. AppOK(app)
        BY <1>1, AppFacts
    <2>2. \A i \in Ids : tables.Item[i] \in {NULL} \cup [by : {0}, deleted : BOOLEAN]
        BY <1>1 DEF Shape, TableType, ItemRow
    <2>3. ASSUME NEW k \in Keys
          PROVE  /\ tables.StoredFile[k] \in {NULL} \cup [by : 1 .. jobs, deleted : {FALSE}]
                 /\ blobs[k] \in {NULL} \cup [by : 1 .. jobs, whole : BOOLEAN]
                 /\ cause[k] \subseteq Causes
        BY <1>1 DEF Shape, TableType, FileRow
    <2>4. \A e \in log \cup loose : e.n \in 1 .. jobs /\ e.user \in Users \cup {NULL}
        BY <1>1 DEF Shape, Entries
    <2>5. \A r \in Requests : req[r] = Idle \/ req[r].n \in 0 .. jobs
        BY <1>1 DEF Shape, Held, Jobs
    <2> QED BY <1>1, <2>1, <2>2, <2>3, <2>4, <2>5 DEF Shape, TypeOK
<1> QED BY <1>1, ShapeHolds, PTL

--------------------------------------------------------------------------------
(* The items as LiveStore sees them. *)

\* Without soft delete no removed row is kept, for none was when the process started.
NoneKept == ~Soft => \A i \in Ids : tables.Item[i] # NULL => ~tables.Item[i].deleted

\* What a step does to the items, and to what the last query found.
ItemMove ==
    /\ app' = app
    /\ \/ tables'.Item = tables.Item /\ answer' = answer
       \/ tables'.Item = tables.Item /\ \E S \in SUBSET Ids : answer' = S \cap Found
       \/ answer' = {} /\ \E p \in ItemParams : tables' = Apply(Sent(p))

\* A query that took effect, when it ran or when its transaction was committed.
LEMMA AskedMove ==
    ASSUME Shape, NEW r \in Requests, req[r].pc \in {"query", "commit"}, app' = app, answer' = {},
           Succeeds(Asked(req[r])) \/ req[r].pc = "commit", tables' = Apply(Asked(req[r]))
    PROVE  ItemMove
<1>1. CASE req[r].job = "write"
    <2>1. req[r].p \in ItemParams
        BY <1>1, JobKind
    <2>2. tables' = Apply(Sent(req[r].p))
        BY <2>1, AskedItem
    <2> QED BY <2>1, <2>2 DEF ItemMove
<1>2. CASE req[r].job # "write"
    <2>1. tables'.Item = tables.Item
        BY <1>2, AskedTable
    <2>2. answer' = {} \cap Found
        OBVIOUS
    <2> QED BY <2>1, <2>2 DEF ItemMove
<1> QED BY <1>1, <1>2

LEMMA ItemMoves ==
    ASSUME Shape, [Next]_vars
    PROVE  ItemMove
<1>1. ASSUME UNCHANGED <<app, tables, answer>>
      PROVE  ItemMove
    BY <1>1 DEF ItemMove
<1>2. ASSUME NEW r \in Requests, Upload(r) \/ Delete(r) \/ Write(r) \/ Page(r)
      PROVE  ItemMove
    BY <1>1, <1>2 DEF Upload, Delete, Write, Page, BeginWrite, Begin
<1>3. ASSUME NEW r \in Requests, Put(r) \/ Fill(r) \/ MakePublic(r) \/ Erase(r)
      PROVE  ItemMove
    BY <1>1, <1>3, ProviderStep
<1>4. ASSUME NEW r \in Requests, LogEntry(r) \/ Rollback(r) \/ QueryFails(r) \/ Reply(r)
      PROVE  ItemMove
    BY <1>1, <1>4 DEF LogEntry, Rollback, QueryFails, Reply
<1>5. ASSUME NEW r \in Requests, PageQuery(r)
      PROVE  ItemMove
    <2>1. answer' = Ids \cap Found /\ UNCHANGED <<app, tables>>
        BY <1>5, PageQueryStep, FoundAreItems
    <2> QED BY <2>1 DEF ItemMove
<1>6. ASSUME NEW r \in Requests, Commit(r)
      PROVE  ItemMove
    BY <1>6, CommitStep, AskedMove
<1>7. ASSUME NEW r \in Requests, Exec(r)
      PROVE  ItemMove
    <2>1. req[r].pc = "query" /\ app' = app
        BY <1>7, ExecStep
    <2>2. CASE UNCHANGED <<tables, answer>>
        BY <1>1, <2>1, <2>2
    <2>3. CASE Succeeds(Asked(req[r])) /\ tables' = Apply(Asked(req[r])) /\ answer' = {}
        BY <2>1, <2>3, AskedMove
    <2> QED BY <1>7, <2>2, <2>3, ExecStep
<1>8. ASSUME Find
      PROVE  ItemMove
    BY <1>8, FindStep DEF ItemMove
<1>9. ASSUME (\E e \in loose : Land(e)) \/ Cleanup \/ Crash \/ UNCHANGED vars
      PROVE  ItemMove
    BY <1>1, <1>9 DEF Land, Cleanup, Crash, ClientCrash, vars, clientVars
<1> QED BY <1>2, <1>3, <1>4, <1>5, <1>6, <1>7, <1>8, <1>9 DEF Next, ClientStep, Track, Leave

\* The items after a write of one of a host's handlers.
ItemEffect(p, t, new) ==
    \/ new = t
    \/ \E i \in Ids :
        \/ p.action = "create" /\ new = [t EXCEPT ![i] = Row(0)]
        \/ t[i] # NULL /\ new = [t EXCEPT ![i] = [t[i] EXCEPT !.deleted = FALSE]]
    \/ ~Soft /\ new = [k \in Ids |-> IF k \in p.where THEN NULL ELSE t[k]]
    \/ Soft /\ new = [k \in Ids |-> IF k \in p.where /\ t[k] # NULL THEN [t[k] EXCEPT !.deleted = TRUE] ELSE t[k]]

LEMMA ItemEffects ==
    ASSUME tables \in TableType(jobs), NEW p \in ItemParams
    PROVE  ItemEffect(p, tables.Item, Apply(Sent(p)).Item)
<1> DEFINE s == Sent(p)
           t == tables.Item
           new == Apply(s).Item
           hit == IF s.action = "create" THEN s.where ELSE Matched(s)
<1>1. /\ s.model = "Item" /\ s.where = p.where /\ s.by = 0 /\ ~s.liveOnly
      /\ p.action \in {"create", "update"} \/ ~Soft => s = p
      /\ p.action \in {"delete", "deleteMany"} /\ Soft => s.action \in {"update", "updateMany"} /\ s.stamp = "set"
    BY SentItem
<1>2. /\ p.action \in Verbs /\ p.stamp \in {"keep", "clear"} /\ p.where \subseteq Ids
      /\ p.stamp = "clear" => p.action = "update"
      /\ p.action # "deleteMany" => \E i \in Ids : p.where = {i}
    BY DEF ItemParams, ParamsOf
<1>3. t = [k \in Ids |-> t[k]] /\ DOMAIN t = Ids
    BY DEF TableType
<1> HIDE DEF s
<1>4. new = [k \in Ids |-> IF k \in hit THEN Changed(s, t[k]) ELSE t[k]]
    BY <1>1, ApplyItem
<1>5. s.action # "create" => hit = {k \in p.where : t[k] # NULL}
    BY <1>1, <1>2, <1>3 DEF Matched, Present
<1> HIDE DEF hit, new, t
<1>6. CASE p.action = "create"
    <2>1. PICK i \in Ids : p.where = {i}
        BY <1>2, <1>6
    <2>2. s.action = "create" /\ s.by = 0
        BY <1>1, <1>6
    <2>3. hit = {i} /\ Changed(s, t[i]) = Row(0)
        BY <1>1, <2>1, <2>2 DEF hit, Changed
    <2>4. new = [t EXCEPT ![i] = Row(0)]
        BY <1>3, <1>4, <2>3
    <2> QED BY <1>6, <2>4 DEF ItemEffect, new, t, s
<1>7. CASE p.action = "update"
    <2>1. PICK i \in Ids : p.where = {i}
        BY <1>2, <1>7
    <2>2. s.action = "update" /\ s.stamp = p.stamp
        BY <1>1, <1>7
    <2>3. hit = {k \in {i} : t[k] # NULL}
        BY <1>5, <2>1, <2>2
    <2>4. Changed(s, t[i]) = IF s.stamp = "keep" THEN t[i] ELSE [t[i] EXCEPT !.deleted = s.stamp = "set"]
        BY <2>2 DEF Changed
    <2>5. CASE p.stamp = "keep" \/ t[i] = NULL
        <3>1. new = t
            BY <1>3, <1>4, <2>2, <2>3, <2>4, <2>5
        <3> QED BY <3>1 DEF ItemEffect, new, t, s
    <2>6. CASE p.stamp = "clear" /\ t[i] # NULL
        <3>0. (s.stamp = "set") = FALSE
            BY <2>2, <2>6
        <3> DEFINE row == [t[i] EXCEPT !.deleted = FALSE]
        <3>1. Changed(s, t[i]) = row
            BY <2>2, <2>4, <2>6, <3>0
        <3> HIDE DEF row
        <3>2. new = [t EXCEPT ![i] = row]
            BY <1>3, <1>4, <2>3, <2>6, <3>1
        <3> QED BY <2>6, <3>2 DEF ItemEffect, new, t, s, row
    <2> QED BY <1>2, <2>5, <2>6
<1>8. CASE p.action \in {"delete", "deleteMany"} /\ ~Soft
    <2>1. s.action \in {"delete", "deleteMany"}
        BY <1>1, <1>8
    <2>2. \A k : Changed(s, t[k]) = NULL
        BY <2>1 DEF Changed
    <2>3. hit = {k \in p.where : t[k] # NULL}
        BY <1>5, <2>1
    <2>4. new = [k \in Ids |-> IF k \in p.where THEN NULL ELSE t[k]]
        BY <1>4, <2>2, <2>3
    <2> QED BY <1>8, <2>4 DEF ItemEffect, new, t, s
<1>9. CASE p.action \in {"delete", "deleteMany"} /\ Soft
    <2>1. s.action \in {"update", "updateMany"} /\ s.stamp = "set"
        BY <1>1, <1>9
    <2>2. \A k : Changed(s, t[k]) = [t[k] EXCEPT !.deleted = TRUE]
        BY <2>1 DEF Changed
    <2>3. hit = {k \in p.where : t[k] # NULL}
        BY <1>5, <2>1
    <2>4. new = [k \in Ids |-> IF k \in p.where /\ t[k] # NULL THEN [t[k] EXCEPT !.deleted = TRUE] ELSE t[k]]
        BY <1>4, <2>2, <2>3
    <2> QED BY <1>9, <2>4 DEF ItemEffect, new, t, s
<1> QED BY <1>2, <1>6, <1>7, <1>8, <1>9 DEF Verbs

\* The live rows and the removed ones, by their ids.
LEMMA LiveRows ==
    ASSUME NEW t \in [Ids -> {NULL} \cup ItemRow]
    PROVE  /\ Live(t) = {i \in Ids : t[i] # NULL /\ ~t[i].deleted}
           /\ Removed(t) = {i \in Ids : t[i] # NULL /\ t[i].deleted}
BY DEF Live, Removed, Present

\* A row is not NULL, and marking it changes nothing else.
LEMMA MarkedRow ==
    ASSUME NEW d \in BOOLEAN
    PROVE  /\ Row(0) \in ItemRow /\ Row(0) # NULL /\ ~Row(0).deleted
           /\ \A row \in ItemRow : /\ row # NULL /\ [row EXCEPT !.deleted = d] \in ItemRow
                                   /\ [row EXCEPT !.deleted = d] # NULL
                                   /\ [row EXCEPT !.deleted = d].deleted = d
<1>1. ItemRow \subseteq [by : Nat, deleted : BOOLEAN]
    BY DEF ItemRow
<1>2. NULL \notin ItemRow
    BY <1>1, RowAssumption
<1>3. Row(0) \in ItemRow /\ ~Row(0).deleted
    BY DEF Row, ItemRow
<1>4. ASSUME NEW row \in ItemRow
      PROVE  [row EXCEPT !.deleted = d] \in ItemRow /\ [row EXCEPT !.deleted = d].deleted = d
    BY <1>4 DEF ItemRow
<1> QED BY <1>2, <1>3, <1>4

\* What a write does to the two sets: it creates a row, restores one, or removes some.
SetEffect(L, R, L1, R1) ==
    \/ L1 = L /\ R1 = R
    \/ \E i \in Ids : i \notin L \cup R /\ L1 = L \cup {i} /\ R1 = R
    \/ \E i \in R : L1 = L \cup {i} /\ R1 = R \ {i}
    \/ \E S \in SUBSET L : S # {} /\ L1 = L \ S /\ R1 \in {R, R \cup S}

LEMMA SetEffects ==
    ASSUME NEW t \in [Ids -> {NULL} \cup ItemRow], NEW new \in [Ids -> {NULL} \cup ItemRow],
           NEW p \in ItemParams, ItemEffect(p, t, new),
           ~Soft => \A i \in Ids : t[i] # NULL => ~t[i].deleted
    PROVE  /\ SetEffect(Live(t), Removed(t), Live(new), Removed(new))
           /\ ~Soft => \A i \in Ids : new[i] # NULL => ~new[i].deleted
<1> DEFINE L == Live(t)  R == Removed(t)  L1 == Live(new)  R1 == Removed(new)
<1>1. /\ L = {i \in Ids : t[i] # NULL /\ ~t[i].deleted} /\ R = {i \in Ids : t[i] # NULL /\ t[i].deleted}
      /\ L1 = {i \in Ids : new[i] # NULL /\ ~new[i].deleted} /\ R1 = {i \in Ids : new[i] # NULL /\ new[i].deleted}
    BY LiveRows
<1>2. \A i \in Ids : t[i] # NULL => t[i] \in ItemRow /\ t[i].deleted \in BOOLEAN
    BY DEF ItemRow
<1>3. p.where \subseteq Ids
    BY DEF ItemParams, ParamsOf
<1> HIDE DEF L, R, L1, R1
<1>4. CASE new = t
    BY <1>1, <1>4 DEF SetEffect, L, R, L1, R1
<1>5. ASSUME NEW i \in Ids, NEW row \in ItemRow, row # NULL, ~row.deleted, new = [t EXCEPT ![i] = row]
      PROVE  /\ SetEffect(L, R, L1, R1)
             /\ ~Soft => \A x \in Ids : new[x] # NULL => ~new[x].deleted
    <2>1. \A x \in Ids : new[x] = IF x = i THEN row ELSE t[x]
        BY <1>5
    <2>2. L1 = L \cup {i} /\ R1 = R \ {i}
        BY <1>1, <1>5, <2>1
    <2>3. i \in R \/ i \in L \/ i \notin L \cup R
        OBVIOUS
    <2>4. ~(i \in L /\ i \in R)
        BY <1>1
    <2>5. CASE i \in L
        <3>1. L1 = L /\ R1 = R
            BY <2>2, <2>4, <2>5
        <3> QED BY <1>5, <2>1, <3>1 DEF SetEffect
    <2>6. CASE i \in R
        BY <1>5, <2>1, <2>2, <2>6 DEF SetEffect
    <2>7. CASE i \notin L \cup R
        <3>1. R1 = R
            BY <2>2, <2>7
        <3> QED BY <1>5, <2>1, <2>2, <2>7, <3>1 DEF SetEffect
    <2> QED BY <2>3, <2>5, <2>6, <2>7
<1>6. ASSUME NEW i \in Ids, p.action = "create", new = [t EXCEPT ![i] = Row(0)]
      PROVE  /\ SetEffect(L, R, L1, R1)
             /\ ~Soft => \A x \in Ids : new[x] # NULL => ~new[x].deleted
    BY <1>5, <1>6, MarkedRow
<1>7. ASSUME NEW i \in Ids, t[i] # NULL, new = [t EXCEPT ![i] = [t[i] EXCEPT !.deleted = FALSE]]
      PROVE  /\ SetEffect(L, R, L1, R1)
             /\ ~Soft => \A x \in Ids : new[x] # NULL => ~new[x].deleted
    <2> DEFINE row == [t[i] EXCEPT !.deleted = FALSE]
    <2>1. row \in ItemRow /\ row # NULL /\ row.deleted = FALSE
        BY <1>2, <1>7, MarkedRow
    <2>2. new = [t EXCEPT ![i] = row]
        BY <1>7
    <2> HIDE DEF row
    <2> QED BY <1>5, <2>1, <2>2
<1>8. CASE ~Soft /\ new = [k \in Ids |-> IF k \in p.where THEN NULL ELSE t[k]]
    <2> DEFINE S == p.where \cap L
    <2>1. \A x \in Ids : new[x] = IF x \in p.where THEN NULL ELSE t[x]
        BY <1>8
    <2>2. R = {} /\ R1 = {} /\ \A x \in Ids : new[x] # NULL => ~new[x].deleted
        BY <1>1, <1>8, <2>1
    <2>3. L1 = L \ S
        BY <1>1, <2>1
    <2> QED BY <2>2, <2>3 DEF SetEffect, L, R, L1, R1
<1>9. CASE Soft /\ new = [k \in Ids |-> IF k \in p.where /\ t[k] # NULL THEN [t[k] EXCEPT !.deleted = TRUE] ELSE t[k]]
    <2> DEFINE S == p.where \cap L
    <2>1. ASSUME NEW x \in Ids
          PROVE  IF x \in p.where /\ t[x] # NULL THEN new[x] # NULL /\ new[x].deleted ELSE new[x] = t[x]
        <3>1. CASE x \in p.where /\ t[x] # NULL
            <4>1. new[x] = [t[x] EXCEPT !.deleted = TRUE]
                BY <1>9, <3>1
            <4> QED BY <1>2, <3>1, <4>1, MarkedRow
        <3>2. CASE ~(x \in p.where /\ t[x] # NULL)
            BY <1>9, <3>2
        <3> QED BY <3>1, <3>2
    <2>2. L1 = L \ S /\ R1 = R \cup S
        BY <1>1, <1>2, <2>1
    <2> QED BY <1>9, <2>2 DEF SetEffect, L, R, L1, R1
<1> QED BY <1>4, <1>6, <1>7, <1>8, <1>9 DEF ItemEffect, L, R, L1, R1

\* A step of the client is a step of the store, or none.
LEMMA StoreStep ==
    ASSUME Shape, NoneKept, [Next]_vars, Shape'
    PROVE  [LiveItems!Next]_(LiveItems!vars) /\ NoneKept'
<1> DEFINE t == tables.Item  new == tables'.Item
<1>1. ItemMove /\ Soft' = Soft
    BY ItemMoves DEF ItemMove, Soft, Uses
<1>2. t \in [Ids -> {NULL} \cup ItemRow] /\ new \in [Ids -> {NULL} \cup ItemRow]
    BY DEF Shape, TableType
<1>3. Found = Live(t)
    <2>1. ~Soft => Present(t) = Live(t)
        BY <1>2 DEF NoneKept, Present, Live
    <2> QED BY <2>1 DEF Found
<1>4. CASE tables'.Item = tables.Item /\ answer' = answer
    <2>1. UNCHANGED LiveItems!vars
        BY <1>4 DEF LiveItems!vars, Live, Removed, Present
    <2> QED BY <1>1, <1>4, <2>1 DEF NoneKept
<1>5. ASSUME tables'.Item = tables.Item, NEW S \in SUBSET Ids, answer' = S \cap Found
      PROVE  LiveItems!Next /\ NoneKept'
    <2>1. LiveItems!Read(S)
        BY <1>3, <1>5 DEF LiveItems!Read, Live, Removed, Present
    <2> QED BY <1>1, <1>5, <2>1 DEF NoneKept, LiveItems!Next
<1>6. ASSUME answer' = {}, NEW p \in ItemParams, tables' = Apply(Sent(p))
      PROVE  LiveItems!Next /\ NoneKept'
    <2>1. ItemEffect(p, t, new)
        BY <1>6, ItemEffects DEF Shape
    <2>2. /\ SetEffect(Live(t), Removed(t), Live(new), Removed(new))
          /\ ~Soft => \A i \in Ids : new[i] # NULL => ~new[i].deleted
        <3> HIDE DEF t, new
        <3>1. ~Soft => \A i \in Ids : t[i] # NULL => ~t[i].deleted
            BY DEF NoneKept, t
        <3> QED BY <1>2, <2>1, <3>1, SetEffects
    <2> DEFINE L == Live(t)  R == Removed(t)  L1 == Live(new)  R1 == Removed(new)
    <2>3. L' = L1 /\ R' = R1
        BY DEF Live, Removed, Present
    <2>4. L \subseteq Ids /\ L1 \subseteq Ids /\ R \subseteq Ids
        BY <1>2, LiveRows
    <2> HIDE DEF L1, R1
    <2>5. LiveItems!Next
        <3>1. CASE L1 = L /\ R1 = R
            <4>1. LiveItems!Read({})
                BY <1>6, <2>3, <3>1 DEF LiveItems!Read
            <4> QED BY <4>1 DEF LiveItems!Next
        <3>2. ASSUME NEW i \in Ids, i \notin L \cup R /\ L1 = L \cup {i} /\ R1 = R
              PROVE  LiveItems!Next
            BY <1>6, <2>3, <3>2 DEF LiveItems!Create, LiveItems!Next
        <3>3. ASSUME NEW i \in R, L1 = L \cup {i} /\ R1 = R \ {i}
              PROVE  LiveItems!Next
            BY <1>6, <2>3, <2>4, <3>3 DEF LiveItems!Restore, LiveItems!Next
        <3>4. ASSUME NEW S \in SUBSET L, S # {} /\ L1 = L \ S /\ R1 \in {R, R \cup S}
              PROVE  LiveItems!Next
            <4>1. LiveItems!Remove(S)
                BY <1>6, <2>3, <3>4 DEF LiveItems!Remove
            <4> QED BY <2>4, <4>1 DEF LiveItems!Next
        <3> QED BY <2>2, <3>1, <3>2, <3>3, <3>4 DEF SetEffect, L1, R1
    <2> QED BY <1>1, <2>2, <2>5 DEF NoneKept
<1> QED BY <1>1, <1>4, <1>5, <1>6 DEF ItemMove

(* ImplementsLiveStore holds for any items, requests and set-ups: whichever way    *)
(* the plugins are composed, a row that a step removed is found by no later        *)
(* findMany, findUnique or count until it is restored, and nothing else is hidden. *)
(* It rests on NoneKept: where soft delete does not cover the items, no row is     *)
(* marked, so a query that is not narrowed finds the live rows and no others.      *)
THEOREM ClientImplementsLiveStore == Spec => ImplementsLiveStore
<1>1. Init => LiveItems!Init /\ NoneKept
    <2> SUFFICES ASSUME Init PROVE LiveItems!Init /\ NoneKept
        OBVIOUS
    <2>1. Shape
        BY InitShape
    <2>2. tables.Item \in [Ids -> {NULL} \cup ItemRow]
        BY <2>1 DEF Shape, TableType
    <2>3. LiveItems!Init
        BY <2>2, LiveRows DEF LiveItems!Init, Init, ClientInit
    <2>4. app.gone # {} => Soft
        <3>1. app.gone # {} => app.chain \in {<<"soft", "audit">>, <<"audit", "soft">>} /\ "Item" \in app.models
            BY <2>1, AppFacts DEF AppOK
        <3>2. app.chain \in {<<"soft", "audit">>, <<"audit", "soft">>} => Uses("soft")
            BY DEF Uses
        <3> QED BY <3>1, <3>2 DEF Soft
    <2>5. ASSUME app.gone = {}, NEW i \in Ids, tables.Item[i] # NULL
          PROVE  ~tables.Item[i].deleted
        <3>1. tables.Item[i] = Row(0)
            BY <2>5 DEF Init, ClientInit
        <3> QED BY <3>1 DEF Row
    <2>6. NoneKept
        BY <2>4, <2>5 DEF NoneKept
    <2> QED BY <2>3, <2>6
<1>2. Shape /\ NoneKept /\ [Next]_vars /\ Shape' => [LiveItems!Next]_(LiveItems!vars) /\ NoneKept'
    BY StoreStep
<1> QED BY <1>1, <1>2, ShapeHolds, PTL DEF Spec, ImplementsLiveStore, LiveItems!Spec

\* What LiveStore promises then holds of the Prisma client: an answer to a query that does
\* not ask for removed rows holds rows that are live, and never one that a soft deletion
\* keeps aside (soft-delete.extension.ts; prisma.service.ts in either order of extensions).
THEOREM AnswersAreLive == Spec => []LiveItems!TypeOK
<1>1. LiveItems!Init => LiveItems!TypeOK
    BY DEF LiveItems!Init, LiveItems!TypeOK
<1>2. ASSUME LiveItems!TypeOK, [LiveItems!Next]_(LiveItems!vars) PROVE LiveItems!TypeOK'
    <2> USE DEF LiveItems!TypeOK
    <2>1. ASSUME NEW i \in Ids, LiveItems!Create(i) PROVE LiveItems!TypeOK'
        BY <1>2, <2>1 DEF LiveItems!Create
    <2>2. ASSUME NEW i \in Ids, LiveItems!Restore(i) PROVE LiveItems!TypeOK'
        BY <1>2, <2>2 DEF LiveItems!Restore
    <2>3. ASSUME NEW S \in SUBSET Ids, LiveItems!Remove(S) PROVE LiveItems!TypeOK'
        BY <1>2, <2>3 DEF LiveItems!Remove
    <2>4. ASSUME NEW S \in SUBSET Ids, LiveItems!Read(S) PROVE LiveItems!TypeOK'
        BY <1>2, <2>4 DEF LiveItems!Read
    <2>5. CASE UNCHANGED LiveItems!vars
        BY <1>2, <2>5 DEF LiveItems!vars
    <2> QED BY <1>2, <2>1, <2>2, <2>3, <2>4, <2>5 DEF LiveItems!Next
<1>3. LiveItems!TypeOK /\ [LiveItems!Next]_(LiveItems!vars) => LiveItems!TypeOK'
    BY <1>2
<1> QED BY <1>1, <1>3, ClientImplementsLiveStore, PTL DEF ImplementsLiveStore, LiveItems!Spec

--------------------------------------------------------------------------------
(* Pages. *)

\* While it stays quiet, what a page has read is what the items are; then it is done.
PageOK(q, found) ==
    q.pc # "idle" /\ q.job = "page" /\ q.quiet =>
        /\ q.pc = "page" => /\ "count" \notin q.todo => q.total = found
                            /\ "findMany" \notin q.todo => q.rows = Slice(found, q.p.skip)
        /\ q.pc = "done" => q.rows = Slice(q.total, q.p.skip)

PagesOK == \A x \in Requests : PageOK(req[x], Found)

\* Another job's move spoils a page only when it tells it.
LEMMA PagesStir ==
    ASSUME Shape, PagesOK, NEW r \in Requests, req[r].pc # "idle", req[r].job # "page",
           NEW v, NEW stir \in BOOLEAN, Moves(r, v, stir), stir \/ Found' = Found
    PROVE  PagesOK'
<1> SUFFICES ASSUME NEW x \in Requests
             PROVE  PageOK(req'[x], Found')
    BY DEF PagesOK, PageOK
<1>1. CASE x = r
    BY <1>1, MovesFacts DEF PageOK
<1>2. CASE x # r /\ req[x].pc # "page"
    <2>1. req'[x] = req[x]
        BY <1>2, MovesFacts
    <2> QED BY <1>2, <2>1 DEF PagesOK, PageOK
<1>3. CASE x # r /\ req[x].pc = "page"
    <2>1. /\ req'[x].pc = "page" /\ req'[x].job = req[x].job /\ req'[x].p = req[x].p
          /\ req'[x].todo = req[x].todo
          /\ req'[x].rows = req[x].rows /\ req'[x].total = req[x].total
          /\ req'[x].quiet => req[x].quiet /\ ~stir
        BY <1>3, MovesFacts
    <2> QED BY <1>3, <2>1 DEF PagesOK, PageOK
<1> QED BY <1>1, <1>2, <1>3

\* So does a request that becomes another job, or none.
LEMMA PagesOthers ==
    ASSUME Shape, PagesOK, Found' = Found, NEW r \in Requests,
           \A x \in Requests \ {r} : req'[x] = req[x], PageOK(req'[r], Found)
    PROVE  PagesOK'
BY DEF PagesOK, PageOK

LEMMA PagesStep ==
    ASSUME Shape, PagesOK, [Next]_vars
    PROVE  PagesOK'
<1>0. ASSUME UNCHANGED <<app, tables>>
      PROVE  Found' = Found
    BY <1>0 DEF Found, Soft, Uses, Live, Present
<1>1. ASSUME UNCHANGED <<app, tables, req>>
      PROVE  PagesOK'
    BY <1>0, <1>1 DEF PagesOK, PageOK
<1>2. ASSUME NEW r \in Requests, Write(r) \/ Upload(r) \/ Delete(r)
      PROVE  PagesOK'
    <2>1. ASSUME NEW job \in {"write", "upload", "remove"}, NEW p, NEW pc, NEW tx, NEW au,
                 \/ BeginWrite(r, [Job(job, p) EXCEPT !.pc = pc])
                 \/ BeginWrite(r, [Job(job, p) EXCEPT !.tx = tx, !.audited = au])
          PROVE  PagesOK'
        <3> DEFINE j == Job(job, p)
        <3>1. \E q : /\ BeginWrite(r, q)
                     /\ q = [j EXCEPT !.pc = pc] \/ q = [j EXCEPT !.tx = tx, !.audited = au]
            BY <2>1
        <3>2. PICK q : /\ BeginWrite(r, q)
                       /\ q = [j EXCEPT !.pc = pc] \/ q = [j EXCEPT !.tx = tx, !.audited = au]
            BY <3>1
        <3>3. j.job = job /\ DOMAIN j = {"pc", "job", "n", "user", "context", "p", "tx", "audited", "todo", "rows", "total", "quiet"}
            BY DEF Job
        <3> HIDE DEF j
        <3>4. q.job = job /\ DOMAIN q = DOMAIN j
            BY <3>2, <3>3
        <3>5. PICK u \in Users : \E c \in Contexts(u) :
                Begin(r, [q EXCEPT !.n = jobs + 1, !.user = u, !.context = c])
            BY <3>2 DEF BeginWrite
        <3>6. PICK c \in Contexts(u) :
                Begin(r, [q EXCEPT !.n = jobs + 1, !.user = u, !.context = c])
            BY <3>5
        <3> DEFINE h == [q EXCEPT !.n = jobs + 1, !.user = u, !.context = c]
        <3>7. h.job = job
            BY <3>3, <3>4
        <3> HIDE DEF h
        <3>8. req' = [req EXCEPT ![r] = h] /\ UNCHANGED <<app, tables>>
            BY <3>6 DEF Begin, h
        <3>9. req'[r] = h /\ \A x \in Requests \ {r} : req'[x] = req[x]
            BY <3>8 DEF Shape
        <3>10. PageOK(req'[r], Found)
            BY <3>7, <3>9 DEF PageOK
        <3> QED BY <1>0, <3>8, <3>9, <3>10, PagesOthers
    <2>2. CASE Write(r)
        BY <2>1, <2>2 DEF Write
    <2>3. CASE Upload(r)
        BY <2>1, <2>3 DEF Upload
    <2>4. CASE Delete(r)
        BY <2>1, <2>4 DEF Delete
    <2> QED BY <1>2, <2>2, <2>3, <2>4
<1>3. ASSUME NEW r \in Requests, Page(r)
      PROVE  PagesOK'
    <2>1. PICK page \in 0 .. 1 :
            Begin(r, [Job("page", [Params("Item", "findMany", Ids) EXCEPT !.skip = page * Limit])
                          EXCEPT !.pc = "page", !.todo = {"findMany", "count"}])
        BY <1>3 DEF Page
    <2> DEFINE p == [Params("Item", "findMany", Ids) EXCEPT !.skip = page * Limit]
               q == [Job("page", p) EXCEPT !.pc = "page", !.todo = {"findMany", "count"}]
    <2>2. p \in PageParams
        BY PageParamsOK
    <2> HIDE DEF p
    <2>3. q.pc = "page" /\ q.todo = {"findMany", "count"}
        BY <2>2, PageBegins
    <2> HIDE DEF q
    <2>4. req' = [req EXCEPT ![r] = q] /\ UNCHANGED <<app, tables>>
        BY <2>1 DEF Begin, q, p
    <2>5. req'[r] = q /\ \A x \in Requests \ {r} : req'[x] = req[x]
        BY <2>4 DEF Shape
    <2> QED BY <1>0, <2>3, <2>4, <2>5, PagesOthers DEF PageOK
<1>4. ASSUME NEW r \in Requests, PageQuery(r)
      PROVE  PagesOK'
    <2>1. PageOK(req[r], Found) /\ req[r].pc = "page"
        BY <1>4 DEF PagesOK, PageQuery
    <2>2. PageOK(req'[r], Found)
        BY <1>4, <2>1, PageQueryStep DEF PageOK
    <2> QED BY <1>0, <1>4, <2>2, PageQueryStep, PagesOthers
<1>5. ASSUME NEW r \in Requests, LogEntry(r) \/ Rollback(r) \/ QueryFails(r)
      PROVE  PagesOK'
    <2>1. req[r].pc # "idle" /\ req[r].job # "page" /\ UNCHANGED <<app, tables>>
        BY <1>5, JobKind DEF LogEntry, Rollback, QueryFails
    <2>2. \E v : Moves(r, v, FALSE)
        BY <1>5, LogEntryStep, RollbackStep, QueryFailsStep
    <2> QED BY <1>0, <2>1, <2>2, PagesStir
<1>6. ASSUME NEW r \in Requests, Put(r) \/ Fill(r) \/ MakePublic(r) \/ Erase(r)
      PROVE  PagesOK'
    <2>1. req[r].pc # "idle" /\ req[r].job # "page" /\ UNCHANGED <<app, tables>>
        BY <1>6, ProviderStep
    <2>2. \E v : Moves(r, v, FALSE)
        BY <1>6, ProviderStep
    <2> QED BY <1>0, <2>1, <2>2, PagesStir
<1>7. ASSUME NEW r \in Requests, Commit(r)
      PROVE  PagesOK'
    <2>1. req[r].pc = "commit" /\ Moves(r, "done", TRUE)
        BY <1>7, CommitStep
    <2> QED BY <2>1, JobKind, PagesStir
<1>8. ASSUME NEW r \in Requests, Exec(r)
      PROVE  PagesOK'
    <2>1. req[r].pc = "query" /\ req[r].job # "page" /\ app' = app
        BY <1>8, ExecStep, JobKind
    <2>2. \E v : Moves(r, v, TRUE) \/ (Moves(r, v, FALSE) /\ UNCHANGED tables)
        BY <1>8, ExecStep
    <2> QED BY <1>0, <2>1, <2>2, PagesStir
<1>9. ASSUME NEW r \in Requests, Reply(r)
      PROVE  PagesOK'
    <2>1. req' = [req EXCEPT ![r] = Idle] /\ UNCHANGED <<app, tables>>
        BY <1>9, ReplyStep
    <2>2. req'[r] = Idle /\ \A x \in Requests \ {r} : req'[x] = req[x]
        BY <2>1 DEF Shape
    <2> QED BY <1>0, <2>1, <2>2, PagesOthers DEF PageOK
<1>10. ASSUME Crash
       PROVE  PagesOK'
    <2>1. req' = [r \in Requests |-> Idle]
        BY <1>10 DEF Crash, ClientCrash
    <2> QED BY <2>1 DEF PagesOK, PageOK
<1>11. ASSUME (\E e \in loose : Land(e)) \/ Find \/ Cleanup \/ UNCHANGED vars
       PROVE  PagesOK'
    BY <1>1, <1>11 DEF Land, Find, Cleanup, vars, clientVars
<1> QED BY <1>2, <1>3, <1>4, <1>5, <1>6, <1>7, <1>8, <1>9, <1>10, <1>11 DEF Next, ClientStep, Track, Leave

(* PageIsSlice holds for any page size and however the two queries of a page, the  *)
(* writes and the commits of other requests interleave: what a page has read stays *)
(* what the items are until a write of them, and a write tells every open page.    *)
THEOREM PagesAreSlices == Spec => []PageIsSlice
<1>1. Init => PagesOK
    BY DEF Init, ClientInit, PagesOK, PageOK
<1>2. Shape /\ PagesOK /\ [Next]_vars => PagesOK'
    BY PagesStep
<1>3. PagesOK => PageIsSlice
    BY DEF PagesOK, PageOK, PageIsSlice
<1> QED BY <1>1, <1>2, <1>3, ShapeHolds, PTL DEF Spec

--------------------------------------------------------------------------------
(* The audit log. *)

\* A row tells of a write: who made it, or nobody, and what was asked for.
Tells(e, w) ==
    /\ w.n = e.n
    /\ e.user \in {w.user, IF e.from = "client" THEN NULL ELSE w.user}
    /\ e.action = w.verb \/ (SoftOutside /\ w.verb = "delete" /\ e.action = "update")

\* A row has its write, or the transaction it is of is still open or was rolled back.
Backed(e) ==
    \/ e.n \in undone
    \/ \E r \in Requests : req[r].pc = "commit" /\ Tells(e, Committed(req[r]))
    \/ \E w \in writes : Tells(e, w)

Logged(n) == n \in lost \/ \E e \in log : e.n = n /\ e.from = "client"

\* A write the audit log is told to leave out.
LeftOut(w) ==
    \/ w.verb \notin {"create", "update", "delete"} \/ w.model \in app.exclude
    \/ ~Uses("wrapped") /\ ~app.trackChanges
         /\ (w.verb = "update" \/ (SoftOutside /\ w.verb = "delete" /\ w.model \in app.models))
    \/ Uses("wrapped") /\ w.tx # "none"

\* A job's context is its user's or nobody's; what it is about to log or has done it
\* has written, and what it is about to commit is in the log already.
JobAudit(q) ==
    q.pc # "idle" /\ q.job # "page" =>
        /\ q.context \in {q.user, NULL}
        /\ q.pc = "log" /\ q.tx # "interactive" => Committed(q) \in writes
        /\ q.pc = "done" /\ q.job = "write" => Committed(q) \in writes
        /\ q.pc = "commit" => LeftOut(Committed(q)) \/ Logged(q.n)

AuditOK ==
    /\ \A e \in log \cup loose : Backed(e)
    /\ \A r \in Requests : JobAudit(req[r])
    /\ \A w \in writes : \/ LeftOut(w) \/ Logged(w.n)
                         \/ \E r \in Requests : req[r].pc = "log" /\ req[r].n = w.n

\* One request does something, and the others at most hear of a write.
LEMMA AuditRule ==
    ASSUME AuditOK, NEW r \in Requests, app' = app, writes \subseteq writes', undone \subseteq undone',
           \A x \in Requests \ {r} :
               \/ req'[x] = req[x]
               \/ req[x].pc = "page" /\ req'[x].pc = "page" /\ req'[x].job = "page",
           \A n : Logged(n) => Logged(n)',
           \A e \in (log \cup loose)' \ (log \cup loose) : Backed(e)',
           req[r].pc = "commit" => req[r].n \in undone' \/ Committed(req[r]) \in writes',
           req[r].pc = "log" => req[r].n \in lost' \/ \E e \in log' : e.n = req[r].n /\ e.from = "client",
           JobAudit(req[r])',
           \A w \in writes' \ writes :
               LeftOut(w) \/ Logged(w.n)' \/ (req'[r].pc = "log" /\ req'[r].n = w.n)
    PROVE  AuditOK'
<1>0. /\ SoftOutside' = SoftOutside
      /\ \A m : Uses(m)' = Uses(m)
    BY DEF SoftOutside, Uses
<1>1. /\ \A e, w : Tells(e, w)' <=> Tells(e, w)
      /\ \A w : LeftOut(w)' <=> LeftOut(w)
    BY <1>0 DEF Tells, LeftOut
<1>2. ASSUME NEW e \in log \cup loose
      PROVE  Backed(e)'
    <2>1. CASE e.n \in undone
        BY <2>1 DEF Backed
    <2>2. ASSUME NEW w \in writes, Tells(e, w)
          PROVE  Backed(e)'
        BY <1>1, <2>2 DEF Backed
    <2>3. ASSUME NEW x \in Requests, req[x].pc = "commit", Tells(e, Committed(req[x]))
          PROVE  Backed(e)'
        <3>1. CASE x # r
            <4>1. req'[x] = req[x]
                BY <2>3, <3>1
            <4>2. Committed(req[x])' = Committed(req[x])
                BY <4>1 DEF Committed
            <4> QED BY <1>1, <2>3, <4>1, <4>2 DEF Backed
        <3>2. CASE x = r
            <4>1. CASE Committed(req[r]) \in writes'
                BY <1>1, <2>3, <3>2, <4>1 DEF Backed
            <4>2. CASE req[r].n \in undone'
                BY <2>3, <3>2, <4>2 DEF Backed, Tells, Committed
            <4> QED BY <2>3, <3>2, <4>1, <4>2
        <3> QED BY <3>1, <3>2
    <2> QED BY <2>1, <2>2, <2>3 DEF AuditOK, Backed
<1>3. ASSUME NEW x \in Requests
      PROVE  JobAudit(req[x])'
    <2>1. CASE x # r /\ req'[x] = req[x]
        <3>1. JobAudit(req[x])
            BY DEF AuditOK
        <3>2. Committed(req[x])' = Committed(req[x])
            BY <2>1 DEF Committed
        <3> DEFINE c == Committed(req[x])
        <3>3. LeftOut(c)' <=> LeftOut(c)
            <4>1. c' = c
                BY <3>2
            <4> QED BY <1>0, <4>1 DEF LeftOut
        <3>4. Logged(req[x].n) => Logged(req[x].n)'
            <4> DEFINE n == req[x].n
            <4>1. n' = n
                BY <2>1
            <4> HIDE DEF n
            <4>2. Logged(n) => (n \in lost' \/ \E e \in log' : e.n = n /\ e.from = "client")
                BY DEF Logged
            <4> QED BY <4>1, <4>2 DEF Logged, n
        <3> QED BY <2>1, <3>1, <3>2, <3>3, <3>4 DEF JobAudit
    <2>2. CASE x # r /\ req'[x].job = "page"
        BY <2>2 DEF JobAudit
    <2> QED BY <2>1, <2>2
<1>4. ASSUME NEW w \in writes'
      PROVE  LeftOut(w)' \/ Logged(w.n)' \/ \E x \in Requests : req'[x].pc = "log" /\ req'[x].n = w.n
    <2>1. CASE w \notin writes
        BY <1>1, <2>1
    <2>2. CASE w \in writes /\ (LeftOut(w) \/ Logged(w.n))
        BY <1>1, <2>2
    <2>3. ASSUME w \in writes, NEW x \in Requests, req[x].pc = "log", req[x].n = w.n
          PROVE  Logged(w.n)' \/ \E y \in Requests : req'[y].pc = "log" /\ req'[y].n = w.n
        <3>1. CASE x # r
            <4>1. req'[x] = req[x]
                BY <2>3, <3>1
            <4> QED BY <2>3, <4>1
        <3>2. CASE x = r
            <4>1. req[r].n \in lost' \/ \E e \in log' : e.n = req[r].n /\ e.from = "client"
                BY <2>3, <3>2 DEF Logged
            <4> QED BY <2>3, <3>2, <4>1 DEF Logged
        <3> QED BY <3>1, <3>2
    <2> QED BY <2>1, <2>2, <2>3 DEF AuditOK
<1> QED BY <1>2, <1>3, <1>4 DEF AuditOK

\* Nothing a request does but a cleanup takes rows from the log.
LEMMA LoggedStays ==
    ASSUME lost \subseteq lost', log \subseteq log', NEW n, Logged(n)
    PROVE  Logged(n)'
BY DEF Logged

\* A job that moves on, in the terms of AuditRule.
Advanced(r, v) ==
    /\ \A x \in Requests \ {r} :
        \/ req'[x] = req[x]
        \/ req[x].pc = "page" /\ req'[x].pc = "page" /\ req'[x].job = "page"
    /\ req'[r].pc = v /\ req'[r].job = req[r].job /\ req'[r].n = req[r].n
    /\ req'[r].user = req[r].user /\ req'[r].context = req[r].context
    /\ req'[r].tx = req[r].tx
    /\ Committed(req[r])' = Committed(req[r])

LEMMA MovesAudit ==
    ASSUME Shape, NEW r \in Requests, req[r].pc # "idle", NEW v, NEW stir \in BOOLEAN, Moves(r, v, stir),
           req[r].job # "page"
    PROVE  Advanced(r, v)
<1>1. ASSUME NEW x \in Requests \ {r}, req[x].pc = "page"
      PROVE  req'[x].pc = "page" /\ req'[x].job = "page"
    <2>1. req[x].job = "page"
        BY <1>1, JobKind
    <2> QED BY <1>1, <2>1, MovesFacts
<1>2. ASSUME NEW x \in Requests \ {r}, req[x].pc # "page"
      PROVE  req'[x] = req[x]
    BY <1>2, MovesFacts
<1>3. /\ req'[r].pc = v /\ req'[r].job = req[r].job /\ req'[r].n = req[r].n
      /\ req'[r].user = req[r].user /\ req'[r].context = req[r].context /\ req'[r].p = req[r].p
      /\ req'[r].tx = req[r].tx
    BY MovesFacts
<1> QED BY <1>1, <1>2, <1>3 DEF Committed, Advanced

\* A job moves on without a word to the log or the tables.
LEMMA QuietAudit ==
    ASSUME Shape, AuditOK, NEW r \in Requests, req[r].pc \notin {"idle", "log", "commit"}, req[r].job # "page",
           NEW v, Moves(r, v, FALSE), v \notin {"log", "commit"}, v = "done" => req[r].job # "write",
           UNCHANGED <<app, log, loose, writes, undone, lost>>
    PROVE  AuditOK'
<1>0. Advanced(r, v)
    BY MovesAudit
<1>1. JobAudit(req[r])
    BY DEF AuditOK
<1>2. JobAudit(req[r])'
    BY <1>1, <1>0 DEF JobAudit, Advanced
<1>3. \A n : Logged(n) => Logged(n)'
    BY LoggedStays
<1> QED BY <1>2, <1>3, <1>0, AuditRule DEF Advanced

\* A write that is not recorded is one the log is told to leave out.
LEMMA NotRecorded ==
    ASSUME Shape, NEW r \in Requests, req[r].pc # "idle", req[r].job # "page", ~Recorded(req[r])
    PROVE  LeftOut(Committed(req[r]))
<1> DEFINE q == req[r]
           a == Seen(q.p).action
           c == Committed(q)
<1>1. /\ q.p.action \in Verbs
      /\ q.p.action # "deleteMany" =>
           /\ a \in {"create", "update", "delete"}
           /\ \/ a = q.p.action
              \/ SoftOutside /\ q.p.action = "delete" /\ a = "update" /\ q.p.model \in app.models
    BY ActionOK
<1>2. c.verb = q.p.action /\ c.model = q.p.model /\ c.tx = q.tx
    BY DEF Committed
<1>3. Seen(q.p).model = q.p.model
    <2>1. q.p \in ItemParams \cup PageParams \cup FileParams("create") \cup FileParams("deleteMany")
        BY JobFacts DEF Jobs
    <2>2. q.p.model \in Models /\ \E m, A, W : q.p \in ParamsOf(m, A, W)
        BY <2>1 DEF ItemParams, PageParams, FileParams, ParamsOf, Models
    <2> DEFINE p == q.p
    <2>3. PICK m, A, W : p \in ParamsOf(m, A, W)
        BY <2>2
    <2> HIDE DEF p
    <2>4. SoftDelete(p).model = p.model
        BY <2>3 DEF SoftDelete, ParamsOf
    <2> QED BY <2>4 DEF Seen, p
<1>4. \/ a \notin {"create", "update", "delete"} \/ Seen(q.p).model \in app.exclude
      \/ Uses("wrapped") /\ q.tx # "none"
      \/ ~Uses("wrapped") /\ a = "update" /\ ~app.trackChanges
    BY DEF Recorded
<1> HIDE DEF q, a, c
<1>5. LeftOut(c)
    BY <1>1, <1>2, <1>3, <1>4 DEF LeftOut, Verbs
<1> QED BY <1>5 DEF c, q

\* A write that took effect at once, recorded or left out.
LEMMA WriteAudit ==
    ASSUME Shape, AuditOK, NEW r \in Requests, req[r].pc = "query", req[r].job # "page",
           NEW v, Moves(r, v, TRUE), v = IF Recorded(req[r]) THEN "log" ELSE "done",
           writes' = writes \cup {Committed(req[r])}, UNCHANGED <<app, log, loose, undone, lost>>
    PROVE  AuditOK'
<1>0. Advanced(r, v)
    BY MovesAudit
<1>1. JobAudit(req[r])
    BY DEF AuditOK
<1>2. JobAudit(req[r])'
    BY <1>1, <1>0 DEF JobAudit, Advanced
<1>3. \A n : Logged(n) => Logged(n)'
    BY LoggedStays
<1>4. LeftOut(Committed(req[r])) \/ (req'[r].pc = "log" /\ req'[r].n = Committed(req[r]).n)
    BY NotRecorded, <1>0 DEF Committed, Advanced
<1> QED BY <1>2, <1>3, <1>4, <1>0, AuditRule DEF Advanced

\* A write that waits for its transaction to be committed.
LEMMA HoldAudit ==
    ASSUME Shape, AuditOK, NEW r \in Requests, req[r].pc = "query", req[r].job # "page",
           NEW v, Moves(r, v, FALSE), v = IF Recorded(req[r]) THEN "log" ELSE "commit",
           req[r].tx = "interactive", UNCHANGED <<app, log, loose, writes, undone, lost>>
    PROVE  AuditOK'
<1>0. Advanced(r, v)
    BY MovesAudit
<1>1. JobAudit(req[r])
    BY DEF AuditOK
<1>2. v = "commit" => LeftOut(Committed(req[r]))
    BY NotRecorded
<1>3. v = "commit" => LeftOut(Committed(req[r]))'
    <2> DEFINE c == Committed(req[r])
    <2>1. c' = c
        BY <1>0 DEF Advanced
    <2>2. Uses("wrapped")' = Uses("wrapped") /\ SoftOutside' = SoftOutside
        BY DEF Uses, SoftOutside
    <2>3. v = "commit" => LeftOut(c)
        BY <1>2
    <2> HIDE DEF c
    <2>4. v = "commit" => LeftOut(c)'
        BY <2>1, <2>2, <2>3 DEF LeftOut
    <2> QED BY <2>4 DEF c
<1>4. JobAudit(req[r])'
    BY <1>1, <1>3, <1>0 DEF JobAudit, Advanced
<1>5. \A n : Logged(n) => Logged(n)'
    BY LoggedStays
<1> QED BY <1>4, <1>5, <1>0, AuditRule DEF Advanced

LEMMA ExecAudit ==
    ASSUME Shape, AuditOK, NEW r \in Requests, Exec(r)
    PROVE  AuditOK'
<1>1. req[r].pc = "query" /\ req[r].job # "page" /\ UNCHANGED <<app, log, loose, jobs, undone, lost>>
    BY ExecStep, JobKind
<1>2. CASE UNCHANGED writes /\ Moves(r, PcFailed(req[r]), FALSE)
    <2>1. /\ PcFailed(req[r]) \notin {"log", "commit"}
          /\ PcFailed(req[r]) = "done" => req[r].job # "write"
        BY <1>1, JobKind DEF PcFailed
    <2> QED BY <1>1, <1>2, <2>1, QuietAudit
<1>3. CASE /\ req[r].tx = "interactive" /\ UNCHANGED writes
           /\ Moves(r, IF Recorded(req[r]) THEN "log" ELSE "commit", FALSE)
    BY <1>1, <1>3, HoldAudit
<1>4. CASE /\ writes' = writes \cup {Committed(req[r])}
           /\ Moves(r, IF Recorded(req[r]) THEN "log" ELSE "done", TRUE)
    BY <1>1, <1>4, WriteAudit
<1> QED BY <1>2, <1>3, <1>4, ExecStep

\* A row of what a request has written, or holds in its open transaction.
LEMMA TellsBacks ==
    ASSUME NEW r \in Requests, app' = app, NEW e, Tells(e, Committed(req[r])),
           \/ Committed(req[r]) \in writes'
           \/ req'[r].pc = "commit" /\ Committed(req[r])' = Committed(req[r])
    PROVE  Backed(e)'
<1> DEFINE c == Committed(req[r])
<1>1. SoftOutside' = SoftOutside
    BY DEF SoftOutside
<1>2. ASSUME NEW w, Tells(e, w)
      PROVE  Tells(e, w)'
    BY <1>1, <1>2 DEF Tells
<1>3. CASE c \in writes'
    BY <1>2, <1>3 DEF Backed
<1>4. CASE req'[r].pc = "commit" /\ c' = c
    <2> HIDE DEF c
    <2>1. Tells(e, c) => Tells(e, c)'
        BY <1>1, <1>4 DEF Tells
    <2>2. Tells(e, Committed(req[r]))'
        BY <2>1 DEF c
    <2> QED BY <1>4, <2>2 DEF Backed
<1> QED BY <1>3, <1>4

LEMMA LogEntryAudit ==
    ASSUME Shape, AuditOK, NEW r \in Requests, LogEntry(r)
    PROVE  AuditOK'
<1>1. /\ req[r].pc = "log" /\ Moves(r, PcAfter(req[r]), FALSE)
      /\ \/ log' = log \cup {Entry(req[r])} /\ UNCHANGED lost
         \/ lost' = lost \cup {req[r].n} /\ UNCHANGED log
      /\ UNCHANGED <<app, loose, writes, undone>>
    BY LogEntryStep
<1>2. req[r].job # "page" /\ JobAudit(req[r])
    BY <1>1, JobKind DEF AuditOK
<1>3. Advanced(r, PcAfter(req[r]))
    BY <1>1, <1>2, MovesAudit
<1>4. \A n : Logged(n) => Logged(n)'
    BY <1>1, LoggedStays
<1>5. req[r].n \in lost' \/ \E e \in log' : e.n = req[r].n /\ e.from = "client"
    <2>1. Entry(req[r]).n = req[r].n /\ Entry(req[r]).from = "client"
        BY DEF Entry
    <2> QED BY <1>1, <2>1
<1>6. Logged(req[r].n)'
    BY <1>3, <1>5 DEF Logged, Advanced
<1>7. JobAudit(req[r])'
    BY <1>1, <1>2, <1>3, <1>6 DEF JobAudit, PcAfter, Advanced
<1>8. ASSUME NEW e, e = Entry(req[r])
      PROVE  Backed(e)'
    <2>1. /\ req[r].p.action # "deleteMany" /\ req[r].context \in {req[r].user, NULL}
          /\ req[r].tx # "interactive" => Committed(req[r]) \in writes
        BY <1>1, <1>2, JobFacts DEF JobOK, JobAudit
    <2>2. \/ Seen(req[r].p).action = req[r].p.action
          \/ SoftOutside /\ req[r].p.action = "delete" /\ Seen(req[r].p).action = "update"
        BY <1>1, <1>2, <2>1, ActionOK
    <2>3. Tells(e, Committed(req[r]))
        BY <1>8, <2>1, <2>2 DEF Tells, Entry, Committed
    <2> QED BY <1>1, <1>2, <1>3, <2>1, <2>3, TellsBacks DEF PcAfter, Advanced
<1>9. \A e \in (log \cup loose)' \ (log \cup loose) : e = Entry(req[r])
    BY <1>1
<1> QED BY <1>1, <1>3, <1>4, <1>5, <1>7, <1>8, <1>9, AuditRule DEF Advanced

LEMMA CommitAudit ==
    ASSUME Shape, AuditOK, NEW r \in Requests, Commit(r)
    PROVE  AuditOK'
<1>1. /\ req[r].pc = "commit" /\ Moves(r, "done", TRUE)
      /\ writes' = writes \cup {Committed(req[r])}
      /\ UNCHANGED <<app, log, loose, undone, lost>>
    BY CommitStep
<1>2. req[r].job # "page" /\ JobAudit(req[r])
    BY <1>1, JobKind DEF AuditOK
<1>0. Advanced(r, "done")
    BY <1>1, <1>2, MovesAudit
<1>3. JobAudit(req[r])'
    BY <1>1, <1>2, <1>0 DEF JobAudit, Advanced
<1>4. \A n : Logged(n) => Logged(n)'
    BY <1>1, LoggedStays
<1>5. LeftOut(Committed(req[r])) \/ Logged(req[r].n)
    BY <1>1, <1>2 DEF JobAudit
<1>6. ASSUME NEW w \in writes' \ writes
      PROVE  LeftOut(w) \/ Logged(w.n)'
    <2>1. w = Committed(req[r]) /\ w.n = req[r].n
        BY <1>1 DEF Committed
    <2> QED BY <1>4, <1>5, <2>1
<1> QED BY <1>1, <1>2, <1>3, <1>4, <1>6, <1>0, AuditRule DEF Advanced

LEMMA RollbackAudit ==
    ASSUME Shape, AuditOK, NEW r \in Requests, Rollback(r)
    PROVE  AuditOK'
<1>1. /\ req[r].pc = "commit" /\ Moves(r, "failed", FALSE) /\ undone' = undone \cup {req[r].n}
      /\ UNCHANGED <<app, log, loose, writes, lost>>
    BY RollbackStep
<1>2. req[r].job # "page" /\ JobAudit(req[r])
    BY <1>1, JobKind DEF AuditOK
<1>0. Advanced(r, "failed")
    BY <1>1, <1>2, MovesAudit
<1>3. JobAudit(req[r])'
    BY <1>1, <1>2, <1>0 DEF JobAudit, Advanced
<1>4. \A n : Logged(n) => Logged(n)'
    BY <1>1, LoggedStays
<1> QED BY <1>1, <1>2, <1>3, <1>4, <1>0, AuditRule DEF Advanced

\* A request that becomes a new job, a page that went on, or nothing.
LEMMA BecomesAudit ==
    ASSUME Shape, AuditOK, NEW r \in Requests, req[r].pc \notin {"log", "commit"},
           \A x \in Requests \ {r} : req'[x] = req[x],
           req'[r].pc = "idle" \/ req'[r].job = "page"
             \/ (req'[r].pc \notin {"log", "commit", "done"} /\ req'[r].context \in {req'[r].user, NULL}),
           UNCHANGED <<app, log, writes, undone, lost>>,
           \A e \in loose' \ loose : Backed(e)'
    PROVE  AuditOK'
<1>1. JobAudit(req[r])'
    BY DEF JobAudit
<1>2. \A n : Logged(n) => Logged(n)'
    BY LoggedStays
<1> QED BY <1>1, <1>2, AuditRule

LEMMA BeginAudit ==
    ASSUME Shape, AuditOK, NEW r \in Requests, NEW q, BeginWrite(r, q),
           DOMAIN q = {"pc", "job", "n", "user", "context", "p", "tx", "audited", "todo", "rows", "total", "quiet"},
           q.pc \notin {"log", "commit", "done"}
    PROVE  AuditOK'
<1>1. PICK u \in Users : \E c \in Contexts(u) :
          Begin(r, [q EXCEPT !.n = jobs + 1, !.user = u, !.context = c])
    BY DEF BeginWrite
<1>2. PICK c \in Contexts(u) :
          Begin(r, [q EXCEPT !.n = jobs + 1, !.user = u, !.context = c])
    BY <1>1
<1> DEFINE h == [q EXCEPT !.n = jobs + 1, !.user = u, !.context = c]
<1>3. h.pc = q.pc /\ h.user = u /\ h.context = c /\ c \in {u, NULL}
    BY <1>2 DEF Contexts
<1> HIDE DEF h
<1>4. /\ req[r].pc = "idle" /\ req' = [req EXCEPT ![r] = h]
      /\ UNCHANGED <<app, log, loose, writes, undone, lost>>
    BY <1>2 DEF Begin, h
<1>5. req'[r] = h /\ \A x \in Requests \ {r} : req'[x] = req[x]
    BY <1>4 DEF Shape
<1> QED BY <1>3, <1>4, <1>5, BecomesAudit

LEMMA ReplyAudit ==
    ASSUME Shape, AuditOK, NEW r \in Requests, Reply(r)
    PROVE  AuditOK'
<1>1. /\ req[r].pc \in {"done", "failed"} /\ req' = [req EXCEPT ![r] = Idle]
      /\ UNCHANGED <<app, log, writes, undone, lost>>
    BY ReplyStep
<1>2. req'[r] = Idle /\ \A x \in Requests \ {r} : req'[x] = req[x]
    BY <1>1 DEF Shape
<1>3. ASSUME NEW e \in loose' \ loose
      PROVE  Backed(e)'
    <2>1. /\ req[r].pc = "done" /\ req[r].audited
          /\ e = [n |-> req[r].n, user |-> IF req[r].context # NULL THEN req[r].context ELSE req[r].user,
                  action |-> req[r].p.action, from |-> "handler"]
        BY <1>3, ReplyStep
    <2>2. req[r].job = "write" /\ JobAudit(req[r])
        BY <2>1, JobKind DEF AuditOK
    <2>3. Committed(req[r]) \in writes /\ req[r].context \in {req[r].user, NULL}
        BY <2>1, <2>2 DEF JobAudit
    <2>4. Tells(e, Committed(req[r]))
        BY <2>1, <2>3 DEF Tells, Committed
    <2> QED BY <1>1, <2>3, <2>4, TellsBacks
<1> QED BY <1>1, <1>2, <1>3, BecomesAudit

\* Nothing that leaves the requests and the tables alone takes from the log what it
\* does not count as lost.
LEMMA StillAudit ==
    ASSUME AuditOK, UNCHANGED <<app, req, writes, undone>>,
           log' \cup loose' \subseteq log \cup loose, \A n : Logged(n) => Logged(n)'
    PROVE  AuditOK'
<1>0. /\ SoftOutside' = SoftOutside
      /\ \A m : Uses(m)' = Uses(m)
    BY DEF SoftOutside, Uses
<1>1. ASSUME NEW e \in log' \cup loose'
      PROVE  Backed(e)'
    <2>1. Backed(e)
        BY <1>1 DEF AuditOK
    <2> QED BY <1>0, <2>1 DEF Backed, Tells, Committed
<1>2. ASSUME NEW x \in Requests
      PROVE  JobAudit(req[x])'
    <2> DEFINE q == req[x]
    <2>1. JobAudit(q) /\ q' = q
        BY DEF AuditOK
    <2> HIDE DEF q
    <2>2. Committed(q)' = Committed(q) /\ LeftOut(Committed(q))' = LeftOut(Committed(q))
        BY <1>0, <2>1 DEF LeftOut, Committed
    <2>3. Logged(q.n) => Logged(q.n)'
        <3> DEFINE n == q.n
        <3>1. n' = n
            BY <2>1
        <3> HIDE DEF n
        <3>2. Logged(n) => n \in lost' \/ \E e \in log' : e.n = n /\ e.from = "client"
            BY DEF Logged
        <3> QED BY <3>1, <3>2 DEF Logged, n
    <2>4. JobAudit(q)'
        BY <2>1, <2>2, <2>3 DEF JobAudit
    <2> QED BY <2>4 DEF q
<1>3. ASSUME NEW w \in writes'
      PROVE  LeftOut(w)' \/ Logged(w.n)' \/ \E x \in Requests : req'[x].pc = "log" /\ req'[x].n = w.n
    <2>1. LeftOut(w)' = LeftOut(w)
        BY <1>0 DEF LeftOut
    <2> QED BY <1>3, <2>1 DEF AuditOK
<1> QED BY <1>1, <1>2, <1>3 DEF AuditOK

LEMMA CrashAudit ==
    ASSUME Shape, AuditOK, Crash
    PROVE  AuditOK'
<1>1. /\ req' = [r \in Requests |-> Idle] /\ loose' = {} /\ UNCHANGED <<app, log, writes>>
      /\ undone \subseteq undone' /\ lost \subseteq lost'
    BY DEF Crash, ClientCrash
<1>2. ASSUME NEW x \in Requests, req[x].pc = "commit"
      PROVE  req[x].n \in undone'
    <2>1. req[x].tx = "interactive"
        BY <1>2, JobKind
    <2> QED BY <1>2, <2>1 DEF Crash, ClientCrash
<1>3. ASSUME NEW x \in Requests, req[x].pc = "log"
      PROVE  req[x].n \in lost'
    BY <1>3 DEF Crash, ClientCrash
<1>4. /\ SoftOutside' = SoftOutside
      /\ \A m : Uses(m)' = Uses(m)
    BY <1>1 DEF SoftOutside, Uses
<1>5. ASSUME NEW e \in log
      PROVE  Backed(e)'
    <2>1. CASE e.n \in undone
        BY <1>1, <2>1 DEF Backed
    <2>2. CASE \E w \in writes : Tells(e, w)
        BY <1>1, <1>4, <2>2 DEF Backed, Tells
    <2>3. ASSUME NEW x \in Requests, req[x].pc = "commit", Tells(e, Committed(req[x]))
          PROVE  Backed(e)'
        <3>1. e.n = req[x].n
            BY <2>3 DEF Tells, Committed
        <3> QED BY <1>2, <2>3, <3>1 DEF Backed
    <2> QED BY <2>1, <2>2, <2>3 DEF AuditOK, Backed
<1>6. ASSUME NEW w \in writes
      PROVE  LeftOut(w)' \/ Logged(w.n)'
    <2>1. LeftOut(w)' = LeftOut(w)
        BY <1>1, <1>4 DEF LeftOut
    <2>2. \A n : Logged(n) => Logged(n)'
        BY <1>1, LoggedStays
    <2>3. ASSUME NEW x \in Requests, req[x].pc = "log", req[x].n = w.n
          PROVE  Logged(w.n)'
        BY <1>3, <2>3 DEF Logged
    <2> QED BY <2>1, <2>2, <2>3 DEF AuditOK
<1> QED BY <1>1, <1>5, <1>6 DEF AuditOK, JobAudit

LEMMA AuditStep ==
    ASSUME Shape, AuditOK, [Next]_vars
    PROVE  AuditOK'
<1>1. ASSUME NEW r \in Requests, Write(r) \/ Upload(r) \/ Delete(r)
      PROVE  AuditOK'
    <2>1. ASSUME NEW job \in {"write", "upload", "remove"}, NEW p, NEW pc \in {"put", "failed", "erase"},
                 NEW tx, NEW au,
                 \/ BeginWrite(r, [Job(job, p) EXCEPT !.pc = pc])
                 \/ BeginWrite(r, [Job(job, p) EXCEPT !.tx = tx, !.audited = au])
          PROVE  AuditOK'
        <3> DEFINE j == Job(job, p)
        <3>1. \E q : /\ BeginWrite(r, q)
                     /\ q = [j EXCEPT !.pc = pc] \/ q = [j EXCEPT !.tx = tx, !.audited = au]
            BY <2>1
        <3>2. PICK q : /\ BeginWrite(r, q)
                       /\ q = [j EXCEPT !.pc = pc] \/ q = [j EXCEPT !.tx = tx, !.audited = au]
            BY <3>1
        <3>3. /\ j.pc = "query"
              /\ DOMAIN j = {"pc", "job", "n", "user", "context", "p", "tx", "audited", "todo", "rows", "total", "quiet"}
            BY DEF Job
        <3> HIDE DEF j
        <3>4. q.pc \notin {"log", "commit", "done"} /\ DOMAIN q = DOMAIN j
            BY <3>2, <3>3
        <3> QED BY <3>2, <3>3, <3>4, BeginAudit
    <2>2. CASE Write(r)
        BY <2>1, <2>2 DEF Write
    <2>3. CASE Upload(r)
        BY <2>1, <2>3 DEF Upload
    <2>4. CASE Delete(r)
        BY <2>1, <2>4 DEF Delete
    <2> QED BY <1>1, <2>2, <2>3, <2>4
<1>2. ASSUME NEW r \in Requests, Page(r)
      PROVE  AuditOK'
    <2>1. PICK page \in 0 .. 1 :
            Begin(r, [Job("page", [Params("Item", "findMany", Ids) EXCEPT !.skip = page * Limit])
                          EXCEPT !.pc = "page", !.todo = {"findMany", "count"}])
        BY <1>2 DEF Page
    <2> DEFINE p == [Params("Item", "findMany", Ids) EXCEPT !.skip = page * Limit]
               q == [Job("page", p) EXCEPT !.pc = "page", !.todo = {"findMany", "count"}]
    <2>2. q.job = "page"
        BY DEF Job
    <2> HIDE DEF q
    <2>3. /\ req[r].pc = "idle" /\ req' = [req EXCEPT ![r] = q]
          /\ UNCHANGED <<app, log, loose, writes, undone, lost>>
        BY <2>1 DEF Begin, q
    <2>4. req'[r] = q /\ \A x \in Requests \ {r} : req'[x] = req[x]
        BY <2>3 DEF Shape
    <2> QED BY <2>2, <2>3, <2>4, BecomesAudit
<1>3. ASSUME NEW r \in Requests, PageQuery(r)
      PROVE  AuditOK'
    <2>1. req[r].pc = "page"
        BY <1>3 DEF PageQuery
    <2> QED BY <1>3, <2>1, PageQueryStep, BecomesAudit
<1>4. ASSUME NEW r \in Requests, LogEntry(r) \/ Commit(r) \/ Rollback(r) \/ Exec(r) \/ Reply(r)
      PROVE  AuditOK'
    BY <1>4, LogEntryAudit, CommitAudit, RollbackAudit, ExecAudit, ReplyAudit
<1>5. ASSUME NEW r \in Requests, Put(r) \/ Fill(r) \/ MakePublic(r) \/ Erase(r)
      PROVE  AuditOK'
    <2>1. /\ req[r].job \in {"upload", "remove"} /\ req[r].pc \in {"put", "fill", "public", "erase"}
          /\ UNCHANGED <<app, log, loose, writes, undone, lost>>
        BY <1>5, ProviderStep
    <2>2. PICK v \in {"fill", "public", "query", "done", "failed"} : Moves(r, v, FALSE)
        BY <1>5, ProviderStep
    <2> QED BY <2>1, <2>2, QuietAudit
<1>6. ASSUME NEW r \in Requests, QueryFails(r)
      PROVE  AuditOK'
    <2>1. /\ req[r].pc = "query" /\ Moves(r, PcFailed(req[r]), FALSE) /\ req[r].job # "page"
          /\ UNCHANGED <<app, log, loose, writes, undone, lost>>
        BY <1>6, QueryFailsStep, JobKind
    <2>2. /\ PcFailed(req[r]) \notin {"log", "commit"}
          /\ PcFailed(req[r]) = "done" => req[r].job # "write"
        BY <2>1, JobKind DEF PcFailed
    <2> QED BY <2>1, <2>2, QuietAudit
<1>7. CASE Crash
    BY <1>7, CrashAudit
<1>8. ASSUME Cleanup
      PROVE  AuditOK'
    <2>1. \A n : Logged(n) => Logged(n)'
        BY <1>8, CleanupStep DEF Logged
    <2> QED BY <1>8, <2>1, CleanupStep, StillAudit
<1>9. ASSUME NEW e \in loose, Land(e)
      PROVE  AuditOK'
    <2>1. /\ UNCHANGED <<app, req, writes, undone, lost>> /\ log \subseteq log'
          /\ log' \cup loose' \subseteq log \cup loose
        BY <1>9 DEF Land
    <2>2. \A n : Logged(n) => Logged(n)'
        BY <2>1, LoggedStays
    <2> QED BY <2>1, <2>2, StillAudit
<1>10. ASSUME Find \/ UNCHANGED vars
       PROVE  AuditOK'
    <2>1. UNCHANGED <<app, req, writes, undone, lost, log, loose>>
        BY <1>10 DEF Find, vars, clientVars
    <2>2. \A n : Logged(n) => Logged(n)'
        BY <2>1, LoggedStays
    <2> QED BY <2>1, <2>2, StillAudit
<1> QED BY <1>1, <1>2, <1>3, <1>4, <1>5, <1>6, <1>7, <1>8, <1>9, <1>10
        DEF Next, ClientStep, Track, Leave

LEMMA AuditHolds == Spec => []AuditOK
<1>1. Init => AuditOK
    BY DEF Init, ClientInit, AuditOK, JobAudit
<1>2. Shape /\ AuditOK /\ [Next]_vars => AuditOK'
    BY AuditStep
<1> QED BY <1>1, <1>2, ShapeHolds, PTL DEF Spec

(* AuditTruthful holds for any number of requests and any set-up: what is logged   *)
(* was written, or is of a transaction that was rolled back or is still open; a    *)
(* row sent and not awaited is of a handler that had done its write.               *)
THEOREM AuditTells == Spec => []AuditTruthful
<1>1. AuditOK => AuditTruthful
    <2> SUFFICES ASSUME AuditOK, NEW e \in log
                 PROVE  \/ e.n \in undone
                        \/ \E r \in Requests : req[r].pc = "commit" /\ req[r].n = e.n
                        \/ \E w \in writes : Tells(e, w)
        BY DEF AuditTruthful, Tells
    <2>1. Backed(e)
        BY DEF AuditOK
    <2> QED BY <2>1 DEF Backed, Tells, Committed
<1> QED BY <1>1, AuditHolds, PTL

(* AuditComplete holds for any number of requests and any set-up: a write is       *)
(* logged before its transaction can be committed, and before its handler can      *)
(* answer, unless the log is told to leave it out or its row was lost.             *)
THEOREM AuditMissesNothing == Spec => []AuditComplete
<1>1. AuditOK => AuditComplete
    BY DEF AuditOK, AuditComplete, LeftOut, Logged
<1> QED BY <1>1, AuditHolds, PTL

--------------------------------------------------------------------------------
(* Files and their rows. *)

ActivePcs == {"put", "fill", "public", "query", "erase"}

\* A request that has still something to do to the file or the row of a key.
OnKey(q, k) == q.pc \in ActivePcs /\ q.p.model = "StoredFile" /\ q.p.where = {k}

Agree(k) ==
    /\ (tables.StoredFile[k] = NULL) = (blobs[k] = NULL)
    /\ blobs[k] # NULL => blobs[k].whole /\ tables.StoredFile[k].by = blobs[k].by

\* Two at work on a key are a crowd, and a crowd is a cause; who is alone finds what
\* it left.  Without a cause, file and row agree before the provider is asked, and in
\* between the file is the request's own.
KeyOK(k) ==
    /\ \A x, y \in Requests : x # y /\ OnKey(req[x], k) /\ OnKey(req[y], k) => x \in crowd
    /\ \A x \in Requests : OnKey(req[x], k) /\ x \in crowd => cause[k] # {}
    /\ \A x \in Requests :
        OnKey(req[x], k) /\ x \notin crowd /\ req[x].job = "remove" /\ req[x].pc = "query" => blobs[k] = NULL
    /\ app.track /\ cause[k] = {} =>
        /\ (\A x \in Requests : OnKey(req[x], k) => req[x].pc \in {"put", "erase"}) => Agree(k)
        /\ \A x \in Requests :
            OnKey(req[x], k) /\ req[x].job = "upload" /\ req[x].pc \in {"public", "query"} =>
                blobs[k] = Blob(req[x].n, TRUE)

FilesOK ==
    /\ \A x \in crowd : req[x].pc # "idle"
    /\ \A k \in Keys : KeyOK(k)

\* Nothing happens to a key.
KeySame(k) ==
    /\ \A x \in Requests :
        /\ OnKey(req'[x], k) => OnKey(req[x], k)
        /\ OnKey(req[x], k) => req'[x] = req[x] /\ (x \in crowd' <=> x \in crowd)
    /\ tables'.StoredFile[k] = tables.StoredFile[k] /\ blobs'[k] = blobs[k] /\ cause'[k] = cause[k]
    /\ app' = app

LEMMA KeyStays ==
    ASSUME NEW k \in Keys, KeyOK(k), KeySame(k)
    PROVE  KeyOK(k)'
<1>1. /\ \A x \in Requests : OnKey(req[x], k)' <=> OnKey(req[x], k)
      /\ \A x \in Requests : OnKey(req[x], k) => req'[x] = req[x] /\ (x \in crowd' <=> x \in crowd)
    BY DEF KeySame, OnKey
<1>2. Agree(k)' <=> Agree(k)
    BY DEF KeySame, Agree
<1>3. blobs'[k] = blobs[k] /\ cause'[k] = cause[k] /\ app' = app
    BY DEF KeySame
<1>4. \A x, y \in Requests : x # y /\ OnKey(req[x], k)' /\ OnKey(req[y], k)' => x \in crowd'
    BY <1>1 DEF KeyOK
<1>5. \A x \in Requests : OnKey(req[x], k)' /\ x \in crowd' => cause'[k] # {}
    BY <1>1, <1>3 DEF KeyOK
<1>6. \A x \in Requests :
        OnKey(req[x], k)' /\ x \notin crowd' /\ req'[x].job = "remove" /\ req'[x].pc = "query" => blobs'[k] = NULL
    BY <1>1, <1>3 DEF KeyOK
<1>7. app'.track /\ cause'[k] = {} =>
        /\ (\A x \in Requests : OnKey(req[x], k)' => req'[x].pc \in {"put", "erase"}) => Agree(k)'
        /\ \A x \in Requests :
            OnKey(req[x], k)' /\ req'[x].job = "upload" /\ req'[x].pc \in {"public", "query"} =>
                blobs'[k] = Blob(req'[x].n, TRUE)
    BY <1>1, <1>2, <1>3 DEF KeyOK
<1> QED BY <1>4, <1>5, <1>6, <1>7 DEF KeyOK, Blob

\* The others do nothing to any key, but hear of a write.
OthersStay(r) ==
    \A x \in Requests \ {r} :
        req'[x] = req[x] \/ (req[x].pc = "page" /\ req'[x].pc = "page")

\* A step of a request that is at work on no key.
LEMMA FilesIdle ==
    ASSUME Shape, FilesOK, NEW r \in Requests, OthersStay(r), req[r].pc \notin ActivePcs \/ req[r].p.model # "StoredFile",
           req'[r].pc \notin ActivePcs \/ req'[r].p.model # "StoredFile",
           UNCHANGED <<app, blobs, cause>>, tables'.StoredFile = tables.StoredFile,
           crowd' \in {crowd, crowd \ {r}}, req'[r].pc = "idle" => crowd' = crowd \ {r} \/ req[r].pc = "idle"
    PROVE  FilesOK'
<1>1. ASSUME NEW k \in Keys
      PROVE  KeyOK(k)'
    <2>1. ASSUME NEW x \in Requests
          PROVE  /\ OnKey(req'[x], k) => OnKey(req[x], k)
                 /\ OnKey(req[x], k) => req'[x] = req[x] /\ (x \in crowd' <=> x \in crowd)
        <3>1. CASE x = r
            BY <3>1 DEF OnKey
        <3>2. CASE x # r
            BY <3>2 DEF OthersStay, OnKey, ActivePcs
        <3> QED BY <3>1, <3>2
    <2>2. KeySame(k)
        BY <2>1 DEF KeySame
    <2> QED BY <2>2, KeyStays DEF FilesOK
<1>2. \A x \in crowd' : req'[x].pc # "idle"
    BY DEF OthersStay, FilesOK, Shape
<1> QED BY <1>1, <1>2 DEF FilesOK

\* A step of a request at work on a key: what it must leave, when it is alone there.
OwnMove(r, k, v) ==
    /\ v # "idle" /\ v \notin {"put", "erase"} /\ OnKey(req[r], k)
    /\ OthersStay(r) /\ req'[r] = [req[r] EXCEPT !.pc = v] /\ app' = app /\ crowd' = crowd
    /\ \A i \in Keys \ {k} : /\ tables'.StoredFile[i] = tables.StoredFile[i]
                            /\ blobs'[i] = blobs[i] /\ cause'[i] = cause[i]
    /\ r \in crowd => cause'[k] # {}
    /\ r \notin crowd /\ req[r].job = "remove" /\ v = "query" => blobs'[k] = NULL
    /\ r \notin crowd /\ app.track /\ cause'[k] = {} =>
        /\ v \notin ActivePcs => Agree(k)'
        /\ req[r].job = "upload" /\ v \in {"public", "query"} => blobs'[k] = Blob(req[r].n, TRUE)

LEMMA FilesOwn ==
    ASSUME Shape, FilesOK, NEW r \in Requests, NEW k \in Keys, NEW v, OwnMove(r, k, v)
    PROVE  FilesOK'
<1> USE DEF OwnMove
<1>1. /\ req'[r].pc = v /\ req'[r].job = req[r].job /\ req'[r].n = req[r].n /\ req'[r].p = req[r].p
    BY JobFacts DEF Jobs, OnKey, ActivePcs
<1>2. ASSUME NEW i \in Keys \ {k}
      PROVE  KeyOK(i)'
    <2>1. ~OnKey(req[r], i) /\ ~OnKey(req'[r], i)
        BY <1>1 DEF OnKey
    <2>2. ASSUME NEW x \in Requests
          PROVE  /\ OnKey(req'[x], i) => OnKey(req[x], i)
                 /\ OnKey(req[x], i) => req'[x] = req[x] /\ (x \in crowd' <=> x \in crowd)
        <3>1. CASE x = r
            BY <2>1, <3>1
        <3>2. CASE x # r
            BY <3>2 DEF OthersStay, OnKey, ActivePcs
        <3> QED BY <3>1, <3>2
    <2>3. KeySame(i)
        BY <2>2 DEF KeySame
    <2> QED BY <2>3, KeyStays DEF FilesOK
<1>3. ASSUME NEW x \in Requests \ {r}
      PROVE  /\ OnKey(req[x], k)' <=> OnKey(req[x], k)
             /\ OnKey(req[x], k) => req'[x] = req[x] /\ x \in crowd /\ r \in crowd
    <2>1. KeyOK(k)
        BY DEF FilesOK
    <2>2. OnKey(req[x], k) => x \in crowd /\ r \in crowd
        BY <2>1 DEF KeyOK
    <2> QED BY <2>2 DEF OthersStay, OnKey, ActivePcs
<1>4. OnKey(req[r], k)' <=> v \in ActivePcs
    BY <1>1 DEF OnKey
<1>5. KeyOK(k)'
    <2>1. \A x, y \in Requests : x # y /\ OnKey(req[x], k)' /\ OnKey(req[y], k)' => x \in crowd'
        BY <1>3, <1>4
    <2>2. \A x \in Requests : OnKey(req[x], k)' /\ x \in crowd' => cause'[k] # {}
        BY <1>3
    <2>3. \A x \in Requests :
            OnKey(req[x], k)' /\ x \notin crowd' /\ req'[x].job = "remove" /\ req'[x].pc = "query" => blobs'[k] = NULL
        BY <1>1, <1>3
    <2>4. ASSUME app'.track, cause'[k] = {}
          PROVE  /\ (\A x \in Requests : OnKey(req[x], k)' => req'[x].pc \in {"put", "erase"}) => Agree(k)'
                 /\ \A x \in Requests :
                     OnKey(req[x], k)' /\ req'[x].job = "upload" /\ req'[x].pc \in {"public", "query"} =>
                         blobs'[k] = Blob(req'[x].n, TRUE)
        <3>1. r \notin crowd /\ app.track
            BY <2>4
        <3>2. \A x \in Requests \ {r} : ~OnKey(req[x], k)'
            BY <1>3, <3>1
        <3>3. (\A x \in Requests : OnKey(req[x], k)' => req'[x].pc \in {"put", "erase"}) => Agree(k)'
            BY <1>1, <1>4, <2>4, <3>1
        <3>4. ASSUME NEW x \in Requests, OnKey(req[x], k)', req'[x].job = "upload", req'[x].pc \in {"public", "query"}
              PROVE  blobs'[k] = Blob(req'[x].n, TRUE)
            <4>1. x = r
                BY <3>2, <3>4
            <4> QED BY <1>1, <2>4, <3>1, <3>4, <4>1
        <3> QED BY <3>3, <3>4
    <2> QED BY <2>1, <2>2, <2>3, <2>4 DEF KeyOK, Blob
<1>6. ASSUME NEW x \in crowd'
      PROVE  req'[x].pc # "idle"
    <2>1. x \in crowd /\ x \in Requests /\ req[x].pc # "idle"
        BY DEF FilesOK, Shape
    <2>2. CASE x = r
        BY <1>1, <2>2
    <2>3. CASE x # r
        BY <2>1, <2>3 DEF OthersStay
    <2> QED BY <2>2, <2>3
<1> QED BY <1>2, <1>5, <1>6 DEF FilesOK

\* A move of one request, in the terms of FilesIdle and FilesOwn.
LEMMA MovesFiles ==
    ASSUME Shape, NEW r \in Requests, req[r].pc # "idle", NEW v, NEW stir \in BOOLEAN, Moves(r, v, stir)
    PROVE  OthersStay(r) /\ req'[r] = [req[r] EXCEPT !.pc = v] /\ req'[r].pc = v /\ req'[r].p = req[r].p
<1>1. ASSUME NEW x \in Requests \ {r}, req[x].pc = "page"
      PROVE  req'[x].pc = "page"
    BY <1>1, MovesFacts
<1>2. ASSUME NEW x \in Requests \ {r}, req[x].pc # "page"
      PROVE  req'[x] = req[x]
    BY <1>2, MovesFacts
<1>3. req'[r].pc = v /\ req'[r].p = req[r].p
    BY MovesFacts
<1> QED BY <1>1, <1>2, <1>3 DEF OthersStay, Moves

\* A request comes to a key: if it is not alone there, both are a crowd.
LEMMA EnterFiles ==
    ASSUME Shape, FilesOK, NEW r \in Requests, NEW k \in Keys, Enter(r, k), req[r].pc = "idle",
           \A x \in Requests \ {r} : req'[x] = req[x],
           req'[r].pc \in {"put", "erase"}, req'[r].p.model = "StoredFile", req'[r].p.where = {k},
           UNCHANGED <<app, tables, blobs>>
    PROVE  FilesOK'
<1>0. r \notin crowd /\ crowd \subseteq Requests
    BY DEF FilesOK, Shape
<1>1. \A x \in Requests : OnKey(req[x], k) => x \in Busy(k) /\ x # r
    BY DEF OnKey, ActivePcs, Busy
<1>2. \A x \in Requests \ {r} : req'[x] = req[x] /\ (OnKey(req[x], k)' <=> OnKey(req[x], k))
    BY DEF OnKey
<1>3. OnKey(req[r], k)'
    BY DEF OnKey, ActivePcs
<1>4. ASSUME NEW i \in Keys \ {k}
      PROVE  KeyOK(i)'
    <2>1. ~OnKey(req'[r], i) /\ ~OnKey(req[r], i)
        BY DEF OnKey, ActivePcs
    <2>2. \A x \in Busy(k) : ~OnKey(req[x], i)
        BY DEF Busy, OnKey
    <2>3. \A x \in Requests : OnKey(req[x], i) => (x \in crowd' <=> x \in crowd)
        BY <2>1, <2>2 DEF Enter
    <2>4. cause'[i] = cause[i]
        BY DEF Enter, Mark, Shape
    <2>5. KeySame(i)
        BY <2>1, <2>3, <2>4 DEF KeySame
    <2> QED BY <2>5, KeyStays DEF FilesOK
<1>5. CASE Busy(k) = {}
    <2>1. crowd' = crowd /\ cause' = cause
        BY <1>5 DEF Enter
    <2>2. \A x \in Requests : OnKey(req[x], k)' => x = r
        BY <1>1, <1>2, <1>5
    <2>3. app.track /\ cause[k] = {} => Agree(k)
        <3>1. \A x \in Requests : ~OnKey(req[x], k)
            BY <1>1, <1>5
        <3> QED BY <3>1 DEF FilesOK, KeyOK
    <2>4. Agree(k)' <=> Agree(k)
        BY DEF Agree
    <2>5. KeyOK(k)'
        BY <1>0, <2>1, <2>2, <2>3, <2>4 DEF KeyOK
    <2>6. \A x \in crowd' : req'[x].pc # "idle"
        BY <1>0, <1>2, <2>1 DEF FilesOK
    <2> QED BY <1>4, <2>5, <2>6 DEF FilesOK
<1>6. CASE Busy(k) # {}
    <2>1. crowd' = crowd \cup Busy(k) \cup {r} /\ cause'[k] # {}
        BY <1>6 DEF Enter, Mark, Shape
    <2>2. \A x \in Requests : OnKey(req[x], k)' => x \in crowd'
        BY <1>1, <1>2, <2>1
    <2>3. KeyOK(k)'
        BY <2>1, <2>2 DEF KeyOK
    <2>4. ASSUME NEW x \in crowd'
          PROVE  req'[x].pc # "idle"
        <3>1. CASE x = r
            BY <3>1
        <3>2. CASE x # r
            <4>1. x \in Requests /\ req[x].pc # "idle"
                BY <1>0, <2>1, <3>2 DEF FilesOK, Busy
            <4> QED BY <1>2, <3>2, <4>1
        <3> QED BY <3>1, <3>2
    <2> QED BY <1>4, <2>3, <2>4 DEF FilesOK
<1> QED BY <1>5, <1>6

\* A request at work on a key.
LEMMA KeyFacts ==
    ASSUME Shape, FilesOK, NEW r \in Requests, req[r].pc \in ActivePcs, req[r].p.model = "StoredFile"
    PROVE  /\ KeyOf(req[r]) \in Keys /\ OnKey(req[r], KeyOf(req[r])) /\ KeyOK(KeyOf(req[r]))
           /\ r \in crowd => cause[KeyOf(req[r])] # {}
           /\ r \notin crowd => \A x \in Requests : OnKey(req[x], KeyOf(req[r])) => x = r
           /\ req[r].n \in 1 .. jobs
<1> DEFINE k == KeyOf(req[r])
<1>1. k \in Keys /\ req[r].p.where = {k} /\ req[r].n \in 1 .. jobs
    BY FileKind DEF ActivePcs
<1> HIDE DEF k
<1>2. OnKey(req[r], k) /\ KeyOK(k)
    BY <1>1 DEF OnKey, FilesOK
<1>3. /\ r \in crowd => cause[k] # {}
      /\ r \notin crowd => \A x \in Requests : OnKey(req[x], k) => x = r
    BY <1>2 DEF KeyOK
<1> QED BY <1>1, <1>2, <1>3 DEF k

\* The provider's steps, one by one: what they leave is the request's own file, no
\* file, or a cause.
LEMMA ProviderFiles ==
    ASSUME Shape, FilesOK, NEW r \in Requests, Put(r) \/ Fill(r) \/ MakePublic(r) \/ Erase(r)
    PROVE  FilesOK'
<1> DEFINE q == req[r]
<1>0. PICK k : k = KeyOf(q)
    OBVIOUS
<1>1. /\ q.pc \in {"put", "fill", "public", "erase"} /\ q.p.model = "StoredFile"
      /\ q.job = IF q.pc = "erase" THEN "remove" ELSE "upload"
      /\ UNCHANGED <<app, tables, crowd>>
    BY ProviderStep, JobKind
<1>2. /\ k \in Keys /\ OnKey(q, k) /\ KeyOK(k) /\ q.n \in 1 .. jobs
      /\ r \in crowd => cause[k] # {}
      /\ r \notin crowd => \A x \in Requests : OnKey(req[x], k) => x = r
    BY <1>0, <1>1, KeyFacts DEF ActivePcs
<1>3. blobs \in [Keys -> {NULL} \cup [by : 1 .. jobs, whole : BOOLEAN]] /\ cause \in [Keys -> SUBSET Causes]
    BY DEF Shape
<1> HIDE DEF q
<1>4. ASSUME NEW v, Goto(r, v), v \in {"fill", "public", "query", "done", "failed"},
             blobs' = blobs \/ \E b : blobs' = [blobs EXCEPT ![k] = b],
             cause' = cause \/ Mark(k, "interrupted"),
             r \notin crowd /\ q.job = "remove" /\ v = "query" => blobs'[k] = NULL,
             r \notin crowd /\ app.track /\ cause' = cause /\ cause[k] = {} =>
                 /\ v \notin ActivePcs => Agree(k)'
                 /\ q.job = "upload" /\ v \in {"public", "query"} => blobs'[k] = Blob(q.n, TRUE)
      PROVE  FilesOK'
    <2>1. \A i \in Keys \ {k} : blobs'[i] = blobs[i] /\ cause'[i] = cause[i]
        BY <1>3, <1>4 DEF Mark
    <2>2. /\ cause[k] # {} => cause'[k] # {}
          /\ cause'[k] = {} => cause' = cause
        BY <1>2, <1>3, <1>4 DEF Mark
    <2>3. PICK w \in {"fill", "public", "query", "done", "failed"} :
            req' = [req EXCEPT ![r].pc = w] /\ Moves(r, w, FALSE)
        BY ProviderStep
    <2>4. q.pc # "idle" /\ req' = [req EXCEPT ![r].pc = v]
        BY <1>1, <1>4 DEF Goto
    <2>5. OthersStay(r) /\ req'[r] = [req[r] EXCEPT !.pc = v]
        <3>1. \A x \in Requests \ {r} : req'[x] = req[x]
            BY <2>4 DEF Shape
        <3>2. req'[r] = [req[r] EXCEPT !.pc = v]
            BY <2>4 DEF Shape
        <3> QED BY <3>1, <3>2 DEF OthersStay
    <2>6. v \notin {"put", "erase"}
        BY <1>4
    <2>7. /\ app' = app /\ crowd' = crowd /\ OnKey(req[r], k) /\ k \in Keys /\ v # "idle"
          /\ \A i \in Keys \ {k} : tables'.StoredFile[i] = tables.StoredFile[i]
        BY <1>1, <1>2, <1>4 DEF q
    <2>8. /\ r \in crowd => cause'[k] # {}
          /\ r \notin crowd /\ req[r].job = "remove" /\ v = "query" => blobs'[k] = NULL
        BY <1>2, <1>4, <2>2 DEF q
    <2>9. r \notin crowd /\ app.track /\ cause'[k] = {} =>
              /\ v \notin ActivePcs => Agree(k)'
              /\ req[r].job = "upload" /\ v \in {"public", "query"} => blobs'[k] = Blob(req[r].n, TRUE)
        BY <1>4, <2>2 DEF q
    <2>10. \A i \in Keys \ {k} : /\ tables'.StoredFile[i] = tables.StoredFile[i]
                                /\ blobs'[i] = blobs[i] /\ cause'[i] = cause[i]
        BY <2>1, <2>7
    <2> QED BY <1>4, <2>5, <2>6, <2>7, <2>8, <2>9, <2>10, FilesOwn DEF OwnMove
<1>5. ASSUME blobs' = blobs, cause' = cause, q.pc \in {"put", "erase"}, r \notin crowd, app.track, cause[k] = {}
      PROVE  Agree(k)'
    <2>1. \A x \in Requests : OnKey(req[x], k) => req[x].pc \in {"put", "erase"}
        BY <1>2, <1>5 DEF q
    <2>2. Agree(k)
        BY <1>2, <1>5, <2>1 DEF KeyOK
    <2> QED BY <1>1, <1>5, <2>2 DEF Agree
<1>6. Mark(k, "interrupted") => cause' # cause \/ cause[k] # {}
    BY <1>2, <1>3 DEF Mark
<1>7. CASE Put(r)
    <2> DEFINE b == Blob(q.n, app.provider # "local")
               next == CASE app.provider = "local" -> "fill"
                         [] app.provider = "firebase" -> "public"
                         [] OTHER -> PcTracked
    <2>1. q.pc = "put" /\ q.job = "upload"
        BY <1>1, <1>7 DEF Put, q
    <2>2. \/ blobs' = [blobs EXCEPT ![k] = b] /\ Goto(r, next) /\ UNCHANGED cause
          \/ UNCHANGED <<blobs, cause>> /\ Goto(r, "failed")
          \/ blobs' = [blobs EXCEPT ![k] = b] /\ Goto(r, "failed") /\ Mark(k, "interrupted")
        BY <1>0, <1>7 DEF Put, q
    <2>3. /\ next \in {"fill", "public", "query", "done"}
          /\ app.track => next \in ActivePcs
          /\ next \in {"public", "query"} => b = Blob(q.n, TRUE)
        BY DEF PcTracked, ActivePcs
    <2> HIDE DEF b, next
    <2>4. CASE blobs' = [blobs EXCEPT ![k] = b] /\ Goto(r, next) /\ UNCHANGED cause
        <3>1. blobs'[k] = b
            BY <1>2, <1>3, <2>4
        <3> QED BY <1>4, <2>1, <2>3, <2>4, <3>1
    <2>5. CASE UNCHANGED <<blobs, cause>> /\ Goto(r, "failed")
        BY <1>4, <1>5, <2>1, <2>5
    <2>6. CASE blobs' = [blobs EXCEPT ![k] = b] /\ Goto(r, "failed") /\ Mark(k, "interrupted")
        BY <1>4, <1>6, <2>6
    <2> QED BY <2>2, <2>4, <2>5, <2>6
<1>8. CASE Fill(r)
    <2>1. q.pc = "fill" /\ q.job = "upload"
        BY <1>1, <1>8 DEF Fill, q
    <2>2. \/ /\ IF r \in crowd
                  THEN \E b \in {blobs[k], Blob(q.n, TRUE), Blob(q.n, FALSE)} : blobs' = [blobs EXCEPT ![k] = b]
                  ELSE blobs' = [blobs EXCEPT ![k] = Blob(q.n, TRUE)]
             /\ Goto(r, PcTracked) /\ UNCHANGED cause
          \/ Goto(r, "failed") /\ Mark(k, "interrupted") /\ UNCHANGED blobs
        BY <1>0, <1>8 DEF Fill, q
    <2>3. PcTracked \in {"query", "done"} /\ (app.track => PcTracked \in ActivePcs)
        BY DEF PcTracked, ActivePcs
    <2>4. CASE Goto(r, "failed") /\ Mark(k, "interrupted") /\ UNCHANGED blobs
        BY <1>4, <1>6, <2>4
    <2>5. CASE r \in crowd /\ (\E b : blobs' = [blobs EXCEPT ![k] = b]) /\ Goto(r, PcTracked) /\ UNCHANGED cause
        BY <1>4, <2>3, <2>5
    <2>6. CASE r \notin crowd /\ blobs' = [blobs EXCEPT ![k] = Blob(q.n, TRUE)] /\ Goto(r, PcTracked) /\ UNCHANGED cause
        <3>1. blobs'[k] = Blob(q.n, TRUE)
            BY <1>2, <1>3, <2>6
        <3> QED BY <1>4, <2>1, <2>3, <2>6, <3>1
    <2> QED BY <2>2, <2>4, <2>5, <2>6
<1>9. CASE MakePublic(r)
    <2>1. q.pc = "public" /\ q.job = "upload" /\ UNCHANGED blobs
        BY <1>1, <1>9 DEF MakePublic, q
    <2>2. \/ Goto(r, PcTracked) /\ UNCHANGED cause
          \/ Goto(r, "failed") /\ Mark(k, "interrupted")
        BY <1>0, <1>9 DEF MakePublic, q
    <2>3. PcTracked \in {"query", "done"} /\ (app.track => PcTracked \in ActivePcs)
        BY DEF PcTracked, ActivePcs
    <2>4. app.track /\ cause[k] = {} => blobs[k] = Blob(q.n, TRUE)
        BY <1>2, <2>1 DEF KeyOK, q
    <2>5. CASE Goto(r, PcTracked) /\ UNCHANGED cause
        BY <1>4, <2>1, <2>3, <2>4, <2>5
    <2>6. CASE Goto(r, "failed") /\ Mark(k, "interrupted")
        BY <1>4, <1>6, <2>1, <2>6
    <2> QED BY <2>2, <2>5, <2>6
<1>10. CASE Erase(r)
    <2>1. q.pc = "erase" /\ q.job = "remove"
        BY <1>1, <1>10 DEF Erase, q
    <2>2. \/ blobs' = [blobs EXCEPT ![k] = NULL] /\ Goto(r, PcTracked) /\ UNCHANGED cause
          \/ UNCHANGED <<blobs, cause>> /\ Goto(r, "failed")
          \/ blobs' = [blobs EXCEPT ![k] = NULL] /\ Goto(r, "failed") /\ Mark(k, "interrupted")
        BY <1>0, <1>10 DEF Erase, q
    <2>3. PcTracked \in {"query", "done"} /\ (app.track => PcTracked \in ActivePcs)
        BY DEF PcTracked, ActivePcs
    <2>4. CASE blobs' = [blobs EXCEPT ![k] = NULL] /\ Goto(r, PcTracked) /\ UNCHANGED cause
        <3>1. blobs'[k] = NULL
            BY <1>2, <1>3, <2>4
        <3> QED BY <1>4, <2>1, <2>3, <2>4, <3>1
    <2>5. CASE UNCHANGED <<blobs, cause>> /\ Goto(r, "failed")
        BY <1>4, <1>5, <2>1, <2>5
    <2>6. CASE blobs' = [blobs EXCEPT ![k] = NULL] /\ Goto(r, "failed") /\ Mark(k, "interrupted")
        BY <1>4, <1>6, <2>6
    <2> QED BY <2>2, <2>4, <2>5, <2>6
<1> QED BY <1>7, <1>8, <1>9, <1>10

\* Who asked does not decide whether a query of the files succeeds.
LEMMA AskedFile ==
    ASSUME NEW q, NEW act \in {"create", "deleteMany"}, q.p \in FileParams(act)
    PROVE  /\ Asked(q) = Sent([q.p EXCEPT !.by = q.n])
           /\ Succeeds(Asked(q)) <=> Succeeds(Sent(q.p))
<1> DEFINE p == q.p
           c == [p EXCEPT !.by = q.n]
           R == [model : {"StoredFile"}, action : {act}, where : {{k} : k \in Keys}, by : {0, q.n}, skip : Nat,
                 stamp : {"keep"}, asked : {FALSE}, liveOnly : {FALSE}]
<1>1. p \in R /\ p.model = "StoredFile"
    BY DEF FileParams, ParamsOf
<1>2. Asked(q) = Sent(c)
    BY <1>1 DEF Asked
<1> HIDE DEF p
<1>3. c \in R /\ c.where = p.where
    BY <1>1
<1> HIDE DEF c
<1>4. ASSUME NEW d \in R
      PROVE  /\ Sent(d).model = "StoredFile" /\ Sent(d).where = d.where /\ ~Sent(d).liveOnly
             /\ Sent(d).action = IF Uses("soft") /\ "StoredFile" \in app.models /\ act = "deleteMany"
                                   THEN "updateMany" ELSE act
             /\ Sent(d).stamp = IF Uses("soft") /\ "StoredFile" \in app.models /\ act = "deleteMany"
                                  THEN "set" ELSE "keep"
    <2>0. d.model = "StoredFile" /\ d.action = act /\ d.stamp = "keep" /\ d.liveOnly = FALSE
        OBVIOUS
    <2>1. CASE Uses("soft") /\ "StoredFile" \in app.models /\ act = "deleteMany"
        <3>1. Sent(d) = [d EXCEPT !.action = "updateMany", !.stamp = "set"]
            BY <2>0, <2>1 DEF Sent, SoftDelete
        <3> QED BY <2>0, <2>1, <3>1
    <2>2. CASE ~(Uses("soft") /\ "StoredFile" \in app.models /\ act = "deleteMany")
        <3>1. Sent(d) = d
            BY <2>0, <2>2 DEF Sent, SoftDelete
        <3> QED BY <2>0, <2>2, <3>1
    <2> QED BY <2>1, <2>2
<1>5. Succeeds(Sent(c)) <=> Succeeds(Sent(p))
    <2> DEFINE a == Sent(c)  b == Sent(p)
    <2>1. a.model = b.model /\ a.where = b.where /\ a.action = b.action /\ a.stamp = b.stamp
          /\ ~a.liveOnly /\ ~b.liveOnly
        BY <1>1, <1>3, <1>4
    <2> HIDE DEF a, b
    <2>2. Succeeds(a) <=> Succeeds(b)
        BY <2>1 DEF Succeeds
    <2> QED BY <2>2 DEF a, b
<1> QED BY <1>2, <1>5 DEF p, c

\* What a query of a file's row leaves.
LEMMA TrackFiles ==
    ASSUME Shape, FilesOK, NEW r \in Requests, Track(r), req[r].p.model = "StoredFile"
    PROVE  FilesOK'
<1> DEFINE q == req[r]
<1>0. PICK k : k = KeyOf(q)
    OBVIOUS
<1>1. /\ Exec(r) \/ QueryFails(r)
      /\ UNCHANGED <<blobs, crowd>>
    BY DEF Track
<1>2. q.pc = "query" /\ app' = app /\ q.job \in {"upload", "remove"}
    BY <1>1, ExecStep, QueryFailsStep, FileKind
<1>3. /\ k \in Keys /\ OnKey(q, k) /\ KeyOK(k) /\ q.n \in 1 .. jobs
      /\ r \in crowd => cause[k] # {}
      /\ r \notin crowd => \A x \in Requests : OnKey(req[x], k) => x = r
    BY <1>0, <1>2, KeyFacts DEF ActivePcs
<1>4. blobs \in [Keys -> {NULL} \cup [by : 1 .. jobs, whole : BOOLEAN]] /\ cause \in [Keys -> SUBSET Causes]
    BY DEF Shape
<1>5. ASSUME NEW v \in {"log", "done"}, NEW stir \in BOOLEAN, Moves(r, v, stir),
             \A i \in Keys \ {k} : tables'.StoredFile[i] = tables.StoredFile[i] /\ cause'[i] = cause[i],
             r \in crowd => cause'[k] # {},
             r \notin crowd /\ app.track /\ cause'[k] = {} => Agree(k)'
      PROVE  FilesOK'
    <2>1. OthersStay(r) /\ req'[r] = [req[r] EXCEPT !.pc = v]
        BY <1>2, <1>5, MovesFiles
    <2>2. v \notin ActivePcs /\ v # "idle" /\ v # "query" /\ v # "public"
        BY <1>5 DEF ActivePcs
    <2>3. \A i \in Keys \ {k} : /\ tables'.StoredFile[i] = tables.StoredFile[i]
                                /\ blobs'[i] = blobs[i] /\ cause'[i] = cause[i]
        BY <1>1, <1>5
    <2>4. k \in Keys /\ OnKey(req[r], k) /\ app' = app /\ crowd' = crowd
        BY <1>1, <1>2, <1>3
    <2>5. /\ r \in crowd => cause'[k] # {}
          /\ r \notin crowd /\ req[r].job = "remove" /\ v = "query" => blobs'[k] = NULL
        BY <1>5, <2>2
    <2>6. r \notin crowd /\ app.track /\ cause'[k] = {} =>
              /\ v \notin ActivePcs => Agree(k)'
              /\ req[r].job = "upload" /\ v \in {"public", "query"} => blobs'[k] = Blob(req[r].n, TRUE)
        BY <1>5, <2>2
    <2>7. v # "idle" /\ v \notin {"put", "erase"}
        BY <2>2 DEF ActivePcs
    <2>8. OwnMove(r, k, v)
        BY <2>1, <2>3, <2>4, <2>5, <2>6, <2>7 DEF OwnMove
    <2> QED BY <2>4, <2>8, FilesOwn
<1>6. ASSUME Mark(k, "swallowed")
      PROVE  /\ cause'[k] # {} /\ \A i \in Keys \ {k} : cause'[i] = cause[i]
    BY <1>3, <1>4, <1>6 DEF Mark
<1>7. ASSUME UNCHANGED tables, Mark(k, "swallowed"), Moves(r, PcFailed(q), FALSE)
      PROVE  FilesOK'
    <2>1. PcFailed(q) = "done"
        BY DEF PcFailed
    <2> QED BY <1>5, <1>6, <1>7, <2>1
<1>8. CASE QueryFails(r) /\ Mark(k, "swallowed")
    BY <1>7, <1>8, QueryFailsStep
<1> DEFINE act == IF q.job = "upload" THEN "create" ELSE "deleteMany"
<1>9. /\ act \in {"create", "deleteMany"} /\ q.p \in FileParams(act) /\ q.p.where = {k}
      /\ Asked(q) = Sent([q.p EXCEPT !.by = q.n]) /\ (Succeeds(Asked(q)) <=> Succeeds(Sent(q.p)))
    <2>1. q.p \in FileParams(act) /\ act \in {"create", "deleteMany"} /\ q.p.where = {k}
        BY <1>0, <1>2, FileKind
    <2> HIDE DEF act
    <2> QED BY <2>1, AskedFile
<1>10. CASE Exec(r) /\ ~Succeeds(Sent(q.p)) /\ Mark(k, "swallowed")
    BY <1>7, <1>9, <1>10, ExecStep
<1>11. CASE /\ Exec(r) /\ Succeeds(Sent(q.p))
            /\ IF q.job = "remove" /\ r \notin crowd THEN cause' = [cause EXCEPT ![k] = {}] ELSE UNCHANGED cause
    <2>1. IF q.job = "remove" /\ r \notin crowd THEN cause' = [cause EXCEPT ![k] = {}] ELSE UNCHANGED cause
        BY <1>11
    <2>2. PICK v \in {"log", "done"} : Moves(r, v, TRUE) /\ tables' = Apply(Asked(q))
        <3>1. q.tx # "interactive"
            BY <1>2, JobKind
        <3> QED BY <1>9, <1>11, <3>1, ExecStep
    <2>3. FileChange(act, k, Asked(q), q.n)
        <3> HIDE DEF act
        <3> QED BY <1>3, <1>9, <1>11, FileTable DEF Shape
    <2> DEFINE row == IF act = "create" THEN Row(q.n) ELSE NULL
    <2>4. /\ tables'.StoredFile = [tables.StoredFile EXCEPT ![k] = row]
          /\ tables.StoredFile \in [Keys -> {NULL} \cup FileRow(jobs)]
        BY <2>2, <2>3 DEF FileChange, Shape, TableType
    <2>5. \A i \in Keys \ {k} : tables'.StoredFile[i] = tables.StoredFile[i] /\ cause'[i] = cause[i]
        BY <1>4, <2>1, <2>4
    <2>6. tables'.StoredFile[k] = row
        BY <1>3, <2>4
    <2>7. r \in crowd => cause'[k] # {}
        BY <1>3, <2>1
    <2>8. ASSUME r \notin crowd, app.track, cause'[k] = {}
          PROVE  Agree(k)'
        <3>1. CASE q.job = "upload"
            <4>1. cause[k] = {}
                BY <2>1, <2>8, <3>1
            <4>2. blobs[k] = Blob(q.n, TRUE)
                BY <1>2, <1>3, <2>8, <3>1, <4>1 DEF KeyOK
            <4>3. blobs'[k] = Blob(q.n, TRUE) /\ row = Row(q.n)
                BY <1>1, <3>1, <4>2
            <4>4. Blob(q.n, TRUE) # NULL /\ Row(q.n) # NULL
                <5>1. q.n \in Nat
                    BY <1>3
                <5> HIDE DEF q
                <5>2. Blob(q.n, TRUE) \in [by : Nat, whole : BOOLEAN] /\ Row(q.n) \in [by : Nat, deleted : BOOLEAN]
                    BY <5>1 DEF Blob, Row
                <5> QED BY <5>2, BlobAssumption, RowAssumption
            <4>5. Blob(q.n, TRUE).whole = TRUE /\ Blob(q.n, TRUE).by = q.n /\ Row(q.n).by = q.n
                BY DEF Blob, Row
            <4> QED BY <2>6, <4>3, <4>4, <4>5 DEF Agree
        <3>2. CASE q.job = "remove"
            <4>1. blobs[k] = NULL
                BY <1>2, <1>3, <2>8, <3>2 DEF KeyOK
            <4>2. blobs'[k] = NULL /\ row = NULL
                BY <1>1, <3>2, <4>1
            <4> QED BY <2>6, <4>2 DEF Agree
        <3> QED BY <1>2, <3>1, <3>2
    <2> QED BY <1>5, <2>2, <2>5, <2>7, <2>8
<1> QED BY <1>0, <1>2, <1>8, <1>10, <1>11 DEF Track

LEMMA CrashFiles ==
    ASSUME Shape, FilesOK, Crash
    PROVE  FilesOK'
<1>1. /\ req' = [r \in Requests |-> Idle] /\ crowd' = {} /\ UNCHANGED <<app, tables, blobs>>
      /\ cause' = [k \in Keys |-> IF HalfWay(k) THEN cause[k] \cup {"interrupted"} ELSE cause[k]]
    BY DEF Crash, ClientCrash
<1>2. ASSUME NEW k \in Keys
      PROVE  KeyOK(k)'
    <2>1. \A x \in Requests : ~OnKey(req[x], k)'
        BY <1>1 DEF OnKey, ActivePcs
    <2>2. ASSUME app.track, cause'[k] = {}
          PROVE  Agree(k)'
        <3>1. cause'[k] = IF HalfWay(k) THEN cause[k] \cup {"interrupted"} ELSE cause[k]
            BY <1>1
        <3>2. ~HalfWay(k) /\ cause[k] = {}
            BY <2>2, <3>1
        <3>3. \A x \in Requests : OnKey(req[x], k) => req[x].pc \in {"put", "erase"}
            BY <3>2 DEF HalfWay, Busy, OnKey, ActivePcs
        <3>4. Agree(k)
            BY <2>2, <3>2, <3>3 DEF FilesOK, KeyOK
        <3> QED BY <1>1, <3>4 DEF Agree
    <2> QED BY <1>1, <2>1, <2>2 DEF KeyOK
<1> QED BY <1>1, <1>2 DEF FilesOK

\* A step that leaves the files and the requests at work on them alone.
LEMMA StillFiles ==
    ASSUME FilesOK, UNCHANGED <<app, tables, req, blobs, crowd, cause>>
    PROVE  FilesOK'
<1>1. ASSUME NEW k \in Keys
      PROVE  KeyOK(k)'
    <2>1. KeySame(k)
        BY DEF KeySame
    <2> QED BY <2>1, KeyStays DEF FilesOK
<1> QED BY <1>1 DEF FilesOK

\* A job begins: a write of items, a refused upload, or one that comes to its key.
LEMMA BeginFiles ==
    ASSUME Shape, FilesOK, NEW r \in Requests, (Write(r) /\ UNCHANGED storageVars) \/ Upload(r) \/ Delete(r)
    PROVE  FilesOK'
<1>1. ASSUME NEW q, BeginWrite(r, q),
             DOMAIN q = {"pc", "job", "n", "user", "context", "p", "tx", "audited", "todo", "rows", "total", "quiet"}
      PROVE  /\ req[r].pc = "idle" /\ req'[r].pc = q.pc /\ req'[r].p = q.p
             /\ \A x \in Requests \ {r} : req'[x] = req[x]
             /\ UNCHANGED <<app, tables>>
    <2>1. PICK u \in Users : \E c \in Contexts(u) :
            Begin(r, [q EXCEPT !.n = jobs + 1, !.user = u, !.context = c])
        BY <1>1 DEF BeginWrite
    <2>2. PICK c \in Contexts(u) :
            Begin(r, [q EXCEPT !.n = jobs + 1, !.user = u, !.context = c])
        BY <2>1
    <2> DEFINE h == [q EXCEPT !.n = jobs + 1, !.user = u, !.context = c]
    <2>3. h.pc = q.pc /\ h.p = q.p
        BY <1>1
    <2> HIDE DEF h
    <2>4. req[r].pc = "idle" /\ req' = [req EXCEPT ![r] = h] /\ UNCHANGED <<app, tables>>
        BY <2>2 DEF Begin, h
    <2>5. req'[r] = h /\ \A x \in Requests \ {r} : req'[x] = req[x]
        BY <2>4 DEF Shape
    <2> QED BY <2>3, <2>4, <2>5
<1>2. ASSUME NEW j, \E job, p : j = Job(job, p)
      PROVE  DOMAIN j = {"pc", "job", "n", "user", "context", "p", "tx", "audited", "todo", "rows", "total", "quiet"}
    BY <1>2 DEF Job
<1>3. CASE Write(r) /\ UNCHANGED storageVars
    <2>1. PICK p \in ItemWrites :
            BeginWrite(r, [Job("write", p) EXCEPT !.tx = app.tx[p.action], !.audited = p.action \in app.audited])
        BY <1>3 DEF Write
    <2> DEFINE j == Job("write", p)
               q == [j EXCEPT !.tx = app.tx[p.action], !.audited = p.action \in app.audited]
    <2>2. j.p = p /\ p.model = "Item"
        BY ItemWritesAreParams DEF Job, ItemParams, ParamsOf
    <2>3. DOMAIN j = {"pc", "job", "n", "user", "context", "p", "tx", "audited", "todo", "rows", "total", "quiet"}
        BY <1>2
    <2> HIDE DEF j
    <2>4. q.p = p /\ DOMAIN q = DOMAIN j /\ q.p.model = "Item"
        BY <2>2, <2>3
    <2>5. BeginWrite(r, q)
        BY <2>1 DEF j
    <2> HIDE DEF q
    <2>6. /\ req[r].pc = "idle" /\ req'[r].p.model = "Item" /\ UNCHANGED <<app, tables>>
          /\ \A x \in Requests \ {r} : req'[x] = req[x]
        BY <1>1, <2>3, <2>4, <2>5
    <2> QED BY <1>3, <2>6, FilesIdle DEF OthersStay, ActivePcs, storageVars
<1>4. ASSUME NEW job, NEW act, NEW k \in Keys, NEW pc \in {"put", "failed", "erase"}, UNCHANGED blobs,
             BeginWrite(r, [Job(job, Params("StoredFile", act, {k})) EXCEPT !.pc = pc]),
             IF pc = "failed" THEN UNCHANGED <<crowd, cause>> ELSE Enter(r, k)
      PROVE  FilesOK'
    <2> DEFINE p == Params("StoredFile", act, {k})
               j == Job(job, p)
               q == [j EXCEPT !.pc = pc]
    <2>1. p.model = "StoredFile" /\ p.where = {k}
        BY DEF Params
    <2> HIDE DEF p
    <2>2. j.p = p /\ DOMAIN j = {"pc", "job", "n", "user", "context", "p", "tx", "audited", "todo", "rows", "total", "quiet"}
        BY DEF Job
    <2> HIDE DEF j
    <2>3. q.p = p /\ q.pc = pc /\ DOMAIN q = DOMAIN j
        BY <2>2
    <2>4. BeginWrite(r, q)
        BY <1>4 DEF j, p
    <2> HIDE DEF q
    <2>5. /\ req[r].pc = "idle" /\ req'[r].p = p /\ req'[r].pc = pc /\ UNCHANGED <<app, tables>>
          /\ \A x \in Requests \ {r} : req'[x] = req[x]
        BY <1>1, <2>2, <2>3, <2>4
    <2>6. CASE pc = "failed"
        BY <1>4, <2>5, <2>6, FilesIdle DEF OthersStay, ActivePcs
    <2>7. CASE pc # "failed"
        BY <1>4, <2>1, <2>5, <2>7, EnterFiles
    <2> QED BY <2>6, <2>7
<1>5. CASE Upload(r)
    <2>1. PICK k \in Keys, pc \in {"put", "failed"} :
            /\ BeginWrite(r, [Job("upload", Params("StoredFile", "create", {k})) EXCEPT !.pc = pc])
            /\ IF pc = "put" THEN Enter(r, k) ELSE UNCHANGED <<crowd, cause>>
            /\ UNCHANGED blobs
        BY <1>5 DEF Upload
    <2> QED BY <1>4, <2>1
<1>6. CASE Delete(r)
    <2>1. PICK k \in Keys :
            /\ BeginWrite(r, [Job("remove", Params("StoredFile", "deleteMany", {k})) EXCEPT !.pc = "erase"])
            /\ Enter(r, k)
            /\ UNCHANGED blobs
        BY <1>6 DEF Delete
    <2> QED BY <1>4, <2>1
<1> QED BY <1>3, <1>5, <1>6

LEMMA FilesStep ==
    ASSUME Shape, FilesOK, [Next]_vars
    PROVE  FilesOK'
<1>1. ASSUME NEW r \in Requests, (Write(r) /\ UNCHANGED storageVars) \/ Upload(r) \/ Delete(r)
      PROVE  FilesOK'
    BY <1>1, BeginFiles
<1>2. ASSUME NEW r \in Requests, Page(r), UNCHANGED storageVars
      PROVE  FilesOK'
    <2>1. PICK page \in 0 .. 1 :
            Begin(r, [Job("page", [Params("Item", "findMany", Ids) EXCEPT !.skip = page * Limit])
                          EXCEPT !.pc = "page", !.todo = {"findMany", "count"}])
        BY <1>2 DEF Page
    <2> DEFINE p == [Params("Item", "findMany", Ids) EXCEPT !.skip = page * Limit]
               q == [Job("page", p) EXCEPT !.pc = "page", !.todo = {"findMany", "count"}]
    <2>2. p \in PageParams
        BY PageParamsOK
    <2> HIDE DEF p
    <2>3. q.pc = "page"
        BY <2>2, PageBegins
    <2> HIDE DEF q
    <2>4. /\ req[r].pc = "idle" /\ req' = [req EXCEPT ![r] = q] /\ UNCHANGED <<app, tables>>
        BY <2>1 DEF Begin, q, p
    <2>5. req'[r] = q /\ \A x \in Requests \ {r} : req'[x] = req[x]
        BY <2>4 DEF Shape
    <2> QED BY <1>2, <2>3, <2>4, <2>5, FilesIdle DEF OthersStay, ActivePcs, storageVars
<1>3. ASSUME NEW r \in Requests, PageQuery(r), UNCHANGED storageVars
      PROVE  FilesOK'
    <2>1. /\ req[r].pc = "page" /\ req'[r].pc \in {"page", "done"} /\ UNCHANGED <<app, tables>>
          /\ \A x \in Requests \ {r} : req'[x] = req[x]
        BY <1>3, PageQueryStep DEF PageQuery
    <2> QED BY <1>3, <2>1, FilesIdle DEF OthersStay, ActivePcs, storageVars
<1>4. ASSUME NEW r \in Requests, NEW v, NEW stir \in BOOLEAN, Moves(r, v, stir), v # "idle",
             req[r].pc # "idle", req[r].pc \notin ActivePcs \/ req[r].p.model # "StoredFile",
             v \notin ActivePcs \/ req[r].p.model # "StoredFile",
             UNCHANGED <<app, blobs, crowd, cause>>, tables'.StoredFile = tables.StoredFile
      PROVE  FilesOK'
    <2>1. OthersStay(r) /\ req'[r].pc = v /\ req'[r].p = req[r].p
        BY <1>4, MovesFiles
    <2> QED BY <1>4, <2>1, FilesIdle
<1>5. ASSUME NEW r \in Requests, LogEntry(r) \/ Rollback(r), UNCHANGED storageVars
      PROVE  FilesOK'
    <2>1. /\ req[r].pc \in {"log", "commit"} /\ UNCHANGED <<app, tables>>
          /\ \E v \in {"done", "commit", "failed"} : Moves(r, v, FALSE)
        BY <1>5, LogEntryStep, RollbackStep DEF PcAfter
    <2> QED BY <1>4, <1>5, <2>1 DEF ActivePcs, storageVars
<1>6. ASSUME NEW r \in Requests, Commit(r), UNCHANGED storageVars
      PROVE  FilesOK'
    <2>1. /\ req[r].pc = "commit" /\ app' = app /\ Moves(r, "done", TRUE)
          /\ tables' = Apply(Asked(req[r]))
        BY <1>6, CommitStep
    <2>2. req[r].job = "write"
        BY <2>1, JobKind
    <2>3. Apply(Asked(req[r])).StoredFile = tables.StoredFile
        BY <2>1, <2>2, AskedTable
    <2> QED BY <1>4, <1>6, <2>1, <2>3 DEF ActivePcs, storageVars
<1>7. ASSUME NEW r \in Requests, Track(r)
      PROVE  FilesOK'
    <2>1. CASE req[r].p.model = "StoredFile"
        BY <1>7, <2>1, TrackFiles
    <2>2. CASE req[r].p.model # "StoredFile"
        <3>1. (Exec(r) \/ QueryFails(r)) /\ UNCHANGED <<blobs, crowd, cause>>
            BY <1>7, <2>2 DEF Track
        <3>2. req[r].pc = "query" /\ req[r].job = "write" /\ app' = app
            BY <2>2, <3>1, ExecStep, QueryFailsStep, JobKind
        <3>3. \E v \in {"log", "commit", "done", "failed"} : \E stir \in BOOLEAN : Moves(r, v, stir)
            BY <3>1, ExecStep, QueryFailsStep DEF PcFailed
        <3>4. tables'.StoredFile = tables.StoredFile
            BY <3>1, <3>2, ExecStep, QueryFailsStep, AskedTable
        <3> QED BY <1>4, <2>2, <3>1, <3>2, <3>3, <3>4 DEF ActivePcs
    <2> QED BY <2>1, <2>2
<1>8. ASSUME NEW r \in Requests, Leave(r)
      PROVE  FilesOK'
    <2>1. /\ req[r].pc \in {"done", "failed"} /\ req' = [req EXCEPT ![r] = Idle]
          /\ UNCHANGED <<app, tables, blobs, cause>> /\ crowd' = crowd \ {r}
        BY <1>8, ReplyStep DEF Leave
    <2>2. req'[r] = Idle /\ \A x \in Requests \ {r} : req'[x] = req[x]
        BY <2>1 DEF Shape
    <2> QED BY <2>1, <2>2, FilesIdle DEF OthersStay, ActivePcs
<1>9. ASSUME NEW r \in Requests, Put(r) \/ Fill(r) \/ MakePublic(r) \/ Erase(r)
      PROVE  FilesOK'
    BY <1>9, ProviderFiles
<1>10. CASE Crash
    BY <1>10, CrashFiles
<1>11. ASSUME (((\E e \in loose : Land(e)) \/ Find \/ Cleanup) /\ UNCHANGED storageVars) \/ UNCHANGED vars
       PROVE  FilesOK'
    BY <1>11, StillFiles DEF Land, Find, Cleanup, storageVars, vars, clientVars
<1> QED BY <1>1, <1>2, <1>3, <1>5, <1>6, <1>7, <1>8, <1>9, <1>10, <1>11 DEF Next, ClientStep

(* RowDescribesFile holds for any keys and requests and every provider: nothing    *)
(* but an overlap, a request cut off between the provider and the row or a         *)
(* swallowed failure parts a file from its row, and a removal that met nobody and  *)
(* ran to its end puts the two together again.                                     *)
THEOREM RowsDescribeFiles == Spec => []RowDescribesFile
<1>1. Init => FilesOK
    <2> SUFFICES ASSUME Init PROVE FilesOK
        OBVIOUS
    <2>1. \A k \in Keys : Agree(k)
        BY DEF Init, ClientInit, Agree
    <2>2. \A x \in Requests, k \in Keys : ~OnKey(req[x], k)
        BY DEF Init, ClientInit, OnKey, ActivePcs
    <2> QED BY <2>1, <2>2 DEF FilesOK, KeyOK, Init
<1>2. Shape /\ FilesOK /\ [Next]_vars => FilesOK'
    BY FilesStep
<1>3. Shape /\ FilesOK => RowDescribesFile
    <2> SUFFICES ASSUME Shape, FilesOK, NEW k \in Keys, app.track, Busy(k) = {}, cause[k] = {}
                 PROVE  Agree(k)
        BY DEF RowDescribesFile, Agree
    <2>1. \A x \in Requests : ~OnKey(req[x], k)
        BY DEF OnKey, Busy, ActivePcs
    <2> QED BY <2>1 DEF FilesOK, KeyOK
<1> QED BY <1>1, <1>2, <1>3, ShapeHolds, PTL DEF Spec
================================================================================
