----------------------------- MODULE StorageService -----------------------------
(* nestjs-storage: upload and delete, each a call of the provider followed, when *)
(* uploads are tracked, by a query of the Prisma client whose failure is only    *)
(* warned about.  Nothing ties the two together but their order.                 *)
(*                                                                               *)
(* A file is known by the job that uploaded it.                                  *)
EXTENDS PrismaClient

VARIABLES
    blobs,     \* what the provider holds under each key
    crowd,     \* history: the requests that met another one on their key
    cause      \* history: what happened to a key that can part the file from its row

vars == <<clientVars, blobs, crowd, cause>>
storageVars == <<blobs, crowd, cause>>

Causes == {"overlap", "interrupted", "swallowed"}

Blob(n, whole) == [by |-> n, whole |-> whole]
ASSUME BlobAssumption == NULL \notin [by : Nat, whole : BOOLEAN]
KeyOf(q) == CHOOSE k \in q.p.where : TRUE
Busy(k) == {r \in Requests : req[r].pc # "idle" /\ req[r].p.model = "StoredFile" /\ req[r].p.where = {k}}
Mark(k, c) == cause' = [cause EXCEPT ![k] = @ \cup {c}]

(* A request begins on a key: the ones already there and it are a crowd. *)
Enter(r, k) ==
    IF Busy(k) = {}
      THEN UNCHANGED <<crowd, cause>>
      ELSE /\ crowd' = crowd \cup Busy(k) \cup {r}
           /\ Mark(k, "overlap")

(* The key is the caller's or generated; validateFile refuses before anything else. *)
Upload(r) ==
    \E k \in Keys, pc \in {"put", "failed"} :
        /\ "files" \in app.hosts
        /\ BeginWrite(r, [Job("upload", Params("StoredFile", "create", {k})) EXCEPT !.pc = pc])
        /\ IF pc = "put" THEN Enter(r, k) ELSE UNCHANGED <<crowd, cause>>
        /\ UNCHANGED blobs

Delete(r) ==
    \E k \in Keys :
        /\ "files" \in app.hosts
        /\ BeginWrite(r, [Job("remove", Params("StoredFile", "deleteMany", {k})) EXCEPT !.pc = "erase"])
        /\ Enter(r, k)
        /\ UNCHANGED blobs

PcTracked == IF app.track THEN "query" ELSE "done"

Goto(r, pc) ==
    /\ req' = [req EXCEPT ![r].pc = pc]
    /\ UNCHANGED <<app, tables, log, loose, answer, jobs, writes, undone, lost, crowd>>

(* Variant of Put: the row first. *)
PutAfterRow(r) ==
    LET q == req[r]
        k == KeyOf(q)
    IN  /\ q.pc = "put"
        /\ tables' = Apply([q.p EXCEPT !.by = q.n])
        /\ \/ blobs' = [blobs EXCEPT ![k] = Blob(q.n, TRUE)]
              /\ req' = [req EXCEPT ![r].pc = "done"]
           \/ UNCHANGED blobs
              /\ req' = [req EXCEPT ![r].pc = "failed"]
        /\ UNCHANGED <<app, log, loose, answer, jobs, writes, undone, lost, crowd, cause>>

(* The provider's upload.  s3 and do_spaces send one request; local opens the     *)
(* file, which empties it, and then fills it; firebase saves and then makes the   *)
(* file public.  An answer may be lost, the file being there or not.              *)
Put(r) ==
    LET q == req[r]
        k == KeyOf(q)
        put == [blobs EXCEPT ![k] = Blob(q.n, app.provider # "local")]
        next == CASE app.provider = "local" -> "fill"
                  [] app.provider = "firebase" -> "public"
                  [] OTHER -> PcTracked
    IN  /\ q.pc = "put"
        /\ \/ blobs' = put /\ Goto(r, next) /\ UNCHANGED cause
           \/ UNCHANGED <<blobs, cause>> /\ Goto(r, "failed")
           \/ blobs' = put /\ Goto(r, "failed") /\ Mark(k, "interrupted")

(* writeFile ends or fails half-way; with another request at the same path the    *)
(* file may be gone, or hold what both wrote.                                     *)
Fill(r) ==
    LET q == req[r]
        k == KeyOf(q)
    IN  /\ q.pc = "fill"
        /\ \/ /\ IF r \in crowd
                   THEN \E b \in {blobs[k], Blob(q.n, TRUE), Blob(q.n, FALSE)} : blobs' = [blobs EXCEPT ![k] = b]
                   ELSE blobs' = [blobs EXCEPT ![k] = Blob(q.n, TRUE)]
              /\ Goto(r, PcTracked)
              /\ UNCHANGED cause
           \/ Goto(r, "failed") /\ Mark(k, "interrupted") /\ UNCHANGED blobs

MakePublic(r) ==
    LET k == KeyOf(req[r])
    IN  /\ req[r].pc = "public"
        /\ \/ Goto(r, PcTracked) /\ UNCHANGED cause
           \/ Goto(r, "failed") /\ Mark(k, "interrupted")
        /\ UNCHANGED blobs

(* The provider's delete; a file that is not there is no error. *)
Erase(r) ==
    LET k == KeyOf(req[r])
        gone == [blobs EXCEPT ![k] = NULL]
    IN  /\ req[r].pc = "erase"
        /\ \/ blobs' = gone /\ Goto(r, PcTracked) /\ UNCHANGED cause
           \/ UNCHANGED <<blobs, cause>> /\ Goto(r, "failed")
           \/ blobs' = gone /\ Goto(r, "failed") /\ Mark(k, "interrupted")

(* trackUpload and removeTrackedUpload: create a row for the key, which is unique, *)
(* or delete the rows with it; a failure leaves things as they are.  A removal    *)
(* that met nobody and ran to its end leaves neither file nor row.                *)
Track(r) ==
    LET q == req[r]
        file == q.pc = "query" /\ q.p.model = "StoredFile"
    IN  /\ \/ /\ Exec(r)
              /\ IF ~file THEN UNCHANGED cause
                 ELSE IF ~Succeeds(Sent(q.p)) THEN Mark(KeyOf(q), "swallowed")
                 ELSE IF q.job = "remove" /\ r \notin crowd THEN cause' = [cause EXCEPT ![KeyOf(q)] = {}]
                 ELSE UNCHANGED cause
           \/ /\ QueryFails(r)
              /\ IF file THEN Mark(KeyOf(q), "swallowed") ELSE UNCHANGED cause
        /\ UNCHANGED <<blobs, crowd>>

Leave(r) ==
    /\ Reply(r)
    /\ crowd' = crowd \ {r}
    /\ UNCHANGED <<blobs, cause>>

(* Between the provider's answer and the row's, a crash parts the two. *)
HalfWay(k) == \E r \in Busy(k) : req[r].pc \in {"fill", "public", "query"}

Crash ==
    /\ ClientCrash
    /\ crowd' = {}
    /\ cause' = [k \in Keys |-> IF HalfWay(k) THEN cause[k] \cup {"interrupted"} ELSE cause[k]]
    /\ UNCHANGED blobs

Init ==
    /\ ClientInit
    /\ blobs = [k \in Keys |-> NULL]
    /\ crowd = {}
    /\ cause = [k \in Keys |-> {}]

Next ==
    \/ \E r \in Requests :
        \/ ClientStep(r) /\ UNCHANGED storageVars
        \/ Upload(r) \/ Delete(r)
        \/ Put(r) \/ Fill(r) \/ MakePublic(r) \/ Erase(r)
        \/ Track(r) \/ Leave(r)
    \/ (\E e \in loose : Land(e)) /\ UNCHANGED storageVars
    \/ (Find \/ Cleanup) /\ UNCHANGED storageVars
    \/ Crash

Spec == Init /\ [][Next]_vars

----
TypeOK ==
    /\ AppOK(app)
    /\ \A i \in Ids : tables.Item[i] \in {NULL} \cup [by : {0}, deleted : BOOLEAN]
    /\ \A k \in Keys :
        /\ tables.StoredFile[k] \in {NULL} \cup [by : 1 .. jobs, deleted : {FALSE}]
        /\ blobs[k] \in {NULL} \cup [by : 1 .. jobs, whole : BOOLEAN]
        /\ cause[k] \subseteq Causes
    /\ \A e \in log \cup loose : e.n \in 1 .. jobs /\ e.user \in Users \cup {NULL}
    /\ answer \subseteq Ids \cup Keys
    /\ undone \cup lost \subseteq 1 .. jobs
    /\ \A r \in Requests : req[r] = Idle \/ req[r].n \in 0 .. jobs
    /\ crowd \subseteq Requests

(* A key nobody is working on has a row exactly when it has a file, the file is    *)
(* whole and the row describes that file, unless one of three things happened      *)
(* since the last removal that ran to its end: two requests met on the key, one    *)
(* was cut off between the provider and the row, or a failed query was swallowed,  *)
(* as it is when a key is uploaded again.                                          *)
RowDescribesFile ==
    \A k \in Keys :
        app.track /\ Busy(k) = {} /\ cause[k] = {} =>
            /\ (tables.StoredFile[k] = NULL) = (blobs[k] = NULL)
            /\ blobs[k] # NULL => blobs[k].whole /\ tables.StoredFile[k].by = blobs[k].by
=============================================================================
