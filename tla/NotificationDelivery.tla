-------------------------- MODULE NotificationDelivery --------------------------
(****************************************************************************)
(* From NotificationService.send to the delivery report: the notification's *)
(* row, the BullMQ jobs made for it (one per recipient; a push without an   *)
(* explicit recipient has one per device) and the workers that process      *)
(* them, which all report into the same row.                                *)
(*                                                                          *)
(* A preference is a row that its user changes at any time and that only    *)
(* send reads, so its read returns any value it may have.  The device       *)
(* tokens are the rows of the user that the notifications are for.          *)
(* BullMQ is modelled from how the processors use it: a job whose process   *)
(* function throws runs again until it has had MaxAttempts attempts, and    *)
(* one whose worker stopped is given back MaxStalls times and then failed   *)
(* without being run.  Titles, bodies, templates and times are left out.    *)
(*                                                                          *)
(* One process serves requests and runs the workers; it is stopped and      *)
(* started again MaxStops times, which WorkerCleanupService is there for.   *)
(****************************************************************************)
EXTENDS Naturals, FiniteSets, NotificationModule

CONSTANTS
  Note,         \* ids of notifications
  Device,       \* device tokens that the user may register
  MaxAttempts,  \* DEFAULT_JOB_OPTIONS.attempts
  MaxStalls,    \* BullMQ's maxStalledCount
  MaxStops,     \* bound: how often the process is stopped
  TO,           \* the explicit recipient of a payload
  NULL

ASSUME AttemptsAssumption == MaxAttempts \in Nat \ {0} /\ MaxStalls \in Nat /\ MaxStops \in Nat

Dest == Device \cup {TO}

VARIABLES
  config,  \* the module's options
  devices, \* DeviceToken rows of the user
  host,    \* the process: where it is in its stop, and how many stops it has left
  notes,   \* Notification rows
  send,    \* the send call that makes each notification
  jobs     \* the job of each notification for each recipient

vars == <<config, devices, host, notes, send, jobs>>
hostVars == <<config, devices, host>>

NoJob == [st |-> "none", made |-> 0, stalls |-> 0, accepts |-> 0,
          unsaved |-> 0, lost |-> FALSE]

Idle == [pc |-> "idle", channel |-> NULL, to |-> FALSE, adding |-> {}]

Init ==
  /\ config \in Config
  /\ devices \in SUBSET Device
  /\ host = [phase |-> "up", stops |-> MaxStops]
  /\ notes = [n \in Note |-> NULL]
  /\ send = [n \in Note |-> Idle]
  /\ jobs = [n \in Note |-> [d \in Dest |-> NoJob]]

\* Variant of Pending: the column has no default and the row no status.
Unset(channel) == [channel |-> channel, status |-> NULL, sentAt |-> FALSE, readAt |-> FALSE]

Pending(channel) == [channel |-> channel, status |-> "pending",
                     sentAt |-> FALSE, readAt |-> FALSE]

Exists(n) == notes[n] # NULL
SetStatus(n, s) == notes' = [notes EXCEPT ![n].status = s]
SetSent(n, s) == notes' = [notes EXCEPT ![n].status = s, ![n].sentAt = TRUE]

At(n, pc) == send[n].pc = pc
Goto(n, pc) == send' = [send EXCEPT ![n].pc = pc]

--------------------------------------------------------------------------------
(* send *)

\* The preference allows the channel, or is not there; otherwise nothing is written.
Send(n, channel, to) ==
  /\ send[n] = Idle /\ ~Exists(n) /\ host.phase # "down"
  /\ send' = [send EXCEPT ![n] = [Idle EXCEPT !.pc = "create", !.channel = channel, !.to = to]]
  /\ UNCHANGED <<hostVars, notes, jobs>>

\* What send does next with a row on this channel, up to its next await.
Route(channel, to) ==
  IF channel \notin config.enabled THEN "returned"
  ELSE IF channel = "in_app" THEN IF "in_app" \in Services(config) THEN "deliver" ELSE "returned"
  ELSE IF channel \notin Queues(config) THEN "report"
  ELSE IF to THEN "add"
  ELSE IF channel = "push" /\ "push" \in Services(config) THEN "find" ELSE "returned"

Create(n) ==
  /\ At(n, "create")
  /\ notes' = [notes EXCEPT ![n] = Pending(send[n].channel)]
  /\ LET pc == Route(send[n].channel, send[n].to)
     IN send' = [send EXCEPT ![n].pc = pc, ![n].adding = IF pc = "add" THEN {TO} ELSE {}]
  /\ UNCHANGED <<hostVars, jobs>>

\* routePush: the devices registered just now; with none, send returns.
FindDevices(n) ==
  /\ At(n, "find")
  /\ send' = [send EXCEPT ![n].pc = IF devices = {} THEN "returned" ELSE "add", ![n].adding = devices]
  /\ UNCHANGED <<hostVars, notes, jobs>>

\* The calls of add are all under way; each of them settles by itself, and send
\* returns, or throws, when they have.
Settle(n, d) ==
  /\ At(n, "add") /\ d \in send[n].adding
  /\ LET rest == send[n].adding \ {d}
     IN send' = [send EXCEPT ![n].adding = rest,
                             ![n].pc = IF rest = {} THEN "returned" ELSE "add"]

Add(n, d) ==
  /\ Settle(n, d)
  /\ host.phase # "down"
  /\ jobs' = [jobs EXCEPT ![n][d].st = "waiting"]
  /\ UNCHANGED <<hostVars, notes>>

AddFails(n, d) == Settle(n, d) /\ UNCHANGED <<hostVars, notes, jobs>>

\* markAsFailed: an error of its update is logged and dropped.
MarkAsFailed(n) ==
  /\ At(n, "report")
  /\ SetStatus(n, "failed") \/ UNCHANGED notes
  /\ Goto(n, "returned")
  /\ UNCHANGED <<hostVars, jobs>>

--------------------------------------------------------------------------------
(* InAppService *)

\* Variant of Deliver: the row is written anew.
DeliverAnew(n) ==
  /\ At(n, "deliver")
  /\ notes' = [notes EXCEPT ![n] =
                 [Pending("in_app") EXCEPT !.status = "delivered", !.sentAt = TRUE]]
  /\ Goto(n, "returned")
  /\ UNCHANGED <<hostVars, jobs>>

Deliver(n) ==
  /\ At(n, "deliver")
  /\ SetSent(n, "delivered")
  /\ Goto(n, "returned")
  /\ UNCHANGED <<hostVars, jobs>>

\* create, called without a row by the host application.
CreateInApp(n) ==
  /\ send[n] = Idle /\ ~Exists(n)
  /\ notes' = [notes EXCEPT ![n] =
                 [Pending("in_app") EXCEPT !.status = "delivered", !.sentAt = TRUE]]
  /\ UNCHANGED <<hostVars, send, jobs>>

InApp(n) == Exists(n) /\ notes[n].channel = "in_app"

Read(ns) ==
  /\ notes' = [n \in Note |-> IF n \in ns
                              THEN [notes[n] EXCEPT !.status = "read", !.readAt = TRUE]
                              ELSE notes[n]]
  /\ UNCHANGED <<hostVars, send, jobs>>

MarkAsRead(n) == Served(config, "in_app") /\ InApp(n) /\ Read({n})

MarkAllAsRead ==
  /\ Served(config, "in_app")
  /\ Read({n \in Note : InApp(n) /\ ~notes[n].readAt})

--------------------------------------------------------------------------------
(* DeviceTokenService.  Nobody reads the devices after the fan-out: a bound ends   *)
(* their changes there.                                                            *)

Waiting(n) == send[n].pc \in {"idle", "create", "find"}

SetDevices(ds) ==
  /\ Served(config, "push")
  /\ \E n \in Note : Waiting(n)
  /\ devices' = ds
  /\ UNCHANGED <<config, host, notes, send, jobs>>

Register(d) == SetDevices(devices \cup {d})
Unregister(d) == SetDevices(devices \ {d})
UnregisterAll == SetDevices({})

--------------------------------------------------------------------------------
(* Workers: BaseNotificationProcessor.processWithStatusTracking *)

Job(n, d) == jobs[n][d]
IsAt(n, d, st) == Job(n, d).st = st
SetJob(n, d, job) == jobs' = [jobs EXCEPT ![n][d] = job]
SetSt(n, d, st) == SetJob(n, d, [Job(n, d) EXCEPT !.st = st])

Take(n, d) ==
  /\ IsAt(n, d, "waiting")
  /\ host.phase = "up" /\ notes[n].channel \in Workers(config)
  /\ SetSt(n, d, "active")
  /\ UNCHANGED <<hostVars, notes, send>>

\* sendFn resolves: the provider has accepted the message.
ProviderAccepts(n, d) ==
  /\ IsAt(n, d, "active")
  /\ SetJob(n, d, [Job(n, d) EXCEPT !.st = "accepted", !.accepts = @ + 1])
  /\ UNCHANGED <<hostVars, notes, send>>

\* Variants of IsFinalAttempt, too late and too early by one.
IsPastFinalAttempt(job) == job.made >= MaxAttempts
IsAlmostFinalAttempt(job) == job.made + 2 >= MaxAttempts

IsFinalAttempt(job) == job.made >= MaxAttempts - 1

\* The catch block, up to its await or its throw.
Caught(job) ==
  [job EXCEPT !.st = IF IsFinalAttempt(job) THEN "reporting" ELSE "thrown"]

ProviderRejects(n, d) ==
  /\ IsAt(n, d, "active")
  /\ SetJob(n, d, Caught(Job(n, d)))
  /\ UNCHANGED <<hostVars, notes, send>>

\* Variant of MarkSent: the processor throws after a success too.
MarkSentAndThrow(n, d) ==
  /\ IsAt(n, d, "accepted")
  /\ SetSent(n, "sent")
  /\ SetSt(n, d, "thrown")
  /\ UNCHANGED <<hostVars, send>>

MarkSent(n, d) ==
  /\ IsAt(n, d, "accepted")
  /\ SetSent(n, "sent")
  /\ SetSt(n, d, "resolved")
  /\ UNCHANGED <<hostVars, send>>

\* The update of the row is inside the try block: its error is taken for the send's.
MarkSentFails(n, d) ==
  /\ IsAt(n, d, "accepted")
  /\ SetJob(n, d, [Caught(Job(n, d)) EXCEPT !.unsaved = @ + 1])
  /\ UNCHANGED <<hostVars, notes, send>>

MarkFailed(n, d) ==
  /\ IsAt(n, d, "reporting")
  /\ SetStatus(n, "failed")
  /\ SetSt(n, d, "thrown")
  /\ UNCHANGED <<hostVars, send>>

MarkFailedFails(n, d) ==
  /\ IsAt(n, d, "reporting")
  /\ SetJob(n, d, [Job(n, d) EXCEPT !.st = "thrown", !.lost = TRUE])
  /\ UNCHANGED <<hostVars, notes, send>>

--------------------------------------------------------------------------------
(* BullMQ *)

Complete(n, d) ==
  /\ IsAt(n, d, "resolved")
  /\ SetSt(n, d, "completed")
  /\ UNCHANGED <<hostVars, notes, send>>

RetryOrFail(n, d) ==
  /\ IsAt(n, d, "thrown")
  /\ LET made == Job(n, d).made + 1
     IN SetJob(n, d, [Job(n, d) EXCEPT !.made = made,
                        !.st = IF made < MaxAttempts THEN "waiting" ELSE "failed"])
  /\ UNCHANGED <<hostVars, notes, send>>

Working == {"active", "accepted", "resolved", "reporting", "thrown"}

\* The worker's process stops in the middle of a job.
Stall(n, d) ==
  /\ Job(n, d).st \in Working
  /\ LET job == [Job(n, d) EXCEPT !.unsaved =
                   IF Job(n, d).st \in {"accepted", "resolved"} THEN @ + 1 ELSE @]
     IN \/ /\ job.stalls < MaxStalls
           /\ SetJob(n, d, [job EXCEPT !.st = "waiting", !.stalls = @ + 1])
        \/ /\ job.stalls = MaxStalls
           /\ SetJob(n, d, [job EXCEPT !.st = "failed", !.lost = TRUE])
  /\ UNCHANGED <<hostVars, notes, send>>

--------------------------------------------------------------------------------
(* WorkerCleanupService.onModuleDestroy *)

Phase(p) ==
  /\ host' = [host EXCEPT !.phase = p]
  /\ UNCHANGED <<config, devices, notes, send, jobs>>

Busy == \E n \in Note, d \in Dest : Job(n, d).st \in Working

\* The module is destroyed: close is called on every worker, and no worker takes a job.
Stop ==
  /\ config.mode = "forRootAsync" /\ host.phase = "up" /\ host.stops > 0
  /\ host' = [phase |-> "closing", stops |-> host.stops - 1]
  /\ UNCHANGED <<config, devices, notes, send, jobs>>

\* close resolves when the worker's job has ended.
WorkersClose == host.phase = "closing" /\ ~Busy /\ Phase("drained")

\* One that rejects is logged.
WorkerCloseFails == host.phase = "closing" /\ Phase("torn")

\* The queues are closed, an add fails from then on, and the process ends.
QueuesClose == host.phase \in {"drained", "torn"} /\ Phase("down")

\* A process starts; the jobs the last one held have been found stalled.
Start ==
  /\ host.phase = "down" /\ ~Busy
  /\ \A n \in Note : send[n].pc \in {"idle", "returned"}
  /\ Phase("up")

--------------------------------------------------------------------------------
\* The instance that runs send stops, or its awaited database call rejects.
Abort(n) ==
  /\ send[n].pc \in {"create", "find", "deliver", "add", "report"}
  /\ send' = [send EXCEPT ![n].pc = "returned", ![n].adding = {}]
  /\ UNCHANGED <<hostVars, notes, jobs>>

\* Nothing runs in a process that has ended.
Process(n, d) == host.phase # "down" /\
  \/ Take(n, d)
  \/ ProviderAccepts(n, d) \/ ProviderRejects(n, d)
  \/ MarkSent(n, d) \/ MarkSentFails(n, d)
  \/ MarkFailed(n, d) \/ MarkFailedFails(n, d)
  \/ Complete(n, d) \/ RetryOrFail(n, d)

Request(n) ==
  \/ \E channel \in Channel, to \in BOOLEAN : Send(n, channel, to)
  \/ Create(n) \/ FindDevices(n) \/ MarkAsFailed(n) \/ Deliver(n)
  \/ \E d \in Dest : Add(n, d) \/ AddFails(n, d)
  \/ CreateInApp(n) \/ MarkAsRead(n) \/ Abort(n)

Next ==
  \/ MarkAllAsRead \/ UnregisterAll
  \/ \E d \in Device : Register(d) \/ Unregister(d)
  \/ Stop \/ WorkersClose \/ WorkerCloseFails \/ QueuesClose \/ Start
  \/ \E n \in Note : Request(n) \/ \E d \in Dest : Process(n, d) \/ Stall(n, d)

Spec == Init /\ [][Next]_vars

\* What a process that has ended leaves behind is cleared away.
Clear(n, d) == host.phase = "down" /\ (Stall(n, d) \/ Abort(n))

\* Workers keep running and the provider and the database answer, one way or another;
\* a stop takes its course, and whoever stopped the process starts it again.
FairSpec ==
  /\ Spec
  /\ \A n \in Note, d \in Dest : WF_vars(Process(n, d)) /\ WF_vars(Clear(n, d))
  /\ WF_vars(WorkersClose \/ WorkerCloseFails \/ QueuesClose \/ Start)

--------------------------------------------------------------------------------
(* Properties. *)

JobType ==
  [st : {"none", "waiting", "completed", "failed"} \cup Working,
   made : 0 .. MaxAttempts, stalls : 0 .. MaxStalls,
   accepts : 0 .. MaxAttempts + MaxStalls, unsaved : 0 .. MaxAttempts + MaxStalls,
   lost : BOOLEAN]

NoteType ==
  [channel : Channel, status : {"pending", "sent", "failed", "delivered", "read"},
   sentAt : BOOLEAN, readAt : BOOLEAN]

ASSUME NullAssumption == NULL \notin NoteType

SendType ==
  [pc : {"idle", "create", "find", "add", "report", "deliver", "returned"},
   channel : Channel \cup {NULL}, to : BOOLEAN, adding : SUBSET Dest]

\* Rows and jobs keep their shape; a job never has more attempts than its options give.
TypeOK ==
  /\ config \in Config
  /\ devices \subseteq Device
  /\ host \in [phase : {"up", "closing", "drained", "torn", "down"}, stops : 0 .. MaxStops]
  /\ notes \in [Note -> NoteType \cup {NULL}]
  /\ send \in [Note -> SendType]
  /\ jobs \in [Note -> [Dest -> JobType]]

Queued(n) == {d \in Dest : ~IsAt(n, d, "none")}

\* What the row says of a queued notification is true of some job: sent means that a
\* provider has accepted the message, failed that a job is on its last attempt or past it.
StatusHasCause ==
  \A n \in Note : Exists(n) /\ Queued(n) # {} =>
    /\ notes[n].status = "sent" => \E d \in Dest : Job(n, d).accepts > 0
    /\ notes[n].status = "failed" => \E d \in Dest : Job(n, d).made >= MaxAttempts - 1

\* A provider is given a message it has already accepted only because a report was lost:
\* the row's update failed after the send, or the worker stopped.
RepeatHasCause ==
  \A n \in Note, d \in Dest : Job(n, d).accepts <= Job(n, d).unsaved + 1

\* The report on a notification that has one recipient is final, unless a worker stopped:
\* neither does a retry overturn 'failed', nor an error that comes later 'sent'.
SingleReportIsFinal ==
  [][\A n \in Note, d \in Dest :
       Queued(n) = {d} /\ Job(n, d).stalls = 0 /\ notes[n].status \in {"sent", "failed"}
         => notes'[n].status = notes[n].status]_vars

\* The user's reading of a notification is not undone, by its late delivery either, and
\* only in-app notifications are read.
ReadingIsKept ==
  [][\A n \in Note : Exists(n) /\ notes[n].readAt => notes'[n].readAt /\ InApp(n)]_vars

Reported(n) == Exists(n) /\ notes[n].status # "pending"

\* Once a job is queued the row gets a report, unless a job's last report is lost.
QueuedIsReported ==
  \A n \in Note :
    (Queued(n) # {}) ~> (Reported(n) \/ \E d \in Dest : Job(n, d).lost)
================================================================================
