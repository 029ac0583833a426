---------------------- MODULE NotificationDelivery_proofs ----------------------
(* What holds of NotificationDelivery for every number of notifications, devices, *)
(* attempts, stalls and stops, and every way to set the module up.                *)
EXTENDS NotificationDelivery, TLAPS

\* A run of the processor is on the last attempt, or past it.
IsLast(job) == job.made >= MaxAttempts - 1

\* The last report on a job has been made, or will not be.
IsGivenUp(job) == job.st = "failed" \/ (job.st = "thrown" /\ IsLast(job))

\* A job counts its attempts and its accepted messages: every message that was accepted,
\* save that of the run under way or completed, was lost to the row.
JobOK(job) ==
  /\ job.st = "none" => job = NoJob
  /\ job.accepts = IF job.st \in {"accepted", "resolved", "completed"} THEN job.unsaved + 1 ELSE job.unsaved
  /\ job.st # "failed" => job.made < MaxAttempts
  /\ job.st \in {"waiting", "active"} => job.accepts <= job.made + job.stalls
  /\ job.st \notin {"waiting", "active", "failed"} => job.accepts <= job.made + job.stalls + 1
  /\ job.st = "reporting" => IsLast(job)

QueuedIn(js) == {d \in Dest : js[d].st # "none"}

\* What a row's report says is true of a job.
CauseOK(note, js) ==
  QueuedIn(js) # {} =>
    /\ note.status = "sent" => \E d \in Dest : js[d].accepts > 0
    /\ note.status = "failed" => \E d \in Dest : IsLast(js[d])

\* The only job of a row that has its report is past the point where it makes another.
SingleOK(note, js) ==
  \A d \in Dest : QueuedIn(js) = {d} /\ js[d].stalls = 0 =>
    /\ note.status = "sent" => js[d].st \in {"resolved", "completed", "failed"}
    /\ note.status = "failed" => IsGivenUp(js[d])

\* A notification's row, the send that makes it and the jobs made for it.
RowOK(note, s, js) ==
  /\ note \in NoteType \cup {NULL} /\ s \in SendType /\ js \in [Dest -> JobType]
  /\ \A d \in Dest : JobOK(js[d])
  /\ s.pc # "idle" => s.channel \in Channel
  /\ \A d \in s.adding : js[d].st = "none"
  /\ s.pc = "create" => note = NULL
  /\ s.pc \in {"find", "add", "report", "deliver"} => note \in NoteType
  /\ s.pc \in {"find", "add"} => note.channel # "in_app"
  /\ s.pc \in {"find", "add"} /\ QueuedIn(js) = {} => note.status = "pending"
  /\ QueuedIn(js) # {} =>
       s.pc \in {"add", "returned"} /\ note \in NoteType /\ note.channel # "in_app"
  /\ note \in NoteType /\ note.readAt => note.channel = "in_app"

ReportOK(note, js) == CauseOK(note, js) /\ SingleOK(note, js)

GlobalsOK ==
  /\ config \in Config /\ devices \subseteq Device
  /\ host \in [phase : {"up", "closing", "drained", "torn", "down"}, stops : 0 .. MaxStops]

IInv ==
  /\ GlobalsOK
  /\ DOMAIN notes = Note /\ DOMAIN send = Note /\ DOMAIN jobs = Note
  /\ \A n \in Note : RowOK(notes[n], send[n], jobs[n]) /\ ReportOK(notes[n], jobs[n])

--------------------------------------------------------------------------------
(* Notifications share nothing but the options, the devices and the process. *)

\* It is enough to look at the notification whose row, send or jobs have changed.
LEMMA RowRule ==
  ASSUME IInv, NEW n \in Note, GlobalsOK',
         DOMAIN notes' = Note /\ DOMAIN send' = Note /\ DOMAIN jobs' = Note,
         \A m \in Note \ {n} : notes'[m] = notes[m] /\ send'[m] = send[m] /\ jobs'[m] = jobs[m],
         RowOK(notes'[n], send'[n], jobs'[n]), ReportOK(notes'[n], jobs'[n])
  PROVE  IInv'
<1>1. \A m \in Note : RowOK(notes'[m], send'[m], jobs'[m]) /\ ReportOK(notes'[m], jobs'[m])
  BY DEF IInv
<1>2. \A m \in Note : RowOK(notes[m], send[m], jobs[m])' /\ ReportOK(notes[m], jobs[m])'
  BY <1>1
<1> QED BY <1>2 DEF IInv

\* A step of one send that leaves the row and the jobs.
LEMMA SendRule ==
  ASSUME IInv, NEW n \in Note, NEW s, send' = [send EXCEPT ![n] = s],
         UNCHANGED <<hostVars, notes, jobs>>, RowOK(notes[n], s, jobs[n])
  PROVE  IInv'
<1>1. /\ DOMAIN send' = Note /\ send'[n] = s /\ \A m \in Note \ {n} : send'[m] = send[m]
      /\ GlobalsOK' /\ ReportOK(notes[n], jobs[n])
  BY DEF IInv, GlobalsOK, hostVars
<1> QED BY <1>1, RowRule DEF IInv

\* What a step of a job must respect, for the job before and after it.
Goes(old, job) ==
  /\ old.st # "none" /\ job.st # "none"
  /\ job.accepts >= old.accepts /\ job.made >= old.made /\ job.stalls >= old.stalls
  /\ job.stalls = 0 =>
       /\ old.st \in {"resolved", "completed", "failed"} => job.st \in {"resolved", "completed", "failed"}
       /\ IsGivenUp(old) => IsGivenUp(job)

\* Such a step leaves what is said of the row.
LEMMA GoesRule ==
  ASSUME NEW note, NEW s, NEW js, RowOK(note, s, js), ReportOK(note, js), NEW d \in Dest,
         NEW job \in JobType, JobOK(job), Goes(js[d], job)
  PROVE  LET new == [js EXCEPT ![d] = job] IN
         RowOK(note, s, new) /\ ReportOK(note, new) /\ QueuedIn(new) = QueuedIn(js)
<1> DEFINE new == [js EXCEPT ![d] = job]
<1>0. js \in [Dest -> JobType] /\ MaxAttempts \in Nat /\ MaxStalls \in Nat
  BY AttemptsAssumption DEF RowOK
<1>1. /\ new \in [Dest -> JobType] /\ new[d] = job
      /\ \A c \in Dest \ {d} : new[c] = js[c]
  BY <1>0
<1>2. QueuedIn(new) = QueuedIn(js)
  BY <1>1 DEF QueuedIn, Goes
<1>3. RowOK(note, s, new)
  <2>1. s.adding \subseteq Dest /\ d \notin s.adding
    BY DEF RowOK, SendType, Goes
  <2>2. \A c \in s.adding : new[c].st = "none"
    BY <1>1, <2>1 DEF RowOK
  <2> QED BY <1>1, <1>2, <2>2 DEF RowOK
<1>4. /\ js[d].made \in Nat /\ job.made \in Nat /\ js[d].accepts \in Nat /\ job.accepts \in Nat
      /\ js[d].stalls \in Nat /\ job.stalls \in Nat
  BY <1>0 DEF JobType
<1>5. CauseOK(note, new)
  <2>1. js[d].accepts > 0 => job.accepts > 0
    BY <1>4 DEF Goes
  <2>2. IsLast(js[d]) => IsLast(job)
    BY <1>0, <1>4 DEF Goes, IsLast
  <2>3. (\E c \in Dest : js[c].accepts > 0) => \E c \in Dest : new[c].accepts > 0
    BY <1>1, <2>1
  <2>4. (\E c \in Dest : IsLast(js[c])) => \E c \in Dest : IsLast(new[c])
    BY <1>1, <2>2
  <2> QED BY <1>2, <2>3, <2>4 DEF CauseOK, ReportOK
<1>6. SingleOK(note, new)
  <2> SUFFICES ASSUME NEW c \in Dest, QueuedIn(new) = {c}, new[c].stalls = 0
               PROVE  /\ note.status = "sent" => new[c].st \in {"resolved", "completed", "failed"}
                      /\ note.status = "failed" => IsGivenUp(new[c])
    BY DEF SingleOK
  <2>1. d \in QueuedIn(js)
    BY DEF QueuedIn, Goes
  <2>2. c = d /\ QueuedIn(js) = {d}
    BY <1>2, <2>1
  <2>3. job.stalls = 0 /\ js[d].stalls = 0
    BY <1>1, <1>4, <2>2 DEF Goes
  <2>4. /\ note.status = "sent" => js[d].st \in {"resolved", "completed", "failed"}
        /\ note.status = "failed" => IsGivenUp(js[d])
    BY <2>2, <2>3 DEF ReportOK, SingleOK
  <2> QED BY <1>1, <2>2, <2>3, <2>4 DEF Goes
<1> QED BY <1>2, <1>3, <1>5, <1>6 DEF ReportOK

\* A step of one job that leaves the row and the send.
LEMMA JobRule ==
  ASSUME IInv, NEW n \in Note, NEW d \in Dest, NEW job \in JobType, JobOK(job),
         Goes(Job(n, d), job), SetJob(n, d, job), UNCHANGED <<hostVars, notes, send>>
  PROVE  IInv'
<1>1. RowOK(notes[n], send[n], jobs[n]) /\ ReportOK(notes[n], jobs[n])
  BY DEF IInv
<1>2. jobs[n] \in [Dest -> JobType]
  BY <1>1 DEF RowOK
<1>3. /\ DOMAIN jobs' = Note /\ jobs'[n] = [jobs[n] EXCEPT ![d] = job]
      /\ \A m \in Note \ {n} : jobs'[m] = jobs[m]
  BY <1>2 DEF SetJob, IInv
<1>4. RowOK(notes[n], send[n], jobs'[n]) /\ ReportOK(notes[n], jobs'[n])
  BY <1>1, <1>3, GoesRule DEF Job
<1>5. GlobalsOK' /\ UNCHANGED <<notes, send>>
  BY DEF IInv, GlobalsOK, hostVars
<1> QED BY <1>3, <1>4, <1>5, RowRule DEF IInv

--------------------------------------------------------------------------------
(* The steps of a job that leave the row. *)

LEMMA JobFacts ==
  ASSUME IInv, NEW n \in Note, NEW d \in Dest
  PROVE  /\ Job(n, d) \in JobType /\ JobOK(Job(n, d))
         /\ RowOK(notes[n], send[n], jobs[n]) /\ ReportOK(notes[n], jobs[n])
         /\ MaxAttempts \in Nat \ {0} /\ MaxStalls \in Nat
BY AttemptsAssumption DEF IInv, RowOK, Job

\* The fields of a job, for the provers.
LEMMA JobFields ==
  ASSUME NEW job \in JobType
  PROVE  /\ job.made \in Nat /\ job.stalls \in Nat /\ job.accepts \in Nat /\ job.unsaved \in Nat
         /\ job.made <= MaxAttempts /\ job.stalls <= MaxStalls
         /\ job.accepts <= MaxAttempts + MaxStalls /\ job.unsaved <= MaxAttempts + MaxStalls
BY AttemptsAssumption DEF JobType

LEMMA TakeKeeps ==
  ASSUME IInv, NEW n \in Note, NEW d \in Dest, Take(n, d)
  PROVE  IInv'
<1> DEFINE old == Job(n, d)
           job == [old EXCEPT !.st = "active"]
<1>1. old \in JobType /\ JobOK(old) /\ old.st = "waiting"
  BY JobFacts DEF Take, IsAt
<1>2. job \in JobType
  BY <1>1, JobFields, AttemptsAssumption DEF JobType, JobOK, Working
<1>3. JobOK(job) /\ Goes(old, job)
  BY <1>1, <1>2, JobFields, AttemptsAssumption DEF JobOK, Goes, IsGivenUp, IsLast
<1>4. SetJob(n, d, job) /\ UNCHANGED <<hostVars, notes, send>>
  BY DEF Take, SetSt
<1> HIDE DEF job
<1> QED BY <1>2, <1>3, <1>4, JobRule

LEMMA ProviderAcceptsKeeps ==
  ASSUME IInv, NEW n \in Note, NEW d \in Dest, ProviderAccepts(n, d)
  PROVE  IInv'
<1> DEFINE old == Job(n, d)
           job == [old EXCEPT !.st = "accepted", !.accepts = @ + 1]
<1>1. old \in JobType /\ JobOK(old) /\ old.st = "active"
  BY JobFacts DEF ProviderAccepts, IsAt
<1>2. job \in JobType
  <2>1. old.accepts <= old.made + old.stalls /\ old.made < MaxAttempts
    BY <1>1 DEF JobOK
  <2>2. old.accepts + 1 \in 0 .. MaxAttempts + MaxStalls
    BY <1>1, <2>1, JobFields, AttemptsAssumption
  <2> QED BY <1>1, <2>2 DEF JobType, Working
<1>3. JobOK(job) /\ Goes(old, job)
  BY <1>1, <1>2, JobFields, AttemptsAssumption DEF JobOK, Goes, IsGivenUp, IsLast
<1>4. SetJob(n, d, job) /\ UNCHANGED <<hostVars, notes, send>>
  BY DEF ProviderAccepts
<1> HIDE DEF job
<1> QED BY <1>2, <1>3, <1>4, JobRule

LEMMA ProviderRejectsKeeps ==
  ASSUME IInv, NEW n \in Note, NEW d \in Dest, ProviderRejects(n, d)
  PROVE  IInv'
<1> DEFINE old == Job(n, d)
           job == Caught(old)
<1>1. old \in JobType /\ JobOK(old) /\ old.st = "active"
  BY JobFacts DEF ProviderRejects, IsAt
<1>2. job \in JobType
  BY <1>1, JobFields, AttemptsAssumption DEF JobType, JobOK, Working, Caught, IsFinalAttempt
<1>3. JobOK(job) /\ Goes(old, job)
  BY <1>1, <1>2, JobFields, AttemptsAssumption DEF JobOK, Goes, IsGivenUp, IsLast, Caught, IsFinalAttempt
<1>4. SetJob(n, d, job) /\ UNCHANGED <<hostVars, notes, send>>
  BY DEF ProviderRejects
<1> HIDE DEF job
<1> QED BY <1>2, <1>3, <1>4, JobRule

LEMMA MarkSentFailsKeeps ==
  ASSUME IInv, NEW n \in Note, NEW d \in Dest, MarkSentFails(n, d)
  PROVE  IInv'
<1> DEFINE old == Job(n, d)
           job == [Caught(old) EXCEPT !.unsaved = @ + 1]
<1>1. old \in JobType /\ JobOK(old) /\ old.st = "accepted"
  BY JobFacts DEF MarkSentFails, IsAt
<1>2. old.accepts = old.unsaved + 1 /\ old.unsaved + 1 \in 0 .. MaxAttempts + MaxStalls
  BY <1>1, AttemptsAssumption DEF JobType, JobOK
<1>3. job \in JobType /\ JobOK(job) /\ Goes(old, job)
  <2>1. job \in JobType
    BY <1>1, <1>2 DEF JobType, Working, Caught
  <2> QED BY <1>1, <1>2, <2>1, JobFields, AttemptsAssumption
          DEF JobOK, Goes, IsGivenUp, IsLast, Caught, IsFinalAttempt
<1>4. SetJob(n, d, job) /\ UNCHANGED <<hostVars, notes, send>>
  BY DEF MarkSentFails
<1> HIDE DEF job
<1> QED BY <1>3, <1>4, JobRule

LEMMA MarkFailedFailsKeeps ==
  ASSUME IInv, NEW n \in Note, NEW d \in Dest, MarkFailedFails(n, d)
  PROVE  IInv'
<1> DEFINE old == Job(n, d)
           job == [old EXCEPT !.st = "thrown", !.lost = TRUE]
<1>1. old \in JobType /\ JobOK(old) /\ old.st = "reporting"
  BY JobFacts DEF MarkFailedFails, IsAt
<1>2. job \in JobType
  BY <1>1, JobFields, AttemptsAssumption DEF JobType, JobOK, Working
<1>3. JobOK(job) /\ Goes(old, job)
  BY <1>1, <1>2, JobFields, AttemptsAssumption DEF JobOK, Goes, IsGivenUp, IsLast
<1>4. SetJob(n, d, job) /\ UNCHANGED <<hostVars, notes, send>>
  BY DEF MarkFailedFails
<1> HIDE DEF job
<1> QED BY <1>2, <1>3, <1>4, JobRule

LEMMA CompleteKeeps ==
  ASSUME IInv, NEW n \in Note, NEW d \in Dest, Complete(n, d)
  PROVE  IInv'
<1> DEFINE old == Job(n, d)
           job == [old EXCEPT !.st = "completed"]
<1>1. old \in JobType /\ JobOK(old) /\ old.st = "resolved"
  BY JobFacts DEF Complete, IsAt
<1>2. job \in JobType
  BY <1>1, JobFields, AttemptsAssumption DEF JobType, JobOK, Working
<1>3. JobOK(job) /\ Goes(old, job)
  BY <1>1, <1>2, JobFields, AttemptsAssumption DEF JobOK, Goes, IsGivenUp, IsLast
<1>4. SetJob(n, d, job) /\ UNCHANGED <<hostVars, notes, send>>
  BY DEF Complete, SetSt
<1> HIDE DEF job
<1> QED BY <1>2, <1>3, <1>4, JobRule

LEMMA RetryOrFailKeeps ==
  ASSUME IInv, NEW n \in Note, NEW d \in Dest, RetryOrFail(n, d)
  PROVE  IInv'
<1> DEFINE old == Job(n, d)
           made == old.made + 1
           job == [old EXCEPT !.made = made,
                              !.st = IF made < MaxAttempts THEN "waiting" ELSE "failed"]
<1>1. old \in JobType /\ JobOK(old) /\ old.st = "thrown"
  BY JobFacts DEF RetryOrFail, IsAt
<1>2. job \in JobType
  <2>1. made \in 0 .. MaxAttempts
    BY <1>1, JobFields, AttemptsAssumption DEF JobOK
  <2> QED BY <1>1, <2>1 DEF JobType, Working
<1>3. JobOK(job) /\ Goes(old, job)
  BY <1>1, <1>2, JobFields, AttemptsAssumption DEF JobOK, Goes, IsGivenUp, IsLast
<1>4. SetJob(n, d, job) /\ UNCHANGED <<hostVars, notes, send>>
  BY DEF RetryOrFail
<1> HIDE DEF job
<1> QED BY <1>2, <1>3, <1>4, JobRule

LEMMA StallKeeps ==
  ASSUME IInv, NEW n \in Note, NEW d \in Dest, Stall(n, d)
  PROVE  IInv'
<1> DEFINE old == Job(n, d)
           gone == old.st \in {"accepted", "resolved"}
           unsaved == IF gone THEN old.unsaved + 1 ELSE old.unsaved
           again == [old EXCEPT !.unsaved = unsaved, !.st = "waiting", !.stalls = old.stalls + 1]
           lost == [old EXCEPT !.unsaved = unsaved, !.st = "failed", !.lost = TRUE]
<1>1. old \in JobType /\ JobOK(old) /\ old.st \in Working
  BY JobFacts DEF Stall
<1>2. unsaved = old.accepts
  BY <1>1, AttemptsAssumption DEF JobType, JobOK, Working
<1>3. old.accepts <= old.made + old.stalls + 1 /\ old.made < MaxAttempts
  BY <1>1, AttemptsAssumption DEF JobType, JobOK, Working
<1>4. lost \in JobType /\ JobOK(lost) /\ Goes(old, lost)
  <2>1. unsaved \in 0 .. MaxAttempts + MaxStalls
    BY <1>1, <1>2, JobFields, AttemptsAssumption
  <2>2. lost \in JobType
    BY <1>1, <2>1 DEF JobType
  <2> QED BY <1>1, <1>2, <1>3, <2>2, JobFields, AttemptsAssumption
          DEF JobOK, Goes, IsGivenUp, IsLast, Working
<1>5. ASSUME old.stalls < MaxStalls PROVE again \in JobType /\ JobOK(again) /\ Goes(old, again)
  <2>1. unsaved \in 0 .. MaxAttempts + MaxStalls /\ old.stalls + 1 \in 0 .. MaxStalls
    BY <1>1, <1>2, <1>5, JobFields, AttemptsAssumption
  <2>2. again \in JobType
    BY <1>1, <2>1 DEF JobType
  <2> QED BY <1>1, <1>2, <1>3, <2>2, JobFields, AttemptsAssumption
          DEF JobOK, Goes, IsGivenUp, IsLast, Working
<1>6. UNCHANGED <<hostVars, notes, send>>
  BY DEF Stall
<1>7. (old.stalls < MaxStalls /\ SetJob(n, d, again)) \/ SetJob(n, d, lost)
  BY <1>1 DEF Stall, JobType
<1> HIDE DEF again, lost
<1> QED BY <1>4, <1>5, <1>6, <1>7, JobRule

--------------------------------------------------------------------------------
(* The steps that write the row of one notification. *)

LEMMA RowFacts ==
  ASSUME IInv, NEW n \in Note
  PROVE  /\ RowOK(notes[n], send[n], jobs[n]) /\ ReportOK(notes[n], jobs[n])
         /\ jobs[n] \in [Dest -> JobType] /\ send[n] \in SendType
         /\ Exists(n) <=> notes[n] \in NoteType
BY NullAssumption DEF IInv, RowOK, Exists

\* A row whose status a step writes.
LEMMA StatusRule ==
  ASSUME IInv, NEW n \in Note, notes[n] \in NoteType,
         NEW status \in {"sent", "failed", "delivered"},
         \/ SetStatus(n, status)
         \/ SetSent(n, status)
  PROVE  /\ DOMAIN notes' = Note /\ \A m \in Note \ {n} : notes'[m] = notes[m]
         /\ notes'[n] \in NoteType /\ notes'[n].status = status
         /\ notes'[n].channel = notes[n].channel /\ notes'[n].readAt = notes[n].readAt
<1>1. DOMAIN notes = Note
  BY DEF IInv
<1>2. \/ notes' = [notes EXCEPT ![n] = [notes[n] EXCEPT !.status = status]]
      \/ notes' = [notes EXCEPT ![n] = [notes[n] EXCEPT !.status = status, !.sentAt = TRUE]]
  BY <1>1 DEF SetStatus, SetSent
<1>3. /\ [notes[n] EXCEPT !.status = status] \in NoteType
      /\ [notes[n] EXCEPT !.status = status, !.sentAt = TRUE] \in NoteType
  BY DEF NoteType
<1> QED BY <1>1, <1>2, <1>3 DEF NoteType

\* A job writes its report: the row is queued, and stays so.
LEMMA MarkRule ==
  ASSUME IInv, NEW n \in Note, NEW d \in Dest, NEW job \in JobType, JobOK(job),
         Goes(Job(n, d), job), SetJob(n, d, job), UNCHANGED <<hostVars, send>>,
         NEW status \in {"sent", "failed"}, SetStatus(n, status) \/ SetSent(n, status),
         status = "sent" => job.accepts > 0 /\ job.st \in {"resolved", "completed", "failed"},
         status = "failed" => IsLast(job) /\ IsGivenUp(job)
  PROVE  IInv'
<1> DEFINE new == [jobs[n] EXCEPT ![d] = job]
<1>1. RowOK(notes[n], send[n], jobs[n]) /\ ReportOK(notes[n], jobs[n]) /\ jobs[n] \in [Dest -> JobType]
  BY RowFacts
<1>2. RowOK(notes[n], send[n], new) /\ QueuedIn(new) = QueuedIn(jobs[n]) /\ d \in QueuedIn(new)
  <2>1. d \in QueuedIn(jobs[n])
    BY DEF Goes, Job, QueuedIn
  <2> QED BY <1>1, <2>1, GoesRule DEF Job
<1>3. notes[n] \in NoteType
  BY <1>2 DEF RowOK
<1>4. /\ DOMAIN notes' = Note /\ \A m \in Note \ {n} : notes'[m] = notes[m]
      /\ notes'[n] \in NoteType /\ notes'[n].status = status
      /\ notes'[n].channel = notes[n].channel /\ notes'[n].readAt = notes[n].readAt
  BY <1>3, StatusRule
<1>5. RowOK(notes'[n], send[n], new)
  BY <1>2, <1>3, <1>4 DEF RowOK
<1>6. new[d] = job
  BY <1>1
<1>7. CauseOK(notes'[n], new)
  BY <1>4, <1>6 DEF CauseOK
<1>8. SingleOK(notes'[n], new)
  <2> SUFFICES ASSUME NEW c \in Dest, QueuedIn(new) = {c}
               PROVE  /\ status = "sent" => new[c].st \in {"resolved", "completed", "failed"}
                      /\ status = "failed" => IsGivenUp(new[c])
    BY <1>4 DEF SingleOK
  <2>1. c = d
    BY <1>2
  <2> QED BY <1>6, <2>1
<1>9. /\ DOMAIN jobs' = Note /\ jobs'[n] = new
      /\ \A m \in Note \ {n} : jobs'[m] = jobs[m]
      /\ GlobalsOK' /\ UNCHANGED send
  BY DEF SetJob, IInv, GlobalsOK, hostVars
<1> HIDE DEF new
<1> QED BY <1>4, <1>5, <1>7, <1>8, <1>9, RowRule DEF ReportOK, IInv

LEMMA MarkSentKeeps ==
  ASSUME IInv, NEW n \in Note, NEW d \in Dest, MarkSent(n, d)
  PROVE  IInv'
<1> DEFINE old == Job(n, d)
           job == [old EXCEPT !.st = "resolved"]
<1>1. old \in JobType /\ JobOK(old) /\ old.st = "accepted"
  BY JobFacts DEF MarkSent, IsAt
<1>2. job \in JobType /\ job.st = "resolved"
  BY <1>1 DEF JobType, Working
<1>3. JobOK(job) /\ Goes(old, job) /\ job.accepts > 0
  BY <1>1, <1>2, JobFields, AttemptsAssumption DEF JobOK, Goes, IsGivenUp, IsLast
<1>4. SetJob(n, d, job) /\ SetSent(n, "sent") /\ UNCHANGED <<hostVars, send>>
  BY DEF MarkSent, SetSt
<1> HIDE DEF job
<1> QED BY <1>2, <1>3, <1>4, MarkRule

LEMMA MarkFailedKeeps ==
  ASSUME IInv, NEW n \in Note, NEW d \in Dest, MarkFailed(n, d)
  PROVE  IInv'
<1> DEFINE old == Job(n, d)
           job == [old EXCEPT !.st = "thrown"]
<1>1. old \in JobType /\ JobOK(old) /\ old.st = "reporting"
  BY JobFacts DEF MarkFailed, IsAt
<1>2. job \in JobType /\ job.st = "thrown"
  BY <1>1 DEF JobType, Working
<1>3. JobOK(job) /\ Goes(old, job) /\ IsLast(job) /\ IsGivenUp(job)
  BY <1>1, <1>2, JobFields, AttemptsAssumption DEF JobOK, Goes, IsGivenUp, IsLast
<1>4. SetJob(n, d, job) /\ SetStatus(n, "failed") /\ UNCHANGED <<hostVars, send>>
  BY DEF MarkFailed, SetSt
<1> HIDE DEF job
<1> QED BY <1>2, <1>3, <1>4, MarkRule

\* Nothing is said of a row that has no job.
LEMMA NoReport ==
  ASSUME NEW note, NEW js, QueuedIn(js) = {}
  PROVE  ReportOK(note, js)
BY DEF ReportOK, CauseOK, SingleOK

\* A step of send that writes a row that has no job yet.
LEMMA WriteRule ==
  ASSUME IInv, NEW n \in Note, NEW note, NEW s, DOMAIN notes' = Note,
         notes'[n] = note, \A m \in Note \ {n} : notes'[m] = notes[m],
         send' = [send EXCEPT ![n] = s], UNCHANGED <<hostVars, jobs>>,
         RowOK(note, s, jobs[n]), QueuedIn(jobs[n]) = {}
  PROVE  IInv'
<1>1. /\ DOMAIN send' = Note /\ send'[n] = s /\ \A m \in Note \ {n} : send'[m] = send[m]
      /\ GlobalsOK' /\ DOMAIN jobs' = Note
  BY DEF IInv, GlobalsOK, hostVars
<1>2. ReportOK(note, jobs[n])
  BY NoReport
<1> QED BY <1>1, <1>2, RowRule

LEMMA CreateKeeps ==
  ASSUME IInv, NEW n \in Note, Create(n)
  PROVE  IInv'
<1> DEFINE channel == send[n].channel
           note == Pending(channel)
           pc == Route(channel, send[n].to)
           s == [send[n] EXCEPT !.pc = pc, !.adding = IF pc = "add" THEN {TO} ELSE {}]
<1>1. RowOK(notes[n], send[n], jobs[n]) /\ send[n] \in SendType /\ send[n].pc = "create"
  BY RowFacts DEF Create, At
<1>2. channel \in Channel /\ QueuedIn(jobs[n]) = {}
  BY <1>1 DEF RowOK
<1>3. note \in NoteType /\ note.channel = channel /\ note.status = "pending" /\ ~note.readAt
  BY <1>2 DEF Pending, NoteType
<1>4. /\ pc \in {"find", "add", "report", "deliver", "returned"}
      /\ pc \in {"find", "add"} => channel # "in_app"
  BY DEF Route
<1>5. s \in SendType /\ s.pc = pc /\ s.channel = channel /\ s.adding \subseteq Dest
  BY <1>1, <1>4 DEF SendType, Dest
<1>6. \A d \in s.adding : jobs[n][d].st = "none"
  BY <1>2, <1>5 DEF QueuedIn
<1>7. RowOK(note, s, jobs[n])
  BY <1>1, <1>2, <1>3, <1>4, <1>5, <1>6 DEF RowOK
<1>8. /\ DOMAIN notes' = Note /\ notes'[n] = note
      /\ \A m \in Note \ {n} : notes'[m] = notes[m]
      /\ send' = [send EXCEPT ![n] = s] /\ UNCHANGED <<hostVars, jobs>>
  BY DEF Create, IInv
<1> HIDE DEF note, s
<1> QED BY <1>2, <1>7, <1>8, WriteRule

\* The steps that end a send with a report on its row, or with none.
LEMMA MarkAsFailedKeeps ==
  ASSUME IInv, NEW n \in Note, MarkAsFailed(n)
  PROVE  IInv'
<1> DEFINE s == [send[n] EXCEPT !.pc = "returned"]
<1>1. RowOK(notes[n], send[n], jobs[n]) /\ send[n] \in SendType /\ send[n].pc = "report"
  BY RowFacts DEF MarkAsFailed, At
<1>2. QueuedIn(jobs[n]) = {} /\ notes[n] \in NoteType
  BY <1>1 DEF RowOK
<1>3. s \in SendType /\ s.pc = "returned" /\ s.channel = send[n].channel /\ s.adding = send[n].adding
  BY <1>1 DEF SendType
<1>4. /\ DOMAIN notes' = Note /\ \A m \in Note \ {n} : notes'[m] = notes[m]
      /\ notes'[n] \in NoteType
      /\ notes'[n].channel = notes[n].channel /\ notes'[n].readAt = notes[n].readAt
  BY <1>2, StatusRule DEF MarkAsFailed, IInv
<1>5. RowOK(notes'[n], s, jobs[n])
  BY <1>1, <1>2, <1>3, <1>4 DEF RowOK
<1>6. send' = [send EXCEPT ![n] = s] /\ UNCHANGED <<hostVars, jobs>>
  BY DEF MarkAsFailed, Goto, IInv
<1> HIDE DEF s
<1> QED BY <1>2, <1>4, <1>5, <1>6, WriteRule

LEMMA DeliverKeeps ==
  ASSUME IInv, NEW n \in Note, Deliver(n)
  PROVE  IInv'
<1> DEFINE s == [send[n] EXCEPT !.pc = "returned"]
<1>1. RowOK(notes[n], send[n], jobs[n]) /\ send[n] \in SendType /\ send[n].pc = "deliver"
  BY RowFacts DEF Deliver, At
<1>2. QueuedIn(jobs[n]) = {} /\ notes[n] \in NoteType
  BY <1>1 DEF RowOK
<1>3. s \in SendType /\ s.pc = "returned" /\ s.channel = send[n].channel /\ s.adding = send[n].adding
  BY <1>1 DEF SendType
<1>4. /\ DOMAIN notes' = Note /\ \A m \in Note \ {n} : notes'[m] = notes[m]
      /\ notes'[n] \in NoteType
      /\ notes'[n].channel = notes[n].channel /\ notes'[n].readAt = notes[n].readAt
  BY <1>2, StatusRule DEF Deliver
<1>5. RowOK(notes'[n], s, jobs[n])
  BY <1>1, <1>2, <1>3, <1>4 DEF RowOK
<1>6. send' = [send EXCEPT ![n] = s] /\ UNCHANGED <<hostVars, jobs>>
  BY DEF Deliver, Goto, IInv
<1> HIDE DEF s
<1> QED BY <1>2, <1>4, <1>5, <1>6, WriteRule

LEMMA CreateInAppKeeps ==
  ASSUME IInv, NEW n \in Note, CreateInApp(n)
  PROVE  IInv'
<1> DEFINE note == [Pending("in_app") EXCEPT !.status = "delivered", !.sentAt = TRUE]
<1>1. RowOK(notes[n], send[n], jobs[n]) /\ send[n].pc = "idle"
  BY RowFacts DEF CreateInApp, Idle
<1>2. QueuedIn(jobs[n]) = {}
  BY <1>1 DEF RowOK
<1>3. note \in NoteType /\ note.channel = "in_app"
  BY DEF Pending, NoteType, Channel
<1>4. RowOK(note, send[n], jobs[n])
  BY <1>1, <1>2, <1>3 DEF RowOK
<1>5. /\ DOMAIN notes' = Note /\ notes'[n] = note
      /\ \A m \in Note \ {n} : notes'[m] = notes[m]
      /\ UNCHANGED <<hostVars, send, jobs>>
  BY DEF CreateInApp, IInv
<1>6. GlobalsOK' /\ DOMAIN send' = Note /\ DOMAIN jobs' = Note /\ ReportOK(note, jobs[n])
  BY <1>2, <1>5, NoReport DEF IInv, GlobalsOK, hostVars
<1> HIDE DEF note
<1> QED BY <1>4, <1>5, <1>6, RowRule

\* Only rows of in-app notifications are read: they have no jobs, and no send adds any.
LEMMA ReadKeeps ==
  ASSUME IInv, NEW ns \in SUBSET Note, \A n \in ns : InApp(n), Read(ns)
  PROVE  IInv'
<1>1. GlobalsOK' /\ UNCHANGED <<send, jobs>>
  BY DEF Read, IInv, GlobalsOK, hostVars
<1>2. ASSUME NEW n \in Note
      PROVE  RowOK(notes'[n], send[n], jobs[n]) /\ ReportOK(notes'[n], jobs[n])
  <2>1. RowOK(notes[n], send[n], jobs[n]) /\ ReportOK(notes[n], jobs[n])
    BY RowFacts
  <2>2. CASE n \in ns
    <3> DEFINE note == [notes[n] EXCEPT !.status = "read", !.readAt = TRUE]
    <3>1. notes'[n] = note
      BY <2>2 DEF Read
    <3>2. notes[n] \in NoteType /\ notes[n].channel = "in_app"
      BY <2>2, RowFacts DEF InApp
    <3>3. note \in NoteType /\ note.channel = "in_app"
      BY <3>2 DEF NoteType
    <3>4. QueuedIn(jobs[n]) = {} /\ send[n].pc \notin {"create", "find", "add"}
      <4>1. QueuedIn(jobs[n]) = {} /\ send[n].pc \notin {"find", "add"}
        BY <2>1, <3>2 DEF RowOK
      <4>2. send[n].pc # "create"
        BY <2>1, <2>2 DEF RowOK, InApp, Exists
      <4> QED BY <4>1, <4>2
    <3>5. RowOK(note, send[n], jobs[n])
      BY <2>1, <3>3, <3>4 DEF RowOK
    <3> QED BY <3>1, <3>4, <3>5, NoReport
  <2>3. CASE n \notin ns
    BY <2>1, <2>3 DEF Read
  <2> QED BY <2>2, <2>3
<1>3. DOMAIN notes' = Note
  BY DEF Read
<1>4. \A n \in Note : RowOK(notes[n], send[n], jobs[n])' /\ ReportOK(notes[n], jobs[n])'
  BY <1>1, <1>2
<1> QED BY <1>1, <1>3, <1>4 DEF IInv

--------------------------------------------------------------------------------
(* The steps of send that write no row, and the queueing of its jobs. *)

LEMMA SendKeeps ==
  ASSUME IInv, NEW n \in Note, NEW channel \in Channel, NEW to \in BOOLEAN, Send(n, channel, to)
  PROVE  IInv'
<1> DEFINE s == [Idle EXCEPT !.pc = "create", !.channel = channel, !.to = to]
<1>1. RowOK(notes[n], send[n], jobs[n]) /\ send[n].pc = "idle" /\ notes[n] = NULL
  BY RowFacts DEF Send, Idle, Exists
<1>2. /\ s \in SendType /\ s.pc = "create" /\ s.channel = channel /\ s.adding = {}
  BY DEF SendType, Idle
<1>3. RowOK(notes[n], s, jobs[n])
  BY <1>1, <1>2 DEF RowOK
<1>4. send' = [send EXCEPT ![n] = s] /\ UNCHANGED <<hostVars, notes, jobs>>
  BY DEF Send
<1> HIDE DEF s
<1> QED BY <1>3, <1>4, SendRule

LEMMA FindDevicesKeeps ==
  ASSUME IInv, NEW n \in Note, FindDevices(n)
  PROVE  IInv'
<1> DEFINE pc == IF devices = {} THEN "returned" ELSE "add"
           s == [send[n] EXCEPT !.pc = pc, !.adding = devices]
<1>1. RowOK(notes[n], send[n], jobs[n]) /\ send[n] \in SendType /\ send[n].pc = "find"
  BY RowFacts DEF FindDevices, At
<1>2. devices \subseteq Dest
  BY DEF IInv, GlobalsOK, Dest
<1>3. /\ s \in SendType /\ s.pc \in {"returned", "add"} /\ s.channel = send[n].channel
      /\ s.adding = devices
  BY <1>1, <1>2 DEF SendType
<1>4. QueuedIn(jobs[n]) = {}
  BY <1>1 DEF RowOK
<1>5. \A d \in s.adding : jobs[n][d].st = "none"
  BY <1>2, <1>3, <1>4 DEF QueuedIn
<1>6. RowOK(notes[n], s, jobs[n])
  BY <1>1, <1>3, <1>4, <1>5 DEF RowOK
<1>7. send' = [send EXCEPT ![n] = s] /\ UNCHANGED <<hostVars, notes, jobs>>
  BY DEF FindDevices, IInv
<1> HIDE DEF s
<1> QED BY <1>6, <1>7, SendRule

LEMMA AbortKeeps ==
  ASSUME IInv, NEW n \in Note, Abort(n)
  PROVE  IInv'
<1> DEFINE s == [send[n] EXCEPT !.pc = "returned", !.adding = {}]
<1>1. /\ RowOK(notes[n], send[n], jobs[n]) /\ send[n] \in SendType
      /\ send[n].pc \in {"create", "find", "deliver", "add", "report"}
  BY RowFacts DEF Abort
<1>2. s \in SendType /\ s.pc = "returned" /\ s.channel = send[n].channel /\ s.adding = {}
  BY <1>1 DEF SendType
<1>3. RowOK(notes[n], s, jobs[n])
  BY <1>1, <1>2 DEF RowOK
<1>4. send' = [send EXCEPT ![n] = s] /\ UNCHANGED <<hostVars, notes, jobs>>
  BY DEF Abort, IInv
<1> HIDE DEF s
<1> QED BY <1>3, <1>4, SendRule

\* The send after one of its calls of add has settled.
Settled(s, d) ==
  [s EXCEPT !.adding = s.adding \ {d}, !.pc = IF s.adding \ {d} = {} THEN "returned" ELSE "add"]

LEMMA SettleFacts ==
  ASSUME IInv, NEW n \in Note, NEW d \in Dest, Settle(n, d)
  PROVE  LET s == Settled(send[n], d) IN
         /\ send[n].pc = "add" /\ jobs[n][d] = NoJob
         /\ s \in SendType /\ s.pc \in {"add", "returned"} /\ s.channel = send[n].channel
         /\ s.adding = send[n].adding \ {d} /\ RowOK(notes[n], s, jobs[n])
         /\ send' = [send EXCEPT ![n] = s]
<1> DEFINE s == Settled(send[n], d)
<1>1. RowOK(notes[n], send[n], jobs[n]) /\ send[n] \in SendType /\ send[n].pc = "add" /\ d \in send[n].adding
  BY RowFacts DEF Settle, At
<1>2. /\ s \in SendType /\ s.pc \in {"add", "returned"} /\ s.channel = send[n].channel
      /\ s.adding = send[n].adding \ {d}
  BY <1>1 DEF SendType, Settled
<1>3. jobs[n][d] = NoJob
  BY <1>1 DEF RowOK, JobOK
<1>4. RowOK(notes[n], s, jobs[n])
  BY <1>1, <1>2 DEF RowOK
<1>5. send' = [send EXCEPT ![n] = s]
  BY DEF Settle, Settled, IInv
<1> QED BY <1>1, <1>2, <1>3, <1>4, <1>5

LEMMA AddFailsKeeps ==
  ASSUME IInv, NEW n \in Note, NEW d \in Dest, AddFails(n, d)
  PROVE  IInv'
BY SettleFacts, SendRule DEF AddFails

\* The first job of a row finds it pending; a second one makes it a row of two.
LEMMA AddKeeps ==
  ASSUME IInv, NEW n \in Note, NEW d \in Dest, Add(n, d)
  PROVE  IInv'
<1> DEFINE s == Settled(send[n], d)
           job == [NoJob EXCEPT !.st = "waiting"]
           new == [jobs[n] EXCEPT ![d] = job]
<1>1. /\ send[n].pc = "add" /\ jobs[n][d] = NoJob
      /\ s \in SendType /\ s.pc \in {"add", "returned"} /\ s.channel = send[n].channel
      /\ s.adding = send[n].adding \ {d} /\ RowOK(notes[n], s, jobs[n])
      /\ send' = [send EXCEPT ![n] = s]
  BY SettleFacts DEF Add
<1> HIDE DEF s
<1>2. /\ RowOK(notes[n], send[n], jobs[n]) /\ ReportOK(notes[n], jobs[n])
      /\ jobs[n] \in [Dest -> JobType]
  BY RowFacts
<1>3. /\ job \in JobType /\ JobOK(job) /\ job.st = "waiting"
      /\ job.made = jobs[n][d].made /\ job.accepts = jobs[n][d].accepts
  <2>1. job \in JobType
    <3>1. 0 \in 0 .. MaxAttempts /\ 0 \in 0 .. MaxStalls /\ 0 \in 0 .. MaxAttempts + MaxStalls
      BY AttemptsAssumption
    <3> QED BY <3>1 DEF JobType, NoJob
  <2> QED BY <1>1, <2>1, AttemptsAssumption DEF JobOK, NoJob
<1> HIDE DEF job
<1>4. /\ new \in [Dest -> JobType] /\ new[d] = job
      /\ \A c \in Dest \ {d} : new[c] = jobs[n][c]
  BY <1>2, <1>3
<1>5. QueuedIn(new) = QueuedIn(jobs[n]) \cup {d}
  BY <1>1, <1>3, <1>4 DEF QueuedIn
<1>6. notes[n] \in NoteType /\ notes[n].channel # "in_app"
  BY <1>1, <1>2 DEF RowOK
<1>7. RowOK(notes[n], s, new)
  <2>1. \A c \in s.adding : c \in Dest /\ new[c].st = "none"
    BY <1>1, <1>4 DEF RowOK, SendType
  <2> QED BY <1>1, <1>3, <1>4, <1>5, <1>6, <2>1 DEF RowOK
<1>8. ReportOK(notes[n], new)
  <2>1. CASE QueuedIn(jobs[n]) = {}
    <3>1. notes[n].status = "pending"
      BY <1>1, <1>2, <2>1 DEF RowOK
    <3> QED BY <3>1 DEF ReportOK, CauseOK, SingleOK
  <2>2. CASE QueuedIn(jobs[n]) # {}
    <3>1. d \notin QueuedIn(jobs[n])
      BY <1>1 DEF QueuedIn, NoJob
    <3>2. SingleOK(notes[n], new)
      BY <1>5, <2>2, <3>1 DEF SingleOK
    <3>3. \A c \in Dest : new[c].accepts = jobs[n][c].accepts /\ new[c].made = jobs[n][c].made
      BY <1>3, <1>4
    <3>4. CauseOK(notes[n], new)
      BY <1>2, <2>2, <3>3 DEF ReportOK, CauseOK, IsLast
    <3> QED BY <3>2, <3>4 DEF ReportOK
  <2> QED BY <2>1, <2>2
<1>9. /\ jobs' = [jobs EXCEPT ![n] = [jobs[n] EXCEPT ![d] = [jobs[n][d] EXCEPT !.st = "waiting"]]]
      /\ UNCHANGED <<hostVars, notes>>
  BY DEF Add
<1>10. /\ jobs'[n] = new /\ DOMAIN jobs' = Note /\ \A m \in Note \ {n} : jobs'[m] = jobs[m]
  BY <1>1, <1>9 DEF IInv, job
<1>11. /\ DOMAIN send' = Note /\ send'[n] = s /\ \A m \in Note \ {n} : send'[m] = send[m]
       /\ GlobalsOK' /\ UNCHANGED notes
  BY <1>1, <1>9 DEF IInv, GlobalsOK, hostVars
<1> HIDE DEF new
<1> QED BY <1>7, <1>8, <1>10, <1>11, RowRule DEF IInv

--------------------------------------------------------------------------------
(* The user's devices, and the process. *)

LEMMA GlobalsRule ==
  ASSUME IInv, GlobalsOK', UNCHANGED <<notes, send, jobs>>
  PROVE  IInv'
BY DEF IInv

LEMMA DevicesKeep ==
  ASSUME IInv, NEW ds \in SUBSET Device, SetDevices(ds)
  PROVE  IInv'
BY GlobalsRule DEF IInv, GlobalsOK, SetDevices

LEMMA HostKeeps ==
  ASSUME IInv, Stop \/ WorkersClose \/ WorkerCloseFails \/ QueuesClose \/ Start
  PROVE  IInv'
<1>1. CASE Stop
  <2>1. host.stops - 1 \in 0 .. MaxStops
    BY <1>1, AttemptsAssumption DEF IInv, GlobalsOK, Stop
  <2> QED BY <1>1, <2>1, GlobalsRule DEF IInv, GlobalsOK, Stop
<1>2. CASE WorkersClose \/ WorkerCloseFails \/ QueuesClose \/ Start
  <2>1. PICK p \in {"up", "drained", "torn", "down"} : Phase(p)
    BY <1>2 DEF WorkersClose, WorkerCloseFails, QueuesClose, Start
  <2> QED BY <2>1, GlobalsRule DEF IInv, GlobalsOK, Phase
<1> QED BY <1>1, <1>2

--------------------------------------------------------------------------------
(* The invariant. *)

LEMMA InitIInv == Init => IInv
<1> SUFFICES ASSUME Init PROVE IInv
  OBVIOUS
<1>1. GlobalsOK
  BY AttemptsAssumption DEF Init, GlobalsOK
<1>2. NoJob \in JobType /\ JobOK(NoJob) /\ Idle \in SendType
  BY AttemptsAssumption DEF NoJob, JobType, JobOK, Idle, SendType
<1>3. ASSUME NEW n \in Note
      PROVE  RowOK(notes[n], send[n], jobs[n]) /\ ReportOK(notes[n], jobs[n])
  <2>1. notes[n] = NULL /\ send[n] = Idle /\ jobs[n] = [d \in Dest |-> NoJob]
    BY DEF Init
  <2>2. QueuedIn(jobs[n]) = {}
    BY <2>1 DEF QueuedIn, NoJob
  <2>3. RowOK(notes[n], send[n], jobs[n])
    BY <1>2, <2>1, <2>2, NullAssumption DEF RowOK, Idle
  <2> QED BY <2>2, <2>3, NoReport
<1> QED BY <1>1, <1>3 DEF Init, IInv

LEMMA StepIInv == IInv /\ [Next]_vars => IInv'
<1> SUFFICES ASSUME IInv, [Next]_vars PROVE IInv'
  OBVIOUS
<1>1. ASSUME NEW n \in Note, NEW d \in Dest, Process(n, d) PROVE IInv'
  BY <1>1, TakeKeeps, ProviderAcceptsKeeps, ProviderRejectsKeeps, MarkSentKeeps, MarkSentFailsKeeps,
     MarkFailedKeeps, MarkFailedFailsKeeps, CompleteKeeps, RetryOrFailKeeps DEF Process
<1>2. ASSUME NEW n \in Note, NEW d \in Dest, Stall(n, d) PROVE IInv'
  BY <1>2, StallKeeps
<1>3. ASSUME NEW n \in Note, Request(n) PROVE IInv'
  <2>1. MarkAsRead(n) => IInv'
    BY ReadKeeps DEF MarkAsRead
  <2> QED BY <1>3, <2>1, SendKeeps, CreateKeeps, FindDevicesKeeps, MarkAsFailedKeeps, DeliverKeeps,
             AddKeeps, AddFailsKeeps, CreateInAppKeeps, AbortKeeps DEF Request
<1>4. MarkAllAsRead => IInv'
  BY ReadKeeps DEF MarkAllAsRead
<1>5. UnregisterAll \/ (\E d \in Device : Register(d) \/ Unregister(d)) => IInv'
  <2>1. devices \subseteq Device
    BY DEF IInv, GlobalsOK
  <2> QED BY <2>1, DevicesKeep DEF UnregisterAll, Register, Unregister
<1>6. UNCHANGED vars => IInv'
  BY GlobalsRule DEF IInv, GlobalsOK, vars
<1> QED BY <1>1, <1>2, <1>3, <1>4, <1>5, <1>6, HostKeeps DEF Next

\* Rows, sends and jobs are functions on the notifications, which the invariant, that
\* looks at one notification at a time, does not say.
Table(f) == f = [n \in Note |-> f[n]]

Tables == Table(notes) /\ Table(send) /\ Table(jobs)

LEMMA StepTables == Tables /\ [Next]_vars => Tables'
<1> SUFFICES ASSUME Tables, [Next]_vars PROVE Tables'
  OBVIOUS
<1>1. ASSUME NEW f, Table(f), NEW n, NEW e PROVE Table([f EXCEPT ![n] = e])
  BY <1>1 DEF Table
<1>2. ASSUME NEW n \in Note, NEW d \in Dest, Process(n, d) \/ Stall(n, d) PROVE Tables'
  <2>1. PICK job : SetJob(n, d, job)
    BY <1>2 DEF Process, Stall, Take, ProviderAccepts, ProviderRejects, MarkSent, MarkSentFails,
                MarkFailed, MarkFailedFails, Complete, RetryOrFail, SetSt
  <2>2. Table(jobs')
    BY <2>1, <1>1 DEF SetJob, Tables
  <2>3. Table(notes') /\ UNCHANGED send
    BY <1>1, <1>2 DEF Process, Stall, Take, ProviderAccepts, ProviderRejects, MarkSent, MarkSentFails,
                      MarkFailed, MarkFailedFails, Complete, RetryOrFail, SetSent, SetStatus, Tables
  <2> QED BY <2>2, <2>3 DEF Tables
<1>3. ASSUME NEW n \in Note, Request(n) PROVE Tables'
  <2>1. Table(send')
    <3>1. CASE UNCHANGED send
      BY <3>1 DEF Tables
    <3>2. CASE Create(n) \/ FindDevices(n) \/ Abort(n)
      BY <3>2 DEF Create, FindDevices, Abort, Tables, Table
    <3>3. CASE MarkAsFailed(n) \/ Deliver(n)
      BY <3>3 DEF MarkAsFailed, Deliver, Goto, Tables, Table
    <3>4. CASE \E d \in Dest : Settle(n, d)
      BY <3>4 DEF Settle, Tables, Table
    <3>5. CASE \E channel \in Channel, to \in BOOLEAN : Send(n, channel, to)
      BY <3>5 DEF Send, Tables, Table
    <3> QED BY <1>3, <3>1, <3>2, <3>3, <3>4, <3>5
            DEF Request, Add, AddFails, CreateInApp, MarkAsRead, Read
  <2>2. Table(notes')
    <3>1. CASE UNCHANGED notes
      BY <3>1 DEF Tables
    <3>2. CASE Create(n) \/ CreateInApp(n)
      BY <3>2, <1>1 DEF Create, CreateInApp, Tables
    <3>3. CASE MarkAsFailed(n) \/ Deliver(n)
      BY <3>1, <3>3 DEF MarkAsFailed, Deliver, SetSent, SetStatus, Tables, Table
    <3>4. CASE MarkAsRead(n)
      BY <3>4 DEF MarkAsRead, Read, Table
    <3> QED BY <1>3, <3>1, <3>2, <3>3, <3>4 DEF Request, Send, FindDevices, Add, AddFails, Abort
  <2>3. Table(jobs')
    <3>1. CASE UNCHANGED jobs
      BY <3>1 DEF Tables
    <3>2. CASE \E d \in Dest : Add(n, d)
      BY <3>2 DEF Add, Tables, Table
    <3> QED BY <1>3, <3>1, <3>2 DEF Request, Send, Create, FindDevices, MarkAsFailed, Deliver,
                                    AddFails, CreateInApp, MarkAsRead, Read, Abort
  <2> QED BY <2>1, <2>2, <2>3 DEF Tables
<1>4. MarkAllAsRead => Tables'
  BY DEF MarkAllAsRead, Read, Tables, Table
<1>5. \/ UnregisterAll \/ (\E d \in Device : Register(d) \/ Unregister(d))
      \/ Stop \/ WorkersClose \/ WorkerCloseFails \/ QueuesClose \/ Start \/ UNCHANGED vars
      => Tables'
  BY DEF UnregisterAll, Register, Unregister, SetDevices, Stop, WorkersClose, WorkerCloseFails,
         QueuesClose, Start, Phase, vars, Tables
<1> QED BY <1>2, <1>3, <1>4, <1>5 DEF Next

LEMMA AlwaysTables == Spec => []Tables
<1>1. Init => Tables
  BY DEF Init, Tables, Table
<1> QED BY <1>1, StepTables, PTL DEF Spec

LEMMA AlwaysIInv == Spec => []IInv
BY InitIInv, StepIInv, PTL DEF Spec

--------------------------------------------------------------------------------
(* What the invariant gives. *)

\* Rows, sends and jobs keep their shape, and no job has more attempts or stalls than
\* its options give, whatever fails, stops or repeats.
THEOREM TypeCorrect == Spec => []TypeOK
<1>1. IInv /\ Tables => TypeOK
  <2> SUFFICES ASSUME IInv, Tables PROVE TypeOK
    OBVIOUS
  <2>1. \A n \in Note : notes[n] \in NoteType \cup {NULL} /\ send[n] \in SendType
                        /\ jobs[n] \in [Dest -> JobType]
    BY DEF IInv, RowOK
  <2>2. /\ notes \in [Note -> NoteType \cup {NULL}] /\ send \in [Note -> SendType]
        /\ jobs \in [Note -> [Dest -> JobType]]
    BY <2>1 DEF Tables, Table
  <2> QED BY <2>2 DEF IInv, GlobalsOK, TypeOK
<1> QED BY <1>1, AlwaysIInv, AlwaysTables, PTL

\* Row and jobs: 'sent' is written only after a provider has accepted the message, and
\* 'failed' only when a job is on its last attempt, for any number of recipients.
THEOREM StatusesHaveCauses == Spec => []StatusHasCause
<1>1. IInv => StatusHasCause
  <2> SUFFICES ASSUME IInv, NEW n \in Note, Exists(n), Queued(n) # {}
               PROVE  /\ notes[n].status = "sent" => \E d \in Dest : Job(n, d).accepts > 0
                      /\ notes[n].status = "failed" => \E d \in Dest : Job(n, d).made >= MaxAttempts - 1
    BY DEF StatusHasCause
  <2>1. QueuedIn(jobs[n]) # {}
    BY DEF Queued, QueuedIn, IsAt, Job
  <2> QED BY <2>1, RowFacts DEF ReportOK, CauseOK, IsLast, Job
<1> QED BY <1>1, AlwaysIInv, PTL

\* Retries and stalls: a message is accepted once more than its reports were lost, at
\* most, however the attempts of its job end.
THEOREM RepeatsHaveCauses == Spec => []RepeatHasCause
<1>1. IInv => RepeatHasCause
  <2> SUFFICES ASSUME IInv, NEW n \in Note, NEW d \in Dest
               PROVE  Job(n, d).accepts <= Job(n, d).unsaved + 1
    BY DEF RepeatHasCause
  <2> QED BY JobFacts, JobFields DEF JobOK
<1> QED BY <1>1, AlwaysIInv, PTL

\* How a step leaves a row that exists: as it was, read, or with the report of its send
\* or of one of its jobs.
LEMMA NoteStep ==
  ASSUME IInv, [Next]_vars, NEW n \in Note, Exists(n)
  PROVE  \/ notes'[n] = notes[n]
         \/ InApp(n) /\ notes'[n] = [notes[n] EXCEPT !.status = "read", !.readAt = TRUE]
         \/ /\ notes'[n].readAt = notes[n].readAt
            /\ \/ send[n].pc \in {"report", "deliver"}
               \/ \E d \in Dest : IsAt(n, d, "accepted") \/ IsAt(n, d, "reporting")
<1> DEFINE Same == notes'[n] = notes[n]
           Opened == InApp(n) /\ notes'[n] = [notes[n] EXCEPT !.status = "read", !.readAt = TRUE]
           Told == /\ notes'[n].readAt = notes[n].readAt
                   /\ \/ send[n].pc \in {"report", "deliver"}
                      \/ \E d \in Dest : IsAt(n, d, "accepted") \/ IsAt(n, d, "reporting")
<1>1. RowOK(notes[n], send[n], jobs[n]) /\ notes[n] \in NoteType
  BY RowFacts
<1>2. ASSUME NEW m \in Note, NEW status \in {"sent", "failed", "delivered"}, Exists(m),
             SetStatus(m, status) \/ SetSent(m, status)
      PROVE  Same \/ (m = n /\ notes'[n].readAt = notes[n].readAt)
  BY <1>2, StatusRule, RowFacts
<1>3. ASSUME NEW ns \in SUBSET Note, \A m \in ns : InApp(m), Read(ns) PROVE Same \/ Opened
  BY <1>3 DEF Read
<1>4. ASSUME NEW m \in Note, NEW d \in Dest, MarkSent(m, d) \/ MarkFailed(m, d) PROVE Same \/ Told
  <2>1. IsAt(m, d, "accepted") \/ IsAt(m, d, "reporting")
    BY <1>4 DEF MarkSent, MarkFailed
  <2>2. RowOK(notes[m], send[m], jobs[m]) /\ QueuedIn(jobs[m]) # {}
    BY <2>1, RowFacts DEF QueuedIn, IsAt, Job
  <2>3. Exists(m)
    BY <2>2, RowFacts DEF RowOK
  <2> QED BY <1>2, <1>4, <2>1, <2>3 DEF MarkSent, MarkFailed
<1>5. ASSUME NEW m \in Note, NEW d \in Dest, Process(m, d) PROVE Same \/ Told
  BY <1>4, <1>5 DEF Process, Take, ProviderAccepts, ProviderRejects, MarkSentFails, MarkFailedFails,
                    Complete, RetryOrFail
<1>6. ASSUME NEW m \in Note, Request(m) PROVE Same \/ Opened \/ Told
  <2>1. Create(m) \/ CreateInApp(m) => Same
    <3>1. Create(m) \/ CreateInApp(m) => m # n
      <4>1. RowOK(notes[m], send[m], jobs[m])
        BY RowFacts
      <4> QED BY <4>1 DEF Create, CreateInApp, Exists, RowOK, At
    <3> QED BY <3>1 DEF Create, CreateInApp, IInv
  <2>2. MarkAsFailed(m) \/ Deliver(m) => Same \/ Told
    <3> SUFFICES ASSUME MarkAsFailed(m) \/ Deliver(m) PROVE Same \/ Told
      OBVIOUS
    <3>1. send[m].pc \in {"report", "deliver"}
      BY DEF MarkAsFailed, Deliver, At
    <3>2. Exists(m)
      BY <3>1, RowFacts DEF RowOK
    <3> QED BY <1>2, <3>1, <3>2 DEF MarkAsFailed, Deliver
  <2>3. MarkAsRead(m) => Same \/ Opened
    BY <1>3 DEF MarkAsRead
  <2> QED BY <1>6, <2>1, <2>2, <2>3 DEF Request, Send, FindDevices, Add, AddFails, Abort
<1>7. MarkAllAsRead => Same \/ Opened
  BY <1>3 DEF MarkAllAsRead
<1>8. ASSUME NEW m \in Note, NEW d \in Dest, Stall(m, d) PROVE Same
  BY <1>8 DEF Stall
<1>9. \/ UnregisterAll \/ (\E d \in Device : Register(d) \/ Unregister(d))
      \/ Stop \/ WorkersClose \/ WorkerCloseFails \/ QueuesClose \/ Start \/ UNCHANGED vars
      => Same
  BY DEF UnregisterAll, Register, Unregister, SetDevices, Stop, WorkersClose, WorkerCloseFails,
         QueuesClose, Start, Phase, vars
<1> QED BY <1>5, <1>6, <1>7, <1>8, <1>9 DEF Next

\* Readings and deliveries: markAsRead and markAllAsRead touch in-app rows only, and what
\* send or a worker writes later does not take a reading back.
THEOREM ReadingsAreKept == Spec => ReadingIsKept
<1>1. IInv /\ [Next]_vars =>
        [\A n \in Note : Exists(n) /\ notes[n].readAt => notes'[n].readAt /\ InApp(n)]_vars
  <2> SUFFICES ASSUME IInv, [Next]_vars, NEW n \in Note, Exists(n), notes[n].readAt
               PROVE  notes'[n].readAt /\ InApp(n)
    OBVIOUS
  <2>1. notes[n] \in NoteType /\ InApp(n)
    BY RowFacts DEF RowOK, InApp
  <2>2. [notes[n] EXCEPT !.status = "read", !.readAt = TRUE].readAt
    BY <2>1 DEF NoteType
  <2> QED BY <2>1, <2>2, NoteStep
<1> QED BY <1>1, AlwaysIInv, PTL DEF Spec, ReadingIsKept

\* Retries of a job and the row of its only recipient: the report of the last attempt,
\* and that of a success, stay as they are while no worker stops.
THEOREM SingleReportsAreFinal == Spec => SingleReportIsFinal
<1> DEFINE Final == \A n \in Note, d \in Dest :
              Queued(n) = {d} /\ Job(n, d).stalls = 0 /\ notes[n].status \in {"sent", "failed"}
                => notes'[n].status = notes[n].status
<1>1. IInv /\ [Next]_vars => [Final]_vars
  <2> SUFFICES ASSUME IInv, [Next]_vars, NEW n \in Note, NEW d \in Dest, Queued(n) = {d},
                      Job(n, d).stalls = 0, notes[n].status \in {"sent", "failed"}
               PROVE  notes'[n].status = notes[n].status
    OBVIOUS
  <2>1. QueuedIn(jobs[n]) = {d} /\ RowOK(notes[n], send[n], jobs[n]) /\ SingleOK(notes[n], jobs[n])
    BY RowFacts DEF Queued, QueuedIn, IsAt, Job, ReportOK
  <2>2. Exists(n) /\ ~InApp(n) /\ send[n].pc \notin {"report", "deliver"}
    BY <2>1, RowFacts DEF RowOK, InApp
  <2>3. jobs[n][d].st \in {"resolved", "completed", "failed", "thrown"}
    BY <2>1 DEF SingleOK, IsGivenUp, Job
  <2>4. \A c \in Dest : ~IsAt(n, c, "accepted") /\ ~IsAt(n, c, "reporting")
    BY <2>1, <2>3 DEF QueuedIn, IsAt, Job
  <2> QED BY <2>2, <2>4, NoteStep
<1> QED BY <1>1, AlwaysIInv, PTL DEF Spec, SingleReportIsFinal

--------------------------------------------------------------------------------
(* What fairness starts from, in QueuedIsReported: a job has only so many steps, and *)
(* when it has taken them its row is reported.                                       *)

\* The steps that may be left to a job, counted down from its states and its attempts and
\* stalls to come.
StLeft(st) ==
  CASE st = "none" -> 6
    [] st = "waiting" -> 5
    [] st = "active" -> 4
    [] st = "accepted" -> 3
    [] st = "reporting" -> 2
    [] st \in {"resolved", "thrown"} -> 1
    [] st \in {"completed", "failed"} -> 0

Left(job) == 6 * ((MaxAttempts - job.made) + (MaxStalls - job.stalls)) + StLeft(job.st)

\* Nothing more is reported for the job, or its success has been.
IsOver(job) == job.st \in {"resolved", "completed"} \/ IsGivenUp(job)

\* A row that is past its making.
Told(note) == note \in NoteType /\ note.status # "pending"

OverOK == \A n \in Note, d \in Dest : IsOver(Job(n, d)) => Told(notes[n]) \/ Job(n, d).lost

LEMMA LeftBounds ==
  ASSUME NEW job \in JobType
  PROVE  Left(job) \in 0 .. 6 * (MaxAttempts + MaxStalls + 1)
<1>1. StLeft(job.st) \in 0 .. 6
  BY DEF JobType, Working, StLeft
<1> QED BY <1>1, JobFields, AttemptsAssumption DEF Left

LEMMA SetJobFacts ==
  ASSUME IInv, NEW n \in Note, NEW d \in Dest, NEW job, SetJob(n, d, job)
  PROVE  /\ Job(n, d)' = job
         /\ \A m \in Note, c \in Dest : m # n \/ c # d => Job(m, c)' = Job(m, c)
BY RowFacts DEF IInv, SetJob, Job

\* A step of a job: it has less left, and a job that it ends has told its row, or its
\* report is lost.
LEMMA OwnStep ==
  ASSUME IInv, NEW n \in Note, NEW d \in Dest, Process(n, d) \/ Stall(n, d)
  PROVE  /\ Left(Job(n, d)') < Left(Job(n, d))
         /\ \A m \in Note, c \in Dest : m # n \/ c # d => Job(m, c)' = Job(m, c)
         /\ IsOver(Job(n, d)') => Told(notes'[n]) \/ Job(n, d)'.lost \/ IsOver(Job(n, d))
         /\ Job(n, d).lost => Job(n, d)'.lost
<1> DEFINE old == Job(n, d)
           Over(job) == IsOver(job) => Told(notes'[n]) \/ job.lost \/ IsOver(old)
           Fine(job) == Left(job) < Left(old) /\ Over(job) /\ (old.lost => job.lost)
<1>1. old \in JobType /\ JobOK(old) /\ MaxAttempts \in Nat \ {0} /\ MaxStalls \in Nat
  BY JobFacts
<1>2. /\ old.made \in Nat /\ old.stalls \in Nat /\ old.made <= MaxAttempts /\ old.stalls <= MaxStalls
  BY <1>1, JobFields
<1>3. SUFFICES \E job : SetJob(n, d, job) /\ Fine(job)
  <2>1. ASSUME NEW job, SetJob(n, d, job), Fine(job)
        PROVE  /\ Job(n, d)' = job
               /\ \A m \in Note, c \in Dest : m # n \/ c # d => Job(m, c)' = Job(m, c)
    BY <2>1, SetJobFacts
  <2> QED BY <2>1
<1> USE DEF Left, StLeft, IsOver, IsGivenUp, IsLast
<1>4. CASE Take(n, d)
  <2> DEFINE job == [old EXCEPT !.st = "active"]
  <2>1. Fine(job)
    BY <1>1, <1>2, <1>4 DEF Take, IsAt, JobType
  <2> QED BY <1>4, <2>1 DEF Take, SetSt
<1>5. CASE ProviderAccepts(n, d)
  <2> DEFINE job == [old EXCEPT !.st = "accepted", !.accepts = @ + 1]
  <2>1. Fine(job)
    BY <1>1, <1>2, <1>5 DEF ProviderAccepts, IsAt, JobType
  <2> QED BY <1>5, <2>1 DEF ProviderAccepts
<1>6. CASE ProviderRejects(n, d)
  <2>1. Fine(Caught(old))
    BY <1>1, <1>2, <1>6 DEF ProviderRejects, IsAt, JobType, Caught, IsFinalAttempt
  <2> QED BY <1>6, <2>1 DEF ProviderRejects
<1>7. CASE MarkSent(n, d) \/ MarkFailed(n, d)
  <2>1. notes[n] \in NoteType
    BY <1>7, RowFacts DEF MarkSent, MarkFailed, IsAt, Job, RowOK, QueuedIn
  <2>2. Told(notes'[n])
    BY <1>7, <2>1, StatusRule DEF MarkSent, MarkFailed, Told
  <2>3. CASE MarkSent(n, d)
    <3> DEFINE job == [old EXCEPT !.st = "resolved"]
    <3>1. Fine(job)
      BY <1>1, <1>2, <2>2, <2>3 DEF MarkSent, IsAt, JobType
    <3> QED BY <2>3, <3>1 DEF MarkSent, SetSt
  <2>4. CASE MarkFailed(n, d)
    <3> DEFINE job == [old EXCEPT !.st = "thrown"]
    <3>1. Fine(job)
      BY <1>1, <1>2, <2>2, <2>4 DEF MarkFailed, IsAt, JobType
    <3> QED BY <2>4, <3>1 DEF MarkFailed, SetSt
  <2> QED BY <1>7, <2>3, <2>4
<1>8. CASE MarkSentFails(n, d)
  <2> DEFINE job == [Caught(old) EXCEPT !.unsaved = @ + 1]
  <2>1. Fine(job)
    BY <1>1, <1>2, <1>8 DEF MarkSentFails, IsAt, JobType, Caught, IsFinalAttempt
  <2> QED BY <1>8, <2>1 DEF MarkSentFails
<1>9. CASE MarkFailedFails(n, d)
  <2> DEFINE job == [old EXCEPT !.st = "thrown", !.lost = TRUE]
  <2>1. Fine(job)
    BY <1>1, <1>2, <1>9 DEF MarkFailedFails, IsAt, JobType
  <2> QED BY <1>9, <2>1 DEF MarkFailedFails
<1>10. CASE Complete(n, d)
  <2> DEFINE job == [old EXCEPT !.st = "completed"]
  <2>1. Fine(job)
    BY <1>1, <1>2, <1>10 DEF Complete, IsAt, JobType
  <2> QED BY <1>10, <2>1 DEF Complete, SetSt
<1>11. CASE RetryOrFail(n, d)
  <2> DEFINE made == old.made + 1
             job == [old EXCEPT !.made = made, !.st = IF made < MaxAttempts THEN "waiting" ELSE "failed"]
  <2>1. Fine(job)
    BY <1>1, <1>2, <1>11 DEF RetryOrFail, IsAt, JobType
  <2> QED BY <1>11, <2>1 DEF RetryOrFail
<1>12. CASE Stall(n, d)
  <2> DEFINE gone == old.st \in {"accepted", "resolved"}
             unsaved == IF gone THEN old.unsaved + 1 ELSE old.unsaved
             again == [old EXCEPT !.unsaved = unsaved, !.st = "waiting", !.stalls = old.stalls + 1]
             lost == [old EXCEPT !.unsaved = unsaved, !.st = "failed", !.lost = TRUE]
  <2>1. (old.stalls < MaxStalls /\ SetJob(n, d, again)) \/ SetJob(n, d, lost)
    BY <1>1, <1>12 DEF Stall, JobType
  <2>2. old.st \in Working
    BY <1>12 DEF Stall
  <2>3. ASSUME old.stalls < MaxStalls PROVE Fine(again)
    <3>1. again.st = "waiting" /\ again.made = old.made /\ again.stalls = old.stalls + 1
          /\ (old.lost => again.lost)
      BY <1>1 DEF JobType
    <3> HIDE DEF again
    <3>2. StLeft(again.st) = 5 /\ StLeft(old.st) >= 1 /\ StLeft(old.st) \in Nat
      BY <2>2, <3>1 DEF Working
    <3>3. Over(again)
      BY <2>2, <3>1 DEF Working
    <3> HIDE DEF StLeft
    <3>4. Left(again) < Left(old)
      BY <1>1, <1>2, <3>1, <3>2
    <3> QED BY <3>1, <3>3, <3>4
  <2>4. Fine(lost)
    <3>1. lost.st = "failed" /\ lost.made = old.made /\ lost.stalls = old.stalls /\ lost.lost
      BY <1>1 DEF JobType
    <3> HIDE DEF lost
    <3>2. StLeft(lost.st) = 0 /\ StLeft(old.st) >= 1 /\ StLeft(old.st) \in Nat
      BY <2>2, <3>1 DEF Working
    <3>3. Over(lost)
      BY <2>2, <3>1 DEF Working
    <3> HIDE DEF StLeft
    <3>4. Left(lost) < Left(old)
      BY <1>1, <1>2, <3>1, <3>2
    <3> QED BY <3>1, <3>3, <3>4
  <2> QED BY <2>1, <2>3, <2>4
<1> QED BY <1>4, <1>5, <1>6, <1>7, <1>8, <1>9, <1>10, <1>11, <1>12 DEF Process

\* A job moves by a step of its own, or is added.
LEMMA JobMoves ==
  ASSUME IInv, [Next]_vars, NEW n \in Note, NEW d \in Dest
  PROVE  \/ Job(n, d)' = Job(n, d)
         \/ Process(n, d) \/ Stall(n, d)
         \/ Job(n, d) = NoJob /\ Job(n, d)' = [NoJob EXCEPT !.st = "waiting"]
<1> DEFINE Same == Job(n, d)' = Job(n, d)
           Added == Job(n, d) = NoJob /\ Job(n, d)' = [NoJob EXCEPT !.st = "waiting"]
<1>1. ASSUME NEW m \in Note, NEW c \in Dest, Process(m, c) \/ Stall(m, c)
      PROVE  Same \/ Process(n, d) \/ Stall(n, d)
  <2>1. (m # n \/ c # d) => Same
    BY <1>1, OwnStep
  <2> QED BY <1>1, <2>1
<1>2. ASSUME NEW m \in Note, NEW c \in Dest, Add(m, c) PROVE Same \/ Added
  <2>1. jobs[m][c] = NoJob
    BY <1>2, SettleFacts DEF Add
  <2>2. SetSt(m, c, "waiting") /\ Job(m, c) = NoJob
    BY <1>2, <2>1 DEF Add, SetSt, SetJob, Job
  <2>3. /\ Job(m, c)' = [NoJob EXCEPT !.st = "waiting"]
        /\ m # n \/ c # d => Same
    BY <2>2, SetJobFacts DEF SetSt
  <2> QED BY <2>2, <2>3
<1>3. ASSUME UNCHANGED jobs PROVE Same
  BY <1>3 DEF Job
<1>4. ASSUME NEW m \in Note, Request(m) PROVE Same \/ Added
  <2>1. \/ (\E channel \in Channel, to \in BOOLEAN : Send(m, channel, to)) \/ Create(m)
        \/ FindDevices(m) \/ MarkAsFailed(m) \/ Deliver(m)
        => UNCHANGED jobs
    BY Zenon DEF Send, Create, FindDevices, MarkAsFailed, Deliver
  <2>2. (\E c \in Dest : AddFails(m, c)) \/ CreateInApp(m) \/ MarkAsRead(m) \/ Abort(m)
        => UNCHANGED jobs
    BY Zenon DEF AddFails, CreateInApp, MarkAsRead, Read, Abort
  <2> QED BY <1>2, <1>3, <1>4, <2>1, <2>2 DEF Request
<1>5. \/ MarkAllAsRead \/ UnregisterAll \/ (\E c \in Device : Register(c) \/ Unregister(c))
      \/ Stop \/ WorkersClose \/ WorkerCloseFails \/ QueuesClose \/ Start \/ UNCHANGED vars
      => UNCHANGED jobs
  <2>1. MarkAllAsRead \/ UnregisterAll \/ (\E c \in Device : Register(c) \/ Unregister(c)) => UNCHANGED jobs
    BY Zenon DEF MarkAllAsRead, Read, UnregisterAll, Register, Unregister, SetDevices
  <2>2. Stop \/ WorkersClose \/ WorkerCloseFails \/ QueuesClose \/ Start => UNCHANGED jobs
    BY DEF Stop, WorkersClose, WorkerCloseFails, QueuesClose, Start, Phase
  <2>3. UNCHANGED vars => UNCHANGED jobs
    BY DEF vars
  <2> QED BY <2>1, <2>2, <2>3
<1> QED BY <1>1, <1>3, <1>4, <1>5 DEF Next

\* What a row has been told is not forgotten.
LEMMA ToldStays ==
  ASSUME IInv, [Next]_vars, NEW n \in Note, Told(notes[n])
  PROVE  Told(notes'[n])
<1>1. notes[n] \in NoteType /\ Exists(n)
  BY NullAssumption DEF Told, Exists
<1>2. ASSUME NEW m \in Note, NEW status \in {"sent", "failed", "delivered"}, Exists(m),
             SetStatus(m, status) \/ SetSent(m, status)
      PROVE  Told(notes'[n])
  BY <1>2, StatusRule, RowFacts DEF Told
<1>3. ASSUME NEW ns \in SUBSET Note, Read(ns) PROVE Told(notes'[n])
  <2> DEFINE opened == [notes[n] EXCEPT !.status = "read", !.readAt = TRUE]
  <2>1. Told(opened)
    BY <1>1 DEF Told, NoteType
  <2>2. notes'[n] = opened \/ notes'[n] = notes[n]
    <3>1. notes'[n] = IF n \in ns THEN opened ELSE notes[n]
      BY <1>3, Zenon DEF Read
    <3> QED BY <3>1
  <2> QED BY <2>1, <2>2
<1>4. ASSUME NEW m \in Note, NEW d \in Dest, Process(m, d) \/ Stall(m, d) PROVE Told(notes'[n])
  <2>1. MarkSent(m, d) \/ MarkFailed(m, d) => Exists(m)
    BY RowFacts DEF MarkSent, MarkFailed, IsAt, Job, RowOK, QueuedIn
  <2> QED BY <1>2, <1>4, <2>1 DEF Process, Stall, MarkSent, MarkFailed, Take, ProviderAccepts,
             ProviderRejects, MarkSentFails, MarkFailedFails, Complete, RetryOrFail
<1>5. ASSUME NEW m \in Note, Request(m) PROVE Told(notes'[n])
  <2>1. Create(m) \/ CreateInApp(m) => notes'[n] = notes[n]
    <3>1. Create(m) \/ CreateInApp(m) => m # n
      <4>1. RowOK(notes[m], send[m], jobs[m])
        BY RowFacts
      <4> QED BY <1>1, <4>1 DEF Create, CreateInApp, Exists, RowOK, At
    <3> QED BY <3>1 DEF Create, CreateInApp, IInv
  <2>2. MarkAsFailed(m) \/ Deliver(m) => Told(notes'[n])
    <3> SUFFICES ASSUME MarkAsFailed(m) \/ Deliver(m) PROVE Told(notes'[n])
      OBVIOUS
    <3>1. Exists(m)
      BY RowFacts DEF RowOK, MarkAsFailed, Deliver, At
    <3> QED BY <1>2, <3>1 DEF MarkAsFailed, Deliver
  <2>3. MarkAsRead(m) => Told(notes'[n])
    BY <1>3 DEF MarkAsRead
  <2>4. \/ (\E channel \in Channel, to \in BOOLEAN : Send(m, channel, to)) \/ FindDevices(m)
        \/ (\E d \in Dest : Add(m, d) \/ AddFails(m, d)) \/ Abort(m)
        => UNCHANGED notes
    BY Zenon DEF Send, FindDevices, Add, AddFails, Abort
  <2> QED BY <1>5, <2>1, <2>2, <2>3, <2>4 DEF Request
<1>6. MarkAllAsRead => Told(notes'[n])
  BY <1>3 DEF MarkAllAsRead
<1>7. \/ UnregisterAll \/ (\E d \in Device : Register(d) \/ Unregister(d))
      \/ Stop \/ WorkersClose \/ WorkerCloseFails \/ QueuesClose \/ Start \/ UNCHANGED vars
      => notes'[n] = notes[n]
  BY DEF UnregisterAll, Register, Unregister, SetDevices, Stop, WorkersClose, WorkerCloseFails,
         QueuesClose, Start, Phase, vars
<1> QED BY <1>4, <1>5, <1>6, <1>7 DEF Next

\* A job cannot be run for ever: each step of the processor and of BullMQ, a retry and a
\* stalled worker included, leaves it fewer, and no other step touches it.  So one job takes
\* at most 6 * (attempts + maxStalledCount + 1) of them (base.processor.ts, processWithStatusTracking).
THEOREM JobsRunOut ==
  Spec => /\ [](\A n \in Note, d \in Dest :
                  Left(Job(n, d)) \in 0 .. 6 * (MaxAttempts + MaxStalls + 1))
          /\ [][\A n \in Note, d \in Dest :
                  Left(Job(n, d)') < Left(Job(n, d)) \/ Job(n, d)' = Job(n, d)]_vars
<1>1. IInv => \A n \in Note, d \in Dest : Left(Job(n, d)) \in 0 .. 6 * (MaxAttempts + MaxStalls + 1)
  BY JobFacts, LeftBounds
<1>2. ASSUME IInv, [Next]_vars, NEW n \in Note, NEW d \in Dest
      PROVE  Left(Job(n, d)') < Left(Job(n, d)) \/ Job(n, d)' = Job(n, d)
  <2>1. CASE Job(n, d) = NoJob /\ Job(n, d)' = [NoJob EXCEPT !.st = "waiting"]
    BY <2>1, AttemptsAssumption DEF NoJob, Left, StLeft
  <2>2. CASE Process(n, d) \/ Stall(n, d)
    BY <1>2, <2>2, OwnStep
  <2> QED BY <1>2, <2>1, <2>2, JobMoves
<1>3. IInv /\ [Next]_vars =>
        [\A n \in Note, d \in Dest :
           Left(Job(n, d)') < Left(Job(n, d)) \/ Job(n, d)' = Job(n, d)]_vars
  BY <1>2
<1> QED BY <1>1, <1>3, AlwaysIInv, PTL DEF Spec

\* When a job has been completed, or has failed for good, its notification is no longer
\* pending, unless the job's last report is lost: with JobsRunOut, what QueuedIsReported
\* says, but for the fairness of the workers.
THEOREM EndedIsReported ==
  Spec => [](\A n \in Note, d \in Dest :
               Job(n, d).st \in {"completed", "failed"} => Reported(n) \/ Job(n, d).lost)
<1>1. Init => OverOK
  BY DEF Init, OverOK, IsOver, IsGivenUp, Job, NoJob
<1>2. ASSUME IInv, OverOK, [Next]_vars, NEW n \in Note, NEW d \in Dest, IsOver(Job(n, d)')
      PROVE  Told(notes'[n]) \/ Job(n, d)'.lost
  <2>1. Told(notes[n]) => Told(notes'[n])
    BY <1>2, ToldStays
  <2>2. CASE Job(n, d)' = Job(n, d)
    BY <1>2, <2>1, <2>2 DEF OverOK
  <2>3. CASE Process(n, d) \/ Stall(n, d)
    BY <1>2, <2>1, <2>3, OwnStep DEF OverOK
  <2>4. ASSUME Job(n, d)' = [NoJob EXCEPT !.st = "waiting"] PROVE FALSE
    BY <1>2, <2>4 DEF NoJob, IsOver, IsGivenUp
  <2> QED BY <1>2, <2>2, <2>3, <2>4, JobMoves
<1>3. IInv /\ OverOK /\ [Next]_vars => OverOK'
  <2> SUFFICES ASSUME IInv, OverOK, [Next]_vars,
                      NEW n \in Note, NEW d \in Dest, IsOver(Job(n, d))'
               PROVE  (Told(notes[n]) \/ Job(n, d).lost)'
    BY DEF OverOK
  <2>1. IsOver(Job(n, d)')
    BY DEF IsOver, IsGivenUp, IsLast
  <2> QED BY <1>2, <2>1 DEF Told
<1>4. OverOK => \A n \in Note, d \in Dest :
                  Job(n, d).st \in {"completed", "failed"} => Reported(n) \/ Job(n, d).lost
  BY NullAssumption DEF OverOK, IsOver, IsGivenUp, Told, Reported, Exists
<1> QED BY <1>1, <1>3, <1>4, AlwaysIInv, PTL DEF Spec
================================================================================
