-------------------------- MODULE AuthNotifications --------------------------
(****************************************************************************)
(* From an event of AuthService to a mail: EventEmitter2 calls              *)
(* AuthNotificationListener (nestjs-notifications/src/integrations/auth),   *)
(* which renders a template with TemplateService and hands the text to      *)
(* NotificationService.send, while the host application renders templates   *)
(* of its own.  What becomes of the job, and of the other channels, is the  *)
(* subject of NotificationDelivery.                                         *)
(*                                                                          *)
(* AuthService awaits the listener (emitAsync) and drops its error, so the  *)
(* outcome of a handler is "mailed or lost" of AuthService!EmitToken.       *)
(****************************************************************************)
EXTENDS TemplateService

CONSTANTS
  Events,       \* events that may be emitted: [kind, user, token]
  HostKeys,     \* templates the host application renders
  TemplateOf    \* config.templates: the template's name for each type of mail

MailType == {"auth.verify-email", "auth.welcome", "auth.password-reset"}

\* A handler's call of render is named after its event, the host's have slots of their own.
\* Every event has its user's address, so routeEmail always has one.
ASSUME EventsAssumption ==
  /\ \A e \in Events : e.kind \in {"auth.user.registered", "auth.password.forgot"}
  /\ Events \subseteq Slots
ASSUME HostKeysAssumption == HostKeys \subseteq Keys
ASSUME TemplateOfAssumption == "email" \in Channels /\ TemplateOf \in [MailType -> Names]

VARIABLES
  handler,   \* the call of the listener for each event
  mails,     \* Notification rows created by send, one for each event that has one
  muted      \* mail types a user has switched off: <<user, type>>

vars == <<tvars, handler, mails, muted>>

Outcome == {"resolved", "rejected"}

\* silent is history: the type of mail was muted at some moment of the call.
Call(pc, silent) == [pc |-> pc, silent |-> silent]

\* A registration without a token gets a welcome; the reset needs its link.
TypeOf(e) ==
  CASE e.kind = "auth.password.forgot" -> "auth.password-reset"
    [] e.kind = "auth.user.registered" /\ e.token # NULL -> "auth.verify-email"
    [] e.kind = "auth.user.registered" /\ e.token = NULL -> "auth.welcome"

KeyOf(e) == <<"email", TemplateOf[TypeOf(e)]>>

\* The row's status, "queued" while it is pending and a job of it has been queued.
MailState == {"pending", "queued", "failed"}

\* Variant of Mail: the link is left out.
MailWithoutToken(e, source, state) ==
  [to |-> e.user, type |-> TypeOf(e), token |-> "", source |-> source, state |-> state]

Mail(e, source, state) ==
  [to |-> e.user, type |-> TypeOf(e), token |-> e.token, source |-> source, state |-> state]

ASSUME NullAssumption ==
  \A e \in Events, s \in Sources, state \in MailState : Mail(e, s, state) # NULL

Init ==
  /\ TemplateInit
  /\ handler = [e \in Events |-> Call("none", FALSE)]
  /\ mails = [e \in Events |-> NULL]
  /\ muted \in SUBSET {<<e.user, TypeOf(e)>> : e \in Events}

At(e, pc) == handler[e].pc = pc
Goto(e, pc) == handler' = [handler EXCEPT ![e].pc = pc]
IsMuted(e) == <<e.user, TypeOf(e)>> \in muted

Emit(e) ==
  /\ At(e, "none")
  /\ handler' = [handler EXCEPT ![e] = Call("start", IsMuted(e))]
  /\ UNCHANGED <<tvars, mails, muted>>

BeginRender(e) ==
  /\ At(e, "start")
  /\ Render(e, KeyOf(e))
  /\ Goto(e, "render")
  /\ UNCHANGED <<mails, muted>>

RenderResolves(e) ==
  /\ At(e, "render") /\ render[e].pc = "done"
  /\ Goto(e, "send")
  /\ UNCHANGED <<tvars, mails, muted>>

RenderThrows(e) ==
  /\ At(e, "render") /\ render[e].pc = "thrown"
  /\ Clear(e)
  /\ Goto(e, "rejected")
  /\ UNCHANGED <<files, cache, edits, shown, email, mails, muted>>

\* preferenceService.isEnabled, then notification.create in a call of its own.
SendChecks(e) ==
  /\ At(e, "send")
  /\ IF IsMuted(e)
     THEN Clear(e) /\ Goto(e, "resolved")
     ELSE Goto(e, "create") /\ UNCHANGED render
  /\ UNCHANGED <<files, cache, edits, shown, email, mails, muted>>

\* The row, and then routeEmail: a channel that is off is passed over.
SendCreates(e) ==
  /\ At(e, "create")
  /\ mails' = [mails EXCEPT ![e] = Mail(e, render[e].source, "pending")]
  /\ Clear(e)
  /\ Goto(e, CASE email = "off" -> "resolved" [] email = "noQueue" -> "report"
               [] email = "queue" -> "queue")
  /\ UNCHANGED <<files, cache, edits, shown, email, muted>>

\* markAsFailed catches the error of its own update.
MarkAsFailed(e) ==
  /\ At(e, "report")
  /\ mails' \in {mails, [mails EXCEPT ![e].state = "failed"]}
  /\ Goto(e, "resolved")
  /\ UNCHANGED <<tvars, muted>>

\* Variant of SendQueues: the handler does not wait for the queue's answer.
SendQueuesUnawaited(e) ==
  /\ At(e, "queue")
  /\ mails' \in {mails, [mails EXCEPT ![e].state = "queued"]}
  /\ Goto(e, "resolved")
  /\ UNCHANGED <<tvars, muted>>

\* emailQueue.add: the job is queued, or Redis refuses it; the row stays either way.
SendQueues(e) ==
  /\ At(e, "queue")
  /\ \/ mails' = [mails EXCEPT ![e].state = "queued"] /\ Goto(e, "resolved")
     \/ Goto(e, "rejected") /\ UNCHANGED mails
  /\ UNCHANGED <<tvars, muted>>

\* A query of send rejects.
SendFails(e) ==
  /\ At(e, "send") \/ At(e, "create")
  /\ Clear(e)
  /\ Goto(e, "rejected")
  /\ UNCHANGED <<files, cache, edits, shown, email, mails, muted>>

\* upsert of NotificationPreference; it shares the bound on changes with the files.
SetPreference(u, type, on) ==
  /\ edits < MaxEdits
  /\ edits' = edits + 1
  /\ muted' = IF on THEN muted \ {<<u, type>>} ELSE muted \cup {<<u, type>>}
  /\ handler' = [e \in Events |->
       IF ~on /\ handler[e].pc \notin {"none"} \cup Outcome /\ <<e.user, TypeOf(e)>> = <<u, type>>
       THEN [handler[e] EXCEPT !.silent = TRUE] ELSE handler[e]]
  /\ UNCHANGED <<files, cache, render, shown, email, mails>>

\* The host application's own renders.
HostRender(r, k) == r \notin Events /\ Render(r, k) /\ UNCHANGED <<handler, mails, muted>>
HostTakes(r) ==
  /\ r \notin Events
  /\ render[r].pc \in {"done", "thrown"}
  /\ Clear(r)
  /\ UNCHANGED <<files, cache, edits, shown, email, handler, mails, muted>>

TemplateStep(r) == (Access(r) \/ ReadFile(r)) /\ UNCHANGED <<handler, mails, muted>>

Handling(e) ==
  \/ BeginRender(e) \/ RenderResolves(e) \/ RenderThrows(e)
  \/ SendChecks(e) \/ SendCreates(e) \/ MarkAsFailed(e) \/ SendQueues(e)

Next ==
  \/ \E e \in Events : Emit(e) \/ Handling(e) \/ SendFails(e)
  \/ \E r \in Slots : TemplateStep(r) \/ HostTakes(r) \/ \E k \in HostKeys : HostRender(r, k)
  \/ \E p \in Places, s \in Sources \cup {NULL} :
       files[p] # s /\ Edit(p, s) /\ UNCHANGED <<handler, mails, muted>>
  \/ \E e \in Events, on \in BOOLEAN : IsMuted(e) = on /\ SetPreference(e.user, TypeOf(e), on)

\* The event loop runs what it has been given: a callback that is due, or the answer of the
\* file system or the database.
Fairness ==
  /\ \A e \in Events : WF_vars(Handling(e))
  /\ \A r \in Slots : WF_vars(TemplateStep(r))

Spec == Init /\ [][Next]_vars /\ Fairness

----------------------------------------------------------------------------
(* Properties *)

\* Files, mails and the Map keep their shape; a handler has a render exactly from its start
\* to its row.
TypeOK ==
  /\ files \in [Places -> Sources \cup {NULL}]
  /\ \A i \in 1 .. Len(cache) : cache[i] \in [key : Keys, source : Sources]
  /\ \A e \in Events : mails[e] # NULL =>
       mails[e] \in [to : {e.user}, type : MailType, token : {e.token}, source : Sources,
                     state : MailState]
  /\ \A e \in Events : render[e] # Idle <=> handler[e].pc \in {"render", "send", "create"}

\* A handler that resolves, which the listener logs as a mail sent, has left a row for its
\* mail and, where the email channel is on and has its queue, a job that will send it; or its
\* user had that type of mail switched off at some moment of the handling.  Only a host
\* whose email channel is off or without a queue is told of a mail that nothing will send.
ResolvedMeansMailed ==
  \A e \in Events : At(e, "resolved") =>
    \/ handler[e].silent
    \/ mails[e] # NULL /\ (email = "queue" => mails[e].state = "queued")

\* A mail is made from a template that its own key has been found under, and its text is
\* never one that Handlebars refuses.
MailFromOwnTemplate ==
  \A e \in Events : mails[e] # NULL =>
    /\ mails[e].source \in UNION {shown[Lookup(KeyOf(e))[i]] : i \in 1 .. 3}
    /\ mails[e].source \notin Broken

\* Every event that is emitted comes to an outcome, so that the request of AuthService which
\* awaits it can answer.
EveryEventSettles == \A e \in Events : At(e, "start") ~> handler[e].pc \in Outcome
===============================================================================
