------------------------- MODULE MCAuthNotifications -------------------------
EXTENDS AuthNotifications

CONSTANTS t1, t2, h1, v1, v2, bad

Event(kind, user, token) == [kind |-> kind, user |-> user, token |-> token]

MCEvents == {Event("auth.user.registered", "ann", t1), Event("auth.password.forgot", "ann", t2)}

\* One template serves both kinds of registration mail.
MCTemplateOf == [t \in MailType |-> IF t = "auth.password-reset" THEN "reset" ELSE "hello"]

MCHostKeys == {<<"sms", "hello">>}

MCSlots == MCEvents \cup {h1}

\* The project has a template of its own in either place, or has lost one that it names; its
\* email channel works, is off, or has no queue.
MCHosts ==
  LET with(p, s) == [q \in Places |-> IF q = p THEN s ELSE IF q[1] = "default" THEN v1 ELSE NULL]
      own == with(<<"email", "hello">>, v2)
      flat == with(<<"flat", "hello">>, v2)
      lost == with(<<"default", "reset">>, NULL)
  IN {[files |-> own, email |-> "queue"], [files |-> flat, email |-> "queue"],
      [files |-> lost, email |-> "noQueue"], [files |-> own, email |-> "off"]}
===============================================================================
