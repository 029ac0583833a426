--------------------------- MODULE NotificationModule ---------------------------
(* How NotificationModule is put together: what forRoot and forRootAsync each     *)
(* provide for a set of options.  forRoot knows the options when it declares the  *)
(* module and leaves out what they switch off; forRootAsync declares everything,  *)
(* and a factory, a guard or the service itself has to look again.                *)
(*                                                                                *)
(* Options that name a provider that is not implemented stop the start in both.   *)
CONSTANT Config   \* the ways the host may set the module up

Channel == {"email", "sms", "push", "in_app"}
QueueChannel == Channel \ {"in_app"}

ASSUME ConfigAssumption ==
  Config \subseteq [mode : {"forRoot", "forRootAsync"}, enabled : SUBSET Channel,
                    redis : BOOLEAN, preferences : BOOLEAN]

(* EMAIL_PROVIDER, SMS_PROVIDER, PUSH_PROVIDER: not declared, or null, when off. *)
Providers(c) == QueueChannel \cap c.enabled

(* registerQueue, or the factories of the queues. *)
Queues(c) == IF c.redis THEN QueueChannel \cap c.enabled ELSE {}

(* A @Processor, which Nest starts on the queue of its name, or a factory's Worker. *)
Workers(c) ==
  IF c.mode = "forRoot" THEN Providers(c) \cap Queues(c)
  ELSE {w \in Queues(c) : w \in Providers(c)}

(* The services NotificationService finds at hand; the features they serve.       *)
Services(c) ==
  IF c.mode = "forRoot"
    THEN (c.enabled \cap {"in_app", "push"}) \cup (IF c.preferences THEN {"preferences"} ELSE {})
    ELSE {"in_app", "push", "preferences"}

(* ---- routes ---- *)

Features == {"in_app", "push", "preferences"}

Controllers(c) == IF c.mode = "forRoot" THEN Services(c) ELSE Features

(* InAppFeatureGuard, PushFeatureGuard, PreferencesFeatureGuard. *)
Guard(c, f) == IF f = "preferences" THEN c.preferences ELSE f \in c.enabled

(* A route without a controller, or that its guard refuses, is a 404. *)
Served(c, f) == f \in Controllers(c) /\ Guard(c, f)
================================================================================
