------------------------- MODULE MCNotificationDelivery -------------------------
(* NotificationDelivery for TLC: one notification, since notifications share     *)
(* nothing but the module's options, the user's devices and the process.         *)
EXTENDS NotificationDelivery, TLC

(* Everything on, with a Redis; and, without one, features switched off.  Both    *)
(* ways of registering the module.                                                *)
MCConfig ==
  {[mode |-> m, enabled |-> Channel, redis |-> TRUE, preferences |-> TRUE] :
      m \in {"forRoot", "forRootAsync"}}
  \cup {[mode |-> m, enabled |-> Channel \ off, redis |-> FALSE, preferences |-> p] :
      m \in {"forRoot", "forRootAsync"}, off \in {{"sms"}, {"push"}, {"in_app", "email"}}, p \in BOOLEAN}

MCSymmetry == Permutations(Device)
================================================================================
