----------------------------- MODULE SecondFactor -----------------------------
(****************************************************************************)
(* What signing in with two factors promises (AuthService.login and         *)
(* verifyTwoFactor, auth.service.ts 127-209), without requests, queries or  *)
(* tokens.  An attempt proves factors one at a time and is granted when it  *)
(* has proved the password and, unless no method of the user was enabled    *)
(* for the whole of the attempt, a code.  A challenge stands for a password *)
(* proved earlier: a later attempt takes that proof over.                   *)
(****************************************************************************)
CONSTANTS Users, Requests, Methods

VARIABLES
  enabled,     \* the second-factor methods of each user
  challenged,  \* users for whom a password was proved and a code asked
  attempt      \* what each attempt has proved, and the methods enabled all through it

vars == <<enabled, challenged, attempt>>

Factors == {"password", "code"}

Idle == [stage |-> "idle"]
Running(u, proved, held) == [stage |-> "running", user |-> u, proved |-> proved, held |-> held]
Over(u, granted) == [stage |-> "over", user |-> u, granted |-> granted]

IsRunning(r) == attempt[r].stage = "running"

Init ==
  /\ enabled \in [Users -> SUBSET Methods]
  /\ challenged = {}
  /\ attempt = [r \in Requests |-> Idle]

Begin(r, u) ==
  /\ attempt[r] = Idle
  /\ attempt' = [attempt EXCEPT ![r] = Running(u, {}, enabled[u])]
  /\ UNCHANGED <<enabled, challenged>>

Resume(r, u) ==
  /\ attempt[r] = Idle
  /\ u \in challenged
  /\ attempt' = [attempt EXCEPT ![r] = Running(u, {"password"}, enabled[u])]
  /\ UNCHANGED <<enabled, challenged>>

Prove(r, f) ==
  /\ IsRunning(r)
  /\ f = "code" => "password" \in attempt[r].proved
  /\ attempt' = [attempt EXCEPT ![r].proved = @ \cup {f}]
  /\ UNCHANGED <<enabled, challenged>>

Challenge(r) ==
  /\ IsRunning(r)
  /\ "password" \in attempt[r].proved
  /\ challenged' = challenged \cup {attempt[r].user}
  /\ attempt' = [attempt EXCEPT ![r] = Over(attempt[r].user, FALSE)]
  /\ UNCHANGED enabled

Grant(r) ==
  /\ IsRunning(r)
  /\ \/ attempt[r].proved = Factors
     \/ attempt[r].proved = {"password"} /\ attempt[r].held = {}
  /\ attempt' = [attempt EXCEPT ![r] = Over(attempt[r].user, TRUE)]
  /\ UNCHANGED <<enabled, challenged>>

Fail(r) ==
  /\ IsRunning(r)
  /\ attempt' = [attempt EXCEPT ![r] = Over(attempt[r].user, FALSE)]
  /\ UNCHANGED <<enabled, challenged>>

Enable(u, ms) ==
  /\ enabled' = [enabled EXCEPT ![u] = ms]
  /\ attempt' = [r \in Requests |->
                   IF IsRunning(r) /\ attempt[r].user = u
                   THEN [attempt[r] EXCEPT !.held = @ \cap ms]
                   ELSE attempt[r]]
  /\ UNCHANGED challenged

Next ==
  \/ \E r \in Requests :
       \/ \E u \in Users : Begin(r, u) \/ Resume(r, u)
       \/ \E f \in Factors : Prove(r, f)
       \/ Challenge(r) \/ Grant(r) \/ Fail(r)
  \/ \E u \in Users, ms \in SUBSET Methods : Enable(u, ms)

Spec == Init /\ [][Next]_vars
===============================================================================
