-------------------------- MODULE ConnectionAgent --------------------------
(***************************************************************************)
(* What the connection agent of one contact promises (spec.md section      *)
(* 4.2), as seen from outside: DISABLED, CONNECTING or CONNECTED(session), *)
(* the user's switch `enabled`, and at most one current session.           *)
(*                                                                         *)
(* Where the specification makes "* + Stop -> DISABLED" one step, the      *)
(* agent of the code reaches DISABLED some steps after Stop: it may still  *)
(* adopt a session it received before Stop and must then lose it again.   *)
(* This module allows that delay but nothing else: the agent becomes       *)
(* DISABLED only while disabled and without a session, and Start on a      *)
(* DISABLED agent makes it CONNECTING at once.                             *)
(***************************************************************************)
CONSTANTS
    Sessions,   \* the sessions that can be authenticated
    None        \* no current session

ASSUME None \notin Sessions

VARIABLES
    agent,      \* "DISABLED", "CONNECTING" or "CONNECTED"
    session,    \* the current session, None unless CONNECTED
    enabled     \* the last user call was Start

vars == <<agent, session, enabled>>

AgentStates == {"DISABLED", "CONNECTING", "CONNECTED"}

Init == /\ agent = "DISABLED"
        /\ session = None
        /\ enabled = FALSE

\* DISABLED + Start -> CONNECTING; Start on a running agent changes nothing
\* but the switch.
Start == /\ enabled' = TRUE
         /\ agent' = IF agent = "DISABLED" THEN "CONNECTING" ELSE agent
         /\ UNCHANGED session

Stop == /\ enabled' = FALSE
        /\ UNCHANGED <<agent, session>>

\* The agent stops once it is disabled and has given up its session.
Disable == /\ ~enabled /\ agent = "CONNECTING"
           /\ agent' = "DISABLED"
           /\ UNCHANGED <<session, enabled>>

\* An authenticated session is adopted, replacing the current one.
Adopt(s) == /\ agent # "DISABLED" /\ s # session
            /\ agent' = "CONNECTED" /\ session' = s
            /\ UNCHANGED enabled

\* CONNECTED(s) + SessionClosed(s) -> CONNECTING.
Lose == /\ agent = "CONNECTED"
        /\ agent' = "CONNECTING" /\ session' = None
        /\ UNCHANGED enabled

Next == Start \/ Stop \/ Disable \/ Lose \/ \E s \in Sessions : Adopt(s)

Spec == Init /\ [][Next]_vars

\* The agent is CONNECTED exactly when it has a session.
TypeOK == /\ agent \in AgentStates
          /\ session \in Sessions \cup {None}
          /\ enabled \in BOOLEAN
          /\ (agent = "CONNECTED") <=> (session # None)

=============================================================================
