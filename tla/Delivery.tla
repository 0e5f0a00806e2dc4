------------------------------ MODULE Delivery ------------------------------
(***************************************************************************)
(* What the gateway promises about POST /v1/commands: a first-in-first-out *)
(* line of commands to an MQTT broker that comes and goes.  A perishable   *)
(* command (controller and water commands) is good for the broker session  *)
(* it was accepted in and may be dropped at any time; a durable one (the   *)
(* legacy alarm command) may be dropped only where a new session starts or *)
(* the gateway stops.  Nothing is ever delivered twice.  Module Bridge     *)
(* implements this specification.                                          *)
(***************************************************************************)
EXTENDS Naturals, Sequences

CONSTANTS
  Requests,      \* the commands, each requested at most once
  Perishable     \* those of them that carry a CommandGuard

VARIABLES
  online,        \* the broker is connected
  session,       \* the number of sessions that have ended
  stopped,       \* the bridge has shut down
  status,        \* what each request has come to: new, accepted, sent, failed
  issued,        \* the session each command was accepted in
  line,          \* the commands in the order they joined
  waiting,       \* those of them still on their way
  delivered      \* what the broker got: [cmd, session] in order

deliveryVars == <<online, session, stopped, status, issued, line, waiting, delivered>>

-----------------------------------------------------------------------------
DeliveryInit ==
  /\ online = FALSE /\ session = 0 /\ stopped = FALSE
  /\ status = [c \in Requests |-> "new"]
  /\ issued = [c \in Requests |-> 0]
  /\ line = <<>> /\ waiting = {} /\ delivered = <<>>

\* A perishable command needs a session to be good for.
AcceptRequest(c) ==
  /\ status[c] = "new"
  /\ c \in Perishable => online
  /\ status' = [status EXCEPT ![c] = "accepted"]
  /\ issued' = [issued EXCEPT ![c] = session]
  /\ UNCHANGED <<online, session, stopped, line, waiting, delivered>>

\* The command joins the line, once, or is refused by a stopped gateway.
Join(c) ==
  /\ status[c] = "accepted"
  /\ \/ /\ ~stopped
        /\ status' = [status EXCEPT ![c] = "sent"]
        /\ line' = Append(line, c)
        /\ waiting' = waiting \cup {c}
     \/ /\ stopped
        /\ status' = [status EXCEPT ![c] = "failed"]
        /\ UNCHANGED <<line, waiting>>
  /\ UNCHANGED <<online, session, stopped, issued, delivered>>

\* A stale command leaves the line undelivered.
Discard(c) ==
  /\ c \in Perishable
  /\ waiting' = waiting \ {c}
  /\ UNCHANGED <<online, session, stopped, status, issued, line, delivered>>

\* The first command that is still waiting goes out.
GoesOut(c) ==
  /\ online /\ c \in waiting
  /\ \E i \in DOMAIN line : line[i] = c /\ \A j \in 1 .. i - 1 : line[j] \notin waiting
  /\ c \in Perishable => issued[c] = session
  /\ delivered' = Append(delivered, [cmd |-> c, session |-> session])

Deliver(c) ==
  /\ GoesOut(c)
  /\ waiting' = waiting \ {c}
  /\ UNCHANGED <<online, session, stopped, status, issued, line>>

\* A session starts; durable commands accepted before the last one ended may
\* be lost with what that session left behind.
GoOnline ==
  /\ ~online /\ ~stopped
  /\ online' = TRUE
  /\ \E lost \in SUBSET {c \in Requests \ Perishable : issued[c] < session} :
       waiting' = waiting \ lost
  /\ UNCHANGED <<session, stopped, status, issued, line, delivered>>

\* A session ends, perhaps while a command goes out.
GoOffline ==
  /\ online
  /\ online' = FALSE /\ session' = session + 1
  /\ \E lost \in SUBSET Perishable :
       \/ /\ waiting' = waiting \ lost
          /\ UNCHANGED delivered
       \/ \E c \in Requests : GoesOut(c) /\ waiting' = waiting \ (lost \cup {c})
  /\ UNCHANGED <<stopped, status, issued, line>>

\* The gateway stops: what is in the line is not kept.
Shutdown ==
  /\ ~stopped
  /\ stopped' = TRUE /\ waiting' = {}
  /\ online' = FALSE
  /\ session' = IF online THEN session + 1 ELSE session
  /\ UNCHANGED <<status, issued, line, delivered>>

DeliveryNext ==
  \/ \E c \in Requests : AcceptRequest(c) \/ Join(c) \/ Discard(c) \/ Deliver(c)
  \/ GoOnline
  \/ GoOffline
  \/ Shutdown

DeliverySpec == DeliveryInit /\ [][DeliveryNext]_deliveryVars

-----------------------------------------------------------------------------
(* What the promise amounts to *)

\* The type invariant.
DeliveryTypeOK ==
  /\ online \in BOOLEAN /\ stopped \in BOOLEAN
  /\ session \in Nat
  /\ status \in [Requests -> {"new", "accepted", "sent", "failed"}]
  /\ issued \in [Requests -> Nat]
  /\ line \in Seq(Requests)
  /\ waiting \subseteq Requests
  /\ delivered \in Seq([cmd : Requests, session : Nat])

\* The broker never gets a command twice, whatever breaks in between: what was
\* delivered does not wait any more (rumqttc's retransmission is cut off by
\* the clean session, the controller's already by discard_controller_replay).
AtMostOnce ==
  /\ \A i, j \in DOMAIN delivered : delivered[i].cmd = delivered[j].cmd => i = j
  /\ \A i \in DOMAIN delivered : delivered[i].cmd \notin waiting

\* A perishable command is delivered in the session whose telemetry it was
\* accepted against or not at all ("A disconnect invalidates old commands
\* even if retained state arrives after reconnect").
InItsSession ==
  \A i \in DOMAIN delivered :
    delivered[i].cmd \in Perishable => delivered[i].session = issued[delivered[i].cmd]

\* Commands reach the broker in the order the gateway took them, so that the
\* last mode or override that was requested is the last one that is applied.
InOrder ==
  \A i, j \in DOMAIN delivered : i < j =>
    \E m, n \in DOMAIN line : m < n /\ line[m] = delivered[i].cmd /\ line[n] = delivered[j].cmd
=============================================================================
