---------------------------- MODULE SendAndWait ----------------------------
(***************************************************************************)
(* What Connection::send_and_wait promises its caller, without correlation *)
(* ids, demux, tasks or sockets.  A call is opened, its frame may be       *)
(* accepted by the connection, an accepted frame may be executed by the    *)
(* hop on the other side - at most once, and possibly after the call has   *)
(* already returned - and the call returns one of the four results that    *)
(* the forwarder tells apart.                                              *)
(*                                                                         *)
(* The promise is deliberately as weak as the code: "closed" says nothing  *)
(* about whether the frame was executed.                                   *)
(***************************************************************************)
EXTENDS Naturals

CONSTANT Calls

VARIABLES
  phase,      \* phase[c]: "idle", "open" (inside send_and_wait) or "done"
  sent,       \* sent[c]: the frame was accepted by the write channel
  executed,   \* executed[c]: how often the hop has executed the frame
  result      \* result[c]: "none" until the call returns

vars == <<phase, sent, executed, result>>

Results == {"ok", "closed", "timeout", "validation"}

Init ==
  /\ phase = [c \in Calls |-> "idle"]
  /\ sent = [c \in Calls |-> FALSE]
  /\ executed = [c \in Calls |-> 0]
  /\ result = [c \in Calls |-> "none"]

Begin(c) ==
  /\ phase[c] = "idle"
  /\ phase' = [phase EXCEPT ![c] = "open"]
  /\ UNCHANGED <<sent, executed, result>>

Accept(c) ==
  /\ phase[c] = "open" /\ ~sent[c]
  /\ sent' = [sent EXCEPT ![c] = TRUE]
  /\ UNCHANGED <<phase, executed, result>>

Execute(c) ==
  /\ sent[c] /\ executed[c] = 0
  /\ executed' = [executed EXCEPT ![c] = 1]
  /\ UNCHANGED <<phase, sent, result>>

\* "ok" only for an executed frame, "timeout" only for an accepted one, and
\* "validation" only for a frame that was and will be refused.
MayReturn(c, res) ==
  /\ res = "ok" => sent[c] /\ executed[c] = 1
  /\ res = "timeout" => sent[c]
  /\ res = "validation" => ~sent[c]

Return(c, res) ==
  /\ phase[c] = "open"
  /\ MayReturn(c, res)
  /\ phase' = [phase EXCEPT ![c] = "done"]
  /\ result' = [result EXCEPT ![c] = res]
  /\ UNCHANGED <<sent, executed>>

Next ==
  \E c \in Calls :
    \/ Begin(c)
    \/ Accept(c)
    \/ Execute(c)
    \/ \E res \in Results : Return(c, res)

Spec == Init /\ [][Next]_vars
=============================================================================
