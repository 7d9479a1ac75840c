----------------------------- MODULE TcpServer -----------------------------
(***************************************************************************)
(* The life of the process: async_main and the heartbeat task of           *)
(* src/src/lib.rs, main of src/src/main.rs, and TcpServer::run of          *)
(* src/src/tcp_server.rs with its connection limit.                        *)
(*                                                                         *)
(* The limit is enforced by a counter that the accept loop increments and  *)
(* that a closer task decrements, told by a channel.  What one handler     *)
(* does with its client is module ClientConnection; here it returns at     *)
(* some time, or never.                                                    *)
(***************************************************************************)
EXTENDS Naturals, FiniteSets

CONSTANTS
  Conns,             \* client connections, used again once they are gone
  max_connections,
  ZoneMode           \* mode == RouterMode::Zone

ASSUME TcpServerAssumption ==
  /\ IsFiniteSet(Conns)
  /\ max_connections \in Nat
  /\ ZoneMode \in BOOLEAN

VARIABLES
  phase,       \* where async_main is; "exited": the process is gone
  cancelled,   \* the cancellation token
  conn,        \* conn[c]: "away", "backlog", "open" (it has a handler), or
               \* "ended" (the handler has returned, close_tx not yet used)
  active,      \* the counter
  closes,      \* messages in the channel to the closer task
  closer,      \* the closer task runs
  heartbeat,   \* the heartbeat task runs
  registered,  \* RzID has a current registration of this router
  calm         \* RzID has stopped failing

netVars == <<conn, active, closes, closer>>
regVars == <<heartbeat, registered, calm>>
vars == <<phase, cancelled, netVars, regVars>>

In(state) == {c \in Conns : conn[c] = state}

\* The refresh and the heartbeat task are spawned before anything is awaited.
Init ==
  /\ phase = "codecs"
  /\ cancelled = FALSE
  /\ conn = [c \in Conns |-> "away"]
  /\ active = 0 /\ closes = 0 /\ closer = TRUE
  /\ heartbeat = TRUE /\ registered = FALSE /\ calm = FALSE

-----------------------------------------------------------------------------
(* async_main and main *)

\* When main returns the runtime is dropped, and every task and socket with it.
Exit ==
  /\ phase' = "exited"
  /\ conn' = [c \in Conns |-> "away"]
  /\ UNCHANGED <<cancelled, active, closes, closer, regVars>>

\* rzid.fetch_codecs().await?, whose client gives up after five seconds.
FetchCodecs ==
  /\ phase = "codecs"
  /\ \/ Exit
     \/ phase' = "bind" /\ UNCHANGED <<cancelled, netVars, regVars>>

Bind ==
  /\ phase = "bind"
  /\ \/ Exit
     \/ phase' = "serving" /\ UNCHANGED <<cancelled, netVars, regVars>>

\* Mutant: shutdown waits for the clients.
WaitForClients == phase = "serving" /\ cancelled /\ active = 0 /\ Exit

\* Either arm of the last select! of async_main.
Shutdown == phase = "serving" /\ cancelled /\ Exit

\* Ctrl+C, or whoever holds the token.
Cancel ==
  /\ ~cancelled /\ phase # "exited"
  /\ cancelled' = TRUE
  /\ UNCHANGED <<phase, netVars, regVars>>

-----------------------------------------------------------------------------
(* The accept loop; it may still accept when cancelled, select! being fair.  *)
(* A failed accept() leaves no trace.                                        *)

\* Mutant: one connection too many.
LimitPassed == active > max_connections

LimitReached == active >= max_connections

Accept(c) ==
  /\ phase = "serving" /\ conn[c] = "backlog"
  /\ ~LimitReached
  /\ active' = active + 1
  /\ conn' = [conn EXCEPT ![c] = "open"]
  /\ UNCHANGED <<phase, cancelled, closes, closer, regVars>>

\* "max connections reached, dropping connection"
Refuse(c) ==
  /\ phase = "serving" /\ conn[c] = "backlog"
  /\ LimitReached
  /\ conn' = [conn EXCEPT ![c] = "away"]
  /\ UNCHANGED <<phase, cancelled, active, closes, closer, regVars>>

\* handle_connection returns and the socket is dropped.
HandlerReturns(c) ==
  /\ phase = "serving" /\ conn[c] = "open"
  /\ conn' = [conn EXCEPT ![c] = "ended"]
  /\ UNCHANGED <<phase, cancelled, active, closes, closer, regVars>>

\* Mutant: the task ends without a word to the closer.
CloseForgotten(c) ==
  /\ phase = "serving" /\ conn[c] = "ended"
  /\ conn' = [conn EXCEPT ![c] = "away"]
  /\ UNCHANGED <<phase, cancelled, active, closes, closer, regVars>>

\* close_tx.send(()), an ignored error when the closer is gone.
CloseSent(c) ==
  /\ phase = "serving" /\ conn[c] = "ended"
  /\ conn' = [conn EXCEPT ![c] = "away"]
  /\ closes' = IF closer THEN closes + 1 ELSE closes
  /\ UNCHANGED <<phase, cancelled, active, closer, regVars>>

-----------------------------------------------------------------------------
(* The closer task *)

CloserRecv ==
  /\ phase = "serving" /\ closer /\ closes > 0
  /\ closes' = closes - 1
  /\ active' = active - 1
  /\ UNCHANGED <<phase, cancelled, conn, closer, regVars>>

\* The receiver goes with the task, and what is in the channel with it.
CloserStops ==
  /\ phase = "serving" /\ closer /\ cancelled
  /\ closer' = FALSE
  /\ closes' = 0
  /\ UNCHANGED <<phase, cancelled, conn, active, regVars>>

-----------------------------------------------------------------------------
(* The heartbeat task *)

\* Mutant: the task ends with the first failure.
HeartbeatGivesUp ==
  /\ phase # "exited" /\ heartbeat /\ ZoneMode
  /\ \E ok \in {TRUE, calm} :
       /\ registered' = (registered \/ ok)
       /\ heartbeat' = ok
  /\ UNCHANGED <<phase, cancelled, netVars, calm>>

\* A tick; an edge router sends nothing, a failure is only logged.  Until RzID
\* is calm, a request may fail.
SendHeartbeat ==
  /\ phase # "exited" /\ heartbeat /\ ZoneMode
  /\ \E ok \in {TRUE, calm} : registered' = (registered \/ ok)
  /\ UNCHANGED <<phase, cancelled, netVars, heartbeat, calm>>

HeartbeatStops ==
  /\ phase # "exited" /\ heartbeat /\ cancelled
  /\ heartbeat' = FALSE
  /\ UNCHANGED <<phase, cancelled, netVars, registered, calm>>

-----------------------------------------------------------------------------
(* Clients and RzID (external) *)

\* A client reaches the backlog of the bound listener.
Connect(c) ==
  /\ phase = "serving" /\ conn[c] = "away"
  /\ conn' = [conn EXCEPT ![c] = "backlog"]
  /\ UNCHANGED <<phase, cancelled, active, closes, closer, regVars>>

\* RzID forgets a router whose heartbeats fail or come late.  Once calm it does
\* not: its expiry time is taken to exceed config.heartbeat_interval, which is
\* not checked anywhere.
Expire ==
  /\ ~calm /\ registered
  /\ registered' = FALSE
  /\ UNCHANGED <<phase, cancelled, netVars, heartbeat, calm>>

Calms ==
  /\ ~calm
  /\ calm' = TRUE
  /\ UNCHANGED <<phase, cancelled, netVars, heartbeat, registered>>

-----------------------------------------------------------------------------
MainStep == FetchCodecs \/ Bind \/ Shutdown

Next ==
  \/ MainStep \/ Cancel
  \/ \E c \in Conns : \/ Connect(c) \/ Accept(c) \/ Refuse(c)
                      \/ HandlerReturns(c) \/ CloseSent(c)
  \/ CloserRecv \/ CloserStops
  \/ SendHeartbeat \/ HeartbeatStops
  \/ Expire \/ Calms

Spec == Init /\ [][Next]_vars

\* The runtime polls ready tasks.  A handler need not return.
Fairness ==
  /\ WF_vars(MainStep)
  /\ \A c \in Conns : WF_vars(Accept(c) \/ Refuse(c)) /\ WF_vars(CloseSent(c))
  /\ WF_vars(CloserRecv \/ CloserStops)
  /\ WF_vars(SendHeartbeat)

FairSpec == Spec /\ Fairness

-----------------------------------------------------------------------------
(* Properties *)

\* Type invariant.
TypeOK ==
  /\ phase \in {"codecs", "bind", "serving", "exited"}
  /\ cancelled \in BOOLEAN
  /\ conn \in [Conns -> {"away", "backlog", "open", "ended"}]
  /\ active \in 0 .. max_connections /\ closes \in 0 .. max_connections
  /\ closer \in BOOLEAN
  /\ heartbeat \in BOOLEAN /\ registered \in BOOLEAN /\ calm \in BOOLEAN

\* The limit is kept although the counter is given back by another task: there
\* are never more than max_connections handlers, returned ones included.
LimitKept == Cardinality(In("open") \union In("ended")) <= max_connections

\* No slot is lost and none is given back twice: as long as the closer runs,
\* the counter is the number of handlers and of the messages on their way;
\* when it has gone, the counter errs on the safe side.
SlotsAccounted ==
  LET handlers == Cardinality(In("open")) + Cardinality(In("ended")) IN
  phase # "exited" =>
    /\ active >= handlers + closes
    /\ closer => active = handlers + closes

\* Without handlers, all slots come back, unless a client is accepted
\* meanwhile or the server shuts down.
SlotsReturn ==
  In("open") = {} ~> active = 0 \/ In("open") # {} \/ cancelled

\* Cancellation ends the process, also during startup, when the token is not
\* looked at, and while handlers are stuck.
CancelExits == cancelled ~> phase = "exited"

\* A zone router that runs is registered for good once RzID stops failing,
\* whatever failed before.
StaysRegistered == calm /\ ZoneMode ~> [](registered \/ phase = "exited")
=============================================================================
