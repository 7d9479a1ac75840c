----------------------------- MODULE Forwarder -----------------------------
(***************************************************************************)
(* Forwarder::forward, src/src/forwarder.rs: the hot path of a request     *)
(* that has a next hop.  It walks the hops of the segment from a starting  *)
(* point given by the client's correlation id, up to MaxRetries times, and *)
(* issues one send_and_wait per hop it can reach.                          *)
(*                                                                         *)
(* Every send_and_wait is a call of the abstract specification             *)
(* SendAndWait, which Connection implements.  Routing snapshots, the hop   *)
(* registry and the health of connections change under the forwarder's     *)
(* feet; they are changed here by unconstrained actions of the refresh and *)
(* maintenance tasks.                                                      *)
(***************************************************************************)
EXTENDS Naturals, Sequences, FiniteSets

CONSTANTS
  Requests,      \* forwarded client frames
  Hops,          \* hop ids
  Slots,         \* connections of a hop's ConnectionSet
  MaxRetries,    \* 3 in Forwarder::new
  Clrids,        \* correlation ids clients choose (original_clrid)
  NoConn         \* no connection picked

ASSUME ForwarderAssumption ==
  /\ MaxRetries \in Nat \ {0}
  /\ Clrids \subseteq Nat
  /\ IsFiniteSet(Hops)
  /\ NoConn \notin Hops \X Slots

MaxHops == Cardinality(Hops)

\* What RoutingSnapshot::lookup can return: a list of distinct hop ids, empty
\* for an unknown segment.
Routes == {s \in UNION {[1 .. n -> Hops] : n \in 0 .. MaxHops} :
             \A i, j \in DOMAIN s : s[i] = s[j] => i = j}

Conns == Hops \X Slots

\* One call per request, attempt and position in the hop list.
CallIds == Requests \X (0 .. MaxRetries - 1) \X (0 .. MaxHops - 1)

VARIABLES
  route,         \* routing.load().lookup(segment)
  live,          \* connections HopManager::get and next_connection can return:
                 \* of a registered hop, and not marked closed
  kind,          \* "local" (GETSEGMENTS, __codecs__), "read" or "write"
  clrid,         \* original_clrid of the client's frame
  pc,            \* where forward is
  attempt,       \* the outer loop's counter
  snapshot,      \* hop_ids of the current attempt
  i,             \* the inner loop's counter
  conn,          \* the connection next_connection returned
  request_sent,
  outcome,       \* what forward returned
  target,        \* history: target[c]: the connection call c was made on
  phase, sent, executed, result    \* of SendAndWait

callVars == <<phase, sent, executed, result>>
envVars == <<route, live>>
inputVars == <<kind, clrid>>
vars == <<envVars, inputVars, pc, attempt, snapshot, i, conn, request_sent,
          outcome, target, callVars>>

SW == INSTANCE SendAndWait WITH Calls <- CallIds

Init ==
  /\ route \in Routes
  /\ live \in SUBSET Conns
  /\ kind \in [Requests -> {"local", "read", "write"}]
  /\ clrid \in [Requests -> Clrids]
  /\ pc = [q \in Requests |-> "enter"]
  /\ attempt = [q \in Requests |-> 0]
  /\ snapshot = [q \in Requests |-> <<>>]
  /\ i = [q \in Requests |-> 0]
  /\ conn = [q \in Requests |-> NoConn]
  /\ request_sent = [q \in Requests |-> FALSE]
  /\ outcome = [q \in Requests |-> "none"]
  /\ target = [c \in CallIds |-> NoConn]
  /\ SW!Init

-----------------------------------------------------------------------------
Goto(q, label) == pc' = [pc EXCEPT ![q] = label]

Finish(q, res) ==
  /\ Goto(q, "done")
  /\ outcome' = [outcome EXCEPT ![q] = res]

\* The inner loop goes on with the next hop.
NextHop(q) ==
  /\ i' = [i EXCEPT ![q] = @ + 1]
  /\ Goto(q, "hop")

\* GETSEGMENTS and __codecs__ are answered from the router's own state.
AnswerLocally(q) ==
  /\ pc[q] = "enter" /\ kind[q] = "local"
  /\ Finish(q, "ok")
  /\ UNCHANGED <<envVars, inputVars, attempt, snapshot, i, conn, request_sent,
                 target, callVars>>

\* Head of an attempt: load the snapshot and look the segment up.
LoadSnapshot(q) ==
  /\ pc[q] = "load" \/ (pc[q] = "enter" /\ kind[q] # "local")
  /\ IF route = <<>>
     THEN /\ Finish(q, "unknown_segment")
          /\ UNCHANGED <<snapshot, i>>
     ELSE /\ snapshot' = [snapshot EXCEPT ![q] = route]
          /\ i' = [i EXCEPT ![q] = 0]
          /\ Goto(q, "hop")
          /\ UNCHANGED outcome
  /\ UNCHANGED <<envVars, inputVars, attempt, conn, request_sent, target,
                 callVars>>

\* Mutant: the loop counter is left out.
HopAtStart(q) ==
  snapshot[q][(clrid[q] % Len(snapshot[q])) + 1]

\* The i-th hop tried: start_idx is original_clrid modulo the list's length.
HopAt(q) ==
  LET n == Len(snapshot[q])
  IN  snapshot[q][(((clrid[q] % n) + i[q]) % n) + 1]

\* The connections that ConnectionSet::pick may return, by its cursor.
pick(h) == {k \in live : k[1] = h}

\* HopManager::get and Hop::next_connection: a hop that has been retired, or
\* has no connection left (its address is then resolved in the background),
\* is passed over.
PickConnection(q) ==
  /\ pc[q] = "hop" /\ i[q] < Len(snapshot[q])
  /\ \/ /\ \E k \in pick(HopAt(q)) : conn' = [conn EXCEPT ![q] = k]
        /\ Goto(q, "picked")
        /\ UNCHANGED i
     \/ /\ pick(HopAt(q)) = {}
        /\ NextHop(q)
        /\ UNCHANGED conn
  /\ UNCHANGED <<envVars, inputVars, attempt, snapshot, request_sent, outcome,
                 target, callVars>>

CallOf(q) == <<q, attempt[q], i[q]>>

\* is_closed, next_corr_id, and the call of send_and_wait.
SendRequest(q) ==
  /\ pc[q] = "picked"
  /\ IF conn[q] \in live
     THEN /\ SW!Begin(CallOf(q))
          /\ target' = [target EXCEPT ![CallOf(q)] = conn[q]]
          /\ Goto(q, "call")
          /\ UNCHANGED i
     ELSE /\ NextHop(q)
          /\ UNCHANGED <<callVars, target>>
  /\ UNCHANGED <<envVars, inputVars, attempt, snapshot, conn, request_sent,
                 outcome>>

\* Ok(response): the client's clrid is restored and forward returns.
OnResponse(q) ==
  /\ pc[q] = "call"
  /\ SW!Return(CallOf(q), "ok")
  /\ Finish(q, "ok")
  /\ UNCHANGED <<envVars, inputVars, attempt, snapshot, i, conn, request_sent,
                 target>>

\* Err(ConnectionClosed): close the connection and try the next hop, for
\* reads and writes alike.
OnConnectionClosed(q) ==
  /\ pc[q] = "call"
  /\ SW!Return(CallOf(q), "closed")
  /\ live' = live \ {conn[q]}
  /\ NextHop(q)
  /\ UNCHANGED <<route, inputVars, attempt, snapshot, conn,
                 request_sent, outcome, target>>

\* Mutant: a write that was sent is tried on the next hop.
OnOtherErrorRetried(q) ==
  /\ pc[q] = "call"
  /\ \E res \in {"timeout", "validation"} : SW!Return(CallOf(q), res)
  /\ request_sent' = [request_sent EXCEPT ![q] = TRUE]
  /\ live' = live \ {conn[q]}
  /\ NextHop(q)
  /\ UNCHANGED <<route, inputVars, attempt, snapshot, conn, outcome, target>>

\* Mutant: a read gives up like a write.
OnOtherErrorGivesUp(q) ==
  /\ pc[q] = "call"
  /\ \E res \in {"timeout", "validation"} : SW!Return(CallOf(q), res)
  /\ request_sent' = [request_sent EXCEPT ![q] = TRUE]
  /\ Finish(q, "timeout")
  /\ UNCHANGED <<envVars, inputVars, attempt, snapshot, i, conn, target>>

\* Any other error: a write gives up, a read closes the connection and goes on.
OnOtherError(q) ==
  /\ pc[q] = "call"
  /\ \E res \in {"timeout", "validation"} : SW!Return(CallOf(q), res)
  /\ request_sent' = [request_sent EXCEPT ![q] = TRUE]
  /\ IF kind[q] = "write"
     THEN /\ Finish(q, "timeout")
          /\ UNCHANGED <<live, i>>
     ELSE /\ live' = live \ {conn[q]}
          /\ NextHop(q)
          /\ UNCHANGED outcome
  /\ UNCHANGED <<route, inputVars, attempt, snapshot, conn, target>>

\* Mutant: one attempt too many.
EndAttemptOneMore(q) ==
  /\ pc[q] = "hop" /\ i[q] = Len(snapshot[q])
  /\ IF attempt[q] = MaxRetries
     THEN Finish(q, "network") /\ UNCHANGED attempt
     ELSE /\ attempt' = [attempt EXCEPT ![q] = @ + 1]
          /\ Goto(q, "load")
          /\ UNCHANGED outcome
  /\ UNCHANGED <<envVars, inputVars, snapshot, i, conn, request_sent, target,
                 callVars>>

\* Mutant: attempts are not counted.
EndAttemptUncounted(q) ==
  /\ pc[q] = "hop" /\ i[q] = Len(snapshot[q])
  /\ Goto(q, "load")
  /\ UNCHANGED <<envVars, inputVars, attempt, snapshot, i, conn, request_sent,
                 outcome, target, callVars>>

\* No hop worked in this attempt: give up, or sleep and go round again.
EndAttempt(q) ==
  /\ pc[q] = "hop" /\ i[q] = Len(snapshot[q])
  /\ IF kind[q] = "write" /\ request_sent[q]
     THEN Finish(q, "timeout") /\ UNCHANGED attempt
     ELSE IF attempt[q] = MaxRetries - 1
          THEN Finish(q, "network") /\ UNCHANGED attempt
          ELSE /\ attempt' = [attempt EXCEPT ![q] = @ + 1]
               /\ Goto(q, "load")
               /\ UNCHANGED outcome
  /\ UNCHANGED <<envVars, inputVars, snapshot, i, conn, request_sent, target,
                 callVars>>

-----------------------------------------------------------------------------
(* The rest of the router, and the hops. *)

\* The connection accepts a frame; the hop executes an accepted frame, maybe
\* after the call has been given up.
ConnectionStep ==
  /\ \E c \in CallIds : SW!Accept(c) \/ SW!Execute(c)
  /\ UNCHANGED <<envVars, inputVars, pc, attempt, snapshot, i, conn,
                 request_sent, outcome, target>>

\* run_refresh_task: routing.store publishes a snapshot.
RefreshStep ==
  /\ route' \in Routes \ {route}
  /\ UNCHANGED <<live, inputVars, pc, attempt, snapshot, i, conn,
                 request_sent, outcome, target, callVars>>

\* Connections die and maintenance_tick replaces them; retire_unused and
\* get_or_create change the registry of hops, one connection at a time.
MaintenanceStep ==
  /\ \E k \in Conns :
       live' = IF k \in live THEN live \ {k} ELSE live \union {k}
  /\ UNCHANGED <<route, inputVars, pc, attempt, snapshot, i, conn,
                 request_sent, outcome, target, callVars>>

ForwardStep(q) ==
  \/ AnswerLocally(q) \/ LoadSnapshot(q) \/ PickConnection(q)
  \/ SendRequest(q) \/ OnResponse(q) \/ OnConnectionClosed(q)
  \/ OnOtherError(q) \/ EndAttempt(q)

Next ==
  \/ \E q \in Requests : ForwardStep(q)
  \/ ConnectionStep
  \/ RefreshStep
  \/ MaintenanceStep

Spec == Init /\ [][Next]_vars

\* forward is polled, and every call of send_and_wait returns (CallsReturn of
\* Connection); nothing is assumed of the environment.
FairSpec == Spec /\ \A q \in Requests : WF_vars(ForwardStep(q))

-----------------------------------------------------------------------------
(* Properties *)

Begun(q) == {c \in CallIds : c[1] = q /\ phase[c] # "idle"}

Executions(q) == {c \in CallIds : c[1] = q /\ executed[c] = 1}

\* c was made before d by the same request.
Earlier(c, d) ==
  c[1] = d[1] /\ (c[2] < d[2] \/ (c[2] = d[2] /\ c[3] < d[3]))

\* Type invariant of the forwarder's own state.
TypeOK ==
  /\ route \in Routes /\ live \subseteq Conns
  /\ pc \in [Requests -> {"enter", "load", "hop", "picked", "call", "done"}]
  /\ attempt \in [Requests -> 0 .. MaxRetries - 1]
  /\ snapshot \in [Requests -> Routes]
  /\ i \in [Requests -> 0 .. MaxHops]
  /\ conn \in [Requests -> Conns \union {NoConn}]
  /\ request_sent \in [Requests -> BOOLEAN]
  /\ outcome \in [Requests ->
       {"none", "ok", "unknown_segment", "network", "timeout"}]
  /\ target \in [CallIds -> Conns \union {NoConn}]
  /\ phase \in [CallIds -> {"idle", "open", "done"}]
  /\ sent \in [CallIds -> BOOLEAN]
  /\ executed \in [CallIds -> 0 .. 1]
  /\ result \in [CallIds -> SW!Results \union {"none"}]

\* A write is issued again only after ConnectionClosed: a timeout, or an id
\* collision, on any hop of any attempt ends the request for good.
WriteRetriedOnlyAfterClose ==
  \A q \in Requests : kind[q] = "write" =>
    \A c, d \in Begun(q) : Earlier(c, d) => result[c] = "closed"

\* The client is told the truth: ok means that a call returned a response,
\* timeout that the last call of a write ended without one, network error that
\* every attempt was used and no call returned a response.
OutcomeExplained ==
  \A q \in {r \in Requests : kind[r] # "local"} :
    LET calls == Begun(q)
        answered == {c \in calls : result[c] = "ok"}
    IN  /\ outcome[q] = "ok" <=> answered # {}
        /\ outcome[q] = "timeout" =>
             /\ kind[q] = "write"
             /\ \E c \in calls : result[c] \in {"timeout", "validation"}
        /\ outcome[q] = "network" => attempt[q] = MaxRetries - 1
        /\ outcome[q] # "none" => \A c \in calls : phase[c] = "done"

\* Within one attempt no hop is asked twice, although the walk starts anywhere
\* in the list and wraps around.
HopAskedOncePerAttempt ==
  \A c, d \in CallIds :
    /\ c[1] = d[1] /\ c[2] = d[2] /\ c[3] # d[3]
    /\ phase[c] # "idle" /\ phase[d] # "idle"
    => target[c][1] # target[d][1]

\* forward always returns, however often connections die, hops are retired
\* and snapshots change while it retries.
ForwardReturns == \A q \in Requests : <>(pc[q] = "done")

\* "write request failed after send, NOT retrying": a write is executed by
\* the hops at most once.
WriteExecutedOnce ==
  \A q \in Requests : kind[q] = "write" => Cardinality(Executions(q)) <= 1
=============================================================================
