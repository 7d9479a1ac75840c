-------------------------- MODULE ConnectionProofs --------------------------
(***************************************************************************)
(* Proofs about Connection, for any number of calls and shards, any size   *)
(* of the id space and any capacity of the channel and the socket.         *)
(*                                                                         *)
(* The argument has three layers, each an inductive invariant relative to  *)
(* the ones before it:                                                     *)
(*   TInv  types, and the writer task holds a frame while it writes;       *)
(*   OInv  who owns the oneshot sender of a call, and how far the two      *)
(*         fail_all loops have come;                                       *)
(*   UInv  until the counter wraps, ids are unique and a response meets    *)
(*         the waiter of its own frame.                                    *)
(***************************************************************************)
EXTENDS Connection, TLAPS

-----------------------------------------------------------------------------
(* Types *)

\* The writer task writes only frames that it took from the channel.
FrameHeld == task["writer"] \in {"check", "write"} => frame # NoCall

TInv == TypeOK /\ FrameHeld

\* TypeOK by owner of the state: what the tasks and calls share, the calls,
\* the two tasks, and the far end with the keepalive task.
SharedTypes ==
  /\ corr_id \in Ids /\ wrapped \in BOOLEAN /\ closed \in BOOLEAN
  /\ demux \in [Ids -> Calls \union {NoCall}]
  /\ queue \in Seq(Calls \union {Ping}) /\ chan_open \in BOOLEAN

CallTypes ==
  /\ pc \in [Calls -> CallStates] /\ id \in [Calls -> Ids]
  /\ slot \in [Calls -> {"empty", "ok", "closed", "dropped"}]
  /\ answer \in [Calls -> Calls \union {NoCall}]
  /\ sent \in [Calls -> BOOLEAN] /\ late \in SUBSET Calls
  /\ result \in [Calls -> {"none", "ok", "closed", "timeout", "validation"}]

TaskTypes ==
  /\ task \in [Tasks -> TaskStates]
  /\ frame \in Calls \union {NoCall, Ping}
  /\ waiter \in Calls \union {NoCall} /\ response \in Calls \union {NoCall}
  /\ shard \in [Tasks -> 0 .. NumShards] /\ drained \in [Tasks -> SUBSET Calls]

PeerTypes ==
  /\ keepalive \in {"tick", "send", "stopped"}
  /\ wire \in Seq(Calls \union {Ping}) /\ inbound \in Seq(Calls)
  /\ executed \in [Calls -> Nat] /\ answered \in SUBSET Calls
  /\ link \in {"up", "down"}

\* The four groups are TypeOK, before and after a step.
LEMMA Grouped ==
  /\ TInv <=> SharedTypes /\ CallTypes /\ TaskTypes /\ PeerTypes /\ FrameHeld
  /\ TInv' <=>
       SharedTypes' /\ CallTypes' /\ TaskTypes' /\ PeerTypes' /\ FrameHeld'
BY DEF TInv, TypeOK, SharedTypes, CallTypes, TaskTypes, PeerTypes

\* The freshly connected state has the types of TypeOK.
LEMMA TInvInit == Init => TInv
<1> SUFFICES ASSUME Init PROVE TInv
  OBVIOUS
<1>1. SharedTypes
  <2>1. queue \in Seq(Calls \union {Ping})
    BY DEF Init
  <2>2. corr_id \in Ids /\ demux \in [Ids -> Calls \union {NoCall}]
    BY ConnectionAssumption DEF Init, Ids
  <2>3. wrapped \in BOOLEAN /\ closed \in BOOLEAN /\ chan_open \in BOOLEAN
    BY DEF Init
  <2> QED
    BY <2>1, <2>2, <2>3 DEF SharedTypes
<1>2. CallTypes
  BY ConnectionAssumption DEF Init, CallTypes, CallStates, Ids
<1>3. TaskTypes /\ FrameHeld
  BY ConnectionAssumption DEF Init, TaskTypes, FrameHeld, TaskStates, Tasks
<1>4. PeerTypes
  BY DEF Init, PeerTypes
<1> QED
  BY <1>1, <1>2, <1>3, <1>4, Grouped

\* Every step of a call, a task or the hop preserves the types.
LEMMA TInvNext == TInv /\ [Next]_vars => TInv'
<1> SUFFICES ASSUME TInv, [Next]_vars PROVE TInv'
  OBVIOUS
<1> /\ SharedTypes /\ CallTypes /\ TaskTypes /\ PeerTypes /\ FrameHeld
    /\ NoCall \notin Calls /\ Ping # NoCall
  BY Grouped, ConnectionAssumption
<1> USE DEF Tasks, callVars, taskVars, peerVars
<1>1. ASSUME NEW c \in Calls, NextCorrId(c) PROVE TInv'
  <2>1. SharedTypes'
    BY <1>1, ConnectionAssumption DEF NextCorrId, SharedTypes, Ids
  <2>2. CallTypes'
    BY <1>1 DEF NextCorrId, CallTypes, SharedTypes, CallStates
  <2>3. TaskTypes' /\ PeerTypes' /\ FrameHeld'
    BY <1>1 DEF NextCorrId, TaskTypes, PeerTypes, FrameHeld
  <2> QED
    BY <2>1, <2>2, <2>3, Grouped
<1>2. ASSUME NEW c \in Calls, CheckClosed(c) PROVE TInv'
  <2>1. CallTypes'
    BY <1>2 DEF CheckClosed, Return, CallTypes, CallStates
  <2>2. SharedTypes' /\ TaskTypes' /\ PeerTypes' /\ FrameHeld'
    BY <1>2 DEF CheckClosed, SharedTypes, TaskTypes, PeerTypes, FrameHeld
  <2> QED
    BY <2>1, <2>2, Grouped
<1>3. ASSUME NEW c \in Calls, Insert(c) PROVE TInv'
  <2>1. SharedTypes'
    BY <1>3 DEF Insert, Return, SharedTypes, CallTypes, CallStates
  <2>2. CallTypes'
    BY <1>3 DEF Insert, Return, CallTypes, CallStates
  <2>3. TaskTypes' /\ PeerTypes' /\ FrameHeld'
    BY <1>3 DEF Insert, TaskTypes, PeerTypes, FrameHeld
  <2> QED
    BY <2>1, <2>2, <2>3, Grouped
<1>4. ASSUME NEW c \in Calls, TrySend(c) PROVE TInv'
  <2>1. SharedTypes'
    BY <1>4 DEF TrySend, SharedTypes
  <2>2. CallTypes'
    <3>1. sent' \in [Calls -> BOOLEAN]
      BY <1>4 DEF TrySend, CallTypes
    <3>2. pc' \in [Calls -> CallStates]
      BY <1>4 DEF TrySend, CallTypes, CallStates
    <3>3. late' \in SUBSET Calls
      BY <1>4 DEF TrySend, CallTypes
    <3> QED
      BY <1>4, <3>1, <3>2, <3>3 DEF TrySend, CallTypes
  <2>3. TaskTypes' /\ PeerTypes' /\ FrameHeld'
    BY <1>4 DEF TrySend, TaskTypes, PeerTypes, FrameHeld
  <2> QED
    BY <2>1, <2>2, <2>3, Grouped
<1>5. ASSUME NEW c \in Calls, UndoInsert(c) PROVE TInv'
  <2>1. SharedTypes'
    BY <1>5
    DEF UndoInsert, Return, RemoveOwn, SharedTypes, CallTypes, CallStates
  <2>2. CallTypes'
    BY <1>5 DEF UndoInsert, Return, RemoveOwn, CallTypes, CallStates
  <2>3. TaskTypes' /\ PeerTypes' /\ FrameHeld'
    BY <1>5 DEF UndoInsert, TaskTypes, PeerTypes, FrameHeld
  <2> QED
    BY <2>1, <2>2, <2>3, Grouped
<1>6. ASSUME NEW c \in Calls, Receive(c) PROVE TInv'
  <2>1. CallTypes'
    BY <1>6 DEF Receive, Return, CallTypes, CallStates
  <2>2. SharedTypes' /\ TaskTypes' /\ PeerTypes' /\ FrameHeld'
    BY <1>6 DEF Receive, SharedTypes, TaskTypes, PeerTypes, FrameHeld
  <2> QED
    BY <2>1, <2>2, Grouped
<1>7. ASSUME NEW c \in Calls, Timeout(c) PROVE TInv'
  <2>1. CallTypes'
    BY <1>7 DEF Timeout, CallTypes, CallStates
  <2>2. SharedTypes' /\ TaskTypes' /\ PeerTypes' /\ FrameHeld'
    BY <1>7 DEF Timeout, SharedTypes, TaskTypes, PeerTypes, FrameHeld
  <2> QED
    BY <2>1, <2>2, Grouped
<1>8. ASSUME NEW c \in Calls, TimeoutCleanup(c) PROVE TInv'
  <2>1. SharedTypes'
    BY <1>8
    DEF TimeoutCleanup, Return, RemoveOwn, SharedTypes, CallTypes, CallStates
  <2>2. CallTypes'
    BY <1>8 DEF TimeoutCleanup, Return, RemoveOwn, CallTypes, CallStates
  <2>3. TaskTypes' /\ PeerTypes' /\ FrameHeld'
    BY <1>8 DEF TimeoutCleanup, TaskTypes, PeerTypes, FrameHeld
  <2> QED
    BY <2>1, <2>2, <2>3, Grouped
<1>9. ASSUME NEW c \in Calls, PeerRespond(c) PROVE TInv'
  <2>1. PeerTypes'
    BY <1>9 DEF PeerRespond, PeerTypes
  <2>2. SharedTypes' /\ CallTypes' /\ TaskTypes' /\ FrameHeld'
    BY <1>9 DEF PeerRespond, SharedTypes, CallTypes, TaskTypes, FrameHeld
  <2> QED
    BY <2>1, <2>2, Grouped
<1>10. ASSUME NEW t \in Tasks, DrainShard(t) PROVE TInv'
  <2>1. SharedTypes'
    BY <1>10 DEF DrainShard, SharedTypes
  <2>2. TaskTypes'
    BY <1>10, ConnectionAssumption DEF DrainShard, TaskTypes
  <2>3. CallTypes' /\ PeerTypes'
    BY <1>10 DEF DrainShard, CallTypes, PeerTypes
  <2>4. FrameHeld'
    BY <1>10 DEF DrainShard, TaskTypes, TaskStates, FrameHeld
  <2> QED
    BY <2>1, <2>2, <2>3, <2>4, Grouped
<1>11. ASSUME NEW t \in Tasks, NotifyDrained(t) PROVE TInv'
  <2>1. CallTypes'
    BY <1>11 DEF NotifyDrained, CallTypes, CallStates
  <2>2. TaskTypes'
    BY <1>11 DEF NotifyDrained, TaskTypes, TaskStates
  <2>3. SharedTypes' /\ PeerTypes'
    BY <1>11 DEF NotifyDrained, SharedTypes, PeerTypes
  <2>4. FrameHeld'
    BY <1>11 DEF NotifyDrained, TaskTypes, TaskStates, FrameHeld
  <2> QED
    BY <2>1, <2>2, <2>3, <2>4, Grouped
<1>12. ASSUME Close PROVE TInv'
  <2>1. SharedTypes'
    BY <1>12 DEF Close, SharedTypes
  <2>2. CallTypes' /\ TaskTypes' /\ PeerTypes' /\ FrameHeld'
    BY <1>12 DEF Close, CallTypes, TaskTypes, PeerTypes, FrameHeld
  <2> QED
    BY <2>1, <2>2, Grouped
<1>13. ASSUME WriterRecv PROVE TInv'
  <2>1. SharedTypes'
    BY <1>13 DEF WriterRecv, SharedTypes
  <2>2. TaskTypes'
    BY <1>13 DEF WriterRecv, TaskTypes, SharedTypes, TaskStates
  <2>3. CallTypes' /\ PeerTypes'
    BY <1>13 DEF WriterRecv, CallTypes, PeerTypes
  <2>4. FrameHeld'
    BY <1>13 DEF WriterRecv, TaskTypes, TaskStates, FrameHeld, SharedTypes
  <2> QED
    BY <2>1, <2>2, <2>3, <2>4, Grouped
<1>14. ASSUME WriterWrite PROVE TInv'
  <2>1. TaskTypes'
    BY <1>14 DEF WriterWrite, TaskTypes, TaskStates
  <2>2. PeerTypes'
    <3>1. frame \in Calls \union {Ping}
      BY <1>14 DEF WriterWrite, TaskTypes, FrameHeld
    <3> QED
      BY <1>14, <3>1 DEF WriterWrite, PeerTypes
  <2>3. SharedTypes' /\ CallTypes'
    BY <1>14 DEF WriterWrite, SharedTypes, CallTypes
  <2>4. FrameHeld'
    BY <1>14 DEF WriterWrite, TaskTypes, TaskStates, FrameHeld
  <2> QED
    BY <2>1, <2>2, <2>3, <2>4, Grouped
<1>15. ASSUME WriterWriteFails PROVE TInv'
  <2>1. SharedTypes'
    BY <1>15 DEF WriterWriteFails, SharedTypes
  <2>2. TaskTypes'
    BY <1>15 DEF WriterWriteFails, TaskTypes, TaskStates
  <2>3. CallTypes' /\ PeerTypes'
    BY <1>15 DEF WriterWriteFails, CallTypes, PeerTypes
  <2>4. FrameHeld'
    BY <1>15 DEF WriterWriteFails, TaskTypes, TaskStates, FrameHeld
  <2> QED
    BY <2>1, <2>2, <2>3, <2>4, Grouped
<1>16. ASSUME WriterMarkClosed PROVE TInv'
  <2>1. SharedTypes'
    BY <1>16 DEF WriterMarkClosed, SharedTypes
  <2>2. TaskTypes'
    BY <1>16 DEF WriterMarkClosed, TaskTypes, TaskStates
  <2>3. CallTypes' /\ PeerTypes'
    BY <1>16 DEF WriterMarkClosed, CallTypes, PeerTypes
  <2>4. FrameHeld'
    BY <1>16 DEF WriterMarkClosed, TaskTypes, TaskStates, FrameHeld
  <2> QED
    BY <2>1, <2>2, <2>3, <2>4, Grouped
<1>17. ASSUME WriterExit PROVE TInv'
  <2>1. SharedTypes'
    <3>1. queue' \in Seq(Calls \union {Ping})
      BY <1>17 DEF WriterExit
    <3>2. chan_open' \in BOOLEAN
      BY <1>17 DEF WriterExit
    <3> QED
      BY <1>17, <3>1, <3>2 DEF WriterExit, SharedTypes
  <2>2. TaskTypes'
    BY <1>17 DEF WriterExit, TaskTypes, TaskStates
  <2>3. CallTypes' /\ PeerTypes'
    BY <1>17 DEF WriterExit, CallTypes, PeerTypes
  <2>4. FrameHeld'
    BY <1>17 DEF WriterExit, TaskTypes, TaskStates, FrameHeld
  <2> QED
    BY <2>1, <2>2, <2>3, <2>4, Grouped
<1>18. ASSUME ReaderTake PROVE TInv'
  <2>1. SharedTypes'
    BY <1>18 DEF ReaderTake, SharedTypes, PeerTypes, CallTypes, CallStates
  <2>2. TaskTypes'
    BY <1>18
    DEF ReaderTake, TaskTypes, SharedTypes, PeerTypes, CallTypes, CallStates,
        TaskStates
  <2>3. PeerTypes'
    BY <1>18 DEF ReaderTake, PeerTypes
  <2>4. CallTypes'
    BY <1>18 DEF ReaderTake, CallTypes
  <2>5. FrameHeld'
    BY <1>18 DEF ReaderTake, TaskTypes, TaskStates, FrameHeld
  <2> QED
    BY <2>1, <2>2, <2>3, <2>4, <2>5, Grouped
<1>19. ASSUME ReaderDeliver PROVE TInv'
  <2>1. CallTypes'
    BY <1>19 DEF ReaderDeliver, CallTypes, TaskTypes, CallStates, TaskStates
  <2>2. TaskTypes'
    BY <1>19 DEF ReaderDeliver, TaskTypes, TaskStates
  <2>3. SharedTypes' /\ PeerTypes'
    BY <1>19 DEF ReaderDeliver, SharedTypes, PeerTypes
  <2>4. FrameHeld'
    BY <1>19 DEF ReaderDeliver, TaskTypes, TaskStates, FrameHeld
  <2> QED
    BY <2>1, <2>2, <2>3, <2>4, Grouped
<1>20. ASSUME ReaderEof PROVE TInv'
  <2>1. SharedTypes'
    BY <1>20 DEF ReaderEof, SharedTypes
  <2>2. TaskTypes'
    BY <1>20 DEF ReaderEof, TaskTypes, TaskStates
  <2>3. CallTypes' /\ PeerTypes'
    BY <1>20 DEF ReaderEof, CallTypes, PeerTypes
  <2>4. FrameHeld'
    BY <1>20 DEF ReaderEof, TaskTypes, TaskStates, FrameHeld
  <2> QED
    BY <2>1, <2>2, <2>3, <2>4, Grouped
<1>21. ASSUME KeepaliveTick PROVE TInv'
  <2>1. PeerTypes'
    BY <1>21 DEF KeepaliveTick, PeerTypes
  <2>2. SharedTypes' /\ CallTypes' /\ TaskTypes' /\ FrameHeld'
    BY <1>21 DEF KeepaliveTick, SharedTypes, CallTypes, TaskTypes, FrameHeld
  <2> QED
    BY <2>1, <2>2, Grouped
<1>22. ASSUME KeepaliveSend PROVE TInv'
  <2>1. SharedTypes'
    BY <1>22 DEF KeepaliveSend, SharedTypes
  <2>2. PeerTypes'
    BY <1>22 DEF KeepaliveSend, PeerTypes
  <2>3. CallTypes' /\ TaskTypes' /\ FrameHeld'
    BY <1>22 DEF KeepaliveSend, CallTypes, TaskTypes, FrameHeld
  <2> QED
    BY <2>1, <2>2, <2>3, Grouped
<1>23. ASSUME PeerRecv PROVE TInv'
  <2>1. PeerTypes'
    BY <1>23 DEF PeerRecv, PeerTypes
  <2>2. SharedTypes' /\ CallTypes' /\ TaskTypes' /\ FrameHeld'
    BY <1>23 DEF PeerRecv, SharedTypes, CallTypes, TaskTypes, FrameHeld
  <2> QED
    BY <2>1, <2>2, Grouped
<1>24. ASSUME PeerClose PROVE TInv'
  <2>1. PeerTypes'
    BY <1>24 DEF PeerClose, PeerTypes
  <2>2. SharedTypes' /\ CallTypes' /\ TaskTypes' /\ FrameHeld'
    BY <1>24 DEF PeerClose, SharedTypes, CallTypes, TaskTypes, FrameHeld
  <2> QED
    BY <2>1, <2>2, Grouped
<1>25. ASSUME UNCHANGED vars PROVE TInv'
  BY <1>25 DEF vars, TInv, TypeOK, FrameHeld
<1>26. ASSUME WriterCheck PROVE TInv'
  <2>1. TaskTypes'
    BY <1>26 DEF WriterCheck, TaskTypes, TaskStates
  <2>2. SharedTypes' /\ CallTypes' /\ PeerTypes'
    BY <1>26 DEF WriterCheck, SharedTypes, CallTypes, PeerTypes
  <2>3. FrameHeld'
    BY <1>26 DEF WriterCheck, TaskTypes, TaskStates, FrameHeld
  <2> QED
    BY <2>1, <2>2, <2>3, Grouped
<1> QED
  BY <1>1, <1>2, <1>3, <1>4, <1>5, <1>6, <1>7, <1>8, <1>9, <1>10, <1>11,
    <1>12, <1>13, <1>14, <1>15, <1>16, <1>17, <1>18, <1>19, <1>20, <1>21,
    <1>22, <1>23, <1>24, <1>25, <1>26
  DEF Next, CallStep, WriterStep, ReaderStep, KeepaliveStep, PeerStep

\* The connection keeps its types; in particular no task indexes the demux or
\* a shard out of range and nothing but frames reaches the socket.
THEOREM TypeCorrect == Spec => []TypeOK
<1>1. TInv => TypeOK
  BY DEF TInv
<1> QED
  BY TInvInit, TInvNext, <1>1, PTL DEF Spec

-----------------------------------------------------------------------------
(* Ownership of the oneshot senders *)

\* The sender of a call is in one place at a time: not yet created, in the
\* demux, collected by one fail_all, in the reader's hands, or used up.
Exclusive ==
  \A c \in Calls :
    /\ pc[c] \in {"new", "check", "insert"} =>
         slot[c] = "empty" /\ waiter # c /\ \A t \in Tasks : c \notin drained[t]
    /\ \A i \in Ids : demux[i] = c =>
         slot[c] = "empty" /\ waiter # c /\ \A t \in Tasks : c \notin drained[t]
    /\ \A t \in Tasks : c \in drained[t] => slot[c] = "empty" /\ waiter # c
    /\ ~ (c \in drained["writer"] /\ c \in drained["reader"])
    /\ waiter = c => slot[c] = "empty"

\* The reader task holds a sender exactly while it delivers a response.
ReaderHands == waiter # NoCall <=> task["reader"] = "deliver"

\* The sender of a call that waits unanswered is somewhere.
WaiterOwned ==
  \A c \in Calls : pc[c] \in {"send", "wait"} /\ slot[c] = "empty" =>
    demux[id[c]] = c \/ waiter = c \/ \E t \in Tasks : c \in drained[t]

\* A task that has left its loop.
Failing == {"drain", "mark", "exit", "stopped"}

\* Whoever runs fail_all has seen or set the closed flag first.
ClosedFirst == \A t \in Tasks : task[t] \in Failing => closed

\* A shard that fail_all has passed holds no call that was sent in time.
ShardsBehind ==
  \A t \in Tasks :
    /\ task[t] \notin Failing => shard[t] = 0
    /\ task[t] \in Failing \ {"drain"} => shard[t] = NumShards
    /\ \A c \in Calls :
         pc[c] = "wait" /\ c \notin late /\ Shard(id[c]) < shard[t]
         => demux[id[c]] # c

OInv ==
  /\ NoLeakedEntry /\ Exclusive /\ ReaderHands /\ WaiterOwned
  /\ ClosedFirst /\ ShardsBehind

\* Demux::shard yields an index of a shard.
LEMMA ShardInRange == \A i \in Ids : Shard(i) \in 0 .. NumShards - 1
BY ConnectionAssumption DEF Ids, Shard

\* One step per action, and under it one per conjunct that it can disturb.
LEMMA OInvNext == TInv /\ OInv /\ [Next]_vars => OInv'
<1> SUFFICES ASSUME TypeOK, NoLeakedEntry, Exclusive, ReaderHands, WaiterOwned,
                    ClosedFirst, ShardsBehind, [Next]_vars
             PROVE  OInv'
  BY DEF TInv, OInv
<1> /\ demux \in [Ids -> Calls \union {NoCall}] /\ NoCall \notin Calls
    /\ pc \in [Calls -> CallStates] /\ id \in [Calls -> Ids]
    /\ slot \in [Calls -> {"empty", "ok", "closed", "dropped"}]
    /\ task \in [Tasks -> TaskStates]
    /\ waiter \in Calls \union {NoCall}
    /\ shard \in [Tasks -> 0 .. NumShards]
    /\ drained \in [Tasks -> SUBSET Calls]
    /\ late \in SUBSET Calls
    /\ inbound \in Seq(Calls)
  BY ConnectionAssumption DEF TypeOK
<1> USE DEF Tasks, callVars, taskVars, peerVars, Failing
<1>1. ASSUME NEW c \in Calls, NextCorrId(c) PROVE OInv'
  <2>1. NoLeakedEntry'
    BY <1>1 DEF NextCorrId, NoLeakedEntry
  <2>2. Exclusive'
    BY <1>1 DEF NextCorrId, Exclusive
  <2>3. WaiterOwned'
    BY <1>1 DEF NextCorrId, WaiterOwned
  <2>4. ShardsBehind'
    BY <1>1 DEF NextCorrId, ShardsBehind
  <2>5. ReaderHands' /\ ClosedFirst'
    BY <1>1 DEF NextCorrId, ReaderHands, ClosedFirst
  <2> QED
    BY <2>1, <2>2, <2>3, <2>4, <2>5 DEF OInv
<1>2. ASSUME NEW c \in Calls, CheckClosed(c) PROVE OInv'
  <2>1. NoLeakedEntry'
    BY <1>2 DEF CheckClosed, Return, NoLeakedEntry
  <2>2. Exclusive'
    BY <1>2 DEF CheckClosed, Return, Exclusive
  <2>3. WaiterOwned'
    BY <1>2 DEF CheckClosed, Return, WaiterOwned
  <2>4. ShardsBehind'
    BY <1>2 DEF CheckClosed, Return, ShardsBehind
  <2>5. ReaderHands' /\ ClosedFirst'
    BY <1>2 DEF CheckClosed, ReaderHands, ClosedFirst
  <2> QED
    BY <2>1, <2>2, <2>3, <2>4, <2>5 DEF OInv
<1>3. ASSUME NEW c \in Calls, Insert(c) PROVE OInv'
  <2>1. NoLeakedEntry'
    BY <1>3 DEF Insert, Return, NoLeakedEntry
  <2>2. Exclusive'
    BY <1>3 DEF Insert, Return, Exclusive
  <2>3. WaiterOwned'
    BY <1>3 DEF Insert, Return, WaiterOwned
  <2>4. ShardsBehind'
    <3>1. \A e \in Calls : pc'[e] = "wait" => pc[e] = "wait" /\ e # c
      BY <1>3 DEF Insert, Return
    <3>2. \A e \in Calls, i \in Ids : e # c /\ demux'[i] = e => demux[i] = e
      BY <1>3 DEF Insert, Return
    <3> QED
      BY <1>3, <3>1, <3>2 DEF Insert, ShardsBehind
  <2>5. ReaderHands' /\ ClosedFirst'
    BY <1>3 DEF Insert, ReaderHands, ClosedFirst
  <2> QED
    BY <2>1, <2>2, <2>3, <2>4, <2>5 DEF OInv
<1>4. ASSUME NEW c \in Calls, TrySend(c) PROVE OInv'
  <2>1. NoLeakedEntry'
    BY <1>4 DEF TrySend, NoLeakedEntry
  <2>2. Exclusive'
    BY <1>4 DEF TrySend, Exclusive
  <2>3. WaiterOwned'
    BY <1>4 DEF TrySend, WaiterOwned
  <2>4. ShardsBehind'
    <3>1. CASE closed
      BY <1>4, <3>1 DEF TrySend, ShardsBehind
    <3>2. CASE ~closed
      <4>1. \A t \in Tasks : shard[t] = 0
        BY <3>2 DEF ShardsBehind, ClosedFirst
      <4> QED
        BY <1>4, <4>1, ShardInRange DEF TrySend, ShardsBehind
    <3> QED
      BY <3>1, <3>2
  <2>5. ReaderHands' /\ ClosedFirst'
    BY <1>4 DEF TrySend, ReaderHands, ClosedFirst
  <2> QED
    BY <2>1, <2>2, <2>3, <2>4, <2>5 DEF OInv
<1>5. ASSUME NEW c \in Calls, UndoInsert(c) PROVE OInv'
  <2>1. NoLeakedEntry'
    BY <1>5 DEF UndoInsert, Return, RemoveOwn, NoLeakedEntry
  <2>2. Exclusive'
    BY <1>5 DEF UndoInsert, Return, RemoveOwn, Exclusive, NoLeakedEntry
  <2>3. WaiterOwned'
    BY <1>5 DEF UndoInsert, Return, RemoveOwn, WaiterOwned
  <2>4. ShardsBehind'
    BY <1>5 DEF UndoInsert, Return, RemoveOwn, ShardsBehind
  <2>5. ReaderHands' /\ ClosedFirst'
    BY <1>5 DEF UndoInsert, RemoveOwn, ReaderHands, ClosedFirst
  <2> QED
    BY <2>1, <2>2, <2>3, <2>4, <2>5 DEF OInv
<1>6. ASSUME NEW c \in Calls, Receive(c) PROVE OInv'
  <2>1. NoLeakedEntry'
    BY <1>6 DEF Receive, Return, NoLeakedEntry, Exclusive
  <2>2. Exclusive'
    BY <1>6 DEF Receive, Return, Exclusive
  <2>3. WaiterOwned'
    BY <1>6 DEF Receive, Return, WaiterOwned
  <2>4. ShardsBehind'
    BY <1>6 DEF Receive, Return, ShardsBehind
  <2>5. ReaderHands' /\ ClosedFirst'
    BY <1>6 DEF Receive, ReaderHands, ClosedFirst
  <2> QED
    BY <2>1, <2>2, <2>3, <2>4, <2>5 DEF OInv
<1>7. ASSUME NEW c \in Calls, Timeout(c) PROVE OInv'
  <2>1. NoLeakedEntry'
    BY <1>7 DEF Timeout, NoLeakedEntry
  <2>2. Exclusive'
    BY <1>7 DEF Timeout, Exclusive
  <2>3. WaiterOwned'
    BY <1>7 DEF Timeout, WaiterOwned
  <2>4. ShardsBehind'
    BY <1>7 DEF Timeout, ShardsBehind
  <2>5. ReaderHands' /\ ClosedFirst'
    BY <1>7 DEF Timeout, ReaderHands, ClosedFirst
  <2> QED
    BY <2>1, <2>2, <2>3, <2>4, <2>5 DEF OInv
<1>8. ASSUME NEW c \in Calls, TimeoutCleanup(c) PROVE OInv'
  <2>1. NoLeakedEntry'
    BY <1>8 DEF TimeoutCleanup, Return, RemoveOwn, NoLeakedEntry
  <2>2. Exclusive'
    BY <1>8 DEF TimeoutCleanup, Return, RemoveOwn, Exclusive, NoLeakedEntry
  <2>3. WaiterOwned'
    BY <1>8 DEF TimeoutCleanup, Return, RemoveOwn, WaiterOwned
  <2>4. ShardsBehind'
    BY <1>8 DEF TimeoutCleanup, Return, RemoveOwn, ShardsBehind
  <2>5. ReaderHands' /\ ClosedFirst'
    BY <1>8 DEF TimeoutCleanup, RemoveOwn, ReaderHands, ClosedFirst
  <2> QED
    BY <2>1, <2>2, <2>3, <2>4, <2>5 DEF OInv
<1>9. ASSUME NEW t \in Tasks, DrainShard(t) PROVE OInv'
  <2>1. NoLeakedEntry'
    BY <1>9 DEF DrainShard, NoLeakedEntry
  <2>2. Exclusive'
    BY <1>9 DEF DrainShard, Exclusive, NoLeakedEntry
  <2>3. WaiterOwned'
    BY <1>9 DEF DrainShard, WaiterOwned
  <2>4. ShardsBehind'
    <3>1. ASSUME NEW e \in Calls, pc[e] = "wait", e \notin late,
                 Shard(id[e]) < shard'[t]
          PROVE  demux'[id[e]] # e
      BY <1>9, <3>1, ShardInRange DEF DrainShard, ShardsBehind
    <3>2. \A e \in Calls : demux'[id[e]] = e => demux[id[e]] = e
      BY <1>9 DEF DrainShard
    <3> QED
      BY <1>9, <3>1, <3>2, ShardInRange DEF DrainShard, ShardsBehind
  <2>5. ReaderHands' /\ ClosedFirst'
    BY <1>9 DEF DrainShard, ReaderHands, ClosedFirst
  <2> QED
    BY <2>1, <2>2, <2>3, <2>4, <2>5 DEF OInv
<1>10. ASSUME NEW t \in Tasks, NotifyDrained(t) PROVE OInv'
  <2>1. Exclusive'
    BY <1>10 DEF NotifyDrained, Exclusive
  <2>2. ReaderHands'
    BY <1>10 DEF NotifyDrained, ReaderHands
  <2>3. WaiterOwned'
    BY <1>10 DEF NotifyDrained, WaiterOwned
  <2>4. ClosedFirst'
    BY <1>10 DEF NotifyDrained, ClosedFirst
  <2>5. ShardsBehind'
    BY <1>10, ShardInRange DEF NotifyDrained, ShardsBehind
  <2>6. NoLeakedEntry'
    BY <1>10 DEF NotifyDrained, NoLeakedEntry
  <2> QED
    BY <2>1, <2>2, <2>3, <2>4, <2>5, <2>6 DEF OInv
<1>11. ASSUME Close PROVE OInv'
  <2>1. ClosedFirst'
    BY <1>11 DEF Close, ClosedFirst
  <2>2. /\ NoLeakedEntry' /\ Exclusive' /\ ReaderHands'
        /\ WaiterOwned' /\ ShardsBehind'
    BY <1>11 DEF Close, NoLeakedEntry, Exclusive, ReaderHands,
      WaiterOwned, ShardsBehind
  <2> QED
    BY <2>1, <2>2 DEF OInv
<1>12. ASSUME WriterRecv PROVE OInv'
  <2>1. ReaderHands'
    BY <1>12 DEF WriterRecv, ReaderHands
  <2>2. ClosedFirst'
    BY <1>12 DEF WriterRecv, ClosedFirst
  <2>3. ShardsBehind'
    BY <1>12 DEF WriterRecv, ShardsBehind
  <2>4. NoLeakedEntry' /\ Exclusive' /\ WaiterOwned'
    BY <1>12 DEF WriterRecv, NoLeakedEntry, Exclusive, WaiterOwned
  <2> QED
    BY <2>1, <2>2, <2>3, <2>4 DEF OInv
<1>13. ASSUME WriterWrite PROVE OInv'
  <2>1. ReaderHands'
    BY <1>13 DEF WriterWrite, ReaderHands
  <2>2. ClosedFirst'
    BY <1>13 DEF WriterWrite, ClosedFirst
  <2>3. ShardsBehind'
    BY <1>13 DEF WriterWrite, ShardsBehind
  <2>4. NoLeakedEntry' /\ Exclusive' /\ WaiterOwned'
    BY <1>13 DEF WriterWrite, NoLeakedEntry, Exclusive, WaiterOwned
  <2> QED
    BY <2>1, <2>2, <2>3, <2>4 DEF OInv
<1>14. ASSUME WriterWriteFails PROVE OInv'
  <2>1. ReaderHands'
    BY <1>14 DEF WriterWriteFails, ReaderHands
  <2>2. ClosedFirst'
    BY <1>14 DEF WriterWriteFails, ClosedFirst
  <2>3. ShardsBehind'
    BY <1>14 DEF WriterWriteFails, ShardsBehind
  <2>4. NoLeakedEntry' /\ Exclusive' /\ WaiterOwned'
    BY <1>14 DEF WriterWriteFails, NoLeakedEntry, Exclusive, WaiterOwned
  <2> QED
    BY <2>1, <2>2, <2>3, <2>4 DEF OInv
<1>15. ASSUME WriterMarkClosed PROVE OInv'
  <2>1. ReaderHands'
    BY <1>15 DEF WriterMarkClosed, ReaderHands
  <2>2. ClosedFirst'
    BY <1>15 DEF WriterMarkClosed, ClosedFirst
  <2>3. ShardsBehind'
    BY <1>15 DEF WriterMarkClosed, ShardsBehind
  <2>4. NoLeakedEntry' /\ Exclusive' /\ WaiterOwned'
    BY <1>15 DEF WriterMarkClosed, NoLeakedEntry, Exclusive, WaiterOwned
  <2> QED
    BY <2>1, <2>2, <2>3, <2>4 DEF OInv
<1>16. ASSUME WriterExit PROVE OInv'
  <2>1. ReaderHands'
    BY <1>16 DEF WriterExit, ReaderHands
  <2>2. ClosedFirst'
    BY <1>16 DEF WriterExit, ClosedFirst
  <2>3. ShardsBehind'
    BY <1>16 DEF WriterExit, ShardsBehind
  <2>4. NoLeakedEntry' /\ Exclusive' /\ WaiterOwned'
    BY <1>16 DEF WriterExit, NoLeakedEntry, Exclusive, WaiterOwned
  <2> QED
    BY <2>1, <2>2, <2>3, <2>4 DEF OInv
<1>17. ASSUME ReaderTake PROVE OInv'
  <2>1. NoLeakedEntry'
    BY <1>17 DEF ReaderTake, NoLeakedEntry
  <2>2. Exclusive'
    <3>1. waiter = NoCall /\ Head(inbound) \in Calls
      BY <1>17 DEF ReaderTake, ReaderHands
    <3>2. CASE demux[id[Head(inbound)]] = NoCall
      BY <1>17, <3>1, <3>2 DEF ReaderTake, Exclusive
    <3>3. CASE demux[id[Head(inbound)]] # NoCall
      BY <1>17, <3>1, <3>3 DEF ReaderTake, Exclusive, NoLeakedEntry
    <3> QED
      BY <3>2, <3>3
  <2>3. ReaderHands'
    BY <1>17 DEF ReaderTake, ReaderHands
  <2>4. WaiterOwned'
    BY <1>17 DEF ReaderTake, WaiterOwned, ReaderHands, NoLeakedEntry
  <2>5. ClosedFirst'
    BY <1>17 DEF ReaderTake, ClosedFirst
  <2>6. ShardsBehind'
    BY <1>17 DEF ReaderTake, ShardsBehind
  <2> QED
    BY <2>1, <2>2, <2>3, <2>4, <2>5, <2>6 DEF OInv
<1>18. ASSUME ReaderDeliver PROVE OInv'
  <2>1. Exclusive'
    BY <1>18 DEF ReaderDeliver, Exclusive, ReaderHands
  <2>2. ReaderHands'
    BY <1>18 DEF ReaderDeliver, ReaderHands
  <2>3. WaiterOwned'
    BY <1>18 DEF ReaderDeliver, WaiterOwned, ReaderHands
  <2>4. ClosedFirst'
    BY <1>18 DEF ReaderDeliver, ClosedFirst
  <2>5. ShardsBehind'
    BY <1>18 DEF ReaderDeliver, ShardsBehind
  <2>6. NoLeakedEntry'
    BY <1>18 DEF ReaderDeliver, NoLeakedEntry
  <2> QED
    BY <2>1, <2>2, <2>3, <2>4, <2>5, <2>6 DEF OInv
<1>19. ASSUME ReaderEof PROVE OInv'
  <2>1. ReaderHands'
    BY <1>19 DEF ReaderEof, ReaderHands
  <2>2. ClosedFirst'
    BY <1>19 DEF ReaderEof, ClosedFirst
  <2>3. ShardsBehind'
    BY <1>19 DEF ReaderEof, ShardsBehind
  <2>4. NoLeakedEntry' /\ Exclusive' /\ WaiterOwned'
    BY <1>19 DEF ReaderEof, NoLeakedEntry, Exclusive, WaiterOwned
  <2> QED
    BY <2>1, <2>2, <2>3, <2>4 DEF OInv
<1>20. ASSUME KeepaliveStep \/ PeerStep \/ UNCHANGED vars PROVE OInv'
  <2>1. UNCHANGED <<demux, pc, id, slot, waiter, drained, task, closed, shard,
                    late>>
    BY <1>20 DEF KeepaliveStep, KeepaliveTick, KeepaliveSend, PeerStep,
      PeerRecv, PeerRespond, PeerClose, vars
  <2> QED
    BY <2>1 DEF OInv, NoLeakedEntry, Exclusive, ReaderHands, WaiterOwned,
      ClosedFirst, ShardsBehind
<1>21. ASSUME WriterCheck PROVE OInv'
  <2>1. ReaderHands'
    BY <1>21 DEF WriterCheck, ReaderHands
  <2>2. ClosedFirst'
    BY <1>21 DEF WriterCheck, ClosedFirst
  <2>3. ShardsBehind'
    BY <1>21 DEF WriterCheck, ShardsBehind
  <2>4. NoLeakedEntry' /\ Exclusive' /\ WaiterOwned'
    BY <1>21 DEF WriterCheck, NoLeakedEntry, Exclusive, WaiterOwned
  <2> QED
    BY <2>1, <2>2, <2>3, <2>4 DEF OInv
<1> HIDE DEF Tasks
<1> QED
  BY <1>1, <1>2, <1>3, <1>4, <1>5, <1>6, <1>7, <1>8, <1>9, <1>10, <1>11,
    <1>12, <1>13, <1>14, <1>15, <1>16, <1>17, <1>18, <1>19, <1>20,
    <1>21
  DEF Next, CallStep, WriterStep, ReaderStep, Tasks

\* Nothing is owned, and no task has failed, on a fresh connection.
LEMMA OInvInit == Init => OInv
BY ConnectionAssumption
   DEF Init, OInv, NoLeakedEntry, Exclusive, ReaderHands, WaiterOwned,
       ClosedFirst, ShardsBehind, Failing, Tasks, Ids

\* TInv and OInv are invariants of the connection.
THEOREM Ownership == Spec => [](TInv /\ OInv)
BY TInvInit, TInvNext, OInvInit, OInvNext, PTL DEF Spec

\* The demux never leaks an entry, however calls end.
THEOREM DemuxClean == Spec => []NoLeakedEntry
<1>1. OInv => NoLeakedEntry
  BY DEF OInv
<1> QED
  BY Ownership, <1>1, PTL

\* A call sent before the connection was marked closed is notified by the
\* first fail_all that completes: its sender was in a shard ahead of it.
THEOREM EarlyNotified == Spec => []EarlyCallsNotified
<1>1. TInv /\ OInv => EarlyCallsNotified
  <2> SUFFICES ASSUME TInv, OInv, NEW c \in Calls,
                      pc[c] = "wait", slot[c] = "empty", c \notin late,
                      NEW t \in Tasks, task[t] \in {"mark", "exit", "stopped"}
               PROVE  waiter = c \/ \E u \in Tasks : c \in drained[u]
    BY DEF EarlyCallsNotified
  <2>1. shard[t] = NumShards
    BY DEF OInv, ShardsBehind, Failing
  <2>2. id[c] \in Ids
    BY DEF TInv, TypeOK
  <2>3. Shard(id[c]) < NumShards
    BY <2>2, ShardInRange, ConnectionAssumption
  <2>4. demux[id[c]] # c
    BY <2>1, <2>3 DEF OInv, ShardsBehind
  <2> QED
    BY <2>4 DEF OInv, WaiterOwned
<1> QED
  BY Ownership, <1>1, PTL

-----------------------------------------------------------------------------
(* Correlation ids, until the counter wraps *)

\* Only frames of calls that have an id are anywhere on their way.
InFlight ==
  /\ \A k \in DOMAIN queue : queue[k] \in Calls => pc[queue[k]] # "new"
  /\ frame \in Calls => pc[frame] # "new"
  /\ \A k \in DOMAIN wire : wire[k] \in Calls => pc[wire[k]] # "new"
  /\ \A c \in Calls : executed[c] > 0 => pc[c] # "new"
  /\ \A k \in DOMAIN inbound : pc[inbound[k]] # "new"

\* The calls that have an id have different ones, all below the counter.
IdsFresh ==
  ~wrapped =>
    /\ \A c \in Calls : pc[c] # "new" => id[c] < corr_id
    /\ \A c, d \in Calls :
         pc[c] # "new" /\ pc[d] # "new" /\ id[c] = id[d] => c = d

\* The reader delivers a response to the call whose frame it answers.
Matched == ~wrapped => waiter = response

UInv ==
  InFlight /\ IdsFresh /\ Matched /\ NoCrossDelivery /\ SenderNotDropped

\* What Append adds to a sequence.
LEMMA AppendElements ==
  ASSUME NEW S, NEW s \in Seq(S), NEW x \in S
  PROVE  \A k \in DOMAIN Append(s, x) :
           Append(s, x)[k] = x \/ (k \in DOMAIN s /\ Append(s, x)[k] = s[k])
OBVIOUS

\* What Tail leaves of a sequence.
LEMMA TailElements ==
  ASSUME NEW S, NEW s \in Seq(S), s # <<>>
  PROVE  /\ Head(s) = s[1] /\ 1 \in DOMAIN s
         /\ \A k \in DOMAIN Tail(s) : k + 1 \in DOMAIN s /\ Tail(s)[k] = s[k + 1]
OBVIOUS

\* One step per action; the senders' places are known from OInv.
LEMMA UInvNext == TInv /\ OInv /\ UInv /\ [Next]_vars => UInv'
<1> SUFFICES ASSUME TypeOK, FrameHeld, NoLeakedEntry, ReaderHands, InFlight,
                    IdsFresh, Matched, NoCrossDelivery, SenderNotDropped,
                    [Next]_vars
             PROVE  UInv'
  BY DEF TInv, OInv, UInv
<1> /\ demux \in [Ids -> Calls \union {NoCall}]
    /\ NoCall \notin Calls /\ Ping \notin Calls
    /\ pc \in [Calls -> CallStates] /\ id \in [Calls -> Ids]
    /\ slot \in [Calls -> {"empty", "ok", "closed", "dropped"}]
    /\ answer \in [Calls -> Calls \union {NoCall}]
    /\ waiter \in Calls \union {NoCall}
    /\ queue \in Seq(Calls \union {Ping}) /\ wire \in Seq(Calls \union {Ping})
    /\ frame \in Calls \union {NoCall, Ping}
    /\ inbound \in Seq(Calls)
    /\ executed \in [Calls -> Nat]
  BY ConnectionAssumption DEF TypeOK
<1> USE DEF callVars, taskVars, peerVars
<1>1. ASSUME NEW c \in Calls, NextCorrId(c) PROVE UInv'
  <2>1. InFlight'
    BY <1>1 DEF NextCorrId, InFlight
  <2>2. IdsFresh'
    <3> corr_id \in Nat /\ \A e \in Calls : id[e] \in Nat
      BY ConnectionAssumption DEF TypeOK, Ids
    <3> SUFFICES ASSUME ~wrapped'
                 PROVE  /\ \A e \in Calls : pc'[e] # "new" => id'[e] < corr_id'
                        /\ \A e, f \in Calls : /\ pc'[e] # "new" /\ pc'[f] # "new"
                                               /\ id'[e] = id'[f]
                                               => e = f
      BY DEF IdsFresh
    <3>1. ~wrapped /\ corr_id' = corr_id + 1
      BY <1>1 DEF NextCorrId
    <3>2. \A e \in Calls : pc[e] # "new" => id[e] < corr_id
      BY <3>1 DEF IdsFresh
    <3>3. \A e \in Calls : e # c => pc'[e] = pc[e] /\ id'[e] = id[e]
      BY <1>1 DEF NextCorrId
    <3>4. pc'[c] # "new" => id'[c] = corr_id
      BY <1>1 DEF NextCorrId
    <3>5. ASSUME NEW e \in Calls, pc'[e] # "new" PROVE id'[e] < corr_id'
      <4>1. CASE e = c
        BY <3>1, <3>4, <3>5, <4>1
      <4>2. CASE e # c
        BY <3>1, <3>2, <3>3, <3>5, <4>2
      <4> QED
        BY <4>1, <4>2
    <3>6. ASSUME NEW e \in Calls, NEW f \in Calls, pc'[e] # "new", pc'[f] # "new",
                 id'[e] = id'[f]
          PROVE  e = f
      <4>1. CASE e # c /\ f # c
        BY <3>1, <3>3, <3>6, <4>1 DEF IdsFresh
      <4>2. CASE e = c \/ f = c
        BY <3>2, <3>3, <3>4, <3>6, <4>2
      <4> QED
        BY <4>1, <4>2
    <3> QED
      BY <3>5, <3>6
  <2>3. Matched'
    BY <1>1 DEF NextCorrId, Matched
  <2>4. NoCrossDelivery'
    BY <1>1 DEF NextCorrId, NoCrossDelivery
  <2>5. SenderNotDropped'
    BY <1>1 DEF NextCorrId, SenderNotDropped
  <2> QED
    BY <2>1, <2>2, <2>3, <2>4, <2>5 DEF UInv
<1>2. ASSUME NEW c \in Calls, CheckClosed(c) PROVE UInv'
  <2>1. InFlight'
    BY <1>2 DEF CheckClosed, Return, InFlight
  <2>2. IdsFresh'
    BY <1>2 DEF CheckClosed, Return, IdsFresh
  <2>3. Matched' /\ NoCrossDelivery' /\ SenderNotDropped'
    BY <1>2 DEF CheckClosed, Matched, NoCrossDelivery, SenderNotDropped
  <2> QED
    BY <2>1, <2>2, <2>3 DEF UInv
<1>3. ASSUME NEW c \in Calls, Insert(c) PROVE UInv'
  <2>1. InFlight'
    BY <1>3 DEF Insert, Return, InFlight
  <2>2. IdsFresh'
    BY <1>3 DEF Insert, Return, IdsFresh
  <2>3. Matched' /\ NoCrossDelivery' /\ SenderNotDropped'
    BY <1>3 DEF Insert, Matched, NoCrossDelivery, SenderNotDropped
  <2> QED
    BY <2>1, <2>2, <2>3 DEF UInv
<1>4. ASSUME NEW c \in Calls, TrySend(c) PROVE UInv'
  <2>1. InFlight'
    <3>1. \A e \in Calls : pc[e] # "new" => pc'[e] # "new"
      BY <1>4 DEF TrySend
    <3>2. \A k \in DOMAIN queue' : queue'[k] \in Calls => pc'[queue'[k]] # "new"
      <4>1. CASE queue' = Append(queue, c)
        <5>1. \A k \in DOMAIN queue' :
              queue'[k] = c \/ (k \in DOMAIN queue /\ queue'[k] = queue[k])
          BY <4>1, AppendElements
        <5>2. pc'[c] # "new"
          BY <1>4 DEF TrySend
        <5> QED
          BY <3>1, <5>1, <5>2 DEF InFlight
      <4>2. CASE queue' = queue
        BY <3>1, <4>2 DEF InFlight
      <4> QED
        BY <1>4, <4>1, <4>2 DEF TrySend
    <3> QED
      BY <1>4, <3>1, <3>2 DEF TrySend, InFlight
  <2>2. IdsFresh'
    BY <1>4 DEF TrySend, IdsFresh
  <2>3. Matched' /\ NoCrossDelivery' /\ SenderNotDropped'
    BY <1>4 DEF TrySend, Matched, NoCrossDelivery, SenderNotDropped
  <2> QED
    BY <2>1, <2>2, <2>3 DEF UInv
<1>5. ASSUME NEW c \in Calls, UndoInsert(c) PROVE UInv'
  <2>1. InFlight'
    BY <1>5 DEF UndoInsert, Return, RemoveOwn, InFlight
  <2>2. IdsFresh'
    BY <1>5 DEF UndoInsert, Return, RemoveOwn, IdsFresh
  <2>3. NoCrossDelivery'
    BY <1>5 DEF UndoInsert, Return, RemoveOwn, NoCrossDelivery
  <2>4. SenderNotDropped'
    <3>1. ASSUME ~wrapped, NEW e \in Calls, demux[id[c]] = e PROVE e = c
      <4>1. id[e] = id[c] /\ pc[e] # "new"
        BY <3>1 DEF NoLeakedEntry
      <4>2. pc[c] # "new"
        BY <1>5 DEF UndoInsert
      <4> QED
        BY <3>1, <4>1, <4>2 DEF IdsFresh
    <3> QED
      BY <1>5, <3>1 DEF UndoInsert, RemoveOwn, SenderNotDropped
  <2>5. Matched'
    BY <1>5 DEF UndoInsert, RemoveOwn, Matched
  <2> QED
    BY <2>1, <2>2, <2>3, <2>4, <2>5 DEF UInv
<1>6. ASSUME NEW c \in Calls, Receive(c) PROVE UInv'
  <2>1. InFlight'
    BY <1>6 DEF Receive, Return, InFlight
  <2>2. IdsFresh'
    BY <1>6 DEF Receive, Return, IdsFresh
  <2>3. Matched' /\ NoCrossDelivery' /\ SenderNotDropped'
    BY <1>6 DEF Receive, Matched, NoCrossDelivery, SenderNotDropped
  <2> QED
    BY <2>1, <2>2, <2>3 DEF UInv
<1>7. ASSUME NEW c \in Calls, Timeout(c) PROVE UInv'
  <2>1. InFlight'
    BY <1>7 DEF Timeout, InFlight
  <2>2. IdsFresh'
    BY <1>7 DEF Timeout, IdsFresh
  <2>3. Matched' /\ NoCrossDelivery' /\ SenderNotDropped'
    BY <1>7 DEF Timeout, Matched, NoCrossDelivery, SenderNotDropped
  <2> QED
    BY <2>1, <2>2, <2>3 DEF UInv
<1>8. ASSUME NEW c \in Calls, TimeoutCleanup(c) PROVE UInv'
  <2>1. InFlight'
    BY <1>8 DEF TimeoutCleanup, Return, RemoveOwn, InFlight
  <2>2. IdsFresh'
    BY <1>8 DEF TimeoutCleanup, Return, RemoveOwn, IdsFresh
  <2>3. NoCrossDelivery'
    BY <1>8 DEF TimeoutCleanup, Return, RemoveOwn, NoCrossDelivery
  <2>4. SenderNotDropped'
    <3>1. ASSUME ~wrapped, NEW e \in Calls, demux[id[c]] = e PROVE e = c
      <4>1. id[e] = id[c] /\ pc[e] # "new"
        BY <3>1 DEF NoLeakedEntry
      <4>2. pc[c] # "new"
        BY <1>8 DEF TimeoutCleanup
      <4> QED
        BY <3>1, <4>1, <4>2 DEF IdsFresh
    <3> QED
      BY <1>8, <3>1 DEF TimeoutCleanup, RemoveOwn, SenderNotDropped
  <2>5. Matched'
    BY <1>8 DEF TimeoutCleanup, RemoveOwn, Matched
  <2> QED
    BY <2>1, <2>2, <2>3, <2>4, <2>5 DEF UInv
<1>9. ASSUME NEW c \in Calls, PeerRespond(c) PROVE UInv'
  <2>1. InFlight'
    BY <1>9 DEF PeerRespond, InFlight
  <2>2. IdsFresh' /\ Matched' /\ NoCrossDelivery' /\ SenderNotDropped'
    BY <1>9 DEF PeerRespond, IdsFresh, Matched, NoCrossDelivery,
      SenderNotDropped
  <2> QED
    BY <2>1, <2>2 DEF UInv
<1>10. ASSUME NEW t \in Tasks, NotifyDrained(t) PROVE UInv'
  <2>1. NoCrossDelivery'
    BY <1>10 DEF NotifyDrained, NoCrossDelivery
  <2>2. SenderNotDropped'
    BY <1>10 DEF NotifyDrained, SenderNotDropped
  <2>3. InFlight' /\ IdsFresh' /\ Matched'
    BY <1>10 DEF NotifyDrained, InFlight, IdsFresh, Matched
  <2> QED
    BY <2>1, <2>2, <2>3 DEF UInv
<1>11. ASSUME WriterRecv PROVE UInv'
  <2>1. InFlight'
    <3>1. UNCHANGED <<wire, executed, inbound, pc>>
      BY <1>11 DEF WriterRecv
    <3>2. /\ frame' = queue[1] /\ 1 \in DOMAIN queue
          /\ \A k \in DOMAIN queue' :
               k + 1 \in DOMAIN queue /\ queue'[k] = queue[k + 1]
      BY <1>11, TailElements DEF WriterRecv
    <3> QED
      BY <3>1, <3>2 DEF InFlight
  <2>2. IdsFresh' /\ Matched' /\ NoCrossDelivery' /\ SenderNotDropped'
    BY <1>11 DEF WriterRecv, IdsFresh, Matched, NoCrossDelivery,
      SenderNotDropped
  <2> QED
    BY <2>1, <2>2 DEF UInv
<1>12. ASSUME WriterWrite PROVE UInv'
  <2>1. InFlight'
    BY <1>12 DEF WriterWrite, InFlight
  <2>2. IdsFresh' /\ Matched' /\ NoCrossDelivery' /\ SenderNotDropped'
    BY <1>12 DEF WriterWrite, IdsFresh, Matched, NoCrossDelivery,
      SenderNotDropped
  <2> QED
    BY <2>1, <2>2 DEF UInv
<1>13. ASSUME WriterWriteFails PROVE UInv'
  <2>1. InFlight'
    BY <1>13 DEF WriterWriteFails, InFlight
  <2>2. IdsFresh' /\ Matched' /\ NoCrossDelivery' /\ SenderNotDropped'
    BY <1>13 DEF WriterWriteFails, IdsFresh, Matched, NoCrossDelivery,
      SenderNotDropped
  <2> QED
    BY <2>1, <2>2 DEF UInv
<1>14. ASSUME WriterExit PROVE UInv'
  <2>1. InFlight'
    BY <1>14 DEF WriterExit, InFlight
  <2>2. IdsFresh' /\ Matched' /\ NoCrossDelivery' /\ SenderNotDropped'
    BY <1>14 DEF WriterExit, IdsFresh, Matched, NoCrossDelivery,
      SenderNotDropped
  <2> QED
    BY <2>1, <2>2 DEF UInv
<1>15. ASSUME ReaderTake PROVE UInv'
  <2>1. InFlight'
    <3>1. UNCHANGED <<queue, frame, wire, executed, pc>>
      BY <1>15 DEF ReaderTake
    <3>2. \A k \in DOMAIN inbound' :
            k + 1 \in DOMAIN inbound /\ inbound'[k] = inbound[k + 1]
      BY <1>15, TailElements DEF ReaderTake
    <3> QED
      BY <3>1, <3>2 DEF InFlight
  <2>2. Matched'
    <3> DEFINE h == Head(inbound)
               e == demux[id[h]]
    <3>1. h \in Calls /\ pc[h] # "new" /\ waiter = NoCall
      BY <1>15 DEF ReaderTake, InFlight, ReaderHands
    <3>2. CASE e = NoCall
      BY <1>15, <3>2 DEF ReaderTake, Matched
    <3>3. CASE e # NoCall
      <4>1. e \in Calls /\ id[e] = id[h] /\ pc[e] # "new"
        <5>1. demux \in [Ids -> Calls \union {NoCall}] /\ id[h] \in Ids
          BY <3>1
        <5>2. e \in Calls
          BY <3>3, <5>1
        <5>3. id[e] = id[h] /\ pc[e] \in {"send", "undo", "wait", "expired"}
          BY <3>3, <5>1 DEF NoLeakedEntry
        <5> QED
          BY <5>2, <5>3
      <4>2. ~wrapped => e = h
        BY <3>1, <4>1 DEF IdsFresh
      <4> QED
        BY <1>15, <3>3, <4>2 DEF ReaderTake, Matched
    <3> QED
      BY <3>2, <3>3
  <2>3. IdsFresh' /\ NoCrossDelivery' /\ SenderNotDropped'
    BY <1>15 DEF ReaderTake, IdsFresh, NoCrossDelivery, SenderNotDropped
  <2> QED
    BY <2>1, <2>2, <2>3 DEF UInv
<1>16. ASSUME ReaderDeliver PROVE UInv'
  <2>1. Matched'
    BY <1>16 DEF ReaderDeliver, Matched
  <2>2. NoCrossDelivery'
    BY <1>16 DEF ReaderDeliver, NoCrossDelivery, Matched, ReaderHands
  <2>3. SenderNotDropped'
    BY <1>16 DEF ReaderDeliver, SenderNotDropped
  <2>4. InFlight' /\ IdsFresh'
    BY <1>16 DEF ReaderDeliver, InFlight, IdsFresh
  <2> QED
    BY <2>1, <2>2, <2>3, <2>4 DEF UInv
<1>17. ASSUME KeepaliveSend PROVE UInv'
  <2>1. InFlight'
    <3>1. CASE queue' = Append(queue, Ping)
      <4>1. \A k \in DOMAIN queue' :
            queue'[k] = Ping \/ (k \in DOMAIN queue /\ queue'[k] = queue[k])
        BY <3>1, AppendElements
      <4> QED
        BY <1>17, <4>1 DEF KeepaliveSend, InFlight
    <3>2. CASE queue' = queue
      BY <1>17, <3>2 DEF KeepaliveSend, InFlight
    <3> QED
      BY <1>17, <3>1, <3>2 DEF KeepaliveSend
  <2>2. IdsFresh' /\ Matched' /\ NoCrossDelivery' /\ SenderNotDropped'
    BY <1>17 DEF KeepaliveSend, IdsFresh, Matched, NoCrossDelivery,
      SenderNotDropped
  <2> QED
    BY <2>1, <2>2 DEF UInv
<1>18. ASSUME PeerRecv PROVE UInv'
  <2>1. InFlight'
    <3>1. UNCHANGED <<queue, frame, inbound, pc>>
      BY <1>18 DEF PeerRecv
    <3>2. /\ Head(wire) = wire[1] /\ 1 \in DOMAIN wire
          /\ \A k \in DOMAIN wire' :
               k + 1 \in DOMAIN wire /\ wire'[k] = wire[k + 1]
      BY <1>18, TailElements DEF PeerRecv
    <3>3. \A c \in Calls : executed'[c] > 0 =>
            executed[c] > 0 \/ Head(wire) = c
      BY <1>18 DEF PeerRecv
    <3> QED
      BY <3>1, <3>2, <3>3 DEF InFlight
  <2>2. IdsFresh' /\ Matched' /\ NoCrossDelivery' /\ SenderNotDropped'
    BY <1>18 DEF PeerRecv, IdsFresh, Matched, NoCrossDelivery,
      SenderNotDropped
  <2> QED
    BY <2>1, <2>2 DEF UInv
<1>19. ASSUME \/ \E t \in Tasks : DrainShard(t)
              \/ Close \/ WriterMarkClosed \/ ReaderEof
              \/ KeepaliveTick \/ PeerClose
            \/ UNCHANGED vars
      PROVE UInv'
  <2>1. UNCHANGED <<queue, frame, wire, executed, inbound, pc, wrapped, id,
                    corr_id, waiter, response, slot, answer>>
    BY <1>19 DEF DrainShard, Close, WriterMarkClosed, ReaderEof,
      KeepaliveTick, PeerClose, vars
  <2> QED
    BY <2>1 DEF UInv, InFlight, IdsFresh, Matched, NoCrossDelivery,
      SenderNotDropped
<1>20. ASSUME WriterCheck PROVE UInv'
  <2>1. InFlight'
    BY <1>20 DEF WriterCheck, InFlight
  <2>2. IdsFresh' /\ Matched' /\ NoCrossDelivery' /\ SenderNotDropped'
    BY <1>20 DEF WriterCheck, IdsFresh, Matched, NoCrossDelivery,
      SenderNotDropped
  <2> QED
    BY <2>1, <2>2 DEF UInv
<1> QED
  BY <1>1, <1>2, <1>3, <1>4, <1>5, <1>6, <1>7, <1>8, <1>9, <1>10, <1>11,
    <1>12, <1>13, <1>14, <1>15, <1>16, <1>17, <1>18, <1>19, <1>20
  DEF Next, CallStep, WriterStep, ReaderStep, KeepaliveStep, PeerStep, Tasks

\* Nothing is in flight on a fresh connection.
LEMMA UInvInit == Init => UInv
BY ConnectionAssumption
   DEF Init, UInv, InFlight, IdsFresh, Matched, NoCrossDelivery,
       SenderNotDropped

\* Until the counter wraps, a response reaches the call it belongs to.
THEOREM Delivery == Spec => []NoCrossDelivery
<1>1. UInv => NoCrossDelivery
  BY DEF UInv
<1> QED
  BY Ownership, UInvInit, UInvNext, <1>1, PTL DEF Spec

\* Until the counter wraps, no call loses its sender to another call.
THEOREM SendersKept == Spec => []SenderNotDropped
<1>1. UInv => SenderNotDropped
  BY DEF UInv
<1> QED
  BY Ownership, UInvInit, UInvNext, <1>1, PTL DEF Spec
=============================================================================
