----------------------------- MODULE Connection -----------------------------
(***************************************************************************)
(* One persistent TCP connection to a hop: src/src/connection.rs with its  *)
(* demultiplexer, src/src/demux.rs.                                        *)
(*                                                                         *)
(* Processes: any number of concurrent send_and_wait calls (one per        *)
(* forwarded frame), the writer task, the reader task and the keepalive    *)
(* task, all running on a multi-threaded runtime.  A step ends at every    *)
(* await and at every atomic access that another task can observe.  The    *)
(* hop at the other end of the socket is external.                         *)
(*                                                                         *)
(* A frame is represented by the call it was built for (its clrid is       *)
(* id[call]); a response by the call whose frame the hop answers.          *)
(***************************************************************************)
EXTENDS Naturals, Sequences

CONSTANTS
  Calls,       \* the send_and_wait calls made over the connection's life
  NoCall,      \* the absence of a waiter
  Ping,        \* the keepalive frame, which has no waiter
  IdSpace,     \* number of values of the u32 correlation id (2^32)
  NumShards,   \* shards of the demux (64)
  QueueCap,    \* capacity of the channel to the writer task
  SocketCap    \* frames the socket's send buffer holds

ASSUME ConnectionAssumption ==
  /\ NoCall \notin Calls /\ Ping \notin Calls /\ Ping # NoCall
  /\ IdSpace \in Nat /\ IdSpace > 1
  /\ NumShards \in Nat \ {0}
  /\ QueueCap \in Nat \ {0}
  /\ SocketCap \in Nat \ {0}

Ids == 0 .. IdSpace - 1
Tasks == {"writer", "reader"}

VARIABLES
  corr_id,     \* AtomicU32: the next value fetch_add returns
  wrapped,     \* history: corr_id has passed its largest value
  demux,       \* demux[i]: the call waiting for correlation id i, or NoCall
  closed,      \* AtomicBool
  queue,       \* frames in the mpsc channel
  chan_open,   \* the writer task still holds the channel's receiver
  pc,          \* pc[c]: where call c is inside send_and_wait
  id,          \* id[c]: the correlation id given to call c (new_clrid)
  slot,        \* slot[c]: the oneshot channel of call c
  answer,      \* answer[c]: history: whose response was put in slot[c]
  sent,        \* history: sent[c]: the channel accepted c's frame
  late,        \* history: calls whose frame it accepted after closed was set
  result,      \* what call c returned
  task,        \* task[t]: where the writer and the reader task are
  frame,       \* the frame the writer task has taken from the channel
  waiter,      \* the call whose oneshot sender the reader task holds
  response,    \* the response the reader task is delivering
  shard,       \* shard[t]: next shard t's fail_all drains
  drained,     \* drained[t]: waiters t's fail_all has collected
  keepalive,   \* where the keepalive task is
  wire,        \* frames written to the socket, not yet read by the hop
  inbound,     \* responses on their way back
  executed,    \* executed[c]: how often the hop has executed c's frame
  answered,    \* calls the hop has answered
  link         \* "up", or "down" once the peer closed or the network failed

callVars == <<pc, id, slot, answer, sent, late, result>>
taskVars == <<task, frame, waiter, response, shard, drained>>
peerVars == <<wire, inbound, executed, answered, link>>
vars == <<corr_id, wrapped, demux, closed, queue, chan_open, callVars,
          taskVars, keepalive, peerVars>>

-----------------------------------------------------------------------------
(* Connection::connect: the tasks are spawned on a fresh socket; there is  *)
(* no keepalive task when the configured interval is zero.                 *)

Init ==
  /\ corr_id = 1
  /\ wrapped = FALSE
  /\ demux = [i \in Ids |-> NoCall]
  /\ closed = FALSE
  /\ queue = <<>>
  /\ chan_open = TRUE
  /\ pc = [c \in Calls |-> "new"]
  /\ id = [c \in Calls |-> 0]
  /\ slot = [c \in Calls |-> "empty"]
  /\ answer = [c \in Calls |-> NoCall]
  /\ sent = [c \in Calls |-> FALSE]
  /\ late = {}
  /\ result = [c \in Calls |-> "none"]
  /\ task = [t \in Tasks |-> IF t = "writer" THEN "recv" ELSE "read"]
  /\ frame = NoCall
  /\ waiter = NoCall
  /\ response = NoCall
  /\ shard = [t \in Tasks |-> 0]
  /\ drained = [t \in Tasks |-> {}]
  /\ keepalive \in {"tick", "stopped"}
  /\ wire = <<>>
  /\ inbound = <<>>
  /\ executed = [c \in Calls |-> 0]
  /\ answered = {}
  /\ link = "up"

-----------------------------------------------------------------------------
(* send_and_wait, one action per await or atomic access. *)

\* Mutant: the counter is read and not advanced.
NextCorrIdStale(c) ==
  /\ pc[c] = "new"
  /\ id' = [id EXCEPT ![c] = corr_id]
  /\ pc' = [pc EXCEPT ![c] = "check"]
  /\ UNCHANGED <<corr_id, wrapped, demux, closed, queue, chan_open, slot,
                 answer, sent, late, result, taskVars, keepalive, peerVars>>

\* next_corr_id: fetch_add wraps; 0 is skipped by going round the loop.
NextCorrId(c) ==
  /\ pc[c] = "new"
  /\ corr_id' = IF corr_id = IdSpace - 1 THEN 0 ELSE corr_id + 1
  /\ wrapped' = (wrapped \/ corr_id = IdSpace - 1)
  /\ IF corr_id = 0
     THEN UNCHANGED <<pc, id>>
     ELSE /\ id' = [id EXCEPT ![c] = corr_id]
          /\ pc' = [pc EXCEPT ![c] = "check"]
  /\ UNCHANGED <<demux, closed, queue, chan_open, slot, answer, sent, late,
                 result, taskVars, keepalive, peerVars>>

Return(c, res) ==
  /\ pc' = [pc EXCEPT ![c] = "done"]
  /\ result' = [result EXCEPT ![c] = res]

\* The early return on a connection already closed.
CheckClosed(c) ==
  /\ pc[c] = "check"
  /\ IF closed
     THEN Return(c, "closed")
     ELSE /\ pc' = [pc EXCEPT ![c] = "insert"]
          /\ UNCHANGED result
  /\ UNCHANGED <<corr_id, wrapped, demux, closed, queue, chan_open, id, slot,
                 answer, sent, late, taskVars, keepalive, peerVars>>

\* Demux::insert, atomic under the shard's lock.
Insert(c) ==
  /\ pc[c] = "insert"
  /\ IF demux[id[c]] # NoCall
     THEN /\ Return(c, "validation")
          /\ UNCHANGED demux
     ELSE /\ demux' = [demux EXCEPT ![id[c]] = c]
          /\ pc' = [pc EXCEPT ![c] = "send"]
          /\ UNCHANGED result
  /\ UNCHANGED <<corr_id, wrapped, closed, queue, chan_open, id, slot, answer,
                 sent, late, taskVars, keepalive, peerVars>>

\* try_send fails when the receiver is gone and also when the channel is full.
TrySend(c) ==
  /\ pc[c] = "send"
  /\ IF chan_open /\ Len(queue) < QueueCap
     THEN /\ queue' = Append(queue, c)
          /\ sent' = [sent EXCEPT ![c] = TRUE]
          /\ late' = IF closed THEN late \union {c} ELSE late
          /\ pc' = [pc EXCEPT ![c] = "wait"]
     ELSE /\ pc' = [pc EXCEPT ![c] = "undo"]
          /\ UNCHANGED <<queue, sent, late>>
  /\ UNCHANGED <<corr_id, wrapped, demux, closed, chan_open, id, slot, answer,
                 result, taskVars, keepalive, peerVars>>

\* Demux::remove by the caller: whatever waiter has c's id is dropped, and a
\* dropped oneshot sender is noticed by the call that waits on it.
RemoveOwn(c) ==
  /\ demux' = [demux EXCEPT ![id[c]] = NoCall]
  /\ slot' = [d \in Calls |-> IF d = demux[id[c]] /\ d # c
                              THEN "dropped" ELSE slot[d]]

\* Mutant: the failed send leaves its waiter registered.
UndoInsertLeak(c) ==
  /\ pc[c] = "undo"
  /\ Return(c, "closed")
  /\ UNCHANGED <<corr_id, wrapped, demux, closed, queue, chan_open, id, slot,
                 answer, sent, late, taskVars, keepalive, peerVars>>

UndoInsert(c) ==
  /\ pc[c] = "undo"
  /\ RemoveOwn(c)
  /\ Return(c, "closed")
  /\ UNCHANGED <<corr_id, wrapped, closed, queue, chan_open, id, answer, sent,
                 late, taskVars, keepalive, peerVars>>

\* The oneshot is ready: a response, a demux error, or a dropped sender.
Receive(c) ==
  /\ pc[c] = "wait" /\ slot[c] # "empty"
  /\ Return(c, IF slot[c] = "ok" THEN "ok" ELSE "closed")
  /\ UNCHANGED <<corr_id, wrapped, demux, closed, queue, chan_open, id, slot,
                 answer, sent, late, taskVars, keepalive, peerVars>>

\* Mutant: the oneshot is awaited without a timeout once the channel is closed.
TimeoutMissing(c) ==
  /\ chan_open
  /\ pc[c] = "wait" /\ slot[c] = "empty"
  /\ pc' = [pc EXCEPT ![c] = "expired"]
  /\ UNCHANGED <<corr_id, wrapped, demux, closed, queue, chan_open, id, slot,
                 answer, sent, late, result, taskVars, keepalive, peerVars>>

\* tokio's timeout polls the oneshot first: it expires only while that is empty.
Timeout(c) ==
  /\ pc[c] = "wait" /\ slot[c] = "empty"
  /\ pc' = [pc EXCEPT ![c] = "expired"]
  /\ UNCHANGED <<corr_id, wrapped, demux, closed, queue, chan_open, id, slot,
                 answer, sent, late, result, taskVars, keepalive, peerVars>>

TimeoutCleanup(c) ==
  /\ pc[c] = "expired"
  /\ RemoveOwn(c)
  /\ Return(c, "timeout")
  /\ UNCHANGED <<corr_id, wrapped, closed, queue, chan_open, id, answer, sent,
                 late, taskVars, keepalive, peerVars>>

\* Connection::close, called by the forwarder and by Hop::shutdown; Drop does
\* the same store.
Close ==
  /\ ~closed
  /\ closed' = TRUE
  /\ UNCHANGED <<corr_id, wrapped, demux, queue, chan_open, callVars, taskVars,
                 keepalive, peerVars>>

-----------------------------------------------------------------------------
(* Demux::fail_all, run by either task: drain shard by shard, then notify. *)

Shard(i) == i % NumShards

\* Mutant: one shard too many.
DrainShardPastEnd(t) ==
  /\ task[t] = "drain" /\ shard[t] <= NumShards
  /\ drained' = [drained EXCEPT ![t] = @ \union
        {c \in Calls : \E i \in Ids : Shard(i) = shard[t] /\ demux[i] = c}]
  /\ demux' = [i \in Ids |-> IF Shard(i) = shard[t] THEN NoCall ELSE demux[i]]
  /\ shard' = [shard EXCEPT ![t] = @ + 1]
  /\ UNCHANGED <<corr_id, wrapped, closed, queue, chan_open, callVars, task,
                 frame, waiter, response, keepalive, peerVars>>

DrainShard(t) ==
  /\ task[t] = "drain" /\ shard[t] < NumShards
  /\ drained' = [drained EXCEPT ![t] = @ \union
        {c \in Calls : \E i \in Ids : Shard(i) = shard[t] /\ demux[i] = c}]
  /\ demux' = [i \in Ids |-> IF Shard(i) = shard[t] THEN NoCall ELSE demux[i]]
  /\ shard' = [shard EXCEPT ![t] = @ + 1]
  /\ UNCHANGED <<corr_id, wrapped, closed, queue, chan_open, callVars, task,
                 frame, waiter, response, keepalive, peerVars>>

\* The reader task returns after fail_all; the writer still stores closed.
NotifyDrained(t) ==
  /\ task[t] = "drain" /\ shard[t] = NumShards
  /\ slot' = [c \in Calls |-> IF c \in drained[t] THEN "closed" ELSE slot[c]]
  /\ drained' = [drained EXCEPT ![t] = {}]
  /\ task' = [task EXCEPT ![t] = IF t = "writer" THEN "mark" ELSE "stopped"]
  /\ UNCHANGED <<corr_id, wrapped, demux, closed, queue, chan_open, pc, id,
                 answer, sent, late, result, frame, waiter, response, shard,
                 keepalive, peerVars>>

-----------------------------------------------------------------------------
(* writer_task.  rx.recv() never yields None: the task's own Arc of the    *)
(* connection holds a sender of the channel.                               *)

\* Mutant: the frame is looked at and stays in the channel.
WriterRecvPeek ==
  /\ task["writer"] = "recv" /\ queue # <<>>
  /\ frame' = Head(queue)
  /\ task' = [task EXCEPT !["writer"] = "check"]
  /\ UNCHANGED <<corr_id, wrapped, demux, closed, queue, chan_open, callVars,
                 waiter, response, shard, drained, keepalive, peerVars>>

\* Taking the frame frees its place in the channel before the flag is read.
WriterRecv ==
  /\ task["writer"] = "recv" /\ queue # <<>>
  /\ queue' = Tail(queue)
  /\ frame' = Head(queue)
  /\ task' = [task EXCEPT !["writer"] = "check"]
  /\ UNCHANGED <<corr_id, wrapped, demux, closed, chan_open, callVars, waiter,
                 response, shard, drained, keepalive, peerVars>>

\* Mutant: the flag is not looked at.
WriterCheckSkipped ==
  /\ task["writer"] = "check"
  /\ task' = [task EXCEPT !["writer"] = "write"]
  /\ UNCHANGED <<corr_id, wrapped, demux, closed, queue, chan_open, callVars,
                 frame, waiter, response, shard, drained, keepalive, peerVars>>

\* The frame taken from the channel of a closed connection is dropped.
WriterCheck ==
  /\ task["writer"] = "check"
  /\ IF closed
     THEN /\ task' = [task EXCEPT !["writer"] = "drain"]
          /\ frame' = NoCall
     ELSE /\ task' = [task EXCEPT !["writer"] = "write"]
          /\ UNCHANGED frame
  /\ UNCHANGED <<corr_id, wrapped, demux, closed, queue, chan_open, callVars,
                 waiter, response, shard, drained, keepalive, peerVars>>

\* write_all and flush: wait for room in the socket's send buffer.
WriterWrite ==
  /\ task["writer"] = "write" /\ Len(wire) < SocketCap
  /\ wire' = Append(wire, frame)
  /\ frame' = NoCall
  /\ task' = [task EXCEPT !["writer"] = "recv"]
  /\ UNCHANGED <<corr_id, wrapped, demux, closed, queue, chan_open, callVars,
                 waiter, response, shard, drained, keepalive, inbound,
                 executed, answered, link>>

\* Mutant: a failed write returns without fail_all.
WriterWriteFailsSilently ==
  /\ task["writer"] = "write" /\ link = "down"
  /\ closed' = TRUE
  /\ frame' = NoCall
  /\ task' = [task EXCEPT !["writer"] = "exit"]
  /\ UNCHANGED <<corr_id, wrapped, demux, queue, chan_open, callVars, waiter,
                 response, shard, drained, keepalive, peerVars>>

WriterWriteFails ==
  /\ task["writer"] = "write" /\ link = "down"
  /\ closed' = TRUE
  /\ frame' = NoCall
  /\ task' = [task EXCEPT !["writer"] = "drain"]
  /\ UNCHANGED <<corr_id, wrapped, demux, queue, chan_open, callVars, waiter,
                 response, shard, drained, keepalive, peerVars>>

WriterMarkClosed ==
  /\ task["writer"] = "mark"
  /\ closed' = TRUE
  /\ task' = [task EXCEPT !["writer"] = "exit"]
  /\ UNCHANGED <<corr_id, wrapped, demux, queue, chan_open, callVars, frame,
                 waiter, response, shard, drained, keepalive, peerVars>>

\* Returning drops the channel's receiver with everything still in it, and
\* the socket's write half, which the hop sees as end of file.
WriterExit ==
  /\ task["writer"] = "exit"
  /\ chan_open' = FALSE
  /\ queue' = <<>>
  /\ task' = [task EXCEPT !["writer"] = "stopped"]
  /\ UNCHANGED <<corr_id, wrapped, demux, closed, callVars, frame, waiter,
                 response, shard, drained, keepalive, peerVars>>

-----------------------------------------------------------------------------
(* reader_task *)

\* A complete frame was read: take the waiter of its clrid out of the demux;
\* without one the frame is dropped.
ReaderTake ==
  /\ task["reader"] = "read" /\ inbound # <<>>
  /\ inbound' = Tail(inbound)
  /\ LET i == id[Head(inbound)]
     IN  /\ demux' = [demux EXCEPT ![i] = NoCall]
         /\ IF demux[i] = NoCall
            THEN UNCHANGED <<task, waiter, response>>
            ELSE /\ waiter' = demux[i]
                 /\ response' = Head(inbound)
                 /\ task' = [task EXCEPT !["reader"] = "deliver"]
  /\ UNCHANGED <<corr_id, wrapped, closed, queue, chan_open, callVars, frame,
                 shard, drained, keepalive, wire, executed, answered, link>>

\* tx.send; ignored when the call has stopped listening.
ReaderDeliver ==
  /\ task["reader"] = "deliver"
  /\ slot' = [slot EXCEPT ![waiter] = "ok"]
  /\ answer' = [answer EXCEPT ![waiter] = response]
  /\ waiter' = NoCall
  /\ response' = NoCall
  /\ task' = [task EXCEPT !["reader"] = "read"]
  /\ UNCHANGED <<corr_id, wrapped, demux, closed, queue, chan_open, pc, id,
                 sent, late, result, frame, shard, drained, keepalive, peerVars>>

\* Mutant: fail_all without marking the connection closed.
ReaderEofUnmarked ==
  /\ task["reader"] = "read" /\ link = "down"
  /\ task' = [task EXCEPT !["reader"] = "drain"]
  /\ UNCHANGED <<corr_id, wrapped, demux, closed, queue, chan_open, callVars,
                 frame, waiter, response, shard, drained, keepalive, peerVars>>

\* End of file or a read error, with or without a partial frame in the buffer.
ReaderEof ==
  /\ task["reader"] = "read" /\ link = "down"
  /\ closed' = TRUE
  /\ task' = [task EXCEPT !["reader"] = "drain"]
  /\ UNCHANGED <<corr_id, wrapped, demux, queue, chan_open, callVars, frame,
                 waiter, response, shard, drained, keepalive, peerVars>>

-----------------------------------------------------------------------------
(* The keepalive task spawned by connect. *)

KeepaliveTick ==
  /\ keepalive = "tick"
  /\ keepalive' = IF closed THEN "stopped" ELSE "send"
  /\ UNCHANGED <<corr_id, wrapped, demux, closed, queue, chan_open, callVars,
                 taskVars, peerVars>>

\* send().await waits for room and fails once the receiver is gone.
KeepaliveSend ==
  /\ keepalive = "send"
  /\ \/ /\ chan_open /\ Len(queue) < QueueCap
        /\ queue' = Append(queue, Ping)
        /\ keepalive' = "tick"
     \/ /\ ~chan_open
        /\ keepalive' = "stopped"
        /\ UNCHANGED queue
  /\ UNCHANGED <<corr_id, wrapped, demux, closed, chan_open, callVars,
                 taskVars, peerVars>>

-----------------------------------------------------------------------------
(* The hop at the other end (external): it executes the frames it reads,   *)
(* answers each at most once and in any order, and may go away at any time.*)

PeerRecv ==
  /\ link = "up" /\ wire # <<>>
  /\ wire' = Tail(wire)
  /\ executed' = IF Head(wire) \in Calls
                 THEN [executed EXCEPT ![Head(wire)] = @ + 1]
                 ELSE executed
  /\ UNCHANGED <<corr_id, wrapped, demux, closed, queue, chan_open, callVars,
                 taskVars, keepalive, inbound, answered, link>>

PeerRespond(c) ==
  /\ link = "up" /\ executed[c] > 0 /\ c \notin answered
  /\ answered' = answered \union {c}
  /\ inbound' = Append(inbound, c)
  /\ UNCHANGED <<corr_id, wrapped, demux, closed, queue, chan_open, callVars,
                 taskVars, keepalive, wire, executed, link>>

PeerClose ==
  /\ link = "up"
  /\ link' = "down"
  /\ UNCHANGED <<corr_id, wrapped, demux, closed, queue, chan_open, callVars,
                 taskVars, keepalive, wire, inbound, executed, answered>>

-----------------------------------------------------------------------------
CallStep(c) ==
  \/ CheckClosed(c) \/ Insert(c) \/ TrySend(c) \/ UndoInsert(c)
  \/ Receive(c) \/ Timeout(c) \/ TimeoutCleanup(c)

WriterStep ==
  \/ WriterRecv \/ WriterCheck \/ WriterWrite \/ WriterWriteFails
  \/ WriterMarkClosed \/ WriterExit \/ DrainShard("writer") \/ NotifyDrained("writer")

ReaderStep ==
  \/ ReaderTake \/ ReaderDeliver \/ ReaderEof
  \/ DrainShard("reader") \/ NotifyDrained("reader")

KeepaliveStep == KeepaliveTick \/ KeepaliveSend

PeerStep == PeerRecv \/ (\E c \in Calls : PeerRespond(c)) \/ PeerClose

Next ==
  \/ \E c \in Calls : NextCorrId(c) \/ CallStep(c)
  \/ Close
  \/ WriterStep
  \/ ReaderStep
  \/ KeepaliveStep
  \/ PeerStep

Spec == Init /\ [][Next]_vars

\* The runtime polls every ready task and its timers fire; a hop that reads
\* end of file closes its side.  Nothing is assumed of who starts a call, of
\* who calls close, or of a hop's answers.
Fairness ==
  /\ \A c \in Calls : WF_vars(CallStep(c))
  /\ WF_vars(WriterStep)
  /\ WF_vars(ReaderStep)
  /\ WF_vars(KeepaliveStep)
  /\ WF_vars(PeerClose /\ task["writer"] = "stopped")

FairSpec == Spec /\ Fairness

-----------------------------------------------------------------------------
(* Properties *)

CallStates ==
  {"new", "check", "insert", "send", "undo", "wait", "expired", "done"}
TaskStates ==
  {"recv", "check", "write", "drain", "mark", "exit", "read", "deliver",
   "stopped"}

\* Type invariant: the state of the connection, its calls, tasks and socket.
TypeOK ==
  /\ corr_id \in Ids
  /\ wrapped \in BOOLEAN
  /\ demux \in [Ids -> Calls \union {NoCall}]
  /\ closed \in BOOLEAN
  /\ queue \in Seq(Calls \union {Ping})
  /\ chan_open \in BOOLEAN
  /\ pc \in [Calls -> CallStates]
  /\ id \in [Calls -> Ids]
  /\ slot \in [Calls -> {"empty", "ok", "closed", "dropped"}]
  /\ answer \in [Calls -> Calls \union {NoCall}]
  /\ sent \in [Calls -> BOOLEAN]
  /\ late \in SUBSET Calls
  /\ result \in [Calls -> {"none", "ok", "closed", "timeout", "validation"}]
  /\ task \in [Tasks -> TaskStates]
  /\ frame \in Calls \union {NoCall, Ping}
  /\ waiter \in Calls \union {NoCall}
  /\ response \in Calls \union {NoCall}
  /\ shard \in [Tasks -> 0 .. NumShards]
  /\ drained \in [Tasks -> SUBSET Calls]
  /\ keepalive \in {"tick", "send", "stopped"}
  /\ wire \in Seq(Calls \union {Ping})
  /\ inbound \in Seq(Calls)
  /\ executed \in [Calls -> Nat]
  /\ answered \in SUBSET Calls
  /\ link \in {"up", "down"}

\* Once a task has finished its fail_all, every call whose frame was accepted
\* before the connection was marked closed has been notified, or its sender is
\* in the hands of a task that is about to notify it: such a call never sits
\* out its timeout on a dead connection.  It holds although calls insert
\* themselves while the two tasks drain the demux shard by shard.
EarlyCallsNotified ==
  \A c \in Calls :
    /\ pc[c] = "wait" /\ slot[c] = "empty" /\ c \notin late
    /\ \E t \in Tasks : task[t] \in {"mark", "exit", "stopped"}
    => waiter = c \/ \E t \in Tasks : c \in drained[t]

\* The demux does not leak: every entry belongs to a call that is still inside
\* send_and_wait and sits under that call's own id, whichever way calls end.
NoLeakedEntry ==
  \A i \in Ids : demux[i] # NoCall =>
    /\ id[demux[i]] = i
    /\ pc[demux[i]] \in {"send", "undo", "wait", "expired"}

\* Until the 32-bit counter wraps, a call that returns a response returns the
\* response to its own frame, however late responses and timeouts race.
NoCrossDelivery ==
  ~wrapped => \A c \in Calls : slot[c] = "ok" => answer[c] = c

\* Until the counter wraps, no call sees its sender dropped: the branch that
\* send_and_wait comments "shouldn't happen if demux cleanup works" is dead.
SenderNotDropped ==
  ~wrapped => \A c \in Calls : slot[c] # "dropped"

\* The writer task blocks in recv() and sees the closed flag only with the next
\* frame; but then it fails the pending calls and ends, and gives up its half
\* of the socket, whatever the hop does.
ClosedWriterStops ==
  closed /\ task["writer"] = "recv" /\ queue # <<>> ~> task["writer"] = "stopped"

\* Every call returns, whatever the hop, the tasks and close() do.
CallsReturn == \A c \in Calls : pc[c] = "check" ~> pc[c] = "done"

\* A hop that goes away is noticed: the connection is marked closed, so that
\* next_connection stops picking it.
PeerCloseNoticed == link = "down" ~> closed

Phase(c) ==
  CASE pc[c] = "new" -> "idle"
    [] pc[c] = "done" -> "done"
    [] OTHER -> "open"

SW == INSTANCE SendAndWait WITH phase <- [c \in Calls |-> Phase(c)]

\* Until the 32-bit counter wraps, every step of the connection is a step of
\* the abstract send_and_wait or leaves its state alone: at most one execution
\* per call, "ok" only for an executed frame, "validation" only for a frame
\* that will never be executed.  After the wrap a late response can be taken
\* for that of a frame not yet executed.
ImplementsSendAndWait ==
  SW!Init /\ [][SW!Next \/ wrapped']_(SW!vars)
=============================================================================
