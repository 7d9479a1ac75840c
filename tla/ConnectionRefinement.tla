------------------------ MODULE ConnectionRefinement ------------------------
(***************************************************************************)
(* Connection implements SendAndWait until its counter wraps, for any      *)
(* number of calls, ids, shards and any capacities: every step maps to a   *)
(* step of the abstract specification or to a stutter.  The invariant of   *)
(* this module follows a frame from try_send to the hop, and its response  *)
(* back; ConnectionProofs contributes the types and that the response is   *)
(* the call's own.                                                         *)
(***************************************************************************)
EXTENDS ConnectionProofs

-----------------------------------------------------------------------------
(* The way of a frame *)

\* The channel has accepted the frames of exactly the calls that wait or have
\* waited for a response.
SentStates ==
  \A c \in Calls :
    /\ sent[c] => pc[c] \in {"wait", "expired", "done"}
    /\ pc[c] \in {"wait", "expired"} => sent[c]

\* A frame is in one place: in the channel, with the writer task, on the wire,
\* or executed; and before it is sent, nowhere.
ExecutedOnce ==
  \A c \in Calls : executed[c] \in 0 .. 1 /\ (executed[c] > 0 => sent[c])

QueuedOnce ==
  \A k \in DOMAIN queue : queue[k] \in Calls =>
    /\ sent[queue[k]] /\ executed[queue[k]] = 0
    /\ frame # queue[k]
    /\ \A j \in DOMAIN wire : wire[j] # queue[k]
    /\ \A j \in DOMAIN queue : queue[j] = queue[k] => j = k

FrameOnce ==
  frame \in Calls =>
    /\ sent[frame] /\ executed[frame] = 0
    /\ \A j \in DOMAIN wire : wire[j] # frame

WiredOnce ==
  \A k \in DOMAIN wire : wire[k] \in Calls =>
    /\ sent[wire[k]] /\ executed[wire[k]] = 0
    /\ \A j \in DOMAIN wire : wire[j] = wire[k] => j = k

\* Only executed frames are answered, on the whole way back.
Answers ==
  /\ \A k \in DOMAIN inbound : executed[inbound[k]] > 0
  /\ task["reader"] = "deliver" => response \in Calls /\ executed[response] > 0
  /\ \A c \in Calls : slot[c] = "ok" =>
       answer[c] \in Calls /\ executed[answer[c]] > 0

EInv ==
  /\ SentStates
  /\ ExecutedOnce /\ QueuedOnce /\ FrameOnce /\ WiredOnce
  /\ Answers

\* Where the elements of a sequence are after an Append.
LEMMA AppendPlaces ==
  ASSUME NEW S, NEW s \in Seq(S), NEW x \in S
  PROVE  \A k \in DOMAIN Append(s, x) :
           \/ k = Len(s) + 1 /\ Append(s, x)[k] = x
           \/ k \in DOMAIN s /\ Append(s, x)[k] = s[k]
OBVIOUS

\* Where the elements of a sequence were before Tail.
LEMMA TailPlaces ==
  ASSUME NEW S, NEW s \in Seq(S), s # <<>>
  PROVE  /\ 1 \in DOMAIN s /\ Head(s) = s[1] /\ Head(s) \in S
         /\ \A k \in DOMAIN Tail(s) :
              /\ k + 1 \in DOMAIN s /\ k + 1 # 1 /\ k \in Nat
              /\ Tail(s)[k] = s[k + 1]
OBVIOUS

\* No frame is anywhere on a fresh connection.
LEMMA EInvInit == Init => EInv
BY ConnectionAssumption
   DEF Init, EInv, SentStates, ExecutedOnce, QueuedOnce, FrameOnce, WiredOnce,
       Answers, Tasks

\* One step per action that moves a frame, a response or a call.
LEMMA EInvNext == TInv /\ OInv /\ EInv /\ [Next]_vars => EInv'
<1> SUFFICES ASSUME TypeOK, FrameHeld, ReaderHands, SentStates, ExecutedOnce,
                    QueuedOnce, FrameOnce, WiredOnce, Answers, [Next]_vars
             PROVE  EInv'
  BY DEF TInv, OInv, EInv
<1> /\ NoCall \notin Calls /\ Ping \notin Calls /\ Ping # NoCall
    /\ pc \in [Calls -> CallStates] /\ sent \in [Calls -> BOOLEAN]
    /\ slot \in [Calls -> {"empty", "ok", "closed", "dropped"}]
    /\ answer \in [Calls -> Calls \union {NoCall}]
    /\ waiter \in Calls \union {NoCall}
    /\ queue \in Seq(Calls \union {Ping}) /\ wire \in Seq(Calls \union {Ping})
    /\ frame \in Calls \union {NoCall, Ping}
    /\ inbound \in Seq(Calls)
    /\ executed \in [Calls -> Nat]
    /\ task \in [Tasks -> TaskStates]
  BY ConnectionAssumption DEF TypeOK
<1> USE DEF callVars, taskVars, peerVars
<1>1. ASSUME NEW c \in Calls,
             \/ NextCorrId(c) \/ CheckClosed(c) \/ Insert(c)
             \/ Receive(c) \/ Timeout(c)
      PROVE EInv'
  <2>1. SentStates'
    BY <1>1 DEF NextCorrId, CheckClosed, Insert, Receive, Timeout, Return,
      SentStates
  <2>2. UNCHANGED <<sent, executed, queue, frame, wire, inbound, task, response,
                    slot, answer>>
    BY <1>1 DEF NextCorrId, CheckClosed, Insert, Receive, Timeout
  <2> QED
    BY <2>1, <2>2
    DEF EInv, ExecutedOnce, QueuedOnce, FrameOnce, WiredOnce, Answers
<1>2. ASSUME NEW c \in Calls, UndoInsert(c) \/ TimeoutCleanup(c) PROVE EInv'
  <2>1. SentStates'
    BY <1>2 DEF UndoInsert, TimeoutCleanup, Return, RemoveOwn, SentStates
  <2>2. UNCHANGED <<sent, executed, queue, frame, wire, inbound, task, response,
                    answer>>
    BY <1>2 DEF UndoInsert, TimeoutCleanup
  <2>3. \A d \in Calls : slot'[d] = "ok" => slot[d] = "ok"
    BY <1>2 DEF UndoInsert, TimeoutCleanup, RemoveOwn
  <2>4. Answers'
    BY <2>2, <2>3 DEF Answers
  <2> QED
    BY <2>1, <2>2, <2>4 DEF EInv, ExecutedOnce, QueuedOnce, FrameOnce, WiredOnce
<1>3. ASSUME NEW c \in Calls, TrySend(c) PROVE EInv'
  <2>1. CASE UNCHANGED <<queue, sent>>
    <3>1. SentStates'
      BY <1>3, <2>1 DEF TrySend, SentStates
    <3> QED
      BY <1>3, <2>1, <3>1
      DEF TrySend, EInv, ExecutedOnce, QueuedOnce, FrameOnce, WiredOnce, Answers
  <2>2. CASE queue' = Append(queue, c) /\ sent' = [sent EXCEPT ![c] = TRUE]
    <3>1. ~sent[c]
      BY <1>3 DEF TrySend, SentStates
    <3>2. /\ executed[c] = 0 /\ frame # c
          /\ \A k \in DOMAIN queue : queue[k] # c
          /\ \A k \in DOMAIN wire : wire[k] # c
      BY <3>1 DEF ExecutedOnce, QueuedOnce, FrameOnce, WiredOnce
    <3>3. sent'[c] /\ \A d \in Calls : sent[d] => sent'[d]
      BY <2>2
    <3>4. \A d \in Calls : d # c => sent'[d] = sent[d]
      BY <2>2
    <3>5. pc' = [pc EXCEPT ![c] = "wait"]
      BY <1>3, <2>2, <3>1, <3>3 DEF TrySend
    <3>6. UNCHANGED <<executed, frame, wire, inbound, task, response, slot,
                      answer>>
      BY <1>3 DEF TrySend
    <3>7. SentStates'
      <4>1. \A d \in Calls : d # c => sent'[d] = sent[d] /\ pc'[d] = pc[d]
        BY <3>4, <3>5
      <4>2. sent'[c] /\ pc'[c] = "wait"
        BY <3>3, <3>5
      <4> QED
        BY <4>1, <4>2 DEF SentStates
    <3>8. QueuedOnce'
      <4>1. \A k \in DOMAIN queue' :
            \/ k = Len(queue) + 1 /\ queue'[k] = c
            \/ k \in DOMAIN queue /\ queue'[k] = queue[k]
        BY <2>2, AppendPlaces
      <4>2. ASSUME NEW k \in DOMAIN queue', queue'[k] \in Calls
            PROVE  /\ sent'[queue'[k]] /\ executed'[queue'[k]] = 0
                   /\ frame' # queue'[k]
                   /\ \A j \in DOMAIN wire' : wire'[j] # queue'[k]
        <5>1. CASE queue'[k] = c
          BY <3>2, <3>3, <3>6, <5>1
        <5>2. CASE k \in DOMAIN queue /\ queue'[k] = queue[k]
          BY <3>3, <3>6, <4>2, <5>2 DEF QueuedOnce
        <5> QED
          BY <4>1, <5>1, <5>2
      <4>3. ASSUME NEW k \in DOMAIN queue', queue'[k] \in Calls,
                   NEW j \in DOMAIN queue', queue'[j] = queue'[k]
            PROVE  j = k
        <5>1. CASE j \in DOMAIN queue /\ k \in DOMAIN queue
                   /\ queue'[j] = queue[j] /\ queue'[k] = queue[k]
          BY <4>3, <5>1 DEF QueuedOnce
        <5> QED
          BY <3>2, <4>1, <4>3, <5>1
      <4> QED
        BY <4>2, <4>3 DEF QueuedOnce
    <3>9. ExecutedOnce' /\ FrameOnce' /\ WiredOnce'
      BY <3>3, <3>6 DEF ExecutedOnce, FrameOnce, WiredOnce
    <3>10. Answers'
      BY <3>6 DEF Answers
    <3> QED
      BY <3>7, <3>8, <3>9, <3>10 DEF EInv
  <2> QED
    BY <1>3, <2>1, <2>2 DEF TrySend
<1>4. ASSUME KeepaliveSend PROVE EInv'
  <2>1. UNCHANGED <<pc, sent, executed, frame, wire, inbound, task, response,
                    slot, answer>>
    BY <1>4 DEF KeepaliveSend
  <2>2. QueuedOnce'
    <3>1. CASE queue' = queue
      BY <2>1, <3>1 DEF QueuedOnce
    <3>2. CASE queue' = Append(queue, Ping)
      <4>1. \A k \in DOMAIN queue' :
            \/ k = Len(queue) + 1 /\ queue'[k] = Ping
            \/ k \in DOMAIN queue /\ queue'[k] = queue[k]
        BY <3>2, AppendPlaces
      <4>2. \A k \in DOMAIN queue' : queue'[k] \in Calls =>
              k \in DOMAIN queue /\ queue'[k] = queue[k]
        BY <4>1
      <4> QED
        BY <2>1, <4>2 DEF QueuedOnce
    <3> QED
      BY <1>4, <3>1, <3>2 DEF KeepaliveSend
  <2> QED
    BY <2>1, <2>2
    DEF EInv, SentStates, ExecutedOnce, FrameOnce, WiredOnce, Answers
<1>5. ASSUME WriterRecv PROVE EInv'
  <2>1. UNCHANGED <<pc, sent, executed, wire, inbound, response, slot, answer>>
    BY <1>5 DEF WriterRecv
  <2>2. task'["reader"] = task["reader"]
    BY <1>5 DEF WriterRecv, Tasks
  <2>3. /\ 1 \in DOMAIN queue /\ Head(queue) = queue[1]
        /\ \A k \in DOMAIN queue' :
             /\ k + 1 \in DOMAIN queue /\ k + 1 # 1 /\ k \in Nat
             /\ queue'[k] = queue[k + 1]
    BY <1>5, TailPlaces DEF WriterRecv
  <2>4. frame' = queue[1]
    BY <1>5, <2>3 DEF WriterRecv
  <2>5. QueuedOnce'
    BY <2>1, <2>3, <2>4 DEF QueuedOnce
  <2>6. FrameOnce'
    BY <2>1, <2>3, <2>4 DEF QueuedOnce, FrameOnce
  <2> QED
    BY <2>1, <2>2, <2>5, <2>6
    DEF EInv, SentStates, ExecutedOnce, WiredOnce, Answers
<1>6. ASSUME WriterWrite PROVE EInv'
  <2>1. UNCHANGED <<pc, sent, executed, queue, inbound, response, slot, answer>>
    BY <1>6 DEF WriterWrite
  <2>2. task'["reader"] = task["reader"]
    BY <1>6 DEF WriterWrite, Tasks
  <2>3. frame \in Calls \union {Ping} /\ frame' = NoCall
    BY <1>6 DEF WriterWrite, FrameHeld
  <2>4. \A k \in DOMAIN wire' :
          \/ k = Len(wire) + 1 /\ wire'[k] = frame
          \/ k \in DOMAIN wire /\ wire'[k] = wire[k]
    BY <1>6, <2>3, AppendPlaces DEF WriterWrite
  <2>5. QueuedOnce'
    BY <2>1, <2>3, <2>4 DEF QueuedOnce
  <2>6. FrameOnce'
    BY <2>3 DEF FrameOnce
  <2>7. WiredOnce'
    <3>1. ASSUME NEW k \in DOMAIN wire', wire'[k] \in Calls
          PROVE  sent'[wire'[k]] /\ executed'[wire'[k]] = 0
      <4>1. CASE wire'[k] = frame
        BY <2>1, <3>1, <4>1 DEF FrameOnce
      <4>2. CASE k \in DOMAIN wire /\ wire'[k] = wire[k]
        BY <2>1, <3>1, <4>2 DEF WiredOnce
      <4> QED
        BY <2>4, <3>1, <4>1, <4>2
    <3>2. ASSUME NEW k \in DOMAIN wire', wire'[k] \in Calls,
                 NEW j \in DOMAIN wire', wire'[j] = wire'[k]
          PROVE  j = k
      <4>1. CASE j \in DOMAIN wire /\ k \in DOMAIN wire
                 /\ wire'[j] = wire[j] /\ wire'[k] = wire[k]
        BY <3>2, <4>1 DEF WiredOnce
      <4>2. frame \in Calls => \A i \in DOMAIN wire : wire[i] # frame
        BY DEF FrameOnce
      <4> QED
        BY <2>4, <3>2, <4>1, <4>2
    <3> QED
      BY <3>1, <3>2 DEF WiredOnce
  <2> QED
    BY <2>1, <2>2, <2>5, <2>6, <2>7 DEF EInv, SentStates, ExecutedOnce, Answers
<1>7. ASSUME WriterWriteFails PROVE EInv'
  <2>1. UNCHANGED <<pc, sent, executed, queue, wire, inbound, response, slot,
                    answer>>
    BY <1>7 DEF WriterWriteFails
  <2>2. task'["reader"] = task["reader"] /\ frame' = NoCall
    BY <1>7 DEF WriterWriteFails, Tasks
  <2>3. QueuedOnce' /\ FrameOnce'
    BY <2>1, <2>2 DEF QueuedOnce, FrameOnce
  <2> QED
    BY <2>1, <2>2, <2>3 DEF EInv, SentStates, ExecutedOnce, WiredOnce, Answers
<1>8. ASSUME WriterExit PROVE EInv'
  <2>1. UNCHANGED <<pc, sent, executed, frame, wire, inbound, response, slot,
                    answer>>
    BY <1>8 DEF WriterExit
  <2>2. task'["reader"] = task["reader"] /\ queue' = <<>>
    BY <1>8 DEF WriterExit, Tasks
  <2>3. QueuedOnce'
    BY <2>2 DEF QueuedOnce
  <2> QED
    BY <2>1, <2>2, <2>3
    DEF EInv, SentStates, ExecutedOnce, FrameOnce, WiredOnce, Answers
<1>9. ASSUME ReaderTake PROVE EInv'
  <2>1. UNCHANGED <<pc, sent, executed, frame, queue, wire, slot, answer>>
    BY <1>9 DEF ReaderTake
  <2>2. /\ 1 \in DOMAIN inbound /\ Head(inbound) = inbound[1]
        /\ Head(inbound) \in Calls
        /\ \A k \in DOMAIN inbound' :
             k + 1 \in DOMAIN inbound /\ inbound'[k] = inbound[k + 1]
    BY <1>9, TailPlaces DEF ReaderTake
  <2>3. task'["reader"] = "deliver" =>
          response' \in Calls /\ executed[response'] > 0
    BY <1>9, <2>2 DEF ReaderTake, Answers
  <2>4. Answers'
    BY <2>1, <2>2, <2>3 DEF Answers
  <2> QED
    BY <2>1, <2>4
    DEF EInv, SentStates, ExecutedOnce, QueuedOnce, FrameOnce, WiredOnce
<1>10. ASSUME ReaderDeliver PROVE EInv'
  <2>1. UNCHANGED <<pc, sent, executed, frame, queue, wire, inbound>>
    BY <1>10 DEF ReaderDeliver
  <2>2. Answers'
    BY <1>10 DEF ReaderDeliver, Answers, ReaderHands, Tasks
  <2> QED
    BY <2>1, <2>2
    DEF EInv, SentStates, ExecutedOnce, QueuedOnce, FrameOnce, WiredOnce
<1>11. ASSUME NEW t \in Tasks, NotifyDrained(t) PROVE EInv'
  <2>1. UNCHANGED <<pc, sent, executed, frame, queue, wire, inbound, response,
                    answer>>
    BY <1>11 DEF NotifyDrained
  <2>2. task'["reader"] = "deliver" => task["reader"] = "deliver"
    BY <1>11 DEF NotifyDrained, Tasks
  <2>3. \A d \in Calls : slot'[d] = "ok" => slot[d] = "ok"
    BY <1>11 DEF NotifyDrained
  <2>4. Answers'
    BY <2>1, <2>2, <2>3 DEF Answers
  <2> QED
    BY <2>1, <2>4
    DEF EInv, SentStates, ExecutedOnce, QueuedOnce, FrameOnce, WiredOnce
<1>12. ASSUME PeerRecv PROVE EInv'
  <2>1. UNCHANGED <<pc, sent, queue, frame, inbound, task, response, slot, answer>>
    BY <1>12 DEF PeerRecv
  <2> DEFINE h == Head(wire)
  <2>2. /\ 1 \in DOMAIN wire /\ h = wire[1]
        /\ \A k \in DOMAIN wire' :
             /\ k + 1 \in DOMAIN wire /\ k + 1 # 1 /\ k \in Nat
             /\ wire'[k] = wire[k + 1]
    BY <1>12, TailPlaces DEF PeerRecv
  <2>3. \A c \in Calls : c # h => executed'[c] = executed[c]
    BY <1>12 DEF PeerRecv
  <2>4. h \in Calls => sent[h] /\ executed[h] = 0 /\ executed'[h] = 1
    BY <1>12, <2>2 DEF PeerRecv, WiredOnce
  <2> HIDE DEF h
  <2>5. ExecutedOnce'
    BY <2>1, <2>3, <2>4 DEF ExecutedOnce
  <2>6. QueuedOnce'
    BY <2>1, <2>2, <2>3 DEF QueuedOnce
  <2>7. FrameOnce'
    BY <2>1, <2>2, <2>3 DEF FrameOnce
  <2>8. WiredOnce'
    BY <2>1, <2>2, <2>3 DEF WiredOnce
  <2>9. Answers'
    <3>1. ASSUME NEW c \in Calls, executed[c] > 0 PROVE executed'[c] > 0
      <4>1. c # h
        BY <2>4, <3>1
      <4> QED
        BY <2>3, <3>1, <4>1
    <3> QED
      BY <2>1, <3>1 DEF Answers
  <2> QED
    BY <2>1, <2>5, <2>6, <2>7, <2>8, <2>9 DEF EInv, SentStates
<1>13. ASSUME NEW c \in Calls, PeerRespond(c) PROVE EInv'
  <2>1. UNCHANGED <<pc, sent, executed, queue, frame, wire, task, response, slot,
                    answer>>
    BY <1>13 DEF PeerRespond
  <2>2. \A k \in DOMAIN inbound' :
          \/ inbound'[k] = c
          \/ k \in DOMAIN inbound /\ inbound'[k] = inbound[k]
    BY <1>13, AppendElements DEF PeerRespond
  <2>3. Answers'
    BY <1>13, <2>1, <2>2 DEF PeerRespond, Answers
  <2> QED
    BY <2>1, <2>3
    DEF EInv, SentStates, ExecutedOnce, QueuedOnce, FrameOnce, WiredOnce
<1>14. ASSUME \/ \E t \in Tasks : DrainShard(t)
              \/ Close \/ WriterMarkClosed \/ ReaderEof
              \/ KeepaliveTick \/ PeerClose
              \/ UNCHANGED vars
       PROVE  EInv'
  <2>1. UNCHANGED <<pc, sent, executed, queue, frame, wire, inbound, response,
                    slot, answer>>
    BY <1>14 DEF DrainShard, Close, WriterMarkClosed, ReaderEof, KeepaliveTick,
      PeerClose, vars
  <2>2. task'["reader"] = "deliver" => task["reader"] = "deliver"
    BY <1>14 DEF DrainShard, Close, WriterMarkClosed, ReaderEof, KeepaliveTick,
      PeerClose, vars, Tasks
  <2> QED
    BY <2>1, <2>2
    DEF EInv, SentStates, ExecutedOnce, QueuedOnce, FrameOnce, WiredOnce, Answers
<1>15. ASSUME WriterCheck PROVE EInv'
  <2>1. UNCHANGED <<pc, sent, executed, queue, wire, inbound, response, slot,
                    answer>>
    BY <1>15 DEF WriterCheck
  <2>2. task'["reader"] = task["reader"] /\ (frame' = frame \/ frame' = NoCall)
    BY <1>15 DEF WriterCheck, Tasks
  <2>3. QueuedOnce' /\ FrameOnce'
    BY <2>1, <2>2 DEF QueuedOnce, FrameOnce
  <2> QED
    BY <2>1, <2>2, <2>3 DEF EInv, SentStates, ExecutedOnce, WiredOnce, Answers
<1> QED
  BY <1>1, <1>2, <1>3, <1>4, <1>5, <1>6, <1>7, <1>8, <1>9, <1>10, <1>11,
    <1>12, <1>13, <1>14, <1>15
  DEF Next, CallStep, WriterStep, ReaderStep, KeepaliveStep, PeerStep, Tasks

-----------------------------------------------------------------------------
(* The refinement *)

\* The phases of the calls, the abstract state that is not a variable here.
Phases == [c \in Calls |-> Phase(c)]

\* The phase of a call, by its place in send_and_wait.
LEMMA PhaseOf ==
  ASSUME TypeOK, NEW c \in Calls
  PROVE  /\ pc[c] = "new" => Phases[c] = "idle"
         /\ pc[c] = "done" => Phases[c] = "done"
         /\ pc[c] \notin {"new", "done"} => Phases[c] = "open"
BY DEF Phases, Phase

\* A step that moves one call to another place maps to a change of its phase.
LEMMA PhaseMoves ==
  ASSUME TypeOK, NEW c \in Calls, NEW s \in CallStates,
         pc' = [pc EXCEPT ![c] = s]
  PROVE  /\ s = "done" => Phases' = [Phases EXCEPT ![c] = "done"]
         /\ s \notin {"new", "done"} => Phases' = [Phases EXCEPT ![c] = "open"]
         /\ pc[c] \notin {"new", "done"} /\ s \notin {"new", "done"} =>
              Phases' = Phases
<1> pc \in [Calls -> CallStates]
  BY DEF TypeOK
<1>1. \A d \in Calls : d # c => Phase(d)' = Phase(d)
  BY DEF Phase
<1>2. Phase(c)' = IF s = "new" THEN "idle" ELSE IF s = "done" THEN "done" ELSE "open"
  BY DEF Phase
<1>3. pc[c] \notin {"new", "done"} => Phase(c) = "open"
  BY DEF Phase
<1> QED
  BY <1>1, <1>2, <1>3 DEF Phases

\* A step that moves a call within send_and_wait, and returns nothing, stutters.
LEMMA StayMaps ==
  ASSUME TypeOK, NEW c \in Calls, NEW s \in CallStates,
         pc[c] \notin {"new", "done"}, s \notin {"new", "done"},
         pc' = [pc EXCEPT ![c] = s], UNCHANGED <<sent, executed, result>>
  PROVE  UNCHANGED SW!vars
<1>1. Phases' = Phases
  BY PhaseMoves
<1> QED
  BY <1>1 DEF SW!vars, Phases

\* Returning maps to the abstract Return, when its promise is kept.
LEMMA ReturnMaps ==
  ASSUME TypeOK, NEW c \in Calls, NEW res \in SW!Results,
         pc[c] \notin {"new", "done"}, Return(c, res),
         UNCHANGED <<sent, executed>>, SW!MayReturn(c, res)
  PROVE  SW!Next
<1>1. Phases[c] = "open" /\ Phases' = [Phases EXCEPT ![c] = "done"]
  BY PhaseOf, PhaseMoves DEF Return, CallStates
<1>2. SW!Return(c, res)
  BY <1>1 DEF SW!Return, Return, Phases
<1> QED
  BY <1>2 DEF SW!Next

\* Every step of the connection is an abstract step or a stutter, as long as
\* the counter has not wrapped.
LEMMA StepMaps ==
  TInv /\ UInv /\ EInv /\ [Next]_vars => [SW!Next \/ wrapped']_(SW!vars)
<1> SUFFICES ASSUME TypeOK, SentStates, ExecutedOnce, WiredOnce, Answers,
                    NoCrossDelivery, [Next]_vars
             PROVE  SW!Next \/ wrapped' \/ UNCHANGED SW!vars
  BY DEF TInv, UInv, EInv
<1> /\ NoCall \notin Calls
    /\ pc \in [Calls -> CallStates] /\ sent \in [Calls -> BOOLEAN]
    /\ slot \in [Calls -> {"empty", "ok", "closed", "dropped"}]
    /\ wire \in Seq(Calls \union {Ping}) /\ executed \in [Calls -> Nat]
  BY ConnectionAssumption DEF TypeOK
<1> USE DEF callVars, taskVars, peerVars
<1>1. ASSUME NEW c \in Calls, NextCorrId(c) PROVE SW!Next \/ UNCHANGED SW!vars
  <2>1. CASE UNCHANGED pc
    <3>1. Phases' = Phases
      BY <2>1 DEF Phases, Phase
    <3> QED
      BY <1>1, <3>1 DEF NextCorrId, SW!vars, Phases
  <2>2. CASE pc' = [pc EXCEPT ![c] = "check"]
    <3>1. Phases[c] = "idle" /\ Phases' = [Phases EXCEPT ![c] = "open"]
      BY <1>1, <2>2, PhaseOf, PhaseMoves DEF NextCorrId, CallStates
    <3>2. SW!Begin(c)
      BY <1>1, <3>1 DEF NextCorrId, SW!Begin, Phases
    <3> QED
      BY <3>2 DEF SW!Next
  <2> QED
    BY <1>1, <2>1, <2>2 DEF NextCorrId
<1>2. ASSUME NEW c \in Calls, CheckClosed(c) PROVE SW!Next \/ UNCHANGED SW!vars
  <2>1. pc[c] = "check" /\ UNCHANGED <<sent, executed>>
    BY <1>2 DEF CheckClosed
  <2>2. CASE Return(c, "closed")
    <3>1. SW!MayReturn(c, "closed") /\ "closed" \in SW!Results
      BY DEF SW!MayReturn, SW!Results
    <3> QED
      BY <2>1, <2>2, <3>1, ReturnMaps
  <2>3. CASE pc' = [pc EXCEPT ![c] = "insert"] /\ UNCHANGED result
    BY <2>1, <2>3, StayMaps DEF CallStates
  <2> QED
    BY <1>2, <2>2, <2>3 DEF CheckClosed
<1>3. ASSUME NEW c \in Calls, Insert(c) PROVE SW!Next \/ UNCHANGED SW!vars
  <2>1. pc[c] = "insert" /\ UNCHANGED <<sent, executed>>
    BY <1>3 DEF Insert
  <2>2. CASE Return(c, "validation")
    <3>1. ~sent[c]
      BY <2>1 DEF SentStates
    <3>2. SW!MayReturn(c, "validation") /\ "validation" \in SW!Results
      BY <3>1 DEF SW!MayReturn, SW!Results
    <3> QED
      BY <2>1, <2>2, <3>2, ReturnMaps
  <2>3. CASE pc' = [pc EXCEPT ![c] = "send"] /\ UNCHANGED result
    BY <2>1, <2>3, StayMaps DEF CallStates
  <2> QED
    BY <1>3, <2>2, <2>3 DEF Insert
<1>4. ASSUME NEW c \in Calls, TrySend(c) PROVE SW!Next \/ UNCHANGED SW!vars
  <2>1. pc[c] = "send" /\ UNCHANGED <<executed, result>>
    BY <1>4 DEF TrySend
  <2>2. CASE pc' = [pc EXCEPT ![c] = "undo"] /\ UNCHANGED sent
    BY <2>1, <2>2, StayMaps DEF CallStates
  <2>3. CASE pc' = [pc EXCEPT ![c] = "wait"] /\ sent' = [sent EXCEPT ![c] = TRUE]
    <3>1. Phases[c] = "open" /\ Phases' = Phases
      BY <2>1, <2>3, PhaseOf, PhaseMoves DEF CallStates
    <3>2. ~sent[c]
      BY <2>1 DEF SentStates
    <3>3. SW!Accept(c)
      BY <2>1, <2>3, <3>1, <3>2 DEF SW!Accept, Phases
    <3> QED
      BY <3>3 DEF SW!Next
  <2> QED
    BY <1>4, <2>2, <2>3 DEF TrySend
<1>5. ASSUME NEW c \in Calls, UndoInsert(c) PROVE SW!Next
  <2>1. /\ pc[c] = "undo" /\ UNCHANGED <<sent, executed>>
        /\ Return(c, "closed")
    BY <1>5 DEF UndoInsert
  <2>2. SW!MayReturn(c, "closed") /\ "closed" \in SW!Results
    BY DEF SW!MayReturn, SW!Results
  <2> QED
    BY <2>1, <2>2, ReturnMaps
<1>6. ASSUME NEW c \in Calls, Receive(c) PROVE SW!Next \/ wrapped'
  <2>1. /\ pc[c] = "wait" /\ UNCHANGED <<sent, executed, wrapped>>
        /\ Return(c, IF slot[c] = "ok" THEN "ok" ELSE "closed")
    BY <1>6 DEF Receive
  <2>2. CASE slot[c] = "ok" /\ ~wrapped
    <3>1. sent[c]
      BY <2>1 DEF SentStates
    <3>2. executed[c] = 1
      BY <2>2 DEF NoCrossDelivery, Answers, ExecutedOnce
    <3>3. SW!MayReturn(c, "ok") /\ "ok" \in SW!Results
      BY <3>1, <3>2 DEF SW!MayReturn, SW!Results
    <3> QED
      BY <2>1, <2>2, <3>3, ReturnMaps
  <2>3. CASE slot[c] # "ok"
    <3>1. SW!MayReturn(c, "closed") /\ "closed" \in SW!Results
      BY DEF SW!MayReturn, SW!Results
    <3> QED
      BY <2>1, <2>3, <3>1, ReturnMaps
  <2> QED
    BY <2>1, <2>2, <2>3
<1>7. ASSUME NEW c \in Calls, Timeout(c) PROVE UNCHANGED SW!vars
  BY <1>7, StayMaps DEF Timeout, CallStates
<1>8. ASSUME NEW c \in Calls, TimeoutCleanup(c) PROVE SW!Next
  <2>1. /\ pc[c] = "expired" /\ UNCHANGED <<sent, executed>>
        /\ Return(c, "timeout")
    BY <1>8 DEF TimeoutCleanup
  <2>2. sent[c]
    BY <2>1 DEF SentStates
  <2>3. SW!MayReturn(c, "timeout") /\ "timeout" \in SW!Results
    BY <2>2 DEF SW!MayReturn, SW!Results
  <2> QED
    BY <2>1, <2>3, ReturnMaps
<1>9. ASSUME PeerRecv PROVE SW!Next \/ UNCHANGED SW!vars
  <2>1. UNCHANGED <<pc, sent, result>>
    BY <1>9 DEF PeerRecv
  <2>2. Phases' = Phases
    BY <2>1 DEF Phases, Phase
  <2>3. CASE Head(wire) \in Calls
    <3>1. sent[Head(wire)] /\ executed[Head(wire)] = 0
      BY <1>9, <2>3, TailPlaces DEF PeerRecv, WiredOnce
    <3>2. executed' = [executed EXCEPT ![Head(wire)] = 1]
      BY <1>9, <2>3, <3>1 DEF PeerRecv
    <3>3. SW!Execute(Head(wire))
      BY <2>1, <2>2, <3>1, <3>2 DEF SW!Execute, Phases
    <3> QED
      BY <2>3, <3>3 DEF SW!Next
  <2>4. CASE Head(wire) \notin Calls
    BY <1>9, <2>1, <2>2, <2>4 DEF PeerRecv, SW!vars, Phases
  <2> QED
    BY <2>3, <2>4
<1>10. ASSUME \/ \E t \in Tasks : DrainShard(t) \/ NotifyDrained(t)
              \/ Close \/ WriterRecv \/ WriterCheck \/ WriterWrite
              \/ WriterWriteFails \/ WriterMarkClosed \/ WriterExit
              \/ ReaderTake \/ ReaderDeliver \/ ReaderEof
              \/ KeepaliveStep \/ PeerClose
              \/ \E c \in Calls : PeerRespond(c)
              \/ UNCHANGED vars
       PROVE  UNCHANGED SW!vars
  <2>1. UNCHANGED <<pc, sent, executed, result>>
    BY <1>10 DEF DrainShard, NotifyDrained, Close, WriterRecv, WriterCheck,
      WriterWrite, WriterWriteFails, WriterMarkClosed, WriterExit, ReaderTake,
      ReaderDeliver, ReaderEof, KeepaliveStep, KeepaliveTick, KeepaliveSend,
      PeerClose, PeerRespond, vars
  <2>2. Phases' = Phases
    BY <2>1 DEF Phases, Phase
  <2> QED
    BY <2>1, <2>2 DEF SW!vars, Phases
<1> QED
  BY <1>1, <1>2, <1>3, <1>4, <1>5, <1>6, <1>7, <1>8, <1>9, <1>10
  DEF Next, CallStep, WriterStep, ReaderStep, PeerStep, Tasks

\* A fresh connection is a fresh abstract one.
LEMMA InitMaps == Init => SW!Init
BY DEF Init, SW!Init, Phase

\* Until its counter wraps, the connection implements the abstract
\* send_and_wait: whatever the hop, the tasks and close() do, a frame is
\* executed at most once, "ok" is only returned for an executed frame and
\* "validation" only for one that will never be executed.
THEOREM Implements == Spec => ImplementsSendAndWait
BY Ownership, TInvInit, TInvNext, OInvInit, OInvNext, UInvInit, UInvNext,
   EInvInit, EInvNext, StepMaps, InitMaps, PTL
   DEF Spec, ImplementsSendAndWait
=============================================================================
