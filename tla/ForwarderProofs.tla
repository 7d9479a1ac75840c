--------------------------- MODULE ForwarderProofs ---------------------------
(***************************************************************************)
(* Proofs about Forwarder, for any requests, hops, connections and number  *)
(* of attempts, while snapshots, hops and connections change under it.     *)
(***************************************************************************)
EXTENDS Forwarder, FiniteSetTheorems, TLAPS

-----------------------------------------------------------------------------
(* The inductive invariant, for one request *)

\* The hop at the k-th position of the walk of q's current attempt.
WalkHop(q, k) ==
  LET n == Len(snapshot[q])
  IN  snapshot[q][(((clrid[q] % n) + k) % n) + 1]

\* The calls made so far lie before the present position of the two loops; only
\* the one under way, or the one that ended the request, is at the position.
CallsBehind(q) ==
  \A c \in Begun(q) :
    \/ c[2] < attempt[q]
    \/ /\ c[2] = attempt[q] /\ pc[q] \notin {"enter", "load"}
       /\ c[3] < i[q] \/ (c[3] = i[q] /\ pc[q] \in {"call", "done"})

\* forward awaits one call at a time.
OneOpen(q) ==
  /\ pc[q] = "call" => phase[CallOf(q)] = "open"
  /\ \A c \in Begun(q) : phase[c] = "open" => pc[q] = "call" /\ c = CallOf(q)

\* The walk stays inside of the list of the attempt's snapshot, ...
InWalk(q) ==
  /\ pc[q] = "hop" => i[q] <= Len(snapshot[q])
  /\ pc[q] \in {"picked", "call"} => i[q] < Len(snapshot[q])
  /\ pc[q] = "picked" => conn[q] \in Conns /\ conn[q][1] = WalkHop(q, i[q])

\* ... and the calls of the attempt were made on the hops of their positions.
AskedInOrder(q) ==
  \A c \in Begun(q) : c[2] = attempt[q] =>
    c[3] < Len(snapshot[q]) /\ target[c][1] = WalkHop(q, c[3])

\* A response ends the request, and so does, for a write, everything but a
\* closed connection.
ResultsKnown(q) ==
  \A c \in CallIds : c[1] = q =>
    /\ phase[c] = "done" <=> result[c] # "none"
    /\ result[c] = "ok" => outcome[q] = "ok"
    /\ kind[q] = "write" /\ result[c] \in {"timeout", "validation"} =>
         pc[q] = "done"

\* What each outcome says of the calls.
OutcomeKnown(q) ==
  /\ outcome[q] = "none" <=> pc[q] # "done"
  /\ kind[q] = "write" /\ request_sent[q] => pc[q] = "done"
  /\ outcome[q] = "ok" /\ kind[q] # "local" =>
       \E c \in Begun(q) : result[c] = "ok"
  /\ outcome[q] = "timeout" =>
       /\ kind[q] = "write"
       /\ \E c \in Begun(q) : result[c] \in {"timeout", "validation"}
  /\ outcome[q] = "network" => attempt[q] = MaxRetries - 1

FInv(q) ==
  /\ CallsBehind(q) /\ OneOpen(q) /\ InWalk(q) /\ AskedInOrder(q)
  /\ ResultsKnown(q) /\ OutcomeKnown(q)

\* The two properties about pairs of calls are part of the invariant: they
\* also speak of attempts whose snapshot is forgotten.
ForwarderInv ==
  /\ TypeOK
  /\ kind \in [Requests -> {"local", "read", "write"}]
  /\ clrid \in [Requests -> Clrids]
  /\ \A q \in Requests : FInv(q)
  /\ WriteRetriedOnlyAfterClose
  /\ HopAskedOncePerAttempt

-----------------------------------------------------------------------------
(* Lemmas *)

\* The number of hops is a natural number.
LEMMA HopCount == MaxHops \in Nat
BY ForwarderAssumption, FS_CardinalityType DEF MaxHops

\* A route is a list of different hops.
LEMMA RouteFacts ==
  ASSUME NEW s \in Routes
  PROVE  /\ Len(s) \in 0 .. MaxHops
         /\ s # <<>> => Len(s) > 0
         /\ \A j \in 1 .. Len(s) : s[j] \in Hops
         /\ \A j, k \in 1 .. Len(s) : s[j] = s[k] => j = k
<1>1. PICK n \in 0 .. MaxHops : s \in [1 .. n -> Hops]
  BY DEF Routes
<1>2. n \in Nat
  BY HopCount
<1>3. s \in Seq(Hops) /\ Len(s) = n
  BY <1>1, <1>2
<1>4. \A j, k \in 1 .. n : s[j] = s[k] => j = k
  BY <1>1 DEF Routes
<1>5. s # <<>> => n > 0
  BY <1>1, <1>2, <1>3
<1> QED
  BY <1>1, <1>3, <1>4, <1>5

\* A remainder is what is left of a number, ...
LEMMA ModRange ==
  \A s \in Nat, n \in Nat \ {0} : s % n \in 0 .. n - 1
BY Z3

\* ... nothing is taken from one that is smaller, ...
LEMMA ModSmall ==
  \A n \in Nat \ {0} : \A x \in 0 .. n - 1 : x % n = x
BY Z3

\* ... and once around makes no difference.
LEMMA ModWraps ==
  \A n \in Nat \ {0} : \A x \in 0 .. n - 1 : (x + n) % n = x
BY SMT

\* So a walk around n places visits different ones in n steps.
LEMMA ModInjective ==
  ASSUME NEW n \in Nat \ {0}, NEW b \in 0 .. n - 1,
         NEW j \in 0 .. n - 1, NEW k \in 0 .. n - 1,
         (b + j) % n = (b + k) % n
  PROVE  j = k
<1>1. ASSUME NEW x \in 0 .. n - 1
      PROVE  (b + x) % n = IF b + x < n THEN b + x ELSE b + x - n
  <2>1. CASE b + x < n
    BY <2>1, ModSmall
  <2>2. CASE b + x >= n
    <3>1. b + x - n \in 0 .. n - 1 /\ b + x = (b + x - n) + n
      BY <2>2
    <3> QED
      BY <2>2, <3>1, ModWraps
  <2> QED
    BY <2>1, <2>2
<1> QED
  BY <1>1

\* No hop comes twice in a walk.
LEMMA WalkDistinct ==
  ASSUME NEW q, snapshot[q] \in Routes, clrid[q] \in Nat,
         NEW j \in Nat, NEW k \in Nat,
         j < Len(snapshot[q]), k < Len(snapshot[q]), j # k
  PROVE  WalkHop(q, j) # WalkHop(q, k)
<1> DEFINE n == Len(snapshot[q])
           b == clrid[q] % n
<1>1. n \in Nat \ {0}
  BY RouteFacts, HopCount
<1>2. b \in 0 .. n - 1
  BY <1>1, ModRange
<1>3. j \in 0 .. n - 1 /\ k \in 0 .. n - 1
  BY <1>1
<1>4. b + j \in Nat /\ b + k \in Nat
  BY <1>1, <1>2
<1> HIDE DEF n, b
<1>5. (b + j) % n # (b + k) % n
  BY <1>1, <1>2, <1>3, ModInjective
<1>6. (b + j) % n \in 0 .. n - 1 /\ (b + k) % n \in 0 .. n - 1
  BY <1>1, <1>4, ModRange
<1>7. ((b + j) % n) + 1 \in 1 .. n /\ ((b + k) % n) + 1 \in 1 .. n
      /\ ((b + j) % n) + 1 # ((b + k) % n) + 1
  BY <1>1, <1>5, <1>6
<1>8. snapshot[q][((b + j) % n) + 1] # snapshot[q][((b + k) % n) + 1]
  BY <1>7, RouteFacts DEF n
<1> QED
  BY <1>8 DEF WalkHop, n, b

\* The hop that is picked is the one of the walk.
LEMMA HopAtWalks == \A q : HopAt(q) = WalkHop(q, i[q])
BY DEF HopAt, WalkHop

\* A call is its request, attempt and position.
LEMMA CallParts ==
  ASSUME NEW c \in CallIds
  PROVE  /\ c = <<c[1], c[2], c[3]>>
         /\ c[1] \in Requests /\ c[2] \in Nat /\ c[3] \in Nat
         /\ c[2] < MaxRetries /\ c[3] < MaxHops
BY HopCount, ForwarderAssumption DEF CallIds

\* The position of a walk names a call.
LEMMA CallOfType ==
  ASSUME TypeOK, NEW q \in Requests, i[q] < Len(snapshot[q])
  PROVE  /\ CallOf(q) \in CallIds
         /\ CallOf(q)[1] = q /\ CallOf(q)[2] = attempt[q] /\ CallOf(q)[3] = i[q]
<1>1. attempt[q] \in 0 .. MaxRetries - 1 /\ i[q] \in 0 .. MaxHops
      /\ snapshot[q] \in Routes
  BY DEF TypeOK
<1>2. i[q] \in 0 .. MaxHops - 1
  BY <1>1, RouteFacts, HopCount
<1> QED
  BY <1>1, <1>2 DEF CallIds, CallOf

\* A step that changes nothing of a request keeps its part of the invariant.
Same(r) ==
  /\ pc'[r] = pc[r] /\ attempt'[r] = attempt[r] /\ snapshot'[r] = snapshot[r]
  /\ i'[r] = i[r] /\ conn'[r] = conn[r] /\ request_sent'[r] = request_sent[r]
  /\ outcome'[r] = outcome[r] /\ kind' = kind /\ clrid' = clrid
  /\ \A c \in CallIds : c[1] = r =>
       phase'[c] = phase[c] /\ result'[c] = result[c] /\ target'[c] = target[c]

LEMMA SameKeeps ==
  ASSUME TypeOK, NEW r \in Requests, FInv(r), Same(r)
  PROVE  FInv(r)'
<1>1. Begun(r)' = Begun(r) /\ \A c \in Begun(r) : c \in CallIds /\ c[1] = r
  BY DEF Same, Begun
<1>2. CallOf(r)' = CallOf(r) /\ \A k : WalkHop(r, k)' = WalkHop(r, k)
  BY DEF Same, CallOf, WalkHop
<1>3. CallsBehind(r)' /\ InWalk(r)'
  BY <1>1, <1>2 DEF FInv, CallsBehind, InWalk, Same
<1>4. OneOpen(r)'
  <2>1. pc[r] = "call" => CallOf(r) \in CallIds /\ CallOf(r)[1] = r
    BY CallOfType DEF FInv, InWalk
  <2> QED
    BY <1>1, <1>2, <2>1 DEF FInv, OneOpen, Same
<1>5. AskedInOrder(r)'
  BY <1>1, <1>2 DEF FInv, AskedInOrder, Same
<1>6. ResultsKnown(r)'
  BY DEF FInv, ResultsKnown, Same
<1>7. OutcomeKnown(r)'
  BY <1>1 DEF FInv, OutcomeKnown, Same
<1> QED
  BY <1>3, <1>4, <1>5, <1>6, <1>7 DEF FInv

\* A step that makes no call and ends none keeps what is said of pairs.
LEMMA PairsKept ==
  ASSUME WriteRetriedOnlyAfterClose, HopAskedOncePerAttempt,
         UNCHANGED <<phase, result, target, kind>>
  PROVE  WriteRetriedOnlyAfterClose' /\ HopAskedOncePerAttempt'
<1>1. \A q : Begun(q)' = Begun(q)
  BY DEF Begun
<1> QED
  BY <1>1 DEF WriteRetriedOnlyAfterClose, HopAskedOncePerAttempt, Earlier

\* The types of the numbers and calls of a request.
LEMMA RequestTypes ==
  ASSUME TypeOK, clrid \in [Requests -> Clrids], NEW q \in Requests
  PROVE  /\ attempt[q] \in Nat /\ i[q] \in Nat /\ snapshot[q] \in Routes
         /\ Len(snapshot[q]) \in Nat /\ clrid[q] \in Nat
         /\ \A c \in Begun(q) : /\ c \in CallIds /\ c[1] = q
                                /\ c[2] \in Nat /\ c[3] \in Nat
<1>1. /\ attempt[q] \in 0 .. MaxRetries - 1 /\ i[q] \in 0 .. MaxHops
      /\ snapshot[q] \in Routes
  BY DEF TypeOK
<1>2. Len(snapshot[q]) \in Nat
  BY <1>1, RouteFacts, HopCount
<1>3. clrid[q] \in Nat
  BY ForwarderAssumption
<1>4. \A c \in Begun(q) : c \in CallIds /\ c[1] = q
  BY DEF Begun
<1>5. attempt[q] \in Nat /\ i[q] \in Nat
  BY <1>1, HopCount, ForwarderAssumption
<1> QED
  BY <1>1, <1>2, <1>3, <1>4, <1>5, CallParts

-----------------------------------------------------------------------------
(* The steps of forward that make no call *)

\* They keep the request's part of the invariant.
LEMMA QuietStep ==
  ASSUME ForwarderInv, NEW q \in Requests, UNCHANGED <<target, callVars>>,
         \/ AnswerLocally(q) \/ LoadSnapshot(q) \/ PickConnection(q)
         \/ SendRequest(q) \/ EndAttempt(q)
  PROVE  FInv(q)'
<1> USE DEF callVars, envVars, inputVars, Goto, Finish, NextHop
<1>t. /\ TypeOK /\ FInv(q) /\ clrid \in [Requests -> Clrids]
      /\ UNCHANGED <<kind, clrid, phase, result, target>>
  BY DEF ForwarderInv, AnswerLocally, LoadSnapshot, PickConnection,
         SendRequest, EndAttempt
<1>0. /\ attempt[q] \in Nat /\ i[q] \in Nat /\ snapshot[q] \in Routes
      /\ Len(snapshot[q]) \in Nat
      /\ \A c \in Begun(q) : /\ c \in CallIds /\ c[1] = q
                             /\ c[2] \in Nat /\ c[3] \in Nat
  BY <1>t, RequestTypes
<1>f. /\ pc \in [Requests -> {"enter", "load", "hop", "picked", "call", "done"}]
      /\ attempt \in [Requests -> 0 .. MaxRetries - 1]
      /\ snapshot \in [Requests -> Routes] /\ route \in Routes
      /\ i \in [Requests -> 0 .. MaxHops]
      /\ conn \in [Requests -> Conns \union {NoConn}]
      /\ live \subseteq Conns
      /\ outcome \in [Requests ->
           {"none", "ok", "unknown_segment", "network", "timeout"}]
  BY <1>t DEF TypeOK
<1>b. Begun(q)' = Begun(q)
  BY <1>t DEF Begun
<1>1. CASE AnswerLocally(q)
  <2>1. /\ pc[q] = "enter" /\ kind[q] = "local" /\ pc'[q] = "done"
        /\ outcome'[q] = "ok"
        /\ UNCHANGED <<attempt, snapshot, i, conn, request_sent>>
    BY <1>1, <1>f DEF AnswerLocally
  <2>2. CallsBehind(q)'
    BY <1>t, <1>b, <2>1 DEF FInv, CallsBehind
  <2>3. OneOpen(q)' /\ InWalk(q)'
    BY <1>t, <1>b, <2>1 DEF FInv, OneOpen, InWalk
  <2>4. AskedInOrder(q)'
    BY <1>t, <1>0, <1>b, <2>1 DEF FInv, AskedInOrder, CallsBehind
  <2>5. ResultsKnown(q)'
    BY <1>t, <2>1 DEF FInv, ResultsKnown
  <2>6. OutcomeKnown(q)'
    BY <1>t, <2>1 DEF FInv, OutcomeKnown
  <2> QED
    BY <2>2, <2>3, <2>4, <2>5, <2>6 DEF FInv
<1>2. CASE LoadSnapshot(q)
  <2>1. /\ pc[q] \in {"enter", "load"} /\ pc'[q] \in {"hop", "done"}
        /\ pc'[q] = "done" => outcome'[q] = "unknown_segment"
        /\ pc'[q] = "hop" => /\ outcome'[q] = outcome[q] /\ i'[q] = 0
                             /\ snapshot'[q] = route
        /\ UNCHANGED <<attempt, conn, request_sent>>
    BY <1>2, <1>f DEF LoadSnapshot
  <2>2. \A c \in Begun(q) : c[2] < attempt[q]
    BY <1>t, <2>1 DEF FInv, CallsBehind
  <2>3. CallsBehind(q)' /\ AskedInOrder(q)'
    BY <1>0, <1>b, <2>1, <2>2 DEF CallsBehind, AskedInOrder
  <2>4. OneOpen(q)'
    BY <1>t, <1>b, <2>1 DEF FInv, OneOpen
  <2>5. InWalk(q)'
    BY <1>f, <2>1, RouteFacts, HopCount DEF InWalk
  <2>6. ResultsKnown(q)' /\ OutcomeKnown(q)'
    BY <1>t, <1>b, <2>1 DEF FInv, ResultsKnown, OutcomeKnown
  <2> QED
    BY <2>3, <2>4, <2>5, <2>6 DEF FInv
<1>3. CASE PickConnection(q) \/ SendRequest(q)
  <2>1. \/ /\ pc[q] = "hop" /\ pc'[q] = "picked" /\ i'[q] = i[q]
           /\ conn'[q] \in Conns /\ conn'[q][1] = WalkHop(q, i[q])
        \/ pc[q] \in {"hop", "picked"} /\ pc'[q] = "hop" /\ i'[q] = i[q] + 1
    <3>1. CASE PickConnection(q)
      BY <3>1, <1>f, HopAtWalks DEF PickConnection, pick
    <3>2. CASE SendRequest(q)
      <4>1. conn[q] \notin live
        <5>1. SUFFICES ASSUME SW!Begin(CallOf(q)) PROVE FALSE
          BY <3>2 DEF SendRequest
        <5>2. phase[CallOf(q)] = "idle" /\ CallOf(q) \in CallIds
          BY <3>2, <5>1, <1>t, CallOfType
          DEF SendRequest, FInv, InWalk, SW!Begin
        <5>3. phase'[CallOf(q)] = "open"
          BY <5>1, <5>2, <1>t DEF SW!Begin, TypeOK
        <5> QED
          BY <5>2, <5>3, <1>t
      <4> QED
        BY <3>2, <4>1, <1>f DEF SendRequest
    <3> QED
      BY <1>3, <3>1, <3>2
  <2>2. /\ i[q] < Len(snapshot[q])
        /\ UNCHANGED <<attempt, snapshot, request_sent, outcome>>
    BY <1>3, <1>t DEF PickConnection, SendRequest, FInv, InWalk
  <2>3. CallsBehind(q)' /\ AskedInOrder(q)'
    BY <1>t, <1>0, <1>b, <2>1, <2>2
    DEF FInv, CallsBehind, AskedInOrder, WalkHop
  <2>4. OneOpen(q)'
    BY <1>t, <1>b, <2>1 DEF FInv, OneOpen
  <2>5. InWalk(q)'
    BY <1>t, <1>0, <2>1, <2>2 DEF InWalk, WalkHop
  <2>6. ResultsKnown(q)' /\ OutcomeKnown(q)'
    BY <1>t, <1>b, <2>1, <2>2 DEF FInv, ResultsKnown, OutcomeKnown
  <2> QED
    BY <2>3, <2>4, <2>5, <2>6 DEF FInv
<1>4. CASE EndAttempt(q)
  <2>1. ~(kind[q] = "write" /\ request_sent[q])
    BY <1>4, <1>t DEF EndAttempt, FInv, OutcomeKnown
  <2>2. /\ pc[q] = "hop" /\ UNCHANGED <<snapshot, i, conn, request_sent>>
        /\ \/ /\ pc'[q] = "done" /\ outcome'[q] = "network"
              /\ attempt'[q] = attempt[q] /\ attempt[q] = MaxRetries - 1
           \/ /\ pc'[q] = "load" /\ outcome'[q] = outcome[q]
              /\ attempt'[q] = attempt[q] + 1
    BY <1>4, <1>f, <2>1 DEF EndAttempt
  <2>3. CallsBehind(q)' /\ AskedInOrder(q)'
    BY <1>t, <1>0, <1>b, <2>2
    DEF FInv, CallsBehind, AskedInOrder, WalkHop
  <2>4. OneOpen(q)' /\ InWalk(q)'
    BY <1>t, <1>b, <2>2 DEF FInv, OneOpen, InWalk
  <2>5. ResultsKnown(q)' /\ OutcomeKnown(q)'
    BY <1>t, <1>b, <2>2 DEF FInv, ResultsKnown, OutcomeKnown
  <2> QED
    BY <2>3, <2>4, <2>5 DEF FInv
<1> QED
  BY <1>1, <1>2, <1>3, <1>4

-----------------------------------------------------------------------------
(* The steps that make a call or end one *)

\* A call is made only after every earlier one was closed or, for a read,
\* failed, and on a hop that this attempt has not asked.
LEMMA CallStep ==
  ASSUME ForwarderInv, NEW q \in Requests, SendRequest(q), conn[q] \in live
  PROVE  FInv(q)' /\ WriteRetriedOnlyAfterClose' /\ HopAskedOncePerAttempt'
<1> USE DEF callVars, envVars, inputVars, Goto, Finish, NextHop
<1> DEFINE d == CallOf(q)
<1>t. /\ TypeOK /\ FInv(q) /\ clrid \in [Requests -> Clrids]
      /\ kind' = kind /\ clrid' = clrid /\ result' = result
  BY DEF ForwarderInv, SendRequest, SW!Begin
<1>0. /\ attempt[q] \in Nat /\ i[q] \in Nat /\ snapshot[q] \in Routes
      /\ Len(snapshot[q]) \in Nat /\ clrid[q] \in Nat
      /\ \A c \in Begun(q) : /\ c \in CallIds /\ c[1] = q
                             /\ c[2] \in Nat /\ c[3] \in Nat
  BY <1>t, RequestTypes
<1>d. d \in CallIds /\ d[1] = q /\ d[2] = attempt[q] /\ d[3] = i[q]
  BY <1>t, CallOfType DEF SendRequest, FInv, InWalk
<1>1. /\ pc[q] = "picked" /\ pc'[q] = "call" /\ phase[d] = "idle"
      /\ UNCHANGED <<attempt, snapshot, i, conn, request_sent, outcome>>
  BY <1>t DEF SendRequest, SW!Begin, TypeOK
<1>2. /\ phase'[d] = "open" /\ target'[d] = conn[q]
      /\ \A c \in CallIds : c # d =>
           phase'[c] = phase[c] /\ target'[c] = target[c]
  BY <1>t, <1>d DEF SendRequest, SW!Begin, TypeOK
<1> HIDE DEF d
<1>b. /\ Begun(q)' = Begun(q) \union {d} /\ d \notin Begun(q)
      /\ \A r \in Requests : r # q => Begun(r)' = Begun(r)
  BY <1>d, <1>1, <1>2 DEF Begun
<1>c. CallOf(q)' = d /\ \A k : WalkHop(q, k)' = WalkHop(q, k)
  BY <1>t, <1>1 DEF d, CallOf, WalkHop
<1>o. \A c \in Begun(q) : phase[c] = "done" /\ result[c] \in SW!Results
  BY <1>t, <1>0, <1>1
  DEF FInv, OneOpen, ResultsKnown, TypeOK, Begun
<1>3. CallsBehind(q)'
  BY <1>t, <1>0, <1>d, <1>1, <1>b DEF FInv, CallsBehind
<1>4. OneOpen(q)'
  BY <1>o, <1>0, <1>1, <1>2, <1>b, <1>c DEF OneOpen
<1>5. InWalk(q)'
  BY <1>t, <1>1 DEF FInv, InWalk
<1>w. conn[q][1] = WalkHop(q, i[q]) /\ i[q] < Len(snapshot[q])
  BY <1>t, <1>1 DEF FInv, InWalk
<1>6. AskedInOrder(q)'
  BY <1>t, <1>0, <1>d, <1>1, <1>2, <1>b, <1>c, <1>w DEF FInv, AskedInOrder
<1>7. ResultsKnown(q)'
  BY <1>t, <1>d, <1>1, <1>2 DEF FInv, ResultsKnown
<1>8. OutcomeKnown(q)'
  BY <1>t, <1>1, <1>b DEF FInv, OutcomeKnown
<1>9. WriteRetriedOnlyAfterClose'
  <2>1. SUFFICES ASSUME NEW r \in Requests, kind[r] = "write",
                        NEW c \in Begun(r)', NEW e \in Begun(r)',
                        Earlier(c, e)
                 PROVE  result[c] = "closed"
    BY <1>t DEF WriteRetriedOnlyAfterClose, Earlier
  <2>2. CASE c \in Begun(r) /\ e \in Begun(r)
    BY <2>1, <2>2 DEF ForwarderInv, WriteRetriedOnlyAfterClose
  <2>3. CASE e = d /\ c \in Begun(r)
    <3>1. r = q
      BY <2>1, <2>3, <1>d DEF Begun
    <3>2. result[c] \notin {"ok", "timeout", "validation"}
      BY <2>1, <2>3, <3>1, <1>t, <1>0, <1>1
      DEF FInv, ResultsKnown, OutcomeKnown
    <3> QED
      BY <2>3, <3>1, <3>2, <1>o DEF SW!Results
  <2>4. CASE c = d
    <3>1. r = q
      BY <2>4, <1>d, <1>b, <2>1 DEF Begun
    <3>2. e \in Begun(q) => Earlier(e, d)
      BY <1>t, <1>0, <1>d, <1>1 DEF FInv, CallsBehind, Earlier
    <3>3. ~Earlier(d, d)
      BY <1>d, <1>0 DEF Earlier
    <3>4. e \in Begun(q) => ~Earlier(d, e)
      BY <3>2, <1>d, <1>0 DEF Earlier
    <3> QED
      BY <2>1, <2>4, <3>1, <3>3, <3>4, <1>b
  <2> QED
    BY <2>1, <2>2, <2>3, <2>4, <1>b
<1>10. HopAskedOncePerAttempt'
  <2>1. SUFFICES ASSUME NEW c \in CallIds, NEW e \in CallIds,
                        c[1] = e[1], c[2] = e[2], c[3] # e[3],
                        phase'[c] # "idle", phase'[e] # "idle"
                 PROVE  target'[c][1] # target'[e][1]
    BY DEF HopAskedOncePerAttempt
  <2>2. CASE c # d /\ e # d
    BY <2>1, <2>2, <1>2 DEF ForwarderInv, HopAskedOncePerAttempt
  <2>3. ASSUME NEW x \in CallIds, x # d, x[1] = q, x[2] = attempt[q],
               x[3] # i[q], phase'[x] # "idle"
        PROVE  target'[x][1] # target'[d][1]
    <3>1. x \in Begun(q) /\ target'[x] = target[x]
      BY <2>3, <1>2 DEF Begun
    <3>2. /\ x[3] \in Nat /\ x[3] < Len(snapshot[q])
          /\ target[x][1] = WalkHop(q, x[3])
      BY <2>3, <3>1, <1>t, <1>0 DEF FInv, AskedInOrder
    <3>3. WalkHop(q, x[3]) # WalkHop(q, i[q])
      BY <2>3, <3>2, <1>0, <1>w, WalkDistinct
    <3> QED
      BY <3>1, <3>2, <3>3, <1>2, <1>w
  <2> QED
    BY <2>1, <2>2, <2>3, <1>d
<1> QED
  BY <1>3, <1>4, <1>5, <1>6, <1>7, <1>8, <1>9, <1>10 DEF FInv

\* When a call returns, the request ends or the walk goes on.
LEMMA ReturnStep ==
  ASSUME ForwarderInv, NEW q \in Requests,
         OnResponse(q) \/ OnConnectionClosed(q) \/ OnOtherError(q)
  PROVE  FInv(q)' /\ WriteRetriedOnlyAfterClose' /\ HopAskedOncePerAttempt'
<1> USE DEF callVars, envVars, inputVars, Goto, Finish, NextHop
<1> DEFINE d == CallOf(q)
<1>t. /\ TypeOK /\ FInv(q) /\ clrid \in [Requests -> Clrids]
      /\ kind \in [Requests -> {"local", "read", "write"}]
      /\ kind' = kind /\ clrid' = clrid /\ target' = target
  BY DEF ForwarderInv, OnResponse, OnConnectionClosed, OnOtherError
<1>0. /\ attempt[q] \in Nat /\ i[q] \in Nat /\ snapshot[q] \in Routes
      /\ Len(snapshot[q]) \in Nat
      /\ \A c \in Begun(q) : /\ c \in CallIds /\ c[1] = q
                             /\ c[2] \in Nat /\ c[3] \in Nat
  BY <1>t, RequestTypes
<1>1. PICK res \in SW!Results :
        /\ pc[q] = "call" /\ SW!Return(d, res)
        /\ UNCHANGED <<attempt, snapshot, conn>>
        /\ \/ /\ res = "ok" /\ pc'[q] = "done" /\ outcome'[q] = "ok"
              /\ UNCHANGED <<i, request_sent>>
           \/ /\ res = "closed" /\ pc'[q] = "hop" /\ i'[q] = i[q] + 1
              /\ UNCHANGED <<outcome, request_sent>>
           \/ /\ res \in {"timeout", "validation"} /\ kind[q] = "write"
              /\ pc'[q] = "done" /\ outcome'[q] = "timeout" /\ i' = i
           \/ /\ res \in {"timeout", "validation"} /\ kind[q] # "write"
              /\ pc'[q] = "hop" /\ i'[q] = i[q] + 1 /\ outcome' = outcome
  <2> USE DEF SW!Results, TypeOK
  <2>1. CASE OnResponse(q)
    BY <2>1, <1>t DEF OnResponse
  <2>2. CASE OnConnectionClosed(q)
    BY <2>2, <1>t DEF OnConnectionClosed
  <2>3. CASE OnOtherError(q)
    <3>1. PICK r \in {"timeout", "validation"} : SW!Return(CallOf(q), r)
      BY <2>3 DEF OnOtherError
    <3>2. CASE kind[q] = "write"
      BY <2>3, <3>1, <3>2, <1>t DEF OnOtherError
    <3>3. CASE kind[q] # "write"
      BY <2>3, <3>1, <3>3, <1>t DEF OnOtherError
    <3> QED
      BY <3>2, <3>3
  <2> QED
    BY <2>1, <2>2, <2>3
<1>d. /\ d \in CallIds /\ d[1] = q /\ d[2] = attempt[q] /\ d[3] = i[q]
      /\ i[q] < Len(snapshot[q])
  BY <1>t, <1>1, CallOfType DEF FInv, InWalk
<1>2. /\ phase[d] = "open" /\ phase'[d] = "done" /\ result'[d] = res
      /\ \A c \in CallIds : c # d =>
           phase'[c] = phase[c] /\ result'[c] = result[c]
  BY <1>t, <1>1, <1>d DEF SW!Return, TypeOK
<1> HIDE DEF d
<1>b. /\ d \in Begun(q) /\ \A r : Begun(r)' = Begun(r)
      /\ \A c \in Begun(q) : phase'[c] # "open"
  <2>1. d \in Begun(q) /\ \A r : Begun(r)' = Begun(r)
    BY <1>d, <1>2 DEF Begun
  <2>2. \A c \in Begun(q) : phase'[c] # "open"
    BY <1>t, <1>0, <1>2 DEF d, FInv, OneOpen
  <2> QED
    BY <2>1, <2>2
<1>c. \A k : WalkHop(q, k)' = WalkHop(q, k)
  BY <1>t, <1>1 DEF WalkHop
<1>3. CallsBehind(q)'
  BY <1>t, <1>0, <1>1, <1>b DEF FInv, CallsBehind
<1>4. OneOpen(q)'
  BY <1>1, <1>b DEF OneOpen
<1>5. InWalk(q)'
  BY <1>0, <1>1, <1>d DEF InWalk
<1>6. AskedInOrder(q)'
  BY <1>t, <1>1, <1>b, <1>c DEF FInv, AskedInOrder
<1>7. ResultsKnown(q)'
  <2>1. res # "none"
    BY DEF SW!Results
  <2>2. outcome[q] = "none"
    BY <1>t, <1>1 DEF FInv, OutcomeKnown
  <2> QED
    BY <1>t, <1>1, <1>2, <2>1, <2>2 DEF FInv, ResultsKnown
<1>8. OutcomeKnown(q)'
  <2>1. outcome[q] = "none" /\ (kind[q] = "write" => ~request_sent[q])
    BY <1>t, <1>1 DEF FInv, OutcomeKnown
  <2> QED
    BY <1>t, <1>1, <1>2, <1>b, <2>1 DEF OutcomeKnown
<1>9. WriteRetriedOnlyAfterClose'
  <2>1. SUFFICES ASSUME NEW r \in Requests, kind[r] = "write",
                        NEW c \in Begun(r), NEW e \in Begun(r),
                        Earlier(c, e)
                 PROVE  result'[c] = "closed"
    BY <1>t, <1>b DEF WriteRetriedOnlyAfterClose, Earlier
  <2>2. result[c] = "closed"
    BY <2>1 DEF ForwarderInv, WriteRetriedOnlyAfterClose
  <2>3. result[d] = "none"
    BY <1>t, <1>2, <1>d DEF FInv, ResultsKnown
  <2> QED
    BY <2>2, <2>3, <1>2 DEF Begun
<1>10. HopAskedOncePerAttempt'
  <2>1. \A c \in CallIds : phase'[c] # "idle" => phase[c] # "idle"
    BY <1>2
  <2> QED
    BY <1>t, <2>1 DEF ForwarderInv, HopAskedOncePerAttempt
<1> QED
  BY <1>3, <1>4, <1>5, <1>6, <1>7, <1>8, <1>9, <1>10 DEF FInv

-----------------------------------------------------------------------------
(* Types *)

\* A step of forward stays within its bounds: the inner loop ends at the end
\* of the list, the outer one after MaxRetries attempts.
LEMMA TypeNext ==
  ASSUME TypeOK, \A q \in Requests : FInv(q), [Next]_vars
  PROVE  TypeOK'
<1> USE DEF callVars, envVars, inputVars, Goto, Finish, NextHop, TypeOK
<1>1. ASSUME NEW q \in Requests,
             \/ i' = i \/ i' = [i EXCEPT ![q] = 0]
             \/ i[q] < Len(snapshot[q]) /\ i' = [i EXCEPT ![q] = @ + 1]
      PROVE  i' \in [Requests -> 0 .. MaxHops]
  <2>1. i \in [Requests -> 0 .. MaxHops] /\ Len(snapshot[q]) \in 0 .. MaxHops
    BY RouteFacts
  <2>2. 0 \in 0 .. MaxHops
    BY HopCount
  <2>3. i[q] < Len(snapshot[q]) => i[q] + 1 \in 0 .. MaxHops
    BY <2>1, HopCount
  <2> HIDE DEF TypeOK
  <2> QED
    BY <1>1, <2>1, <2>2, <2>3
<1>2. ASSUME NEW q \in Requests, AnswerLocally(q) PROVE TypeOK'
  BY <1>2 DEF AnswerLocally
<1>3. ASSUME NEW q \in Requests, LoadSnapshot(q) PROVE TypeOK'
  <2>1. i' \in [Requests -> 0 .. MaxHops]
    BY <1>3, <1>1 DEF LoadSnapshot
  <2> QED
    BY <1>3, <2>1 DEF LoadSnapshot
<1>4. ASSUME NEW q \in Requests, PickConnection(q) PROVE TypeOK'
  <2>1. i' \in [Requests -> 0 .. MaxHops]
    BY <1>4, <1>1 DEF PickConnection
  <2> QED
    <3>1. conn' \in [Requests -> Conns \union {NoConn}]
      BY <1>4 DEF PickConnection, pick
    <3>2. pc' = [pc EXCEPT ![q] = "picked"] \/ pc' = [pc EXCEPT ![q] = "hop"]
      BY <1>4 DEF PickConnection
    <3> QED
      BY <1>4, <2>1, <3>1, <3>2 DEF PickConnection
<1>5. ASSUME NEW q \in Requests, SendRequest(q) PROVE TypeOK'
  <2>1. i' \in [Requests -> 0 .. MaxHops]
    <3>1. i[q] < Len(snapshot[q])
      BY <1>5 DEF SendRequest, FInv, InWalk
    <3> QED
      BY <1>5, <1>1, <3>1 DEF SendRequest
  <2> QED
    BY <1>5, <2>1 DEF SendRequest, SW!Begin
<1>6. ASSUME NEW q \in Requests,
             OnResponse(q) \/ OnConnectionClosed(q) \/ OnOtherError(q)
      PROVE  TypeOK'
  <2>1. i' \in [Requests -> 0 .. MaxHops]
    <3>1. i[q] < Len(snapshot[q])
      BY <1>6 DEF OnResponse, OnConnectionClosed, OnOtherError, FInv, InWalk
    <3> QED
      BY <1>6, <1>1, <3>1 DEF OnResponse, OnConnectionClosed, OnOtherError
  <2>2. PICK res \in SW!Results : SW!Return(CallOf(q), res)
    BY <1>6 DEF OnResponse, OnConnectionClosed, OnOtherError, SW!Results
  <2>3. /\ phase' \in [CallIds -> {"idle", "open", "done"}]
        /\ result' \in [CallIds -> SW!Results \union {"none"}]
        /\ UNCHANGED <<sent, executed>>
    BY <2>2 DEF SW!Return
  <2>4. CASE OnResponse(q)
    BY <2>1, <2>3, <2>4 DEF OnResponse
  <2>5. CASE OnConnectionClosed(q)
    BY <2>1, <2>3, <2>5 DEF OnConnectionClosed
  <2>6. CASE OnOtherError(q)
    BY <2>1, <2>3, <2>6 DEF OnOtherError
  <2> QED
    BY <1>6, <2>4, <2>5, <2>6
<1>7. ASSUME NEW q \in Requests, EndAttempt(q) PROVE TypeOK'
  <2>1. attempt[q] \in 0 .. MaxRetries - 1 /\ MaxRetries \in Nat
    BY ForwarderAssumption
  <2>2. attempt[q] # MaxRetries - 1 => attempt[q] + 1 \in 0 .. MaxRetries - 1
    BY <2>1
  <2>3. attempt' \in [Requests -> 0 .. MaxRetries - 1]
    BY <1>7, <2>2 DEF EndAttempt
  <2> QED
    BY <1>7, <2>3 DEF EndAttempt
<1>8. ASSUME ConnectionStep PROVE TypeOK'
  <2>1. PICK c \in CallIds : SW!Accept(c) \/ SW!Execute(c)
    BY <1>8 DEF ConnectionStep
  <2>2. /\ sent' \in [CallIds -> BOOLEAN]
        /\ executed' \in [CallIds -> 0 .. 1]
        /\ UNCHANGED <<phase, result>>
    <3>1. sent' \in [CallIds -> BOOLEAN]
      BY <2>1 DEF SW!Accept, SW!Execute
    <3>2. executed' \in [CallIds -> 0 .. 1]
      <4>1. 1 \in 0 .. 1 /\ executed \in [CallIds -> 0 .. 1]
        OBVIOUS
      <4>2. executed' = executed \/ executed' = [executed EXCEPT ![c] = 1]
        BY <2>1 DEF SW!Accept, SW!Execute
      <4> QED
        BY <4>1, <4>2
    <3> QED
      BY <2>1, <3>1, <3>2 DEF SW!Accept, SW!Execute
  <2> QED
    BY <1>8, <2>2 DEF ConnectionStep
<1>9. ASSUME RefreshStep \/ MaintenanceStep \/ UNCHANGED vars PROVE TypeOK'
  BY <1>9 DEF RefreshStep, MaintenanceStep, vars
<1> QED
  BY <1>2, <1>3, <1>4, <1>5, <1>6, <1>7, <1>8, <1>9 DEF Next, ForwardStep

-----------------------------------------------------------------------------
(* The invariant *)

\* A step of one request changes nothing of another.
LEMMA OthersSame ==
  ASSUME ForwarderInv, NEW q \in Requests, ForwardStep(q),
         NEW r \in Requests, r # q
  PROVE  Same(r)
<1> USE DEF callVars, envVars, inputVars, Goto, Finish, NextHop
<1>t. TypeOK
  BY DEF ForwarderInv
<1>1. \A c \in CallIds : c[1] = r => c # CallOf(q)
  BY DEF CallOf
<1>2. ASSUME AnswerLocally(q) \/ LoadSnapshot(q) \/ PickConnection(q)
             \/ EndAttempt(q)
      PROVE  Same(r)
  BY <1>2, <1>t
  DEF Same, AnswerLocally, LoadSnapshot, PickConnection, EndAttempt, TypeOK
<1>3. ASSUME SendRequest(q) PROVE Same(r)
  BY <1>1, <1>3, <1>t DEF Same, SendRequest, SW!Begin, TypeOK
<1>4. ASSUME OnResponse(q) \/ OnConnectionClosed(q) \/ OnOtherError(q)
      PROVE  Same(r)
  <2>1. PICK res : SW!Return(CallOf(q), res)
    BY <1>4 DEF OnResponse, OnConnectionClosed, OnOtherError
  <2>2. \A c \in CallIds : c[1] = r =>
          phase'[c] = phase[c] /\ result'[c] = result[c]
    BY <1>1, <2>1, <1>t DEF SW!Return, TypeOK
  <2> QED
    BY <1>4, <2>2, <1>t
    DEF Same, OnResponse, OnConnectionClosed, OnOtherError, TypeOK
<1> QED
  BY <1>2, <1>3, <1>4 DEF ForwardStep

\* Nothing holds of a request that has not begun.
LEMMA ForwarderInvInit == Init => ForwarderInv
<1> SUFFICES ASSUME Init PROVE ForwarderInv
  OBVIOUS
<1>0. MaxHops \in Nat /\ MaxRetries \in Nat \ {0}
  BY HopCount, ForwarderAssumption
<1>1. <<>> \in Routes
  <2>1. <<>> \in [1 .. 0 -> Hops] /\ 0 \in 0 .. MaxHops
    BY <1>0
  <2> QED
    BY <2>1 DEF Routes
<1>2. TypeOK
  BY <1>0, <1>1 DEF Init, SW!Init, TypeOK
<1>3. \A q \in Requests : Begun(q) = {}
  BY DEF Init, SW!Init, Begun
<1>4. ASSUME NEW q \in Requests PROVE FInv(q)
  <2>1. pc[q] = "enter" /\ outcome[q] = "none" /\ ~request_sent[q]
    BY DEF Init
  <2>2. ResultsKnown(q)
    BY DEF Init, SW!Init, ResultsKnown
  <2> QED
    BY <1>3, <2>1, <2>2
    DEF FInv, CallsBehind, OneOpen, InWalk, AskedInOrder, OutcomeKnown
<1>5. WriteRetriedOnlyAfterClose
  BY <1>3 DEF WriteRetriedOnlyAfterClose
<1>6. HopAskedOncePerAttempt
  BY DEF Init, SW!Init, HopAskedOncePerAttempt
<1> QED
  BY <1>2, <1>4, <1>5, <1>6 DEF Init, ForwarderInv

\* Every step preserves the invariant.
LEMMA ForwarderInvNext == ForwarderInv /\ [Next]_vars => ForwarderInv'
<1> SUFFICES ASSUME ForwarderInv, [Next]_vars PROVE ForwarderInv'
  OBVIOUS
<1> USE DEF callVars, envVars, inputVars
<1>1. TypeOK'
  BY TypeNext DEF ForwarderInv
<1>2. UNCHANGED <<kind, clrid>>
  BY DEF Next, ForwardStep, AnswerLocally, LoadSnapshot, PickConnection,
         SendRequest, OnResponse, OnConnectionClosed, OnOtherError, EndAttempt,
         ConnectionStep, RefreshStep, MaintenanceStep, vars
<1>s. SUFFICES /\ \A q \in Requests : FInv(q)'
               /\ WriteRetriedOnlyAfterClose' /\ HopAskedOncePerAttempt'
  BY <1>1, <1>2 DEF ForwarderInv
<1>3. ASSUME NEW q \in Requests, ForwardStep(q)
      PROVE  /\ \A r \in Requests : FInv(r)'
             /\ WriteRetriedOnlyAfterClose' /\ HopAskedOncePerAttempt'
  <2>1. \A r \in Requests : r # q => FInv(r)'
    BY <1>3, OthersSame, SameKeeps DEF ForwarderInv
  <2>2. CASE SendRequest(q) /\ conn[q] \in live
    BY <2>1, <2>2, CallStep
  <2>3. CASE OnResponse(q) \/ OnConnectionClosed(q) \/ OnOtherError(q)
    BY <2>1, <2>3, ReturnStep
  <2>4. CASE \/ AnswerLocally(q) \/ LoadSnapshot(q) \/ PickConnection(q)
             \/ (SendRequest(q) /\ conn[q] \notin live) \/ EndAttempt(q)
    <3>1. UNCHANGED <<target, callVars>>
      BY <2>4
      DEF AnswerLocally, LoadSnapshot, PickConnection, SendRequest, EndAttempt
    <3>2. FInv(q)'
      BY <2>4, <3>1, QuietStep
    <3> QED
      BY <2>1, <3>1, <3>2, <1>2, PairsKept DEF ForwarderInv
  <2> QED
    BY <1>3, <2>2, <2>3, <2>4 DEF ForwardStep
<1>4. ASSUME ConnectionStep \/ RefreshStep \/ MaintenanceStep \/ UNCHANGED vars
      PROVE  /\ \A r \in Requests : FInv(r)'
             /\ WriteRetriedOnlyAfterClose' /\ HopAskedOncePerAttempt'
  <2>1. UNCHANGED <<phase, result, target, pc, attempt, snapshot, i, conn,
                    request_sent, outcome>>
    BY <1>4
    DEF ConnectionStep, RefreshStep, MaintenanceStep, vars, SW!Accept,
        SW!Execute
  <2>2. \A r \in Requests : Same(r)
    BY <2>1, <1>2 DEF Same
  <2>3. \A r \in Requests : FInv(r)'
    BY <2>2, SameKeeps DEF ForwarderInv
  <2> QED
    BY <2>1, <2>3, <1>2, PairsKept DEF ForwarderInv
<1> QED
  BY <1>3, <1>4 DEF Next

\* ForwarderInv is an invariant.
LEMMA ForwarderInvAlways == Spec => []ForwarderInv
BY ForwarderInvInit, ForwarderInvNext, PTL DEF Spec

-----------------------------------------------------------------------------
(* Theorems *)

\* Types: the two loops of forward stay within their bounds, whatever the
\* length of the hop list and the client's correlation id.
THEOREM TypeCorrect == Spec => []TypeOK
<1>1. ForwarderInv => TypeOK
  BY DEF ForwarderInv
<1> QED
  BY <1>1, ForwarderInvAlways, PTL

\* A write is made again only after its earlier calls, on any hop and in any
\* attempt, ended with ConnectionClosed.
THEOREM WritesNotRepeated == Spec => []WriteRetriedOnlyAfterClose
<1>1. ForwarderInv => WriteRetriedOnlyAfterClose
  BY DEF ForwarderInv
<1> QED
  BY <1>1, ForwarderInvAlways, PTL

\* No hop is asked twice in one attempt.
THEOREM WalkVisitsOnce == Spec => []HopAskedOncePerAttempt
<1>1. ForwarderInv => HopAskedOncePerAttempt
  BY DEF ForwarderInv
<1> QED
  BY <1>1, ForwarderInvAlways, PTL

\* What forward returns is what its calls returned.
THEOREM OutcomeTrue == Spec => []OutcomeExplained
<1>1. ForwarderInv => OutcomeExplained
  <2> SUFFICES ASSUME ForwarderInv, NEW q \in Requests, kind[q] # "local"
               PROVE  /\ outcome[q] = "ok" <=>
                           {c \in Begun(q) : result[c] = "ok"} # {}
                      /\ outcome[q] = "timeout" =>
                           /\ kind[q] = "write"
                           /\ \E c \in Begun(q) :
                                result[c] \in {"timeout", "validation"}
                      /\ outcome[q] = "network" => attempt[q] = MaxRetries - 1
                      /\ outcome[q] # "none" =>
                           \A c \in Begun(q) : phase[c] = "done"
    BY DEF OutcomeExplained
  <2>1. FInv(q) /\ TypeOK
    BY DEF ForwarderInv
  <2>2. \A c \in Begun(q) : /\ c \in CallIds /\ c[1] = q
                            /\ phase[c] \in {"open", "done"}
    BY <2>1 DEF Begun, TypeOK
  <2> QED
    BY <2>1, <2>2 DEF FInv, OutcomeKnown, ResultsKnown, OneOpen
<1> QED
  BY <1>1, ForwarderInvAlways, PTL
=============================================================================
