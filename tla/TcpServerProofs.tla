--------------------------- MODULE TcpServerProofs ---------------------------
(***************************************************************************)
(* Proofs about TcpServer, for any number of clients and any connection    *)
(* limit: the counter that one task increments and another decrements      *)
(* neither loses a slot nor gives one back twice, and so keeps the limit.  *)
(***************************************************************************)
EXTENDS TcpServer, FiniteSetTheorems, TLAPS

States == {"away", "backlog", "open", "ended"}

\* How many connections are in a state.
Count(f, state) == Cardinality({c \in Conns : f[c] = state})

\* A count is a natural number.
LEMMA CountType ==
  ASSUME NEW f, NEW state
  PROVE  IsFiniteSet({c \in Conns : f[c] = state}) /\ Count(f, state) \in Nat
<1>1. IsFiniteSet({c \in Conns : f[c] = state})
  BY TcpServerAssumption, FS_Subset
<1> QED
  BY <1>1, FS_CardinalityType DEF Count

\* A connection that changes its state leaves one count and enters another.
LEMMA CountMoves ==
  ASSUME NEW f \in [Conns -> States], NEW c \in Conns, NEW b \in States,
         f[c] # b, NEW g, g[c] = b, \A x \in Conns : x # c => g[x] = f[x]
  PROVE  /\ Count(g, b) = Count(f, b) + 1
         /\ Count(g, f[c]) = Count(f, f[c]) - 1
         /\ \A d \in States : d # b /\ d # f[c] => Count(g, d) = Count(f, d)
<1> DEFINE S(h, d) == {x \in Conns : h[x] = d}
<1>1. Count(g, b) = Count(f, b) + 1
  <2>1. S(g, b) = S(f, b) \union {c} /\ c \notin S(f, b)
    OBVIOUS
  <2>2. IsFiniteSet(S(f, b))
    BY CountType
  <2> QED
    BY <2>1, <2>2, FS_AddElement DEF Count
<1>2. Count(g, f[c]) = Count(f, f[c]) - 1
  <2>1. S(g, f[c]) = S(f, f[c]) \ {c} /\ c \in S(f, f[c])
    OBVIOUS
  <2>2. IsFiniteSet(S(f, f[c]))
    BY CountType
  <2> HIDE DEF S
  <2>3. Cardinality(S(f, f[c]) \ {c}) = Cardinality(S(f, f[c])) - 1
    BY <2>1, <2>2, FS_RemoveElement
  <2> QED
    BY <2>1, <2>3 DEF Count, S
<1>3. ASSUME NEW d \in States, d # b, d # f[c] PROVE Count(g, d) = Count(f, d)
  <2>1. S(g, d) = S(f, d)
    BY <1>3
  <2> QED
    BY <2>1 DEF Count
<1> QED
  BY <1>1, <1>2, <1>3

-----------------------------------------------------------------------------
\* The counts are those of SlotsAccounted, before and after a step.
LEMMA CountsAreIn ==
  /\ \A state : Cardinality(In(state)) = Count(conn, state)
  /\ \A state : Cardinality(In(state))' = Count(conn', state)
BY DEF In, Count

\* SlotsAccounted in terms of the counts; outside of the serving phase there
\* is no handler, the runtime being gone or the listener not yet bound.
Accounted ==
  LET handlers == Count(conn, "open") + Count(conn, "ended") IN
  phase # "exited" =>
    /\ active >= handlers + closes
    /\ closer => active = handlers + closes

NoHandlers ==
  phase # "serving" => \A c \in Conns : conn[c] \notin {"open", "ended"}

SInv == TypeOK /\ Accounted /\ NoHandlers

\* SlotsAccounted is Accounted.
LEMMA AccountedIsSlots == Accounted <=> SlotsAccounted
BY CountsAreIn DEF Accounted, SlotsAccounted

\* The types, written so that the provers see the arithmetic.
Numbers ==
  /\ active \in Nat /\ active <= max_connections
  /\ closes \in Nat /\ closes <= max_connections

Flags ==
  /\ phase \in {"codecs", "bind", "serving", "exited"}
  /\ cancelled \in BOOLEAN /\ closer \in BOOLEAN
  /\ heartbeat \in BOOLEAN /\ registered \in BOOLEAN /\ calm \in BOOLEAN

\* The parts make up TypeOK, before and after a step.
LEMMA Parts ==
  /\ TypeOK <=> Flags /\ Numbers /\ conn \in [Conns -> States]
  /\ TypeOK' <=> Flags' /\ Numbers' /\ conn' \in [Conns -> States]
BY TcpServerAssumption DEF TypeOK, Flags, Numbers, States

\* Initially nobody is connected and nothing is counted.
LEMMA SInvInit == Init => SInv
<1> SUFFICES ASSUME Init PROVE SInv
  OBVIOUS
<1>1. TypeOK /\ NoHandlers
  <2>1. Flags
    BY DEF Init, Flags
  <2>3. Numbers
    BY TcpServerAssumption DEF Init, Numbers
  <2>2. conn \in [Conns -> States] /\ NoHandlers
    BY DEF Init, States, NoHandlers
  <2> QED
    BY <2>1, <2>2, <2>3, Parts
<1>2. {c \in Conns : conn[c] = "open"} = {}
  BY DEF Init
<1>3. {c \in Conns : conn[c] = "ended"} = {}
  BY DEF Init
<1>4. Accounted
  BY <1>2, <1>3, FS_EmptySet DEF Init, Accounted, Count
<1> QED
  BY <1>1, <1>4 DEF SInv

\* A slot is taken with the accept, and given back once, by the closer, for
\* each handler that has returned.
LEMMA SInvNext == SInv /\ [Next]_vars => SInv'
<1> SUFFICES ASSUME SInv, [Next]_vars PROVE SInv'
  OBVIOUS
<1> USE DEF netVars, regVars
<1>t. /\ Flags /\ Numbers /\ conn \in [Conns -> States]
      /\ Accounted /\ NoHandlers
  BY Parts DEF SInv
<1>n. \A s \in States : Count(conn, s) \in Nat /\ Count(conn', s) \in Nat
  BY CountType
<1>e. /\ "away" \in States /\ "backlog" \in States
      /\ "open" \in States /\ "ended" \in States
  BY DEF States
<1>0. max_connections \in Nat
  BY TcpServerAssumption
<1>s. SUFFICES /\ Flags' /\ Numbers' /\ conn' \in [Conns -> States]
               /\ Accounted' /\ NoHandlers'
  BY Parts DEF SInv
<1>1. ASSUME NEW c \in Conns, Accept(c)
      PROVE  /\ Flags' /\ Numbers' /\ conn' \in [Conns -> States]
             /\ Accounted' /\ NoHandlers'
  <2>1. Flags' /\ Numbers' /\ conn' \in [Conns -> States] /\ NoHandlers'
    BY <1>1, <1>t, <1>0
    DEF Accept, LimitReached, Flags, Numbers, NoHandlers, States
  <2>2. /\ Count(conn', "open") = Count(conn, "open") + 1
        /\ Count(conn', "ended") = Count(conn, "ended")
    <3>1. conn[c] = "backlog" /\ conn' = [conn EXCEPT ![c] = "open"]
      BY <1>1 DEF Accept
    <3>2. conn'[c] = "open" /\ \A x \in Conns : x # c => conn'[x] = conn[x]
      BY <3>1, <1>t
    <3>3. /\ Count(conn', "open") = Count(conn, "open") + 1
          /\ Count(conn', conn[c]) = Count(conn, conn[c]) - 1
          /\ \A d \in States : d # "open" /\ d # conn[c] =>
               Count(conn', d) = Count(conn, d)
      <4>1. conn[c] # "open"
        BY <3>1
      <4> QED
        BY <3>2, <4>1, <1>t, <1>e, CountMoves
    <3> QED
      BY <3>1, <3>3, <1>e
  <2>3. Accounted'
    BY <1>1, <1>t, <1>n, <2>2 DEF Accept, Accounted, Numbers, States
  <2> QED
    BY <2>1, <2>3
<1>2. ASSUME NEW c \in Conns, HandlerReturns(c)
      PROVE  /\ Flags' /\ Numbers' /\ conn' \in [Conns -> States]
             /\ Accounted' /\ NoHandlers'
  <2>1. Flags' /\ Numbers' /\ conn' \in [Conns -> States] /\ NoHandlers'
    BY <1>2, <1>t DEF HandlerReturns, Flags, Numbers, NoHandlers, States
  <2>2. /\ Count(conn', "open") = Count(conn, "open") - 1
        /\ Count(conn', "ended") = Count(conn, "ended") + 1
    <3>1. conn[c] = "open" /\ conn' = [conn EXCEPT ![c] = "ended"]
      BY <1>2 DEF HandlerReturns
    <3>2. conn'[c] = "ended" /\ \A x \in Conns : x # c => conn'[x] = conn[x]
      BY <3>1, <1>t
    <3>3. /\ Count(conn', "ended") = Count(conn, "ended") + 1
          /\ Count(conn', conn[c]) = Count(conn, conn[c]) - 1
          /\ \A d \in States : d # "ended" /\ d # conn[c] =>
               Count(conn', d) = Count(conn, d)
      <4>1. conn[c] # "ended"
        BY <3>1
      <4> QED
        BY <3>2, <4>1, <1>t, <1>e, CountMoves
    <3> QED
      BY <3>1, <3>3, <1>e
  <2>3. Accounted'
    BY <1>2, <1>t, <1>n, <2>2 DEF HandlerReturns, Accounted, Numbers, States
  <2> QED
    BY <2>1, <2>3
<1>3. ASSUME NEW c \in Conns, CloseSent(c)
      PROVE  /\ Flags' /\ Numbers' /\ conn' \in [Conns -> States]
             /\ Accounted' /\ NoHandlers'
  <2>1. Flags' /\ conn' \in [Conns -> States] /\ NoHandlers'
    BY <1>3, <1>t DEF CloseSent, Flags, NoHandlers, States
  <2>2. /\ Count(conn', "open") = Count(conn, "open")
        /\ Count(conn', "ended") = Count(conn, "ended") - 1
    <3>1. conn[c] = "ended" /\ conn' = [conn EXCEPT ![c] = "away"]
      BY <1>3 DEF CloseSent
    <3>2. conn'[c] = "away" /\ \A x \in Conns : x # c => conn'[x] = conn[x]
      BY <3>1, <1>t
    <3>3. /\ Count(conn', "away") = Count(conn, "away") + 1
          /\ Count(conn', conn[c]) = Count(conn, conn[c]) - 1
          /\ \A d \in States : d # "away" /\ d # conn[c] =>
               Count(conn', d) = Count(conn, d)
      <4>1. conn[c] # "away"
        BY <3>1
      <4> QED
        BY <3>2, <4>1, <1>t, <1>e, CountMoves
    <3> QED
      BY <3>1, <3>3, <1>e
  <2>3. Accounted'
    BY <1>3, <1>t, <1>n, <2>2 DEF CloseSent, Accounted, Numbers, States
  <2>4. Numbers'
    BY <1>3, <1>t, <1>n, <1>0, <2>2 DEF CloseSent, Accounted, Numbers, States
  <2> QED
    BY <2>1, <2>3, <2>4
<1>4. ASSUME NEW c \in Conns, Connect(c) \/ Refuse(c)
      PROVE  /\ Flags' /\ Numbers' /\ conn' \in [Conns -> States]
             /\ Accounted' /\ NoHandlers'
  <2>1. Flags' /\ Numbers' /\ conn' \in [Conns -> States] /\ NoHandlers'
    BY <1>4, <1>t DEF Connect, Refuse, Flags, Numbers, NoHandlers, States
  <2>2. /\ Count(conn', "open") = Count(conn, "open")
        /\ Count(conn', "ended") = Count(conn, "ended")
    <3>1. PICK b \in {"away", "backlog"} :
            /\ conn[c] \in {"away", "backlog"} \ {b}
            /\ conn' = [conn EXCEPT ![c] = b]
      BY <1>4 DEF Connect, Refuse
    <3>2. b \in States /\ conn[c] # b
      BY <1>e, <3>1
    <3>3. /\ "open" # b /\ "open" # conn[c] /\ "ended" # b
          /\ "ended" # conn[c]
      BY <3>1
    <3>4. conn'[c] = b /\ \A x \in Conns : x # c => conn'[x] = conn[x]
      BY <3>1, <1>t
    <3> QED
      BY <3>2, <3>3, <3>4, <1>t, <1>e, CountMoves
  <2>3. Accounted'
    BY <1>4, <1>t, <2>2 DEF Connect, Refuse, Accounted
  <2> QED
    BY <2>1, <2>3
<1>5. ASSUME CloserRecv \/ CloserStops
      PROVE  /\ Flags' /\ Numbers' /\ conn' \in [Conns -> States]
             /\ Accounted' /\ NoHandlers'
  <2>1. Flags' /\ conn' \in [Conns -> States] /\ NoHandlers'
    BY <1>5, <1>t DEF CloserRecv, CloserStops, Flags, NoHandlers
  <2>2. Numbers'
    BY <1>5, <1>t, <1>n, <1>0
    DEF CloserRecv, CloserStops, Accounted, Numbers, States
  <2>3. Accounted'
    BY <1>5, <1>t, <1>n
    DEF CloserRecv, CloserStops, Accounted, Numbers, States
  <2> QED
    BY <2>1, <2>2, <2>3
<1>6. ASSUME Exit
      PROVE  /\ Flags' /\ Numbers' /\ conn' \in [Conns -> States]
             /\ Accounted' /\ NoHandlers'
  BY <1>6, <1>t
  DEF Exit, Flags, Numbers, Accounted, NoHandlers, States
<1>7. ASSUME UNCHANGED netVars, phase' # phase => phase \in {"codecs", "bind"},
             phase' \in {phase, "bind", "serving"}, Flags'
      PROVE  /\ Flags' /\ Numbers' /\ conn' \in [Conns -> States]
             /\ Accounted' /\ NoHandlers'
  BY <1>7, <1>t DEF Numbers, Accounted, NoHandlers, Flags
<1>8. ASSUME \/ (FetchCodecs /\ ~Exit) \/ (Bind /\ ~Exit) \/ Cancel
             \/ SendHeartbeat \/ HeartbeatStops \/ Expire \/ Calms
             \/ UNCHANGED vars
      PROVE  /\ Flags' /\ Numbers' /\ conn' \in [Conns -> States]
             /\ Accounted' /\ NoHandlers'
  <2>1. /\ UNCHANGED netVars
        /\ phase' # phase => phase \in {"codecs", "bind"}
        /\ phase' \in {phase, "bind", "serving"}
    BY <1>8
    DEF FetchCodecs, Bind, Cancel, SendHeartbeat, HeartbeatStops, Expire,
        Calms, vars
  <2>2. Flags'
    BY <1>8, <1>t
    DEF FetchCodecs, Bind, Cancel, SendHeartbeat, HeartbeatStops, Expire,
        Calms, vars, Flags
  <2> QED
    BY <1>7, <2>1, <2>2
<1> QED
  BY <1>1, <1>2, <1>3, <1>4, <1>5, <1>6, <1>8
  DEF Next, MainStep, FetchCodecs, Bind, Shutdown

\* SInv is an invariant.
LEMMA SInvAlways == Spec => []SInv
BY SInvInit, SInvNext, PTL DEF Spec

-----------------------------------------------------------------------------
\* Types; in particular the usize counter is never decremented below zero, and
\* never exceeds the limit.
THEOREM TypeCorrect == Spec => []TypeOK
<1>1. SInv => TypeOK
  BY DEF SInv
<1> QED
  BY <1>1, SInvAlways, PTL

\* As long as the closer task runs, the counter is exactly the number of
\* handlers and of the close messages under way, for any interleaving of
\* accepts, returns and closes; afterwards it is never too small.
THEOREM CounterCorrect == Spec => []SlotsAccounted
<1>1. SInv => SlotsAccounted
  BY AccountedIsSlots DEF SInv
<1> QED
  BY <1>1, SInvAlways, PTL

\* There are never more handlers than max_connections.
THEOREM LimitHolds == Spec => []LimitKept
<1>1. SInv => LimitKept
  <2> SUFFICES ASSUME SInv PROVE LimitKept
    OBVIOUS
  <2> DEFINE O == In("open")
             E == In("ended")
  <2>t. /\ Numbers /\ conn \in [Conns -> States] /\ Accounted /\ NoHandlers
        /\ max_connections \in Nat
    BY Parts, TcpServerAssumption DEF SInv
  <2>1. IsFiniteSet(O) /\ IsFiniteSet(E) /\ O \intersect E = {}
    BY CountType DEF In
  <2>2. Cardinality(O) \in Nat /\ Cardinality(E) \in Nat
    BY <2>1, FS_CardinalityType
  <2> HIDE DEF O, E
  <2>3. Cardinality(O \union E) = Cardinality(O) + Cardinality(E)
    <3>1. Cardinality(O \intersect E) = 0
      BY <2>1, FS_EmptySet
    <3>2. Cardinality(O \union E)
            = Cardinality(O) + Cardinality(E) - Cardinality(O \intersect E)
      BY <2>1, FS_Union
    <3> QED
      BY <2>2, <3>1, <3>2
  <2>4. CASE phase = "exited"
    <3>1. O \union E = {}
      BY <2>4, <2>t DEF NoHandlers, In, O, E
    <3> QED
      BY <2>t, <3>1, FS_EmptySet DEF LimitKept, O, E
  <2>5. CASE phase # "exited"
    <3>1. active >= Cardinality(O) + Cardinality(E) + closes
      BY <2>5, <2>t, CountsAreIn DEF Accounted, O, E
    <3> QED
      BY <2>t, <2>2, <2>3, <3>1 DEF Numbers, LimitKept, O, E
  <2> QED
    BY <2>4, <2>5
<1> QED
  BY <1>1, SInvAlways, PTL
=============================================================================
