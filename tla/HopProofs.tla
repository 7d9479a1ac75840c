----------------------------- MODULE HopProofs -----------------------------
(***************************************************************************)
(* Proofs about Hop, for any conn_per_hop, any addresses and any number of *)
(* resolver tasks: the refilling of the connection set, interrupted by an  *)
(* await and by connections that close, never overshoots.                  *)
(***************************************************************************)
EXTENDS Hop, FiniteSetTheorems, TLAPS

-----------------------------------------------------------------------------
(* Lemmas *)

\* At least one connection is wanted.
LEMMA TargetType == Target \in Nat \ {0}
BY HopAssumption DEF Target

\* The sets of connections are finite.
LEMMA PoolFinite ==
  ASSUME NEW S \in SUBSET Pool
  PROVE  IsFiniteSet(S) /\ Cardinality(S) \in Nat
BY HopAssumption, FS_Subset, FS_CardinalityType

\* A part of a set of connections is not larger.
LEMMA SmallerSet ==
  ASSUME NEW S \in SUBSET Pool, NEW T \in SUBSET S
  PROVE  Cardinality(T) \in Nat /\ Cardinality(T) <= Cardinality(S)
BY PoolFinite, FS_Subset

\* A new connection counts for one.
LEMMA OneMore ==
  ASSUME NEW S \in SUBSET Pool, NEW p \in Pool, p \notin S
  PROVE  Cardinality(S \union {p}) = Cardinality(S) + 1
BY PoolFinite, FS_AddElement

-----------------------------------------------------------------------------
(* The inductive invariant *)

\* The types that a step may change, by the part of the hop they belong to.
SetTypes ==
  /\ conns \in SUBSET Pool /\ open \in SUBSET Pool
  /\ new_conns \in SUBSET Pool

CountTypes ==
  /\ to_create \in Nat /\ to_create <= Target
  /\ tries \in Nat /\ tries <= to_create

LoopTypes ==
  /\ state \in {"Healthy", "Recovering", "Unavailable"}
  /\ loop \in {"idle", "resolve", "connect", "reconnect", "resolve_again",
               "reconnect_again", "ended"}
  /\ cancelled \in BOOLEAN
  /\ calm \in BOOLEAN

AddressTypes ==
  /\ address \in Addresses \union {NoAddr}
  /\ addr \in Addresses \union {NoAddr}
  /\ query \in [Resolvers -> {"none", "asked"} \union Replies]
  /\ where \in Addresses

\* Outside of the connect loop, the open connections are those of the set.  In
\* it they are among the new ones, because what was alive when the loop began
\* was collected: a connection that is left out is closed already.
OpenHeld ==
  /\ loop # "connect" => new_conns = {} /\ open \subseteq conns
  /\ loop = "connect" => open \subseteq new_conns

\* What is still to be created fits in: to_create was computed before the
\* await, and until the live connections are collected after it they only
\* become fewer.
RoomLeft ==
  /\ loop = "resolve" => Cardinality(open) + to_create <= Target
  /\ loop = "connect" => Cardinality(new_conns) + to_create <= Target + tries
  /\ Cardinality(conns) <= Target
  /\ Cardinality(open) <= Target

HInv == SetTypes /\ CountTypes /\ OpenHeld /\ RoomLeft

\* The parts make up TypeOK, before and after a step.
LEMMA Parts ==
  /\ TypeOK <=> SetTypes /\ CountTypes /\ LoopTypes /\ AddressTypes
  /\ TypeOK' <=> SetTypes' /\ CountTypes' /\ LoopTypes' /\ AddressTypes'
<1>1. (to_create \in 0 .. Target /\ tries \in 0 .. to_create) <=> CountTypes
  BY TargetType DEF CountTypes
<1>2. (to_create \in 0 .. Target /\ tries \in 0 .. to_create)' <=> CountTypes'
  BY TargetType DEF CountTypes, Target
<1> QED
  BY <1>1, <1>2 DEF TypeOK, SetTypes, LoopTypes, AddressTypes, Target

\* The steps of the maintenance loop that collect the live connections.
LEMMA CollectStep ==
  ASSUME HInv, TickHealthy \/ Resolved
  PROVE  HInv'
<1> USE DEF envVars, localVars
<1>t. SetTypes /\ CountTypes /\ OpenHeld /\ RoomLeft
  BY DEF HInv
<1>1. open \subseteq conns /\ Live = open /\ new_conns = {}
  BY <1>t DEF TickHealthy, Resolved, OpenHeld, Live
<1>2. Cardinality(open) \in Nat /\ Cardinality(conns) \in Nat
  BY <1>t, PoolFinite DEF SetTypes
<1>3. SetTypes' /\ OpenHeld'
  BY <1>t, <1>1 DEF TickHealthy, Resolved, SetTypes, OpenHeld
<1>4. CASE TickHealthy
  <2>1. /\ to_create' = Target - Cardinality(open) /\ tries' = 0
        /\ Cardinality(open) < Target
        /\ \/ loop' = "resolve"
           \/ loop' = "connect" /\ new_conns' = open
        /\ UNCHANGED <<open, conns>>
    BY <1>4, <1>1 DEF TickHealthy
  <2>2. CountTypes' /\ RoomLeft'
    BY <1>t, <1>2, <2>1, TargetType DEF CountTypes, RoomLeft, Target
  <2> QED
    BY <1>3, <2>2 DEF HInv
<1>5. CASE Resolved
  <2>1. /\ UNCHANGED <<to_create, tries, open, conns>> /\ loop = "resolve"
        /\ \/ loop' = "idle"
           \/ loop' = "connect" /\ new_conns' = open
    BY <1>5, <1>1 DEF Resolved
  <2>2. CountTypes' /\ RoomLeft'
    BY <1>t, <1>2, <2>1, TargetType DEF CountTypes, RoomLeft, Target
  <2> QED
    BY <1>3, <2>2 DEF HInv
<1> QED
  BY <1>4, <1>5

\* The connect loop and the store of the new set.
LEMMA ConnectStep ==
  ASSUME HInv, ConnectOk \/ ConnectFails \/ StoreSet
  PROVE  HInv'
<1> USE DEF envVars, localVars
<1>t. SetTypes /\ CountTypes /\ OpenHeld /\ RoomLeft
  BY DEF HInv
<1>2. /\ Cardinality(open) \in Nat /\ Cardinality(conns) \in Nat
      /\ Cardinality(new_conns) \in Nat
  BY <1>t, PoolFinite DEF SetTypes
<1>3. CASE ConnectOk
  <2>1. PICK p \in Pool \ (conns \union new_conns) :
          new_conns' = new_conns \union {p} /\ open' = open \union {p}
    BY <1>3 DEF ConnectOk
  <2>2. Cardinality(new_conns') = Cardinality(new_conns) + 1
    BY <1>t, <2>1, OneMore DEF SetTypes
  <2>3. SetTypes' /\ OpenHeld'
    BY <1>3, <1>t, <2>1 DEF ConnectOk, SetTypes, OpenHeld
  <2>4. CountTypes'
    BY <1>3, <1>t DEF ConnectOk, CountTypes, Target
  <2>5. Cardinality(open') <= Cardinality(new_conns')
        /\ Cardinality(open') \in Nat
    BY <1>3, <2>3, SmallerSet DEF ConnectOk, SetTypes, OpenHeld
  <2>6. RoomLeft'
    BY <1>3, <1>t, <1>2, <2>2, <2>5, TargetType
    DEF ConnectOk, RoomLeft, CountTypes, Target
  <2> QED
    BY <2>3, <2>4, <2>6 DEF HInv
<1>4. CASE ConnectFails
  <2>1. SetTypes' /\ OpenHeld'
    BY <1>4, <1>t DEF ConnectFails, SetTypes, OpenHeld
  <2>2. CountTypes' /\ RoomLeft'
    BY <1>4, <1>t, <1>2, TargetType
    DEF ConnectFails, CountTypes, RoomLeft, Target
  <2> QED
    BY <2>1, <2>2 DEF HInv
<1>5. CASE StoreSet
  <2>1. SetTypes' /\ OpenHeld'
    BY <1>5, <1>t DEF StoreSet, SetTypes, OpenHeld
  <2>2. CountTypes'
    BY <1>5, <1>t DEF StoreSet, CountTypes, Target
  <2>3. Cardinality(conns') <= Target
    BY <1>5, <1>t, <1>2, TargetType DEF StoreSet, RoomLeft, CountTypes
  <2>4. Cardinality(open') \in Nat /\ Cardinality(open') <= Cardinality(conns')
    BY <1>5, <2>1, SmallerSet DEF StoreSet, SetTypes, OpenHeld
  <2>5. Cardinality(conns') \in Nat
    BY <2>1, PoolFinite DEF SetTypes
  <2>6. RoomLeft'
    BY <1>5, <2>3, <2>4, <2>5, TargetType DEF StoreSet, RoomLeft, Target
  <2> QED
    BY <2>1, <2>2, <2>6 DEF HInv
<1> QED
  BY <1>3, <1>4, <1>5

\* A reconnection leaves the hop with one connection.
LEMMA ReconnectStep ==
  ASSUME HInv, ReconnectOk
  PROVE  HInv'
<1> USE DEF envVars, localVars
<1>t. SetTypes /\ CountTypes /\ OpenHeld /\ RoomLeft
  BY DEF HInv
<1>1. PICK p \in Pool \ conns : conns' = {p} /\ open' = {p}
  BY DEF ReconnectOk
<1>2. Cardinality({p}) = 1
  BY FS_Singleton
<1>3. SetTypes' /\ OpenHeld'
  BY <1>t, <1>1 DEF ReconnectOk, SetTypes, OpenHeld
<1>4. CountTypes' /\ RoomLeft'
  <2>1. Cardinality(conns') = 1 /\ Cardinality(open') = 1
    BY <1>1, <1>2
  <2> QED
    BY <1>t, <2>1, TargetType
    DEF ReconnectOk, CountTypes, RoomLeft, Target
<1> QED
  BY <1>3, <1>4 DEF HInv

\* Connections that close, also by a shutdown, leave more room.
LEMMA CloseStep ==
  ASSUME HInv, ConnectionCloses \/ Shutdown \/ DropHop
  PROVE  HInv'
<1> USE DEF envVars, localVars
<1>t. SetTypes /\ CountTypes /\ OpenHeld /\ RoomLeft
  BY DEF HInv
<1>1. /\ open' \subseteq open /\ conns' \in {conns, {}}
      /\ UNCHANGED <<loop, new_conns, to_create, tries>>
      /\ conns' # conns => open' = {}
  BY <1>t DEF ConnectionCloses, Shutdown, DropHop, OpenHeld
<1>2. SetTypes' /\ OpenHeld'
  BY <1>t, <1>1 DEF SetTypes, OpenHeld
<1>3. /\ Cardinality(open) \in Nat /\ Cardinality(conns) \in Nat
      /\ Cardinality(new_conns) \in Nat
  BY <1>t, PoolFinite DEF SetTypes
<1>4. Cardinality(open') \in Nat /\ Cardinality(open') <= Cardinality(open)
  BY <1>t, <1>1, SmallerSet DEF SetTypes
<1>5. Cardinality(conns') <= Target
  BY <1>t, <1>1, FS_EmptySet, TargetType DEF RoomLeft
<1>6. CountTypes' /\ RoomLeft'
  BY <1>t, <1>1, <1>3, <1>4, <1>5, TargetType DEF CountTypes, RoomLeft, Target
<1> QED
  BY <1>2, <1>6 DEF HInv

\* Every step preserves HInv.
LEMMA HInvNext == HInv /\ [Next]_vars => HInv'
<1> SUFFICES ASSUME HInv, [Next]_vars PROVE HInv'
  OBVIOUS
<1> USE DEF envVars, localVars
<1>1. ASSUME UNCHANGED <<conns, open, new_conns, to_create, tries>>,
             loop' # loop =>
               loop # "connect" /\ loop' \notin {"connect", "resolve"}
      PROVE  HInv'
  <2>1. SetTypes' /\ OpenHeld'
    BY <1>1 DEF HInv, SetTypes, OpenHeld
  <2>2. CountTypes' /\ RoomLeft'
    BY <1>1 DEF HInv, CountTypes, RoomLeft, Target
  <2> QED
    BY <2>1, <2>2 DEF HInv
<1>2. ASSUME \/ TickRecovering \/ TickUnavailable \/ ReconnectFails
             \/ ResolvedAgain \/ LoopEnds \/ HopMoves \/ Calms
             \/ UNCHANGED vars
      PROVE  HInv'
  <2>1. UNCHANGED <<conns, open, new_conns, to_create, tries>>
    BY <1>2
    DEF TickRecovering, TickUnavailable, ReconnectFails, ResolvedAgain,
        LoopEnds, HopMoves, Calms, vars
  <2>2. loop' # loop =>
          loop # "connect" /\ loop' \notin {"connect", "resolve"}
    BY <1>2
    DEF TickRecovering, TickUnavailable, ReconnectFails, ResolvedAgain,
        LoopEnds, HopMoves, Calms, vars
  <2> QED
    BY <1>1, <2>1, <2>2
<1>3. ASSUME NEW r, SpawnResolve(r) \/ EnsureAddress(r) \/ RzPointAnswers(r)
      PROVE  HInv'
  <2>1. UNCHANGED <<conns, open, new_conns, to_create, tries, loop>>
    BY <1>3 DEF SpawnResolve, EnsureAddress, RzPointAnswers
  <2> QED
    BY <1>1, <2>1
<1> QED
  BY <1>2, <1>3, CollectStep, ConnectStep, ReconnectStep, CloseStep
  DEF Next, LoopStep

\* Initially there is nothing to count.
LEMMA HInvInit == Init => HInv
<1> SUFFICES ASSUME Init PROVE HInv
  OBVIOUS
<1>1. SetTypes /\ CountTypes /\ OpenHeld
  BY TargetType DEF Init, SetTypes, CountTypes, OpenHeld
<1>2. RoomLeft
  BY TargetType, FS_EmptySet DEF Init, RoomLeft
<1> QED
  BY <1>1, <1>2 DEF HInv

-----------------------------------------------------------------------------
(* Theorems *)

\* The hop never has more than conn_per_hop open connections (one, if that is
\* zero), however the await, the closing of connections and a shutdown fall.
THEOREM NotOverProvisioned == Spec => []NeverOverProvisioned
<1>1. HInv => NeverOverProvisioned
  BY DEF HInv, RoomLeft, NeverOverProvisioned
<1> QED
  BY <1>1, HInvInit, HInvNext, PTL DEF Spec

\* The ConnectionSet itself is bounded too, dead connections included; so Pool,
\* of twice that size, always has an identity for the connect loop.
THEOREM PoolSuffices ==
  Spec => [](loop = "connect" /\ tries < to_create =>
               Pool \ (conns \union new_conns) # {})
<1>1. HInv => (loop = "connect" /\ tries < to_create =>
                 Pool \ (conns \union new_conns) # {})
  <2> SUFFICES ASSUME HInv, loop = "connect", tries < to_create,
                      Pool \ (conns \union new_conns) = {}
               PROVE  FALSE
    OBVIOUS
  <2>1. SetTypes /\ CountTypes /\ RoomLeft
    BY DEF HInv
  <2>2. /\ IsFiniteSet(conns) /\ IsFiniteSet(new_conns)
        /\ Cardinality(conns) \in Nat /\ Cardinality(new_conns) \in Nat
        /\ Cardinality(conns \intersect new_conns) \in Nat
    BY <2>1, PoolFinite DEF SetTypes
  <2>3. conns \union new_conns = Pool
    BY <2>1 DEF SetTypes
  <2>4. Cardinality(Pool) = Cardinality(conns) + Cardinality(new_conns)
                              - Cardinality(conns \intersect new_conns)
    BY <2>2, <2>3, FS_Union
  <2>5. Cardinality(conns) <= Target /\ Cardinality(new_conns) < Target
    BY <2>1, <2>2, TargetType DEF RoomLeft, CountTypes
  <2> QED
    BY <2>2, <2>4, <2>5, TargetType, HopAssumption
<1> QED
  BY <1>1, HInvInit, HInvNext, PTL DEF Spec

\* Types; in particular the connect loop runs to_create times and no more.
THEOREM TypeCorrect == Spec => []TypeOK
<1> DEFINE OtherTypes == LoopTypes /\ AddressTypes
<1>1. Init => OtherTypes
  BY DEF Init, LoopTypes, AddressTypes, Replies
<1>2. OtherTypes /\ [Next]_vars => OtherTypes'
  <2> SUFFICES ASSUME LoopTypes, AddressTypes, [Next]_vars
               PROVE  LoopTypes' /\ AddressTypes'
    OBVIOUS
  <2> USE DEF envVars, localVars
  <2>1. ASSUME TickHealthy \/ TickRecovering \/ TickUnavailable
        PROVE  LoopTypes' /\ AddressTypes'
    BY <2>1
    DEF TickHealthy, TickRecovering, TickUnavailable, LoopTypes, AddressTypes,
        Resolvers
  <2>2. ASSUME Resolved \/ ResolvedAgain PROVE LoopTypes' /\ AddressTypes'
    BY <2>2
    DEF Resolved, ResolvedAgain, LoopTypes, AddressTypes, Resolvers, Replies
  <2>3. ASSUME ConnectOk \/ ConnectFails \/ StoreSet \/ ReconnectOk
        PROVE  LoopTypes' /\ AddressTypes'
    BY <2>3
    DEF ConnectOk, ConnectFails, StoreSet, ReconnectOk, LoopTypes, AddressTypes
  <2>4. ASSUME ReconnectFails PROVE LoopTypes' /\ AddressTypes'
    BY <2>4 DEF ReconnectFails, LoopTypes, AddressTypes, Resolvers
  <2>5. ASSUME NEW r \in Spawned, SpawnResolve(r) \/ EnsureAddress(r)
        PROVE  LoopTypes' /\ AddressTypes'
    BY <2>5
    DEF SpawnResolve, EnsureAddress, LoopTypes, AddressTypes, Resolvers, Replies
  <2>6. ASSUME NEW r \in Resolvers, RzPointAnswers(r)
        PROVE  LoopTypes' /\ AddressTypes'
    BY <2>6 DEF RzPointAnswers, LoopTypes, AddressTypes, Replies
  <2>7. ASSUME \/ ConnectionCloses \/ Shutdown \/ LoopEnds \/ DropHop
               \/ HopMoves \/ Calms \/ UNCHANGED vars
        PROVE  LoopTypes' /\ AddressTypes'
    BY <2>7
    DEF ConnectionCloses, Shutdown, LoopEnds, DropHop, HopMoves, Calms, vars,
        LoopTypes, AddressTypes
  <2> QED
    BY <2>1, <2>2, <2>3, <2>4, <2>5, <2>6, <2>7 DEF Next, LoopStep
<1>3. HInv /\ OtherTypes => TypeOK
  BY Parts DEF HInv
<1> QED
  BY <1>1, <1>2, <1>3, HInvInit, HInvNext, PTL DEF Spec
=============================================================================
