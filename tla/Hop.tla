-------------------------------- MODULE Hop --------------------------------
(***************************************************************************)
(* One hop: src/src/hop.rs, with the address resolver src/src/resolver.rs. *)
(* A hop keeps a cached address, a health state and a set of connections.  *)
(* Its maintenance loop refills the set and recovers from failure; the     *)
(* forwarder, finding no live connection, spawns tasks that resolve the    *)
(* address; HopManager shuts the hop down when it is retired.              *)
(*                                                                         *)
(* External: RzPoint, which knows where the hop runs, and the network.     *)
(***************************************************************************)
EXTENDS Naturals, FiniteSets

CONSTANTS
  Pool,         \* identities of connections, reused once dropped
  Addresses,    \* where the hop can run
  ConnPerHop,   \* config.conn_per_hop
  Spawned,      \* resolver tasks of the forwarder that run at once
  NoAddr

\* config.conn_per_hop.max(1)
Target == IF ConnPerHop = 0 THEN 1 ELSE ConnPerHop

ASSUME HopAssumption ==
  /\ ConnPerHop \in Nat
  /\ IsFiniteSet(Pool) /\ Cardinality(Pool) >= 2 * Target
  /\ NoAddr \notin Addresses
  /\ {"none", "asked"} \intersect (Addresses \union {NoAddr}) = {}
  /\ "loop" \notin Spawned

Resolvers == Spawned \union {"loop"}
Replies == Addresses \union {NoAddr}     \* NoAddr: the resolution failed

VARIABLES
  state,        \* AtomicHopState
  address,      \* the cached address, or NoAddr
  conns,        \* the ConnectionSet
  open,         \* the hop's connections that are not marked closed; one that
                \* the hop lets go of is closed when the last call on it ends
  loop,         \* where the maintenance loop is
  addr,         \* the address the current tick connects to
  to_create, tries, new_conns,     \* locals of ensure_connections
  query,        \* query[r]: resolver.resolve as called by r
  cancelled,    \* the cancellation token
  where,        \* the address the hop runs at
  calm          \* no failure happens any more

localVars == <<addr, to_create, tries, new_conns>>
envVars == <<where, calm>>
vars == <<state, address, conns, open, loop, localVars, query, cancelled,
          envVars>>

\* Hop::new
Init ==
  /\ state = "Healthy"
  /\ address = NoAddr
  /\ conns = {} /\ open = {}
  /\ loop = "idle"
  /\ addr = NoAddr
  /\ to_create = 0 /\ tries = 0 /\ new_conns = {}
  /\ query = [r \in Resolvers |-> "none"]
  /\ cancelled = FALSE
  /\ where \in Addresses
  /\ calm = FALSE

Live == conns \intersect open

-----------------------------------------------------------------------------
(* maintenance_tick, up to its first await. *)

\* Mutant: the live connections are not subtracted.
TickHealthyAll ==
  /\ loop = "idle" /\ state = "Healthy"
  /\ Cardinality(Live) < Target /\ address # NoAddr
  /\ to_create' = Target
  /\ tries' = 0
  /\ addr' = address
  /\ new_conns' = Live
  /\ loop' = "connect"
  /\ UNCHANGED <<state, address, conns, open, query, cancelled, envVars>>

\* Mutant: the counter of the last tick is not reset.
TickHealthyNoReset ==
  /\ loop = "idle" /\ state = "Healthy"
  /\ Cardinality(Live) < Target
  /\ to_create' = Target - Cardinality(Live)
  /\ IF address = NoAddr
     THEN /\ query' = [query EXCEPT !["loop"] = "asked"]
          /\ loop' = "resolve"
          /\ UNCHANGED <<addr, new_conns>>
     ELSE /\ addr' = address
          /\ new_conns' = Live
          /\ loop' = "connect"
          /\ UNCHANGED query
  /\ UNCHANGED <<state, address, conns, open, tries, cancelled, envVars>>

\* ensure_connections: with enough live connections the tick does nothing.
TickHealthy ==
  /\ loop = "idle" /\ state = "Healthy"
  /\ Cardinality(Live) < Target
  /\ to_create' = Target - Cardinality(Live)
  /\ tries' = 0
  /\ IF address = NoAddr
     THEN /\ query' = [query EXCEPT !["loop"] = "asked"]
          /\ loop' = "resolve"
          /\ UNCHANGED <<addr, new_conns>>
     ELSE /\ addr' = address
          /\ new_conns' = Live
          /\ loop' = "connect"
          /\ UNCHANGED query
  /\ UNCHANGED <<state, address, conns, open, cancelled, envVars>>

TickRecovering ==
  /\ loop = "idle" /\ state = "Recovering"
  /\ IF address = NoAddr
     THEN /\ query' = [query EXCEPT !["loop"] = "asked"]
          /\ loop' = "resolve_again"
          /\ UNCHANGED addr
     ELSE /\ addr' = address
          /\ loop' = "reconnect"
          /\ UNCHANGED query
  /\ UNCHANGED <<state, address, conns, open, to_create, tries, new_conns,
                 cancelled, envVars>>

\* Without an address the tick does nothing.
TickUnavailable ==
  /\ loop = "idle" /\ state = "Unavailable" /\ address # NoAddr
  /\ state' = "Recovering"
  /\ UNCHANGED <<address, conns, open, loop, localVars, query, cancelled,
                 envVars>>

-----------------------------------------------------------------------------
(* The rest of ensure_connections. *)

\* The live connections are collected after the await; to_create was not.
Resolved ==
  /\ loop = "resolve" /\ query["loop"] \in Replies
  /\ query' = [query EXCEPT !["loop"] = "none"]
  /\ IF query["loop"] # NoAddr
     THEN /\ address' = query["loop"]
          /\ addr' = query["loop"]
          /\ new_conns' = Live
          /\ loop' = "connect"
     ELSE /\ loop' = "idle"
          /\ UNCHANGED <<address, addr, new_conns>>
  /\ UNCHANGED <<state, conns, open, to_create, tries, cancelled, envVars>>

CanConnect == addr = where
ConnectMayFail == addr # where \/ ~calm

ConnectOk ==
  /\ loop = "connect" /\ tries < to_create /\ CanConnect
  /\ \E p \in Pool \ (conns \union new_conns) :
       /\ new_conns' = new_conns \union {p}
       /\ open' = open \union {p}
  /\ tries' = tries + 1
  /\ UNCHANGED <<state, address, conns, loop, addr, to_create, query,
                 cancelled, envVars>>

\* Mutant: the hop is never marked as recovering.
ConnectFailsUnmarked ==
  /\ loop = "connect" /\ tries < to_create /\ ConnectMayFail
  /\ tries' = tries + 1
  /\ UNCHANGED <<state, address, conns, open, loop, addr, to_create,
                 new_conns, query, cancelled, envVars>>

\* "If we failed to create any, mark as recovering" - unless only one was
\* to be created.
ConnectFails ==
  /\ loop = "connect" /\ tries < to_create /\ ConnectMayFail
  /\ tries' = tries + 1
  /\ state' = IF new_conns = {} /\ to_create > 1 THEN "Recovering" ELSE state
  /\ UNCHANGED <<address, conns, open, loop, addr, to_create, new_conns,
                 query, cancelled, envVars>>

\* connections.store; what is left out of the new set has closed since the
\* live connections were collected, so that dropping it closes nothing.
StoreSet ==
  /\ loop = "connect" /\ tries = to_create
  /\ conns' = IF new_conns = {} THEN conns ELSE new_conns
  /\ new_conns' = {}
  /\ loop' = "idle"
  /\ UNCHANGED <<state, address, open, addr, to_create, tries, query, cancelled,
                 envVars>>

-----------------------------------------------------------------------------
(* The rest of the Recovering branch: try_reconnect with the cached        *)
(* address, then with one asked of RzPoint.                                *)

\* The set is replaced by the one new connection; the others are dropped, and
\* closed with the last call on them.
ReconnectOk ==
  /\ loop \in {"reconnect", "reconnect_again"} /\ CanConnect
  /\ \E p \in Pool \ conns : conns' = {p} /\ open' = {p}
  /\ state' = "Healthy"
  /\ loop' = "idle"
  /\ UNCHANGED <<address, localVars, query, cancelled, envVars>>

ReconnectFails ==
  /\ loop \in {"reconnect", "reconnect_again"} /\ ConnectMayFail
  /\ IF loop = "reconnect"
     THEN /\ query' = [query EXCEPT !["loop"] = "asked"]
          /\ loop' = "resolve_again"
     ELSE /\ loop' = "idle"
          /\ UNCHANGED query
  /\ UNCHANGED <<state, address, conns, open, localVars, cancelled, envVars>>

ResolvedAgain ==
  /\ loop = "resolve_again" /\ query["loop"] \in Replies
  /\ query' = [query EXCEPT !["loop"] = "none"]
  /\ IF query["loop"] # NoAddr
     THEN /\ address' = query["loop"]
          /\ addr' = query["loop"]
          /\ loop' = "reconnect_again"
     ELSE /\ loop' = "idle"
          /\ UNCHANGED <<address, addr>>
  /\ UNCHANGED <<state, conns, open, to_create, tries, new_conns, cancelled,
                 envVars>>

-----------------------------------------------------------------------------
(* The forwarder. *)

\* next_connection returned None: spawn resolve_address, which does nothing
\* when an address is cached and otherwise enters ensure_address.  A forwarder
\* that looked the hop up before it was retired still does this afterwards.
SpawnResolve(r) ==
  /\ Live = {} /\ address = NoAddr
  /\ query[r] = "none"
  /\ query' = [query EXCEPT ![r] = "asked"]
  /\ UNCHANGED <<state, address, conns, open, loop, localVars, cancelled,
                 envVars>>

\* The end of ensure_address: it stores whatever it got, over whatever the
\* maintenance loop has stored meanwhile.
EnsureAddress(r) ==
  /\ query[r] \in Replies
  /\ query' = [query EXCEPT ![r] = "none"]
  /\ IF query[r] # NoAddr
     THEN address' = query[r] /\ UNCHANGED state
     ELSE state' = "Unavailable" /\ UNCHANGED address
  /\ UNCHANGED <<conns, open, loop, localVars, cancelled, envVars>>

\* conn.close() by the forwarder, or the connection's own tasks.
ConnectionCloses ==
  /\ ~calm
  /\ \E p \in open : open' = open \ {p}
  /\ UNCHANGED <<state, address, conns, loop, localVars, query, cancelled,
                 envVars>>

-----------------------------------------------------------------------------
(* HopManager::retire_unused *)

\* Hop::shutdown: a tick that is under way is not interrupted.
Shutdown ==
  /\ ~cancelled
  /\ cancelled' = TRUE
  /\ open' = open \ conns
  /\ UNCHANGED <<state, address, conns, loop, localVars, query, envVars>>

\* select! takes the cancelled branch between two ticks; a tick that is due
\* at the same moment may be taken first.
LoopEnds ==
  /\ loop = "idle" /\ cancelled
  /\ loop' = "ended"
  /\ UNCHANGED <<state, address, conns, open, localVars, query, cancelled,
                 envVars>>

\* Mutant: a connection that is dropped is not marked closed.
DropHopLeak ==
  /\ loop = "ended" /\ \A r \in Resolvers : query[r] = "none"
  /\ conns # {}
  /\ conns' = {}
  /\ UNCHANGED <<state, address, open, loop, localVars, query, cancelled,
                 envVars>>

\* The last Arc goes with the last task, and the set's connections with it:
\* their Drop marks them closed.
DropHop ==
  /\ loop = "ended" /\ \A r \in Resolvers : query[r] = "none"
  /\ conns # {}
  /\ conns' = {}
  /\ open' = {}
  /\ UNCHANGED <<state, address, loop, localVars, query, cancelled, envVars>>

-----------------------------------------------------------------------------
(* External. *)

\* RzPoint answers with the hop's address, or not at all; the answer may be
\* out of date when it is used.
RzPointAnswers(r) ==
  /\ query[r] = "asked"
  /\ \E reply \in IF calm THEN {where} ELSE {where, NoAddr} :
       query' = [query EXCEPT ![r] = reply]
  /\ UNCHANGED <<state, address, conns, open, loop, localVars, cancelled,
                 envVars>>

HopMoves ==
  /\ ~calm
  /\ where' \in Addresses \ {where}
  /\ UNCHANGED <<state, address, conns, open, loop, localVars, query,
                 cancelled, calm>>

Calms ==
  /\ ~calm
  /\ calm' = TRUE
  /\ UNCHANGED <<state, address, conns, open, loop, localVars, query,
                 cancelled, where>>

-----------------------------------------------------------------------------
LoopStep ==
  \/ TickHealthy \/ TickRecovering \/ TickUnavailable
  \/ Resolved \/ ConnectOk \/ ConnectFails \/ StoreSet
  \/ ReconnectOk \/ ReconnectFails \/ ResolvedAgain

Next ==
  \/ LoopStep
  \/ \E r \in Spawned : SpawnResolve(r) \/ EnsureAddress(r)
  \/ \E r \in Resolvers : RzPointAnswers(r)
  \/ ConnectionCloses \/ Shutdown \/ LoopEnds \/ DropHop
  \/ HopMoves \/ Calms

Spec == Init /\ [][Next]_vars

\* The loop's timer fires and every request to RzPoint ends (it has a 5 s
\* timeout); select! chooses at random, so the cancelled branch is taken.
\* No client is assumed to send anything, and nothing is assumed to fail or
\* to stop failing.
Fairness ==
  /\ WF_vars(LoopStep)
  /\ \A r \in Spawned : WF_vars(EnsureAddress(r))
  /\ \A r \in Resolvers : WF_vars(RzPointAnswers(r))
  /\ SF_vars(LoopEnds)
  /\ WF_vars(DropHop)

FairSpec == Spec /\ Fairness

-----------------------------------------------------------------------------
(* Properties *)

\* Type invariant.
TypeOK ==
  /\ state \in {"Healthy", "Recovering", "Unavailable"}
  /\ address \in Addresses \union {NoAddr}
  /\ conns \subseteq Pool /\ open \subseteq Pool /\ new_conns \subseteq Pool
  /\ loop \in {"idle", "resolve", "connect", "reconnect", "resolve_again",
               "reconnect_again", "ended"}
  /\ addr \in Addresses \union {NoAddr}
  /\ to_create \in 0 .. Target
  /\ tries \in 0 .. to_create
  /\ query \in [Resolvers -> {"none", "asked"} \union Replies]
  /\ cancelled \in BOOLEAN
  /\ where \in Addresses
  /\ calm \in BOOLEAN

\* The hop never keeps more than conn_per_hop connections open, although
\* ensure_connections counts the live ones before it awaits RzPoint and
\* collects them after it.
NeverOverProvisioned == Cardinality(open) <= Target

\* Recovery: once failures stop, the hop gets a live connection or is retired,
\* wherever it has moved and whatever stale answers the resolver tasks bring
\* in.  Left out is a hop that a resolver task marked Unavailable while it had
\* no address: it waits for a client to ask for it again.
Recovers ==
  calm ~> \/ Live # {}
          \/ cancelled
          \/ state = "Unavailable" /\ address = NoAddr

\* A retired hop ends with no open connection, also when a tick was under way
\* during shutdown and stores a fresh connection set after it, and however many
\* forwarders still hold the hop.
RetiredHopCloses == cancelled ~> [](open = {})

\* README: "Infrastructure changes (new instances, IP changes, scaling) do not
\* require router reconfiguration": after a move the hop is reached again.
FollowsMove ==
  calm /\ address # NoAddr ~> Live # {} \/ cancelled
=============================================================================
