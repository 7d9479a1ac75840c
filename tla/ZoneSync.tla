------------------------------ MODULE ZoneSync ------------------------------
(***************************************************************************)
(* How a zone router follows the topology: the refresh task of             *)
(* src/src/lib.rs, sync_routing_state and sync_zone_state of               *)
(* src/src/rzid.rs, ZoneState of src/src/routing_state.rs and the registry *)
(* of src/src/hop_manager.rs.                                              *)
(*                                                                         *)
(* RzID is external: it keeps the list of the zone's shards with their     *)
(* bridges, and for every shard its zone and its segments, each with a     *)
(* version that is never used twice; a segment belongs to at most one      *)
(* shard.  Its resources change between any two requests of a sync, and    *)
(* any request may fail.                                                   *)
(***************************************************************************)
EXTENDS Naturals

CONSTANTS
  Shards, Bridges, Segments,
  NoShard,      \* a segment without a shard
  MaxVersion    \* bound on RzID's version clock

ASSUME ZoneSyncAssumption ==
  /\ NoShard \notin Shards
  /\ MaxVersion \in Nat

VARIABLES
  \* RzID; version 0 means that the key is not in the manifest
  clock,
  tver, topology,   \* zones/<zone>/shards: a partial function to bridge sets
  gver, ours, home, \* shards/<shard>/segments; the shards of this zone
  quiet,            \* RzID has stopped changing and answers every request
  \* the router
  localT, localG,                      \* local_versions
  segment_to_shard, shard_to_bridges,  \* the published RoutingSnapshot
  hops,             \* ids in the HopManager's map
  \* a sync under way
  sync,             \* where sync_routing_state is
  manT, manG,       \* the manifest's versions
  todo,             \* local_shards still to be looked at
  seg, bri          \* the new state's segment_to_shard and shard_to_bridges

rzid == <<clock, tver, topology, gver, ours, home>>
local == <<localT, localG>>
published == <<segment_to_shard, shard_to_bridges>>
work == <<manT, manG, todo, seg, bri>>
vars == <<rzid, quiet, local, published, hops, sync, work>>

-----------------------------------------------------------------------------
(* ZoneState and HopManager *)

\* A HashMap is a function on the set of its keys.
NoEntries == [x \in {} |-> {}]

\* Mutant: segments that are no longer in the list stay.
AddShardSegments(ss, sh, list) ==
  [s \in list \union DOMAIN ss |-> IF s \in list THEN sh ELSE ss[s]]

replace_shard_segments(ss, sh, list) ==
  [s \in list \union {x \in DOMAIN ss : ss[x] # sh} |->
     IF s \in list THEN sh ELSE ss[s]]

\* Mutant: no segment is removed.
RetainEverything(ss, valid) == ss

retain_valid_shards(ss, valid) ==
  [s \in {x \in DOMAIN ss : ss[x] \in valid} |-> ss[s]]

is_empty(ss, sb) == DOMAIN ss = {} /\ DOMAIN sb = {}

\* Mutant: the keys for the values.
ShardsAsHops(sb) == DOMAIN sb

get_all_hop_ids(sb) == UNION {sb[sh] : sh \in DOMAIN sb}

\* Mutant: the hops in use are retired.
RetireActive(registry, active) == registry \ active

retire_unused(registry, active) == registry \intersect active

-----------------------------------------------------------------------------
\* async_main: an empty ZoneState, no versions, no hops.
Init ==
  /\ clock = 0 /\ tver = 0 /\ topology = NoEntries
  /\ gver = [sh \in Shards |-> 0]
  /\ ours = Shards
  /\ home = [s \in Segments |-> NoShard]
  /\ quiet = FALSE
  /\ localT = 0 /\ localG = [sh \in Shards |-> 0]
  /\ segment_to_shard = NoEntries /\ shard_to_bridges = NoEntries
  /\ hops = {}
  /\ sync = "idle"
  /\ manT = 0 /\ manG = [sh \in Shards |-> 0]
  /\ todo = {} /\ seg = NoEntries /\ bri = NoEntries

-----------------------------------------------------------------------------
(* sync_routing_state and sync_zone_state, one action per request. *)

\* Mutant: only a key that was never recorded is new.
ShardsNew(recorded, manifest) == manifest > 0 /\ recorded = 0

\* detect_changes: the manifest's keys whose version is not the recorded one.
ShardsChanged(recorded, manifest) == manifest > 0 /\ recorded # manifest

SegmentsChanged(recorded, manifest, sh) ==
  manifest[sh] > 0 /\ recorded[sh] # manifest[sh]

\* One tick of run_refresh_task; a failed request ends it without a trace, and
\* so does a manifest without changes.  A sync is forced by a key that passes
\* detect_changes' filter and that nobody ever records: zones/<zone>/routers and
\* zones/<zone>/segments, or those of a zone whose name contains this one's.
FetchManifest(forced) ==
  /\ sync = "idle"
  /\ manT' = tver /\ manG' = gver
  /\ \/ forced
     \/ ShardsChanged(localT, tver)
     \/ \E sh \in Shards : SegmentsChanged(localG, gver, sh)
  /\ seg' = segment_to_shard /\ bri' = shard_to_bridges
  /\ sync' = "shards"
  /\ UNCHANGED <<rzid, quiet, local, published, hops, todo>>

\* The zone's shards are asked for when their version has changed, and as long
\* as there are none.
AsksForShards == ShardsChanged(localT, manT) \/ DOMAIN bri = {}

\* A key that is gone by now is answered with an error.
ShardsFetched ==
  /\ sync = "shards"
  /\ AsksForShards /\ tver > 0
  /\ bri' = topology
  /\ seg' = retain_valid_shards(seg, DOMAIN topology)
  /\ hops' = hops \union get_all_hop_ids(topology)
  /\ localT' = tver
  /\ todo' = DOMAIN topology
  /\ sync' = "segments"
  /\ UNCHANGED <<rzid, quiet, localG, published, manT, manG>>

\* "failed to fetch zone shards, keeping old state", or nothing to fetch.
ShardsKept ==
  /\ sync = "shards"
  /\ AsksForShards => tver = 0 \/ ~quiet
  /\ todo' = DOMAIN bri
  /\ sync' = "segments"
  /\ UNCHANGED <<rzid, quiet, local, published, hops, manT, manG, seg, bri>>

\* The answer for a shard of this zone is installed.
SegmentsFetched(sh) ==
  /\ sync = "segments" /\ sh \in todo
  /\ SegmentsChanged(localG, manG, sh) /\ gver[sh] > 0
  /\ sh \in ours
  /\ seg' = replace_shard_segments(seg, sh, {s \in Segments : home[s] = sh})
  /\ localG' = [localG EXCEPT ![sh] = gver[sh]]
  /\ todo' = todo \ {sh}
  /\ UNCHANGED <<rzid, quiet, localT, published, hops, sync, manT, manG, bri>>

\* Nothing to fetch, the request fails, or "shard returned by RzID belongs to
\* another zone".
SegmentsKept(sh) ==
  /\ sync = "segments" /\ sh \in todo
  /\ \/ ~SegmentsChanged(localG, manG, sh)
     \/ gver[sh] = 0 \/ sh \notin ours \/ ~quiet
  /\ todo' = todo \ {sh}
  /\ UNCHANGED <<rzid, quiet, local, published, hops, sync, manT, manG, seg,
                 bri>>

\* The final consistency pass; an empty state is an error and is dropped, with
\* the versions already recorded.
FinalCheck ==
  /\ sync = "segments" /\ todo = {}
  /\ seg' = retain_valid_shards(seg, DOMAIN bri)
  /\ sync' = IF is_empty(seg', bri) THEN "idle" ELSE "retire"
  /\ UNCHANGED <<rzid, quiet, local, published, hops, manT, manG, todo, bri>>

\* The end of sync_routing_state, before the new snapshot is published.
RetireUnused ==
  /\ sync = "retire"
  /\ hops' = retire_unused(hops, get_all_hop_ids(bri))
  /\ sync' = "store"
  /\ UNCHANGED <<rzid, quiet, local, published, work>>

\* routing.store
Publish ==
  /\ sync = "store"
  /\ segment_to_shard' = seg
  /\ shard_to_bridges' = bri
  /\ sync' = "idle"
  /\ UNCHANGED <<rzid, quiet, local, hops, work>>

SyncStep ==
  \/ FetchManifest(FALSE) \/ ShardsFetched \/ ShardsKept
  \/ \E sh \in Shards : SegmentsFetched(sh) \/ SegmentsKept(sh)
  \/ FinalCheck \/ RetireUnused \/ Publish

-----------------------------------------------------------------------------
(* RzID (external). *)

Tick == ~quiet /\ clock < MaxVersion /\ clock' = clock + 1

\* Bridges register and expire, and shards with them.
TopologyChanges ==
  /\ Tick
  /\ \E D \in SUBSET Shards : \E t \in [D -> SUBSET Bridges] :
       t # topology /\ topology' = t
  /\ tver' = clock'
  /\ UNCHANGED <<gver, ours, home, quiet, local, published, hops, sync, work>>

\* A segment is assigned, moved to another shard or withdrawn.
SegmentMoves(s) ==
  /\ Tick
  /\ \E sh \in (Shards \union {NoShard}) \ {home[s]} :
       /\ home' = [home EXCEPT ![s] = sh]
       /\ gver' = [x \in Shards |-> IF x \in {sh, home[s]} THEN clock'
                                    ELSE gver[x]]
  /\ UNCHANGED <<tver, topology, ours, quiet, local, published, hops, sync,
                 work>>

\* A shard moves to another zone, or back.
ShardMoves(sh) ==
  /\ Tick
  /\ ours' = IF sh \in ours THEN ours \ {sh} ELSE ours \union {sh}
  /\ gver' = [gver EXCEPT ![sh] = clock']
  /\ UNCHANGED <<tver, topology, home, quiet, local, published, hops, sync,
                 work>>

\* The segments of a shard are deleted.
ShardDeleted(sh) ==
  /\ Tick /\ gver[sh] > 0
  /\ gver' = [gver EXCEPT ![sh] = 0]
  /\ home' = [s \in Segments |-> IF home[s] = sh THEN NoShard ELSE home[s]]
  /\ UNCHANGED <<tver, topology, ours, quiet, local, published, hops, sync,
                 work>>

Quiets ==
  /\ ~quiet
  /\ quiet' = TRUE
  /\ UNCHANGED <<rzid, local, published, hops, sync, work>>

RzidStep ==
  \/ TopologyChanges
  \/ \E s \in Segments : SegmentMoves(s)
  \/ \E sh \in Shards : ShardMoves(sh) \/ ShardDeleted(sh)
  \/ Quiets

Next == SyncStep \/ FetchManifest(TRUE) \/ RzidStep

Spec == Init /\ [][Next]_vars

\* The refresh task's timer keeps firing and its requests end.  No sync need be
\* forced.
FairSpec == Spec /\ WF_vars(SyncStep)

-----------------------------------------------------------------------------
(* Properties *)

Versions == 0 .. MaxVersion
SegmentMaps == UNION {[D -> Shards] : D \in SUBSET Segments}
BridgeMaps == UNION {[D -> SUBSET Bridges] : D \in SUBSET Shards}

\* Type invariant.
TypeOK ==
  /\ clock \in Versions /\ tver \in Versions
  /\ topology \in BridgeMaps
  /\ gver \in [Shards -> Versions]
  /\ ours \in SUBSET Shards
  /\ home \in [Segments -> Shards \union {NoShard}]
  /\ quiet \in BOOLEAN
  /\ localT \in Versions /\ localG \in [Shards -> Versions]
  /\ segment_to_shard \in SegmentMaps /\ seg \in SegmentMaps
  /\ shard_to_bridges \in BridgeMaps /\ bri \in BridgeMaps
  /\ hops \in SUBSET Bridges
  /\ sync \in {"idle", "shards", "segments", "retire", "store"}
  /\ manT \in Versions /\ manG \in [Shards -> Versions]
  /\ todo \in SUBSET Shards

\* retain_valid_shards, "Remove all segment mappings whose shard no longer
\* exists.", of the published snapshot: whatever fails during a sync, a segment
\* that GETSEGMENTS advertises has a shard with a bridge list.
RoutedShardsHaveBridges ==
  \A s \in DOMAIN segment_to_shard :
    segment_to_shard[s] \in DOMAIN shard_to_bridges

\* Every bridge of the published snapshot is in the registry, so that the
\* forwarder finds it - but for the moment between retire_unused and
\* routing.store, in which the bridges of the next snapshot are.
HopsRegistered ==
  /\ sync # "store" => get_all_hop_ids(shard_to_bridges) \subseteq hops
  /\ sync \in {"retire", "store"} => get_all_hop_ids(bri) \subseteq hops

\* Between syncs, what the router believes is true: if the recorded version of
\* the shard list is RzID's current one, the published bridges are RzID's (but
\* for an empty list, which sync_zone_state refuses); and a shard with a current
\* segment list belongs to this zone ("Never install a shard returned by RzID
\* into the wrong zone.") and is sent no segment that is not its own.
BelievedMeansTrue ==
  sync = "idle" =>
    /\ tver > 0 /\ localT = tver /\ DOMAIN topology # {} =>
         shard_to_bridges = topology
    /\ \A sh \in Shards : gver[sh] > 0 /\ localG[sh] = gver[sh] =>
         /\ sh \in ours
         /\ \A s \in DOMAIN segment_to_shard :
              segment_to_shard[s] = sh => home[s] = sh

\* Once RzID is quiet, the zone's shards and their bridges are published.
BridgesConverge ==
  quiet ~> [](tver > 0 /\ DOMAIN topology # {} => shard_to_bridges = topology)

\* README: "Routers discover the topology by polling RzID for updates": a
\* segment of a shard of this zone is eventually routed to it.
SegmentsConverge ==
  \A s \in Segments, sh \in Shards :
    quiet /\ home[s] = sh /\ sh \in ours /\ sh \in DOMAIN topology ~>
      s \in DOMAIN segment_to_shard /\ segment_to_shard[s] = sh
=============================================================================
