------------------------------ MODULE EdgeSync ------------------------------
(***************************************************************************)
(* How an edge router follows the topology: the refresh task of            *)
(* src/src/lib.rs, sync_routing_state and sync_edge_state of               *)
(* src/src/rzid.rs, EdgeState of src/src/routing_state.rs and the registry *)
(* of src/src/hop_manager.rs.                                              *)
(*                                                                         *)
(* RzID, the registry the router polls, is external: it keeps a router     *)
(* list and a segment list per zone, each with a version that is never     *)
(* used twice, and assigns a segment to at most one zone.  Its lists       *)
(* change between any two requests of a sync, and any request may fail.    *)
(***************************************************************************)
EXTENDS Naturals

CONSTANTS
  Zones, Routers, Segments,
  NoZone,       \* a segment without a zone
  MaxVersion    \* bound on RzID's version clock

ASSUME EdgeSyncAssumption ==
  /\ NoZone \notin Zones
  /\ MaxVersion \in Nat

VARIABLES
  \* RzID; version 0 means that the key is not in the manifest
  clock, rver, sver, routers, home,
  quiet,        \* RzID has stopped changing and answers every request
  \* the router
  localR, localS,        \* local_versions of the two keys of a zone
  segment_to_zone, zone_to_routers,    \* the published RoutingSnapshot
  hops,                  \* ids in the HopManager's map
  \* a sync under way
  sync,         \* where sync_routing_state is
  manR, manS,   \* the manifest's versions
  manO,         \* zones that only other keys of it name (zones/<id>/shards)
  todo,         \* valid zones still to be synchronised
  zone,         \* the zone being synchronised
  seg, rou      \* the new state's segment_to_zone and zone_to_routers

rzid == <<clock, rver, sver, routers, home>>
local == <<localR, localS>>
published == <<segment_to_zone, zone_to_routers>>
work == <<manR, manS, manO, todo, zone, seg, rou>>
vars == <<rzid, quiet, local, published, hops, sync, work>>

-----------------------------------------------------------------------------
(* EdgeState *)

\* A HashMap is a function on the set of its keys.
NoEntries == [x \in {} |-> {}]

set_zone_routers(zr, z, list) ==
  [y \in DOMAIN zr \union {z} |-> IF y = z THEN list ELSE zr[y]]

\* Mutant: no zone is removed.
RetainAllZones(zr, valid) == zr

retain_zones(zr, valid) == [z \in DOMAIN zr \intersect valid |-> zr[z]]

\* Mutant: no segment is removed.
RetainAllSegments(sz, valid) == sz

retain_segments(sz, valid) ==
  [s \in {x \in DOMAIN sz : sz[x] \in valid} |-> sz[s]]

replace_zone_segments(sz, z, list) ==
  [s \in list \union {x \in DOMAIN sz : sz[x] # z} |->
     IF s \in list THEN z ELSE sz[s]]

is_empty(sz, zr) == DOMAIN sz = {} /\ DOMAIN zr = {}

get_all_hop_ids(zr) == UNION {zr[z] : z \in DOMAIN zr}

-----------------------------------------------------------------------------
(* HopManager *)

\* Mutant: nothing is created.
GetOnly(registry, ids) == registry

get_or_create(registry, ids) == registry \union ids

retire_unused(registry, active) == registry \intersect active

-----------------------------------------------------------------------------
\* async_main: an empty EdgeState, no versions, no hops.
Init ==
  /\ clock = 0
  /\ rver = [z \in Zones |-> 0] /\ sver = [z \in Zones |-> 0]
  /\ routers = [z \in Zones |-> {}]
  /\ home = [s \in Segments |-> NoZone]
  /\ quiet = FALSE
  /\ localR = [z \in Zones |-> 0] /\ localS = [z \in Zones |-> 0]
  /\ segment_to_zone = NoEntries /\ zone_to_routers = NoEntries
  /\ hops = {}
  /\ sync = "idle"
  /\ manR = [z \in Zones |-> 0] /\ manS = [z \in Zones |-> 0] /\ manO = {}
  /\ todo = {} /\ zone = NoZone
  /\ seg = NoEntries /\ rou = NoEntries

-----------------------------------------------------------------------------
(* sync_routing_state and sync_edge_state, one action per request. *)

\* detect_changes: only keys that are in the manifest are looked at.
detect_changes(recorded, manifest) ==
  {z \in Zones : manifest[z] > 0 /\ recorded[z] # manifest[z]}

\* One tick of run_refresh_task.  A failed request, or a manifest without a
\* changed key, ends the sync without a trace.  The valid zones are those that
\* any key names; an edge router looks at the versions of two keys only.
FetchManifest ==
  /\ sync = "idle"
  /\ manR' = rver /\ manS' = sver
  /\ manO' \in SUBSET {z \in Zones : rver[z] = 0 /\ sver[z] = 0}
  /\ detect_changes(localR, rver) \union detect_changes(localS, sver) # {}
  /\ todo' = {z \in Zones : rver[z] > 0 \/ sver[z] > 0} \union manO'
  /\ seg' = retain_segments(segment_to_zone, todo')
  /\ rou' = retain_zones(zone_to_routers, todo')
  /\ zone' = NoZone
  /\ sync' = "next_zone"
  /\ UNCHANGED <<rzid, quiet, local, published, hops>>

\* The zones come out of a HashSet in any order.
NextZone ==
  /\ sync = "next_zone"
  /\ \E z \in todo : zone' = z /\ todo' = todo \ {z}
  /\ sync' = "routers"
  /\ UNCHANGED <<rzid, quiet, local, published, hops, manR, manS, manO, seg,
                 rou>>

\* Mutant: the version is recorded one too high.
RoutersFetchedOffByOne ==
  /\ sync = "routers"
  /\ zone \in detect_changes(localR, manR) /\ rver[zone] > 0
  /\ rou' = set_zone_routers(rou, zone, routers[zone])
  /\ hops' = get_or_create(hops, routers[zone])
  /\ localR' = [localR EXCEPT ![zone] = rver[zone] + 1]
  /\ sync' = "segments"
  /\ UNCHANGED <<rzid, quiet, localS, published, manR, manS, manO, todo, zone,
                 seg>>

\* A key that is gone by now is answered with an error.
RoutersFetched ==
  /\ sync = "routers"
  /\ zone \in detect_changes(localR, manR) /\ rver[zone] > 0
  /\ rou' = set_zone_routers(rou, zone, routers[zone])
  /\ hops' = get_or_create(hops, routers[zone])
  /\ localR' = [localR EXCEPT ![zone] = rver[zone]]
  /\ sync' = "segments"
  /\ UNCHANGED <<rzid, quiet, localS, published, manR, manS, manO, todo, zone,
                 seg>>

\* Mutant: the version is recorded although the request failed.
RoutersKeptRecorded ==
  /\ sync = "routers"
  /\ zone \in detect_changes(localR, manR) => rver[zone] = 0 \/ ~quiet
  /\ localR' = [localR EXCEPT ![zone] = manR[zone]]
  /\ sync' = "segments"
  /\ UNCHANGED <<rzid, quiet, localS, published, hops, work>>

\* "failed to fetch zone routers, keeping old state", or nothing to fetch.
RoutersKept ==
  /\ sync = "routers"
  /\ zone \in detect_changes(localR, manR) => rver[zone] = 0 \/ ~quiet
  /\ sync' = "segments"
  /\ UNCHANGED <<rzid, quiet, local, published, hops, work>>

SegmentsFetched ==
  /\ sync = "segments"
  /\ zone \in detect_changes(localS, manS) /\ sver[zone] > 0
  /\ seg' = replace_zone_segments(seg, zone,
              {s \in Segments : home[s] = zone})
  /\ localS' = [localS EXCEPT ![zone] = sver[zone]]
  /\ sync' = "next_zone"
  /\ UNCHANGED <<rzid, quiet, localR, published, hops, manR, manS, manO, todo,
                 zone, rou>>

SegmentsKept ==
  /\ sync = "segments"
  /\ zone \in detect_changes(localS, manS) => sver[zone] = 0 \/ ~quiet
  /\ sync' = "next_zone"
  /\ UNCHANGED <<rzid, quiet, local, published, hops, work>>

\* The final consistency check; an empty state is an error and is dropped,
\* with the versions already recorded.
FinalCheck ==
  /\ sync = "next_zone" /\ todo = {}
  /\ seg' = retain_segments(seg, DOMAIN rou)
  /\ sync' = IF is_empty(seg', rou) THEN "idle" ELSE "retire"
  /\ UNCHANGED <<rzid, quiet, local, published, hops, manR, manS, manO, todo,
                 zone, rou>>

\* The end of sync_routing_state, before the new snapshot is published.
RetireUnused ==
  /\ sync = "retire"
  /\ hops' = retire_unused(hops, get_all_hop_ids(rou))
  /\ sync' = "store"
  /\ UNCHANGED <<rzid, quiet, local, published, work>>

\* routing.store
Publish ==
  /\ sync = "store"
  /\ segment_to_zone' = seg
  /\ zone_to_routers' = rou
  /\ sync' = "idle"
  /\ UNCHANGED <<rzid, quiet, local, hops, work>>

SyncStep ==
  \/ FetchManifest \/ NextZone \/ RoutersFetched \/ RoutersKept
  \/ SegmentsFetched \/ SegmentsKept \/ FinalCheck \/ RetireUnused \/ Publish

-----------------------------------------------------------------------------
(* RzID (external). *)

Tick == ~quiet /\ clock < MaxVersion /\ clock' = clock + 1

\* Routers register and expire.
RouterListChanges(z) ==
  /\ Tick
  /\ \E list \in SUBSET Routers \ {routers[z]} :
       routers' = [routers EXCEPT ![z] = list]
  /\ rver' = [rver EXCEPT ![z] = clock']
  /\ UNCHANGED <<sver, home, quiet, local, published, hops, sync, work>>

\* A segment is assigned, moved to another zone or withdrawn.
SegmentMoves(s) ==
  /\ Tick
  /\ \E z \in (Zones \union {NoZone}) \ {home[s]} :
       /\ home' = [home EXCEPT ![s] = z]
       /\ sver' = [y \in Zones |-> IF y \in {z, home[s]} THEN clock'
                                   ELSE sver[y]]
  /\ UNCHANGED <<rver, routers, quiet, local, published, hops, sync, work>>

ZoneDeleted(z) ==
  /\ Tick /\ rver[z] + sver[z] > 0
  /\ rver' = [rver EXCEPT ![z] = 0]
  /\ sver' = [sver EXCEPT ![z] = 0]
  /\ routers' = [routers EXCEPT ![z] = {}]
  /\ home' = [s \in Segments |-> IF home[s] = z THEN NoZone ELSE home[s]]
  /\ UNCHANGED <<quiet, local, published, hops, sync, work>>

Quiets ==
  /\ ~quiet
  /\ quiet' = TRUE
  /\ UNCHANGED <<rzid, local, published, hops, sync, work>>

RzidStep ==
  \/ \E z \in Zones : RouterListChanges(z) \/ ZoneDeleted(z)
  \/ \E s \in Segments : SegmentMoves(s)
  \/ Quiets

Next == SyncStep \/ RzidStep

Spec == Init /\ [][Next]_vars

\* The refresh task's timer keeps firing and its requests end.
FairSpec == Spec /\ WF_vars(SyncStep)

-----------------------------------------------------------------------------
(* Properties *)

Versions == 0 .. MaxVersion
SegmentMaps == UNION {[D -> Zones] : D \in SUBSET Segments}
RouterMaps == UNION {[D -> SUBSET Routers] : D \in SUBSET Zones}

\* Type invariant.
TypeOK ==
  /\ clock \in Versions
  /\ rver \in [Zones -> Versions] /\ sver \in [Zones -> Versions]
  /\ routers \in [Zones -> SUBSET Routers]
  /\ home \in [Segments -> Zones \union {NoZone}]
  /\ quiet \in BOOLEAN
  /\ localR \in [Zones -> Versions] /\ localS \in [Zones -> Versions]
  /\ segment_to_zone \in SegmentMaps /\ seg \in SegmentMaps
  /\ zone_to_routers \in RouterMaps /\ rou \in RouterMaps
  /\ hops \in SUBSET Routers
  /\ sync \in {"idle", "next_zone", "routers", "segments", "retire", "store"}
  /\ manR \in [Zones -> Versions] /\ manS \in [Zones -> Versions]
  /\ manO \in SUBSET Zones
  /\ todo \in SUBSET Zones
  /\ zone \in Zones \union {NoZone}
  /\ sync \in {"routers", "segments"} => zone \in Zones

\* The code's "No segment may point at a zone that does not have router
\* state", of the published snapshot: whatever fails during a sync, a segment
\* that GETSEGMENTS advertises has a router list.
RoutedZonesHaveRouters ==
  \A s \in DOMAIN segment_to_zone :
    segment_to_zone[s] \in DOMAIN zone_to_routers

\* Every hop of the published snapshot is in the registry, so that the
\* forwarder finds it - but for the moment between retire_unused and
\* routing.store, in which the hops of the next snapshot are.
HopsRegistered ==
  /\ sync # "store" => get_all_hop_ids(zone_to_routers) \subseteq hops
  /\ sync \in {"retire", "store"} => get_all_hop_ids(rou) \subseteq hops

RoutersPublished(z) ==
  z \in DOMAIN zone_to_routers /\ zone_to_routers[z] = routers[z]

\* Between syncs, what the router believes is true: a zone whose recorded
\* version is RzID's current one has RzID's router list, and the router sends
\* no segment to it that is not its own.
BelievedMeansTrue ==
  sync = "idle" => \A z \in Zones :
    /\ rver[z] > 0 /\ localR[z] = rver[z] => RoutersPublished(z)
    /\ sver[z] > 0 /\ localS[z] = sver[z] =>
         \A s \in DOMAIN segment_to_zone : segment_to_zone[s] = z => home[s] = z

\* Once RzID is quiet, the router lists of all its zones are published.
RoutersConverge ==
  quiet ~> [](\A z \in Zones : rver[z] > 0 => RoutersPublished(z))

\* "Remove zones that disappeared from RzID.": what a sync publishes routes to
\* no zone that its manifest did not name, however many of its requests failed.
PublishesNamedZones ==
  [][sync = "store" /\ sync' = "idle" =>
       DOMAIN zone_to_routers' \subseteq
         {z \in Zones : manR[z] > 0 \/ manS[z] > 0} \union manO]_vars
=============================================================================
