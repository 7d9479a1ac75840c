--------------------------- MODULE EdgeSyncProofs ---------------------------
(***************************************************************************)
(* Proofs about EdgeSync, for any zones, routers, segments and versions:   *)
(* what every published snapshot satisfies, although any request of a sync *)
(* may fail and RzID changes between the requests.                         *)
(***************************************************************************)
EXTENDS EdgeSync, TLAPS

-----------------------------------------------------------------------------
(* EdgeState's operations *)

\* set_zone_routers adds at most the routers of the list to the hops used.
LEMMA SetZoneRoutersHops ==
  ASSUME NEW zr, NEW z, NEW list
  PROVE  get_all_hop_ids(set_zone_routers(zr, z, list))
           \subseteq get_all_hop_ids(zr) \union list
BY DEF get_all_hop_ids, set_zone_routers

\* Retaining zones adds no hop.
LEMMA RetainZonesHops ==
  ASSUME NEW zr, NEW valid
  PROVE  get_all_hop_ids(retain_zones(zr, valid)) \subseteq get_all_hop_ids(zr)
BY DEF get_all_hop_ids, retain_zones

\* retain_segments leaves only segments of valid zones.
LEMMA RetainSegmentsValid ==
  ASSUME NEW sz, NEW valid
  PROVE  \A s \in DOMAIN retain_segments(sz, valid) :
           retain_segments(sz, valid)[s] \in valid
BY DEF retain_segments

\* The retain operations keep the types of the two maps.
LEMMA RetainTypes ==
  ASSUME NEW zr \in RouterMaps, NEW sz \in SegmentMaps, NEW valid
  PROVE  /\ retain_zones(zr, valid) \in RouterMaps
         /\ retain_segments(sz, valid) \in SegmentMaps
<1>1. PICK D \in SUBSET Zones : zr \in [D -> SUBSET Routers]
  BY DEF RouterMaps
<1>2. PICK E \in SUBSET Segments : sz \in [E -> Zones]
  BY DEF SegmentMaps
<1>3. retain_zones(zr, valid) \in RouterMaps
  <2>1. retain_zones(zr, valid) \in [D \intersect valid -> SUBSET Routers]
    BY <1>1 DEF retain_zones
  <2>2. D \intersect valid \in SUBSET Zones
    BY <1>1
  <2> QED
    BY <2>1, <2>2 DEF RouterMaps
<1>4. retain_segments(sz, valid) \in SegmentMaps
  <2> DEFINE K == {x \in E : sz[x] \in valid}
  <2>1. retain_segments(sz, valid) \in [K -> Zones]
    BY <1>2 DEF retain_segments
  <2>2. K \in SUBSET Segments
    BY <1>2
  <2> QED
    BY <2>1, <2>2 DEF SegmentMaps
<1> QED
  BY <1>3, <1>4

\* So does the insertion of a fetched router list.
LEMMA SetZoneRoutersType ==
  ASSUME NEW zr \in RouterMaps, NEW z \in Zones, NEW list \in SUBSET Routers
  PROVE  set_zone_routers(zr, z, list) \in RouterMaps
<1>1. PICK D \in SUBSET Zones : zr \in [D -> SUBSET Routers]
  BY DEF RouterMaps
<1>2. set_zone_routers(zr, z, list) \in [D \union {z} -> SUBSET Routers]
  BY <1>1 DEF set_zone_routers
<1>3. D \union {z} \in SUBSET Zones
  BY <1>1
<1> QED
  BY <1>2, <1>3 DEF RouterMaps

\* And that of a fetched segment list.
LEMMA ReplaceZoneSegmentsType ==
  ASSUME NEW sz \in SegmentMaps, NEW z \in Zones, NEW list \in SUBSET Segments
  PROVE  replace_zone_segments(sz, z, list) \in SegmentMaps
<1>1. PICK E \in SUBSET Segments : sz \in [E -> Zones]
  BY DEF SegmentMaps
<1> DEFINE K == list \union {x \in E : sz[x] # z}
<1>2. replace_zone_segments(sz, z, list) \in [K -> Zones]
  BY <1>1 DEF replace_zone_segments
<1>3. K \in SUBSET Segments
  BY <1>1
<1> QED
  BY <1>2, <1>3 DEF SegmentMaps

-----------------------------------------------------------------------------
(* The published snapshot *)

\* Between the final check and the store, the state about to be published
\* already has what RoutedZonesHaveRouters asks of the published one.
NextSnapshotRouted ==
  sync \in {"retire", "store"} =>
    \A s \in DOMAIN seg : seg[s] \in DOMAIN rou

RInv == RoutedZonesHaveRouters /\ NextSnapshotRouted

\* Each step of a sync preserves it.
LEMMA RInvNext == RInv /\ [Next]_vars => RInv'
<1> SUFFICES ASSUME RInv, [Next]_vars PROVE RInv'
  OBVIOUS
<1> USE DEF rzid, local, published, work
<1>1. ASSUME FinalCheck PROVE RInv'
  BY <1>1, RetainSegmentsValid
  DEF FinalCheck, RInv, RoutedZonesHaveRouters, NextSnapshotRouted
<1>2. ASSUME Publish PROVE RInv'
  BY <1>2 DEF Publish, RInv, RoutedZonesHaveRouters, NextSnapshotRouted
<1>3. ASSUME RetireUnused PROVE RInv'
  BY <1>3 DEF RetireUnused, RInv, RoutedZonesHaveRouters, NextSnapshotRouted
<1>4. ASSUME FetchManifest \/ NextZone \/ RoutersFetched \/ RoutersKept
             \/ SegmentsFetched \/ SegmentsKept
      PROVE  RInv'
  BY <1>4
  DEF FetchManifest, NextZone, RoutersFetched, RoutersKept, SegmentsFetched,
      SegmentsKept, RInv, RoutedZonesHaveRouters, NextSnapshotRouted
<1>5. ASSUME RzidStep \/ UNCHANGED vars PROVE RInv'
  BY <1>5
  DEF RzidStep, RouterListChanges, ZoneDeleted, SegmentMoves, Quiets, vars,
      RInv, RoutedZonesHaveRouters, NextSnapshotRouted
<1> QED
  BY <1>1, <1>2, <1>3, <1>4, <1>5 DEF Next, SyncStep

\* No published snapshot, of any sync, routes a segment to a zone without
\* router state.
THEOREM SnapshotConsistent == Spec => []RoutedZonesHaveRouters
<1>1. Init => RInv
  BY DEF Init, NoEntries, RInv, RoutedZonesHaveRouters, NextSnapshotRouted
<1>2. RInv => RoutedZonesHaveRouters
  BY DEF RInv
<1> QED
  BY <1>1, <1>2, RInvNext, PTL DEF Spec

-----------------------------------------------------------------------------
(* The hop registry *)

\* During a sync, the hops of the state being built are registered as well as
\* those of the published one: retire_unused is the first to remove any.
HInv ==
  /\ sync # "store" => get_all_hop_ids(zone_to_routers) \subseteq hops
  /\ sync # "idle" => get_all_hop_ids(rou) \subseteq hops

\* Each step of a sync preserves it.
LEMMA HInvNext == HInv /\ [Next]_vars => HInv'
<1> SUFFICES ASSUME HInv, [Next]_vars PROVE HInv'
  OBVIOUS
<1> USE DEF rzid, local, published, work
<1>1. ASSUME FetchManifest PROVE HInv'
  BY <1>1, RetainZonesHops DEF FetchManifest, HInv
<1>2. ASSUME RoutersFetched PROVE HInv'
  BY <1>2, SetZoneRoutersHops DEF RoutersFetched, HInv, get_or_create
<1>3. ASSUME RetireUnused PROVE HInv'
  BY <1>3 DEF RetireUnused, HInv, retire_unused
<1>4. ASSUME Publish PROVE HInv'
  BY <1>4 DEF Publish, HInv
<1>5. ASSUME NextZone \/ RoutersKept \/ SegmentsFetched \/ SegmentsKept
             \/ FinalCheck
      PROVE  HInv'
  BY <1>5
  DEF NextZone, RoutersKept, SegmentsFetched, SegmentsKept, FinalCheck, HInv
<1>6. ASSUME RzidStep \/ UNCHANGED vars PROVE HInv'
  BY <1>6
  DEF RzidStep, RouterListChanges, ZoneDeleted, SegmentMoves, Quiets, vars,
      HInv
<1> QED
  BY <1>1, <1>2, <1>3, <1>4, <1>5, <1>6 DEF Next, SyncStep

\* The forwarder finds every hop of the snapshot it has loaded in the
\* registry, except between retire_unused and routing.store.
THEOREM RegistryCovers == Spec => []HopsRegistered
<1>1. Init => HInv
  BY DEF Init, NoEntries, HInv, get_all_hop_ids
<1>2. HInv => HopsRegistered
  BY DEF HInv, HopsRegistered
<1> QED
  BY <1>1, <1>2, HInvNext, PTL DEF Spec

-----------------------------------------------------------------------------
(* Types *)

\* Types of the parts: RzID, the router's own state, the sync under way.
RzidTypes ==
  /\ clock \in Versions
  /\ rver \in [Zones -> Versions] /\ sver \in [Zones -> Versions]
  /\ routers \in [Zones -> SUBSET Routers]
  /\ home \in [Segments -> Zones \union {NoZone}]
  /\ quiet \in BOOLEAN

RouterTypes ==
  /\ localR \in [Zones -> Versions] /\ localS \in [Zones -> Versions]
  /\ segment_to_zone \in SegmentMaps /\ zone_to_routers \in RouterMaps
  /\ hops \in SUBSET Routers

WorkTypes ==
  /\ seg \in SegmentMaps /\ rou \in RouterMaps
  /\ manR \in [Zones -> Versions] /\ manS \in [Zones -> Versions]
  /\ manO \in SUBSET Zones
  /\ todo \in SUBSET Zones

SyncTypes ==
  /\ sync \in {"idle", "next_zone", "routers", "segments", "retire", "store"}
  /\ zone \in Zones \union {NoZone}
  /\ sync \in {"routers", "segments"} => zone \in Zones

\* The four parts are TypeOK, before and after a step.
LEMMA Parts ==
  /\ TypeOK <=> RzidTypes /\ RouterTypes /\ WorkTypes /\ SyncTypes
  /\ TypeOK' <=> RzidTypes' /\ RouterTypes' /\ WorkTypes' /\ SyncTypes'
BY DEF TypeOK, RzidTypes, RouterTypes, WorkTypes, SyncTypes

\* A sync writes only hops that RzID named, and the zones it was given.
LEMMA TypeNext == TypeOK /\ [Next]_vars => TypeOK'
<1> SUFFICES ASSUME RzidTypes, RouterTypes, WorkTypes, SyncTypes, [Next]_vars
             PROVE  TypeOK'
  BY Parts
<1> USE DEF rzid, local, published, work
<1>1. ASSUME FetchManifest PROVE TypeOK'
  <2>1. RzidTypes' /\ RouterTypes' /\ SyncTypes'
    BY <1>1 DEF FetchManifest, RzidTypes, RouterTypes, SyncTypes
  <2>2. WorkTypes'
    <3>1. rou' \in RouterMaps /\ seg' \in SegmentMaps
      BY <1>1, RetainTypes DEF FetchManifest, RouterTypes
    <3>2. todo' \in SUBSET Zones /\ manO' \in SUBSET Zones
      BY <1>1 DEF FetchManifest
    <3> QED
      BY <1>1, <3>1, <3>2 DEF FetchManifest, RzidTypes, WorkTypes
  <2> QED
    BY <2>1, <2>2, Parts
<1>2. ASSUME NextZone PROVE TypeOK'
  <2>1. RzidTypes' /\ RouterTypes'
    BY <1>2 DEF NextZone, RzidTypes, RouterTypes
  <2>2. WorkTypes' /\ SyncTypes'
    BY <1>2 DEF NextZone, WorkTypes, SyncTypes
  <2> QED
    BY <2>1, <2>2, Parts
<1>3. ASSUME RoutersFetched PROVE TypeOK'
  <2>1. zone \in Zones /\ routers[zone] \in SUBSET Routers
    BY <1>3 DEF RoutersFetched, SyncTypes, RzidTypes
  <2>2. WorkTypes'
    <3>1. rou' \in RouterMaps
      BY <1>3, <2>1, SetZoneRoutersType DEF RoutersFetched, WorkTypes
    <3> QED
      BY <1>3, <3>1 DEF RoutersFetched, WorkTypes
  <2>3. RouterTypes'
    BY <1>3, <2>1 DEF RoutersFetched, RouterTypes, RzidTypes, get_or_create
  <2>4. RzidTypes' /\ SyncTypes'
    BY <1>3 DEF RoutersFetched, RzidTypes, SyncTypes
  <2> QED
    BY <2>2, <2>3, <2>4, Parts
<1>4. ASSUME SegmentsFetched PROVE TypeOK'
  <2>1. zone \in Zones
    BY <1>4 DEF SegmentsFetched, SyncTypes
  <2>2. WorkTypes'
    <3>1. {s \in Segments : home[s] = zone} \in SUBSET Segments
      OBVIOUS
    <3>2. seg' \in SegmentMaps
      BY <1>4, <2>1, <3>1, ReplaceZoneSegmentsType
      DEF SegmentsFetched, WorkTypes
    <3> QED
      BY <1>4, <3>2 DEF SegmentsFetched, WorkTypes
  <2>3. RouterTypes'
    BY <1>4, <2>1 DEF SegmentsFetched, RouterTypes, RzidTypes
  <2>4. RzidTypes' /\ SyncTypes'
    BY <1>4 DEF SegmentsFetched, RzidTypes, SyncTypes
  <2> QED
    BY <2>2, <2>3, <2>4, Parts
<1>5. ASSUME RoutersKept \/ SegmentsKept PROVE TypeOK'
  <2>1. RzidTypes' /\ RouterTypes' /\ WorkTypes'
    BY <1>5 DEF RoutersKept, SegmentsKept, RzidTypes, RouterTypes, WorkTypes
  <2>2. SyncTypes'
    BY <1>5 DEF RoutersKept, SegmentsKept, SyncTypes
  <2> QED
    BY <2>1, <2>2, Parts
<1>6. ASSUME FinalCheck PROVE TypeOK'
  <2>1. seg' \in SegmentMaps
    BY <1>6, RetainTypes DEF FinalCheck, WorkTypes
  <2>2. RzidTypes' /\ RouterTypes' /\ WorkTypes'
    BY <1>6, <2>1 DEF FinalCheck, RzidTypes, RouterTypes, WorkTypes
  <2>3. SyncTypes'
    BY <1>6 DEF FinalCheck, SyncTypes
  <2> QED
    BY <2>2, <2>3, Parts
<1>7. ASSUME RetireUnused \/ Publish PROVE TypeOK'
  <2>1. RzidTypes' /\ RouterTypes' /\ WorkTypes'
    BY <1>7
    DEF RetireUnused, Publish, RzidTypes, RouterTypes, WorkTypes, retire_unused
  <2>2. SyncTypes'
    BY <1>7 DEF RetireUnused, Publish, SyncTypes
  <2> QED
    BY <2>1, <2>2, Parts
<1>8. ASSUME RzidStep PROVE TypeOK'
  <2>1. RzidTypes'
    <3>1. ASSUME Tick PROVE clock' \in Versions
      BY <3>1, EdgeSyncAssumption DEF Tick, RzidTypes, Versions
    <3>2. ASSUME NEW z \in Zones, RouterListChanges(z) PROVE RzidTypes'
      BY <3>1, <3>2 DEF RouterListChanges, RzidTypes, Tick
    <3>3. 0 \in Versions
      BY EdgeSyncAssumption DEF Versions
    <3>4. ASSUME NEW z \in Zones, ZoneDeleted(z) PROVE RzidTypes'
      BY <3>1, <3>3, <3>4 DEF ZoneDeleted, RzidTypes, Tick
    <3>5. ASSUME NEW s \in Segments, SegmentMoves(s) PROVE RzidTypes'
      BY <3>1, <3>5 DEF SegmentMoves, RzidTypes, Tick
    <3>6. ASSUME Quiets PROVE RzidTypes'
      BY <3>6 DEF Quiets, RzidTypes
    <3> QED
      BY <1>8, <3>2, <3>4, <3>5, <3>6 DEF RzidStep
  <2>2. RouterTypes' /\ WorkTypes' /\ SyncTypes'
    BY <1>8
    DEF RzidStep, RouterListChanges, ZoneDeleted, SegmentMoves, Quiets,
        RouterTypes, WorkTypes, SyncTypes
  <2> QED
    BY <2>1, <2>2, Parts
<1>9. ASSUME UNCHANGED vars PROVE TypeOK'
  <2>1. RzidTypes' /\ RouterTypes' /\ WorkTypes' /\ SyncTypes'
    BY <1>9 DEF vars, RzidTypes, RouterTypes, WorkTypes, SyncTypes
  <2> QED
    BY <2>1, Parts
<1> QED
  BY <1>1, <1>2, <1>3, <1>4, <1>5, <1>6, <1>7, <1>8, <1>9 DEF Next, SyncStep

\* The initial state has the types.
LEMMA TypeInit == Init => TypeOK
<1> SUFFICES ASSUME Init PROVE TypeOK
  OBVIOUS
<1>1. NoEntries \in SegmentMaps /\ NoEntries \in RouterMaps
  <2>1. NoEntries \in [{} -> Zones] /\ NoEntries \in [{} -> SUBSET Routers]
    BY DEF NoEntries
  <2> QED
    BY <2>1 DEF SegmentMaps, RouterMaps
<1>2. 0 \in Versions
  BY EdgeSyncAssumption DEF Versions
<1>3. RzidTypes
  BY <1>2 DEF Init, RzidTypes
<1>4. RouterTypes /\ WorkTypes
  BY <1>1, <1>2 DEF Init, RouterTypes, WorkTypes
<1>5. SyncTypes
  BY DEF Init, SyncTypes
<1> QED
  BY <1>3, <1>4, <1>5, Parts

\* Types of the synchronisation: in particular the registry and the snapshot
\* hold only routers and zones that RzID knows.
THEOREM TypeCorrect == Spec => []TypeOK
BY TypeInit, TypeNext, PTL DEF Spec

-----------------------------------------------------------------------------
(* What a sync may publish *)

\* The zones of the manifest that the sync under way works from.
Named == {z \in Zones : manR[z] > 0 \/ manS[z] > 0} \union manO

\* The zones that the sync keeps, is looking at or has still to look at are in
\* its manifest; RzID's changes after the manifest was read do not matter.
NInv ==
  sync # "idle" =>
    /\ DOMAIN rou \subseteq Named /\ todo \subseteq Named
    /\ sync = "routers" => zone \in Named

\* Each step of a sync preserves it.
LEMMA NInvNext == NInv /\ [Next]_vars => NInv'
<1> SUFFICES ASSUME NInv, [Next]_vars PROVE NInv'
  OBVIOUS
<1> USE DEF rzid, local, published, work
<1>1. ASSUME FetchManifest PROVE NInv'
  BY <1>1 DEF FetchManifest, NInv, Named, retain_zones
<1>2. ASSUME NextZone PROVE NInv'
  BY <1>2 DEF NextZone, NInv, Named
<1>3. ASSUME RoutersFetched PROVE NInv'
  BY <1>3 DEF RoutersFetched, NInv, Named, set_zone_routers
<1>4. ASSUME RoutersKept \/ SegmentsFetched \/ SegmentsKept \/ FinalCheck
             \/ RetireUnused \/ Publish
      PROVE  NInv'
  BY <1>4
  DEF RoutersKept, SegmentsFetched, SegmentsKept, FinalCheck, RetireUnused,
      Publish, NInv, Named
<1>5. ASSUME RzidStep \/ UNCHANGED vars PROVE NInv'
  BY <1>5
  DEF RzidStep, RouterListChanges, ZoneDeleted, SegmentMoves, Quiets, vars,
      NInv, Named
<1> QED
  BY <1>1, <1>2, <1>3, <1>4, <1>5 DEF Next, SyncStep

\* Whichever requests fail, a sync publishes no zone that disappeared from
\* RzID before its manifest.
THEOREM NoForgottenZones == Spec => PublishesNamedZones
<1>1. Init => NInv
  BY DEF Init, NInv
<1>2. NInv /\ [Next]_vars =>
        [sync = "store" /\ sync' = "idle" =>
           DOMAIN zone_to_routers' \subseteq
             {z \in Zones : manR[z] > 0 \/ manS[z] > 0} \union manO]_vars
  <2> SUFFICES ASSUME NInv, Next, sync = "store", sync' = "idle"
               PROVE  DOMAIN zone_to_routers' \subseteq Named
    BY DEF Named
  <2>1. Publish
    BY DEF Next, SyncStep, FetchManifest, NextZone, RoutersFetched,
       RoutersKept, SegmentsFetched, SegmentsKept, FinalCheck, RetireUnused,
       RzidStep, RouterListChanges, ZoneDeleted, SegmentMoves, Quiets
  <2> QED
    BY <2>1 DEF Publish, NInv
<1> QED
  BY <1>1, <1>2, NInvNext, PTL DEF Spec, PublishesNamedZones

-----------------------------------------------------------------------------
(* What the recorded versions say *)

\* No version is from the future, so that the next one is new to everybody.
Fresh ==
  \A z \in Zones :
    /\ rver[z] <= clock /\ sver[z] <= clock
    /\ localR[z] <= clock /\ localS[z] <= clock

\* Of a segment map: a zone is given only segments that are its own.
Owns(sz, z) == \A s \in DOMAIN sz : sz[s] = z => home[s] = z

\* A router list is recorded as current only if the state that is published, or
\* about to be, has it.  A state with such a list is not empty, and stored.
RoutersCurrent ==
  \A z \in Zones : rver[z] > 0 /\ localR[z] = rver[z] =>
    /\ sync = "idle" => RoutersPublished(z)
    /\ sync # "idle" => z \in DOMAIN rou /\ rou[z] = routers[z]

\* The same of segment lists.  The list of a zone without routers is recorded
\* when it is fetched, and may still be dropped with an empty state: then the
\* published snapshot has to be right.
SegmentsCurrent ==
  \A z \in Zones : sver[z] > 0 /\ localS[z] = sver[z] =>
    /\ sync # "idle" => Owns(seg, z)
    /\ sync = "idle" \/ DOMAIN rou = {} => Owns(segment_to_zone, z)

\* It is, because a zone that the sync works on keeps its published routers.
RoutersStay ==
  /\ sync \in {"next_zone", "routers", "segments"} =>
       todo \intersect DOMAIN zone_to_routers \subseteq DOMAIN rou
  /\ sync \in {"routers", "segments"} /\ zone \in DOMAIN zone_to_routers =>
       zone \in DOMAIN rou

BInv == Fresh /\ RoutersCurrent /\ SegmentsCurrent /\ RoutersStay

\* A fetched segment list makes its zone own what it is given, and takes
\* nothing from another zone's claim.
LEMMA ReplaceOwns ==
  ASSUME NEW sz, NEW z, NEW x,
         x = z \/ Owns(sz, x)
  PROVE  Owns(replace_zone_segments(sz, z, {s \in Segments : home[s] = z}), x)
BY DEF Owns, replace_zone_segments

\* Retaining segments keeps every claim.
LEMMA RetainOwns ==
  ASSUME NEW sz, NEW valid, NEW x, Owns(sz, x)
  PROVE  Owns(retain_segments(sz, valid), x)
BY DEF Owns, retain_segments

\* RzID's own steps: a change makes the version it is recorded under stale.
LEMMA BInvRzid == TypeOK /\ BInv /\ RzidStep => BInv'
<1> SUFFICES ASSUME TypeOK, BInv, RzidStep PROVE BInv'
  OBVIOUS
<1> USE DEF rzid, local, published, work, BInv
<1>t. /\ clock \in Nat
      /\ rver \in [Zones -> Nat] /\ localR \in [Zones -> Nat]
      /\ sver \in [Zones -> Nat] /\ localS \in [Zones -> Nat]
      /\ routers \in [Zones -> SUBSET Routers]
      /\ home \in [Segments -> Zones \union {NoZone}]
      /\ segment_to_zone \in SegmentMaps /\ seg \in SegmentMaps
  BY EdgeSyncAssumption DEF TypeOK, Versions
<1>d. DOMAIN segment_to_zone \subseteq Segments /\ DOMAIN seg \subseteq Segments
  BY <1>t DEF SegmentMaps
<1>1. ASSUME NEW x \in Zones, RouterListChanges(x) PROVE BInv'
  <2>1. Fresh'
    BY <1>1, <1>t DEF RouterListChanges, Tick, Fresh
  <2>2. ASSUME NEW z \in Zones, rver'[z] > 0, localR'[z] = rver'[z]
        PROVE  /\ rver[z] = rver'[z] /\ localR[z] = rver[z]
               /\ routers'[z] = routers[z]
    BY <1>1, <1>t, <2>2 DEF RouterListChanges, Tick, Fresh
  <2>3. RoutersCurrent'
    BY <1>1, <2>2 DEF RouterListChanges, RoutersCurrent, RoutersPublished
  <2>4. SegmentsCurrent' /\ RoutersStay'
    BY <1>1 DEF RouterListChanges, SegmentsCurrent, RoutersStay, Owns
  <2> QED
    BY <2>1, <2>3, <2>4
<1>2. ASSUME NEW s \in Segments, SegmentMoves(s) PROVE BInv'
  <2>0. PICK to \in (Zones \union {NoZone}) \ {home[s]} :
          /\ home' = [home EXCEPT ![s] = to]
          /\ sver' = [y \in Zones |-> IF y \in {to, home[s]} THEN clock'
                                      ELSE sver[y]]
    BY <1>2 DEF SegmentMoves
  <2>1. Fresh'
    BY <1>2, <1>t, <2>0 DEF SegmentMoves, Tick, Fresh
  <2>2. RoutersCurrent' /\ RoutersStay'
    BY <1>2 DEF SegmentMoves, RoutersCurrent, RoutersStay, RoutersPublished
  <2>3. ASSUME NEW z \in Zones, sver'[z] > 0, localS'[z] = sver'[z]
        PROVE  sver[z] = sver'[z] /\ localS[z] = sver[z] /\ z # home[s]
    BY <1>2, <1>t, <2>0, <2>3 DEF SegmentMoves, Tick, Fresh
  <2>4. ASSUME NEW z \in Zones, NEW sz, DOMAIN sz \subseteq Segments,
               z # home[s], Owns(sz, z)
        PROVE  \A x \in DOMAIN sz : sz[x] = z => home'[x] = z
    BY <1>t, <2>0, <2>4 DEF Owns
  <2>5. SegmentsCurrent'
    BY <1>2, <1>d, <2>3, <2>4 DEF SegmentMoves, SegmentsCurrent, Owns
  <2> QED
    BY <2>1, <2>2, <2>5
<1>3. ASSUME NEW x \in Zones, ZoneDeleted(x) PROVE BInv'
  <2>1. Fresh'
    BY <1>3, <1>t DEF ZoneDeleted, Tick, Fresh
  <2>2. ASSUME NEW z \in Zones, rver'[z] > 0, localR'[z] = rver'[z]
        PROVE  /\ rver[z] = rver'[z] /\ localR[z] = rver[z]
               /\ routers'[z] = routers[z]
    BY <1>3, <1>t, <2>2 DEF ZoneDeleted
  <2>3. RoutersCurrent' /\ RoutersStay'
    BY <1>3, <2>2
    DEF ZoneDeleted, RoutersCurrent, RoutersStay, RoutersPublished
  <2>4. ASSUME NEW z \in Zones, sver'[z] > 0, localS'[z] = sver'[z]
        PROVE  sver[z] = sver'[z] /\ localS[z] = sver[z] /\ z # x
    BY <1>3, <1>t, <2>4 DEF ZoneDeleted
  <2>5. ASSUME NEW z \in Zones, NEW sz, DOMAIN sz \subseteq Segments,
               z # x, Owns(sz, z)
        PROVE  \A s \in DOMAIN sz : sz[s] = z => home'[s] = z
    BY <1>3, <2>5 DEF ZoneDeleted, Owns
  <2>6. SegmentsCurrent'
    BY <1>3, <1>d, <2>4, <2>5 DEF ZoneDeleted, SegmentsCurrent, Owns
  <2> QED
    BY <2>1, <2>3, <2>6
<1>4. ASSUME Quiets PROVE BInv'
  BY <1>4
  DEF Quiets, Fresh, RoutersCurrent, SegmentsCurrent, RoutersStay, Owns,
      RoutersPublished
<1> QED
  BY <1>1, <1>2, <1>3, <1>4 DEF RzidStep

\* The steps of a sync record a version only together with what it stands for.
LEMMA BInvNext == TypeOK /\ RInv /\ BInv /\ [Next]_vars => BInv'
<1> SUFFICES ASSUME TypeOK, RInv, BInv, [Next]_vars PROVE BInv'
  OBVIOUS
<1> USE DEF rzid, local, published, work, BInv
<1>t. /\ rver \in [Zones -> Nat] /\ localR \in [Zones -> Nat]
      /\ sver \in [Zones -> Nat] /\ localS \in [Zones -> Nat]
      /\ clock \in Nat
      /\ sync \in {"routers", "segments"} => zone \in Zones
  BY EdgeSyncAssumption DEF TypeOK, Versions
<1>1. ASSUME FetchManifest PROVE BInv'
  <2>1. Fresh'
    BY <1>1 DEF FetchManifest, Fresh
  <2>2. RoutersCurrent' /\ RoutersStay'
    BY <1>1
    DEF FetchManifest, RoutersCurrent, RoutersStay, RoutersPublished,
        retain_zones
  <2>3. \A x : Owns(segment_to_zone, x) => Owns(seg', x)
    BY <1>1, RetainOwns DEF FetchManifest
  <2>4. SegmentsCurrent'
    BY <1>1, <2>3 DEF FetchManifest, SegmentsCurrent, Owns
  <2> QED
    BY <2>1, <2>2, <2>4
<1>2. ASSUME NextZone PROVE BInv'
  BY <1>2
  DEF NextZone, Fresh, RoutersCurrent, SegmentsCurrent, RoutersStay, Owns
<1>3. ASSUME RoutersFetched PROVE BInv'
  <2>1. Fresh'
    BY <1>3, <1>t DEF RoutersFetched, Fresh
  <2>2. RoutersCurrent' /\ RoutersStay'
    BY <1>3, <1>t
    DEF RoutersFetched, RoutersCurrent, RoutersStay, set_zone_routers
  <2>3. DOMAIN rou' # {}
    BY <1>3 DEF RoutersFetched, set_zone_routers
  <2>4. SegmentsCurrent'
    BY <1>3, <2>3 DEF RoutersFetched, SegmentsCurrent, Owns
  <2> QED
    BY <2>1, <2>2, <2>4
<1>4. ASSUME RoutersKept \/ SegmentsKept PROVE BInv'
  BY <1>4
  DEF RoutersKept, SegmentsKept, Fresh, RoutersCurrent, SegmentsCurrent,
      RoutersStay, Owns
<1>5. ASSUME SegmentsFetched PROVE BInv'
  <2>1. Fresh' /\ RoutersCurrent' /\ RoutersStay'
    BY <1>5, <1>t DEF SegmentsFetched, Fresh, RoutersCurrent, RoutersStay
  <2>2. \A x : x = zone \/ Owns(seg, x) => Owns(seg', x)
    BY <1>5, ReplaceOwns DEF SegmentsFetched
  <2>3. \A z \in Zones : z # zone => localS'[z] = localS[z]
    BY <1>5, <1>t DEF SegmentsFetched
  <2>4. DOMAIN rou = {} => Owns(segment_to_zone, zone)
    BY <1>5
    DEF SegmentsFetched, RoutersStay, RInv, RoutedZonesHaveRouters, Owns
  <2>5. SegmentsCurrent'
    BY <1>5, <2>2, <2>3, <2>4 DEF SegmentsFetched, SegmentsCurrent, Owns
  <2> QED
    BY <2>1, <2>5
<1>6. ASSUME FinalCheck PROVE BInv'
  <2>1. sync' = "idle" => DOMAIN rou = {}
    BY <1>6 DEF FinalCheck, is_empty
  <2>2. Fresh' /\ RoutersCurrent' /\ RoutersStay'
    BY <1>6, <2>1 DEF FinalCheck, Fresh, RoutersCurrent, RoutersStay
  <2>3. \A x : Owns(seg, x) => Owns(seg', x)
    BY <1>6, RetainOwns DEF FinalCheck
  <2>4. SegmentsCurrent'
    BY <1>6, <2>1, <2>3 DEF FinalCheck, SegmentsCurrent, Owns
  <2> QED
    BY <2>2, <2>4
<1>7. ASSUME RetireUnused \/ Publish \/ UNCHANGED vars PROVE BInv'
  BY <1>7
  DEF RetireUnused, Publish, vars, Fresh, RoutersCurrent, SegmentsCurrent,
      RoutersStay, Owns, RoutersPublished
<1> QED
  BY <1>1, <1>2, <1>3, <1>4, <1>5, <1>6, <1>7, BInvRzid DEF Next, SyncStep

\* Between syncs, a router list or a segment list whose recorded version is
\* RzID's is the one that is routed by, although versions are recorded while
\* the state is still being built and may be dropped.
THEOREM VersionsTruthful == Spec => []BelievedMeansTrue
<1>1. Init => BInv
  BY EdgeSyncAssumption
  DEF Init, NoEntries, BInv, Fresh, RoutersCurrent, SegmentsCurrent,
      RoutersStay, Owns
<1>2. BInv => BelievedMeansTrue
  BY DEF BInv, RoutersCurrent, SegmentsCurrent, BelievedMeansTrue, Owns
<1>3. Init => RInv
  BY DEF Init, NoEntries, RInv, RoutedZonesHaveRouters, NextSnapshotRouted
<1> QED
  BY <1>1, <1>2, <1>3, TypeInit, TypeNext, RInvNext, BInvNext, PTL DEF Spec
=============================================================================
