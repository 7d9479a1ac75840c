--------------------------- MODULE ZoneSyncProofs ---------------------------
(***************************************************************************)
(* Proofs about ZoneSync, for any shards, bridges, segments and versions:  *)
(* the types, what every published snapshot and the hop registry satisfy   *)
(* although any request may fail, and that what the recorded versions say  *)
(* is current really is.                                                   *)
(***************************************************************************)
EXTENDS ZoneSync, TLAPS

-----------------------------------------------------------------------------
(* ZoneState's operations *)

\* retain_valid_shards leaves only segments of valid shards.
LEMMA RetainValid ==
  ASSUME NEW ss, NEW valid
  PROVE  \A s \in DOMAIN retain_valid_shards(ss, valid) :
           retain_valid_shards(ss, valid)[s] \in valid
BY DEF retain_valid_shards

\* It keeps the type of the map.
LEMMA RetainType ==
  ASSUME NEW ss \in SegmentMaps, NEW valid
  PROVE  retain_valid_shards(ss, valid) \in SegmentMaps
<1>1. PICK E \in SUBSET Segments : ss \in [E -> Shards]
  BY DEF SegmentMaps
<1> DEFINE K == {x \in E : ss[x] \in valid}
<1>2. retain_valid_shards(ss, valid) \in [K -> Shards]
  BY <1>1 DEF retain_valid_shards
<1>3. K \in SUBSET Segments
  BY <1>1
<1> QED
  BY <1>2, <1>3 DEF SegmentMaps

\* So does the installation of a fetched segment list.
LEMMA ReplaceType ==
  ASSUME NEW ss \in SegmentMaps, NEW sh \in Shards, NEW list \in SUBSET Segments
  PROVE  replace_shard_segments(ss, sh, list) \in SegmentMaps
<1>1. PICK E \in SUBSET Segments : ss \in [E -> Shards]
  BY DEF SegmentMaps
<1> DEFINE K == list \union {x \in E : ss[x] # sh}
<1>2. replace_shard_segments(ss, sh, list) \in [K -> Shards]
  BY <1>1 DEF replace_shard_segments
<1>3. K \in SUBSET Segments
  BY <1>1
<1> QED
  BY <1>2, <1>3 DEF SegmentMaps

\* The hops of a bridge map are bridges, and its keys shards.
LEMMA BridgeMapHops ==
  ASSUME NEW sb \in BridgeMaps
  PROVE  get_all_hop_ids(sb) \subseteq Bridges /\ DOMAIN sb \subseteq Shards
<1>1. PICK D \in SUBSET Shards : sb \in [D -> SUBSET Bridges]
  BY DEF BridgeMaps
<1> QED
  BY <1>1 DEF get_all_hop_ids

-----------------------------------------------------------------------------
(* The published snapshot *)

\* Between the final check and the store, the state about to be published
\* already has what RoutedShardsHaveBridges asks of the published one.
NextSnapshotRouted ==
  sync \in {"retire", "store"} =>
    \A s \in DOMAIN seg : seg[s] \in DOMAIN bri

RInv == RoutedShardsHaveBridges /\ NextSnapshotRouted

\* Each step of a sync preserves it.
LEMMA RInvNext == RInv /\ [Next]_vars => RInv'
<1> SUFFICES ASSUME RInv, [Next]_vars PROVE RInv'
  OBVIOUS
<1> USE DEF rzid, local, published, work
<1>1. ASSUME FinalCheck PROVE RInv'
  BY <1>1, RetainValid
  DEF FinalCheck, RInv, RoutedShardsHaveBridges, NextSnapshotRouted
<1>2. ASSUME Publish PROVE RInv'
  BY <1>2 DEF Publish, RInv, RoutedShardsHaveBridges, NextSnapshotRouted
<1>3. ASSUME RetireUnused PROVE RInv'
  BY <1>3 DEF RetireUnused, RInv, RoutedShardsHaveBridges, NextSnapshotRouted
<1>4. ASSUME FetchManifest(FALSE) \/ FetchManifest(TRUE) \/ ShardsFetched
             \/ ShardsKept
      PROVE  RInv'
  BY <1>4
  DEF FetchManifest, ShardsFetched, ShardsKept, RInv, RoutedShardsHaveBridges,
      NextSnapshotRouted
<1>5. ASSUME NEW sh \in Shards, SegmentsFetched(sh) \/ SegmentsKept(sh)
      PROVE  RInv'
  BY <1>5
  DEF SegmentsFetched, SegmentsKept, RInv, RoutedShardsHaveBridges,
      NextSnapshotRouted
<1>6. ASSUME RzidStep \/ UNCHANGED vars PROVE RInv'
  BY <1>6
  DEF RzidStep, TopologyChanges, SegmentMoves, ShardMoves, ShardDeleted,
      Quiets, vars, RInv, RoutedShardsHaveBridges, NextSnapshotRouted
<1> QED
  BY <1>1, <1>2, <1>3, <1>4, <1>5, <1>6 DEF Next, SyncStep

\* No published snapshot, of any sync, routes a segment to a shard without a
\* bridge list.
THEOREM SnapshotConsistent == Spec => []RoutedShardsHaveBridges
<1>1. Init => RInv
  BY DEF Init, NoEntries, RInv, RoutedShardsHaveBridges, NextSnapshotRouted
<1>2. RInv => RoutedShardsHaveBridges
  BY DEF RInv
<1> QED
  BY <1>1, <1>2, RInvNext, PTL DEF Spec

-----------------------------------------------------------------------------
(* The hop registry *)

\* During a sync, the bridges of the state being built are registered as well
\* as those of the published one: retire_unused is the first to remove any.
HInv ==
  /\ sync # "store" => get_all_hop_ids(shard_to_bridges) \subseteq hops
  /\ sync # "idle" => get_all_hop_ids(bri) \subseteq hops

\* Each step of a sync preserves it.
LEMMA HInvNext == HInv /\ [Next]_vars => HInv'
<1> SUFFICES ASSUME HInv, [Next]_vars PROVE HInv'
  OBVIOUS
<1> USE DEF rzid, local, published, work
<1>1. ASSUME FetchManifest(FALSE) \/ FetchManifest(TRUE) PROVE HInv'
  BY <1>1 DEF FetchManifest, HInv
<1>2. ASSUME ShardsFetched PROVE HInv'
  BY <1>2 DEF ShardsFetched, HInv
<1>3. ASSUME RetireUnused PROVE HInv'
  BY <1>3 DEF RetireUnused, HInv, retire_unused
<1>4. ASSUME Publish PROVE HInv'
  BY <1>4 DEF Publish, HInv
<1>5. ASSUME ShardsKept \/ FinalCheck PROVE HInv'
  BY <1>5 DEF ShardsKept, FinalCheck, HInv
<1>6. ASSUME NEW sh \in Shards, SegmentsFetched(sh) \/ SegmentsKept(sh)
      PROVE  HInv'
  BY <1>6 DEF SegmentsFetched, SegmentsKept, HInv
<1>7. ASSUME RzidStep \/ UNCHANGED vars PROVE HInv'
  BY <1>7
  DEF RzidStep, TopologyChanges, SegmentMoves, ShardMoves, ShardDeleted,
      Quiets, vars, HInv
<1> QED
  BY <1>1, <1>2, <1>3, <1>4, <1>5, <1>6, <1>7 DEF Next, SyncStep

\* The forwarder finds every bridge of the snapshot it has loaded in the
\* registry, except between retire_unused and routing.store.
THEOREM RegistryCovers == Spec => []HopsRegistered
<1>1. Init => HInv
  BY DEF Init, NoEntries, HInv, get_all_hop_ids
<1>2. HInv => HopsRegistered
  BY DEF HInv, HopsRegistered
<1> QED
  BY <1>1, <1>2, HInvNext, PTL DEF Spec

-----------------------------------------------------------------------------
(* Types *)

\* Types of the parts: RzID, the router's own state, the sync under way.
RzidTypes ==
  /\ clock \in Versions /\ tver \in Versions
  /\ topology \in BridgeMaps
  /\ gver \in [Shards -> Versions]
  /\ ours \in SUBSET Shards
  /\ home \in [Segments -> Shards \union {NoShard}]
  /\ quiet \in BOOLEAN

RouterTypes ==
  /\ localT \in Versions /\ localG \in [Shards -> Versions]
  /\ segment_to_shard \in SegmentMaps /\ shard_to_bridges \in BridgeMaps
  /\ hops \in SUBSET Bridges

WorkTypes ==
  /\ sync \in {"idle", "shards", "segments", "retire", "store"}
  /\ seg \in SegmentMaps /\ bri \in BridgeMaps
  /\ manT \in Versions /\ manG \in [Shards -> Versions]
  /\ todo \in SUBSET Shards

\* The three parts are TypeOK, before and after a step.
LEMMA Parts ==
  /\ TypeOK <=> RzidTypes /\ RouterTypes /\ WorkTypes
  /\ TypeOK' <=> RzidTypes' /\ RouterTypes' /\ WorkTypes'
BY DEF TypeOK, RzidTypes, RouterTypes, WorkTypes

\* A sync writes only bridges, shards and segments that RzID named.
LEMMA TypeNext == TypeOK /\ [Next]_vars => TypeOK'
<1> SUFFICES ASSUME RzidTypes, RouterTypes, WorkTypes, [Next]_vars
             PROVE  TypeOK'
  BY Parts
<1> USE DEF rzid, local, published, work
<1>1. ASSUME FetchManifest(FALSE) \/ FetchManifest(TRUE) PROVE TypeOK'
  <2>1. RzidTypes' /\ RouterTypes' /\ WorkTypes'
    BY <1>1 DEF FetchManifest, RzidTypes, RouterTypes, WorkTypes
  <2> QED
    BY <2>1, Parts
<1>2. ASSUME ShardsFetched PROVE TypeOK'
  <2>1. RzidTypes'
    BY <1>2 DEF ShardsFetched, RzidTypes
  <2>2. RouterTypes'
    BY <1>2, BridgeMapHops DEF ShardsFetched, RzidTypes, RouterTypes
  <2>3. WorkTypes'
    <3>1. seg' \in SegmentMaps
      BY <1>2, RetainType DEF ShardsFetched, WorkTypes
    <3>2. bri' \in BridgeMaps /\ todo' \in SUBSET Shards
      BY <1>2, BridgeMapHops DEF ShardsFetched, RzidTypes
    <3> QED
      BY <1>2, <3>1, <3>2 DEF ShardsFetched, WorkTypes
  <2> QED
    BY <2>1, <2>2, <2>3, Parts
<1>3. ASSUME ShardsKept PROVE TypeOK'
  <2>1. todo' \in SUBSET Shards
    BY <1>3, BridgeMapHops DEF ShardsKept, WorkTypes
  <2>2. RzidTypes' /\ RouterTypes' /\ WorkTypes'
    BY <1>3, <2>1 DEF ShardsKept, RzidTypes, RouterTypes, WorkTypes
  <2> QED
    BY <2>2, Parts
<1>4. ASSUME NEW sh \in Shards, SegmentsFetched(sh) PROVE TypeOK'
  <2>1. {s \in Segments : home[s] = sh} \in SUBSET Segments
    OBVIOUS
  <2>2. seg' \in SegmentMaps
    BY <1>4, <2>1, ReplaceType DEF SegmentsFetched, WorkTypes
  <2>3. RzidTypes' /\ WorkTypes'
    BY <1>4, <2>2 DEF SegmentsFetched, RzidTypes, WorkTypes
  <2>4. RouterTypes'
    BY <1>4 DEF SegmentsFetched, RzidTypes, RouterTypes
  <2> QED
    BY <2>3, <2>4, Parts
<1>5. ASSUME NEW sh \in Shards, SegmentsKept(sh) PROVE TypeOK'
  <2>1. RzidTypes' /\ RouterTypes' /\ WorkTypes'
    BY <1>5 DEF SegmentsKept, RzidTypes, RouterTypes, WorkTypes
  <2> QED
    BY <2>1, Parts
<1>6. ASSUME FinalCheck PROVE TypeOK'
  <2>1. seg' \in SegmentMaps
    BY <1>6, RetainType DEF FinalCheck, WorkTypes
  <2>2. RzidTypes' /\ RouterTypes' /\ WorkTypes'
    BY <1>6, <2>1 DEF FinalCheck, RzidTypes, RouterTypes, WorkTypes
  <2> QED
    BY <2>2, Parts
<1>7. ASSUME RetireUnused \/ Publish PROVE TypeOK'
  <2>1. RzidTypes' /\ RouterTypes' /\ WorkTypes'
    BY <1>7
    DEF RetireUnused, Publish, RzidTypes, RouterTypes, WorkTypes, retire_unused
  <2> QED
    BY <2>1, Parts
<1>8. ASSUME RzidStep PROVE TypeOK'
  <2>1. RzidTypes'
    <3>1. ASSUME Tick PROVE clock' \in Versions
      BY <3>1, ZoneSyncAssumption DEF Tick, RzidTypes, Versions
    <3>2. 0 \in Versions
      BY ZoneSyncAssumption DEF Versions
    <3>3. ASSUME TopologyChanges PROVE RzidTypes'
      BY <3>1, <3>3 DEF TopologyChanges, RzidTypes, Tick, BridgeMaps
    <3>4. ASSUME NEW s \in Segments, SegmentMoves(s) PROVE RzidTypes'
      BY <3>1, <3>4 DEF SegmentMoves, RzidTypes, Tick
    <3>5. ASSUME NEW sh \in Shards, ShardMoves(sh) PROVE RzidTypes'
      BY <3>1, <3>5 DEF ShardMoves, RzidTypes, Tick
    <3>6. ASSUME NEW sh \in Shards, ShardDeleted(sh) PROVE RzidTypes'
      BY <3>1, <3>2, <3>6 DEF ShardDeleted, RzidTypes, Tick
    <3>7. ASSUME Quiets PROVE RzidTypes'
      BY <3>7 DEF Quiets, RzidTypes
    <3> QED
      BY <1>8, <3>3, <3>4, <3>5, <3>6, <3>7 DEF RzidStep
  <2>2. RouterTypes' /\ WorkTypes'
    BY <1>8
    DEF RzidStep, TopologyChanges, SegmentMoves, ShardMoves, ShardDeleted,
        Quiets, RouterTypes, WorkTypes
  <2> QED
    BY <2>1, <2>2, Parts
<1>9. ASSUME UNCHANGED vars PROVE TypeOK'
  <2>1. RzidTypes' /\ RouterTypes' /\ WorkTypes'
    BY <1>9 DEF vars, RzidTypes, RouterTypes, WorkTypes
  <2> QED
    BY <2>1, Parts
<1> QED
  BY <1>1, <1>2, <1>3, <1>4, <1>5, <1>6, <1>7, <1>8, <1>9 DEF Next, SyncStep

\* The initial state has the types.
LEMMA TypeInit == Init => TypeOK
<1> SUFFICES ASSUME Init PROVE TypeOK
  OBVIOUS
<1>1. NoEntries \in SegmentMaps /\ NoEntries \in BridgeMaps
  <2>1. NoEntries \in [{} -> Shards] /\ NoEntries \in [{} -> SUBSET Bridges]
    BY DEF NoEntries
  <2> QED
    BY <2>1 DEF SegmentMaps, BridgeMaps
<1>2. 0 \in Versions
  BY ZoneSyncAssumption DEF Versions
<1>3. RzidTypes /\ RouterTypes /\ WorkTypes
  BY <1>1, <1>2 DEF Init, RzidTypes, RouterTypes, WorkTypes
<1> QED
  BY <1>3, Parts

\* Types of the synchronisation: in particular the registry and the snapshot
\* hold only bridges, shards and segments that RzID knows.
THEOREM TypeCorrect == Spec => []TypeOK
BY TypeInit, TypeNext, PTL DEF Spec

-----------------------------------------------------------------------------
(* What the recorded versions say *)

\* No version is from the future, so that the next one is new to everybody.
Fresh ==
  /\ tver <= clock /\ localT <= clock
  /\ \A sh \in Shards : gver[sh] <= clock /\ localG[sh] <= clock

\* Of a segment map: a shard is given only segments that are its own.
Owns(ss, sh) == \A s \in DOMAIN ss : ss[s] = sh => home[s] = sh

\* The shard list is recorded as current only if the state that is published,
\* or about to be, has it.
ShardsCurrent ==
  tver > 0 /\ localT = tver /\ DOMAIN topology # {} =>
    /\ sync = "idle" => shard_to_bridges = topology
    /\ sync # "idle" => bri = topology

\* The same of segment lists.  A list is recorded when it is fetched, and what
\* is published may be older until the store; an empty state is never stored,
\* but then no segment list was fetched either: todo holds shards with bridges.
SegmentsCurrent ==
  \A sh \in Shards : gver[sh] > 0 /\ localG[sh] = gver[sh] =>
    /\ sh \in ours
    /\ sync # "idle" => Owns(seg, sh)
    /\ sync \in {"idle", "shards"} \/ DOMAIN bri = {} =>
         Owns(segment_to_shard, sh)

TodoHasBridges == sync = "segments" => todo \subseteq DOMAIN bri

BInv == Fresh /\ ShardsCurrent /\ SegmentsCurrent /\ TodoHasBridges

\* A fetched segment list makes its shard own what it is given, and takes
\* nothing from another shard's claim.
LEMMA ReplaceOwns ==
  ASSUME NEW ss, NEW sh, NEW x,
         x = sh \/ Owns(ss, x)
  PROVE  Owns(replace_shard_segments(ss, sh, {s \in Segments : home[s] = sh}), x)
BY DEF Owns, replace_shard_segments

\* Retaining shards keeps every claim.
LEMMA RetainOwns ==
  ASSUME NEW ss, NEW valid, NEW x, Owns(ss, x)
  PROVE  Owns(retain_valid_shards(ss, valid), x)
BY DEF Owns, retain_valid_shards

\* RzID's own steps: a change makes the version it is recorded under stale.
LEMMA BInvRzid == TypeOK /\ BInv /\ RzidStep => BInv'
<1> SUFFICES ASSUME TypeOK, BInv, RzidStep PROVE BInv'
  OBVIOUS
<1> USE DEF rzid, local, published, work, BInv
<1>t. /\ clock \in Nat /\ tver \in Nat /\ localT \in Nat
      /\ gver \in [Shards -> Nat] /\ localG \in [Shards -> Nat]
      /\ home \in [Segments -> Shards \union {NoShard}]
      /\ segment_to_shard \in SegmentMaps /\ seg \in SegmentMaps
  BY ZoneSyncAssumption DEF TypeOK, Versions
<1>d. DOMAIN segment_to_shard \subseteq Segments /\ DOMAIN seg \subseteq Segments
  BY <1>t DEF SegmentMaps
<1>1. ASSUME TopologyChanges PROVE BInv'
  <2>1. Fresh'
    BY <1>1, <1>t DEF TopologyChanges, Tick, Fresh
  <2>2. ShardsCurrent'
    BY <1>1, <1>t DEF TopologyChanges, Tick, Fresh, ShardsCurrent
  <2>3. SegmentsCurrent' /\ TodoHasBridges'
    BY <1>1 DEF TopologyChanges, SegmentsCurrent, TodoHasBridges, Owns
  <2> QED
    BY <2>1, <2>2, <2>3
<1>2. ASSUME NEW s \in Segments, SegmentMoves(s) PROVE BInv'
  <2>0. PICK to \in (Shards \union {NoShard}) \ {home[s]} :
          /\ home' = [home EXCEPT ![s] = to]
          /\ gver' = [x \in Shards |-> IF x \in {to, home[s]} THEN clock'
                                       ELSE gver[x]]
    BY <1>2 DEF SegmentMoves
  <2>1. Fresh'
    BY <1>2, <1>t, <2>0 DEF SegmentMoves, Tick, Fresh
  <2>2. ShardsCurrent' /\ TodoHasBridges'
    BY <1>2 DEF SegmentMoves, ShardsCurrent, TodoHasBridges
  <2>3. ASSUME NEW sh \in Shards, gver'[sh] > 0, localG'[sh] = gver'[sh]
        PROVE  /\ gver[sh] = gver'[sh] /\ localG[sh] = gver[sh]
               /\ sh # to /\ sh # home[s]
    BY <1>2, <1>t, <2>0, <2>3 DEF SegmentMoves, Tick, Fresh
  <2>4. ASSUME NEW sh \in Shards, NEW ss, DOMAIN ss \subseteq Segments,
               sh # home[s], Owns(ss, sh)
        PROVE  \A x \in DOMAIN ss : ss[x] = sh => home'[x] = sh
    BY <1>t, <2>0, <2>4 DEF Owns
  <2>5. SegmentsCurrent'
    BY <1>2, <1>d, <2>3, <2>4 DEF SegmentMoves, SegmentsCurrent, Owns
  <2> QED
    BY <2>1, <2>2, <2>5
<1>3. ASSUME NEW x \in Shards, ShardMoves(x) PROVE BInv'
  <2>1. Fresh'
    BY <1>3, <1>t DEF ShardMoves, Tick, Fresh
  <2>2. ShardsCurrent' /\ TodoHasBridges'
    BY <1>3 DEF ShardMoves, ShardsCurrent, TodoHasBridges
  <2>3. ASSUME NEW sh \in Shards, gver'[sh] > 0, localG'[sh] = gver'[sh]
        PROVE  gver[sh] = gver'[sh] /\ localG[sh] = gver[sh] /\ sh # x
    BY <1>3, <1>t, <2>3 DEF ShardMoves, Tick, Fresh
  <2>4. SegmentsCurrent'
    BY <1>3, <2>3 DEF ShardMoves, SegmentsCurrent, Owns
  <2> QED
    BY <2>1, <2>2, <2>4
<1>4. ASSUME NEW x \in Shards, ShardDeleted(x) PROVE BInv'
  <2>1. Fresh'
    BY <1>4, <1>t DEF ShardDeleted, Tick, Fresh
  <2>2. ShardsCurrent' /\ TodoHasBridges'
    BY <1>4 DEF ShardDeleted, ShardsCurrent, TodoHasBridges
  <2>3. ASSUME NEW sh \in Shards, gver'[sh] > 0, localG'[sh] = gver'[sh]
        PROVE  gver[sh] = gver'[sh] /\ localG[sh] = gver[sh] /\ sh # x
    BY <1>4, <1>t, <2>3 DEF ShardDeleted, Tick, Fresh
  <2>4. ASSUME NEW sh \in Shards, NEW ss, DOMAIN ss \subseteq Segments,
               sh # x, Owns(ss, sh)
        PROVE  \A s \in DOMAIN ss : ss[s] = sh => home'[s] = sh
    BY <1>4, <2>4 DEF ShardDeleted, Owns
  <2>5. SegmentsCurrent'
    BY <1>4, <1>d, <2>3, <2>4 DEF ShardDeleted, SegmentsCurrent, Owns
  <2> QED
    BY <2>1, <2>2, <2>5
<1>5. ASSUME Quiets PROVE BInv'
  BY <1>5
  DEF Quiets, Fresh, ShardsCurrent, SegmentsCurrent, TodoHasBridges, Owns
<1> QED
  BY <1>1, <1>2, <1>3, <1>4, <1>5 DEF RzidStep

\* The steps of a sync record a version only together with what it stands for.
LEMMA BInvNext == TypeOK /\ BInv /\ [Next]_vars => BInv'
<1> SUFFICES ASSUME TypeOK, BInv, [Next]_vars PROVE BInv'
  OBVIOUS
<1> USE DEF rzid, local, published, work, BInv
<1>t. localG \in [Shards -> Versions] /\ gver \in [Shards -> Versions]
  BY DEF TypeOK
<1>1. ASSUME FetchManifest(FALSE) \/ FetchManifest(TRUE) PROVE BInv'
  BY <1>1
  DEF FetchManifest, Fresh, ShardsCurrent, SegmentsCurrent, TodoHasBridges, Owns
<1>2. ASSUME ShardsFetched PROVE BInv'
  <2>1. Fresh' /\ ShardsCurrent' /\ TodoHasBridges'
    BY <1>2 DEF ShardsFetched, Fresh, ShardsCurrent, TodoHasBridges
  <2>2. \A x : Owns(seg, x) => Owns(seg', x)
    BY <1>2, RetainOwns DEF ShardsFetched
  <2>3. SegmentsCurrent'
    BY <1>2, <2>2 DEF ShardsFetched, SegmentsCurrent, Owns
  <2> QED
    BY <2>1, <2>3
<1>3. ASSUME ShardsKept PROVE BInv'
  BY <1>3
  DEF ShardsKept, Fresh, ShardsCurrent, SegmentsCurrent, TodoHasBridges, Owns
<1>4. ASSUME NEW sh \in Shards, SegmentsFetched(sh) PROVE BInv'
  <2>1. Fresh' /\ ShardsCurrent' /\ TodoHasBridges'
    BY <1>4, <1>t DEF SegmentsFetched, Fresh, ShardsCurrent, TodoHasBridges
  <2>2. \A x : x = sh \/ Owns(seg, x) => Owns(seg', x)
    BY <1>4, ReplaceOwns DEF SegmentsFetched
  <2>3. \A x \in Shards : x # sh => localG'[x] = localG[x]
    BY <1>4, <1>t DEF SegmentsFetched
  <2>4. DOMAIN bri' # {} /\ sh \in ours
    BY <1>4 DEF SegmentsFetched, TodoHasBridges
  <2>5. SegmentsCurrent'
    BY <1>4, <2>2, <2>3, <2>4 DEF SegmentsFetched, SegmentsCurrent, Owns
  <2> QED
    BY <2>1, <2>5
<1>5. ASSUME NEW sh \in Shards, SegmentsKept(sh) PROVE BInv'
  BY <1>5
  DEF SegmentsKept, Fresh, ShardsCurrent, SegmentsCurrent, TodoHasBridges, Owns
<1>6. ASSUME FinalCheck PROVE BInv'
  <2>1. sync' = "idle" => DOMAIN bri = {}
    BY <1>6 DEF FinalCheck, is_empty
  <2>2. Fresh' /\ ShardsCurrent' /\ TodoHasBridges'
    BY <1>6, <2>1 DEF FinalCheck, Fresh, ShardsCurrent, TodoHasBridges
  <2>3. \A x : Owns(seg, x) => Owns(seg', x)
    BY <1>6, RetainOwns DEF FinalCheck
  <2>4. SegmentsCurrent'
    BY <1>6, <2>1, <2>3 DEF FinalCheck, SegmentsCurrent, Owns
  <2> QED
    BY <2>2, <2>4
<1>7. ASSUME RetireUnused \/ Publish \/ UNCHANGED vars PROVE BInv'
  BY <1>7
  DEF RetireUnused, Publish, vars, Fresh, ShardsCurrent, SegmentsCurrent,
      TodoHasBridges, Owns
<1> QED
  BY <1>1, <1>2, <1>3, <1>4, <1>5, <1>6, <1>7, BInvRzid DEF Next, SyncStep

\* Between syncs, a shard list or a segment list whose recorded version is
\* RzID's is the one that is routed by: a failed request, a state dropped by
\* is_empty or a change between two requests never leaves a version recorded
\* for something that was not installed.
THEOREM VersionsTruthful == Spec => []BelievedMeansTrue
<1>1. Init => BInv
  BY ZoneSyncAssumption
  DEF Init, NoEntries, BInv, Fresh, ShardsCurrent, SegmentsCurrent,
      TodoHasBridges, Owns
<1>2. BInv => BelievedMeansTrue
  BY DEF BInv, ShardsCurrent, SegmentsCurrent, BelievedMeansTrue, Owns
<1> QED
  BY <1>1, <1>2, TypeInit, TypeNext, BInvNext, PTL DEF Spec
=============================================================================
