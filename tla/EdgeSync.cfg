SPECIFICATION FairSpec
CONSTANTS
  Zones = {z1, z2}
  Routers = {r1, r2}
  Segments = {s1}
  NoZone = NoZone
  MaxVersion = 3
INVARIANTS TypeOK RoutedZonesHaveRouters HopsRegistered BelievedMeansTrue
PROPERTIES RoutersConverge PublishesNamedZones
CHECK_DEADLOCK FALSE
