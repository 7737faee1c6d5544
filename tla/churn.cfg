CONSTANTS
  p1 = p1
  p2 = p2
  x1 = x1
  x2 = x2
  a1 = a1
  a2 = a2
  Peer = {p1, p2}
  Prefix = {x1, x2}
  ASN = {a1, a2}
  Digest <- MCDigest
  NoRoute = NoRoute
  Options <- MCOptions
  RouteKeys <- MCRouteKeys
  Routes <- MCRoutes
  Whole = 4
  MaxMessages = 5
  MaxOvertaken = 1
  Times = {0, 2}
SPECIFICATION Spec
INVARIANTS
  TypeOK
  TableFollowsTruth
  ExposureIsExact
  MassIsConserved
  CountersAddUp
PROPERTIES
  ChurnIsReal
