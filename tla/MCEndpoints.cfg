\* Configuration, peer graph, traceroute graph, form and cached specification, one at a time.
SPECIFICATION EndpointsSpec
CONSTANTS
  Workers = {w1}
  Drafts = {d1, d2}
  Entries = {k, m, bad}
  Keys = {k}
  Incomplete = {bad}
  Textual = {}
  Default = {k, m}
  MaxFaults = 2
  MaxSeries = 1
  GraphIds = {g1, g2, g3}
  Sites = {site1, site2}
  Window = 1
  MaxClock = 2
  Probes = {t1, t2}
  Meas = {traceroute}
  Ips = {ip1, ip2, ip3}
  Hosts = {h1, h2}
  Paths <- MCPaths
  Filters <- MCFilters
  MaxChanges = 2
  Names = {m1, m2, m3, n1}
  File <- MCFile
  PeerIds = {asker, other}
  Nets = {net1, net2}
  Garbled = Garbled
  Inside = {in}
  Outside = {out}
  Counts = {1}
  Askers = {asker}
  Clients = {asker}
  Days = 1
  ip1 = ip1
  ip2 = ip2
  ip3 = ip3
  h1 = h1
  h2 = h2
  t1 = t1
  t2 = t2
  m1 = m1
  m2 = m2
  m3 = m3
  None = None
SYMMETRY Symmetry
CONSTRAINT Explored
INVARIANTS
  TypesOK
  HotReloaded
  SavedIsOnDisk
  ServedIsValid
  CalmPanelIsComplete
  EdgesWereNewest
  NamesWereReported
  CalmGraphIsExact
  PeersKeepAnAddress
PROPERTIES
  ServedWasSaved
  RemoveTakesNoneBefore
CHECK_DEADLOCK FALSE
