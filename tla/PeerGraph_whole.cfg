\* The ends of edges and the table of nodes, two probes of two sites.
SPECIFICATION Spec
CONSTANTS
  Ids = {g1, g2}
  Sites = {site1, site2}
  Window = 1
  MaxClock = 1
  None = None
INVARIANT PanelIsWhole
CHECK_DEADLOCK FALSE
