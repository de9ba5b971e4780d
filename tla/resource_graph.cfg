\* Every acyclic graph of four resources with up to two dependencies each.
SPECIFICATION GraphSpec
CONSTANTS
  Void = Void
  Resource <- Four
  Graphs <- AllGraphs
  Kinds <- PinsAndBuses
  Lists <- BothOrders
INVARIANTS
  SharedRootsMeet
