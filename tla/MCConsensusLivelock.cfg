SPECIFICATION Spec
CONSTANTS
  Agents <- Pair
  Tasks <- Four
  Places <- Road
  Home <- RoadHome
  Hop <- RoadWalk
  NoHop = NoHop
  Load <- PairZero
  Energy <- PairZero
  Site <- RoadSites
  Able <- FourAble
  Priority <- Urgent
  Deadline <- FourLate
  Service <- FourOnes
  ServiceEnergy <- FourZero
  Payload <- FourZero
  Deliveries = {}
  PriorityWeight = 100000
  TickWeight = 100
  Policy = "cbba"
  Interval = 2
  Released <- Four
  Stable = 5
  Backlog = 2
  MaxLapses = 0
  MaxEvents = 0
  MaxUpsets = 2
  MaxVersion = 30
INVARIANTS ClaimsSettle
