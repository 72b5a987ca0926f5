SPECIFICATION FairSpec
CONSTANTS
  Agents <- Pair
  Tasks <- Four
  Places <- Street
  Home <- OddHome
  Hop <- StreetWalk
  NoHop = NoHop
  Load <- PairZero
  Energy <- PairZero
  Site <- OddSites
  Able <- FourAble
  Priority <- OddUrgent
  Deadline <- OddLate
  Service <- OddService
  ServiceEnergy <- FourZero
  Payload <- FourZero
  Deliveries = {}
  PriorityWeight = 100000
  TickWeight = 100
  Policy = "cbba"
  Interval = 5
  Released <- Three
  Stable = 10
  Backlog = 2
  MaxLapses = 1
  MaxEvents = 1
  MaxUpsets = 2
  MaxVersion = 20
INVARIANTS WorkCanBeDone ClaimsSettle
PROPERTIES NoOverbidding  
