SPECIFICATION FairSpec
CONSTANTS
  Agents <- Trio
  Tasks <- Two
  Places <- Line
  Home <- TrioHome
  Hop <- TrioWalk
  NoHop = NoHop
  Load <- TrioZero
  Energy <- TrioZero
  Site <- TwoSites
  Able <- TrioAble
  Priority <- TwoZero
  Deadline <- TwoLate
  Service <- TwoOnes
  ServiceEnergy <- TwoZero
  Payload <- TwoZero
  Deliveries = {}
  PriorityWeight = 1000
  TickWeight = 10
  Policy = "nearest"
  Interval = 2
  Released <- Two
  Stable = 5
  Backlog = 2
  MaxLapses = 1
  MaxEvents = 2
  MaxUpsets = 2
  MaxVersion = 20
INVARIANTS TypeOK OneStatePerVersion OwnersKnow OneCommitter
PROPERTIES NearestWins ImplementsLedger  BeliefsComeTrue
