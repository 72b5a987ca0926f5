SPECIFICATION FairSpec
CONSTANTS
  Agents = {1, 2, 3}
  Traffic <- MCTraffic
  Profiles <- MCProfiles
  FirstProfile <- Slow
  MaxSize = 2
  MaxSent = 3
INVARIANTS QuietWhenCut 
PROPERTIES ImplementsDatagrams WithinBudget EverythingSettles
