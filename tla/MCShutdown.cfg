SPECIFICATION FairSpec
CONSTANTS
  Binaries <- MCBinaries
  Programs <- AllPrograms
  Requests = {r1}
  Nowhere = Nowhere
INVARIANTS ConsumersKeepTheirClients HandlersKeepTheirClients LossesHaveACause OnlyConsumersOutlastTheDeadline
PROPERTY ShutdownEnds
CHECK_DEADLOCK FALSE
