SPECIFICATION Spec
CONSTANTS
  a = a
  b = b
  run = run
  system = system
  System = system
  Slots <- MCSlots
  Prios <- MCPrios
  Runs <- MCRuns
  Accounts <- MCAccounts
  P0Capacity = 1
  SharedCapacity = 1
  MaxConcurrent = 1
  MaxRetries = 1
  MaxPerRun = 1
  DailyBudget = 1
  Outcomes <- MCOutcomes
  MaxFaults = 1
  Window = 1
  Cooldown = 1
  MinSamples = 1
  MaxSamples = 1
  Ratio <- MCRatio
  QueueAt <- MCQueueAt
INVARIANTS BudgetsHold ReservationsAccounted
PROPERTIES CallsEnd 
