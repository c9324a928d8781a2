\* The demonstration of lab 25: stalls and feed errors end in a reset.
SPECIFICATION FairSpec
CONSTANTS
  task0 = task0
  task1 = task1
  Main = Main
  None = None
  Tasks <- MCTasks
  Period <- MCPeriod
  Slack = 0
  TIMEOUT = 7
  AutoTask = task1
  AutoStallAfter = 2
PROPERTIES
  FaultsEnd
