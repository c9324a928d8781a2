\* Safety of the watchdog supervisor with stalls, feed errors and resets (lab 25).
SPECIFICATION Spec
CONSTANTS
  task0 = task0
  task1 = task1
  Main = Main
  None = None
  Tasks <- MCTasks
  Period <- MCPeriod
  Slack = 1
  TIMEOUT = 7
  AutoTask = task1
  AutoStallAfter = 0
INVARIANTS
  NoLostReport
  FeedWindow
PROPERTIES
  FeedJustified
