CONSTANTS
  Agents <- MCAgents  Tasks <- MCTasks  NoTask <- MCNoTask
  NoAgent = NoAgent  NoRow = NoRow
  Base = 4  Width = 3  Slash = 2  One = 3  IdBytes <- MCIdBytes
  LenWrap = 4  MaxAgentLen = 3  MaxTaskLen = 3  MaxSubjectLen = 3
  Clicks <- MCClicks
  FirstEpoch = 2  MaxEpoch = 4
  WindowFactor = 2  WindowMin = 2  TaskRows = 2  RecentCap = 1
SPECIFICATION QueriesSpec
CHECK_DEADLOCK FALSE
INVARIANTS RowsRoundTrip BoardsFromLog ThreadFromLog ReviewsFromLog GetTaskFromLog AgentLogOwn
