CONSTANTS
  b1 = b1  b2 = b2
  NoRequest = NoRequest
  Clients = {b1, b2}
  Loops = {loop1, loop2}
  Lines <- MCLines
  MaxLines <- MCMaxLines
  Kinds <- MCKinds
  MaxFaults = 1
SPECIFICATION FairStdioSpec
INVARIANTS StdioTypeOK RepliesCorrelate 
PROPERTIES ImplementsLineServer RequestsAnswered
CHECK_DEADLOCK FALSE
