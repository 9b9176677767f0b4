SPECIFICATION FairSpec
CONSTANTS
  f1 = f1
  f2 = f2
  Files = {f1, f2}
  Reads <- ReadsOf
  DataParts = 2
  Window = 2
  Batch = 2
  MaxAgents = 2
  MaxOther = 1
INVARIANTS AgentTypeOK FlowControl WholeMessages FilesRead SizeKnown
PROPERTIES TransfersEnd
CHECK_DEADLOCK FALSE
