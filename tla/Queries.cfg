CONSTANTS
  Digests = {"d1", "d2"}
  Ids = {"p1", "p2"}
  Agents <- MCAgents
  Current = "d1"
  InitialDocs <- MCInitialDocs
  Requests <- MCRequests
  Window <- MCWindow
  EnrDigests = {"d1", "d2"}
  MaxWrites = 2
  MaxJobs = 1
  IntBits = 13
  Threshold = 3
SPECIFICATION QFairSpec
INVARIANTS
  WholeResponse
  NullsJustified
  CountsAddUp
  
PROPERTY
  
  ImplementsAnswers
