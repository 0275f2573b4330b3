SPECIFICATION Spec
CONSTANTS
  None = None
  MaxNodes = 3
  MaxOutputs = 2
  InputSpecs <- MCInputSpecs
  Carriers = {"Add", "Slice"}
  Methods <- MCMethods
  Requests <- MCRequests
  Signatures <- MCSignatures
  Provenances <- MCProvenances
  MaxNumber = 9
  Records <- MCRecords
  MaxWord = 3
  Chunk = 17
  Replicas = 2
  FeatureBits = 2
  ChildBits = 3
  MaxTrees = 4
  NaN = NaN
  Huge = 99
  Models <- MCModels
  Batches <- MCBatches
  MaxProblemRows = 3
  MaxProblemColumns = 3
  GraphReplicas = 2
  LargeCost = 1000
  NotFinite = NotFinite
  Problems <- MCProblems
  Distrusted <- MCDistrusted
  MaxRows = 2
  MaxColumns = 2
  MaxTimeLost = 2
  MaxFrame = 5
  MaxTracks = 2
  MaxDetections = 2
  MaxHnswNodes = 4
  MaxDimensions = 2
  MaxLevels = 2
  MaxM = 2
  MaxEf = 4
  MaxK = 2
  HnswChunk = 36
  HnswReplicas = 2
  MaxChunks = 2
  TooFar = 100
  NonFinite = NonFinite
  Builds <- MCBuilds
  Capacities = {3, 4}
  Searches <- MCSearches
INVARIANTS
  IrWellFormed
  
  ValuesExact
  
  ListsConsistent
  AssignmentOptimal
  SearchesExact
PROPERTY NoTrackLost
\* A graph is finished after its probe, the tracker after MaxFrame frames.
CHECK_DEADLOCK FALSE
