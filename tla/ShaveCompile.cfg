SPECIFICATION Spec
CONSTANTS
  MaxMessage = 4
  MaxResult = 2
  MaxDefinitions = 2
  BaseArguments = 2
  MaxArguments = 4
  DefinitionCounts = {0, 2}
  SourceSizes = {1, 4}
  ScriptSizes = {1}
  OutputSizes = {0, 2, 3}
  WorkerVersions = {1, 2}
  Null = Null
INVARIANTS
  NothingLeaked
  RequestCarriedOut
  ReportsTheStage
PROPERTY CallReturns
