SPECIFICATION Spec
CONSTANTS
  Platforms <- MCPlatforms
  Indices = {0, 1}
  AutoIndex = AutoIndex
  MaxMessage = 3
  MaxBlob = 2
  InputSizes = {1, 3}
  BlobSizes = {1, 2, 3}
  Null = Null
INVARIANTS
  DriverSound
  ResponseSound
  ResultExact
PROPERTY CallReturns
