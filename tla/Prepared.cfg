SPECIFICATION Spec
CONSTANTS
  Graphs <- MCGraphs
  Layouts <- MCLayouts
  Flags <- MCFlags
  Drivers = {1, 2, 3}
  Validated = {1, 2}
  MaxProposals = 2
  Carriers = {"Relu", "Abs"}
  Offers <- MCOffers
  Definitions <- MCDefinitions
  MaxEdits = 1
  Cases <- MCCases
  None = None
INVARIANTS
  PlanSound
  
  
  ProgramAsPlanned
  ShapesExact
  SelectionSound
  ProjectionExact
PROPERTY CarrierIsCurrent
\* A client may stop anywhere, and a case has no steps.
CHECK_DEADLOCK FALSE
