CONSTANTS
  NumLots = 5
  EventsPerLot = 2
  Capacity = 3
SPECIFICATION Spec
INVARIANTS AuditAccepts TerminalTrue ChainInStep
PROPERTIES Ends
