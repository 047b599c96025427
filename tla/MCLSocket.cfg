SPECIFICATION FairSpec
CONSTANTS
  Request = 2
  MaxTries = 1
  MaxBytes = 3
  MaxCommands = 2
INVARIANTS TypeOK CounterIsOperation EventsClosed Conserved AcceptShowsOneFragment
PROPERTIES DeliversWhatCame OperationsEnd
