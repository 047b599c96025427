SPECIFICATION FairSpec
CONSTANTS
  Request = 2
  MaxTries = 1
  MaxBytes = 1
  MaxCommands = 1
PROPERTY PressAnyKeyQuits
