CONSTANTS
  ENV_SIZE = 12
  SECTOR = 5
  CRC_LEN = 1
  Names <- MCNames
  Consoles <- MCConsoles
  Baudrate <- MCBaudrate
  Args <- MCArgs
  default_environment <- MCDefault
  MaxSets = 3
  MaxSaves = 2
  MaxFaults = 1
SPECIFICATION Spec
INVARIANT GetenvFinds
PROPERTY ImplementsEnvVars SavedSurvives
