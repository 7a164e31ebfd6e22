SPECIFICATION Spec
CONSTANTS
  NModes = 2
  ShellValues <- MCShellValues
  MaxSaves = 3
  MaxHurt = 2
  MaxResets = 2
INVARIANTS TypeOK CalibrationUsable MagicOnceUp
PROPERTY ImplementsParamTable
CHECK_DEADLOCK FALSE
