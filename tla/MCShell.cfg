SPECIFICATION Spec
CONSTANTS
  Lines <- MCLines
  Commands <- MCCommands
  MaxArgs = 3
  MaxCmds = 32
  EnvSize = 3
  KeyMax = 2
  ValMax = 5
  CwdMax = 9
INVARIANTS
  ShellInv
PROPERTIES
  ImplementsSession
