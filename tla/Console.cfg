CONSTANTS
  Rows = 2
  Cols = 2
  Char = {a, sp}
  Blank = sp
  Digit = {1, 2, 3}
  ParamMax = 2
  ParamLimit = 3
SPECIFICATION Spec
PROPERTY ImplementsTerminal
