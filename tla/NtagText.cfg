CONSTANTS
  TextLens = {231}
  Chars = {65}
  Blocks = 118
  I2cMayFail = FALSE
  Dies = FALSE
SPECIFICATION NtagSpec
INVARIANT TextIsWritten
