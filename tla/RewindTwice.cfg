\* Does a rewind after a rewind restore what was there when its turn began?
CONSTANTS
    Files = {f}
    MaxTurns = 2
    MaxMessages = 0
    MaxCancels = 0
    MaxRewinds = 2
    MaxEdits = 0
SPECIFICATION Spec
PROPERTY RewindsCompose
\* Turns, rewinds and edits are bounded.
CHECK_DEADLOCK FALSE
