CONSTANTS
    Limit = 1
    PipeSize = 2
    MaxOutput = 2
SPECIFICATION Spec
INVARIANT NoDescendantsLeft
