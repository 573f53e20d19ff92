CONSTANTS
    Starts <- MCStarts
    Sizes = {1, 3}
    Alignment = 2
    MaxBlocks = 256
    Unlimited = 1000
SPECIFICATION Spec
INVARIANTS MeasureSuffices FreeIsUnneeded ReadsIntact
