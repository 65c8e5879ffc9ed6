SPECIFICATION Spec
CONSTANTS
    Tools <- ToolSet
    Starts <- Blocks
    Patterns <- TwoComponents
    Threshold = 2
    MaxDepth = 8
INVARIANTS DataflowKept DefsBeforeUses MovesEnd
CHECK_DEADLOCK FALSE
