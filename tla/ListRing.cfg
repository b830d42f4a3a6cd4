CONSTANTS
    Null = Null
    Lists = {l1, l2}
    Items = {a, b, c}
SPECIFICATION Spec
INVARIANTS RingsIntact SpliceMovesRange
PROPERTIES SpliceReturns SequenceSemantics
