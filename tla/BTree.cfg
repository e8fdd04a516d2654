SPECIFICATION Spec
CONSTANTS
    Ints = {1, 2, 3, 4}
    Strings = {1, 2, 3}
    Order = 2
INVARIANT TypeOK
INVARIANT GetFindsEveryKey
INVARIANT IteratorsAreComplete
PROPERTY ImplementsOrderedMap
