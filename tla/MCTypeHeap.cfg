SPECIFICATION MCSpec
CONSTANTS
    Cell = {1, 2, 3}
    v1 = v1
    v2 = v2
    v3 = v3
    Var = {v1, v2, v3}
    Name = {d1}
    Arity = 2
    NULL = NULL
    Static = Static
INVARIANTS
    TypeOK
    CountExact
    NoDangling
    StackSound
    NoLeak
PROPERTIES
    ImplementsValues
    DelReturns
