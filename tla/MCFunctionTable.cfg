SPECIFICATION Spec
CONSTANTS
    Name <- MCName
    Alphabet <- MCAlphabet
    Sig = {"int", "any", "bad"}
    Parses <- MCParses
    ArgType = {"int", "float"}
    Accepts <- MCAccepts
    MaxKernels = 3
    MaxFuncs = 3
    NULL = NULL
INVARIANTS
    TableOwnsAll
PROPERTIES
    SelectionStable
    ImplementsRegistry
CHECK_DEADLOCK FALSE
