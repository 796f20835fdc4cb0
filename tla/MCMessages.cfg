SPECIFICATION Spec
CONSTANTS
    MAX_VECTOR_SIZE = 2
    Patterns <- MCPatterns
INVARIANTS ParcelInv ArgumentsAreKept AnswersAreShown
