SPECIFICATION DatasetSpec
CONSTANTS
    Loaders = {q1, q2}
INVARIANTS
    LoadsWhatItVerified
