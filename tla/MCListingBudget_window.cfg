SPECIFICATION Spec
CONSTANTS
    t1 = t1
    t2 = t2
    Tasks <- Pair
    Limit = 2
    Window = 3
    MaxTime = 6
    MaxMishaps = 2
SYMMETRY PairPermutations
INVARIANTS WindowBudget
