CONSTANT Data = {1, 2, 3, 4, 5}
SPECIFICATION AvlSpec
INVARIANT TreeHoldsData
