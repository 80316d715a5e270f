CONSTANTS
    c1 = c1
    c2 = c2
    big = big
    thin = thin
    f = f
    g = g
    NoKey = NoKey
    Calls = {c1, c2}
    Keys = {big, thin}
    FileOf <- MCFileOf
    Big = {big}
    Delegate <- MCDelegate
    MaxEdits = 2
INIT Init
NEXT Next
SYMMETRY MCSymmetry
INVARIANT ShownEarlierWasShown
CHECK_DEADLOCK FALSE
