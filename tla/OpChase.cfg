\* Two clients that commit without end, and two appended heads.
CONSTANTS
    c1 = c1  c2 = c2
    Steady = c1
    Passing = {c2}
    Id = {1, 2, 3, 4, 5, 6, 7, 8, 9, 10, 11, 12}
    MaxAppends = 2
SPECIFICATION Spec
INVARIANTS ChaseInv
PROPERTIES HeadsGiveWay ConvergesOnceAlone
