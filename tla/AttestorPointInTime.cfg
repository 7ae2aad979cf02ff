\* What the README says of a statement.
CONSTANTS
    c1 = c1
    c2 = c2
    r1 = r1
    Coins <- TwoCoins
    Requests <- OneRequest
SPECIFICATION Spec
INVARIANT PointInTime
