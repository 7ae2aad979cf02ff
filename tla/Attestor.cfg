\* A balance statement while two coins move.
CONSTANTS
    c1 = c1
    c2 = c2
    r1 = r1
    Coins <- TwoCoins
    Requests <- OneRequest
SPECIFICATION Spec
INVARIANTS
    StillCoinsCountedOnce
    OnlyVerifiedLeaves
PROPERTIES
    TotalIsExactWhenStill
