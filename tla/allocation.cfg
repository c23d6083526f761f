SPECIFICATION FairSpec
CONSTANTS
    p1 = p1  p2 = p2
    r1 = r1  r2 = r2
    a1 = a1  a2 = a2
    m1 = m1  m2 = m2
    None = None
    Proc = {p1, p2}
    Resource = {r1, r2}
    Pools <- OverlappingPools
    Candidates <- Colliding
    Declarations <- TwoPools
    MaxLosses = 1
INVARIANTS TypeOK OneOwner ChoiceHolds DeadlockNeedsLoss
PROPERTY Answered
