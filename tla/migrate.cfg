SPECIFICATION FairSpec
CONSTANTS
    m1 = m1  m2 = m2  q1 = q1
    old = old  new = new  edited = edited
    c1 = c1  c2 = c2  x1 = x1
    None = None
    Runner = {m1, m2}
    Release = {old, new, edited}
    Embedded <- Builds
    Altering = {2}
    Reader = {q1}
INVARIANTS TypeOK SchemaIsHistory NeverCollide NothingLeftOut
PROPERTIES HistoryOnlyGrows EveryRunEnds
