SPECIFICATION FairUpgradeSpec
CONSTANTS
    m1 = m1  q1 = q1  q2 = q2
    current = current  new = new
    c1 = c1  c2 = c2
    None = None
    Runner = {m1}
    Release = {current, new}
    Embedded <- Builds
    Altering = {2}
    Reader = {q1, q2}
    Request = {q1, q2}
    Queries = 2
    MaxConns = 1
    Required = {1}
    MaxCommits = 1
INVARIANTS AllTypesOK OneSnapshot NotOlderThanStamped ScrapesAccounted CleanExit
PROPERTIES Stops ScrapesLetMigrationsEnd
