\* Two concurrent Runs, a partial run, a Reset and the owner's destructor.
CONSTANTS
    r1 = r1  r2 = r2  p1 = p1  train = train  part = part
    a = a  b = b  x = x  y = y  z = z
    reset = reset  owner = owner
    Runs = {r1, r2}
    Partials = {p1}
    Closers = {reset}
    Owner = owner
    Nobody = Nobody
    Signatures = {train, part}
    Signature <- MCSignature
    Feeds <- MCFeeds
    Fetches <- MCFetches
    Needs <- MCNeeds
    MayBeDead = {y, z}
    Calls <- MCCalls
    Options <- MCOptions
SPECIFICATION FairSpec
INVARIANTS
    StepOutlived
    TruthfulRun
    PartialRunBooks
PROPERTY CallsEnd
CHECK_DEADLOCK FALSE
