\* Two sends, three receives and two aborts race on two keys.
CONSTANTS
    k1 = k1  k2 = k2  h1 = h1  h2 = h2
    Keys = {k1, k2}
    Hashes = {h1, h2}
    KeyHash <- MCKeyHash
    Senders = {s1, s2}
    Receivers = {r1, r2, r3}
    Aborters = {a1, a2}
    Tolerate = FALSE
    None = None
SPECIFICATION FairSpec
INVARIANTS
    DeliveredIntact
    OneToOne
    AnsweredOnce
    SentReachesWaiter
    RefsBalanced
PROPERTY WaiterAnswered
CHECK_DEADLOCK FALSE
