CONSTANTS
    Thread = {t1, t2, t3}
    InitVal <- Debt
    MaxPosts = 4

SPECIFICATION FairSpec

INVARIANTS
    TypeOK
    NoLostWakeup

PROPERTIES
    ImplementsCounting
    ImplementsFairCounting
