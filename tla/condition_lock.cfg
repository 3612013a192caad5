SPECIFICATION FairSpec
CONSTANTS
    a1 = a1
    a2 = a2
    l1 = l1
    l2 = l2
    l3 = l3
    Accounts = {a1, a2}
    Locks = {l1, l2, l3}
    Terms <- ThreeLocks
    MaxUint = 4
    MaxTime = 2
INVARIANTS TypeOK Solvent OwedIsTheSum NobodyShortChanged
PROPERTIES EscrowSpec EveryLockSettles
CHECK_DEADLOCK FALSE
