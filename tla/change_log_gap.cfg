\* Three transactions, one consumer, with and without a write-ahead log.
CONSTANTS
    t1 = t1
    t2 = t2
    t3 = t3
    c1 = c1
    None = None
    Txs = {t1, t2, t3}
    Consumers = {c1}
    Capacities = {1, 2}
    Durability = {FALSE, TRUE}
    MaxStatements = 2
    MaxEpochs = 2
SPECIFICATION Spec
SYMMETRY Interchange
CHECK_DEADLOCK FALSE
INVARIANT NoSilentGap
