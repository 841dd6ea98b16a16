\* Two threads run selects on one object.
SPECIFICATION Spec
CONSTANTS
    c1 = c1
    c2 = c2
    r1 = r1
    r2 = r2
    r3 = r3
    e1 = e1
    None = None
    Threads = {t1, t2}
    Objects = {o1}
    Columns = {c1, c2}
    Rows = {r1, r2, r3}
    Errors = {e1}
    Queries <- SelectsOnly
    TxQueries <- NoTxQuery
    MaxCalls <- OneCall
INVARIANT LockedResultIsOwn
