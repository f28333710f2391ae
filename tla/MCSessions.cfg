\* Two page requests and a tab at a time, three tokens, one loss.
CONSTANTS
    Tokens = {k1, k2, k3}
    Tabs = {t1}
    Navs = {n1, n2}
    MaxLosses = 1
    None = None
SPECIFICATION Spec
SYMMETRY Interchangeable
INVARIANTS
    TypeOK
    RefusedOnlyAfterOverlap
    JarHoldsTheLiveToken
\* The bound on tokens ends every behaviour.
CHECK_DEADLOCK FALSE
