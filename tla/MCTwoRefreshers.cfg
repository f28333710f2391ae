\* A page request and a tab, nothing lost.
CONSTANTS
    Tokens = {k1, k2, k3}
    Tabs = {t1}
    Navs = {n1}
    MaxLosses = 0
    None = None
SPECIFICATION Spec
INVARIANT
    SessionKept
\* The bound on tokens ends every behaviour.
CHECK_DEADLOCK FALSE
