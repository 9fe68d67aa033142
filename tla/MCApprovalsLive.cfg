CONSTANTS
    w = w  e1 = e1  e2 = e2  x = x  p = p  q = q
    Call = {e1, q, p}
    Turn = {t1, t2}
    Canceller = {k1}
    Switcher = {}
    Kind <- MCKind
    Scope = {"edit", "escape"}
    ScopeOf <- MCScopeOf
    Mode = {"ask"}
    Timeouts = {FALSE, TRUE}
    None = None
SPECIFICATION FairSpec
PROPERTIES
    CallsEnd
    CancelledTurnsEnd
