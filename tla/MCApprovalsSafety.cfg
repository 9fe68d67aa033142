CONSTANTS
    w = w  e1 = e1  e2 = e2  x = x  p = p  q = q
    Call = {w, e1, p}
    Turn = {t1, t2}
    Canceller = {k1}
    Switcher = {m1}
    Kind <- MCKind
    Scope = {"edit", "escape"}
    ScopeOf <- MCScopeOf
    Mode = {"ask", "auto", "yolo"}
    Timeouts = {FALSE}
    None = None
SPECIFICATION Spec
INVARIANTS
    TypeOK
    DecisionsAreEntitled
    PromptsBelongToTheHolder
    WindowIsApproved
    OthersAreAnswerable
    
