SPECIFICATION FairSpec
CONSTANTS
    Request = {r1, r2}
    Kind = {"set"}
    Session = {s1}
    Ctrl = {c1, c2, c3}
    Config = {g1, g2}
    Default = g1
    Main = main
    Branch = {b1}
    First = s1
    None = none
CHECK_DEADLOCK FALSE
PROPERTY QueueNeedsNoNewTurn
