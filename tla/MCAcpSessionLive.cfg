SPECIFICATION FairSpec
CONSTANTS
    Request = {r1, r2, r3}
    Kind = {"prompt", "set", "close"}
    Session = {s1}
    Ctrl = {c1, c2, c3, c4}
    Config = {g1}
    Default = g1
    Main = main
    Branch = {b1}
    First = s1
    None = none
CHECK_DEADLOCK FALSE
PROPERTY QueueDrains
PROPERTY ClosesEnd
