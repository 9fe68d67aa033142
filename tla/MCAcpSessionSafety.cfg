SPECIFICATION Spec
CONSTANTS
    Request = {r1, r2, r3}
    Kind = {"prompt", "set", "close", "delete", "load", "cancel", "crash"}
    Session = {s1, s2}
    Ctrl = {c1, c2, c3, c4}
    Config = {g1, g2}
    Default = g1
    Main = main
    Branch = {b1, b2}
    First = s1
    None = none
SYMMETRY Symmetry
CHECK_DEADLOCK FALSE
INVARIANT TurnsKeepTheirController
INVARIANT WritesAreLeased
INVARIANT LeasesHaveOwners
 
 
INVARIANT LatestChoiceWins
PROPERTY OneWrites
