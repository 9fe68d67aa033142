SPECIFICATION FairSpec
CONSTANTS
    j1 = j1
    s1 = s1
    s2 = s2
    d1 = d1
    Job = {j1}
    Session = {s1, s2}
    NoSession = NoSession
    Destroyer = {d1}
    StallWarnings = TRUE
    MayClose = TRUE
PROPERTIES KilledJobsExit CloseCleansUp
