SPECIFICATION Spec
CONSTANTS
    j1 = j1
    j2 = j2
    s1 = s1
    s2 = s2
    d1 = d1
    Job = {j1, j2}
    Session = {s1, s2}
    NoSession = NoSession
    Destroyer = {d1}
    StallWarnings = FALSE
    MayClose = FALSE
SYMMETRY Symmetry
INVARIANTS FinishedJobsAreNoted DestroyedSessionsAreSilent NotesStayInTheirSession ForgottenJobsHaveUnwound
PROPERTIES TerminalIsFinal CompletionsAreMailed
