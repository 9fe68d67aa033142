---------------------------- MODULE SessionFile ----------------------------
(***************************************************************************)
(* What the locks around a session promise, with no files in them: one     *)
(* writer holds the lease, one saves, and a remover is alone.  Each enters *)
(* in a step of its own, when it may, and leaves in another; a crash makes *)
(* several leave at once.  The promise lasts until a lock goes stray (a    *)
(* lock file loses its name under somebody); from then on nothing is.      *)
(* SessionLease implements this specification for the threads that share a *)
(* session's files, AcpSession for the session objects of one id and the   *)
(* requests that save them.                                                *)
(***************************************************************************)
CONSTANT Writer

VARIABLES
    holders,   \* who holds the lease
    savers,    \* who is writing the files
    removers,  \* who is removing them
    stray      \* the promise is off

vars == <<holders, savers, removers, stray>>

\* One may hold the lease already.
Init ==
    /\ holders \in {{}} \cup {{w} : w \in Writer}
    /\ savers = {}
    /\ removers = {}
    /\ stray = FALSE

Hold(w) ==
    /\ holders = {} /\ removers = {}
    /\ holders' = {w}
    /\ UNCHANGED <<savers, removers, stray>>

\* A save needs no lease of its own.
Save(w) ==
    /\ savers = {} /\ removers = {}
    /\ savers' = {w}
    /\ UNCHANGED <<holders, removers, stray>>

Remove(w) ==
    /\ holders = {} /\ savers = {} /\ removers = {}
    /\ removers' = {w}
    /\ UNCHANGED <<holders, savers, stray>>

\* The end of what some of them do, or of the processes they are in.
Leave ==
    /\ holders' \subseteq holders
    /\ savers' \subseteq savers
    /\ removers' \subseteq removers
    /\ UNCHANGED stray

\* From here on anybody may be in.
GoStray ==
    /\ stray'
    /\ holders' \subseteq Writer
    /\ savers' \subseteq Writer
    /\ removers' \subseteq Writer

Next ==
    \/ \E w \in Writer : Hold(w) \/ Save(w) \/ Remove(w)
    \/ Leave
    \/ GoStray

Spec == Init /\ [][Next]_vars
=============================================================================
