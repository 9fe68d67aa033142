------------------------------ MODULE Mailbox ------------------------------
(***************************************************************************)
(* What the job manager promises whoever waits for a background job, with  *)
(* no goroutines in it: the note of a job's completion is posted once, and *)
(* is then queued, or drained by one reader, or dropped with its session,  *)
(* and never comes back; nobody sees that a job is over before its note is *)
(* posted.  Jobs implements this specification.                            *)
(***************************************************************************)
CONSTANTS
    Job,     \* the jobs, each with one completion
    Reader   \* those who drain notes

VARIABLES
    posted,   \* jobs whose note has been posted
    queue,    \* jobs whose note is waiting
    drained,  \* <<reader, job>>: who got the note
    dropped,  \* jobs whose note fell to the end of its session
    over      \* jobs that can be seen to have ended

vars == <<posted, queue, drained, dropped, over>>

Init ==
    /\ posted = {}
    /\ queue = {}
    /\ drained = {}
    /\ dropped = {}
    /\ over = {}

\* The note is queued, or dropped at once.
Post(j) ==
    /\ j \notin posted
    /\ posted' = posted \cup {j}
    /\ \/ queue' = queue \cup {j} /\ UNCHANGED dropped
       \/ dropped' = dropped \cup {j} /\ UNCHANGED queue
    /\ UNCHANGED <<drained, over>>

Drain(r, some) ==
    /\ some \subseteq queue
    /\ queue' = queue \ some
    /\ drained' = drained \cup {<<r, j>> : j \in some}
    /\ UNCHANGED <<posted, dropped, over>>

Drop(some) ==
    /\ some \subseteq queue
    /\ queue' = queue \ some
    /\ dropped' = dropped \cup some
    /\ UNCHANGED <<posted, drained, over>>

Show(j) ==
    /\ j \in posted
    /\ over' = over \cup {j}
    /\ UNCHANGED <<posted, queue, drained, dropped>>

Next ==
    \/ \E j \in Job : Post(j) \/ Show(j)
    \/ \E r \in Reader, some \in SUBSET Job : Drain(r, some)
    \/ \E some \in SUBSET Job : Drop(some)

Spec == Init /\ [][Next]_vars
=============================================================================
