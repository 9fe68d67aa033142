-------------------------------- MODULE Jobs --------------------------------
(***************************************************************************)
(* The background-job manager of internal/jobs/jobs.go: a table of jobs    *)
(* shared by the turn goroutines that start, kill and drain them, one      *)
(* goroutine per job, one stall monitor per job, and the teardown paths    *)
(* (destroying a session, closing the manager).                            *)
(*                                                                         *)
(* A step is one critical section of the code: the code takes m.mu and     *)
(* each j.mu several times on its way and other goroutines run in between. *)
(* The output a job streams and its files are the subject of JobArtifacts. *)
(***************************************************************************)
EXTENDS FiniteSets

CONSTANTS
    Job,        \* the jobs that may be started, each at most once
    Session,    \* the ids of persistent sessions (non-empty strings)
    NoSession,  \* the empty session id
    Destroyer,  \* the calls that may be destroying a session at one time
    StallWarnings,  \* the manager was built WithStalledWarningAfter
    MayClose    \* bound: the behaviours in which the manager is closed too

ASSUME NoSessionAssumption == NoSession \notin Session
ASSUME FlagAssumption == StallWarnings \in BOOLEAN /\ MayClose \in BOOLEAN

Owner == Session \cup {NoSession}

Status == {"running", "done", "failed", "killed"}

(***************************************************************************)
(* Where the goroutine of a job is.  "registered": in the table, m.mu      *)
(* released, wg.Add not yet executed.  "recorded": the completion note     *)
(* has been queued, the terminal status not yet published.                 *)
(***************************************************************************)
Place == {"unborn", "registered", "running", "returned", "classified",
          "recorded", "published", "exited"}

Note == [job : Job, session : Owner, kind : {"finished", "stalled"}]

\* A SessionTeardown: session = NoSession when the call is not destroying.
Handle == [session : Owner, jobs : SUBSET Job]
NoHandle == [session |-> NoSession, jobs |-> {}]

VARIABLES
    pc,          \* Place of each job's goroutine
    status,      \* Job.status, what every reader sees
    outcome,     \* the status the goroutine computed from ctx.Err() and err
    owner,       \* the parentSession captured by the goroutine
    session,     \* Job.SessionID
    table,       \* m.jobs and m.order
    cancelled,   \* jobs whose context is cancelled
    toCancel,    \* jobs flipped to killed whose cancel() is still to be called
    monitor,     \* the stall monitor of each job
    completed,   \* m.completed: notes waiting to be drained
    delivered,   \* history: <<reader, job>>, completion notes drained by reader
    dropped,     \* history: jobs whose completion note a destroy discarded
    destroying,  \* m.destroying
    handle,      \* the teardown handle each destroying call holds
    late,        \* history: jobs started after their teardown had begun
    bound,       \* sessions with an entry in m.artifactDirs
    adopting,    \* sessions inside SetActiveSessionPath that will adopt
    closer,      \* the phase of Close
    tempRoot     \* the temporary artifact root exists

goroutineVars == <<pc, status, outcome, owner>>
noteVars      == <<completed, delivered, dropped>>
destroyVars   == <<destroying, handle, late>>
bindVars      == <<bound, adopting>>
closeVars     == <<closer, tempRoot>>
vars == <<goroutineVars, session, table, cancelled, toCancel, monitor,
          noteVars, destroyVars, bindVars, closeVars>>

Terminal == {"done", "failed", "killed"}

\* sessionMatches: an empty filter matches every job.
SessionMatches(filter, s) == filter \in {NoSession, s}

\* The jobs of the table a session-scoped operation sees.
Visible(filter) == {j \in table : SessionMatches(filter, session[j])}

\* The sessions some call holds an unfinished teardown handle of.
BeingDestroyed == {handle[d].session : d \in Destroyer} \ {NoSession}

\* m.root is cancelled by every form of Close.
RootCancelled == closer # "open"

\* The goroutines m.wg counts.
Counted(j) == \/ pc[j] \notin {"unborn", "registered", "exited"}
              \/ monitor[j] \in {"armed", "marked"}
WaitGroupIsZero == \A j \in Job : ~Counted(j)

Init ==
    /\ pc = [j \in Job |-> "unborn"]
    /\ status = [j \in Job |-> "running"]
    /\ outcome = [j \in Job |-> "running"]
    /\ owner = [j \in Job |-> NoSession]
    /\ session = [j \in Job |-> NoSession]
    /\ table = {}
    /\ cancelled = {}
    /\ toCancel = {}
    /\ monitor = [j \in Job |-> "off"]
    /\ completed = {}
    /\ delivered = {}
    /\ dropped = {}
    /\ destroying = {}
    /\ handle = [d \in Destroyer |-> NoHandle]
    /\ late = {}
    /\ bound = {}
    /\ adopting = {}
    /\ closer = "open"
    /\ tempRoot = TRUE

-----------------------------------------------------------------------------
(* Starting a job. *)

\* StartForSession up to m.mu.Unlock: nothing checks m.destroying, and a job
\* started under a cancelled root is born cancelled.
Start(j, s) ==
    /\ pc[j] = "unborn"
    /\ pc' = [pc EXCEPT ![j] = "registered"]
    /\ owner' = [owner EXCEPT ![j] = s]
    /\ session' = [session EXCEPT ![j] = s]
    /\ table' = table \cup {j}
    /\ cancelled' = IF RootCancelled THEN cancelled \cup {j} ELSE cancelled
    /\ late' = IF s \in BeingDestroyed \/ RootCancelled THEN late \cup {j} ELSE late
    /\ UNCHANGED <<status, outcome, toCancel, monitor, noteVars, destroying,
                   handle, bindVars, closeVars>>

\* The rest of StartForSession: wg.Add, the stall monitor, the goroutine.
Launch(j) ==
    /\ pc[j] = "registered"
    /\ pc' = [pc EXCEPT ![j] = "running"]
    /\ monitor' = IF StallWarnings THEN [monitor EXCEPT ![j] = "armed"] ELSE monitor
    /\ UNCHANGED <<status, outcome, owner, session, table, cancelled, toCancel,
                   noteVars, destroyVars, bindVars, closeVars>>

-----------------------------------------------------------------------------
(* The job's goroutine. *)

\* run returns, with an error (or a recovered panic) or without.
RunReturns(j) ==
    /\ pc[j] = "running"
    /\ pc' = [pc EXCEPT ![j] = "returned"]
    /\ \E st \in {"done", "failed"} : outcome' = [outcome EXCEPT ![j] = st]
    /\ UNCHANGED <<status, owner, session, table, cancelled, toCancel, monitor,
                   noteVars, destroyVars, bindVars, closeVars>>

\* Mutant: the status is published before the note is recorded.
ClassifyPublishes(j) ==
    /\ pc[j] = "returned"
    /\ pc' = [pc EXCEPT ![j] = "classified"]
    /\ outcome' = IF j \in cancelled THEN [outcome EXCEPT ![j] = "killed"] ELSE outcome
    /\ status' = IF status[j] = "killed" THEN status ELSE [status EXCEPT ![j] = outcome'[j]]
    /\ UNCHANGED <<owner, session, table, cancelled, toCancel, monitor,
                   noteVars, destroyVars, bindVars, closeVars>>

\* ctx.Err() is read after run has returned: a cancel that lands in between
\* turns a finished job into a killed one.
Classify(j) ==
    /\ pc[j] = "returned"
    /\ pc' = [pc EXCEPT ![j] = "classified"]
    /\ outcome' = IF j \in cancelled THEN [outcome EXCEPT ![j] = "killed"] ELSE outcome
    /\ UNCHANGED <<status, owner, session, table, cancelled, toCancel, monitor,
                   noteVars, destroyVars, bindVars, closeVars>>

\* Mutant: a completion is queued without looking at m.destroying.
RecordCompletionAlways(j) ==
    /\ pc[j] = "classified"
    /\ pc' = [pc EXCEPT ![j] = "recorded"]
    /\ completed' = completed \cup
           {[job |-> j, session |-> owner[j], kind |-> "finished"]}
    /\ UNCHANGED <<status, outcome, owner, session, table, cancelled, toCancel,
                   monitor, delivered, dropped, destroyVars, bindVars, closeVars>>

\* recordCompletion, with the session captured when the job was started.
RecordCompletion(j) ==
    /\ pc[j] = "classified"
    /\ pc' = [pc EXCEPT ![j] = "recorded"]
    /\ IF owner[j] \in destroying
       THEN /\ dropped' = dropped \cup {j}
            /\ UNCHANGED completed
       ELSE /\ completed' = completed \cup
                   {[job |-> j, session |-> owner[j], kind |-> "finished"]}
            /\ UNCHANGED dropped
    /\ UNCHANGED <<status, outcome, owner, session, table, cancelled, toCancel,
                   monitor, delivered, destroyVars, bindVars, closeVars>>

\* Mutant: the goroutine publishes what it computed, over a kill as well.
PublishOverKill(j) ==
    /\ pc[j] = "recorded"
    /\ pc' = [pc EXCEPT ![j] = "published"]
    /\ status' = [status EXCEPT ![j] = outcome[j]]
    /\ UNCHANGED <<outcome, owner, session, table, cancelled, toCancel, monitor,
                   noteVars, destroyVars, bindVars, closeVars>>

\* The terminal status is published after the note, and never over a kill.
Publish(j) ==
    /\ pc[j] = "recorded"
    /\ pc' = [pc EXCEPT ![j] = "published"]
    /\ status' = IF status[j] = "killed" THEN status
                 ELSE [status EXCEPT ![j] = outcome[j]]
    /\ UNCHANGED <<outcome, owner, session, table, cancelled, toCancel, monitor,
                   noteVars, destroyVars, bindVars, closeVars>>

\* close(j.done), then the deferred wg.Done.
Exit(j) ==
    /\ pc[j] = "published"
    /\ pc' = [pc EXCEPT ![j] = "exited"]
    /\ UNCHANGED <<status, outcome, owner, session, table, cancelled, toCancel,
                   monitor, noteVars, destroyVars, bindVars, closeVars>>

-----------------------------------------------------------------------------
(* The stall monitor. *)

\* The timer fires: a job that has returned or is no longer running ends the
\* monitor, a silent one is marked stalled, once.  A job that wrote output
\* rearms the timer, which changes nothing here.
MonitorTimer(j) ==
    /\ monitor[j] = "armed"
    /\ IF pc[j] = "running" /\ status[j] = "running"
       THEN monitor' = [monitor EXCEPT ![j] = "marked"]
       ELSE monitor' = [monitor EXCEPT ![j] = "over"]
    /\ UNCHANGED <<goroutineVars, session, table, cancelled, toCancel, noteVars,
                   destroyVars, bindVars, closeVars>>

\* recordStalled, in a critical section of its own.
RecordStalled(j) ==
    /\ monitor[j] = "marked"
    /\ monitor' = [monitor EXCEPT ![j] = "over"]
    /\ completed' = IF owner[j] \in destroying THEN completed
                    ELSE completed \cup
                        {[job |-> j, session |-> owner[j], kind |-> "stalled"]}
    /\ UNCHANGED <<goroutineVars, session, table, cancelled, toCancel, delivered,
                   dropped, destroyVars, bindVars, closeVars>>

\* The monitor leaves when j.done is closed.
MonitorDone(j) ==
    /\ monitor[j] = "armed"
    /\ pc[j] = "exited"
    /\ monitor' = [monitor EXCEPT ![j] = "over"]
    /\ UNCHANGED <<goroutineVars, session, table, cancelled, toCancel, noteVars,
                   destroyVars, bindVars, closeVars>>

-----------------------------------------------------------------------------
(* The callers of a turn. *)

\* Mutant: the kill flips the status and forgets the cancel.
KillFlipOnly(j, filter) ==
    /\ j \in Visible(filter)
    /\ status[j] = "running"
    /\ status' = [status EXCEPT ![j] = "killed"]
    /\ UNCHANGED <<pc, outcome, owner, session, table, cancelled, toCancel, monitor,
                   noteVars, destroyVars, bindVars, closeVars>>

\* KillForSession under j.mu: the flip is visible at once, cancel() follows.
KillFlip(j, filter) ==
    /\ j \in Visible(filter)
    /\ status[j] = "running"
    /\ status' = [status EXCEPT ![j] = "killed"]
    /\ toCancel' = toCancel \cup {j}
    /\ UNCHANGED <<pc, outcome, owner, session, table, cancelled, monitor,
                   noteVars, destroyVars, bindVars, closeVars>>

\* The cancel() a kill or a destroy calls after releasing the locks.
Cancel(j) ==
    /\ j \in toCancel
    /\ toCancel' = toCancel \ {j}
    /\ cancelled' = cancelled \cup {j}
    /\ UNCHANGED <<goroutineVars, session, table, monitor, noteVars,
                   destroyVars, bindVars, closeVars>>

\* Mutant: every reader drains everything.
DrainMatchesAll(n, reader) == TRUE

\* DrainCompletedNoteForSession.
DrainMatches(n, reader) == SessionMatches(reader, n.session)

\* Mutant: the notes are reported and stay queued.
DrainKeeps(reader) ==
    LET taken == {n \in completed : DrainMatches(n, reader)}
    IN  /\ taken # {}
        /\ delivered' = delivered \cup
               {<<reader, n.job>> : n \in {m \in taken : m.kind = "finished"}}
        /\ UNCHANGED <<goroutineVars, session, table, cancelled, toCancel,
                       monitor, completed, dropped, destroyVars, bindVars, closeVars>>

Drain(reader) ==
    LET taken == {n \in completed : DrainMatches(n, reader)}
    IN  /\ taken # {}
        /\ completed' = completed \ taken
        /\ delivered' = delivered \cup
               {<<reader, n.job>> : n \in {m \in taken : m.kind = "finished"}}
        /\ UNCHANGED <<goroutineVars, session, table, cancelled, toCancel,
                       monitor, dropped, destroyVars, bindVars, closeVars>>

-----------------------------------------------------------------------------
(* Binding a session to its transcript. *)

Unscoped == {j \in table : session[j] = NoSession}

\* SetActiveSessionPath, its first critical section: a session bound for the
\* first time adopts the jobs started before there was a session.  Its callers
\* hold the controller's snapshotMu, and do not bind a session being destroyed.
BindSession(s) ==
    /\ s \notin bound
    /\ s \notin BeingDestroyed
    /\ adopting = {}
    /\ bound' = bound \cup {s}
    /\ adopting' = IF Unscoped = {} THEN {} ELSE {s}
    /\ UNCHANGED <<goroutineVars, session, table, cancelled, toCancel, monitor,
                   noteVars, destroyVars, closeVars>>

\* A queued note once session s has adopted the notes without a session.
Adopted(n, s) ==
    [job |-> n.job, session |-> IF n.session = NoSession THEN s ELSE n.session,
     kind |-> n.kind]

\* adoptUnscopedJobsLocked, after the migration of the files: the queued notes
\* and the jobs without a session become the session's.
AdoptUnscoped(s) ==
    /\ s \in adopting
    /\ adopting' = adopting \ {s}
    /\ completed' = {Adopted(n, s) : n \in completed}
    /\ session' = [j \in Job |-> IF j \in Unscoped THEN s ELSE session[j]]
    /\ UNCHANGED <<goroutineVars, table, cancelled, toCancel, monitor, delivered,
                   dropped, destroyVars, bound, closeVars>>

-----------------------------------------------------------------------------
(* Destroying a session. *)

\* Mutant: a destroy waits only for the jobs it has killed itself.
RunningTargets(s) == {j \in Visible(s) : status[j] = "running"}

\* The jobs a destroy has to wait for: also those an earlier kill flipped.
DestroyTargets(s) == {j \in Visible(s) : status[j] \in {"running", "killed"}}

\* BeginDestroySession by call d: the window opens, the session's queued notes
\* go, its running jobs are flipped; cancel() is called after the unlock.
BeginDestroySession(d, s) ==
    LET flipped == {j \in Visible(s) : status[j] = "running"}
        gone    == {n \in completed : n.session = s}
    IN  /\ handle[d] = NoHandle
        /\ s \notin adopting
        /\ destroying' = destroying \cup {s}
        /\ handle' = [handle EXCEPT ![d] = [session |-> s, jobs |-> DestroyTargets(s)]]
        /\ completed' = completed \ gone
        /\ dropped' = dropped \cup {n.job : n \in {m \in gone : m.kind = "finished"}}
        /\ status' = [j \in Job |-> IF j \in flipped THEN "killed" ELSE status[j]]
        /\ toCancel' = toCancel \cup flipped
        /\ UNCHANGED <<pc, outcome, owner, session, table, cancelled, monitor,
                       delivered, late, bindVars, closeVars>>

\* Every done channel of the handle is closed (WaitTeardown in time, or WaitAll).
Unwound(d) == \A j \in handle[d].jobs : pc[j] = "exited"

\* FinishDestroySession: the callers finish once their handle has unwound.
FinishDestroySession(d) ==
    LET s == handle[d].session
    IN  /\ handle[d] # NoHandle
        /\ Unwound(d)
        /\ destroying' = destroying \ {s}
        /\ bound' = bound \ {s}
        /\ table' = table \ Visible(s)
        /\ handle' = [handle EXCEPT ![d] = NoHandle]
        /\ UNCHANGED <<goroutineVars, session, cancelled, toCancel, monitor,
                       noteVars, late, adopting, closeVars>>

-----------------------------------------------------------------------------
(* Closing the manager. *)

\* Mutant: Close waits without having cancelled the root context.
CloseOnlyWaits(async) ==
    /\ MayClose
    /\ closer = "open"
    /\ closer' = IF async THEN "deferred" ELSE "cancelled"
    /\ UNCHANGED <<goroutineVars, session, table, cancelled, toCancel, monitor, noteVars,
                   destroyVars, bindVars, tempRoot>>

\* Every form of Close starts by cancelling the root context.  CloseAsync
\* leaves the rest to a goroutine that waits for m.wg.
CloseCancels(async) ==
    /\ MayClose
    /\ closer = "open"
    /\ closer' = IF async THEN "deferred" ELSE "cancelled"
    /\ cancelled' = {j \in Job : pc[j] # "unborn"}
    /\ UNCHANGED <<goroutineVars, session, table, toCancel, monitor, noteVars,
                   destroyVars, bindVars, tempRoot>>

\* closeTargets: the jobs still running are flipped, their contexts are
\* already cancelled through the root.
CloseTargets ==
    /\ closer = "cancelled"
    /\ closer' = "waiting"
    /\ status' = [j \in Job |-> IF j \in table /\ status[j] = "running"
                                THEN "killed" ELSE status[j]]
    /\ UNCHANGED <<pc, outcome, owner, session, table, cancelled, toCancel,
                   monitor, noteVars, destroyVars, bindVars, tempRoot>>

\* The grace ran out: Close returns, a goroutine keeps waiting.
CloseTimesOut ==
    /\ closer = "waiting"
    /\ ~WaitGroupIsZero
    /\ closer' = "deferred"
    /\ UNCHANGED <<goroutineVars, session, table, cancelled, toCancel, monitor,
                   noteVars, destroyVars, bindVars, tempRoot>>

\* m.wg.Wait returned: the temporary artifact root goes.
RemoveTempRoot ==
    /\ closer \in {"waiting", "deferred"}
    /\ WaitGroupIsZero
    /\ closer' = "closed"
    /\ tempRoot' = FALSE
    /\ UNCHANGED <<goroutineVars, session, table, cancelled, toCancel, monitor,
                   noteVars, destroyVars, bindVars>>

-----------------------------------------------------------------------------
Goroutine(j) ==
    \/ Launch(j)
    \/ RunReturns(j)
    \/ Classify(j)
    \/ RecordCompletion(j)
    \/ Publish(j)
    \/ Exit(j)

Monitor(j) ==
    \/ MonitorTimer(j)
    \/ RecordStalled(j)
    \/ MonitorDone(j)

Next ==
    \/ \E j \in Job : Goroutine(j) \/ Monitor(j) \/ Cancel(j)
    \/ \E j \in Job, s \in Owner : Start(j, s) \/ KillFlip(j, s)
    \/ \E s \in Owner : Drain(s)
    \/ \E s \in Session : \/ BindSession(s)
                          \/ AdoptUnscoped(s)
                          \/ \E d \in Destroyer : BeginDestroySession(d, s)
    \/ \E d \in Destroyer : FinishDestroySession(d)
    \/ \E async \in BOOLEAN : CloseCancels(async)
    \/ CloseTargets
    \/ CloseTimesOut
    \/ RemoveTempRoot

Spec == Init /\ [][Next]_vars

(***************************************************************************)
(* A goroutine that can run does; a run function returns once its context  *)
(* is cancelled, as the tools do; nothing obliges a turn to kill, drain or *)
(* destroy, nor a monitor's timer to fire before its job is over.          *)
(***************************************************************************)
Fairness ==
    /\ \A j \in Job : /\ WF_vars(Launch(j) \/ Classify(j) \/ RecordCompletion(j)
                                  \/ Publish(j) \/ Exit(j))
                      /\ WF_vars(j \in cancelled /\ RunReturns(j))
                      /\ WF_vars(RecordStalled(j) \/ MonitorDone(j))
                      /\ WF_vars(Cancel(j))
    /\ WF_vars(CloseTargets \/ RemoveTempRoot)

FairSpec == Spec /\ Fairness

-----------------------------------------------------------------------------
(* Properties. *)

\* Every variable keeps its type; in particular only a session with an id is
\* bound, adopting or being destroyed.
TypeOK ==
    /\ pc \in [Job -> Place]
    /\ status \in [Job -> Status]
    /\ outcome \in [Job -> Status]
    /\ owner \in [Job -> Owner]
    /\ session \in [Job -> Owner]
    /\ table \subseteq Job
    /\ cancelled \subseteq Job
    /\ toCancel \subseteq Job
    /\ monitor \in [Job -> {"off", "armed", "marked", "over"}]
    /\ completed \subseteq Note
    /\ delivered \subseteq (Owner \X Job)
    /\ dropped \subseteq Job
    /\ destroying \subseteq Session
    /\ handle \in [Destroyer -> Handle]
    /\ late \subseteq Job
    /\ bound \subseteq Session
    /\ adopting \subseteq Session
    /\ closer \in {"open", "cancelled", "waiting", "deferred", "closed"}
    /\ tempRoot \in BOOLEAN

\* The completion note of j is queued, was drained, or fell to a destroy.
Noted(j) == \/ j \in dropped
            \/ \E n \in completed : n.job = j /\ n.kind = "finished"
            \/ \E r \in Owner : <<r, j>> \in delivered

\* A reader who sees a job done or failed, or its done channel closed, finds
\* its completion note already queued (jobs.go records before it publishes).
FinishedJobsAreNoted ==
    \A j \in Job : status[j] \in {"done", "failed"} \/ pc[j] = "exited" => Noted(j)

\* While a session is being destroyed no note is queued for it, whatever its
\* jobs and monitors were about to record when the window opened.
DestroyedSessionsAreSilent ==
    \A n \in completed : n.session \notin destroying

\* A job started in a session is only ever reported to that session, or to a
\* reader without one, who drains everything.
NotesStayInTheirSession ==
    \A r \in Session, j \in Job :
        <<r, j>> \in delivered /\ owner[j] # NoSession => owner[j] = r

\* Finishing a destroy forgets no job that can still write a status or a note,
\* except one started after the destroy had begun.
ForgottenJobsHaveUnwound ==
    \A j \in Job \ (table \cup late) : pc[j] \in {"unborn", "published", "exited"}

\* A terminal status is final: a late goroutine never takes back a kill, and a
\* kill never overwrites what a finished job reported.
TerminalIsFinal ==
    [][\A j \in Job : status[j] \in Terminal => status'[j] = status[j]]_vars

(***************************************************************************)
(* The manager implements the mailbox of completion notes.                 *)
(***************************************************************************)
Posted == {j \in Job : pc[j] \in {"recorded", "published", "exited"}}
Queued == {n.job : n \in {m \in completed : m.kind = "finished"}}
SeenOver == {j \in Job : status[j] \in {"done", "failed"} \/ pc[j] = "exited"}

Mail == INSTANCE Mailbox WITH
    Reader <- Owner, posted <- Posted, queue <- Queued, drained <- delivered, over <- SeenOver

\* The completion of a job is reported once: posted before anybody sees the job
\* over, then drained by one reader or dropped with its session, and never again,
\* whatever drains, adoptions and destroys run beside it (recordCompletion,
\* DrainCompletedNoteForSession, adoptUnscopedJobsLocked, BeginDestroySession).
CompletionsAreMailed == Mail!Spec

(***************************************************************************)
(* The parts of the inductive invariant behind the safety properties.      *)
(***************************************************************************)

\* A completion has one note, and none before its goroutine has recorded it.
NotesAreSingle ==
    \A n \in completed : n.kind = "finished" =>
        /\ pc[n.job] \in {"recorded", "published", "exited"}
        /\ \A m \in completed : m.kind = "finished" /\ m.job = n.job => m = n

\* Only the goroutine publishes done or failed, after it recorded its note.
PublishedAfterRecorded ==
    \A j \in Job : /\ status[j] \in {"done", "failed"} => pc[j] \in {"published", "exited"}
                   /\ pc[j] \in {"recorded", "published", "exited"} => Noted(j)

\* A window has a handle, and no session is adopting and being destroyed.
WindowsHaveHandles ==
    /\ \A d \in Destroyer : handle[d].session = NoSession => handle[d] = NoHandle
    /\ destroying \subseteq BeingDestroyed
    /\ adopting \cap BeingDestroyed = {}

\* A handle lists every job of its session that was there when it was made
\* and whose goroutine has not yet published its end.
HandlesCoverJobs ==
    \A d \in Destroyer, j \in Job :
        /\ j \in table \ late
        /\ handle[d].session # NoSession
        /\ session[j] = handle[d].session
        /\ pc[j] \notin {"published", "exited"}
        => j \in handle[d].jobs

\* A killed job's goroutine ends, whichever of kill, destroy and close did it.
KilledJobsExit == \A j \in Job : status[j] = "killed" ~> pc[j] = "exited"

\* Once Close has begun, the temporary root is eventually removed.
CloseCleansUp == closer # "open" ~> ~tempRoot

=============================================================================
