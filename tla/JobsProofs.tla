----------------------------- MODULE JobsProofs -----------------------------
(***************************************************************************)
(* What holds of the job manager for any number of jobs, sessions and      *)
(* destroying calls.                                                       *)
(***************************************************************************)
EXTENDS Jobs, TLAPS

\* The variables keep their types.
THEOREM TypeCorrect == Spec => []TypeOK
<1> USE NoSessionAssumption, FlagAssumption DEF TypeOK, Owner, Status, Place, Note, Handle, NoHandle
<1>1. Init => TypeOK
  BY DEF Init
<1>2. TypeOK /\ [Next]_vars => TypeOK'
  <2> SUFFICES ASSUME TypeOK, [Next]_vars PROVE TypeOK'
    OBVIOUS
  <2> USE DEF Visible, SessionMatches
  <2>1. ASSUME NEW j \in Job, NEW s \in Owner, Start(j, s) PROVE TypeOK'
    BY <2>1 DEF Start, noteVars, bindVars, closeVars
  <2>2. ASSUME NEW j \in Job, Goroutine(j) PROVE TypeOK'
    <3>1. CASE Launch(j)
      BY <3>1 DEF Launch, noteVars, destroyVars, bindVars, closeVars
    <3>2. CASE RunReturns(j)
      BY <3>2 DEF RunReturns, noteVars, destroyVars, bindVars, closeVars
    <3>3. CASE Classify(j)
      BY <3>3 DEF Classify, noteVars, destroyVars, bindVars, closeVars
    <3>4. CASE RecordCompletion(j)
      BY <3>4 DEF RecordCompletion, destroyVars, bindVars, closeVars
    <3>5. CASE Publish(j)
      BY <3>5 DEF Publish, noteVars, destroyVars, bindVars, closeVars
    <3>6. CASE Exit(j)
      BY <3>6 DEF Exit, noteVars, destroyVars, bindVars, closeVars
    <3>7. QED
      BY <2>2, <3>1, <3>2, <3>3, <3>4, <3>5, <3>6 DEF Goroutine
  <2>3. ASSUME NEW j \in Job, Monitor(j) PROVE TypeOK'
    <3>1. CASE MonitorTimer(j)
      BY <3>1 DEF MonitorTimer, goroutineVars, noteVars, destroyVars, bindVars, closeVars
    <3>2. CASE RecordStalled(j)
      BY <3>2 DEF RecordStalled, goroutineVars, destroyVars, bindVars, closeVars
    <3>3. CASE MonitorDone(j)
      BY <3>3 DEF MonitorDone, goroutineVars, noteVars, destroyVars, bindVars, closeVars
    <3>4. QED
      BY <2>3, <3>1, <3>2, <3>3 DEF Monitor
  <2>4. ASSUME NEW j \in Job, Cancel(j) PROVE TypeOK'
    BY <2>4 DEF Cancel, goroutineVars, noteVars, destroyVars, bindVars, closeVars
  <2>5. ASSUME NEW j \in Job, NEW s \in Owner, KillFlip(j, s) PROVE TypeOK'
    BY <2>5 DEF KillFlip, noteVars, destroyVars, bindVars, closeVars
  <2>6. ASSUME NEW s \in Owner, Drain(s) PROVE TypeOK'
    BY <2>6 DEF Drain, DrainMatches, goroutineVars, destroyVars, bindVars, closeVars
  <2>7. ASSUME NEW s \in Session, BindSession(s) PROVE TypeOK'
    BY <2>7 DEF BindSession, goroutineVars, noteVars, destroyVars, closeVars
  <2>8. ASSUME NEW s \in Session, AdoptUnscoped(s) PROVE TypeOK'
    BY <2>8 DEF AdoptUnscoped, Adopted, Unscoped, goroutineVars, destroyVars, closeVars
  <2>9. ASSUME NEW s \in Session, NEW d \in Destroyer, BeginDestroySession(d, s)
        PROVE TypeOK'
    BY <2>9 DEF BeginDestroySession, DestroyTargets, bindVars, closeVars
  <2>10. ASSUME NEW d \in Destroyer, FinishDestroySession(d) PROVE TypeOK'
    BY <2>10 DEF FinishDestroySession, goroutineVars, noteVars, closeVars
  <2>11. ASSUME NEW async \in BOOLEAN, CloseCancels(async) PROVE TypeOK'
    BY <2>11 DEF CloseCancels, goroutineVars, noteVars, destroyVars, bindVars
  <2>12. CASE CloseTargets
    BY <2>12 DEF CloseTargets, noteVars, destroyVars, bindVars
  <2>13. CASE CloseTimesOut
    BY <2>13 DEF CloseTimesOut, goroutineVars, noteVars, destroyVars, bindVars
  <2>14. CASE RemoveTempRoot
    BY <2>14 DEF RemoveTempRoot, goroutineVars, noteVars, destroyVars, bindVars
  <2>15. CASE UNCHANGED vars
    BY <2>15 DEF vars, goroutineVars, noteVars, destroyVars, bindVars, closeVars
  <2>16. QED
    BY <2>1, <2>2, <2>3, <2>4, <2>5, <2>6, <2>7, <2>8, <2>9, <2>10, <2>11,
       <2>12, <2>13, <2>14, <2>15 DEF Next
<1>3. QED
  BY <1>1, <1>2, PTL DEF Spec

-----------------------------------------------------------------------------
(* Completion notes. *)

\* Five actions touch the notes; all others leave them as they are.
LEMMA NoteActions ==
    ASSUME [Next]_vars
    PROVE  \/ UNCHANGED noteVars
           \/ \E j \in Job : RecordCompletion(j) \/ RecordStalled(j)
           \/ \E s \in Owner : Drain(s)
           \/ \E s \in Session : AdoptUnscoped(s)
           \/ \E d \in Destroyer, s \in Session : BeginDestroySession(d, s)
  BY DEF Next, vars, Goroutine, Monitor, Launch, RunReturns, Classify, Publish,
         Exit, MonitorTimer, MonitorDone, Cancel, Start, KillFlip, BindSession,
         FinishDestroySession, CloseCancels, CloseTargets, CloseTimesOut,
         RemoveTempRoot

\* A note that exists is never lost: a step delivers it, drops it to a destroy,
\* renames its session or leaves it queued.
LEMMA NotesPersist ==
    ASSUME TypeOK, [Next]_vars, NEW j \in Job, Noted(j)
    PROVE  Noted(j)'
<1> USE DEF Noted, TypeOK, Note
<1>1. CASE UNCHANGED noteVars
  BY <1>1 DEF noteVars
<1>2. ASSUME NEW i \in Job, RecordCompletion(i) PROVE Noted(j)'
  BY <1>2 DEF RecordCompletion
<1>3. ASSUME NEW i \in Job, RecordStalled(i) PROVE Noted(j)'
  BY <1>3 DEF RecordStalled
<1>4. ASSUME NEW s \in Owner, Drain(s) PROVE Noted(j)'
  BY <1>4 DEF Drain
<1>5. ASSUME NEW s \in Session, AdoptUnscoped(s) PROVE Noted(j)'
  <2>1. CASE \E n \in completed : n.job = j /\ n.kind = "finished"
    <3>1. PICK n \in completed : n.job = j /\ n.kind = "finished"
      BY <2>1
    <3>2. Adopted(n, s) \in completed'
      BY <1>5 DEF AdoptUnscoped
    <3>3. Adopted(n, s).job = j /\ Adopted(n, s).kind = "finished"
      BY <3>1 DEF Adopted
    <3>4. QED
      BY <3>2, <3>3
  <2>2. QED
    BY <1>5, <2>1 DEF AdoptUnscoped
<1>6. ASSUME NEW d \in Destroyer, NEW s \in Session, BeginDestroySession(d, s)
      PROVE Noted(j)'
  BY <1>6 DEF BeginDestroySession
<1>7. QED
  BY <1>1, <1>2, <1>3, <1>4, <1>5, <1>6, NoteActions

\* The goroutine publishes only after its note, for any number of jobs.
LEMMA PublishedAfterRecordedHolds == Spec => []PublishedAfterRecorded
<1>1. Init => PublishedAfterRecorded
  BY DEF Init, PublishedAfterRecorded
<1>2. TypeOK /\ PublishedAfterRecorded /\ [Next]_vars => PublishedAfterRecorded'
  <2> SUFFICES ASSUME TypeOK, PublishedAfterRecorded, [Next]_vars, NEW j \in Job
               PROVE  /\ status'[j] \in {"done", "failed"} => pc'[j] \in {"published", "exited"}
                      /\ pc'[j] \in {"recorded", "published", "exited"} => Noted(j)'
    BY DEF PublishedAfterRecorded
  <2>1. /\ status[j] \in {"done", "failed"} => pc[j] \in {"published", "exited"}
        /\ pc[j] \in {"recorded", "published", "exited"} => Noted(j)
    BY DEF PublishedAfterRecorded
  <2>2. Noted(j) => Noted(j)'
    BY NotesPersist
  <2> HIDE DEF Noted
  <2> USE DEF TypeOK
  <2>3. CASE UNCHANGED <<pc, status>>
    BY <2>1, <2>2, <2>3
  <2>4. ASSUME NEW i \in Job, Goroutine(i)
        PROVE  /\ status'[j] \in {"done", "failed"} => pc'[j] \in {"published", "exited"}
               /\ pc'[j] \in {"recorded", "published", "exited"} => Noted(j)'
    <3>1. CASE RecordCompletion(i)
      <4>1. i = j => Noted(j)'
        <5>1. CASE owner[i] \in destroying
          BY <3>1, <5>1 DEF RecordCompletion, Noted
        <5>2. CASE owner[i] \notin destroying
          <6> DEFINE note == [job |-> i, session |-> owner[i], kind |-> "finished"]
          <6>1. note \in completed' /\ note.job = i /\ note.kind = "finished"
            BY <3>1, <5>2 DEF RecordCompletion
          <6> HIDE DEF note
          <6>2. QED
            BY <6>1 DEF Noted
        <5>3. QED
          BY <5>1, <5>2
      <4>2. QED
        BY <2>1, <2>2, <3>1, <4>1 DEF RecordCompletion
    <3>2. CASE Launch(i) \/ RunReturns(i) \/ Classify(i) \/ Exit(i)
      BY <2>1, <2>2, <3>2 DEF Launch, RunReturns, Classify, Exit
    <3>3. CASE Publish(i)
      BY <2>1, <2>2, <3>3 DEF Publish
    <3>4. QED
      BY <2>4, <3>1, <3>2, <3>3 DEF Goroutine
  <2>5. ASSUME NEW i \in Job, NEW s \in Owner, Start(i, s)
        PROVE  /\ status'[j] \in {"done", "failed"} => pc'[j] \in {"published", "exited"}
               /\ pc'[j] \in {"recorded", "published", "exited"} => Noted(j)'
    BY <2>1, <2>2, <2>5 DEF Start
  <2>6. CASE pc' = pc /\ \A i \in Job : status'[i] \in {status[i], "killed"}
    BY <2>1, <2>2, <2>6
  <2>7. \/ UNCHANGED <<pc, status>>
        \/ \E i \in Job : Goroutine(i)
        \/ \E i \in Job, s \in Owner : Start(i, s)
        \/ pc' = pc /\ \A i \in Job : status'[i] \in {status[i], "killed"}
    BY DEF Next, vars, goroutineVars, Monitor, MonitorTimer, RecordStalled, MonitorDone,
           Cancel, KillFlip, Drain, BindSession, AdoptUnscoped, BeginDestroySession,
           FinishDestroySession, CloseCancels, CloseTargets, CloseTimesOut, RemoveTempRoot
  <2>8. QED
    BY <2>3, <2>4, <2>5, <2>6, <2>7
<1>3. QED
  BY <1>1, <1>2, TypeCorrect, PTL DEF Spec

\* A reader never sees a finished job whose note is not queued: the note of a
\* job that is done, failed or over was recorded before its status was.
THEOREM FinishedJobsAreNotedHolds == Spec => []FinishedJobsAreNoted
<1>1. PublishedAfterRecorded => FinishedJobsAreNoted
  BY DEF PublishedAfterRecorded, FinishedJobsAreNoted
<1>2. QED
  BY <1>1, PublishedAfterRecordedHolds, PTL

\* A terminal status is never overwritten, neither by the goroutine of a killed
\* job nor by a kill, a destroy or a close that comes late.
THEOREM TerminalIsFinalHolds == Spec => TerminalIsFinal
<1> DEFINE Final == \A j \in Job : status[j] \in Terminal => status'[j] = status[j]
<1>1. TypeOK /\ PublishedAfterRecorded /\ [Next]_vars => [Final]_vars
  <2> SUFFICES ASSUME TypeOK, PublishedAfterRecorded, [Next]_vars,
                      NEW j \in Job, status[j] \in Terminal
               PROVE  status'[j] = status[j]
    OBVIOUS
  <2>1. status[j] \in {"done", "failed"} => pc[j] \in {"published", "exited"}
    BY DEF PublishedAfterRecorded
  <2>2. status \in [Job -> Status] /\ status[j] # "running"
    BY DEF TypeOK, Terminal
  <2>3. \/ UNCHANGED status
        \/ \E i \in Job : Publish(i)
        \/ \E i \in Job, s \in Owner : KillFlip(i, s)
        \/ \E d \in Destroyer, s \in Session : BeginDestroySession(d, s)
        \/ CloseTargets
    BY DEF Next, vars, goroutineVars, Goroutine, Monitor, Launch, RunReturns, Classify,
           RecordCompletion, Exit, MonitorTimer, RecordStalled, MonitorDone, Cancel,
           Start, Drain, BindSession, AdoptUnscoped, FinishDestroySession,
           CloseCancels, CloseTimesOut, RemoveTempRoot
  <2>4. ASSUME NEW i \in Job, Publish(i) PROVE status'[j] = status[j]
    BY <2>1, <2>2, <2>4 DEF Publish, Terminal
  <2>5. ASSUME NEW i \in Job, NEW s \in Owner, KillFlip(i, s)
        PROVE status'[j] = status[j]
    BY <2>2, <2>5 DEF KillFlip
  <2>6. ASSUME NEW d \in Destroyer, NEW s \in Session, BeginDestroySession(d, s)
        PROVE status'[j] = status[j]
    BY <2>2, <2>6 DEF BeginDestroySession
  <2>7. CASE CloseTargets
    BY <2>2, <2>7 DEF CloseTargets
  <2>8. QED
    BY <2>3, <2>4, <2>5, <2>6, <2>7
<1>2. QED
  BY <1>1, TypeCorrect, PublishedAfterRecordedHolds, PTL DEF Spec, TerminalIsFinal

-----------------------------------------------------------------------------
(* Destroying sessions. *)

\* Every open window has a handle, and no session adopts while it is destroyed.
LEMMA WindowsHaveHandlesHolds == Spec => []WindowsHaveHandles
<1>1. Init => WindowsHaveHandles
  BY DEF Init, WindowsHaveHandles, NoHandle, BeingDestroyed
<1>2. TypeOK /\ WindowsHaveHandles /\ [Next]_vars => WindowsHaveHandles'
  <2> SUFFICES ASSUME TypeOK, WindowsHaveHandles, [Next]_vars
               PROVE  WindowsHaveHandles'
    OBVIOUS
  <2> USE NoSessionAssumption
      DEF TypeOK, WindowsHaveHandles, BeingDestroyed, NoHandle, Handle, Owner
  <2>1. CASE UNCHANGED <<destroying, handle, adopting>>
    BY <2>1
  <2>2. ASSUME NEW s \in Session, BindSession(s) PROVE WindowsHaveHandles'
    BY <2>2 DEF BindSession, destroyVars
  <2>3. ASSUME NEW s \in Session, AdoptUnscoped(s) PROVE WindowsHaveHandles'
    BY <2>3 DEF AdoptUnscoped, destroyVars
  <2>4. ASSUME NEW d \in Destroyer, NEW s \in Session, BeginDestroySession(d, s)
        PROVE WindowsHaveHandles'
    <3>1. /\ handle'[d].session = s
          /\ \A e \in Destroyer \ {d} : handle'[e] = handle[e]
          /\ handle[d] = NoHandle
      BY <2>4 DEF BeginDestroySession
    <3>2. BeingDestroyed' = BeingDestroyed \cup {s}
      BY <3>1
    <3>3. /\ destroying' = destroying \cup {s}
          /\ adopting' = adopting
          /\ s \notin adopting
      BY <2>4 DEF BeginDestroySession, bindVars
    <3>4. \A e \in Destroyer : handle'[e].session = NoSession => handle'[e] = NoHandle
      BY <3>1
    <3> HIDE DEF BeingDestroyed
    <3>5. QED
      BY <3>2, <3>3, <3>4
  <2>5. ASSUME NEW d \in Destroyer, FinishDestroySession(d) PROVE WindowsHaveHandles'
    <3>1. /\ handle'[d] = NoHandle
          /\ \A e \in Destroyer \ {d} : handle'[e] = handle[e]
          /\ destroying' = destroying \ {handle[d].session}
          /\ adopting' = adopting
      BY <2>5 DEF FinishDestroySession
    <3>2. \A e \in Destroyer : handle'[e].session = NoSession => handle'[e] = NoHandle
      BY <3>1
    <3>3. \A s \in destroying' : \E e \in Destroyer : handle'[e].session = s
      BY <3>1
    <3>4. destroying' \subseteq BeingDestroyed'
      BY <3>1, <3>3
    <3>5. BeingDestroyed' \subseteq BeingDestroyed
      BY <3>1
    <3>6. QED
      BY <3>1, <3>2, <3>4, <3>5
  <2>6. \/ UNCHANGED <<destroying, handle, adopting>>
        \/ \E s \in Session : BindSession(s) \/ AdoptUnscoped(s)
        \/ \E d \in Destroyer, s \in Session : BeginDestroySession(d, s)
        \/ \E d \in Destroyer : FinishDestroySession(d)
    BY DEF Next, vars, destroyVars, bindVars, Goroutine, Monitor, Launch, RunReturns,
           Classify, RecordCompletion, Publish, Exit, MonitorTimer, RecordStalled,
           MonitorDone, Cancel, Start, KillFlip, Drain, CloseCancels, CloseTargets,
           CloseTimesOut, RemoveTempRoot
  <2>7. QED
    BY <2>1, <2>2, <2>3, <2>4, <2>5, <2>6
<1>3. QED
  BY <1>1, <1>2, TypeCorrect, PTL DEF Spec

\* Nothing is queued for a session while it is being destroyed, by goroutines,
\* monitors or adoption, for any number of overlapping destroys.
THEOREM DestroyedSessionsAreSilentHolds == Spec => []DestroyedSessionsAreSilent
<1>1. Init => DestroyedSessionsAreSilent
  BY DEF Init, DestroyedSessionsAreSilent
<1>2. /\ TypeOK /\ WindowsHaveHandles /\ DestroyedSessionsAreSilent /\ [Next]_vars
      => DestroyedSessionsAreSilent'
  <2> SUFFICES ASSUME TypeOK, WindowsHaveHandles, DestroyedSessionsAreSilent, [Next]_vars
               PROVE  DestroyedSessionsAreSilent'
    OBVIOUS
  <2> USE DEF DestroyedSessionsAreSilent
  <2>1. CASE UNCHANGED noteVars /\ destroying' \subseteq destroying
    BY <2>1 DEF noteVars
  <2>2. ASSUME NEW i \in Job, RecordCompletion(i) PROVE DestroyedSessionsAreSilent'
    BY <2>2 DEF RecordCompletion, destroyVars
  <2>3. ASSUME NEW i \in Job, RecordStalled(i) PROVE DestroyedSessionsAreSilent'
    BY <2>3 DEF RecordStalled, destroyVars
  <2>4. ASSUME NEW s \in Owner, Drain(s) PROVE DestroyedSessionsAreSilent'
    BY <2>4 DEF Drain, destroyVars
  <2>5. ASSUME NEW s \in Session, AdoptUnscoped(s) PROVE DestroyedSessionsAreSilent'
    <3>1. s \notin destroying
      BY <2>5 DEF AdoptUnscoped, WindowsHaveHandles
    <3>2. QED
      BY <2>5, <3>1 DEF AdoptUnscoped, Adopted, destroyVars
  <2>6. ASSUME NEW d \in Destroyer, NEW s \in Session, BeginDestroySession(d, s)
        PROVE DestroyedSessionsAreSilent'
    BY <2>6 DEF BeginDestroySession
  <2>7. UNCHANGED noteVars => destroying' \subseteq destroying
                              \/ \E d \in Destroyer, s \in Session : BeginDestroySession(d, s)
    BY DEF Next, vars, destroyVars, bindVars, Goroutine, Monitor, Launch, RunReturns,
           Classify, RecordCompletion, Publish, Exit, MonitorTimer, RecordStalled,
           MonitorDone, Cancel, Start, KillFlip, Drain, BindSession, AdoptUnscoped,
           FinishDestroySession, CloseCancels, CloseTargets, CloseTimesOut,
           RemoveTempRoot
  <2>8. QED
    BY <2>1, <2>2, <2>3, <2>4, <2>5, <2>6, <2>7, NoteActions
<1>3. QED
  BY <1>1, <1>2, TypeCorrect, WindowsHaveHandlesHolds, PTL DEF Spec

\* A handle lists every unfinished job its session had when it was made.
LEMMA HandlesCoverJobsHolds == Spec => []HandlesCoverJobs
<1> DEFINE Over(j) == pc[j] \in {"published", "exited"}
<1>1. Init => HandlesCoverJobs
  BY DEF Init, HandlesCoverJobs
<1>2. /\ TypeOK /\ PublishedAfterRecorded /\ WindowsHaveHandles /\ HandlesCoverJobs
      /\ [Next]_vars
      => HandlesCoverJobs'
  <2> SUFFICES ASSUME TypeOK, PublishedAfterRecorded, WindowsHaveHandles,
                      HandlesCoverJobs, [Next]_vars,
                      NEW d \in Destroyer, NEW j \in Job,
                      j \in table', j \notin late',
                      handle'[d].session # NoSession,
                      session'[j] = handle'[d].session,
                      ~Over(j)'
               PROVE  j \in handle'[d].jobs
    BY DEF HandlesCoverJobs
  <2>1. ASSUME handle'[d] = handle[d], j \in table \ late, session'[j] = session[j]
        PROVE  j \in handle'[d].jobs
    <3>1. ~Over(j)
      <4> USE DEF TypeOK
      <4>1. CASE UNCHANGED pc
        BY <4>1
      <4>2. ASSUME NEW i \in Job, Goroutine(i) PROVE ~Over(j)
        BY <4>2 DEF Goroutine, Launch, RunReturns, Classify, RecordCompletion,
                    Publish, Exit
      <4>3. ASSUME NEW i \in Job, NEW s \in Owner, Start(i, s) PROVE ~Over(j)
        BY <4>3 DEF Start
      <4>4. \/ UNCHANGED pc
            \/ \E i \in Job : Goroutine(i)
            \/ \E i \in Job, s \in Owner : Start(i, s)
        BY DEF Next, vars, goroutineVars, Monitor, MonitorTimer, RecordStalled,
               MonitorDone, Cancel, KillFlip, Drain, BindSession, AdoptUnscoped,
               BeginDestroySession, FinishDestroySession, CloseCancels,
               CloseTargets, CloseTimesOut, RemoveTempRoot
      <4>5. QED
        BY <4>1, <4>2, <4>3, <4>4
    <3>2. QED
      BY <2>1, <3>1 DEF HandlesCoverJobs
  <2>2. ASSUME NEW i \in Job, NEW s \in Owner, Start(i, s) PROVE j \in handle'[d].jobs
    <3>1. handle' = handle
      BY <2>2 DEF Start
    <3>2. CASE j = i
      <4>1. s \in BeingDestroyed
        BY <2>2, <3>1, <3>2 DEF Start, BeingDestroyed, TypeOK
      <4>2. QED
        BY <2>2, <3>2, <4>1 DEF Start
    <3>3. CASE j # i
      <4>1. j \in table \ late /\ session'[j] = session[j]
        BY <2>2, <3>3 DEF Start, TypeOK
      <4>2. QED
        BY <2>1, <3>1, <4>1
    <3>4. QED
      BY <3>2, <3>3
  <2>3. ASSUME NEW s \in Session, AdoptUnscoped(s) PROVE j \in handle'[d].jobs
    <3>1. /\ handle' = handle
          /\ j \in table \ late
      BY <2>3 DEF AdoptUnscoped, destroyVars
    <3>2. s \notin BeingDestroyed
      BY <2>3 DEF AdoptUnscoped, WindowsHaveHandles
    <3>3. j \notin Unscoped
      BY <2>3, <3>1, <3>2, NoSessionAssumption
         DEF AdoptUnscoped, BeingDestroyed, TypeOK
    <3>4. session'[j] = session[j]
      BY <2>3, <3>1, <3>3 DEF AdoptUnscoped, TypeOK
    <3>5. QED
      BY <2>1, <3>1, <3>4
  <2>4. ASSUME NEW e \in Destroyer, NEW s \in Session, BeginDestroySession(e, s)
        PROVE j \in handle'[d].jobs
    <3>1. /\ j \in table \ late
          /\ session'[j] = session[j]
          /\ pc' = pc
      BY <2>4 DEF BeginDestroySession
    <3>2. CASE e = d
      <4>1. handle'[d] = [session |-> s, jobs |-> DestroyTargets(s)]
        BY <2>4, <3>2 DEF BeginDestroySession, TypeOK
      <4>2. status[j] \in {"running", "killed"}
        <5>1. j \in Job /\ status[j] \in Status
          BY <3>1 DEF TypeOK
        <5>2. status[j] \notin {"done", "failed"}
          BY <3>1, <5>1 DEF PublishedAfterRecorded
        <5>3. QED
          BY <5>1, <5>2 DEF Status
      <4>3. j \in DestroyTargets(s)
        <5>0. handle'[d].session = s
          BY <4>1
        <5>1. session[j] = s
          BY <3>1, <5>0
        <5>2. j \in Visible(s)
          BY <3>1, <5>1 DEF Visible, SessionMatches
        <5>3. QED
          BY <4>2, <5>2 DEF DestroyTargets
      <4>4. QED
        BY <4>1, <4>3
    <3>3. CASE e # d
      <4>1. handle'[d] = handle[d]
        BY <2>4, <3>3 DEF BeginDestroySession, TypeOK
      <4>2. QED
        BY <2>1, <3>1, <4>1
    <3>4. QED
      BY <3>2, <3>3
  <2>5. ASSUME NEW e \in Destroyer, FinishDestroySession(e) PROVE j \in handle'[d].jobs
    <3>1. d # e /\ handle'[d] = handle[d]
      BY <2>5 DEF FinishDestroySession, TypeOK, NoHandle
    <3>2. j \in table \ late /\ session'[j] = session[j]
      BY <2>5 DEF FinishDestroySession
    <3>3. QED
      BY <2>1, <3>1, <3>2
  <2>6. CASE UNCHANGED <<handle, table, late, session>>
    BY <2>1, <2>6
  <2>7. \/ UNCHANGED <<handle, table, late, session>>
        \/ \E i \in Job, s \in Owner : Start(i, s)
        \/ \E s \in Session : AdoptUnscoped(s)
        \/ \E e \in Destroyer, s \in Session : BeginDestroySession(e, s)
        \/ \E e \in Destroyer : FinishDestroySession(e)
    BY DEF Next, vars, destroyVars, Goroutine, Monitor, Launch, RunReturns, Classify,
           RecordCompletion, Publish, Exit, MonitorTimer, RecordStalled, MonitorDone,
           Cancel, KillFlip, Drain, BindSession, CloseCancels, CloseTargets,
           CloseTimesOut, RemoveTempRoot
  <2>8. QED
    BY <2>2, <2>3, <2>4, <2>5, <2>6, <2>7
<1>3. QED
  BY <1>1, <1>2, TypeCorrect, PublishedAfterRecordedHolds, WindowsHaveHandlesHolds,
     PTL DEF Spec

\* A finished destroy leaves behind no goroutine that could still record a note
\* or publish a status, except of jobs started during the destroy itself.
THEOREM ForgottenJobsHaveUnwoundHolds == Spec => []ForgottenJobsHaveUnwound
<1> DEFINE Gone(j) == pc[j] \in {"unborn", "published", "exited"}
<1>1. Init => ForgottenJobsHaveUnwound
  BY DEF Init, ForgottenJobsHaveUnwound
<1>2. /\ TypeOK /\ WindowsHaveHandles /\ HandlesCoverJobs /\ ForgottenJobsHaveUnwound
      /\ [Next]_vars
      => ForgottenJobsHaveUnwound'
  <2> SUFFICES ASSUME TypeOK, WindowsHaveHandles, HandlesCoverJobs,
                      ForgottenJobsHaveUnwound, [Next]_vars,
                      NEW j \in (Job \ (table \cup late))'
               PROVE  Gone(j)'
    BY DEF ForgottenJobsHaveUnwound
  <2>1. ASSUME j \notin table, j \notin late PROVE Gone(j)'
    <3> USE <2>1 DEF TypeOK
    <3>1. Gone(j)
      BY DEF ForgottenJobsHaveUnwound
    <3>2. CASE UNCHANGED pc
      BY <3>1, <3>2
    <3>3. ASSUME NEW i \in Job, Goroutine(i) PROVE Gone(j)'
      BY <3>1, <3>3 DEF Goroutine, Launch, RunReturns, Classify, RecordCompletion,
                        Publish, Exit
    <3>4. ASSUME NEW i \in Job, NEW s \in Owner, Start(i, s) PROVE Gone(j)'
      BY <3>1, <3>4 DEF Start
    <3>5. \/ UNCHANGED pc
          \/ \E i \in Job : Goroutine(i)
          \/ \E i \in Job, s \in Owner : Start(i, s)
      BY DEF Next, vars, goroutineVars, Monitor, MonitorTimer, RecordStalled,
             MonitorDone, Cancel, KillFlip, Drain, BindSession, AdoptUnscoped,
             BeginDestroySession, FinishDestroySession, CloseCancels,
             CloseTargets, CloseTimesOut, RemoveTempRoot
    <3>6. QED
      BY <3>2, <3>3, <3>4, <3>5
  <2>2. ASSUME NEW d \in Destroyer, FinishDestroySession(d) PROVE Gone(j)'
    <3>1. j \notin late /\ pc' = pc
      BY <2>2 DEF FinishDestroySession, goroutineVars
    <3>2. CASE j \in table
      <4>1. handle[d].session \in Session
        <5>1. handle[d] # NoHandle /\ handle[d] \in Handle
          BY <2>2 DEF FinishDestroySession, TypeOK
        <5>2. handle[d].session # NoSession
          BY <5>1 DEF WindowsHaveHandles
        <5>3. QED
          BY <5>1, <5>2 DEF Handle, Owner
      <4>2. session[j] = handle[d].session
        <5>1. table' = table \ Visible(handle[d].session)
          BY <2>2 DEF FinishDestroySession
        <5>2. j \in Visible(handle[d].session)
          BY <3>2, <5>1
        <5>3. QED
          BY <4>1, <5>2, NoSessionAssumption DEF Visible, SessionMatches
      <4>3. CASE j \in handle[d].jobs
        BY <2>2, <3>1, <4>3 DEF FinishDestroySession, Unwound
      <4>4. CASE j \notin handle[d].jobs
        BY <3>1, <3>2, <4>1, <4>2, <4>4, NoSessionAssumption DEF HandlesCoverJobs
      <4>5. QED
        BY <4>3, <4>4
    <3>3. QED
      BY <2>1, <3>1, <3>2
  <2>3. \/ table \subseteq table' /\ late \subseteq late'
        \/ \E d \in Destroyer : FinishDestroySession(d)
    BY DEF Next, vars, destroyVars, Goroutine, Monitor, Launch, RunReturns, Classify,
           RecordCompletion, Publish, Exit, MonitorTimer, RecordStalled, MonitorDone,
           Cancel, Start, KillFlip, Drain, BindSession, AdoptUnscoped,
           BeginDestroySession, CloseCancels, CloseTargets, CloseTimesOut,
           RemoveTempRoot
  <2>4. QED
    BY <2>1, <2>2, <2>3
<1>3. QED
  BY <1>1, <1>2, TypeCorrect, WindowsHaveHandlesHolds, HandlesCoverJobsHolds,
     PTL DEF Spec

-----------------------------------------------------------------------------
(* Whom a completion note reaches. *)

\* The session a job was started in is captured once and for all.
LEMMA OwnersStay ==
    ASSUME TypeOK, [Next]_vars, NEW j \in Job, pc[j] # "unborn"
    PROVE  pc'[j] # "unborn" /\ owner'[j] = owner[j]
<1>1. \/ UNCHANGED <<pc, owner>>
      \/ \E i \in Job : Goroutine(i)
      \/ \E i \in Job, s \in Owner : Start(i, s)
  BY DEF Next, vars, goroutineVars, Monitor, MonitorTimer, RecordStalled, MonitorDone,
         Cancel, KillFlip, Drain, BindSession, AdoptUnscoped, BeginDestroySession,
         FinishDestroySession, CloseCancels, CloseTargets, CloseTimesOut, RemoveTempRoot
<1>2. ASSUME NEW i \in Job, Goroutine(i) PROVE pc'[j] # "unborn" /\ owner'[j] = owner[j]
  BY <1>2 DEF Goroutine, Launch, RunReturns, Classify, RecordCompletion, Publish, Exit, TypeOK
<1>3. ASSUME NEW i \in Job, NEW s \in Owner, Start(i, s)
      PROVE pc'[j] # "unborn" /\ owner'[j] = owner[j]
  BY <1>3 DEF Start, TypeOK
<1>4. QED
  BY <1>1, <1>2, <1>3

\* A completion note that is queued carries the session its job was started in,
\* if it was started in one, and has only been drained by that session or by a
\* reader of all sessions.
NotesAreOwn ==
    /\ \A n \in completed : n.kind = "finished" =>
           /\ pc[n.job] # "unborn"
           /\ owner[n.job] # NoSession => n.session = owner[n.job]
    /\ \A r \in Session, j \in Job : <<r, j>> \in delivered =>
           /\ pc[j] # "unborn"
           /\ owner[j] # NoSession => owner[j] = r

\* No step, an adoption included, readdresses such a note.
LEMMA NotesAreOwnStep == ASSUME TypeOK, NotesAreOwn, [Next]_vars PROVE NotesAreOwn'
<1> USE NoSessionAssumption DEF NotesAreOwn, TypeOK, Note
<1>1. \A j \in Job : pc[j] # "unborn" => pc'[j] # "unborn" /\ owner'[j] = owner[j]
  BY OwnersStay
<1>2. CASE UNCHANGED noteVars
  BY <1>1, <1>2 DEF noteVars
<1>3. ASSUME NEW i \in Job, RecordCompletion(i) PROVE NotesAreOwn'
  BY <1>1, <1>3 DEF RecordCompletion
<1>4. ASSUME NEW i \in Job, RecordStalled(i) PROVE NotesAreOwn'
  BY <1>1, <1>4 DEF RecordStalled
<1>5. ASSUME NEW s \in Owner, Drain(s) PROVE NotesAreOwn'
  <2>1. ASSUME NEW r \in Session, NEW j \in Job, <<r, j>> \in delivered', <<r, j>> \notin delivered
        PROVE  \E n \in completed : n.kind = "finished" /\ n.job = j /\ n.session = r
    BY <1>5, <2>1 DEF Drain, DrainMatches, SessionMatches
  <2>2. ASSUME NEW r \in Session, NEW j \in Job, <<r, j>> \in delivered'
        PROVE  pc[j] # "unborn" /\ (owner[j] # NoSession => owner[j] = r)
    BY <2>1, <2>2
  <2>3. completed' \subseteq completed
    BY <1>5 DEF Drain
  <2>4. QED
    BY <1>1, <2>2, <2>3
<1>6. ASSUME NEW s \in Session, AdoptUnscoped(s) PROVE NotesAreOwn'
  <2>1. ASSUME NEW n \in completed, n.session # NoSession PROVE Adopted(n, s) = n
    BY <2>1 DEF Adopted
  <2>2. ASSUME NEW n \in completed
        PROVE  Adopted(n, s).job = n.job /\ Adopted(n, s).kind = n.kind
    BY DEF Adopted
  <2>3. ASSUME NEW m \in completed', m.kind = "finished"
        PROVE  pc[m.job] # "unborn" /\ (owner[m.job] # NoSession => m.session = owner[m.job])
    <3>1. PICK n \in completed : m = Adopted(n, s)
      BY <1>6 DEF AdoptUnscoped
    <3>2. QED
      BY <2>1, <2>2, <2>3, <3>1
  <2>4. delivered' = delivered /\ \A m \in completed' : m.job \in Job
    BY <1>6 DEF AdoptUnscoped, Adopted
  <2>5. QED
    BY <1>1, <2>3, <2>4
<1>7. ASSUME NEW d \in Destroyer, NEW s \in Session, BeginDestroySession(d, s)
      PROVE NotesAreOwn'
  BY <1>1, <1>7 DEF BeginDestroySession
<1>8. QED
  BY <1>2, <1>3, <1>4, <1>5, <1>6, <1>7, NoteActions

\* A job started in a session is only reported to that session, or to a reader
\* without one, however sessions are bound, adopt and are destroyed around it.
THEOREM NotesStayInTheirSessionHolds == Spec => []NotesStayInTheirSession
<1>1. Init => NotesAreOwn
  BY DEF Init, NotesAreOwn
<1>2. TypeOK /\ NotesAreOwn /\ [Next]_vars => NotesAreOwn'
  BY NotesAreOwnStep
<1>3. NotesAreOwn => NotesStayInTheirSession
  BY DEF NotesAreOwn, NotesStayInTheirSession
<1>4. QED
  BY <1>1, <1>2, <1>3, TypeCorrect, PTL DEF Spec

-----------------------------------------------------------------------------
(***************************************************************************)
(* The manager implements the mailbox of completion notes.                 *)
(***************************************************************************)

\* No step queues a second note for a completion.
LEMMA NotesAreSingleStep ==
    ASSUME TypeOK, NotesAreSingle, [Next]_vars PROVE NotesAreSingle'
<1> DEFINE After == {"recorded", "published", "exited"}
<1> USE DEF TypeOK, Note
<1>1. \A j \in Job : pc[j] \in After => pc'[j] \in After
  <2>1. \/ UNCHANGED pc
        \/ \E i \in Job : Goroutine(i)
        \/ \E i \in Job, s \in Owner : Start(i, s)
    BY DEF Next, vars, goroutineVars, Monitor, MonitorTimer, RecordStalled, MonitorDone,
           Cancel, KillFlip, Drain, BindSession, AdoptUnscoped, BeginDestroySession,
           FinishDestroySession, CloseCancels, CloseTargets, CloseTimesOut, RemoveTempRoot
  <2>2. ASSUME NEW i \in Job, Goroutine(i) PROVE \A j \in Job : pc[j] \in After => pc'[j] \in After
    BY <2>2 DEF Goroutine, Launch, RunReturns, Classify, RecordCompletion, Publish, Exit
  <2>3. ASSUME NEW i \in Job, NEW s \in Owner, Start(i, s)
        PROVE  \A j \in Job : pc[j] \in After => pc'[j] \in After
    BY <2>3 DEF Start
  <2> QED
    BY <2>1, <2>2, <2>3
<1>2. ASSUME completed' \subseteq completed PROVE NotesAreSingle'
  BY <1>1, <1>2 DEF NotesAreSingle
<1>3. CASE UNCHANGED noteVars
  BY <1>2, <1>3 DEF noteVars
<1>4. ASSUME NEW i \in Job, RecordCompletion(i) PROVE NotesAreSingle'
  <2>1. \A n \in completed : n.kind = "finished" => n.job # i
    BY <1>4 DEF RecordCompletion, NotesAreSingle
  <2>2. pc'[i] = "recorded" /\ completed' \subseteq completed \cup
           {[job |-> i, session |-> owner[i], kind |-> "finished"]}
    BY <1>4 DEF RecordCompletion
  <2> QED
    BY <1>1, <2>1, <2>2 DEF NotesAreSingle
<1>5. ASSUME NEW i \in Job, RecordStalled(i) PROVE NotesAreSingle'
  <2>1. completed' \subseteq completed \cup
           {[job |-> i, session |-> owner[i], kind |-> "stalled"]}
    BY <1>5 DEF RecordStalled
  <2> QED
    BY <1>1, <2>1 DEF NotesAreSingle
<1>6. ASSUME NEW s \in Owner, Drain(s) PROVE NotesAreSingle'
  BY <1>2, <1>6 DEF Drain
<1>7. ASSUME NEW s \in Session, AdoptUnscoped(s) PROVE NotesAreSingle'
  <2>1. \A m \in completed' : \E n \in completed : m = Adopted(n, s)
    BY <1>7 DEF AdoptUnscoped
  <2>2. \A n \in completed : Adopted(n, s).job = n.job /\ Adopted(n, s).kind = n.kind
    BY DEF Adopted
  <2> SUFFICES ASSUME NEW m \in completed', m.kind = "finished"
               PROVE  /\ pc'[m.job] \in After
                      /\ \A k \in completed' : k.kind = "finished" /\ k.job = m.job => k = m
    BY DEF NotesAreSingle
  <2>3. PICK n \in completed : m = Adopted(n, s)
    BY <2>1
  <2>4. n.kind = "finished" /\ n.job = m.job /\ n.job \in Job
    BY <2>2, <2>3
  <2>5. ASSUME NEW k \in completed', k.kind = "finished", k.job = m.job PROVE k = m
    <3>1. PICK l \in completed : k = Adopted(l, s)
      BY <2>1
    <3>2. l.kind = "finished" /\ l.job = n.job
      BY <2>2, <2>4, <2>5, <3>1
    <3>3. l = n
      BY <2>4, <3>2 DEF NotesAreSingle
    <3> QED
      BY <2>3, <3>1, <3>3
  <2> QED
    BY <1>1, <2>4, <2>5 DEF NotesAreSingle
<1>8. ASSUME NEW d \in Destroyer, NEW s \in Session, BeginDestroySession(d, s)
      PROVE  NotesAreSingle'
  BY <1>2, <1>8 DEF BeginDestroySession
<1> QED
  BY <1>3, <1>4, <1>5, <1>6, <1>7, <1>8, NoteActions

\* What most steps leave alone.
Untouched == UNCHANGED <<Posted, Queued, delivered, dropped, SeenOver>>

LEMMA MailUntouched == Untouched => UNCHANGED Mail!vars
BY DEF Untouched, Mail!vars

\* Publishing and closing the done channel show that the job is over; the goroutine
\* has posted by then.
LEMMA GoroutineMails ==
    ASSUME TypeOK, PublishedAfterRecorded, NotesAreSingle, NEW j \in Job, Goroutine(j)
    PROVE  Mail!Next \/ Untouched
<1> USE DEF TypeOK, Untouched, Posted, Queued, SeenOver, noteVars
<1>1. CASE Launch(j) \/ RunReturns(j) \/ Classify(j)
  <2>1. status' = status /\ UNCHANGED noteVars
    BY <1>1 DEF Launch, RunReturns, Classify
  <2>2. \A i \in Job : /\ pc'[i] \in {"recorded", "published", "exited"}
                           <=> pc[i] \in {"recorded", "published", "exited"}
                       /\ pc'[i] = "exited" <=> pc[i] = "exited"
    BY <1>1 DEF Launch, RunReturns, Classify
  <2> QED
    BY <2>1, <2>2
<1>2. CASE RecordCompletion(j)
  <2> DEFINE note == [job |-> j, session |-> owner[j], kind |-> "finished"]
  <2>1. j \notin Posted /\ Posted' = Posted \cup {j} /\ UNCHANGED <<delivered, SeenOver>>
    BY <1>2 DEF RecordCompletion
  <2>2. CASE owner[j] \in destroying
    <3>1. dropped' = dropped \cup {j} /\ UNCHANGED Queued
      BY <1>2, <2>2 DEF RecordCompletion
    <3>2. Mail!Post(j)
      BY <2>1, <3>1 DEF Mail!Post
    <3> QED
      BY <3>2 DEF Mail!Next
  <2>3. CASE owner[j] \notin destroying
    <3>1. dropped' = dropped /\ completed' = completed \cup {note}
      BY <1>2, <2>3 DEF RecordCompletion
    <3>2. note.kind = "finished" /\ note.job = j
      OBVIOUS
    <3>3. Queued' = Queued \cup {j}
      <4>1. \A n \in completed' : n \in completed \/ n = note
        BY <3>1
      <4> HIDE DEF note
      <4> QED
        BY <3>1, <3>2, <4>1
    <3>4. Mail!Post(j)
      BY <2>1, <3>1, <3>3 DEF Mail!Post
    <3> QED
      BY <3>4 DEF Mail!Next
  <2> QED
    BY <2>2, <2>3
<1>3. CASE Publish(j) \/ Exit(j)
  <2>1. j \in Posted /\ UNCHANGED <<Posted, Queued, delivered, dropped>>
    BY <1>3 DEF Publish, Exit
  <2>2. SeenOver' = SeenOver \/ SeenOver' = SeenOver \cup {j}
    <3>1. \A i \in Job : i # j => pc'[i] = pc[i] /\ status'[i] = status[i]
      BY <1>3 DEF Publish, Exit
    <3>2. j \in SeenOver => j \in SeenOver'
      BY <1>3 DEF Publish, Exit, PublishedAfterRecorded
    <3> QED
      BY <3>1, <3>2
  <2>3. SeenOver' = SeenOver \/ Mail!Show(j)
    BY <2>1, <2>2 DEF Mail!Show
  <2> QED
    BY <2>1, <2>3 DEF Mail!Next
<1> QED
  BY <1>1, <1>2, <1>3 DEF Goroutine

\* Whoever drains takes the one note there is of a completion.
LEMMA DrainMails ==
    ASSUME TypeOK, NotesAreSingle, NEW s \in Owner, Drain(s)
    PROVE  Mail!Next
<1> DEFINE Finished(notes) == {n.job : n \in {m \in notes : m.kind = "finished"}}
           taken == {n \in completed : DrainMatches(n, s)}
<1>1. /\ completed' = completed \ taken
      /\ delivered' = delivered \cup {<<s, n.job>> : n \in {m \in taken : m.kind = "finished"}}
      /\ UNCHANGED <<pc, status, dropped>>
  BY DEF Drain, goroutineVars
<1>2. taken \subseteq completed /\ Finished(taken) \subseteq Job
  BY DEF TypeOK, Note
<1> HIDE DEF taken
<1>3. Finished(taken) \subseteq Queued
  BY <1>2 DEF Queued
<1>4. Queued' = Queued \ Finished(taken)
  BY <1>1, <1>2 DEF Queued, NotesAreSingle
<1>5. delivered' = delivered \cup {<<s, j>> : j \in Finished(taken)}
  BY <1>1
<1>6. UNCHANGED <<Posted, SeenOver>>
  BY <1>1 DEF Posted, SeenOver
<1>7. Mail!Drain(s, Finished(taken))
  BY <1>1, <1>3, <1>4, <1>5, <1>6 DEF Mail!Drain
<1> QED
  BY <1>2, <1>7 DEF Mail!Next

\* A destroy drops what is queued for its session, and flips running jobs only.
LEMMA DestroyMails ==
    ASSUME TypeOK, NotesAreSingle, NEW s \in Session, NEW d \in Destroyer,
           BeginDestroySession(d, s)
    PROVE  Mail!Next
<1> DEFINE Finished(notes) == {n.job : n \in {m \in notes : m.kind = "finished"}}
           lost == {n \in completed : n.session = s}
<1>1. /\ completed' = completed \ lost
      /\ dropped' = dropped \cup Finished(lost)
      /\ UNCHANGED <<pc, delivered>>
  BY DEF BeginDestroySession
<1>2. lost \subseteq completed /\ Finished(lost) \subseteq Job
  BY DEF TypeOK, Note
<1>3. UNCHANGED <<Posted, SeenOver>>
  BY <1>1 DEF BeginDestroySession, Posted, SeenOver, TypeOK
<1> HIDE DEF lost
<1>4. Finished(lost) \subseteq Queued
  BY <1>2 DEF Queued
<1>5. Queued' = Queued \ Finished(lost)
  BY <1>1, <1>2 DEF Queued, NotesAreSingle
<1>6. Mail!Drop(Finished(lost))
  BY <1>1, <1>3, <1>4, <1>5 DEF Mail!Drop
<1> QED
  BY <1>2, <1>6 DEF Mail!Next

\* A stall warning is no completion, and an adoption readdresses notes in place.
LEMMA OthersMailNothing ==
    ASSUME TypeOK,
           \/ \E j \in Job : Monitor(j) \/ Cancel(j)
           \/ \E j \in Job, s \in Owner : Start(j, s) \/ KillFlip(j, s)
           \/ \E s \in Session : BindSession(s) \/ AdoptUnscoped(s)
           \/ \E d \in Destroyer : FinishDestroySession(d)
           \/ \E async \in BOOLEAN : CloseCancels(async)
           \/ CloseTargets \/ CloseTimesOut \/ RemoveTempRoot
           \/ UNCHANGED vars
    PROVE  Untouched
<1> USE DEF TypeOK
<1>1. ASSUME NEW j \in Job, RecordStalled(j) PROVE Untouched
  <2>1. \A n : n.kind = "finished" => (n \in completed' <=> n \in completed)
    BY <1>1 DEF RecordStalled
  <2> QED
    BY <1>1, <2>1 DEF RecordStalled, goroutineVars, Untouched, Posted, Queued, SeenOver
<1>2. ASSUME NEW s \in Session, AdoptUnscoped(s) PROVE Untouched
  <2>1. \A n \in completed : Adopted(n, s).job = n.job /\ Adopted(n, s).kind = n.kind
    BY DEF Adopted
  <2>2. Queued' = Queued
    BY <1>2, <2>1 DEF AdoptUnscoped, Queued
  <2> QED
    BY <1>2, <2>2 DEF AdoptUnscoped, goroutineVars, Untouched, Posted, SeenOver
<1>3. ASSUME UNCHANGED <<pc, completed, delivered, dropped>>,
             \A j \in Job : status'[j] \in {"done", "failed"} <=> status[j] \in {"done", "failed"}
      PROVE  Untouched
  BY <1>3 DEF Untouched, Posted, Queued, SeenOver
<1>4. ASSUME NEW j \in Job, NEW s \in Owner, Start(j, s) PROVE Untouched
  BY <1>4 DEF Start, noteVars, Untouched, Posted, Queued, SeenOver
<1>5. ASSUME NEW j \in Job, NEW s \in Owner, KillFlip(j, s) PROVE Untouched
  BY <1>3, <1>5 DEF KillFlip, noteVars
<1>6. CASE CloseTargets
  BY <1>3, <1>6 DEF CloseTargets, noteVars
<1>7. ASSUME UNCHANGED goroutineVars, UNCHANGED noteVars PROVE Untouched
  BY <1>7 DEF goroutineVars, noteVars, Untouched, Posted, Queued, SeenOver
<1>8. ASSUME NEW j \in Job, MonitorTimer(j) \/ MonitorDone(j) \/ Cancel(j) PROVE Untouched
  BY <1>7, <1>8 DEF MonitorTimer, MonitorDone, Cancel
<1>9. ASSUME NEW s \in Session, BindSession(s) PROVE Untouched
  BY <1>7, <1>9 DEF BindSession
<1>10. ASSUME NEW d \in Destroyer, FinishDestroySession(d) PROVE Untouched
  BY <1>7, <1>10 DEF FinishDestroySession
<1>11. ASSUME NEW async \in BOOLEAN, CloseCancels(async) PROVE Untouched
  BY <1>7, <1>11 DEF CloseCancels
<1>12. CASE CloseTimesOut \/ RemoveTempRoot
  BY <1>7, <1>12 DEF CloseTimesOut, RemoveTempRoot
<1>13. CASE UNCHANGED vars
  BY <1>7, <1>13 DEF vars
<1> QED
  BY <1>1, <1>2, <1>4, <1>5, <1>6, <1>8, <1>9, <1>10, <1>11, <1>12, <1>13 DEF Monitor

\* The manager implements the mailbox: a completion is posted once, before anybody
\* sees the job over, and then has one reader at most.
THEOREM CompletionsAreMailedHolds == Spec => CompletionsAreMailed
<1>1. Init => NotesAreSingle /\ Mail!Init
  BY DEF Init, NotesAreSingle, Mail!Init, Posted, Queued, SeenOver
<1>2. TypeOK /\ NotesAreSingle /\ [Next]_vars => NotesAreSingle'
  BY NotesAreSingleStep
<1>3. TypeOK /\ PublishedAfterRecorded /\ NotesAreSingle /\ [Next]_vars
        => [Mail!Next]_(Mail!vars)
  BY GoroutineMails, DrainMails, DestroyMails, OthersMailNothing, MailUntouched DEF Next
<1> QED
  BY <1>1, <1>2, <1>3, TypeCorrect, PublishedAfterRecordedHolds, PTL
     DEF Spec, CompletionsAreMailed, Mail!Spec

=============================================================================
