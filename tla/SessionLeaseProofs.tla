-------------------------- MODULE SessionLeaseProofs --------------------------
(***************************************************************************)
(* What SessionLease guarantees for any processes, threads, inodes and     *)
(* operations: unless a lock file is unlinked between its open and its     *)
(* flock, the locks exclude.                                               *)
(***************************************************************************)
EXTENDS SessionLease, TLAPS

\* One step of a thread.
ThreadStep(t) == Open(t) \/ Lease(t) \/ Retire(t) \/ Sweep(t) \/ Saver(t) \/ Remover(t)

\* What a step of t does to control and locks, in one of five ways. In each,
\* the locks t needs afterwards are those it needed and keeps, or just got.
Leaves(t) ==
    /\ UNCHANGED fsVars
    /\ at'[t] # "flock"
    /\ \A f \in File : ~Unlinked(t, f) /\ (NeedsLock(t, f)' => NeedsLock(t, f))
Closes(t) ==
    /\ Close(t, file[t])
    /\ UNCHANGED path
    /\ at'[t] # "flock"
    /\ \A f \in File : NeedsLock(t, f)' => f # file[t] /\ NeedsLock(t, f)
Unlinks(t) ==
    /\ Unlink(file[t])
    /\ at'[t] # "flock"
    /\ NeedsLock(t, file[t])
    /\ Unlinked(t, file[t])' /\ file'[t] = file[t]
    /\ \A f \in File : ~Unlinked(t, f) /\ (NeedsLock(t, f)' => NeedsLock(t, f))
Locks(t) ==
    /\ Flock(t)
    /\ at'[t] # "flock"
    /\ \A f \in File : ~Unlinked(t, f) /\ (NeedsLock(t, f)' => f = file[t] \/ NeedsLock(t, f))
Opens(t) ==
    /\ Open(t)
    /\ \A f \in File : ~Unlinked(t, f) /\ (NeedsLock(t, f)' => f # file[t] /\ NeedsLock(t, f))

Moves(t) ==
    /\ op' = [op EXCEPT ![t] = op'[t]]
    /\ at' = [at EXCEPT ![t] = at'[t]]
    /\ file' = [file EXCEPT ![t] = file'[t]]
    /\ ControlAt(t)' /\ file'[t] \in File
    /\ info' \in Process \cup {None, Dead}
    /\ owners' \in [Process -> Thread \cup {None}]
    /\ saveMutex' \in [Process -> Thread \cup {None}]
    /\ Leaves(t) \/ Closes(t) \/ Unlinks(t) \/ Locks(t) \/ Opens(t)

\* Where each step takes its thread, and that it moves no other.
LEMMA StepMoves ==
    ASSUME TypeOK, ControlOK, NEW t \in Thread, ThreadStep(t)
    PROVE  Moves(t)
<1> USE ProcessAssumption DEF TypeOK, Moves, RemoveInfo, WithoutOwner, ControlAt, NeedsLock, Unlinked, HoldsLease, Saving, Step,
            Goto, Return, AfterRetire, File
<1>0. ControlAt(t)
  BY DEF ControlOK
<1>1. CASE Open(t)
  BY <1>0, <1>1 DEF Open, Opens
<1>2. CASE Lease(t)
  <2>1. CASE Reserve(t)
    BY <1>0, <2>1 DEF Reserve, Leaves
  <2>2. CASE AcquireFlock(t)
    BY <1>0, <2>2 DEF AcquireFlock, Locks, Flock
  <2>3. CASE AcquireHeld(t)
    BY <1>0, <2>3 DEF AcquireHeld, Closes, FlockHeld
  <2>4. CASE WriteInfo(t)
    BY <1>0, <2>4 DEF WriteInfo, Leaves
  <2>5. CASE Reclaim(t)
    BY <1>0, <2>5 DEF Reclaim, Leaves
  <2>6. CASE ReclaimFlock(t)
    BY <1>0, <2>6 DEF ReclaimFlock, Locks, Flock
  <2>7. CASE ReclaimOwner(t)
    BY <1>0, <2>7 DEF ReclaimOwner, Leaves
  <2>8. CASE ReclaimHeld(t)
    BY <1>0, <2>8 DEF ReclaimHeld, Closes, FlockHeld
  <2>9. CASE Release(t)
    BY <1>0, <2>9 DEF Release, Leaves
  <2>10. CASE ReleaseInfo(t)
    BY <1>0, <2>10 DEF ReleaseInfo, Leaves
  <2>11. CASE ReleaseUnlock(t)
    BY <1>0, <2>11 DEF ReleaseUnlock, Closes
  <2>12. CASE ReleaseOwner(t)
    BY <1>0, <2>12 DEF ReleaseOwner, Leaves
  <2>13. CASE Drop(t)
    BY <1>0, <2>13 DEF Drop, Closes
  <2> QED
    BY <1>2, <2>1, <2>2, <2>3, <2>4, <2>5, <2>6, <2>7, <2>8, <2>9, <2>10, <2>11, <2>12, <2>13 DEF Lease
<1>3. CASE Retire(t)
  <2>1. CASE RetireSkips(t)
    BY <1>0, <2>1 DEF RetireSkips, Leaves
  <2>2. CASE RetireStart(t)
    BY <1>0, <2>2 DEF RetireStart, Leaves
  <2>3. CASE HeldByOther(t)
    BY <1>0, <2>3 DEF HeldByOther, Leaves
  <2>4. CASE ProbeFlock(t)
    BY <1>0, <2>4 DEF ProbeFlock, Locks, Flock
  <2>5. CASE ProbeInfo(t)
    BY <1>0, <2>5 DEF ProbeInfo, Leaves
  <2>6. CASE ProbeUnlock(t)
    BY <1>0, <2>6 DEF ProbeUnlock, Closes
  <2>7. CASE ProbeHeld(t)
    BY <1>0, <2>7 DEF ProbeHeld, Closes, FlockHeld
  <2>8. CASE RetireUnlink(t)
    BY <1>0, <2>8 DEF RetireUnlink, Unlinks
  <2>9. CASE RetireUnlock(t)
    BY <1>0, <2>9 DEF RetireUnlock, Closes
  <2>10. CASE RetireHeld(t)
    BY <1>0, <2>10 DEF RetireHeld, Closes, FlockHeld
  <2> QED
    BY <1>3, <2>1, <2>2, <2>3, <2>4, <2>5, <2>6, <2>7, <2>8, <2>9, <2>10 DEF Retire
<1>4. CASE Sweep(t)
  <2>1. CASE Reconcile(t)
    BY <1>0, <2>1 DEF Reconcile, Leaves
  <2>2. CASE SweepStat(t)
    BY <1>0, <2>2 DEF SweepStat, Leaves
  <2>3. CASE SweepInfo(t)
    BY <1>0, <2>3 DEF SweepInfo, Leaves
  <2>4. CASE SweepBare(t)
    BY <1>0, <2>4 DEF SweepBare, Leaves
  <2>5. CASE SweepEnds(t)
    BY <1>0, <2>5 DEF SweepEnds, Closes, FlockHeld
  <2> QED
    BY <1>4, <2>1, <2>2, <2>3, <2>4, <2>5 DEF Sweep
<1>5. CASE Saver(t)
  <2>1. CASE Save(t)
    BY <1>0, <2>1 DEF Save, Leaves
  <2>2. CASE SaveFlock(t)
    BY <1>0, <2>2 DEF SaveFlock, Locks, Flock
  <2>3. CASE SaveUnlock(t)
    BY <1>0, <2>3 DEF SaveUnlock, Closes
  <2>4. CASE SaveReturns(t)
    BY <1>0, <2>4 DEF SaveReturns, Leaves
  <2> QED
    BY <1>5, <2>1, <2>2, <2>3, <2>4 DEF Saver
<1>6. CASE Remover(t)
  <2>1. CASE Guard(t)
    BY <1>0, <2>1 DEF Guard, Leaves
  <2>2. CASE GuardFlock(t)
    BY <1>0, <2>2 DEF GuardFlock, Locks, Flock
  <2>3. CASE GuardHeld(t)
    BY <1>0, <2>3 DEF GuardHeld, Closes, FlockHeld
  <2>4. CASE GuardRelease(t)
    BY <1>0, <2>4 DEF GuardRelease, Leaves
  <2>5. CASE GuardRemovesInfo(t)
    BY <1>0, <2>5 DEF GuardRemovesInfo, Leaves
  <2>6. CASE GuardUnlink(t)
    BY <1>0, <2>6 DEF GuardUnlink, Unlinks
  <2>7. CASE GuardUnlock(t)
    BY <1>0, <2>7 DEF GuardUnlock, Closes
  <2> QED
    BY <1>6, <2>1, <2>2, <2>3, <2>4, <2>5, <2>6, <2>7 DEF Remover
<1> QED
  BY <1>1, <1>2, <1>3, <1>4, <1>5, <1>6 DEF ThreadStep

\* An open gives t the linked inode, or one that it links and nobody has open.
LEMMA OpenEffect ==
    ASSUME TypeOK, NEW t \in Thread, Open(t)
    PROVE  /\ UNCHANGED <<flock, retired>>
           /\ \E i \in Inode : /\ fd' = [fd EXCEPT ![t][file[t]] = i]
                               /\ path' = [path EXCEPT ![file[t]] = i]
                               /\ path[file[t]] = i \/ (path[file[t]] = None /\ i \in FreeInodes)
<1>1. CASE path[file[t]] # None
  <2>1. path[file[t]] \in Inode
    BY <1>1 DEF TypeOK
  <2>2. path' = path /\ path = [path EXCEPT ![file[t]] = path[file[t]]]
    BY <1>1 DEF TypeOK, Open
  <2> QED
    BY <1>1, <2>1, <2>2 DEF Open
<1>2. CASE path[file[t]] = None
  BY <1>2 DEF Open, FreeInodes
<1> QED
  BY <1>1, <1>2

-----------------------------------------------------------------------------
(* The inductive invariant, one part at a time. *)

LockInv == /\ TypeOK /\ ControlOK /\ OpenedFirst /\ FilesApart /\ LocksAreHeld
           /\ HeldFilesAreLinked

\* Every step keeps the types.
LEMMA TypeStep ==
    ASSUME TypeOK, ControlOK, [Next]_vars
    PROVE  TypeOK' /\ ControlOK'
<1> USE NoneAssumption DEF TypeOK, File
<1>1. ASSUME NEW t \in Thread, ThreadStep(t) PROVE TypeOK' /\ ControlOK'
  <2>1. Moves(t)
    BY <1>1, StepMoves
  <2>2. op'[t] \in Op /\ at'[t] \in At /\ file'[t] \in File
    BY <2>1 DEF Moves, ControlAt, Op, At
  <2>3. op' \in [Thread -> Op] /\ at' \in [Thread -> At] /\ file' \in [Thread -> File]
    BY <2>1, <2>2 DEF Moves
  <2>4. ControlOK'
    BY <2>1 DEF Moves, ControlOK, ControlAt
  <2>5. /\ fd' \in [Thread -> [File -> Inode \cup {None}]]
        /\ path' \in [File -> Inode \cup {None}]
        /\ flock' \in [Inode -> Thread \cup {None}]
        /\ retired' \in BOOLEAN
    <3>1. CASE Leaves(t)
      BY <3>1 DEF Leaves, fsVars
    <3>2. CASE Closes(t)
      BY <3>2 DEF Closes, Close
    <3>3. CASE Unlinks(t)
      BY <3>3 DEF Unlinks, Unlink
    <3>4. CASE Locks(t)
      BY <3>4 DEF Locks, Flock
    <3>5. CASE Opens(t)
      BY <3>5, OpenEffect DEF Opens
    <3>6. QED
      BY <2>1, <3>1, <3>2, <3>3, <3>4, <3>5 DEF Moves
  <2>6. QED
    BY <2>1, <2>3, <2>4, <2>5 DEF Moves
<1>2. ASSUME NEW p \in Process, Crash(p) PROVE TypeOK' /\ ControlOK'
  <2>1. TypeOK'
    BY <1>2 DEF Crash, Op, At
  <2>2. ControlOK'
    BY <1>2 DEF Crash, ControlOK, ControlAt
  <2> QED
    BY <2>1, <2>2
<1>3. CASE UNCHANGED vars
  BY <1>3 DEF vars, threadVars, fsVars, ControlOK, ControlAt
<1> QED
  BY <1>1, <1>2, <1>3 DEF Next, ThreadStep

\* No step links or opens one inode under both names.
LEMMA FilesApartStep ==
    ASSUME TypeOK, ControlOK, FilesApart, [Next]_vars
    PROVE  FilesApart'
<1> USE NoneAssumption DEF TypeOK, FilesApart
<1>1. ASSUME NEW t \in Thread, ThreadStep(t) PROVE FilesApart'
  <2>1. Moves(t)
    BY <1>1, StepMoves
  <2>2. CASE Leaves(t)
    BY <2>2 DEF Leaves, fsVars
  <2>3. CASE Closes(t)
    BY <2>3 DEF Closes, Close
  <2>4. CASE Unlinks(t)
    BY <2>4 DEF Unlinks, Unlink
  <2>5. CASE Locks(t)
    BY <2>5 DEF Locks, Flock
  <2>6. CASE Opens(t)
    <3>1. PICK i \in Inode :
             /\ fd' = [fd EXCEPT ![t][file[t]] = i]
             /\ path' = [path EXCEPT ![file[t]] = i]
             /\ path[file[t]] = i \/ (path[file[t]] = None /\ i \in FreeInodes)
      BY <2>6, OpenEffect DEF Opens
    <3>2. \A f \in File : f # file[t] =>
             path[f] # i /\ (\A u \in Thread : fd[u][f] # i)
      BY <3>1 DEF FreeInodes
    <3>3. \A u \in Thread, f \in File :
             fd'[u][f] = IF u = t /\ f = file[t] THEN i ELSE fd[u][f]
      BY <3>1
    <3>4. \A f \in File : path'[f] = IF f = file[t] THEN i ELSE path[f]
      BY <3>1
    <3> QED
      BY <3>2, <3>3, <3>4
  <2> QED
    BY <2>1, <2>2, <2>3, <2>4, <2>5, <2>6 DEF Moves
<1>2. ASSUME NEW p \in Process, Crash(p) PROVE FilesApart'
  BY <1>2 DEF Crash
<1>3. CASE UNCHANGED vars
  BY <1>3 DEF vars, fsVars
<1> QED
  BY <1>1, <1>2, <1>3 DEF Next, ThreadStep

\* No step brings a thread to a flock without an open file.
LEMMA OpenedFirstStep ==
    ASSUME TypeOK, ControlOK, OpenedFirst, [Next]_vars
    PROVE  OpenedFirst'
<1> USE NoneAssumption DEF TypeOK, OpenedFirst
<1>1. ASSUME NEW t \in Thread, ThreadStep(t) PROVE OpenedFirst'
  <2>1. Moves(t)
    BY <1>1, StepMoves
  <2>2. ASSUME NEW u \in Thread, u # t, at'[u] = "flock" PROVE fd'[u][file'[u]] # None
    <3>1. at[u] = "flock" /\ file'[u] = file[u]
      BY <2>1, <2>2 DEF Moves
    <3>2. fd'[u] = fd[u]
      BY <2>1, <2>2 DEF Moves, Leaves, Closes, Unlinks, Locks, Opens, Open, Close, Unlink,
                        Flock, fsVars
    <3> QED
      BY <3>1, <3>2
  <2>3. ASSUME at'[t] = "flock" PROVE fd'[t][file'[t]] # None
    <3>1. Opens(t)
      BY <2>1, <2>3 DEF Moves, Leaves, Closes, Unlinks, Locks
    <3>2. file'[t] = file[t]
      BY <3>1 DEF Opens, Open, Goto
    <3>3. fd'[t][file[t]] # None
      BY <3>1 DEF Opens, Open, FreeInodes
    <3> QED
      BY <3>2, <3>3
  <2> QED
    BY <2>2, <2>3
<1>2. ASSUME NEW p \in Process, Crash(p) PROVE OpenedFirst'
  BY <1>2 DEF Crash
<1>3. CASE UNCHANGED vars
  BY <1>3 DEF vars, fsVars, threadVars
<1> QED
  BY <1>1, <1>2, <1>3 DEF Next, ThreadStep

\* A lock is only given up by the step of its holder that no longer needs it.
LEMMA LocksAreHeldStep ==
    ASSUME TypeOK, ControlOK, OpenedFirst, FilesApart, LocksAreHeld, [Next]_vars
    PROVE  LocksAreHeld'
<1> USE NoneAssumption DEF LocksAreHeld, HasLock
<1>1. ASSUME NEW t \in Thread, ThreadStep(t) PROVE LocksAreHeld'
  <2>1. Moves(t)
    BY <1>1, StepMoves
  <2>2. ASSUME NEW u \in Thread, u # t, NEW f \in File, NeedsLock(u, f)'
        PROVE  HasLock(u, f)'
    <3>1. HasLock(u, f)
      <4>1. op'[u] = op[u] /\ at'[u] = at[u] /\ file'[u] = file[u]
        BY <2>1, <2>2 DEF Moves, TypeOK
      <4> QED
        BY <2>2, <4>1 DEF NeedsLock, HoldsLease, Saving, Step
    <3>2. fd'[u] = fd[u]
      BY <2>1, <2>2 DEF Moves, Leaves, Closes, Unlinks, Locks, Opens, Open, Close, Unlink,
                        Flock, fsVars, TypeOK
    <3>3. flock'[fd[u][f]] = u
      BY <2>1, <2>2, <3>1 DEF Moves, Leaves, Closes, Unlinks, Locks, Opens, Open, Close,
                              Unlink, Flock, fsVars, TypeOK
    <3> QED
      BY <3>1, <3>2, <3>3
  <2>3. ASSUME NEW f \in File, NeedsLock(t, f)' PROVE HasLock(t, f)'
    <3>1. CASE Leaves(t)
      BY <2>3, <3>1 DEF Leaves, fsVars
    <3>2. CASE Closes(t)
      <4>1. HasLock(t, f) /\ f # file[t]
        BY <2>3, <3>2 DEF Closes
      <4>2. fd[t][f] # fd[t][file[t]]
        BY <4>1 DEF FilesApart, TypeOK
      <4> QED
        BY <3>2, <4>1, <4>2 DEF Closes, Close, TypeOK
    <3>3. CASE Unlinks(t)
      BY <2>3, <3>3 DEF Unlinks, Unlink
    <3>4. CASE Locks(t)
      <4>1. flock' = [flock EXCEPT ![fd[t][file[t]]] = t] /\ fd' = fd
        BY <3>4 DEF Locks, Flock
      <4>2. fd[t][file[t]] \in Inode
        BY <3>4 DEF Locks, Flock, OpenedFirst, TypeOK
      <4> QED
        BY <2>3, <3>4, <4>1, <4>2 DEF Locks, TypeOK
    <3>5. CASE Opens(t)
      <4>1. HasLock(t, f) /\ f # file[t]
        BY <2>3, <3>5 DEF Opens
      <4> QED
        BY <3>5, <4>1, OpenEffect DEF Opens, TypeOK
    <3> QED
      BY <2>1, <3>1, <3>2, <3>3, <3>4, <3>5 DEF Moves
  <2> QED
    BY <2>2, <2>3
<1>2. ASSUME NEW p \in Process, Crash(p) PROVE LocksAreHeld'
  <2> SUFFICES ASSUME NEW t \in Thread, NEW f \in File, NeedsLock(t, f)'
               PROVE  HasLock(t, f)'
    OBVIOUS
  <2>1. ProcessOf[t] # p
    BY <1>2 DEF Crash, NeedsLock, HoldsLease, Saving, Step
  <2>2. op'[t] = op[t] /\ at'[t] = at[t] /\ file'[t] = file[t] /\ fd'[t] = fd[t]
    BY <1>2, <2>1 DEF Crash
  <2>3. HasLock(t, f)
    BY <2>2 DEF NeedsLock, HoldsLease, Saving, Step
  <2> QED
    BY <1>2, <2>1, <2>2, <2>3 DEF Crash, TypeOK
<1>3. CASE UNCHANGED vars
  BY <1>3 DEF vars, fsVars, threadVars, NeedsLock, HoldsLease, Saving, Step
<1> QED
  BY <1>1, <1>2, <1>3 DEF Next, ThreadStep

\* Two holders of a lock that nobody has unlinked hold the same inode.
LEMMA HoldersMeet ==
    ASSUME TypeOK, HeldFilesAreLinked, ~retired,
           NEW t \in Thread, NEW u \in Thread, NEW f \in File,
           HasLock(t, f), ~Unlinked(t, f), HasLock(u, f), ~Unlinked(u, f)
    PROVE  t = u
BY DEF HeldFilesAreLinked, HasLock

\* No step unlinks a file that another thread holds the lock of.
LEMMA HeldFilesAreLinkedStep ==
    ASSUME LockInv, [Next]_vars
    PROVE  HeldFilesAreLinked'
<1> USE NoneAssumption DEF LockInv
<1>1. ASSUME NEW t \in Thread, ThreadStep(t), ~retired',
             NEW u \in Thread, NEW f \in File, HasLock(u, f)', ~Unlinked(u, f)'
      PROVE  path'[f] = fd'[u][f]
  <2>1. Moves(t)
    BY <1>1, StepMoves
  <2>2. ~retired
    BY <1>1, <2>1 DEF Moves, Leaves, Closes, Unlinks, Locks, Opens, Open, Close, Unlink,
                      Flock, fsVars
  <2>3. u # t => (Unlinked(u, f)' <=> Unlinked(u, f))
    BY <2>1 DEF Moves, Unlinked, TypeOK
  <2>4. CASE Leaves(t)
    <3>1. HasLock(u, f) /\ ~Unlinked(u, f)
      BY <1>1, <2>3, <2>4 DEF Leaves, fsVars, HasLock
    <3> QED
      BY <2>2, <2>4, <3>1 DEF Leaves, fsVars, HeldFilesAreLinked, HasLock
  <2>5. CASE Closes(t)
    <3>1. ~(u = t /\ f = file[t])
      BY <1>1, <2>5 DEF Closes, Close, HasLock, TypeOK
    <3>2. fd'[u][f] = fd[u][f] /\ path' = path
      BY <2>5, <3>1 DEF Closes, Close, TypeOK
    <3>3. HasLock(u, f)
      BY <1>1, <2>5, <3>2 DEF Closes, Close, HasLock, TypeOK
    <3>4. ~Unlinked(u, f)
      BY <1>1, <2>3, <3>1 DEF Unlinked
    <3> QED
      BY <2>2, <3>2, <3>3, <3>4 DEF HeldFilesAreLinked, HasLock
  <2>6. CASE Unlinks(t)
    <3>1. HasLock(u, f) /\ ~Unlinked(u, f)
      BY <1>1, <2>3, <2>6 DEF Unlinks, Unlink, HasLock
    <3>2. HasLock(t, file[t]) /\ ~Unlinked(t, file[t])
      BY <2>6 DEF Unlinks, LocksAreHeld, TypeOK
    <3>3. f # file[t]
      <4> SUFFICES ASSUME f = file[t] PROVE FALSE
        OBVIOUS
      <4>1. u = t
        BY <2>2, <3>1, <3>2, HoldersMeet
      <4> QED
        BY <1>1, <2>6, <4>1 DEF Unlinks
    <3> QED
      BY <2>2, <2>6, <3>1, <3>3 DEF Unlinks, Unlink, HeldFilesAreLinked, HasLock, TypeOK
  <2>7. CASE Locks(t)
    <3>1. path' = path /\ fd' = fd
      BY <2>7 DEF Locks, Flock
    <3>2. CASE u = t /\ f = file[t]
      BY <1>1, <2>7, <3>1, <3>2 DEF Locks, Flock
    <3>3. CASE ~(u = t /\ f = file[t])
      <4>1. fd[u][f] # fd[t][file[t]] \/ u # t
        BY <1>1, <3>1, <3>3 DEF FilesApart, HasLock, TypeOK
      <4>2. HasLock(u, f)
        BY <1>1, <2>7, <3>1, <4>1 DEF Locks, Flock, HasLock, TypeOK
      <4>3. ~Unlinked(u, f)
        BY <1>1, <2>3, <2>7 DEF Locks
      <4> QED
        BY <2>2, <3>1, <4>2, <4>3 DEF HeldFilesAreLinked, HasLock
    <3> QED
      BY <3>2, <3>3
  <2>8. CASE Opens(t)
    <3>1. PICK i \in Inode :
             /\ fd' = [fd EXCEPT ![t][file[t]] = i]
             /\ path' = [path EXCEPT ![file[t]] = i]
             /\ path[file[t]] = i \/ (path[file[t]] = None /\ i \in FreeInodes)
      BY <2>8, OpenEffect DEF Opens
    <3>2. flock' = flock
      BY <2>8, OpenEffect DEF Opens
    <3>3. CASE u = t /\ f = file[t]
      BY <3>1, <3>3 DEF TypeOK
    <3>4. CASE ~(u = t /\ f = file[t])
      <4>1. fd'[u][f] = fd[u][f]
        BY <3>1, <3>4 DEF TypeOK
      <4>2. HasLock(u, f) /\ ~Unlinked(u, f)
        BY <1>1, <2>3, <2>8, <3>2, <4>1 DEF Opens, HasLock
      <4>3. path[f] = fd[u][f]
        BY <2>2, <4>2 DEF HeldFilesAreLinked, HasLock
      <4>4. CASE f = file[t]
        BY <3>1, <4>1, <4>2, <4>3, <4>4 DEF FreeInodes, HasLock, TypeOK
      <4>5. CASE f # file[t]
        BY <3>1, <4>1, <4>3, <4>5 DEF TypeOK
      <4> QED
        BY <4>4, <4>5
    <3> QED
      BY <3>3, <3>4
  <2> QED
    BY <2>1, <2>4, <2>5, <2>6, <2>7, <2>8 DEF Moves
<1>2. ASSUME NEW p \in Process, Crash(p) PROVE HeldFilesAreLinked'
  <2> SUFFICES ASSUME ~retired', NEW t \in Thread, NEW f \in File,
                      HasLock(t, f)', ~Unlinked(t, f)'
               PROVE  path'[f] = fd'[t][f]
    BY DEF HeldFilesAreLinked, HasLock
  <2>1. ProcessOf[t] # p
    BY <1>2 DEF Crash, HasLock
  <2>2. op'[t] = op[t] /\ at'[t] = at[t] /\ file'[t] = file[t] /\ fd'[t] = fd[t]
    BY <1>2, <2>1 DEF Crash
  <2>3. HasLock(t, f) /\ ~Unlinked(t, f)
    BY <1>2, <2>2 DEF Crash, HasLock, Unlinked, TypeOK
  <2> QED
    BY <1>2, <2>2, <2>3 DEF Crash, HeldFilesAreLinked, HasLock
<1>3. CASE UNCHANGED vars
  BY <1>3 DEF vars, fsVars, threadVars, HeldFilesAreLinked, Unlinked
<1> QED
  BY <1>1, <1>2, <1>3 DEF Next, ThreadStep, HeldFilesAreLinked, HasLock

-----------------------------------------------------------------------------
(* The theorems. *)

\* The locks held are the locks needed, and their files are linked.
THEOREM LockInvHolds == Spec => []LockInv
<1>1. Init => LockInv
  <2> SUFFICES ASSUME Init PROVE LockInv
    OBVIOUS
  <2> USE DEF Init
  <2>1. TypeOK
    BY DEF TypeOK, Op, At, File
  <2>2. ControlOK /\ OpenedFirst
    BY DEF ControlOK, ControlAt, OpenedFirst
  <2>3. LocksAreHeld
    BY DEF LocksAreHeld, NeedsLock, HoldsLease, Saving, Step
  <2>4. FilesApart /\ HeldFilesAreLinked
    BY DEF FilesApart, HeldFilesAreLinked
  <2> QED
    BY <2>1, <2>2, <2>3, <2>4 DEF LockInv
<1>2. LockInv /\ [Next]_vars => LockInv'
  BY TypeStep, FilesApartStep, OpenedFirstStep, LocksAreHeldStep, HeldFilesAreLinkedStep
     DEF LockInv
<1> QED
  BY <1>1, <1>2, PTL DEF Spec

\* Every variable keeps its type.
THEOREM TypeCorrect == Spec => []TypeOK
<1>1. LockInv => TypeOK
  BY DEF LockInv
<1> QED
  BY <1>1, LockInvHolds, PTL

\* A held lock file is the one the next open finds (RemoveAndUnlock).
THEOREM HeldFilesAreLinkedHolds == Spec => []HeldFilesAreLinked
<1>1. LockInv => HeldFilesAreLinked
  BY DEF LockInv
<1> QED
  BY <1>1, LockInvHolds, PTL

\* Two holders of one file hold the inode its name is linked to: the same one.
LEMMA LockInvExcludes == LockInv => LocksExclude
<1> SUFFICES ASSUME LockInv, ~retired,
                    NEW t \in Thread, NEW u \in Thread
             PROVE  /\ HoldsLease(t) /\ HoldsLease(u) => t = u
                    /\ Saving(t) /\ Saving(u) => t = u
                    /\ Guards(t) /\ (HoldsLease(u) \/ Saving(u) \/ Guards(u)) => t = u
  BY DEF LocksExclude, LeaseExclusive, SaveExclusive, GuardExcludes
<1> USE DEF LockInv
<1>1. ASSUME NEW v \in Thread, HoldsLease(v)
      PROVE  HasLock(v, "lease") /\ ~Unlinked(v, "lease")
  BY <1>1 DEF LocksAreHeld, NeedsLock, HoldsLease, Unlinked, File
<1>2. ASSUME NEW v \in Thread, Saving(v)
      PROVE  HasLock(v, "save") /\ ~Unlinked(v, "save")
  BY <1>2 DEF LocksAreHeld, NeedsLock, Saving, Step, Unlinked, File
<1>3. ASSUME NEW v \in Thread, Guards(v)
      PROVE  /\ HasLock(v, "lease") /\ ~Unlinked(v, "lease")
             /\ HasLock(v, "save") /\ ~Unlinked(v, "save")
  BY <1>3 DEF LocksAreHeld, NeedsLock, Guards, Step, Unlinked, File
<1> QED
  BY <1>1, <1>2, <1>3, HoldersMeet DEF File

\* While no thread has locked a lock file that was unlinked between its open
\* and its flock, there is one lease holder, one saver, and a removal guard
\* is alone: for every number of processes and threads.
THEOREM LocksExcludeHolds == Spec => []LocksExclude
BY LockInvExcludes, LockInvHolds, PTL

-----------------------------------------------------------------------------
(* The owner registry and the info file. *)

\* The four steps of a thread that touch the registry; all others leave it.
LEMMA OwnerActions ==
    ASSUME NEW t \in Thread, ThreadStep(t)
    PROVE  \/ UNCHANGED owners
           \/ Reserve(t)
           \/ op[t] \in {"acquire", "release"} /\ owners' = WithoutOwner(t)
           \/ ReclaimOwner(t)
<1>1. CASE Open(t)
  BY <1>1 DEF Open
<1>2. CASE Lease(t)
  BY <1>2 DEF Lease, AcquireFlock, AcquireHeld, WriteInfo, Reclaim, ReclaimFlock, ReclaimHeld,
              Release, ReleaseInfo, ReleaseUnlock, ReleaseOwner, Drop, Step
<1>3. CASE Retire(t)
  BY <1>3 DEF Retire, RetireSkips, RetireStart, HeldByOther, ProbeFlock, ProbeInfo,
              ProbeUnlock, ProbeHeld, RetireUnlink, RetireUnlock, RetireHeld
<1>4. CASE Sweep(t)
  BY <1>4 DEF Sweep, Reconcile, SweepStat, SweepInfo, SweepBare, SweepEnds
<1>5. CASE Saver(t)
  BY <1>5 DEF Saver, Save, SaveFlock, SaveUnlock, SaveReturns
<1>6. CASE Remover(t)
  BY <1>6 DEF Remover, Guard, GuardFlock, GuardHeld, GuardRelease, GuardRemovesInfo,
              GuardUnlink, GuardUnlock
<1> QED
  BY <1>1, <1>2, <1>3, <1>4, <1>5, <1>6 DEF ThreadStep

\* No other thread removes or replaces the entry of a lease that is held: the
\* CompareAndDelete of a reservation or a release spares it, and a reclaim,
\* which overwrites, needs the lock first.
THEOREM HeldEntryStaysHolds == Spec => HeldEntryStays
<1>1. LockInv /\ [Next]_vars =>
        [\A t \in Thread :
          /\ ~retired
          /\ op[t] = "leased" /\ owners[ProcessOf[t]] = t
          => \/ owners'[ProcessOf[t]] = t
             \/ op'[t] = "idle"]_vars
  <2> SUFFICES ASSUME LockInv, [Next]_vars, ~retired,
                      NEW t \in Thread, op[t] = "leased", owners[ProcessOf[t]] = t
               PROVE  owners'[ProcessOf[t]] = t \/ op'[t] = "idle"
    OBVIOUS
  <2> USE NoneAssumption, ProcessAssumption
  <2>1. ASSUME NEW u \in Thread, ThreadStep(u) PROVE owners'[ProcessOf[t]] = t
    <3> USE DEF LockInv, TypeOK
    <3>1. CASE UNCHANGED owners
      BY <3>1
    <3>2. CASE Reserve(u)
      BY <3>2 DEF Reserve, HeldLocally
    <3>3. CASE op[u] \in {"acquire", "release"} /\ owners' = WithoutOwner(u)
      BY <3>3 DEF WithoutOwner
    <3>4. CASE ReclaimOwner(u)
      <4>1. HoldsLease(u) /\ HoldsLease(t)
        BY <3>4 DEF ReclaimOwner, Step, HoldsLease
      <4>2. u = t
        BY <4>1, LockInvExcludes DEF LocksExclude, LeaseExclusive
      <4> QED
        BY <3>4, <4>2 DEF ReclaimOwner, Step
    <3> QED
      BY <2>1, <3>1, <3>2, <3>3, <3>4, OwnerActions
  <2>2. ASSUME NEW p \in Process, Crash(p)
        PROVE  owners'[ProcessOf[t]] = t \/ op'[t] = "idle"
    BY <2>2 DEF Crash, LockInv, TypeOK
  <2>3. CASE UNCHANGED vars
    BY <2>3 DEF vars
  <2> QED
    BY <2>1, <2>2, <2>3 DEF Next, ThreadStep
<1> QED
  BY <1>1, LockInvHolds, PTL DEF Spec, HeldEntryStays

\* Where leases are never dropped, no failure path leaves an owner entry behind.
THEOREM EntriesAreUsedHolds ==
    ASSUME "drop" \notin Operation
    PROVE  Spec => []EntriesAreUsed
<1> USE NoneAssumption, ProcessAssumption
<1>1. Init => EntriesAreOwn
  BY DEF Init, EntriesAreOwn
<1>2. TypeOK /\ ControlOK /\ EntriesAreOwn /\ [Next]_vars => EntriesAreOwn'
  <2> SUFFICES ASSUME TypeOK, ControlOK, EntriesAreOwn, [Next]_vars,
                      NEW p \in Process, NEW t \in Thread, owners'[p] = t
               PROVE  /\ ProcessOf[t] = p
                      /\ \/ op'[t] \in {"acquire", "leased", "release"}
                         \/ Step(t, "reclaim", "locked")'
    BY DEF EntriesAreOwn
  <2> USE DEF TypeOK, EntriesAreOwn, Step
  <2>1. ASSUME NEW u \in Thread, ThreadStep(u), u # t
        PROVE  owners[p] = t /\ op'[t] = op[t] /\ at'[t] = at[t]
    <3>1. op'[t] = op[t] /\ at'[t] = at[t]
      BY <2>1, StepMoves DEF Moves
    <3>2. owners[p] = t
      BY <2>1, OwnerActions DEF Reserve, WithoutOwner, ReclaimOwner
    <3> QED
      BY <3>1, <3>2
  <2>2. ASSUME ThreadStep(t)
        PROVE  /\ ProcessOf[t] = p
               /\ \/ op'[t] \in {"acquire", "leased", "release"}
                  \/ Step(t, "reclaim", "locked")'
    <3> USE DEF Goto, Return
    <3>1. CASE Reserve(t)
      BY <3>1 DEF Reserve
    <3>2. CASE ReclaimOwner(t)
      BY <3>2 DEF ReclaimOwner
    <3>3. CASE AcquireHeld(t) \/ ReleaseOwner(t)
      BY <3>3 DEF AcquireHeld, ReleaseOwner, WithoutOwner
    <3>4. CASE Open(t) \/ AcquireFlock(t)
      BY <3>4 DEF Open, AcquireFlock
    <3>5. CASE WriteInfo(t)
      BY <3>5 DEF WriteInfo
    <3>6. CASE Reclaim(t) \/ ReclaimFlock(t) \/ ReclaimHeld(t) \/ Drop(t)
      BY <3>6 DEF Reclaim, ReclaimFlock, ReclaimHeld, FlockHeld, Drop
    <3>7. CASE Release(t) \/ ReleaseInfo(t) \/ ReleaseUnlock(t)
      BY <3>7 DEF Release, ReleaseInfo, ReleaseUnlock
    <3>8. CASE op[t] \notin {"acquire", "leased", "release", "reclaim"} /\ UNCHANGED owners
      BY <3>8
    <3>9. CASE Retire(t) \/ Sweep(t) \/ Saver(t) \/ Remover(t)
      <4>1. UNCHANGED owners
        BY <3>9, OwnerActions DEF ThreadStep, Retire, Sweep, Saver, Remover, RetireSkips,
           RetireStart, HeldByOther, ProbeFlock, ProbeInfo, ProbeUnlock, ProbeHeld,
           RetireUnlink, RetireUnlock, RetireHeld, Reconcile, SweepStat, SweepInfo, SweepBare,
           SweepEnds, Save, SaveFlock, SaveUnlock, SaveReturns, Guard, GuardFlock, GuardHeld,
           GuardRelease, GuardRemovesInfo, GuardUnlink, GuardUnlock
      <4>2. op[t] \notin {"acquire", "leased", "release", "reclaim"}
        BY <3>9 DEF Retire, Sweep, Saver, Remover, RetireSkips, RetireStart, HeldByOther,
           ProbeFlock, ProbeInfo, ProbeUnlock, ProbeHeld, RetireUnlink, RetireUnlock,
           RetireHeld, Reconcile, SweepStat, SweepInfo, SweepBare, SweepEnds, Save,
           SaveFlock, SaveUnlock, SaveReturns, Guard, GuardFlock, GuardHeld, GuardRelease,
           GuardRemovesInfo, GuardUnlink, GuardUnlock
      <4> QED
        BY <3>8, <4>1, <4>2
    <3> QED
      BY <2>2, <3>1, <3>2, <3>3, <3>4, <3>5, <3>6, <3>7, <3>9 DEF ThreadStep, Lease
  <2>3. ASSUME NEW q \in Process, Crash(q)
        PROVE  owners[p] = t /\ op'[t] = op[t] /\ at'[t] = at[t]
    BY <2>3 DEF Crash
  <2>4. CASE UNCHANGED vars
    BY <2>4 DEF vars, threadVars
  <2> QED
    BY <2>1, <2>2, <2>3, <2>4 DEF Next, ThreadStep
<1>3. LockInv => TypeOK /\ ControlOK
  BY DEF LockInv
<1>4. EntriesAreOwn => EntriesAreUsed
  BY DEF EntriesAreOwn, EntriesAreUsed, Step
<1> QED
  BY <1>1, <1>2, <1>3, <1>4, LockInvHolds, PTL DEF Spec

\* The info file is written by who has just got the lock, and removed by who
\* holds the lease lock without having a lease, or by a sweep without the lock.
LEMMA InfoActions ==
    ASSUME ControlOK, NEW t \in Thread, ThreadStep(t)
    PROVE  \/ UNCHANGED info
           \/ HoldsLease(t) /\ op[t] # "leased" /\ info' = ProcessOf[t]
           \/ NeedsLock(t, "lease") /\ op[t] # "leased" /\ ~Unlinked(t, "lease")
           \/ op[t] = "sweep"
<1> USE DEF Step
<1>0. ControlAt(t)
  BY DEF ControlOK
<1>1. CASE Open(t)
  BY <1>1 DEF Open
<1>2. CASE Lease(t)
  BY <1>2 DEF Lease, Reserve, AcquireFlock, AcquireHeld, WriteInfo, Reclaim, ReclaimFlock,
              ReclaimOwner, ReclaimHeld, Release, ReleaseInfo, ReleaseUnlock, ReleaseOwner,
              Drop, HoldsLease, NeedsLock, Unlinked
<1>3. CASE ProbeInfo(t)
  BY <1>0, <1>3 DEF ControlAt, ProbeInfo, NeedsLock, Unlinked
<1>4. CASE Retire(t) /\ ~ProbeInfo(t)
  BY <1>4 DEF Retire, RetireSkips, RetireStart, HeldByOther, ProbeFlock,
              ProbeUnlock, ProbeHeld, RetireUnlink, RetireUnlock, RetireHeld
<1>5. CASE Sweep(t)
  BY <1>5 DEF Sweep, Reconcile, SweepStat, SweepInfo, SweepBare, SweepEnds
<1>6. CASE Saver(t)
  BY <1>6 DEF Saver, Save, SaveFlock, SaveUnlock, SaveReturns
<1>7. CASE Remover(t)
  BY <1>0, <1>7 DEF ControlAt, Remover, Guard, GuardFlock, GuardHeld, GuardRelease, GuardRemovesInfo,
              GuardUnlink, GuardUnlock, NeedsLock, Unlinked
<1> QED
  BY <1>1, <1>2, <1>3, <1>4, <1>5, <1>6, <1>7 DEF ThreadStep

\* A lease is handed out only with its info written, by a step of its thread.
LEMMA LeasedByWriteInfo ==
    ASSUME TypeOK, ControlOK, NEW t \in Thread, ThreadStep(t), op'[t] = "leased"
    PROVE  info' = ProcessOf[t]
<1> USE DEF TypeOK, Goto, Return, Step
<1>1. CASE Open(t)
  BY <1>1 DEF Open, ControlOK, ControlAt
<1>2. CASE Lease(t)
  <2>1. CASE WriteInfo(t)
    BY <2>1 DEF WriteInfo
  <2>2. CASE Reserve(t) \/ AcquireFlock(t) \/ AcquireHeld(t)
    BY <2>2 DEF Reserve, AcquireFlock, AcquireHeld
  <2>3. CASE Reclaim(t) \/ ReclaimFlock(t) \/ ReclaimOwner(t) \/ ReclaimHeld(t)
    BY <2>3 DEF Reclaim, ReclaimFlock, ReclaimOwner, ReclaimHeld
  <2>4. CASE Release(t) \/ ReleaseInfo(t) \/ ReleaseUnlock(t) \/ ReleaseOwner(t) \/ Drop(t)
    BY <2>4 DEF Release, ReleaseInfo, ReleaseUnlock, ReleaseOwner, Drop
  <2> QED
    BY <1>2, <2>1, <2>2, <2>3, <2>4 DEF Lease
<1>3. CASE Retire(t)
  <2>1. CASE RetireSkips(t) \/ RetireStart(t) \/ HeldByOther(t)
    BY <2>1 DEF RetireSkips, RetireStart, HeldByOther, AfterRetire
  <2>2. CASE ProbeFlock(t) \/ ProbeInfo(t) \/ ProbeUnlock(t) \/ ProbeHeld(t)
    BY <2>2 DEF ProbeFlock, ProbeInfo, ProbeUnlock, ProbeHeld
  <2>3. CASE RetireUnlink(t) \/ RetireUnlock(t) \/ RetireHeld(t)
    BY <2>3 DEF RetireUnlink, RetireUnlock, RetireHeld, AfterRetire
  <2> QED
    BY <1>3, <2>1, <2>2, <2>3 DEF Retire
<1>4. CASE Sweep(t)
  BY <1>4 DEF Sweep, Reconcile, SweepStat, SweepInfo, SweepBare, SweepEnds
<1>5. CASE Saver(t)
  BY <1>5 DEF Saver, Save, SaveFlock, SaveUnlock, SaveReturns
<1>6. CASE Remover(t)
  BY <1>6 DEF Remover, Guard, GuardFlock, GuardHeld, GuardRelease, GuardRemovesInfo,
              GuardUnlink, GuardUnlock
<1> QED
  BY <1>1, <1>2, <1>3, <1>4, <1>5, <1>6 DEF ThreadStep

NoSweep == \A t \in Thread : op[t] # "sweep"

\* Where no sweep runs beside it, a lease that is held is named by the info
\* file: releases, probes and removals clear the info only under the lock.
THEOREM HolderIsNamedHolds ==
    ASSUME "sweep" \notin Operation
    PROVE  Spec => []HolderIsNamed
<1> USE NoneAssumption, ProcessAssumption
<1>1. Init => NoSweep /\ HolderIsNamed
  BY DEF Init, NoSweep, HolderIsNamed
<1>2. LockInv /\ NoSweep /\ [Next]_vars => NoSweep'
  <2> SUFFICES ASSUME LockInv, NoSweep, [Next]_vars PROVE NoSweep'
    OBVIOUS
  <2> USE DEF NoSweep, Step, Goto, Return
  <2>0. op \in [Thread -> Op] /\ "sweep" \notin Operation
    BY DEF LockInv, TypeOK
  <2>1. ASSUME NEW t \in Thread, Open(t) PROVE NoSweep'
    BY <2>0, <2>1 DEF Open
  <2>2. ASSUME NEW t \in Thread, Lease(t) PROVE NoSweep'
    BY <2>0, <2>2 DEF Lease, Reserve, AcquireFlock, AcquireHeld, WriteInfo, Reclaim,
       ReclaimFlock, ReclaimOwner, ReclaimHeld, Release, ReleaseInfo, ReleaseUnlock,
       ReleaseOwner, Drop
  <2>3. ASSUME NEW t \in Thread, Retire(t) PROVE NoSweep'
    BY <2>0, <2>3 DEF Retire, RetireSkips, RetireStart, HeldByOther, ProbeFlock, ProbeInfo,
       AfterRetire, ProbeUnlock, ProbeHeld, RetireUnlink, RetireUnlock, RetireHeld
  <2>4. ASSUME NEW t \in Thread, Sweep(t) PROVE FALSE
    BY <2>0, <2>4 DEF Sweep, Reconcile, SweepStat, SweepInfo, SweepBare, SweepEnds
  <2>5. ASSUME NEW t \in Thread, Saver(t) PROVE NoSweep'
    BY <2>0, <2>5 DEF Saver, Save, SaveFlock, SaveUnlock, SaveReturns
  <2>6. ASSUME NEW t \in Thread, Remover(t) PROVE NoSweep'
    BY <2>0, <2>6 DEF Remover, Guard, GuardFlock, GuardHeld, GuardRelease,
       GuardRemovesInfo, GuardUnlink, GuardUnlock
  <2>7. ASSUME NEW p \in Process, Crash(p) PROVE NoSweep'
    BY <2>7 DEF Crash
  <2>8. CASE UNCHANGED vars
    BY <2>8 DEF vars, threadVars
  <2> QED
    BY <2>1, <2>2, <2>3, <2>4, <2>5, <2>6, <2>7, <2>8 DEF Next
<1>3. LockInv /\ NoSweep /\ HolderIsNamed /\ [Next]_vars => HolderIsNamed'
  <2> SUFFICES ASSUME LockInv, NoSweep, HolderIsNamed, [Next]_vars,
                      ~retired', NEW t \in Thread, op'[t] = "leased"
               PROVE  info' = ProcessOf[t]
    BY DEF HolderIsNamed
  <2>1. ASSUME NEW u \in Thread, ThreadStep(u) PROVE info' = ProcessOf[t]
    <3>1. CASE u = t
      BY <2>1, <3>1, LeasedByWriteInfo DEF LockInv
    <3>2. CASE u # t
      <4>1. Moves(u)
        BY <2>1, StepMoves DEF LockInv
      <4>2. op[t] = "leased"
        BY <3>2, <4>1 DEF Moves, LockInv, TypeOK
      <4>3. ~retired
        BY <4>1 DEF Moves, Leaves, Closes, Unlinks, Locks, Opens, Open, Close, Unlink,
                    Flock, fsVars
      <4>4. info = ProcessOf[t]
        BY <4>2, <4>3 DEF HolderIsNamed
      <4>5. HasLock(t, "lease") /\ ~Unlinked(t, "lease")
        BY <4>2 DEF LockInv, LocksAreHeld, NeedsLock, HoldsLease, Unlinked, File
      <4>6. ~(NeedsLock(u, "lease") /\ ~Unlinked(u, "lease"))
        BY <3>2, <4>3, <4>5, HoldersMeet DEF LockInv, LocksAreHeld, File
      <4>7. ~HoldsLease(u)
        BY <4>6 DEF NeedsLock, HoldsLease, Unlinked
      <4> QED
        BY <2>1, <4>4, <4>6, <4>7, InfoActions DEF NoSweep, LockInv
    <3> QED
      BY <3>1, <3>2
  <2>2. ASSUME NEW p \in Process, Crash(p) PROVE info' = ProcessOf[t]
    <3>1. ProcessOf[t] # p /\ op[t] = "leased" /\ ~retired
      BY <2>2 DEF Crash
    <3> QED
      BY <2>2, <3>1 DEF Crash, HolderIsNamed
  <2>3. CASE UNCHANGED vars
    BY <2>3 DEF vars, threadVars, fsVars, HolderIsNamed
  <2> QED
    BY <2>1, <2>2, <2>3 DEF Next, ThreadStep
<1> QED
  BY <1>1, <1>2, <1>3, LockInvHolds, PTL DEF Spec

-----------------------------------------------------------------------------
(***************************************************************************)
(* The lock files implement the guarded session file.                      *)
(***************************************************************************)

\* A thread comes in by a flock that succeeds, and by no other step.
Enters(t) ==
    /\ HoldsLease(t)' => HoldsLease(t) \/ (op[t] \in {"acquire", "reclaim"} /\ at[t] = "flock")
    /\ Saving(t)' => Saving(t) \/ (op[t] = "save" /\ at[t] = "flock")
    /\ Guards(t)' => Guards(t) \/ (op[t] = "guard" /\ at[t] = "flock")

LEMMA EntersByFlock ==
    ASSUME TypeOK, ControlOK, NEW t \in Thread, ThreadStep(t)
    PROVE  Enters(t)
<1> USE DEF TypeOK, Enters, HoldsLease, Saving, Guards, Step, Goto, Return, AfterRetire, Flock
<1>0. ControlAt(t)
  BY DEF ControlOK
<1>1. CASE Open(t)
  BY <1>1 DEF Open
<1>2. CASE Lease(t)
  <2>1. CASE Reserve(t)
    BY <1>0, <2>1 DEF Reserve, ControlAt
  <2>2. CASE AcquireFlock(t)
    BY <1>0, <2>2 DEF AcquireFlock, ControlAt
  <2>3. CASE AcquireHeld(t)
    BY <1>0, <2>3 DEF AcquireHeld, ControlAt
  <2>4. CASE WriteInfo(t)
    BY <1>0, <2>4 DEF WriteInfo, ControlAt
  <2>5. CASE Reclaim(t)
    BY <1>0, <2>5 DEF Reclaim, ControlAt
  <2>6. CASE ReclaimFlock(t)
    BY <1>0, <2>6 DEF ReclaimFlock, ControlAt
  <2>7. CASE ReclaimOwner(t)
    BY <1>0, <2>7 DEF ReclaimOwner, ControlAt
  <2>8. CASE ReclaimHeld(t)
    BY <1>0, <2>8 DEF ReclaimHeld, ControlAt
  <2>9. CASE Release(t)
    BY <1>0, <2>9 DEF Release, ControlAt
  <2>10. CASE ReleaseInfo(t)
    BY <1>0, <2>10 DEF ReleaseInfo, ControlAt
  <2>11. CASE ReleaseUnlock(t)
    BY <1>0, <2>11 DEF ReleaseUnlock, ControlAt
  <2>12. CASE ReleaseOwner(t)
    BY <1>0, <2>12 DEF ReleaseOwner, ControlAt
  <2>13. CASE Drop(t)
    BY <1>0, <2>13 DEF Drop, ControlAt
  <2> QED
    BY <1>2, <2>1, <2>2, <2>3, <2>4, <2>5, <2>6, <2>7, <2>8, <2>9, <2>10, <2>11, <2>12, <2>13 DEF Lease
<1>3. CASE Retire(t)
  <2>1. CASE RetireSkips(t)
    BY <1>0, <2>1 DEF RetireSkips, ControlAt
  <2>2. CASE RetireStart(t)
    BY <1>0, <2>2 DEF RetireStart, ControlAt
  <2>3. CASE HeldByOther(t)
    BY <1>0, <2>3 DEF HeldByOther, ControlAt
  <2>4. CASE ProbeFlock(t)
    BY <1>0, <2>4 DEF ProbeFlock, ControlAt
  <2>5. CASE ProbeInfo(t)
    BY <1>0, <2>5 DEF ProbeInfo, ControlAt
  <2>6. CASE ProbeUnlock(t)
    BY <1>0, <2>6 DEF ProbeUnlock, ControlAt
  <2>7. CASE ProbeHeld(t)
    BY <1>0, <2>7 DEF ProbeHeld, ControlAt
  <2>8. CASE RetireUnlink(t)
    BY <1>0, <2>8 DEF RetireUnlink, ControlAt
  <2>9. CASE RetireUnlock(t)
    BY <1>0, <2>9 DEF RetireUnlock, ControlAt
  <2>10. CASE RetireHeld(t)
    BY <1>0, <2>10 DEF RetireHeld, ControlAt
  <2> QED
    BY <1>3, <2>1, <2>2, <2>3, <2>4, <2>5, <2>6, <2>7, <2>8, <2>9, <2>10 DEF Retire
<1>4. CASE Sweep(t)
  <2>1. CASE Reconcile(t)
    BY <1>0, <2>1 DEF Reconcile, ControlAt
  <2>2. CASE SweepStat(t)
    BY <1>0, <2>2 DEF SweepStat, ControlAt
  <2>3. CASE SweepInfo(t)
    BY <1>0, <2>3 DEF SweepInfo, ControlAt
  <2>4. CASE SweepBare(t)
    BY <1>0, <2>4 DEF SweepBare, ControlAt
  <2>5. CASE SweepEnds(t)
    BY <1>0, <2>5 DEF SweepEnds, ControlAt
  <2> QED
    BY <1>4, <2>1, <2>2, <2>3, <2>4, <2>5 DEF Sweep
<1>5. CASE Saver(t)
  <2>1. CASE Save(t)
    BY <1>0, <2>1 DEF Save, ControlAt
  <2>2. CASE SaveFlock(t)
    BY <1>0, <2>2 DEF SaveFlock, ControlAt
  <2>3. CASE SaveUnlock(t)
    BY <1>0, <2>3 DEF SaveUnlock, ControlAt
  <2>4. CASE SaveReturns(t)
    BY <1>0, <2>4 DEF SaveReturns, ControlAt
  <2> QED
    BY <1>5, <2>1, <2>2, <2>3, <2>4 DEF Saver
<1>6. CASE Remover(t)
  <2>1. CASE Guard(t)
    BY <1>0, <2>1 DEF Guard, ControlAt
  <2>2. CASE GuardFlock(t)
    BY <1>0, <2>2 DEF GuardFlock, ControlAt
  <2>3. CASE GuardHeld(t)
    BY <1>0, <2>3 DEF GuardHeld, ControlAt
  <2>4. CASE GuardRelease(t)
    BY <1>0, <2>4 DEF GuardRelease, ControlAt
  <2>5. CASE GuardRemovesInfo(t)
    BY <1>0, <2>5 DEF GuardRemovesInfo, ControlAt
  <2>6. CASE GuardUnlink(t)
    BY <1>0, <2>6 DEF GuardUnlink, ControlAt
  <2>7. CASE GuardUnlock(t)
    BY <1>0, <2>7 DEF GuardUnlock, ControlAt
  <2> QED
    BY <1>6, <2>1, <2>2, <2>3, <2>4, <2>5, <2>6, <2>7 DEF Remover
<1> QED
  BY <1>1, <1>2, <1>3, <1>4, <1>5, <1>6 DEF ThreadStep

\* A step of one thread is one of its entering, or of its leaving; a crash is one
\* of leaving; a flock of a file that lost its name is where it all goes stray.
LEMMA GuardStep ==
    ASSUME LockInv, LockInv', [Next]_vars
    PROVE  [Guarded!Next]_(Guarded!vars)
<1> USE DEF Guarded!Next, Guarded!vars, Guarded!Hold, Guarded!Save, Guarded!Remove,
            Guarded!Leave, Guarded!GoStray
<1>1. CASE retired'
  <2>1. Guarded!GoStray
    BY <1>1
  <2> QED
    BY <2>1
<1>2. CASE ~retired'
  <2>1. LocksExclude /\ LocksExclude'
    BY LockInvExcludes, PTL
  <2>2. ASSUME NEW t \in Thread, ThreadStep(t) PROVE Guarded!Next
    <3>1. Moves(t)
      BY <2>2, StepMoves DEF LockInv
    <3>2. ~retired
      BY <1>2, <3>1 DEF Moves, Leaves, Closes, Unlinks, Locks, Opens, Open, Close, Unlink,
                        Flock, fsVars
    <3>3. \A u \in Thread : u # t => op'[u] = op[u] /\ at'[u] = at[u] /\ file'[u] = file[u]
      BY <3>1 DEF Moves, LockInv, TypeOK
    <3>4. \A u \in Thread : u # t => /\ HoldsLease(u)' <=> HoldsLease(u)
                                     /\ Saving(u)' <=> Saving(u)
                                     /\ Guards(u)' <=> Guards(u)
      BY <3>3 DEF HoldsLease, Saving, Guards, Step
    <3>5. retired' = retired
      BY <1>2, <3>2 DEF LockInv, TypeOK
    <3>6. Enters(t)
      BY <2>2, EntersByFlock DEF LockInv
    <3>7. CASE HoldsLease(t)' /\ ~HoldsLease(t)
      <4>1. /\ ~Saving(t) /\ ~Guards(t) /\ ~Saving(t)' /\ ~Guards(t)'
        BY <3>6, <3>7 DEF Enters, HoldsLease, Saving, Guards, Step
      <4>2. \A u \in Thread : ~HoldsLease(u) /\ ~Guards(u)
        BY <1>2, <2>1, <3>4, <3>7, <4>1 DEF LocksExclude, LeaseExclusive, GuardExcludes
      <4>3. Guarded!Hold(t)
        BY <3>4, <3>5, <3>7, <4>1, <4>2
      <4> QED
        BY <4>3
    <3>8. CASE Saving(t)' /\ ~Saving(t)
      <4>1. /\ ~HoldsLease(t) /\ ~Guards(t) /\ ~HoldsLease(t)' /\ ~Guards(t)'
        BY <3>6, <3>8 DEF Enters, HoldsLease, Saving, Guards, Step
      <4>2. \A u \in Thread : ~Saving(u) /\ ~Guards(u)
        BY <1>2, <2>1, <3>4, <3>8, <4>1 DEF LocksExclude, SaveExclusive, GuardExcludes
      <4>3. Guarded!Save(t)
        BY <3>4, <3>5, <3>8, <4>1, <4>2
      <4> QED
        BY <4>3
    <3>9. CASE Guards(t)' /\ ~Guards(t)
      <4>1. /\ ~HoldsLease(t) /\ ~Saving(t) /\ ~HoldsLease(t)' /\ ~Saving(t)'
        BY <3>6, <3>9 DEF Enters, HoldsLease, Saving, Guards, Step
      <4>2. \A u \in Thread : ~HoldsLease(u) /\ ~Saving(u) /\ ~Guards(u)
        BY <1>2, <2>1, <3>4, <3>9, <4>1 DEF LocksExclude, GuardExcludes
      <4>3. Guarded!Remove(t)
        BY <3>4, <3>5, <3>9, <4>1, <4>2
      <4> QED
        BY <4>3
    <3>10. CASE /\ HoldsLease(t)' => HoldsLease(t)
                /\ Saving(t)' => Saving(t)
                /\ Guards(t)' => Guards(t)
      <4>1. Guarded!Leave
        BY <3>4, <3>5, <3>10
      <4> QED
        BY <4>1
    <3> QED
      BY <3>7, <3>8, <3>9, <3>10
  <2>3. ASSUME NEW p \in Process, Crash(p) PROVE Guarded!Next
    <3>1. \A t \in Thread : /\ HoldsLease(t)' => HoldsLease(t)
                            /\ Saving(t)' => Saving(t)
                            /\ Guards(t)' => Guards(t)
      BY <2>3 DEF Crash, HoldsLease, Saving, Guards, Step
    <3>2. Guarded!Leave
      BY <2>3, <3>1 DEF Crash
    <3> QED
      BY <3>2
  <2>4. CASE UNCHANGED vars
    BY <2>4 DEF vars, threadVars, fsVars, HoldsLease, Saving, Guards, Step
  <2> QED
    BY <2>2, <2>3, <2>4 DEF Next, ThreadStep
<1> QED
  BY <1>1, <1>2

\* The lock files are as good as the locks they stand for, for every number of
\* processes, threads and inodes: each entry finds free what excludes it.
THEOREM LocksGuardHolds == Spec => LocksGuard
<1>1. Init => Guarded!Init
  BY DEF Init, Guarded!Init, HoldsLease, Saving, Guards, Step
<1>2. LockInv /\ LockInv' /\ [Next]_vars => [Guarded!Next]_(Guarded!vars)
  BY GuardStep
<1> QED
  BY <1>1, <1>2, LockInvHolds, PTL DEF Spec, LocksGuard, Guarded!Spec

=============================================================================
