---------------------------- MODULE SessionLease ----------------------------
(***************************************************************************)
(* Who may write a session file: the session lease, the save lock and the  *)
(* removal guard of internal/agent, for one session path shared by several *)
(* processes, each with several threads (goroutines).                      *)
(*                                                                         *)
(* Both locks are flock(2) locks on sidecar files that are created by the  *)
(* open and unlinked by whoever retires them, so a lock belongs to an      *)
(* inode and not to a name: opening a file and locking what was opened are *)
(* two steps here, as they are two system calls in session_lock_unix.go.   *)
(***************************************************************************)
EXTENDS FiniteSets

CONSTANTS
    Process,     \* the processes that have the session directory open
    Thread,      \* the goroutines that work on the session, in all processes
    ProcessOf,   \* [Thread -> Process]
    Inode,       \* the inodes the file system has to offer, enough for every
                 \* thread to keep the files of its operation open
    Operation,   \* bound: the operations threads start in this instance
    Dead,        \* the process named by an info file whose writer has crashed
    None         \* no inode, no thread, no process

ASSUME ProcessAssumption == ProcessOf \in [Thread -> Process]
ASSUME NoneAssumption ==
    /\ None \notin Process \cup Thread \cup Inode
    /\ Dead \notin Process \cup {None}

\* The lock files <session>.lease.lock and <session>.lock.
File == {"lease", "save"}

(***************************************************************************)
(* The operation a thread is in and the step it takes next: "open" and     *)
(* "flock" are the two calls that lock file[t], "locked" follows them.     *)
(***************************************************************************)
Op == {"idle", "acquire", "reclaim", "leased", "release", "retire", "probe",
       "sweep", "save", "guard", "abort", "clean"}
At == {"start", "open", "flock", "locked", "info", "unlock", "owner", "stat", "bare"}

VARIABLES
    op,        \* the operation of each thread
    at,        \* its next step
    file,      \* the file it is working on
    fd,        \* the inode each thread has open for each file
    path,      \* the inode each file name is linked to
    flock,     \* the thread that holds the lock of each inode
    info,      \* the process named by <session>.lease.json
    owners,    \* sessionLeaseOwners of each process: the thread whose lease it is
    saveMutex, \* the in-process save mutex (lockSessionSavePath)
    retired    \* history: some thread has locked an inode its name had lost

threadVars == <<op, at, file>>
fsVars     == <<fd, path, flock, retired>>
vars       == <<threadVars, fsVars, info, owners, saveMutex>>

Init ==
    /\ op = [t \in Thread |-> "idle"]
    /\ at = [t \in Thread |-> "start"]
    /\ file = [t \in Thread |-> "lease"]
    /\ fd = [t \in Thread |-> [f \in File |-> None]]
    /\ path = [f \in File |-> None]
    /\ flock = [i \in Inode |-> None]
    /\ info = None
    /\ owners = [p \in Process |-> None]
    /\ saveMutex = [p \in Process |-> None]
    /\ retired = FALSE

-----------------------------------------------------------------------------
(* Helpers. *)

Step(t, o, a) == op[t] = o /\ at[t] = a

\* Thread t is next at step a of operation o, working on file f.
Goto(t, o, a, f) ==
    /\ op' = [op EXCEPT ![t] = o]
    /\ at' = [at EXCEPT ![t] = a]
    /\ file' = [file EXCEPT ![t] = f]

Return(t) == Goto(t, "idle", "start", "lease")

\* sessionLeaseHeldLocally.
HeldLocally(t) == owners[ProcessOf[t]] # None

\* The info file names another runtime, live or crashed.
ForeignInfo(t) == info \notin {None, ProcessOf[t]}

\* An inode nobody has open and no name is linked to.
FreeInodes == {i \in Inode : /\ \A f \in File : path[f] # i
                             /\ \A t \in Thread, f \in File : fd[t][f] # i}

\* Close file f of t, which gives up the lock its descriptor holds.
Close(t, f) ==
    /\ fd' = [fd EXCEPT ![t][f] = None]
    /\ flock' = [i \in Inode |-> IF i = fd[t][f] /\ flock[i] = t THEN None ELSE flock[i]]
    /\ UNCHANGED retired

\* os.Remove goes by name, whatever inode the name is linked to by now.
Unlink(f) ==
    /\ path' = [path EXCEPT ![f] = None]
    /\ UNCHANGED <<fd, flock, retired>>

RemoveInfo == info' = None

-----------------------------------------------------------------------------
(* The two system calls of every lock function. *)

\* os.OpenFile(O_CREATE): the linked inode, or a new one.
Open(t) ==
    LET f == file[t]
    IN  /\ at[t] = "open"
        /\ IF path[f] # None
           THEN /\ fd' = [fd EXCEPT ![t][f] = path[f]]
                /\ UNCHANGED path
           ELSE \E i \in FreeInodes : /\ fd' = [fd EXCEPT ![t][f] = i]
                                      /\ path' = [path EXCEPT ![f] = i]
        /\ Goto(t, op[t], "flock", f)
        /\ UNCHANGED <<flock, retired, info, owners, saveMutex>>

\* The lock of the open inode is free, or somebody holds it. Nothing compares
\* that inode with the one the name is linked to by now.
Flock(t) ==
    LET f == file[t]
        i == fd[t][f]
    IN  /\ at[t] = "flock"
        /\ flock[i] = None
        /\ flock' = [flock EXCEPT ![i] = t]
        /\ retired' = (retired \/ path[f] # i)
        /\ UNCHANGED <<fd, path>>

FlockHeld(t) == at[t] = "flock" /\ flock[fd[t][file[t]]] # None

-----------------------------------------------------------------------------
(* TryAcquireSessionLease. *)

\* LoadOrStore of the owner entry: the thread stands for its lease's unique id.
Reserve(t) ==
    /\ "acquire" \in Operation
    /\ op[t] = "idle"
    /\ ~HeldLocally(t)
    /\ owners' = [owners EXCEPT ![ProcessOf[t]] = t]
    /\ Goto(t, "acquire", "open", "lease")
    /\ UNCHANGED <<fsVars, info, saveMutex>>

AcquireFlock(t) ==
    /\ op[t] = "acquire"
    /\ Flock(t)
    /\ Goto(t, "acquire", "locked", "lease")
    /\ UNCHANGED <<info, owners, saveMutex>>

\* Mutant: Delete for CompareAndDelete.
DeleteOwner(t) == [owners EXCEPT ![ProcessOf[t]] = None]

\* CompareAndDelete removes an owner entry only while it is still t's own.
WithoutOwner(t) == [owners EXCEPT ![ProcessOf[t]] = IF @ = t THEN None ELSE @]

\* Mutant: the refused acquire leaves its reservation behind.
AcquireHeldKeeps(t) ==
    /\ op[t] = "acquire"
    /\ FlockHeld(t)
    /\ Close(t, "lease")
    /\ Return(t)
    /\ UNCHANGED <<path, info, owners, saveMutex>>

\* Somebody holds the lock: the reservation is taken back.
AcquireHeld(t) ==
    /\ op[t] = "acquire"
    /\ FlockHeld(t)
    /\ Close(t, "lease")
    /\ owners' = WithoutOwner(t)
    /\ Return(t)
    /\ UNCHANGED <<path, info, saveMutex>>

\* Mutant: the lease is handed out although its info could not be written.
WriteInfoIgnored(t) ==
    /\ op[t] \in {"acquire", "reclaim"} /\ at[t] = "locked"
    /\ info' \in {info, ProcessOf[t]}
    /\ Goto(t, "leased", "start", "lease")
    /\ UNCHANGED <<fsVars, owners, saveMutex>>

\* SaveSessionLeaseInfo succeeds and the lease is handed out, or it fails and
\* the lease is released.
WriteInfo(t) ==
    /\ op[t] \in {"acquire", "reclaim"} /\ at[t] = "locked"
    /\ \/ /\ info' = ProcessOf[t]
          /\ Goto(t, "leased", "start", "lease")
       \/ /\ UNCHANGED info
          /\ Goto(t, "release", "info", "lease")
    /\ UNCHANGED <<fsVars, owners, saveMutex>>

-----------------------------------------------------------------------------
(* TryReclaimCurrentProcessSessionLease. *)

\* A readable info of another runtime is respected; a missing one, or this
\* process's own, leaves the decision to the lock.
Reclaim(t) ==
    /\ "reclaim" \in Operation
    /\ op[t] = "idle"
    /\ ~ForeignInfo(t)
    /\ Goto(t, "reclaim", "open", "lease")
    /\ UNCHANGED <<fsVars, info, owners, saveMutex>>

ReclaimFlock(t) ==
    /\ op[t] = "reclaim" /\ at[t] = "flock"
    /\ Flock(t)
    /\ Goto(t, "reclaim", "owner", "lease")
    /\ UNCHANGED <<info, owners, saveMutex>>

\* The lock is held: the owner entry is stored over whatever is there.
ReclaimOwner(t) ==
    /\ Step(t, "reclaim", "owner")
    /\ owners' = [owners EXCEPT ![ProcessOf[t]] = t]
    /\ Goto(t, "reclaim", "locked", "lease")
    /\ UNCHANGED <<fsVars, info, saveMutex>>

ReclaimHeld(t) ==
    /\ op[t] = "reclaim"
    /\ FlockHeld(t)
    /\ Close(t, "lease")
    /\ Return(t)
    /\ UNCHANGED <<path, info, owners, saveMutex>>

-----------------------------------------------------------------------------
(* SessionLease.Release: the info, the lock, the owner entry, and then the  *)
(* two lock files are retired. A lease may also be dropped without Release. *)

Release(t) ==
    /\ op[t] = "leased"
    /\ Goto(t, "release", "info", "lease")
    /\ UNCHANGED <<fsVars, info, owners, saveMutex>>

ReleaseInfo(t) ==
    /\ Step(t, "release", "info")
    /\ RemoveInfo
    /\ Goto(t, "release", "unlock", "lease")
    /\ UNCHANGED <<fsVars, owners, saveMutex>>

ReleaseUnlock(t) ==
    /\ Step(t, "release", "unlock")
    /\ Close(t, "lease")
    /\ Goto(t, "release", "owner", "lease")
    /\ UNCHANGED <<path, info, owners, saveMutex>>

ReleaseOwner(t) ==
    /\ Step(t, "release", "owner")
    /\ owners' = WithoutOwner(t)
    /\ Goto(t, "retire", "start", "lease")
    /\ UNCHANGED <<fsVars, info, saveMutex>>

\* The only reference to the lease goes away: the collector closes its file,
\* and with it the lock; owner entry and info stay behind.
Drop(t) ==
    /\ "drop" \in Operation
    /\ op[t] = "leased"
    /\ Close(t, "lease")
    /\ Return(t)
    /\ UNCHANGED <<path, info, owners, saveMutex>>

-----------------------------------------------------------------------------
(* removeStaleSessionLeaseLockSidecar, then removeStaleSessionLockSidecar:  *)
(* both skip a session this process holds, take the lock without blocking,  *)
(* and unlink the file under it.                                            *)

\* Retirement of one file is over: the save lock follows the lease lock.
AfterRetire(t) == IF file[t] = "lease" THEN Goto(t, "retire", "start", "save")
                                       ELSE Return(t)

RetireSkips(t) ==
    /\ Step(t, "retire", "start")
    /\ HeldLocally(t)
    /\ AfterRetire(t)
    /\ UNCHANGED <<fsVars, info, owners, saveMutex>>

RetireStart(t) ==
    /\ Step(t, "retire", "start")
    /\ ~HeldLocally(t)
    /\ Goto(t, "retire", IF file[t] = "lease" THEN "open" ELSE "info", file[t])
    /\ UNCHANGED <<fsVars, info, owners, saveMutex>>

\* SessionLeaseHeldByOtherRuntime, asked before the save lock is retired: the
\* lease lock is probed only when the info file names another runtime.
HeldByOther(t) ==
    /\ Step(t, "retire", "info")
    /\ IF ForeignInfo(t) /\ ~HeldLocally(t)
       THEN Goto(t, "probe", "open", "lease")
       ELSE Goto(t, "retire", "open", "save")
    /\ UNCHANGED <<fsVars, info, owners, saveMutex>>

ProbeFlock(t) ==
    /\ op[t] \in {"probe", "retire", "sweep"}
    /\ Flock(t)
    /\ Goto(t, op[t], "locked", file[t])
    /\ UNCHANGED <<info, owners, saveMutex>>

\* Foreign info and a free lock: what a crashed process left behind.
ProbeInfo(t) ==
    /\ Step(t, "probe", "locked")
    /\ RemoveInfo
    /\ Goto(t, "probe", "unlock", "lease")
    /\ UNCHANGED <<fsVars, owners, saveMutex>>

ProbeUnlock(t) ==
    /\ Step(t, "probe", "unlock")
    /\ Close(t, "lease")
    /\ Goto(t, "retire", "open", "save")
    /\ UNCHANGED <<path, info, owners, saveMutex>>

ProbeHeld(t) ==
    /\ op[t] = "probe"
    /\ FlockHeld(t)
    /\ Close(t, "lease")
    /\ Return(t)
    /\ UNCHANGED <<path, info, owners, saveMutex>>

\* RemoveAndUnlock: the unlink comes before the unlock.
RetireUnlink(t) ==
    /\ Step(t, "retire", "locked")
    /\ Unlink(file[t])
    /\ Goto(t, "retire", "unlock", file[t])
    /\ UNCHANGED <<info, owners, saveMutex>>

RetireUnlock(t) ==
    /\ Step(t, "retire", "unlock")
    /\ Close(t, file[t])
    /\ AfterRetire(t)
    /\ UNCHANGED <<path, info, owners, saveMutex>>

\* Mutant: a lock file found locked is removed all the same.
RetireHeldRemoves(t) ==
    /\ op[t] = "retire"
    /\ FlockHeld(t)
    /\ Close(t, file[t])
    /\ path' = [path EXCEPT ![file[t]] = None]
    /\ AfterRetire(t)
    /\ UNCHANGED <<info, owners, saveMutex>>

RetireHeld(t) ==
    /\ op[t] = "retire"
    /\ FlockHeld(t)
    /\ Close(t, file[t])
    /\ AfterRetire(t)
    /\ UNCHANGED <<path, info, owners, saveMutex>>

-----------------------------------------------------------------------------
(* ReconcileSessionSidecars at startup, for this session: the info file is  *)
(* swept, then both lock files are retired. The directory listing it works  *)
(* from may be older than the files.                                        *)

Reconcile(t) ==
    /\ "sweep" \in Operation
    /\ op[t] = "idle"
    /\ IF HeldLocally(t) \/ info = None
       THEN Goto(t, "retire", "start", "lease")
       ELSE Goto(t, "sweep", "stat", "lease")
    /\ UNCHANGED <<fsVars, info, owners, saveMutex>>

\* os.Stat of the lease lock: with no such file the info is removed without it.
SweepStat(t) ==
    /\ Step(t, "sweep", "stat")
    /\ Goto(t, "sweep", IF path["lease"] # None THEN "open" ELSE "bare", "lease")
    /\ UNCHANGED <<fsVars, info, owners, saveMutex>>

SweepInfo(t) ==
    /\ Step(t, "sweep", "locked")
    /\ RemoveInfo
    /\ Goto(t, "sweep", "unlock", "lease")
    /\ UNCHANGED <<fsVars, owners, saveMutex>>

SweepBare(t) ==
    /\ Step(t, "sweep", "bare")
    /\ RemoveInfo
    /\ Goto(t, "retire", "start", "lease")
    /\ UNCHANGED <<fsVars, owners, saveMutex>>

\* The lock is given back, or was never got.
SweepEnds(t) ==
    /\ op[t] = "sweep"
    /\ at[t] = "unlock" \/ FlockHeld(t)
    /\ Close(t, "lease")
    /\ Goto(t, "retire", "start", "lease")
    /\ UNCHANGED <<path, info, owners, saveMutex>>

-----------------------------------------------------------------------------
(* Session.save: the process mutex, then the save lock, blocking. *)

Save(t) ==
    /\ "save" \in Operation
    /\ op[t] = "idle"
    /\ saveMutex[ProcessOf[t]] = None
    /\ saveMutex' = [saveMutex EXCEPT ![ProcessOf[t]] = t]
    /\ Goto(t, "save", "open", "save")
    /\ UNCHANGED <<fsVars, info, owners>>

SaveFlock(t) ==
    /\ op[t] = "save"
    /\ Flock(t)
    /\ Goto(t, "save", "locked", "save")
    /\ UNCHANGED <<info, owners, saveMutex>>

SaveUnlock(t) ==
    /\ Step(t, "save", "locked")
    /\ Close(t, "save")
    /\ Goto(t, "save", "unlock", "save")
    /\ UNCHANGED <<path, info, owners, saveMutex>>

SaveReturns(t) ==
    /\ Step(t, "save", "unlock")
    /\ saveMutex' = [saveMutex EXCEPT ![ProcessOf[t]] = None]
    /\ Return(t)
    /\ UNCHANGED <<fsVars, info, owners>>

-----------------------------------------------------------------------------
(* SessionRemovalGuard. *)

\* TryAcquireSessionRemovalGuard: the lease lock and then the save lock.
Guard(t) ==
    /\ "guard" \in Operation
    /\ op[t] = "idle"
    /\ ~HeldLocally(t)
    /\ Goto(t, "guard", "open", "lease")
    /\ UNCHANGED <<fsVars, info, owners, saveMutex>>

GuardFlock(t) ==
    /\ op[t] = "guard"
    /\ Flock(t)
    /\ IF file[t] = "lease" THEN Goto(t, "guard", "open", "save")
                            ELSE Goto(t, "guard", "locked", "save")
    /\ UNCHANGED <<info, owners, saveMutex>>

\* A held lock ends the attempt; the lease lock taken before is released.
GuardHeld(t) ==
    /\ op[t] = "guard"
    /\ FlockHeld(t)
    /\ Close(t, file[t])
    /\ IF file[t] = "lease" THEN Return(t) ELSE Goto(t, "abort", "unlock", "lease")
    /\ UNCHANGED <<path, info, owners, saveMutex>>

\* Release without a removal: the save lock, then the lease lock.
GuardRelease(t) ==
    /\ Step(t, "guard", "locked")
    /\ Goto(t, "abort", "unlock", "save")
    /\ UNCHANGED <<fsVars, info, owners, saveMutex>>

\* RemoveSidecarsAndRelease: the info goes first, then each file is unlinked
\* under its lock.
GuardRemovesInfo(t) ==
    /\ Step(t, "guard", "locked")
    /\ RemoveInfo
    /\ Goto(t, "clean", "locked", "save")
    /\ UNCHANGED <<fsVars, owners, saveMutex>>

GuardUnlink(t) ==
    /\ Step(t, "clean", "locked")
    /\ Unlink(file[t])
    /\ Goto(t, "clean", "unlock", file[t])
    /\ UNCHANGED <<info, owners, saveMutex>>

GuardUnlock(t) ==
    /\ op[t] \in {"abort", "clean"} /\ at[t] = "unlock"
    /\ Close(t, file[t])
    /\ IF file[t] = "lease" THEN Return(t)
       ELSE Goto(t, op[t], IF op[t] = "clean" THEN "locked" ELSE "unlock", "lease")
    /\ UNCHANGED <<path, info, owners, saveMutex>>

-----------------------------------------------------------------------------
(* A crash of process p: the kernel closes its files, its memory is gone,   *)
(* the info it wrote stays. It may start again, as a new runtime.           *)

Crash(p) ==
    LET lost == {t \in Thread : ProcessOf[t] = p}
    IN  /\ "crash" \in Operation
        /\ op' = [t \in Thread |-> IF t \in lost THEN "idle" ELSE op[t]]
        /\ at' = [t \in Thread |-> IF t \in lost THEN "start" ELSE at[t]]
        /\ file' = [t \in Thread |-> IF t \in lost THEN "lease" ELSE file[t]]
        /\ fd' = [t \in Thread |-> IF t \in lost THEN [f \in File |-> None] ELSE fd[t]]
        /\ flock' = [i \in Inode |-> IF flock[i] \in lost THEN None ELSE flock[i]]
        /\ info' = IF info = p THEN Dead ELSE info
        /\ owners' = [owners EXCEPT ![p] = None]
        /\ saveMutex' = [saveMutex EXCEPT ![p] = None]
        /\ UNCHANGED <<path, retired>>

-----------------------------------------------------------------------------
Lease(t) == \/ Reserve(t) \/ AcquireFlock(t) \/ AcquireHeld(t) \/ WriteInfo(t)
            \/ Reclaim(t) \/ ReclaimFlock(t) \/ ReclaimOwner(t) \/ ReclaimHeld(t)
            \/ Release(t) \/ ReleaseInfo(t) \/ ReleaseUnlock(t) \/ ReleaseOwner(t)
            \/ Drop(t)

Retire(t) == \/ RetireSkips(t) \/ RetireStart(t) \/ HeldByOther(t)
             \/ ProbeFlock(t) \/ ProbeInfo(t) \/ ProbeUnlock(t) \/ ProbeHeld(t)
             \/ RetireUnlink(t) \/ RetireUnlock(t) \/ RetireHeld(t)

Sweep(t) == \/ Reconcile(t) \/ SweepStat(t) \/ SweepInfo(t) \/ SweepBare(t)
            \/ SweepEnds(t)

Saver(t) == Save(t) \/ SaveFlock(t) \/ SaveUnlock(t) \/ SaveReturns(t)

Remover(t) == \/ Guard(t) \/ GuardFlock(t) \/ GuardHeld(t) \/ GuardRelease(t)
              \/ GuardRemovesInfo(t) \/ GuardUnlink(t) \/ GuardUnlock(t)

Next ==
    \/ \E t \in Thread : Open(t) \/ Lease(t) \/ Retire(t) \/ Sweep(t) \/ Saver(t) \/ Remover(t)
    \/ \E p \in Process : Crash(p)

Spec == Init /\ [][Next]_vars

-----------------------------------------------------------------------------
(* Properties. *)

\* Every variable keeps its type.
TypeOK ==
    /\ op \in [Thread -> Op]
    /\ at \in [Thread -> At]
    /\ file \in [Thread -> File]
    /\ fd \in [Thread -> [File -> Inode \cup {None}]]
    /\ path \in [File -> Inode \cup {None}]
    /\ flock \in [Inode -> Thread \cup {None}]
    /\ info \in Process \cup {None, Dead}
    /\ owners \in [Process -> Thread \cup {None}]
    /\ saveMutex \in [Process -> Thread \cup {None}]
    /\ retired \in BOOLEAN

\* Who is inside: the holder of a lease, of the removal guard (both locks), of
\* the save lock.
HoldsLease(t) == \/ op[t] = "leased"
                 \/ op[t] \in {"acquire", "reclaim"} /\ at[t] \in {"locked", "owner"}
Guards(t) == op[t] \in {"guard", "clean"} /\ at[t] = "locked" /\ file[t] = "save"
Saving(t) == Step(t, "save", "locked")

\* At most one thread of all processes holds the session's lease.
LeaseExclusive ==
    \A t, u \in Thread : HoldsLease(t) /\ HoldsLease(u) => t = u

\* At most one thread of all processes is writing the session's files.
SaveExclusive ==
    \A t, u \in Thread : Saving(t) /\ Saving(u) => t = u

\* While a removal guard is held nobody else holds the lease, saves or guards.
GuardExcludes ==
    \A t, u \in Thread : Guards(t) /\ (HoldsLease(u) \/ Saving(u) \/ Guards(u)) => t = u

\* As long as nobody has locked a lock file that was unlinked between its open
\* and its flock, the locks exclude: one lease holder, one saver, and a removal
\* guard alone, across processes, reclaims, sweeps and crashes.
LocksExclude == ~retired => LeaseExclusive /\ SaveExclusive /\ GuardExcludes

(***************************************************************************)
(* The lock files implement the guarded session file.                      *)
(***************************************************************************)
Guarded == INSTANCE SessionFile WITH
    Writer <- Thread,
    holders <- {t \in Thread : HoldsLease(t)},
    savers <- {t \in Thread : Saving(t)},
    removers <- {t \in Thread : Guards(t)},
    stray <- retired

\* Whoever takes the lease, the save lock or the removal guard does so in one step
\* and finds free what excludes it, in all processes; a reclaim or a sweep gives
\* nobody's lock away, and a crash only lets go.
LocksGuard == Guarded!Spec

\* Thread t has unlinked lock file f, which it still holds.
Unlinked(t, f) == op[t] \in {"retire", "clean"} /\ at[t] = "unlock" /\ file[t] = f

\* The same, read from the file names: a holder's lock file is the one a later
\* open will find, until the holder itself unlinks it.
HeldFilesAreLinked ==
    ~retired => \A t \in Thread, f \in File :
        fd[t][f] # None /\ flock[fd[t][f]] = t /\ ~Unlinked(t, f) => path[f] = fd[t][f]

\* The owner entry of a lease that is held is only removed or replaced by the
\* holder's own release, whatever reservations, reclaims and releases of other
\* leases of the same session run beside it (Release, TryReclaim...).
HeldEntryStays ==
    [][\A t \in Thread :
          /\ ~retired
          /\ op[t] = "leased" /\ owners[ProcessOf[t]] = t
          => \/ owners'[ProcessOf[t]] = t
             \/ op'[t] = "idle"]_vars

\* An owner entry stands for a lease, or an attempt at one, that is under way:
\* no failure path leaves an entry that would refuse the session for good.
EntriesAreUsed ==
    \A p \in Process, t \in Thread :
        owners[p] = t => op[t] \in {"acquire", "reclaim", "leased", "release"}

\* A lease handed out is named by the info file, so that another process that
\* looks there (SessionLeaseHeldByOtherRuntime) finds the session held.
HolderIsNamed ==
    ~retired => \A t \in Thread : op[t] = "leased" => info = ProcessOf[t]

-----------------------------------------------------------------------------
(* The parts of the inductive invariant behind LocksExclude. *)

\* Where a thread can be.
ControlAt(t) ==
    \/ op[t] \in {"idle", "leased"} /\ at[t] = "start" /\ file[t] = "lease"
    \/ op[t] = "acquire" /\ at[t] \in {"open", "flock", "locked"} /\ file[t] = "lease"
    \/ op[t] = "reclaim" /\ at[t] \in {"open", "flock", "owner", "locked"} /\ file[t] = "lease"
    \/ op[t] = "release" /\ at[t] \in {"info", "unlock", "owner"} /\ file[t] = "lease"
    \/ op[t] = "probe" /\ at[t] \in {"open", "flock", "locked", "unlock"} /\ file[t] = "lease"
    \/ op[t] = "sweep" /\ at[t] \in {"stat", "bare", "open", "flock", "locked", "unlock"}
                       /\ file[t] = "lease"
    \/ op[t] = "retire" /\ at[t] \in {"start", "info", "open", "flock", "locked", "unlock"}
                        /\ (at[t] = "info" => file[t] = "save")
    \/ op[t] = "save" /\ at[t] \in {"open", "flock", "locked", "unlock"} /\ file[t] = "save"
    \/ op[t] = "guard" /\ at[t] \in {"open", "flock"}
    \/ op[t] = "guard" /\ at[t] = "locked" /\ file[t] = "save"
    \/ op[t] = "abort" /\ at[t] = "unlock"
    \/ op[t] = "clean" /\ at[t] \in {"locked", "unlock"}

ControlOK == \A t \in Thread : ControlAt(t)

\* What a thread about to lock has opened.
OpenedFirst == \A t \in Thread : at[t] = "flock" => fd[t][file[t]] # None

\* The locks a thread has to hold where it is.
NeedsLock(t, f) ==
    \/ f = "lease" /\ HoldsLease(t)
    \/ f = "lease" /\ op[t] = "release" /\ at[t] \in {"info", "unlock"}
    \/ f = file[t] /\ op[t] \in {"probe", "sweep", "retire"} /\ at[t] \in {"locked", "unlock"}
    \/ f = "save" /\ Saving(t)
    \/ f = "lease" /\ op[t] = "guard" /\ file[t] = "save"
    \/ f = "save" /\ Step(t, "guard", "locked")
    \/ op[t] \in {"abort", "clean"} /\ (f = "lease" \/ file[t] = "save")

HasLock(t, f) == fd[t][f] # None /\ flock[fd[t][f]] = t

LocksAreHeld == \A t \in Thread, f \in File : NeedsLock(t, f) => HasLock(t, f)

\* The inodes of the two names are different ones.
FilesApart ==
    \A f, g \in File : f # g =>
        /\ path[f] # None => path[f] # path[g] /\ \A t \in Thread : fd[t][g] # path[f]
        /\ \A t, u \in Thread : fd[t][f] # None => fd[t][f] # fd[u][g]

\* Behind EntriesAreUsed: whose entry it is, and how far its owner has come.
EntriesAreOwn ==
    \A p \in Process, t \in Thread : owners[p] = t =>
        /\ ProcessOf[t] = p
        /\ op[t] \in {"acquire", "leased", "release"} \/ Step(t, "reclaim", "locked")

=============================================================================
