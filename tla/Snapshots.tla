------------------------------ MODULE Snapshots ------------------------------
(***************************************************************************)
(* How a controller keeps its conversation on disk (internal/control/      *)
(* controller.go): the autosave that runs beside a turn, the save at its   *)
(* end, compactions, rewinds, cancels, edited prompts, session switches,   *)
(* and the recovery of a save another runtime got in the way of: adopting  *)
(* the disk's transcript or forking a recovery branch.                     *)
(*                                                                         *)
(* Saves of one session file are atomic here; SessionStore shows that.     *)
(* Several controllers, one per runtime, have files of one directory open  *)
(* and no leases between them, as the recovery code expects.  In-flight    *)
(* turn markers, ClearSession and failing writes are not modelled.         *)
(***************************************************************************)
EXTENDS Naturals, Sequences

CONSTANTS
  Controller,  \* one per runtime
  Root,        \* names of fresh session files
  Prompt,      \* what a user says
  Answer,      \* what the agent and its tools add
  Edited,      \* marks a prompt as edited
  Folded,      \* marks a digest
  None,        \* no session file
  MaxDepth,    \* SessionRecoveryMaxDepth
  MaxOps       \* bound: operations begun (turns, folds, cancels, rewinds,
               \* switches, crashes), of all controllers together

Item == Prompt \cup Answer
Text == Seq(SUBSET (Item \cup {Edited, Folded}))
File == [root : Root, forks : Seq(Text)]

ASSUME ConstantsAssumption ==
  /\ Prompt \cap Answer = {}
  /\ Edited \notin Item
  /\ Folded \notin Item \cup {Edited}
  /\ None \notin File
  /\ MaxDepth \in Nat
  /\ MaxOps \in Nat

VARIABLES
  disk,       \* the transcript of each session file there is
  path,       \* Controller.sessionPath, None when nothing is bound
  mem,        \* the messages of the executor's session
  rewrites,   \* its rewriteVersion
  saved,      \* Controller.savedRewriteVersion
  base,       \* Session.persisted, and whether another runtime's save has
              \* moved the file's revision since
  run,        \* what holds the controller's gate: a turn, a rotation, nothing
  op,         \* where that is
  turn,       \* of the turn: startMessages, how long the session was when it
              \* began; what it has said, and whether that index is still of
              \* the session as it is (history)
  plan,       \* the messages a fold or a cancel is going to put in place, and
              \* whether they were read from the session as it is (history)
  snap,       \* the holder of snapshotMu, and where its save is
  used,       \* items that have been said (history)
  discarded,  \* items a user has rewound or cancelled, or a crash took from
              \* a memory that had not been saved (history)
  amiss,      \* whether one of the flaws in the README has struck (history)
  spent       \* operations begun (for MaxOps)

held == <<path, mem, rewrites, saved, base>>
work == <<run, op, turn, plan>>
history == <<used, discarded, amiss>>
vars == <<disk, held, work, snap, history, spent>>

Items(t) == Item \cap UNION {t[i] : i \in DOMAIN t}
Since(t, n) == Items(SubSeq(t, n + 1, Len(t)))
OnDisk == UNION {Items(disk[f]) : f \in DOMAIN disk}
InMemory == UNION {Items(mem[c]) : c \in Controller}

HasPrefix(full, prefix) ==
  /\ Len(prefix) <= Len(full)
  /\ \A i \in 1..Len(prefix) : full[i] = prefix[i]

IsPrompt(m) == Folded \notin m /\ m \cap Prompt # {}

Fresh(r) == [root |-> r, forks |-> <<>>]
Depth(f) == Len(f.forks)
\* Mutant: one fork too many.
TooDeepLate(f) == Depth(f) > MaxDepth

TooDeep(f) == Depth(f) >= MaxDepth

\* recoverySessionPath: named after the file it forks from and what it holds.
Recovery(f, t) == [f EXCEPT !.forks = Append(@, t)]

NoBase == [file |-> None, text |-> <<>>, behind |-> FALSE]
Base == [file : File \cup {None}, text : Text, behind : BOOLEAN]

Steps == {"free", "write", "redecide", "recover", "adopt", "mark"}
Snap == [step : Steps, by : {"anyone", "turn", "rotation", "cancel"},
         file : File \cup {None}, rewrite : BOOLEAN, version : Nat,
         copy : Text, stale : BOOLEAN]
Free == [step |-> "free", by |-> "anyone", file |-> None, rewrite |-> FALSE,
         version |-> 0, copy |-> <<>>, stale |-> FALSE]

Turn == [start : Nat, said : SUBSET Item, sound : BOOLEAN]
NoTurn == [start |-> 0, said |-> {}, sound |-> TRUE]
Plan == [text : Text, sound : BOOLEAN]
NoPlan == [text |-> <<>>, sound |-> TRUE]

Run == {"idle", "turn", "compact", "summarize", "rewind", "swap", "fork"}
Op == {"none", "folding", "replaced", "cancelling", "ending", "save", "saving", "swap"}

Init ==
  /\ disk = [f \in {} |-> <<>>]
  /\ path = [c \in Controller |-> None]
  /\ mem = [c \in Controller |-> <<>>]
  /\ rewrites = [c \in Controller |-> 0]
  /\ saved = [c \in Controller |-> 0]
  /\ base = [c \in Controller |-> NoBase]
  /\ run = [c \in Controller |-> "idle"]
  /\ op = [c \in Controller |-> "none"]
  /\ turn = [c \in Controller |-> NoTurn]
  /\ plan = [c \in Controller |-> NoPlan]
  /\ snap = [c \in Controller |-> Free]
  /\ used = {}
  /\ discarded = {}
  /\ amiss = FALSE
  /\ spent = 0

\* An operation begins, within the bound.
Spend == spent < MaxOps /\ spent' = spent + 1

-----------------------------------------------------------------------------
(* Saving: snapshot() and what it calls, under snapshotMu throughout.       *)

Lock(c, by, rewrite) ==
  /\ snap[c].step = "free"
  /\ snap' = [snap EXCEPT ![c] =
       [Free EXCEPT !.step = "write", !.by = by, !.file = path[c],
                    !.rewrite = rewrite, !.version = rewrites[c]]]

\* Where the operation a save belongs to goes on when it ends.
Unlock(c, ok, sound) ==
  LET by == snap[c].by
      rotated == by = "rotation" /\ (run[c] = "fork" \/ (run[c] = "swap" /\ ok))
  IN
  /\ snap' = [snap EXCEPT ![c] = Free]
  /\ run' = [run EXCEPT ![c] =
       IF by = "turn" \/ (by = "rotation" /\ ~rotated) THEN "idle" ELSE @]
  /\ op' = [op EXCEPT ![c] =
       CASE by = "anyone" -> @
         [] by = "cancel" -> "ending"
         [] OTHER -> IF rotated THEN "swap" ELSE "none"]
  /\ turn' = [turn EXCEPT ![c] = IF by = "turn" THEN NoTurn ELSE sound]

\* snapshot(), up to snapshotRewriteDecision.
Decide(c, by, force) ==
  /\ path[c] # None
  /\ mem[c] # <<>>
  /\ Lock(c, by, force \/ rewrites[c] > saved[c])

\* autosaveWhileRunning, which may outlive its turn, and the Snapshot of
\* frontends.
Autosave(c) ==
  /\ Decide(c, "anyone", FALSE)
  /\ UNCHANGED <<disk, held, work, history, spent>>

\* Mutant: any rewrite by a session that has read the file.
MayWriteUnowned(n, d, b, rewrite) ==
  IF HasPrefix(n, d)
  THEN ~b.behind \/ n = d \/ (HasPrefix(n, b.text) /\ Len(d) >= Len(b.text))
  ELSE rewrite /\ b.file # None

MayWrite(n, d, b, rewrite) ==
  IF HasPrefix(n, d)
  THEN ~b.behind \/ n = d \/ (HasPrefix(n, b.text) /\ Len(d) >= Len(b.text))
  ELSE rewrite /\ b.text = d /\ b.file # None

Baseline(c, f) == IF base[c].file = f THEN base[c] ELSE NoBase

Put(f, n) == disk' = [g \in DOMAIN disk \cup {f} |-> IF g = f THEN n ELSE disk[g]]

\* c has n on disk; whoever else has a baseline there is behind, if that is new.
Persist(c, f, n) ==
  base' = [x \in Controller |->
            IF x = c THEN [file |-> f, text |-> n, behind |-> FALSE]
            ELSE IF base[x].file = f /\ ~(f \in DOMAIN disk /\ disk[f] = n)
            THEN [base[x] EXCEPT !.behind = TRUE]
            ELSE base[x]]

\* SaveSnapshot and SaveRewrite copy the messages under the file's lock.
Write(c) ==
  LET f == snap[c].file
      n == mem[c]
  IN
  /\ snap[c].step = "write"
  /\ IF f \notin DOMAIN disk \/ MayWrite(n, disk[f], Baseline(c, f), snap[c].rewrite)
     THEN /\ Put(f, n)
          /\ Persist(c, f, n)
          /\ IF snap[c].by = "cancel"
             THEN Unlock(c, TRUE, turn[c])
             ELSE /\ snap' = [snap EXCEPT ![c].step = "mark", ![c].copy = n]
                  /\ UNCHANGED <<run, op, turn>>
     ELSE /\ snap' = [snap EXCEPT
                       ![c].step = IF snap[c].rewrite THEN "recover" ELSE "redecide",
                       ![c].stale = HasPrefix(disk[f], n),
                       ![c].copy = n]
          /\ UNCHANGED <<disk, base, run, op, turn>>
  /\ UNCHANGED <<path, mem, rewrites, saved, plan, history, spent>>

\* A compaction may have landed since the decision: one retry as a rewrite.
Redecide(c) ==
  /\ snap[c].step = "redecide"
  /\ snap' = IF rewrites[c] > saved[c]
             THEN [snap EXCEPT ![c].step = "write", ![c].rewrite = TRUE, ![c].version = rewrites[c]]
             ELSE [snap EXCEPT ![c].step = "recover"]
  /\ UNCHANGED <<disk, held, work, history, spent>>

\* Mutant: with the version of the moment.
PersistedNow(c) == rewrites[c]

\* markSessionRewriteVersionPersisted, with the version the decision saw.
Persisted(c) == IF snap[c].version > saved[c] THEN snap[c].version ELSE saved[c]

Mark(c) ==
  /\ snap[c].step = "mark"
  /\ saved' = [saved EXCEPT ![c] = Persisted(c)]
  /\ Unlock(c, TRUE, turn[c])
  /\ UNCHANGED <<disk, path, mem, rewrites, base, plan, history, spent>>

-----------------------------------------------------------------------------
(* Recovery: recoverSnapshotConflict and SaveRecoveryBranch.                *)

\* Mutant: as long.
CoveredByLength(c) == Len(disk[snap[c].file]) >= Len(mem[c])

Covered(c) == HasPrefix(disk[snap[c].file], mem[c])

\* ErrSessionRecoveryNotNeeded: all there is in memory is on disk.
NotNeeded(c) ==
  /\ snap[c].step = "recover"
  /\ snap[c].stale \/ Covered(c)
  /\ snap' = [snap EXCEPT ![c].step = "adopt", ![c].copy = IF snap[c].stale THEN @ ELSE mem[c]]
  /\ UNCHANGED <<disk, held, work, history, spent>>

\* A session that is swapped takes the meaning of what was read from it along.
Indexless(c) == IF run[c] = "turn" THEN [turn[c] EXCEPT !.sound = FALSE] ELSE turn[c]
Misread(c) ==
  plan' = IF op[c] = "folding" THEN [plan EXCEPT ![c].sound = FALSE] ELSE plan

\* SetSession and the baseline of what it installs.
Install(c, f, t) ==
  /\ path' = [path EXCEPT ![c] = f]
  /\ mem' = [mem EXCEPT ![c] = t]
  /\ rewrites' = [rewrites EXCEPT ![c] = 0]
  /\ saved' = [saved EXCEPT ![c] = 0]

\* adoptDiskSession.
Adopt(c) ==
  LET f == snap[c].file
      d == disk[f]
  IN
  /\ snap[c].step = "adopt"
  /\ Install(c, path[c], d)
  /\ base' = [base EXCEPT ![c] = [file |-> f, text |-> d, behind |-> FALSE]]
  /\ amiss' = (amiss \/ mem[c] # snap[c].copy)
  /\ Unlock(c, TRUE, Indexless(c))
  /\ Misread(c)
  /\ UNCHANGED <<disk, used, discarded, spent>>

Diverged(c) == snap[c].step = "recover" /\ ~snap[c].stale /\ ~Covered(c)

\* A branch of that name is written over, whatever it has become.  The
\* frontend may refuse the move (onSessionRecovered) when it is on disk.
Fork(c) ==
  LET f == Recovery(snap[c].file, mem[c])
      taken == f \in DOMAIN disk /\ ~(Items(disk[f]) \subseteq Items(mem[c]))
  IN
  /\ Diverged(c)
  /\ ~TooDeep(snap[c].file)
  /\ Put(f, mem[c])
  /\ Persist(c, f, mem[c])
  /\ \/ /\ path' = [path EXCEPT ![c] = f]
        /\ IF snap[c].by = "cancel"
           THEN Unlock(c, TRUE, turn[c])
           ELSE /\ snap' = [snap EXCEPT ![c].step = "mark", ![c].copy = mem[c]]
                /\ UNCHANGED <<run, op, turn>>
     \/ Unlock(c, FALSE, turn[c]) /\ UNCHANGED path
  /\ amiss' = (amiss \/ taken)
  /\ UNCHANGED <<mem, rewrites, saved, plan, used, discarded, spent>>

\* "This runtime is the only writer of its own recovery branches."
ForceSave(c) ==
  LET f == snap[c].file IN
  /\ Diverged(c)
  /\ TooDeep(f)
  /\ Put(f, mem[c])
  /\ Persist(c, f, mem[c])
  /\ Unlock(c, TRUE, turn[c])
  /\ amiss' = (amiss \/ ~(Items(disk[f]) \subseteq Items(mem[c]) \cup discarded))
  /\ UNCHANGED <<path, mem, rewrites, saved, plan, used, discarded, spent>>

-----------------------------------------------------------------------------
(* Turns.  The run loop reaches its session through the executor each time. *)

StartTurn(c) ==
  /\ Spend
  /\ run[c] = "idle"
  /\ path[c] # None
  /\ run' = [run EXCEPT ![c] = "turn"]
  /\ turn' = [turn EXCEPT ![c] = [NoTurn EXCEPT !.start = Len(mem[c])]]
  /\ UNCHANGED <<disk, held, op, plan, snap, history>>

Working(c) == run[c] = "turn" /\ op[c] = "none"

\* The turn's prompt, then answers and tool results.
Add(c) ==
  /\ Working(c)
  /\ \E i \in (IF turn[c].said = {} THEN Prompt ELSE Answer) \ used :
       /\ mem' = [mem EXCEPT ![c] = Append(@, {i})]
       /\ turn' = [turn EXCEPT ![c].said = @ \cup {i}]
       /\ used' = used \cup {i}
  /\ UNCHANGED <<disk, path, rewrites, saved, base, run, op, plan, snap, discarded, amiss, spent>>

\* compact() folds the answers of a region, prune one of them; prompts and
\* digests stay.  SummarizeFrom and SummarizeUpTo fold all they cover.
IsAnswer(m) == Folded \notin m /\ m \cap Prompt = {}
Digest(t) == UNION {t[i] : i \in DOMAIN t} \cup {Folded}
Kept(t) == SelectSeq(t, LAMBDA m : ~IsAnswer(m))
Dropped(t) == SelectSeq(t, IsAnswer)

Fold(t, a, b) ==
  SubSeq(t, 1, a - 1) \o Kept(SubSeq(t, a, b)) \o <<Digest(Dropped(SubSeq(t, a, b)))>>
    \o SubSeq(t, b + 1, Len(t))
Summary(t, a, b) ==
  SubSeq(t, 1, a - 1) \o <<Digest(SubSeq(t, a, b))>> \o SubSeq(t, b + 1, Len(t))

\* A digest stands for all it covers.
Folds(c) ==
  LET t == mem[c]
      spans == {s \in (1..Len(t)) \X (1..Len(t)) : s[1] <= s[2]}
      candidates ==
        IF run[c] = "summarize"
        THEN {Summary(t, s[1], s[2]) : s \in {s \in spans : s[1] = 1 \/ s[2] = Len(t)}}
        ELSE {Fold(t, s[1], s[2]) : s \in {s \in spans : Dropped(SubSeq(t, s[1], s[2])) # <<>>}}
  IN {u \in candidates : u \in Text /\ u # t /\ Items(u) = Items(t)}

\* The messages are read, and summarised over the network.
FoldRead(c) ==
  /\ Spend
  /\ run[c] \in {"turn", "compact", "summarize"}
  /\ op[c] = "none"
  /\ \E t \in Folds(c) : plan' = [plan EXCEPT ![c] = [text |-> t, sound |-> TRUE]]
  /\ op' = [op EXCEPT ![c] = "folding"]
  /\ UNCHANGED <<disk, held, run, turn, snap, history>>

FoldReplace(c) ==
  /\ op[c] = "folding"
  /\ mem' = [mem EXCEPT ![c] = plan[c].text]
  /\ op' = [op EXCEPT ![c] = "replaced"]
  /\ turn' = [turn EXCEPT ![c] = Indexless(c)]
  /\ plan' = [plan EXCEPT ![c] = NoPlan]
  /\ amiss' = (amiss \/ ~plan[c].sound)
  /\ UNCHANGED <<disk, path, rewrites, saved, base, run, snap, used, discarded, spent>>

FoldDeclare(c) ==
  /\ op[c] = "replaced"
  /\ rewrites' = [rewrites EXCEPT ![c] = @ + 1]
  /\ op' = [op EXCEPT ![c] = IF run[c] = "summarize" THEN "save" ELSE "none"]
  /\ run' = [run EXCEPT ![c] = IF @ = "compact" THEN "idle" ELSE @]
  /\ UNCHANGED <<disk, path, mem, saved, base, turn, plan, snap, history, spent>>

\* The summary failed, or there was nothing to fold.
FoldAbort(c) ==
  /\ \/ op[c] = "folding"
     \/ op[c] = "none" /\ run[c] \in {"compact", "summarize"}
  /\ op' = [op EXCEPT ![c] = "none"]
  /\ run' = [run EXCEPT ![c] = IF @ = "turn" THEN @ ELSE "idle"]
  /\ plan' = [plan EXCEPT ![c] = NoPlan]
  /\ UNCHANGED <<disk, held, turn, snap, history, spent>>

\* What a cancelled turn leaves: all before it, and the prompt of a visible one.
FirstPrompt(t, n, k) ==
  /\ k \in n + 1..Len(t)
  /\ IsPrompt(t[k])
  /\ \A j \in n + 1..k - 1 : ~IsPrompt(t[j])

Stripped(t, n, visible) ==
  IF visible /\ \E k \in DOMAIN t : FirstPrompt(t, n, k)
  THEN {Append(SubSeq(t, 1, n), t[k]) : k \in {k \in DOMAIN t : FirstPrompt(t, n, k)}}
  ELSE {SubSeq(t, 1, n)}

CancelRead(c) ==
  /\ Spend
  /\ Working(c)
  /\ Len(mem[c]) > turn[c].start
  /\ \E visible \in BOOLEAN : \E t \in Stripped(mem[c], turn[c].start, visible) :
       plan' = [plan EXCEPT ![c].text = t]
  /\ op' = [op EXCEPT ![c] = "cancelling"]
  /\ UNCHANGED <<disk, held, run, turn, snap, history>>

\* replaceSessionAfterCancel, from the lock to its SaveRewrite.
CancelReplace(c) ==
  /\ op[c] = "cancelling"
  /\ Lock(c, "cancel", TRUE)
  /\ mem' = [mem EXCEPT ![c] = plan[c].text]
  /\ op' = [op EXCEPT ![c] = "saving"]
  /\ plan' = [plan EXCEPT ![c] = NoPlan]
  /\ discarded' = discarded \cup (turn[c].said \ Since(plan[c].text, turn[c].start))
  /\ amiss' = (amiss \/ ~turn[c].sound)
  /\ UNCHANGED <<disk, path, rewrites, saved, base, run, turn, used, spent>>

\* markEditedForNewUser.
MarkEdited(c) ==
  /\ Spend
  /\ Working(c)
  /\ \E k \in DOMAIN mem[c] :
       /\ FirstPrompt(mem[c], turn[c].start, k)
       /\ mem' = [mem EXCEPT ![c][k] = @ \cup {Edited}]
  /\ op' = [op EXCEPT ![c] = "ending"]
  /\ UNCHANGED <<disk, path, rewrites, saved, base, run, turn, plan, snap, history>>

\* Mutant: a turn that only has its prompt is not worth a save.
Answered(c) == Len(mem[c]) > turn[c].start + 1

\* snapshotActivityIfChanged, deferred to the end of the turn.
Changed(c) == Len(mem[c]) > turn[c].start

EndTurn(c) ==
  /\ run[c] = "turn"
  /\ op[c] \in {"none", "ending"}
  /\ IF Changed(c)
     THEN /\ Decide(c, "turn", FALSE)
          /\ op' = [op EXCEPT ![c] = "saving"]
          /\ UNCHANGED <<run, turn>>
     ELSE /\ run' = [run EXCEPT ![c] = "idle"]
          /\ op' = [op EXCEPT ![c] = "none"]
          /\ turn' = [turn EXCEPT ![c] = NoTurn]
          /\ UNCHANGED snap
  /\ UNCHANGED <<disk, held, plan, history, spent>>

-----------------------------------------------------------------------------
(* Rotations: beginRotation keeps turns out, and snapshotMu the saves of    *)
(* the moment a session is swapped.                                         *)

Claim(c) ==
  /\ Spend
  /\ run[c] = "idle"
  /\ path[c] # None
  /\ \E r \in {"compact", "summarize", "swap", "fork"} :
       /\ run' = [run EXCEPT ![c] = r]
       /\ op' = [op EXCEPT ![c] = IF r \in {"swap", "fork"} THEN "save" ELSE "none"]
  /\ UNCHANGED <<disk, held, turn, plan, snap, history>>

Rewind(c) ==
  /\ Spend
  /\ run[c] = "idle"
  /\ \E n \in 0..Len(mem[c]) :
       /\ mem' = [mem EXCEPT ![c] = SubSeq(@, 1, n)]
       /\ discarded' = discarded \cup (Items(mem[c]) \ Items(SubSeq(mem[c], 1, n)))
  /\ path[c] # None
  /\ run' = [run EXCEPT ![c] = "rewind"]
  /\ op' = [op EXCEPT ![c] = "save"]
  /\ UNCHANGED <<disk, path, rewrites, saved, base, turn, plan, snap, used, amiss>>

\* A session without content is not saved, and nothing is said of it.
SaveRotation(c) ==
  /\ op[c] = "save"
  /\ IF mem[c] # <<>>
     THEN /\ Decide(c, "rotation", run[c] \in {"rewind", "summarize"})
          /\ op' = [op EXCEPT ![c] = "saving"]
          /\ UNCHANGED run
     ELSE /\ run' = [run EXCEPT ![c] = IF @ \in {"swap", "fork"} THEN @ ELSE "idle"]
          /\ op' = [op EXCEPT ![c] = IF run[c] \in {"swap", "fork"} THEN "swap" ELSE "none"]
          /\ UNCHANGED snap
  /\ UNCHANGED <<disk, held, turn, plan, history, spent>>

\* Mutant: the lock is not taken.
SwappableAnyTime(c) == TRUE

\* snapshotMu, taken for the swap of a session.
Swappable(c) == snap[c].step = "free"

Unnamed(f) == f \notin DOMAIN disk /\ \A c \in Controller : path[c] # f

EndRotation(c) ==
  /\ run' = [run EXCEPT ![c] = "idle"]
  /\ op' = [op EXCEPT ![c] = "none"]

\* The lock is free for a moment: the swap is one critical section.
NewSession(c) ==
  /\ op[c] = "swap"
  /\ run[c] = "swap"
  /\ Swappable(c)
  /\ \E r \in Root : Unnamed(Fresh(r)) /\ Install(c, Fresh(r), <<>>)
  /\ base' = [base EXCEPT ![c] = NoBase]
  /\ EndRotation(c)
  /\ UNCHANGED <<disk, turn, plan, snap, history, spent>>

Branch(c) ==
  /\ op[c] = "swap"
  /\ run[c] = "swap"
  /\ Swappable(c)
  /\ mem[c] # <<>>
  /\ \E r \in Root :
       /\ Unnamed(Fresh(r))
       /\ Put(Fresh(r), mem[c])
       /\ Install(c, Fresh(r), mem[c])
       /\ Persist(c, Fresh(r), mem[c])
  /\ EndRotation(c)
  /\ UNCHANGED <<turn, plan, snap, history, spent>>

\* forkNamed: the messages up to a turn, whether the session was saved or not;
\* ForkSession does not move there.
ForkSession(c, n) ==
  LET t == SubSeq(mem[c], 1, n) IN
  /\ op[c] = "swap"
  /\ run[c] = "fork"
  /\ \E r \in Root :
       /\ Unnamed(Fresh(r))
       /\ Put(Fresh(r), t)
       /\ \/ UNCHANGED held
          \/ /\ Swappable(c)
             /\ Install(c, Fresh(r), t)
             /\ Persist(c, Fresh(r), t)
  /\ EndRotation(c)
  /\ UNCHANGED <<turn, plan, snap, history, spent>>

\* A process begins with a fresh file.
Boot(c) ==
  /\ path[c] = None
  /\ \E r \in Root : Unnamed(Fresh(r)) /\ Install(c, Fresh(r), <<>>)
  /\ UNCHANGED <<disk, base, work, snap, history, spent>>

\* SwitchBranch while nothing runs, or Resume, which no gate keeps from a turn:
\* its callers have saved the session a moment before.
Open(c, f) ==
  /\ Swappable(c)
  /\ IF path[c] = None THEN UNCHANGED spent ELSE Spend
  /\ run[c] = "idle" => Items(mem[c]) \subseteq OnDisk
  /\ Install(c, f, disk[f])
  /\ base' = [base EXCEPT ![c] = [file |-> f, text |-> disk[f], behind |-> FALSE]]
  /\ turn' = [turn EXCEPT ![c] = Indexless(c)]
  /\ Misread(c)
  /\ amiss' = (amiss \/ ~(Items(mem[c]) \subseteq OnDisk \cup discarded))
  /\ UNCHANGED <<disk, run, op, snap, used, discarded>>

\* The process dies.
Crash(c) ==
  /\ Spend
  /\ path[c] # None
  /\ Install(c, None, <<>>)
  /\ base' = [base EXCEPT ![c] = NoBase]
  /\ EndRotation(c)
  /\ turn' = [turn EXCEPT ![c] = NoTurn]
  /\ plan' = [plan EXCEPT ![c] = NoPlan]
  /\ snap' = [snap EXCEPT ![c] = Free]
  /\ discarded' = discarded \cup (Items(mem[c]) \ OnDisk)
  /\ UNCHANGED <<disk, used, amiss>>

-----------------------------------------------------------------------------

Saving(c) ==
  \/ Autosave(c) \/ Write(c) \/ Redecide(c) \/ Mark(c)
  \/ NotNeeded(c) \/ Adopt(c) \/ Fork(c) \/ ForceSave(c)

Turning(c) ==
  \/ StartTurn(c) \/ Add(c) \/ MarkEdited(c) \/ EndTurn(c)
  \/ FoldRead(c) \/ FoldReplace(c) \/ FoldDeclare(c) \/ FoldAbort(c)
  \/ CancelRead(c) \/ CancelReplace(c)

Rotating(c) ==
  \/ Claim(c) \/ Rewind(c) \/ SaveRotation(c) \/ NewSession(c) \/ Branch(c)
  \/ (\E n \in 0..Len(mem[c]) : ForkSession(c, n))
  \/ Boot(c) \/ (\E f \in DOMAIN disk : Open(c, f)) \/ Crash(c)

Next == \E c \in Controller : Saving(c) \/ Turning(c) \/ Rotating(c)

Spec == Init /\ [][Next]_vars

-----------------------------------------------------------------------------

TypeOK ==
  /\ DOMAIN disk \subseteq File
  /\ disk \in [DOMAIN disk -> Text]
  /\ \A f \in DOMAIN disk : Depth(f) <= MaxDepth
  /\ path \in [Controller -> File \cup {None}]
  /\ mem \in [Controller -> Text]
  /\ rewrites \in [Controller -> Nat]
  /\ saved \in [Controller -> Nat]
  /\ base \in [Controller -> Base]
  /\ run \in [Controller -> Run]
  /\ op \in [Controller -> Op]
  /\ turn \in [Controller -> Turn]
  /\ plan \in [Controller -> Plan]
  /\ snap \in [Controller -> Snap]
  /\ used \subseteq Item
  /\ discarded \subseteq Item
  /\ amiss \in BOOLEAN
  /\ spent \in Nat

(***************************************************************************)
(* Nothing that has been said is lost: it is in a session file or in the   *)
(* memory of a controller, unless its user rewound or cancelled it or its  *)
(* process died before a save.                                             *)
(***************************************************************************)
NothingIsLost == amiss \/ used \subseteq OnDisk \cup InMemory \cup discarded

(***************************************************************************)
(* What has been saved stays on disk, whichever controllers save, compact, *)
(* switch, recover and die, unless a user rewinds or cancels it.           *)
(***************************************************************************)
SavedMessagesStay == [][amiss' \/ OnDisk \subseteq OnDisk' \cup discarded']_vars

(***************************************************************************)
(* "Re-reading RewriteVersion() after the write would let a compaction     *)
(* that landed mid-save be recorded as persisted when it never reached     *)
(* disk" (controller.go:2791): a digest in memory that the session's       *)
(* baseline does not hold keeps the next save a rewrite.                   *)
(***************************************************************************)
Digests(t) == {t[i] : i \in {j \in DOMAIN t : Folded \in t[j]}}

CompactionsAreDeclared ==
  amiss \/ \A c \in Controller :
    /\ base[c].file = path[c]
    /\ op[c] # "replaced"
    /\ ~(Digests(mem[c]) \subseteq Digests(base[c].text))
    => rewrites[c] > saved[c]

(***************************************************************************)
(* A turn that ends leaves what it said on disk (snapshotActivityIfChanged *)
(* and the recovery behind it), unless a compaction or a switch during the *)
(* turn has made its start index meaningless.                              *)
(***************************************************************************)
EndedTurnsAreSaved ==
  [][\A c \in Controller :
       /\ run[c] = "turn"
       /\ run'[c] = "idle"
       /\ path'[c] # None
       /\ turn[c].sound
       => amiss' \/ turn[c].said \subseteq OnDisk' \cup discarded']_vars

(***************************************************************************)
(* A save writes the file its session belongs to: neither moves while the  *)
(* save holds snapshotMu, but for the recovery that is part of it.         *)
(***************************************************************************)
SavesKeepTheirFile ==
  \A c \in Controller :
    snap[c].step \in {"write", "redecide", "recover", "adopt"} => snap[c].file = path[c]
=============================================================================
