---------------------------- MODULE SessionStore ----------------------------
(***************************************************************************)
(* The files of one session and the runtimes that save it: the event log   *)
(* <session>.events.jsonl, the checkpoint <session>.jsonl (the "anchor"),  *)
(* the event index and the revision ledger in the branch-meta sidecar      *)
(* (internal/agent: save.go, session_events.go, branch.go).                *)
(*                                                                         *)
(* A save holds the save lock from its first to its last step and writes   *)
(* log, anchor, ledger and index one after the other; each write may fail, *)
(* tear or be the last thing its process does.  Loads and the writers of   *)
(* the other sidecar fields do not take the lock.  Transcripts are as they *)
(* are stored: the repairs NormalizeSession makes on load, and the swap of *)
(* a leading system prompt, are not modelled.                              *)
(***************************************************************************)
EXTENDS Naturals, Sequences

CONSTANTS
  Runtime,    \* the processes that have the session open
  Message,    \* message values
  None,       \* no runtime, no transcript, no sidecar in hand
  Unlocked,   \* whether loads and sidecar writers race the saves, as the code
              \* has it, or wait for them and keep them waiting
  Snapshots,  \* bound: what the conversation may be when it is saved
  MaxRev      \* bound: revisions the ledger records

ASSUME NoneAssumption ==
  /\ None \notin Runtime
  /\ None \notin Seq(Message)
ASSUME BoundAssumption ==
  /\ Snapshots \subseteq Seq(Message) \ {<<>>}
  /\ MaxRev \in Nat
  /\ Unlocked \in BOOLEAN

Transcript == Seq(Message)
Revision == Nat

VARIABLES
  log,      \* the event log: how it decodes, what it replays to, and how much
            \* of that an fsync has reached
  anchor,   \* the checkpoint's transcript, None while there is no file
  indexed,  \* whether the index records the size the log has
  ledger,   \* the revision and the content digest of the sidecar
  lock,     \* the runtime that holds the save lock, or None
  pc,       \* per runtime: the step it takes next
  base,     \* per runtime: Session.persisted, the baseline it last saw on disk
  next,     \* per runtime: the transcript being saved, or read by a load
  plan,     \* per runtime: how the save in progress writes
  touch,    \* per runtime: the sidecar a metadata writer has read, or None
  settled   \* of what a load returns: "reported" once a save of it has reported
            \* success, "recorded" if that save recorded a revision (history)

files == <<log, anchor, indexed, ledger>>
vars == <<log, anchor, indexed, ledger, lock, pc, base, next, plan, touch, settled>>

(***************************************************************************)
(* An event log is absent (no file, or an empty one), clean, torn (a       *)
(* decodable record, then bytes that do not decode) or foreign (its first  *)
(* record does not decode, and the log is never written again).            *)
(***************************************************************************)
LogState == {"absent", "clean", "torn", "foreign"}
Log == [state : LogState, text : Transcript, synced : Transcript]
NoLog == [state |-> "absent", text |-> <<>>, synced |-> <<>>]

Ledger == [rev : Revision, digest : Transcript \cup {None}]
NoLedger == [rev |-> 0, digest |-> None]

Baseline == [ok : BOOLEAN, text : Transcript \cup {None}, rev : Revision, known : BOOLEAN]
NoBaseline == [ok |-> FALSE, text |-> None, rev |-> 0, known |-> FALSE]

Mode == {"snapshot", "rewrite", "force"}
Plan == [log : {"append", "replace", "compact", "none"}, anchor : BOOLEAN, rev : Revision, mode : Mode]
NoPlan == [log |-> "none", anchor |-> FALSE, rev |-> 0, mode |-> "snapshot"]

Saving == {"log", "anchor", "record", "ack"}
PC == {"down", "idle", "loading", "touching"} \cup Saving

HasPrefix(full, prefix) ==
  /\ Len(prefix) <= Len(full)
  /\ \A i \in 1..Len(prefix) : full[i] = prefix[i]

Native(l) == l.state # "foreign"
Holds(l) == l.state \in {"clean", "torn"}

\* loadSessionMessages: the log, when it holds a record, before the anchor.
Loaded(l) == IF Holds(l) THEN l.text ELSE anchor
Durable == Loaded(log)

Init ==
  /\ log = NoLog
  /\ anchor = None
  /\ indexed = FALSE
  /\ ledger = NoLedger
  /\ lock = None
  /\ pc = [r \in Runtime |-> "down"]
  /\ base = [r \in Runtime |-> NoBaseline]
  /\ next = [r \in Runtime |-> None]
  /\ plan = [r \in Runtime |-> NoPlan]
  /\ touch = [r \in Runtime |-> NoLedger]
  /\ settled = "no"

Quiet ==
  Unlocked \/ (lock = None /\ \A q \in Runtime : pc[q] \notin {"loading", "touching"})

-----------------------------------------------------------------------------
(* Loading: the messages and the sidecar are read one after the other, and  *)
(* no lock is held.                                                         *)

LoadMessages(r) ==
  /\ pc[r] \in {"down", "idle"}
  /\ Quiet
  /\ next' = [next EXCEPT ![r] = Durable]
  /\ pc' = [pc EXCEPT ![r] = "loading"]
  /\ UNCHANGED <<log, anchor, indexed, ledger, lock, base, plan, touch, settled>>

LoadLedger(r) ==
  /\ pc[r] = "loading"
  /\ \E known \in BOOLEAN :
       base' = [base EXCEPT ![r] =
                 IF next[r] = None THEN NoBaseline
                 ELSE [ok |-> TRUE, text |-> next[r],
                       rev |-> IF known THEN ledger.rev ELSE 0, known |-> known]]
  /\ next' = [next EXCEPT ![r] = None]
  /\ pc' = [pc EXCEPT ![r] = "idle"]
  /\ UNCHANGED <<log, anchor, indexed, ledger, lock, plan, touch, settled>>

-----------------------------------------------------------------------------
(* Saving.  The conversation may have become anything since the last save:  *)
(* turns add to it, rewinds cut it, compactions replace it.  A save copies  *)
(* it under the lock and never looks at it again.                           *)

\* repairSessionEventLogTail: an index that records the log's size vouches for it.
Repaired ==
  IF log.state = "torn" /\ ~indexed THEN [log EXCEPT !.state = "clean"] ELSE log

Damaged(l) == l.state = "torn"

\* appendCoversPersistedBaseline: the disk still reaches what b stands for.
Covers(n, d, b) == b.text # <<>> /\ HasPrefix(n, b.text) /\ Len(d) >= Len(b.text)

\* As if no baseline were ever compared with the ledger's revision.
NeverStale(n, d, b) == FALSE

StaleBaseline(n, d, b) ==
  b.ok /\ b.known /\ ledger.rev # b.rev /\ d # n /\ ~Covers(n, d, b)

\* As if having loaded the file once were enough to own it.
OwnsByPath(d, b) == b.ok

OwnsPersistedState(d, b) ==
  /\ b.ok
  /\ b.text = d
  /\ ~b.known \/ ledger.rev = 0 \/ ledger.rev = b.rev \/ ledger.digest = d

\* checkSnapshotWrite: whether n may be written over d by the holder of b.
MayWrite(n, d, b, mode) ==
  \/ d = None
  \/ mode = "force"
  \/ HasPrefix(n, d) /\ ~StaleBaseline(n, d, b)
  \/ ~HasPrefix(n, d) /\ mode = "rewrite" /\ OwnsPersistedState(d, b)

UpToDate(n, d, l, mode) == mode # "force" /\ d = n /\ ~Damaged(l)
AppendOnly(n, d, l, mode) ==
  mode # "force" /\ d # None /\ d # n /\ HasPrefix(n, d) /\ ~Damaged(l) /\ Native(l)

\* As if the bytes on disk vouched for the ledger.
LedgerNeverStale(n) == FALSE
LedgerStale(n) == ledger.digest # None /\ ledger.digest # n

\* As if a damaged log could be continued.
ShapesNoRepair(n, d, l, mode, oversized) ==
  IF AppendOnly(n, d, l, mode)
  THEN IF l.state = "absent" THEN [log |-> "replace", anchor |-> FALSE]
       ELSE [log |-> IF oversized THEN "compact" ELSE "append", anchor |-> oversized]
  ELSE [anchor |-> TRUE, log |-> IF ~Native(l) THEN "none" ELSE IF mode = "force" /\ ~Holds(l) THEN "none"
                                 ELSE IF oversized THEN "compact" ELSE "replace"]

\* How a save writes: the log and whether the anchor follows.  Whether the log
\* has outgrown its content is the bytes' business and may go either way.
Shapes(n, d, l, mode, oversized) ==
  IF AppendOnly(n, d, l, mode)
  THEN IF l.state = "absent" THEN [log |-> "replace", anchor |-> FALSE]
       ELSE IF oversized THEN [log |-> "compact", anchor |-> TRUE]
       ELSE [log |-> "append", anchor |-> FALSE]
  ELSE [anchor |-> TRUE,
        log |-> IF ~Native(l) THEN "none"
                ELSE IF mode = "force" THEN IF Holds(l) THEN "compact" ELSE "none"
                ELSE IF Damaged(l) \/ (oversized /\ Holds(l)) THEN "compact"
                ELSE "replace"]

\* As if the revision were left unset when it is not read back.
PersistedUnread(t) == [ok |-> TRUE, text |-> t, rev |-> None, known |-> FALSE]

Persisted(t) == [ok |-> TRUE, text |-> t, rev |-> ledger.rev, known |-> TRUE]

\* save() under the locks, up to its first write.
BeginSave(r, n, mode) ==
  LET d == Loaded(Repaired)
  IN
  /\ pc[r] = "idle"
  /\ lock = None
  /\ Quiet
  /\ log' = Repaired
  /\ indexed' \in IF Repaired = log THEN {indexed} ELSE BOOLEAN
  /\ IF ~MayWrite(n, d, base[r], mode)
     THEN UNCHANGED <<lock, pc, base, next, plan, settled>>
     ELSE IF UpToDate(n, d, Repaired, mode) /\ ~LedgerStale(n)
     THEN /\ base' = [base EXCEPT ![r] = Persisted(n)]
          /\ settled' = IF settled = "no" THEN "reported" ELSE settled
          /\ UNCHANGED <<lock, pc, next, plan>>
     ELSE /\ lock' = r
          /\ next' = [next EXCEPT ![r] = n]
          /\ \E oversized \in BOOLEAN :
               LET shape == Shapes(n, d, Repaired, mode, oversized) IN
               plan' = [plan EXCEPT ![r] =
                         [log |-> shape.log, anchor |-> shape.anchor, mode |-> mode,
                          rev |-> IF d = None /\ mode # "force" THEN 0 ELSE ledger.rev]]
          /\ pc' = [pc EXCEPT ![r] = IF UpToDate(n, d, Repaired, mode) THEN "record" ELSE "log"]
          /\ UNCHANGED <<base, settled>>
  /\ UNCHANGED <<anchor, ledger, touch>>

\* Where the save goes when the log is written.
AfterLog(r) == IF plan[r].anchor THEN "anchor" ELSE "record"

\* An append record chains only onto the transcript it was measured against,
\* and not at all behind bytes that do not decode.
Appended(l, n) ==
  IF l.state = "clean" /\ HasPrefix(n, l.text) THEN [l EXCEPT !.text = n] ELSE [l EXCEPT !.state = "torn"]

WriteLog(r) ==
  /\ pc[r] = "log"
  /\ log' = CASE plan[r].log = "none" -> log
              [] plan[r].log = "compact" -> [state |-> "clean", text |-> next[r], synced |-> next[r]]
              [] plan[r].log = "append" -> Appended(log, next[r])
              [] plan[r].log = "replace" ->
                   IF Damaged(log) THEN log
                   ELSE [state |-> "clean", text |-> next[r], synced |-> next[r]]
  /\ indexed' = IF plan[r].log = "none" THEN indexed ELSE FALSE
  /\ pc' = [pc EXCEPT ![r] = AfterLog(r)]
  /\ UNCHANGED <<anchor, ledger, lock, base, next, plan, touch>>
  /\ settled' = IF Durable' = Durable THEN settled ELSE "no"

WriteAnchor(r) ==
  /\ pc[r] = "anchor"
  /\ anchor' = next[r]
  /\ pc' = [pc EXCEPT ![r] = "record"]
  /\ UNCHANGED <<log, indexed, ledger, lock, base, next, plan, touch>>
  /\ settled' = IF Durable' = Durable THEN settled ELSE "no"

\* recordSessionContentRevision, up to the sidecar's rename.
Record(r) ==
  LET known == IF ledger.rev < plan[r].rev THEN plan[r].rev ELSE ledger.rev IN
  /\ pc[r] = "record"
  /\ known < MaxRev
  /\ ledger' = [rev |-> known + 1, digest |-> next[r]]
  /\ pc' = [pc EXCEPT ![r] = "ack"]
  /\ UNCHANGED <<log, anchor, indexed, lock, base, next, plan, touch, settled>>

\* The holder gives the lock back and forgets the save it was in.
EndSave(r) ==
  /\ lock' = None
  /\ next' = [next EXCEPT ![r] = None]
  /\ plan' = [plan EXCEPT ![r] = NoPlan]
  /\ pc' = [pc EXCEPT ![r] = "idle"]

\* The revision is read back from the sidecar, the index is written if it can
\* be, and the session's baseline moves to what was saved.
Acknowledge(r) ==
  /\ pc[r] = "ack"
  /\ indexed' \in {indexed, Native(log)}
  /\ base' = [base EXCEPT ![r] = Persisted(next[r])]
  /\ settled' = "recorded"
  /\ EndSave(r)
  /\ UNCHANGED <<log, anchor, ledger, touch>>

(***************************************************************************)
(* Failures.  A write that fails ends the save with an error.  An append   *)
(* that fails half way leaves its bytes: behind a decodable record they    *)
(* are a torn tail, at the head of the file they make the log foreign.     *)
(* Compactions and anchors are renamed into place and cannot tear.         *)
(***************************************************************************)
Tear(r) ==
  /\ pc[r] = "log"
  /\ plan[r].log \in {"append", "replace"}
  /\ log' = [log EXCEPT !.state = IF Holds(log) THEN "torn" ELSE "foreign"]
  /\ indexed' \in IF indexed THEN {FALSE} ELSE BOOLEAN
  /\ EndSave(r)
  /\ UNCHANGED <<anchor, ledger, base, touch, settled>>

FailSave(r) ==
  /\ pc[r] \in {"log", "anchor", "record"}
  /\ EndSave(r)
  /\ UNCHANGED <<log, anchor, indexed, ledger, base, touch, settled>>

\* The process dies: its memory is gone and the system takes its lock back.
Crash(r) ==
  /\ pc[r] # "down"
  /\ pc' = [pc EXCEPT ![r] = "down"]
  /\ lock' = IF lock = r THEN None ELSE lock
  /\ base' = [base EXCEPT ![r] = NoBaseline]
  /\ next' = [next EXCEPT ![r] = None]
  /\ plan' = [plan EXCEPT ![r] = NoPlan]
  /\ touch' = [touch EXCEPT ![r] = NoLedger]
  /\ UNCHANGED <<log, anchor, indexed, ledger, settled>>

\* The machine loses power: of what was appended since the last fsync any part
\* may be missing, and the sidecar, which is never synced, may be gone.
PowerCut ==
  /\ \E n \in Len(log.synced)..Len(log.text), state \in {"clean", "torn"} :
       log' = IF Holds(log) THEN [log EXCEPT !.text = SubSeq(@, 1, n), !.state = state] ELSE log
  /\ indexed' \in BOOLEAN
  /\ ledger' \in {ledger, NoLedger}
  /\ lock' = None
  /\ pc' = [r \in Runtime |-> "down"]
  /\ base' = [r \in Runtime |-> NoBaseline]
  /\ next' = [r \in Runtime |-> None]
  /\ plan' = [r \in Runtime |-> NoPlan]
  /\ touch' = [r \in Runtime |-> NoLedger]
  /\ UNCHANGED anchor
  /\ settled' = IF Durable' = Durable THEN settled ELSE "no"

-----------------------------------------------------------------------------
(* TouchBranchMeta, MarkSessionInFlightTurn, UpdateSessionMeta: the sidecar *)
(* is read, and renamed into place with the revision and digest it had, or  *)
(* newer ones found by the re-read of saveBranchMeta.  They hold the save   *)
(* lock of their own process and not the file's.                            *)

TouchRead(r) ==
  /\ pc[r] = "idle"
  /\ Quiet
  /\ touch' = [touch EXCEPT ![r] = ledger]
  /\ pc' = [pc EXCEPT ![r] = "touching"]
  /\ UNCHANGED <<log, anchor, indexed, ledger, lock, base, next, plan, settled>>

TouchWrite(r) ==
  /\ pc[r] = "touching"
  /\ ledger' = touch[r]
  /\ touch' = [touch EXCEPT ![r] = NoLedger]
  /\ pc' = [pc EXCEPT ![r] = "idle"]
  /\ UNCHANGED <<log, anchor, indexed, lock, base, next, plan, settled>>

-----------------------------------------------------------------------------

Step(r) ==
  \/ LoadMessages(r)
  \/ LoadLedger(r)
  \/ \E n \in Snapshots, mode \in Mode : BeginSave(r, n, mode)
  \/ WriteLog(r)
  \/ WriteAnchor(r)
  \/ Record(r)
  \/ Acknowledge(r)
  \/ Tear(r)
  \/ FailSave(r)
  \/ Crash(r)
  \/ TouchRead(r)
  \/ TouchWrite(r)

Next == PowerCut \/ \E r \in Runtime : Step(r)

Spec == Init /\ [][Next]_vars

-----------------------------------------------------------------------------

TypeOK ==
  /\ log \in Log
  /\ anchor \in Transcript \cup {None}
  /\ indexed \in BOOLEAN
  /\ ledger \in Ledger
  /\ lock \in Runtime \cup {None}
  /\ pc \in [Runtime -> PC]
  /\ base \in [Runtime -> Baseline]
  /\ next \in [Runtime -> Transcript \cup {None}]
  /\ plan \in [Runtime -> Plan]
  /\ touch \in [Runtime -> Ledger]
  /\ settled \in {"no", "reported", "recorded"}

(***************************************************************************)
(* The store implements the durable transcript.                            *)
(***************************************************************************)
Stable == IF Holds(log) THEN log.synced ELSE anchor
Pending == IF lock = None THEN None ELSE next[lock]
Known == [r \in Runtime |-> IF pc[r] = "loading" THEN next[r] ELSE base[r].text]

Promise == INSTANCE DurableTranscript WITH
  Client <- Runtime, Text <- Transcript,
  text <- Durable, stable <- Stable, owner <- lock, pending <- Pending, known <- Known

PromiseKept == Promise!Spec

-----------------------------------------------------------------------------

\* A save of r is putting a new transcript in place of the one on disk.
Overwrites(r) ==
  /\ lock = r
  /\ lock' = r
  /\ Durable # None
  /\ Durable' # Durable

(***************************************************************************)
(* A save that is not forced keeps every message that is on disk, whoever  *)
(* wrote it, unless it is a rewrite and its session's baseline is exactly  *)
(* what it replaces (checkSnapshotWrite, ownsPersistedState): neither a    *)
(* crash nor a failed write of another runtime in between may fool it.     *)
(***************************************************************************)
OverwritesAreOwned ==
  [][\A r \in Runtime :
       Overwrites(r) /\ plan[r].mode # "force"
         => \/ HasPrefix(Durable', Durable)
            \/ plan[r].mode = "rewrite" /\ base[r].text = Durable]_vars

(***************************************************************************)
(* "A rewind cut below [the baseline] and appending would resurrect the    *)
(* suffix another runtime removed" (save.go:443): a save whose session's   *)
(* baseline is longer than the transcript another save has put in its      *)
(* place and reported does not bring the baseline back.                    *)
(***************************************************************************)
RewindsStayRewound ==
  [][\A r \in Runtime :
       ~ /\ Overwrites(r)
         /\ settled = "recorded"
         /\ plan[r].mode # "force"
         /\ base[r].known
         /\ HasPrefix(base[r].text, Durable)
         /\ base[r].text # Durable
         /\ HasPrefix(Durable', base[r].text)]_vars

(***************************************************************************)
(* Once a save has reported success and nothing is being written, a ledger *)
(* with a digest describes the transcript on disk: a record that failed    *)
(* after the bytes had landed is made up for by the next save, even one    *)
(* that finds nothing to write (the ledgerStale path of save()).           *)
(***************************************************************************)
LedgerDescribesDisk ==
  lock = None /\ settled # "no" /\ ledger.digest # None => ledger.digest = Durable
=============================================================================
