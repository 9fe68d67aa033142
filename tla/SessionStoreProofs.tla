------------------------- MODULE SessionStoreProofs -------------------------
(***************************************************************************)
(* Proofs about SessionStore, for any number of runtimes and messages and  *)
(* any bound.  The promise to the clients (DurableTranscript) and the rule *)
(* that only owned transcripts are overwritten hold however loads and      *)
(* sidecar writers interleave with saves; that the ledger describes the    *)
(* disk, and that rewinds stay rewound, only when they do not.             *)
(***************************************************************************)
EXTENDS SessionStore, TLAPS

(***************************************************************************)
(* Prefixes.                                                               *)
(***************************************************************************)
LEMMA PrefixReflexive ==
  ASSUME NEW t \in Transcript
  PROVE  HasPrefix(t, t)
BY DEF HasPrefix, Transcript

LEMMA PrefixTransitive ==
  ASSUME NEW s \in Transcript, NEW t \in Transcript, NEW u \in Transcript,
         HasPrefix(s, t), HasPrefix(t, u)
  PROVE  HasPrefix(s, u)
BY DEF HasPrefix, Transcript

LEMMA PrefixOfSameLength ==
  ASSUME NEW s \in Transcript, NEW t \in Transcript,
         HasPrefix(s, t), Len(t) >= Len(s)
  PROVE  s = t
BY DEF HasPrefix, Transcript

LEMMA SubSeqIsPrefix ==
  ASSUME NEW t \in Transcript, NEW n \in 0..Len(t)
  PROVE  /\ SubSeq(t, 1, n) \in Transcript
         /\ Len(SubSeq(t, 1, n)) = n
         /\ HasPrefix(t, SubSeq(t, 1, n))
         /\ \A s \in Transcript : HasPrefix(t, s) /\ Len(s) <= n => HasPrefix(SubSeq(t, 1, n), s)
BY DEF HasPrefix, Transcript

LEMMA NoneIsNoTranscript == None \notin Transcript /\ None \notin Runtime
BY NoneAssumption DEF Transcript

-----------------------------------------------------------------------------
(***************************************************************************)
(* The inductive invariant of the saves.  It says what a save in progress  *)
(* knows: it has the lock to itself, its plan fits the log it found, and   *)
(* once it has passed the write that counts a load returns what it saves.  *)
(***************************************************************************)
PlanFits(r) ==
  /\ plan[r].log = "append" => log.state = "clean" /\ HasPrefix(next[r], log.text)
  /\ plan[r].log = "replace" => log.state \in {"absent", "clean"}
  /\ plan[r].log = "none" => ~Holds(log) /\ plan[r].anchor

SaveInv ==
  /\ \A r \in Runtime : pc[r] \in Saving <=> lock = r
  /\ \A r \in Runtime : pc[r] \in Saving => next[r] \in Transcript
  /\ Holds(log) => HasPrefix(log.text, log.synced)
  /\ \A r \in Runtime : pc[r] = "log" => PlanFits(r)
  /\ \A r \in Runtime : pc[r] = "anchor" /\ Holds(log) => log.text = next[r]
  /\ \A r \in Runtime : pc[r] \in {"record", "ack"} => Durable = next[r]

(***************************************************************************)
(* What a save that is not forced may overwrite, from its decision to the  *)
(* write that counts.                                                      *)
(***************************************************************************)
OwnInv ==
  \A r \in Runtime :
    pc[r] \in {"log", "anchor"} /\ plan[r].mode # "force" /\ Durable # None /\ Durable # next[r]
      => \/ HasPrefix(next[r], Durable)
         \/ plan[r].mode = "rewrite" /\ base[r].text = Durable

(***************************************************************************)
(* When loads and sidecar writers wait for the saves, a revision stands    *)
(* for one transcript: no baseline is ahead of the ledger, a recorded save *)
(* is ahead of every baseline but the one it leaves behind.                *)
(***************************************************************************)
Apart ==
  \A r \in Runtime : pc[r] \in {"loading", "touching"} =>
    /\ lock = None
    /\ \A q \in Runtime : pc[q] \in {"loading", "touching"} => q = r
    /\ pc[r] = "touching" => touch[r] = ledger
    /\ pc[r] = "loading" => next[r] = Durable

Described ==
  /\ settled # "no" /\ ledger.digest # None => ledger.digest = Durable
  /\ \A r \in Runtime : pc[r] = "ack" => ledger.digest = next[r]

Behind ==
  /\ \A r \in Runtime : base[r].known =>
       base[r].ok /\ base[r].rev <= ledger.rev /\ base[r].text \in Transcript
  /\ \A r, q \in Runtime : pc[r] = "ack" /\ base[q].known => base[q].rev < ledger.rev

OneText ==
  \A r \in Runtime :
    settled = "recorded" /\ base[r].known /\ base[r].rev = ledger.rev => base[r].text = Durable

Reviving(r) ==
  /\ settled = "recorded"
  /\ plan[r].mode # "force"
  /\ Durable # None
  /\ Durable # next[r]
  /\ base[r].known
  /\ HasPrefix(base[r].text, Durable)
  /\ base[r].text # Durable
  /\ HasPrefix(next[r], base[r].text)

Unrevived == \A r \in Runtime : pc[r] \in {"log", "anchor"} => ~Reviving(r)

QuietInv == Apart /\ Described /\ Behind /\ OneText /\ Unrevived

-----------------------------------------------------------------------------
(***************************************************************************)
(* The saves: one step per action.                                         *)
(***************************************************************************)
LEMMA SavesStart == Init => TypeOK /\ SaveInv
<1> SUFFICES ASSUME Init PROVE TypeOK /\ SaveInv
  OBVIOUS
<1> USE NoneIsNoTranscript
<1>1. <<>> \in Transcript
  BY DEF Transcript
<1>2. NoLog \in Log /\ ~Holds(NoLog) /\ NoLedger \in Ledger
  BY <1>1 DEF NoLog, Log, LogState, Holds, NoLedger, Ledger, Revision
<1>3. NoBaseline \in Baseline /\ NoPlan \in Plan
  BY DEF NoBaseline, Baseline, NoPlan, Plan, Mode, Revision
<1>4. TypeOK
  BY <1>2, <1>3 DEF Init, TypeOK, PC, Saving
<1>5. SaveInv
  BY <1>2 DEF Init, SaveInv, Saving
<1>6. QED
  BY <1>4, <1>5

LEMMA SavesStep ==
  ASSUME TypeOK, SaveInv, [Next]_vars
  PROVE  TypeOK' /\ SaveInv'
<1> USE NoneIsNoTranscript, BoundAssumption
<1> USE DEF TypeOK, SaveInv, PC, Saving, PlanFits
<1>1. ASSUME NEW r \in Runtime, LoadMessages(r) PROVE TypeOK' /\ SaveInv'
  BY <1>1 DEF LoadMessages, Durable, Loaded, Holds, Log
<1>2. ASSUME NEW r \in Runtime, LoadLedger(r) PROVE TypeOK' /\ SaveInv'
  BY <1>2 DEF LoadLedger, Durable, Loaded, Holds, NoBaseline, Baseline, Ledger, Revision
<1>3. ASSUME NEW r \in Runtime, NEW n \in Snapshots, NEW mode \in Mode, BeginSave(r, n, mode)
      PROVE  TypeOK' /\ SaveInv'
  <2>1. n \in Transcript
    BY DEF Transcript
  <2> DEFINE d == Loaded(Repaired)
  <2>2. Repaired \in Log /\ Repaired.text = log.text /\ Repaired.synced = log.synced
        /\ (Holds(Repaired) <=> Holds(log)) /\ log' = Repaired
    BY <1>3 DEF BeginSave, Repaired, Log, LogState, Holds
  <2>3. Durable' = d /\ d = Durable
    BY <1>3, <2>2 DEF BeginSave, Durable, Loaded
  <2>4. CASE lock' = lock /\ pc' = pc /\ next' = next /\ plan' = plan
    <3>0. Persisted(n) \in Baseline
      BY <2>1 DEF Persisted, Baseline, Ledger, Revision
    <3>1. base' \in [Runtime -> Baseline] /\ settled' \in {"no", "reported", "recorded"}
      <4>1. \/ UNCHANGED <<base, settled>>
            \/ /\ base' = [base EXCEPT ![r] = Persisted(n)]
               /\ settled' = IF settled = "no" THEN "reported" ELSE settled
        BY <1>3 DEF BeginSave
      <4>2. QED
        BY <3>0, <4>1
    <3>2. TypeOK'
      BY <1>3, <2>2, <2>4, <3>1 DEF BeginSave
    <3>3. \A q \in Runtime : pc[q] \notin Saving
      BY <1>3 DEF BeginSave
    <3>4. SaveInv'
      BY <2>2, <2>4, <3>3
    <3>5. QED
      BY <3>2, <3>4
  <2>5. CASE ~ (lock' = lock /\ pc' = pc /\ next' = next /\ plan' = plan)
    <3>1. /\ lock' = r
          /\ next' = [next EXCEPT ![r] = n]
          /\ UNCHANGED <<base, settled>>
          /\ pc' = [pc EXCEPT ![r] = IF UpToDate(n, d, Repaired, mode) THEN "record" ELSE "log"]
          /\ MayWrite(n, d, base[r], mode)
      BY <1>3, <2>5 DEF BeginSave
    <3>2. PICK oversized \in BOOLEAN :
            plan' = [plan EXCEPT ![r] =
                      [log |-> Shapes(n, d, Repaired, mode, oversized).log,
                       anchor |-> Shapes(n, d, Repaired, mode, oversized).anchor, mode |-> mode,
                       rev |-> IF d = None /\ mode # "force" THEN 0 ELSE ledger.rev]]
      BY <1>3, <2>5 DEF BeginSave
    <3> DEFINE shape == Shapes(n, d, Repaired, mode, oversized)
    <3>3. shape.log \in {"append", "replace", "compact", "none"} /\ shape.anchor \in BOOLEAN
      BY DEF Shapes
    <3>4. TypeOK'
      BY <1>3, <2>1, <2>2, <3>1, <3>2, <3>3 DEF BeginSave, Plan, Ledger, Revision
    <3>5. \A q \in Runtime : pc[q] \notin Saving
      BY <1>3 DEF BeginSave
    <3>6. \A q \in Runtime : q # r => pc'[q] = pc[q]
      BY <3>1
    <3>7. pc'[r] \in {"log", "record"} /\ (pc'[r] = "record" => n = d)
          /\ next'[r] = n /\ plan'[r].log = shape.log /\ plan'[r].anchor = shape.anchor
      BY <3>1, <3>2 DEF UpToDate
    <3>8. shape.log = "append" => Repaired.state = "clean" /\ HasPrefix(n, Repaired.text)
      BY <2>2 DEF Shapes, AppendOnly, Damaged, Native, Log, LogState, Loaded, Holds
    <3>9. shape.log = "replace" => Repaired.state \in {"absent", "clean"}
      BY <2>2 DEF Shapes, AppendOnly, Damaged, Native, Log, LogState, Holds
    <3>10. shape.log = "none" => ~Holds(Repaired) /\ shape.anchor
      BY <2>2 DEF Shapes, AppendOnly, Native, Holds
    <3>11. SaveInv'
      <4>1. \A q \in Runtime : (pc[q] \in Saving)' <=> lock' = q
        BY <3>1, <3>5, <3>6, <3>7
      <4>2. \A q \in Runtime : (pc[q] \in Saving)' => q = r
        BY <3>5, <3>6
      <4>3. (Holds(log) => HasPrefix(log.text, log.synced))'
        BY <2>2
      <4>4. (pc[r] = "log" => PlanFits(r))'
        BY <2>2, <3>7, <3>8, <3>9, <3>10
      <4>5. (pc[r] \in {"record", "ack"} => Durable = next[r])'
        BY <2>3, <3>7
      <4>6. QED
        BY <2>1, <3>7, <4>1, <4>2, <4>3, <4>4, <4>5
    <3>12. QED
      BY <3>4, <3>11
  <2>6. QED
    BY <2>4, <2>5
<1>4. ASSUME NEW r \in Runtime, WriteLog(r) PROVE TypeOK' /\ SaveInv'
  <2>1. /\ next[r] \in Transcript /\ pc[r] = "log" /\ lock = r
        /\ PlanFits(r)
        /\ plan[r].log \in {"append", "replace", "compact", "none"}
    BY <1>4 DEF WriteLog, Plan
  <2>2. log' = log \/ log' = [log EXCEPT !.text = next[r]]
        \/ log' = [state |-> "clean", text |-> next[r], synced |-> next[r]]
    BY <1>4, <2>1 DEF WriteLog, Appended
  <2>3. log' \in Log
    BY <2>1, <2>2 DEF Log, LogState
  <2>4. \/ log' = log /\ plan[r].log = "none" /\ plan[r].anchor
        \/ Holds(log') /\ log'.text = next[r] /\ HasPrefix(next[r], log'.synced)
    <3>1. CASE plan[r].log = "none"
      BY <1>4, <2>1, <3>1 DEF WriteLog
    <3>2. CASE plan[r].log = "append"
      <4>1. log' = [log EXCEPT !.text = next[r]] /\ log.state = "clean"
        BY <1>4, <2>1, <3>2 DEF WriteLog, Appended
      <4>2. HasPrefix(next[r], log.synced)
        BY <2>1, <3>2, <4>1, PrefixTransitive DEF Holds, Log, HasPrefix, Transcript
      <4>3. QED
        BY <4>1, <4>2 DEF Holds, Log
    <3>3. CASE plan[r].log \in {"replace", "compact"}
      BY <1>4, <2>1, <3>3, PrefixReflexive DEF WriteLog, Damaged, Holds
    <3>4. QED
      BY <2>1, <3>1, <3>2, <3>3
  <2>5. pc' = [pc EXCEPT ![r] = AfterLog(r)] /\ AfterLog(r) \in {"anchor", "record"}
        /\ (AfterLog(r) = "record" => ~plan[r].anchor)
        /\ UNCHANGED <<anchor, ledger, lock, base, next, plan, touch>>
    BY <1>4 DEF WriteLog, AfterLog
  <2>6. TypeOK'
    <3>1. indexed' \in BOOLEAN /\ settled' \in {"no", "reported", "recorded"}
      BY <1>4 DEF WriteLog
    <3>2. pc' \in [Runtime -> PC]
      BY <2>5
    <3>3. QED
      BY <2>3, <2>5, <3>1, <3>2
  <2>7. \A q \in Runtime : q # r => pc'[q] = pc[q] /\ pc'[q] \notin Saving
    BY <2>1, <2>5
  <2>8. Holds(log') => HasPrefix(log'.text, log'.synced)
    BY <2>4
  <2>9. Holds(log') => log'.text = next[r]
    BY <2>1, <2>4
  <2>10. pc'[r] = "record" => Durable' = next[r]
    BY <2>1, <2>4, <2>5 DEF Durable, Loaded
  <2>11. SaveInv'
    BY <2>1, <2>5, <2>7, <2>8, <2>9, <2>10
  <2>12. QED
    BY <2>6, <2>11
<1>5. ASSUME NEW r \in Runtime, WriteAnchor(r) PROVE TypeOK' /\ SaveInv'
  BY <1>5 DEF WriteAnchor, Durable, Loaded, Holds, Log
<1>6. ASSUME NEW r \in Runtime, Record(r) PROVE TypeOK' /\ SaveInv'
  BY <1>6 DEF Record, Durable, Loaded, Holds, Ledger, Revision, Plan, Transcript
<1>7. ASSUME NEW r \in Runtime, Acknowledge(r) PROVE TypeOK' /\ SaveInv'
  <2>1. Persisted(next[r]) \in Baseline /\ NoPlan \in Plan
    BY <1>7 DEF Acknowledge, Persisted, Baseline, Ledger, Revision, NoPlan, Plan, Mode
  <2>2. TypeOK'
    BY <1>7, <2>1 DEF Acknowledge, EndSave, Native
  <2>3. \A q \in Runtime : (pc[q] \notin Saving)' /\ lock' # q
    <3>1. lock = r /\ lock' = None /\ pc' = [pc EXCEPT ![r] = "idle"]
      BY <1>7 DEF Acknowledge, EndSave
    <3>2. \A q \in Runtime : q # r => pc[q] \notin Saving
      BY <3>1
    <3>3. QED
      BY <3>1, <3>2
  <2>4. SaveInv'
    BY <1>7, <2>3 DEF Acknowledge, Holds
  <2>5. QED
    BY <2>2, <2>4
<1>8. ASSUME NEW r \in Runtime, Tear(r) PROVE TypeOK' /\ SaveInv'
  <2>1. log' \in Log /\ NoPlan \in Plan
    BY <1>8 DEF Tear, Log, LogState, NoPlan, Plan, Mode, Revision
  <2>2. TypeOK'
    BY <1>8, <2>1 DEF Tear, EndSave
  <2>3. \A q \in Runtime : (pc[q] \notin Saving)' /\ lock' # q
    <3>1. lock = r /\ lock' = None /\ pc' = [pc EXCEPT ![r] = "idle"]
      BY <1>8 DEF Tear, EndSave
    <3>2. \A q \in Runtime : q # r => pc[q] \notin Saving
      BY <3>1
    <3>3. QED
      BY <3>1, <3>2
  <2>4. SaveInv'
    BY <1>8, <2>3 DEF Tear, Holds, Log
  <2>5. QED
    BY <2>2, <2>4
<1>9. ASSUME NEW r \in Runtime, FailSave(r) PROVE TypeOK' /\ SaveInv'
  BY <1>9 DEF FailSave, EndSave, Durable, Loaded, Holds, NoPlan, Plan, Mode, Revision
<1>10. ASSUME NEW r \in Runtime, Crash(r) PROVE TypeOK' /\ SaveInv'
  BY <1>10 DEF Crash, Durable, Loaded, Holds, NoPlan, Plan, Mode, Revision, NoBaseline, Baseline, NoLedger, Ledger
<1>11. ASSUME NEW r \in Runtime, TouchRead(r) PROVE TypeOK' /\ SaveInv'
  BY <1>11 DEF TouchRead, Durable, Loaded, Holds
<1>12. ASSUME NEW r \in Runtime, TouchWrite(r) PROVE TypeOK' /\ SaveInv'
  BY <1>12 DEF TouchWrite, Durable, Loaded, Holds, NoLedger, Ledger, Revision
<1>13. CASE PowerCut
  <2>1. \A q \in Runtime : pc'[q] \notin Saving /\ lock' # q
    BY <1>13 DEF PowerCut
  <2>2. log' \in Log /\ (Holds(log') => HasPrefix(log'.text, log'.synced))
    <3>1. PICK n \in Len(log.synced)..Len(log.text), state \in {"clean", "torn"} :
            log' = IF Holds(log) THEN [log EXCEPT !.text = SubSeq(@, 1, n), !.state = state] ELSE log
      BY <1>13 DEF PowerCut
    <3>2. n \in 0..Len(log.text) /\ Len(log.synced) <= n
      BY <3>1 DEF Log, Transcript
    <3>3. SubSeq(log.text, 1, n) \in Transcript
      BY <3>2, SubSeqIsPrefix DEF Log
    <3>4. HasPrefix(log.text, log.synced) => HasPrefix(SubSeq(log.text, 1, n), log.synced)
      BY <3>2, SubSeqIsPrefix DEF Log
    <3>5. QED
      BY <3>1, <3>3, <3>4 DEF Log, LogState, Holds
  <2>3. NoBaseline \in Baseline /\ NoPlan \in Plan /\ NoLedger \in Ledger
    BY DEF NoBaseline, Baseline, NoPlan, Plan, Mode, Revision, NoLedger, Ledger
  <2>4. TypeOK'
    BY <1>13, <2>2, <2>3 DEF PowerCut
  <2>5. SaveInv'
    BY <2>1, <2>2
  <2>6. QED
    BY <2>4, <2>5
<1>14. CASE UNCHANGED vars
  BY <1>14 DEF vars, Durable, Loaded, Holds
<1>15. QED
  <2> HIDE DEF TypeOK, SaveInv
  <2> QED
    BY <1>1, <1>2, <1>3, <1>4, <1>5, <1>6, <1>7, <1>8, <1>9, <1>10, <1>11, <1>12, <1>13, <1>14
       DEF Next, Step

THEOREM SavesInvariant == Spec => [](TypeOK /\ SaveInv)
<1>1. Init => TypeOK /\ SaveInv
  BY SavesStart
<1>2. TypeOK /\ SaveInv /\ [Next]_vars => (TypeOK /\ SaveInv)'
  BY SavesStep
<1>3. QED
  BY <1>1, <1>2, PTL DEF Spec

\* Type correctness of the files and of every runtime's memory of them.
THEOREM TypeCorrect == Spec => []TypeOK
BY SavesInvariant, PTL

-----------------------------------------------------------------------------
(***************************************************************************)
(* The refinement: what each action does to the transcript promised.       *)
(***************************************************************************)
LEMMA PromiseStart == Init => Promise!Init
BY DEF Init, Promise!Init, Durable, Loaded, Stable, Pending, Known, Holds, NoLog, NoBaseline

LEMMA PrefixAsPromised ==
  ASSUME NEW p \in Transcript, NEW t \in Transcript, HasPrefix(t, p)
  PROVE  Promise!Prefix(p, t)
BY NoneIsNoTranscript DEF Promise!Prefix, HasPrefix

\* Steps that keep the lock where it is and save nothing new.
LEMMA BystanderStep ==
  ASSUME TypeOK, SaveInv, TypeOK', NEW r \in Runtime,
         UNCHANGED <<log, anchor, lock, plan>>, pc[r] \notin Saving,
         \A q \in Runtime : q # r => next'[q] = next[q] /\ base'[q] = base[q] /\ pc'[q] = pc[q],
         Known'[r] \in {Known[r], Durable}
  PROVE  Promise!Next \/ UNCHANGED Promise!vars
<1>1. UNCHANGED <<Durable, Stable, Pending>>
  BY NoneIsNoTranscript DEF Durable, Stable, Pending, Loaded, Holds, SaveInv, TypeOK
<1>2. Known' = [Known EXCEPT ![r] = Known'[r]]
  BY DEF Known
<1>3. CASE Known'[r] = Known[r]
  <2>1. Known' = Known
    BY <1>2, <1>3 DEF Known
  <2>2. QED
    BY <1>1, <2>1 DEF Promise!vars
<1>4. CASE Known'[r] = Durable
  <2>1. Promise!Load(r)
    BY <1>1, <1>2, <1>4 DEF Promise!Load
  <2>2. QED
    BY <2>1 DEF Promise!Next
<1>5. QED
  BY <1>3, <1>4

\* Steps by which the holder gives its save up.
LEMMA AbandonStep ==
  ASSUME TypeOK, SaveInv, NEW r \in Runtime, lock = r, EndSave(r), pc[r] \in Saving,
         UNCHANGED <<Durable, Stable, base>>
  PROVE  Promise!Next
<1>1. Known' = Known
  BY DEF Known, EndSave, TypeOK, Saving
<1>2. Pending' = None /\ lock' = None
  BY DEF Pending, EndSave
<1>3. Promise!Abandon
  BY <1>1, <1>2, NoneIsNoTranscript DEF Promise!Abandon
<1>4. QED
  BY <1>3 DEF Promise!Next

\* Steps by which the save takes effect.
LEMMA LandStep ==
  ASSUME TypeOK, SaveInv, NEW r \in Runtime, lock = r, pc[r] \in Saving, pc'[r] \in Saving,
         \A q \in Runtime : q # r => pc'[q] = pc[q],
         UNCHANGED <<lock, next, base>>, Durable' = next[r],
         Stable' \in {Stable, next[r]},
         Stable' = None \/ (Stable' \in Transcript /\ HasPrefix(next[r], Stable'))
  PROVE  Promise!Next
<1>1. next[r] \in Transcript /\ r # None
  BY NoneIsNoTranscript DEF SaveInv
<1>2. Pending = next[r] /\ Pending' = next[r]
  BY <1>1 DEF Pending
<1>3. Known' = Known
  BY DEF Known, Saving, TypeOK
<1>4. Promise!Prefix(Stable', Durable')
  BY <1>1, PrefixAsPromised DEF Promise!Prefix
<1>5. Promise!Land
  BY <1>1, <1>2, <1>3, <1>4 DEF Promise!Land
<1>6. QED
  BY <1>5 DEF Promise!Next

LEMMA PromiseStep ==
  ASSUME TypeOK, SaveInv, TypeOK', SaveInv', [Next]_vars
  PROVE  Promise!Next \/ UNCHANGED Promise!vars
<1> USE NoneIsNoTranscript
<1>1. ASSUME NEW r \in Runtime, LoadMessages(r) PROVE Promise!Next \/ UNCHANGED Promise!vars
  <2>1. pc[r] \notin Saving /\ Known'[r] = Durable
    BY <1>1 DEF LoadMessages, Saving, Known, TypeOK
  <2>2. QED
    BY <1>1, <2>1, BystanderStep DEF LoadMessages, TypeOK
<1>2. ASSUME NEW r \in Runtime, LoadLedger(r) PROVE Promise!Next \/ UNCHANGED Promise!vars
  <2>1. pc[r] \notin Saving /\ Known'[r] = Known[r]
    BY <1>2 DEF LoadLedger, Saving, Known, TypeOK, NoBaseline
  <2>2. QED
    BY <1>2, <2>1, BystanderStep DEF LoadLedger, TypeOK
<1>3. ASSUME NEW r \in Runtime, NEW n \in Snapshots, NEW mode \in Mode, BeginSave(r, n, mode)
      PROVE  Promise!Next \/ UNCHANGED Promise!vars
  <2> DEFINE d == Loaded(Repaired)
  <2>1. n \in Transcript
    BY BoundAssumption DEF Transcript
  <2>2. d = Durable /\ UNCHANGED <<Durable, Stable>>
    BY <1>3 DEF BeginSave, Repaired, Durable, Stable, Loaded, Holds, TypeOK, Log
  <2>3. pc[r] = "idle" /\ lock = None
    BY <1>3 DEF BeginSave
  <2>4. CASE UNCHANGED <<lock, pc, base, next, plan>>
    <3>1. UNCHANGED Promise!vars
      BY <2>2, <2>4 DEF Promise!vars, Pending, Known
    <3>2. QED
      BY <3>1
  <2>5. CASE UpToDate(n, d, Repaired, mode) /\ base' = [base EXCEPT ![r] = Persisted(n)]
             /\ UNCHANGED <<lock, pc, next, plan>>
    <3>1. Known' = [Known EXCEPT ![r] = n]
      BY <2>3, <2>5 DEF Known, Persisted, TypeOK
    <3>2. n = Durable
      BY <2>2, <2>5 DEF UpToDate
    <3>3. Promise!Load(r)
      BY <2>2, <2>5, <3>1, <3>2 DEF Promise!Load, Pending
    <3>4. QED
      BY <3>3 DEF Promise!Next
  <2>6. CASE lock' = r /\ next' = [next EXCEPT ![r] = n] /\ base' = base
    <3>1. pc'[r] \in {"log", "record"} /\ \A q \in Runtime : q # r => pc'[q] = pc[q]
      BY <1>3, <2>6 DEF BeginSave, TypeOK
    <3>2. Known' = Known
      BY <2>3, <2>6, <3>1 DEF Known, TypeOK
    <3>3. Pending' = n
      BY <2>6 DEF Pending, TypeOK
    <3>4. Promise!Begin(r)
      BY <2>1, <2>2, <2>3, <2>6, <3>2, <3>3 DEF Promise!Begin
    <3>5. QED
      BY <3>4 DEF Promise!Next
  <2>7. QED
    BY <1>3, <2>4, <2>5, <2>6 DEF BeginSave
<1>4. ASSUME NEW r \in Runtime, WriteLog(r) PROVE Promise!Next \/ UNCHANGED Promise!vars
  <2>1. /\ pc[r] = "log" /\ lock = r /\ next[r] \in Transcript
        /\ pc'[r] \in {"anchor", "record"}
        /\ \A q \in Runtime : q # r => pc'[q] = pc[q]
        /\ UNCHANGED <<anchor, lock, next, base>>
    BY <1>4 DEF WriteLog, AfterLog, SaveInv, Saving, TypeOK
  <2>2. CASE Holds(log')
    <3>1. Durable' = next[r]
      BY <2>1, <2>2 DEF SaveInv, Durable, Loaded
    <3>2. Stable' \in Transcript /\ HasPrefix(next[r], Stable')
      BY <2>2, <3>1 DEF SaveInv, TypeOK, Log, Durable, Loaded, Stable
    <3>3. Stable' \in {Stable, next[r]}
      BY <1>4, <2>1, <2>2 DEF WriteLog, Appended, SaveInv, PlanFits, Stable, Holds, Damaged, TypeOK, Log, Plan
    <3>4. QED
      BY <2>1, <3>1, <3>2, <3>3, LandStep DEF Saving
  <2>3. CASE ~Holds(log')
    <3>1. log' = log
      BY <1>4, <2>1, <2>3 DEF WriteLog, Appended, Holds, SaveInv, PlanFits, TypeOK, Plan, Log, Damaged
    <3>2. UNCHANGED Promise!vars
      BY <2>1, <3>1 DEF Promise!vars, Durable, Stable, Loaded, Holds, Pending, Known, TypeOK
    <3>3. QED
      BY <3>2
  <2>4. QED
    BY <2>2, <2>3
<1>5. ASSUME NEW r \in Runtime, WriteAnchor(r) PROVE Promise!Next \/ UNCHANGED Promise!vars
  <2>1. /\ pc[r] = "anchor" /\ lock = r /\ next[r] \in Transcript /\ pc'[r] = "record"
        /\ \A q \in Runtime : q # r => pc'[q] = pc[q]
        /\ UNCHANGED <<log, lock, next, base>> /\ anchor' = next[r]
    BY <1>5 DEF WriteAnchor, SaveInv, Saving, TypeOK
  <2>2. CASE Holds(log)
    <3>1. UNCHANGED Promise!vars
      BY <2>1, <2>2 DEF Promise!vars, Durable, Stable, Loaded, Holds, Pending, Known, TypeOK
    <3>2. QED
      BY <3>1
  <2>3. CASE ~Holds(log)
    <3>1. Durable' = next[r] /\ Stable' = next[r]
      BY <2>1, <2>3 DEF Durable, Stable, Loaded, Holds
    <3>2. QED
      BY <2>1, <3>1, LandStep, PrefixReflexive DEF Saving
  <2>4. QED
    BY <2>2, <2>3
<1>6. ASSUME NEW r \in Runtime, Record(r) PROVE Promise!Next \/ UNCHANGED Promise!vars
  <2>1. UNCHANGED Promise!vars
    BY <1>6 DEF Record, Promise!vars, Durable, Stable, Loaded, Holds, Pending, Known, TypeOK
  <2>2. QED
    BY <2>1
<1>7. ASSUME NEW r \in Runtime, Acknowledge(r) PROVE Promise!Next \/ UNCHANGED Promise!vars
  <2>1. lock = r /\ Durable = next[r] /\ next[r] \in Transcript
    BY <1>7 DEF Acknowledge, SaveInv, Saving
  <2>2. UNCHANGED <<Durable, Stable>> /\ lock' = None /\ Pending' = None /\ Pending = next[r]
    BY <1>7, <2>1 DEF Acknowledge, EndSave, Durable, Stable, Loaded, Holds, Pending
  <2>3. Known' = [Known EXCEPT ![r] = next[r]]
    BY <1>7 DEF Acknowledge, EndSave, Known, Persisted, TypeOK
  <2>4. Promise!Confirm
    BY <2>1, <2>2, <2>3 DEF Promise!Confirm
  <2>5. QED
    BY <2>4 DEF Promise!Next
<1>8. ASSUME NEW r \in Runtime, Tear(r) PROVE Promise!Next \/ UNCHANGED Promise!vars
  <2>1. pc[r] \in Saving /\ lock = r /\ EndSave(r) /\ base' = base
    BY <1>8 DEF Tear, Saving, SaveInv
  <2>2. UNCHANGED <<Durable, Stable>>
    BY <1>8 DEF Tear, Durable, Stable, Loaded, Holds, TypeOK, Log
  <2>3. QED
    BY <2>1, <2>2, AbandonStep
<1>9. ASSUME NEW r \in Runtime, FailSave(r) PROVE Promise!Next \/ UNCHANGED Promise!vars
  <2>1. pc[r] \in Saving /\ lock = r /\ EndSave(r) /\ base' = base
    BY <1>9 DEF FailSave, Saving, SaveInv
  <2>2. UNCHANGED <<Durable, Stable>>
    BY <1>9 DEF FailSave, Durable, Stable, Loaded, Holds
  <2>3. QED
    BY <2>1, <2>2, AbandonStep
<1>10. ASSUME NEW r \in Runtime, Crash(r) PROVE Promise!Next \/ UNCHANGED Promise!vars
  <2>1. UNCHANGED <<Durable, Stable>>
    BY <1>10 DEF Crash, Durable, Stable, Loaded, Holds
  <2>2. Known' = [Known EXCEPT ![r] = None]
    BY <1>10 DEF Crash, Known, NoBaseline, TypeOK
  <2>3. Pending' = IF lock = r THEN None ELSE Pending
    BY <1>10 DEF Crash, Pending, TypeOK
  <2>4. Promise!Crash(r)
    BY <1>10, <2>1, <2>2, <2>3 DEF Promise!Crash, Crash
  <2>5. QED
    BY <2>4 DEF Promise!Next
<1>11. ASSUME NEW r \in Runtime, TouchRead(r) PROVE Promise!Next \/ UNCHANGED Promise!vars
  <2>1. UNCHANGED Promise!vars
    BY <1>11 DEF TouchRead, Promise!vars, Durable, Stable, Loaded, Holds, Pending, Known, TypeOK
  <2>2. QED
    BY <2>1
<1>12. ASSUME NEW r \in Runtime, TouchWrite(r) PROVE Promise!Next \/ UNCHANGED Promise!vars
  <2>1. UNCHANGED Promise!vars
    BY <1>12 DEF TouchWrite, Promise!vars, Durable, Stable, Loaded, Holds, Pending, Known, TypeOK
  <2>2. QED
    BY <2>1
<1>13. CASE PowerCut
  <2>1. lock' = None /\ Pending' = None /\ Known' = [r \in Runtime |-> None]
    BY <1>13 DEF PowerCut, Pending, Known, NoBaseline
  <2>2. CASE Holds(log)
    <3>1. PICK n \in Len(log.synced)..Len(log.text), state \in {"clean", "torn"} :
            log' = [log EXCEPT !.text = SubSeq(@, 1, n), !.state = state]
      BY <1>13, <2>2 DEF PowerCut
    <3>2. n \in 0..Len(log.text) /\ Len(log.synced) <= n
      BY <3>1 DEF TypeOK, Log, Transcript
    <3>3. Durable = log.text /\ Durable' = SubSeq(log.text, 1, n) /\ Stable = log.synced /\ Stable' = log.synced
      BY <2>2, <3>1 DEF Durable, Stable, Loaded, Holds, TypeOK, Log
    <3>4. /\ Durable' \in Transcript
          /\ HasPrefix(Durable, Durable')
          /\ HasPrefix(Durable', Stable)
      BY <2>2, <3>2, <3>3, SubSeqIsPrefix DEF SaveInv, TypeOK, Log
    <3>5. Promise!Prefix(Stable, Durable') /\ Promise!Prefix(Durable', Durable)
      BY <3>3, <3>4, PrefixAsPromised DEF TypeOK, Log
    <3>6. Promise!PowerCut
      BY <2>1, <3>3, <3>4, <3>5 DEF Promise!PowerCut
    <3>7. QED
      BY <3>6 DEF Promise!Next
  <2>3. CASE ~Holds(log)
    <3>1. UNCHANGED <<Durable, Stable>> /\ Durable = anchor /\ Stable = anchor
      BY <1>13, <2>3 DEF PowerCut, Durable, Stable, Loaded, Holds
    <3>2. Promise!Prefix(anchor, anchor)
      BY PrefixAsPromised, PrefixReflexive DEF TypeOK, Promise!Prefix
    <3>3. Promise!PowerCut
      BY <2>1, <3>1, <3>2 DEF Promise!PowerCut, TypeOK
    <3>4. QED
      BY <3>3 DEF Promise!Next
  <2>4. QED
    BY <2>2, <2>3
<1>14. CASE UNCHANGED vars
  <2>1. UNCHANGED Promise!vars
    BY <1>14 DEF vars, Promise!vars, Durable, Stable, Loaded, Holds, Pending, Known
  <2>2. QED
    BY <2>1
<1>15. QED
  BY <1>1, <1>2, <1>3, <1>4, <1>5, <1>6, <1>7, <1>8, <1>9, <1>10, <1>11, <1>12, <1>13, <1>14
     DEF Next, Step

\* The store implements the durable transcript: every load, save, crash and
\* power cut of the files is one step of the promise, or none.
THEOREM StoreKeepsPromise == Spec => PromiseKept
<1>1. Init => Promise!Init
  BY PromiseStart
<1>2. TypeOK /\ SaveInv /\ (TypeOK /\ SaveInv)' /\ [Next]_vars => [Promise!Next]_(Promise!vars)
  BY PromiseStep
<1>3. QED
  BY <1>1, <1>2, SavesInvariant, PTL DEF Spec, PromiseKept, Promise!Spec

-----------------------------------------------------------------------------
(***************************************************************************)
(* Only owned transcripts are overwritten.                                 *)
(***************************************************************************)
\* What the disk holds changes, while a save keeps the lock, to what it saves
\* and by one of its two writes.
LEMMA OverwriteIsWrite ==
  ASSUME TypeOK, SaveInv, SaveInv', [Next]_vars, NEW r \in Runtime,
         lock = r, lock' = r, Durable' # Durable
  PROVE  pc[r] \in {"log", "anchor"} /\ Durable' = next[r]
<1> USE NoneIsNoTranscript
<1>1. lock = r /\ pc[r] \in Saving /\ lock # None
  BY DEF SaveInv
<1>2. ASSUME NEW q \in Runtime, Step(q) PROVE q = r /\ (WriteLog(r) \/ WriteAnchor(r))
  <2>1. ASSUME UNCHANGED <<log, anchor>> PROVE FALSE
    BY <2>1 DEF Durable, Loaded, Holds
  <2>2. WriteLog(q) \/ WriteAnchor(q) \/ Tear(q)
    BY <1>1, <1>2, <2>1 DEF Step, LoadMessages, LoadLedger, BeginSave, Record, Acknowledge, FailSave,
       Crash, TouchRead, TouchWrite
  <2>3. ~Tear(q)
    BY <1>1 DEF Tear, EndSave
  <2>4. QED
    BY <1>1, <2>2, <2>3 DEF WriteLog, WriteAnchor, SaveInv, Saving
<1>3. ~PowerCut /\ ~UNCHANGED vars
  BY <1>1 DEF PowerCut, vars, Durable, Loaded, Holds
<1>4. CASE WriteLog(r)
  <2>1. next' = next /\ pc[r] = "log" /\ pc'[r] \in {"anchor", "record"} /\ anchor' = anchor
    BY <1>4 DEF WriteLog, AfterLog, TypeOK
  <2>2. CASE Holds(log')
    BY <2>1, <2>2 DEF SaveInv, Durable, Loaded
  <2>3. CASE ~Holds(log')
    <3>1. log' = log
      BY <1>4, <2>1, <2>3 DEF WriteLog, Appended, Holds, SaveInv, PlanFits, TypeOK, Plan, Log, Damaged
    <3>2. QED
      BY <2>1, <3>1 DEF Durable, Loaded, Holds
  <2>4. QED
    BY <2>2, <2>3
<1>5. CASE WriteAnchor(r)
  BY <1>5 DEF WriteAnchor, Durable, Loaded, Holds
<1>6. QED
  BY <1>2, <1>3, <1>4, <1>5 DEF Next, WriteLog, WriteAnchor

\* The holder saves one transcript, in one way, from its first step to its last.
LEMMA HolderSteady ==
  ASSUME TypeOK, SaveInv, [Next]_vars, NEW r \in Runtime, lock = r, lock' = r
  PROVE  /\ next'[r] = next[r] /\ plan'[r] = plan[r] /\ base'[r] = base[r]
         /\ pc'[r] \in {"log", "anchor"} => pc[r] \in {"log", "anchor"}
<1> USE NoneIsNoTranscript
<1>1. pc[r] \in Saving
  BY DEF SaveInv
<1>2. ASSUME Step(r)
      PROVE  /\ next'[r] = next[r] /\ plan'[r] = plan[r] /\ base'[r] = base[r]
             /\ pc'[r] \in {"log", "anchor"} => pc[r] \in {"log", "anchor"}
  BY <1>1, <1>2 DEF Step, LoadMessages, LoadLedger, BeginSave, WriteLog, WriteAnchor,
     AfterLog, Record, Acknowledge, Tear, FailSave, EndSave, Crash, TouchRead, TouchWrite, TypeOK, Saving
<1>3. ASSUME NEW q \in Runtime, q # r, Step(q)
      PROVE  next'[r] = next[r] /\ plan'[r] = plan[r] /\ base'[r] = base[r] /\ pc'[r] = pc[r]
  <2>1. lock # None /\ pc[q] \notin Saving
    BY <1>3 DEF SaveInv
  <2>2. LoadMessages(q) \/ LoadLedger(q) \/ Crash(q) \/ TouchRead(q) \/ TouchWrite(q)
    BY <1>3, <2>1 DEF Step, BeginSave, WriteLog, WriteAnchor, Record, Acknowledge, Tear, FailSave, Saving
  <2>3. QED
    BY <1>3, <2>2 DEF LoadMessages, LoadLedger, Crash, TouchRead, TouchWrite, TypeOK
<1>4. CASE PowerCut
  BY <1>4 DEF PowerCut
<1>5. CASE UNCHANGED vars
  BY <1>5 DEF vars
<1>6. QED
  BY <1>2, <1>3, <1>4, <1>5 DEF Next

LEMMA OwnStep ==
  ASSUME TypeOK, SaveInv, SaveInv', OwnInv, [Next]_vars
  PROVE  OwnInv'
<1> USE NoneIsNoTranscript
<1> SUFFICES ASSUME NEW r \in Runtime,
                    (/\ pc[r] \in {"log", "anchor"}
                     /\ plan[r].mode # "force"
                     /\ Durable # None
                     /\ Durable # next[r])'
             PROVE  \/ HasPrefix(next'[r], Durable')
                    \/ plan'[r].mode = "rewrite" /\ base'[r].text = Durable'
  BY DEF OwnInv
<1>1. lock' = r
  BY DEF SaveInv, Saving
<1>2. CASE lock = r
  <2>1. Durable' = Durable
    <3>1. SUFFICES ASSUME Durable' # Durable PROVE FALSE
      OBVIOUS
    <3>2. pc[r] \in {"log", "anchor"} /\ Durable' = next[r]
      BY <1>1, <1>2, <3>1, OverwriteIsWrite
    <3>3. QED
      BY <1>1, <1>2, <3>2, HolderSteady
  <2>2. pc[r] \in {"log", "anchor"} /\ next'[r] = next[r] /\ plan'[r] = plan[r] /\ base'[r] = base[r]
    BY <1>1, <1>2, HolderSteady
  <2>3. QED
    BY <2>1, <2>2 DEF OwnInv
<1>3. CASE lock # r
  <2>1. PICK n \in Snapshots, mode \in Mode : BeginSave(r, n, mode)
    <3>1. PICK q \in Runtime : Step(q)
      BY <1>1, <1>3 DEF Next, PowerCut, vars
    <3>2. q = r /\ \E n \in Snapshots, mode \in Mode : BeginSave(q, n, mode)
      BY <1>1, <1>3, <3>1 DEF Step, LoadMessages, LoadLedger, BeginSave, WriteLog, WriteAnchor,
         Record, Acknowledge, Tear, FailSave, EndSave, Crash, TouchRead, TouchWrite
    <3>3. QED
      BY <3>2
  <2> DEFINE d == Loaded(Repaired)
  <2>2. /\ next'[r] = n /\ plan'[r].mode = mode /\ base'[r] = base[r] /\ MayWrite(n, d, base[r], mode)
    BY <1>1, <1>3, <2>1 DEF BeginSave, TypeOK
  <2>3. d = Durable'
    BY <2>1 DEF BeginSave, Durable, Loaded
  <2>4. HasPrefix(n, d) \/ (mode = "rewrite" /\ OwnsPersistedState(d, base[r]))
    BY <2>2, <2>3 DEF MayWrite
  <2>5. QED
    BY <2>2, <2>3, <2>4 DEF OwnsPersistedState
<1>4. QED
  BY <1>2, <1>3

THEOREM OwnersOverwrite == Spec => OverwritesAreOwned
<1>1. Init => OwnInv
  BY DEF Init, OwnInv
<1>2. TypeOK /\ SaveInv /\ SaveInv' /\ OwnInv /\ [Next]_vars => OwnInv'
  BY OwnStep
<1>3. ASSUME TypeOK, SaveInv, SaveInv', OwnInv, [Next]_vars
      PROVE  \A r \in Runtime :
               Overwrites(r) /\ plan[r].mode # "force"
                 => \/ HasPrefix(Durable', Durable)
                    \/ plan[r].mode = "rewrite" /\ base[r].text = Durable
  <2> TAKE r \in Runtime
  <2> HAVE Overwrites(r) /\ plan[r].mode # "force"
  <2>1. pc[r] \in {"log", "anchor"} /\ Durable' = next[r]
    BY <1>3, OverwriteIsWrite DEF Overwrites
  <2>2. QED
    BY <1>3, <2>1 DEF OwnInv, Overwrites
<1>4. QED
  BY <1>1, <1>2, <1>3, SavesInvariant, PTL DEF Spec, OverwritesAreOwned

-----------------------------------------------------------------------------
(***************************************************************************)
(* With loads and sidecar writers that wait for the saves.                 *)
(***************************************************************************)
LEMMA DurableKept ==
  ASSUME UNCHANGED <<anchor, log>> PROVE Durable' = Durable
BY DEF Durable, Loaded, Holds

\* A save that is not forced was not let in to bring back what another removed.
LEMMA NoRevivalBegins ==
  ASSUME TypeOK, Behind, OneText, NEW r \in Runtime, NEW n \in Transcript, NEW mode \in Mode,
         mode # "force", settled = "recorded", Durable \in Transcript, Durable # n, base[r].known,
         HasPrefix(base[r].text, Durable), base[r].text # Durable, HasPrefix(n, base[r].text)
  PROVE  ~MayWrite(n, Durable, base[r], mode)
<1> DEFINE b == base[r]
<1>1. b.ok /\ b.text \in Transcript
  BY DEF Behind
<1>2. HasPrefix(n, Durable)
  BY <1>1, PrefixTransitive
<1>3. ledger.rev # b.rev
  BY DEF OneText
<1>4. ~Covers(n, Durable, b)
  BY <1>1, PrefixOfSameLength DEF Covers
<1>5. StaleBaseline(n, Durable, b)
  BY <1>1, <1>3, <1>4 DEF StaleBaseline
<1>6. QED
  BY <1>2, <1>5, NoneIsNoTranscript DEF MayWrite

LEMMA QuietBegin ==
  ASSUME TypeOK, SaveInv, QuietInv, ~Unlocked,
         NEW r \in Runtime, NEW n \in Snapshots, NEW mode \in Mode, BeginSave(r, n, mode)
  PROVE  QuietInv'
<1> USE NoneIsNoTranscript
<1> DEFINE d == Loaded(Repaired)
<1>1. n \in Transcript
  BY BoundAssumption DEF Transcript
<1>2. d = Durable /\ Durable' = Durable /\ ledger' = ledger /\ touch' = touch
  BY DEF BeginSave, Repaired, Durable, Loaded, Holds, TypeOK, Log
<1>3. /\ lock = None /\ pc[r] = "idle"
      /\ \A q \in Runtime : pc[q] \notin Saving /\ pc[q] \notin {"loading", "touching"}
  BY DEF BeginSave, Quiet, SaveInv
<1>4. CASE UNCHANGED <<lock, pc, base, next, plan, settled>>
  BY <1>2, <1>4 DEF QuietInv, Apart, Described, Behind, OneText, Unrevived, Reviving
<1>5. CASE /\ UpToDate(n, d, Repaired, mode) /\ ~LedgerStale(n)
           /\ base' = [base EXCEPT ![r] = Persisted(n)]
           /\ settled' = IF settled = "no" THEN "reported" ELSE settled
           /\ UNCHANGED <<lock, pc, next, plan>>
  <2>1. n = Durable
    BY <1>2, <1>5 DEF UpToDate
  <2>2. base'[r] = Persisted(n) /\ \A q \in Runtime : q # r => base'[q] = base[q]
    BY <1>5 DEF TypeOK
  <2>3. Apart' /\ Unrevived'
    BY <1>3, <1>5 DEF Apart, Unrevived, Saving
  <2>4. Described'
    BY <1>2, <1>3, <1>5, <2>1 DEF Described, LedgerStale, Saving
  <2>5. Behind'
    BY <1>1, <1>2, <1>3, <1>5, <2>2 DEF QuietInv, Behind, Persisted, Saving, TypeOK, Ledger, Revision
  <2>6. OneText'
    BY <1>2, <1>5, <2>1, <2>2 DEF QuietInv, OneText, Persisted
  <2>7. QED
    BY <2>3, <2>4, <2>5, <2>6 DEF QuietInv
<1>6. CASE /\ lock' = r /\ next' = [next EXCEPT ![r] = n] /\ UNCHANGED <<base, settled>>
           /\ MayWrite(n, d, base[r], mode)
           /\ pc' = [pc EXCEPT ![r] = IF UpToDate(n, d, Repaired, mode) THEN "record" ELSE "log"]
  <2>1. plan'[r].mode = mode
    BY <1>3, <1>6 DEF BeginSave, TypeOK
  <2>2. pc'[r] \in {"log", "record"} /\ next'[r] = n /\ \A q \in Runtime : q # r => pc'[q] = pc[q]
    BY <1>6 DEF TypeOK
  <2>3. Apart' /\ Described' /\ Behind' /\ OneText'
    BY <1>2, <1>3, <1>6, <2>2 DEF QuietInv, Apart, Described, Behind, OneText, Saving
  <2>4. ~Reviving(r)'
    <3>1. SUFFICES ASSUME Reviving(r)' PROVE FALSE
      OBVIOUS
    <3>2. Durable \in Transcript
      BY <1>2, <3>1 DEF Reviving, Durable, Loaded, TypeOK, Log
    <3>3. ~MayWrite(n, Durable, base[r], mode)
      BY <1>1, <1>2, <1>6, <2>1, <2>2, <3>1, <3>2, NoRevivalBegins DEF Reviving, QuietInv
    <3>4. QED
      BY <1>2, <1>6, <3>3
  <2>5. Unrevived'
    BY <1>3, <2>2, <2>4 DEF Unrevived, Saving
  <2>6. QED
    BY <2>3, <2>5 DEF QuietInv
<1>7. QED
  BY <1>4, <1>5, <1>6 DEF BeginSave

LEMMA QuietStep ==
  ASSUME ~Unlocked, TypeOK, SaveInv, TypeOK', SaveInv', QuietInv, [Next]_vars
  PROVE  QuietInv'
<1> USE NoneIsNoTranscript
<1>1. ASSUME NEW r \in Runtime, LoadMessages(r) PROVE QuietInv'
  BY <1>1, DurableKept DEF LoadMessages, Quiet, QuietInv, Apart, Described, Behind, OneText, Unrevived, Reviving, TypeOK
<1>2. ASSUME NEW r \in Runtime, LoadLedger(r) PROVE QuietInv'
  <2>1. lock = None /\ next[r] = Durable /\ Durable' = Durable
        /\ \A q \in Runtime : pc[q] \notin Saving /\ (q # r => pc[q] \notin {"loading", "touching"})
    BY <1>2, DurableKept DEF LoadLedger, QuietInv, Apart, SaveInv
  <2>2. base'[r].known => base'[r].ok /\ base'[r].rev = ledger.rev /\ base'[r].text = Durable /\ Durable # None
    BY <1>2, <2>1 DEF LoadLedger, NoBaseline, TypeOK
  <2>3. pc'[r] = "idle" /\ \A q \in Runtime : q # r => pc'[q] = pc[q] /\ base'[q] = base[q] /\ next'[q] = next[q]
    BY <1>2 DEF LoadLedger, TypeOK
  <2>4. UNCHANGED <<ledger, settled, lock, touch>>
    BY <1>2 DEF LoadLedger
  <2>5. Apart' /\ Described' /\ OneText' /\ Unrevived'
    BY <2>1, <2>2, <2>3, <2>4 DEF QuietInv, Apart, Described, OneText, Unrevived, Saving
  <2>6. Durable \in Transcript \cup {None}
    BY DEF Durable, Loaded, TypeOK, Log
  <2>7. Behind'
    BY <2>1, <2>2, <2>3, <2>4, <2>6 DEF QuietInv, Behind, Saving, TypeOK, Ledger, Revision
  <2>8. QED
    BY <2>5, <2>7 DEF QuietInv
<1>3. ASSUME NEW r \in Runtime, NEW n \in Snapshots, NEW mode \in Mode, BeginSave(r, n, mode)
      PROVE  QuietInv'
  BY <1>3, QuietBegin
<1>4. ASSUME NEW r \in Runtime, WriteLog(r) \/ WriteAnchor(r) PROVE QuietInv'
  <2>1. /\ pc[r] \in {"log", "anchor"} /\ lock = r /\ pc'[r] \in {"anchor", "record"}
        /\ \A q \in Runtime : q # r => pc'[q] = pc[q]
        /\ UNCHANGED <<ledger, lock, base, next, plan, touch>>
        /\ settled' = IF Durable' = Durable THEN settled ELSE "no"
    BY <1>4 DEF WriteLog, WriteAnchor, AfterLog, SaveInv, Saving, TypeOK
  <2>2. \A q \in Runtime : pc'[q] \notin {"loading", "touching", "ack"}
    BY <2>1 DEF QuietInv, Apart, SaveInv, Saving
  <2>3. Apart' /\ Described' /\ Behind' /\ OneText'
    BY <2>1, <2>2 DEF QuietInv, Apart, Described, Behind, OneText
  <2>4. Unrevived'
    BY <2>1 DEF QuietInv, Unrevived, Reviving
  <2>5. QED
    BY <2>3, <2>4 DEF QuietInv
<1>5. ASSUME NEW r \in Runtime, Record(r) PROVE QuietInv'
  <2>1. /\ pc[r] = "record" /\ lock = r /\ pc'[r] = "ack" /\ Durable' = Durable
        /\ \A q \in Runtime : q # r => pc'[q] = pc[q] /\ pc[q] \notin Saving
        /\ UNCHANGED <<lock, base, next, plan, touch, settled>>
        /\ Durable = next[r]
    BY <1>5, DurableKept DEF Record, SaveInv, Saving, TypeOK
  <2>2. ledger'.rev > ledger.rev /\ ledger'.digest = next[r]
    BY <1>5 DEF Record, TypeOK, Ledger, Plan, Revision
  <2>3. \A q \in Runtime : base[q].known => base[q].rev < ledger'.rev
    BY <2>2 DEF QuietInv, Behind, TypeOK, TypeOK, Ledger, Revision, Baseline
  <2>4. Apart' /\ Described'
    BY <2>1, <2>2 DEF QuietInv, Apart, Described, Saving
  <2>5. Behind'
    BY <2>1, <2>2, <2>3 DEF QuietInv, Behind, TypeOK, Baseline, Ledger, Revision
  <2>6. OneText'
    BY <2>1, <2>3 DEF OneText, TypeOK, Baseline, Ledger, Revision
  <2>7. Unrevived'
    BY <2>1 DEF QuietInv, Unrevived, Reviving, Saving
  <2>8. QED
    BY <2>4, <2>5, <2>6, <2>7 DEF QuietInv
<1>6. ASSUME NEW r \in Runtime, Acknowledge(r) PROVE QuietInv'
  <2>1. /\ pc[r] = "ack" /\ lock = r /\ pc'[r] = "idle" /\ Durable' = Durable /\ lock' = None
        /\ \A q \in Runtime : q # r => pc'[q] = pc[q] /\ pc[q] \notin Saving /\ base'[q] = base[q]
        /\ UNCHANGED <<ledger, touch>> /\ settled' = "recorded" /\ base'[r] = Persisted(next[r])
        /\ Durable = next[r] /\ next[r] \in Transcript
    BY <1>6, DurableKept DEF Acknowledge, EndSave, SaveInv, Saving, TypeOK
  <2>2. \A q \in Runtime : pc'[q] \notin {"loading", "touching", "log", "anchor", "ack"}
    BY <2>1 DEF QuietInv, Apart, Saving
  <2>3. Apart' /\ Described' /\ Unrevived'
    BY <2>1, <2>2 DEF QuietInv, Apart, Described, Unrevived
  <2>4. /\ base'[r].ok /\ base'[r].rev = ledger.rev /\ base'[r].text = Durable
        /\ \A q \in Runtime : q # r /\ base[q].known => base[q].rev < ledger.rev
    BY <2>1 DEF QuietInv, Behind, Persisted
  <2>5. Behind'
    BY <2>1, <2>2, <2>4 DEF QuietInv, Behind, TypeOK, Ledger, Revision
  <2>6. OneText'
    BY <2>1, <2>4 DEF OneText, TypeOK, Baseline, Ledger, Revision
  <2>7. QED
    BY <2>3, <2>5, <2>6 DEF QuietInv
<1>7. ASSUME NEW r \in Runtime, Tear(r) \/ FailSave(r) PROVE QuietInv'
  <2>1. Durable' = Durable
    BY <1>7 DEF Tear, FailSave, Durable, Loaded, Holds, TypeOK, Log
  <2>2. /\ lock = r /\ pc'[r] = "idle" /\ UNCHANGED <<ledger, base, touch, settled>> /\ lock' = None
        /\ \A q \in Runtime : q # r => pc'[q] = pc[q] /\ pc[q] \notin Saving
    BY <1>7 DEF Tear, FailSave, EndSave, SaveInv, Saving, TypeOK
  <2>3. \A q \in Runtime : pc'[q] \notin {"loading", "touching", "log", "anchor", "ack"}
    BY <2>2 DEF QuietInv, Apart, Saving
  <2>4. QED
    BY <2>1, <2>2, <2>3 DEF QuietInv, Apart, Described, Behind, OneText, Unrevived
<1>8. ASSUME NEW r \in Runtime, Crash(r) PROVE QuietInv'
  <2>1. Durable' = Durable /\ UNCHANGED <<ledger, settled>>
    BY <1>8, DurableKept DEF Crash
  <2>2. /\ pc'[r] = "down" /\ ~base'[r].known /\ lock' \in {lock, None}
        /\ \A q \in Runtime : q # r => /\ pc'[q] = pc[q] /\ base'[q] = base[q] /\ next'[q] = next[q]
                                      /\ plan'[q] = plan[q] /\ touch'[q] = touch[q]
    BY <1>8 DEF Crash, TypeOK, NoBaseline
  <2>3. Apart' /\ Described' /\ Behind' /\ OneText'
    BY <2>1, <2>2 DEF QuietInv, Apart, Described, Behind, OneText
  <2>4. Unrevived'
    BY <2>1, <2>2 DEF QuietInv, Unrevived, Reviving
  <2>5. QED
    BY <2>3, <2>4 DEF QuietInv
<1>9. ASSUME NEW r \in Runtime, TouchRead(r) PROVE QuietInv'
  <2>1. /\ Durable' = Durable /\ UNCHANGED <<ledger, settled, lock, base, next, plan>>
        /\ lock = None /\ pc'[r] = "touching" /\ touch'[r] = ledger
        /\ \A q \in Runtime : q # r => pc'[q] = pc[q] /\ pc[q] \notin {"loading", "touching"}
    BY <1>9, DurableKept DEF TouchRead, Quiet, TypeOK
  <2>2. QED
    BY <2>1 DEF QuietInv, Apart, Described, Behind, OneText, Unrevived, Reviving
<1>10. ASSUME NEW r \in Runtime, TouchWrite(r) PROVE QuietInv'
  <2>1. /\ Durable' = Durable /\ UNCHANGED <<settled, lock, base, next, plan>>
        /\ ledger' = ledger /\ pc'[r] = "idle"
        /\ \A q \in Runtime : q # r => pc'[q] = pc[q] /\ pc[q] \notin {"loading", "touching"}
    BY <1>10, DurableKept DEF TouchWrite, QuietInv, Apart, TypeOK
  <2>2. QED
    BY <2>1 DEF QuietInv, Apart, Described, Behind, OneText, Unrevived, Reviving
<1>11. CASE PowerCut
  <2>1. /\ \A r \in Runtime : pc'[r] = "down" /\ ~base'[r].known
        /\ settled' = IF Durable' = Durable THEN settled ELSE "no"
        /\ ledger' = ledger \/ ledger'.digest = None
    BY <1>11 DEF PowerCut, NoBaseline, NoLedger
  <2>2. QED
    BY <2>1 DEF QuietInv, Apart, Described, Behind, OneText, Unrevived
<1>12. CASE UNCHANGED vars
  BY <1>12, DurableKept DEF vars, QuietInv, Apart, Described, Behind, OneText, Unrevived, Reviving
<1>13. QED
  BY <1>1, <1>2, <1>3, <1>4, <1>5, <1>6, <1>7, <1>8, <1>9, <1>10, <1>11, <1>12 DEF Next, Step

LEMMA QuietInvariant == ASSUME ~Unlocked PROVE Spec => []QuietInv
<1>1. Init => QuietInv
  BY DEF Init, QuietInv, Apart, Described, Behind, OneText, Unrevived, NoBaseline
<1>2. TypeOK /\ SaveInv /\ (TypeOK /\ SaveInv)' /\ QuietInv /\ [Next]_vars => QuietInv'
  BY QuietStep
<1>3. QED
  BY <1>1, <1>2, SavesInvariant, PTL DEF Spec

\* What a later writer's compare-and-swap trusts: the ledger describes the disk.
THEOREM LedgerIsTrue == ASSUME ~Unlocked PROVE Spec => []LedgerDescribesDisk
<1>1. QuietInv => LedgerDescribesDisk
  BY DEF QuietInv, Described, LedgerDescribesDisk
<1>2. QED
  BY <1>1, QuietInvariant, PTL

\* The compare-and-swap works where a baseline and its revision are read together.
THEOREM RewindsStay == ASSUME ~Unlocked PROVE Spec => RewindsStayRewound
<1>1. ASSUME TypeOK, SaveInv, SaveInv', QuietInv, [Next]_vars
      PROVE  \A r \in Runtime :
               ~ /\ Overwrites(r)
                 /\ settled = "recorded"
                 /\ plan[r].mode # "force"
                 /\ base[r].known
                 /\ HasPrefix(base[r].text, Durable)
                 /\ base[r].text # Durable
                 /\ HasPrefix(Durable', base[r].text)
  <2> TAKE r \in Runtime
  <2>1. SUFFICES ASSUME Overwrites(r) PROVE pc[r] \in {"log", "anchor"} /\ Durable' = next[r]
    BY <1>1, <2>1 DEF QuietInv, Unrevived, Reviving, Overwrites
  <2>2. QED
    BY <1>1, <2>1, OverwriteIsWrite DEF Overwrites
<1>2. QED
  BY <1>1, SavesInvariant, QuietInvariant, PTL DEF Spec, RewindsStayRewound
=============================================================================
