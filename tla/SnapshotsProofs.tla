--------------------------- MODULE SnapshotsProofs ---------------------------
(***************************************************************************)
(* Theorems about Snapshots, for any number of controllers, files and      *)
(* messages and any recovery depth.                                        *)
(***************************************************************************)
EXTENDS Snapshots, TLAPS

Rotation == {"rewind", "summarize", "swap", "fork"}

(* Where a controller can be.                                               *)
Placed(c) ==
  /\ path[c] = None => mem[c] = <<>> /\ snap[c] = Free /\ run[c] = "idle"
  /\ path[c] # None => Depth(path[c]) <= MaxDepth
  /\ snap[c].step = "free" => snap[c] = Free
  /\ snap[c].step \in {"write", "redecide", "recover", "adopt"} =>
       snap[c].file = path[c] /\ path[c] # None
  /\ snap[c].step \in {"redecide", "recover", "adopt"} => snap[c].file \in DOMAIN disk
  /\ snap[c].by \in {"turn", "cancel"} => run[c] = "turn" /\ op[c] = "saving"
  /\ snap[c].by = "rotation" => run[c] \in Rotation /\ op[c] = "saving"
  /\ op[c] \in {"cancelling", "ending"} => run[c] = "turn"
  /\ op[c] \in {"folding", "replaced"} => run[c] \in {"turn", "compact", "summarize"}
  /\ op[c] = "swap" => run[c] \in {"swap", "fork"}
  /\ op[c] = "save" => run[c] \in Rotation
  /\ run[c] = "idle" => op[c] = "none"
  /\ snap[c].step = "mark" => snap[c].by # "cancel"

Control == \A c \in Controller : Placed(c)

(* A digest that is not in the baseline is ahead of every version that a    *)
(* save has recorded or is going to.                                        *)
Counted(c) ==
  /\ saved[c] <= rewrites[c]
  /\ snap[c].version <= rewrites[c]
  /\ \/ base[c].file # path[c]
     \/ op[c] = "replaced"
     \/ Digests(mem[c]) \subseteq Digests(base[c].text)
     \/ rewrites[c] > saved[c] /\ (snap[c].step = "mark" => rewrites[c] > snap[c].version)
  /\ op[c] = "cancelling" /\ turn[c].sound => Digests(plan[c].text) \subseteq Digests(mem[c])

Versions == amiss \/ \A c \in Controller : Counted(c)

Gone == OnDisk \cup discarded

(* What a controller remembers, has read or has saved is somewhere safe.    *)
Held(c) ==
  /\ Items(base[c].text) \subseteq Items(mem[c]) \cup discarded
  /\ \/ snap[c].step \in {"mark", "adopt"}
     \/ snap[c].step \in {"redecide", "recover"} /\ snap[c].stale
     => Items(snap[c].copy) \subseteq Gone
  /\ snap[c].step = "mark" /\ snap[c].by # "anyone" => snap[c].copy = mem[c]
  /\ op[c] = "folding" /\ plan[c].sound => Items(plan[c].text) = Items(mem[c])
  /\ op[c] = "swap" => Items(mem[c]) \subseteq Gone

(* What a turn has said is behind the index it began at.                    *)
Indexed(c) ==
  run[c] = "turn" /\ turn[c].sound =>
    /\ turn[c].start <= Len(mem[c])
    /\ Since(mem[c], turn[c].start) \subseteq turn[c].said
    /\ turn[c].said \subseteq Since(mem[c], turn[c].start) \cup discarded
    /\ op[c] = "cancelling" =>
         /\ turn[c].start <= Len(plan[c].text)
         /\ Items(mem[c]) \ Items(plan[c].text) \subseteq turn[c].said
         /\ Since(plan[c].text, turn[c].start) \subseteq turn[c].said

Safe == amiss \/ \A c \in Controller : Held(c) /\ Indexed(c)

-----------------------------------------------------------------------------
(***************************************************************************)
(* Texts, and what is in them.                                             *)
(***************************************************************************)
Message == SUBSET (Item \cup {Edited, Folded})

LEMMA ItemOf ==
  ASSUME NEW t, NEW i
  PROVE  i \in Items(t) <=> i \in Item /\ \E k \in DOMAIN t : i \in t[k]
BY DEF Items

LEMMA TextIs ==
  ASSUME NEW t \in Text
  PROVE  /\ Len(t) \in Nat
         /\ DOMAIN t = 1..Len(t)
         /\ \A k \in 1..Len(t) : t[k] \in Message
BY DEF Text, Message

LEMMA Empty == <<>> \in Text /\ Items(<<>>) = {} /\ Digests(<<>>) = {}
BY ItemOf DEF Text, Digests

LEMMA Prefixes ==
  ASSUME NEW n \in Text, NEW d \in Text, HasPrefix(n, d)
  PROVE  Items(d) \subseteq Items(n)
BY ItemOf, TextIs DEF HasPrefix

LEMMA Initials ==
  ASSUME NEW t \in Text, NEW n \in 0..Len(t)
  PROVE  /\ SubSeq(t, 1, n) \in Text
         /\ Len(SubSeq(t, 1, n)) = n
         /\ \A k \in 1..n : SubSeq(t, 1, n)[k] = t[k]
         /\ Items(SubSeq(t, 1, n)) \subseteq Items(t)
         /\ Digests(SubSeq(t, 1, n)) \subseteq Digests(t)
<1>1. /\ SubSeq(t, 1, n) \in Text
      /\ Len(SubSeq(t, 1, n)) = n
      /\ \A k \in 1..n : SubSeq(t, 1, n)[k] = t[k]
  BY DEF Text
<1>2. ASSUME NEW i, i \in Items(SubSeq(t, 1, n)) PROVE i \in Items(t)
  <2>1. PICK k \in DOMAIN SubSeq(t, 1, n) : i \in SubSeq(t, 1, n)[k]
    BY <1>2, ItemOf
  <2>2. k \in 1..n /\ k \in DOMAIN t /\ i \in t[k]
    BY <2>1, <1>1, TextIs
  <2>3. i \in Item
    BY <1>2, ItemOf
  <2>4. QED
    BY <2>2, <2>3, ItemOf
<1>3. Digests(SubSeq(t, 1, n)) \subseteq Digests(t)
  BY <1>1, TextIs DEF Digests
<1>4. QED
  BY <1>1, <1>2, <1>3

LEMMA SinceOf ==
  ASSUME NEW t \in Text, NEW n \in Nat, NEW i
  PROVE  i \in Since(t, n) <=> i \in Item /\ \E k \in n + 1..Len(t) : i \in t[k]
<1>1. /\ SubSeq(t, n + 1, Len(t)) \in Text
      /\ Len(SubSeq(t, n + 1, Len(t))) = IF n < Len(t) THEN Len(t) - n ELSE 0
      /\ \A k \in 1..Len(t) - n : SubSeq(t, n + 1, Len(t))[k] = t[n + k]
  BY DEF Text
<1>2. ASSUME i \in Since(t, n) PROVE \E k \in n + 1..Len(t) : i \in t[k]
  <2>1. PICK k \in DOMAIN SubSeq(t, n + 1, Len(t)) : i \in SubSeq(t, n + 1, Len(t))[k]
    BY <1>2, ItemOf DEF Since
  <2>2. k \in 1..Len(t) - n /\ n + k \in n + 1..Len(t)
    BY <2>1, <1>1, TextIs
  <2>3. QED
    BY <2>1, <2>2, <1>1
<1>3. ASSUME i \in Item, NEW k \in n + 1..Len(t), i \in t[k] PROVE i \in Since(t, n)
  <2>1. k - n \in 1..Len(t) - n /\ k = n + (k - n)
    BY TextIs
  <2>2. k - n \in DOMAIN SubSeq(t, n + 1, Len(t)) /\ SubSeq(t, n + 1, Len(t))[k - n] = t[k]
    BY <2>1, <1>1, TextIs
  <2>3. QED
    BY <2>2, <1>3, ItemOf DEF Since
<1>4. i \in Since(t, n) => i \in Item
  BY ItemOf DEF Since
<1>5. QED
  BY <1>2, <1>3, <1>4

LEMMA Appending ==
  ASSUME NEW t \in Text, NEW m \in Message
  PROVE  /\ Append(t, m) \in Text
         /\ Len(Append(t, m)) = Len(t) + 1
         /\ Items(Append(t, m)) = Items(t) \cup (Item \cap m)
         /\ \A n \in 0..Len(t) : Since(Append(t, m), n) = Since(t, n) \cup (Item \cap m)
         /\ Folded \notin m => Digests(Append(t, m)) = Digests(t)
<1>1. /\ Append(t, m) \in Text
      /\ Len(Append(t, m)) = Len(t) + 1
      /\ DOMAIN Append(t, m) = 1..Len(t) + 1
      /\ Append(t, m)[Len(t) + 1] = m
      /\ \A k \in 1..Len(t) : Append(t, m)[k] = t[k]
  BY DEF Text, Message
<1>2. Len(t) \in Nat /\ DOMAIN t = 1..Len(t)
  BY TextIs
<1>3. \A k : k \in 1..Len(t) + 1 <=> k \in 1..Len(t) \/ k = Len(t) + 1
  BY <1>2
<1>4. ASSUME NEW i
      PROVE  i \in Items(Append(t, m)) <=> i \in Items(t) \cup (Item \cap m)
  BY <1>1, <1>2, <1>3, ItemOf
<1>5. ASSUME NEW n \in 0..Len(t), NEW i
      PROVE  i \in Since(Append(t, m), n) <=> i \in Since(t, n) \cup (Item \cap m)
  <2>1. \A k : k \in n + 1..Len(t) + 1 <=> k \in n + 1..Len(t) \/ k = Len(t) + 1
    BY <1>2
  <2>2. n \in Nat /\ \A k \in n + 1..Len(t) : Append(t, m)[k] = t[k]
    BY <1>1, <1>2
  <2>3. i \in Since(t, n) <=> i \in Item /\ \E k \in n + 1..Len(t) : i \in t[k]
    BY <2>2, SinceOf
  <2>4. i \in Since(Append(t, m), n) <=>
          i \in Item /\ \E k \in n + 1..Len(t) + 1 : i \in Append(t, m)[k]
    BY <2>2, <1>1, SinceOf
  <2>5. Len(t) + 1 \in n + 1..Len(t) + 1
    BY <1>2
  <2>6. QED
    BY <2>1, <2>2, <2>3, <2>4, <2>5, <1>1
<1>6. ASSUME Folded \notin m PROVE Digests(Append(t, m)) = Digests(t)
  BY <1>1, <1>2, <1>3, <1>6 DEF Digests
<1>7. QED
  BY <1>1, <1>4, <1>5, <1>6

LEMMA Stripping ==
  ASSUME NEW t \in Text, NEW n \in Nat, n < Len(t), NEW visible \in BOOLEAN,
         NEW u \in Stripped(t, n, visible)
  PROVE  /\ u \in Text
         /\ n <= Len(u)
         /\ Items(t) \ Items(u) \subseteq Since(t, n)
         /\ Since(u, n) \subseteq Since(t, n)
         /\ Digests(u) \subseteq Digests(t)
<1> DEFINE h == SubSeq(t, 1, n)
<1>1. n \in 0..Len(t) /\ Len(t) \in Nat
  BY TextIs
<1>2. /\ h \in Text
      /\ Len(h) = n
      /\ \A k \in 1..n : h[k] = t[k]
      /\ Digests(h) \subseteq Digests(t)
  BY <1>1, Initials
<1>3. \A i : i \in Items(t) => i \in Items(h) \/ i \in Since(t, n)
  <2> SUFFICES ASSUME NEW i, i \in Items(t) PROVE i \in Items(h) \/ i \in Since(t, n)
    OBVIOUS
  <2>1. PICK k \in 1..Len(t) : i \in t[k]
    BY ItemOf, TextIs
  <2>2. i \in Item
    BY ItemOf
  <2>3. CASE k <= n
    <3>1. k \in DOMAIN h /\ i \in h[k]
      BY <2>1, <2>3, <1>1, <1>2, TextIs
    <3>2. QED
      BY <3>1, <2>2, ItemOf
  <2>4. CASE k > n
    BY <2>1, <2>2, <2>4, SinceOf, <1>1
  <2>5. QED
    BY <2>3, <2>4, <1>1
<1>4. ASSUME NEW i PROVE i \notin Since(h, n)
  <2>1. i \in Since(h, n) => \E k \in n + 1..Len(h) : i \in h[k]
    BY <1>2, SinceOf
  <2>2. n + 1..Len(h) = {}
    BY <1>2
  <2>3. QED
    BY <2>1, <2>2
<1>5. CASE u = h
  BY <1>2, <1>3, <1>4, <1>5
<1>6. CASE \E k \in DOMAIN t : FirstPrompt(t, n, k) /\ u = Append(h, t[k])
  <2>1. PICK k \in n + 1..Len(t) : IsPrompt(t[k]) /\ u = Append(h, t[k])
    BY <1>6 DEF FirstPrompt
  <2>2. t[k] \in Message /\ Folded \notin t[k]
    BY <2>1, TextIs DEF IsPrompt
  <2>3. /\ u \in Text
        /\ Len(u) = n + 1
        /\ Items(u) = Items(h) \cup (Item \cap t[k])
        /\ Since(u, n) = Since(h, n) \cup (Item \cap t[k])
        /\ Digests(u) = Digests(h)
    <3>1. n \in 0..Len(h)
      BY <1>2
    <3>2. /\ Append(h, t[k]) \in Text
          /\ Len(Append(h, t[k])) = Len(h) + 1
          /\ Items(Append(h, t[k])) = Items(h) \cup (Item \cap t[k])
          /\ \A j \in 0..Len(h) : Since(Append(h, t[k]), j) = Since(h, j) \cup (Item \cap t[k])
          /\ Folded \notin t[k] => Digests(Append(h, t[k])) = Digests(h)
      BY <2>2, <1>2, Appending
    <3>3. QED
      BY <2>1, <2>2, <3>1, <3>2, <1>2
  <2>4. Item \cap t[k] \subseteq Since(t, n)
    BY SinceOf
  <2>5. QED
    BY <2>3, <2>4, <1>2, <1>3, <1>4
<1>7. QED
  BY <1>5, <1>6 DEF Stripped

LEMMA Editing ==
  ASSUME NEW t \in Text, NEW k \in DOMAIN t, IsPrompt(t[k]),
         NEW u, u = [t EXCEPT ![k] = @ \cup {Edited}]
  PROVE  /\ u \in Text
         /\ Len(u) = Len(t)
         /\ Items(u) = Items(t)
         /\ \A n \in Nat : Since(u, n) = Since(t, n)
         /\ Digests(u) \subseteq Digests(t)
<1>1. /\ DOMAIN t = 1..Len(t)
      /\ t[k] \in Message
      /\ t[k] \cup {Edited} \in Message
  BY TextIs DEF Message
<1>2. /\ u \in Text
      /\ Len(u) = Len(t)
      /\ DOMAIN u = DOMAIN t
      /\ \A j \in DOMAIN t : u[j] = IF j = k THEN t[k] \cup {Edited} ELSE t[j]
  BY <1>1 DEF Text, Message
<1>3. Folded \notin t[k] \cup {Edited} /\ \A i \in Item : i \in t[k] \cup {Edited} <=> i \in t[k]
  BY ConstantsAssumption DEF IsPrompt
<1>4. ASSUME NEW i PROVE i \in Items(u) <=> i \in Items(t)
  BY <1>2, <1>3, ItemOf
<1>5. ASSUME NEW n \in Nat, NEW i PROVE i \in Since(u, n) <=> i \in Since(t, n)
  <2>1. \A j \in n + 1..Len(t) : j \in DOMAIN t
    BY <1>1
  <2>2. QED
    BY <2>1, <1>2, <1>3, SinceOf
<1>6. Digests(u) \subseteq Digests(t)
  BY <1>2, <1>3 DEF Digests
<1>7. QED
  BY <1>2, <1>4, <1>5, <1>6

-----------------------------------------------------------------------------
(***************************************************************************)
(* Types, and where a controller can be: one step per action.              *)
(***************************************************************************)
LEMMA Constants ==
  /\ None \notin File
  /\ \A r \in Root : Fresh(r) \in File /\ Depth(Fresh(r)) = 0
  /\ \A f \in File, t \in Text :
       ~TooDeep(f) => Recovery(f, t) \in File /\ Depth(Recovery(f, t)) <= MaxDepth
  /\ <<>> \in Text
  /\ Free \in Snap
  /\ NoBase \in Base
  /\ NoTurn \in Turn
  /\ NoPlan \in Plan
<1>1. <<>> \in Text /\ <<>> \in Seq(Text)
  BY DEF Text
<1>2. \A r \in Root : Fresh(r) \in File /\ Depth(Fresh(r)) = 0
  BY <1>1 DEF Fresh, File, Depth
<1>3. ASSUME NEW f \in File, NEW t \in Text, ~TooDeep(f)
      PROVE  Recovery(f, t) \in File /\ Depth(Recovery(f, t)) <= MaxDepth
  <2>1. Append(f.forks, t) \in Seq(Text) /\ Len(Append(f.forks, t)) = Len(f.forks) + 1
    BY DEF File
  <2>2. Len(f.forks) \in Nat /\ Len(f.forks) < MaxDepth
    BY <1>3, ConstantsAssumption DEF TooDeep, Depth, File
  <2>3. Recovery(f, t) = [root |-> f.root, forks |-> Append(f.forks, t)] /\ f.root \in Root
    BY DEF Recovery, File
  <2>4. QED
    BY <2>1, <2>2, <2>3, ConstantsAssumption DEF File, Depth
<1>4. Free \in Snap /\ NoBase \in Base /\ NoTurn \in Turn /\ NoPlan \in Plan
  BY <1>1 DEF Free, Snap, Steps, NoBase, Base, NoTurn, Turn, NoPlan, Plan
<1>5. QED
  BY <1>1, <1>2, <1>3, <1>4, ConstantsAssumption

Disk(d) ==
  /\ DOMAIN d \subseteq File
  /\ d \in [DOMAIN d -> Text]
  /\ \A f \in DOMAIN d : Depth(f) <= MaxDepth

LEMMA Putting ==
  ASSUME Disk(disk), NEW f \in File, Depth(f) <= MaxDepth, NEW n \in Text, Put(f, n)
  PROVE  /\ Disk(disk')
         /\ DOMAIN disk' = DOMAIN disk \cup {f}
         /\ disk'[f] = n
         /\ \A g \in DOMAIN disk \ {f} : disk'[g] = disk[g]
BY DEF Disk, Put

LEMMA Persisting ==
  ASSUME base \in [Controller -> Base], NEW c \in Controller, NEW f \in File, NEW n \in Text,
         Persist(c, f, n)
  PROVE  /\ base' \in [Controller -> Base]
         /\ base'[c] = [file |-> f, text |-> n, behind |-> FALSE]
         /\ \A x \in Controller : x # c =>
              base'[x].file = base[x].file /\ base'[x].text = base[x].text
BY DEF Persist, Base

Situations ==
  /\ run \in [Controller -> Run]
  /\ op \in [Controller -> Op]
  /\ turn \in [Controller -> Turn]
  /\ snap \in [Controller -> Snap]

LEMMA Locking ==
  ASSUME Situations, path \in [Controller -> File \cup {None}], rewrites \in [Controller -> Nat],
         NEW c \in Controller, NEW by \in {"anyone", "turn", "rotation", "cancel"},
         NEW rewrite \in BOOLEAN, Lock(c, by, rewrite)
  PROVE  /\ snap[c].step = "free"
         /\ snap' \in [Controller -> Snap]
         /\ snap'[c] = [step |-> "write", by |-> by, file |-> path[c], rewrite |-> rewrite,
                        version |-> rewrites[c], copy |-> <<>>, stale |-> FALSE]
         /\ \A x \in Controller : x # c => snap'[x] = snap[x]
BY Constants DEF Situations, Lock, Free, Snap, Steps

LEMMA Unlocking ==
  ASSUME Situations, NEW c \in Controller, NEW ok \in BOOLEAN, NEW sound \in Turn,
         Unlock(c, ok, sound)
  PROVE  /\ Situations'
         /\ snap'[c] = Free
         /\ snap[c].by = "anyone" => run'[c] = run[c] /\ op'[c] = op[c] /\ turn'[c] = sound
         /\ snap[c].by = "cancel" => run'[c] = run[c] /\ op'[c] = "ending" /\ turn'[c] = sound
         /\ snap[c].by = "turn" => run'[c] = "idle" /\ op'[c] = "none" /\ turn'[c] = NoTurn
         /\ snap[c].by = "rotation" =>
              /\ turn'[c] = sound
              /\ \/ run'[c] = "idle" /\ op'[c] = "none"
                 \/ run'[c] = run[c] /\ run[c] \in {"swap", "fork"} /\ op'[c] = "swap"
         /\ \A x \in Controller : x # c =>
              snap'[x] = snap[x] /\ run'[x] = run[x] /\ op'[x] = op[x] /\ turn'[x] = turn[x]
<1>1. snap' = [snap EXCEPT ![c] = Free] /\ snap' \in [Controller -> Snap]
  BY Constants DEF Unlock, Situations
<1>2. turn' = [turn EXCEPT ![c] = IF snap[c].by = "turn" THEN NoTurn ELSE sound]
      /\ turn' \in [Controller -> Turn]
  BY Constants DEF Unlock, Situations
<1>3. run' \in [Controller -> Run] /\ op' \in [Controller -> Op]
  BY DEF Unlock, Situations, Run, Op
<1>4. QED
  BY <1>1, <1>2, <1>3 DEF Unlock, Situations, Snap

Same(x) ==
  /\ path'[x] = path[x] /\ mem'[x] = mem[x]
  /\ rewrites'[x] = rewrites[x] /\ saved'[x] = saved[x]
  /\ run'[x] = run[x] /\ op'[x] = op[x] /\ turn'[x] = turn[x]
  /\ plan'[x] = plan[x] /\ snap'[x] = snap[x]

Others(c) == \A x \in Controller : x # c => Same(x)

LEMMA Elsewhere ==
  ASSUME Control, NEW c \in Controller, Others(c), Placed(c)', DOMAIN disk \subseteq DOMAIN disk'
  PROVE  Control'
BY DEF Control, Others, Same, Placed

Stepped(c) == TypeOK' /\ Others(c) /\ Placed(c)' /\ DOMAIN disk \subseteq DOMAIN disk'

LEMMA SavingControl ==
  ASSUME TypeOK, Control, NEW c \in Controller, Saving(c)
  PROVE  Stepped(c)
<1> USE Constants, ConstantsAssumption DEF Stepped, Others, Same, held, work, history
<1>p. Placed(c)
  BY DEF Control
<1>t. Situations /\ Disk(disk) /\ snap[c] \in Snap /\ path[c] \in File \cup {None} /\ mem[c] \in Text
  BY DEF TypeOK, Situations, Disk
<1>s. turn[c] \in Turn /\ Indexless(c) \in Turn
  BY DEF TypeOK, Turn, Indexless
<1>1. CASE Autosave(c)
  <2>1. /\ path[c] # None /\ snap[c].step = "free"
        /\ snap' \in [Controller -> Snap]
        /\ snap'[c] = [step |-> "write", by |-> "anyone", file |-> path[c],
                       rewrite |-> (FALSE \/ rewrites[c] > saved[c]),
                       version |-> rewrites[c], copy |-> <<>>, stale |-> FALSE]
        /\ \A x \in Controller : x # c => snap'[x] = snap[x]
    BY <1>1, <1>t, Locking DEF Autosave, Decide, TypeOK
  <2>2. TypeOK'
    BY <1>1, <2>1 DEF Autosave, TypeOK
  <2>3. QED
    BY <1>1, <1>p, <2>1, <2>2 DEF Autosave, Placed
<1>2. CASE Write(c)
  <2> DEFINE f == snap[c].file
  <2>1. f \in File /\ f = path[c] /\ snap[c].step = "write" /\ Depth(f) <= MaxDepth
    BY <1>2, <1>p, <1>t DEF Write, Placed
  <2>2. /\ UNCHANGED <<path, mem, rewrites, saved, plan, used, discarded, amiss, spent>>
    BY <1>2 DEF Write
  <2> DEFINE may == f \notin DOMAIN disk \/ MayWrite(mem[c], disk[f], Baseline(c, f), snap[c].rewrite)
  <2>3. ASSUME may PROVE Put(f, mem[c]) /\ Persist(c, f, mem[c])
    BY <1>2, <2>3 DEF Write
  <2>4. ASSUME may
        PROVE  /\ Disk(disk') /\ DOMAIN disk \subseteq DOMAIN disk'
               /\ base' \in [Controller -> Base]
    <3>1. /\ Disk(disk) /\ f \in File /\ Depth(f) <= MaxDepth /\ mem[c] \in Text
          /\ Put(f, mem[c]) /\ Persist(c, f, mem[c]) /\ base \in [Controller -> Base]
      BY <2>3, <2>4, <1>t, <2>1 DEF TypeOK
    <3>2. Disk(disk') /\ DOMAIN disk' = DOMAIN disk \cup {f}
      BY <3>1, Putting
    <3>3. base' \in [Controller -> Base]
      BY <3>1, Persisting
    <3>4. QED
      BY <3>2, <3>3
  <2>5. CASE may /\ snap[c].by = "cancel"
    <3>1. Unlock(c, TRUE, turn[c])
      BY <1>2, <2>5 DEF Write
    <3>2. /\ Situations' /\ snap'[c] = Free
          /\ run'[c] = run[c] /\ op'[c] = "ending" /\ turn'[c] = turn[c]
          /\ \A x \in Controller : x # c =>
               snap'[x] = snap[x] /\ run'[x] = run[x] /\ op'[x] = op[x] /\ turn'[x] = turn[x]
      BY <3>1, <1>t, <1>s, <2>5, Unlocking
    <3>3. TypeOK'
      BY <3>2, <2>2, <2>4, <2>5 DEF TypeOK, Situations, Disk
    <3>4. Placed(c)'
      BY <3>2, <2>1, <2>2, <2>5, <1>p DEF Placed, Free
    <3>5. QED
      BY <3>2, <3>3, <3>4, <2>2, <2>4, <2>5
  <2>6. CASE may /\ snap[c].by # "cancel"
    <3>1. /\ snap' = [snap EXCEPT ![c].step = "mark", ![c].copy = mem[c]]
          /\ UNCHANGED <<run, op, turn>>
      BY <1>2, <2>6 DEF Write
    <3>2. /\ snap' \in [Controller -> Snap]
          /\ snap'[c].step = "mark" /\ snap'[c].by = snap[c].by
          /\ \A x \in Controller : x # c => snap'[x] = snap[x]
      BY <3>1, <1>t DEF Situations, Snap, Steps
    <3>3. TypeOK'
      BY <3>1, <3>2, <2>2, <2>4, <2>6 DEF TypeOK, Disk
    <3>4. Placed(c)'
      BY <3>1, <3>2, <2>1, <2>2, <2>6, <1>p DEF Placed
    <3>5. QED
      BY <3>1, <3>2, <3>3, <3>4, <2>2, <2>4, <2>6
  <2>7. CASE ~may
    <3>1. /\ snap' = [snap EXCEPT
                       ![c].step = IF snap[c].rewrite THEN "recover" ELSE "redecide",
                       ![c].stale = HasPrefix(disk[f], mem[c]),
                       ![c].copy = mem[c]]
          /\ UNCHANGED <<disk, base, run, op, turn>>
      BY <1>2, <2>7 DEF Write
    <3>2. HasPrefix(disk[f], mem[c]) \in BOOLEAN
      BY DEF HasPrefix
    <3>3. /\ snap' \in [Controller -> Snap]
          /\ snap'[c].step \in {"recover", "redecide"}
          /\ snap'[c].by = snap[c].by /\ snap'[c].file = f
          /\ \A x \in Controller : x # c => snap'[x] = snap[x]
      BY <3>1, <3>2, <1>t DEF Situations, Snap, Steps
    <3>4. TypeOK'
      BY <3>1, <3>3, <2>2 DEF TypeOK
    <3>5. Placed(c)'
      BY <3>1, <3>3, <2>1, <2>2, <2>7, <1>p DEF Placed
    <3>6. QED
      BY <3>1, <3>3, <3>4, <3>5, <2>2
  <2>8. QED
    BY <2>5, <2>6, <2>7
<1>3. CASE Redecide(c)
  <2>1. /\ snap' \in [Controller -> Snap]
        /\ snap'[c].step \in {"write", "recover"}
        /\ snap'[c].by = snap[c].by /\ snap'[c].file = snap[c].file
        /\ \A x \in Controller : x # c => snap'[x] = snap[x]
    BY <1>3, <1>t DEF Redecide, Situations, Snap, Steps, TypeOK
  <2>2. TypeOK'
    BY <1>3, <2>1 DEF Redecide, TypeOK
  <2>3. QED
    BY <1>3, <1>p, <2>1, <2>2 DEF Redecide, Placed
<1>4. CASE Mark(c)
  <2>1. /\ Unlock(c, TRUE, turn[c])
        /\ saved' = [saved EXCEPT ![c] = Persisted(c)]
        /\ UNCHANGED <<disk, path, mem, rewrites, base, plan, used, discarded, amiss, spent>>
        /\ snap[c].by # "cancel"
    BY <1>4, <1>p DEF Mark, Placed
  <2>2. Persisted(c) \in Nat
    BY <1>t DEF Persisted, TypeOK, Snap
  <2>3. /\ Situations' /\ snap'[c] = Free
        /\ snap[c].by = "anyone" => run'[c] = run[c] /\ op'[c] = op[c] /\ turn'[c] = turn[c]
        /\ snap[c].by = "turn" => run'[c] = "idle" /\ op'[c] = "none" /\ turn'[c] = NoTurn
        /\ snap[c].by = "rotation" =>
              /\ turn'[c] = turn[c]
              /\ \/ run'[c] = "idle" /\ op'[c] = "none"
                 \/ run'[c] = run[c] /\ run[c] \in {"swap", "fork"} /\ op'[c] = "swap"
        /\ \A x \in Controller : x # c =>
             snap'[x] = snap[x] /\ run'[x] = run[x] /\ op'[x] = op[x] /\ turn'[x] = turn[x]
    BY <2>1, <1>t, <1>s, Unlocking
  <2>4. TypeOK'
    BY <2>1, <2>2, <2>3 DEF TypeOK, Situations
  <2>5. snap[c].by \in {"anyone", "turn", "rotation"}
    BY <2>1, <1>t DEF Snap
  <2>6. Placed(c)'
    BY <2>1, <2>3, <2>5, <1>p DEF Placed, Free, Rotation
  <2>7. QED
    BY <2>1, <2>3, <2>4, <2>6
<1>5. CASE NotNeeded(c)
  <2>1. /\ snap' \in [Controller -> Snap]
        /\ snap'[c].step = "adopt" /\ snap[c].step = "recover"
        /\ snap'[c].by = snap[c].by /\ snap'[c].file = snap[c].file
        /\ \A x \in Controller : x # c => snap'[x] = snap[x]
    BY <1>5, <1>t DEF NotNeeded, Situations, Snap, Steps, TypeOK
  <2>2. TypeOK'
    BY <1>5, <2>1 DEF NotNeeded, TypeOK
  <2>3. QED
    BY <1>5, <1>p, <2>1, <2>2 DEF NotNeeded, Placed
<1>6. CASE Adopt(c)
  <2> DEFINE f == snap[c].file
  <2>1. f \in File /\ f = path[c] /\ f \in DOMAIN disk /\ disk[f] \in Text
    BY <1>6, <1>p, <1>t DEF Adopt, Placed, Disk
  <2>2. /\ Unlock(c, TRUE, Indexless(c))
        /\ path' = path
        /\ mem' = [mem EXCEPT ![c] = disk[f]]
        /\ rewrites' = [rewrites EXCEPT ![c] = 0]
        /\ saved' = [saved EXCEPT ![c] = 0]
        /\ base' = [base EXCEPT ![c] = [file |-> f, text |-> disk[f], behind |-> FALSE]]
        /\ plan' = IF op[c] = "folding" THEN [plan EXCEPT ![c].sound = FALSE] ELSE plan
        /\ amiss' = (amiss \/ mem[c] # snap[c].copy)
        /\ UNCHANGED <<disk, used, discarded, spent>>
    BY <1>6 DEF Adopt, Install, Misread, TypeOK
  <2>3. /\ Situations' /\ snap'[c] = Free
        /\ snap[c].by = "anyone" => run'[c] = run[c] /\ op'[c] = op[c]
        /\ snap[c].by = "cancel" => run'[c] = run[c] /\ op'[c] = "ending"
        /\ snap[c].by = "turn" => run'[c] = "idle" /\ op'[c] = "none"
        /\ snap[c].by = "rotation" =>
              \/ run'[c] = "idle" /\ op'[c] = "none"
              \/ run'[c] = run[c] /\ run[c] \in {"swap", "fork"} /\ op'[c] = "swap"
        /\ \A x \in Controller : x # c =>
             snap'[x] = snap[x] /\ run'[x] = run[x] /\ op'[x] = op[x] /\ turn'[x] = turn[x]
    BY <2>2, <1>t, <1>s, Unlocking
  <2>4. base' \in [Controller -> Base] /\ plan' \in [Controller -> Plan]
    BY <2>1, <2>2 DEF TypeOK, Base, Plan
  <2>5. TypeOK'
    BY <2>1, <2>2, <2>3, <2>4 DEF TypeOK, Situations
  <2>6. snap[c].by \in {"anyone", "turn", "rotation", "cancel"}
    BY <1>t DEF Snap
  <2>7. Placed(c)'
    BY <2>1, <2>2, <2>3, <2>6, <1>p DEF Placed, Free
  <2>8. QED
    BY <2>2, <2>3, <2>5, <2>7 DEF TypeOK
<1>7. CASE Fork(c)
  <2> DEFINE f == snap[c].file
             g == Recovery(f, mem[c])
  <2>1. /\ snap[c].step = "recover" /\ f \in File /\ f = path[c] /\ f \in DOMAIN disk
        /\ g \in File /\ Depth(g) <= MaxDepth
    BY <1>7, <1>p, <1>t DEF Fork, Diverged, Placed
  <2>2. /\ Put(g, mem[c]) /\ Persist(c, g, mem[c])
        /\ amiss' \in BOOLEAN
        /\ UNCHANGED <<mem, rewrites, saved, plan, used, discarded, spent>>
    BY <1>7 DEF Fork, TypeOK
  <2>3. /\ Disk(disk') /\ DOMAIN disk \subseteq DOMAIN disk'
        /\ base' \in [Controller -> Base]
    BY <2>1, <2>2, <1>t, Putting, Persisting DEF TypeOK
  <2>4. CASE Unlock(c, FALSE, turn[c]) /\ UNCHANGED path
    <3>1. /\ Situations' /\ snap'[c] = Free
          /\ snap[c].by = "anyone" => run'[c] = run[c] /\ op'[c] = op[c]
          /\ snap[c].by = "cancel" => run'[c] = run[c] /\ op'[c] = "ending"
          /\ snap[c].by = "turn" => run'[c] = "idle" /\ op'[c] = "none"
          /\ snap[c].by = "rotation" =>
                \/ run'[c] = "idle" /\ op'[c] = "none"
                \/ run'[c] = run[c] /\ run[c] \in {"swap", "fork"} /\ op'[c] = "swap"
          /\ \A x \in Controller : x # c =>
               snap'[x] = snap[x] /\ run'[x] = run[x] /\ op'[x] = op[x] /\ turn'[x] = turn[x]
      BY <2>4, <1>t, <1>s, Unlocking
    <3>2. TypeOK'
      BY <3>1, <2>2, <2>3, <2>4 DEF TypeOK, Situations, Disk
    <3>3. snap[c].by \in {"anyone", "turn", "rotation", "cancel"}
      BY <1>t DEF Snap
    <3>4. Placed(c)'
      BY <3>1, <3>3, <2>1, <2>2, <2>4, <1>p DEF Placed, Free
    <3>5. QED
      BY <3>1, <3>2, <3>4, <2>2, <2>3, <2>4
  <2>5. CASE /\ path' = [path EXCEPT ![c] = g] /\ snap[c].by = "cancel" /\ Unlock(c, TRUE, turn[c])
    <3>1. /\ Situations' /\ snap'[c] = Free
          /\ run'[c] = run[c] /\ op'[c] = "ending"
          /\ \A x \in Controller : x # c =>
               snap'[x] = snap[x] /\ run'[x] = run[x] /\ op'[x] = op[x] /\ turn'[x] = turn[x]
      BY <2>5, <1>t, <1>s, Unlocking
    <3>2. TypeOK'
      BY <3>1, <2>1, <2>2, <2>3, <2>5 DEF TypeOK, Situations, Disk
    <3>3. path'[c] = g /\ g # None
      BY <2>1, <2>5 DEF TypeOK
    <3>4. Placed(c)'
      BY <3>1, <3>3, <2>1, <2>2, <2>5, <1>p DEF Placed, Free
    <3>5. QED
      BY <3>1, <3>2, <3>4, <2>2, <2>3, <2>5
  <2>6. CASE /\ path' = [path EXCEPT ![c] = g] /\ snap[c].by # "cancel"
             /\ snap' = [snap EXCEPT ![c].step = "mark", ![c].copy = mem[c]]
             /\ UNCHANGED <<run, op, turn>>
    <3>1. /\ snap' \in [Controller -> Snap]
          /\ snap'[c].step = "mark" /\ snap'[c].by = snap[c].by
          /\ \A x \in Controller : x # c => snap'[x] = snap[x]
      BY <2>6, <1>t DEF Situations, Snap, Steps
    <3>2. TypeOK'
      BY <3>1, <2>1, <2>2, <2>3, <2>6 DEF TypeOK, Disk
    <3>3. path'[c] = g /\ g # None
      BY <2>1, <2>6 DEF TypeOK
    <3>4. Placed(c)'
      BY <3>1, <3>3, <2>1, <2>2, <2>6, <1>p DEF Placed
    <3>5. QED
      BY <3>1, <3>2, <3>4, <2>2, <2>3, <2>6
  <2>7. QED
    BY <1>7, <2>4, <2>5, <2>6 DEF Fork
<1>8. CASE ForceSave(c)
  <2> DEFINE f == snap[c].file
  <2>1. f \in File /\ f = path[c] /\ Depth(f) <= MaxDepth
    BY <1>8, <1>p, <1>t DEF ForceSave, Diverged, Placed
  <2>2. /\ Put(f, mem[c]) /\ Persist(c, f, mem[c]) /\ Unlock(c, TRUE, turn[c])
        /\ amiss' \in BOOLEAN
        /\ UNCHANGED <<path, mem, rewrites, saved, plan, used, discarded, spent>>
    BY <1>8 DEF ForceSave, TypeOK
  <2>3. /\ Disk(disk') /\ DOMAIN disk \subseteq DOMAIN disk'
        /\ base' \in [Controller -> Base]
    BY <2>1, <2>2, <1>t, Putting, Persisting DEF TypeOK
  <2>4. /\ Situations' /\ snap'[c] = Free
        /\ snap[c].by = "anyone" => run'[c] = run[c] /\ op'[c] = op[c]
        /\ snap[c].by = "cancel" => run'[c] = run[c] /\ op'[c] = "ending"
        /\ snap[c].by = "turn" => run'[c] = "idle" /\ op'[c] = "none"
        /\ snap[c].by = "rotation" =>
              \/ run'[c] = "idle" /\ op'[c] = "none"
              \/ run'[c] = run[c] /\ run[c] \in {"swap", "fork"} /\ op'[c] = "swap"
        /\ \A x \in Controller : x # c =>
             snap'[x] = snap[x] /\ run'[x] = run[x] /\ op'[x] = op[x] /\ turn'[x] = turn[x]
    BY <2>2, <1>t, <1>s, Unlocking
  <2>5. TypeOK'
    BY <2>2, <2>3, <2>4 DEF TypeOK, Situations, Disk
  <2>6. snap[c].by \in {"anyone", "turn", "rotation", "cancel"}
    BY <1>t DEF Snap
  <2>7. Placed(c)'
    BY <2>1, <2>2, <2>4, <2>6, <1>p DEF Placed, Free
  <2>8. QED
    BY <2>2, <2>3, <2>4, <2>5, <2>7
<1>9. QED
  BY <1>1, <1>2, <1>3, <1>4, <1>5, <1>6, <1>7, <1>8 DEF Saving

LEMMA TurningControl ==
  ASSUME TypeOK, Control, NEW c \in Controller, Turning(c)
  PROVE  Stepped(c)
<1> USE Constants, ConstantsAssumption DEF Stepped, Others, Same, held, work, history
<1>p. Placed(c)
  BY DEF Control
<1>t. Situations /\ snap[c] \in Snap /\ path[c] \in File \cup {None} /\ mem[c] \in Text
  BY DEF TypeOK, Situations
<1>s. turn[c] \in Turn /\ Indexless(c) \in Turn
  BY DEF TypeOK, Turn, Indexless
<1>1. CASE StartTurn(c)
  <2>1. Len(mem[c]) \in Nat
    BY <1>t, TextIs
  <2>2. turn' \in [Controller -> Turn] /\ \A x \in Controller : x # c => turn'[x] = turn[x]
    BY <1>1, <2>1 DEF StartTurn, TypeOK, Turn, NoTurn
  <2>3. TypeOK'
    BY <1>1, <2>2 DEF StartTurn, TypeOK, Run, Spend
  <2>4. QED
    BY <1>1, <1>p, <2>3 DEF StartTurn, Placed, TypeOK
<1>2. CASE Add(c)
  <2>1. PICK i \in Item :
          /\ mem' = [mem EXCEPT ![c] = Append(@, {i})]
          /\ turn' = [turn EXCEPT ![c].said = @ \cup {i}]
          /\ used' = used \cup {i}
    BY <1>2 DEF Add, Item
  <2>2. Append(mem[c], {i}) \in Text
    BY <1>t, Appending DEF Message
  <2>3. turn' \in [Controller -> Turn]
    BY <2>1, <1>s DEF TypeOK, Turn
  <2>4. UNCHANGED <<disk, path, rewrites, saved, base, run, op, plan, snap, discarded, amiss, spent>>
    BY <1>2 DEF Add
  <2>5. mem' \in [Controller -> Text] /\ used' \subseteq Item
    BY <2>1, <2>2 DEF TypeOK
  <2>6. TypeOK'
    BY <2>3, <2>4, <2>5 DEF TypeOK
  <2>7. path[c] # None
    BY <1>2, <1>p DEF Add, Working, Placed
  <2>8. QED
    BY <1>2, <1>p, <2>1, <2>6, <2>7 DEF Add, Working, Placed, TypeOK
<1>3. CASE MarkEdited(c)
  <2>1. PICK k \in DOMAIN mem[c] :
          /\ FirstPrompt(mem[c], turn[c].start, k)
          /\ mem' = [mem EXCEPT ![c][k] = @ \cup {Edited}]
    BY <1>3 DEF MarkEdited
  <2> DEFINE u == [mem[c] EXCEPT ![k] = @ \cup {Edited}]
  <2>2. mem' = [mem EXCEPT ![c] = u]
    BY <2>1 DEF TypeOK
  <2>3. u \in Text
    <3>1. IsPrompt(mem[c][k])
      BY <2>1 DEF FirstPrompt
    <3>2. QED
      BY <3>1, <1>t, Editing
  <2> HIDE DEF u
  <2>4. /\ op' = [op EXCEPT ![c] = "ending"] /\ spent' \in Nat
        /\ UNCHANGED <<disk, path, rewrites, saved, base, run, turn, plan, snap, history>>
    BY <1>3 DEF MarkEdited, Spend, TypeOK
  <2>5. mem' \in [Controller -> Text] /\ op' \in [Controller -> Op]
    BY <2>2, <2>3, <2>4 DEF TypeOK, Op
  <2>6. TypeOK'
    BY <2>4, <2>5 DEF TypeOK
  <2>7. path[c] # None
    BY <1>3, <1>p DEF MarkEdited, Working, Placed
  <2>8. QED
    BY <1>3, <1>p, <2>1, <2>2, <2>6, <2>7 DEF MarkEdited, Working, Placed, TypeOK
<1>4. CASE EndTurn(c)
  <2>1. CASE Changed(c)
    <3>1. Decide(c, "turn", FALSE) /\ op' = [op EXCEPT ![c] = "saving"] /\ UNCHANGED <<run, turn>>
      BY <1>4, <2>1 DEF EndTurn
    <3>2. /\ path[c] # None /\ snap[c].step = "free"
          /\ snap' \in [Controller -> Snap]
          /\ snap'[c] = [step |-> "write", by |-> "turn", file |-> path[c],
                         rewrite |-> (FALSE \/ rewrites[c] > saved[c]),
                         version |-> rewrites[c], copy |-> <<>>, stale |-> FALSE]
          /\ \A x \in Controller : x # c => snap'[x] = snap[x]
      BY <3>1, <1>t, Locking DEF Decide, TypeOK
    <3>3. TypeOK'
      BY <1>4, <3>1, <3>2 DEF EndTurn, TypeOK, Op
    <3>4. QED
      BY <1>4, <3>1, <3>2, <3>3, <1>p DEF EndTurn, Placed, TypeOK
  <2>2. CASE ~Changed(c)
    <3>1. /\ run' = [run EXCEPT ![c] = "idle"] /\ op' = [op EXCEPT ![c] = "none"]
          /\ turn' = [turn EXCEPT ![c] = NoTurn] /\ UNCHANGED snap
      BY <1>4, <2>2 DEF EndTurn
    <3>2. TypeOK'
      BY <1>4, <3>1 DEF EndTurn, TypeOK, Op, Run
    <3>3. QED
      BY <1>4, <3>1, <3>2, <1>p DEF EndTurn, Placed, TypeOK
  <2>3. QED
    BY <2>1, <2>2
<1>5. CASE FoldRead(c)
  <2>1. PICK t \in Text : plan' = [plan EXCEPT ![c] = [text |-> t, sound |-> TRUE]]
    BY <1>5 DEF FoldRead, Folds
  <2>2. TypeOK'
    BY <1>5, <2>1 DEF FoldRead, TypeOK, Op, Plan, Spend
  <2>3. QED
    BY <1>5, <1>p, <2>1, <2>2 DEF FoldRead, Placed, TypeOK, Rotation
<1>6. CASE FoldReplace(c)
  <2>1. /\ mem' = [mem EXCEPT ![c] = plan[c].text] /\ plan[c].text \in Text
        /\ turn' = [turn EXCEPT ![c] = Indexless(c)]
        /\ plan' = [plan EXCEPT ![c] = NoPlan]
        /\ amiss' \in BOOLEAN
    BY <1>6 DEF FoldReplace, TypeOK, Plan
  <2>2. turn' \in [Controller -> Turn] /\ plan' \in [Controller -> Plan]
    BY <1>s, <2>1 DEF TypeOK
  <2>3. /\ op' = [op EXCEPT ![c] = "replaced"]
        /\ UNCHANGED <<disk, path, rewrites, saved, base, run, snap, used, discarded, spent>>
    BY <1>6 DEF FoldReplace
  <2>4. mem' \in [Controller -> Text] /\ op' \in [Controller -> Op]
    BY <2>1, <2>3 DEF TypeOK, Op
  <2>5. TypeOK'
    BY <2>2, <2>1, <2>3, <2>4 DEF TypeOK
  <2>6. path[c] # None
    BY <1>6, <1>p DEF FoldReplace, Placed
  <2>7. QED
    BY <1>6, <1>p, <2>1, <2>5, <2>6 DEF FoldReplace, Placed, TypeOK, Rotation
<1>7. CASE FoldDeclare(c)
  <2>1. TypeOK'
    BY <1>7 DEF FoldDeclare, TypeOK, Op, Run
  <2>2. QED
    BY <1>7, <1>p, <2>1 DEF FoldDeclare, Placed, TypeOK, Rotation
<1>8. CASE FoldAbort(c)
  <2>1. TypeOK'
    BY <1>8 DEF FoldAbort, TypeOK, Op, Run
  <2>2. QED
    BY <1>8, <1>p, <2>1 DEF FoldAbort, Placed, TypeOK, Rotation
<1>9. CASE CancelRead(c)
  <2>1. PICK visible \in BOOLEAN : \E t \in Stripped(mem[c], turn[c].start, visible) :
          plan' = [plan EXCEPT ![c].text = t]
    BY <1>9 DEF CancelRead
  <2>2. PICK t \in Stripped(mem[c], turn[c].start, visible) : plan' = [plan EXCEPT ![c].text = t]
    BY <2>1
  <2>3. turn[c].start \in Nat /\ turn[c].start < Len(mem[c])
    BY <1>9, <1>s, <1>t, TextIs DEF CancelRead, Turn
  <2>4. t \in Text
    BY <2>2, <2>3, <1>t, Stripping
  <2>5. plan' \in [Controller -> Plan]
    BY <2>2, <2>4 DEF TypeOK, Plan
  <2>6. TypeOK'
    BY <1>9, <2>5 DEF CancelRead, TypeOK, Op, Spend
  <2>7. QED
    BY <1>9, <1>p, <2>2, <2>6 DEF CancelRead, Working, Placed, TypeOK
<1>10. CASE CancelReplace(c)
  <2>1. /\ snap[c].step = "free"
        /\ snap' \in [Controller -> Snap]
        /\ snap'[c] = [step |-> "write", by |-> "cancel", file |-> path[c], rewrite |-> TRUE,
                       version |-> rewrites[c], copy |-> <<>>, stale |-> FALSE]
        /\ \A x \in Controller : x # c => snap'[x] = snap[x]
    BY <1>10, <1>t, Locking DEF CancelReplace, TypeOK
  <2>2. plan[c].text \in Text /\ turn[c].said \subseteq Item
    BY <1>s DEF TypeOK, Plan, Turn
  <2>3. /\ mem' = [mem EXCEPT ![c] = plan[c].text] /\ plan[c].text \in Text
        /\ plan' = [plan EXCEPT ![c] = NoPlan] /\ plan' \in [Controller -> Plan]
        /\ amiss' \in BOOLEAN
        /\ discarded' \subseteq Item
    BY <1>10, <2>2 DEF CancelReplace, TypeOK
  <2>4. /\ op' = [op EXCEPT ![c] = "saving"]
        /\ UNCHANGED <<disk, path, rewrites, saved, base, run, turn, used, spent>>
    BY <1>10 DEF CancelReplace
  <2>5. mem' \in [Controller -> Text] /\ op' \in [Controller -> Op]
    BY <2>3, <2>4 DEF TypeOK, Op
  <2>6. TypeOK'
    BY <2>1, <2>3, <2>4, <2>5 DEF TypeOK
  <2>7. path[c] # None
    BY <1>10, <1>p DEF CancelReplace, Placed
  <2>8. QED
    BY <1>10, <1>p, <2>1, <2>3, <2>6, <2>7 DEF CancelReplace, Placed, TypeOK
<1>11. QED
  BY <1>1, <1>2, <1>3, <1>4, <1>5, <1>6, <1>7, <1>8, <1>9, <1>10 DEF Turning

LEMMA RotatingControl ==
  ASSUME TypeOK, Control, NEW c \in Controller, Rotating(c)
  PROVE  Stepped(c)
<1> USE Constants, ConstantsAssumption DEF Stepped, Others, Same, held, work, history
<1>p. Placed(c)
  BY DEF Control
<1>t. Situations /\ Disk(disk) /\ snap[c] \in Snap /\ path[c] \in File \cup {None} /\ mem[c] \in Text
  BY DEF TypeOK, Situations, Disk
<1>s. turn[c] \in Turn /\ Indexless(c) \in Turn
  BY DEF TypeOK, Turn, Indexless
<1>1. CASE Claim(c)
  <2>1. TypeOK'
    BY <1>1 DEF Claim, TypeOK, Run, Op, Spend
  <2>2. QED
    BY <1>1, <1>p, <2>1 DEF Claim, Placed, TypeOK, Rotation
<1>2. CASE Rewind(c)
  <2>1. PICK n \in 0..Len(mem[c]) :
          /\ mem' = [mem EXCEPT ![c] = SubSeq(@, 1, n)]
          /\ discarded' = discarded \cup (Items(mem[c]) \ Items(SubSeq(mem[c], 1, n)))
    BY <1>2 DEF Rewind
  <2>2. SubSeq(mem[c], 1, n) \in Text /\ discarded' \subseteq Item
    BY <1>t, <2>1, Initials DEF TypeOK, Items
  <2>3. TypeOK'
    BY <1>2, <2>1, <2>2 DEF Rewind, TypeOK, Run, Op, Spend
  <2>4. QED
    BY <1>2, <1>p, <2>1, <2>3 DEF Rewind, Placed, TypeOK, Rotation
<1>3. CASE SaveRotation(c)
  <2>1. CASE mem[c] # <<>>
    <3>1. /\ Decide(c, "rotation", run[c] \in {"rewind", "summarize"})
          /\ op' = [op EXCEPT ![c] = "saving"] /\ UNCHANGED run
      BY <1>3, <2>1 DEF SaveRotation
    <3>2. /\ path[c] # None /\ snap[c].step = "free"
          /\ snap' \in [Controller -> Snap]
          /\ snap'[c] = [step |-> "write", by |-> "rotation", file |-> path[c],
                         rewrite |-> (run[c] \in {"rewind", "summarize"} \/ rewrites[c] > saved[c]),
                         version |-> rewrites[c], copy |-> <<>>, stale |-> FALSE]
          /\ \A x \in Controller : x # c => snap'[x] = snap[x]
      BY <3>1, <1>t, Locking DEF Decide, TypeOK
    <3>3. TypeOK'
      BY <1>3, <3>1, <3>2 DEF SaveRotation, TypeOK, Op
    <3>4. QED
      BY <1>3, <3>1, <3>2, <3>3, <1>p DEF SaveRotation, Placed, TypeOK
  <2>2. CASE mem[c] = <<>>
    <3>1. /\ run' = [run EXCEPT ![c] = IF @ \in {"swap", "fork"} THEN @ ELSE "idle"]
          /\ op' = [op EXCEPT ![c] = IF run[c] \in {"swap", "fork"} THEN "swap" ELSE "none"]
          /\ UNCHANGED snap
      BY <1>3, <2>2 DEF SaveRotation
    <3>2. TypeOK'
      BY <1>3, <3>1 DEF SaveRotation, TypeOK, Op, Run
    <3>3. QED
      BY <1>3, <3>1, <3>2, <1>p DEF SaveRotation, Placed, TypeOK
  <2>3. QED
    BY <2>1, <2>2
<1>4. CASE NewSession(c)
  <2>1. PICK r \in Root : Install(c, Fresh(r), <<>>)
    BY <1>4 DEF NewSession
  <2>2. TypeOK'
    BY <1>4, <2>1 DEF NewSession, Install, EndRotation, TypeOK, Run, Op
  <2>3. path'[c] = Fresh(r) /\ Fresh(r) # None /\ Depth(Fresh(r)) <= MaxDepth
    BY <2>1 DEF Install, TypeOK
  <2>4. QED
    BY <1>4, <1>p, <2>1, <2>2, <2>3 DEF NewSession, Swappable, Install, EndRotation, Placed, TypeOK
<1>5. CASE Branch(c)
  <2>1. PICK r \in Root :
          /\ Put(Fresh(r), mem[c])
          /\ Install(c, Fresh(r), mem[c])
          /\ Persist(c, Fresh(r), mem[c])
    BY <1>5 DEF Branch
  <2>2. Fresh(r) \in File /\ Depth(Fresh(r)) <= MaxDepth
    OBVIOUS
  <2>3. /\ Disk(disk') /\ DOMAIN disk \subseteq DOMAIN disk'
        /\ base' \in [Controller -> Base]
    BY <2>1, <2>2, <1>t, Putting, Persisting DEF TypeOK
  <2>4. TypeOK'
    BY <1>5, <1>t, <2>1, <2>2, <2>3 DEF Branch, Install, EndRotation, TypeOK, Disk, Run, Op
  <2>5. path'[c] = Fresh(r) /\ Fresh(r) # None
    BY <2>1, <2>2 DEF Install, TypeOK
  <2>6. QED
    BY <1>5, <1>p, <2>1, <2>2, <2>3, <2>4, <2>5
    DEF Branch, Swappable, Install, EndRotation, Placed, TypeOK
<1>6. CASE \E n \in 0..Len(mem[c]) : ForkSession(c, n)
  <2>1. PICK n \in 0..Len(mem[c]) : ForkSession(c, n)
    BY <1>6
  <2> DEFINE t == SubSeq(mem[c], 1, n)
  <2>2. t \in Text
    BY <2>1, <1>t, Initials
  <2>3. PICK r \in Root :
          /\ Put(Fresh(r), t)
          /\ \/ UNCHANGED held
             \/ Swappable(c) /\ Install(c, Fresh(r), t) /\ Persist(c, Fresh(r), t)
    BY <2>1 DEF ForkSession
  <2>4. Fresh(r) \in File /\ Depth(Fresh(r)) <= MaxDepth
    OBVIOUS
  <2>5. Disk(disk') /\ DOMAIN disk \subseteq DOMAIN disk'
    BY <2>2, <2>3, <2>4, <1>t, Putting
  <2>6. EndRotation(c) /\ UNCHANGED <<turn, plan, snap, used, discarded, amiss, spent>>
    BY <2>1 DEF ForkSession
  <2>7. CASE UNCHANGED held
    <3>1. TypeOK'
      BY <2>5, <2>6, <2>7 DEF EndRotation, TypeOK, Disk, Run, Op
    <3>2. op[c] = "swap"
      BY <2>1 DEF ForkSession
    <3>3. QED
      BY <3>1, <3>2, <2>5, <2>6, <2>7, <1>p DEF EndRotation, Placed, TypeOK
  <2>8. CASE Swappable(c) /\ Install(c, Fresh(r), t) /\ Persist(c, Fresh(r), t)
    <3>1. base' \in [Controller -> Base]
      BY <2>2, <2>4, <2>8, Persisting DEF TypeOK
    <3>2. TypeOK'
      BY <3>1, <2>2, <2>4, <2>5, <2>6, <2>8 DEF Install, EndRotation, TypeOK, Disk, Run, Op
    <3>3. path'[c] = Fresh(r) /\ Fresh(r) # None
      BY <2>4, <2>8 DEF Install, TypeOK
    <3>4. Placed(c)'
      BY <3>3, <2>4, <2>6, <2>8, <1>p
      DEF Swappable, Install, EndRotation, Placed, TypeOK, Free
    <3>5. Others(c)
      BY <2>6, <2>8 DEF Install, EndRotation, TypeOK
    <3>6. QED
      BY <3>2, <3>4, <3>5, <2>5
  <2>9. QED
    BY <2>3, <2>7, <2>8
<1>7. CASE Boot(c)
  <2>1. PICK r \in Root : Install(c, Fresh(r), <<>>)
    BY <1>7 DEF Boot
  <2>2. TypeOK'
    BY <1>7, <2>1 DEF Boot, Install, TypeOK
  <2>3. path'[c] = Fresh(r) /\ Fresh(r) # None /\ Depth(Fresh(r)) <= MaxDepth
    BY <2>1 DEF Install, TypeOK
  <2>4. QED
    BY <1>7, <1>p, <2>1, <2>2, <2>3 DEF Boot, Install, Placed, TypeOK, Free
<1>8. CASE \E f \in DOMAIN disk : Open(c, f)
  <2>1. PICK f \in DOMAIN disk : Open(c, f)
    BY <1>8
  <2>2. f \in File /\ disk[f] \in Text /\ Depth(f) <= MaxDepth /\ f # None
    BY <1>t DEF Disk
  <2>3. [file |-> f, text |-> disk[f], behind |-> FALSE] \in Base
    BY <2>2 DEF Base
  <2>4. plan' \in [Controller -> Plan] /\ \A x \in Controller : x # c => plan'[x] = plan[x]
    BY <2>1 DEF Open, Misread, TypeOK, Plan
  <2>5. /\ base' \in [Controller -> Base]
        /\ plan' \in [Controller -> Plan]
        /\ amiss' \in BOOLEAN
        /\ spent' \in Nat
        /\ \A x \in Controller : x # c => plan'[x] = plan[x]
    <3>1. base' \in [Controller -> Base]
      BY <2>1, <2>3 DEF Open, TypeOK
    <3>2. amiss' \in BOOLEAN /\ spent' \in Nat
      BY <2>1 DEF Open, TypeOK, Spend
    <3>3. QED
      BY <3>1, <3>2, <2>4
  <2>6. TypeOK'
    BY <2>1, <2>2, <2>5, <1>s DEF Open, Install, TypeOK
  <2>7. QED
    BY <2>1, <2>2, <2>5, <2>6, <1>p DEF Open, Swappable, Install, Placed, TypeOK
<1>9. CASE Crash(c)
  <2>1. TypeOK'
    BY <1>9 DEF Crash, Install, EndRotation, TypeOK, Run, Op, Items, Spend
  <2>2. QED
    BY <1>9, <2>1 DEF Crash, Install, EndRotation, Placed, TypeOK, Free, Rotation
<1>10. QED
  BY <1>1, <1>2, <1>3, <1>4, <1>5, <1>6, <1>7, <1>8, <1>9 DEF Rotating

LEMMA ControlStep ==
  ASSUME TypeOK, Control, [Next]_vars
  PROVE  TypeOK' /\ Control'
<1>1. CASE UNCHANGED vars
  BY <1>1 DEF vars, held, work, history, TypeOK, Control, Placed, Depth
<1>2. CASE Next
  <2>1. PICK c \in Controller : Saving(c) \/ Turning(c) \/ Rotating(c)
    BY <1>2 DEF Next
  <2>2. Stepped(c)
    BY <2>1, SavingControl, TurningControl, RotatingControl
  <2>3. QED
    BY <2>2, Elsewhere DEF Stepped
<1>3. QED
  BY <1>1, <1>2

LEMMA ControlInit ==
  ASSUME Init
  PROVE  TypeOK /\ Control
<1>1. DOMAIN disk = {}
  BY DEF Init
<1>2. disk \in [DOMAIN disk -> Text]
  BY DEF Init
<1>3. TypeOK
  BY <1>1, <1>2, Constants DEF Init, TypeOK, Run, Op
<1>4. Control
  BY DEF Init, Control, Placed, Free
<1>5. QED
  BY <1>3, <1>4

(***************************************************************************)
(* The types hold, of every field of every controller and of every file.   *)
(***************************************************************************)
THEOREM TypeCorrect == Spec => []TypeOK
<1>1. Spec => [](TypeOK /\ Control)
  BY ControlInit, ControlStep, PTL DEF Spec
<1>2. QED
  BY <1>1, PTL

(***************************************************************************)
(* A save writes the file its session belongs to: no rotation, resume or   *)
(* adoption moves a controller whose save is under way (snapshotMu), and a *)
(* save's own recovery moves it only when it has written.                  *)
(***************************************************************************)
THEOREM SavesWriteTheirFile == Spec => []SavesKeepTheirFile
<1>1. Spec => [](TypeOK /\ Control)
  BY ControlInit, ControlStep, PTL DEF Spec
<1>2. Control => SavesKeepTheirFile
  BY DEF Control, Placed, SavesKeepTheirFile
<1>3. QED
  BY <1>1, <1>2, PTL

-----------------------------------------------------------------------------
(***************************************************************************)
(* Rewrite versions.                                                       *)
(***************************************************************************)
OthersKept(c) ==
  \A x \in Controller : x # c => base'[x].file = base[x].file /\ base'[x].text = base[x].text

Counts(c) == amiss' \/ (OthersKept(c) /\ Counted(c)')

LEMMA SavingVersions ==
  ASSUME TypeOK, Control, Versions, ~amiss, NEW c \in Controller, Saving(c)
  PROVE  Counts(c)
<1> USE Constants, ConstantsAssumption DEF Counts, OthersKept, held, work, history
<1>p. Placed(c)
  BY DEF Control
<1>t. /\ Situations /\ Disk(disk) /\ snap[c] \in Snap /\ path[c] \in File \cup {None}
      /\ mem[c] \in Text /\ rewrites[c] \in Nat /\ saved[c] \in Nat /\ snap[c].version \in Nat
      /\ snap[c].by \in {"anyone", "turn", "rotation", "cancel"}
  BY DEF TypeOK, Situations, Disk, Snap
<1>s. turn[c] \in Turn /\ Indexless(c) \in Turn
  BY DEF TypeOK, Turn, Indexless
<1>c. Counted(c)
  BY DEF Versions
<1>f. Free.step = "free" /\ Free.version = 0
  BY DEF Free
<1>1. CASE Autosave(c)
  <2>1. snap'[c] = [step |-> "write", by |-> "anyone", file |-> path[c],
                    rewrite |-> (FALSE \/ rewrites[c] > saved[c]),
                    version |-> rewrites[c], copy |-> <<>>, stale |-> FALSE]
    BY <1>1, <1>t, Locking DEF Autosave, Decide, TypeOK
  <2>2. /\ snap'[c].step = "write" /\ snap'[c].version = rewrites[c]
        /\ UNCHANGED <<held, work>>
    BY <1>1, <2>1 DEF Autosave
  <2>3. QED
    BY <2>2, <1>c, <1>t DEF Counted
<1>2. CASE Write(c)
  <2> DEFINE f == snap[c].file
             may == f \notin DOMAIN disk \/ MayWrite(mem[c], disk[f], Baseline(c, f), snap[c].rewrite)
  <2>1. f \in File /\ f = path[c] /\ snap[c].step = "write"
    BY <1>2, <1>p, <1>t DEF Write, Placed
  <2>2. UNCHANGED <<path, mem, rewrites, saved, plan, amiss>>
    BY <1>2 DEF Write
  <2>3. CASE may
    <3>1. Persist(c, f, mem[c])
      BY <1>2, <2>3 DEF Write
    <3>2. OthersKept(c) /\ base'[c] = [file |-> f, text |-> mem[c], behind |-> FALSE]
      BY <3>1, <2>1, <1>t, Persisting DEF TypeOK
    <3>3. \/ snap[c].by = "cancel" /\ Unlock(c, TRUE, turn[c])
          \/ snap' = [snap EXCEPT ![c].step = "mark", ![c].copy = mem[c]] /\ UNCHANGED <<run, op, turn>>
      BY <1>2, <2>3 DEF Write
    <3>4. /\ snap'[c].version <= rewrites[c]
          /\ op'[c] = "cancelling" /\ turn'[c].sound => op[c] = "cancelling" /\ turn[c].sound
      <4>1. CASE snap[c].by = "cancel" /\ Unlock(c, TRUE, turn[c])
        <5>1. snap'[c] = Free /\ op'[c] = "ending"
          BY <4>1, <1>s, <1>t, Unlocking
        <5>2. QED
          BY <5>1, <1>f, <1>t
      <4>2. CASE snap' = [snap EXCEPT ![c].step = "mark", ![c].copy = mem[c]] /\ UNCHANGED <<run, op, turn>>
        BY <4>2, <1>c, <1>t DEF Counted, Situations, Snap
      <4>3. QED
        BY <3>3, <4>1, <4>2
    <3>5. QED
      BY <3>2, <3>4, <2>2, <1>c DEF Counted
  <2>4. CASE ~may
    <3>1. /\ snap'[c].version = snap[c].version /\ snap'[c].step # "mark"
          /\ UNCHANGED <<base, run, op, turn>>
      BY <1>2, <2>4, <1>t DEF Write, Situations, Snap
    <3>2. QED
      BY <3>1, <2>1, <2>2, <1>c DEF Counted
  <2>5. QED
    BY <2>3, <2>4
<1>3. CASE Redecide(c)
  <2>1. /\ snap'[c].version \in {snap[c].version, rewrites[c]}
        /\ snap'[c].step # "mark"
        /\ UNCHANGED <<held, work>>
    BY <1>3, <1>t DEF Redecide, Situations, Snap
  <2>2. QED
    BY <2>1, <1>c, <1>t DEF Counted
<1>4. CASE Mark(c)
  <2>1. /\ Unlock(c, TRUE, turn[c])
        /\ saved'[c] = Persisted(c)
        /\ UNCHANGED <<path, mem, rewrites, base, plan>>
        /\ snap[c].step = "mark"
    BY <1>4 DEF Mark, TypeOK
  <2>2. /\ snap'[c] = Free
        /\ op'[c] = "cancelling" /\ turn'[c].sound => op[c] = "cancelling" /\ turn[c].sound
        /\ op[c] = "replaced" => op'[c] = "replaced"
    BY <2>1, <1>p, <1>s, <1>t, Unlocking DEF Placed
  <2>3. QED
    BY <2>1, <2>2, <1>c, <1>f, <1>t DEF Counted, Persisted
<1>5. CASE NotNeeded(c)
  <2>1. /\ snap'[c].version = snap[c].version
        /\ snap'[c].step # "mark"
        /\ UNCHANGED <<held, work>>
    BY <1>5, <1>t DEF NotNeeded, Situations, Snap
  <2>2. QED
    BY <2>1, <1>c DEF Counted
<1>6. CASE Adopt(c)
  <2> DEFINE d == disk[snap[c].file]
  <2>1. /\ Unlock(c, TRUE, Indexless(c))
        /\ mem'[c] = d
        /\ rewrites'[c] = 0 /\ saved'[c] = 0
        /\ base' = [base EXCEPT ![c] = [file |-> snap[c].file, text |-> d, behind |-> FALSE]]
    BY <1>6 DEF Adopt, Install, TypeOK
  <2>2. snap'[c] = Free /\ base'[c].text = d /\ OthersKept(c)
    BY <2>1, <1>s, <1>t, Unlocking DEF TypeOK
  <2>3. op'[c] = "cancelling" => ~turn'[c].sound
    <3>1. /\ snap[c].by = "anyone" => op'[c] = op[c] /\ turn'[c] = Indexless(c)
          /\ snap[c].by # "anyone" => op'[c] # "cancelling"
      BY <2>1, <1>s, <1>t, Unlocking
    <3>2. run[c] = "turn" => ~Indexless(c).sound
      BY <1>s DEF Indexless, Turn
    <3>3. QED
      BY <3>1, <3>2, <1>p DEF Placed
  <2>4. QED
    BY <2>1, <2>2, <2>3, <1>f DEF Counted
<1>7. CASE Fork(c)
  <2> DEFINE g == Recovery(snap[c].file, mem[c])
  <2>1. g \in File
    BY <1>7, <1>p, <1>t DEF Fork, Diverged, Placed
  <2>2. Persist(c, g, mem[c]) /\ UNCHANGED <<mem, rewrites, saved, plan>>
    BY <1>7 DEF Fork
  <2>3. OthersKept(c) /\ base'[c] = [file |-> g, text |-> mem[c], behind |-> FALSE]
    BY <2>1, <2>2, <1>t, Persisting DEF TypeOK
  <2>4. \/ \E ok \in BOOLEAN : Unlock(c, ok, turn[c])
        \/ snap' = [snap EXCEPT ![c].step = "mark", ![c].copy = mem[c]] /\ UNCHANGED <<run, op, turn>>
    BY <1>7 DEF Fork
  <2>5. /\ snap'[c].version <= rewrites[c]
        /\ op'[c] = "cancelling" /\ turn'[c].sound => op[c] = "cancelling" /\ turn[c].sound
    <3>1. ASSUME NEW ok \in BOOLEAN, Unlock(c, ok, turn[c]) PROVE <2>5!1 /\ <2>5!2
      BY <3>1, <1>f, <1>s, <1>t, Unlocking
    <3>2. CASE snap' = [snap EXCEPT ![c].step = "mark", ![c].copy = mem[c]] /\ UNCHANGED <<run, op, turn>>
      BY <3>2, <1>c, <1>t DEF Counted, Situations, Snap
    <3>3. QED
      BY <2>4, <3>1, <3>2
  <2>6. QED
    BY <2>2, <2>3, <2>5, <1>c DEF Counted
<1>8. CASE ForceSave(c)
  <2>1. snap[c].file \in File
    BY <1>8, <1>p, <1>t DEF ForceSave, Diverged, Placed
  <2>2. /\ Persist(c, snap[c].file, mem[c]) /\ Unlock(c, TRUE, turn[c])
        /\ UNCHANGED <<mem, rewrites, saved, plan>>
    BY <1>8 DEF ForceSave
  <2>3. OthersKept(c) /\ base'[c] = [file |-> snap[c].file, text |-> mem[c], behind |-> FALSE]
    BY <2>1, <2>2, <1>t, Persisting DEF TypeOK
  <2>4. /\ snap'[c] = Free
        /\ op'[c] = "cancelling" /\ turn'[c].sound => op[c] = "cancelling" /\ turn[c].sound
    BY <2>2, <1>s, <1>t, Unlocking
  <2>5. QED
    BY <2>2, <2>3, <2>4, <1>c, <1>f, <1>t DEF Counted
<1>9. QED
  BY <1>1, <1>2, <1>3, <1>4, <1>5, <1>6, <1>7, <1>8 DEF Saving

LEMMA TurningVersions ==
  ASSUME TypeOK, Control, Versions, ~amiss, NEW c \in Controller, Turning(c)
  PROVE  Counts(c)
<1> USE Constants, ConstantsAssumption DEF Counts, OthersKept, held, work, history
<1>p. Placed(c)
  BY DEF Control
<1>t. /\ Situations /\ Disk(disk) /\ snap[c] \in Snap /\ path[c] \in File \cup {None}
      /\ mem[c] \in Text /\ rewrites[c] \in Nat /\ saved[c] \in Nat /\ snap[c].version \in Nat
      /\ snap[c].by \in {"anyone", "turn", "rotation", "cancel"}
  BY DEF TypeOK, Situations, Disk, Snap
<1>s. turn[c] \in Turn /\ Indexless(c) \in Turn
  BY DEF TypeOK, Turn, Indexless
<1>c. Counted(c)
  BY DEF Versions
<1>f. Free.step = "free" /\ Free.version = 0
  BY DEF Free
<1>1. CASE StartTurn(c)
  BY <1>1, <1>c, <1>p DEF StartTurn, Counted, Placed
<1>2. CASE Add(c)
  <2>1. PICK i \in Item : mem' = [mem EXCEPT ![c] = Append(@, {i})]
    BY <1>2 DEF Add, Item
  <2>2. {i} \in Message /\ Folded \notin {i}
    BY DEF Message
  <2>3. mem'[c] = Append(mem[c], {i})
    BY <2>1 DEF TypeOK
  <2>4. Digests(mem'[c]) = Digests(mem[c])
    BY <2>2, <2>3, <1>t, Appending
  <2>5. UNCHANGED <<path, rewrites, saved, base, op, plan, snap>> /\ op[c] = "none"
    BY <1>2 DEF Add, Working
  <2>6. QED
    BY <2>4, <2>5, <1>c DEF Counted
<1>3. CASE MarkEdited(c)
  <2>1. PICK k \in DOMAIN mem[c] :
          /\ FirstPrompt(mem[c], turn[c].start, k)
          /\ mem' = [mem EXCEPT ![c][k] = @ \cup {Edited}]
    BY <1>3 DEF MarkEdited
  <2> DEFINE u == [mem[c] EXCEPT ![k] = @ \cup {Edited}]
  <2>2. mem'[c] = u
    BY <2>1 DEF TypeOK
  <2>3. IsPrompt(mem[c][k])
    BY <2>1 DEF FirstPrompt
  <2>4. Digests(u) \subseteq Digests(mem[c])
    BY <2>3, <1>t, Editing
  <2> HIDE DEF u
  <2>5. /\ UNCHANGED <<path, rewrites, saved, base, plan, snap>>
        /\ op[c] = "none" /\ op'[c] = "ending"
    BY <1>3 DEF MarkEdited, Working, TypeOK
  <2>6. QED
    BY <2>2, <2>4, <2>5, <1>c DEF Counted
<1>4. CASE EndTurn(c)
  <2>1. /\ UNCHANGED <<path, mem, rewrites, saved, base, plan>>
        /\ op[c] \in {"none", "ending"} /\ op'[c] \in {"none", "saving"}
    BY <1>4 DEF EndTurn, TypeOK
  <2>2. CASE Changed(c)
    <3>1. Lock(c, "turn", FALSE \/ rewrites[c] > saved[c])
      BY <1>4, <2>2 DEF EndTurn, Decide
    <3>2. snap'[c] = [step |-> "write", by |-> "turn", file |-> path[c],
                      rewrite |-> (FALSE \/ rewrites[c] > saved[c]),
                      version |-> rewrites[c], copy |-> <<>>, stale |-> FALSE]
      BY <3>1, <1>t, Locking DEF TypeOK
    <3>3. snap'[c].step = "write" /\ snap'[c].version = rewrites[c]
      BY <3>2
    <3>4. QED
      BY <3>3, <2>1, <1>c, <1>t DEF Counted
  <2>3. CASE ~Changed(c)
    <3>1. UNCHANGED snap
      BY <1>4, <2>3 DEF EndTurn
    <3>2. QED
      BY <3>1, <2>1, <1>c DEF Counted
  <2>4. QED
    BY <2>2, <2>3
<1>5. CASE FoldRead(c)
  <2>1. /\ UNCHANGED <<path, mem, rewrites, saved, base, snap>>
        /\ op[c] = "none" /\ op'[c] = "folding"
    BY <1>5 DEF FoldRead, TypeOK
  <2>2. QED
    BY <2>1, <1>c DEF Counted
<1>6. CASE FoldReplace(c)
  <2>1. /\ UNCHANGED <<path, rewrites, saved, base, snap>>
        /\ op'[c] = "replaced"
    BY <1>6 DEF FoldReplace, TypeOK
  <2>2. QED
    BY <2>1, <1>c DEF Counted
<1>7. CASE FoldDeclare(c)
  <2>1. /\ UNCHANGED <<path, mem, saved, base, snap>>
        /\ rewrites'[c] = rewrites[c] + 1
        /\ op'[c] \in {"save", "none"}
    BY <1>7 DEF FoldDeclare, TypeOK
  <2>2. QED
    BY <2>1, <1>c, <1>t DEF Counted
<1>8. CASE FoldAbort(c)
  <2>1. /\ UNCHANGED <<path, mem, rewrites, saved, base, snap>>
        /\ op[c] # "replaced" /\ op'[c] = "none"
    BY <1>8 DEF FoldAbort, TypeOK
  <2>2. QED
    BY <2>1, <1>c DEF Counted
<1>9. CASE CancelRead(c)
  <2>1. PICK visible \in BOOLEAN : \E t \in Stripped(mem[c], turn[c].start, visible) :
          plan' = [plan EXCEPT ![c].text = t]
    BY <1>9 DEF CancelRead
  <2>2. PICK t \in Stripped(mem[c], turn[c].start, visible) : plan' = [plan EXCEPT ![c].text = t]
    BY <2>1
  <2>3. turn[c].start \in Nat /\ turn[c].start < Len(mem[c])
    BY <1>9, <1>s, <1>t, TextIs DEF CancelRead, Turn
  <2>4. Digests(t) \subseteq Digests(mem[c])
    BY <2>3, <1>t, Stripping
  <2>5. plan'[c].text = t
    BY <2>2 DEF TypeOK, Plan
  <2>6. /\ UNCHANGED <<path, mem, rewrites, saved, base, snap>>
        /\ op[c] = "none"
    BY <1>9 DEF CancelRead, Working
  <2>7. QED
    BY <2>4, <2>5, <2>6, <1>c DEF Counted
<1>10. CASE CancelReplace(c)
  <2>1. Lock(c, "cancel", TRUE)
    BY <1>10 DEF CancelReplace
  <2>2. snap'[c] = [step |-> "write", by |-> "cancel", file |-> path[c], rewrite |-> TRUE,
                    version |-> rewrites[c], copy |-> <<>>, stale |-> FALSE]
    BY <2>1, <1>t, Locking DEF TypeOK
  <2>3. snap'[c].step = "write" /\ snap'[c].version = rewrites[c]
    BY <2>2
  <2>4. /\ UNCHANGED <<path, rewrites, saved, base>>
        /\ op[c] = "cancelling" /\ op'[c] = "saving"
        /\ mem'[c] = plan[c].text
        /\ amiss' = (amiss \/ ~turn[c].sound)
    BY <1>10 DEF CancelReplace, TypeOK
  <2>5. CASE turn[c].sound
    <3>1. Digests(mem'[c]) \subseteq Digests(mem[c])
      BY <2>4, <2>5, <1>c DEF Counted
    <3>2. QED
      BY <3>1, <2>3, <2>4, <1>c, <1>t DEF Counted
  <2>6. CASE ~turn[c].sound
    BY <2>4, <2>6
  <2>7. QED
    BY <2>5, <2>6
<1>11. QED
  BY <1>1, <1>2, <1>3, <1>4, <1>5, <1>6, <1>7, <1>8, <1>9, <1>10 DEF Turning

LEMMA RotatingVersions ==
  ASSUME TypeOK, Control, Versions, ~amiss, NEW c \in Controller, Rotating(c)
  PROVE  Counts(c)
<1> USE Constants, ConstantsAssumption DEF Counts, OthersKept, held, work, history
<1>p. Placed(c)
  BY DEF Control
<1>t. /\ Situations /\ Disk(disk) /\ snap[c] \in Snap /\ path[c] \in File \cup {None}
      /\ mem[c] \in Text /\ rewrites[c] \in Nat /\ saved[c] \in Nat /\ snap[c].version \in Nat
      /\ snap[c].by \in {"anyone", "turn", "rotation", "cancel"}
  BY DEF TypeOK, Situations, Disk, Snap
<1>s. turn[c] \in Turn /\ Indexless(c) \in Turn
  BY DEF TypeOK, Turn, Indexless
<1>c. Counted(c)
  BY DEF Versions
<1>f. Free.step = "free" /\ Free.version = 0
  BY DEF Free
<1>1. ASSUME NEW f, NEW t, Install(c, f, t)
      PROVE  path'[c] = f /\ mem'[c] = t /\ rewrites'[c] = 0 /\ saved'[c] = 0
  BY <1>1 DEF Install, TypeOK
<1>2. CASE Claim(c)
  <2>1. /\ UNCHANGED <<path, mem, rewrites, saved, base, snap>>
        /\ op[c] = "none" /\ op'[c] \in {"save", "none"}
    BY <1>2, <1>p DEF Claim, Placed, TypeOK
  <2>2. QED
    BY <2>1, <1>c DEF Counted
<1>3. CASE Rewind(c)
  <2>1. PICK n \in 0..Len(mem[c]) : mem' = [mem EXCEPT ![c] = SubSeq(@, 1, n)]
    BY <1>3 DEF Rewind
  <2>2. mem'[c] = SubSeq(mem[c], 1, n)
    BY <2>1 DEF TypeOK
  <2>3. Digests(mem'[c]) \subseteq Digests(mem[c])
    BY <2>2, <1>t, Initials
  <2>4. /\ UNCHANGED <<path, rewrites, saved, base, snap>>
        /\ op[c] = "none" /\ op'[c] = "save"
    BY <1>3, <1>p DEF Rewind, Placed, TypeOK
  <2>5. QED
    BY <2>3, <2>4, <1>c DEF Counted
<1>4. CASE SaveRotation(c)
  <2>1. /\ UNCHANGED <<path, mem, rewrites, saved, base, plan>>
        /\ op[c] = "save" /\ op'[c] \in {"none", "saving", "swap"}
    BY <1>4 DEF SaveRotation, TypeOK
  <2>2. CASE mem[c] # <<>>
    <3>1. Lock(c, "rotation", run[c] \in {"rewind", "summarize"} \/ rewrites[c] > saved[c])
      BY <1>4, <2>2 DEF SaveRotation, Decide
    <3>2. snap'[c] = [step |-> "write", by |-> "rotation", file |-> path[c],
                      rewrite |-> (run[c] \in {"rewind", "summarize"} \/ rewrites[c] > saved[c]),
                      version |-> rewrites[c], copy |-> <<>>, stale |-> FALSE]
      BY <3>1, <1>t, Locking DEF TypeOK
    <3>3. snap'[c].step = "write" /\ snap'[c].version = rewrites[c]
      BY <3>2
    <3>4. QED
      BY <3>3, <2>1, <1>c, <1>t DEF Counted
  <2>3. CASE mem[c] = <<>>
    <3>1. UNCHANGED snap
      BY <1>4, <2>3 DEF SaveRotation
    <3>2. QED
      BY <3>1, <2>1, <1>c DEF Counted
  <2>4. QED
    BY <2>2, <2>3
<1>5. CASE NewSession(c)
  <2>1. PICK r \in Root : Install(c, Fresh(r), <<>>)
    BY <1>5 DEF NewSession
  <2>2. mem'[c] = <<>> /\ rewrites'[c] = 0 /\ saved'[c] = 0
    BY <2>1, <1>1
  <2>3. /\ snap'[c] = Free /\ op'[c] = "none" /\ OthersKept(c)
    BY <1>5, <1>p DEF NewSession, Swappable, EndRotation, Placed, TypeOK
  <2>4. QED
    BY <2>2, <2>3, <1>f, Empty DEF Counted
<1>6. CASE Branch(c)
  <2>1. PICK r \in Root : Install(c, Fresh(r), mem[c]) /\ Persist(c, Fresh(r), mem[c])
    BY <1>6 DEF Branch
  <2>2. mem'[c] = mem[c] /\ rewrites'[c] = 0 /\ saved'[c] = 0
    BY <2>1, <1>1
  <2>3. OthersKept(c) /\ base'[c] = [file |-> Fresh(r), text |-> mem[c], behind |-> FALSE]
    BY <2>1, <1>t, Persisting DEF TypeOK
  <2>4. snap'[c] = Free /\ op'[c] = "none"
    BY <1>6, <1>p DEF Branch, Swappable, EndRotation, Placed, TypeOK
  <2>5. QED
    BY <2>2, <2>3, <2>4, <1>f DEF Counted
<1>7. CASE \E n \in 0..Len(mem[c]) : ForkSession(c, n)
  <2>1. PICK n \in 0..Len(mem[c]) : ForkSession(c, n)
    BY <1>7
  <2> DEFINE t == SubSeq(mem[c], 1, n)
  <2>2. t \in Text
    BY <2>1, <1>t, Initials
  <2>3. op[c] = "swap" /\ op'[c] = "none" /\ UNCHANGED <<plan, snap>>
    BY <2>1 DEF ForkSession, EndRotation, TypeOK
  <2>4. CASE UNCHANGED held
    BY <2>3, <2>4, <1>c DEF Counted
  <2>5. CASE ~UNCHANGED held
    <3>1. PICK r \in Root : Swappable(c) /\ Install(c, Fresh(r), t) /\ Persist(c, Fresh(r), t)
      BY <2>1, <2>5 DEF ForkSession
    <3>2. mem'[c] = t /\ rewrites'[c] = 0 /\ saved'[c] = 0
      BY <3>1, <1>1
    <3>3. OthersKept(c) /\ base'[c] = [file |-> Fresh(r), text |-> t, behind |-> FALSE]
      BY <3>1, <2>2, <1>t, Persisting DEF TypeOK
    <3>4. snap'[c] = Free
      BY <2>3, <3>1, <1>p DEF Swappable, Placed
    <3>5. QED
      BY <2>3, <3>2, <3>3, <3>4, <1>f DEF Counted
  <2>6. QED
    BY <2>4, <2>5
<1>8. CASE Boot(c)
  <2>1. PICK r \in Root : Install(c, Fresh(r), <<>>)
    BY <1>8 DEF Boot
  <2>2. mem'[c] = <<>> /\ rewrites'[c] = 0 /\ saved'[c] = 0
    BY <2>1, <1>1
  <2>3. /\ snap'[c] = Free /\ op'[c] = "none" /\ OthersKept(c)
    BY <1>8, <1>p DEF Boot, Placed
  <2>4. QED
    BY <2>2, <2>3, <1>f, Empty DEF Counted
<1>9. CASE \E f \in DOMAIN disk : Open(c, f)
  <2>1. PICK f \in DOMAIN disk : Open(c, f)
    BY <1>9
  <2>2. mem'[c] = disk[f] /\ rewrites'[c] = 0 /\ saved'[c] = 0
    BY <2>1, <1>1 DEF Open
  <2>3. OthersKept(c) /\ base'[c] = [file |-> f, text |-> disk[f], behind |-> FALSE]
    BY <2>1 DEF Open, TypeOK
  <2>4. snap'[c] = Free /\ op'[c] = op[c] /\ turn'[c] = Indexless(c)
    BY <2>1, <1>p DEF Open, Swappable, Placed, TypeOK
  <2>5. op[c] = "cancelling" => ~Indexless(c).sound
    BY <1>p, <1>s DEF Placed, Indexless, Turn
  <2>6. QED
    BY <2>2, <2>3, <2>4, <2>5, <1>f DEF Counted
<1>10. CASE Crash(c)
  <2>1. mem'[c] = <<>> /\ rewrites'[c] = 0 /\ saved'[c] = 0
    BY <1>10, <1>1 DEF Crash
  <2>2. /\ snap'[c] = Free /\ op'[c] = "none" /\ OthersKept(c)
    BY <1>10 DEF Crash, EndRotation, TypeOK
  <2>3. QED
    BY <2>1, <2>2, <1>f, Empty DEF Counted
<1>11. QED
  BY <1>2, <1>3, <1>4, <1>5, <1>6, <1>7, <1>8, <1>9, <1>10 DEF Rotating

(* A flaw that has struck has struck.                                       *)
LEMMA AmissStays ==
  ASSUME amiss, [Next]_vars
  PROVE  amiss'
<1>1. CASE UNCHANGED vars
  BY <1>1 DEF vars, history
<1>2. ASSUME NEW c \in Controller, Saving(c) \/ Turning(c) \/ Rotating(c) PROVE amiss'
  <2>1. CASE Saving(c)
    BY <2>1 DEF Saving, Autosave, Write, Redecide, Mark, NotNeeded, Adopt, Fork, ForceSave, history
  <2>2. CASE Turning(c)
    BY <2>2 DEF Turning, StartTurn, Add, MarkEdited, EndTurn, FoldRead, FoldReplace,
                FoldDeclare, FoldAbort, CancelRead, CancelReplace, history
  <2>3. CASE Rotating(c)
    BY <2>3 DEF Rotating, Claim, Rewind, SaveRotation, NewSession, Branch, ForkSession,
                Boot, Open, Crash, history
  <2>4. QED
    BY <1>2, <2>1, <2>2, <2>3
<1>3. QED
  BY <1>1, <1>2 DEF Next

LEMMA VersionsStep ==
  ASSUME TypeOK, Control, Versions, [Next]_vars
  PROVE  Versions'
<1>1. CASE UNCHANGED vars
  BY <1>1 DEF vars, held, work, history, Versions, Counted
<1>2. CASE amiss
  BY <1>2, AmissStays DEF Versions
<1>3. CASE ~amiss /\ Next
  <2>1. PICK c \in Controller : Saving(c) \/ Turning(c) \/ Rotating(c)
    BY <1>3 DEF Next
  <2>2. Counts(c)
    BY <2>1, <1>3, SavingVersions, TurningVersions, RotatingVersions
  <2>3. Others(c)
    BY <2>1, SavingControl, TurningControl, RotatingControl DEF Stepped
  <2>4. ASSUME ~amiss', NEW x \in Controller PROVE Counted(x)'
    BY <2>2, <2>3, <2>4, <1>3 DEF Counts, OthersKept, Others, Same, Versions, Counted
  <2>5. QED
    BY <2>4 DEF Versions
<1>4. QED
  BY <1>1, <1>2, <1>3

(***************************************************************************)
(* No compaction is recorded as persisted that never reached the disk: a   *)
(* digest the baseline lacks keeps the next save a rewrite.                *)
(***************************************************************************)
THEOREM CompactionsStayDeclared == Spec => []CompactionsAreDeclared
<1>1. Init => Versions
  BY DEF Init, Versions, Counted, Free, NoBase, Digests
<1>2. Spec => [](TypeOK /\ Control /\ Versions)
  BY <1>1, ControlInit, ControlStep, VersionsStep, PTL DEF Spec
<1>3. TypeOK /\ Control /\ Versions => CompactionsAreDeclared
  BY DEF Versions, Counted, CompactionsAreDeclared
<1>4. QED
  BY <1>2, <1>3, PTL

-----------------------------------------------------------------------------
(***************************************************************************)
(* What has been said.                                                     *)
(***************************************************************************)
LEMMA Recent ==
  ASSUME NEW t \in Text, NEW n \in Nat
  PROVE  Since(t, n) \subseteq Items(t) /\ (Len(t) <= n => Since(t, n) = {})
<1>1. ASSUME NEW i, i \in Since(t, n) PROVE i \in Items(t) /\ n < Len(t)
  <2>1. i \in Item /\ \E k \in n + 1..Len(t) : i \in t[k]
    BY <1>1, SinceOf
  <2>2. \A k \in n + 1..Len(t) : k \in DOMAIN t /\ n < Len(t)
    BY TextIs
  <2>3. QED
    BY <2>1, <2>2, ItemOf
<1>2. QED
  BY <1>1, TextIs

LEMMA OnIt ==
  ASSUME NEW f \in DOMAIN disk
  PROVE  Items(disk[f]) \subseteq OnDisk /\ Items(disk[f]) \subseteq Gone
BY DEF OnDisk, Gone

LEMMA Saved ==
  ASSUME NEW f \in File, NEW n \in Text, Put(f, n), discarded \subseteq discarded',
         f \in DOMAIN disk => Items(disk[f]) \subseteq Items(n) \cup discarded
  PROVE  Gone \subseteq Gone' /\ Items(n) \subseteq Gone' /\ Items(n) \subseteq OnDisk'
<1>1. /\ DOMAIN disk' = DOMAIN disk \cup {f}
      /\ disk'[f] = n
      /\ \A g \in DOMAIN disk \ {f} : disk'[g] = disk[g]
  BY DEF Put
<1>2. Items(n) \subseteq OnDisk'
  BY <1>1 DEF OnDisk
<1>3. ASSUME NEW g \in DOMAIN disk PROVE Items(disk[g]) \subseteq OnDisk' \cup discarded
  <2>1. CASE g = f
    BY <2>1, <1>2
  <2>2. CASE g # f
    BY <2>2, <1>1 DEF OnDisk
  <2>3. QED
    BY <2>1, <2>2
<1>4. OnDisk \subseteq OnDisk' \cup discarded
  BY <1>3 DEF OnDisk
<1>5. QED
  BY <1>2, <1>4 DEF Gone

Ended(c) ==
  run[c] = "turn" /\ run'[c] = "idle" /\ path'[c] # None /\ turn[c].sound
    => turn[c].said \subseteq Gone'

Advances(c) ==
  /\ Gone \subseteq Gone'
  /\ discarded \subseteq discarded'
  /\ OthersKept(c)
  /\ Held(c)'
  /\ Indexed(c)'
  /\ used' \subseteq used \cup Items(mem'[c])
  /\ Items(mem[c]) \subseteq Items(mem'[c]) \cup Gone'
  /\ Ended(c)

LEMMA SavingSafe ==
  ASSUME TypeOK, Control, Safe, ~amiss, NEW c \in Controller, Saving(c), ~amiss'
  PROVE  Advances(c)
<1> USE Constants, ConstantsAssumption DEF Advances, OthersKept, held, work, history
<1>p. Placed(c)
  BY DEF Control
<1>t. /\ Situations /\ Disk(disk) /\ snap[c] \in Snap /\ path[c] \in File \cup {None}
      /\ mem[c] \in Text /\ snap[c].by \in {"anyone", "turn", "rotation", "cancel"}
      /\ plan[c].text \in Text
  BY DEF TypeOK, Situations, Disk, Snap, Plan
<1>s. turn[c] \in Turn /\ Indexless(c) \in Turn
  BY DEF TypeOK, Turn, Indexless
<1>h. Held(c)
  BY DEF Safe
<1>i. Indexed(c)
  BY DEF Safe
<1>f. Free.step = "free" /\ Free.by = "anyone"
  BY DEF Free
<1>g. ASSUME UNCHANGED <<disk, discarded>> PROVE Gone' = Gone
  BY <1>g DEF Gone, OnDisk
<1>d. discarded \subseteq Gone /\ discarded' \subseteq Gone'
  BY DEF Gone
<1>l. run[c] = "turn" /\ run'[c] = "turn" /\ turn'[c].sound => Indexless(c) # turn'[c]
  BY <1>s DEF Indexless, Turn
<1>e. ASSUME Items(mem[c]) \subseteq Gone' PROVE Ended(c)
  <2>1. run[c] = "turn" /\ turn[c].sound => turn[c].said \subseteq Items(mem[c]) \cup discarded
    BY <1>i, <1>s, <1>t, Recent DEF Indexed, Turn
  <2>2. discarded \subseteq discarded'
    BY DEF Saving, Autosave, Write, Redecide, Mark, NotNeeded, Adopt, Fork, ForceSave
  <2>3. QED
    BY <2>1, <2>2, <1>d, <1>e DEF Ended
<1>1. CASE Autosave(c)
  <2>1. snap'[c] = [step |-> "write", by |-> "anyone", file |-> path[c],
                    rewrite |-> (FALSE \/ rewrites[c] > saved[c]),
                    version |-> rewrites[c], copy |-> <<>>, stale |-> FALSE]
    BY <1>1, <1>t, Locking DEF Autosave, Decide, TypeOK
  <2>2. /\ snap'[c].step = "write"
        /\ UNCHANGED <<disk, held, work, history>>
    BY <1>1, <2>1 DEF Autosave
  <2>3. QED
    BY <2>2, <1>g, <1>h, <1>i DEF Held, Indexed, Ended
<1>2. CASE Write(c)
  <2> DEFINE f == snap[c].file
             may == f \notin DOMAIN disk \/ MayWrite(mem[c], disk[f], Baseline(c, f), snap[c].rewrite)
  <2>1. f \in File /\ f = path[c] /\ snap[c].step = "write"
    BY <1>2, <1>p, <1>t DEF Write, Placed
  <2>2. UNCHANGED <<path, mem, plan, used, discarded>>
    BY <1>2 DEF Write
  <2>3. CASE may
    <3>1. Put(f, mem[c]) /\ Persist(c, f, mem[c])
      BY <1>2, <2>3 DEF Write
    <3>2. OthersKept(c) /\ base'[c] = [file |-> f, text |-> mem[c], behind |-> FALSE]
      BY <3>1, <2>1, <1>t, Persisting DEF TypeOK
    <3>3. ASSUME f \in DOMAIN disk PROVE Items(disk[f]) \subseteq Items(mem[c]) \cup discarded
      <4>1. disk[f] \in Text
        BY <3>3, <1>t DEF Disk
      <4>2. HasPrefix(mem[c], disk[f]) \/ base[c].text = disk[f]
        BY <2>3, <3>3 DEF MayWrite, Baseline, NoBase
      <4>3. QED
        BY <4>1, <4>2, <1>h, <1>t, Prefixes DEF Held
    <3>4. Gone \subseteq Gone' /\ Items(mem[c]) \subseteq Gone'
      BY <3>1, <3>3, <2>1, <2>2, <1>t, Saved
    <3>5. CASE snap[c].by = "cancel" /\ Unlock(c, TRUE, turn[c])
      <4>1. snap'[c] = Free /\ op'[c] = "ending" /\ run'[c] = run[c] /\ turn'[c] = turn[c]
        BY <3>5, <1>s, <1>t, Unlocking
      <4>2. QED
        BY <4>1, <3>2, <3>4, <2>2, <1>e, <1>f, <1>i DEF Held, Indexed
    <3>6. CASE snap' = [snap EXCEPT ![c].step = "mark", ![c].copy = mem[c]] /\ UNCHANGED <<run, op, turn>>
      <4>1. snap'[c].step = "mark" /\ snap'[c].copy = mem[c]
        BY <3>6, <1>t DEF Situations, Snap
      <4>2. QED
        BY <4>1, <3>2, <3>4, <3>6, <2>2, <1>e, <1>h, <1>i DEF Held, Indexed
    <3>7. QED
      BY <3>5, <3>6, <1>2, <2>3 DEF Write
  <2>4. CASE ~may
    <3>1. /\ f \in DOMAIN disk /\ disk[f] \in Text
          /\ snap' = [snap EXCEPT
                       ![c].step = IF snap[c].rewrite THEN "recover" ELSE "redecide",
                       ![c].stale = HasPrefix(disk[f], mem[c]),
                       ![c].copy = mem[c]]
          /\ UNCHANGED <<disk, base, run, op, turn>>
      BY <1>2, <2>4, <1>t DEF Write, Disk
    <3>2. /\ snap'[c].step \in {"recover", "redecide"}
          /\ snap'[c].stale = HasPrefix(disk[f], mem[c])
          /\ snap'[c].copy = mem[c]
      BY <3>1, <1>t DEF Situations, Snap
    <3>3. HasPrefix(disk[f], mem[c]) => Items(mem[c]) \subseteq Gone
      BY <3>1, <1>t, Prefixes, OnIt
    <3>4. QED
      BY <3>1, <3>2, <3>3, <2>2, <1>g, <1>h, <1>i DEF Held, Indexed, Ended
  <2>5. QED
    BY <2>3, <2>4
<1>3. CASE Redecide(c)
  <2>1. /\ snap[c].step = "redecide"
        /\ snap'[c].step \in {"write", "recover"}
        /\ snap'[c].step = "recover" => snap'[c].stale = snap[c].stale /\ snap'[c].copy = snap[c].copy
        /\ UNCHANGED <<disk, held, work, history>>
    BY <1>3, <1>t DEF Redecide, Situations, Snap
  <2>2. QED
    BY <2>1, <1>g, <1>h, <1>i DEF Held, Indexed, Ended
<1>4. CASE Mark(c)
  <2>1. /\ Unlock(c, TRUE, turn[c])
        /\ UNCHANGED <<disk, path, mem, base, plan, history>>
        /\ snap[c].step = "mark" /\ snap[c].by # "cancel"
    BY <1>4, <1>p DEF Mark, Placed
  <2>2. Items(snap[c].copy) \subseteq Gone /\ (snap[c].by # "anyone" => snap[c].copy = mem[c])
    BY <2>1, <1>h DEF Held
  <2>3. CASE snap[c].by = "anyone"
    <3>1. snap'[c] = Free /\ UNCHANGED <<run[c], op[c], turn[c]>>
      BY <2>1, <2>3, <1>s, <1>t, Unlocking
    <3>2. QED
      BY <3>1, <2>1, <1>f, <1>g, <1>h, <1>i DEF Held, Indexed, Ended
  <2>4. CASE snap[c].by # "anyone"
    <3>1. /\ snap'[c] = Free
          /\ run'[c] # "turn" /\ op'[c] \in {"none", "swap"}
      BY <2>1, <2>4, <1>p, <1>s, <1>t, Unlocking DEF Placed
    <3>2. QED
      BY <3>1, <2>1, <2>2, <2>4, <1>e, <1>f, <1>g, <1>h DEF Held, Indexed
  <2>5. QED
    BY <2>3, <2>4
<1>5. CASE NotNeeded(c)
  <2> DEFINE f == snap[c].file
  <2>1. /\ snap[c].step = "recover"
        /\ snap'[c].step = "adopt"
        /\ snap'[c].copy = IF snap[c].stale THEN snap[c].copy ELSE mem[c]
        /\ UNCHANGED <<disk, held, work, history>>
    BY <1>5, <1>t DEF NotNeeded, Situations, Snap
  <2>2. f \in DOMAIN disk /\ disk[f] \in Text
    BY <2>1, <1>p, <1>t DEF Placed, Disk
  <2>3. snap[c].stale \/ HasPrefix(disk[f], mem[c])
    BY <1>5 DEF NotNeeded, Covered
  <2>4. Items(snap'[c].copy) \subseteq Gone
    <3>1. CASE snap[c].stale
      BY <3>1, <2>1, <1>h DEF Held
    <3>2. CASE ~snap[c].stale
      BY <3>2, <2>1, <2>2, <2>3, <1>t, Prefixes, OnIt
    <3>3. QED
      BY <3>1, <3>2
  <2>5. QED
    BY <2>1, <2>4, <1>g, <1>h, <1>i DEF Held, Indexed, Ended
<1>6. CASE Adopt(c)
  <2> DEFINE f == snap[c].file
             d == disk[f]
  <2>1. /\ Unlock(c, TRUE, Indexless(c))
        /\ mem'[c] = d
        /\ base' = [base EXCEPT ![c] = [file |-> f, text |-> d, behind |-> FALSE]]
        /\ mem[c] = snap[c].copy
        /\ UNCHANGED <<disk, used, discarded>>
        /\ snap[c].step = "adopt"
    BY <1>6 DEF Adopt, Install, TypeOK
  <2>2. f \in DOMAIN disk /\ Items(d) \subseteq Gone
    BY <2>1, <1>p, OnIt DEF Placed
  <2>3. Items(mem[c]) \subseteq Gone
    BY <2>1, <1>h DEF Held
  <2>4. base'[c].text = d /\ OthersKept(c)
    BY <2>1 DEF TypeOK
  <2>5. snap'[c] = Free /\ (run'[c] = "turn" => run[c] = "turn" /\ turn'[c] = Indexless(c))
    BY <2>1, <1>s, <1>t, <1>p, Unlocking DEF Placed
  <2>6. op'[c] = "folding" => ~plan'[c].sound
    <3>1. op'[c] = "folding" => op[c] = "folding"
      BY <2>1, <1>s, <1>t, Unlocking
    <3>2. op[c] = "folding" => plan' = [plan EXCEPT ![c].sound = FALSE]
      BY <1>6 DEF Adopt, Misread
    <3>3. QED
      BY <3>1, <3>2 DEF TypeOK, Plan
  <2>7. Held(c)'
    BY <2>1, <2>2, <2>4, <2>5, <2>6, <1>f, <1>g DEF Held
  <2>8. Indexed(c)'
    BY <2>5, <1>l DEF Indexed
  <2>9. QED
    BY <2>1, <2>3, <2>4, <2>7, <2>8, <1>e, <1>g
<1>7. CASE Fork(c)
  <2> DEFINE g == Recovery(snap[c].file, mem[c])
  <2>1. g \in File
    BY <1>7, <1>p, <1>t DEF Fork, Diverged, Placed
  <2>2. /\ Put(g, mem[c]) /\ Persist(c, g, mem[c])
        /\ g \in DOMAIN disk => Items(disk[g]) \subseteq Items(mem[c])
        /\ UNCHANGED <<mem, plan, used, discarded>>
    BY <1>7 DEF Fork
  <2>3. OthersKept(c) /\ base'[c] = [file |-> g, text |-> mem[c], behind |-> FALSE]
    BY <2>1, <2>2, <1>t, Persisting DEF TypeOK
  <2>4. Gone \subseteq Gone' /\ Items(mem[c]) \subseteq Gone'
    BY <2>1, <2>2, <1>t, Saved
  <2>5. ASSUME NEW ok \in BOOLEAN, Unlock(c, ok, turn[c]) PROVE Held(c)' /\ Indexed(c)'
    <3>1. /\ snap'[c] = Free
          /\ op'[c] = "folding" => op[c] = "folding"
          /\ op'[c] = "cancelling" => op[c] = "cancelling"
          /\ run'[c] = "turn" => run[c] = "turn" /\ turn'[c] = turn[c]
      BY <2>5, <1>p, <1>s, <1>t, Unlocking DEF Placed
    <3>2. QED
      BY <3>1, <2>2, <2>3, <2>4, <1>f, <1>h, <1>i DEF Held, Indexed
  <2>6. CASE snap' = [snap EXCEPT ![c].step = "mark", ![c].copy = mem[c]] /\ UNCHANGED <<run, op, turn>>
    <3>1. snap'[c].step = "mark" /\ snap'[c].copy = mem[c]
      BY <2>6, <1>t DEF Situations, Snap
    <3>2. Held(c)' /\ Indexed(c)'
      BY <3>1, <2>2, <2>3, <2>4, <2>6, <1>h, <1>i DEF Held, Indexed
    <3>3. QED
      BY <3>2, <2>2, <2>3, <2>4, <1>e
  <2>7. CASE \E ok \in BOOLEAN : Unlock(c, ok, turn[c])
    BY <2>7, <2>2, <2>3, <2>4, <2>5, <1>e
  <2>8. QED
    BY <2>6, <2>7, <1>7 DEF Fork
<1>8. CASE ForceSave(c)
  <2> DEFINE f == snap[c].file
  <2>1. f \in File
    BY <1>8, <1>p, <1>t DEF ForceSave, Diverged, Placed
  <2>2. /\ Put(f, mem[c]) /\ Persist(c, f, mem[c]) /\ Unlock(c, TRUE, turn[c])
        /\ Items(disk[f]) \subseteq Items(mem[c]) \cup discarded
        /\ UNCHANGED <<mem, plan, used, discarded>>
    BY <1>8 DEF ForceSave
  <2>3. OthersKept(c) /\ base'[c] = [file |-> f, text |-> mem[c], behind |-> FALSE]
    BY <2>1, <2>2, <1>t, Persisting DEF TypeOK
  <2>4. Gone \subseteq Gone' /\ Items(mem[c]) \subseteq Gone'
    BY <2>1, <2>2, <1>t, Saved
  <2>5. /\ snap'[c] = Free
        /\ op'[c] = "folding" => op[c] = "folding"
        /\ op'[c] = "cancelling" => op[c] = "cancelling"
        /\ run'[c] = "turn" => run[c] = "turn" /\ turn'[c] = turn[c]
    BY <2>2, <1>p, <1>s, <1>t, Unlocking DEF Placed
  <2>6. Held(c)' /\ Indexed(c)'
    BY <2>2, <2>3, <2>4, <2>5, <1>f, <1>h, <1>i DEF Held, Indexed
  <2>7. QED
    BY <2>2, <2>3, <2>4, <2>6, <1>e
<1>9. QED
  BY <1>1, <1>2, <1>3, <1>4, <1>5, <1>6, <1>7, <1>8 DEF Saving

LEMMA TurningSafe ==
  ASSUME TypeOK, Control, Safe, ~amiss, NEW c \in Controller, Turning(c), ~amiss'
  PROVE  Advances(c)
<1> USE Constants, ConstantsAssumption DEF Advances, OthersKept, held, work, history
<1>p. Placed(c)
  BY DEF Control
<1>t. /\ Situations /\ Disk(disk) /\ snap[c] \in Snap /\ path[c] \in File \cup {None}
      /\ mem[c] \in Text /\ snap[c].by \in {"anyone", "turn", "rotation", "cancel"}
      /\ plan[c].text \in Text
  BY DEF TypeOK, Situations, Disk, Snap, Plan
<1>s. turn[c] \in Turn /\ Indexless(c) \in Turn
  BY DEF TypeOK, Turn, Indexless
<1>h. Held(c)
  BY DEF Safe
<1>i. Indexed(c)
  BY DEF Safe
<1>f. Free.step = "free" /\ Free.by = "anyone"
  BY DEF Free
<1>g. ASSUME UNCHANGED <<disk, discarded>> PROVE Gone' = Gone
  BY <1>g DEF Gone, OnDisk
<1>d. discarded \subseteq Gone /\ discarded' \subseteq Gone'
  BY DEF Gone
<1>l. run[c] = "turn" /\ run'[c] = "turn" /\ turn'[c].sound => Indexless(c) # turn'[c]
  BY <1>s DEF Indexless, Turn
<1>1. CASE StartTurn(c)
  <2>1. /\ turn'[c] = [start |-> Len(mem[c]), said |-> {}, sound |-> TRUE]
        /\ UNCHANGED <<disk, held, op, plan, snap, history>>
    BY <1>1 DEF StartTurn, NoTurn, TypeOK
  <2>2. run[c] = "idle" /\ op[c] = "none"
    BY <1>1, <1>p DEF StartTurn, Placed
  <2>3. Len(mem[c]) \in Nat /\ Since(mem[c], Len(mem[c])) = {}
    BY <1>t, TextIs, Recent
  <2>4. Held(c)'
    BY <2>1, <2>2, <1>g, <1>h DEF Held
  <2>5. Indexed(c)'
    BY <2>1, <2>2, <2>3 DEF Indexed
  <2>6. QED
    BY <2>1, <2>2, <2>4, <2>5, <1>g DEF Ended
<1>2. CASE Add(c)
  <2>1. PICK i \in Item :
          /\ mem' = [mem EXCEPT ![c] = Append(@, {i})]
          /\ turn' = [turn EXCEPT ![c].said = @ \cup {i}]
          /\ used' = used \cup {i}
    BY <1>2 DEF Add, Item
  <2>2. /\ UNCHANGED <<disk, path, base, run, op, plan, snap, discarded>>
        /\ run[c] = "turn" /\ op[c] = "none"
    BY <1>2 DEF Add, Working
  <2>3. {i} \in Message /\ Item \cap {i} = {i}
    BY DEF Message
  <2>4. mem'[c] = Append(mem[c], {i})
    BY <2>1 DEF TypeOK
  <2>5. /\ Len(mem'[c]) = Len(mem[c]) + 1
        /\ Items(mem'[c]) = Items(mem[c]) \cup {i}
        /\ \A n \in 0..Len(mem[c]) : Since(mem'[c], n) = Since(mem[c], n) \cup {i}
    <3>1. /\ Len(Append(mem[c], {i})) = Len(mem[c]) + 1
          /\ Items(Append(mem[c], {i})) = Items(mem[c]) \cup (Item \cap {i})
          /\ \A n \in 0..Len(mem[c]) :
               Since(Append(mem[c], {i}), n) = Since(mem[c], n) \cup (Item \cap {i})
      BY <2>3, <1>t, Appending
    <3>2. QED
      BY <3>1, <2>3, <2>4
  <2>6. /\ turn'[c].start = turn[c].start /\ turn'[c].sound = turn[c].sound
        /\ turn'[c].said = turn[c].said \cup {i}
    BY <2>1, <1>s DEF TypeOK, Turn
  <2>7. Indexed(c)'
    <3>1. ASSUME turn[c].sound
          PROVE  /\ turn[c].start <= Len(mem'[c])
                 /\ Since(mem'[c], turn[c].start) = Since(mem[c], turn[c].start) \cup {i}
      <4>1. turn[c].start \in Nat /\ turn[c].start <= Len(mem[c]) /\ Len(mem[c]) \in Nat
        BY <3>1, <2>2, <1>i, <1>s, <1>t, TextIs DEF Indexed, Turn
      <4>2. turn[c].start \in 0..Len(mem[c])
        BY <4>1
      <4>3. QED
        BY <4>1, <4>2, <2>5
    <3>2. QED
      BY <3>1, <2>2, <2>6, <1>i DEF Indexed
  <2>8. snap[c].step = "mark" => snap[c].by = "anyone"
    BY <2>2, <1>p, <1>t DEF Placed
  <2>9. Held(c)'
    BY <2>2, <2>5, <2>8, <1>g, <1>h DEF Held
  <2>10. QED
    BY <2>1, <2>2, <2>5, <2>7, <2>9, <1>g DEF Ended
<1>3. CASE MarkEdited(c)
  <2>1. PICK k \in DOMAIN mem[c] :
          /\ FirstPrompt(mem[c], turn[c].start, k)
          /\ mem' = [mem EXCEPT ![c][k] = @ \cup {Edited}]
    BY <1>3 DEF MarkEdited
  <2> DEFINE u == [mem[c] EXCEPT ![k] = @ \cup {Edited}]
  <2>2. mem'[c] = u
    BY <2>1 DEF TypeOK
  <2>3. IsPrompt(mem[c][k])
    BY <2>1 DEF FirstPrompt
  <2>4. /\ Len(u) = Len(mem[c])
        /\ Items(u) = Items(mem[c])
        /\ \A n \in Nat : Since(u, n) = Since(mem[c], n)
    BY <2>3, <1>t, Editing
  <2> HIDE DEF u
  <2>5. /\ UNCHANGED <<disk, path, base, run, turn, plan, snap, used, discarded>>
        /\ run[c] = "turn" /\ op[c] = "none" /\ op'[c] = "ending"
    BY <1>3 DEF MarkEdited, Working, TypeOK
  <2>6. Indexed(c)'
    BY <2>2, <2>4, <2>5, <1>i, <1>s DEF Indexed, Turn
  <2>7. snap[c].step = "mark" => snap[c].by = "anyone"
    BY <2>5, <1>p, <1>t DEF Placed
  <2>8. Held(c)'
    BY <2>2, <2>4, <2>5, <2>7, <1>g, <1>h DEF Held
  <2>9. QED
    BY <2>2, <2>4, <2>5, <2>6, <2>8, <1>g DEF Ended
<1>4. CASE EndTurn(c)
  <2>1. /\ UNCHANGED <<disk, held, plan, history>>
        /\ run[c] = "turn" /\ op[c] \in {"none", "ending"} /\ op'[c] \in {"none", "saving"}
    BY <1>4 DEF EndTurn, TypeOK
  <2>2. CASE Changed(c)
    <3>1. Lock(c, "turn", FALSE \/ rewrites[c] > saved[c]) /\ UNCHANGED <<run, turn>>
      BY <1>4, <2>2 DEF EndTurn, Decide
    <3>2. snap'[c] = [step |-> "write", by |-> "turn", file |-> path[c],
                      rewrite |-> (FALSE \/ rewrites[c] > saved[c]),
                      version |-> rewrites[c], copy |-> <<>>, stale |-> FALSE]
      BY <3>1, <1>t, Locking DEF TypeOK
    <3>3. snap'[c].step = "write"
      BY <3>2
    <3>4. Held(c)' /\ Indexed(c)'
      BY <3>1, <3>3, <2>1, <1>g, <1>h, <1>i DEF Held, Indexed
    <3>5. QED
      BY <3>1, <3>4, <2>1, <1>g DEF Ended
  <2>3. CASE ~Changed(c)
    <3>1. UNCHANGED snap /\ run'[c] = "idle"
      BY <1>4, <2>3 DEF EndTurn, TypeOK
    <3>2. Since(mem[c], turn[c].start) = {}
      <4>1. turn[c].start \in Nat /\ Len(mem[c]) \in Nat /\ Len(mem[c]) <= turn[c].start
        BY <2>3, <1>s, <1>t, TextIs DEF Changed, Turn
      <4>2. QED
        BY <4>1, <1>t, Recent
    <3>3. Ended(c)
      BY <3>1, <3>2, <2>1, <1>d, <1>i DEF Ended, Indexed
    <3>4. op'[c] = "none"
      BY <1>4, <2>3 DEF EndTurn, TypeOK
    <3>5. Held(c)' /\ Indexed(c)'
      BY <3>1, <3>4, <2>1, <1>g, <1>h DEF Held, Indexed
    <3>6. QED
      BY <3>3, <3>5, <2>1, <1>g
  <2>4. QED
    BY <2>2, <2>3
<1>5. CASE FoldRead(c)
  <2>1. PICK t \in Text : plan' = [plan EXCEPT ![c] = [text |-> t, sound |-> TRUE]] /\ Items(t) = Items(mem[c])
    BY <1>5 DEF FoldRead, Folds
  <2>2. plan'[c].text = t
    BY <2>1 DEF TypeOK
  <2>3. /\ UNCHANGED <<disk, held, run, turn, snap, history>>
        /\ op'[c] = "folding"
    BY <1>5 DEF FoldRead, TypeOK
  <2>4. Held(c)' /\ Indexed(c)'
    BY <2>1, <2>2, <2>3, <1>g, <1>h, <1>i DEF Held, Indexed
  <2>5. QED
    BY <2>3, <2>4, <1>g DEF Ended
<1>6. CASE FoldReplace(c)
  <2>1. /\ mem'[c] = plan[c].text /\ plan[c].sound
        /\ turn'[c] = Indexless(c)
        /\ op[c] = "folding" /\ op'[c] = "replaced"
        /\ UNCHANGED <<disk, path, base, run, snap, used, discarded>>
    BY <1>6 DEF FoldReplace, TypeOK
  <2>2. Items(mem'[c]) = Items(mem[c])
    BY <2>1, <1>h DEF Held
  <2>3. snap[c].step = "mark" => snap[c].by = "anyone"
    BY <2>1, <1>p, <1>t DEF Placed
  <2>4. Held(c)'
    BY <2>1, <2>2, <2>3, <1>g, <1>h DEF Held
  <2>5. Indexed(c)'
    BY <2>1, <1>l DEF Indexed
  <2>6. QED
    BY <2>1, <2>2, <2>4, <2>5, <1>g DEF Ended
<1>7. CASE FoldDeclare(c)
  <2>1. /\ UNCHANGED <<disk, path, mem, base, turn, plan, snap, history>>
        /\ op'[c] \in {"save", "none"}
        /\ run'[c] = "turn" => run[c] = "turn"
        /\ run[c] = "turn" => run'[c] = "turn"
    BY <1>7 DEF FoldDeclare, TypeOK
  <2>2. Held(c)' /\ Indexed(c)'
    BY <2>1, <1>g, <1>h, <1>i DEF Held, Indexed
  <2>3. QED
    BY <2>1, <2>2, <1>g DEF Ended
<1>8. CASE FoldAbort(c)
  <2>1. /\ UNCHANGED <<disk, held, turn, snap, history>>
        /\ op'[c] = "none"
        /\ run'[c] = "turn" => run[c] = "turn"
        /\ run[c] = "turn" => run'[c] = "turn"
    BY <1>8 DEF FoldAbort, TypeOK
  <2>2. Held(c)' /\ Indexed(c)'
    BY <2>1, <1>g, <1>h, <1>i DEF Held, Indexed
  <2>3. QED
    BY <2>1, <2>2, <1>g DEF Ended
<1>9. CASE CancelRead(c)
  <2>1. PICK visible \in BOOLEAN : \E t \in Stripped(mem[c], turn[c].start, visible) :
          plan' = [plan EXCEPT ![c].text = t]
    BY <1>9 DEF CancelRead
  <2>2. PICK t \in Stripped(mem[c], turn[c].start, visible) : plan' = [plan EXCEPT ![c].text = t]
    BY <2>1
  <2>3. turn[c].start \in Nat /\ turn[c].start < Len(mem[c])
    BY <1>9, <1>s, <1>t, TextIs DEF CancelRead, Turn
  <2>4. /\ t \in Text
        /\ turn[c].start <= Len(t)
        /\ Items(mem[c]) \ Items(t) \subseteq Since(mem[c], turn[c].start)
        /\ Since(t, turn[c].start) \subseteq Since(mem[c], turn[c].start)
    BY <2>3, <1>t, Stripping
  <2>5. plan'[c].text = t
    BY <2>2 DEF TypeOK, Plan
  <2>6. /\ UNCHANGED <<disk, held, run, turn, snap, history>>
        /\ op'[c] = "cancelling" /\ run[c] = "turn"
    BY <1>9 DEF CancelRead, Working, TypeOK
  <2>7. Indexed(c)'
    BY <2>4, <2>5, <2>6, <1>i DEF Indexed
  <2>8. Held(c)'
    BY <2>6, <1>g, <1>h DEF Held
  <2>9. QED
    BY <2>6, <2>7, <2>8, <1>g DEF Ended
<1>10. CASE CancelReplace(c)
  <2> DEFINE t == plan[c].text
             n == turn[c].start
  <2>1. Lock(c, "cancel", TRUE)
    BY <1>10 DEF CancelReplace
  <2>2. snap'[c] = [step |-> "write", by |-> "cancel", file |-> path[c], rewrite |-> TRUE,
                    version |-> rewrites[c], copy |-> <<>>, stale |-> FALSE]
    BY <2>1, <1>t, Locking DEF TypeOK
  <2>3. snap'[c].step = "write"
    BY <2>2
  <2>4. /\ UNCHANGED <<disk, path, base, run, turn, used>>
        /\ op[c] = "cancelling" /\ op'[c] = "saving" /\ run[c] = "turn"
        /\ mem'[c] = t
        /\ turn[c].sound
        /\ discarded' = discarded \cup (turn[c].said \ Since(t, n))
    BY <1>10, <1>p DEF CancelReplace, Placed, TypeOK
  <2>5. /\ n \in Nat
        /\ n <= Len(t)
        /\ Items(mem[c]) \ Items(t) \subseteq turn[c].said
        /\ Since(t, n) \subseteq turn[c].said
        /\ Since(t, n) \subseteq Items(t)
    BY <2>4, <1>i, <1>s, <1>t, Recent DEF Indexed, Turn
  <2>6. /\ Gone \subseteq Gone' /\ discarded \subseteq discarded'
        /\ Items(mem[c]) \subseteq Items(t) \cup discarded'
    BY <2>4, <2>5 DEF Gone, OnDisk
  <2>7. Held(c)'
    BY <2>3, <2>4, <2>6, <1>h DEF Held
  <2>8. Indexed(c)'
    BY <2>4, <2>5, <2>6 DEF Indexed
  <2>9. QED
    BY <2>4, <2>6, <2>7, <2>8, <1>d DEF Ended
<1>11. QED
  BY <1>1, <1>2, <1>3, <1>4, <1>5, <1>6, <1>7, <1>8, <1>9, <1>10 DEF Turning

LEMMA RotatingSafe ==
  ASSUME TypeOK, Control, Safe, ~amiss, NEW c \in Controller, Rotating(c), ~amiss'
  PROVE  Advances(c)
<1> USE Constants, ConstantsAssumption DEF Advances, OthersKept, held, work, history
<1>p. Placed(c)
  BY DEF Control
<1>t. /\ Situations /\ Disk(disk) /\ snap[c] \in Snap /\ path[c] \in File \cup {None}
      /\ mem[c] \in Text /\ snap[c].by \in {"anyone", "turn", "rotation", "cancel"}
      /\ plan[c].text \in Text
  BY DEF TypeOK, Situations, Disk, Snap, Plan
<1>s. turn[c] \in Turn /\ Indexless(c) \in Turn
  BY DEF TypeOK, Turn, Indexless
<1>h. Held(c)
  BY DEF Safe
<1>i. Indexed(c)
  BY DEF Safe
<1>f. Free.step = "free" /\ Free.by = "anyone"
  BY DEF Free
<1>g. ASSUME UNCHANGED <<disk, discarded>> PROVE Gone' = Gone
  BY <1>g DEF Gone, OnDisk
<1>d. discarded \subseteq Gone /\ discarded' \subseteq Gone'
  BY DEF Gone
<1>l. run[c] = "turn" /\ run'[c] = "turn" /\ turn'[c].sound => Indexless(c) # turn'[c]
  BY <1>s DEF Indexless, Turn
<1>1. ASSUME NEW f, NEW t, Install(c, f, t)
      PROVE  path'[c] = f /\ mem'[c] = t
  BY <1>1 DEF Install, TypeOK
<1>u. ASSUME Swappable(c) PROVE snap[c] = Free
  BY <1>u, <1>p DEF Swappable, Placed
<1>n. ASSUME NEW f \in File, Unnamed(f) PROVE f \notin DOMAIN disk
  BY <1>n DEF Unnamed
<1>2. CASE Claim(c)
  <2>1. /\ UNCHANGED <<disk, held, turn, plan, snap, history>>
        /\ run[c] = "idle" /\ run'[c] # "turn" /\ op'[c] \in {"save", "none"}
    BY <1>2 DEF Claim, TypeOK
  <2>2. Held(c)' /\ Indexed(c)'
    BY <2>1, <1>g, <1>h DEF Held, Indexed
  <2>3. QED
    BY <2>1, <2>2, <1>g DEF Ended
<1>3. CASE Rewind(c)
  <2>1. PICK n \in 0..Len(mem[c]) :
          /\ mem' = [mem EXCEPT ![c] = SubSeq(@, 1, n)]
          /\ discarded' = discarded \cup (Items(mem[c]) \ Items(SubSeq(mem[c], 1, n)))
    BY <1>3 DEF Rewind
  <2>2. mem'[c] = SubSeq(mem[c], 1, n)
    BY <2>1 DEF TypeOK
  <2>3. /\ UNCHANGED <<disk, path, base, plan, snap, used>>
        /\ run[c] = "idle" /\ run'[c] = "rewind" /\ op[c] = "none" /\ op'[c] = "save"
    BY <1>3, <1>p DEF Rewind, Placed, TypeOK
  <2>4. /\ Gone \subseteq Gone' /\ discarded \subseteq discarded'
        /\ Items(mem[c]) \subseteq Items(mem'[c]) \cup discarded'
    BY <2>1, <2>2, <2>3 DEF Gone, OnDisk
  <2>5. snap[c].step = "mark" => snap[c].by = "anyone"
    BY <2>3, <1>p, <1>t DEF Placed
  <2>6. Held(c)' /\ Indexed(c)'
    BY <2>3, <2>4, <2>5, <1>h DEF Held, Indexed
  <2>7. QED
    BY <2>3, <2>4, <2>6, <1>d DEF Ended
<1>4. CASE SaveRotation(c)
  <2>1. /\ UNCHANGED <<disk, held, turn, plan, history>>
        /\ op[c] = "save" /\ run[c] # "turn"
    BY <1>4, <1>p DEF SaveRotation, Placed, Rotation
  <2>2. CASE mem[c] # <<>>
    <3>1. /\ Lock(c, "rotation", run[c] \in {"rewind", "summarize"} \/ rewrites[c] > saved[c])
          /\ op'[c] = "saving" /\ UNCHANGED run
      BY <1>4, <2>2 DEF SaveRotation, Decide, TypeOK
    <3>2. snap'[c] = [step |-> "write", by |-> "rotation", file |-> path[c],
                      rewrite |-> (run[c] \in {"rewind", "summarize"} \/ rewrites[c] > saved[c]),
                      version |-> rewrites[c], copy |-> <<>>, stale |-> FALSE]
      BY <3>1, <1>t, Locking DEF TypeOK
    <3>3. snap'[c].step = "write"
      BY <3>2
    <3>4. Held(c)' /\ Indexed(c)'
      BY <3>1, <3>3, <2>1, <1>g, <1>h DEF Held, Indexed
    <3>5. QED
      BY <3>4, <2>1, <1>g DEF Ended
  <2>3. CASE mem[c] = <<>>
    <3>1. UNCHANGED snap /\ run'[c] # "turn" /\ op'[c] \in {"swap", "none"}
      BY <1>4, <2>1, <2>3 DEF SaveRotation, TypeOK
    <3>2. Items(mem[c]) = {}
      BY <2>3, Empty
    <3>3. Held(c)' /\ Indexed(c)'
      BY <3>1, <3>2, <2>1, <1>g, <1>h DEF Held, Indexed
    <3>4. QED
      BY <3>3, <2>1, <1>g DEF Ended
  <2>4. QED
    BY <2>2, <2>3
<1>5. CASE NewSession(c)
  <2>1. PICK r \in Root : Install(c, Fresh(r), <<>>)
    BY <1>5 DEF NewSession
  <2>2. mem'[c] = <<>> /\ Items(mem'[c]) = {}
    BY <2>1, <1>1, Empty
  <2>3. /\ snap'[c] = Free /\ op'[c] = "none" /\ run'[c] = "idle" /\ run[c] # "turn" /\ op[c] = "swap"
        /\ OthersKept(c) /\ base'[c] = NoBase
        /\ UNCHANGED <<disk, used, discarded>>
    BY <1>5, <1>u DEF NewSession, EndRotation, TypeOK
  <2>4. Held(c)' /\ Indexed(c)'
    BY <2>2, <2>3, <1>f, <1>g, Empty DEF Held, Indexed, NoBase
  <2>5. Items(mem[c]) \subseteq Gone
    BY <2>3, <1>h DEF Held
  <2>6. QED
    BY <2>3, <2>4, <2>5, <1>g DEF Ended
<1>6. CASE Branch(c)
  <2>1. PICK r \in Root :
          /\ Unnamed(Fresh(r))
          /\ Put(Fresh(r), mem[c])
          /\ Install(c, Fresh(r), mem[c])
          /\ Persist(c, Fresh(r), mem[c])
    BY <1>6 DEF Branch
  <2>2. mem'[c] = mem[c]
    BY <2>1, <1>1
  <2>3. OthersKept(c) /\ base'[c] = [file |-> Fresh(r), text |-> mem[c], behind |-> FALSE]
    BY <2>1, <1>t, Persisting DEF TypeOK
  <2>4. /\ snap'[c] = Free /\ op'[c] = "none" /\ run'[c] = "idle" /\ run[c] # "turn"
        /\ UNCHANGED <<used, discarded>>
    BY <1>6, <1>u DEF Branch, EndRotation, TypeOK
  <2>5. Fresh(r) \in File /\ Fresh(r) \notin DOMAIN disk
    BY <2>1, <1>n
  <2>6. Gone \subseteq Gone'
    BY <2>1, <2>4, <2>5, <1>t, Saved
  <2>7. Held(c)' /\ Indexed(c)'
    BY <2>2, <2>3, <2>4, <1>f DEF Held, Indexed
  <2>8. QED
    BY <2>2, <2>3, <2>4, <2>6, <2>7 DEF Ended
<1>7. CASE \E n \in 0..Len(mem[c]) : ForkSession(c, n)
  <2>1. PICK n \in 0..Len(mem[c]) : ForkSession(c, n)
    BY <1>7
  <2> DEFINE t == SubSeq(mem[c], 1, n)
  <2>2. t \in Text
    BY <2>1, <1>t, Initials
  <2>3. /\ op[c] = "swap" /\ op'[c] = "none" /\ run[c] = "fork" /\ run'[c] = "idle"
        /\ UNCHANGED <<plan, snap, used, discarded>>
    BY <2>1 DEF ForkSession, EndRotation, TypeOK
  <2>4. PICK r \in Root :
          /\ Unnamed(Fresh(r))
          /\ Put(Fresh(r), t)
          /\ \/ UNCHANGED held
             \/ Swappable(c) /\ Install(c, Fresh(r), t) /\ Persist(c, Fresh(r), t)
    BY <2>1 DEF ForkSession
  <2>5. Fresh(r) \in File /\ Fresh(r) \notin DOMAIN disk
    BY <2>4, <1>n
  <2>6. Gone \subseteq Gone'
    BY <2>2, <2>3, <2>4, <2>5, <1>t, Saved
  <2>7. Items(mem[c]) \subseteq Gone
    BY <2>3, <1>h DEF Held
  <2>8. CASE UNCHANGED held
    <3>1. Held(c)' /\ Indexed(c)'
      BY <2>3, <2>6, <2>8, <1>h DEF Held, Indexed
    <3>2. QED
      BY <3>1, <2>3, <2>6, <2>8 DEF Ended
  <2>9. CASE Swappable(c) /\ Install(c, Fresh(r), t) /\ Persist(c, Fresh(r), t)
    <3>1. OthersKept(c) /\ base'[c] = [file |-> Fresh(r), text |-> t, behind |-> FALSE]
      BY <2>2, <2>5, <2>9, <1>t, Persisting DEF TypeOK
    <3>2. mem'[c] = t /\ snap'[c] = Free
      BY <2>3, <2>9, <1>1, <1>u
    <3>3. Held(c)' /\ Indexed(c)'
      BY <3>1, <3>2, <2>3, <1>f DEF Held, Indexed
    <3>4. QED
      BY <3>1, <3>3, <2>3, <2>6, <2>7 DEF Ended
  <2>10. QED
    BY <2>4, <2>8, <2>9
<1>8. CASE Boot(c)
  <2>1. PICK r \in Root : Install(c, Fresh(r), <<>>)
    BY <1>8 DEF Boot
  <2>2. mem'[c] = <<>> /\ mem[c] = <<>> /\ snap[c] = Free /\ run[c] = "idle" /\ op[c] = "none"
    BY <1>8, <2>1, <1>1, <1>p DEF Boot, Placed
  <2>3. UNCHANGED <<disk, base, run, op, turn, plan, snap, history>>
    BY <1>8 DEF Boot
  <2>4. Held(c)' /\ Indexed(c)'
    BY <2>2, <2>3, <1>f, <1>g, <1>h DEF Held, Indexed
  <2>5. QED
    BY <2>2, <2>3, <2>4, <1>g DEF Ended
<1>9. CASE \E f \in DOMAIN disk : Open(c, f)
  <2>1. PICK f \in DOMAIN disk : Open(c, f)
    BY <1>9
  <2>2. mem'[c] = disk[f]
    BY <2>1, <1>1 DEF Open
  <2>3. OthersKept(c) /\ base'[c] = [file |-> f, text |-> disk[f], behind |-> FALSE]
    BY <2>1 DEF Open, TypeOK
  <2>4. /\ snap'[c] = Free /\ op'[c] = op[c] /\ turn'[c] = Indexless(c) /\ UNCHANGED run
        /\ UNCHANGED <<disk, used, discarded>>
        /\ Items(mem[c]) \subseteq Gone
    BY <2>1, <1>u DEF Open, TypeOK, Gone
  <2>5. Items(disk[f]) \subseteq Gone
    BY OnIt
  <2>6. op[c] = "folding" => ~plan'[c].sound
    BY <2>1 DEF Open, Misread, TypeOK, Plan
  <2>7. Held(c)'
    BY <2>2, <2>3, <2>4, <2>5, <2>6, <1>f, <1>g DEF Held
  <2>8. Indexed(c)'
    BY <2>4, <1>l DEF Indexed
  <2>9. QED
    BY <2>3, <2>4, <2>7, <2>8, <1>g DEF Ended
<1>10. CASE Crash(c)
  <2>1. path'[c] = None /\ mem'[c] = <<>> /\ Items(mem'[c]) = {}
    BY <1>10, <1>1, Empty DEF Crash
  <2>2. /\ snap'[c] = Free /\ op'[c] = "none" /\ run'[c] = "idle"
        /\ OthersKept(c) /\ base'[c] = NoBase
        /\ UNCHANGED <<disk, used>>
        /\ discarded' = discarded \cup (Items(mem[c]) \ OnDisk)
    BY <1>10 DEF Crash, EndRotation, TypeOK
  <2>3. Gone \subseteq Gone' /\ discarded \subseteq discarded' /\ Items(mem[c]) \subseteq Gone'
    BY <2>2 DEF Gone, OnDisk
  <2>4. Held(c)' /\ Indexed(c)'
    BY <2>1, <2>2, <1>f, Empty DEF Held, Indexed, NoBase
  <2>5. QED
    BY <2>1, <2>2, <2>3, <2>4 DEF Ended
<1>11. QED
  BY <1>2, <1>3, <1>4, <1>5, <1>6, <1>7, <1>8, <1>9, <1>10 DEF Rotating

LEMMA Advance ==
  ASSUME TypeOK, Control, Safe, ~amiss', [Next]_vars, ~UNCHANGED vars
  PROVE  \E c \in Controller : Others(c) /\ Advances(c)
<1>1. ~amiss
  BY AmissStays
<1>2. PICK c \in Controller : Saving(c) \/ Turning(c) \/ Rotating(c)
  BY DEF Next
<1>3. Advances(c)
  BY <1>1, <1>2, SavingSafe, TurningSafe, RotatingSafe
<1>4. Others(c)
  BY <1>2, SavingControl, TurningControl, RotatingControl DEF Stepped
<1>5. QED
  BY <1>3, <1>4

LEMMA SafeStep ==
  ASSUME TypeOK, Control, Safe, [Next]_vars
  PROVE  Safe'
<1>1. CASE amiss'
  BY <1>1 DEF Safe
<1>2. CASE UNCHANGED vars
  BY <1>2 DEF vars, held, work, history, Safe, Held, Indexed, Gone, OnDisk
<1>3. CASE ~amiss' /\ ~UNCHANGED vars
  <2>1. PICK c \in Controller : Others(c) /\ Advances(c)
    BY <1>3, Advance
  <2>2. ~amiss
    BY <1>3, AmissStays
  <2>3. ASSUME NEW x \in Controller, x # c PROVE Held(x)' /\ Indexed(x)'
    <3>1. Same(x) /\ base'[x].text = base[x].text
      BY <2>1, <2>3 DEF Others, Advances, OthersKept
    <3>2. Gone \subseteq Gone' /\ discarded \subseteq discarded'
      BY <2>1 DEF Advances
    <3>3. Held(x) /\ Indexed(x)
      BY <2>2 DEF Safe
    <3>4. QED
      BY <3>1, <3>2, <3>3 DEF Same, Held, Indexed
  <2>4. Held(c)' /\ Indexed(c)'
    BY <2>1 DEF Advances
  <2>5. QED
    BY <2>3, <2>4 DEF Safe
<1>4. QED
  BY <1>1, <1>2, <1>3

LEMMA NothingStep ==
  ASSUME TypeOK, Control, Safe, NothingIsLost, [Next]_vars
  PROVE  NothingIsLost'
<1>1. CASE amiss'
  BY <1>1 DEF NothingIsLost
<1>2. CASE UNCHANGED vars
  BY <1>2 DEF vars, held, history, NothingIsLost, OnDisk, InMemory
<1>3. CASE ~amiss' /\ ~UNCHANGED vars
  <2>1. PICK c \in Controller : Others(c) /\ Advances(c)
    BY <1>3, Advance
  <2>2. used \subseteq Gone \cup InMemory
    BY <1>3, AmissStays DEF NothingIsLost, Gone
  <2>3. Items(mem'[c]) \subseteq InMemory'
    BY DEF InMemory
  <2>4. ASSUME NEW x \in Controller PROVE Items(mem[x]) \subseteq Gone' \cup InMemory'
    <3>1. CASE x = c
      BY <3>1, <2>1, <2>3 DEF Advances
    <3>2. CASE x # c
      BY <3>2, <2>1 DEF Others, Same, InMemory
    <3>3. QED
      BY <3>1, <3>2
  <2>5. InMemory \subseteq Gone' \cup InMemory'
    BY <2>4 DEF InMemory
  <2>6. used' \subseteq Gone' \cup InMemory'
    BY <2>1, <2>2, <2>3, <2>5 DEF Advances
  <2>7. QED
    BY <2>6 DEF NothingIsLost, Gone
<1>4. QED
  BY <1>1, <1>2, <1>3

LEMMA SafeInit ==
  ASSUME Init
  PROVE  Safe /\ NothingIsLost
<1>1. Safe
  BY Empty DEF Init, Safe, Held, Indexed, NoBase, Free
<1>2. NothingIsLost
  BY DEF Init, NothingIsLost
<1>3. QED
  BY <1>1, <1>2

(***************************************************************************)
(* Nothing that has been said is lost, whatever saves, forks, adoptions,   *)
(* switches and crashes come between, but for the named flaws.             *)
(***************************************************************************)
THEOREM NothingSaidIsLost == Spec => []NothingIsLost
<1>1. Spec => [](TypeOK /\ Control /\ Safe /\ NothingIsLost)
  BY ControlInit, ControlStep, SafeInit, SafeStep, NothingStep, PTL DEF Spec
<1>2. QED
  BY <1>1, PTL

(***************************************************************************)
(* No save, by whichever controller, takes from the disk what another has  *)
(* put there, but for the named flaws.                                     *)
(***************************************************************************)
THEOREM SavedMessagesSurvive == Spec => SavedMessagesStay
<1>1. ASSUME TypeOK, Control, Safe, [Next]_vars
      PROVE  [amiss' \/ OnDisk \subseteq OnDisk' \cup discarded']_vars
  <2>1. CASE UNCHANGED vars
    BY <2>1
  <2>2. CASE ~amiss' /\ ~UNCHANGED vars
    <3>1. PICK c \in Controller : Advances(c)
      BY <1>1, <2>2, Advance
    <3>2. QED
      BY <3>1 DEF Advances, Gone
  <2>3. QED
    BY <2>1, <2>2
<1>2. Spec => [](TypeOK /\ Control /\ Safe)
  BY ControlInit, ControlStep, SafeInit, SafeStep, PTL DEF Spec
<1>3. QED
  BY <1>1, <1>2, PTL DEF Spec, SavedMessagesStay

(***************************************************************************)
(* A turn that ends leaves what it said on disk, through whichever of the  *)
(* outcomes of its save, but for the named flaws.                          *)
(***************************************************************************)
THEOREM EndedTurnsStay == Spec => EndedTurnsAreSaved
<1> DEFINE A == \A c \in Controller :
                  /\ run[c] = "turn"
                  /\ run'[c] = "idle"
                  /\ path'[c] # None
                  /\ turn[c].sound
                  => amiss' \/ turn[c].said \subseteq OnDisk' \cup discarded'
<1>1. ASSUME TypeOK, Control, Safe, [Next]_vars
      PROVE  [A]_vars
  <2>1. CASE UNCHANGED vars
    BY <2>1
  <2>2. CASE ~amiss' /\ ~UNCHANGED vars
    <3>1. PICK c \in Controller : Others(c) /\ Advances(c)
      BY <1>1, <2>2, Advance
    <3>2. ASSUME NEW x \in Controller, x # c PROVE run'[x] = run[x]
      BY <3>1, <3>2 DEF Others, Same
    <3>3. QED
      BY <3>1, <3>2 DEF Advances, Ended, Gone
  <2>3. QED
    BY <2>1, <2>2
<1>2. Spec => [](TypeOK /\ Control /\ Safe)
  BY ControlInit, ControlStep, SafeInit, SafeStep, PTL DEF Spec
<1>3. QED
  BY <1>1, <1>2, PTL DEF Spec, EndedTurnsAreSaved

=============================================================================
