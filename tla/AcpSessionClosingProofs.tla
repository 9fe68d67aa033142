---------------------- MODULE AcpSessionClosingProofs -----------------------
(***************************************************************************)
(* A close waits for the work that is under way: whoever works on a        *)
(* session keeps its controller, however many requests there are.  And, for *)
(* AcpSessionLeaseProofs, what each step does to the leases and the files. *)
(***************************************************************************)
EXTENDS AcpSessionProofs
-----------------------------------------------------------------------------
(***************************************************************************)
(* What the steps do to the goroutine that takes them.                     *)
(***************************************************************************)
LEMMA SaveMoves ==
  ASSUME Goroutines, Shape, NEW r \in Request,
         Saved(r) \/ NotSaved(r) \/ Secure(r) \/ Assign(r) \/ Commit(r)
  PROVE  \E p \in {"persist", "stamp", "build", "abandon", "assign", "redirect"} : Goto(r, p)
<1>1. req[r].pc \in Saves
  BY DEF Saved, NotSaved, Secure, Assign, Commit, At, Saves
<1>2. req[r].phase \in {"turn", "persist", "rebuild"}
  BY <1>1 DEF Shape, Located
<1>3. ASSUME NEW ok \in BOOLEAN, Back(r, ok)
              PROVE \E p \in {"persist", "stamp", "build", "abandon"} : Goto(r, p)
  BY <1>2, <1>3, BackIs
<1> QED BY <1>3 DEF Saved, NotSaved, Secure, Assign, Commit
-----------------------------------------------------------------------------
(***************************************************************************)
(* What the steps do to the leases and the files, one lemma for each step  *)
(* that moves a save, a rebuild, a close, a deletion or a load on, and one *)
(* for all the others.                                                     *)
(***************************************************************************)
Flight  == {"erase", "twin", "linger"}

\* The steps that the files, the leases and the closes turn on.
Special == Closes \cup Opens \cup Moves \cup Flight \cup {"swap"}
Leased(s) == sess[s].lease # None

\* What a step may leave alone.
SameLeases ==
    \A s \in Session : sess'[s].lease = sess[s].lease /\ sess'[s].transcript = sess[s].transcript
SameObjects == SameLeases /\ \A s \in Session : sess'[s].ctrl = sess[s].ctrl
SameFiles == UNCHANGED <<disk, metas, redirect, cleanup, home, gone>>

\* A step of r that is none of these, and moves no lease and no session object.
Plain(r) ==
    /\ \A q \in Request : q # r => req'[q] = req[q]
    /\ req'[r] = req[r] \/ (req[r].pc \notin Special /\ req'[r].pc \notin Special)
    /\ SameObjects
    /\ live' = live /\ lock' = lock /\ path' = path /\ amiss \subseteq amiss'
    /\ \A q, p \in Request : \A k \in {"turn", "maint"} :
          p # r \/ req[r].pc \in Special => (<<k, p>> \in waits[q] => <<k, p>> \in waits'[q])

LEMMA PlainSteps ==
  ASSUME Goroutines, Objects, Others, Shape, NEW r \in Request,
         \/ Prompt(r) \/ Begin(r) \/ BeginRefused(r) \/ Enter(r) \/ Persist(r) \/ Stamp(r)
         \/ Finish(r) \/ TurnReturns(r) \/ Cancel(r) \/ Saved(r) \/ NotSaved(r) \/ SetConfig(r)
         \/ ClaimRefused(r) \/ Queue(r) \/ Claim(r) \/ BuildFails(r) \/ Retire(r) \/ Unwind(r)
         \/ Abandon(r) \/ Apply(r) \/ Copy(r) \/ Drop(r)
  PROVE  Plain(r)
<1> USE DEF Special, Closes, Opens, Moves, Flight
<1>1. CASE Prompt(r)
  <2>1. /\ \A q \in Request : q # r => req'[q] = req[q]
        /\ req'[r] = req[r] \/ (req[r].pc \notin Special /\ req'[r].pc \notin Special)
    BY <1>1, Paths DEF Prompt, Serve, At, Goroutines, Goroutine
  <2>2. SameObjects
    BY <1>1, Paths DEF Prompt, Serve, At, SameObjects, SameLeases, Objects, Object
  <2>3. live' = live /\ lock' = lock /\ path' = path /\ amiss \subseteq amiss'
    BY <1>1 DEF Prompt, Serve, At, fileVars, history
  <2>4. \A q, p \in Request : \A k \in {"turn", "maint"} :
           p # r \/ req[r].pc \in Special => (<<k, p>> \in waits[q] => <<k, p>> \in waits'[q])
    BY <1>1 DEF Prompt, Serve, At, Others
  <2> QED BY <2>1, <2>2, <2>3, <2>4 DEF Plain
<1>2. CASE Begin(r)
  <2>1. /\ \A q \in Request : q # r => req'[q] = req[q]
        /\ req'[r] = req[r] \/ (req[r].pc \notin Special /\ req'[r].pc \notin Special)
    BY <1>2, Paths DEF Begin, MayBegin, On, Goto, Late, At, Goroutines, Goroutine
  <2>2. SameObjects
    BY <1>2, Paths DEF Begin, MayBegin, On, Goto, Late, At, SameObjects, SameLeases, Objects,
       Object
  <2>3. live' = live /\ lock' = lock /\ path' = path /\ amiss \subseteq amiss'
    BY <1>2 DEF Begin, MayBegin, On, Goto, Late, At, fileVars, history
  <2>4. \A q, p \in Request : \A k \in {"turn", "maint"} :
           p # r \/ req[r].pc \in Special => (<<k, p>> \in waits[q] => <<k, p>> \in waits'[q])
    BY <1>2 DEF Begin, MayBegin, On, Goto, Late, At, Others
  <2> QED BY <2>1, <2>2, <2>3, <2>4 DEF Plain
<1>3. CASE BeginRefused(r)
  <2>1. /\ \A q \in Request : q # r => req'[q] = req[q]
        /\ req'[r] = req[r] \/ (req[r].pc \notin Special /\ req'[r].pc \notin Special)
    BY <1>3, Paths DEF BeginRefused, End, At, Unserved, Goroutines, Goroutine
  <2>2. SameObjects
    BY <1>3, Paths DEF BeginRefused, End, At, Unserved, SameObjects, SameLeases, Objects, Object
  <2>3. live' = live /\ lock' = lock /\ path' = path /\ amiss \subseteq amiss'
    BY <1>3 DEF BeginRefused, End, At, Unserved, fileVars, history
  <2>4. \A q, p \in Request : \A k \in {"turn", "maint"} :
           p # r \/ req[r].pc \in Special => (<<k, p>> \in waits[q] => <<k, p>> \in waits'[q])
    BY <1>3 DEF BeginRefused, End, At, Unserved, Others
  <2> QED BY <2>1, <2>2, <2>3, <2>4 DEF Plain
<1>4. CASE Enter(r)
  <2>1. /\ \A q \in Request : q # r => req'[q] = req[q]
        /\ req'[r] = req[r] \/ (req[r].pc \notin Special /\ req'[r].pc \notin Special)
    BY <1>4, Paths DEF Enter, On, At, Goroutines, Goroutine
  <2>2. SameObjects
    BY <1>4, Paths DEF Enter, On, At, SameObjects, SameLeases, Objects, Object
  <2>3. live' = live /\ lock' = lock /\ path' = path /\ amiss \subseteq amiss'
    BY <1>4 DEF Enter, On, At, fileVars, history
  <2>4. \A q, p \in Request : \A k \in {"turn", "maint"} :
           p # r \/ req[r].pc \in Special => (<<k, p>> \in waits[q] => <<k, p>> \in waits'[q])
    BY <1>4 DEF Enter, On, At, Others
  <2> QED BY <2>1, <2>2, <2>3, <2>4 DEF Plain
<1>5. CASE Persist(r)
  <2>1. /\ \A q \in Request : q # r => req'[q] = req[q]
        /\ req'[r] = req[r] \/ (req[r].pc \notin Special /\ req'[r].pc \notin Special)
    BY <1>5, Paths DEF Persist, On, At, Goroutines, Goroutine
  <2>2. SameObjects
    BY <1>5, Paths DEF Persist, On, At, SameObjects, SameLeases, Objects, Object
  <2>3. live' = live /\ lock' = lock /\ path' = path /\ amiss \subseteq amiss'
    BY <1>5 DEF Persist, On, At, fileVars, history
  <2>4. \A q, p \in Request : \A k \in {"turn", "maint"} :
           p # r \/ req[r].pc \in Special => (<<k, p>> \in waits[q] => <<k, p>> \in waits'[q])
    BY <1>5 DEF Persist, On, At, Others
  <2> QED BY <2>1, <2>2, <2>3, <2>4 DEF Plain
<1>6. CASE Stamp(r)
  <2>1. /\ \A q \in Request : q # r => req'[q] = req[q]
        /\ req'[r] = req[r] \/ (req[r].pc \notin Special /\ req'[r].pc \notin Special)
    BY <1>6, Paths DEF Stamp, On, At, Goto, SaveMeta, Goroutines, Goroutine
  <2>2. SameObjects
    BY <1>6, Paths DEF Stamp, On, At, Goto, SaveMeta, SameObjects, SameLeases, Objects, Object
  <2>3. live' = live /\ lock' = lock /\ path' = path /\ amiss \subseteq amiss'
    BY <1>6 DEF Stamp, On, At, Goto, SaveMeta, fileVars, history
  <2>4. \A q, p \in Request : \A k \in {"turn", "maint"} :
           p # r \/ req[r].pc \in Special => (<<k, p>> \in waits[q] => <<k, p>> \in waits'[q])
    BY <1>6 DEF Stamp, On, At, Goto, SaveMeta, Others
  <2> QED BY <2>1, <2>2, <2>3, <2>4 DEF Plain
<1>7. CASE Finish(r)
  <2>1. /\ \A q \in Request : q # r => req'[q] = req[q]
        /\ req'[r] = req[r] \/ (req[r].pc \notin Special /\ req'[r].pc \notin Special)
    BY <1>7, Paths DEF Finish, At, Wake, Goroutines, Goroutine
  <2>2. SameObjects
    BY <1>7, Paths DEF Finish, At, Wake, SameObjects, SameLeases, Objects, Object
  <2>3. live' = live /\ lock' = lock /\ path' = path /\ amiss \subseteq amiss'
    BY <1>7 DEF Finish, At, Wake, fileVars, history
  <2>4. \A q, p \in Request : \A k \in {"turn", "maint"} :
           p # r \/ req[r].pc \in Special => (<<k, p>> \in waits[q] => <<k, p>> \in waits'[q])
    BY <1>7 DEF Finish, At, Wake, Others
  <2> QED BY <2>1, <2>2, <2>3, <2>4 DEF Plain
<1>8. CASE TurnReturns(r)
  <2>1. /\ \A q \in Request : q # r => req'[q] = req[q]
        /\ req'[r] = req[r] \/ (req[r].pc \notin Special /\ req'[r].pc \notin Special)
    BY <1>8, Paths DEF TurnReturns, At, Goroutines, Goroutine
  <2>2. SameObjects
    BY <1>8, Paths DEF TurnReturns, At, SameObjects, SameLeases, Objects, Object
  <2>3. live' = live /\ lock' = lock /\ path' = path /\ amiss \subseteq amiss'
    BY <1>8 DEF TurnReturns, At, fileVars, history
  <2>4. \A q, p \in Request : \A k \in {"turn", "maint"} :
           p # r \/ req[r].pc \in Special => (<<k, p>> \in waits[q] => <<k, p>> \in waits'[q])
    BY <1>8 DEF TurnReturns, At, Others
  <2> QED BY <2>1, <2>2, <2>3, <2>4 DEF Plain
<1>9. CASE Cancel(r)
  <2>1. /\ \A q \in Request : q # r => req'[q] = req[q]
        /\ req'[r] = req[r] \/ (req[r].pc \notin Special /\ req'[r].pc \notin Special)
    BY <1>9, Paths DEF Cancel, Goroutines, Goroutine
  <2>2. SameObjects
    BY <1>9, Paths DEF Cancel, SameObjects, SameLeases, Objects, Object
  <2>3. live' = live /\ lock' = lock /\ path' = path /\ amiss \subseteq amiss'
    BY <1>9 DEF Cancel, fileVars, history
  <2>4. \A q, p \in Request : \A k \in {"turn", "maint"} :
           p # r \/ req[r].pc \in Special => (<<k, p>> \in waits[q] => <<k, p>> \in waits'[q])
    BY <1>9 DEF Cancel, Others
  <2> QED BY <2>1, <2>2, <2>3, <2>4 DEF Plain
<1>10. CASE Saved(r)
  <2>1. PICK p \in {"persist", "stamp", "build", "abandon", "assign", "redirect"} : Goto(r, p)
    BY <1>10, SaveMoves
  <2>2. req[r].pc = "save" /\ req[r].phase \in {"turn", "persist", "rebuild"}
    BY <1>10 DEF Saved, At, Shape, Located, Saves
  <2>3. PICK ok \in BOOLEAN, p1 \in {"persist", "stamp", "build", "abandon"} : Goto(r, p1)
    BY <1>10, <2>2, BackIs DEF Saved
  <2> QED BY <1>10, <2>2, <2>3, GotoMoves DEF Saved, Plain, SameObjects, SameLeases, fileVars,
             history
<1>11. CASE NotSaved(r)
  <2>1. PICK p \in {"persist", "stamp", "build", "abandon", "assign", "redirect"} : Goto(r, p)
    BY <1>11, SaveMoves
  <2>2. req[r].pc = "save" /\ req[r].phase \in {"turn", "persist", "rebuild"}
    BY <1>11 DEF NotSaved, At, Shape, Located, Saves
  <2>3. PICK ok \in BOOLEAN, p1 \in {"persist", "stamp", "build", "abandon"} : Goto(r, p1)
    BY <1>11, <2>2, BackIs DEF NotSaved
  <2> QED BY <1>11, <2>2, <2>3, GotoMoves DEF NotSaved, Plain, SameObjects, SameLeases,
             fileVars, history
<1>12. CASE SetConfig(r)
  <2>1. /\ \A q \in Request : q # r => req'[q] = req[q]
        /\ req'[r] = req[r] \/ (req[r].pc \notin Special /\ req'[r].pc \notin Special)
    <3>1. PICK c \in Config : req' = [req EXCEPT ![r].pc = "claim", ![r].on = live, ![r].want = c]
      BY <1>12 DEF SetConfig
    <3>2. /\ \A q \in Request : q # r => req'[q] = req[q]
          /\ req'[r].pc = "claim"
      BY <3>1 DEF Goroutines, Goroutine
    <3>3. req[r].pc = "idle"
      BY <1>12 DEF SetConfig, At
    <3> QED BY <3>2, <3>3
  <2>2. SameObjects
    BY <1>12, Paths DEF SetConfig, At, SameObjects, SameLeases, Objects, Object
  <2>3. live' = live /\ lock' = lock /\ path' = path /\ amiss \subseteq amiss'
    BY <1>12 DEF SetConfig, At, fileVars, history
  <2>4. \A q, p \in Request : \A k \in {"turn", "maint"} :
           p # r \/ req[r].pc \in Special => (<<k, p>> \in waits[q] => <<k, p>> \in waits'[q])
    BY <1>12 DEF SetConfig, At, Others
  <2> QED BY <2>1, <2>2, <2>3, <2>4 DEF Plain
<1>13. CASE ClaimRefused(r)
  <2>1. /\ \A q \in Request : q # r => req'[q] = req[q]
        /\ req'[r] = req[r] \/ (req[r].pc \notin Special /\ req'[r].pc \notin Special)
    BY <1>13, Paths DEF ClaimRefused, At, Fail, Goto, End, Unserved, Goroutines, Goroutine
  <2>2. SameObjects
    BY <1>13, Paths DEF ClaimRefused, At, Fail, Goto, End, Unserved, SameObjects, SameLeases,
       Objects, Object
  <2>3. live' = live /\ lock' = lock /\ path' = path /\ amiss \subseteq amiss'
    BY <1>13 DEF ClaimRefused, At, Fail, Goto, End, Unserved, fileVars, history
  <2>4. \A q, p \in Request : \A k \in {"turn", "maint"} :
           p # r \/ req[r].pc \in Special => (<<k, p>> \in waits[q] => <<k, p>> \in waits'[q])
    BY <1>13 DEF ClaimRefused, At, Fail, Goto, End, Unserved, Others
  <2> QED BY <2>1, <2>2, <2>3, <2>4 DEF Plain
<1>14. CASE Queue(r)
  <2>1. /\ \A q \in Request : q # r => req'[q] = req[q]
        /\ req'[r] = req[r] \/ (req[r].pc \notin Special /\ req'[r].pc \notin Special)
    BY <1>14, Paths DEF Queue, At, On, Chosen, End, Unserved, Busy, Goroutines, Goroutine
  <2>2. SameObjects
    BY <1>14, Paths DEF Queue, At, On, Chosen, End, Unserved, Busy, SameObjects, SameLeases,
       Objects, Object
  <2>3. live' = live /\ lock' = lock /\ path' = path /\ amiss \subseteq amiss'
    BY <1>14 DEF Queue, At, On, Chosen, End, Unserved, Busy, fileVars, history
  <2>4. \A q, p \in Request : \A k \in {"turn", "maint"} :
           p # r \/ req[r].pc \in Special => (<<k, p>> \in waits[q] => <<k, p>> \in waits'[q])
    BY <1>14 DEF Queue, At, On, Chosen, End, Unserved, Busy, Others
  <2> QED BY <2>1, <2>2, <2>3, <2>4 DEF Plain
<1>15. CASE Claim(r)
  <2>1. /\ \A q \in Request : q # r => req'[q] = req[q]
        /\ req'[r] = req[r] \/ (req[r].pc \notin Special /\ req'[r].pc \notin Special)
    BY <1>15, Paths DEF Claim, At, On, Busy, Chosen, Goroutines, Goroutine
  <2>2. SameObjects
    BY <1>15, Paths DEF Claim, At, On, Busy, Chosen, SameObjects, SameLeases, Objects, Object
  <2>3. live' = live /\ lock' = lock /\ path' = path /\ amiss \subseteq amiss'
    BY <1>15 DEF Claim, At, On, Busy, Chosen, fileVars, history
  <2>4. \A q, p \in Request : \A k \in {"turn", "maint"} :
           p # r \/ req[r].pc \in Special => (<<k, p>> \in waits[q] => <<k, p>> \in waits'[q])
    BY <1>15 DEF Claim, At, On, Busy, Chosen, Others
  <2> QED BY <2>1, <2>2, <2>3, <2>4 DEF Plain
<1>16. CASE BuildFails(r)
  <2>1. /\ \A q \in Request : q # r => req'[q] = req[q]
        /\ req'[r] = req[r] \/ (req[r].pc \notin Special /\ req'[r].pc \notin Special)
    BY <1>16, Paths DEF BuildFails, At, Goto, Goroutines, Goroutine
  <2>2. SameObjects
    BY <1>16, Paths DEF BuildFails, At, Goto, SameObjects, SameLeases, Objects, Object
  <2>3. live' = live /\ lock' = lock /\ path' = path /\ amiss \subseteq amiss'
    BY <1>16 DEF BuildFails, At, Goto, fileVars, history
  <2>4. \A q, p \in Request : \A k \in {"turn", "maint"} :
           p # r \/ req[r].pc \in Special => (<<k, p>> \in waits[q] => <<k, p>> \in waits'[q])
    BY <1>16 DEF BuildFails, At, Goto, Others
  <2> QED BY <2>1, <2>2, <2>3, <2>4 DEF Plain
<1>17. CASE Retire(r)
  <2>1. /\ \A q \in Request : q # r => req'[q] = req[q]
        /\ req'[r] = req[r] \/ (req[r].pc \notin Special /\ req'[r].pc \notin Special)
    BY <1>17, Paths DEF Retire, At, Goroutines, Goroutine
  <2>2. SameObjects
    BY <1>17, Paths DEF Retire, At, SameObjects, SameLeases, Objects, Object
  <2>3. live' = live /\ lock' = lock /\ path' = path /\ amiss \subseteq amiss'
    BY <1>17 DEF Retire, At, fileVars, history
  <2>4. \A q, p \in Request : \A k \in {"turn", "maint"} :
           p # r \/ req[r].pc \in Special => (<<k, p>> \in waits[q] => <<k, p>> \in waits'[q])
    BY <1>17 DEF Retire, At, Others
  <2> QED BY <2>1, <2>2, <2>3, <2>4 DEF Plain
<1>18. CASE Unwind(r)
  <2>1. /\ \A q \in Request : q # r => req'[q] = req[q]
        /\ req'[r] = req[r] \/ (req[r].pc \notin Special /\ req'[r].pc \notin Special)
    BY <1>18, Paths DEF Unwind, At, Wake, Goto, Goroutines, Goroutine
  <2>2. SameObjects
    BY <1>18, Paths DEF Unwind, At, Wake, Goto, SameObjects, SameLeases, Objects, Object
  <2>3. live' = live /\ lock' = lock /\ path' = path /\ amiss \subseteq amiss'
    BY <1>18 DEF Unwind, At, Wake, Goto, fileVars, history
  <2>4. \A q, p \in Request : \A k \in {"turn", "maint"} :
           p # r \/ req[r].pc \in Special => (<<k, p>> \in waits[q] => <<k, p>> \in waits'[q])
    BY <1>18 DEF Unwind, At, Wake, Goto, Others
  <2> QED BY <2>1, <2>2, <2>3, <2>4 DEF Plain
<1>19. CASE Abandon(r)
  <2>1. /\ \A q \in Request : q # r => req'[q] = req[q]
        /\ req'[r] = req[r] \/ (req[r].pc \notin Special /\ req'[r].pc \notin Special)
    BY <1>19, Paths DEF Abandon, At, Wake, On, Void, End, Unserved, Goroutines, Goroutine
  <2>2. SameObjects
    BY <1>19, Paths DEF Abandon, At, Wake, On, Void, End, Unserved, SameObjects, SameLeases,
       Objects, Object
  <2>3. live' = live /\ lock' = lock /\ path' = path /\ amiss \subseteq amiss'
    BY <1>19 DEF Abandon, At, Wake, On, Void, End, Unserved, fileVars, history
  <2>4. \A q, p \in Request : \A k \in {"turn", "maint"} :
           p # r \/ req[r].pc \in Special => (<<k, p>> \in waits[q] => <<k, p>> \in waits'[q])
    BY <1>19 DEF Abandon, At, Wake, On, Void, End, Unserved, Others
  <2> QED BY <2>1, <2>2, <2>3, <2>4 DEF Plain
<1>20. CASE Apply(r)
  <2>1. /\ \A q \in Request : q # r => req'[q] = req[q]
        /\ req'[r] = req[r] \/ (req[r].pc \notin Special /\ req'[r].pc \notin Special)
    BY <1>20, Paths DEF Apply, At, Goto, End, Unserved, Goroutines, Goroutine
  <2>2. SameObjects
    BY <1>20, Paths DEF Apply, At, Goto, End, Unserved, SameObjects, SameLeases, Objects, Object
  <2>3. live' = live /\ lock' = lock /\ path' = path /\ amiss \subseteq amiss'
    BY <1>20 DEF Apply, At, Goto, End, Unserved, fileVars, history
  <2>4. \A q, p \in Request : \A k \in {"turn", "maint"} :
           p # r \/ req[r].pc \in Special => (<<k, p>> \in waits[q] => <<k, p>> \in waits'[q])
    BY <1>20 DEF Apply, At, Goto, End, Unserved, Others
  <2> QED BY <2>1, <2>2, <2>3, <2>4 DEF Plain
<1>21. CASE Copy(r)
  <2>1. /\ \A q \in Request : q # r => req'[q] = req[q]
        /\ req'[r] = req[r] \/ (req[r].pc \notin Special /\ req'[r].pc \notin Special)
    BY <1>21, Paths DEF Copy, At, On, End, Unserved, Goroutines, Goroutine
  <2>2. SameObjects
    BY <1>21, Paths DEF Copy, At, On, End, Unserved, SameObjects, SameLeases, Objects, Object
  <2>3. live' = live /\ lock' = lock /\ path' = path /\ amiss \subseteq amiss'
    BY <1>21 DEF Copy, At, On, End, Unserved, fileVars, history
  <2>4. \A q, p \in Request : \A k \in {"turn", "maint"} :
           p # r \/ req[r].pc \in Special => (<<k, p>> \in waits[q] => <<k, p>> \in waits'[q])
    BY <1>21 DEF Copy, At, On, End, Unserved, Others
  <2> QED BY <2>1, <2>2, <2>3, <2>4 DEF Plain
<1>22. CASE Drop(r)
  <2>1. /\ \A q \in Request : q # r => req'[q] = req[q]
        /\ req'[r] = req[r] \/ (req[r].pc \notin Special /\ req'[r].pc \notin Special)
    BY <1>22, Paths DEF Drop, At, On, MayDrop, Void, End, Unserved, Busy, Goroutines, Goroutine
  <2>2. SameObjects
    BY <1>22, Paths DEF Drop, At, On, MayDrop, Void, End, Unserved, Busy, SameObjects,
       SameLeases, Objects, Object
  <2>3. live' = live /\ lock' = lock /\ path' = path /\ amiss \subseteq amiss'
    BY <1>22 DEF Drop, At, On, MayDrop, Void, End, Unserved, Busy, fileVars, history
  <2>4. \A q, p \in Request : \A k \in {"turn", "maint"} :
           p # r \/ req[r].pc \in Special => (<<k, p>> \in waits[q] => <<k, p>> \in waits'[q])
    BY <1>22 DEF Drop, At, On, MayDrop, Void, End, Unserved, Busy, Others
  <2> QED BY <2>1, <2>2, <2>3, <2>4 DEF Plain
<1> QED BY <1>1, <1>2, <1>3, <1>4, <1>5, <1>6, <1>7, <1>8, <1>9, <1>10, <1>11, <1>12, <1>13,
           <1>14, <1>15, <1>16, <1>17, <1>18, <1>19, <1>20, <1>21, <1>22

LEMMA PlainFiles ==
  ASSUME NEW r \in Request,
         \/ Prompt(r) \/ Begin(r) \/ BeginRefused(r) \/ Enter(r) \/ Persist(r) \/ Finish(r)
         \/ TurnReturns(r) \/ Cancel(r) \/ NotSaved(r) \/ SetConfig(r) \/ ClaimRefused(r) \/ Queue(r)
         \/ Claim(r) \/ BuildFails(r) \/ Retire(r) \/ Unwind(r) \/ Abandon(r) \/ Apply(r)
         \/ Copy(r) \/ Drop(r)
  PROVE  SameFiles
<1>1. CASE Prompt(r)
  BY <1>1 DEF Prompt, SameFiles, fileVars, history
<1>2. CASE Begin(r)
  BY <1>2 DEF Begin, SameFiles, fileVars, history
<1>3. CASE BeginRefused(r)
  BY <1>3 DEF BeginRefused, SameFiles, fileVars, history
<1>4. CASE Enter(r)
  BY <1>4 DEF Enter, SameFiles, fileVars, history
<1>5. CASE Persist(r)
  BY <1>5 DEF Persist, SameFiles, fileVars, history
<1>6. CASE Finish(r)
  BY <1>6 DEF Finish, SameFiles, fileVars, history
<1>7. CASE TurnReturns(r)
  BY <1>7 DEF TurnReturns, SameFiles, fileVars, history
<1>8. CASE Cancel(r)
  BY <1>8 DEF Cancel, SameFiles, fileVars, history
<1>9. CASE NotSaved(r)
  BY <1>9 DEF NotSaved, SameFiles, fileVars, history
<1>10. CASE SetConfig(r)
  BY <1>10 DEF SetConfig, SameFiles, fileVars, history
<1>11. CASE ClaimRefused(r)
  BY <1>11 DEF ClaimRefused, SameFiles, fileVars, history
<1>12. CASE Queue(r)
  BY <1>12 DEF Queue, SameFiles, fileVars, history
<1>13. CASE Claim(r)
  BY <1>13 DEF Claim, SameFiles, fileVars, history
<1>14. CASE BuildFails(r)
  BY <1>14 DEF BuildFails, SameFiles, fileVars, history
<1>15. CASE Retire(r)
  BY <1>15 DEF Retire, SameFiles, fileVars, history
<1>16. CASE Unwind(r)
  BY <1>16 DEF Unwind, SameFiles, fileVars, history
<1>17. CASE Abandon(r)
  BY <1>17 DEF Abandon, SameFiles, fileVars, history
<1>18. CASE Apply(r)
  BY <1>18 DEF Apply, SameFiles, fileVars, history
<1>19. CASE Copy(r)
  BY <1>19 DEF Copy, SameFiles, fileVars, history
<1>20. CASE Drop(r)
  BY <1>20 DEF Drop, SameFiles, fileVars, history
<1> QED BY <1>1, <1>2, <1>3, <1>4, <1>5, <1>6, <1>7, <1>8, <1>9, <1>10, <1>11, <1>12, <1>13,
           <1>14, <1>15, <1>16, <1>17, <1>18, <1>19, <1>20

LEMMA BuildDoes ==
  ASSUME Goroutines, Objects, Others, Shape, NEW r \in Request, Build(r)
  PROVE  /\ \A q \in Request : q # r => req'[q] = req[q]
         /\ req[r].pc = "build" /\ req'[r].pc = "swap"
         /\ req'[r].on = req[r].on /\ req'[r].ctrl = req[r].ctrl
         /\ req[r].on \in Session
         /\ SameObjects
         /\ SameFiles
         /\ UNCHANGED <<live, lock, waits, amiss>>
         /\ req'[r].next \in Ctrl /\ path'[req'[r].next] = path[req[r].ctrl]
         /\ \A c \in Ctrl : c # req'[r].next => path'[c] = path[c]
         /\ \A s \in Session : sess[s].ctrl # req'[r].next
         /\ \A q \in Request : req[q].next # req'[r].next
<1>1. /\ \A q \in Request : q # r => req'[q] = req[q]
      /\ req[r].pc = "build" /\ req'[r].pc = "swap"
      /\ req'[r].on = req[r].on /\ req'[r].ctrl = req[r].ctrl
      /\ req[r].on \in Session
      /\ SameFiles
      /\ UNCHANGED <<live, lock, waits, amiss>>
      /\ req'[r].next \in Ctrl /\ path'[req'[r].next] = path[req[r].ctrl]
      /\ \A c \in Ctrl : c # req'[r].next => path'[c] = path[c]
      /\ \A s \in Session : sess[s].ctrl # req'[r].next
      /\ \A q \in Request : req[q].next # req'[r].next
  BY Paths DEF Build, At, FreeCtrls, SameFiles, fileVars, history, Shape, Located, Detached,
     Moves, Saves, Goroutines, Goroutine, Objects, Object, Others
<1>2. SameObjects
  BY DEF Build, At, FreeCtrls, SameFiles, fileVars, history, SameObjects, SameLeases, Objects,
     Object
<1> QED BY <1>1, <1>2

LEMMA SwapDoes ==
  ASSUME Goroutines, Objects, Others, Shape, NEW r \in Request, Swap(r)
  PROVE  /\ \A q \in Request : q # r => req'[q] = req[q]
         /\ req[r].pc = "swap" /\ req'[r].pc = "retire"
         /\ req[r].on \in Session
         /\ sess'[req[r].on].ctrl = req[r].next /\ req[r].next \in Ctrl
         /\ \A s \in Session : s # req[r].on => sess'[s].ctrl = sess[s].ctrl
         /\ SameLeases
         /\ UNCHANGED <<live, lock, path, waits, disk, cleanup, home, gone, amiss>>
         /\ \/ UNCHANGED <<metas, redirect>>
            \/ sess[req[r].on].transcript \in disk /\ SaveMeta(sess[req[r].on].transcript)
<1>1. /\ \A q \in Request : q # r => req'[q] = req[q]
      /\ req[r].pc = "swap" /\ req'[r].pc = "retire"
      /\ req[r].on \in Session
      /\ sess'[req[r].on].ctrl = req[r].next /\ req[r].next \in Ctrl
      /\ \A s \in Session : s # req[r].on => sess'[s].ctrl = sess[s].ctrl
      /\ UNCHANGED <<live, lock, path, waits, disk, cleanup, home, gone, amiss>>
      /\ \/ UNCHANGED <<metas, redirect>>
         \/ sess[req[r].on].transcript \in disk /\ SaveMeta(sess[req[r].on].transcript)
  BY Paths DEF Swap, At, On, SameFiles, fileVars, history, Shape, Located, Detached, Moves,
     Saves, Goroutines, Goroutine, Objects, Object, Others
<1>2. SameLeases
  BY DEF Swap, At, On, SameFiles, fileVars, history, SameObjects, SameLeases, Objects, Object
<1> QED BY <1>1, <1>2

LEMMA SwapRefusedDoes ==
  ASSUME Goroutines, Objects, Others, Shape, NEW r \in Request, SwapRefused(r)
  PROVE  /\ \A q \in Request : q # r => req'[q] = req[q]
         /\ req[r].pc = "swap" /\ req'[r].pc = "abandon"
         /\ SameObjects
         /\ SameFiles
         /\ UNCHANGED <<live, lock, path, waits, amiss>>
<1>1. /\ \A q \in Request : q # r => req'[q] = req[q]
      /\ req[r].pc = "swap" /\ req'[r].pc = "abandon"
      /\ SameFiles
      /\ UNCHANGED <<live, lock, path, waits, amiss>>
  BY Paths DEF SwapRefused, At, On, SameFiles, fileVars, history, Shape, Located, Detached,
     Moves, Saves, Goroutines, Goroutine, Objects, Object, Others
<1>2. SameObjects
  BY DEF SwapRefused, At, On, SameFiles, fileVars, history, SameObjects, SameLeases, Objects,
     Object
<1> QED BY <1>1, <1>2

LEMMA RecoverDoes ==
  ASSUME Goroutines, Objects, Others, Shape, NEW r \in Request, Recover(r)
  PROVE  /\ \A q \in Request : q # r => req'[q] = req[q]
         /\ req[r].pc = "save" /\ req'[r].pc = "follow"
         /\ req'[r].on = req[r].on /\ req'[r].phase = req[r].phase /\ req'[r].to = req[r].to
         /\ req'[r].ctrl = req[r].ctrl
         /\ req[r].on \in Session
         /\ req'[r].at \in Branch /\ disk' = disk \cup {req'[r].at}
         /\ SameObjects
         /\ UNCHANGED <<live, lock, path, waits, metas, redirect, cleanup, home, gone, amiss>>
<1>1. PICK q \in Branch : /\ disk' = disk \cup {q}
                          /\ req' = [req EXCEPT ![r].pc = "follow", ![r].at = q]
  BY DEF Recover
<1>2. req[r].pc = "save" /\ req[r].on \in Session
  BY DEF Recover, At, Shape, Located, Detached, Goroutines, Goroutine
<1>3. /\ \A p \in Request : p # r => req'[p] = req[p]
      /\ req'[r].pc = "follow" /\ req'[r].on = req[r].on /\ req'[r].phase = req[r].phase
      /\ req'[r].to = req[r].to /\ req'[r].ctrl = req[r].ctrl /\ req'[r].at = q
  BY <1>1 DEF Goroutines, Goroutine
<1> QED BY <1>1, <1>2, <1>3 DEF Recover, SameObjects, SameLeases, history

LEMMA FollowDoes ==
  ASSUME Goroutines, Objects, Others, Shape, NEW r \in Request, Follow(r)
  PROVE  /\ \A q \in Request : q # r => req'[q] = req[q]
         /\ req[r].pc = "follow" /\ req'[r].pc \in {"commit", "secure"}
         /\ req'[r].on = req[r].on /\ req'[r].at = req[r].at /\ req'[r].phase = req[r].phase
         /\ req'[r].ctrl = req[r].ctrl
         /\ req[r].on \in Session
         /\ req'[r].to = live
         /\ req'[r].pc = "secure" <=> live # None
         /\ SameObjects
         /\ SameFiles
         /\ UNCHANGED <<live, lock, path, waits>>
         /\ amiss \subseteq amiss'
         /\ "unfollowed" \in amiss' \/ live = req[r].on
<1>1. /\ \A q \in Request : q # r => req'[q] = req[q]
      /\ req[r].pc = "follow" /\ req'[r].pc \in {"commit", "secure"}
      /\ req'[r].on = req[r].on /\ req'[r].at = req[r].at /\ req'[r].phase = req[r].phase
      /\ req'[r].ctrl = req[r].ctrl
      /\ req[r].on \in Session
      /\ req'[r].to = live
      /\ req'[r].pc = "secure" <=> live # None
      /\ SameFiles
      /\ UNCHANGED <<live, lock, path, waits>>
      /\ amiss \subseteq amiss'
      /\ "unfollowed" \in amiss' \/ live = req[r].on
  BY Paths DEF Follow, At, SameFiles, fileVars, history, Shape, Located, Detached, Moves, Saves,
     Goroutines, Goroutine, Objects, Object, Others
<1>2. SameObjects
  BY DEF Follow, At, SameFiles, fileVars, history, SameObjects, SameLeases, Objects, Object
<1> QED BY <1>1, <1>2

LEMMA SecureDoes ==
  ASSUME Goroutines, Objects, Others, Shape, NEW r \in Request, Secure(r)
  PROVE  /\ \A q \in Request : q # r => req'[q] = req[q]
         /\ req[r].pc = "secure"
         /\ req'[r].on = req[r].on /\ req'[r].at = req[r].at /\ req'[r].to = req[r].to
         /\ req'[r].phase = req[r].phase /\ req'[r].ctrl = req[r].ctrl
         /\ req[r].on \in Session /\ req[r].to \in Session /\ req[r].at \in Branch
         /\ \/ req'[r].pc = "assign" /\ lock' = [lock EXCEPT ![req[r].at] = "ours"]
            \/ req'[r].pc \in {"persist", "stamp", "build", "abandon"} /\ lock' = lock
         /\ SameObjects
         /\ SameFiles
         /\ UNCHANGED <<live, path, waits, amiss>>
<1>1. req[r].pc = "secure" /\ req[r].phase \in {"turn", "persist", "rebuild"}
  BY DEF Secure, At, Shape, Located, Saves
<1>2. /\ req[r].on \in Session /\ req[r].at \in Branch
      /\ req[r].pc = "secure" => req[r].to \in Session
      /\ req[r].pc = "commit" => req[r].ctrl \in Ctrl
  BY <1>1, Paths DEF Shape, Located, Detached, Moves, Saves, Goroutines, Goroutine
<1>3. SameObjects
  BY DEF Secure, SameObjects, SameLeases
<1>4. ASSUME NEW ok \in BOOLEAN, Back(r, ok)
      PROVE  \E p \in {"persist", "stamp", "build", "abandon"} : Goto(r, p)
  BY <1>1, <1>4, BackIs
<1> QED BY <1>1, <1>2, <1>3, <1>4, GotoMoves DEF Secure, SameFiles, fileVars, history

LEMMA AssignDoes ==
  ASSUME Goroutines, Objects, Others, Shape, NEW r \in Request, Assign(r)
  PROVE  /\ \A q \in Request : q # r => req'[q] = req[q]
         /\ req[r].pc = "assign"
         /\ req'[r].on = req[r].on /\ req'[r].at = req[r].at /\ req'[r].to = req[r].to
         /\ req'[r].phase = req[r].phase /\ req'[r].ctrl = req[r].ctrl
         /\ req[r].on \in Session /\ req[r].to \in Session /\ req[r].at \in Branch
         /\ \/ /\ req'[r].pc \in {"persist", "stamp", "build", "abandon"}
               /\ Unlock(req[r].at) /\ SameObjects /\ sess[req[r].to].deleted
            \/ /\ req'[r].pc = "redirect"
               /\ sess'[req[r].to].lease = req[r].at /\ sess'[req[r].to].transcript = req[r].at
               /\ \A s \in Session : s # req[r].to => sess'[s] = sess[s]
               /\ \A s \in Session : sess'[s].ctrl = sess[s].ctrl
               /\ Unlock(sess[req[r].to].lease)
         /\ SameFiles
         /\ UNCHANGED <<live, path, waits>>
         /\ amiss \subseteq amiss'
         /\ "left" \in amiss' \/ sess[req[r].to].transcript = Main
<1>1. req[r].pc = "assign" /\ req[r].phase \in {"turn", "persist", "rebuild"}
  BY DEF Assign, At, Shape, Located, Saves
<1>2. req[r].on \in Session /\ req[r].at \in Branch /\ req[r].to \in Session
  BY <1>1, Paths DEF Shape, Located, Detached, Moves, Goroutines, Goroutine
<1>3. /\ amiss \subseteq amiss'
      /\ "left" \in amiss' \/ sess[req[r].to].transcript = Main
  BY <1>2, Paths DEF Assign, Objects, Object
<1>4. SameFiles /\ UNCHANGED <<live, path, waits>>
  BY DEF Assign, SameFiles
<1>5. ASSUME Back(r, FALSE)
      PROVE  \E p \in {"persist", "stamp", "build", "abandon"} : Goto(r, p)
  BY <1>1, <1>5, BackIs
<1>6. CASE sess[req[r].to].deleted
  <2>1. Unlock(req[r].at) /\ Back(r, FALSE) /\ sess' = sess
    BY <1>6 DEF Assign
  <2>2. SameObjects
    BY <2>1 DEF SameObjects, SameLeases
  <2> QED BY <1>1, <1>2, <1>3, <1>4, <1>5, <1>6, <2>1, <2>2, GotoMoves
<1>7. CASE ~sess[req[r].to].deleted
  <2>1. MoveTo(req[r].to, req[r].at) /\ Unlock(sess[req[r].to].lease) /\ Goto(r, "redirect")
    BY <1>7 DEF Assign
  <2>2. /\ sess'[req[r].to].lease = req[r].at /\ sess'[req[r].to].transcript = req[r].at
        /\ \A s \in Session : s # req[r].to => sess'[s] = sess[s]
        /\ \A s \in Session : sess'[s].ctrl = sess[s].ctrl
    BY <1>2, <2>1 DEF MoveTo, Objects, Object
  <2> QED BY <1>1, <1>2, <1>3, <1>4, <2>1, <2>2, GotoMoves
<1> QED BY <1>6, <1>7

LEMMA RedirectDoes ==
  ASSUME Goroutines, Objects, Others, Shape, NEW r \in Request, Redirect(r)
  PROVE  /\ \A q \in Request : q # r => req'[q] = req[q]
         /\ req[r].pc = "redirect" /\ req'[r].pc = "commit"
         /\ req'[r].on = req[r].on /\ req'[r].at = req[r].at /\ req'[r].to = req[r].to
         /\ req'[r].phase = req[r].phase /\ req'[r].ctrl = req[r].ctrl
         /\ req[r].on \in Session /\ req[r].at \in Branch
         /\ SameObjects
         /\ UNCHANGED <<live, lock, path, waits, disk, cleanup, gone, amiss>>
         /\ metas' = metas \cup {req[r].at, Main} /\ redirect' = req[r].at /\ home' = req[r].at
<1>1. /\ \A q \in Request : q # r => req'[q] = req[q]
      /\ req[r].pc = "redirect" /\ req'[r].pc = "commit"
      /\ req'[r].on = req[r].on /\ req'[r].at = req[r].at /\ req'[r].to = req[r].to
      /\ req'[r].phase = req[r].phase /\ req'[r].ctrl = req[r].ctrl
      /\ req[r].on \in Session /\ req[r].at \in Branch
      /\ UNCHANGED <<live, lock, path, waits, disk, cleanup, gone, amiss>>
      /\ metas' = metas \cup {req[r].at, Main} /\ redirect' = req[r].at /\ home' = req[r].at
  BY Paths DEF Redirect, At, RedirectTo, Goto, SameFiles, fileVars, history, Shape, Located,
     Detached, Moves, Saves, Goroutines, Goroutine, Objects, Object, Others
<1>2. SameObjects
  BY DEF Redirect, At, RedirectTo, Goto, SameFiles, fileVars, history, SameObjects, SameLeases,
     Objects, Object
<1> QED BY <1>1, <1>2

LEMMA CommitDoes ==
  ASSUME Goroutines, Objects, Others, Shape, NEW r \in Request, Commit(r)
  PROVE  /\ \A q \in Request : q # r => req'[q] = req[q]
         /\ req[r].pc = "commit" /\ req'[r].pc \in {"persist", "stamp", "build", "abandon"}
         /\ req'[r].on = req[r].on /\ req'[r].at = req[r].at /\ req'[r].to = req[r].to
         /\ req'[r].phase = req[r].phase /\ req'[r].ctrl = req[r].ctrl
         /\ req[r].on \in Session /\ req[r].ctrl \in Ctrl
         /\ SameObjects
         /\ UNCHANGED <<live, lock, waits, disk, metas, redirect, cleanup, gone, amiss>>
         /\ path' = [path EXCEPT ![req[r].ctrl] = req[r].at] /\ home' = req[r].at
<1>1. req[r].pc = "commit" /\ req[r].phase \in {"turn", "persist", "rebuild"}
  BY DEF Commit, At, Shape, Located, Saves
<1>2. /\ req[r].on \in Session /\ req[r].at \in Branch
      /\ req[r].pc = "secure" => req[r].to \in Session
      /\ req[r].pc = "commit" => req[r].ctrl \in Ctrl
  BY <1>1, Paths DEF Shape, Located, Detached, Moves, Saves, Goroutines, Goroutine
<1>3. SameObjects
  BY DEF Commit, SameObjects, SameLeases
<1>4. ASSUME NEW ok \in BOOLEAN, Back(r, ok)
      PROVE  \E p \in {"persist", "stamp", "build", "abandon"} : Goto(r, p)
  BY <1>1, <1>4, BackIs
<1> QED BY <1>1, <1>2, <1>3, <1>4, GotoMoves DEF Commit, SameFiles, fileVars, history

LEMMA TakeDoes ==
  ASSUME Goroutines, Objects, Others, Shape, NEW r \in Request, Take(r)
  PROVE  /\ \A q \in Request : q # r => req'[q] = req[q]
         /\ req[r].pc = "idle" /\ req'[r].pc = "abort"
         /\ live \in Session /\ live # None /\ live' = None /\ req'[r].on = live
         /\ SameObjects
         /\ SameFiles
         /\ UNCHANGED <<lock, path, waits, amiss>>
<1>1. /\ \A q \in Request : q # r => req'[q] = req[q]
      /\ req[r].pc = "idle" /\ req'[r].pc = "abort"
      /\ live \in Session /\ live # None /\ live' = None /\ req'[r].on = live
      /\ SameFiles
      /\ UNCHANGED <<lock, path, waits, amiss>>
  BY Paths DEF Take, At, SameFiles, fileVars, history, Shape, Located, Detached, Moves, Saves,
     Goroutines, Goroutine, Objects, Object, Others
<1>2. SameObjects
  BY DEF Take, At, SameFiles, fileVars, history, SameObjects, SameLeases, Objects, Object
<1> QED BY <1>1, <1>2

LEMMA AbortDoes ==
  ASSUME Goroutines, Objects, Others, Shape, NEW r \in Request, Abort(r)
  PROVE  /\ \A q \in Request : q # r => req'[q] = req[q]
         /\ req[r].pc = "abort" /\ req'[r].pc = "wait"
         /\ req'[r].on = req[r].on /\ req'[r].phase = req[r].phase
         /\ req[r].on \in Session
         /\ SameObjects
         /\ SameFiles
         /\ UNCHANGED <<live, lock, path, amiss>>
         /\ \A q \in Request : q # r => waits'[q] = waits[q]
         /\ sess[req[r].on].turn # None => <<"turn", sess[req[r].on].turn>> \in waits'[r]
         /\ sess[req[r].on].maint # None => <<"maint", sess[req[r].on].maint>> \in waits'[r]
<1>1. req[r].pc = "abort" /\ req[r].on \in Session /\ Goto(r, "wait")
       /\ waits' = [waits EXCEPT ![r] = Awaited(On(r))]
  BY DEF Abort, At, Shape, Located, Detached, Goroutines, Goroutine
<1>2. (\A q \in Request : q # r => waits'[q] = waits[q]) /\ waits'[r] = Awaited(On(r))
  BY <1>1 DEF Others
<1>3. /\ sess[req[r].on].turn # None => <<"turn", sess[req[r].on].turn>> \in waits'[r]
      /\ sess[req[r].on].maint # None => <<"maint", sess[req[r].on].maint>> \in waits'[r]
  BY <1>2 DEF Awaited, On
<1>4. SameObjects
  BY <1>1 DEF Abort, SameObjects, SameLeases, Objects, Object
<1> QED BY <1>1, <1>2, <1>3, <1>4, GotoMoves DEF Abort, SameFiles, fileVars, history

LEMMA WaitedDoes ==
  ASSUME Goroutines, Objects, Others, Shape, NEW r \in Request, Waited(r)
  PROVE  /\ \A q \in Request : q # r => req'[q] = req[q]
         /\ req[r].pc = "wait" /\ req'[r].pc \in {"shut", "release"}
         /\ req'[r].on = req[r].on
         /\ waits[r] = {}
         /\ SameObjects
         /\ SameFiles
         /\ UNCHANGED <<live, lock, path, waits, amiss>>
<1>1. /\ \A q \in Request : q # r => req'[q] = req[q]
      /\ req[r].pc = "wait" /\ req'[r].pc \in {"shut", "release"}
      /\ req'[r].on = req[r].on
      /\ waits[r] = {}
      /\ SameFiles
      /\ UNCHANGED <<live, lock, path, waits, amiss>>
  BY Paths DEF Waited, At, Goto, SameFiles, fileVars, history, Shape, Located, Detached, Moves,
     Saves, Goroutines, Goroutine, Objects, Object, Others
<1>2. SameObjects
  BY DEF Waited, At, Goto, SameFiles, fileVars, history, SameObjects, SameLeases, Objects,
     Object
<1> QED BY <1>1, <1>2

LEMMA ShutDoes ==
  ASSUME Goroutines, Objects, Others, Shape, NEW r \in Request, Shut(r)
  PROVE  /\ \A q \in Request : q # r => req'[q] = req[q]
         /\ req[r].pc = "shut" /\ req'[r].pc = "release"
         /\ req'[r].on = req[r].on
         /\ SameObjects
         /\ SameFiles
         /\ UNCHANGED <<live, lock, path, waits, amiss>>
<1>1. /\ \A q \in Request : q # r => req'[q] = req[q]
      /\ req[r].pc = "shut" /\ req'[r].pc = "release"
      /\ req'[r].on = req[r].on
      /\ SameFiles
      /\ UNCHANGED <<live, lock, path, waits, amiss>>
  BY Paths DEF Shut, At, On, Goto, SameFiles, fileVars, history, Shape, Located, Detached,
     Moves, Saves, Goroutines, Goroutine, Objects, Object, Others
<1>2. SameObjects
  BY DEF Shut, At, On, Goto, SameFiles, fileVars, history, SameObjects, SameLeases, Objects,
     Object
<1> QED BY <1>1, <1>2

LEMMA ReleaseDoes ==
  ASSUME Goroutines, Objects, Others, Shape, NEW r \in Request, Release(r)
  PROVE  /\ \A q \in Request : q # r => req'[q] = req[q]
         /\ req[r].pc = "release" /\ req'[r].pc \in {"done", "destroy"}
         /\ req'[r].pc = "destroy" => req'[r].on = req[r].on
         /\ req[r].on \in Session
         /\ sess'[req[r].on].lease = None
         /\ sess'[req[r].on].transcript = sess[req[r].on].transcript
         /\ \A s \in Session : s # req[r].on =>
               sess'[s].lease = sess[s].lease /\ sess'[s].transcript = sess[s].transcript
         /\ \A s \in Session : sess'[s].ctrl = sess[s].ctrl
         /\ Unlock(sess[req[r].on].lease)
         /\ SameFiles
         /\ UNCHANGED <<live, path, waits, amiss>>
<1>1. /\ \A q \in Request : q # r => req'[q] = req[q]
      /\ req[r].pc = "release" /\ req'[r].pc \in {"done", "destroy"}
      /\ req'[r].pc = "destroy" => req'[r].on = req[r].on
      /\ req[r].on \in Session
      /\ sess'[req[r].on].lease = None
      /\ sess'[req[r].on].transcript = sess[req[r].on].transcript
      /\ \A s \in Session : s # req[r].on =>
            sess'[s].lease = sess[s].lease /\ sess'[s].transcript = sess[s].transcript
      /\ \A s \in Session : sess'[s].ctrl = sess[s].ctrl
      /\ Unlock(sess[req[r].on].lease)
      /\ SameFiles
      /\ UNCHANGED <<live, path, waits, amiss>>
  BY Paths DEF Release, At, On, Goto, End, Unserved, SameFiles, fileVars, history, Shape,
     Located, Detached, Moves, Saves, Goroutines, Goroutine, Objects, Object, Others
<1> QED BY <1>1

LEMMA DestroyDoes ==
  ASSUME Goroutines, Objects, Others, Shape, NEW r \in Request, Destroy(r)
  PROVE  /\ \A q \in Request : q # r => req'[q] = req[q]
         /\ req[r].pc = "destroy"
         /\ req'[r].on = req[r].on
         /\ req[r].on \in Session
         /\ req'[r].at = sess[req[r].on].transcript
         /\ \/ req'[r].pc \in {"erase", "linger"} /\ cleanup' = cleanup
            \/ req'[r].pc = "twin" /\ req'[r].via /\ cleanup' = cleanup \cup {req'[r].at}
         /\ SameObjects
         /\ UNCHANGED <<live, lock, path, waits, disk, metas, redirect, home, gone, amiss>>
<1>1. req[r].pc = "destroy" /\ req[r].on \in Session
  BY DEF Destroy, At, Shape, Located, Detached, Goroutines, Goroutine
<1>2. /\ \A q \in Request : q # r => req'[q] = req[q]
      /\ req'[r].on = req[r].on /\ req'[r].at = sess[req[r].on].transcript
      /\ \/ req'[r].pc \in {"erase", "linger"} /\ cleanup' = cleanup
         \/ req'[r].pc = "twin" /\ req'[r].via /\ cleanup' = cleanup \cup {req'[r].at}
  <2>1. CASE req' = [req EXCEPT ![r].pc = "erase", ![r].at = On(r).transcript] /\ UNCHANGED cleanup
    BY <2>1 DEF On, Goroutines, Goroutine
  <2>2. CASE /\ req' = [req EXCEPT ![r].pc = "twin", ![r].at = On(r).transcript, ![r].via = TRUE]
             /\ cleanup' = cleanup \cup {On(r).transcript}
    BY <2>2 DEF On, Goroutines, Goroutine
  <2>3. CASE req' = [req EXCEPT ![r].pc = "linger", ![r].at = On(r).transcript] /\ UNCHANGED cleanup
    BY <2>3 DEF On, Goroutines, Goroutine
  <2> QED BY <2>1, <2>2, <2>3 DEF Destroy
<1> QED BY <1>1, <1>2 DEF Destroy, SameObjects, SameLeases, history

LEMMA DeleteClosedDoes ==
  ASSUME Goroutines, Objects, Others, Shape, NEW r \in Request, DeleteClosed(r)
  PROVE  /\ \A q \in Request : q # r => req'[q] = req[q]
         /\ req[r].pc = "idle" /\ req'[r].pc = "erase"
         /\ req'[r].at = Resolve /\ live = None
         /\ SameObjects
         /\ SameFiles
         /\ UNCHANGED <<live, lock, path, waits>>
         /\ amiss \subseteq amiss'
         /\ "raced" \in amiss' \/ \A q \in Request : q # r => req[q].pc \in {"idle", "done", "linger"}
<1>1. req[r].pc = "idle" /\ live = None /\ req' = [req EXCEPT ![r].pc = "erase", ![r].at = Resolve]
  BY DEF DeleteClosed, At
<1>2. /\ \A q \in Request : q # r => req'[q] = req[q]
      /\ req'[r].pc = "erase" /\ req'[r].at = Resolve
  BY <1>1 DEF Goroutines, Goroutine
<1>3. amiss \subseteq amiss'
  BY DEF DeleteClosed, Race
<1>4. "raced" \in amiss' \/ \A q \in Request : q # r => req[q].pc \in {"idle", "done", "linger"}
  <2>1. CASE Overlap(r, Pc \ {"idle", "done", "linger"})
    BY <2>1 DEF DeleteClosed, Race
  <2>2. CASE ~Overlap(r, Pc \ {"idle", "done", "linger"})
    BY <2>2 DEF Overlap, Goroutines, Goroutine
  <2> QED BY <2>1, <2>2
<1> QED BY <1>1, <1>2, <1>3, <1>4 DEF DeleteClosed, SameObjects, SameLeases, SameFiles, fileVars

LEMMA EraseDoes ==
  ASSUME Goroutines, Objects, Others, Shape, NEW r \in Request, Erase(r)
  PROVE  /\ \A q \in Request : q # r => req'[q] = req[q]
         /\ req[r].pc = "erase" /\ req'[r].pc = "twin"
         /\ req'[r].at = req[r].at /\ req'[r].via = req[r].via
         /\ Remove(req[r].at)
         /\ SameObjects
         /\ UNCHANGED <<live, lock, path, waits, gone, amiss>>
<1>1. /\ \A q \in Request : q # r => req'[q] = req[q]
      /\ req[r].pc = "erase" /\ req'[r].pc = "twin"
      /\ req'[r].at = req[r].at /\ req'[r].via = req[r].via
      /\ Remove(req[r].at)
      /\ UNCHANGED <<live, lock, path, waits, gone, amiss>>
  BY Paths DEF Erase, At, Goto, SameFiles, fileVars, history, Shape, Located, Detached, Moves,
     Saves, Goroutines, Goroutine, Objects, Object, Others
<1>2. SameObjects
  BY DEF Erase, At, Goto, SameFiles, fileVars, history, SameObjects, SameLeases, Objects, Object
<1> QED BY <1>1, <1>2

LEMMA TwinDoes ==
  ASSUME Goroutines, Objects, Others, Shape, NEW r \in Request, Twin(r)
  PROVE  /\ \A q \in Request : q # r => req'[q] = req[q]
         /\ req[r].pc = "twin" /\ req'[r].pc \in {"linger", "done"}
         /\ req'[r].pc = "linger" <=> req[r].via
         /\ req[r].via => req'[r].at = req[r].at /\ req'[r].via = req[r].via
         /\ RemoveTwin(req[r].at) /\ gone' = TRUE
         /\ SameObjects
         /\ UNCHANGED <<live, lock, path, waits, amiss>>
<1>1. /\ \A q \in Request : q # r => req'[q] = req[q]
      /\ req[r].pc = "twin" /\ req'[r].pc \in {"linger", "done"}
      /\ req'[r].pc = "linger" <=> req[r].via
      /\ req[r].via => req'[r].at = req[r].at /\ req'[r].via = req[r].via
      /\ RemoveTwin(req[r].at) /\ gone' = TRUE
      /\ UNCHANGED <<live, lock, path, waits, amiss>>
  BY Paths DEF Twin, At, Goto, End, Unserved, SameFiles, fileVars, history, Shape, Located,
     Detached, Moves, Saves, Goroutines, Goroutine, Objects, Object, Others
<1>2. SameObjects
  BY DEF Twin, At, Goto, End, Unserved, SameFiles, fileVars, history, SameObjects, SameLeases,
     Objects, Object
<1> QED BY <1>1, <1>2

LEMMA LingerDoes ==
  ASSUME Goroutines, Objects, Others, Shape, NEW r \in Request, Linger(r)
  PROVE  /\ \A q \in Request : q # r => req'[q] = req[q]
         /\ req[r].pc = "linger" /\ req'[r].pc = "done"
         /\ Remove(req[r].at)
         /\ SameObjects
         /\ UNCHANGED <<live, lock, path, waits, gone, amiss>>
<1>1. /\ \A q \in Request : q # r => req'[q] = req[q]
      /\ req[r].pc = "linger" /\ req'[r].pc = "done"
      /\ Remove(req[r].at)
      /\ UNCHANGED <<live, lock, path, waits, gone, amiss>>
  BY Paths DEF Linger, At, End, Unserved, SameFiles, fileVars, history, Shape, Located,
     Detached, Moves, Saves, Goroutines, Goroutine, Objects, Object, Others
<1>2. SameObjects
  BY DEF Linger, At, End, Unserved, SameFiles, fileVars, history, SameObjects, SameLeases,
     Objects, Object
<1> QED BY <1>1, <1>2

LEMMA LoadDoes ==
  ASSUME Goroutines, Objects, Others, Shape, NEW r \in Request, Load(r)
  PROVE  /\ \A q \in Request : q # r => req'[q] = req[q]
         /\ req[r].pc = "idle" /\ req'[r].pc = "resolve"
         /\ req'[r].on \in Session /\ sess[req'[r].on].ctrl = None
         /\ \A q \in Request : req[q].on # req'[r].on
         /\ live = None
         /\ req'[r].at = Resolve /\ Resolve \notin cleanup
         /\ SameObjects
         /\ SameFiles
         /\ UNCHANGED <<live, lock, path, waits, amiss>>
<1>1. /\ \A q \in Request : q # r => req'[q] = req[q]
      /\ req[r].pc = "idle" /\ req'[r].pc = "resolve"
      /\ req'[r].on \in Session /\ sess[req'[r].on].ctrl = None
      /\ \A q \in Request : req[q].on # req'[r].on
      /\ live = None
      /\ req'[r].at = Resolve /\ Resolve \notin cleanup
      /\ SameFiles
      /\ UNCHANGED <<live, lock, path, waits, amiss>>
  BY Paths DEF Load, At, FreeSessions, Resolve, Unserved, SameFiles, fileVars, history, Shape,
     Located, Detached, Moves, Saves, Goroutines, Goroutine, Objects, Object, Others
<1>2. SameObjects
  BY DEF Load, At, FreeSessions, Resolve, Unserved, SameFiles, fileVars, history, SameObjects,
     SameLeases, Objects, Object
<1> QED BY <1>1, <1>2

LEMMA ResolveAgainDoes ==
  ASSUME Goroutines, Objects, Others, Shape, NEW r \in Request, ResolveAgain(r)
  PROVE  /\ \A q \in Request : q # r => req'[q] = req[q]
         /\ req[r].pc = "resolve"
         /\ \/ req'[r].pc = "done"
            \/ /\ req'[r].pc = "acquire" /\ req'[r].on = req[r].on /\ req'[r].at = Resolve
               /\ Resolve = req[r].at \/ Resolve \notin cleanup
         /\ SameObjects
         /\ SameFiles
         /\ UNCHANGED <<live, lock, path, waits, amiss>>
<1>1. /\ \A q \in Request : q # r => req'[q] = req[q]
      /\ req[r].pc = "resolve"
      /\ \/ req'[r].pc = "done"
            \/ /\ req'[r].pc = "acquire" /\ req'[r].on = req[r].on /\ req'[r].at = Resolve
               /\ Resolve = req[r].at \/ Resolve \notin cleanup
      /\ SameFiles
      /\ UNCHANGED <<live, lock, path, waits, amiss>>
  BY Paths DEF ResolveAgain, At, Resolve, End, Unserved, SameFiles, fileVars, history, Shape,
     Located, Detached, Moves, Saves, Goroutines, Goroutine, Objects, Object, Others
<1>2. SameObjects
  BY DEF ResolveAgain, At, Resolve, End, Unserved, SameFiles, fileVars, history, SameObjects,
     SameLeases, Objects, Object
<1> QED BY <1>1, <1>2

LEMMA AcquireDoes ==
  ASSUME Goroutines, Objects, Others, Shape, NEW r \in Request, Acquire(r)
  PROVE  /\ \A q \in Request : q # r => req'[q] = req[q]
         /\ req[r].pc = "acquire"
         /\ \/ /\ req'[r].pc = "read" /\ req'[r].on = req[r].on /\ req'[r].at = req[r].at
               /\ lock' = [lock EXCEPT ![req[r].at] = "ours"]
            \/ req'[r].pc = "done" /\ lock' = lock
         /\ SameObjects
         /\ SameFiles
         /\ UNCHANGED <<live, path, waits, amiss>>
<1>1. req[r].pc = "acquire"
  BY DEF Acquire, At
<1>2. CASE lock' = [lock EXCEPT ![req[r].at] = "ours"] /\ Goto(r, "read")
  BY <1>1, <1>2, GotoMoves DEF Acquire, SameObjects, SameLeases, SameFiles, history
<1>3. CASE End(r) /\ UNCHANGED lock
  BY <1>1, <1>3, EndMoves DEF Acquire, SameObjects, SameLeases, SameFiles, history
<1> QED BY <1>2, <1>3 DEF Acquire

LEMMA ReadDoes ==
  ASSUME Goroutines, Objects, Others, Shape, NEW r \in Request, Read(r)
  PROVE  /\ \A q \in Request : q # r => req'[q] = req[q]
         /\ req[r].pc = "read" /\ req'[r].pc = "meta"
         /\ req'[r].on = req[r].on /\ req'[r].at = req[r].at
         /\ req[r].on \in Session /\ req[r].at \in disk
         /\ sess'[req[r].on].lease = req[r].at /\ sess'[req[r].on].transcript = req[r].at
         /\ sess'[req[r].on].ctrl \in Ctrl /\ path'[sess'[req[r].on].ctrl] = req[r].at
         /\ \A s \in Session : s # req[r].on => sess'[s] = sess[s]
         /\ \A s \in Session : sess[s].ctrl # sess'[req[r].on].ctrl
         /\ \A q \in Request : req[q].next # sess'[req[r].on].ctrl
         /\ \A c \in Ctrl : c # sess'[req[r].on].ctrl => path'[c] = path[c]
         /\ SameFiles
         /\ UNCHANGED <<live, lock, waits>>
         /\ amiss \subseteq amiss'
         /\ "usurped" \in amiss' \/ (Resolve = req[r].at /\ \A s \in Session : sess[s].lease = None)
         /\ "raced" \in amiss'
             \/ \A q \in Request : req[q].pc \notin {"destroy", "erase", "twin", "linger"}
<1>1. /\ \A q \in Request : q # r => req'[q] = req[q]
      /\ req[r].pc = "read" /\ req'[r].pc = "meta"
      /\ req'[r].on = req[r].on /\ req'[r].at = req[r].at
      /\ req[r].on \in Session /\ req[r].at \in disk
      /\ sess'[req[r].on].lease = req[r].at /\ sess'[req[r].on].transcript = req[r].at
      /\ sess'[req[r].on].ctrl \in Ctrl /\ path'[sess'[req[r].on].ctrl] = req[r].at
      /\ \A s \in Session : s # req[r].on => sess'[s] = sess[s]
      /\ \A s \in Session : sess[s].ctrl # sess'[req[r].on].ctrl
      /\ \A q \in Request : req[q].next # sess'[req[r].on].ctrl
      /\ \A c \in Ctrl : c # sess'[req[r].on].ctrl => path'[c] = path[c]
      /\ SameFiles
      /\ UNCHANGED <<live, lock, waits>>
      /\ amiss \subseteq amiss'
      /\ "usurped" \in amiss' \/ (Resolve = req[r].at /\ \A s \in Session : sess[s].lease = None)
      /\ "raced" \in amiss'
          \/ \A q \in Request : req[q].pc \notin {"destroy", "erase", "twin", "linger"}
  BY Paths DEF Read, At, FreeCtrls, Opened, Goto, Stray, Overlap, SameFiles, fileVars, history,
     Shape, Located, Detached, Moves, Saves, Goroutines, Goroutine, Objects, Object, Others
<1> QED BY <1>1

LEMMA ReadFailsDoes ==
  ASSUME Goroutines, Objects, Others, Shape, NEW r \in Request, ReadFails(r)
  PROVE  /\ \A q \in Request : q # r => req'[q] = req[q]
         /\ req[r].pc = "read" /\ req'[r].pc = "done"
         /\ lock' = [lock EXCEPT ![req[r].at] = "free"]
         /\ SameObjects
         /\ SameFiles
         /\ UNCHANGED <<live, path, waits, amiss>>
<1>1. /\ \A q \in Request : q # r => req'[q] = req[q]
      /\ req[r].pc = "read" /\ req'[r].pc = "done"
      /\ lock' = [lock EXCEPT ![req[r].at] = "free"]
      /\ SameFiles
      /\ UNCHANGED <<live, path, waits, amiss>>
  BY Paths DEF ReadFails, At, Unlock, End, Unserved, SameFiles, fileVars, history, Shape,
     Located, Detached, Moves, Saves, Goroutines, Goroutine, Objects, Object, Others
<1>2. SameObjects
  BY DEF ReadFails, At, Unlock, End, Unserved, SameFiles, fileVars, history, SameObjects,
     SameLeases, Objects, Object
<1> QED BY <1>1, <1>2

LEMMA LoadMetaDoes ==
  ASSUME Goroutines, Objects, Others, Shape, NEW r \in Request, LoadMeta(r)
  PROVE  /\ \A q \in Request : q # r => req'[q] = req[q]
         /\ req[r].pc = "meta" /\ req'[r].pc = "register"
         /\ req'[r].on = req[r].on /\ req'[r].at = req[r].at
         /\ req[r].on \in Session
         /\ SaveMeta(req[r].at)
         /\ SameObjects
         /\ UNCHANGED <<live, lock, path, waits, disk, cleanup, home, gone, amiss>>
<1>1. req[r].pc = "meta" /\ req[r].on \in Session
  BY DEF LoadMeta, At, Shape, Located, Detached, Goroutines, Goroutine
<1>2. Goto(r, "register") /\ SaveMeta(req[r].at)
  BY DEF LoadMeta
<1> QED BY <1>1, <1>2, GotoMoves DEF LoadMeta, SameObjects, SameLeases, history

LEMMA LoadMetaFailsDoes ==
  ASSUME Goroutines, Objects, Others, Shape, NEW r \in Request, LoadMetaFails(r)
  PROVE  /\ \A q \in Request : q # r => req'[q] = req[q]
         /\ req[r].pc = "meta" /\ req'[r].pc = "done"
         /\ req[r].on \in Session
         /\ lock' = [lock EXCEPT ![req[r].at] = "free"]
         /\ sess'[req[r].on].lease = None /\ sess'[req[r].on].ctrl = None
         /\ \A s \in Session : s # req[r].on => sess'[s] = sess[s]
         /\ SameFiles
         /\ UNCHANGED <<live, path, waits, amiss>>
<1>1. /\ \A q \in Request : q # r => req'[q] = req[q]
      /\ req[r].pc = "meta" /\ req'[r].pc = "done"
      /\ req[r].on \in Session
      /\ lock' = [lock EXCEPT ![req[r].at] = "free"]
      /\ sess'[req[r].on].lease = None /\ sess'[req[r].on].ctrl = None
      /\ \A s \in Session : s # req[r].on => sess'[s] = sess[s]
      /\ SameFiles
      /\ UNCHANGED <<live, path, waits, amiss>>
  BY Paths DEF LoadMetaFails, At, Unlock, End, Unserved, Opened, Unopened, SameFiles, fileVars,
     history, Shape, Located, Detached, Moves, Saves, Goroutines, Goroutine, Objects, Object,
     Others
<1> QED BY <1>1

LEMMA RegisterDoes ==
  ASSUME Goroutines, Objects, Others, Shape, NEW r \in Request, Register(r)
  PROVE  /\ \A q \in Request : q # r => req'[q] = req[q]
         /\ req[r].pc = "register" /\ req'[r].pc = "done"
         /\ req[r].on \in Session
         /\ live' = req[r].on
         /\ SameObjects
         /\ SameFiles
         /\ UNCHANGED <<lock, path, waits, amiss>>
<1>1. /\ \A q \in Request : q # r => req'[q] = req[q]
      /\ req[r].pc = "register" /\ req'[r].pc = "done"
      /\ req[r].on \in Session
      /\ live' = req[r].on
      /\ SameFiles
      /\ UNCHANGED <<lock, path, waits, amiss>>
  BY Paths DEF Register, At, End, Unserved, SameFiles, fileVars, history, Shape, Located,
     Detached, Moves, Saves, Goroutines, Goroutine, Objects, Object, Others
<1>2. SameObjects
  BY DEF Register, At, End, Unserved, SameFiles, fileVars, history, SameObjects, SameLeases,
     Objects, Object
<1> QED BY <1>1, <1>2

LEMMA CrashDoes ==
  ASSUME Goroutines, Objects, Others, Crash
  PROVE  /\ live' = None
         /\ \A r \in Request : req'[r].pc \in {"idle", "done"}
         /\ \A t \in Session : sess'[t].lease = None /\ sess'[t].ctrl = None
         /\ \A p \in Path : lock'[p] # "ours"
         /\ SameFiles /\ UNCHANGED <<amiss>>
BY DEF Crash, Unopened, Opened, Unserved, At, Others, SameFiles

LEMMA MissesStay ==
  ASSUME Goroutines, Objects, Others, Shape, [Next]_vars
  PROVE  amiss \subseteq amiss'
<1>1. ASSUME NEW r \in Request, Plain(r) PROVE amiss \subseteq amiss'
  BY <1>1 DEF Plain
<1>2. ASSUME NEW r \in Request, Build(r) PROVE amiss \subseteq amiss'
  BY <1>2, BuildDoes
<1>3. ASSUME NEW r \in Request, Swap(r) PROVE amiss \subseteq amiss'
  BY <1>3, SwapDoes
<1>4. ASSUME NEW r \in Request, SwapRefused(r) PROVE amiss \subseteq amiss'
  BY <1>4, SwapRefusedDoes
<1>5. ASSUME NEW r \in Request, Recover(r) PROVE amiss \subseteq amiss'
  BY <1>5, RecoverDoes
<1>6. ASSUME NEW r \in Request, Follow(r) PROVE amiss \subseteq amiss'
  BY <1>6, FollowDoes
<1>7. ASSUME NEW r \in Request, Secure(r) PROVE amiss \subseteq amiss'
  BY <1>7, SecureDoes
<1>8. ASSUME NEW r \in Request, Assign(r) PROVE amiss \subseteq amiss'
  BY <1>8, AssignDoes
<1>9. ASSUME NEW r \in Request, Redirect(r) PROVE amiss \subseteq amiss'
  BY <1>9, RedirectDoes
<1>10. ASSUME NEW r \in Request, Commit(r) PROVE amiss \subseteq amiss'
  BY <1>10, CommitDoes
<1>11. ASSUME NEW r \in Request, Take(r) PROVE amiss \subseteq amiss'
  BY <1>11, TakeDoes
<1>12. ASSUME NEW r \in Request, Abort(r) PROVE amiss \subseteq amiss'
  BY <1>12, AbortDoes
<1>13. ASSUME NEW r \in Request, Waited(r) PROVE amiss \subseteq amiss'
  BY <1>13, WaitedDoes
<1>14. ASSUME NEW r \in Request, Shut(r) PROVE amiss \subseteq amiss'
  BY <1>14, ShutDoes
<1>15. ASSUME NEW r \in Request, Release(r) PROVE amiss \subseteq amiss'
  BY <1>15, ReleaseDoes
<1>16. ASSUME NEW r \in Request, Destroy(r) PROVE amiss \subseteq amiss'
  BY <1>16, DestroyDoes
<1>17. ASSUME NEW r \in Request, DeleteClosed(r) PROVE amiss \subseteq amiss'
  BY <1>17, DeleteClosedDoes
<1>18. ASSUME NEW r \in Request, Erase(r) PROVE amiss \subseteq amiss'
  BY <1>18, EraseDoes
<1>19. ASSUME NEW r \in Request, Twin(r) PROVE amiss \subseteq amiss'
  BY <1>19, TwinDoes
<1>20. ASSUME NEW r \in Request, Linger(r) PROVE amiss \subseteq amiss'
  BY <1>20, LingerDoes
<1>21. ASSUME NEW r \in Request, Load(r) PROVE amiss \subseteq amiss'
  BY <1>21, LoadDoes
<1>22. ASSUME NEW r \in Request, ResolveAgain(r) PROVE amiss \subseteq amiss'
  BY <1>22, ResolveAgainDoes
<1>23. ASSUME NEW r \in Request, Acquire(r) PROVE amiss \subseteq amiss'
  BY <1>23, AcquireDoes
<1>24. ASSUME NEW r \in Request, Read(r) PROVE amiss \subseteq amiss'
  BY <1>24, ReadDoes
<1>25. ASSUME NEW r \in Request, ReadFails(r) PROVE amiss \subseteq amiss'
  BY <1>25, ReadFailsDoes
<1>26. ASSUME NEW r \in Request, LoadMeta(r) PROVE amiss \subseteq amiss'
  BY <1>26, LoadMetaDoes
<1>27. ASSUME NEW r \in Request, LoadMetaFails(r) PROVE amiss \subseteq amiss'
  BY <1>27, LoadMetaFailsDoes
<1>28. ASSUME NEW r \in Request, Register(r) PROVE amiss \subseteq amiss'
  BY <1>28, RegisterDoes
<1>29. ASSUME NEW p \in Path, OtherAcquires(p) PROVE amiss \subseteq amiss'
  BY <1>29 DEF OtherAcquires, history
<1>30. ASSUME NEW p \in Path, OtherReleases(p) PROVE amiss \subseteq amiss'
  BY <1>30 DEF OtherReleases, history
<1>31. ASSUME NEW p \in Path, Reconcile(p) PROVE amiss \subseteq amiss'
  BY <1>31 DEF Reconcile, history
<1>32. CASE Crash
  BY <1>32, CrashDoes
<1>33. CASE UNCHANGED vars
  BY <1>33 DEF vars, history
<1> QED BY <1>1, <1>2, <1>3, <1>4, <1>5, <1>6, <1>7, <1>8, <1>9, <1>10, <1>11, <1>12, <1>13,
           <1>14, <1>15, <1>16, <1>17, <1>18, <1>19, <1>20, <1>21, <1>22, <1>23, <1>24, <1>25,
           <1>26, <1>27, <1>28, <1>29, <1>30, <1>31, <1>32, <1>33, PlainSteps DEF Next, Start,
           Continue, Turn, Save, Rebuild, Close, Open

LEMMA SavedDoes ==
  ASSUME Goroutines, Objects, Others, Shape, NEW r \in Request, Saved(r)
  PROVE  /\ Plain(r) /\ req[r].pc = "save" /\ req'[r].pc # "save"
         /\ req[r].ctrl \in Ctrl /\ path[req[r].ctrl] \in Path
         /\ disk' = disk \cup {path[req[r].ctrl]} /\ home' = path[req[r].ctrl]
         /\ UNCHANGED <<metas, redirect, cleanup, gone, amiss>>
<1>1. /\ Plain(r) /\ req[r].pc = "save"
      /\ req[r].phase \in {"turn", "persist", "rebuild"} /\ req[r].ctrl \in Ctrl
  BY PlainSteps DEF Saved, At, Shape, Located, Saves, Goroutines, Goroutine
<1>2. PICK p \in {"persist", "stamp", "build", "abandon"} : Goto(r, p)
  BY <1>1, BackIs DEF Saved
<1> QED BY <1>1, <1>2, GotoMoves DEF Saved, Others

LEMMA StampDoes ==
  ASSUME Goroutines, Objects, Others, Shape, NEW r \in Request, Stamp(r)
  PROVE  /\ Plain(r) /\ req[r].pc = "stamp" /\ Turning(r) /\ req[r].on \in Session
         /\ UNCHANGED <<disk, cleanup, home, gone, amiss>>
         /\ \/ UNCHANGED <<metas, redirect>>
            \/ sess[req[r].on].transcript \in disk /\ SaveMeta(sess[req[r].on].transcript)
<1>1. Plain(r) /\ req[r].pc = "stamp" /\ Turning(r)
  BY PlainSteps DEF Stamp, At, Turning
<1> QED BY <1>1, WorksOn DEF Stamp, On, history
-----------------------------------------------------------------------------
(***************************************************************************)
(* What a close may count on.                                              *)
(***************************************************************************)

LEMMA GoneStep ==
  ASSUME Goroutines, Objects, Others, Shape, Work, Distinct, Closing, [Next]_vars
  PROVE  (\A q \in Request : Gone(q))'
<1>1. CASE UNCHANGED vars
  BY <1>1 DEF Goroutines, Objects, Goroutine, Object, Closing, Gone, Closes, Shape, Alone,
     Opens, vars, fileVars, history
<1>2. ASSUME NEW r \in Request, Prompt(r) PROVE (\A q \in Request : Gone(q))'
  BY <1>2, Paths DEF Prompt, Serve, At, Goroutines, Objects, Goroutine, Object, Closing, Gone,
     Closes, Shape, Alone, Opens, fileVars, history
<1>3. ASSUME NEW r \in Request, SetConfig(r) PROVE (\A q \in Request : Gone(q))'
  BY <1>3, Paths DEF SetConfig, At, Goroutines, Objects, Goroutine, Object, Closing, Gone,
     Closes, Shape, Alone, Opens, fileVars, history
<1>4. ASSUME NEW r \in Request, Take(r) PROVE (\A q \in Request : Gone(q))'
  <2>1. live' = None /\ \A q \in Request : req'[q].on \in Session \cup {None}
    BY <1>4, Paths DEF Take, Goroutines, Goroutine, Others
  <2>2. ASSUME NEW q \in Request, req'[q].pc \in Closes PROVE req'[q].on # None
    <3>1. CASE q = r
      BY <1>4, <3>1, Paths DEF Take, Goroutines, Goroutine, Others
    <3>2. CASE q # r
      BY <1>4, <2>2, <3>2 DEF Take, Goroutines, Goroutine, Shape, Located, Closes, Detached
    <3> QED BY <3>1, <3>2
  <2> QED BY <2>1, <2>2 DEF Gone
<1>5. ASSUME NEW r \in Request, DeleteClosed(r) PROVE (\A q \in Request : Gone(q))'
  BY <1>5, Paths DEF DeleteClosed, Serve, At, Race, Resolve, Goroutines, Objects, Goroutine,
     Object, Closing, Gone, Closes, Shape, Alone, Opens, fileVars, history
<1>6. ASSUME NEW r \in Request, Load(r) PROVE (\A q \in Request : Gone(q))'
  BY <1>6, Paths DEF Load, At, FreeSessions, Resolve, Unserved, Goroutines, Objects, Goroutine,
     Object, Closing, Gone, Closes, Shape, Alone, Opens, fileVars, history
<1>7. ASSUME NEW r \in Request, Begin(r) PROVE (\A q \in Request : Gone(q))'
  BY <1>7, Paths DEF Begin, MayBegin, On, Goto, Late, At, Goroutines, Objects, Goroutine,
     Object, Closing, Gone, Closes, Shape, Alone, Opens, fileVars, history
<1>8. ASSUME NEW r \in Request, BeginRefused(r) PROVE (\A q \in Request : Gone(q))'
  BY <1>8, Paths DEF BeginRefused, End, At, Unserved, Goroutines, Objects, Goroutine, Object,
     Closing, Gone, Closes, Shape, Alone, Opens, fileVars, history
<1>9. ASSUME NEW r \in Request, Enter(r) PROVE (\A q \in Request : Gone(q))'
  BY <1>9, Paths DEF Enter, On, At, Goroutines, Objects, Goroutine, Object, Closing, Gone,
     Closes, Shape, Alone, Opens, fileVars, history
<1>10. ASSUME NEW r \in Request, Persist(r) PROVE (\A q \in Request : Gone(q))'
  BY <1>10, Paths DEF Persist, On, At, Goroutines, Objects, Goroutine, Object, Closing, Gone,
     Closes, Shape, Alone, Opens, fileVars, history
<1>11. ASSUME NEW r \in Request, Stamp(r) PROVE (\A q \in Request : Gone(q))'
  BY <1>11, Paths DEF Stamp, On, At, Goto, SaveMeta, Goroutines, Objects, Goroutine, Object,
     Closing, Gone, Closes, Shape, Alone, Opens, fileVars, history
<1>12. ASSUME NEW r \in Request, Finish(r) PROVE (\A q \in Request : Gone(q))'
  BY <1>12, Paths DEF Finish, At, Wake, Goroutines, Objects, Goroutine, Object, Closing, Gone,
     Closes, Shape, Alone, Opens, fileVars, history
<1>13. ASSUME NEW r \in Request, TurnReturns(r) PROVE (\A q \in Request : Gone(q))'
  BY <1>13, Paths DEF TurnReturns, At, Goroutines, Objects, Goroutine, Object, Closing, Gone,
     Closes, Shape, Alone, Opens, fileVars, history
<1>14. ASSUME NEW r \in Request, Cancel(r) PROVE (\A q \in Request : Gone(q))'
  BY <1>14, Paths DEF Cancel, Goroutines, Objects, Goroutine, Object, Closing, Gone, Closes,
     Shape, Alone, Opens, fileVars, history
<1>15. ASSUME NEW r \in Request, Saved(r) PROVE (\A q \in Request : Gone(q))'
  <2>1. PICK p \in {"persist", "stamp", "build", "abandon", "assign", "redirect"} : Goto(r, p)
    BY <1>15, SaveMoves
  <2>2. /\ \A q \in Request : q # r => req'[q] = req[q]
        /\ req'[r].pc = p /\ req'[r].on = req[r].on /\ req'[r].ctrl = req[r].ctrl
        /\ req'[r].at = req[r].at /\ req'[r].to = req[r].to /\ req'[r].next = req[r].next
    BY <2>1, GotoMoves
  <2> QED BY <1>15, <2>2, Paths DEF Saved, At, Goroutines, Objects, Goroutine, Object, Closing,
             Gone, Closes, Shape, Alone, Opens, fileVars, history
<1>16. ASSUME NEW r \in Request, NotSaved(r) PROVE (\A q \in Request : Gone(q))'
  <2>1. PICK p \in {"persist", "stamp", "build", "abandon", "assign", "redirect"} : Goto(r, p)
    BY <1>16, SaveMoves
  <2>2. /\ \A q \in Request : q # r => req'[q] = req[q]
        /\ req'[r].pc = p /\ req'[r].on = req[r].on /\ req'[r].ctrl = req[r].ctrl
        /\ req'[r].at = req[r].at /\ req'[r].to = req[r].to /\ req'[r].next = req[r].next
    BY <2>1, GotoMoves
  <2> QED BY <1>16, <2>2, Paths DEF NotSaved, At, Goroutines, Objects, Goroutine, Object,
             Closing, Gone, Closes, Shape, Alone, Opens, fileVars, history
<1>17. ASSUME NEW r \in Request, Recover(r) PROVE (\A q \in Request : Gone(q))'
  BY <1>17, Paths DEF Recover, At, Goroutines, Objects, Goroutine, Object, Closing, Gone,
     Closes, Shape, Alone, Opens, fileVars, history
<1>18. ASSUME NEW r \in Request, Follow(r) PROVE (\A q \in Request : Gone(q))'
  BY <1>18, Paths DEF Follow, At, Goroutines, Objects, Goroutine, Object, Closing, Gone, Closes,
     Shape, Alone, Opens, fileVars, history
<1>19. ASSUME NEW r \in Request, Secure(r) PROVE (\A q \in Request : Gone(q))'
  <2>1. PICK p \in {"persist", "stamp", "build", "abandon", "assign", "redirect"} : Goto(r, p)
    BY <1>19, SaveMoves
  <2>2. /\ \A q \in Request : q # r => req'[q] = req[q]
        /\ req'[r].pc = p /\ req'[r].on = req[r].on /\ req'[r].ctrl = req[r].ctrl
        /\ req'[r].at = req[r].at /\ req'[r].to = req[r].to /\ req'[r].next = req[r].next
    BY <2>1, GotoMoves
  <2> QED BY <1>19, <2>2, Paths DEF Secure, At, Goroutines, Objects, Goroutine, Object, Closing,
             Gone, Closes, Shape, Alone, Opens, fileVars, history
<1>20. ASSUME NEW r \in Request, Assign(r) PROVE (\A q \in Request : Gone(q))'
  <2>1. PICK p \in {"persist", "stamp", "build", "abandon", "assign", "redirect"} : Goto(r, p)
    BY <1>20, SaveMoves
  <2>2. /\ \A q \in Request : q # r => req'[q] = req[q]
        /\ req'[r].pc = p /\ req'[r].on = req[r].on /\ req'[r].ctrl = req[r].ctrl
        /\ req'[r].at = req[r].at /\ req'[r].to = req[r].to /\ req'[r].next = req[r].next
    BY <2>1, GotoMoves
  <2> QED BY <1>20, <2>2, Paths DEF Assign, At, Unlock, MoveTo, Goroutines, Objects, Goroutine,
             Object, Closing, Gone, Closes, Shape, Alone, Opens, fileVars, history
<1>21. ASSUME NEW r \in Request, Redirect(r) PROVE (\A q \in Request : Gone(q))'
  BY <1>21, Paths DEF Redirect, At, RedirectTo, Goto, Goroutines, Objects, Goroutine, Object,
     Closing, Gone, Closes, Shape, Alone, Opens, fileVars, history
<1>22. ASSUME NEW r \in Request, Commit(r) PROVE (\A q \in Request : Gone(q))'
  <2>1. PICK p \in {"persist", "stamp", "build", "abandon", "assign", "redirect"} : Goto(r, p)
    BY <1>22, SaveMoves
  <2>2. /\ \A q \in Request : q # r => req'[q] = req[q]
        /\ req'[r].pc = p /\ req'[r].on = req[r].on /\ req'[r].ctrl = req[r].ctrl
        /\ req'[r].at = req[r].at /\ req'[r].to = req[r].to /\ req'[r].next = req[r].next
    BY <2>1, GotoMoves
  <2> QED BY <1>22, <2>2, Paths DEF Commit, At, Goroutines, Objects, Goroutine, Object, Closing,
             Gone, Closes, Shape, Alone, Opens, fileVars, history
<1>23. ASSUME NEW r \in Request, ClaimRefused(r) PROVE (\A q \in Request : Gone(q))'
  BY <1>23, Paths DEF ClaimRefused, At, Fail, Goto, End, Unserved, Goroutines, Objects,
     Goroutine, Object, Closing, Gone, Closes, Shape, Alone, Opens, fileVars, history
<1>24. ASSUME NEW r \in Request, Queue(r) PROVE (\A q \in Request : Gone(q))'
  BY <1>24, Paths DEF Queue, At, On, Chosen, End, Unserved, Busy, Goroutines, Objects,
     Goroutine, Object, Closing, Gone, Closes, Shape, Alone, Opens, fileVars, history
<1>25. ASSUME NEW r \in Request, Claim(r) PROVE (\A q \in Request : Gone(q))'
  BY <1>25, Paths DEF Claim, At, On, Busy, Chosen, Goroutines, Objects, Goroutine, Object,
     Closing, Gone, Closes, Shape, Alone, Opens, fileVars, history
<1>26. ASSUME NEW r \in Request, Build(r) PROVE (\A q \in Request : Gone(q))'
  BY <1>26, Paths DEF Build, At, FreeCtrls, Goroutines, Objects, Goroutine, Object, Closing,
     Gone, Closes, Shape, Alone, Opens, fileVars, history
<1>27. ASSUME NEW r \in Request, BuildFails(r) PROVE (\A q \in Request : Gone(q))'
  BY <1>27, Paths DEF BuildFails, At, Goto, Goroutines, Objects, Goroutine, Object, Closing,
     Gone, Closes, Shape, Alone, Opens, fileVars, history
<1>28. ASSUME NEW r \in Request, Swap(r) PROVE (\A q \in Request : Gone(q))'
  BY <1>28, Paths DEF Swap, At, On, SaveMeta, Goroutines, Objects, Goroutine, Object, Closing,
     Gone, Closes, Shape, Alone, Opens, fileVars, history
<1>29. ASSUME NEW r \in Request, SwapRefused(r) PROVE (\A q \in Request : Gone(q))'
  BY <1>29, Paths DEF SwapRefused, At, On, Goroutines, Objects, Goroutine, Object, Closing,
     Gone, Closes, Shape, Alone, Opens, fileVars, history
<1>30. ASSUME NEW r \in Request, Retire(r) PROVE (\A q \in Request : Gone(q))'
  BY <1>30, Paths DEF Retire, At, Goroutines, Objects, Goroutine, Object, Closing, Gone, Closes,
     Shape, Alone, Opens, fileVars, history
<1>31. ASSUME NEW r \in Request, Unwind(r) PROVE (\A q \in Request : Gone(q))'
  BY <1>31, Paths DEF Unwind, At, Wake, Goto, Goroutines, Objects, Goroutine, Object, Closing,
     Gone, Closes, Shape, Alone, Opens, fileVars, history
<1>32. ASSUME NEW r \in Request, Abandon(r) PROVE (\A q \in Request : Gone(q))'
  <2>1. CASE End(r)
    BY <1>32, <2>1, EndMoves, Paths DEF Abandon, Goroutines, Objects, Goroutine, Object,
       Closing, Gone, Closes, Shape, Alone, Opens, fileVars, history
  <2>2. CASE ~End(r)
    BY <1>32, <2>2, Paths DEF Abandon, Wake, Void, On, Goroutines, Objects, Goroutine, Object,
       Closing, Gone, Closes, Shape, Alone, Opens, fileVars, history
  <2> QED BY <2>1, <2>2
<1>33. ASSUME NEW r \in Request, Apply(r) PROVE (\A q \in Request : Gone(q))'
  BY <1>33, Paths DEF Apply, At, Goto, End, Unserved, Goroutines, Objects, Goroutine, Object,
     Closing, Gone, Closes, Shape, Alone, Opens, fileVars, history
<1>34. ASSUME NEW r \in Request, Copy(r) PROVE (\A q \in Request : Gone(q))'
  BY <1>34, Paths DEF Copy, At, On, End, Unserved, Goroutines, Objects, Goroutine, Object,
     Closing, Gone, Closes, Shape, Alone, Opens, fileVars, history
<1>35. ASSUME NEW r \in Request, Drop(r) PROVE (\A q \in Request : Gone(q))'
  BY <1>35, Paths DEF Drop, At, On, MayDrop, Void, End, Unserved, Busy, Goroutines, Objects,
     Goroutine, Object, Closing, Gone, Closes, Shape, Alone, Opens, fileVars, history
<1>36. ASSUME NEW r \in Request, Abort(r) PROVE (\A q \in Request : Gone(q))'
  BY <1>36, Paths DEF Abort, At, On, Awaited, Interrupted, Goto, Goroutines, Objects, Goroutine,
     Object, Closing, Gone, Closes, Shape, Alone, Opens, fileVars, history
<1>37. ASSUME NEW r \in Request, Waited(r) PROVE (\A q \in Request : Gone(q))'
  BY <1>37, Paths DEF Waited, At, Goto, Goroutines, Objects, Goroutine, Object, Closing, Gone,
     Closes, Shape, Alone, Opens, fileVars, history
<1>38. ASSUME NEW r \in Request, Shut(r) PROVE (\A q \in Request : Gone(q))'
  BY <1>38, Paths DEF Shut, At, On, Goto, Goroutines, Objects, Goroutine, Object, Closing, Gone,
     Closes, Shape, Alone, Opens, fileVars, history
<1>39. ASSUME NEW r \in Request, Release(r) PROVE (\A q \in Request : Gone(q))'
  BY <1>39, Paths DEF Release, At, Unlock, On, Goto, End, Unserved, Goroutines, Objects,
     Goroutine, Object, Closing, Gone, Closes, Shape, Alone, Opens, fileVars, history
<1>40. ASSUME NEW r \in Request, Destroy(r) PROVE (\A q \in Request : Gone(q))'
  BY <1>40, Paths DEF Destroy, At, On, Goroutines, Objects, Goroutine, Object, Closing, Gone,
     Closes, Shape, Alone, Opens, fileVars, history
<1>41. ASSUME NEW r \in Request, Erase(r) PROVE (\A q \in Request : Gone(q))'
  BY <1>41, Paths DEF Erase, At, Remove, Goto, Goroutines, Objects, Goroutine, Object, Closing,
     Gone, Closes, Shape, Alone, Opens, fileVars, history
<1>42. ASSUME NEW r \in Request, Twin(r) PROVE (\A q \in Request : Gone(q))'
  BY <1>42, Paths DEF Twin, At, RemoveTwin, Remove, Goto, End, Unserved, Goroutines, Objects,
     Goroutine, Object, Closing, Gone, Closes, Shape, Alone, Opens, fileVars, history
<1>43. ASSUME NEW r \in Request, Linger(r) PROVE (\A q \in Request : Gone(q))'
  BY <1>43, Paths DEF Linger, At, Remove, End, Unserved, Goroutines, Objects, Goroutine, Object,
     Closing, Gone, Closes, Shape, Alone, Opens, fileVars, history
<1>44. ASSUME NEW r \in Request, ResolveAgain(r) PROVE (\A q \in Request : Gone(q))'
  <2>1. CASE End(r)
    BY <1>44, <2>1, EndMoves, Paths DEF ResolveAgain, Goroutines, Objects, Goroutine, Object,
       Closing, Gone, Closes, Shape, Alone, Opens, fileVars, history
  <2>2. CASE ~End(r)
    BY <1>44, <2>2, Paths DEF ResolveAgain, Goroutines, Objects, Goroutine, Object, Closing,
       Gone, Closes, Shape, Alone, Opens, fileVars, history
  <2> QED BY <2>1, <2>2
<1>45. ASSUME NEW r \in Request, Acquire(r) PROVE (\A q \in Request : Gone(q))'
  BY <1>45, Paths, SMTT(20), ZenonT(40) DEF Acquire, At, Goto, End, Unserved, Goroutines,
     Objects, Goroutine, Object, Closing, Gone, Closes, Shape, Alone, Opens, fileVars, history
<1>46. ASSUME NEW r \in Request, Read(r) PROVE (\A q \in Request : Gone(q))'
  BY <1>46, Paths DEF Read, At, FreeCtrls, Opened, Goto, Race, Overlap, Goroutines, Objects,
     Goroutine, Object, Closing, Gone, Closes, Shape, Alone, Opens, fileVars, history
<1>47. ASSUME NEW r \in Request, ReadFails(r) PROVE (\A q \in Request : Gone(q))'
  BY <1>47, Paths DEF ReadFails, At, Unlock, End, Unserved, Goroutines, Objects, Goroutine,
     Object, Closing, Gone, Closes, Shape, Alone, Opens, fileVars, history
<1>48. ASSUME NEW r \in Request, LoadMeta(r) PROVE (\A q \in Request : Gone(q))'
  BY <1>48, Paths DEF LoadMeta, At, SaveMeta, Goto, Goroutines, Objects, Goroutine, Object,
     Closing, Gone, Closes, Shape, Alone, Opens, fileVars, history
<1>49. ASSUME NEW r \in Request, LoadMetaFails(r) PROVE (\A q \in Request : Gone(q))'
  BY <1>49, Paths DEF LoadMetaFails, At, Unlock, End, Unserved, Opened, Unopened, Goroutines,
     Objects, Goroutine, Object, Closing, Gone, Closes, Shape, Alone, Opens, fileVars, history
<1>50. ASSUME NEW r \in Request, Register(r) PROVE (\A q \in Request : Gone(q))'
  BY <1>50, Paths DEF Register, At, End, Unserved, Goroutines, Objects, Goroutine, Object,
     Closing, Gone, Closes, Shape, Alone, Opens, fileVars, history
<1>51. ASSUME NEW p \in Path, OtherAcquires(p) PROVE (\A q \in Request : Gone(q))'
  BY <1>51, Paths DEF OtherAcquires, Goroutines, Objects, Goroutine, Object, Closing, Gone,
     Closes, Shape, Alone, Opens, fileVars, history
<1>52. ASSUME NEW p \in Path, OtherReleases(p) PROVE (\A q \in Request : Gone(q))'
  BY <1>52, Paths DEF OtherReleases, Unlock, Goroutines, Objects, Goroutine, Object, Closing,
     Gone, Closes, Shape, Alone, Opens, fileVars, history
<1>53. ASSUME NEW p \in Path, Reconcile(p) PROVE (\A q \in Request : Gone(q))'
  BY <1>53, Paths DEF Reconcile, Remove, Goroutines, Objects, Goroutine, Object, Closing, Gone,
     Closes, Shape, Alone, Opens, fileVars, history
<1>54. CASE Crash
  BY <1>54, Paths DEF Crash, Unserved, Unopened, Opened, At, Goroutines, Objects, Goroutine,
     Object, Closing, Gone, Closes, Shape, Alone, Opens, fileVars, history
<1> QED BY <1>1, <1>2, <1>3, <1>4, <1>5, <1>6, <1>7, <1>8, <1>9, <1>10, <1>11, <1>12, <1>13,
           <1>14, <1>15, <1>16, <1>17, <1>18, <1>19, <1>20, <1>21, <1>22, <1>23, <1>24, <1>25,
           <1>26, <1>27, <1>28, <1>29, <1>30, <1>31, <1>32, <1>33, <1>34, <1>35, <1>36, <1>37,
           <1>38, <1>39, <1>40, <1>41, <1>42, <1>43, <1>44, <1>45, <1>46, <1>47, <1>48, <1>49,
           <1>50, <1>51, <1>52, <1>53, <1>54 DEF Next, Start, Continue, Turn, Save, Rebuild,
           Close, Open

LEMMA SpareStep ==
  ASSUME Goroutines, Objects, Others, Shape, Work, Distinct, Closing, [Next]_vars
  PROVE  (\A q \in Request : Spare(q))'
<1>1. CASE UNCHANGED vars
  BY <1>1 DEF Goroutines, Objects, Goroutine, Object, Others, Closing, Spare, Distinct, Shape,
     Located, Blank, Detached, vars, fileVars, history
<1>2. ASSUME NEW r \in Request, Prompt(r) PROVE (\A q \in Request : Spare(q))'
  BY <1>2, Paths DEF Prompt, Serve, At, Goroutines, Objects, Goroutine, Object, Others, Closing,
     Spare, Distinct, Shape, Located, Blank, Detached, fileVars, history
<1>3. ASSUME NEW r \in Request, SetConfig(r) PROVE (\A q \in Request : Spare(q))'
  BY <1>3, Paths DEF SetConfig, At, Goroutines, Objects, Goroutine, Object, Others, Closing,
     Spare, Distinct, Shape, Located, Blank, Detached, fileVars, history
<1>4. ASSUME NEW r \in Request, Take(r) PROVE (\A q \in Request : Spare(q))'
  BY <1>4, Paths DEF Take, At, Goroutines, Objects, Goroutine, Object, Others, Closing, Spare,
     Distinct, Shape, Located, Blank, Detached, fileVars, history
<1>5. ASSUME NEW r \in Request, DeleteClosed(r) PROVE (\A q \in Request : Spare(q))'
  BY <1>5, Paths DEF DeleteClosed, Serve, At, Race, Resolve, Goroutines, Objects, Goroutine,
     Object, Others, Closing, Spare, Distinct, Shape, Located, Blank, Detached, fileVars,
     history
<1>6. ASSUME NEW r \in Request, Load(r) PROVE (\A q \in Request : Spare(q))'
  BY <1>6, Paths DEF Load, At, FreeSessions, Resolve, Unserved, Goroutines, Objects, Goroutine,
     Object, Others, Closing, Spare, Distinct, Shape, Located, Blank, Detached, fileVars,
     history
<1>7. ASSUME NEW r \in Request, Begin(r) PROVE (\A q \in Request : Spare(q))'
  BY <1>7, Paths DEF Begin, MayBegin, On, Goto, Late, At, Goroutines, Objects, Goroutine,
     Object, Others, Closing, Spare, Distinct, Shape, Located, Blank, Detached, fileVars,
     history
<1>8. ASSUME NEW r \in Request, BeginRefused(r) PROVE (\A q \in Request : Spare(q))'
  BY <1>8, Paths DEF BeginRefused, End, At, Unserved, Goroutines, Objects, Goroutine, Object,
     Others, Closing, Spare, Distinct, Shape, Located, Blank, Detached, fileVars, history
<1>9. ASSUME NEW r \in Request, Enter(r) PROVE (\A q \in Request : Spare(q))'
  BY <1>9, Paths DEF Enter, On, At, Goroutines, Objects, Goroutine, Object, Others, Closing,
     Spare, Distinct, Shape, Located, Blank, Detached, fileVars, history
<1>10. ASSUME NEW r \in Request, Persist(r) PROVE (\A q \in Request : Spare(q))'
  BY <1>10, Paths DEF Persist, On, At, Goroutines, Objects, Goroutine, Object, Others, Closing,
     Spare, Distinct, Shape, Located, Blank, Detached, fileVars, history
<1>11. ASSUME NEW r \in Request, Stamp(r) PROVE (\A q \in Request : Spare(q))'
  BY <1>11, Paths DEF Stamp, On, At, Goto, SaveMeta, Goroutines, Objects, Goroutine, Object,
     Others, Closing, Spare, Distinct, Shape, Located, Blank, Detached, fileVars, history
<1>12. ASSUME NEW r \in Request, Finish(r) PROVE (\A q \in Request : Spare(q))'
  BY <1>12, Paths DEF Finish, At, Wake, Goroutines, Objects, Goroutine, Object, Others, Closing,
     Spare, Distinct, Shape, Located, Blank, Detached, fileVars, history
<1>13. ASSUME NEW r \in Request, TurnReturns(r) PROVE (\A q \in Request : Spare(q))'
  BY <1>13, Paths DEF TurnReturns, At, Goroutines, Objects, Goroutine, Object, Others, Closing,
     Spare, Distinct, Shape, Located, Blank, Detached, fileVars, history
<1>14. ASSUME NEW r \in Request, Cancel(r) PROVE (\A q \in Request : Spare(q))'
  BY <1>14, Paths DEF Cancel, Goroutines, Objects, Goroutine, Object, Others, Closing, Spare,
     Distinct, Shape, Located, Blank, Detached, fileVars, history
<1>15. ASSUME NEW r \in Request, Saved(r) PROVE (\A q \in Request : Spare(q))'
  BY <1>15, Paths DEF Saved, At, Back, Goto, Goroutines, Objects, Goroutine, Object, Others,
     Closing, Spare, Distinct, Shape, Located, Blank, Detached, fileVars, history
<1>16. ASSUME NEW r \in Request, NotSaved(r) PROVE (\A q \in Request : Spare(q))'
  BY <1>16, Paths DEF NotSaved, At, Back, Goto, Goroutines, Objects, Goroutine, Object, Others,
     Closing, Spare, Distinct, Shape, Located, Blank, Detached, fileVars, history
<1>17. ASSUME NEW r \in Request, Recover(r) PROVE (\A q \in Request : Spare(q))'
  BY <1>17, Paths DEF Recover, At, Goroutines, Objects, Goroutine, Object, Others, Closing,
     Spare, Distinct, Shape, Located, Blank, Detached, fileVars, history
<1>18. ASSUME NEW r \in Request, Follow(r) PROVE (\A q \in Request : Spare(q))'
  BY <1>18, Paths DEF Follow, At, Goroutines, Objects, Goroutine, Object, Others, Closing,
     Spare, Distinct, Shape, Located, Blank, Detached, fileVars, history
<1>19. ASSUME NEW r \in Request, Secure(r) PROVE (\A q \in Request : Spare(q))'
  <2>1. PICK p \in {"persist", "stamp", "build", "abandon", "assign", "redirect"} : Goto(r, p)
    BY <1>19, SaveMoves
  <2>2. /\ \A q \in Request : q # r => req'[q] = req[q]
        /\ req'[r].pc = p /\ req'[r].on = req[r].on /\ req'[r].ctrl = req[r].ctrl
        /\ req'[r].at = req[r].at /\ req'[r].to = req[r].to /\ req'[r].next = req[r].next
    BY <2>1, GotoMoves
  <2> QED BY <1>19, <2>2, Paths DEF Secure, At, Goroutines, Objects, Goroutine, Object, Others,
             Closing, Spare, Distinct, Shape, Located, Blank, Detached, fileVars, history
<1>20. ASSUME NEW r \in Request, Assign(r) PROVE (\A q \in Request : Spare(q))'
  <2>1. PICK p \in {"persist", "stamp", "build", "abandon", "assign", "redirect"} : Goto(r, p)
    BY <1>20, SaveMoves
  <2>2. /\ \A q \in Request : q # r => req'[q] = req[q]
        /\ req'[r].pc = p /\ req'[r].on = req[r].on /\ req'[r].ctrl = req[r].ctrl
        /\ req'[r].at = req[r].at /\ req'[r].to = req[r].to /\ req'[r].next = req[r].next
    BY <2>1, GotoMoves
  <2> QED BY <1>20, <2>2, Paths DEF Assign, At, Unlock, MoveTo, Goroutines, Objects, Goroutine,
             Object, Others, Closing, Spare, Distinct, Shape, Located, Blank, Detached,
             fileVars, history
<1>21. ASSUME NEW r \in Request, Redirect(r) PROVE (\A q \in Request : Spare(q))'
  BY <1>21, Paths DEF Redirect, At, RedirectTo, Goto, Goroutines, Objects, Goroutine, Object,
     Others, Closing, Spare, Distinct, Shape, Located, Blank, Detached, fileVars, history
<1>22. ASSUME NEW r \in Request, Commit(r) PROVE (\A q \in Request : Spare(q))'
  BY <1>22, Paths DEF Commit, At, Back, Goto, Goroutines, Objects, Goroutine, Object, Others,
     Closing, Spare, Distinct, Shape, Located, Blank, Detached, fileVars, history
<1>23. ASSUME NEW r \in Request, ClaimRefused(r) PROVE (\A q \in Request : Spare(q))'
  <2>1. End(r) \/ Goto(r, "drop")
    BY <1>23 DEF ClaimRefused, Fail
  <2> QED BY <1>23, <2>1, EndMoves, GotoMoves, Paths DEF ClaimRefused, Goroutines, Objects,
             Goroutine, Object, Others, Closing, Spare, Distinct, Shape, Located, Blank,
             Detached
<1>24. ASSUME NEW r \in Request, Queue(r) PROVE (\A q \in Request : Spare(q))'
  BY <1>24, Paths DEF Queue, At, On, Chosen, End, Unserved, Busy, Goroutines, Objects,
     Goroutine, Object, Others, Closing, Spare, Distinct, Shape, Located, Blank, Detached,
     fileVars, history
<1>25. ASSUME NEW r \in Request, Claim(r) PROVE (\A q \in Request : Spare(q))'
  BY <1>25, Paths DEF Claim, At, On, Busy, Chosen, Goroutines, Objects, Goroutine, Object,
     Others, Closing, Spare, Distinct, Shape, Located, Blank, Detached, fileVars, history
<1>26. ASSUME NEW r \in Request, Build(r) PROVE (\A q \in Request : Spare(q))'
  BY <1>26, Paths DEF Build, At, FreeCtrls, Goroutines, Objects, Goroutine, Object, Others,
     Closing, Spare, Distinct, Shape, Located, Blank, Detached, fileVars, history
<1>27. ASSUME NEW r \in Request, BuildFails(r) PROVE (\A q \in Request : Spare(q))'
  BY <1>27, Paths DEF BuildFails, At, Goto, Goroutines, Objects, Goroutine, Object, Others,
     Closing, Spare, Distinct, Shape, Located, Blank, Detached, fileVars, history
<1>28. ASSUME NEW r \in Request, Swap(r) PROVE (\A q \in Request : Spare(q))'
  BY <1>28, Paths DEF Swap, At, On, SaveMeta, Goroutines, Objects, Goroutine, Object, Others,
     Closing, Spare, Distinct, Shape, Located, Blank, Detached, fileVars, history
<1>29. ASSUME NEW r \in Request, SwapRefused(r) PROVE (\A q \in Request : Spare(q))'
  BY <1>29, Paths DEF SwapRefused, At, On, Goroutines, Objects, Goroutine, Object, Others,
     Closing, Spare, Distinct, Shape, Located, Blank, Detached, fileVars, history
<1>30. ASSUME NEW r \in Request, Retire(r) PROVE (\A q \in Request : Spare(q))'
  BY <1>30, Paths DEF Retire, At, Goroutines, Objects, Goroutine, Object, Others, Closing,
     Spare, Distinct, Shape, Located, Blank, Detached, fileVars, history
<1>31. ASSUME NEW r \in Request, Unwind(r) PROVE (\A q \in Request : Spare(q))'
  BY <1>31, Paths DEF Unwind, At, Wake, Goto, Goroutines, Objects, Goroutine, Object, Others,
     Closing, Spare, Distinct, Shape, Located, Blank, Detached, fileVars, history
<1>32. ASSUME NEW r \in Request, Abandon(r) PROVE (\A q \in Request : Spare(q))'
  <2>1. \A q \in Request : req'[q].next \in {req[q].next, None}
    <3>1. CASE End(r)
      BY <3>1, EndMoves
    <3>2. CASE ~End(r)
      BY <1>32, <3>2 DEF Abandon, Goroutines, Goroutine
    <3> QED BY <3>1, <3>2
  <2>2. UNCHANGED closed
    BY <1>32 DEF Abandon
  <2> QED BY <2>1, <2>2, Paths DEF Spare, Closing, Others
<1>33. ASSUME NEW r \in Request, Apply(r) PROVE (\A q \in Request : Spare(q))'
  <2>1. \A q \in Request : req'[q].next \in {req[q].next, None}
    <3>1. CASE End(r)
      BY <3>1, EndMoves
    <3>2. CASE ~End(r)
      BY <1>33, <3>2 DEF Apply, Goto, Goroutines, Goroutine
    <3> QED BY <3>1, <3>2
  <2>2. UNCHANGED closed
    BY <1>33 DEF Apply
  <2> QED BY <2>1, <2>2, Paths DEF Spare, Closing, Others
<1>34. ASSUME NEW r \in Request, Copy(r) PROVE (\A q \in Request : Spare(q))'
  <2>1. \A q \in Request : req'[q].next \in {req[q].next, None}
    <3>1. CASE End(r)
      BY <3>1, EndMoves
    <3>2. CASE ~End(r)
      BY <1>34, <3>2 DEF Copy, Goroutines, Goroutine
    <3> QED BY <3>1, <3>2
  <2>2. UNCHANGED closed
    BY <1>34 DEF Copy
  <2> QED BY <2>1, <2>2, Paths DEF Spare, Closing, Others
<1>35. ASSUME NEW r \in Request, Drop(r) PROVE (\A q \in Request : Spare(q))'
  BY <1>35, Paths DEF Drop, At, On, MayDrop, Void, End, Unserved, Busy, Goroutines, Objects,
     Goroutine, Object, Others, Closing, Spare, Distinct, Shape, Located, Blank, Detached,
     fileVars, history
<1>36. ASSUME NEW r \in Request, Abort(r) PROVE (\A q \in Request : Spare(q))'
  BY <1>36, Paths DEF Abort, At, On, Awaited, Interrupted, Goto, Goroutines, Objects, Goroutine,
     Object, Others, Closing, Spare, Distinct, Shape, Located, Blank, Detached, fileVars,
     history
<1>37. ASSUME NEW r \in Request, Waited(r) PROVE (\A q \in Request : Spare(q))'
  BY <1>37, Paths DEF Waited, At, Goto, Goroutines, Objects, Goroutine, Object, Others, Closing,
     Spare, Distinct, Shape, Located, Blank, Detached, fileVars, history
<1>38. ASSUME NEW r \in Request, Shut(r) PROVE (\A q \in Request : Spare(q))'
  <2>1. req[r].on \in Session /\ sess[req[r].on].ctrl # None
         /\ closed' = closed \cup {sess[req[r].on].ctrl}
    BY <1>38 DEF Shut, At, On, Shape, Located, Goroutines, Goroutine, Blank, Detached
  <2>2. \A q \in Request : req'[q].next = req[q].next
    BY <1>38 DEF Shut, Goto, Goroutines, Goroutine
  <2> QED BY <2>1, <2>2, Paths DEF Spare, Closing, Distinct, Others
<1>39. ASSUME NEW r \in Request, Release(r) PROVE (\A q \in Request : Spare(q))'
  <2>1. \A q \in Request : req'[q].next \in {req[q].next, None}
    <3>1. CASE End(r)
      BY <3>1, EndMoves
    <3>2. CASE ~End(r)
      BY <1>39, <3>2 DEF Release, Goto, Goroutines, Goroutine
    <3> QED BY <3>1, <3>2
  <2>2. UNCHANGED closed
    BY <1>39 DEF Release
  <2> QED BY <2>1, <2>2, Paths DEF Spare, Closing, Others
<1>40. ASSUME NEW r \in Request, Destroy(r) PROVE (\A q \in Request : Spare(q))'
  <2>1. req[r].on \in Session /\ sess[req[r].on].ctrl # None
         /\ closed' = closed \cup {sess[req[r].on].ctrl}
    BY <1>40 DEF Destroy, At, On, Shape, Located, Goroutines, Goroutine, Blank, Detached
  <2>2. \A q \in Request : req'[q].next = req[q].next
    BY <1>40 DEF Destroy, Goto, Goroutines, Goroutine
  <2> QED BY <2>1, <2>2, Paths DEF Spare, Closing, Distinct, Others
<1>41. ASSUME NEW r \in Request, Erase(r) PROVE (\A q \in Request : Spare(q))'
  BY <1>41, Paths DEF Erase, At, Remove, Goto, Goroutines, Objects, Goroutine, Object, Others,
     Closing, Spare, Distinct, Shape, Located, Blank, Detached, fileVars, history
<1>42. ASSUME NEW r \in Request, Twin(r) PROVE (\A q \in Request : Spare(q))'
  <2>1. \A q \in Request : req'[q].next \in {req[q].next, None}
    <3>1. CASE End(r)
      BY <3>1, EndMoves
    <3>2. CASE ~End(r)
      BY <1>42, <3>2 DEF Twin, Goto, Goroutines, Goroutine
    <3> QED BY <3>1, <3>2
  <2>2. UNCHANGED closed
    BY <1>42 DEF Twin
  <2> QED BY <2>1, <2>2, Paths DEF Spare, Closing, Others
<1>43. ASSUME NEW r \in Request, Linger(r) PROVE (\A q \in Request : Spare(q))'
  BY <1>43, Paths DEF Linger, At, Remove, End, Unserved, Goroutines, Objects, Goroutine, Object,
     Others, Closing, Spare, Distinct, Shape, Located, Blank, Detached, fileVars, history
<1>44. ASSUME NEW r \in Request, ResolveAgain(r) PROVE (\A q \in Request : Spare(q))'
  <2>1. \A q \in Request : req'[q].next \in {req[q].next, None}
    <3>1. CASE End(r)
      BY <3>1, EndMoves
    <3>2. CASE ~End(r)
      BY <1>44, <3>2 DEF ResolveAgain, Goroutines, Goroutine
    <3> QED BY <3>1, <3>2
  <2>2. UNCHANGED closed
    BY <1>44 DEF ResolveAgain
  <2> QED BY <2>1, <2>2, Paths DEF Spare, Closing, Others
<1>45. ASSUME NEW r \in Request, Acquire(r) PROVE (\A q \in Request : Spare(q))'
  <2>1. End(r) \/ Goto(r, "read")
    BY <1>45 DEF Acquire
  <2> QED BY <1>45, <2>1, EndMoves, GotoMoves, Paths DEF Acquire, Goroutines, Objects,
             Goroutine, Object, Others, Closing, Spare, Distinct, Shape, Located, Blank,
             Detached
<1>46. ASSUME NEW r \in Request, Read(r) PROVE (\A q \in Request : Spare(q))'
  BY <1>46, Paths DEF Read, At, FreeCtrls, Opened, Goto, Race, Overlap, Goroutines, Objects,
     Goroutine, Object, Others, Closing, Spare, Distinct, Shape, Located, Blank, Detached,
     fileVars, history
<1>47. ASSUME NEW r \in Request, ReadFails(r) PROVE (\A q \in Request : Spare(q))'
  BY <1>47, Paths DEF ReadFails, At, Unlock, End, Unserved, Goroutines, Objects, Goroutine,
     Object, Others, Closing, Spare, Distinct, Shape, Located, Blank, Detached, fileVars,
     history
<1>48. ASSUME NEW r \in Request, LoadMeta(r) PROVE (\A q \in Request : Spare(q))'
  BY <1>48, Paths DEF LoadMeta, At, SaveMeta, Goto, Goroutines, Objects, Goroutine, Object,
     Others, Closing, Spare, Distinct, Shape, Located, Blank, Detached, fileVars, history
<1>49. ASSUME NEW r \in Request, LoadMetaFails(r) PROVE (\A q \in Request : Spare(q))'
  BY <1>49, Paths DEF LoadMetaFails, At, Unlock, End, Unserved, Opened, Unopened, Goroutines,
     Objects, Goroutine, Object, Others, Closing, Spare, Distinct, Shape, Located, Blank,
     Detached, fileVars, history
<1>50. ASSUME NEW r \in Request, Register(r) PROVE (\A q \in Request : Spare(q))'
  BY <1>50, Paths DEF Register, At, End, Unserved, Goroutines, Objects, Goroutine, Object,
     Others, Closing, Spare, Distinct, Shape, Located, Blank, Detached, fileVars, history
<1>51. ASSUME NEW p \in Path, OtherAcquires(p) PROVE (\A q \in Request : Spare(q))'
  BY <1>51, Paths DEF OtherAcquires, Goroutines, Objects, Goroutine, Object, Others, Closing,
     Spare, Distinct, Shape, Located, Blank, Detached, fileVars, history
<1>52. ASSUME NEW p \in Path, OtherReleases(p) PROVE (\A q \in Request : Spare(q))'
  BY <1>52, Paths DEF OtherReleases, Unlock, Goroutines, Objects, Goroutine, Object, Others,
     Closing, Spare, Distinct, Shape, Located, Blank, Detached, fileVars, history
<1>53. ASSUME NEW p \in Path, Reconcile(p) PROVE (\A q \in Request : Spare(q))'
  BY <1>53, Paths DEF Reconcile, Remove, Goroutines, Objects, Goroutine, Object, Others,
     Closing, Spare, Distinct, Shape, Located, Blank, Detached, fileVars, history
<1>54. CASE Crash
  BY <1>54, Paths DEF Crash, Unserved, Unopened, Opened, At, Goroutines, Objects, Goroutine,
     Object, Others, Closing, Spare, Distinct, Shape, Located, Blank, Detached, fileVars,
     history
<1> QED BY <1>1, <1>2, <1>3, <1>4, <1>5, <1>6, <1>7, <1>8, <1>9, <1>10, <1>11, <1>12, <1>13,
           <1>14, <1>15, <1>16, <1>17, <1>18, <1>19, <1>20, <1>21, <1>22, <1>23, <1>24, <1>25,
           <1>26, <1>27, <1>28, <1>29, <1>30, <1>31, <1>32, <1>33, <1>34, <1>35, <1>36, <1>37,
           <1>38, <1>39, <1>40, <1>41, <1>42, <1>43, <1>44, <1>45, <1>46, <1>47, <1>48, <1>49,
           <1>50, <1>51, <1>52, <1>53, <1>54 DEF Next, Start, Continue, Turn, Save, Rebuild,
           Close, Open

LEMMA AliveStep ==
  ASSUME Goroutines, Objects, Others, Shape, Work, Distinct, Closing, [Next]_vars
  PROVE  Alive'
<1>1. CASE UNCHANGED vars
  BY <1>1 DEF Goroutines, Objects, Goroutine, Object, Closing, Alive, Fresh, Idle, On, Gone,
     Closes, Distinct, Shape, Alone, Opens, Located, Blank, Detached, vars, fileVars, history
<1>2. ASSUME NEW r \in Request, Prompt(r) PROVE Alive'
  BY <1>2, Paths DEF Prompt, Serve, At, Goroutines, Objects, Goroutine, Object, Closing, Alive,
     Fresh, Idle, On, Gone, Closes, Distinct, Shape, Alone, Opens, Located, Blank, Detached,
     fileVars, history
<1>3. ASSUME NEW r \in Request, SetConfig(r) PROVE Alive'
  BY <1>3, Paths DEF SetConfig, At, Goroutines, Objects, Goroutine, Object, Closing, Alive,
     Fresh, Idle, On, Gone, Closes, Distinct, Shape, Alone, Opens, Located, Blank, Detached,
     fileVars, history
<1>4. ASSUME NEW r \in Request, Take(r) PROVE Alive'
  BY <1>4, Paths DEF Take, At, Goroutines, Objects, Goroutine, Object, Closing, Alive, Fresh,
     Idle, On, Gone, Closes, Distinct, Shape, Alone, Opens, Located, Blank, Detached, fileVars,
     history
<1>5. ASSUME NEW r \in Request, DeleteClosed(r) PROVE Alive'
  BY <1>5, Paths DEF DeleteClosed, Serve, At, Race, Resolve, Goroutines, Objects, Goroutine,
     Object, Closing, Alive, Fresh, Idle, On, Gone, Closes, Distinct, Shape, Alone, Opens,
     Located, Blank, Detached, fileVars, history
<1>6. ASSUME NEW r \in Request, Load(r) PROVE Alive'
  BY <1>6, Paths DEF Load, At, FreeSessions, Resolve, Unserved, Goroutines, Objects, Goroutine,
     Object, Closing, Alive, Fresh, Idle, On, Gone, Closes, Distinct, Shape, Alone, Opens,
     Located, Blank, Detached, fileVars, history
<1>7. ASSUME NEW r \in Request, Begin(r) PROVE Alive'
  BY <1>7, Paths DEF Begin, MayBegin, On, Goto, Late, At, Goroutines, Objects, Goroutine,
     Object, Closing, Alive, Fresh, Idle, On, Gone, Closes, Distinct, Shape, Alone, Opens,
     Located, Blank, Detached, fileVars, history
<1>8. ASSUME NEW r \in Request, BeginRefused(r) PROVE Alive'
  BY <1>8, Paths DEF BeginRefused, End, At, Unserved, Goroutines, Objects, Goroutine, Object,
     Closing, Alive, Fresh, Idle, On, Gone, Closes, Distinct, Shape, Alone, Opens, Located,
     Blank, Detached, fileVars, history
<1>9. ASSUME NEW r \in Request, Enter(r) PROVE Alive'
  BY <1>9, Paths DEF Enter, On, At, Goroutines, Objects, Goroutine, Object, Closing, Alive,
     Fresh, Idle, On, Gone, Closes, Distinct, Shape, Alone, Opens, Located, Blank, Detached,
     fileVars, history
<1>10. ASSUME NEW r \in Request, Persist(r) PROVE Alive'
  BY <1>10, Paths DEF Persist, On, At, Goroutines, Objects, Goroutine, Object, Closing, Alive,
     Fresh, Idle, On, Gone, Closes, Distinct, Shape, Alone, Opens, Located, Blank, Detached,
     fileVars, history
<1>11. ASSUME NEW r \in Request, Stamp(r) PROVE Alive'
  BY <1>11, Paths DEF Stamp, On, At, Goto, SaveMeta, Goroutines, Objects, Goroutine, Object,
     Closing, Alive, Fresh, Idle, On, Gone, Closes, Distinct, Shape, Alone, Opens, Located,
     Blank, Detached, fileVars, history
<1>12. ASSUME NEW r \in Request, Finish(r) PROVE Alive'
  BY <1>12, Paths DEF Finish, At, Wake, Goroutines, Objects, Goroutine, Object, Closing, Alive,
     Fresh, Idle, On, Gone, Closes, Distinct, Shape, Alone, Opens, Located, Blank, Detached,
     fileVars, history
<1>13. ASSUME NEW r \in Request, TurnReturns(r) PROVE Alive'
  BY <1>13, Paths DEF TurnReturns, At, Goroutines, Objects, Goroutine, Object, Closing, Alive,
     Fresh, Idle, On, Gone, Closes, Distinct, Shape, Alone, Opens, Located, Blank, Detached,
     fileVars, history
<1>14. ASSUME NEW r \in Request, Cancel(r) PROVE Alive'
  BY <1>14, Paths DEF Cancel, Goroutines, Objects, Goroutine, Object, Closing, Alive, Fresh,
     Idle, On, Gone, Closes, Distinct, Shape, Alone, Opens, Located, Blank, Detached, fileVars,
     history
<1>15. ASSUME NEW r \in Request, Saved(r) PROVE Alive'
  BY <1>15, Paths DEF Saved, At, Back, Goto, Goroutines, Objects, Goroutine, Object, Closing,
     Alive, Fresh, Idle, On, Gone, Closes, Distinct, Shape, Alone, Opens, Located, Blank,
     Detached, fileVars, history
<1>16. ASSUME NEW r \in Request, NotSaved(r) PROVE Alive'
  BY <1>16, Paths DEF NotSaved, At, Back, Goto, Goroutines, Objects, Goroutine, Object, Closing,
     Alive, Fresh, Idle, On, Gone, Closes, Distinct, Shape, Alone, Opens, Located, Blank,
     Detached, fileVars, history
<1>17. ASSUME NEW r \in Request, Recover(r) PROVE Alive'
  BY <1>17, Paths DEF Recover, At, Goroutines, Objects, Goroutine, Object, Closing, Alive,
     Fresh, Idle, On, Gone, Closes, Distinct, Shape, Alone, Opens, Located, Blank, Detached,
     fileVars, history
<1>18. ASSUME NEW r \in Request, Follow(r) PROVE Alive'
  BY <1>18, Paths DEF Follow, At, Goroutines, Objects, Goroutine, Object, Closing, Alive, Fresh,
     Idle, On, Gone, Closes, Distinct, Shape, Alone, Opens, Located, Blank, Detached, fileVars,
     history
<1>19. ASSUME NEW r \in Request, Secure(r) PROVE Alive'
  BY <1>19, Paths DEF Secure, At, Goto, Back, Goroutines, Objects, Goroutine, Object, Closing,
     Alive, Fresh, Idle, On, Gone, Closes, Distinct, Shape, Alone, Opens, Located, Blank,
     Detached, fileVars, history
<1>20. ASSUME NEW r \in Request, Assign(r) PROVE Alive'
  <2>1. req[r].to \in Session /\ req[r].at \in Path
    BY <1>20 DEF Assign, At, Shape, Located, Goroutines, Goroutine
  <2>2. \A s \in Session : /\ sess'[s].ctrl = sess[s].ctrl /\ sess'[s].deleted = sess[s].deleted
                           /\ sess[s].lease # None => sess'[s].lease # None
    <3>1. CASE UNCHANGED sess
      BY <3>1
    <3>2. CASE MoveTo(req[r].to, req[r].at)
      BY <2>1, <3>2, Paths DEF MoveTo, Objects, Object
    <3> QED BY <1>20, <3>1, <3>2 DEF Assign
  <2>3. UNCHANGED <<live, closed>>
    BY <1>20 DEF Assign
  <2> QED BY <2>2, <2>3, Paths DEF Others, Closing, Alive
<1>21. ASSUME NEW r \in Request, Redirect(r) PROVE Alive'
  BY <1>21, Paths DEF Redirect, At, RedirectTo, Goto, Goroutines, Objects, Goroutine, Object,
     Closing, Alive, Fresh, Idle, On, Gone, Closes, Distinct, Shape, Alone, Opens, Located,
     Blank, Detached, fileVars, history
<1>22. ASSUME NEW r \in Request, Commit(r) PROVE Alive'
  BY <1>22, Paths DEF Commit, At, Back, Goto, Goroutines, Objects, Goroutine, Object, Closing,
     Alive, Fresh, Idle, On, Gone, Closes, Distinct, Shape, Alone, Opens, Located, Blank,
     Detached, fileVars, history
<1>23. ASSUME NEW r \in Request, ClaimRefused(r) PROVE Alive'
  BY <1>23, Paths DEF ClaimRefused, At, Fail, Goto, End, Unserved, Goroutines, Objects,
     Goroutine, Object, Closing, Alive, Fresh, Idle, On, Gone, Closes, Distinct, Shape, Alone,
     Opens, Located, Blank, Detached, fileVars, history
<1>24. ASSUME NEW r \in Request, Queue(r) PROVE Alive'
  BY <1>24, Paths DEF Queue, At, On, Chosen, End, Unserved, Busy, Goroutines, Objects,
     Goroutine, Object, Closing, Alive, Fresh, Idle, On, Gone, Closes, Distinct, Shape, Alone,
     Opens, Located, Blank, Detached, fileVars, history
<1>25. ASSUME NEW r \in Request, Claim(r) PROVE Alive'
  <2>1. \A s \in Session : sess'[s].ctrl = sess[s].ctrl /\ sess'[s].deleted = sess[s].deleted
         /\ sess'[s].lease = sess[s].lease
    BY <1>25 DEF Claim, Objects, Object
  <2>2. UNCHANGED <<live, closed>>
    BY <1>25 DEF Claim
  <2> QED BY <2>1, <2>2, Paths DEF Others, Closing, Alive
<1>26. ASSUME NEW r \in Request, Build(r) PROVE Alive'
  BY <1>26, Paths DEF Build, At, FreeCtrls, Goroutines, Objects, Goroutine, Object, Closing,
     Alive, Fresh, Idle, On, Gone, Closes, Distinct, Shape, Alone, Opens, Located, Blank,
     Detached, fileVars, history
<1>27. ASSUME NEW r \in Request, BuildFails(r) PROVE Alive'
  BY <1>27, Paths DEF BuildFails, At, Goto, Goroutines, Objects, Goroutine, Object, Closing,
     Alive, Fresh, Idle, On, Gone, Closes, Distinct, Shape, Alone, Opens, Located, Blank,
     Detached, fileVars, history
<1>28. ASSUME NEW r \in Request, Swap(r) PROVE Alive'
  BY <1>28, Paths DEF Swap, At, On, SaveMeta, Goroutines, Objects, Goroutine, Object, Closing,
     Alive, Fresh, Idle, On, Gone, Closes, Distinct, Shape, Alone, Opens, Located, Blank,
     Detached, fileVars, history
<1>29. ASSUME NEW r \in Request, SwapRefused(r) PROVE Alive'
  BY <1>29, Paths DEF SwapRefused, At, On, Goroutines, Objects, Goroutine, Object, Closing,
     Alive, Fresh, Idle, On, Gone, Closes, Distinct, Shape, Alone, Opens, Located, Blank,
     Detached, fileVars, history
<1>30. ASSUME NEW r \in Request, Retire(r) PROVE Alive'
  BY <1>30, Paths DEF Retire, At, Goroutines, Objects, Goroutine, Object, Closing, Alive, Fresh,
     Idle, On, Gone, Closes, Distinct, Shape, Alone, Opens, Located, Blank, Detached, fileVars,
     history
<1>31. ASSUME NEW r \in Request, Unwind(r) PROVE Alive'
  BY <1>31, Paths DEF Unwind, At, Wake, Goto, Goroutines, Objects, Goroutine, Object, Closing,
     Alive, Fresh, Idle, On, Gone, Closes, Distinct, Shape, Alone, Opens, Located, Blank,
     Detached, fileVars, history
<1>32. ASSUME NEW r \in Request, Abandon(r) PROVE Alive'
  BY <1>32, Paths DEF Abandon, At, Wake, On, Void, End, Unserved, Goroutines, Objects,
     Goroutine, Object, Closing, Alive, Fresh, Idle, On, Gone, Closes, Distinct, Shape, Alone,
     Opens, Located, Blank, Detached, fileVars, history
<1>33. ASSUME NEW r \in Request, Apply(r) PROVE Alive'
  BY <1>33, Paths DEF Apply, At, Goto, End, Unserved, Goroutines, Objects, Goroutine, Object,
     Closing, Alive, Fresh, Idle, On, Gone, Closes, Distinct, Shape, Alone, Opens, Located,
     Blank, Detached, fileVars, history
<1>34. ASSUME NEW r \in Request, Copy(r) PROVE Alive'
  BY <1>34, Paths DEF Copy, At, On, End, Unserved, Goroutines, Objects, Goroutine, Object,
     Closing, Alive, Fresh, Idle, On, Gone, Closes, Distinct, Shape, Alone, Opens, Located,
     Blank, Detached, fileVars, history
<1>35. ASSUME NEW r \in Request, Drop(r) PROVE Alive'
  BY <1>35, Paths DEF Drop, At, On, MayDrop, Void, End, Unserved, Busy, Goroutines, Objects,
     Goroutine, Object, Closing, Alive, Fresh, Idle, On, Gone, Closes, Distinct, Shape, Alone,
     Opens, Located, Blank, Detached, fileVars, history
<1>36. ASSUME NEW r \in Request, Abort(r) PROVE Alive'
  BY <1>36, Paths DEF Abort, At, On, Awaited, Interrupted, Goto, Goroutines, Objects, Goroutine,
     Object, Closing, Alive, Fresh, Idle, On, Gone, Closes, Distinct, Shape, Alone, Opens,
     Located, Blank, Detached, fileVars, history
<1>37. ASSUME NEW r \in Request, Waited(r) PROVE Alive'
  BY <1>37, Paths DEF Waited, At, Goto, Goroutines, Objects, Goroutine, Object, Closing, Alive,
     Fresh, Idle, On, Gone, Closes, Distinct, Shape, Alone, Opens, Located, Blank, Detached,
     fileVars, history
<1>38. ASSUME NEW r \in Request, Shut(r) PROVE Alive'
  <2>1. /\ req[r].on \in Session /\ req[r].on # live
        /\ closed' = closed \cup {sess[req[r].on].ctrl} /\ UNCHANGED <<live, sess>>
    BY <1>38 DEF Shut, At, On, Shape, Located, Goroutines, Goroutine, Blank, Detached, Closing,
       Gone, Closes
  <2>2. live # None => live \in Session /\ sess[live].ctrl # None
    BY DEF Others, Shape
  <2> QED BY <2>1, <2>2 DEF Alive, Closing, Distinct
<1>39. ASSUME NEW r \in Request, Release(r) PROVE Alive'
  BY <1>39, Paths DEF Release, At, Unlock, On, Goto, End, Unserved, Goroutines, Objects,
     Goroutine, Object, Closing, Alive, Fresh, Idle, On, Gone, Closes, Distinct, Shape, Alone,
     Opens, Located, Blank, Detached, fileVars, history
<1>40. ASSUME NEW r \in Request, Destroy(r) PROVE Alive'
  <2>1. /\ req[r].on \in Session /\ req[r].on # live
        /\ closed' = closed \cup {sess[req[r].on].ctrl} /\ UNCHANGED <<live, sess>>
    BY <1>40 DEF Destroy, At, On, Shape, Located, Goroutines, Goroutine, Blank, Detached,
       Closing, Gone, Closes
  <2>2. live # None => live \in Session /\ sess[live].ctrl # None
    BY DEF Others, Shape
  <2> QED BY <2>1, <2>2 DEF Alive, Closing, Distinct
<1>41. ASSUME NEW r \in Request, Erase(r) PROVE Alive'
  BY <1>41, Paths DEF Erase, At, Remove, Goto, Goroutines, Objects, Goroutine, Object, Closing,
     Alive, Fresh, Idle, On, Gone, Closes, Distinct, Shape, Alone, Opens, Located, Blank,
     Detached, fileVars, history
<1>42. ASSUME NEW r \in Request, Twin(r) PROVE Alive'
  BY <1>42, Paths DEF Twin, At, RemoveTwin, Remove, Goto, End, Unserved, Goroutines, Objects,
     Goroutine, Object, Closing, Alive, Fresh, Idle, On, Gone, Closes, Distinct, Shape, Alone,
     Opens, Located, Blank, Detached, fileVars, history
<1>43. ASSUME NEW r \in Request, Linger(r) PROVE Alive'
  BY <1>43, Paths DEF Linger, At, Remove, End, Unserved, Goroutines, Objects, Goroutine, Object,
     Closing, Alive, Fresh, Idle, On, Gone, Closes, Distinct, Shape, Alone, Opens, Located,
     Blank, Detached, fileVars, history
<1>44. ASSUME NEW r \in Request, ResolveAgain(r) PROVE Alive'
  BY <1>44, Paths DEF ResolveAgain, At, Resolve, End, Unserved, Goroutines, Objects, Goroutine,
     Object, Closing, Alive, Fresh, Idle, On, Gone, Closes, Distinct, Shape, Alone, Opens,
     Located, Blank, Detached, fileVars, history
<1>45. ASSUME NEW r \in Request, Acquire(r) PROVE Alive'
  BY <1>45, Paths DEF Acquire, At, Goto, End, Unserved, Goroutines, Objects, Goroutine, Object,
     Closing, Alive, Fresh, Idle, On, Gone, Closes, Distinct, Shape, Alone, Opens, Located,
     Blank, Detached, fileVars, history
<1>46. ASSUME NEW r \in Request, Read(r) PROVE Alive'
  BY <1>46, Paths DEF Read, At, FreeCtrls, Opened, Goto, Race, Overlap, Goroutines, Objects,
     Goroutine, Object, Closing, Alive, Fresh, Idle, On, Gone, Closes, Distinct, Shape, Alone,
     Opens, Located, Blank, Detached, fileVars, history
<1>47. ASSUME NEW r \in Request, ReadFails(r) PROVE Alive'
  BY <1>47, Paths DEF ReadFails, At, Unlock, End, Unserved, Goroutines, Objects, Goroutine,
     Object, Closing, Alive, Fresh, Idle, On, Gone, Closes, Distinct, Shape, Alone, Opens,
     Located, Blank, Detached, fileVars, history
<1>48. ASSUME NEW r \in Request, LoadMeta(r) PROVE Alive'
  BY <1>48, Paths DEF LoadMeta, At, SaveMeta, Goto, Goroutines, Objects, Goroutine, Object,
     Closing, Alive, Fresh, Idle, On, Gone, Closes, Distinct, Shape, Alone, Opens, Located,
     Blank, Detached, fileVars, history
<1>49. ASSUME NEW r \in Request, LoadMetaFails(r) PROVE Alive'
  BY <1>49, Paths DEF LoadMetaFails, At, Unlock, End, Unserved, Opened, Unopened, Goroutines,
     Objects, Goroutine, Object, Closing, Alive, Fresh, Idle, On, Gone, Closes, Distinct, Shape,
     Alone, Opens, Located, Blank, Detached, fileVars, history
<1>50. ASSUME NEW r \in Request, Register(r) PROVE Alive'
  BY <1>50, Paths DEF Register, At, End, Unserved, Goroutines, Objects, Goroutine, Object,
     Closing, Alive, Fresh, Idle, On, Gone, Closes, Distinct, Shape, Alone, Opens, Located,
     Blank, Detached, fileVars, history
<1>51. ASSUME NEW p \in Path, OtherAcquires(p) PROVE Alive'
  BY <1>51, Paths DEF OtherAcquires, Goroutines, Objects, Goroutine, Object, Closing, Alive,
     Fresh, Idle, On, Gone, Closes, Distinct, Shape, Alone, Opens, Located, Blank, Detached,
     fileVars, history
<1>52. ASSUME NEW p \in Path, OtherReleases(p) PROVE Alive'
  BY <1>52, Paths DEF OtherReleases, Unlock, Goroutines, Objects, Goroutine, Object, Closing,
     Alive, Fresh, Idle, On, Gone, Closes, Distinct, Shape, Alone, Opens, Located, Blank,
     Detached, fileVars, history
<1>53. ASSUME NEW p \in Path, Reconcile(p) PROVE Alive'
  BY <1>53, Paths DEF Reconcile, Remove, Goroutines, Objects, Goroutine, Object, Closing, Alive,
     Fresh, Idle, On, Gone, Closes, Distinct, Shape, Alone, Opens, Located, Blank, Detached,
     fileVars, history
<1>54. CASE Crash
  BY <1>54, Paths DEF Crash, Unserved, Unopened, Opened, At, Goroutines, Objects, Goroutine,
     Object, Closing, Alive, Fresh, Idle, On, Gone, Closes, Distinct, Shape, Alone, Opens,
     Located, Blank, Detached, fileVars, history
<1> QED BY <1>1, <1>2, <1>3, <1>4, <1>5, <1>6, <1>7, <1>8, <1>9, <1>10, <1>11, <1>12, <1>13,
           <1>14, <1>15, <1>16, <1>17, <1>18, <1>19, <1>20, <1>21, <1>22, <1>23, <1>24, <1>25,
           <1>26, <1>27, <1>28, <1>29, <1>30, <1>31, <1>32, <1>33, <1>34, <1>35, <1>36, <1>37,
           <1>38, <1>39, <1>40, <1>41, <1>42, <1>43, <1>44, <1>45, <1>46, <1>47, <1>48, <1>49,
           <1>50, <1>51, <1>52, <1>53, <1>54 DEF Next, Start, Continue, Turn, Save, Rebuild,
           Close, Open

LEMMA FreshStep ==
  ASSUME Goroutines, Objects, Others, Shape, Work, Distinct, Closing, [Next]_vars
  PROVE  (\A q \in Request : Fresh(q))'
<1>1. CASE UNCHANGED vars
  BY <1>1 DEF Goroutines, Objects, Goroutine, Object, Others, Closing, Fresh, Idle, On,
     Distinct, Shape, Alone, Opens, Located, Blank, Detached, vars, fileVars, history
<1>2. ASSUME NEW r \in Request, Prompt(r) PROVE (\A q \in Request : Fresh(q))'
  BY <1>2, Paths DEF Prompt, Serve, At, Goroutines, Objects, Goroutine, Object, Others, Closing,
     Fresh, Idle, On, Distinct, Shape, Alone, Opens, Located, Blank, Detached, fileVars, history
<1>3. ASSUME NEW r \in Request, SetConfig(r) PROVE (\A q \in Request : Fresh(q))'
  BY <1>3, Paths DEF SetConfig, At, Goroutines, Objects, Goroutine, Object, Others, Closing,
     Fresh, Idle, On, Distinct, Shape, Alone, Opens, Located, Blank, Detached, fileVars, history
<1>4. ASSUME NEW r \in Request, Take(r) PROVE (\A q \in Request : Fresh(q))'
  BY <1>4, Paths DEF Take, At, Goroutines, Objects, Goroutine, Object, Others, Closing, Fresh,
     Idle, On, Distinct, Shape, Alone, Opens, Located, Blank, Detached, fileVars, history
<1>5. ASSUME NEW r \in Request, DeleteClosed(r) PROVE (\A q \in Request : Fresh(q))'
  BY <1>5, Paths DEF DeleteClosed, Serve, At, Race, Resolve, Goroutines, Objects, Goroutine,
     Object, Others, Closing, Fresh, Idle, On, Distinct, Shape, Alone, Opens, Located, Blank,
     Detached, fileVars, history
<1>6. ASSUME NEW r \in Request, Load(r) PROVE (\A q \in Request : Fresh(q))'
  BY <1>6, Paths DEF Load, At, FreeSessions, Resolve, Unserved, Goroutines, Objects, Goroutine,
     Object, Others, Closing, Fresh, Idle, On, Distinct, Shape, Alone, Opens, Located, Blank,
     Detached, fileVars, history
<1>7. ASSUME NEW r \in Request, Begin(r) PROVE (\A q \in Request : Fresh(q))'
  BY <1>7, Paths DEF Begin, MayBegin, On, Goto, Late, At, Goroutines, Objects, Goroutine,
     Object, Others, Closing, Fresh, Idle, On, Distinct, Shape, Alone, Opens, Located, Blank,
     Detached, fileVars, history
<1>8. ASSUME NEW r \in Request, BeginRefused(r) PROVE (\A q \in Request : Fresh(q))'
  BY <1>8, Paths DEF BeginRefused, End, At, Unserved, Goroutines, Objects, Goroutine, Object,
     Others, Closing, Fresh, Idle, On, Distinct, Shape, Alone, Opens, Located, Blank, Detached,
     fileVars, history
<1>9. ASSUME NEW r \in Request, Enter(r) PROVE (\A q \in Request : Fresh(q))'
  BY <1>9, Paths DEF Enter, On, At, Goroutines, Objects, Goroutine, Object, Others, Closing,
     Fresh, Idle, On, Distinct, Shape, Alone, Opens, Located, Blank, Detached, fileVars, history
<1>10. ASSUME NEW r \in Request, Persist(r) PROVE (\A q \in Request : Fresh(q))'
  BY <1>10, Paths DEF Persist, On, At, Goroutines, Objects, Goroutine, Object, Others, Closing,
     Fresh, Idle, On, Distinct, Shape, Alone, Opens, Located, Blank, Detached, fileVars, history
<1>11. ASSUME NEW r \in Request, Stamp(r) PROVE (\A q \in Request : Fresh(q))'
  BY <1>11, Paths DEF Stamp, On, At, Goto, SaveMeta, Goroutines, Objects, Goroutine, Object,
     Others, Closing, Fresh, Idle, On, Distinct, Shape, Alone, Opens, Located, Blank, Detached,
     fileVars, history
<1>12. ASSUME NEW r \in Request, Finish(r) PROVE (\A q \in Request : Fresh(q))'
  BY <1>12, Paths DEF Finish, At, Wake, Goroutines, Objects, Goroutine, Object, Others, Closing,
     Fresh, Idle, On, Distinct, Shape, Alone, Opens, Located, Blank, Detached, fileVars, history
<1>13. ASSUME NEW r \in Request, TurnReturns(r) PROVE (\A q \in Request : Fresh(q))'
  BY <1>13, Paths DEF TurnReturns, At, Goroutines, Objects, Goroutine, Object, Others, Closing,
     Fresh, Idle, On, Distinct, Shape, Alone, Opens, Located, Blank, Detached, fileVars, history
<1>14. ASSUME NEW r \in Request, Cancel(r) PROVE (\A q \in Request : Fresh(q))'
  BY <1>14, Paths DEF Cancel, Goroutines, Objects, Goroutine, Object, Others, Closing, Fresh,
     Idle, On, Distinct, Shape, Alone, Opens, Located, Blank, Detached, fileVars, history
<1>15. ASSUME NEW r \in Request, Saved(r) PROVE (\A q \in Request : Fresh(q))'
  <2>1. PICK p \in {"persist", "stamp", "build", "abandon", "assign", "redirect"} : Goto(r, p)
    BY <1>15, SaveMoves
  <2>2. /\ \A q \in Request : q # r => req'[q] = req[q]
        /\ req'[r].pc = p /\ req'[r].on = req[r].on /\ req'[r].ctrl = req[r].ctrl
        /\ req'[r].at = req[r].at /\ req'[r].to = req[r].to /\ req'[r].next = req[r].next
    BY <2>1, GotoMoves
  <2> QED BY <1>15, <2>2, Paths DEF Saved, At, Goroutines, Objects, Goroutine, Object, Others,
             Closing, Fresh, Idle, On, Distinct, Shape, Alone, Opens, Located, Blank, Detached,
             fileVars, history
<1>16. ASSUME NEW r \in Request, NotSaved(r) PROVE (\A q \in Request : Fresh(q))'
  <2>1. PICK p \in {"persist", "stamp", "build", "abandon", "assign", "redirect"} : Goto(r, p)
    BY <1>16, SaveMoves
  <2>2. /\ \A q \in Request : q # r => req'[q] = req[q]
        /\ req'[r].pc = p /\ req'[r].on = req[r].on /\ req'[r].ctrl = req[r].ctrl
        /\ req'[r].at = req[r].at /\ req'[r].to = req[r].to /\ req'[r].next = req[r].next
    BY <2>1, GotoMoves
  <2> QED BY <1>16, <2>2, Paths DEF NotSaved, At, Goroutines, Objects, Goroutine, Object,
             Others, Closing, Fresh, Idle, On, Distinct, Shape, Alone, Opens, Located, Blank,
             Detached, fileVars, history
<1>17. ASSUME NEW r \in Request, Recover(r) PROVE (\A q \in Request : Fresh(q))'
  BY <1>17, Paths DEF Recover, At, Goroutines, Objects, Goroutine, Object, Others, Closing,
     Fresh, Idle, On, Distinct, Shape, Alone, Opens, Located, Blank, Detached, fileVars, history
<1>18. ASSUME NEW r \in Request, Follow(r) PROVE (\A q \in Request : Fresh(q))'
  BY <1>18, Paths DEF Follow, At, Goroutines, Objects, Goroutine, Object, Others, Closing,
     Fresh, Idle, On, Distinct, Shape, Alone, Opens, Located, Blank, Detached, fileVars, history
<1>19. ASSUME NEW r \in Request, Secure(r) PROVE (\A q \in Request : Fresh(q))'
  <2>1. PICK p \in {"persist", "stamp", "build", "abandon", "assign", "redirect"} : Goto(r, p)
    BY <1>19, SaveMoves
  <2>2. /\ \A q \in Request : q # r => req'[q] = req[q]
        /\ req'[r].pc = p /\ req'[r].on = req[r].on /\ req'[r].ctrl = req[r].ctrl
        /\ req'[r].at = req[r].at /\ req'[r].to = req[r].to /\ req'[r].next = req[r].next
    BY <2>1, GotoMoves
  <2> QED BY <1>19, <2>2, Paths DEF Secure, At, Goroutines, Objects, Goroutine, Object, Others,
             Closing, Fresh, Idle, On, Distinct, Shape, Alone, Opens, Located, Blank, Detached,
             fileVars, history
<1>20. ASSUME NEW r \in Request, Assign(r) PROVE (\A q \in Request : Fresh(q))'
  <2>1. PICK p \in {"persist", "stamp", "build", "abandon", "assign", "redirect"} : Goto(r, p)
    BY <1>20, SaveMoves
  <2>2. /\ \A q \in Request : q # r => req'[q] = req[q]
        /\ req'[r].pc = p /\ req[r].to \in Session
    BY <1>20, <2>1, GotoMoves DEF Assign, At, Shape, Located, Goroutines, Goroutine
  <2>3. \A s \in Session : s # req[r].to => sess'[s] = sess[s]
    BY <1>20, <2>2 DEF Assign, MoveTo, Objects
  <2>4. UNCHANGED <<closed, last>> /\ amiss \subseteq amiss'
    BY <1>20 DEF Assign
  <2>5. ASSUME NEW q \in Request, q # r, req[q].pc \in {"meta", "register"} PROVE Fresh(q)'
    <3>1. req[q].on \in Session /\ Fresh(q) /\ req[q].on # req[r].to
      BY <2>5 DEF Closing, Shape, Located, Detached, Alone, Opens, Goroutines, Goroutine
    <3> QED BY <2>2, <2>3, <2>4, <2>5, <3>1 DEF Fresh, Idle, On
  <2> QED BY <2>2, <2>5 DEF Fresh
<1>21. ASSUME NEW r \in Request, Redirect(r) PROVE (\A q \in Request : Fresh(q))'
  BY <1>21, Paths DEF Redirect, At, RedirectTo, Goto, Goroutines, Objects, Goroutine, Object,
     Others, Closing, Fresh, Idle, On, Distinct, Shape, Alone, Opens, Located, Blank, Detached,
     fileVars, history
<1>22. ASSUME NEW r \in Request, Commit(r) PROVE (\A q \in Request : Fresh(q))'
  <2>1. PICK p \in {"persist", "stamp", "build", "abandon", "assign", "redirect"} : Goto(r, p)
    BY <1>22, SaveMoves
  <2>2. /\ \A q \in Request : q # r => req'[q] = req[q]
        /\ req'[r].pc = p /\ req'[r].on = req[r].on /\ req'[r].ctrl = req[r].ctrl
        /\ req'[r].at = req[r].at /\ req'[r].to = req[r].to /\ req'[r].next = req[r].next
    BY <2>1, GotoMoves
  <2> QED BY <1>22, <2>2, Paths DEF Commit, At, Goroutines, Objects, Goroutine, Object, Others,
             Closing, Fresh, Idle, On, Distinct, Shape, Alone, Opens, Located, Blank, Detached,
             fileVars, history
<1>23. ASSUME NEW r \in Request, ClaimRefused(r) PROVE (\A q \in Request : Fresh(q))'
  BY <1>23, Paths, SMTT(20), ZenonT(40) DEF ClaimRefused, At, Fail, Goto, End, Unserved,
     Goroutines, Objects, Goroutine, Object, Others, Closing, Fresh, Idle, On, Distinct, Shape,
     Alone, Opens, Located, Blank, Detached, fileVars, history
<1>24. ASSUME NEW r \in Request, Queue(r) PROVE (\A q \in Request : Fresh(q))'
  <2>1. /\ \A q \in Request : q # r => req'[q] = req[q]
        /\ req'[r].pc \notin {"meta", "register"}
        /\ \A s \in Session : s # req[r].on => sess'[s] = sess[s]
        /\ \A s \in Session : s # req[r].on => last'[s] = last[s]
        /\ closed' = closed
    BY <1>24, Paths DEF Queue, Chosen, End, Unserved, At, Goroutines, Goroutine, Objects,
       Object, Others, Shape, Located, Detached, Blank
  <2>2. ASSUME NEW q \in Request, q # r, req[q].pc \in {"meta", "register"} PROVE Fresh(q)'
    <3>1. req[q].on \in Session /\ sess[req[q].on].ctrl # None /\ Fresh(q)
           /\ req[q].on # req[r].on /\ req[q].on # req[r].to
      BY <2>2 DEF Closing, Shape, Located, Detached, Blank, Alone, Opens, Goroutines, Goroutine
    <3> QED BY <2>1, <2>2, <3>1 DEF Fresh, Idle, On, Distinct
  <2> QED BY <2>1, <2>2 DEF Fresh
<1>25. ASSUME NEW r \in Request, Claim(r) PROVE (\A q \in Request : Fresh(q))'
  <2>1. /\ \A q \in Request : q # r => req'[q] = req[q]
        /\ req'[r].pc \notin {"meta", "register"}
        /\ \A s \in Session : s # req[r].on => sess'[s] = sess[s]
        /\ \A s \in Session : s # req[r].on => last'[s] = last[s]
        /\ closed' = closed
    BY <1>25, Paths DEF Claim, Chosen, At, Goroutines, Goroutine, Objects, Object, Others,
       Shape, Located, Detached, Blank
  <2>2. ASSUME NEW q \in Request, q # r, req[q].pc \in {"meta", "register"} PROVE Fresh(q)'
    <3>1. req[q].on \in Session /\ sess[req[q].on].ctrl # None /\ Fresh(q)
           /\ req[q].on # req[r].on /\ req[q].on # req[r].to
      BY <2>2 DEF Closing, Shape, Located, Detached, Blank, Alone, Opens, Goroutines, Goroutine
    <3> QED BY <2>1, <2>2, <3>1 DEF Fresh, Idle, On, Distinct
  <2> QED BY <2>1, <2>2 DEF Fresh
<1>26. ASSUME NEW r \in Request, Build(r) PROVE (\A q \in Request : Fresh(q))'
  <2>1. /\ \A q \in Request : q # r => req'[q] = req[q]
        /\ req'[r].pc \notin {"meta", "register"}
        /\ \A s \in Session : s # req[r].on => sess'[s] = sess[s]
        /\ \A s \in Session : s # req[r].on => last'[s] = last[s]
        /\ closed' \subseteq closed
    BY <1>26, Paths DEF Build, history, At, Goroutines, Goroutine, Objects, Object, Others,
       Shape, Located, Detached, Blank
  <2>2. ASSUME NEW q \in Request, q # r, req[q].pc \in {"meta", "register"} PROVE Fresh(q)'
    <3>1. req[q].on \in Session /\ sess[req[q].on].ctrl # None /\ Fresh(q)
           /\ req[q].on # req[r].on /\ req[q].on # req[r].to
      BY <2>2 DEF Closing, Shape, Located, Detached, Blank, Alone, Opens, Goroutines, Goroutine
    <3> QED BY <2>1, <2>2, <3>1 DEF Fresh, Idle, On, Distinct
  <2> QED BY <2>1, <2>2 DEF Fresh
<1>27. ASSUME NEW r \in Request, BuildFails(r) PROVE (\A q \in Request : Fresh(q))'
  BY <1>27, Paths DEF BuildFails, At, Goto, Goroutines, Objects, Goroutine, Object, Others,
     Closing, Fresh, Idle, On, Distinct, Shape, Alone, Opens, Located, Blank, Detached,
     fileVars, history
<1>28. ASSUME NEW r \in Request, Swap(r) PROVE (\A q \in Request : Fresh(q))'
  <2>1. /\ \A q \in Request : q # r => req'[q] = req[q]
        /\ req'[r].pc \notin {"meta", "register"}
        /\ \A s \in Session : s # req[r].on => sess'[s] = sess[s]
        /\ \A s \in Session : s # req[r].on => last'[s] = last[s]
        /\ closed' = closed
    BY <1>28, Paths DEF Swap, history, At, Goroutines, Goroutine, Objects, Object, Others,
       Shape, Located, Detached, Blank
  <2>2. ASSUME NEW q \in Request, q # r, req[q].pc \in {"meta", "register"} PROVE Fresh(q)'
    <3>1. req[q].on \in Session /\ sess[req[q].on].ctrl # None /\ Fresh(q)
           /\ req[q].on # req[r].on /\ req[q].on # req[r].to
      BY <2>2 DEF Closing, Shape, Located, Detached, Blank, Alone, Opens, Goroutines, Goroutine
    <3> QED BY <2>1, <2>2, <3>1 DEF Fresh, Idle, On, Distinct
  <2> QED BY <2>1, <2>2 DEF Fresh
<1>29. ASSUME NEW r \in Request, SwapRefused(r) PROVE (\A q \in Request : Fresh(q))'
  BY <1>29, Paths DEF SwapRefused, At, On, Goroutines, Objects, Goroutine, Object, Others,
     Closing, Fresh, Idle, On, Distinct, Shape, Alone, Opens, Located, Blank, Detached,
     fileVars, history
<1>30. ASSUME NEW r \in Request, Retire(r) PROVE (\A q \in Request : Fresh(q))'
  BY <1>30, Paths DEF Retire, At, Goroutines, Objects, Goroutine, Object, Others, Closing,
     Fresh, Idle, On, Distinct, Shape, Alone, Opens, Located, Blank, Detached, fileVars, history
<1>31. ASSUME NEW r \in Request, Unwind(r) PROVE (\A q \in Request : Fresh(q))'
  BY <1>31, Paths DEF Unwind, At, Wake, Goto, Goroutines, Objects, Goroutine, Object, Others,
     Closing, Fresh, Idle, On, Distinct, Shape, Alone, Opens, Located, Blank, Detached,
     fileVars, history
<1>32. ASSUME NEW r \in Request, Abandon(r) PROVE (\A q \in Request : Fresh(q))'
  <2>1. /\ \A q \in Request : q # r => req'[q] = req[q]
        /\ req'[r].pc \notin {"meta", "register"}
        /\ \A s \in Session : s # req[r].on => sess'[s] = sess[s]
        /\ \A s \in Session : s # req[r].on => last'[s] = last[s]
        /\ closed' = closed
    BY <1>32, Paths DEF Abandon, End, Unserved, Void, At, Goroutines, Goroutine, Objects,
       Object, Others, Shape, Located, Detached, Blank
  <2>2. ASSUME NEW q \in Request, q # r, req[q].pc \in {"meta", "register"} PROVE Fresh(q)'
    <3>1. req[q].on \in Session /\ sess[req[q].on].ctrl # None /\ Fresh(q)
           /\ req[q].on # req[r].on /\ req[q].on # req[r].to
      BY <2>2 DEF Closing, Shape, Located, Detached, Blank, Alone, Opens, Goroutines, Goroutine
    <3> QED BY <2>1, <2>2, <3>1 DEF Fresh, Idle, On, Distinct
  <2> QED BY <2>1, <2>2 DEF Fresh
<1>33. ASSUME NEW r \in Request, Apply(r) PROVE (\A q \in Request : Fresh(q))'
  BY <1>33, Paths DEF Apply, At, Goto, End, Unserved, Goroutines, Objects, Goroutine, Object,
     Others, Closing, Fresh, Idle, On, Distinct, Shape, Alone, Opens, Located, Blank, Detached,
     fileVars, history
<1>34. ASSUME NEW r \in Request, Copy(r) PROVE (\A q \in Request : Fresh(q))'
  <2>1. /\ \A q \in Request : q # r => req'[q] = req[q]
        /\ req'[r].pc \notin {"meta", "register"}
        /\ \A s \in Session : s # req[r].on => sess'[s] = sess[s]
        /\ \A s \in Session : s # req[r].on => last'[s] = last[s]
        /\ closed' = closed
    BY <1>34, Paths DEF Copy, End, Unserved, history, At, Goroutines, Goroutine, Objects,
       Object, Others, Shape, Located, Detached, Blank
  <2>2. ASSUME NEW q \in Request, q # r, req[q].pc \in {"meta", "register"} PROVE Fresh(q)'
    <3>1. req[q].on \in Session /\ sess[req[q].on].ctrl # None /\ Fresh(q)
           /\ req[q].on # req[r].on /\ req[q].on # req[r].to
      BY <2>2 DEF Closing, Shape, Located, Detached, Blank, Alone, Opens, Goroutines, Goroutine
    <3> QED BY <2>1, <2>2, <3>1 DEF Fresh, Idle, On, Distinct
  <2> QED BY <2>1, <2>2 DEF Fresh
<1>35. ASSUME NEW r \in Request, Drop(r) PROVE (\A q \in Request : Fresh(q))'
  BY <1>35, Paths DEF Drop, At, On, MayDrop, Void, End, Unserved, Busy, Goroutines, Objects,
     Goroutine, Object, Others, Closing, Fresh, Idle, On, Distinct, Shape, Alone, Opens,
     Located, Blank, Detached, fileVars, history
<1>36. ASSUME NEW r \in Request, Abort(r) PROVE (\A q \in Request : Fresh(q))'
  BY <1>36, Paths DEF Abort, At, On, Awaited, Interrupted, Goto, Goroutines, Objects, Goroutine,
     Object, Others, Closing, Fresh, Idle, On, Distinct, Shape, Alone, Opens, Located, Blank,
     Detached, fileVars, history
<1>37. ASSUME NEW r \in Request, Waited(r) PROVE (\A q \in Request : Fresh(q))'
  BY <1>37, Paths DEF Waited, At, Goto, Goroutines, Objects, Goroutine, Object, Others, Closing,
     Fresh, Idle, On, Distinct, Shape, Alone, Opens, Located, Blank, Detached, fileVars, history
<1>38. ASSUME NEW r \in Request, Shut(r) PROVE (\A q \in Request : Fresh(q))'
  <2>1. /\ \A q \in Request : q # r => req'[q] = req[q]
        /\ req'[r].pc \notin {"meta", "register"}
        /\ \A s \in Session : s # req[r].on => sess'[s] = sess[s]
        /\ \A s \in Session : s # req[r].on => last'[s] = last[s]
        /\ req[r].on \in Session /\ closed' = closed \cup {sess[req[r].on].ctrl}
            /\ sess[req[r].on].ctrl # None
    BY <1>38, Paths DEF Shut, On, Goto, history, At, Goroutines, Goroutine, Objects, Object,
       Others, Shape, Located, Detached, Blank
  <2>2. ASSUME NEW q \in Request, q # r, req[q].pc \in {"meta", "register"} PROVE Fresh(q)'
    <3>1. req[q].on \in Session /\ sess[req[q].on].ctrl # None /\ Fresh(q)
           /\ req[q].on # req[r].on /\ req[q].on # req[r].to
      BY <2>2 DEF Closing, Shape, Located, Detached, Blank, Alone, Opens, Goroutines, Goroutine
    <3> QED BY <2>1, <2>2, <3>1 DEF Fresh, Idle, On, Distinct
  <2> QED BY <2>1, <2>2 DEF Fresh
<1>39. ASSUME NEW r \in Request, Release(r) PROVE (\A q \in Request : Fresh(q))'
  <2>1. /\ \A q \in Request : q # r => req'[q] = req[q]
        /\ req'[r].pc \notin {"meta", "register"}
        /\ \A s \in Session : s # req[r].on => sess'[s] = sess[s]
        /\ \A s \in Session : s # req[r].on => last'[s] = last[s]
        /\ closed' = closed
    BY <1>39, Paths DEF Release, Goto, End, Unserved, history, At, Goroutines, Goroutine,
       Objects, Object, Others, Shape, Located, Detached, Blank
  <2>2. ASSUME NEW q \in Request, q # r, req[q].pc \in {"meta", "register"} PROVE Fresh(q)'
    <3>1. req[q].on \in Session /\ sess[req[q].on].ctrl # None /\ Fresh(q)
           /\ req[q].on # req[r].on /\ req[q].on # req[r].to
      BY <2>2 DEF Closing, Shape, Located, Detached, Blank, Alone, Opens, Goroutines, Goroutine
    <3> QED BY <2>1, <2>2, <3>1 DEF Fresh, Idle, On, Distinct
  <2> QED BY <2>1, <2>2 DEF Fresh
<1>40. ASSUME NEW r \in Request, Destroy(r) PROVE (\A q \in Request : Fresh(q))'
  <2>1. /\ \A q \in Request : q # r => req'[q] = req[q]
        /\ req'[r].pc \notin {"meta", "register"}
        /\ \A s \in Session : s # req[r].on => sess'[s] = sess[s]
        /\ \A s \in Session : s # req[r].on => last'[s] = last[s]
        /\ req[r].on \in Session /\ closed' = closed \cup {sess[req[r].on].ctrl}
            /\ sess[req[r].on].ctrl # None
    BY <1>40, Paths DEF Destroy, On, Goto, history, At, Goroutines, Goroutine, Objects, Object,
       Others, Shape, Located, Detached, Blank
  <2>2. ASSUME NEW q \in Request, q # r, req[q].pc \in {"meta", "register"} PROVE Fresh(q)'
    <3>1. req[q].on \in Session /\ sess[req[q].on].ctrl # None /\ Fresh(q)
           /\ req[q].on # req[r].on /\ req[q].on # req[r].to
      BY <2>2 DEF Closing, Shape, Located, Detached, Blank, Alone, Opens, Goroutines, Goroutine
    <3> QED BY <2>1, <2>2, <3>1 DEF Fresh, Idle, On, Distinct
  <2> QED BY <2>1, <2>2 DEF Fresh
<1>41. ASSUME NEW r \in Request, Erase(r) PROVE (\A q \in Request : Fresh(q))'
  BY <1>41, Paths DEF Erase, At, Remove, Goto, Goroutines, Objects, Goroutine, Object, Others,
     Closing, Fresh, Idle, On, Distinct, Shape, Alone, Opens, Located, Blank, Detached,
     fileVars, history
<1>42. ASSUME NEW r \in Request, Twin(r) PROVE (\A q \in Request : Fresh(q))'
  <2>1. /\ \A q \in Request : q # r => req'[q] = req[q]
        /\ req'[r].pc \notin {"meta", "register"}
        /\ \A s \in Session : s # req[r].on => sess'[s] = sess[s]
        /\ \A s \in Session : s # req[r].on => last'[s] = last[s]
        /\ closed' = closed
    BY <1>42, Paths DEF Twin, Goto, End, Unserved, At, Goroutines, Goroutine, Objects, Object,
       Others, Shape, Located, Detached, Blank
  <2>2. ASSUME NEW q \in Request, q # r, req[q].pc \in {"meta", "register"} PROVE Fresh(q)'
    <3>1. req[q].on \in Session /\ sess[req[q].on].ctrl # None /\ Fresh(q)
           /\ req[q].on # req[r].on /\ req[q].on # req[r].to
      BY <2>2 DEF Closing, Shape, Located, Detached, Blank, Alone, Opens, Goroutines, Goroutine
    <3> QED BY <2>1, <2>2, <3>1 DEF Fresh, Idle, On, Distinct
  <2> QED BY <2>1, <2>2 DEF Fresh
<1>43. ASSUME NEW r \in Request, Linger(r) PROVE (\A q \in Request : Fresh(q))'
  BY <1>43, Paths DEF Linger, At, Remove, End, Unserved, Goroutines, Objects, Goroutine, Object,
     Others, Closing, Fresh, Idle, On, Distinct, Shape, Alone, Opens, Located, Blank, Detached,
     fileVars, history
<1>44. ASSUME NEW r \in Request, ResolveAgain(r) PROVE (\A q \in Request : Fresh(q))'
  BY <1>44, Paths DEF ResolveAgain, At, Resolve, End, Unserved, Goroutines, Objects, Goroutine,
     Object, Others, Closing, Fresh, Idle, On, Distinct, Shape, Alone, Opens, Located, Blank,
     Detached, fileVars, history
<1>45. ASSUME NEW r \in Request, Acquire(r) PROVE (\A q \in Request : Fresh(q))'
  BY <1>45, Paths DEF Acquire, At, Goto, End, Unserved, Goroutines, Objects, Goroutine, Object,
     Others, Closing, Fresh, Idle, On, Distinct, Shape, Alone, Opens, Located, Blank, Detached,
     fileVars, history
<1>46. ASSUME NEW r \in Request, Read(r) PROVE (\A q \in Request : Fresh(q))'
  <2>1. PICK c \in Ctrl, g \in Config :
           /\ closed' = closed \ {c} /\ sess' = [sess EXCEPT ![req[r].on] = Opened(c, g, req[r].at)]
           /\ last' = [last EXCEPT ![req[r].on] = g] /\ Goto(r, "meta")
    <3>1. \A S \in SUBSET Ctrl : S # {} => (CHOOSE c \in S : TRUE) \in Ctrl
      OBVIOUS
    <3> QED BY <1>46, <3>1 DEF Read, FreeCtrls
  <2>2. req[r].on \in Session /\ req[r].pc = "read"
    BY <1>46 DEF Read, At, Shape, Located, Detached, Goroutines, Goroutine
  <2>3. /\ \A q \in Request : q # r => req'[q] = req[q]
        /\ req'[r].on = req[r].on /\ req'[r].at = req[r].at
    BY <2>1, GotoMoves
  <2>4. ASSUME NEW q \in Request, q # r, req[q].pc \in {"meta", "register"} PROVE Fresh(q)'
    <3>1. req[q].on \in Session /\ Fresh(q) /\ req[q].on # req[r].on
      BY <2>2, <2>4 DEF Closing, Shape, Located, Detached, Alone, Opens, Goroutines, Goroutine
    <3> QED BY <2>1, <2>3, <2>4, <3>1 DEF Fresh, Idle, On, Objects, Others
  <2>5. Fresh(r)'
    BY <2>1, <2>2, <2>3 DEF Fresh, Idle, On, Opened, Objects, Others
  <2> QED BY <2>3, <2>4, <2>5 DEF Fresh
<1>47. ASSUME NEW r \in Request, ReadFails(r) PROVE (\A q \in Request : Fresh(q))'
  BY <1>47, Paths DEF ReadFails, At, Unlock, End, Unserved, Goroutines, Objects, Goroutine,
     Object, Others, Closing, Fresh, Idle, On, Distinct, Shape, Alone, Opens, Located, Blank,
     Detached, fileVars, history
<1>48. ASSUME NEW r \in Request, LoadMeta(r) PROVE (\A q \in Request : Fresh(q))'
  BY <1>48, Paths DEF LoadMeta, At, SaveMeta, Goto, Goroutines, Objects, Goroutine, Object,
     Others, Closing, Fresh, Idle, On, Distinct, Shape, Alone, Opens, Located, Blank, Detached,
     fileVars, history
<1>49. ASSUME NEW r \in Request, LoadMetaFails(r) PROVE (\A q \in Request : Fresh(q))'
  BY <1>49, Paths DEF LoadMetaFails, At, Unlock, End, Unserved, Opened, Unopened, Goroutines,
     Objects, Goroutine, Object, Others, Closing, Fresh, Idle, On, Distinct, Shape, Alone,
     Opens, Located, Blank, Detached, fileVars, history
<1>50. ASSUME NEW r \in Request, Register(r) PROVE (\A q \in Request : Fresh(q))'
  BY <1>50, Paths DEF Register, At, End, Unserved, Goroutines, Objects, Goroutine, Object,
     Others, Closing, Fresh, Idle, On, Distinct, Shape, Alone, Opens, Located, Blank, Detached,
     fileVars, history
<1>51. ASSUME NEW p \in Path, OtherAcquires(p) PROVE (\A q \in Request : Fresh(q))'
  BY <1>51, Paths DEF OtherAcquires, Goroutines, Objects, Goroutine, Object, Others, Closing,
     Fresh, Idle, On, Distinct, Shape, Alone, Opens, Located, Blank, Detached, fileVars, history
<1>52. ASSUME NEW p \in Path, OtherReleases(p) PROVE (\A q \in Request : Fresh(q))'
  BY <1>52, Paths DEF OtherReleases, Unlock, Goroutines, Objects, Goroutine, Object, Others,
     Closing, Fresh, Idle, On, Distinct, Shape, Alone, Opens, Located, Blank, Detached,
     fileVars, history
<1>53. ASSUME NEW p \in Path, Reconcile(p) PROVE (\A q \in Request : Fresh(q))'
  BY <1>53, Paths DEF Reconcile, Remove, Goroutines, Objects, Goroutine, Object, Others,
     Closing, Fresh, Idle, On, Distinct, Shape, Alone, Opens, Located, Blank, Detached,
     fileVars, history
<1>54. CASE Crash
  BY <1>54, Paths DEF Crash, Unserved, Unopened, Opened, At, Goroutines, Objects, Goroutine,
     Object, Others, Closing, Fresh, Idle, On, Distinct, Shape, Alone, Opens, Located, Blank,
     Detached, fileVars, history
<1> QED BY <1>1, <1>2, <1>3, <1>4, <1>5, <1>6, <1>7, <1>8, <1>9, <1>10, <1>11, <1>12, <1>13,
           <1>14, <1>15, <1>16, <1>17, <1>18, <1>19, <1>20, <1>21, <1>22, <1>23, <1>24, <1>25,
           <1>26, <1>27, <1>28, <1>29, <1>30, <1>31, <1>32, <1>33, <1>34, <1>35, <1>36, <1>37,
           <1>38, <1>39, <1>40, <1>41, <1>42, <1>43, <1>44, <1>45, <1>46, <1>47, <1>48, <1>49,
           <1>50, <1>51, <1>52, <1>53, <1>54 DEF Next, Start, Continue, Turn, Save, Rebuild,
           Close, Open

LEMMA AwaitsKept ==
  ASSUME Goroutines, Objects, Shape, NEW r \in Request, \A q \in Request : Awaits(q),
         \A q \in Request : q # r => req'[q] = req[q],
         req'[r].pc \notin {"wait", "shut", "release", "destroy"},
         \A s \in Session : sess'[s].turn = sess[s].turn /\ sess'[s].maint = sess[s].maint,
         waits' = waits
  PROVE  \A q \in Request : Awaits(q)'
<1> SUFFICES ASSUME NEW q \in Request, req'[q].pc \in {"wait", "shut", "release", "destroy"}
                     PROVE Awaits(q)'
  BY DEF Awaits
<1>1. q # r /\ req'[q] = req[q]
  OBVIOUS
<1>2. req[q].on \in Session
  BY <1>1 DEF Shape, Located, Detached, Goroutines, Goroutine
<1> QED BY <1>1, <1>2 DEF Awaits, Idle, On

\* The end of a turn or of a maintenance wakes whoever waits for it.
LEMMA AwaitsWoken ==
  ASSUME Goroutines, Objects, Shape, NEW r \in Request, NEW k \in Session, \A q \in Request : Awaits(q),
         \A q \in Request : q # r => req'[q] = req[q],
         req'[r].pc \notin {"wait", "shut", "release", "destroy"},
         \A s \in Session : s # k => sess'[s].turn = sess[s].turn /\ sess'[s].maint = sess[s].maint,
         \/ /\ sess'[k].turn = None /\ sess'[k].maint = sess[k].maint
            /\ \A s \in Session : s # k => sess[s].turn # r
            /\ Wake(r, "turn")
         \/ /\ sess'[k].turn = sess[k].turn /\ sess'[k].maint = None
            /\ \A s \in Session : s # k => sess[s].maint # r
            /\ Wake(r, "maint")
  PROVE  \A q \in Request : Awaits(q)'
<1> SUFFICES ASSUME NEW q \in Request, req'[q].pc \in {"wait", "shut", "release", "destroy"}
                     PROVE Awaits(q)'
  BY DEF Awaits
<1>1. q # r /\ req'[q] = req[q]
  OBVIOUS
<1>2. req[q].on \in Session
  BY <1>1 DEF Shape, Located, Detached, Goroutines, Goroutine
<1>3. CASE req[q].pc = "wait"
  <2>1. \A x, y : <<"maint", x>> # <<"turn", y>> /\ (x # y => <<"turn", x>> # <<"turn", y>>
         /\ <<"maint", x>> # <<"maint", y>>)
    OBVIOUS
  <2>2. ASSUME sess'[k].turn = None, sess'[k].maint = sess[k].maint, \A s \in Session : s # k =>
                sess[s].turn # r,
               waits'[q] = waits[q] \ {<<"turn", r>>}
        PROVE  Awaits(q)'
    BY <1>1, <1>2, <1>3, <2>1, <2>2 DEF Awaits, On
  <2>3. ASSUME sess'[k].turn = sess[k].turn, sess'[k].maint = None, \A s \in Session : s # k =>
                sess[s].maint # r,
               waits'[q] = waits[q] \ {<<"maint", r>>}
        PROVE  Awaits(q)'
    <3>1. sess'[req[q].on].turn # None => <<"turn", sess'[req[q].on].turn>> \in waits[q]
      BY <1>2, <1>3, <2>3 DEF Awaits, On
    <3>2. sess'[req[q].on].maint # None => <<"maint", sess'[req[q].on].maint>> \in waits[q]
           /\ sess'[req[q].on].maint # r
      BY <1>2, <1>3, <2>3 DEF Awaits, On
    <3> QED BY <1>1, <1>3, <2>1, <2>3, <3>1, <3>2 DEF Awaits, On
  <2> QED BY <2>2, <2>3 DEF Wake
<1>4. CASE req[q].pc # "wait"
  BY <1>1, <1>2, <1>4 DEF Awaits, Idle, On
<1> QED BY <1>3, <1>4

LEMMA AwaitsStep ==
  ASSUME Goroutines, Objects, Others, Shape, Work, Distinct, Closing, [Next]_vars
  PROVE  (Clean({"late"}) => \A q \in Request : Awaits(q))'
<1>1. CASE UNCHANGED vars
  BY <1>1 DEF Goroutines, Objects, Goroutine, Object, Others, Closing, Clean, Awaits, Idle, On,
     Gone, Closes, Alone, Shape, Opens, Located, Detached, vars, fileVars, history
<1>2. ASSUME NEW r \in Request, Prompt(r) PROVE (Clean({"late"}) => \A q \in Request : Awaits(q))'
  <2>1. /\ \A q \in Request : q # r => req'[q] = req[q]
        /\ req'[r].pc \notin {"wait", "shut", "release", "destroy"}
    BY <1>2, Paths DEF Prompt, Serve, At, Goroutines, Goroutine
  <2>2. \A s \in Session : sess'[s].turn = sess[s].turn /\ sess'[s].maint = sess[s].maint
    BY <1>2 DEF Prompt, Objects, Object
  <2>3. waits' = waits /\ amiss \subseteq amiss'
    BY <1>2 DEF Prompt, history
  <2> QED BY <2>1, <2>2, <2>3, AwaitsKept DEF Closing, Clean
<1>3. ASSUME NEW r \in Request, SetConfig(r) PROVE (Clean({"late"}) => \A q \in Request : Awaits(q))'
  <2>1. /\ \A q \in Request : q # r => req'[q] = req[q]
        /\ req'[r].pc \notin {"wait", "shut", "release", "destroy"}
    BY <1>3, Paths DEF SetConfig, At, Goroutines, Goroutine
  <2>2. \A s \in Session : sess'[s].turn = sess[s].turn /\ sess'[s].maint = sess[s].maint
    BY <1>3 DEF SetConfig, Objects, Object
  <2>3. waits' = waits /\ amiss \subseteq amiss'
    BY <1>3 DEF SetConfig, history
  <2> QED BY <2>1, <2>2, <2>3, AwaitsKept DEF Closing, Clean
<1>4. ASSUME NEW r \in Request, Take(r) PROVE (Clean({"late"}) => \A q \in Request : Awaits(q))'
  <2>1. /\ \A q \in Request : q # r => req'[q] = req[q]
        /\ req'[r].pc \notin {"wait", "shut", "release", "destroy"}
    BY <1>4, Paths DEF Take, At, Goroutines, Goroutine
  <2>2. \A s \in Session : sess'[s].turn = sess[s].turn /\ sess'[s].maint = sess[s].maint
    BY <1>4 DEF Take, Objects, Object
  <2>3. waits' = waits /\ amiss \subseteq amiss'
    BY <1>4 DEF Take, history
  <2> QED BY <2>1, <2>2, <2>3, AwaitsKept DEF Closing, Clean
<1>5. ASSUME NEW r \in Request, DeleteClosed(r) PROVE (Clean({"late"}) => \A q \in Request : Awaits(q))'
  <2>1. /\ \A q \in Request : q # r => req'[q] = req[q]
        /\ req'[r].pc \notin {"wait", "shut", "release", "destroy"}
    BY <1>5, Paths DEF DeleteClosed, Serve, At, Goroutines, Goroutine
  <2>2. \A s \in Session : sess'[s].turn = sess[s].turn /\ sess'[s].maint = sess[s].maint
    BY <1>5 DEF DeleteClosed, Objects, Object
  <2>3. waits' = waits /\ amiss \subseteq amiss'
    BY <1>5 DEF DeleteClosed, Race, history
  <2> QED BY <2>1, <2>2, <2>3, AwaitsKept DEF Closing, Clean
<1>6. ASSUME NEW r \in Request, Load(r) PROVE (Clean({"late"}) => \A q \in Request : Awaits(q))'
  <2>1. /\ \A q \in Request : q # r => req'[q] = req[q]
        /\ req'[r].pc \notin {"wait", "shut", "release", "destroy"}
    BY <1>6, Paths DEF Load, At, Goroutines, Goroutine
  <2>2. \A s \in Session : sess'[s].turn = sess[s].turn /\ sess'[s].maint = sess[s].maint
    BY <1>6 DEF Load, Objects, Object
  <2>3. waits' = waits /\ amiss \subseteq amiss'
    BY <1>6 DEF Load, history
  <2> QED BY <2>1, <2>2, <2>3, AwaitsKept DEF Closing, Clean
<1>7. ASSUME NEW r \in Request, Begin(r) PROVE (Clean({"late"}) => \A q \in Request : Awaits(q))'
  <2>1. /\ \A q \in Request : q # r => req'[q] = req[q]
        /\ req[r].on \in Session /\ req'[r].pc \in {"enter", "save"} /\ waits' = waits
        /\ \A s \in Session : s # req[r].on => sess'[s].turn = sess[s].turn
            /\ sess'[s].maint = sess[s].maint
    BY <1>7 DEF Begin, MayBegin, On, Goto, At, Goroutines, Goroutine, Objects, Object, Shape,
       Located, Detached
  <2>2. amiss \subseteq amiss' /\ (live = req[r].on \/ "late" \in amiss')
    BY <1>7 DEF Begin, Late
  <2>3. ASSUME NEW q \in Request, \A p \in Request : Awaits(p), live = req[r].on PROVE Awaits(q)'
    <3>1. CASE q # r /\ req[q].pc \in {"wait", "shut", "release", "destroy"}
      <4>1. req[q].on # req[r].on /\ req[q].on \in Session
        BY <2>3, <3>1 DEF Closing, Gone, Closes, Shape, Located, Detached, Goroutines, Goroutine
      <4> QED BY <2>1, <2>3, <3>1, <4>1 DEF Awaits, Idle, On
    <3>2. CASE ~(q # r /\ req[q].pc \in {"wait", "shut", "release", "destroy"})
      BY <2>1, <3>2 DEF Awaits
    <3> QED BY <3>1, <3>2
  <2> QED BY <2>2, <2>3 DEF Closing, Clean
<1>8. ASSUME NEW r \in Request, BeginRefused(r) PROVE (Clean({"late"}) => \A q \in Request : Awaits(q))'
  <2>1. /\ \A q \in Request : q # r => req'[q] = req[q]
        /\ req'[r].pc \notin {"wait", "shut", "release", "destroy"}
    <3>1. CASE End(r)
      BY <3>1, EndMoves
    <3>2. CASE ~End(r)
      BY <1>8, <3>2 DEF BeginRefused, At, Goroutines, Goroutine
    <3> QED BY <3>1, <3>2
  <2>2. \A s \in Session : sess'[s].turn = sess[s].turn /\ sess'[s].maint = sess[s].maint
    BY <1>8 DEF BeginRefused, Objects, Object
  <2>3. waits' = waits /\ amiss \subseteq amiss'
    BY <1>8 DEF BeginRefused, history
  <2> QED BY <2>1, <2>2, <2>3, AwaitsKept DEF Closing, Clean
<1>9. ASSUME NEW r \in Request, Enter(r) PROVE (Clean({"late"}) => \A q \in Request : Awaits(q))'
  <2>1. /\ \A q \in Request : q # r => req'[q] = req[q]
        /\ req'[r].pc \notin {"wait", "shut", "release", "destroy"}
    BY <1>9, Paths DEF Enter, At, Goroutines, Goroutine
  <2>2. \A s \in Session : sess'[s].turn = sess[s].turn /\ sess'[s].maint = sess[s].maint
    BY <1>9 DEF Enter, Objects, Object
  <2>3. waits' = waits /\ amiss \subseteq amiss'
    BY <1>9 DEF Enter, history
  <2> QED BY <2>1, <2>2, <2>3, AwaitsKept DEF Closing, Clean
<1>10. ASSUME NEW r \in Request, Persist(r) PROVE (Clean({"late"}) => \A q \in Request : Awaits(q))'
  <2>1. /\ \A q \in Request : q # r => req'[q] = req[q]
        /\ req'[r].pc \notin {"wait", "shut", "release", "destroy"}
    BY <1>10, Paths DEF Persist, At, Goroutines, Goroutine
  <2>2. \A s \in Session : sess'[s].turn = sess[s].turn /\ sess'[s].maint = sess[s].maint
    BY <1>10 DEF Persist, Objects, Object
  <2>3. waits' = waits /\ amiss \subseteq amiss'
    BY <1>10 DEF Persist, history
  <2> QED BY <2>1, <2>2, <2>3, AwaitsKept DEF Closing, Clean
<1>11. ASSUME NEW r \in Request, Stamp(r) PROVE (Clean({"late"}) => \A q \in Request : Awaits(q))'
  <2>1. /\ \A q \in Request : q # r => req'[q] = req[q]
        /\ req'[r].pc \notin {"wait", "shut", "release", "destroy"}
    BY <1>11, Paths DEF Stamp, Goto, At, Goroutines, Goroutine
  <2>2. \A s \in Session : sess'[s].turn = sess[s].turn /\ sess'[s].maint = sess[s].maint
    BY <1>11 DEF Stamp, Objects, Object
  <2>3. waits' = waits /\ amiss \subseteq amiss'
    BY <1>11 DEF Stamp, history
  <2> QED BY <2>1, <2>2, <2>3, AwaitsKept DEF Closing, Clean
<1>12. ASSUME NEW r \in Request, Finish(r) PROVE (Clean({"late"}) => \A q \in Request : Awaits(q))'
  <2>1. /\ \A q \in Request : q # r => req'[q] = req[q]
        /\ req[r].on \in Session /\ req'[r].pc \in {"apply", "drop", "done"}
        /\ \A s \in Session : s # req[r].on => sess'[s].turn = sess[s].turn
            /\ sess'[s].maint = sess[s].maint
        /\ sess'[req[r].on].turn = None /\ sess'[req[r].on].maint = sess[req[r].on].maint
    BY <1>12 DEF Finish, At, Goroutines, Goroutine, Objects, Object, Shape, Located, Detached
  <2>2. Wake(r, "turn") /\ amiss \subseteq amiss'
    BY <1>12 DEF Finish, history
  <2>3. \A s \in Session : s # req[r].on => sess[s].turn # r
    BY Paths DEF Work, Held
  <2> QED BY <2>1, <2>2, <2>3, AwaitsWoken DEF Closing, Clean
<1>13. ASSUME NEW r \in Request, TurnReturns(r) PROVE (Clean({"late"}) => \A q \in Request : Awaits(q))'
  <2>1. /\ \A q \in Request : q # r => req'[q] = req[q]
        /\ req'[r].pc \notin {"wait", "shut", "release", "destroy"}
    BY <1>13, Paths DEF TurnReturns, At, Goroutines, Goroutine
  <2>2. \A s \in Session : sess'[s].turn = sess[s].turn /\ sess'[s].maint = sess[s].maint
    BY <1>13 DEF TurnReturns, Objects, Object
  <2>3. waits' = waits /\ amiss \subseteq amiss'
    BY <1>13 DEF TurnReturns, history
  <2> QED BY <2>1, <2>2, <2>3, AwaitsKept DEF Closing, Clean
<1>14. ASSUME NEW r \in Request, Cancel(r) PROVE (Clean({"late"}) => \A q \in Request : Awaits(q))'
  BY <1>14, Paths DEF Cancel, Goroutines, Objects, Goroutine, Object, Others, Closing, Clean,
     Awaits, Idle, On, Gone, Closes, Alone, Shape, Opens, Located, Detached, fileVars, history
<1>15. ASSUME NEW r \in Request, Saved(r) PROVE (Clean({"late"}) => \A q \in Request : Awaits(q))'
  <2>1. PICK p \in {"persist", "stamp", "build", "abandon", "assign", "redirect"} : Goto(r, p)
    BY <1>15, SaveMoves
  <2>2. /\ \A q \in Request : q # r => req'[q] = req[q]
        /\ req'[r].pc \notin {"wait", "shut", "release", "destroy"}
    BY <2>1, GotoMoves
  <2>3. \A s \in Session : sess'[s].turn = sess[s].turn /\ sess'[s].maint = sess[s].maint
    BY <1>15 DEF Saved, Objects, Object
  <2>4. waits' = waits /\ amiss \subseteq amiss'
    BY <1>15 DEF Saved, history
  <2> QED BY <2>2, <2>3, <2>4, AwaitsKept DEF Closing, Clean
<1>16. ASSUME NEW r \in Request, NotSaved(r) PROVE (Clean({"late"}) => \A q \in Request : Awaits(q))'
  <2>1. PICK p \in {"persist", "stamp", "build", "abandon", "assign", "redirect"} : Goto(r, p)
    BY <1>16, SaveMoves
  <2>2. /\ \A q \in Request : q # r => req'[q] = req[q]
        /\ req'[r].pc \notin {"wait", "shut", "release", "destroy"}
    BY <2>1, GotoMoves
  <2>3. \A s \in Session : sess'[s].turn = sess[s].turn /\ sess'[s].maint = sess[s].maint
    BY <1>16 DEF NotSaved, Objects, Object
  <2>4. waits' = waits /\ amiss \subseteq amiss'
    BY <1>16 DEF NotSaved, history
  <2> QED BY <2>2, <2>3, <2>4, AwaitsKept DEF Closing, Clean
<1>17. ASSUME NEW r \in Request, Recover(r) PROVE (Clean({"late"}) => \A q \in Request : Awaits(q))'
  <2>1. /\ \A q \in Request : q # r => req'[q] = req[q]
        /\ req'[r].pc \notin {"wait", "shut", "release", "destroy"}
    BY <1>17, Paths DEF Recover, At, Goroutines, Goroutine
  <2>2. \A s \in Session : sess'[s].turn = sess[s].turn /\ sess'[s].maint = sess[s].maint
    BY <1>17 DEF Recover, Objects, Object
  <2>3. waits' = waits /\ amiss \subseteq amiss'
    BY <1>17 DEF Recover, history
  <2> QED BY <2>1, <2>2, <2>3, AwaitsKept DEF Closing, Clean
<1>18. ASSUME NEW r \in Request, Follow(r) PROVE (Clean({"late"}) => \A q \in Request : Awaits(q))'
  <2>1. /\ \A q \in Request : q # r => req'[q] = req[q]
        /\ req'[r].pc \notin {"wait", "shut", "release", "destroy"}
    BY <1>18, Paths DEF Follow, At, Goroutines, Goroutine
  <2>2. \A s \in Session : sess'[s].turn = sess[s].turn /\ sess'[s].maint = sess[s].maint
    BY <1>18 DEF Follow, Objects, Object
  <2>3. waits' = waits /\ amiss \subseteq amiss'
    BY <1>18 DEF Follow, history
  <2> QED BY <2>1, <2>2, <2>3, AwaitsKept DEF Closing, Clean
<1>19. ASSUME NEW r \in Request, Secure(r) PROVE (Clean({"late"}) => \A q \in Request : Awaits(q))'
  <2>1. PICK p \in {"persist", "stamp", "build", "abandon", "assign", "redirect"} : Goto(r, p)
    BY <1>19, SaveMoves
  <2>2. /\ \A q \in Request : q # r => req'[q] = req[q]
        /\ req'[r].pc \notin {"wait", "shut", "release", "destroy"}
    BY <2>1, GotoMoves
  <2>3. \A s \in Session : sess'[s].turn = sess[s].turn /\ sess'[s].maint = sess[s].maint
    BY <1>19 DEF Secure, Objects, Object
  <2>4. waits' = waits /\ amiss \subseteq amiss'
    BY <1>19 DEF Secure, history
  <2> QED BY <2>2, <2>3, <2>4, AwaitsKept DEF Closing, Clean
<1>20. ASSUME NEW r \in Request, Assign(r) PROVE (Clean({"late"}) => \A q \in Request : Awaits(q))'
  <2>1. PICK p \in {"persist", "stamp", "build", "abandon", "assign", "redirect"} : Goto(r, p)
    BY <1>20, SaveMoves
  <2>2. /\ \A q \in Request : q # r => req'[q] = req[q]
        /\ req'[r].pc \notin {"wait", "shut", "release", "destroy"}
    BY <2>1, GotoMoves
  <2>3. \A s \in Session : sess'[s].turn = sess[s].turn /\ sess'[s].maint = sess[s].maint
    <3>1. req[r].to \in Session
      BY <1>20 DEF Assign, At, Shape, Located, Goroutines, Goroutine
    <3>2. CASE UNCHANGED sess
      BY <3>2
    <3>3. CASE MoveTo(req[r].to, req[r].at)
      BY <3>1, <3>3 DEF MoveTo, Objects, Object
    <3> QED BY <1>20, <3>2, <3>3 DEF Assign
  <2>4. waits' = waits /\ amiss \subseteq amiss'
    BY <1>20 DEF Assign, history
  <2> QED BY <2>2, <2>3, <2>4, AwaitsKept DEF Closing, Clean
<1>21. ASSUME NEW r \in Request, Redirect(r) PROVE (Clean({"late"}) => \A q \in Request : Awaits(q))'
  <2>1. /\ \A q \in Request : q # r => req'[q] = req[q]
        /\ req'[r].pc \notin {"wait", "shut", "release", "destroy"}
    BY <1>21, Paths DEF Redirect, Goto, At, Goroutines, Goroutine
  <2>2. \A s \in Session : sess'[s].turn = sess[s].turn /\ sess'[s].maint = sess[s].maint
    BY <1>21 DEF Redirect, Objects, Object
  <2>3. waits' = waits /\ amiss \subseteq amiss'
    BY <1>21 DEF Redirect, history
  <2> QED BY <2>1, <2>2, <2>3, AwaitsKept DEF Closing, Clean
<1>22. ASSUME NEW r \in Request, Commit(r) PROVE (Clean({"late"}) => \A q \in Request : Awaits(q))'
  <2>1. PICK p \in {"persist", "stamp", "build", "abandon", "assign", "redirect"} : Goto(r, p)
    BY <1>22, SaveMoves
  <2>2. /\ \A q \in Request : q # r => req'[q] = req[q]
        /\ req'[r].pc \notin {"wait", "shut", "release", "destroy"}
    BY <2>1, GotoMoves
  <2>3. \A s \in Session : sess'[s].turn = sess[s].turn /\ sess'[s].maint = sess[s].maint
    BY <1>22 DEF Commit, Objects, Object
  <2>4. waits' = waits /\ amiss \subseteq amiss'
    BY <1>22 DEF Commit, history
  <2> QED BY <2>2, <2>3, <2>4, AwaitsKept DEF Closing, Clean
<1>23. ASSUME NEW r \in Request, ClaimRefused(r) PROVE (Clean({"late"}) =>
               \A q \in Request : Awaits(q))'
  <2>1. /\ \A q \in Request : q # r => req'[q] = req[q]
        /\ req'[r].pc \notin {"wait", "shut", "release", "destroy"}
    <3>1. CASE End(r)
      BY <3>1, EndMoves
    <3>2. CASE ~End(r)
      BY <1>23, <3>2 DEF ClaimRefused, Fail, Goto, At, Goroutines, Goroutine
    <3> QED BY <3>1, <3>2
  <2>2. \A s \in Session : sess'[s].turn = sess[s].turn /\ sess'[s].maint = sess[s].maint
    BY <1>23 DEF ClaimRefused, Objects, Object
  <2>3. waits' = waits /\ amiss \subseteq amiss'
    BY <1>23 DEF ClaimRefused, history
  <2> QED BY <2>1, <2>2, <2>3, AwaitsKept DEF Closing, Clean
<1>24. ASSUME NEW r \in Request, Queue(r) PROVE (Clean({"late"}) => \A q \in Request : Awaits(q))'
  <2>1. /\ \A q \in Request : q # r => req'[q] = req[q]
        /\ req'[r].pc \notin {"wait", "shut", "release", "destroy"}
    <3>1. CASE End(r)
      BY <3>1, EndMoves
    <3>2. CASE ~End(r)
      BY <1>24, <3>2 DEF Queue, At, Goroutines, Goroutine
    <3> QED BY <3>1, <3>2
  <2>2. \A s \in Session : sess'[s].turn = sess[s].turn /\ sess'[s].maint = sess[s].maint
    BY <1>24 DEF Queue, Objects, Object
  <2>3. waits' = waits /\ amiss \subseteq amiss'
    BY <1>24 DEF Queue, Chosen, history
  <2> QED BY <2>1, <2>2, <2>3, AwaitsKept DEF Closing, Clean
<1>25. ASSUME NEW r \in Request, Claim(r) PROVE (Clean({"late"}) => \A q \in Request : Awaits(q))'
  <2>1. /\ \A q \in Request : q # r => req'[q] = req[q]
        /\ req[r].on \in Session /\ req'[r].pc \in {"enter", "save"} /\ waits' = waits
        /\ \A s \in Session : s # req[r].on => sess'[s].turn = sess[s].turn
            /\ sess'[s].maint = sess[s].maint
    BY <1>25 DEF Claim, On, Busy, At, Goroutines, Goroutine, Objects, Object, Shape, Located,
       Detached
  <2>2. amiss \subseteq amiss' /\ (live = req[r].on \/ "late" \in amiss')
    BY <1>25 DEF Claim, Chosen
  <2>3. ASSUME NEW q \in Request, \A p \in Request : Awaits(p), live = req[r].on PROVE Awaits(q)'
    <3>1. CASE q # r /\ req[q].pc \in {"wait", "shut", "release", "destroy"}
      <4>1. req[q].on # req[r].on /\ req[q].on \in Session
        BY <2>3, <3>1 DEF Closing, Gone, Closes, Shape, Located, Detached, Goroutines, Goroutine
      <4> QED BY <2>1, <2>3, <3>1, <4>1 DEF Awaits, Idle, On
    <3>2. CASE ~(q # r /\ req[q].pc \in {"wait", "shut", "release", "destroy"})
      BY <2>1, <3>2 DEF Awaits
    <3> QED BY <3>1, <3>2
  <2> QED BY <2>2, <2>3 DEF Closing, Clean
<1>26. ASSUME NEW r \in Request, Build(r) PROVE (Clean({"late"}) => \A q \in Request : Awaits(q))'
  <2>1. /\ \A q \in Request : q # r => req'[q] = req[q]
        /\ req'[r].pc \notin {"wait", "shut", "release", "destroy"}
    BY <1>26, Paths DEF Build, At, Goroutines, Goroutine
  <2>2. \A s \in Session : sess'[s].turn = sess[s].turn /\ sess'[s].maint = sess[s].maint
    BY <1>26 DEF Build, Objects, Object
  <2>3. waits' = waits /\ amiss \subseteq amiss'
    BY <1>26 DEF Build, history
  <2> QED BY <2>1, <2>2, <2>3, AwaitsKept DEF Closing, Clean
<1>27. ASSUME NEW r \in Request, BuildFails(r) PROVE (Clean({"late"}) => \A q \in Request : Awaits(q))'
  <2>1. /\ \A q \in Request : q # r => req'[q] = req[q]
        /\ req'[r].pc \notin {"wait", "shut", "release", "destroy"}
    BY <1>27, Paths DEF BuildFails, Goto, At, Goroutines, Goroutine
  <2>2. \A s \in Session : sess'[s].turn = sess[s].turn /\ sess'[s].maint = sess[s].maint
    BY <1>27 DEF BuildFails, Objects, Object
  <2>3. waits' = waits /\ amiss \subseteq amiss'
    BY <1>27 DEF BuildFails, history
  <2> QED BY <2>1, <2>2, <2>3, AwaitsKept DEF Closing, Clean
<1>28. ASSUME NEW r \in Request, Swap(r) PROVE (Clean({"late"}) => \A q \in Request : Awaits(q))'
  <2>1. /\ \A q \in Request : q # r => req'[q] = req[q]
        /\ req'[r].pc \notin {"wait", "shut", "release", "destroy"}
    BY <1>28, Paths DEF Swap, At, Goroutines, Goroutine
  <2>2. \A s \in Session : sess'[s].turn = sess[s].turn /\ sess'[s].maint = sess[s].maint
    BY <1>28 DEF Swap, Objects, Object
  <2>3. waits' = waits /\ amiss \subseteq amiss'
    BY <1>28 DEF Swap, history
  <2> QED BY <2>1, <2>2, <2>3, AwaitsKept DEF Closing, Clean
<1>29. ASSUME NEW r \in Request, SwapRefused(r) PROVE (Clean({"late"}) => \A q \in Request : Awaits(q))'
  <2>1. /\ \A q \in Request : q # r => req'[q] = req[q]
        /\ req'[r].pc \notin {"wait", "shut", "release", "destroy"}
    BY <1>29, Paths DEF SwapRefused, At, Goroutines, Goroutine
  <2>2. \A s \in Session : sess'[s].turn = sess[s].turn /\ sess'[s].maint = sess[s].maint
    BY <1>29 DEF SwapRefused, Objects, Object
  <2>3. waits' = waits /\ amiss \subseteq amiss'
    BY <1>29 DEF SwapRefused, history
  <2> QED BY <2>1, <2>2, <2>3, AwaitsKept DEF Closing, Clean
<1>30. ASSUME NEW r \in Request, Retire(r) PROVE (Clean({"late"}) => \A q \in Request : Awaits(q))'
  <2>1. /\ \A q \in Request : q # r => req'[q] = req[q]
        /\ req'[r].pc \notin {"wait", "shut", "release", "destroy"}
    BY <1>30, Paths DEF Retire, At, Goroutines, Goroutine
  <2>2. \A s \in Session : sess'[s].turn = sess[s].turn /\ sess'[s].maint = sess[s].maint
    BY <1>30 DEF Retire, Objects, Object
  <2>3. waits' = waits /\ amiss \subseteq amiss'
    BY <1>30 DEF Retire, history
  <2> QED BY <2>1, <2>2, <2>3, AwaitsKept DEF Closing, Clean
<1>31. ASSUME NEW r \in Request, Unwind(r) PROVE (Clean({"late"}) => \A q \in Request : Awaits(q))'
  <2>1. /\ \A q \in Request : q # r => req'[q] = req[q]
        /\ req[r].on \in Session /\ req'[r].pc \in {"apply", "drop", "done"}
        /\ \A s \in Session : s # req[r].on => sess'[s].turn = sess[s].turn
            /\ sess'[s].maint = sess[s].maint
        /\ sess'[req[r].on].maint = None /\ sess'[req[r].on].turn = sess[req[r].on].turn
    BY <1>31 DEF Unwind, Goto, At, Goroutines, Goroutine, Objects, Object, Shape, Located, Detached
  <2>2. Wake(r, "maint") /\ amiss \subseteq amiss'
    BY <1>31 DEF Unwind, history
  <2>3. \A s \in Session : s # req[r].on => sess[s].maint # r
    BY Paths DEF Work, Held
  <2> QED BY <2>1, <2>2, <2>3, AwaitsWoken DEF Closing, Clean
<1>32. ASSUME NEW r \in Request, Abandon(r) PROVE (Clean({"late"}) => \A q \in Request : Awaits(q))'
  <2>1. /\ \A q \in Request : q # r => req'[q] = req[q]
        /\ req[r].on \in Session /\ req'[r].pc \in {"apply", "drop", "done"}
        /\ \A s \in Session : s # req[r].on => sess'[s].turn = sess[s].turn
            /\ sess'[s].maint = sess[s].maint
        /\ sess'[req[r].on].maint = None /\ sess'[req[r].on].turn = sess[req[r].on].turn
    BY <1>32 DEF Abandon, End, Unserved, At, Goroutines, Goroutine, Objects, Object, Shape,
       Located, Detached
  <2>2. Wake(r, "maint") /\ amiss \subseteq amiss'
    BY <1>32 DEF Abandon, history
  <2>3. \A s \in Session : s # req[r].on => sess[s].maint # r
    BY Paths DEF Work, Held
  <2> QED BY <2>1, <2>2, <2>3, AwaitsWoken DEF Closing, Clean
<1>33. ASSUME NEW r \in Request, Apply(r) PROVE (Clean({"late"}) => \A q \in Request : Awaits(q))'
  <2>1. /\ \A q \in Request : q # r => req'[q] = req[q]
        /\ req'[r].pc \notin {"wait", "shut", "release", "destroy"}
    <3>1. CASE End(r)
      BY <3>1, EndMoves
    <3>2. CASE ~End(r)
      BY <1>33, <3>2 DEF Apply, Goto, At, Goroutines, Goroutine
    <3> QED BY <3>1, <3>2
  <2>2. \A s \in Session : sess'[s].turn = sess[s].turn /\ sess'[s].maint = sess[s].maint
    BY <1>33 DEF Apply, Objects, Object
  <2>3. waits' = waits /\ amiss \subseteq amiss'
    BY <1>33 DEF Apply, history
  <2> QED BY <2>1, <2>2, <2>3, AwaitsKept DEF Closing, Clean
<1>34. ASSUME NEW r \in Request, Copy(r) PROVE (Clean({"late"}) => \A q \in Request : Awaits(q))'
  <2>1. /\ \A q \in Request : q # r => req'[q] = req[q]
        /\ req'[r].pc \notin {"wait", "shut", "release", "destroy"}
    <3>1. CASE End(r)
      BY <3>1, EndMoves
    <3>2. CASE ~End(r)
      BY <1>34, <3>2 DEF Copy, At, Goroutines, Goroutine
    <3> QED BY <3>1, <3>2
  <2>2. \A s \in Session : sess'[s].turn = sess[s].turn /\ sess'[s].maint = sess[s].maint
    BY <1>34 DEF Copy, Objects, Object
  <2>3. waits' = waits /\ amiss \subseteq amiss'
    BY <1>34 DEF Copy, history
  <2> QED BY <2>1, <2>2, <2>3, AwaitsKept DEF Closing, Clean
<1>35. ASSUME NEW r \in Request, Drop(r) PROVE (Clean({"late"}) => \A q \in Request : Awaits(q))'
  <2>1. /\ \A q \in Request : q # r => req'[q] = req[q]
        /\ req'[r].pc \notin {"wait", "shut", "release", "destroy"}
    <3>1. CASE End(r)
      BY <3>1, EndMoves
    <3>2. CASE ~End(r)
      BY <1>35, <3>2 DEF Drop, At, Goroutines, Goroutine
    <3> QED BY <3>1, <3>2
  <2>2. \A s \in Session : sess'[s].turn = sess[s].turn /\ sess'[s].maint = sess[s].maint
    BY <1>35 DEF Drop, Objects, Object
  <2>3. waits' = waits /\ amiss \subseteq amiss'
    BY <1>35 DEF Drop, Void, history
  <2> QED BY <2>1, <2>2, <2>3, AwaitsKept DEF Closing, Clean
<1>36. ASSUME NEW r \in Request, Abort(r) PROVE (Clean({"late"}) => \A q \in Request : Awaits(q))'
  <2>1. /\ \A q \in Request : q # r => req'[q] = req[q] /\ waits'[q] = waits[q]
        /\ req[r].on \in Session /\ req'[r].pc = "wait" /\ req'[r].on = req[r].on
        /\ \A s \in Session : sess'[s].turn = sess[s].turn /\ sess'[s].maint = sess[s].maint
        /\ waits'[r] = Awaited(sess[req[r].on]) /\ amiss' = amiss
    BY <1>36 DEF Abort, On, Goto, At, Goroutines, Goroutine, Objects, Object, Others, Shape,
       Located, Detached, history
  <2>2. Awaits(r)'
    BY <2>1 DEF Awaits, Awaited, On
  <2>3. ASSUME NEW q \in Request, q # r, Awaits(q) PROVE Awaits(q)'
    <3>1. req[q].pc \in {"wait", "shut", "release", "destroy"} => req[q].on \in Session
      BY DEF Shape, Located, Detached, Goroutines, Goroutine
    <3> QED BY <2>1, <2>3, <3>1 DEF Awaits, Idle, On
  <2> QED BY <2>1, <2>2, <2>3 DEF Closing, Clean
<1>37. ASSUME NEW r \in Request, Waited(r) PROVE (Clean({"late"}) => \A q \in Request : Awaits(q))'
  <2>1. /\ \A q \in Request : q # r => req'[q] = req[q]
        /\ req[r].on \in Session /\ req'[r].pc \in {"shut", "release", "destroy", "done"}
        /\ req'[r].pc # "done" => req'[r].on = req[r].on
        /\ \A s \in Session : sess'[s].turn = sess[s].turn /\ sess'[s].maint = sess[s].maint
        /\ waits' = waits /\ amiss' = amiss /\ req[r].pc = "wait"
    BY <1>37 DEF Waited, Goto, At, Goroutines, Goroutine, Objects, Object, Shape, Located,
       Detached, history
  <2>2. ASSUME Awaits(r) PROVE Awaits(r)'
    BY <1>37, <2>1, <2>2, Paths DEF Waited, Awaits, Idle, On
  <2>3. ASSUME NEW q \in Request, q # r, Awaits(q) PROVE Awaits(q)'
    <3>1. req[q].pc \in {"wait", "shut", "release", "destroy"} => req[q].on \in Session
      BY DEF Shape, Located, Detached, Goroutines, Goroutine
    <3> QED BY <2>1, <2>3, <3>1 DEF Awaits, Idle, On
  <2> QED BY <2>1, <2>2, <2>3 DEF Closing, Clean
<1>38. ASSUME NEW r \in Request, Shut(r) PROVE (Clean({"late"}) => \A q \in Request : Awaits(q))'
  <2>1. /\ \A q \in Request : q # r => req'[q] = req[q]
        /\ req[r].on \in Session /\ req'[r].pc \in {"shut", "release", "destroy", "done"}
        /\ req'[r].pc # "done" => req'[r].on = req[r].on
        /\ \A s \in Session : sess'[s].turn = sess[s].turn /\ sess'[s].maint = sess[s].maint
        /\ waits' = waits /\ amiss' = amiss /\ req[r].pc = "shut"
    BY <1>38 DEF Shut, On, Goto, At, Goroutines, Goroutine, Objects, Object, Shape, Located,
       Detached, history
  <2>2. ASSUME Awaits(r) PROVE Awaits(r)'
    BY <1>38, <2>1, <2>2, Paths DEF Shut, Awaits, Idle, On
  <2>3. ASSUME NEW q \in Request, q # r, Awaits(q) PROVE Awaits(q)'
    <3>1. req[q].pc \in {"wait", "shut", "release", "destroy"} => req[q].on \in Session
      BY DEF Shape, Located, Detached, Goroutines, Goroutine
    <3> QED BY <2>1, <2>3, <3>1 DEF Awaits, Idle, On
  <2> QED BY <2>1, <2>2, <2>3 DEF Closing, Clean
<1>39. ASSUME NEW r \in Request, Release(r) PROVE (Clean({"late"}) => \A q \in Request : Awaits(q))'
  <2>1. /\ \A q \in Request : q # r => req'[q] = req[q]
        /\ req[r].on \in Session /\ req'[r].pc \in {"shut", "release", "destroy", "done"}
        /\ req'[r].pc # "done" => req'[r].on = req[r].on
        /\ \A s \in Session : sess'[s].turn = sess[s].turn /\ sess'[s].maint = sess[s].maint
        /\ waits' = waits /\ amiss' = amiss /\ req[r].pc = "release"
    BY <1>39 DEF Release, On, Goto, End, Unserved, At, Goroutines, Goroutine, Objects, Object,
       Shape, Located, Detached, history
  <2>2. ASSUME Awaits(r) PROVE Awaits(r)'
    BY <1>39, <2>1, <2>2, Paths DEF Release, Awaits, Idle, On
  <2>3. ASSUME NEW q \in Request, q # r, Awaits(q) PROVE Awaits(q)'
    <3>1. req[q].pc \in {"wait", "shut", "release", "destroy"} => req[q].on \in Session
      BY DEF Shape, Located, Detached, Goroutines, Goroutine
    <3> QED BY <2>1, <2>3, <3>1 DEF Awaits, Idle, On
  <2> QED BY <2>1, <2>2, <2>3 DEF Closing, Clean
<1>40. ASSUME NEW r \in Request, Destroy(r) PROVE (Clean({"late"}) => \A q \in Request : Awaits(q))'
  <2>1. /\ \A q \in Request : q # r => req'[q] = req[q]
        /\ req'[r].pc \notin {"wait", "shut", "release", "destroy"}
    BY <1>40, Paths DEF Destroy, At, Goroutines, Goroutine
  <2>2. \A s \in Session : sess'[s].turn = sess[s].turn /\ sess'[s].maint = sess[s].maint
    BY <1>40 DEF Destroy, Objects, Object
  <2>3. waits' = waits /\ amiss \subseteq amiss'
    BY <1>40 DEF Destroy, history
  <2> QED BY <2>1, <2>2, <2>3, AwaitsKept DEF Closing, Clean
<1>41. ASSUME NEW r \in Request, Erase(r) PROVE (Clean({"late"}) => \A q \in Request : Awaits(q))'
  <2>1. /\ \A q \in Request : q # r => req'[q] = req[q]
        /\ req'[r].pc \notin {"wait", "shut", "release", "destroy"}
    BY <1>41, Paths DEF Erase, Goto, At, Goroutines, Goroutine
  <2>2. \A s \in Session : sess'[s].turn = sess[s].turn /\ sess'[s].maint = sess[s].maint
    BY <1>41 DEF Erase, Objects, Object
  <2>3. waits' = waits /\ amiss \subseteq amiss'
    BY <1>41 DEF Erase, history
  <2> QED BY <2>1, <2>2, <2>3, AwaitsKept DEF Closing, Clean
<1>42. ASSUME NEW r \in Request, Twin(r) PROVE (Clean({"late"}) => \A q \in Request : Awaits(q))'
  <2>1. /\ \A q \in Request : q # r => req'[q] = req[q]
        /\ req'[r].pc \notin {"wait", "shut", "release", "destroy"}
    <3>1. CASE End(r)
      BY <3>1, EndMoves
    <3>2. CASE ~End(r)
      BY <1>42, <3>2 DEF Twin, Goto, At, Goroutines, Goroutine
    <3> QED BY <3>1, <3>2
  <2>2. \A s \in Session : sess'[s].turn = sess[s].turn /\ sess'[s].maint = sess[s].maint
    BY <1>42 DEF Twin, Objects, Object
  <2>3. waits' = waits /\ amiss \subseteq amiss'
    BY <1>42 DEF Twin, history
  <2> QED BY <2>1, <2>2, <2>3, AwaitsKept DEF Closing, Clean
<1>43. ASSUME NEW r \in Request, Linger(r) PROVE (Clean({"late"}) => \A q \in Request : Awaits(q))'
  <2>1. /\ \A q \in Request : q # r => req'[q] = req[q]
        /\ req'[r].pc \notin {"wait", "shut", "release", "destroy"}
    <3>1. CASE End(r)
      BY <3>1, EndMoves
    <3>2. CASE ~End(r)
      BY <1>43, <3>2 DEF Linger, At, Goroutines, Goroutine
    <3> QED BY <3>1, <3>2
  <2>2. \A s \in Session : sess'[s].turn = sess[s].turn /\ sess'[s].maint = sess[s].maint
    BY <1>43 DEF Linger, Objects, Object
  <2>3. waits' = waits /\ amiss \subseteq amiss'
    BY <1>43 DEF Linger, history
  <2> QED BY <2>1, <2>2, <2>3, AwaitsKept DEF Closing, Clean
<1>44. ASSUME NEW r \in Request, ResolveAgain(r) PROVE (Clean({"late"}) =>
               \A q \in Request : Awaits(q))'
  <2>1. /\ \A q \in Request : q # r => req'[q] = req[q]
        /\ req'[r].pc \notin {"wait", "shut", "release", "destroy"}
    <3>1. CASE End(r)
      BY <3>1, EndMoves
    <3>2. CASE ~End(r)
      BY <1>44, <3>2 DEF ResolveAgain, At, Goroutines, Goroutine
    <3> QED BY <3>1, <3>2
  <2>2. \A s \in Session : sess'[s].turn = sess[s].turn /\ sess'[s].maint = sess[s].maint
    BY <1>44 DEF ResolveAgain, Objects, Object
  <2>3. waits' = waits /\ amiss \subseteq amiss'
    BY <1>44 DEF ResolveAgain, history
  <2> QED BY <2>1, <2>2, <2>3, AwaitsKept DEF Closing, Clean
<1>45. ASSUME NEW r \in Request, Acquire(r) PROVE (Clean({"late"}) => \A q \in Request : Awaits(q))'
  <2>1. /\ \A q \in Request : q # r => req'[q] = req[q]
        /\ req'[r].pc \notin {"wait", "shut", "release", "destroy"}
    <3>1. CASE End(r)
      BY <3>1, EndMoves
    <3>2. CASE ~End(r)
      BY <1>45, <3>2 DEF Acquire, Goto, At, Goroutines, Goroutine
    <3> QED BY <3>1, <3>2
  <2>2. \A s \in Session : sess'[s].turn = sess[s].turn /\ sess'[s].maint = sess[s].maint
    BY <1>45 DEF Acquire, Objects, Object
  <2>3. waits' = waits /\ amiss \subseteq amiss'
    BY <1>45 DEF Acquire, history
  <2> QED BY <2>1, <2>2, <2>3, AwaitsKept DEF Closing, Clean
<1>46. ASSUME NEW r \in Request, Read(r) PROVE (Clean({"late"}) => \A q \in Request : Awaits(q))'
  <2>1. /\ \A q \in Request : q # r => req'[q] = req[q]
        /\ req[r].on \in Session /\ req[r].pc \in Opens /\ req'[r].pc = "meta"
        /\ \A s \in Session : s # req[r].on => sess'[s].turn = sess[s].turn
            /\ sess'[s].maint = sess[s].maint
        /\ waits' = waits /\ amiss \subseteq amiss'
    BY <1>46 DEF Read, Goto, Race, At, Opens, Goroutines, Goroutine, Objects, Object, Shape,
       Located, Detached
  <2>2. ASSUME NEW q \in Request, Awaits(q) PROVE Awaits(q)'
    <3>1. CASE q # r /\ req[q].pc \in {"wait", "shut", "release", "destroy"}
      <4>1. req[q].on # req[r].on /\ req[q].on \in Session
        BY <2>1, <3>1 DEF Shape, Located, Detached, Alone, Goroutines, Goroutine
      <4> QED BY <2>1, <2>2, <3>1, <4>1 DEF Awaits, Idle, On
    <3>2. CASE ~(q # r /\ req[q].pc \in {"wait", "shut", "release", "destroy"})
      BY <2>1, <3>2 DEF Awaits
    <3> QED BY <3>1, <3>2
  <2> QED BY <2>1, <2>2 DEF Closing, Clean
<1>47. ASSUME NEW r \in Request, ReadFails(r) PROVE (Clean({"late"}) => \A q \in Request : Awaits(q))'
  <2>1. /\ \A q \in Request : q # r => req'[q] = req[q]
        /\ req'[r].pc \notin {"wait", "shut", "release", "destroy"}
    <3>1. CASE End(r)
      BY <3>1, EndMoves
    <3>2. CASE ~End(r)
      BY <1>47, <3>2 DEF ReadFails, At, Goroutines, Goroutine
    <3> QED BY <3>1, <3>2
  <2>2. \A s \in Session : sess'[s].turn = sess[s].turn /\ sess'[s].maint = sess[s].maint
    BY <1>47 DEF ReadFails, Objects, Object
  <2>3. waits' = waits /\ amiss \subseteq amiss'
    BY <1>47 DEF ReadFails, history
  <2> QED BY <2>1, <2>2, <2>3, AwaitsKept DEF Closing, Clean
<1>48. ASSUME NEW r \in Request, LoadMeta(r) PROVE (Clean({"late"}) => \A q \in Request : Awaits(q))'
  <2>1. /\ \A q \in Request : q # r => req'[q] = req[q]
        /\ req'[r].pc \notin {"wait", "shut", "release", "destroy"}
    BY <1>48, Paths DEF LoadMeta, Goto, At, Goroutines, Goroutine
  <2>2. \A s \in Session : sess'[s].turn = sess[s].turn /\ sess'[s].maint = sess[s].maint
    BY <1>48 DEF LoadMeta, Objects, Object
  <2>3. waits' = waits /\ amiss \subseteq amiss'
    BY <1>48 DEF LoadMeta, history
  <2> QED BY <2>1, <2>2, <2>3, AwaitsKept DEF Closing, Clean
<1>49. ASSUME NEW r \in Request, LoadMetaFails(r) PROVE (Clean({"late"}) =>
               \A q \in Request : Awaits(q))'
  <2>1. /\ \A q \in Request : q # r => req'[q] = req[q]
        /\ req[r].on \in Session /\ req[r].pc \in Opens /\ req'[r].pc = "done"
        /\ \A s \in Session : s # req[r].on => sess'[s].turn = sess[s].turn
            /\ sess'[s].maint = sess[s].maint
        /\ waits' = waits /\ amiss \subseteq amiss'
    BY <1>49 DEF LoadMetaFails, End, Unserved, Unopened, Opened, history, At, Opens, Goroutines,
       Goroutine, Objects, Object, Shape, Located, Detached
  <2>2. ASSUME NEW q \in Request, Awaits(q) PROVE Awaits(q)'
    <3>1. CASE q # r /\ req[q].pc \in {"wait", "shut", "release", "destroy"}
      <4>1. req[q].on # req[r].on /\ req[q].on \in Session
        BY <2>1, <3>1 DEF Shape, Located, Detached, Alone, Goroutines, Goroutine
      <4> QED BY <2>1, <2>2, <3>1, <4>1 DEF Awaits, Idle, On
    <3>2. CASE ~(q # r /\ req[q].pc \in {"wait", "shut", "release", "destroy"})
      BY <2>1, <3>2 DEF Awaits
    <3> QED BY <3>1, <3>2
  <2> QED BY <2>1, <2>2 DEF Closing, Clean
<1>50. ASSUME NEW r \in Request, Register(r) PROVE (Clean({"late"}) => \A q \in Request : Awaits(q))'
  <2>1. /\ \A q \in Request : q # r => req'[q] = req[q]
        /\ req'[r].pc \notin {"wait", "shut", "release", "destroy"}
    <3>1. CASE End(r)
      BY <3>1, EndMoves
    <3>2. CASE ~End(r)
      BY <1>50, <3>2 DEF Register, At, Goroutines, Goroutine
    <3> QED BY <3>1, <3>2
  <2>2. \A s \in Session : sess'[s].turn = sess[s].turn /\ sess'[s].maint = sess[s].maint
    BY <1>50 DEF Register, Objects, Object
  <2>3. waits' = waits /\ amiss \subseteq amiss'
    BY <1>50 DEF Register, history
  <2> QED BY <2>1, <2>2, <2>3, AwaitsKept DEF Closing, Clean
<1>51. ASSUME NEW p \in Path, OtherAcquires(p) PROVE (Clean({"late"}) => \A q \in Request : Awaits(q))'
  BY <1>51, Paths DEF OtherAcquires, Goroutines, Objects, Goroutine, Object, Others, Closing,
     Clean, Awaits, Idle, On, Gone, Closes, Alone, Shape, Opens, Located, Detached, fileVars,
     history
<1>52. ASSUME NEW p \in Path, OtherReleases(p) PROVE (Clean({"late"}) => \A q \in Request : Awaits(q))'
  BY <1>52, Paths DEF OtherReleases, Unlock, Goroutines, Objects, Goroutine, Object, Others,
     Closing, Clean, Awaits, Idle, On, Gone, Closes, Alone, Shape, Opens, Located, Detached,
     fileVars, history
<1>53. ASSUME NEW p \in Path, Reconcile(p) PROVE (Clean({"late"}) => \A q \in Request : Awaits(q))'
  BY <1>53, Paths DEF Reconcile, Remove, Goroutines, Objects, Goroutine, Object, Others,
     Closing, Clean, Awaits, Idle, On, Gone, Closes, Alone, Shape, Opens, Located, Detached,
     fileVars, history
<1>54. CASE Crash
  BY <1>54, Paths DEF Crash, Unserved, Unopened, Opened, At, Goroutines, Objects, Goroutine,
     Object, Others, Closing, Clean, Awaits, Idle, On, Gone, Closes, Alone, Shape, Opens,
     Located, Detached, fileVars, history
<1> QED BY <1>1, <1>2, <1>3, <1>4, <1>5, <1>6, <1>7, <1>8, <1>9, <1>10, <1>11, <1>12, <1>13,
           <1>14, <1>15, <1>16, <1>17, <1>18, <1>19, <1>20, <1>21, <1>22, <1>23, <1>24, <1>25,
           <1>26, <1>27, <1>28, <1>29, <1>30, <1>31, <1>32, <1>33, <1>34, <1>35, <1>36, <1>37,
           <1>38, <1>39, <1>40, <1>41, <1>42, <1>43, <1>44, <1>45, <1>46, <1>47, <1>48, <1>49,
           <1>50, <1>51, <1>52, <1>53, <1>54 DEF Next, Start, Continue, Turn, Save, Rebuild,
           Close, Open

LEMMA ServedStep ==
  ASSUME Goroutines, Objects, Others, Shape, Work, Distinct, Closing, [Next]_vars
  PROVE  (Clean({"late"}) => \A s \in Session : Served(s))'
<1>1. CASE UNCHANGED vars
  BY <1>1 DEF Goroutines, Objects, Goroutine, Object, Others, Closing, Clean, Served, Awaits,
     Alive, Idle, On, Distinct, Shape, Located, Blank, Detached, vars, fileVars, history
<1>2. ASSUME NEW r \in Request, Prompt(r) PROVE (Clean({"late"}) => \A s \in Session : Served(s))'
  BY <1>2, Paths DEF Prompt, Serve, At, Goroutines, Objects, Goroutine, Object, Others, Closing,
     Clean, Served, Awaits, Alive, Idle, On, Distinct, Shape, Located, Blank, Detached,
     fileVars, history
<1>3. ASSUME NEW r \in Request, SetConfig(r) PROVE (Clean({"late"}) => \A s \in Session : Served(s))'
  BY <1>3, Paths DEF SetConfig, At, Goroutines, Objects, Goroutine, Object, Others, Closing,
     Clean, Served, Awaits, Alive, Idle, On, Distinct, Shape, Located, Blank, Detached,
     fileVars, history
<1>4. ASSUME NEW r \in Request, Take(r) PROVE (Clean({"late"}) => \A s \in Session : Served(s))'
  BY <1>4, Paths DEF Take, At, Goroutines, Objects, Goroutine, Object, Others, Closing, Clean,
     Served, Awaits, Alive, Idle, On, Distinct, Shape, Located, Blank, Detached, fileVars,
     history
<1>5. ASSUME NEW r \in Request, DeleteClosed(r) PROVE (Clean({"late"}) => \A s \in Session : Served(s))'
  BY <1>5, Paths DEF DeleteClosed, Serve, At, Race, Resolve, Goroutines, Objects, Goroutine,
     Object, Others, Closing, Clean, Served, Awaits, Alive, Idle, On, Distinct, Shape, Located,
     Blank, Detached, fileVars, history
<1>6. ASSUME NEW r \in Request, Load(r) PROVE (Clean({"late"}) => \A s \in Session : Served(s))'
  BY <1>6, Paths DEF Load, At, FreeSessions, Resolve, Unserved, Goroutines, Objects, Goroutine,
     Object, Others, Closing, Clean, Served, Awaits, Alive, Idle, On, Distinct, Shape, Located,
     Blank, Detached, fileVars, history
<1>7. ASSUME NEW r \in Request, Begin(r) PROVE (Clean({"late"}) => \A s \in Session : Served(s))'
  BY <1>7, Paths DEF Begin, MayBegin, On, Goto, Late, At, Goroutines, Objects, Goroutine,
     Object, Others, Closing, Clean, Served, Awaits, Alive, Idle, On, Distinct, Shape, Located,
     Blank, Detached, fileVars, history
<1>8. ASSUME NEW r \in Request, BeginRefused(r) PROVE (Clean({"late"}) => \A s \in Session : Served(s))'
  BY <1>8, Paths DEF BeginRefused, End, At, Unserved, Goroutines, Objects, Goroutine, Object,
     Others, Closing, Clean, Served, Awaits, Alive, Idle, On, Distinct, Shape, Located, Blank,
     Detached, fileVars, history
<1>9. ASSUME NEW r \in Request, Enter(r) PROVE (Clean({"late"}) => \A s \in Session : Served(s))'
  BY <1>9, Paths DEF Enter, On, At, Goroutines, Objects, Goroutine, Object, Others, Closing,
     Clean, Served, Awaits, Alive, Idle, On, Distinct, Shape, Located, Blank, Detached,
     fileVars, history
<1>10. ASSUME NEW r \in Request, Persist(r) PROVE (Clean({"late"}) => \A s \in Session : Served(s))'
  BY <1>10, Paths DEF Persist, On, At, Goroutines, Objects, Goroutine, Object, Others, Closing,
     Clean, Served, Awaits, Alive, Idle, On, Distinct, Shape, Located, Blank, Detached,
     fileVars, history
<1>11. ASSUME NEW r \in Request, Stamp(r) PROVE (Clean({"late"}) => \A s \in Session : Served(s))'
  BY <1>11, Paths DEF Stamp, On, At, Goto, SaveMeta, Goroutines, Objects, Goroutine, Object,
     Others, Closing, Clean, Served, Awaits, Alive, Idle, On, Distinct, Shape, Located, Blank,
     Detached, fileVars, history
<1>12. ASSUME NEW r \in Request, Finish(r) PROVE (Clean({"late"}) => \A s \in Session : Served(s))'
  BY <1>12, Paths DEF Finish, At, Wake, Goroutines, Objects, Goroutine, Object, Others, Closing,
     Clean, Served, Awaits, Alive, Idle, On, Distinct, Shape, Located, Blank, Detached,
     fileVars, history
<1>13. ASSUME NEW r \in Request, TurnReturns(r) PROVE (Clean({"late"}) => \A s \in Session : Served(s))'
  BY <1>13, Paths DEF TurnReturns, At, Goroutines, Objects, Goroutine, Object, Others, Closing,
     Clean, Served, Awaits, Alive, Idle, On, Distinct, Shape, Located, Blank, Detached,
     fileVars, history
<1>14. ASSUME NEW r \in Request, Cancel(r) PROVE (Clean({"late"}) => \A s \in Session : Served(s))'
  BY <1>14, Paths DEF Cancel, Goroutines, Objects, Goroutine, Object, Others, Closing, Clean,
     Served, Awaits, Alive, Idle, On, Distinct, Shape, Located, Blank, Detached, fileVars,
     history
<1>15. ASSUME NEW r \in Request, Saved(r) PROVE (Clean({"late"}) => \A s \in Session : Served(s))'
  <2>1. PICK p \in {"persist", "stamp", "build", "abandon", "assign", "redirect"} : Goto(r, p)
    BY <1>15, SaveMoves
  <2>2. /\ \A q \in Request : q # r => req'[q] = req[q]
        /\ req'[r].pc = p /\ req'[r].on = req[r].on /\ req'[r].ctrl = req[r].ctrl
        /\ req'[r].at = req[r].at /\ req'[r].to = req[r].to /\ req'[r].next = req[r].next
    BY <2>1, GotoMoves
  <2> QED BY <1>15, <2>2, Paths DEF Saved, At, Goroutines, Objects, Goroutine, Object, Others,
             Closing, Clean, Served, Awaits, Alive, Idle, On, Distinct, Shape, Located, Blank,
             Detached, fileVars, history
<1>16. ASSUME NEW r \in Request, NotSaved(r) PROVE (Clean({"late"}) => \A s \in Session : Served(s))'
  <2>1. PICK p \in {"persist", "stamp", "build", "abandon", "assign", "redirect"} : Goto(r, p)
    BY <1>16, SaveMoves
  <2>2. /\ \A q \in Request : q # r => req'[q] = req[q]
        /\ req'[r].pc = p /\ req'[r].on = req[r].on /\ req'[r].ctrl = req[r].ctrl
        /\ req'[r].at = req[r].at /\ req'[r].to = req[r].to /\ req'[r].next = req[r].next
    BY <2>1, GotoMoves
  <2> QED BY <1>16, <2>2, Paths DEF NotSaved, At, Goroutines, Objects, Goroutine, Object,
             Others, Closing, Clean, Served, Awaits, Alive, Idle, On, Distinct, Shape, Located,
             Blank, Detached, fileVars, history
<1>17. ASSUME NEW r \in Request, Recover(r) PROVE (Clean({"late"}) => \A s \in Session : Served(s))'
  BY <1>17, Paths DEF Recover, At, Goroutines, Objects, Goroutine, Object, Others, Closing,
     Clean, Served, Awaits, Alive, Idle, On, Distinct, Shape, Located, Blank, Detached,
     fileVars, history
<1>18. ASSUME NEW r \in Request, Follow(r) PROVE (Clean({"late"}) => \A s \in Session : Served(s))'
  BY <1>18, Paths DEF Follow, At, Goroutines, Objects, Goroutine, Object, Others, Closing,
     Clean, Served, Awaits, Alive, Idle, On, Distinct, Shape, Located, Blank, Detached,
     fileVars, history
<1>19. ASSUME NEW r \in Request, Secure(r) PROVE (Clean({"late"}) => \A s \in Session : Served(s))'
  <2>1. PICK p \in {"persist", "stamp", "build", "abandon", "assign", "redirect"} : Goto(r, p)
    BY <1>19, SaveMoves
  <2>2. /\ \A q \in Request : q # r => req'[q] = req[q]
        /\ req'[r].pc = p /\ req'[r].on = req[r].on /\ req'[r].ctrl = req[r].ctrl
        /\ req'[r].at = req[r].at /\ req'[r].to = req[r].to /\ req'[r].next = req[r].next
    BY <2>1, GotoMoves
  <2> QED BY <1>19, <2>2, Paths DEF Secure, At, Goroutines, Objects, Goroutine, Object, Others,
             Closing, Clean, Served, Awaits, Alive, Idle, On, Distinct, Shape, Located, Blank,
             Detached, fileVars, history
<1>20. ASSUME NEW r \in Request, Assign(r) PROVE (Clean({"late"}) => \A s \in Session : Served(s))'
  <2>1. PICK p \in {"persist", "stamp", "build", "abandon", "assign", "redirect"} : Goto(r, p)
    BY <1>20, SaveMoves
  <2>2. /\ \A q \in Request : q # r => req'[q] = req[q]
        /\ req'[r].pc = p /\ req[r].to \in Session
    BY <1>20, <2>1, GotoMoves DEF Assign, At, Shape, Located, Goroutines, Goroutine
  <2>3. \A s \in Session : s # req[r].to => sess'[s] = sess[s]
    BY <1>20, <2>2 DEF Assign, MoveTo, Objects
  <2>4. UNCHANGED <<closed, last>> /\ amiss \subseteq amiss'
    BY <1>20 DEF Assign
  <2>5. /\ sess'[req[r].to].ctrl = sess[req[r].to].ctrl
        /\ sess'[req[r].to].turn = sess[req[r].to].turn
        /\ sess'[req[r].to].maint = sess[req[r].to].maint
        /\ sess[req[r].to].lease # None => sess'[req[r].to].lease # None
    <3>1. req[r].at \in Path
      BY DEF Goroutines, Goroutine
    <3>2. CASE UNCHANGED sess
      BY <3>2
    <3>3. CASE MoveTo(req[r].to, req[r].at)
      BY <2>2, <3>1, <3>3, Paths DEF MoveTo, Objects, Object
    <3> QED BY <1>20, <3>2, <3>3 DEF Assign
  <2>6. ASSUME NEW s \in Session, Served(s) PROVE Served(s)'
    BY <2>3, <2>4, <2>5, <2>6 DEF Served, Idle
  <2> QED BY <2>4, <2>6 DEF Closing, Clean
<1>21. ASSUME NEW r \in Request, Redirect(r) PROVE (Clean({"late"}) => \A s \in Session : Served(s))'
  BY <1>21, Paths DEF Redirect, At, RedirectTo, Goto, Goroutines, Objects, Goroutine, Object,
     Others, Closing, Clean, Served, Awaits, Alive, Idle, On, Distinct, Shape, Located, Blank,
     Detached, fileVars, history
<1>22. ASSUME NEW r \in Request, Commit(r) PROVE (Clean({"late"}) => \A s \in Session : Served(s))'
  <2>1. PICK p \in {"persist", "stamp", "build", "abandon", "assign", "redirect"} : Goto(r, p)
    BY <1>22, SaveMoves
  <2>2. /\ \A q \in Request : q # r => req'[q] = req[q]
        /\ req'[r].pc = p /\ req'[r].on = req[r].on /\ req'[r].ctrl = req[r].ctrl
        /\ req'[r].at = req[r].at /\ req'[r].to = req[r].to /\ req'[r].next = req[r].next
    BY <2>1, GotoMoves
  <2> QED BY <1>22, <2>2, Paths DEF Commit, At, Goroutines, Objects, Goroutine, Object, Others,
             Closing, Clean, Served, Awaits, Alive, Idle, On, Distinct, Shape, Located, Blank,
             Detached, fileVars, history
<1>23. ASSUME NEW r \in Request, ClaimRefused(r) PROVE (Clean({"late"}) =>
               \A s \in Session : Served(s))'
  BY <1>23, Paths DEF ClaimRefused, At, Fail, Goto, End, Unserved, Goroutines, Objects,
     Goroutine, Object, Others, Closing, Clean, Served, Awaits, Alive, Idle, On, Distinct,
     Shape, Located, Blank, Detached, fileVars, history
<1>24. ASSUME NEW r \in Request, Queue(r) PROVE (Clean({"late"}) => \A s \in Session : Served(s))'
  BY <1>24, Paths DEF Queue, At, On, Chosen, End, Unserved, Busy, Goroutines, Objects,
     Goroutine, Object, Others, Closing, Clean, Served, Awaits, Alive, Idle, On, Distinct,
     Shape, Located, Blank, Detached, fileVars, history
<1>25. ASSUME NEW r \in Request, Claim(r) PROVE (Clean({"late"}) => \A s \in Session : Served(s))'
  BY <1>25, Paths DEF Claim, At, On, Busy, Chosen, Goroutines, Objects, Goroutine, Object,
     Others, Closing, Clean, Served, Awaits, Alive, Idle, On, Distinct, Shape, Located, Blank,
     Detached, fileVars, history
<1>26. ASSUME NEW r \in Request, Build(r) PROVE (Clean({"late"}) => \A s \in Session : Served(s))'
  BY <1>26, Paths DEF Build, At, FreeCtrls, Goroutines, Objects, Goroutine, Object, Others,
     Closing, Clean, Served, Awaits, Alive, Idle, On, Distinct, Shape, Located, Blank, Detached,
     fileVars, history
<1>27. ASSUME NEW r \in Request, BuildFails(r) PROVE (Clean({"late"}) => \A s \in Session : Served(s))'
  BY <1>27, Paths DEF BuildFails, At, Goto, Goroutines, Objects, Goroutine, Object, Others,
     Closing, Clean, Served, Awaits, Alive, Idle, On, Distinct, Shape, Located, Blank, Detached,
     fileVars, history
<1>28. ASSUME NEW r \in Request, Swap(r) PROVE (Clean({"late"}) => \A s \in Session : Served(s))'
  BY <1>28, Paths DEF Swap, At, On, SaveMeta, Goroutines, Objects, Goroutine, Object, Others,
     Closing, Clean, Served, Awaits, Alive, Idle, On, Distinct, Shape, Located, Blank, Detached,
     fileVars, history
<1>29. ASSUME NEW r \in Request, SwapRefused(r) PROVE (Clean({"late"}) => \A s \in Session : Served(s))'
  BY <1>29, Paths DEF SwapRefused, At, On, Goroutines, Objects, Goroutine, Object, Others,
     Closing, Clean, Served, Awaits, Alive, Idle, On, Distinct, Shape, Located, Blank, Detached,
     fileVars, history
<1>30. ASSUME NEW r \in Request, Retire(r) PROVE (Clean({"late"}) => \A s \in Session : Served(s))'
  BY <1>30, Paths DEF Retire, At, Goroutines, Objects, Goroutine, Object, Others, Closing,
     Clean, Served, Awaits, Alive, Idle, On, Distinct, Shape, Located, Blank, Detached,
     fileVars, history
<1>31. ASSUME NEW r \in Request, Unwind(r) PROVE (Clean({"late"}) => \A s \in Session : Served(s))'
  BY <1>31, Paths DEF Unwind, At, Wake, Goto, Goroutines, Objects, Goroutine, Object, Others,
     Closing, Clean, Served, Awaits, Alive, Idle, On, Distinct, Shape, Located, Blank, Detached,
     fileVars, history
<1>32. ASSUME NEW r \in Request, Abandon(r) PROVE (Clean({"late"}) => \A s \in Session : Served(s))'
  BY <1>32, Paths DEF Abandon, At, Wake, On, Void, End, Unserved, Goroutines, Objects,
     Goroutine, Object, Others, Closing, Clean, Served, Awaits, Alive, Idle, On, Distinct,
     Shape, Located, Blank, Detached, fileVars, history
<1>33. ASSUME NEW r \in Request, Apply(r) PROVE (Clean({"late"}) => \A s \in Session : Served(s))'
  BY <1>33, Paths DEF Apply, At, Goto, End, Unserved, Goroutines, Objects, Goroutine, Object,
     Others, Closing, Clean, Served, Awaits, Alive, Idle, On, Distinct, Shape, Located, Blank,
     Detached, fileVars, history
<1>34. ASSUME NEW r \in Request, Copy(r) PROVE (Clean({"late"}) => \A s \in Session : Served(s))'
  BY <1>34, Paths DEF Copy, At, On, End, Unserved, Goroutines, Objects, Goroutine, Object,
     Others, Closing, Clean, Served, Awaits, Alive, Idle, On, Distinct, Shape, Located, Blank,
     Detached, fileVars, history
<1>35. ASSUME NEW r \in Request, Drop(r) PROVE (Clean({"late"}) => \A s \in Session : Served(s))'
  BY <1>35, Paths DEF Drop, At, On, MayDrop, Void, End, Unserved, Busy, Goroutines, Objects,
     Goroutine, Object, Others, Closing, Clean, Served, Awaits, Alive, Idle, On, Distinct,
     Shape, Located, Blank, Detached, fileVars, history
<1>36. ASSUME NEW r \in Request, Abort(r) PROVE (Clean({"late"}) => \A s \in Session : Served(s))'
  BY <1>36, Paths DEF Abort, At, On, Awaited, Interrupted, Goto, Goroutines, Objects, Goroutine,
     Object, Others, Closing, Clean, Served, Awaits, Alive, Idle, On, Distinct, Shape, Located,
     Blank, Detached, fileVars, history
<1>37. ASSUME NEW r \in Request, Waited(r) PROVE (Clean({"late"}) => \A s \in Session : Served(s))'
  BY <1>37, Paths DEF Waited, At, Goto, Goroutines, Objects, Goroutine, Object, Others, Closing,
     Clean, Served, Awaits, Alive, Idle, On, Distinct, Shape, Located, Blank, Detached,
     fileVars, history
<1>38. ASSUME NEW r \in Request, Shut(r) PROVE (Clean({"late"}) => \A s \in Session : Served(s))'
  <2>1. /\ req[r].on \in Session /\ req[r].pc \in {"shut", "destroy"} /\ sess[req[r].on].ctrl # None
        /\ closed' = closed \cup {sess[req[r].on].ctrl} /\ UNCHANGED <<sess, amiss>>
    BY <1>38 DEF Shut, At, On, Shape, Located, Goroutines, Goroutine, Blank, Detached, history
  <2>2. ASSUME NEW s \in Session, Awaits(r), Served(s) PROVE Served(s)'
    BY <2>1, <2>2 DEF Served, Awaits, Idle, On, Distinct
  <2> QED BY <2>1, <2>2 DEF Closing, Clean
<1>39. ASSUME NEW r \in Request, Release(r) PROVE (Clean({"late"}) => \A s \in Session : Served(s))'
  <2>1. /\ req[r].on \in Session /\ req[r].pc = "release" /\ UNCHANGED <<closed, amiss>>
        /\ \A s \in Session : /\ s # req[r].on => sess'[s] = sess[s]
                              /\ sess'[s].turn = sess[s].turn /\ sess'[s].maint = sess[s].maint
    BY <1>39 DEF Release, At, Shape, Located, Goroutines, Goroutine, Objects, Object, Detached,
       history
  <2>2. ASSUME NEW s \in Session, Awaits(r), Served(s) PROVE Served(s)'
    BY <2>1, <2>2 DEF Served, Awaits, Idle, On
  <2> QED BY <2>1, <2>2 DEF Closing, Clean
<1>40. ASSUME NEW r \in Request, Destroy(r) PROVE (Clean({"late"}) => \A s \in Session : Served(s))'
  <2>1. /\ req[r].on \in Session /\ req[r].pc \in {"shut", "destroy"} /\ sess[req[r].on].ctrl # None
        /\ closed' = closed \cup {sess[req[r].on].ctrl} /\ UNCHANGED <<sess, amiss>>
    BY <1>40 DEF Destroy, At, On, Shape, Located, Goroutines, Goroutine, Blank, Detached, history
  <2>2. ASSUME NEW s \in Session, Awaits(r), Served(s) PROVE Served(s)'
    BY <2>1, <2>2 DEF Served, Awaits, Idle, On, Distinct
  <2> QED BY <2>1, <2>2 DEF Closing, Clean
<1>41. ASSUME NEW r \in Request, Erase(r) PROVE (Clean({"late"}) => \A s \in Session : Served(s))'
  BY <1>41, Paths DEF Erase, At, Remove, Goto, Goroutines, Objects, Goroutine, Object, Others,
     Closing, Clean, Served, Awaits, Alive, Idle, On, Distinct, Shape, Located, Blank, Detached,
     fileVars, history
<1>42. ASSUME NEW r \in Request, Twin(r) PROVE (Clean({"late"}) => \A s \in Session : Served(s))'
  BY <1>42, Paths DEF Twin, At, RemoveTwin, Remove, Goto, End, Unserved, Goroutines, Objects,
     Goroutine, Object, Others, Closing, Clean, Served, Awaits, Alive, Idle, On, Distinct,
     Shape, Located, Blank, Detached, fileVars, history
<1>43. ASSUME NEW r \in Request, Linger(r) PROVE (Clean({"late"}) => \A s \in Session : Served(s))'
  BY <1>43, Paths DEF Linger, At, Remove, End, Unserved, Goroutines, Objects, Goroutine, Object,
     Others, Closing, Clean, Served, Awaits, Alive, Idle, On, Distinct, Shape, Located, Blank,
     Detached, fileVars, history
<1>44. ASSUME NEW r \in Request, ResolveAgain(r) PROVE (Clean({"late"}) =>
               \A s \in Session : Served(s))'
  BY <1>44, Paths DEF ResolveAgain, At, Resolve, End, Unserved, Goroutines, Objects, Goroutine,
     Object, Others, Closing, Clean, Served, Awaits, Alive, Idle, On, Distinct, Shape, Located,
     Blank, Detached, fileVars, history
<1>45. ASSUME NEW r \in Request, Acquire(r) PROVE (Clean({"late"}) => \A s \in Session : Served(s))'
  BY <1>45, Paths DEF Acquire, At, Goto, End, Unserved, Goroutines, Objects, Goroutine, Object,
     Others, Closing, Clean, Served, Awaits, Alive, Idle, On, Distinct, Shape, Located, Blank,
     Detached, fileVars, history
<1>46. ASSUME NEW r \in Request, Read(r) PROVE (Clean({"late"}) => \A s \in Session : Served(s))'
  BY <1>46, Paths DEF Read, At, FreeCtrls, Opened, Goto, Race, Overlap, Goroutines, Objects,
     Goroutine, Object, Others, Closing, Clean, Served, Awaits, Alive, Idle, On, Distinct,
     Shape, Located, Blank, Detached, fileVars, history
<1>47. ASSUME NEW r \in Request, ReadFails(r) PROVE (Clean({"late"}) => \A s \in Session : Served(s))'
  BY <1>47, Paths DEF ReadFails, At, Unlock, End, Unserved, Goroutines, Objects, Goroutine,
     Object, Others, Closing, Clean, Served, Awaits, Alive, Idle, On, Distinct, Shape, Located,
     Blank, Detached, fileVars, history
<1>48. ASSUME NEW r \in Request, LoadMeta(r) PROVE (Clean({"late"}) => \A s \in Session : Served(s))'
  BY <1>48, Paths DEF LoadMeta, At, SaveMeta, Goto, Goroutines, Objects, Goroutine, Object,
     Others, Closing, Clean, Served, Awaits, Alive, Idle, On, Distinct, Shape, Located, Blank,
     Detached, fileVars, history
<1>49. ASSUME NEW r \in Request, LoadMetaFails(r) PROVE (Clean({"late"}) =>
               \A s \in Session : Served(s))'
  BY <1>49, Paths DEF LoadMetaFails, At, Unlock, End, Unserved, Opened, Unopened, Goroutines,
     Objects, Goroutine, Object, Others, Closing, Clean, Served, Awaits, Alive, Idle, On,
     Distinct, Shape, Located, Blank, Detached, fileVars, history
<1>50. ASSUME NEW r \in Request, Register(r) PROVE (Clean({"late"}) => \A s \in Session : Served(s))'
  BY <1>50, Paths DEF Register, At, End, Unserved, Goroutines, Objects, Goroutine, Object,
     Others, Closing, Clean, Served, Awaits, Alive, Idle, On, Distinct, Shape, Located, Blank,
     Detached, fileVars, history
<1>51. ASSUME NEW p \in Path, OtherAcquires(p) PROVE (Clean({"late"}) => \A s \in Session : Served(s))'
  BY <1>51, Paths DEF OtherAcquires, Goroutines, Objects, Goroutine, Object, Others, Closing,
     Clean, Served, Awaits, Alive, Idle, On, Distinct, Shape, Located, Blank, Detached,
     fileVars, history
<1>52. ASSUME NEW p \in Path, OtherReleases(p) PROVE (Clean({"late"}) => \A s \in Session : Served(s))'
  BY <1>52, Paths DEF OtherReleases, Unlock, Goroutines, Objects, Goroutine, Object, Others,
     Closing, Clean, Served, Awaits, Alive, Idle, On, Distinct, Shape, Located, Blank, Detached,
     fileVars, history
<1>53. ASSUME NEW p \in Path, Reconcile(p) PROVE (Clean({"late"}) => \A s \in Session : Served(s))'
  BY <1>53, Paths DEF Reconcile, Remove, Goroutines, Objects, Goroutine, Object, Others,
     Closing, Clean, Served, Awaits, Alive, Idle, On, Distinct, Shape, Located, Blank, Detached,
     fileVars, history
<1>54. CASE Crash
  BY <1>54, Paths DEF Crash, Unserved, Unopened, Opened, At, Goroutines, Objects, Goroutine,
     Object, Others, Closing, Clean, Served, Awaits, Alive, Idle, On, Distinct, Shape, Located,
     Blank, Detached, fileVars, history
<1> QED BY <1>1, <1>2, <1>3, <1>4, <1>5, <1>6, <1>7, <1>8, <1>9, <1>10, <1>11, <1>12, <1>13,
           <1>14, <1>15, <1>16, <1>17, <1>18, <1>19, <1>20, <1>21, <1>22, <1>23, <1>24, <1>25,
           <1>26, <1>27, <1>28, <1>29, <1>30, <1>31, <1>32, <1>33, <1>34, <1>35, <1>36, <1>37,
           <1>38, <1>39, <1>40, <1>41, <1>42, <1>43, <1>44, <1>45, <1>46, <1>47, <1>48, <1>49,
           <1>50, <1>51, <1>52, <1>53, <1>54 DEF Next, Start, Continue, Turn, Save, Rebuild,
           Close, Open

LEMMA ClosingStep ==
  ASSUME Goroutines, Objects, Others, Shape, Work, Distinct, Closing, [Next]_vars
  PROVE  Closing'
BY GoneStep, SpareStep, AliveStep, FreshStep, AwaitsStep, ServedStep DEF Closing
-----------------------------------------------------------------------------
(***************************************************************************)
(* The theorem.                                                            *)
(***************************************************************************)
ClosingInv == Inv /\ Closing

LEMMA InitClosing == Init => Closing
<1> SUFFICES ASSUME Init PROVE Closing
  OBVIOUS
<1>1. closed = {} /\ waits = [r \in Request |-> {}]
  BY DEF Init
<1> QED BY <1>1, Started, Paths DEF Closing, Alive, Fresh, Gone, Closes, Spare, Awaits, Served, Idle

LEMMA ClosingInvStep == ClosingInv /\ [Next]_vars => ClosingInv'
BY InvStep, ClosingStep DEF ClosingInv, Inv

\* The session of a close is out of the registry, and once the close has waited,
\* nothing works on it unless somebody came late (abortAndWait, deleteAndWait).
THEOREM ClosingInvariance == Spec => []ClosingInv
<1>1. Init => ClosingInv
  BY InitInv, InitClosing DEF ClosingInv
<1> QED BY <1>1, ClosingInvStep, PTL DEF Spec

\* The controller a turn or a rebuild saves is the one of its session, and nobody
\* has closed it, unless a request came late to a session that was being closed
\* (begin, rebuildSession, abortAndWait, deleteAndWait).
THEOREM ControllersAreKept == Spec => []TurnsKeepTheirController
<1>1. ASSUME ClosingInv PROVE TurnsKeepTheirController
  <2> SUFFICES ASSUME NEW r \in Request, At(r, "turn") \/ InSave(r), Clean({"late"})
               PROVE  req[r].ctrl = On(r).ctrl /\ req[r].ctrl \notin closed
    BY DEF TurnsKeepTheirController
  <2>1. Turning(r) \/ Rebuilding(r)
    BY <1>1 DEF ClosingInv, Inv, Shape, Located, At, InSave, Turning, Rebuilding, Saves
  <2>2. req[r].on \in Session /\ ~Idle(sess[req[r].on])
    BY <1>1, <2>1, WorksOn, Paths DEF ClosingInv, Inv, Work, Holds, Idle, On
  <2>3. req[r].ctrl # None /\ req[r].pc # "retire"
    BY <1>1 DEF ClosingInv, Inv, Shape, Located, At, InSave, Saves
  <2>4. req[r].ctrl = On(r).ctrl
    BY <1>1, <2>3 DEF ClosingInv, Inv, Work, Holds
  <2> QED BY <1>1, <2>2, <2>4 DEF ClosingInv, Closing, Served, On
<1> QED BY <1>1, ClosingInvariance, PTL
=============================================================================
