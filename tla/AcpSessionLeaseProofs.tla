---------------------- MODULE AcpSessionLeaseProofs ------------------------
(***************************************************************************)
(* A controller writes only under the lease of its transcript, through     *)
(* recoveries, rebuilds, closes and loads; the choice of a client that     *)
(* came last is the one in force; every lease of the process has somebody  *)
(* to let it go; an id reopens the transcript it was written to; and what  *)
(* a deletion removed stays removed.                                       *)
(***************************************************************************)
EXTENDS AcpSessionClosingProofs
-----------------------------------------------------------------------------
(***************************************************************************)
(* The last choice.                                                        *)
(***************************************************************************)
LEMMA SettledKept ==
  ASSUME Goroutines, Objects, Others, Work, Settled, NEW r \in Request,
         \A q \in Request : q # r => req'[q] = req[q],
         live' = live, last' = last,
         \A s \in Session : /\ sess'[s].pending = sess[s].pending /\ sess'[s].config = sess[s].config
                            /\ sess'[s].turn = sess[s].turn /\ sess'[s].maint = sess[s].maint,
         live # None /\ Drains(r, live) => Drains(r, live)' \/ sess[live].pending = None,
         Rebuilding(r) => (InForce(r)' <=> InForce(r)) /\ req'[r].want = req[r].want
  PROVE  Settled'
<1> SUFFICES ASSUME live # None PROVE Settled'
  BY DEF Settled
<1>1. live \in Session /\ sess[live].maint \in Request \cup {None}
  BY DEF Others, Objects, Object
<1>2. ASSUME NEW m \in Request, sess[live].maint = m
      PROVE  (InForce(m)' <=> InForce(m)) /\ req'[m].want = req[m].want
  BY <1>1, <1>2, Paths DEF Work, Held, InForce
<1>3. ASSUME NEW q \in Request, Drains(q, live) PROVE Drains(q, live)' \/ sess[live].pending = None
  BY <1>3 DEF Drains
<1> QED BY <1>1, <1>2, <1>3 DEF Settled, Idle

LEMMA ChoiceStep ==
  ASSUME Goroutines, Objects, Others, Shape, Work, Closing, Choice, [Next]_vars
  PROVE  Choice'
<1>1. CASE UNCHANGED vars
  BY <1>1 DEF Goroutines, Objects, Goroutine, Object, Others, Choice, Queued, Settled, InForce,
     Idle, Drains, Work, Held, Holds, Turning, Rebuilding, Saves, Shape, Located, Blank,
     Detached, Closing, Alive, Fresh, Clean, On, vars, fileVars, history
<1>2. ASSUME NEW r \in Request, Prompt(r) PROVE Choice'
  <2>1. /\ \A q \in Request : q # r => req'[q] = req[q]
        /\ Drains(r, live) => Drains(r, live)'
        /\ Rebuilding(r) => (InForce(r)' <=> InForce(r)) /\ req'[r].want = req[r].want
    BY <1>2 DEF Prompt, Serve, At, Drains, InForce, Rebuilding, Saves, Goroutines, Goroutine
  <2>2. \A s \in Session : /\ sess'[s].pending = sess[s].pending /\ sess'[s].config = sess[s].config
                           /\ sess'[s].turn = sess[s].turn /\ sess'[s].maint = sess[s].maint
    BY <1>2 DEF Prompt, Objects, Object
  <2>3. live' = live /\ last' = last /\ amiss \subseteq amiss'
    BY <1>2 DEF Prompt, history
  <2>4. ASSUME \A s \in Session : Queued(s), Settled PROVE (\A s \in Session : Queued(s)') /\ Settled'
    BY <2>1, <2>2, <2>3, <2>4, SettledKept DEF Queued
  <2> QED BY <2>3, <2>4 DEF Choice, Clean
<1>3. ASSUME NEW r \in Request, SetConfig(r) PROVE Choice'
  <2>1. /\ \A q \in Request : q # r => req'[q] = req[q]
        /\ Drains(r, live) => Drains(r, live)'
        /\ Rebuilding(r) => (InForce(r)' <=> InForce(r)) /\ req'[r].want = req[r].want
    BY <1>3 DEF SetConfig, At, Drains, InForce, Rebuilding, Saves, Goroutines, Goroutine
  <2>2. \A s \in Session : /\ sess'[s].pending = sess[s].pending /\ sess'[s].config = sess[s].config
                           /\ sess'[s].turn = sess[s].turn /\ sess'[s].maint = sess[s].maint
    BY <1>3 DEF SetConfig, Objects, Object
  <2>3. live' = live /\ last' = last /\ amiss \subseteq amiss'
    BY <1>3 DEF SetConfig, history
  <2>4. ASSUME \A s \in Session : Queued(s), Settled PROVE (\A s \in Session : Queued(s)') /\ Settled'
    BY <2>1, <2>2, <2>3, <2>4, SettledKept DEF Queued
  <2> QED BY <2>3, <2>4 DEF Choice, Clean
<1>4. ASSUME NEW r \in Request, Take(r) PROVE Choice'
  BY <1>4, Paths DEF Take, At, Goroutines, Objects, Goroutine, Object, Others, Choice, Queued,
     Settled, InForce, Idle, Drains, Work, Held, Holds, Turning, Rebuilding, Saves, Shape,
     Located, Blank, Detached, Closing, Alive, Fresh, Clean, On, fileVars, history
<1>5. ASSUME NEW r \in Request, DeleteClosed(r) PROVE Choice'
  <2>1. /\ \A q \in Request : q # r => req'[q] = req[q]
        /\ Drains(r, live) => Drains(r, live)'
        /\ Rebuilding(r) => (InForce(r)' <=> InForce(r)) /\ req'[r].want = req[r].want
    BY <1>5 DEF DeleteClosed, Serve, At, Drains, InForce, Rebuilding, Saves, Goroutines, Goroutine
  <2>2. \A s \in Session : /\ sess'[s].pending = sess[s].pending /\ sess'[s].config = sess[s].config
                           /\ sess'[s].turn = sess[s].turn /\ sess'[s].maint = sess[s].maint
    BY <1>5 DEF DeleteClosed, Objects, Object
  <2>3. live' = live /\ last' = last /\ amiss \subseteq amiss'
    BY <1>5 DEF DeleteClosed, Race, history
  <2>4. ASSUME \A s \in Session : Queued(s), Settled PROVE (\A s \in Session : Queued(s)') /\ Settled'
    BY <2>1, <2>2, <2>3, <2>4, SettledKept DEF Queued
  <2> QED BY <2>3, <2>4 DEF Choice, Clean
<1>6. ASSUME NEW r \in Request, Load(r) PROVE Choice'
  <2>1. /\ \A q \in Request : q # r => req'[q] = req[q]
        /\ Drains(r, live) => Drains(r, live)'
        /\ Rebuilding(r) => (InForce(r)' <=> InForce(r)) /\ req'[r].want = req[r].want
    BY <1>6 DEF Load, At, Drains, InForce, Rebuilding, Saves, Goroutines, Goroutine
  <2>2. \A s \in Session : /\ sess'[s].pending = sess[s].pending /\ sess'[s].config = sess[s].config
                           /\ sess'[s].turn = sess[s].turn /\ sess'[s].maint = sess[s].maint
    BY <1>6 DEF Load, Objects, Object
  <2>3. live' = live /\ last' = last /\ amiss \subseteq amiss'
    BY <1>6 DEF Load, history
  <2>4. ASSUME \A s \in Session : Queued(s), Settled PROVE (\A s \in Session : Queued(s)') /\ Settled'
    BY <2>1, <2>2, <2>3, <2>4, SettledKept DEF Queued
  <2> QED BY <2>3, <2>4 DEF Choice, Clean
<1>7. ASSUME NEW r \in Request, Begin(r) PROVE Choice'
  BY <1>7, Paths, SMTT(20), ZenonT(40) DEF Begin, MayBegin, On, Goto, Late, At, Goroutines,
     Objects, Goroutine, Object, Others, Choice, Queued, Settled, InForce, Idle, Drains, Work,
     Held, Holds, Turning, Rebuilding, Saves, Shape, Located, Blank, Detached, Closing, Alive,
     Fresh, Clean, On, fileVars, history
<1>8. ASSUME NEW r \in Request, BeginRefused(r) PROVE Choice'
  <2>1. /\ \A q \in Request : q # r => req'[q] = req[q]
        /\ Drains(r, live) => Drains(r, live)'
        /\ Rebuilding(r) => (InForce(r)' <=> InForce(r)) /\ req'[r].want = req[r].want
    <3>1. CASE End(r)
      BY <1>8, <3>1, EndMoves, GotoMoves DEF BeginRefused, At, Drains, InForce, Rebuilding, Saves
    <3>2. CASE ~End(r)
      BY <1>8, <3>2, GotoMoves DEF BeginRefused, At, Drains, InForce, Rebuilding, Saves,
         Goroutines, Goroutine
    <3> QED BY <3>1, <3>2
  <2>2. \A s \in Session : /\ sess'[s].pending = sess[s].pending /\ sess'[s].config = sess[s].config
                           /\ sess'[s].turn = sess[s].turn /\ sess'[s].maint = sess[s].maint
    BY <1>8 DEF BeginRefused, Objects, Object
  <2>3. live' = live /\ last' = last /\ amiss \subseteq amiss'
    BY <1>8 DEF BeginRefused, history
  <2>4. ASSUME \A s \in Session : Queued(s), Settled PROVE (\A s \in Session : Queued(s)') /\ Settled'
    BY <2>1, <2>2, <2>3, <2>4, SettledKept DEF Queued
  <2> QED BY <2>3, <2>4 DEF Choice, Clean
<1>9. ASSUME NEW r \in Request, Enter(r) PROVE Choice'
  <2>1. /\ \A q \in Request : q # r => req'[q] = req[q]
        /\ Drains(r, live) => Drains(r, live)'
        /\ Rebuilding(r) => (InForce(r)' <=> InForce(r)) /\ req'[r].want = req[r].want
    BY <1>9 DEF Enter, At, Drains, InForce, Rebuilding, Saves, Goroutines, Goroutine
  <2>2. \A s \in Session : /\ sess'[s].pending = sess[s].pending /\ sess'[s].config = sess[s].config
                           /\ sess'[s].turn = sess[s].turn /\ sess'[s].maint = sess[s].maint
    BY <1>9 DEF Enter, Objects, Object
  <2>3. live' = live /\ last' = last /\ amiss \subseteq amiss'
    BY <1>9 DEF Enter, history
  <2>4. ASSUME \A s \in Session : Queued(s), Settled PROVE (\A s \in Session : Queued(s)') /\ Settled'
    BY <2>1, <2>2, <2>3, <2>4, SettledKept DEF Queued
  <2> QED BY <2>3, <2>4 DEF Choice, Clean
<1>10. ASSUME NEW r \in Request, Persist(r) PROVE Choice'
  <2>1. /\ \A q \in Request : q # r => req'[q] = req[q]
        /\ Drains(r, live) => Drains(r, live)'
        /\ Rebuilding(r) => (InForce(r)' <=> InForce(r)) /\ req'[r].want = req[r].want
    BY <1>10 DEF Persist, At, Drains, InForce, Rebuilding, Saves, Goroutines, Goroutine
  <2>2. \A s \in Session : /\ sess'[s].pending = sess[s].pending /\ sess'[s].config = sess[s].config
                           /\ sess'[s].turn = sess[s].turn /\ sess'[s].maint = sess[s].maint
    BY <1>10 DEF Persist, Objects, Object
  <2>3. live' = live /\ last' = last /\ amiss \subseteq amiss'
    BY <1>10 DEF Persist, history
  <2>4. ASSUME \A s \in Session : Queued(s), Settled PROVE (\A s \in Session : Queued(s)') /\ Settled'
    BY <2>1, <2>2, <2>3, <2>4, SettledKept DEF Queued
  <2> QED BY <2>3, <2>4 DEF Choice, Clean
<1>11. ASSUME NEW r \in Request, Stamp(r) PROVE Choice'
  <2>1. /\ \A q \in Request : q # r => req'[q] = req[q]
        /\ Drains(r, live) => Drains(r, live)'
        /\ Rebuilding(r) => (InForce(r)' <=> InForce(r)) /\ req'[r].want = req[r].want
    BY <1>11, GotoMoves DEF Stamp, At, Drains, InForce, Rebuilding, Saves
  <2>2. \A s \in Session : /\ sess'[s].pending = sess[s].pending /\ sess'[s].config = sess[s].config
                           /\ sess'[s].turn = sess[s].turn /\ sess'[s].maint = sess[s].maint
    BY <1>11 DEF Stamp, Objects, Object
  <2>3. live' = live /\ last' = last /\ amiss \subseteq amiss'
    BY <1>11 DEF Stamp, history
  <2>4. ASSUME \A s \in Session : Queued(s), Settled PROVE (\A s \in Session : Queued(s)') /\ Settled'
    BY <2>1, <2>2, <2>3, <2>4, SettledKept DEF Queued
  <2> QED BY <2>3, <2>4 DEF Choice, Clean
<1>12. ASSUME NEW r \in Request, Finish(r) PROVE Choice'
  <2>1. /\ \A q \in Request : q # r => req'[q] = req[q]
        /\ \A s \in Session : s # req[r].on => sess'[s] = sess[s]
        /\ req[r].on \in Session
        /\ req[r].pc = "finish"
        /\ req'[r].pc = "apply" /\ req'[r].on = req[r].on
        /\ sess'[req[r].on].pending = sess[req[r].on].pending
        /\ sess'[req[r].on].config = sess[req[r].on].config
        /\ sess'[req[r].on].maint = sess[req[r].on].maint
        /\ live' = live /\ last' = last /\ amiss' = amiss
    BY <1>12, Paths DEF Finish, At, Goroutines, Goroutine, Objects, Object, Others, Shape,
       Located, Detached, history
  <2>2. ASSUME \A s \in Session : Queued(s) PROVE \A s \in Session : Queued(s)'
    BY <2>1, <2>2, Paths DEF Queued
  <2>3. req[r].on = live => live \in Session /\ live # None
    BY <2>1, Paths DEF Others
  <2>4. CASE live # req[r].on
    <3>1. ASSUME live # None, NEW q \in Request, Drains(q, live) PROVE Drains(q, live)'
      BY <2>1, <2>4, <3>1 DEF Drains
    <3>2. live # None => live \in Session /\ sess[live].maint \in Request \cup {None}
      BY DEF Others, Objects, Object
    <3>3. ASSUME live # None, sess[live].maint # None PROVE sess[live].maint # r
      BY <2>1, <2>4, <3>2, <3>3 DEF Work, Held
    <3>4. ASSUME Settled PROVE Settled'
      BY <2>1, <2>4, <3>1, <3>2, <3>3, <3>4 DEF Settled, Idle, InForce
    <3> QED BY <2>1, <2>2, <3>4 DEF Choice, Clean
  <2>5. CASE live = req[r].on
    <3>1. Drains(r, live)'
      BY <2>1, <2>5 DEF Drains
    <3>2. sess[live].maint # r
      BY <2>1, <2>5, Paths DEF Work, Held, Rebuilding, Saves
    <3>3. ASSUME Settled PROVE Settled'
      BY <2>1, <2>3, <2>5, <3>1, <3>2, <3>3 DEF Settled, InForce, Objects, Object
    <3> QED BY <2>1, <2>2, <3>3 DEF Choice, Clean
  <2> QED BY <2>4, <2>5
<1>13. ASSUME NEW r \in Request, TurnReturns(r) PROVE Choice'
  <2>1. /\ \A q \in Request : q # r => req'[q] = req[q]
        /\ Drains(r, live) => Drains(r, live)'
        /\ Rebuilding(r) => (InForce(r)' <=> InForce(r)) /\ req'[r].want = req[r].want
    BY <1>13 DEF TurnReturns, At, Drains, InForce, Rebuilding, Saves, Goroutines, Goroutine
  <2>2. \A s \in Session : /\ sess'[s].pending = sess[s].pending /\ sess'[s].config = sess[s].config
                           /\ sess'[s].turn = sess[s].turn /\ sess'[s].maint = sess[s].maint
    BY <1>13 DEF TurnReturns, Objects, Object
  <2>3. live' = live /\ last' = last /\ amiss \subseteq amiss'
    BY <1>13 DEF TurnReturns, history
  <2>4. ASSUME \A s \in Session : Queued(s), Settled PROVE (\A s \in Session : Queued(s)') /\ Settled'
    BY <2>1, <2>2, <2>3, <2>4, SettledKept DEF Queued
  <2> QED BY <2>3, <2>4 DEF Choice, Clean
<1>14. ASSUME NEW r \in Request, Cancel(r) PROVE Choice'
  BY <1>14, Paths DEF Cancel, Goroutines, Objects, Goroutine, Object, Others, Choice, Queued,
     Settled, InForce, Idle, Drains, Work, Held, Holds, Turning, Rebuilding, Saves, Shape,
     Located, Blank, Detached, Closing, Alive, Fresh, Clean, On, fileVars, history
<1>15. ASSUME NEW r \in Request, Saved(r) PROVE Choice'
  <2>1. PICK p \in {"persist", "stamp", "build", "abandon", "assign", "redirect"} : Goto(r, p)
    BY <1>15, SaveMoves
  <2>2. req[r].pc = "save"
    BY <1>15 DEF Saved, At
  <2>3. /\ \A q \in Request : q # r => req'[q] = req[q]
        /\ Drains(r, live) => Drains(r, live)'
        /\ Rebuilding(r) => (InForce(r)' <=> InForce(r)) /\ req'[r].want = req[r].want
    BY <2>1, <2>2, GotoMoves DEF Drains, InForce, Rebuilding, Saves
  <2>4. \A s \in Session : /\ sess'[s].pending = sess[s].pending /\ sess'[s].config = sess[s].config
                           /\ sess'[s].turn = sess[s].turn /\ sess'[s].maint = sess[s].maint
    BY <1>15 DEF Saved, Objects, Object
  <2>5. live' = live /\ last' = last /\ amiss \subseteq amiss'
    BY <1>15 DEF Saved, history
  <2>6. ASSUME \A s \in Session : Queued(s), Settled PROVE (\A s \in Session : Queued(s)') /\ Settled'
    BY <2>3, <2>4, <2>5, <2>6, SettledKept DEF Queued
  <2> QED BY <2>5, <2>6 DEF Choice, Clean
<1>16. ASSUME NEW r \in Request, NotSaved(r) PROVE Choice'
  <2>1. PICK p \in {"persist", "stamp", "build", "abandon", "assign", "redirect"} : Goto(r, p)
    BY <1>16, SaveMoves
  <2>2. req[r].pc = "save"
    BY <1>16 DEF NotSaved, At
  <2>3. /\ \A q \in Request : q # r => req'[q] = req[q]
        /\ Drains(r, live) => Drains(r, live)'
        /\ Rebuilding(r) => (InForce(r)' <=> InForce(r)) /\ req'[r].want = req[r].want
    BY <2>1, <2>2, GotoMoves DEF Drains, InForce, Rebuilding, Saves
  <2>4. \A s \in Session : /\ sess'[s].pending = sess[s].pending /\ sess'[s].config = sess[s].config
                           /\ sess'[s].turn = sess[s].turn /\ sess'[s].maint = sess[s].maint
    BY <1>16 DEF NotSaved, Objects, Object
  <2>5. live' = live /\ last' = last /\ amiss \subseteq amiss'
    BY <1>16 DEF NotSaved, history
  <2>6. ASSUME \A s \in Session : Queued(s), Settled PROVE (\A s \in Session : Queued(s)') /\ Settled'
    BY <2>3, <2>4, <2>5, <2>6, SettledKept DEF Queued
  <2> QED BY <2>5, <2>6 DEF Choice, Clean
<1>17. ASSUME NEW r \in Request, Recover(r) PROVE Choice'
  <2>1. /\ \A q \in Request : q # r => req'[q] = req[q]
        /\ Drains(r, live) => Drains(r, live)'
        /\ Rebuilding(r) => (InForce(r)' <=> InForce(r)) /\ req'[r].want = req[r].want
    BY <1>17 DEF Recover, At, Drains, InForce, Rebuilding, Saves, Goroutines, Goroutine
  <2>2. \A s \in Session : /\ sess'[s].pending = sess[s].pending /\ sess'[s].config = sess[s].config
                           /\ sess'[s].turn = sess[s].turn /\ sess'[s].maint = sess[s].maint
    BY <1>17 DEF Recover, Objects, Object
  <2>3. live' = live /\ last' = last /\ amiss \subseteq amiss'
    BY <1>17 DEF Recover, history
  <2>4. ASSUME \A s \in Session : Queued(s), Settled PROVE (\A s \in Session : Queued(s)') /\ Settled'
    BY <2>1, <2>2, <2>3, <2>4, SettledKept DEF Queued
  <2> QED BY <2>3, <2>4 DEF Choice, Clean
<1>18. ASSUME NEW r \in Request, Follow(r) PROVE Choice'
  <2>1. /\ \A q \in Request : q # r => req'[q] = req[q]
        /\ Drains(r, live) => Drains(r, live)'
        /\ Rebuilding(r) => (InForce(r)' <=> InForce(r)) /\ req'[r].want = req[r].want
    BY <1>18 DEF Follow, At, Drains, InForce, Rebuilding, Saves, Goroutines, Goroutine
  <2>2. \A s \in Session : /\ sess'[s].pending = sess[s].pending /\ sess'[s].config = sess[s].config
                           /\ sess'[s].turn = sess[s].turn /\ sess'[s].maint = sess[s].maint
    BY <1>18 DEF Follow, Objects, Object
  <2>3. live' = live /\ last' = last /\ amiss \subseteq amiss'
    BY <1>18 DEF Follow, history
  <2>4. ASSUME \A s \in Session : Queued(s), Settled PROVE (\A s \in Session : Queued(s)') /\ Settled'
    BY <2>1, <2>2, <2>3, <2>4, SettledKept DEF Queued
  <2> QED BY <2>3, <2>4 DEF Choice, Clean
<1>19. ASSUME NEW r \in Request, Secure(r) PROVE Choice'
  <2>1. PICK p \in {"persist", "stamp", "build", "abandon", "assign", "redirect"} : Goto(r, p)
    BY <1>19, SaveMoves
  <2>2. req[r].pc = "secure"
    BY <1>19 DEF Secure, At
  <2>3. /\ \A q \in Request : q # r => req'[q] = req[q]
        /\ Drains(r, live) => Drains(r, live)'
        /\ Rebuilding(r) => (InForce(r)' <=> InForce(r)) /\ req'[r].want = req[r].want
    BY <2>1, <2>2, GotoMoves DEF Drains, InForce, Rebuilding, Saves
  <2>4. \A s \in Session : /\ sess'[s].pending = sess[s].pending /\ sess'[s].config = sess[s].config
                           /\ sess'[s].turn = sess[s].turn /\ sess'[s].maint = sess[s].maint
    BY <1>19 DEF Secure, Objects, Object
  <2>5. live' = live /\ last' = last /\ amiss \subseteq amiss'
    BY <1>19 DEF Secure, history
  <2>6. ASSUME \A s \in Session : Queued(s), Settled PROVE (\A s \in Session : Queued(s)') /\ Settled'
    BY <2>3, <2>4, <2>5, <2>6, SettledKept DEF Queued
  <2> QED BY <2>5, <2>6 DEF Choice, Clean
<1>20. ASSUME NEW r \in Request, Assign(r) PROVE Choice'
  <2>1. PICK p \in {"persist", "stamp", "build", "abandon", "assign", "redirect"} : Goto(r, p)
    BY <1>20, SaveMoves
  <2>2. req[r].pc = "assign"
    BY <1>20 DEF Assign, At
  <2>3. /\ \A q \in Request : q # r => req'[q] = req[q]
        /\ Drains(r, live) => Drains(r, live)'
        /\ Rebuilding(r) => (InForce(r)' <=> InForce(r)) /\ req'[r].want = req[r].want
    BY <2>1, <2>2, GotoMoves DEF Drains, InForce, Rebuilding, Saves
  <2>4. \A s \in Session : /\ sess'[s].pending = sess[s].pending /\ sess'[s].config = sess[s].config
                           /\ sess'[s].turn = sess[s].turn /\ sess'[s].maint = sess[s].maint
    <3>1. req[r].to \in Session
      BY <1>20 DEF Assign, At, Shape, Located, Goroutines, Goroutine
    <3>2. CASE UNCHANGED sess
      BY <3>2
    <3>3. CASE MoveTo(req[r].to, req[r].at)
      BY <3>1, <3>3 DEF MoveTo, Objects, Object
    <3> QED BY <1>20, <3>2, <3>3 DEF Assign
  <2>5. live' = live /\ last' = last /\ amiss \subseteq amiss'
    BY <1>20 DEF Assign, history
  <2>6. ASSUME \A s \in Session : Queued(s), Settled PROVE (\A s \in Session : Queued(s)') /\ Settled'
    BY <2>3, <2>4, <2>5, <2>6, SettledKept DEF Queued
  <2> QED BY <2>5, <2>6 DEF Choice, Clean
<1>21. ASSUME NEW r \in Request, Redirect(r) PROVE Choice'
  <2>1. /\ \A q \in Request : q # r => req'[q] = req[q]
        /\ Drains(r, live) => Drains(r, live)'
        /\ Rebuilding(r) => (InForce(r)' <=> InForce(r)) /\ req'[r].want = req[r].want
    BY <1>21, GotoMoves DEF Redirect, At, Drains, InForce, Rebuilding, Saves
  <2>2. \A s \in Session : /\ sess'[s].pending = sess[s].pending /\ sess'[s].config = sess[s].config
                           /\ sess'[s].turn = sess[s].turn /\ sess'[s].maint = sess[s].maint
    BY <1>21 DEF Redirect, Objects, Object
  <2>3. live' = live /\ last' = last /\ amiss \subseteq amiss'
    BY <1>21 DEF Redirect, history
  <2>4. ASSUME \A s \in Session : Queued(s), Settled PROVE (\A s \in Session : Queued(s)') /\ Settled'
    BY <2>1, <2>2, <2>3, <2>4, SettledKept DEF Queued
  <2> QED BY <2>3, <2>4 DEF Choice, Clean
<1>22. ASSUME NEW r \in Request, Commit(r) PROVE Choice'
  <2>1. PICK p \in {"persist", "stamp", "build", "abandon", "assign", "redirect"} : Goto(r, p)
    BY <1>22, SaveMoves
  <2>2. req[r].pc = "commit"
    BY <1>22 DEF Commit, At
  <2>3. /\ \A q \in Request : q # r => req'[q] = req[q]
        /\ Drains(r, live) => Drains(r, live)'
        /\ Rebuilding(r) => (InForce(r)' <=> InForce(r)) /\ req'[r].want = req[r].want
    BY <2>1, <2>2, GotoMoves DEF Drains, InForce, Rebuilding, Saves
  <2>4. \A s \in Session : /\ sess'[s].pending = sess[s].pending /\ sess'[s].config = sess[s].config
                           /\ sess'[s].turn = sess[s].turn /\ sess'[s].maint = sess[s].maint
    BY <1>22 DEF Commit, Objects, Object
  <2>5. live' = live /\ last' = last /\ amiss \subseteq amiss'
    BY <1>22 DEF Commit, history
  <2>6. ASSUME \A s \in Session : Queued(s), Settled PROVE (\A s \in Session : Queued(s)') /\ Settled'
    BY <2>3, <2>4, <2>5, <2>6, SettledKept DEF Queued
  <2> QED BY <2>5, <2>6 DEF Choice, Clean
<1>23. ASSUME NEW r \in Request, ClaimRefused(r) PROVE Choice'
  <2>1. /\ \A q \in Request : q # r => req'[q] = req[q]
        /\ Drains(r, live) => Drains(r, live)'
        /\ Rebuilding(r) => (InForce(r)' <=> InForce(r)) /\ req'[r].want = req[r].want
    <3>1. CASE End(r)
      BY <1>23, <3>1, EndMoves, GotoMoves DEF ClaimRefused, Fail, At, Drains, InForce,
         Rebuilding, Saves
    <3>2. CASE ~End(r)
      BY <1>23, <3>2, GotoMoves DEF ClaimRefused, Fail, At, Drains, InForce, Rebuilding, Saves,
         Goroutines, Goroutine
    <3> QED BY <3>1, <3>2
  <2>2. \A s \in Session : /\ sess'[s].pending = sess[s].pending /\ sess'[s].config = sess[s].config
                           /\ sess'[s].turn = sess[s].turn /\ sess'[s].maint = sess[s].maint
    BY <1>23 DEF ClaimRefused, Objects, Object
  <2>3. live' = live /\ last' = last /\ amiss \subseteq amiss'
    BY <1>23 DEF ClaimRefused, history
  <2>4. ASSUME \A s \in Session : Queued(s), Settled PROVE (\A s \in Session : Queued(s)') /\ Settled'
    BY <2>1, <2>2, <2>3, <2>4, SettledKept DEF Queued
  <2> QED BY <2>3, <2>4 DEF Choice, Clean
<1>24. ASSUME NEW r \in Request, Queue(r) PROVE Choice'
  <2>1. /\ \A q \in Request : q # r => req'[q] = req[q]
        /\ \A s \in Session : s # req[r].on => sess'[s] = sess[s]
        /\ \A s \in Session : s # req[r].on => last'[s] = last[s]
        /\ req[r].on \in Session
        /\ req[r].pc = "claim" /\ req[r].want # None
        /\ ~Idle(sess[req[r].on])
        /\ sess'[req[r].on].pending = req[r].want
        /\ sess'[req[r].on].turn = sess[req[r].on].turn
        /\ sess'[req[r].on].maint = sess[req[r].on].maint
        /\ live' = live /\ amiss \subseteq amiss'
        /\ "stale" \in amiss' \/ last'[req[r].on] = req[r].want
    <3>1. req[r].on \in Session /\ req[r].pc = "claim" /\ req[r].want # None
      BY <1>24, Paths DEF Queue, At, Shape, Located, Detached, Goroutines, Goroutine
    <3>2. \A q \in Request : q # r => req'[q] = req[q]
      BY <1>24, EndMoves DEF Queue
    <3>3. ~Idle(sess[req[r].on]) /\ live' = live
      BY <1>24 DEF Queue, On, Busy, Idle
    <3>4. /\ \A s \in Session : s # req[r].on => sess'[s] = sess[s]
          /\ sess'[req[r].on].pending = req[r].want
          /\ sess'[req[r].on].turn = sess[req[r].on].turn
          /\ sess'[req[r].on].maint = sess[req[r].on].maint
      BY <1>24, <3>1 DEF Queue, Objects, Object
    <3>5. Chosen(r)
      BY <1>24 DEF Queue
    <3>6. /\ \A s \in Session : s # req[r].on => last'[s] = last[s]
          /\ amiss \subseteq amiss'
          /\ "stale" \in amiss' \/ last'[req[r].on] = req[r].want
      BY <3>1, <3>5 DEF Chosen, Others
    <3> QED BY <3>1, <3>2, <3>3, <3>4, <3>6
  <2>2. ASSUME Clean({"stale", "dropped", "stuck"})' PROVE Clean({"stale", "dropped", "stuck"})
    BY <2>1, <2>2 DEF Clean
  <2>3. ASSUME Clean({"stale", "dropped", "stuck"})', \A s \in Session : Queued(s)
                PROVE \A s \in Session : Queued(s)'
    <3>1. last'[req[r].on] = req[r].want
      BY <2>1, <2>3 DEF Clean
    <3> QED BY <2>1, <2>3, <3>1 DEF Queued
  <2>4. CASE live # req[r].on
    <3>1. ASSUME live # None, NEW q \in Request, Drains(q, live) PROVE Drains(q, live)'
      BY <2>1, <2>4, <3>1 DEF Drains
    <3>2. live # None => live \in Session /\ sess[live].maint \in Request \cup {None}
      BY DEF Others, Objects, Object
    <3>3. ASSUME live # None, sess[live].maint # None PROVE sess[live].maint # r
      BY <2>1, <2>4, <3>2, <3>3 DEF Work, Held
    <3>4. ASSUME Settled PROVE Settled'
      BY <2>1, <2>4, <3>1, <3>2, <3>3, <3>4 DEF Settled, Idle, InForce
    <3> QED BY <2>2, <2>3, <3>4 DEF Choice
  <2>5. CASE live = req[r].on
    <3>1. Settled'
      BY <2>1, <2>5, Paths DEF Settled, Idle
    <3> QED BY <2>2, <2>3, <3>1 DEF Choice
  <2> QED BY <2>4, <2>5
<1>25. ASSUME NEW r \in Request, Claim(r) PROVE Choice'
  <2>1. /\ \A q \in Request : q # r => req'[q] = req[q]
        /\ \A s \in Session : s # req[r].on => sess'[s] = sess[s]
        /\ \A s \in Session : s # req[r].on => last'[s] = last[s]
        /\ req[r].on \in Session
        /\ req[r].pc = "claim"
        /\ req'[r].pc = "save" /\ req'[r].want = req[r].want
        /\ sess'[req[r].on].pending = None /\ sess'[req[r].on].maint = r
        /\ live' = live /\ amiss \subseteq amiss'
    BY <1>25, Paths, SMTT(20), ZenonT(40) DEF Claim, At, On, Busy, Chosen, Goroutines,
       Goroutine, Objects, Object, Others, Shape, Located, Detached
  <2>2. ASSUME Clean({"stale", "dropped", "stuck"})' PROVE Clean({"stale", "dropped", "stuck"})
    BY <2>1, <2>2 DEF Clean
  <2>3. ASSUME \A s \in Session : Queued(s) PROVE \A s \in Session : Queued(s)'
    BY <2>1, <2>3 DEF Queued
  <2>4. CASE live # req[r].on
    <3>1. ASSUME live # None, NEW q \in Request, Drains(q, live) PROVE Drains(q, live)'
      BY <2>1, <2>4, <3>1 DEF Drains
    <3>2. live # None => live \in Session /\ sess[live].maint \in Request \cup {None}
      BY DEF Others, Objects, Object
    <3>3. ASSUME live # None, sess[live].maint # None PROVE sess[live].maint # r
      BY <2>1, <2>4, <3>2, <3>3 DEF Work, Held
    <3>4. ASSUME Settled PROVE Settled'
      BY <2>1, <2>4, <3>1, <3>2, <3>3, <3>4 DEF Settled, Idle, InForce
    <3> QED BY <2>2, <2>3, <3>4 DEF Choice
  <2>5. CASE live = req[r].on
    <3>1. ASSUME Clean({"stale", "dropped", "stuck"})' PROVE last'[req[r].on] = req[r].want
      <4>1. Chosen(r)
        BY <1>25, <2>5 DEF Claim
      <4>2. "stale" \notin amiss'
        BY <3>1 DEF Clean
      <4>3. req[r].want \in Config \cup {None} /\ last \in [Session -> Config]
        BY DEF Goroutines, Goroutine, Others
      <4> QED BY <2>1, <4>1, <4>2, <4>3 DEF Chosen
    <3>2. ASSUME Clean({"stale", "dropped", "stuck"})' PROVE Settled'
      BY <2>1, <2>5, <3>1, <3>2, Paths DEF Settled, InForce
    <3> QED BY <2>2, <2>3, <3>2 DEF Choice
  <2> QED BY <2>4, <2>5
<1>26. ASSUME NEW r \in Request, Build(r) PROVE Choice'
  <2>1. /\ \A q \in Request : q # r => req'[q] = req[q]
        /\ Drains(r, live) => Drains(r, live)'
        /\ Rebuilding(r) => (InForce(r)' <=> InForce(r)) /\ req'[r].want = req[r].want
    BY <1>26 DEF Build, At, Drains, InForce, Rebuilding, Saves, Goroutines, Goroutine
  <2>2. \A s \in Session : /\ sess'[s].pending = sess[s].pending /\ sess'[s].config = sess[s].config
                           /\ sess'[s].turn = sess[s].turn /\ sess'[s].maint = sess[s].maint
    BY <1>26 DEF Build, Objects, Object
  <2>3. live' = live /\ last' = last /\ amiss \subseteq amiss'
    BY <1>26 DEF Build, history
  <2>4. ASSUME \A s \in Session : Queued(s), Settled PROVE (\A s \in Session : Queued(s)') /\ Settled'
    BY <2>1, <2>2, <2>3, <2>4, SettledKept DEF Queued
  <2> QED BY <2>3, <2>4 DEF Choice, Clean
<1>27. ASSUME NEW r \in Request, BuildFails(r) PROVE Choice'
  <2>1. /\ \A q \in Request : q # r => req'[q] = req[q]
        /\ Drains(r, live) => Drains(r, live)'
        /\ Rebuilding(r) => (InForce(r)' <=> InForce(r)) /\ req'[r].want = req[r].want
    BY <1>27, GotoMoves DEF BuildFails, At, Drains, InForce, Rebuilding, Saves
  <2>2. \A s \in Session : /\ sess'[s].pending = sess[s].pending /\ sess'[s].config = sess[s].config
                           /\ sess'[s].turn = sess[s].turn /\ sess'[s].maint = sess[s].maint
    BY <1>27 DEF BuildFails, Objects, Object
  <2>3. live' = live /\ last' = last /\ amiss \subseteq amiss'
    BY <1>27 DEF BuildFails, history
  <2>4. ASSUME \A s \in Session : Queued(s), Settled PROVE (\A s \in Session : Queued(s)') /\ Settled'
    BY <2>1, <2>2, <2>3, <2>4, SettledKept DEF Queued
  <2> QED BY <2>3, <2>4 DEF Choice, Clean
<1>28. ASSUME NEW r \in Request, Swap(r) PROVE Choice'
  <2>1. /\ \A q \in Request : q # r => req'[q] = req[q]
        /\ \A s \in Session : s # req[r].on => sess'[s] = sess[s]
        /\ req[r].on \in Session
        /\ req[r].pc = "swap" /\ req[r].want # None
        /\ req'[r].pc = "retire" /\ req'[r].want = req[r].want
        /\ sess'[req[r].on].config = req[r].want
        /\ sess'[req[r].on].pending = sess[req[r].on].pending
        /\ sess'[req[r].on].turn = sess[req[r].on].turn
        /\ sess'[req[r].on].maint = sess[req[r].on].maint
        /\ live' = live /\ last' = last /\ amiss' = amiss
    <3>1. /\ \A q \in Request : q # r => req'[q] = req[q]
          /\ req[r].on \in Session /\ req[r].pc = "swap" /\ req[r].want # None
          /\ req'[r].pc = "retire" /\ req'[r].want = req[r].want
      BY <1>28 DEF Swap, At, Goroutines, Goroutine, Shape, Located, Detached, Rebuilding
    <3>2. /\ \A s \in Session : s # req[r].on => sess'[s] = sess[s]
          /\ sess'[req[r].on].config = req[r].want /\ sess'[req[r].on].pending = sess[req[r].on].pending
          /\ sess'[req[r].on].turn = sess[req[r].on].turn
              /\ sess'[req[r].on].maint = sess[req[r].on].maint
      BY <1>28, <3>1 DEF Swap, Objects, Object
    <3>3. live' = live /\ last' = last /\ amiss' = amiss
      BY <1>28 DEF Swap, history
    <3> QED BY <3>1, <3>2, <3>3
  <2>2. ASSUME \A s \in Session : Queued(s) PROVE \A s \in Session : Queued(s)'
    BY <2>1, <2>2, Paths DEF Queued
  <2>3. req[r].on = live => live \in Session /\ live # None
    BY <2>1, Paths DEF Others
  <2>4. CASE live # req[r].on
    <3>1. ASSUME live # None, NEW q \in Request, Drains(q, live) PROVE Drains(q, live)'
      BY <2>1, <2>4, <3>1 DEF Drains
    <3>2. live # None => live \in Session /\ sess[live].maint \in Request \cup {None}
      BY DEF Others, Objects, Object
    <3>3. ASSUME live # None, sess[live].maint # None PROVE sess[live].maint # r
      BY <2>1, <2>4, <3>2, <3>3 DEF Work, Held
    <3>4. ASSUME Settled PROVE Settled'
      BY <2>1, <2>4, <3>1, <3>2, <3>3, <3>4 DEF Settled, Idle, InForce
    <3> QED BY <2>1, <2>2, <3>4 DEF Choice, Clean
  <2>5. CASE live = req[r].on
    <3>1. sess[live].maint = r
      BY <2>1, <2>5 DEF Work, Holds, Rebuilding, On
    <3>2. ASSUME Settled PROVE Settled'
      BY <2>1, <2>3, <2>5, <3>1, <3>2, Paths DEF Settled, InForce, Idle
    <3> QED BY <2>1, <2>2, <3>2 DEF Choice, Clean
  <2> QED BY <2>4, <2>5
<1>29. ASSUME NEW r \in Request, SwapRefused(r) PROVE Choice'
  <2>1. /\ \A q \in Request : q # r => req'[q] = req[q]
        /\ Drains(r, live) => Drains(r, live)'
        /\ Rebuilding(r) => (InForce(r)' <=> InForce(r)) /\ req'[r].want = req[r].want
    BY <1>29 DEF SwapRefused, At, Drains, InForce, Rebuilding, Saves, Goroutines, Goroutine
  <2>2. \A s \in Session : /\ sess'[s].pending = sess[s].pending /\ sess'[s].config = sess[s].config
                           /\ sess'[s].turn = sess[s].turn /\ sess'[s].maint = sess[s].maint
    BY <1>29 DEF SwapRefused, Objects, Object
  <2>3. live' = live /\ last' = last /\ amiss \subseteq amiss'
    BY <1>29 DEF SwapRefused, history
  <2>4. ASSUME \A s \in Session : Queued(s), Settled PROVE (\A s \in Session : Queued(s)') /\ Settled'
    BY <2>1, <2>2, <2>3, <2>4, SettledKept DEF Queued
  <2> QED BY <2>3, <2>4 DEF Choice, Clean
<1>30. ASSUME NEW r \in Request, Retire(r) PROVE Choice'
  <2>1. /\ \A q \in Request : q # r => req'[q] = req[q]
        /\ Drains(r, live) => Drains(r, live)'
        /\ Rebuilding(r) => (InForce(r)' <=> InForce(r)) /\ req'[r].want = req[r].want
    BY <1>30 DEF Retire, At, Drains, InForce, Rebuilding, Saves, Goroutines, Goroutine
  <2>2. \A s \in Session : /\ sess'[s].pending = sess[s].pending /\ sess'[s].config = sess[s].config
                           /\ sess'[s].turn = sess[s].turn /\ sess'[s].maint = sess[s].maint
    BY <1>30 DEF Retire, Objects, Object
  <2>3. live' = live /\ last' = last /\ amiss \subseteq amiss'
    BY <1>30 DEF Retire, history
  <2>4. ASSUME \A s \in Session : Queued(s), Settled PROVE (\A s \in Session : Queued(s)') /\ Settled'
    BY <2>1, <2>2, <2>3, <2>4, SettledKept DEF Queued
  <2> QED BY <2>3, <2>4 DEF Choice, Clean
<1>31. ASSUME NEW r \in Request, Unwind(r) PROVE Choice'
  BY <1>31, Paths DEF Unwind, At, Wake, Goto, Goroutines, Objects, Goroutine, Object, Others,
     Choice, Queued, Settled, InForce, Idle, Drains, Work, Held, Holds, Turning, Rebuilding,
     Saves, Shape, Located, Blank, Detached, Closing, Alive, Fresh, Clean, On, fileVars, history
<1>32. ASSUME NEW r \in Request, Abandon(r) PROVE Choice'
  <2>1. /\ \A q \in Request : q # r => req'[q] = req[q]
        /\ \A s \in Session : s # req[r].on => sess'[s] = sess[s]
        /\ \A s \in Session : s # req[r].on => last'[s] = last[s]
        /\ req[r].on \in Session
        /\ req[r].pc = "abandon"
        /\ sess[req[r].on].maint = r
        /\ sess'[req[r].on].maint = None
        /\ sess'[req[r].on].pending = sess[req[r].on].pending
        /\ sess'[req[r].on].turn = sess[req[r].on].turn
        /\ sess'[req[r].on].config = sess[req[r].on].config
        /\ live' = live /\ amiss \subseteq amiss'
        /\ sess[req[r].on].pending # None => last'[req[r].on] = last[req[r].on]
            /\ ("stuck" \in amiss' \/ (req'[r].pc = "drop" /\ req'[r].on = req[r].on))
        /\ sess[req[r].on].pending = None =>
            last'[req[r].on] = IF last[req[r].on] = req[r].want THEN sess[req[r].on].config ELSE last[req[r].on]
    BY <1>32, Paths DEF Abandon, At, On, Void, End, Unserved, Work, Holds, Rebuilding,
       Goroutines, Goroutine, Objects, Object, Others, Shape, Located, Detached
  <2>2. ASSUME \A s \in Session : Queued(s) PROVE \A s \in Session : Queued(s)'
    BY <2>1, <2>2, Paths DEF Queued
  <2>3. req[r].on = live => live \in Session /\ live # None
    BY <2>1, Paths DEF Others
  <2>4. CASE live # req[r].on
    <3>1. ASSUME live # None, NEW q \in Request, Drains(q, live) PROVE Drains(q, live)'
      BY <2>1, <2>4, <3>1 DEF Drains
    <3>2. live # None => live \in Session /\ sess[live].maint \in Request \cup {None}
      BY DEF Others, Objects, Object
    <3>3. ASSUME live # None, sess[live].maint # None PROVE sess[live].maint # r
      BY <2>1, <2>4, <3>2, <3>3 DEF Work, Held
    <3>4. ASSUME Settled PROVE Settled'
      BY <2>1, <2>4, <3>1, <3>2, <3>3, <3>4 DEF Settled, Idle, InForce
    <3> QED BY <2>1, <2>2, <3>4 DEF Choice, Clean
  <2>5. CASE live = req[r].on
    <3>1. ASSUME Clean({"stale", "dropped", "stuck"})', sess[live].pending # None PROVE Drains(r, live)'
      BY <2>1, <2>5, <3>1 DEF Drains, Clean
    <3>2. ASSUME Settled, Clean({"stale", "dropped", "stuck"})' PROVE Settled'
      BY <2>1, <2>3, <2>5, <3>1, <3>2, Paths DEF Settled, InForce
    <3> QED BY <2>1, <2>2, <3>2 DEF Choice, Clean
  <2> QED BY <2>4, <2>5
<1>33. ASSUME NEW r \in Request, Apply(r) PROVE Choice'
  <2>1. /\ \A q \in Request : q # r => req'[q] = req[q]
        /\ Drains(r, live) => Drains(r, live)'
        /\ Rebuilding(r) => (InForce(r)' <=> InForce(r)) /\ req'[r].want = req[r].want
    <3>1. CASE End(r)
      BY <1>33, <3>1, EndMoves, GotoMoves DEF Apply, At, Drains, InForce, Rebuilding, Saves
    <3>2. CASE ~End(r)
      BY <1>33, <3>2, GotoMoves DEF Apply, At, Drains, InForce, Rebuilding, Saves, Goroutines,
         Goroutine
    <3> QED BY <3>1, <3>2
  <2>2. \A s \in Session : /\ sess'[s].pending = sess[s].pending /\ sess'[s].config = sess[s].config
                           /\ sess'[s].turn = sess[s].turn /\ sess'[s].maint = sess[s].maint
    BY <1>33 DEF Apply, Objects, Object
  <2>3. live' = live /\ last' = last /\ amiss \subseteq amiss'
    BY <1>33 DEF Apply, history
  <2>4. ASSUME \A s \in Session : Queued(s), Settled PROVE (\A s \in Session : Queued(s)') /\ Settled'
    BY <2>1, <2>2, <2>3, <2>4, SettledKept DEF Queued
  <2> QED BY <2>3, <2>4 DEF Choice, Clean
<1>34. ASSUME NEW r \in Request, Copy(r) PROVE Choice'
  <2>1. /\ \A q \in Request : q # r => req'[q] = req[q]
        /\ live # None /\ Drains(r, live) => Drains(r, live)' \/ sess[live].pending = None
        /\ Rebuilding(r) => (InForce(r)' <=> InForce(r)) /\ req'[r].want = req[r].want
    <3>1. CASE End(r)
      <4>1. sess[req[r].on].deleted \/ sess[req[r].on].pending = None
        BY <1>34, <3>1, EndMoves, Paths DEF Copy, On, At, End, Unserved, Goroutines, Goroutine
      <4> QED BY <1>34, <3>1, <4>1, EndMoves DEF Copy, At, Closing, Alive, Drains, InForce,
                 Rebuilding, Saves
    <3>2. CASE ~End(r)
      BY <1>34, <3>2 DEF Copy, At, Drains, InForce, Rebuilding, Saves, Goroutines, Goroutine
    <3> QED BY <3>1, <3>2
  <2>2. \A s \in Session : /\ sess'[s].pending = sess[s].pending /\ sess'[s].config = sess[s].config
                           /\ sess'[s].turn = sess[s].turn /\ sess'[s].maint = sess[s].maint
    BY <1>34 DEF Copy, Objects, Object
  <2>3. live' = live /\ last' = last /\ amiss \subseteq amiss'
    BY <1>34 DEF Copy, history
  <2>4. ASSUME \A s \in Session : Queued(s), Settled PROVE (\A s \in Session : Queued(s)') /\ Settled'
    BY <2>1, <2>2, <2>3, <2>4, SettledKept DEF Queued
  <2> QED BY <2>3, <2>4 DEF Choice, Clean
<1>35. ASSUME NEW r \in Request, Drop(r) PROVE Choice'
  <2>1. /\ \A q \in Request : q # r => req'[q] = req[q]
        /\ \A s \in Session : s # req[r].on => sess'[s] = sess[s]
        /\ \A s \in Session : s # req[r].on => last'[s] = last[s]
        /\ req[r].on \in Session
        /\ req[r].pc = "drop"
        /\ sess'[req[r].on].turn = sess[req[r].on].turn
        /\ sess'[req[r].on].maint = sess[req[r].on].maint
        /\ sess'[req[r].on].config = sess[req[r].on].config
        /\ live' = live /\ amiss \subseteq amiss'
        /\ (sess'[req[r].on].pending = sess[req[r].on].pending /\ last' = last)
            \/ sess'[req[r].on].pending = None
        /\ sess[req[r].on].deleted \/ ~Idle(sess[req[r].on]) \/ sess[req[r].on].pending = None =>
            sess'[req[r].on].pending = sess[req[r].on].pending /\ last' = last
        /\ "dropped" \notin amiss' /\ ~sess[req[r].on].deleted /\ Idle(sess[req[r].on])
            /\ sess[req[r].on].pending # None => sess'[req[r].on].pending = None
            /\ sess[req[r].on].pending = req[r].want
            /\ last'[req[r].on] = IF last[req[r].on] = req[r].want THEN sess[req[r].on].config ELSE last[req[r].on]
    BY <1>35, Paths DEF Drop, At, On, MayDrop, Busy, Void, End, Unserved, Idle, Goroutines,
       Goroutine, Objects, Object, Others, Shape, Located, Detached
  <2>2. ASSUME \A s \in Session : Queued(s) PROVE \A s \in Session : Queued(s)'
    BY <2>1, <2>2, Paths DEF Queued
  <2>3. req[r].on = live => live \in Session /\ live # None
    BY <2>1, Paths DEF Others
  <2>4. CASE live # req[r].on
    <3>1. ASSUME live # None, NEW q \in Request, Drains(q, live) PROVE Drains(q, live)'
      BY <2>1, <2>4, <3>1 DEF Drains
    <3>2. live # None => live \in Session /\ sess[live].maint \in Request \cup {None}
      BY DEF Others, Objects, Object
    <3>3. ASSUME live # None, sess[live].maint # None PROVE sess[live].maint # r
      BY <2>1, <2>4, <3>2, <3>3 DEF Work, Held
    <3>4. ASSUME Settled PROVE Settled'
      BY <2>1, <2>4, <3>1, <3>2, <3>3, <3>4 DEF Settled, Idle, InForce
    <3> QED BY <2>1, <2>2, <3>4 DEF Choice, Clean
  <2>5. CASE live = req[r].on
    <3>1. ~sess[live].deleted
      BY <2>3, <2>5 DEF Closing, Alive
    <3>2. CASE Idle(sess[live]) /\ sess[live].pending # None
      <4>1. ASSUME Clean({"stale", "dropped", "stuck"})', \A s \in Session : Queued(s) PROVE Settled'
        BY <2>1, <2>3, <2>5, <3>1, <3>2, <4>1 DEF Settled, Queued, Idle, Clean
      <4> QED BY <2>1, <2>2, <4>1 DEF Choice, Clean
    <3>3. CASE ~Idle(sess[live]) \/ sess[live].pending = None
      <4>1. UNCHANGED <<last, live>> /\ sess'[live].pending = sess[live].pending
        BY <2>1, <2>3, <2>5, <3>3
      <4>2. sess[live].maint # r /\ sess[live].maint \in Request \cup {None}
        BY <2>1, <2>3, <2>5, Paths DEF Work, Held, Rebuilding, Saves, Objects, Object
      <4>3. ASSUME Settled PROVE Settled'
        BY <2>1, <2>3, <2>5, <3>3, <4>1, <4>2, <4>3 DEF Settled, Idle, InForce
      <4> QED BY <2>1, <2>2, <4>3 DEF Choice, Clean
    <3> QED BY <3>2, <3>3
  <2> QED BY <2>4, <2>5
<1>36. ASSUME NEW r \in Request, Abort(r) PROVE Choice'
  <2>1. /\ \A q \in Request : q # r => req'[q] = req[q]
        /\ Drains(r, live) => Drains(r, live)'
        /\ Rebuilding(r) => (InForce(r)' <=> InForce(r)) /\ req'[r].want = req[r].want
    BY <1>36, GotoMoves DEF Abort, At, Drains, InForce, Rebuilding, Saves
  <2>2. \A s \in Session : /\ sess'[s].pending = sess[s].pending /\ sess'[s].config = sess[s].config
                           /\ sess'[s].turn = sess[s].turn /\ sess'[s].maint = sess[s].maint
    BY <1>36 DEF Abort, Objects, Object
  <2>3. live' = live /\ last' = last /\ amiss \subseteq amiss'
    BY <1>36 DEF Abort, history
  <2>4. ASSUME \A s \in Session : Queued(s), Settled PROVE (\A s \in Session : Queued(s)') /\ Settled'
    BY <2>1, <2>2, <2>3, <2>4, SettledKept DEF Queued
  <2> QED BY <2>3, <2>4 DEF Choice, Clean
<1>37. ASSUME NEW r \in Request, Waited(r) PROVE Choice'
  <2>1. /\ \A q \in Request : q # r => req'[q] = req[q]
        /\ Drains(r, live) => Drains(r, live)'
        /\ Rebuilding(r) => (InForce(r)' <=> InForce(r)) /\ req'[r].want = req[r].want
    BY <1>37, GotoMoves DEF Waited, At, Drains, InForce, Rebuilding, Saves
  <2>2. \A s \in Session : /\ sess'[s].pending = sess[s].pending /\ sess'[s].config = sess[s].config
                           /\ sess'[s].turn = sess[s].turn /\ sess'[s].maint = sess[s].maint
    BY <1>37 DEF Waited, Objects, Object
  <2>3. live' = live /\ last' = last /\ amiss \subseteq amiss'
    BY <1>37 DEF Waited, history
  <2>4. ASSUME \A s \in Session : Queued(s), Settled PROVE (\A s \in Session : Queued(s)') /\ Settled'
    BY <2>1, <2>2, <2>3, <2>4, SettledKept DEF Queued
  <2> QED BY <2>3, <2>4 DEF Choice, Clean
<1>38. ASSUME NEW r \in Request, Shut(r) PROVE Choice'
  <2>1. /\ \A q \in Request : q # r => req'[q] = req[q]
        /\ Drains(r, live) => Drains(r, live)'
        /\ Rebuilding(r) => (InForce(r)' <=> InForce(r)) /\ req'[r].want = req[r].want
    BY <1>38, GotoMoves DEF Shut, At, Drains, InForce, Rebuilding, Saves
  <2>2. \A s \in Session : /\ sess'[s].pending = sess[s].pending /\ sess'[s].config = sess[s].config
                           /\ sess'[s].turn = sess[s].turn /\ sess'[s].maint = sess[s].maint
    BY <1>38 DEF Shut, Objects, Object
  <2>3. live' = live /\ last' = last /\ amiss \subseteq amiss'
    BY <1>38 DEF Shut, history
  <2>4. ASSUME \A s \in Session : Queued(s), Settled PROVE (\A s \in Session : Queued(s)') /\ Settled'
    BY <2>1, <2>2, <2>3, <2>4, SettledKept DEF Queued
  <2> QED BY <2>3, <2>4 DEF Choice, Clean
<1>39. ASSUME NEW r \in Request, Release(r) PROVE Choice'
  <2>1. /\ \A q \in Request : q # r => req'[q] = req[q]
        /\ Drains(r, live) => Drains(r, live)'
        /\ Rebuilding(r) => (InForce(r)' <=> InForce(r)) /\ req'[r].want = req[r].want
    <3>1. CASE End(r)
      BY <1>39, <3>1, EndMoves, GotoMoves DEF Release, At, Drains, InForce, Rebuilding, Saves
    <3>2. CASE ~End(r)
      BY <1>39, <3>2, GotoMoves DEF Release, At, Drains, InForce, Rebuilding, Saves, Goroutines,
         Goroutine
    <3> QED BY <3>1, <3>2
  <2>2. \A s \in Session : /\ sess'[s].pending = sess[s].pending /\ sess'[s].config = sess[s].config
                           /\ sess'[s].turn = sess[s].turn /\ sess'[s].maint = sess[s].maint
    BY <1>39 DEF Release, Objects, Object
  <2>3. live' = live /\ last' = last /\ amiss \subseteq amiss'
    BY <1>39 DEF Release, history
  <2>4. ASSUME \A s \in Session : Queued(s), Settled PROVE (\A s \in Session : Queued(s)') /\ Settled'
    BY <2>1, <2>2, <2>3, <2>4, SettledKept DEF Queued
  <2> QED BY <2>3, <2>4 DEF Choice, Clean
<1>40. ASSUME NEW r \in Request, Destroy(r) PROVE Choice'
  <2>1. /\ \A q \in Request : q # r => req'[q] = req[q]
        /\ Drains(r, live) => Drains(r, live)'
        /\ Rebuilding(r) => (InForce(r)' <=> InForce(r)) /\ req'[r].want = req[r].want
    BY <1>40 DEF Destroy, At, Drains, InForce, Rebuilding, Saves, Goroutines, Goroutine
  <2>2. \A s \in Session : /\ sess'[s].pending = sess[s].pending /\ sess'[s].config = sess[s].config
                           /\ sess'[s].turn = sess[s].turn /\ sess'[s].maint = sess[s].maint
    BY <1>40 DEF Destroy, Objects, Object
  <2>3. live' = live /\ last' = last /\ amiss \subseteq amiss'
    BY <1>40 DEF Destroy, history
  <2>4. ASSUME \A s \in Session : Queued(s), Settled PROVE (\A s \in Session : Queued(s)') /\ Settled'
    BY <2>1, <2>2, <2>3, <2>4, SettledKept DEF Queued
  <2> QED BY <2>3, <2>4 DEF Choice, Clean
<1>41. ASSUME NEW r \in Request, Erase(r) PROVE Choice'
  <2>1. /\ \A q \in Request : q # r => req'[q] = req[q]
        /\ Drains(r, live) => Drains(r, live)'
        /\ Rebuilding(r) => (InForce(r)' <=> InForce(r)) /\ req'[r].want = req[r].want
    BY <1>41, GotoMoves DEF Erase, At, Drains, InForce, Rebuilding, Saves
  <2>2. \A s \in Session : /\ sess'[s].pending = sess[s].pending /\ sess'[s].config = sess[s].config
                           /\ sess'[s].turn = sess[s].turn /\ sess'[s].maint = sess[s].maint
    BY <1>41 DEF Erase, Objects, Object
  <2>3. live' = live /\ last' = last /\ amiss \subseteq amiss'
    BY <1>41 DEF Erase, history
  <2>4. ASSUME \A s \in Session : Queued(s), Settled PROVE (\A s \in Session : Queued(s)') /\ Settled'
    BY <2>1, <2>2, <2>3, <2>4, SettledKept DEF Queued
  <2> QED BY <2>3, <2>4 DEF Choice, Clean
<1>42. ASSUME NEW r \in Request, Twin(r) PROVE Choice'
  <2>1. /\ \A q \in Request : q # r => req'[q] = req[q]
        /\ Drains(r, live) => Drains(r, live)'
        /\ Rebuilding(r) => (InForce(r)' <=> InForce(r)) /\ req'[r].want = req[r].want
    <3>1. CASE End(r)
      BY <1>42, <3>1, EndMoves, GotoMoves DEF Twin, At, Drains, InForce, Rebuilding, Saves
    <3>2. CASE ~End(r)
      BY <1>42, <3>2, GotoMoves DEF Twin, At, Drains, InForce, Rebuilding, Saves, Goroutines,
         Goroutine
    <3> QED BY <3>1, <3>2
  <2>2. \A s \in Session : /\ sess'[s].pending = sess[s].pending /\ sess'[s].config = sess[s].config
                           /\ sess'[s].turn = sess[s].turn /\ sess'[s].maint = sess[s].maint
    BY <1>42 DEF Twin, Objects, Object
  <2>3. live' = live /\ last' = last /\ amiss \subseteq amiss'
    BY <1>42 DEF Twin, history
  <2>4. ASSUME \A s \in Session : Queued(s), Settled PROVE (\A s \in Session : Queued(s)') /\ Settled'
    BY <2>1, <2>2, <2>3, <2>4, SettledKept DEF Queued
  <2> QED BY <2>3, <2>4 DEF Choice, Clean
<1>43. ASSUME NEW r \in Request, Linger(r) PROVE Choice'
  <2>1. /\ \A q \in Request : q # r => req'[q] = req[q]
        /\ Drains(r, live) => Drains(r, live)'
        /\ Rebuilding(r) => (InForce(r)' <=> InForce(r)) /\ req'[r].want = req[r].want
    <3>1. CASE End(r)
      BY <1>43, <3>1, EndMoves, GotoMoves DEF Linger, At, Drains, InForce, Rebuilding, Saves
    <3>2. CASE ~End(r)
      BY <1>43, <3>2, GotoMoves DEF Linger, At, Drains, InForce, Rebuilding, Saves, Goroutines,
         Goroutine
    <3> QED BY <3>1, <3>2
  <2>2. \A s \in Session : /\ sess'[s].pending = sess[s].pending /\ sess'[s].config = sess[s].config
                           /\ sess'[s].turn = sess[s].turn /\ sess'[s].maint = sess[s].maint
    BY <1>43 DEF Linger, Objects, Object
  <2>3. live' = live /\ last' = last /\ amiss \subseteq amiss'
    BY <1>43 DEF Linger, history
  <2>4. ASSUME \A s \in Session : Queued(s), Settled PROVE (\A s \in Session : Queued(s)') /\ Settled'
    BY <2>1, <2>2, <2>3, <2>4, SettledKept DEF Queued
  <2> QED BY <2>3, <2>4 DEF Choice, Clean
<1>44. ASSUME NEW r \in Request, ResolveAgain(r) PROVE Choice'
  <2>1. /\ \A q \in Request : q # r => req'[q] = req[q]
        /\ Drains(r, live) => Drains(r, live)'
        /\ Rebuilding(r) => (InForce(r)' <=> InForce(r)) /\ req'[r].want = req[r].want
    <3>1. CASE End(r)
      BY <1>44, <3>1, EndMoves, GotoMoves DEF ResolveAgain, At, Drains, InForce, Rebuilding, Saves
    <3>2. CASE ~End(r)
      BY <1>44, <3>2, GotoMoves DEF ResolveAgain, At, Drains, InForce, Rebuilding, Saves,
         Goroutines, Goroutine
    <3> QED BY <3>1, <3>2
  <2>2. \A s \in Session : /\ sess'[s].pending = sess[s].pending /\ sess'[s].config = sess[s].config
                           /\ sess'[s].turn = sess[s].turn /\ sess'[s].maint = sess[s].maint
    BY <1>44 DEF ResolveAgain, Objects, Object
  <2>3. live' = live /\ last' = last /\ amiss \subseteq amiss'
    BY <1>44 DEF ResolveAgain, history
  <2>4. ASSUME \A s \in Session : Queued(s), Settled PROVE (\A s \in Session : Queued(s)') /\ Settled'
    BY <2>1, <2>2, <2>3, <2>4, SettledKept DEF Queued
  <2> QED BY <2>3, <2>4 DEF Choice, Clean
<1>45. ASSUME NEW r \in Request, Acquire(r) PROVE Choice'
  <2>1. /\ \A q \in Request : q # r => req'[q] = req[q]
        /\ Drains(r, live) => Drains(r, live)'
        /\ Rebuilding(r) => (InForce(r)' <=> InForce(r)) /\ req'[r].want = req[r].want
    <3>1. CASE End(r)
      BY <1>45, <3>1, EndMoves, GotoMoves DEF Acquire, At, Drains, InForce, Rebuilding, Saves
    <3>2. CASE ~End(r)
      BY <1>45, <3>2, GotoMoves DEF Acquire, At, Drains, InForce, Rebuilding, Saves, Goroutines,
         Goroutine
    <3> QED BY <3>1, <3>2
  <2>2. \A s \in Session : /\ sess'[s].pending = sess[s].pending /\ sess'[s].config = sess[s].config
                           /\ sess'[s].turn = sess[s].turn /\ sess'[s].maint = sess[s].maint
    BY <1>45 DEF Acquire, Objects, Object
  <2>3. live' = live /\ last' = last /\ amiss \subseteq amiss'
    BY <1>45 DEF Acquire, history
  <2>4. ASSUME \A s \in Session : Queued(s), Settled PROVE (\A s \in Session : Queued(s)') /\ Settled'
    BY <2>1, <2>2, <2>3, <2>4, SettledKept DEF Queued
  <2> QED BY <2>3, <2>4 DEF Choice, Clean
<1>46. ASSUME NEW r \in Request, Read(r) PROVE Choice'
  BY <1>46, Paths DEF Read, At, FreeCtrls, Opened, Goto, Race, Overlap, Goroutines, Objects,
     Goroutine, Object, Others, Choice, Queued, Settled, InForce, Idle, Drains, Work, Held,
     Holds, Turning, Rebuilding, Saves, Shape, Located, Blank, Detached, Closing, Alive, Fresh,
     Clean, On, fileVars, history
<1>47. ASSUME NEW r \in Request, ReadFails(r) PROVE Choice'
  <2>1. /\ \A q \in Request : q # r => req'[q] = req[q]
        /\ Drains(r, live) => Drains(r, live)'
        /\ Rebuilding(r) => (InForce(r)' <=> InForce(r)) /\ req'[r].want = req[r].want
    <3>1. CASE End(r)
      BY <1>47, <3>1, EndMoves, GotoMoves DEF ReadFails, At, Drains, InForce, Rebuilding, Saves
    <3>2. CASE ~End(r)
      BY <1>47, <3>2, GotoMoves DEF ReadFails, At, Drains, InForce, Rebuilding, Saves,
         Goroutines, Goroutine
    <3> QED BY <3>1, <3>2
  <2>2. \A s \in Session : /\ sess'[s].pending = sess[s].pending /\ sess'[s].config = sess[s].config
                           /\ sess'[s].turn = sess[s].turn /\ sess'[s].maint = sess[s].maint
    BY <1>47 DEF ReadFails, Objects, Object
  <2>3. live' = live /\ last' = last /\ amiss \subseteq amiss'
    BY <1>47 DEF ReadFails, history
  <2>4. ASSUME \A s \in Session : Queued(s), Settled PROVE (\A s \in Session : Queued(s)') /\ Settled'
    BY <2>1, <2>2, <2>3, <2>4, SettledKept DEF Queued
  <2> QED BY <2>3, <2>4 DEF Choice, Clean
<1>48. ASSUME NEW r \in Request, LoadMeta(r) PROVE Choice'
  <2>1. /\ \A q \in Request : q # r => req'[q] = req[q]
        /\ Drains(r, live) => Drains(r, live)'
        /\ Rebuilding(r) => (InForce(r)' <=> InForce(r)) /\ req'[r].want = req[r].want
    BY <1>48, GotoMoves DEF LoadMeta, At, Drains, InForce, Rebuilding, Saves
  <2>2. \A s \in Session : /\ sess'[s].pending = sess[s].pending /\ sess'[s].config = sess[s].config
                           /\ sess'[s].turn = sess[s].turn /\ sess'[s].maint = sess[s].maint
    BY <1>48 DEF LoadMeta, Objects, Object
  <2>3. live' = live /\ last' = last /\ amiss \subseteq amiss'
    BY <1>48 DEF LoadMeta, history
  <2>4. ASSUME \A s \in Session : Queued(s), Settled PROVE (\A s \in Session : Queued(s)') /\ Settled'
    BY <2>1, <2>2, <2>3, <2>4, SettledKept DEF Queued
  <2> QED BY <2>3, <2>4 DEF Choice, Clean
<1>49. ASSUME NEW r \in Request, LoadMetaFails(r) PROVE Choice'
  <2>1. /\ \A q \in Request : q # r => req'[q] = req[q]
        /\ \A s \in Session : s # req[r].on => sess'[s] = sess[s]
        /\ req[r].on \in Session
        /\ req[r].pc = "meta"
        /\ sess'[req[r].on].pending = None
        /\ live' = live /\ last' = last /\ amiss' = amiss
    BY <1>49, Paths DEF LoadMetaFails, At, End, Unserved, Unopened, Opened, history, Goroutines,
       Goroutine, Objects, Object, Others, Shape, Located, Detached
  <2>2. ASSUME \A s \in Session : Queued(s) PROVE \A s \in Session : Queued(s)'
    BY <2>1, <2>2, Paths DEF Queued
  <2>3. CASE live # req[r].on
    <3>1. ASSUME live # None, NEW q \in Request, Drains(q, live) PROVE Drains(q, live)'
      BY <2>1, <2>3, <3>1 DEF Drains
    <3>2. live # None => live \in Session /\ sess[live].maint \in Request \cup {None}
      BY DEF Others, Objects, Object
    <3>3. ASSUME live # None, sess[live].maint # None PROVE sess[live].maint # r
      BY <2>1, <2>3, <3>2, <3>3 DEF Work, Held
    <3>4. ASSUME Settled PROVE Settled'
      BY <2>1, <2>3, <3>1, <3>2, <3>3, <3>4 DEF Settled, Idle, InForce
    <3> QED BY <2>1, <2>2, <3>4 DEF Choice, Clean
  <2>4. req[r].on # live
    BY <2>1 DEF Shape, Alone, Opens
  <2> QED BY <2>3, <2>4
<1>50. ASSUME NEW r \in Request, Register(r) PROVE Choice'
  BY <1>50, Paths DEF Register, At, End, Unserved, Goroutines, Objects, Goroutine, Object,
     Others, Choice, Queued, Settled, InForce, Idle, Drains, Work, Held, Holds, Turning,
     Rebuilding, Saves, Shape, Located, Blank, Detached, Closing, Alive, Fresh, Clean, On,
     fileVars, history
<1>51. ASSUME NEW p \in Path, OtherAcquires(p) PROVE Choice'
  BY <1>51, Paths DEF OtherAcquires, Goroutines, Objects, Goroutine, Object, Others, Choice,
     Queued, Settled, InForce, Idle, Drains, Work, Held, Holds, Turning, Rebuilding, Saves,
     Shape, Located, Blank, Detached, Closing, Alive, Fresh, Clean, On, fileVars, history
<1>52. ASSUME NEW p \in Path, OtherReleases(p) PROVE Choice'
  BY <1>52, Paths DEF OtherReleases, Unlock, Goroutines, Objects, Goroutine, Object, Others,
     Choice, Queued, Settled, InForce, Idle, Drains, Work, Held, Holds, Turning, Rebuilding,
     Saves, Shape, Located, Blank, Detached, Closing, Alive, Fresh, Clean, On, fileVars, history
<1>53. ASSUME NEW p \in Path, Reconcile(p) PROVE Choice'
  BY <1>53, Paths DEF Reconcile, Remove, Goroutines, Objects, Goroutine, Object, Others, Choice,
     Queued, Settled, InForce, Idle, Drains, Work, Held, Holds, Turning, Rebuilding, Saves,
     Shape, Located, Blank, Detached, Closing, Alive, Fresh, Clean, On, fileVars, history
<1>54. CASE Crash
  BY <1>54, Paths DEF Crash, Unserved, Unopened, Opened, At, Goroutines, Objects, Goroutine,
     Object, Others, Choice, Queued, Settled, InForce, Idle, Drains, Work, Held, Holds, Turning,
     Rebuilding, Saves, Shape, Located, Blank, Detached, Closing, Alive, Fresh, Clean, On,
     fileVars, history
<1> QED BY <1>1, <1>2, <1>3, <1>4, <1>5, <1>6, <1>7, <1>8, <1>9, <1>10, <1>11, <1>12, <1>13,
           <1>14, <1>15, <1>16, <1>17, <1>18, <1>19, <1>20, <1>21, <1>22, <1>23, <1>24, <1>25,
           <1>26, <1>27, <1>28, <1>29, <1>30, <1>31, <1>32, <1>33, <1>34, <1>35, <1>36, <1>37,
           <1>38, <1>39, <1>40, <1>41, <1>42, <1>43, <1>44, <1>45, <1>46, <1>47, <1>48, <1>49,
           <1>50, <1>51, <1>52, <1>53, <1>54 DEF Next, Start, Continue, Turn, Save, Rebuild,
           Close, Open
-----------------------------------------------------------------------------
(***************************************************************************)
(* Leases.                                                                 *)
(***************************************************************************)
LEMMA LocksKept ==
  ASSUME Locks, NEW r \in Request,
         \A q \in Request : q # r => req'[q] = req[q],
         req'[r].pc \notin {"assign", "read"},
         \A s \in Session : sess'[s].lease = sess[s].lease,
         lock' = lock
  PROVE  Locks'
<1>1. \A q \in Request : req'[q].pc \in {"assign", "read"} => q # r /\ req'[q] = req[q]
  OBVIOUS
<1> QED BY <1>1 DEF Locks

LEMMA LocksStep ==
  ASSUME Goroutines, Objects, Others, Shape, Work, Closing, Locks, [Next]_vars
  PROVE  Locks'
<1>1. CASE UNCHANGED vars
  BY <1>1 DEF Goroutines, Objects, Goroutine, Object, Others, Locks, vars, fileVars, history
<1>2. ASSUME NEW r \in Request, Prompt(r) PROVE Locks'
  <2>1. /\ \A q \in Request : q # r => req'[q] = req[q]
        /\ req'[r].pc \notin {"assign", "read"}
    BY <1>2 DEF Prompt, Serve, At, Goroutines, Goroutine
  <2>2. \A s \in Session : sess'[s].lease = sess[s].lease
    BY <1>2 DEF Prompt, Objects, Object
  <2>3. lock' = lock
    BY <1>2 DEF Prompt, fileVars
  <2> QED BY <2>1, <2>2, <2>3, LocksKept
<1>3. ASSUME NEW r \in Request, SetConfig(r) PROVE Locks'
  <2>1. /\ \A q \in Request : q # r => req'[q] = req[q]
        /\ req'[r].pc \notin {"assign", "read"}
    BY <1>3 DEF SetConfig, At, Goroutines, Goroutine
  <2>2. \A s \in Session : sess'[s].lease = sess[s].lease
    BY <1>3 DEF SetConfig, Objects, Object
  <2>3. lock' = lock
    BY <1>3 DEF SetConfig, fileVars
  <2> QED BY <2>1, <2>2, <2>3, LocksKept
<1>4. ASSUME NEW r \in Request, Take(r) PROVE Locks'
  <2>1. /\ \A q \in Request : q # r => req'[q] = req[q]
        /\ req'[r].pc \notin {"assign", "read"}
    BY <1>4 DEF Take, At, Goroutines, Goroutine
  <2>2. \A s \in Session : sess'[s].lease = sess[s].lease
    BY <1>4 DEF Take, Objects, Object
  <2>3. lock' = lock
    BY <1>4 DEF Take, fileVars
  <2> QED BY <2>1, <2>2, <2>3, LocksKept
<1>5. ASSUME NEW r \in Request, DeleteClosed(r) PROVE Locks'
  <2>1. /\ \A q \in Request : q # r => req'[q] = req[q]
        /\ req'[r].pc \notin {"assign", "read"}
    BY <1>5 DEF DeleteClosed, Serve, At, Goroutines, Goroutine
  <2>2. \A s \in Session : sess'[s].lease = sess[s].lease
    BY <1>5 DEF DeleteClosed, Objects, Object
  <2>3. lock' = lock
    BY <1>5 DEF DeleteClosed, fileVars
  <2> QED BY <2>1, <2>2, <2>3, LocksKept
<1>6. ASSUME NEW r \in Request, Load(r) PROVE Locks'
  <2>1. /\ \A q \in Request : q # r => req'[q] = req[q]
        /\ req'[r].pc \notin {"assign", "read"}
    BY <1>6 DEF Load, At, Goroutines, Goroutine
  <2>2. \A s \in Session : sess'[s].lease = sess[s].lease
    BY <1>6 DEF Load, Objects, Object
  <2>3. lock' = lock
    BY <1>6 DEF Load, fileVars
  <2> QED BY <2>1, <2>2, <2>3, LocksKept
<1>7. ASSUME NEW r \in Request, Begin(r) PROVE Locks'
  <2>1. /\ \A q \in Request : q # r => req'[q] = req[q]
        /\ req'[r].pc \notin {"assign", "read"}
    BY <1>7, GotoMoves DEF Begin, At
  <2>2. \A s \in Session : sess'[s].lease = sess[s].lease
    BY <1>7 DEF Begin, Objects, Object
  <2>3. lock' = lock
    BY <1>7 DEF Begin, fileVars
  <2> QED BY <2>1, <2>2, <2>3, LocksKept
<1>8. ASSUME NEW r \in Request, BeginRefused(r) PROVE Locks'
  <2>1. /\ \A q \in Request : q # r => req'[q] = req[q]
        /\ req'[r].pc \notin {"assign", "read"}
    <3>1. CASE End(r)
      BY <3>1, EndMoves
    <3>2. CASE ~End(r)
      BY <1>8, <3>2, GotoMoves DEF BeginRefused, At, Goroutines, Goroutine
    <3> QED BY <3>1, <3>2
  <2>2. \A s \in Session : sess'[s].lease = sess[s].lease
    BY <1>8 DEF BeginRefused, Objects, Object
  <2>3. lock' = lock
    BY <1>8 DEF BeginRefused, fileVars
  <2> QED BY <2>1, <2>2, <2>3, LocksKept
<1>9. ASSUME NEW r \in Request, Enter(r) PROVE Locks'
  <2>1. /\ \A q \in Request : q # r => req'[q] = req[q]
        /\ req'[r].pc \notin {"assign", "read"}
    BY <1>9 DEF Enter, At, Goroutines, Goroutine
  <2>2. \A s \in Session : sess'[s].lease = sess[s].lease
    BY <1>9 DEF Enter, Objects, Object
  <2>3. lock' = lock
    BY <1>9 DEF Enter, fileVars
  <2> QED BY <2>1, <2>2, <2>3, LocksKept
<1>10. ASSUME NEW r \in Request, Persist(r) PROVE Locks'
  <2>1. /\ \A q \in Request : q # r => req'[q] = req[q]
        /\ req'[r].pc \notin {"assign", "read"}
    BY <1>10 DEF Persist, At, Goroutines, Goroutine
  <2>2. \A s \in Session : sess'[s].lease = sess[s].lease
    BY <1>10 DEF Persist, Objects, Object
  <2>3. lock' = lock
    BY <1>10 DEF Persist, fileVars
  <2> QED BY <2>1, <2>2, <2>3, LocksKept
<1>11. ASSUME NEW r \in Request, Stamp(r) PROVE Locks'
  <2>1. /\ \A q \in Request : q # r => req'[q] = req[q]
        /\ req'[r].pc \notin {"assign", "read"}
    BY <1>11, GotoMoves DEF Stamp, At
  <2>2. \A s \in Session : sess'[s].lease = sess[s].lease
    BY <1>11 DEF Stamp, Objects, Object
  <2>3. lock' = lock
    BY <1>11 DEF Stamp, fileVars
  <2> QED BY <2>1, <2>2, <2>3, LocksKept
<1>12. ASSUME NEW r \in Request, Finish(r) PROVE Locks'
  <2>1. /\ \A q \in Request : q # r => req'[q] = req[q]
        /\ req'[r].pc \notin {"assign", "read"}
    BY <1>12 DEF Finish, At, Goroutines, Goroutine
  <2>2. \A s \in Session : sess'[s].lease = sess[s].lease
    BY <1>12 DEF Finish, Objects, Object
  <2>3. lock' = lock
    BY <1>12 DEF Finish, fileVars
  <2> QED BY <2>1, <2>2, <2>3, LocksKept
<1>13. ASSUME NEW r \in Request, TurnReturns(r) PROVE Locks'
  <2>1. /\ \A q \in Request : q # r => req'[q] = req[q]
        /\ req'[r].pc \notin {"assign", "read"}
    BY <1>13 DEF TurnReturns, At, Goroutines, Goroutine
  <2>2. \A s \in Session : sess'[s].lease = sess[s].lease
    BY <1>13 DEF TurnReturns, Objects, Object
  <2>3. lock' = lock
    BY <1>13 DEF TurnReturns, fileVars
  <2> QED BY <2>1, <2>2, <2>3, LocksKept
<1>14. ASSUME NEW r \in Request, Cancel(r) PROVE Locks'
  BY <1>14, Paths DEF Cancel, Goroutines, Objects, Goroutine, Object, Others, Locks, fileVars,
     history
<1>15. ASSUME NEW r \in Request, Saved(r) PROVE Locks'
  <2>1. /\ \A q \in Request : q # r => req'[q] = req[q]
        /\ req'[r].pc \notin {"assign", "read"}
    <3>1. req[r].phase \in {"turn", "persist", "rebuild"}
      BY <1>15 DEF Saved, At, Shape, Located, Saves
    <3>2. PICK p \in {"persist", "stamp", "build", "abandon"} : Goto(r, p)
      BY <1>15, <3>1, BackIs DEF Saved
    <3> QED BY <3>2, GotoMoves
  <2>2. \A s \in Session : sess'[s].lease = sess[s].lease
    BY <1>15 DEF Saved, Objects, Object
  <2>3. lock' = lock
    BY <1>15 DEF Saved, fileVars
  <2> QED BY <2>1, <2>2, <2>3, LocksKept
<1>16. ASSUME NEW r \in Request, NotSaved(r) PROVE Locks'
  <2>1. /\ \A q \in Request : q # r => req'[q] = req[q]
        /\ req'[r].pc \notin {"assign", "read"}
    <3>1. req[r].phase \in {"turn", "persist", "rebuild"}
      BY <1>16 DEF NotSaved, At, Shape, Located, Saves
    <3>2. PICK p \in {"persist", "stamp", "build", "abandon"} : Goto(r, p)
      BY <1>16, <3>1, BackIs DEF NotSaved
    <3> QED BY <3>2, GotoMoves
  <2>2. \A s \in Session : sess'[s].lease = sess[s].lease
    BY <1>16 DEF NotSaved, Objects, Object
  <2>3. lock' = lock
    BY <1>16 DEF NotSaved, fileVars
  <2> QED BY <2>1, <2>2, <2>3, LocksKept
<1>17. ASSUME NEW r \in Request, Recover(r) PROVE Locks'
  <2>1. /\ \A q \in Request : q # r => req'[q] = req[q]
        /\ req'[r].pc \notin {"assign", "read"}
    BY <1>17 DEF Recover, At, Goroutines, Goroutine
  <2>2. \A s \in Session : sess'[s].lease = sess[s].lease
    BY <1>17 DEF Recover, Objects, Object
  <2>3. lock' = lock
    BY <1>17 DEF Recover, fileVars
  <2> QED BY <2>1, <2>2, <2>3, LocksKept
<1>18. ASSUME NEW r \in Request, Follow(r) PROVE Locks'
  <2>1. /\ \A q \in Request : q # r => req'[q] = req[q]
        /\ req'[r].pc \notin {"assign", "read"}
    BY <1>18 DEF Follow, At, Goroutines, Goroutine
  <2>2. \A s \in Session : sess'[s].lease = sess[s].lease
    BY <1>18 DEF Follow, Objects, Object
  <2>3. lock' = lock
    BY <1>18 DEF Follow, fileVars
  <2> QED BY <2>1, <2>2, <2>3, LocksKept
<1>19. ASSUME NEW r \in Request, Secure(r) PROVE Locks'
  <2>1. UNCHANGED sess
    BY <1>19 DEF Secure
  <2>2. CASE lock[req[r].at] = "free"
    <3>1. /\ \A q \in Request : q # r => req'[q] = req[q]
          /\ req'[r].at = req[r].at /\ req'[r].pc = "assign"
      BY <1>19, <2>2, GotoMoves DEF Secure
    <3>2. \A p \in Path : lock'[p] = IF p = req[r].at THEN "ours" ELSE lock[p]
      BY <1>19, <2>2 DEF Secure, Others
    <3>3. /\ \A q \in Request : req[q].at \in Path
          /\ \A s \in Session : sess[s].lease \in Path \cup {None}
      BY DEF Goroutines, Goroutine, Objects, Object
    <3>4. /\ \A s \in Session : sess[s].lease # req[r].at
          /\ \A q \in Request : req[q].pc \in {"assign", "read"} => req[q].at # req[r].at
      BY <2>2, <3>3, Paths DEF Locks
    <3> QED BY <2>1, <3>1, <3>2, <3>3, <3>4, Paths DEF Locks
  <2>3. CASE lock[req[r].at] # "free"
    <3>1. req[r].phase \in {"turn", "persist", "rebuild"}
      BY <1>19 DEF Secure, At, Shape, Located, Saves
    <3>2. PICK p \in {"persist", "stamp", "build", "abandon"} : Goto(r, p)
      BY <1>19, <2>3, <3>1, BackIs DEF Secure
    <3>3. lock' = lock
      BY <1>19, <2>3 DEF Secure
    <3>4. /\ \A q \in Request : q # r => req'[q] = req[q]
          /\ req'[r].pc \notin {"assign", "read"}
      BY <3>2, GotoMoves
    <3> QED BY <2>1, <3>3, <3>4, LocksKept
  <2> QED BY <2>2, <2>3
<1>20. ASSUME NEW r \in Request, Assign(r) PROVE Locks'
  <2>1. /\ req[r].to \in Session /\ req[r].pc = "assign"
            /\ req[r].phase \in {"turn", "persist", "rebuild"}
        /\ \A q \in Request : req[q].at \in Path
        /\ \A s \in Session : sess[s].lease \in Path \cup {None}
    BY <1>20 DEF Assign, At, Shape, Located, Saves, Goroutines, Goroutine, Objects, Object
  <2>2. CASE sess[req[r].to].deleted
    <3>1. PICK p \in {"persist", "stamp", "build", "abandon"} : Goto(r, p)
      BY <1>20, <2>1, <2>2, BackIs DEF Assign
    <3>2. /\ \A q \in Request : q # r => req'[q] = req[q]
          /\ req'[r].pc \notin {"assign", "read"}
      BY <3>1, GotoMoves
    <3>3. UNCHANGED sess /\ \A q \in Path : q # req[r].at => lock'[q] = lock[q]
      BY <1>20, <2>2 DEF Assign, Unlock, Others
    <3>4. \A q \in Request : req'[q].pc \in {"assign", "read"} => q # r /\ req'[q] = req[q]
           /\ req[q].at # req[r].at
      BY <2>1, <3>2 DEF Locks
    <3> QED BY <2>1, <3>3, <3>4, Paths DEF Locks
  <2>3. CASE ~sess[req[r].to].deleted
    <3>1. /\ \A q \in Request : q # r => req'[q] = req[q]
          /\ req'[r].pc \notin {"assign", "read"}
      BY <1>20, <2>3, GotoMoves DEF Assign
    <3>2. /\ sess'[req[r].to].lease = req[r].at
          /\ \A s \in Session : s # req[r].to => sess'[s].lease = sess[s].lease
      BY <1>20, <2>1, <2>3 DEF Assign, MoveTo, Objects, Object
    <3>3. \A q \in Path : q # sess[req[r].to].lease => lock'[q] = lock[q]
      BY <1>20, <2>1, <2>3 DEF Assign, Unlock, Others
    <3>4. lock[req[r].at] = "ours" /\ \A s \in Session : sess[s].lease # req[r].at
      BY <2>1 DEF Locks
    <3>5. \A q \in Request : req'[q].pc \in {"assign", "read"} =>
             q # r /\ req'[q] = req[q] /\ req[q].at # req[r].at /\ req[q].at # sess[req[r].to].lease
      BY <2>1, <3>1 DEF Locks
    <3>6. \A s \in Session : s # req[r].to /\ sess[s].lease # None =>
           sess[s].lease # sess[req[r].to].lease
      BY <2>1 DEF Locks
    <3> QED BY <2>1, <3>2, <3>3, <3>4, <3>5, <3>6, Paths DEF Locks
  <2> QED BY <2>2, <2>3
<1>21. ASSUME NEW r \in Request, Redirect(r) PROVE Locks'
  <2>1. /\ \A q \in Request : q # r => req'[q] = req[q]
        /\ req'[r].pc \notin {"assign", "read"}
    BY <1>21, GotoMoves DEF Redirect, At
  <2>2. \A s \in Session : sess'[s].lease = sess[s].lease
    BY <1>21 DEF Redirect, Objects, Object
  <2>3. lock' = lock
    BY <1>21 DEF Redirect, fileVars
  <2> QED BY <2>1, <2>2, <2>3, LocksKept
<1>22. ASSUME NEW r \in Request, Commit(r) PROVE Locks'
  <2>1. /\ \A q \in Request : q # r => req'[q] = req[q]
        /\ req'[r].pc \notin {"assign", "read"}
    <3>1. req[r].phase \in {"turn", "persist", "rebuild"}
      BY <1>22 DEF Commit, At, Shape, Located, Saves
    <3>2. PICK p \in {"persist", "stamp", "build", "abandon"} : Goto(r, p)
      BY <1>22, <3>1, BackIs DEF Commit
    <3> QED BY <3>2, GotoMoves
  <2>2. \A s \in Session : sess'[s].lease = sess[s].lease
    BY <1>22 DEF Commit, Objects, Object
  <2>3. lock' = lock
    BY <1>22 DEF Commit, fileVars
  <2> QED BY <2>1, <2>2, <2>3, LocksKept
<1>23. ASSUME NEW r \in Request, ClaimRefused(r) PROVE Locks'
  <2>1. /\ \A q \in Request : q # r => req'[q] = req[q]
        /\ req'[r].pc \notin {"assign", "read"}
    <3>1. CASE End(r)
      BY <3>1, EndMoves
    <3>2. CASE ~End(r)
      BY <1>23, <3>2, GotoMoves DEF ClaimRefused, Fail, At, Goroutines, Goroutine
    <3> QED BY <3>1, <3>2
  <2>2. \A s \in Session : sess'[s].lease = sess[s].lease
    BY <1>23 DEF ClaimRefused, Objects, Object
  <2>3. lock' = lock
    BY <1>23 DEF ClaimRefused, fileVars
  <2> QED BY <2>1, <2>2, <2>3, LocksKept
<1>24. ASSUME NEW r \in Request, Queue(r) PROVE Locks'
  <2>1. /\ \A q \in Request : q # r => req'[q] = req[q]
        /\ req'[r].pc \notin {"assign", "read"}
    <3>1. CASE End(r)
      BY <3>1, EndMoves
    <3>2. CASE ~End(r)
      BY <1>24, <3>2, GotoMoves DEF Queue, At, Goroutines, Goroutine
    <3> QED BY <3>1, <3>2
  <2>2. \A s \in Session : sess'[s].lease = sess[s].lease
    BY <1>24 DEF Queue, Objects, Object
  <2>3. lock' = lock
    BY <1>24 DEF Queue, fileVars
  <2> QED BY <2>1, <2>2, <2>3, LocksKept
<1>25. ASSUME NEW r \in Request, Claim(r) PROVE Locks'
  <2>1. /\ \A q \in Request : q # r => req'[q] = req[q]
        /\ req'[r].pc \notin {"assign", "read"}
    BY <1>25 DEF Claim, At, Goroutines, Goroutine
  <2>2. \A s \in Session : sess'[s].lease = sess[s].lease
    BY <1>25 DEF Claim, Objects, Object
  <2>3. lock' = lock
    BY <1>25 DEF Claim, fileVars
  <2> QED BY <2>1, <2>2, <2>3, LocksKept
<1>26. ASSUME NEW r \in Request, Build(r) PROVE Locks'
  <2>1. /\ \A q \in Request : q # r => req'[q] = req[q]
        /\ req'[r].pc \notin {"assign", "read"}
    BY <1>26 DEF Build, At, Goroutines, Goroutine
  <2>2. \A s \in Session : sess'[s].lease = sess[s].lease
    BY <1>26 DEF Build, Objects, Object
  <2>3. lock' = lock
    BY <1>26 DEF Build, fileVars
  <2> QED BY <2>1, <2>2, <2>3, LocksKept
<1>27. ASSUME NEW r \in Request, BuildFails(r) PROVE Locks'
  <2>1. /\ \A q \in Request : q # r => req'[q] = req[q]
        /\ req'[r].pc \notin {"assign", "read"}
    BY <1>27, GotoMoves DEF BuildFails, At
  <2>2. \A s \in Session : sess'[s].lease = sess[s].lease
    BY <1>27 DEF BuildFails, Objects, Object
  <2>3. lock' = lock
    BY <1>27 DEF BuildFails, fileVars
  <2> QED BY <2>1, <2>2, <2>3, LocksKept
<1>28. ASSUME NEW r \in Request, Swap(r) PROVE Locks'
  <2>1. /\ \A q \in Request : q # r => req'[q] = req[q]
        /\ req'[r].pc \notin {"assign", "read"}
    BY <1>28 DEF Swap, At, Goroutines, Goroutine
  <2>2. \A s \in Session : sess'[s].lease = sess[s].lease
    BY <1>28 DEF Swap, Objects, Object
  <2>3. lock' = lock
    BY <1>28 DEF Swap, fileVars
  <2> QED BY <2>1, <2>2, <2>3, LocksKept
<1>29. ASSUME NEW r \in Request, SwapRefused(r) PROVE Locks'
  <2>1. /\ \A q \in Request : q # r => req'[q] = req[q]
        /\ req'[r].pc \notin {"assign", "read"}
    BY <1>29 DEF SwapRefused, At, Goroutines, Goroutine
  <2>2. \A s \in Session : sess'[s].lease = sess[s].lease
    BY <1>29 DEF SwapRefused, Objects, Object
  <2>3. lock' = lock
    BY <1>29 DEF SwapRefused, fileVars
  <2> QED BY <2>1, <2>2, <2>3, LocksKept
<1>30. ASSUME NEW r \in Request, Retire(r) PROVE Locks'
  <2>1. /\ \A q \in Request : q # r => req'[q] = req[q]
        /\ req'[r].pc \notin {"assign", "read"}
    BY <1>30 DEF Retire, At, Goroutines, Goroutine
  <2>2. \A s \in Session : sess'[s].lease = sess[s].lease
    BY <1>30 DEF Retire, Objects, Object
  <2>3. lock' = lock
    BY <1>30 DEF Retire, fileVars
  <2> QED BY <2>1, <2>2, <2>3, LocksKept
<1>31. ASSUME NEW r \in Request, Unwind(r) PROVE Locks'
  <2>1. /\ \A q \in Request : q # r => req'[q] = req[q]
        /\ req'[r].pc \notin {"assign", "read"}
    BY <1>31, GotoMoves DEF Unwind, At
  <2>2. \A s \in Session : sess'[s].lease = sess[s].lease
    BY <1>31 DEF Unwind, Objects, Object
  <2>3. lock' = lock
    BY <1>31 DEF Unwind, fileVars
  <2> QED BY <2>1, <2>2, <2>3, LocksKept
<1>32. ASSUME NEW r \in Request, Abandon(r) PROVE Locks'
  <2>1. /\ \A q \in Request : q # r => req'[q] = req[q]
        /\ req'[r].pc \notin {"assign", "read"}
    <3>1. CASE End(r)
      BY <3>1, EndMoves
    <3>2. CASE ~End(r)
      BY <1>32, <3>2, GotoMoves DEF Abandon, At, Goroutines, Goroutine
    <3> QED BY <3>1, <3>2
  <2>2. \A s \in Session : sess'[s].lease = sess[s].lease
    BY <1>32 DEF Abandon, Objects, Object
  <2>3. lock' = lock
    BY <1>32 DEF Abandon, fileVars
  <2> QED BY <2>1, <2>2, <2>3, LocksKept
<1>33. ASSUME NEW r \in Request, Apply(r) PROVE Locks'
  <2>1. /\ \A q \in Request : q # r => req'[q] = req[q]
        /\ req'[r].pc \notin {"assign", "read"}
    <3>1. CASE End(r)
      BY <3>1, EndMoves
    <3>2. CASE ~End(r)
      BY <1>33, <3>2, GotoMoves DEF Apply, At, Goroutines, Goroutine
    <3> QED BY <3>1, <3>2
  <2>2. \A s \in Session : sess'[s].lease = sess[s].lease
    BY <1>33 DEF Apply, Objects, Object
  <2>3. lock' = lock
    BY <1>33 DEF Apply, fileVars
  <2> QED BY <2>1, <2>2, <2>3, LocksKept
<1>34. ASSUME NEW r \in Request, Copy(r) PROVE Locks'
  <2>1. /\ \A q \in Request : q # r => req'[q] = req[q]
        /\ req'[r].pc \notin {"assign", "read"}
    <3>1. CASE End(r)
      BY <3>1, EndMoves
    <3>2. CASE ~End(r)
      BY <1>34, <3>2, GotoMoves DEF Copy, At, Goroutines, Goroutine
    <3> QED BY <3>1, <3>2
  <2>2. \A s \in Session : sess'[s].lease = sess[s].lease
    BY <1>34 DEF Copy, Objects, Object
  <2>3. lock' = lock
    BY <1>34 DEF Copy, fileVars
  <2> QED BY <2>1, <2>2, <2>3, LocksKept
<1>35. ASSUME NEW r \in Request, Drop(r) PROVE Locks'
  <2>1. /\ \A q \in Request : q # r => req'[q] = req[q]
        /\ req'[r].pc \notin {"assign", "read"}
    <3>1. CASE End(r)
      BY <3>1, EndMoves
    <3>2. CASE ~End(r)
      BY <1>35, <3>2, GotoMoves DEF Drop, At, Goroutines, Goroutine
    <3> QED BY <3>1, <3>2
  <2>2. \A s \in Session : sess'[s].lease = sess[s].lease
    BY <1>35 DEF Drop, Objects, Object
  <2>3. lock' = lock
    BY <1>35 DEF Drop, fileVars
  <2> QED BY <2>1, <2>2, <2>3, LocksKept
<1>36. ASSUME NEW r \in Request, Abort(r) PROVE Locks'
  <2>1. /\ \A q \in Request : q # r => req'[q] = req[q]
        /\ req'[r].pc \notin {"assign", "read"}
    BY <1>36, GotoMoves DEF Abort, At
  <2>2. \A s \in Session : sess'[s].lease = sess[s].lease
    BY <1>36 DEF Abort, Objects, Object
  <2>3. lock' = lock
    BY <1>36 DEF Abort, fileVars
  <2> QED BY <2>1, <2>2, <2>3, LocksKept
<1>37. ASSUME NEW r \in Request, Waited(r) PROVE Locks'
  <2>1. /\ \A q \in Request : q # r => req'[q] = req[q]
        /\ req'[r].pc \notin {"assign", "read"}
    BY <1>37, GotoMoves DEF Waited, At
  <2>2. \A s \in Session : sess'[s].lease = sess[s].lease
    BY <1>37 DEF Waited, Objects, Object
  <2>3. lock' = lock
    BY <1>37 DEF Waited, fileVars
  <2> QED BY <2>1, <2>2, <2>3, LocksKept
<1>38. ASSUME NEW r \in Request, Shut(r) PROVE Locks'
  <2>1. /\ \A q \in Request : q # r => req'[q] = req[q]
        /\ req'[r].pc \notin {"assign", "read"}
    BY <1>38, GotoMoves DEF Shut, At
  <2>2. \A s \in Session : sess'[s].lease = sess[s].lease
    BY <1>38 DEF Shut, Objects, Object
  <2>3. lock' = lock
    BY <1>38 DEF Shut, fileVars
  <2> QED BY <2>1, <2>2, <2>3, LocksKept
<1>39. ASSUME NEW r \in Request, Release(r) PROVE Locks'
  <2>1. /\ \A q \in Request : q # r => req'[q] = req[q]
        /\ req'[r].pc \notin {"assign", "read"} /\ req[r].on \in Session
        /\ \A s \in Session : s # req[r].on => sess'[s].lease = sess[s].lease
        /\ sess'[req[r].on].lease = None
        /\ sess[req[r].on].lease \in Path \cup {None}
    BY <1>39 DEF Release, On, At, Goto, End, Unserved, Goroutines, Goroutine, Objects, Object,
       Shape, Located, Detached
  <2>2. \A q \in Path : q # sess[req[r].on].lease => lock'[q] = lock[q]
    BY <1>39, <2>1 DEF Release, On, Unlock, Others
  <2>3. \A s \in Session : sess[s].lease \in Path \cup {None}
    BY DEF Objects, Object
  <2>4. \A q \in Request : req[q].at \in Path
    BY DEF Goroutines, Goroutine
  <2> QED BY <2>1, <2>2, <2>3, <2>4, Paths DEF Locks
<1>40. ASSUME NEW r \in Request, Destroy(r) PROVE Locks'
  <2>1. /\ \A q \in Request : q # r => req'[q] = req[q]
        /\ req'[r].pc \notin {"assign", "read"}
    BY <1>40 DEF Destroy, At, Goroutines, Goroutine
  <2>2. \A s \in Session : sess'[s].lease = sess[s].lease
    BY <1>40 DEF Destroy, Objects, Object
  <2>3. lock' = lock
    BY <1>40 DEF Destroy, fileVars
  <2> QED BY <2>1, <2>2, <2>3, LocksKept
<1>41. ASSUME NEW r \in Request, Erase(r) PROVE Locks'
  <2>1. /\ \A q \in Request : q # r => req'[q] = req[q]
        /\ req'[r].pc \notin {"assign", "read"}
    BY <1>41, GotoMoves DEF Erase, At
  <2>2. \A s \in Session : sess'[s].lease = sess[s].lease
    BY <1>41 DEF Erase, Objects, Object
  <2>3. lock' = lock
    BY <1>41 DEF Erase, fileVars
  <2> QED BY <2>1, <2>2, <2>3, LocksKept
<1>42. ASSUME NEW r \in Request, Twin(r) PROVE Locks'
  <2>1. /\ \A q \in Request : q # r => req'[q] = req[q]
        /\ req'[r].pc \notin {"assign", "read"}
    <3>1. CASE End(r)
      BY <3>1, EndMoves
    <3>2. CASE ~End(r)
      BY <1>42, <3>2, GotoMoves DEF Twin, At, Goroutines, Goroutine
    <3> QED BY <3>1, <3>2
  <2>2. \A s \in Session : sess'[s].lease = sess[s].lease
    BY <1>42 DEF Twin, Objects, Object
  <2>3. lock' = lock
    BY <1>42 DEF Twin, fileVars
  <2> QED BY <2>1, <2>2, <2>3, LocksKept
<1>43. ASSUME NEW r \in Request, Linger(r) PROVE Locks'
  <2>1. /\ \A q \in Request : q # r => req'[q] = req[q]
        /\ req'[r].pc \notin {"assign", "read"}
    <3>1. CASE End(r)
      BY <3>1, EndMoves
    <3>2. CASE ~End(r)
      BY <1>43, <3>2, GotoMoves DEF Linger, At, Goroutines, Goroutine
    <3> QED BY <3>1, <3>2
  <2>2. \A s \in Session : sess'[s].lease = sess[s].lease
    BY <1>43 DEF Linger, Objects, Object
  <2>3. lock' = lock
    BY <1>43 DEF Linger, fileVars
  <2> QED BY <2>1, <2>2, <2>3, LocksKept
<1>44. ASSUME NEW r \in Request, ResolveAgain(r) PROVE Locks'
  <2>1. /\ \A q \in Request : q # r => req'[q] = req[q]
        /\ req'[r].pc \notin {"assign", "read"}
    <3>1. CASE End(r)
      BY <3>1, EndMoves
    <3>2. CASE ~End(r)
      BY <1>44, <3>2, GotoMoves DEF ResolveAgain, At, Goroutines, Goroutine
    <3> QED BY <3>1, <3>2
  <2>2. \A s \in Session : sess'[s].lease = sess[s].lease
    BY <1>44 DEF ResolveAgain, Objects, Object
  <2>3. lock' = lock
    BY <1>44 DEF ResolveAgain, fileVars
  <2> QED BY <2>1, <2>2, <2>3, LocksKept
<1>45. ASSUME NEW r \in Request, Acquire(r) PROVE Locks'
  <2>1. UNCHANGED sess
    BY <1>45 DEF Acquire
  <2>2. CASE lock[req[r].at] = "free"
    <3>1. /\ \A q \in Request : q # r => req'[q] = req[q]
          /\ req'[r].at = req[r].at /\ req'[r].pc = "read"
      BY <1>45, <2>2, GotoMoves DEF Acquire
    <3>2. \A p \in Path : lock'[p] = IF p = req[r].at THEN "ours" ELSE lock[p]
      BY <1>45, <2>2 DEF Acquire, Others
    <3>3. /\ \A q \in Request : req[q].at \in Path
          /\ \A s \in Session : sess[s].lease \in Path \cup {None}
      BY DEF Goroutines, Goroutine, Objects, Object
    <3>4. /\ \A s \in Session : sess[s].lease # req[r].at
          /\ \A q \in Request : req[q].pc \in {"assign", "read"} => req[q].at # req[r].at
      BY <2>2, <3>3, Paths DEF Locks
    <3> QED BY <2>1, <3>1, <3>2, <3>3, <3>4, Paths DEF Locks
  <2>3. CASE lock[req[r].at] # "free"
    <3>1. End(r) /\ lock' = lock
      BY <1>45, <2>3 DEF Acquire
    <3>2. /\ \A q \in Request : q # r => req'[q] = req[q]
          /\ req'[r].pc \notin {"assign", "read"}
      BY <3>1, EndMoves
    <3> QED BY <2>1, <3>1, <3>2, LocksKept
  <2> QED BY <2>2, <2>3
<1>46. ASSUME NEW r \in Request, Read(r) PROVE Locks'
  <2>1. PICK c \in Ctrl, g \in Config : sess' = [sess EXCEPT ![req[r].on] = Opened(c, g, req[r].at)]
    <3>1. \A S \in SUBSET Ctrl : S # {} => (CHOOSE c \in S : TRUE) \in Ctrl
      OBVIOUS
    <3> QED BY <1>46, <3>1 DEF Read, FreeCtrls
  <2>2. req[r].on \in Session /\ req[r].pc = "read"
    BY <1>46 DEF Read, At, Shape, Located, Detached, Goroutines, Goroutine
  <2>3. /\ \A q \in Request : q # r => req'[q] = req[q]
        /\ req'[r].pc = "meta"
    BY <1>46, GotoMoves DEF Read
  <2>4. /\ sess'[req[r].on].lease = req[r].at /\ lock' = lock
        /\ \A s \in Session : s # req[r].on => sess'[s].lease = sess[s].lease
    BY <1>46, <2>1, <2>2 DEF Read, Opened, Objects, fileVars
  <2>5. \A q \in Request : req'[q].pc \in {"assign", "read"} => q # r /\ req'[q] = req[q]
         /\ req[q].at # req[r].at
    BY <2>2, <2>3 DEF Locks
  <2> QED BY <2>2, <2>4, <2>5 DEF Locks
<1>47. ASSUME NEW r \in Request, ReadFails(r) PROVE Locks'
  <2>1. /\ req[r].pc = "read" /\ UNCHANGED sess
        /\ \A q \in Request : req[q].at \in Path
        /\ \A s \in Session : sess[s].lease \in Path \cup {None}
    BY <1>47 DEF ReadFails, At, Goroutines, Goroutine, Objects, Object
  <2>2. /\ \A q \in Request : q # r => req'[q] = req[q]
        /\ req'[r].pc \notin {"assign", "read"}
    BY <1>47, EndMoves DEF ReadFails
  <2>3. \A q \in Path : q # req[r].at => lock'[q] = lock[q]
    BY <1>47 DEF ReadFails, Unlock, Others
  <2>4. \A q \in Request : req'[q].pc \in {"assign", "read"} => q # r /\ req'[q] = req[q]
         /\ req[q].at # req[r].at
    BY <2>1, <2>2 DEF Locks
  <2> QED BY <2>1, <2>3, <2>4, Paths DEF Locks
<1>48. ASSUME NEW r \in Request, LoadMeta(r) PROVE Locks'
  <2>1. /\ \A q \in Request : q # r => req'[q] = req[q]
        /\ req'[r].pc \notin {"assign", "read"}
    BY <1>48, GotoMoves DEF LoadMeta, At
  <2>2. \A s \in Session : sess'[s].lease = sess[s].lease
    BY <1>48 DEF LoadMeta, Objects, Object
  <2>3. lock' = lock
    BY <1>48 DEF LoadMeta, fileVars
  <2> QED BY <2>1, <2>2, <2>3, LocksKept
<1>49. ASSUME NEW r \in Request, LoadMetaFails(r) PROVE Locks'
  <2>1. /\ req[r].pc = "meta" /\ req[r].on \in Session /\ sess[req[r].on].lease = req[r].at
        /\ \A q \in Request : req[q].at \in Path
        /\ \A s \in Session : sess[s].lease \in Path \cup {None}
    BY <1>49 DEF LoadMetaFails, At, Shape, Located, Detached, Closing, Fresh, On, Goroutines,
       Goroutine, Objects, Object
  <2>2. /\ \A q \in Request : q # r => req'[q] = req[q]
        /\ req'[r].pc \notin {"assign", "read"}
    BY <1>49, EndMoves DEF LoadMetaFails
  <2>3. \A q \in Path : q # req[r].at => lock'[q] = lock[q]
    BY <1>49 DEF LoadMetaFails, Unlock, Others
  <2>4. /\ sess'[req[r].on].lease = None
        /\ \A s \in Session : s # req[r].on => sess'[s].lease = sess[s].lease
    BY <1>49, <2>1 DEF LoadMetaFails, Unopened, Opened, Objects
  <2>5. \A q \in Request : req'[q].pc \in {"assign", "read"} => q # r /\ req'[q] = req[q]
         /\ req[q].at # req[r].at
    BY <2>1, <2>2 DEF Locks
  <2> QED BY <2>1, <2>3, <2>4, <2>5, Paths DEF Locks
<1>50. ASSUME NEW r \in Request, Register(r) PROVE Locks'
  <2>1. /\ \A q \in Request : q # r => req'[q] = req[q]
        /\ req'[r].pc \notin {"assign", "read"}
    <3>1. CASE End(r)
      BY <3>1, EndMoves
    <3>2. CASE ~End(r)
      BY <1>50, <3>2, GotoMoves DEF Register, At, Goroutines, Goroutine
    <3> QED BY <3>1, <3>2
  <2>2. \A s \in Session : sess'[s].lease = sess[s].lease
    BY <1>50 DEF Register, Objects, Object
  <2>3. lock' = lock
    BY <1>50 DEF Register, fileVars
  <2> QED BY <2>1, <2>2, <2>3, LocksKept
<1>51. ASSUME NEW p \in Path, OtherAcquires(p) PROVE Locks'
  BY <1>51, Paths DEF OtherAcquires, Goroutines, Objects, Goroutine, Object, Others, Locks,
     fileVars, history
<1>52. ASSUME NEW p \in Path, OtherReleases(p) PROVE Locks'
  BY <1>52, Paths DEF OtherReleases, Unlock, Goroutines, Objects, Goroutine, Object, Others,
     Locks, fileVars, history
<1>53. ASSUME NEW p \in Path, Reconcile(p) PROVE Locks'
  BY <1>53, Paths DEF Reconcile, Remove, Goroutines, Objects, Goroutine, Object, Others, Locks,
     fileVars, history
<1>54. CASE Crash
  BY <1>54, Paths DEF Crash, Unserved, Unopened, Opened, At, Goroutines, Objects, Goroutine,
     Object, Others, Locks, fileVars, history
<1> QED BY <1>1, <1>2, <1>3, <1>4, <1>5, <1>6, <1>7, <1>8, <1>9, <1>10, <1>11, <1>12, <1>13,
           <1>14, <1>15, <1>16, <1>17, <1>18, <1>19, <1>20, <1>21, <1>22, <1>23, <1>24, <1>25,
           <1>26, <1>27, <1>28, <1>29, <1>30, <1>31, <1>32, <1>33, <1>34, <1>35, <1>36, <1>37,
           <1>38, <1>39, <1>40, <1>41, <1>42, <1>43, <1>44, <1>45, <1>46, <1>47, <1>48, <1>49,
           <1>50, <1>51, <1>52, <1>53, <1>54 DEF Next, Start, Continue, Turn, Save, Rebuild,
           Close, Open
-----------------------------------------------------------------------------
(***************************************************************************)
(* The controller, its transcript and the lease.                           *)
(***************************************************************************)
\* One goroutine at most is at work on a session.
LEMMA Sole ==
  ASSUME Goroutines, Objects, Shape, Work, NEW q \in Request, NEW r \in Request,
         Turning(q) \/ Rebuilding(q), Turning(r) \/ Rebuilding(r), req[q].on = req[r].on
  PROVE  q = r
<1>1. req[q].on \in Session
  BY WorksOn
<1> QED BY <1>1, Paths DEF Work, Holds, Held, On

LEMMA FollowersWork ==
  ASSUME Shape, NEW q \in Request, Following(q) \/ req[q].pc \in {"secure", "assign", "swap"}
  PROVE  Turning(q) \/ Rebuilding(q)
BY DEF Shape, Located, Following, Turning, Rebuilding, Saves

LEMMA FollowedKept ==
  ASSUME Goroutines, Objects, Others, Shape, Followed, NEW r \in Request,
         \A q \in Request : q # r => req'[q] = req[q],
         Following(r)' <=> Following(r),
         Following(r) => req'[r].on = req[r].on /\ req'[r].at = req[r].at,
         req'[r].pc \in {"secure", "assign", "redirect"} =>
             /\ req[r].pc \in {"secure", "assign", "redirect"}
             /\ req'[r].on = req[r].on /\ req'[r].to = req[r].to,
         req'[r].pc # "swap",
         \A s \in Session : sess'[s].lease = sess[s].lease /\ sess'[s].ctrl = sess[s].ctrl,
         path' = path, amiss \subseteq amiss'
  PROVE  Followed'
<1> SUFFICES ASSUME \A s \in Session : Placed(s), \A q \in Request : Follows(q)
             PROVE  (\A s \in Session : Placed(s)') /\ (\A q \in Request : Follows(q)')
  BY DEF Followed, Clean
<1>1. ASSUME NEW s \in Session PROVE Placed(s)'
  <2>1. \A q \in Request : Following(q) /\ req[q].on = s => Following(q)' /\ req'[q].on = s
    BY DEF Following
  <2> QED BY <2>1 DEF Placed
<1>2. ASSUME NEW q \in Request PROVE Follows(q)'
  <2>1. Following(q) \/ req[q].pc \in {"swap"} => req[q].on \in Session
    BY DEF Following, Shape, Located, Detached, Goroutines, Goroutine
  <2>2. CASE q # r
    BY <2>1, <2>2 DEF Follows, Following, On
  <2>3. CASE q = r
    BY <2>1, <2>3 DEF Follows, Following, On
  <2> QED BY <2>2, <2>3
<1> QED BY <1>1, <1>2

LEMMA FollowedStep ==
  ASSUME Goroutines, Objects, Others, Shape, Work, Distinct, Closing, Followed, [Next]_vars
  PROVE  Followed'
<1>1. CASE UNCHANGED vars
  BY <1>1 DEF Goroutines, Objects, Goroutine, Object, Others, Followed, Placed, Follows,
     Following, Clean, On, vars, fileVars, history
<1>2. ASSUME NEW r \in Request, Prompt(r) PROVE Followed'
  <2>1. /\ \A q \in Request : q # r => req'[q] = req[q]
        /\ Following(r)' <=> Following(r)
        /\ Following(r) => req'[r].on = req[r].on /\ req'[r].at = req[r].at
        /\ req'[r].pc \in {"secure", "assign", "redirect"} =>
              /\ req[r].pc \in {"secure", "assign", "redirect"}
              /\ req'[r].on = req[r].on /\ req'[r].to = req[r].to
        /\ req'[r].pc # "swap"
    BY <1>2 DEF Prompt, Serve, At, Following, Goroutines, Goroutine
  <2>2. \A s \in Session : sess'[s].lease = sess[s].lease /\ sess'[s].ctrl = sess[s].ctrl
    BY <1>2 DEF Prompt, Objects, Object
  <2>3. path' = path /\ amiss \subseteq amiss'
    BY <1>2 DEF Prompt, history
  <2> QED BY <2>1, <2>2, <2>3, FollowedKept
<1>3. ASSUME NEW r \in Request, SetConfig(r) PROVE Followed'
  <2>1. /\ \A q \in Request : q # r => req'[q] = req[q]
        /\ Following(r)' <=> Following(r)
        /\ Following(r) => req'[r].on = req[r].on /\ req'[r].at = req[r].at
        /\ req'[r].pc \in {"secure", "assign", "redirect"} =>
              /\ req[r].pc \in {"secure", "assign", "redirect"}
              /\ req'[r].on = req[r].on /\ req'[r].to = req[r].to
        /\ req'[r].pc # "swap"
    BY <1>3 DEF SetConfig, At, Following, Goroutines, Goroutine
  <2>2. \A s \in Session : sess'[s].lease = sess[s].lease /\ sess'[s].ctrl = sess[s].ctrl
    BY <1>3 DEF SetConfig, Objects, Object
  <2>3. path' = path /\ amiss \subseteq amiss'
    BY <1>3 DEF SetConfig, history
  <2> QED BY <2>1, <2>2, <2>3, FollowedKept
<1>4. ASSUME NEW r \in Request, Take(r) PROVE Followed'
  <2>1. /\ \A q \in Request : q # r => req'[q] = req[q]
        /\ Following(r)' <=> Following(r)
        /\ Following(r) => req'[r].on = req[r].on /\ req'[r].at = req[r].at
        /\ req'[r].pc \in {"secure", "assign", "redirect"} =>
              /\ req[r].pc \in {"secure", "assign", "redirect"}
              /\ req'[r].on = req[r].on /\ req'[r].to = req[r].to
        /\ req'[r].pc # "swap"
    BY <1>4 DEF Take, At, Following, Goroutines, Goroutine
  <2>2. \A s \in Session : sess'[s].lease = sess[s].lease /\ sess'[s].ctrl = sess[s].ctrl
    BY <1>4 DEF Take, Objects, Object
  <2>3. path' = path /\ amiss \subseteq amiss'
    BY <1>4 DEF Take, history
  <2> QED BY <2>1, <2>2, <2>3, FollowedKept
<1>5. ASSUME NEW r \in Request, DeleteClosed(r) PROVE Followed'
  <2>1. /\ \A q \in Request : q # r => req'[q] = req[q]
        /\ Following(r)' <=> Following(r)
        /\ Following(r) => req'[r].on = req[r].on /\ req'[r].at = req[r].at
        /\ req'[r].pc \in {"secure", "assign", "redirect"} =>
              /\ req[r].pc \in {"secure", "assign", "redirect"}
              /\ req'[r].on = req[r].on /\ req'[r].to = req[r].to
        /\ req'[r].pc # "swap"
    BY <1>5 DEF DeleteClosed, Serve, At, Following, Goroutines, Goroutine
  <2>2. \A s \in Session : sess'[s].lease = sess[s].lease /\ sess'[s].ctrl = sess[s].ctrl
    BY <1>5 DEF DeleteClosed, Objects, Object
  <2>3. path' = path /\ amiss \subseteq amiss'
    BY <1>5 DEF DeleteClosed, Race, history
  <2> QED BY <2>1, <2>2, <2>3, FollowedKept
<1>6. ASSUME NEW r \in Request, Load(r) PROVE Followed'
  <2>1. /\ \A q \in Request : q # r => req'[q] = req[q]
        /\ Following(r)' <=> Following(r)
        /\ Following(r) => req'[r].on = req[r].on /\ req'[r].at = req[r].at
        /\ req'[r].pc \in {"secure", "assign", "redirect"} =>
              /\ req[r].pc \in {"secure", "assign", "redirect"}
              /\ req'[r].on = req[r].on /\ req'[r].to = req[r].to
        /\ req'[r].pc # "swap"
    BY <1>6 DEF Load, At, Following, Goroutines, Goroutine
  <2>2. \A s \in Session : sess'[s].lease = sess[s].lease /\ sess'[s].ctrl = sess[s].ctrl
    BY <1>6 DEF Load, Objects, Object
  <2>3. path' = path /\ amiss \subseteq amiss'
    BY <1>6 DEF Load, history
  <2> QED BY <2>1, <2>2, <2>3, FollowedKept
<1>7. ASSUME NEW r \in Request, Begin(r) PROVE Followed'
  <2>1. /\ \A q \in Request : q # r => req'[q] = req[q]
        /\ Following(r)' <=> Following(r)
        /\ Following(r) => req'[r].on = req[r].on /\ req'[r].at = req[r].at
        /\ req'[r].pc \in {"secure", "assign", "redirect"} =>
              /\ req[r].pc \in {"secure", "assign", "redirect"}
              /\ req'[r].on = req[r].on /\ req'[r].to = req[r].to
        /\ req'[r].pc # "swap"
    BY <1>7, GotoMoves DEF Begin, At, Following
  <2>2. \A s \in Session : sess'[s].lease = sess[s].lease /\ sess'[s].ctrl = sess[s].ctrl
    BY <1>7 DEF Begin, Objects, Object
  <2>3. path' = path /\ amiss \subseteq amiss'
    BY <1>7 DEF Begin, Late, history
  <2> QED BY <2>1, <2>2, <2>3, FollowedKept
<1>8. ASSUME NEW r \in Request, BeginRefused(r) PROVE Followed'
  <2>1. /\ \A q \in Request : q # r => req'[q] = req[q]
        /\ Following(r)' <=> Following(r)
        /\ Following(r) => req'[r].on = req[r].on /\ req'[r].at = req[r].at
        /\ req'[r].pc \in {"secure", "assign", "redirect"} =>
              /\ req[r].pc \in {"secure", "assign", "redirect"}
              /\ req'[r].on = req[r].on /\ req'[r].to = req[r].to
        /\ req'[r].pc # "swap"
    <3>1. CASE End(r)
      BY <1>8, <3>1, EndMoves DEF BeginRefused, At, Following
    <3>2. CASE ~End(r)
      BY <1>8, <3>2, GotoMoves DEF BeginRefused, At, Following, Goroutines, Goroutine
    <3> QED BY <3>1, <3>2
  <2>2. \A s \in Session : sess'[s].lease = sess[s].lease /\ sess'[s].ctrl = sess[s].ctrl
    BY <1>8 DEF BeginRefused, Objects, Object
  <2>3. path' = path /\ amiss \subseteq amiss'
    BY <1>8 DEF BeginRefused, history
  <2> QED BY <2>1, <2>2, <2>3, FollowedKept
<1>9. ASSUME NEW r \in Request, Enter(r) PROVE Followed'
  <2>1. /\ \A q \in Request : q # r => req'[q] = req[q]
        /\ Following(r)' <=> Following(r)
        /\ Following(r) => req'[r].on = req[r].on /\ req'[r].at = req[r].at
        /\ req'[r].pc \in {"secure", "assign", "redirect"} =>
              /\ req[r].pc \in {"secure", "assign", "redirect"}
              /\ req'[r].on = req[r].on /\ req'[r].to = req[r].to
        /\ req'[r].pc # "swap"
    BY <1>9 DEF Enter, At, Following, Goroutines, Goroutine
  <2>2. \A s \in Session : sess'[s].lease = sess[s].lease /\ sess'[s].ctrl = sess[s].ctrl
    BY <1>9 DEF Enter, Objects, Object
  <2>3. path' = path /\ amiss \subseteq amiss'
    BY <1>9 DEF Enter, history
  <2> QED BY <2>1, <2>2, <2>3, FollowedKept
<1>10. ASSUME NEW r \in Request, Persist(r) PROVE Followed'
  <2>1. /\ \A q \in Request : q # r => req'[q] = req[q]
        /\ Following(r)' <=> Following(r)
        /\ Following(r) => req'[r].on = req[r].on /\ req'[r].at = req[r].at
        /\ req'[r].pc \in {"secure", "assign", "redirect"} =>
              /\ req[r].pc \in {"secure", "assign", "redirect"}
              /\ req'[r].on = req[r].on /\ req'[r].to = req[r].to
        /\ req'[r].pc # "swap"
    BY <1>10 DEF Persist, At, Following, Goroutines, Goroutine
  <2>2. \A s \in Session : sess'[s].lease = sess[s].lease /\ sess'[s].ctrl = sess[s].ctrl
    BY <1>10 DEF Persist, Objects, Object
  <2>3. path' = path /\ amiss \subseteq amiss'
    BY <1>10 DEF Persist, history
  <2> QED BY <2>1, <2>2, <2>3, FollowedKept
<1>11. ASSUME NEW r \in Request, Stamp(r) PROVE Followed'
  <2>1. /\ \A q \in Request : q # r => req'[q] = req[q]
        /\ Following(r)' <=> Following(r)
        /\ Following(r) => req'[r].on = req[r].on /\ req'[r].at = req[r].at
        /\ req'[r].pc \in {"secure", "assign", "redirect"} =>
              /\ req[r].pc \in {"secure", "assign", "redirect"}
              /\ req'[r].on = req[r].on /\ req'[r].to = req[r].to
        /\ req'[r].pc # "swap"
    BY <1>11, GotoMoves DEF Stamp, At, Following
  <2>2. \A s \in Session : sess'[s].lease = sess[s].lease /\ sess'[s].ctrl = sess[s].ctrl
    BY <1>11 DEF Stamp, Objects, Object
  <2>3. path' = path /\ amiss \subseteq amiss'
    BY <1>11 DEF Stamp, history
  <2> QED BY <2>1, <2>2, <2>3, FollowedKept
<1>12. ASSUME NEW r \in Request, Finish(r) PROVE Followed'
  <2>1. /\ \A q \in Request : q # r => req'[q] = req[q]
        /\ Following(r)' <=> Following(r)
        /\ Following(r) => req'[r].on = req[r].on /\ req'[r].at = req[r].at
        /\ req'[r].pc \in {"secure", "assign", "redirect"} =>
              /\ req[r].pc \in {"secure", "assign", "redirect"}
              /\ req'[r].on = req[r].on /\ req'[r].to = req[r].to
        /\ req'[r].pc # "swap"
    BY <1>12 DEF Finish, At, Following, Goroutines, Goroutine
  <2>2. \A s \in Session : sess'[s].lease = sess[s].lease /\ sess'[s].ctrl = sess[s].ctrl
    BY <1>12 DEF Finish, Objects, Object
  <2>3. path' = path /\ amiss \subseteq amiss'
    BY <1>12 DEF Finish, history
  <2> QED BY <2>1, <2>2, <2>3, FollowedKept
<1>13. ASSUME NEW r \in Request, TurnReturns(r) PROVE Followed'
  <2>1. /\ \A q \in Request : q # r => req'[q] = req[q]
        /\ Following(r)' <=> Following(r)
        /\ Following(r) => req'[r].on = req[r].on /\ req'[r].at = req[r].at
        /\ req'[r].pc \in {"secure", "assign", "redirect"} =>
              /\ req[r].pc \in {"secure", "assign", "redirect"}
              /\ req'[r].on = req[r].on /\ req'[r].to = req[r].to
        /\ req'[r].pc # "swap"
    BY <1>13 DEF TurnReturns, At, Following, Goroutines, Goroutine
  <2>2. \A s \in Session : sess'[s].lease = sess[s].lease /\ sess'[s].ctrl = sess[s].ctrl
    BY <1>13 DEF TurnReturns, Objects, Object
  <2>3. path' = path /\ amiss \subseteq amiss'
    BY <1>13 DEF TurnReturns, history
  <2> QED BY <2>1, <2>2, <2>3, FollowedKept
<1>14. ASSUME NEW r \in Request, Cancel(r) PROVE Followed'
  BY <1>14, Paths DEF Cancel, Goroutines, Objects, Goroutine, Object, Others, Followed, Placed,
     Follows, Following, Clean, On, fileVars, history
<1>15. ASSUME NEW r \in Request, Saved(r) PROVE Followed'
  <2>1. /\ \A q \in Request : q # r => req'[q] = req[q]
        /\ Following(r)' <=> Following(r)
        /\ Following(r) => req'[r].on = req[r].on /\ req'[r].at = req[r].at
        /\ req'[r].pc \in {"secure", "assign", "redirect"} =>
              /\ req[r].pc \in {"secure", "assign", "redirect"}
              /\ req'[r].on = req[r].on /\ req'[r].to = req[r].to
        /\ req'[r].pc # "swap"
    <3>1. req[r].pc = "save" /\ req[r].phase \in {"turn", "persist", "rebuild"}
      BY <1>15 DEF Saved, At, Shape, Located, Saves
    <3>2. PICK p \in {"persist", "stamp", "build", "abandon"} : Goto(r, p)
      BY <1>15, <3>1, BackIs DEF Saved
    <3> QED BY <3>1, <3>2, GotoMoves DEF Following
  <2>2. \A s \in Session : sess'[s].lease = sess[s].lease /\ sess'[s].ctrl = sess[s].ctrl
    BY <1>15 DEF Saved, Objects, Object
  <2>3. path' = path /\ amiss \subseteq amiss'
    BY <1>15 DEF Saved, history
  <2> QED BY <2>1, <2>2, <2>3, FollowedKept
<1>16. ASSUME NEW r \in Request, NotSaved(r) PROVE Followed'
  <2>1. /\ \A q \in Request : q # r => req'[q] = req[q]
        /\ Following(r)' <=> Following(r)
        /\ Following(r) => req'[r].on = req[r].on /\ req'[r].at = req[r].at
        /\ req'[r].pc \in {"secure", "assign", "redirect"} =>
              /\ req[r].pc \in {"secure", "assign", "redirect"}
              /\ req'[r].on = req[r].on /\ req'[r].to = req[r].to
        /\ req'[r].pc # "swap"
    <3>1. req[r].pc = "save" /\ req[r].phase \in {"turn", "persist", "rebuild"}
      BY <1>16 DEF NotSaved, At, Shape, Located, Saves
    <3>2. PICK p \in {"persist", "stamp", "build", "abandon"} : Goto(r, p)
      BY <1>16, <3>1, BackIs DEF NotSaved
    <3> QED BY <3>1, <3>2, GotoMoves DEF Following
  <2>2. \A s \in Session : sess'[s].lease = sess[s].lease /\ sess'[s].ctrl = sess[s].ctrl
    BY <1>16 DEF NotSaved, Objects, Object
  <2>3. path' = path /\ amiss \subseteq amiss'
    BY <1>16 DEF NotSaved, history
  <2> QED BY <2>1, <2>2, <2>3, FollowedKept
<1>17. ASSUME NEW r \in Request, Recover(r) PROVE Followed'
  <2>1. /\ \A q \in Request : q # r => req'[q] = req[q]
        /\ Following(r)' <=> Following(r)
        /\ Following(r) => req'[r].on = req[r].on /\ req'[r].at = req[r].at
        /\ req'[r].pc \in {"secure", "assign", "redirect"} =>
              /\ req[r].pc \in {"secure", "assign", "redirect"}
              /\ req'[r].on = req[r].on /\ req'[r].to = req[r].to
        /\ req'[r].pc # "swap"
    BY <1>17 DEF Recover, At, Following, Goroutines, Goroutine
  <2>2. \A s \in Session : sess'[s].lease = sess[s].lease /\ sess'[s].ctrl = sess[s].ctrl
    BY <1>17 DEF Recover, Objects, Object
  <2>3. path' = path /\ amiss \subseteq amiss'
    BY <1>17 DEF Recover, history
  <2> QED BY <2>1, <2>2, <2>3, FollowedKept
<1>18. ASSUME NEW r \in Request, Follow(r) PROVE Followed'
  <2>1. amiss \subseteq amiss'
    BY <1>18 DEF Follow
  <2> SUFFICES ASSUME Clean({"late", "unfollowed"})', \A s \in Session : Placed(s),
                       \A q \in Request : Follows(q),
                      \A q \in Request : Awaits(q), \A s \in Session : Served(s)
               PROVE  (\A s \in Session : Placed(s)') /\ (\A q \in Request : Follows(q)')
    BY <2>1 DEF Followed, Closing, Clean
  <2>2. \A q \in Request : Following(q) \/ req[q].pc \in {"secure", "assign", "swap"} =>
            (Turning(q) \/ Rebuilding(q)) /\ req[q].on \in Session
    BY FollowersWork, WorksOn
  <2>3. /\ \A q \in Request : q # r => req'[q] = req[q]
        /\ req[r].pc = "follow" /\ req'[r].to = live /\ req'[r].on = req[r].on
        /\ req'[r].pc = IF live = None THEN "commit" ELSE "secure"
        /\ UNCHANGED <<sess, path>>
    BY <1>18 DEF Follow, At, Goroutines, Goroutine
  <2>4. live = req[r].on /\ live # None
    BY <1>18, <2>3 DEF Follow, Clean, Shape, Located, Detached
  <2>5. Following(r)' <=> Following(r)
    BY <2>3, <2>4 DEF Following
  <2>6. ASSUME NEW s \in Session PROVE Placed(s)'
    <3>1. \A q \in Request : Following(q) /\ req[q].on = s => Following(q)' /\ req'[q].on = s
      BY <2>3, <2>5 DEF Following
    <3> QED BY <2>3, <3>1 DEF Placed
  <2>7. ASSUME NEW q \in Request PROVE Follows(q)'
    BY <2>3, <2>4, <2>5 DEF Follows, Following, On
  <2> QED BY <2>6, <2>7
<1>19. ASSUME NEW r \in Request, Secure(r) PROVE Followed'
  <2>1. /\ \A q \in Request : q # r => req'[q] = req[q]
        /\ Following(r)' <=> Following(r)
        /\ Following(r) => req'[r].on = req[r].on /\ req'[r].at = req[r].at
        /\ req'[r].pc \in {"secure", "assign", "redirect"} =>
              /\ req[r].pc \in {"secure", "assign", "redirect"}
              /\ req'[r].on = req[r].on /\ req'[r].to = req[r].to
        /\ req'[r].pc # "swap"
    <3>1. req[r].pc = "secure" /\ req[r].phase \in {"turn", "persist", "rebuild"}
      BY <1>19 DEF Secure, At, Shape, Located, Saves
    <3>2. PICK p \in {"persist", "stamp", "build", "abandon", "assign"} : Goto(r, p)
      BY <1>19, <3>1, BackIs DEF Secure
    <3> QED BY <3>1, <3>2, GotoMoves DEF Following
  <2>2. \A s \in Session : sess'[s].lease = sess[s].lease /\ sess'[s].ctrl = sess[s].ctrl
    BY <1>19 DEF Secure, Objects, Object
  <2>3. path' = path /\ amiss \subseteq amiss'
    BY <1>19 DEF Secure, history
  <2> QED BY <2>1, <2>2, <2>3, FollowedKept
<1>20. ASSUME NEW r \in Request, Assign(r) PROVE Followed'
  <2>1. amiss \subseteq amiss'
    BY <1>20 DEF Assign
  <2> SUFFICES ASSUME Clean({"late", "unfollowed"})', \A s \in Session : Placed(s),
                       \A q \in Request : Follows(q),
                      \A q \in Request : Awaits(q), \A s \in Session : Served(s)
               PROVE  (\A s \in Session : Placed(s)') /\ (\A q \in Request : Follows(q)')
    BY <2>1 DEF Followed, Closing, Clean
  <2>2. \A q \in Request : Following(q) \/ req[q].pc \in {"secure", "assign", "swap"} =>
            (Turning(q) \/ Rebuilding(q)) /\ req[q].on \in Session
    BY FollowersWork, WorksOn
  <2>3. /\ req[r].to = req[r].on /\ req[r].on \in Session /\ req[r].pc = "assign"
        /\ req[r].phase \in {"turn", "persist", "rebuild"} /\ req[r].at # None
    BY <1>20, <2>2, Paths DEF Assign, At, Follows, Shape, Located, Saves, Goroutines, Goroutine
  <2>4. CASE sess[req[r].to].deleted
    <3>1. PICK p \in {"persist", "stamp", "build", "abandon"} : Goto(r, p)
      BY <1>20, <2>3, <2>4, BackIs DEF Assign
    <3>2. UNCHANGED <<sess, path>>
      BY <1>20, <2>4 DEF Assign
    <3>3. /\ \A q \in Request : q # r => req'[q] = req[q]
          /\ req'[r].pc = p
      BY <3>1, GotoMoves
    <3>4. ASSUME NEW s \in Session PROVE Placed(s)'
      <4>1. \A q \in Request : Following(q) /\ req[q].on = s => Following(q)' /\ req'[q].on = s
        BY <2>3, <3>3 DEF Following
      <4> QED BY <3>2, <4>1 DEF Placed
    <3>5. ASSUME NEW q \in Request PROVE Follows(q)'
      BY <3>2, <3>3 DEF Follows, Following, On
    <3> QED BY <3>4, <3>5
  <2>5. CASE ~sess[req[r].to].deleted
    <3>1. /\ \A q \in Request : q # r => req'[q] = req[q]
          /\ req'[r].pc = "redirect" /\ req'[r].on = req[r].on /\ req'[r].at = req[r].at
              /\ req'[r].to = req[r].to
      BY <1>20, <2>5, GotoMoves DEF Assign
    <3>2. /\ sess'[req[r].on].lease = req[r].at
          /\ \A s \in Session : s # req[r].on => sess'[s] = sess[s]
          /\ path' = path
      BY <1>20, <2>3, <2>5 DEF Assign, MoveTo, Objects, Object
    <3>3. ASSUME NEW q \in Request, q # r, Following(q) \/ req[q].pc = "swap"
                  PROVE req[q].on # req[r].on
      BY <2>2, <2>3, <3>3, Sole
    <3>4. ASSUME NEW s \in Session PROVE Placed(s)'
      <4>1. CASE s = req[r].on
        BY <3>1, <4>1 DEF Placed, Following
      <4>2. CASE s # req[r].on
        <5>1. \A q \in Request : Following(q) /\ req[q].on = s => Following(q)' /\ req'[q].on = s
          BY <3>1, <4>2 DEF Following
        <5> QED BY <3>2, <4>2, <5>1 DEF Placed
      <4> QED BY <4>1, <4>2
    <3>5. ASSUME NEW q \in Request PROVE Follows(q)'
      <4>1. CASE q = r
        BY <2>3, <3>1, <3>2, <4>1 DEF Follows, Following, On
      <4>2. CASE q # r
        BY <2>2, <3>1, <3>2, <3>3, <4>2 DEF Follows, Following, On
      <4> QED BY <4>1, <4>2
    <3> QED BY <3>4, <3>5
  <2> QED BY <2>4, <2>5
<1>21. ASSUME NEW r \in Request, Redirect(r) PROVE Followed'
  <2>1. /\ \A q \in Request : q # r => req'[q] = req[q]
        /\ Following(r)' <=> Following(r)
        /\ Following(r) => req'[r].on = req[r].on /\ req'[r].at = req[r].at
        /\ req'[r].pc \in {"secure", "assign", "redirect"} =>
              /\ req[r].pc \in {"secure", "assign", "redirect"}
              /\ req'[r].on = req[r].on /\ req'[r].to = req[r].to
        /\ req'[r].pc # "swap"
    BY <1>21, GotoMoves DEF Redirect, At, Following
  <2>2. \A s \in Session : sess'[s].lease = sess[s].lease /\ sess'[s].ctrl = sess[s].ctrl
    BY <1>21 DEF Redirect, Objects, Object
  <2>3. path' = path /\ amiss \subseteq amiss'
    BY <1>21 DEF Redirect, history
  <2> QED BY <2>1, <2>2, <2>3, FollowedKept
<1>22. ASSUME NEW r \in Request, Commit(r) PROVE Followed'
  <2>1. amiss \subseteq amiss'
    BY <1>22 DEF Commit, history
  <2> SUFFICES ASSUME Clean({"late", "unfollowed"})', \A s \in Session : Placed(s),
                       \A q \in Request : Follows(q),
                      \A q \in Request : Awaits(q), \A s \in Session : Served(s)
               PROVE  (\A s \in Session : Placed(s)') /\ (\A q \in Request : Follows(q)')
    BY <2>1 DEF Followed, Closing, Clean
  <2>2. \A q \in Request : Following(q) \/ req[q].pc \in {"secure", "assign", "swap"} =>
            (Turning(q) \/ Rebuilding(q)) /\ req[q].on \in Session
    BY FollowersWork, WorksOn
  <2>3. /\ req[r].pc = "commit" /\ Following(r) /\ req[r].phase \in {"turn", "persist", "rebuild"}
        /\ req[r].on \in Session /\ UNCHANGED sess
    BY <1>22, <2>2 DEF Commit, At, Following, Shape, Located, Saves
  <2>4. req[r].ctrl = sess[req[r].on].ctrl /\ req[r].ctrl \in Ctrl
    BY <2>3, Saver DEF Saves, On, Shape, Located, Goroutines, Goroutine
  <2>5. PICK p \in {"persist", "stamp", "build", "abandon"} : Goto(r, p)
    BY <1>22, <2>3, BackIs DEF Commit
  <2>6. /\ \A q \in Request : q # r => req'[q] = req[q]
        /\ req'[r].pc = p
    BY <2>5, GotoMoves
  <2>7. path'[req[r].ctrl] = req[r].at /\ \A c \in Ctrl : c # req[r].ctrl => path'[c] = path[c]
    BY <1>22, <2>4 DEF Commit, Others
  <2>8. ASSUME NEW s \in Session, sess[s].lease # None, \A q \in Request : Following(q)' =>
                req'[q].on # s
        PROVE  path'[sess[s].ctrl] = sess[s].lease
    <3>1. CASE s = req[r].on
      BY <2>3, <2>4, <2>7, <3>1 DEF Follows, On
    <3>2. CASE s # req[r].on
      <4>1. sess[s].ctrl # req[r].ctrl
        BY <2>3, <2>4, <3>2, Paths DEF Distinct
      <4>2. \A q \in Request : Following(q) => req[q].on # s
        BY <2>6, <2>8, <3>2 DEF Following
      <4>3. path'[sess[s].ctrl] = path[sess[s].ctrl]
        BY <1>22, <4>1, <2>4 DEF Commit, Others, Objects, Object
      <4> QED BY <2>8, <4>2, <4>3 DEF Placed
    <3> QED BY <3>1, <3>2
  <2>9. ASSUME NEW q \in Request PROVE Follows(q)'
    <3>1. req[q].pc = "swap" => req[q].next \in Ctrl /\ req[q].next # req[r].ctrl
      BY DEF Shape, Located, Distinct, Goroutines, Goroutine
    <3> QED BY <2>3, <2>6, <2>7, <3>1 DEF Follows, Following, On
  <2> QED BY <2>3, <2>8, <2>9 DEF Placed
<1>23. ASSUME NEW r \in Request, ClaimRefused(r) PROVE Followed'
  <2>1. /\ \A q \in Request : q # r => req'[q] = req[q]
        /\ Following(r)' <=> Following(r)
        /\ Following(r) => req'[r].on = req[r].on /\ req'[r].at = req[r].at
        /\ req'[r].pc \in {"secure", "assign", "redirect"} =>
              /\ req[r].pc \in {"secure", "assign", "redirect"}
              /\ req'[r].on = req[r].on /\ req'[r].to = req[r].to
        /\ req'[r].pc # "swap"
    <3>1. CASE End(r)
      BY <1>23, <3>1, EndMoves DEF ClaimRefused, At, Following
    <3>2. CASE ~End(r)
      BY <1>23, <3>2, GotoMoves DEF ClaimRefused, Fail, At, Following, Goroutines, Goroutine
    <3> QED BY <3>1, <3>2
  <2>2. \A s \in Session : sess'[s].lease = sess[s].lease /\ sess'[s].ctrl = sess[s].ctrl
    BY <1>23 DEF ClaimRefused, Objects, Object
  <2>3. path' = path /\ amiss \subseteq amiss'
    BY <1>23 DEF ClaimRefused, history
  <2> QED BY <2>1, <2>2, <2>3, FollowedKept
<1>24. ASSUME NEW r \in Request, Queue(r) PROVE Followed'
  <2>1. /\ \A q \in Request : q # r => req'[q] = req[q]
        /\ Following(r)' <=> Following(r)
        /\ Following(r) => req'[r].on = req[r].on /\ req'[r].at = req[r].at
        /\ req'[r].pc \in {"secure", "assign", "redirect"} =>
              /\ req[r].pc \in {"secure", "assign", "redirect"}
              /\ req'[r].on = req[r].on /\ req'[r].to = req[r].to
        /\ req'[r].pc # "swap"
    <3>1. CASE End(r)
      BY <1>24, <3>1, EndMoves DEF Queue, At, Following
    <3>2. CASE ~End(r)
      BY <1>24, <3>2, GotoMoves DEF Queue, At, Following, Goroutines, Goroutine
    <3> QED BY <3>1, <3>2
  <2>2. \A s \in Session : sess'[s].lease = sess[s].lease /\ sess'[s].ctrl = sess[s].ctrl
    BY <1>24 DEF Queue, Objects, Object
  <2>3. path' = path /\ amiss \subseteq amiss'
    BY <1>24 DEF Queue, Chosen, history
  <2> QED BY <2>1, <2>2, <2>3, FollowedKept
<1>25. ASSUME NEW r \in Request, Claim(r) PROVE Followed'
  <2>1. /\ \A q \in Request : q # r => req'[q] = req[q]
        /\ Following(r)' <=> Following(r)
        /\ Following(r) => req'[r].on = req[r].on /\ req'[r].at = req[r].at
        /\ req'[r].pc \in {"secure", "assign", "redirect"} =>
              /\ req[r].pc \in {"secure", "assign", "redirect"}
              /\ req'[r].on = req[r].on /\ req'[r].to = req[r].to
        /\ req'[r].pc # "swap"
    BY <1>25 DEF Claim, At, Following, Goroutines, Goroutine
  <2>2. \A s \in Session : sess'[s].lease = sess[s].lease /\ sess'[s].ctrl = sess[s].ctrl
    BY <1>25 DEF Claim, Objects, Object
  <2>3. path' = path /\ amiss \subseteq amiss'
    BY <1>25 DEF Claim, Chosen, history
  <2> QED BY <2>1, <2>2, <2>3, FollowedKept
<1>26. ASSUME NEW r \in Request, Build(r) PROVE Followed'
  <2>1. amiss \subseteq amiss'
    BY <1>26 DEF Build, history
  <2> SUFFICES ASSUME Clean({"late", "unfollowed"})', \A s \in Session : Placed(s),
                       \A q \in Request : Follows(q),
                      \A q \in Request : Awaits(q), \A s \in Session : Served(s)
               PROVE  (\A s \in Session : Placed(s)') /\ (\A q \in Request : Follows(q)')
    BY <2>1 DEF Followed, Closing, Clean
  <2>2. \A q \in Request : Following(q) \/ req[q].pc \in {"secure", "assign", "swap"} =>
            (Turning(q) \/ Rebuilding(q)) /\ req[q].on \in Session
    BY FollowersWork, WorksOn
  <2>3. PICK c \in FreeCtrls :
           /\ path' = [path EXCEPT ![c] = path[req[r].ctrl]]
           /\ req' = [req EXCEPT ![r].pc = "swap", ![r].next = c]
    <3>1. \A S \in SUBSET Ctrl : S # {} => (CHOOSE c \in S : TRUE) \in S
      OBVIOUS
    <3>2. FreeCtrls \in SUBSET Ctrl
      BY DEF FreeCtrls
    <3> QED BY <1>26, <3>1, <3>2 DEF Build
  <2>4. c \in Ctrl /\ (\A s \in Session : sess[s].ctrl # c) /\ (\A q \in Request : req[q].ctrl # c
         /\ req[q].next # c)
    BY DEF FreeCtrls
  <2>5. /\ \A q \in Request : q # r => req'[q] = req[q]
        /\ req'[r].pc = "swap" /\ req'[r].on = req[r].on /\ req'[r].next = c
        /\ req[r].pc = "build" /\ UNCHANGED sess
    BY <1>26, <2>3 DEF Build, At, Goroutines, Goroutine
  <2>6. Rebuilding(r) /\ req[r].on \in Session
    BY <2>5, WorksOn DEF Rebuilding
  <2>7. req[r].ctrl = sess[req[r].on].ctrl /\ req[r].ctrl \in Ctrl
    BY <2>5, <2>6 DEF Work, Holds, On, Shape, Located, Goroutines, Goroutine
  <2>8. sess[req[r].on].lease # None
    BY <2>6, Paths DEF Served, Idle, Work, Holds, On
  <2>9. path[req[r].ctrl] = sess[req[r].on].lease
    <3>1. \A q \in Request : Following(q) => req[q].on # req[r].on
      <4>1. ASSUME NEW q \in Request, Following(q), req[q].on = req[r].on PROVE FALSE
        <5>1. q = r
          BY <2>2, <2>6, <4>1, Sole
        <5> QED BY <2>5, <4>1, <5>1 DEF Following
      <4> QED BY <4>1
    <3> QED BY <2>6, <2>7, <2>8, <3>1 DEF Placed
  <2>10. path'[c] = sess[req[r].on].lease /\ \A x : x \in Ctrl /\ x # c => path'[x] = path[x]
    BY <2>3, <2>4, <2>9 DEF Others
  <2>11. ASSUME NEW s \in Session PROVE Placed(s)'
    <3>1. \A q \in Request : Following(q) /\ req[q].on = s => Following(q)' /\ req'[q].on = s
      BY <2>5 DEF Following
    <3>2. path'[sess[s].ctrl] = path[sess[s].ctrl]
      BY <2>3, <2>4 DEF Others, Objects, Object
    <3> QED BY <2>5, <3>1, <3>2 DEF Placed
  <2>12. ASSUME NEW q \in Request PROVE Follows(q)'
    <3>1. CASE q = r
      BY <2>5, <2>10, <3>1 DEF Follows, Following, On
    <3>2. CASE q # r
      <4>1. req[q].pc = "swap" => req[q].next \in Ctrl
        BY DEF Shape, Located, Goroutines, Goroutine
      <4> QED BY <2>4, <2>5, <2>10, <3>2, <4>1 DEF Follows, Following, On
    <3> QED BY <3>1, <3>2
  <2> QED BY <2>11, <2>12
<1>27. ASSUME NEW r \in Request, BuildFails(r) PROVE Followed'
  <2>1. /\ \A q \in Request : q # r => req'[q] = req[q]
        /\ Following(r)' <=> Following(r)
        /\ Following(r) => req'[r].on = req[r].on /\ req'[r].at = req[r].at
        /\ req'[r].pc \in {"secure", "assign", "redirect"} =>
              /\ req[r].pc \in {"secure", "assign", "redirect"}
              /\ req'[r].on = req[r].on /\ req'[r].to = req[r].to
        /\ req'[r].pc # "swap"
    BY <1>27, GotoMoves DEF BuildFails, At, Following
  <2>2. \A s \in Session : sess'[s].lease = sess[s].lease /\ sess'[s].ctrl = sess[s].ctrl
    BY <1>27 DEF BuildFails, Objects, Object
  <2>3. path' = path /\ amiss \subseteq amiss'
    BY <1>27 DEF BuildFails, history
  <2> QED BY <2>1, <2>2, <2>3, FollowedKept
<1>28. ASSUME NEW r \in Request, Swap(r) PROVE Followed'
  <2>1. amiss \subseteq amiss'
    BY <1>28 DEF Swap, history
  <2> SUFFICES ASSUME Clean({"late", "unfollowed"})', \A s \in Session : Placed(s),
                       \A q \in Request : Follows(q),
                      \A q \in Request : Awaits(q), \A s \in Session : Served(s)
               PROVE  (\A s \in Session : Placed(s)') /\ (\A q \in Request : Follows(q)')
    BY <2>1 DEF Followed, Closing, Clean
  <2>2. \A q \in Request : Following(q) \/ req[q].pc \in {"secure", "assign", "swap"} =>
            (Turning(q) \/ Rebuilding(q)) /\ req[q].on \in Session
    BY FollowersWork, WorksOn
  <2>3. /\ \A q \in Request : q # r => req'[q] = req[q]
        /\ req'[r].pc = "retire" /\ req'[r].on = req[r].on /\ req[r].pc = "swap" /\ path' = path
    BY <1>28 DEF Swap, At, Goroutines, Goroutine
  <2>4. req[r].on \in Session
    BY <2>2, <2>3
  <2>5. /\ \A s \in Session : sess'[s].lease = sess[s].lease /\ (s # req[r].on => sess'[s] = sess[s])
        /\ sess'[req[r].on].ctrl = req[r].next
    BY <1>28, <2>4 DEF Swap, Objects, Object
  <2>6. ASSUME NEW s \in Session PROVE Placed(s)'
    <3>1. CASE s = req[r].on
      BY <2>3, <2>5, <3>1 DEF Placed, Follows, On
    <3>2. CASE s # req[r].on
      <4>1. \A q \in Request : Following(q) /\ req[q].on = s => Following(q)' /\ req'[q].on = s
        BY <2>3, <3>2 DEF Following
      <4> QED BY <2>3, <2>5, <3>2, <4>1 DEF Placed
    <3> QED BY <3>1, <3>2
  <2>7. ASSUME NEW q \in Request PROVE Follows(q)'
    BY <2>2, <2>3, <2>5 DEF Follows, Following, On
  <2> QED BY <2>6, <2>7
<1>29. ASSUME NEW r \in Request, SwapRefused(r) PROVE Followed'
  <2>1. /\ \A q \in Request : q # r => req'[q] = req[q]
        /\ Following(r)' <=> Following(r)
        /\ Following(r) => req'[r].on = req[r].on /\ req'[r].at = req[r].at
        /\ req'[r].pc \in {"secure", "assign", "redirect"} =>
              /\ req[r].pc \in {"secure", "assign", "redirect"}
              /\ req'[r].on = req[r].on /\ req'[r].to = req[r].to
        /\ req'[r].pc # "swap"
    BY <1>29 DEF SwapRefused, At, Following, Goroutines, Goroutine
  <2>2. \A s \in Session : sess'[s].lease = sess[s].lease /\ sess'[s].ctrl = sess[s].ctrl
    BY <1>29 DEF SwapRefused, Objects, Object
  <2>3. path' = path /\ amiss \subseteq amiss'
    BY <1>29 DEF SwapRefused, history
  <2> QED BY <2>1, <2>2, <2>3, FollowedKept
<1>30. ASSUME NEW r \in Request, Retire(r) PROVE Followed'
  <2>1. /\ \A q \in Request : q # r => req'[q] = req[q]
        /\ Following(r)' <=> Following(r)
        /\ Following(r) => req'[r].on = req[r].on /\ req'[r].at = req[r].at
        /\ req'[r].pc \in {"secure", "assign", "redirect"} =>
              /\ req[r].pc \in {"secure", "assign", "redirect"}
              /\ req'[r].on = req[r].on /\ req'[r].to = req[r].to
        /\ req'[r].pc # "swap"
    BY <1>30 DEF Retire, At, Following, Goroutines, Goroutine
  <2>2. \A s \in Session : sess'[s].lease = sess[s].lease /\ sess'[s].ctrl = sess[s].ctrl
    BY <1>30 DEF Retire, Objects, Object
  <2>3. path' = path /\ amiss \subseteq amiss'
    BY <1>30 DEF Retire, history
  <2> QED BY <2>1, <2>2, <2>3, FollowedKept
<1>31. ASSUME NEW r \in Request, Unwind(r) PROVE Followed'
  <2>1. /\ \A q \in Request : q # r => req'[q] = req[q]
        /\ Following(r)' <=> Following(r)
        /\ Following(r) => req'[r].on = req[r].on /\ req'[r].at = req[r].at
        /\ req'[r].pc \in {"secure", "assign", "redirect"} =>
              /\ req[r].pc \in {"secure", "assign", "redirect"}
              /\ req'[r].on = req[r].on /\ req'[r].to = req[r].to
        /\ req'[r].pc # "swap"
    BY <1>31, GotoMoves DEF Unwind, At, Following
  <2>2. \A s \in Session : sess'[s].lease = sess[s].lease /\ sess'[s].ctrl = sess[s].ctrl
    BY <1>31 DEF Unwind, Objects, Object
  <2>3. path' = path /\ amiss \subseteq amiss'
    BY <1>31 DEF Unwind, history
  <2> QED BY <2>1, <2>2, <2>3, FollowedKept
<1>32. ASSUME NEW r \in Request, Abandon(r) PROVE Followed'
  <2>1. /\ \A q \in Request : q # r => req'[q] = req[q]
        /\ Following(r)' <=> Following(r)
        /\ Following(r) => req'[r].on = req[r].on /\ req'[r].at = req[r].at
        /\ req'[r].pc \in {"secure", "assign", "redirect"} =>
              /\ req[r].pc \in {"secure", "assign", "redirect"}
              /\ req'[r].on = req[r].on /\ req'[r].to = req[r].to
        /\ req'[r].pc # "swap"
    <3>1. CASE End(r)
      BY <1>32, <3>1, EndMoves DEF Abandon, At, Following
    <3>2. CASE ~End(r)
      BY <1>32, <3>2, GotoMoves DEF Abandon, At, Following, Goroutines, Goroutine
    <3> QED BY <3>1, <3>2
  <2>2. \A s \in Session : sess'[s].lease = sess[s].lease /\ sess'[s].ctrl = sess[s].ctrl
    BY <1>32 DEF Abandon, Objects, Object
  <2>3. path' = path /\ amiss \subseteq amiss'
    BY <1>32 DEF Abandon, Void, history
  <2> QED BY <2>1, <2>2, <2>3, FollowedKept
<1>33. ASSUME NEW r \in Request, Apply(r) PROVE Followed'
  <2>1. /\ \A q \in Request : q # r => req'[q] = req[q]
        /\ Following(r)' <=> Following(r)
        /\ Following(r) => req'[r].on = req[r].on /\ req'[r].at = req[r].at
        /\ req'[r].pc \in {"secure", "assign", "redirect"} =>
              /\ req[r].pc \in {"secure", "assign", "redirect"}
              /\ req'[r].on = req[r].on /\ req'[r].to = req[r].to
        /\ req'[r].pc # "swap"
    <3>1. CASE End(r)
      BY <1>33, <3>1, EndMoves DEF Apply, At, Following
    <3>2. CASE ~End(r)
      BY <1>33, <3>2, GotoMoves DEF Apply, At, Following, Goroutines, Goroutine
    <3> QED BY <3>1, <3>2
  <2>2. \A s \in Session : sess'[s].lease = sess[s].lease /\ sess'[s].ctrl = sess[s].ctrl
    BY <1>33 DEF Apply, Objects, Object
  <2>3. path' = path /\ amiss \subseteq amiss'
    BY <1>33 DEF Apply, history
  <2> QED BY <2>1, <2>2, <2>3, FollowedKept
<1>34. ASSUME NEW r \in Request, Copy(r) PROVE Followed'
  <2>1. /\ \A q \in Request : q # r => req'[q] = req[q]
        /\ Following(r)' <=> Following(r)
        /\ Following(r) => req'[r].on = req[r].on /\ req'[r].at = req[r].at
        /\ req'[r].pc \in {"secure", "assign", "redirect"} =>
              /\ req[r].pc \in {"secure", "assign", "redirect"}
              /\ req'[r].on = req[r].on /\ req'[r].to = req[r].to
        /\ req'[r].pc # "swap"
    <3>1. CASE End(r)
      BY <1>34, <3>1, EndMoves DEF Copy, At, Following
    <3>2. CASE ~End(r)
      BY <1>34, <3>2, GotoMoves DEF Copy, At, Following, Goroutines, Goroutine
    <3> QED BY <3>1, <3>2
  <2>2. \A s \in Session : sess'[s].lease = sess[s].lease /\ sess'[s].ctrl = sess[s].ctrl
    BY <1>34 DEF Copy, Objects, Object
  <2>3. path' = path /\ amiss \subseteq amiss'
    BY <1>34 DEF Copy, history
  <2> QED BY <2>1, <2>2, <2>3, FollowedKept
<1>35. ASSUME NEW r \in Request, Drop(r) PROVE Followed'
  <2>1. /\ \A q \in Request : q # r => req'[q] = req[q]
        /\ Following(r)' <=> Following(r)
        /\ Following(r) => req'[r].on = req[r].on /\ req'[r].at = req[r].at
        /\ req'[r].pc \in {"secure", "assign", "redirect"} =>
              /\ req[r].pc \in {"secure", "assign", "redirect"}
              /\ req'[r].on = req[r].on /\ req'[r].to = req[r].to
        /\ req'[r].pc # "swap"
    <3>1. CASE End(r)
      BY <1>35, <3>1, EndMoves DEF Drop, At, Following
    <3>2. CASE ~End(r)
      BY <1>35, <3>2, GotoMoves DEF Drop, At, Following, Goroutines, Goroutine
    <3> QED BY <3>1, <3>2
  <2>2. \A s \in Session : sess'[s].lease = sess[s].lease /\ sess'[s].ctrl = sess[s].ctrl
    BY <1>35 DEF Drop, Objects, Object
  <2>3. path' = path /\ amiss \subseteq amiss'
    BY <1>35 DEF Drop, Void, history
  <2> QED BY <2>1, <2>2, <2>3, FollowedKept
<1>36. ASSUME NEW r \in Request, Abort(r) PROVE Followed'
  <2>1. /\ \A q \in Request : q # r => req'[q] = req[q]
        /\ Following(r)' <=> Following(r)
        /\ Following(r) => req'[r].on = req[r].on /\ req'[r].at = req[r].at
        /\ req'[r].pc \in {"secure", "assign", "redirect"} =>
              /\ req[r].pc \in {"secure", "assign", "redirect"}
              /\ req'[r].on = req[r].on /\ req'[r].to = req[r].to
        /\ req'[r].pc # "swap"
    BY <1>36, GotoMoves DEF Abort, At, Following
  <2>2. \A s \in Session : sess'[s].lease = sess[s].lease /\ sess'[s].ctrl = sess[s].ctrl
    BY <1>36 DEF Abort, Objects, Object
  <2>3. path' = path /\ amiss \subseteq amiss'
    BY <1>36 DEF Abort, history
  <2> QED BY <2>1, <2>2, <2>3, FollowedKept
<1>37. ASSUME NEW r \in Request, Waited(r) PROVE Followed'
  <2>1. /\ \A q \in Request : q # r => req'[q] = req[q]
        /\ Following(r)' <=> Following(r)
        /\ Following(r) => req'[r].on = req[r].on /\ req'[r].at = req[r].at
        /\ req'[r].pc \in {"secure", "assign", "redirect"} =>
              /\ req[r].pc \in {"secure", "assign", "redirect"}
              /\ req'[r].on = req[r].on /\ req'[r].to = req[r].to
        /\ req'[r].pc # "swap"
    BY <1>37, GotoMoves DEF Waited, At, Following
  <2>2. \A s \in Session : sess'[s].lease = sess[s].lease /\ sess'[s].ctrl = sess[s].ctrl
    BY <1>37 DEF Waited, Objects, Object
  <2>3. path' = path /\ amiss \subseteq amiss'
    BY <1>37 DEF Waited, history
  <2> QED BY <2>1, <2>2, <2>3, FollowedKept
<1>38. ASSUME NEW r \in Request, Shut(r) PROVE Followed'
  <2>1. /\ \A q \in Request : q # r => req'[q] = req[q]
        /\ Following(r)' <=> Following(r)
        /\ Following(r) => req'[r].on = req[r].on /\ req'[r].at = req[r].at
        /\ req'[r].pc \in {"secure", "assign", "redirect"} =>
              /\ req[r].pc \in {"secure", "assign", "redirect"}
              /\ req'[r].on = req[r].on /\ req'[r].to = req[r].to
        /\ req'[r].pc # "swap"
    BY <1>38, GotoMoves DEF Shut, At, Following
  <2>2. \A s \in Session : sess'[s].lease = sess[s].lease /\ sess'[s].ctrl = sess[s].ctrl
    BY <1>38 DEF Shut, Objects, Object
  <2>3. path' = path /\ amiss \subseteq amiss'
    BY <1>38 DEF Shut, history
  <2> QED BY <2>1, <2>2, <2>3, FollowedKept
<1>39. ASSUME NEW r \in Request, Release(r) PROVE Followed'
  <2>1. amiss \subseteq amiss'
    BY <1>39 DEF Release, history
  <2> SUFFICES ASSUME Clean({"late", "unfollowed"})', \A s \in Session : Placed(s),
                       \A q \in Request : Follows(q),
                      \A q \in Request : Awaits(q), \A s \in Session : Served(s)
               PROVE  (\A s \in Session : Placed(s)') /\ (\A q \in Request : Follows(q)')
    BY <2>1 DEF Followed, Closing, Clean
  <2>2. \A q \in Request : Following(q) \/ req[q].pc \in {"secure", "assign", "swap"} =>
            (Turning(q) \/ Rebuilding(q)) /\ req[q].on \in Session
    BY FollowersWork, WorksOn
  <2>3. /\ \A q \in Request : q # r => req'[q] = req[q]
        /\ req'[r].pc \in {"done", "destroy"} /\ req[r].pc = "release" /\ path' = path
            /\ req[r].on \in Session
        /\ \A s \in Session : s # req[r].on => sess'[s] = sess[s]
        /\ sess'[req[r].on].lease = None
    BY <1>39 DEF Release, At, Goto, End, Unserved, Shape, Located, Detached, Goroutines,
       Goroutine, Objects, Object
  <2>4. ASSUME NEW q \in Request, Following(q) \/ req[q].pc = "swap" PROVE req[q].on # req[r].on
    <3>1. Idle(sess[req[r].on])
      BY <2>3 DEF Awaits, On
    <3> QED BY <2>2, <2>4, <3>1, Paths DEF Work, Holds, Idle, On
  <2>5. ASSUME NEW s \in Session PROVE Placed(s)'
    <3>1. CASE s = req[r].on
      BY <2>3, <3>1 DEF Placed
    <3>2. CASE s # req[r].on
      <4>1. \A q \in Request : Following(q) /\ req[q].on = s => Following(q)' /\ req'[q].on = s
        BY <2>3, <3>2 DEF Following
      <4> QED BY <2>3, <3>2, <4>1 DEF Placed
    <3> QED BY <3>1, <3>2
  <2>6. ASSUME NEW q \in Request PROVE Follows(q)'
    BY <2>2, <2>3, <2>4 DEF Follows, Following, On
  <2> QED BY <2>5, <2>6
<1>40. ASSUME NEW r \in Request, Destroy(r) PROVE Followed'
  <2>1. /\ \A q \in Request : q # r => req'[q] = req[q]
        /\ Following(r)' <=> Following(r)
        /\ Following(r) => req'[r].on = req[r].on /\ req'[r].at = req[r].at
        /\ req'[r].pc \in {"secure", "assign", "redirect"} =>
              /\ req[r].pc \in {"secure", "assign", "redirect"}
              /\ req'[r].on = req[r].on /\ req'[r].to = req[r].to
        /\ req'[r].pc # "swap"
    BY <1>40 DEF Destroy, At, Following, Goroutines, Goroutine
  <2>2. \A s \in Session : sess'[s].lease = sess[s].lease /\ sess'[s].ctrl = sess[s].ctrl
    BY <1>40 DEF Destroy, Objects, Object
  <2>3. path' = path /\ amiss \subseteq amiss'
    BY <1>40 DEF Destroy, history
  <2> QED BY <2>1, <2>2, <2>3, FollowedKept
<1>41. ASSUME NEW r \in Request, Erase(r) PROVE Followed'
  <2>1. /\ \A q \in Request : q # r => req'[q] = req[q]
        /\ Following(r)' <=> Following(r)
        /\ Following(r) => req'[r].on = req[r].on /\ req'[r].at = req[r].at
        /\ req'[r].pc \in {"secure", "assign", "redirect"} =>
              /\ req[r].pc \in {"secure", "assign", "redirect"}
              /\ req'[r].on = req[r].on /\ req'[r].to = req[r].to
        /\ req'[r].pc # "swap"
    BY <1>41, GotoMoves DEF Erase, At, Following
  <2>2. \A s \in Session : sess'[s].lease = sess[s].lease /\ sess'[s].ctrl = sess[s].ctrl
    BY <1>41 DEF Erase, Objects, Object
  <2>3. path' = path /\ amiss \subseteq amiss'
    BY <1>41 DEF Erase, history
  <2> QED BY <2>1, <2>2, <2>3, FollowedKept
<1>42. ASSUME NEW r \in Request, Twin(r) PROVE Followed'
  <2>1. /\ \A q \in Request : q # r => req'[q] = req[q]
        /\ Following(r)' <=> Following(r)
        /\ Following(r) => req'[r].on = req[r].on /\ req'[r].at = req[r].at
        /\ req'[r].pc \in {"secure", "assign", "redirect"} =>
              /\ req[r].pc \in {"secure", "assign", "redirect"}
              /\ req'[r].on = req[r].on /\ req'[r].to = req[r].to
        /\ req'[r].pc # "swap"
    <3>1. CASE End(r)
      BY <1>42, <3>1, EndMoves DEF Twin, At, Following
    <3>2. CASE ~End(r)
      BY <1>42, <3>2, GotoMoves DEF Twin, At, Following, Goroutines, Goroutine
    <3> QED BY <3>1, <3>2
  <2>2. \A s \in Session : sess'[s].lease = sess[s].lease /\ sess'[s].ctrl = sess[s].ctrl
    BY <1>42 DEF Twin, Objects, Object
  <2>3. path' = path /\ amiss \subseteq amiss'
    BY <1>42 DEF Twin, history
  <2> QED BY <2>1, <2>2, <2>3, FollowedKept
<1>43. ASSUME NEW r \in Request, Linger(r) PROVE Followed'
  <2>1. /\ \A q \in Request : q # r => req'[q] = req[q]
        /\ Following(r)' <=> Following(r)
        /\ Following(r) => req'[r].on = req[r].on /\ req'[r].at = req[r].at
        /\ req'[r].pc \in {"secure", "assign", "redirect"} =>
              /\ req[r].pc \in {"secure", "assign", "redirect"}
              /\ req'[r].on = req[r].on /\ req'[r].to = req[r].to
        /\ req'[r].pc # "swap"
    <3>1. CASE End(r)
      BY <1>43, <3>1, EndMoves DEF Linger, At, Following
    <3>2. CASE ~End(r)
      BY <1>43, <3>2, GotoMoves DEF Linger, At, Following, Goroutines, Goroutine
    <3> QED BY <3>1, <3>2
  <2>2. \A s \in Session : sess'[s].lease = sess[s].lease /\ sess'[s].ctrl = sess[s].ctrl
    BY <1>43 DEF Linger, Objects, Object
  <2>3. path' = path /\ amiss \subseteq amiss'
    BY <1>43 DEF Linger, history
  <2> QED BY <2>1, <2>2, <2>3, FollowedKept
<1>44. ASSUME NEW r \in Request, ResolveAgain(r) PROVE Followed'
  <2>1. /\ \A q \in Request : q # r => req'[q] = req[q]
        /\ Following(r)' <=> Following(r)
        /\ Following(r) => req'[r].on = req[r].on /\ req'[r].at = req[r].at
        /\ req'[r].pc \in {"secure", "assign", "redirect"} =>
              /\ req[r].pc \in {"secure", "assign", "redirect"}
              /\ req'[r].on = req[r].on /\ req'[r].to = req[r].to
        /\ req'[r].pc # "swap"
    <3>1. CASE End(r)
      BY <1>44, <3>1, EndMoves DEF ResolveAgain, At, Following
    <3>2. CASE ~End(r)
      BY <1>44, <3>2, GotoMoves DEF ResolveAgain, At, Following, Goroutines, Goroutine
    <3> QED BY <3>1, <3>2
  <2>2. \A s \in Session : sess'[s].lease = sess[s].lease /\ sess'[s].ctrl = sess[s].ctrl
    BY <1>44 DEF ResolveAgain, Objects, Object
  <2>3. path' = path /\ amiss \subseteq amiss'
    BY <1>44 DEF ResolveAgain, history
  <2> QED BY <2>1, <2>2, <2>3, FollowedKept
<1>45. ASSUME NEW r \in Request, Acquire(r) PROVE Followed'
  <2>1. /\ \A q \in Request : q # r => req'[q] = req[q]
        /\ Following(r)' <=> Following(r)
        /\ Following(r) => req'[r].on = req[r].on /\ req'[r].at = req[r].at
        /\ req'[r].pc \in {"secure", "assign", "redirect"} =>
              /\ req[r].pc \in {"secure", "assign", "redirect"}
              /\ req'[r].on = req[r].on /\ req'[r].to = req[r].to
        /\ req'[r].pc # "swap"
    <3>1. CASE End(r)
      BY <1>45, <3>1, EndMoves DEF Acquire, At, Following
    <3>2. CASE ~End(r)
      BY <1>45, <3>2, GotoMoves DEF Acquire, At, Following, Goroutines, Goroutine
    <3> QED BY <3>1, <3>2
  <2>2. \A s \in Session : sess'[s].lease = sess[s].lease /\ sess'[s].ctrl = sess[s].ctrl
    BY <1>45 DEF Acquire, Objects, Object
  <2>3. path' = path /\ amiss \subseteq amiss'
    BY <1>45 DEF Acquire, history
  <2> QED BY <2>1, <2>2, <2>3, FollowedKept
<1>46. ASSUME NEW r \in Request, Read(r) PROVE Followed'
  <2>1. amiss \subseteq amiss'
    BY <1>46 DEF Read, Race
  <2> SUFFICES ASSUME Clean({"late", "unfollowed"})', \A s \in Session : Placed(s),
                       \A q \in Request : Follows(q),
                      \A q \in Request : Awaits(q), \A s \in Session : Served(s)
               PROVE  (\A s \in Session : Placed(s)') /\ (\A q \in Request : Follows(q)')
    BY <2>1 DEF Followed, Closing, Clean
  <2>2. \A q \in Request : Following(q) \/ req[q].pc \in {"secure", "assign", "swap"} =>
            (Turning(q) \/ Rebuilding(q)) /\ req[q].on \in Session
    BY FollowersWork, WorksOn
  <2>3. PICK c \in FreeCtrls, g \in Config :
           /\ path' = [path EXCEPT ![c] = req[r].at]
           /\ sess' = [sess EXCEPT ![req[r].on] = Opened(c, g, req[r].at)]
    <3>1. \A S \in SUBSET Ctrl : S # {} => (CHOOSE c \in S : TRUE) \in S
      OBVIOUS
    <3>2. FreeCtrls \in SUBSET Ctrl
      BY DEF FreeCtrls
    <3> QED BY <1>46, <3>1, <3>2 DEF Read
  <2>4. c \in Ctrl /\ (\A s \in Session : sess[s].ctrl # c) /\ (\A q \in Request : req[q].next # c)
    BY DEF FreeCtrls
  <2>5. /\ \A q \in Request : q # r => req'[q] = req[q]
        /\ req'[r].pc = "meta" /\ req[r].pc = "read" /\ req[r].on \in Session
    BY <1>46, GotoMoves DEF Read, At, Shape, Located, Detached, Goroutines, Goroutine
  <2>6. ASSUME NEW q \in Request, q # r PROVE req[q].on # req[r].on
    BY <2>5, <2>6 DEF Shape, Alone, Opens
  <2>7. /\ \A s \in Session : s # req[r].on => sess'[s] = sess[s]
            /\ path'[sess[s].ctrl] = path[sess[s].ctrl]
        /\ sess'[req[r].on].lease = req[r].at /\ sess'[req[r].on].ctrl = c /\ path'[c] = req[r].at
        /\ \A x \in Ctrl : x # c => path'[x] = path[x]
    BY <2>5, <2>3, <2>4 DEF Opened, Objects, Object, Others
  <2>8. ASSUME NEW s \in Session PROVE Placed(s)'
    <3>1. CASE s = req[r].on
      BY <2>7, <3>1 DEF Placed
    <3>2. CASE s # req[r].on
      <4>1. \A q \in Request : Following(q) /\ req[q].on = s => Following(q)' /\ req'[q].on = s
        BY <2>5, <3>2 DEF Following
      <4> QED BY <2>7, <3>2, <4>1 DEF Placed
    <3> QED BY <3>1, <3>2
  <2>9. ASSUME NEW q \in Request PROVE Follows(q)'
    <3>1. CASE q = r
      BY <2>5, <3>1 DEF Follows, Following
    <3>2. CASE q # r
      <4>1. req[q].pc = "swap" => req[q].next \in Ctrl
        BY DEF Shape, Located, Goroutines, Goroutine
      <4> QED BY <2>2, <2>5, <2>6, <2>7, <2>4, <3>2, <4>1 DEF Follows, Following, On
    <3> QED BY <3>1, <3>2
  <2> QED BY <2>8, <2>9
<1>47. ASSUME NEW r \in Request, ReadFails(r) PROVE Followed'
  <2>1. /\ \A q \in Request : q # r => req'[q] = req[q]
        /\ Following(r)' <=> Following(r)
        /\ Following(r) => req'[r].on = req[r].on /\ req'[r].at = req[r].at
        /\ req'[r].pc \in {"secure", "assign", "redirect"} =>
              /\ req[r].pc \in {"secure", "assign", "redirect"}
              /\ req'[r].on = req[r].on /\ req'[r].to = req[r].to
        /\ req'[r].pc # "swap"
    <3>1. CASE End(r)
      BY <1>47, <3>1, EndMoves DEF ReadFails, At, Following
    <3>2. CASE ~End(r)
      BY <1>47, <3>2, GotoMoves DEF ReadFails, At, Following, Goroutines, Goroutine
    <3> QED BY <3>1, <3>2
  <2>2. \A s \in Session : sess'[s].lease = sess[s].lease /\ sess'[s].ctrl = sess[s].ctrl
    BY <1>47 DEF ReadFails, Objects, Object
  <2>3. path' = path /\ amiss \subseteq amiss'
    BY <1>47 DEF ReadFails, history
  <2> QED BY <2>1, <2>2, <2>3, FollowedKept
<1>48. ASSUME NEW r \in Request, LoadMeta(r) PROVE Followed'
  <2>1. /\ \A q \in Request : q # r => req'[q] = req[q]
        /\ Following(r)' <=> Following(r)
        /\ Following(r) => req'[r].on = req[r].on /\ req'[r].at = req[r].at
        /\ req'[r].pc \in {"secure", "assign", "redirect"} =>
              /\ req[r].pc \in {"secure", "assign", "redirect"}
              /\ req'[r].on = req[r].on /\ req'[r].to = req[r].to
        /\ req'[r].pc # "swap"
    BY <1>48, GotoMoves DEF LoadMeta, At, Following
  <2>2. \A s \in Session : sess'[s].lease = sess[s].lease /\ sess'[s].ctrl = sess[s].ctrl
    BY <1>48 DEF LoadMeta, Objects, Object
  <2>3. path' = path /\ amiss \subseteq amiss'
    BY <1>48 DEF LoadMeta, history
  <2> QED BY <2>1, <2>2, <2>3, FollowedKept
<1>49. ASSUME NEW r \in Request, LoadMetaFails(r) PROVE Followed'
  <2>1. amiss \subseteq amiss'
    BY <1>49 DEF LoadMetaFails, history
  <2> SUFFICES ASSUME Clean({"late", "unfollowed"})', \A s \in Session : Placed(s),
                       \A q \in Request : Follows(q),
                      \A q \in Request : Awaits(q), \A s \in Session : Served(s)
               PROVE  (\A s \in Session : Placed(s)') /\ (\A q \in Request : Follows(q)')
    BY <2>1 DEF Followed, Closing, Clean
  <2>2. \A q \in Request : Following(q) \/ req[q].pc \in {"secure", "assign", "swap"} =>
            (Turning(q) \/ Rebuilding(q)) /\ req[q].on \in Session
    BY FollowersWork, WorksOn
  <2>3. /\ \A q \in Request : q # r => req'[q] = req[q]
        /\ req'[r].pc = "done" /\ req[r].pc = "meta" /\ req[r].on \in Session /\ path' = path
    BY <1>49, EndMoves DEF LoadMetaFails, At, Shape, Located, Detached, Goroutines, Goroutine
  <2>4. ASSUME NEW q \in Request, q # r PROVE req[q].on # req[r].on
    BY <2>3, <2>4 DEF Shape, Alone, Opens
  <2>5. /\ \A s \in Session : s # req[r].on => sess'[s] = sess[s]
        /\ sess'[req[r].on].lease = None
    BY <1>49, <2>3 DEF LoadMetaFails, Unopened, Opened, Objects
  <2>6. ASSUME NEW s \in Session PROVE Placed(s)'
    <3>1. CASE s = req[r].on
      BY <2>5, <3>1 DEF Placed
    <3>2. CASE s # req[r].on
      <4>1. \A q \in Request : Following(q) /\ req[q].on = s => Following(q)' /\ req'[q].on = s
        BY <2>3, <3>2 DEF Following
      <4> QED BY <2>3, <2>5, <3>2, <4>1 DEF Placed
    <3> QED BY <3>1, <3>2
  <2>7. ASSUME NEW q \in Request PROVE Follows(q)'
    BY <2>2, <2>3, <2>4, <2>5 DEF Follows, Following, On
  <2> QED BY <2>6, <2>7
<1>50. ASSUME NEW r \in Request, Register(r) PROVE Followed'
  <2>1. /\ \A q \in Request : q # r => req'[q] = req[q]
        /\ Following(r)' <=> Following(r)
        /\ Following(r) => req'[r].on = req[r].on /\ req'[r].at = req[r].at
        /\ req'[r].pc \in {"secure", "assign", "redirect"} =>
              /\ req[r].pc \in {"secure", "assign", "redirect"}
              /\ req'[r].on = req[r].on /\ req'[r].to = req[r].to
        /\ req'[r].pc # "swap"
    <3>1. CASE End(r)
      BY <1>50, <3>1, EndMoves DEF Register, At, Following
    <3>2. CASE ~End(r)
      BY <1>50, <3>2, GotoMoves DEF Register, At, Following, Goroutines, Goroutine
    <3> QED BY <3>1, <3>2
  <2>2. \A s \in Session : sess'[s].lease = sess[s].lease /\ sess'[s].ctrl = sess[s].ctrl
    BY <1>50 DEF Register, Objects, Object
  <2>3. path' = path /\ amiss \subseteq amiss'
    BY <1>50 DEF Register, history
  <2> QED BY <2>1, <2>2, <2>3, FollowedKept
<1>51. ASSUME NEW p \in Path, OtherAcquires(p) PROVE Followed'
  BY <1>51, Paths DEF OtherAcquires, Goroutines, Objects, Goroutine, Object, Others, Followed,
     Placed, Follows, Following, Clean, On, fileVars, history
<1>52. ASSUME NEW p \in Path, OtherReleases(p) PROVE Followed'
  BY <1>52, Paths DEF OtherReleases, Unlock, Goroutines, Objects, Goroutine, Object, Others,
     Followed, Placed, Follows, Following, Clean, On, fileVars, history
<1>53. ASSUME NEW p \in Path, Reconcile(p) PROVE Followed'
  BY <1>53, Paths DEF Reconcile, Remove, Goroutines, Objects, Goroutine, Object, Others,
     Followed, Placed, Follows, Following, Clean, On, fileVars, history
<1>54. CASE Crash
  BY <1>54, Paths DEF Crash, Unserved, Unopened, Opened, At, Goroutines, Objects, Goroutine,
     Object, Others, Followed, Placed, Follows, Following, Clean, On, fileVars, history
<1> QED BY <1>1, <1>2, <1>3, <1>4, <1>5, <1>6, <1>7, <1>8, <1>9, <1>10, <1>11, <1>12, <1>13,
           <1>14, <1>15, <1>16, <1>17, <1>18, <1>19, <1>20, <1>21, <1>22, <1>23, <1>24, <1>25,
           <1>26, <1>27, <1>28, <1>29, <1>30, <1>31, <1>32, <1>33, <1>34, <1>35, <1>36, <1>37,
           <1>38, <1>39, <1>40, <1>41, <1>42, <1>43, <1>44, <1>45, <1>46, <1>47, <1>48, <1>49,
           <1>50, <1>51, <1>52, <1>53, <1>54 DEF Next, Start, Continue, Turn, Save, Rebuild,
           Close, Open
-----------------------------------------------------------------------------
(***************************************************************************)
(* The theorems.                                                           *)
(***************************************************************************)
FullInv == ClosingInv /\ Choice /\ Locks /\ Followed

LEMMA InitFull == Init => Choice /\ Locks /\ Followed
<1> SUFFICES ASSUME Init PROVE Choice /\ Locks /\ Followed
  OBVIOUS
<1>1. /\ path = [c \in Ctrl |-> Main] /\ last = [s \in Session |-> Default]
      /\ lock = [p \in Path |-> IF p = Main THEN "ours" ELSE "free"]
  BY DEF Init
<1>2. Choice
  BY <1>1, Started, Paths DEF Choice, Queued, Settled
<1>3. Locks
  BY <1>1, Started, Paths DEF Locks
<1>4. Followed
  BY <1>1, Started, Paths DEF Followed, Placed, Follows, Following
<1> QED BY <1>2, <1>3, <1>4

LEMMA FullInvStep == FullInv /\ [Next]_vars => FullInv'
BY ClosingInvStep, ChoiceStep, LocksStep, FollowedStep DEF FullInv, ClosingInv, Inv

\* A lease has one holder, the controller of a session is where its lease is
\* but while it follows a recovery, and a queued choice is the last one
\* (sessionRecoveredHandler, openExistingSession, applyPendingSessionConfig).
THEOREM FullInvariance == Spec => []FullInv
<1>1. Init => FullInv
  BY InitInv, InitClosing, InitFull DEF FullInv, ClosingInv
<1> QED BY <1>1, FullInvStep, PTL DEF Spec

\* A controller that is about to write its transcript has the lease of it, unless
\* a request came late or a recovery found no session to follow it
\* (sessionRecoveredHandler, service.go:310-319; service_lease_test.go).
THEOREM WritesNeedLeases == Spec => []WritesAreLeased
<1>1. ASSUME FullInv PROVE WritesAreLeased
  <2> SUFFICES ASSUME NEW r \in Request, req[r].pc = "save", Clean({"late", "unfollowed"})
               PROVE  On(r).lease = path[req[r].ctrl] /\ lock[path[req[r].ctrl]] = "ours"
    BY DEF WritesAreLeased, At
  <2>1. /\ Goroutines /\ Objects /\ Shape /\ Work
        /\ \A s \in Session : Placed(s) /\ Served(s)
    BY <1>1 DEF FullInv, ClosingInv, Inv, Followed, Closing, Clean
  <2>2. (Turning(r) \/ Rebuilding(r)) /\ req[r].ctrl = On(r).ctrl
    BY <2>1, Saver DEF Saves
  <2>3. req[r].on \in Session /\ ~Idle(sess[req[r].on])
    BY <2>1, <2>2, WorksOn, Paths DEF Work, Holds, Idle, On
  <2>4. ASSUME NEW q \in Request, Following(q) PROVE req[q].on # req[r].on
    <3>1. q # r
      BY <2>4 DEF Following
    <3> QED BY <2>1, <2>2, <2>4, <3>1, FollowersWork, Sole
  <2>5. sess[req[r].on].lease # None
    BY <2>1, <2>3 DEF Served
  <2>6. path[req[r].ctrl] = On(r).lease
    BY <2>1, <2>2, <2>3, <2>4, <2>5 DEF Placed, On
  <2> QED BY <1>1, <2>3, <2>5, <2>6 DEF FullInv, Locks, On
<1> QED BY <1>1, FullInvariance, PTL

\* A session at rest runs the configuration that was chosen last, and nothing is
\* queued, unless an applier came with an older choice, a failed one dropped a
\* later one, or a failed rebuild left one behind (applyPendingSessionConfig).
THEOREM ChoicesWin == Spec => []LatestChoiceWins
<1>1. ASSUME FullInv PROVE LatestChoiceWins
  <2> SUFFICES ASSUME NEW s \in Session, Still, live = s, Clean({"stale", "dropped", "stuck"})
               PROVE  sess[s].config = last[s] /\ sess[s].pending = None
    BY DEF LatestChoiceWins
  <2>1. Settled /\ Work /\ live # None
    BY <1>1, Paths DEF FullInv, Choice, ClosingInv, Inv
  <2>2. \A r \in Request : ~Turning(r) /\ ~Rebuilding(r) /\ ~Drains(r, s)
    BY DEF Still, Turning, Rebuilding, Saves, Drains
  <2>3. sess[s].turn \in Request \cup {None} /\ sess[s].maint \in Request \cup {None}
    BY <1>1 DEF FullInv, ClosingInv, Inv, Objects, Object
  <2>4. sess[s].turn = None /\ sess[s].maint = None
    BY <2>1, <2>2, <2>3 DEF Work, Held
  <2> QED BY <2>1, <2>2, <2>4 DEF Settled, Idle
<1> QED BY <1>1, FullInvariance, PTL

-----------------------------------------------------------------------------
(***************************************************************************)
(* Closes, opens and the lease of a session object.                        *)
(***************************************************************************)

\* A session is closed by one goroutine, and holds its lease until that releases
\* it; a lease is the lease of the session's transcript.
Closers ==
    \A q, r \in Request :
        req[q].pc \in Closes /\ req[r].pc \in Closes /\ req[q].on = req[r].on => q = r

\* It lets go of the lease in one step, after the wait.
Unreleased(r) == req[r].pc \in {"abort", "wait", "shut", "release"} => Leased(req[r].on)

\* A load has no object yet, and a recovery is followed by one that is open.
Unopen(r) ==
    /\ req[r].pc \in {"resolve", "acquire", "read"} => sess[req[r].on].ctrl = None
    /\ req[r].pc \in {"secure", "assign"} => sess[req[r].to].ctrl # None

\* The lease of a session object is the lease of its transcript.
Named(s) == Leased(s) => sess[s].lease = sess[s].transcript /\ sess[s].ctrl # None
Tenure ==
    /\ Closers
    /\ \A r \in Request : Unreleased(r) /\ Unopen(r)
    /\ \A s \in Session : Named(s)

LEMMA Sessions ==
  ASSUME Goroutines, Shape, NEW r \in Request
  PROVE  /\ req[r].pc \in Closes \cup Opens \cup Saves \cup {"swap"} => req[r].on \in Session
         /\ req[r].pc \in {"secure", "assign", "redirect"} => req[r].to \in Session
BY DEF Shape, Located, Detached, Goroutines, Goroutine, Closes, Opens, Saves

LEMMA TenureKept ==
  ASSUME Goroutines, Objects, Shape, Tenure, NEW r \in Request,
         \A q \in Request : q # r => req'[q] = req[q],
         SameObjects,
         req'[r].pc \in Closes => req[r].pc \in Closes /\ req'[r].on = req[r].on,
         Unreleased(r)', Unopen(r)'
  PROVE  Tenure'
<1>1. Closers'
  BY DEF Tenure, Closers
<1>2. ASSUME NEW q \in Request, q # r PROVE Unreleased(q)' /\ Unopen(q)'
  <2>1. /\ req[q].pc \in Closes \cup {"resolve", "acquire", "read"} => req[q].on \in Session
        /\ req[q].pc \in {"secure", "assign"} => req[q].to \in Session
    BY Sessions DEF Opens
  <2>2. req'[q] = req[q] /\ Unreleased(q) /\ Unopen(q)
    BY <1>2 DEF Tenure
  <2> QED BY <2>1, <2>2 DEF Unreleased, Unopen, Leased, SameObjects, SameLeases, Closes
<1>3. ASSUME NEW s \in Session PROVE Named(s)'
  BY DEF Tenure, Named, Leased, SameObjects, SameLeases
<1> QED BY <1>1, <1>2, <1>3 DEF Tenure

LEMMA TenureStep ==
  ASSUME Goroutines, Objects, Others, Shape, Closing, Tenure, [Next]_vars
  PROVE  Tenure'
<1>1. ASSUME NEW r \in Request, Plain(r) PROVE Tenure'
  <2>1. req'[r].pc \in Closes => req[r].pc \in Closes /\ req'[r].on = req[r].on
    BY <1>1 DEF Plain, Special, Closes
  <2>2. Unreleased(r)' /\ Unopen(r)'
    BY <1>1, Sessions, Paths DEF Plain, Special, Unreleased, Unopen, Leased, SameObjects,
       SameLeases, Tenure, Closes, Opens, Moves, Flight, Saves
  <2> QED BY <1>1, <2>1, <2>2, TenureKept DEF Plain
<1>2. ASSUME NEW r \in Request, Build(r) PROVE Tenure'
  <2>1. req'[r].pc \in Closes => req[r].pc \in Closes /\ req'[r].on = req[r].on
    BY <1>2, BuildDoes DEF Closes
  <2>2. Unreleased(r)' /\ Unopen(r)'
    BY <1>2, BuildDoes, Sessions, Paths DEF Unreleased, Unopen, Leased, SameObjects, SameLeases,
       Tenure, Closes, Opens, Moves, Flight, Saves
  <2> QED BY <1>2, BuildDoes, <2>1, <2>2, TenureKept
<1>3. ASSUME NEW r \in Request, Swap(r) PROVE Tenure'
  <2>1. Closers'
    BY <1>3, SwapDoes DEF Tenure, Closers, Closes
  <2>2. ASSUME NEW q \in Request PROVE Unreleased(q)' /\ Unopen(q)'
    <3>1. CASE q = r
      BY <1>3, <3>1, SwapDoes DEF Unreleased, Unopen, Leased, SameLeases
    <3>2. CASE q # r
      <4>1. req'[q] = req[q] /\ Unreleased(q) /\ Unopen(q)
        BY <1>3, <3>2, SwapDoes DEF Tenure
      <4> QED BY <1>3, <3>2, <4>1, SwapDoes, Sessions, Paths DEF Unreleased, Unopen, Leased,
                 SameLeases, Closes, Opens, Shape, Located, Blank, Detached
    <3> QED BY <3>1, <3>2
  <2>3. ASSUME NEW s \in Session PROVE Named(s)'
    BY <1>3, SwapDoes, Paths DEF Tenure, Named, Leased, SameLeases, Objects, Object
  <2> QED BY <2>1, <2>2, <2>3 DEF Tenure
<1>4. ASSUME NEW r \in Request, SwapRefused(r) PROVE Tenure'
  <2>1. req'[r].pc \in Closes => req[r].pc \in Closes /\ req'[r].on = req[r].on
    BY <1>4, SwapRefusedDoes DEF Closes
  <2>2. Unreleased(r)' /\ Unopen(r)'
    BY <1>4, SwapRefusedDoes, Sessions, Paths DEF Unreleased, Unopen, Leased, SameObjects,
       SameLeases, Tenure, Closes, Opens, Moves, Flight, Saves
  <2> QED BY <1>4, SwapRefusedDoes, <2>1, <2>2, TenureKept
<1>5. ASSUME NEW r \in Request, Recover(r) PROVE Tenure'
  <2>1. req'[r].pc \in Closes => req[r].pc \in Closes /\ req'[r].on = req[r].on
    BY <1>5, RecoverDoes DEF Closes
  <2>2. Unreleased(r)' /\ Unopen(r)'
    BY <1>5, RecoverDoes, Sessions, Paths DEF Unreleased, Unopen, Leased, SameObjects,
       SameLeases, Tenure, Closes, Opens, Moves, Flight, Saves
  <2> QED BY <1>5, RecoverDoes, <2>1, <2>2, TenureKept
<1>6. ASSUME NEW r \in Request, Follow(r) PROVE Tenure'
  <2>1. req'[r].pc \notin Closes
    BY <1>6, FollowDoes DEF Closes
  <2>2. req'[r].pc = "secure" => req'[r].to \in Session /\ sess'[req'[r].to].ctrl # None
    BY <1>6, FollowDoes, Paths DEF Shape, Others, SameObjects
  <2>3. Unreleased(r)' /\ Unopen(r)'
    BY <1>6, <2>2, FollowDoes DEF Unreleased, Unopen
  <2> QED BY <1>6, <2>1, <2>3, FollowDoes, TenureKept
<1>7. ASSUME NEW r \in Request, Secure(r) PROVE Tenure'
  <2>1. req'[r].pc \in Closes => req[r].pc \in Closes /\ req'[r].on = req[r].on
    BY <1>7, SecureDoes DEF Closes
  <2>2. Unreleased(r)' /\ Unopen(r)'
    BY <1>7, SecureDoes, Sessions, Paths DEF Unreleased, Unopen, Leased, SameObjects,
       SameLeases, Tenure, Closes, Opens, Moves, Flight, Saves
  <2> QED BY <1>7, SecureDoes, <2>1, <2>2, TenureKept
<1>8. ASSUME NEW r \in Request, Assign(r) PROVE Tenure'
  <2>1. Closers'
    BY <1>8, AssignDoes DEF Tenure, Closers, Closes
  <2>2. ASSUME NEW q \in Request PROVE Unreleased(q)' /\ Unopen(q)'
    <3>1. CASE q = r
      BY <1>8, <3>1, AssignDoes DEF Unreleased, Unopen, Leased, SameLeases, Closes
    <3>2. CASE q # r
      <4>1. req'[q] = req[q] /\ Unreleased(q) /\ Unopen(q)
        BY <1>8, <3>2, AssignDoes DEF Tenure
      <4> QED BY <1>8, <3>2, <4>1, AssignDoes, Sessions, Paths DEF Unreleased, Unopen, Leased,
                 SameLeases, Closes, Opens, SameObjects
    <3> QED BY <3>1, <3>2
  <2>3. ASSUME NEW s \in Session PROVE Named(s)'
    BY <1>8, AssignDoes, Paths DEF Tenure, Named, Leased, SameLeases, Objects, Object,
       SameObjects, Unopen
  <2> QED BY <2>1, <2>2, <2>3 DEF Tenure
<1>9. ASSUME NEW r \in Request, Redirect(r) PROVE Tenure'
  <2>1. req'[r].pc \in Closes => req[r].pc \in Closes /\ req'[r].on = req[r].on
    BY <1>9, RedirectDoes DEF Closes
  <2>2. Unreleased(r)' /\ Unopen(r)'
    BY <1>9, RedirectDoes, Sessions, Paths DEF Unreleased, Unopen, Leased, SameObjects,
       SameLeases, Tenure, Closes, Opens, Moves, Flight, Saves
  <2> QED BY <1>9, RedirectDoes, <2>1, <2>2, TenureKept
<1>10. ASSUME NEW r \in Request, Commit(r) PROVE Tenure'
  <2>1. req'[r].pc \in Closes => req[r].pc \in Closes /\ req'[r].on = req[r].on
    BY <1>10, CommitDoes DEF Closes
  <2>2. Unreleased(r)' /\ Unopen(r)'
    BY <1>10, CommitDoes, Sessions, Paths DEF Unreleased, Unopen, Leased, SameObjects,
       SameLeases, Tenure, Closes, Opens, Moves, Flight, Saves
  <2> QED BY <1>10, CommitDoes, <2>1, <2>2, TenureKept
<1>11. ASSUME NEW r \in Request, Take(r) PROVE Tenure'
  <2>1. Closers'
    BY <1>11, TakeDoes DEF Tenure, Closers, Closing, Gone, Closes
  <2>2. ASSUME NEW q \in Request PROVE Unreleased(q)' /\ Unopen(q)'
    <3>1. CASE q = r
      BY <1>11, <3>1, TakeDoes DEF Closing, Alive, Unreleased, Unopen, Leased, SameObjects,
         SameLeases
    <3>2. CASE q # r
      BY <1>11, <3>2, TakeDoes, Sessions DEF Tenure, Unreleased, Unopen, Leased, SameObjects,
         SameLeases, Closes, Opens
    <3> QED BY <3>1, <3>2
  <2>3. ASSUME NEW s \in Session PROVE Named(s)'
    BY <1>11, TakeDoes DEF Tenure, Named, Leased, SameObjects, SameLeases
  <2> QED BY <2>1, <2>2, <2>3 DEF Tenure
<1>12. ASSUME NEW r \in Request, Abort(r) PROVE Tenure'
  <2>1. req'[r].pc \in Closes => req[r].pc \in Closes /\ req'[r].on = req[r].on
    BY <1>12, AbortDoes DEF Closes
  <2>2. Unreleased(r)' /\ Unopen(r)'
    BY <1>12, AbortDoes, Sessions, Paths DEF Unreleased, Unopen, Leased, SameObjects,
       SameLeases, Tenure, Closes, Opens, Moves, Flight, Saves
  <2> QED BY <1>12, AbortDoes, <2>1, <2>2, TenureKept
<1>13. ASSUME NEW r \in Request, Waited(r) PROVE Tenure'
  <2>1. req'[r].pc \in Closes => req[r].pc \in Closes /\ req'[r].on = req[r].on
    BY <1>13, WaitedDoes DEF Closes
  <2>2. Unreleased(r)' /\ Unopen(r)'
    BY <1>13, WaitedDoes, Sessions, Paths DEF Unreleased, Unopen, Leased, SameObjects,
       SameLeases, Tenure, Closes, Opens, Moves, Flight, Saves
  <2> QED BY <1>13, WaitedDoes, <2>1, <2>2, TenureKept
<1>14. ASSUME NEW r \in Request, Shut(r) PROVE Tenure'
  <2>1. req'[r].pc \in Closes => req[r].pc \in Closes /\ req'[r].on = req[r].on
    BY <1>14, ShutDoes DEF Closes
  <2>2. Unreleased(r)' /\ Unopen(r)'
    BY <1>14, ShutDoes, Sessions, Paths DEF Unreleased, Unopen, Leased, SameObjects, SameLeases,
       Tenure, Closes, Opens, Moves, Flight, Saves
  <2> QED BY <1>14, ShutDoes, <2>1, <2>2, TenureKept
<1>15. ASSUME NEW r \in Request, Release(r) PROVE Tenure'
  <2>1. Closers'
    BY <1>15, ReleaseDoes DEF Tenure, Closers, Closes
  <2>2. ASSUME NEW q \in Request PROVE Unreleased(q)' /\ Unopen(q)'
    <3>1. CASE q = r
      BY <1>15, <3>1, ReleaseDoes DEF Unreleased, Unopen, Leased, SameLeases
    <3>2. CASE q # r
      <4>1. req'[q] = req[q] /\ Unreleased(q) /\ Unopen(q)
        BY <1>15, <3>2, ReleaseDoes DEF Tenure
      <4> QED BY <1>15, <3>2, <4>1, ReleaseDoes, Sessions, Paths DEF Unreleased, Unopen, Leased,
                 SameLeases, Closes, Opens, Closers, Tenure
    <3> QED BY <3>1, <3>2
  <2>3. ASSUME NEW s \in Session PROVE Named(s)'
    BY <1>15, ReleaseDoes, Paths DEF Tenure, Named, Leased, SameLeases, Objects, Object
  <2> QED BY <2>1, <2>2, <2>3 DEF Tenure
<1>16. ASSUME NEW r \in Request, Destroy(r) PROVE Tenure'
  <2>1. req'[r].pc \in Closes => req[r].pc \in Closes /\ req'[r].on = req[r].on
    BY <1>16, DestroyDoes DEF Closes
  <2>2. Unreleased(r)' /\ Unopen(r)'
    BY <1>16, DestroyDoes, Sessions, Paths DEF Unreleased, Unopen, Leased, SameObjects,
       SameLeases, Tenure, Closes, Opens, Moves, Flight, Saves
  <2> QED BY <1>16, DestroyDoes, <2>1, <2>2, TenureKept
<1>17. ASSUME NEW r \in Request, DeleteClosed(r) PROVE Tenure'
  <2>1. req'[r].pc \in Closes => req[r].pc \in Closes /\ req'[r].on = req[r].on
    BY <1>17, DeleteClosedDoes DEF Closes
  <2>2. Unreleased(r)' /\ Unopen(r)'
    BY <1>17, DeleteClosedDoes, Sessions, Paths DEF Unreleased, Unopen, Leased, SameObjects,
       SameLeases, Tenure, Closes, Opens, Moves, Flight, Saves
  <2> QED BY <1>17, DeleteClosedDoes, <2>1, <2>2, TenureKept
<1>18. ASSUME NEW r \in Request, Erase(r) PROVE Tenure'
  <2>1. req'[r].pc \in Closes => req[r].pc \in Closes /\ req'[r].on = req[r].on
    BY <1>18, EraseDoes DEF Closes
  <2>2. Unreleased(r)' /\ Unopen(r)'
    BY <1>18, EraseDoes, Sessions, Paths DEF Unreleased, Unopen, Leased, SameObjects,
       SameLeases, Tenure, Closes, Opens, Moves, Flight, Saves
  <2> QED BY <1>18, EraseDoes, <2>1, <2>2, TenureKept
<1>19. ASSUME NEW r \in Request, Twin(r) PROVE Tenure'
  <2>1. req'[r].pc \in Closes => req[r].pc \in Closes /\ req'[r].on = req[r].on
    BY <1>19, TwinDoes DEF Closes
  <2>2. Unreleased(r)' /\ Unopen(r)'
    BY <1>19, TwinDoes, Sessions, Paths DEF Unreleased, Unopen, Leased, SameObjects, SameLeases,
       Tenure, Closes, Opens, Moves, Flight, Saves
  <2> QED BY <1>19, TwinDoes, <2>1, <2>2, TenureKept
<1>20. ASSUME NEW r \in Request, Linger(r) PROVE Tenure'
  <2>1. req'[r].pc \in Closes => req[r].pc \in Closes /\ req'[r].on = req[r].on
    BY <1>20, LingerDoes DEF Closes
  <2>2. Unreleased(r)' /\ Unopen(r)'
    BY <1>20, LingerDoes, Sessions, Paths DEF Unreleased, Unopen, Leased, SameObjects,
       SameLeases, Tenure, Closes, Opens, Moves, Flight, Saves
  <2> QED BY <1>20, LingerDoes, <2>1, <2>2, TenureKept
<1>21. ASSUME NEW r \in Request, Load(r) PROVE Tenure'
  <2>1. req'[r].pc \in Closes => req[r].pc \in Closes /\ req'[r].on = req[r].on
    BY <1>21, LoadDoes DEF Closes
  <2>2. Unreleased(r)' /\ Unopen(r)'
    BY <1>21, LoadDoes, Sessions, Paths DEF Unreleased, Unopen, Leased, SameObjects, SameLeases,
       Tenure, Closes, Opens, Moves, Flight, Saves
  <2> QED BY <1>21, LoadDoes, <2>1, <2>2, TenureKept
<1>22. ASSUME NEW r \in Request, ResolveAgain(r) PROVE Tenure'
  <2>1. req'[r].pc \in Closes => req[r].pc \in Closes /\ req'[r].on = req[r].on
    BY <1>22, ResolveAgainDoes DEF Closes
  <2>2. Unreleased(r)' /\ Unopen(r)'
    BY <1>22, ResolveAgainDoes, Sessions, Paths DEF Unreleased, Unopen, Leased, SameObjects,
       SameLeases, Tenure, Closes, Opens, Moves, Flight, Saves
  <2> QED BY <1>22, ResolveAgainDoes, <2>1, <2>2, TenureKept
<1>23. ASSUME NEW r \in Request, Acquire(r) PROVE Tenure'
  <2>1. req'[r].pc \in Closes => req[r].pc \in Closes /\ req'[r].on = req[r].on
    BY <1>23, AcquireDoes DEF Closes
  <2>2. Unreleased(r)' /\ Unopen(r)'
    BY <1>23, AcquireDoes, Sessions, Paths DEF Unreleased, Unopen, Leased, SameObjects,
       SameLeases, Tenure, Closes, Opens, Moves, Flight, Saves
  <2> QED BY <1>23, AcquireDoes, <2>1, <2>2, TenureKept
<1>24. ASSUME NEW r \in Request, Read(r) PROVE Tenure'
  <2>1. Closers'
    BY <1>24, ReadDoes DEF Tenure, Closers, Closes
  <2>2. ASSUME NEW q \in Request PROVE Unreleased(q)' /\ Unopen(q)'
    <3>1. CASE q = r
      BY <1>24, <3>1, ReadDoes DEF Unreleased, Unopen, Leased, SameLeases
    <3>2. CASE q # r
      <4>1. req'[q] = req[q] /\ Unreleased(q) /\ Unopen(q)
        BY <1>24, <3>2, ReadDoes DEF Tenure
      <4> QED BY <1>24, <3>2, <4>1, ReadDoes, Sessions, Paths DEF Unreleased, Unopen, Leased,
                 SameLeases, Closes, Opens, Shape, Alone
    <3> QED BY <3>1, <3>2
  <2>3. ASSUME NEW s \in Session PROVE Named(s)'
    BY <1>24, ReadDoes, Paths DEF Tenure, Named, Leased, SameLeases, Objects, Object
  <2> QED BY <2>1, <2>2, <2>3 DEF Tenure
<1>25. ASSUME NEW r \in Request, ReadFails(r) PROVE Tenure'
  <2>1. req'[r].pc \in Closes => req[r].pc \in Closes /\ req'[r].on = req[r].on
    BY <1>25, ReadFailsDoes DEF Closes
  <2>2. Unreleased(r)' /\ Unopen(r)'
    BY <1>25, ReadFailsDoes, Sessions, Paths DEF Unreleased, Unopen, Leased, SameObjects,
       SameLeases, Tenure, Closes, Opens, Moves, Flight, Saves
  <2> QED BY <1>25, ReadFailsDoes, <2>1, <2>2, TenureKept
<1>26. ASSUME NEW r \in Request, LoadMeta(r) PROVE Tenure'
  <2>1. req'[r].pc \in Closes => req[r].pc \in Closes /\ req'[r].on = req[r].on
    BY <1>26, LoadMetaDoes DEF Closes
  <2>2. Unreleased(r)' /\ Unopen(r)'
    BY <1>26, LoadMetaDoes, Sessions, Paths DEF Unreleased, Unopen, Leased, SameObjects,
       SameLeases, Tenure, Closes, Opens, Moves, Flight, Saves
  <2> QED BY <1>26, LoadMetaDoes, <2>1, <2>2, TenureKept
<1>27. ASSUME NEW r \in Request, LoadMetaFails(r) PROVE Tenure'
  <2>1. Closers'
    BY <1>27, LoadMetaFailsDoes DEF Tenure, Closers, Closes
  <2>2. ASSUME NEW q \in Request PROVE Unreleased(q)' /\ Unopen(q)'
    <3>1. CASE q = r
      BY <1>27, <3>1, LoadMetaFailsDoes DEF Unreleased, Unopen, Leased, SameLeases
    <3>2. CASE q # r
      <4>1. req'[q] = req[q] /\ Unreleased(q) /\ Unopen(q)
        BY <1>27, <3>2, LoadMetaFailsDoes DEF Tenure
      <4> QED BY <1>27, <3>2, <4>1, LoadMetaFailsDoes, Sessions, Paths DEF Unreleased, Unopen,
                 Leased, SameLeases, Closes, Opens, Shape, Alone
    <3> QED BY <3>1, <3>2
  <2>3. ASSUME NEW s \in Session PROVE Named(s)'
    BY <1>27, LoadMetaFailsDoes, Paths DEF Tenure, Named, Leased, SameLeases, Objects, Object
  <2> QED BY <2>1, <2>2, <2>3 DEF Tenure
<1>28. ASSUME NEW r \in Request, Register(r) PROVE Tenure'
  <2>1. req'[r].pc \in Closes => req[r].pc \in Closes /\ req'[r].on = req[r].on
    BY <1>28, RegisterDoes DEF Closes
  <2>2. Unreleased(r)' /\ Unopen(r)'
    BY <1>28, RegisterDoes, Sessions, Paths DEF Unreleased, Unopen, Leased, SameObjects,
       SameLeases, Tenure, Closes, Opens, Moves, Flight, Saves
  <2> QED BY <1>28, RegisterDoes, <2>1, <2>2, TenureKept
<1>29. ASSUME NEW p \in Path, OtherAcquires(p) PROVE Tenure'
  BY <1>29 DEF OtherAcquires, Tenure, Closers, Unreleased, Unopen, Named, Leased
<1>30. ASSUME NEW p \in Path, OtherReleases(p) PROVE Tenure'
  BY <1>30 DEF OtherReleases, Tenure, Closers, Unreleased, Unopen, Named, Leased
<1>31. ASSUME NEW p \in Path, Reconcile(p) PROVE Tenure'
  BY <1>31 DEF Reconcile, Tenure, Closers, Unreleased, Unopen, Named, Leased
<1>32. CASE Crash
  BY <1>32, CrashDoes DEF Tenure, Closers, Unreleased, Unopen, Named, Leased, Closes
<1>33. CASE UNCHANGED vars
  BY <1>33 DEF vars, fileVars, history, Tenure, Closers, Unreleased, Unopen, Named, Leased
<1> QED BY <1>1, <1>2, <1>3, <1>4, <1>5, <1>6, <1>7, <1>8, <1>9, <1>10, <1>11, <1>12, <1>13,
           <1>14, <1>15, <1>16, <1>17, <1>18, <1>19, <1>20, <1>21, <1>22, <1>23, <1>24, <1>25,
           <1>26, <1>27, <1>28, <1>29, <1>30, <1>31, <1>32, <1>33, PlainSteps DEF Next, Start,
           Continue, Turn, Save, Rebuild, Close, Open

\* A lease that is ours is the lease of a session, or about to be one's.
Keys ==
    \A p \in Path : lock[p] = "ours" =>
        \/ \E s \in Session : sess[s].lease = p
        \/ \E r \in Request : req[r].pc \in {"assign", "read"} /\ req[r].at = p

LEMMA KeysKept ==
  ASSUME Keys, NEW r \in Request,
         \A q \in Request : q # r => req'[q] = req[q],
         req[r].pc \in {"assign", "read"} => req'[r] = req[r],
         \A s \in Session : sess'[s].lease = sess[s].lease,
         lock' = lock
  PROVE  Keys'
BY DEF Keys

LEMMA KeysStep ==
  ASSUME Goroutines, Objects, Others, Shape, Closing, Tenure, Keys, [Next]_vars
  PROVE  Keys'
<1>1. ASSUME NEW r \in Request, Plain(r) PROVE Keys'
  BY <1>1, KeysKept DEF Plain, SameObjects, SameLeases, Special, Moves, Opens
<1>2. ASSUME NEW r \in Request, Build(r) PROVE Keys'
  BY <1>2, BuildDoes, KeysKept DEF SameObjects, SameLeases
<1>3. ASSUME NEW r \in Request, Swap(r) PROVE Keys'
  BY <1>3, SwapDoes, KeysKept DEF SameObjects, SameLeases
<1>4. ASSUME NEW r \in Request, SwapRefused(r) PROVE Keys'
  BY <1>4, SwapRefusedDoes, KeysKept DEF SameObjects, SameLeases
<1>5. ASSUME NEW r \in Request, Recover(r) PROVE Keys'
  BY <1>5, RecoverDoes, KeysKept DEF SameObjects, SameLeases
<1>6. ASSUME NEW r \in Request, Follow(r) PROVE Keys'
  BY <1>6, FollowDoes, KeysKept DEF SameObjects, SameLeases
<1>7. ASSUME NEW r \in Request, Secure(r) PROVE Keys'
  <2>1. ASSUME NEW p \in Path, lock'[p] = "ours"
        PROVE  \/ \E s \in Session : sess'[s].lease = p
               \/ \E q \in Request : req'[q].pc \in {"assign", "read"} /\ req'[q].at = p
    <3>1. lock[p] = "ours" \/ (req'[r].pc \in {"assign", "read"} /\ req'[r].at = p)
      BY <1>7, <2>1, SecureDoes DEF Others
    <3>2. ASSUME NEW s \in Session, sess[s].lease = p
         PROVE  \/ sess'[s].lease = p
                \/ \E q \in Request : req'[q].pc \in {"assign", "read"} /\ req'[q].at = p
      BY <1>7, <3>2, SecureDoes DEF SameObjects, SameLeases
    <3>3. ASSUME NEW q \in Request, req[q].pc \in {"assign", "read"}, req[q].at = p
          PROVE  \/ \E s \in Session : sess'[s].lease = p
                 \/ \E u \in Request : req'[u].pc \in {"assign", "read"} /\ req'[u].at = p
      BY <1>7, <3>3, SecureDoes
    <3> QED BY <3>1, <3>2, <3>3 DEF Keys
  <2> QED BY <2>1 DEF Keys
<1>8. ASSUME NEW r \in Request, Assign(r) PROVE Keys'
  <2>1. ASSUME NEW p \in Path, lock'[p] = "ours"
        PROVE  \/ \E s \in Session : sess'[s].lease = p
               \/ \E q \in Request : req'[q].pc \in {"assign", "read"} /\ req'[q].at = p
    <3>1. CASE Unlock(req[r].at) /\ SameObjects
      <4>1. lock[p] = "ours" /\ p # req[r].at
        BY <1>8, <2>1, <3>1, AssignDoes, Paths DEF Others, Unlock
      <4> QED BY <1>8, <3>1, <4>1, AssignDoes DEF Keys, SameObjects, SameLeases
    <3>2. CASE Unlock(sess[req[r].to].lease) /\ sess'[req[r].to].lease = req[r].at
               /\ \A s \in Session : s # req[r].to => sess'[s] = sess[s]
      <4>1. lock[p] = "ours" /\ p # sess[req[r].to].lease
        BY <1>8, <2>1, <3>2, AssignDoes, Paths DEF Others, Unlock, Objects, Object
      <4> QED BY <1>8, <3>2, <4>1, AssignDoes DEF Keys
    <3> QED BY <1>8, <3>1, <3>2, AssignDoes
  <2> QED BY <2>1 DEF Keys
<1>9. ASSUME NEW r \in Request, Redirect(r) PROVE Keys'
  BY <1>9, RedirectDoes, KeysKept DEF SameObjects, SameLeases
<1>10. ASSUME NEW r \in Request, Commit(r) PROVE Keys'
  BY <1>10, CommitDoes, KeysKept DEF SameObjects, SameLeases
<1>11. ASSUME NEW r \in Request, Take(r) PROVE Keys'
  BY <1>11, TakeDoes, KeysKept DEF SameObjects, SameLeases
<1>12. ASSUME NEW r \in Request, Abort(r) PROVE Keys'
  BY <1>12, AbortDoes, KeysKept DEF SameObjects, SameLeases
<1>13. ASSUME NEW r \in Request, Waited(r) PROVE Keys'
  BY <1>13, WaitedDoes, KeysKept DEF SameObjects, SameLeases
<1>14. ASSUME NEW r \in Request, Shut(r) PROVE Keys'
  BY <1>14, ShutDoes, KeysKept DEF SameObjects, SameLeases
<1>15. ASSUME NEW r \in Request, Release(r) PROVE Keys'
  <2>1. ASSUME NEW p \in Path, lock'[p] = "ours"
        PROVE  \/ \E s \in Session : sess'[s].lease = p
               \/ \E q \in Request : req'[q].pc \in {"assign", "read"} /\ req'[q].at = p
    <3>1. lock[p] = "ours" /\ p # sess[req[r].on].lease
      BY <1>15, <2>1, ReleaseDoes, Paths DEF Others, Unlock, Objects, Object
    <3>2. ASSUME NEW s \in Session, sess[s].lease = p
         PROVE  \/ sess'[s].lease = p
                \/ \E q \in Request : req'[q].pc \in {"assign", "read"} /\ req'[q].at = p
      BY <1>15, <3>1, <3>2, ReleaseDoes
    <3>3. ASSUME NEW q \in Request, req[q].pc \in {"assign", "read"}, req[q].at = p
          PROVE  \/ \E s \in Session : sess'[s].lease = p
                 \/ \E u \in Request : req'[u].pc \in {"assign", "read"} /\ req'[u].at = p
      BY <1>15, <3>3, ReleaseDoes
    <3> QED BY <3>1, <3>2, <3>3 DEF Keys
  <2> QED BY <2>1 DEF Keys
<1>16. ASSUME NEW r \in Request, Destroy(r) PROVE Keys'
  BY <1>16, DestroyDoes, KeysKept DEF SameObjects, SameLeases
<1>17. ASSUME NEW r \in Request, DeleteClosed(r) PROVE Keys'
  BY <1>17, DeleteClosedDoes, KeysKept DEF SameObjects, SameLeases
<1>18. ASSUME NEW r \in Request, Erase(r) PROVE Keys'
  BY <1>18, EraseDoes, KeysKept DEF SameObjects, SameLeases
<1>19. ASSUME NEW r \in Request, Twin(r) PROVE Keys'
  BY <1>19, TwinDoes, KeysKept DEF SameObjects, SameLeases
<1>20. ASSUME NEW r \in Request, Linger(r) PROVE Keys'
  BY <1>20, LingerDoes, KeysKept DEF SameObjects, SameLeases
<1>21. ASSUME NEW r \in Request, Load(r) PROVE Keys'
  BY <1>21, LoadDoes, KeysKept DEF SameObjects, SameLeases
<1>22. ASSUME NEW r \in Request, ResolveAgain(r) PROVE Keys'
  BY <1>22, ResolveAgainDoes, KeysKept DEF SameObjects, SameLeases
<1>23. ASSUME NEW r \in Request, Acquire(r) PROVE Keys'
  <2>1. ASSUME NEW p \in Path, lock'[p] = "ours"
        PROVE  \/ \E s \in Session : sess'[s].lease = p
               \/ \E q \in Request : req'[q].pc \in {"assign", "read"} /\ req'[q].at = p
    <3>1. lock[p] = "ours" \/ (req'[r].pc \in {"assign", "read"} /\ req'[r].at = p)
      BY <1>23, <2>1, AcquireDoes DEF Others
    <3>2. ASSUME NEW s \in Session, sess[s].lease = p
         PROVE  \/ sess'[s].lease = p
                \/ \E q \in Request : req'[q].pc \in {"assign", "read"} /\ req'[q].at = p
      BY <1>23, <3>2, AcquireDoes DEF SameObjects, SameLeases
    <3>3. ASSUME NEW q \in Request, req[q].pc \in {"assign", "read"}, req[q].at = p
          PROVE  \/ \E s \in Session : sess'[s].lease = p
                 \/ \E u \in Request : req'[u].pc \in {"assign", "read"} /\ req'[u].at = p
      BY <1>23, <3>3, AcquireDoes
    <3> QED BY <3>1, <3>2, <3>3 DEF Keys
  <2> QED BY <2>1 DEF Keys
<1>24. ASSUME NEW r \in Request, Read(r) PROVE Keys'
  <2>1. ASSUME NEW p \in Path, lock'[p] = "ours"
        PROVE  \/ \E s \in Session : sess'[s].lease = p
               \/ \E q \in Request : req'[q].pc \in {"assign", "read"} /\ req'[q].at = p
    <3>1. lock[p] = "ours" /\ sess[req[r].on].lease = None
      BY <1>24, <2>1, ReadDoes DEF Tenure, Named, Unopen, Leased
    <3>2. ASSUME NEW s \in Session, sess[s].lease = p
         PROVE  \/ sess'[s].lease = p
                \/ \E q \in Request : req'[q].pc \in {"assign", "read"} /\ req'[q].at = p
      BY <1>24, <3>1, <3>2, ReadDoes, Paths
    <3>3. ASSUME NEW q \in Request, req[q].pc \in {"assign", "read"}, req[q].at = p
          PROVE  \/ \E s \in Session : sess'[s].lease = p
                 \/ \E u \in Request : req'[u].pc \in {"assign", "read"} /\ req'[u].at = p
      BY <1>24, <3>3, ReadDoes
    <3> QED BY <3>1, <3>2, <3>3 DEF Keys
  <2> QED BY <2>1 DEF Keys
<1>25. ASSUME NEW r \in Request, ReadFails(r) PROVE Keys'
  <2>1. ASSUME NEW p \in Path, lock'[p] = "ours"
        PROVE  \/ \E s \in Session : sess'[s].lease = p
               \/ \E q \in Request : req'[q].pc \in {"assign", "read"} /\ req'[q].at = p
    <3>1. lock[p] = "ours" /\ p # req[r].at
      BY <1>25, <2>1, ReadFailsDoes DEF Others
    <3>2. ASSUME NEW s \in Session, sess[s].lease = p
         PROVE  \/ sess'[s].lease = p
                \/ \E q \in Request : req'[q].pc \in {"assign", "read"} /\ req'[q].at = p
      BY <1>25, <3>2, ReadFailsDoes DEF SameObjects, SameLeases
    <3>3. ASSUME NEW q \in Request, req[q].pc \in {"assign", "read"}, req[q].at = p
          PROVE  \/ \E s \in Session : sess'[s].lease = p
                 \/ \E u \in Request : req'[u].pc \in {"assign", "read"} /\ req'[u].at = p
      BY <1>25, <3>1, <3>3, ReadFailsDoes
    <3> QED BY <3>1, <3>2, <3>3 DEF Keys
  <2> QED BY <2>1 DEF Keys
<1>26. ASSUME NEW r \in Request, LoadMeta(r) PROVE Keys'
  BY <1>26, LoadMetaDoes, KeysKept DEF SameObjects, SameLeases
<1>27. ASSUME NEW r \in Request, LoadMetaFails(r) PROVE Keys'
  <2>1. ASSUME NEW p \in Path, lock'[p] = "ours"
        PROVE  \/ \E s \in Session : sess'[s].lease = p
               \/ \E q \in Request : req'[q].pc \in {"assign", "read"} /\ req'[q].at = p
    <3>1. lock[p] = "ours" /\ p # req[r].at
      BY <1>27, <2>1, LoadMetaFailsDoes DEF Others
    <3>2. ASSUME NEW s \in Session, sess[s].lease = p
         PROVE  \/ sess'[s].lease = p
                \/ \E q \in Request : req'[q].pc \in {"assign", "read"} /\ req'[q].at = p
      BY <1>27, <3>1, <3>2, LoadMetaFailsDoes DEF Closing, Fresh, On
    <3>3. ASSUME NEW q \in Request, req[q].pc \in {"assign", "read"}, req[q].at = p
          PROVE  \/ \E s \in Session : sess'[s].lease = p
                 \/ \E u \in Request : req'[u].pc \in {"assign", "read"} /\ req'[u].at = p
      BY <1>27, <3>1, <3>3, LoadMetaFailsDoes
    <3> QED BY <3>1, <3>2, <3>3 DEF Keys
  <2> QED BY <2>1 DEF Keys
<1>28. ASSUME NEW r \in Request, Register(r) PROVE Keys'
  BY <1>28, RegisterDoes, KeysKept DEF SameObjects, SameLeases
<1>29. ASSUME NEW p \in Path, OtherAcquires(p) PROVE Keys'
  BY <1>29, Paths DEF OtherAcquires, Unlock, Keys, Others
<1>30. ASSUME NEW p \in Path, OtherReleases(p) PROVE Keys'
  BY <1>30, Paths DEF OtherReleases, Unlock, Keys, Others
<1>31. ASSUME NEW p \in Path, Reconcile(p) PROVE Keys'
  BY <1>31, Paths DEF Reconcile, Unlock, Keys, Others
<1>32. CASE Crash
  BY <1>32, CrashDoes DEF Keys
<1>33. CASE UNCHANGED vars
  BY <1>33 DEF vars, fileVars, history, Keys
<1> QED BY <1>1, <1>2, <1>3, <1>4, <1>5, <1>6, <1>7, <1>8, <1>9, <1>10, <1>11, <1>12, <1>13,
           <1>14, <1>15, <1>16, <1>17, <1>18, <1>19, <1>20, <1>21, <1>22, <1>23, <1>24, <1>25,
           <1>26, <1>27, <1>28, <1>29, <1>30, <1>31, <1>32, <1>33, PlainSteps DEF Next, Start,
           Continue, Turn, Save, Rebuild, Close, Open
-----------------------------------------------------------------------------
(***************************************************************************)
(* One session of the id has a lease, and a save moves its own session:    *)
(* whoever closes the session waits for the turn or the maintenance that   *)
(* saves it.                                                               *)
(***************************************************************************)

\* But for the ways around the protocol one session holds a lease at a time, the
\* open one, one that is being closed, or one that is being opened; and whoever
\* moves a session to a recovery moves his own, which nobody closes under him.
Regular == Clean({"usurped"}) /\ (Clean({"late"}) \/ Clean({"unfollowed"}))

\* A save that has been told which session follows it.
Steered(r) ==
    \/ req[r].pc \in {"secure", "assign", "redirect"}
    \/ req[r].pc = "commit" /\ Clean({"unfollowed"})

\* What a close waits for when q saves: its turn, or its maintenance.
Ticket(r) == <<IF req[r].phase = "rebuild" THEN "maint" ELSE "turn", r>>
Waits(q, r) ==
    req[q].on = req[r].on /\ req[q].pc \in Closes =>
        req[q].pc = "abort" \/ (req[q].pc = "wait" /\ Ticket(r) \in waits[q])

\* It is the session the save is for, and whoever closes that session waits.
Pinned(r) ==
    Steered(r) => /\ req[r].to = req[r].on /\ Leased(req[r].on)
                  /\ \A q \in Request : Waits(q, r)

\* One session of the id has a lease, and it is the live one but while it is being
\* closed or opened.
Single == \A s, t \in Session : Leased(s) /\ Leased(t) => s = t
Minded(s) ==
    Leased(s) => live = s \/ \E r \in Request :
        req[r].on = s /\ req[r].pc \in {"abort", "wait", "shut", "release", "meta", "register"}
Holding ==
    /\ Regular => Single /\ \A s \in Session : Minded(s)
    /\ Regular \/ Clean({"unfollowed"}) => \A r \in Request : Pinned(r)

LEMMA RegularBefore ==
  ASSUME Goroutines, Objects, Others, Shape, [Next]_vars
  PROVE  /\ Regular' => Regular
         /\ \A ways : Clean(ways)' => Clean(ways)
BY MissesStay DEF Regular, Clean

LEMMA WorkersLeased ==
  ASSUME Goroutines, Objects, Shape, Work, Closing, Clean({"late"}),
         NEW r \in Request, Turning(r) \/ Rebuilding(r)
  PROVE  req[r].on \in Session /\ Leased(req[r].on)
<1>1. req[r].on \in Session
  BY WorksOn
<1>2. ~Idle(sess[req[r].on])
  BY <1>1, Paths DEF Work, Holds, Idle, On
<1> QED BY <1>1, <1>2 DEF Closing, Served, Leased

LEMMA SingleKept ==
  ASSUME Single, \A s \in Session : sess'[s].lease # None => sess[s].lease # None
  PROVE  Single'
BY DEF Single, Leased

LEMMA SingleStep ==
  ASSUME Goroutines, Objects, Others, Shape, Closing, Tenure, Holding, Regular', [Next]_vars
  PROVE  Single'
<1>a. Single
  BY RegularBefore DEF Holding
<1>b. \A r \in Request : Pinned(r)
  BY RegularBefore DEF Holding
<1>1. ASSUME NEW r \in Request, Plain(r) PROVE Single'
  BY <1>1, <1>a, SingleKept DEF Plain, SameObjects, SameLeases
<1>2. ASSUME NEW r \in Request, Build(r) PROVE Single'
  BY <1>2, BuildDoes, <1>a, SingleKept DEF SameObjects, SameLeases
<1>3. ASSUME NEW r \in Request, Swap(r) PROVE Single'
  BY <1>3, SwapDoes, <1>a, SingleKept DEF SameObjects, SameLeases
<1>4. ASSUME NEW r \in Request, SwapRefused(r) PROVE Single'
  BY <1>4, SwapRefusedDoes, <1>a, SingleKept DEF SameObjects, SameLeases
<1>5. ASSUME NEW r \in Request, Recover(r) PROVE Single'
  BY <1>5, RecoverDoes, <1>a, SingleKept DEF SameObjects, SameLeases
<1>6. ASSUME NEW r \in Request, Follow(r) PROVE Single'
  BY <1>6, FollowDoes, <1>a, SingleKept DEF SameObjects, SameLeases
<1>7. ASSUME NEW r \in Request, Secure(r) PROVE Single'
  BY <1>7, SecureDoes, <1>a, SingleKept DEF SameObjects, SameLeases
<1>8. ASSUME NEW r \in Request, Assign(r) PROVE Single'
  BY <1>8, <1>a, <1>b, AssignDoes, SingleKept DEF Pinned, Steered, Leased, SameObjects,
     SameLeases
<1>9. ASSUME NEW r \in Request, Redirect(r) PROVE Single'
  BY <1>9, RedirectDoes, <1>a, SingleKept DEF SameObjects, SameLeases
<1>10. ASSUME NEW r \in Request, Commit(r) PROVE Single'
  BY <1>10, CommitDoes, <1>a, SingleKept DEF SameObjects, SameLeases
<1>11. ASSUME NEW r \in Request, Take(r) PROVE Single'
  BY <1>11, TakeDoes, <1>a, SingleKept DEF SameObjects, SameLeases
<1>12. ASSUME NEW r \in Request, Abort(r) PROVE Single'
  BY <1>12, AbortDoes, <1>a, SingleKept DEF SameObjects, SameLeases
<1>13. ASSUME NEW r \in Request, Waited(r) PROVE Single'
  BY <1>13, WaitedDoes, <1>a, SingleKept DEF SameObjects, SameLeases
<1>14. ASSUME NEW r \in Request, Shut(r) PROVE Single'
  BY <1>14, ShutDoes, <1>a, SingleKept DEF SameObjects, SameLeases
<1>15. ASSUME NEW r \in Request, Release(r) PROVE Single'
  BY <1>15, ReleaseDoes, <1>a, SingleKept DEF SameObjects, SameLeases
<1>16. ASSUME NEW r \in Request, Destroy(r) PROVE Single'
  BY <1>16, DestroyDoes, <1>a, SingleKept DEF SameObjects, SameLeases
<1>17. ASSUME NEW r \in Request, DeleteClosed(r) PROVE Single'
  BY <1>17, DeleteClosedDoes, <1>a, SingleKept DEF SameObjects, SameLeases
<1>18. ASSUME NEW r \in Request, Erase(r) PROVE Single'
  BY <1>18, EraseDoes, <1>a, SingleKept DEF SameObjects, SameLeases
<1>19. ASSUME NEW r \in Request, Twin(r) PROVE Single'
  BY <1>19, TwinDoes, <1>a, SingleKept DEF SameObjects, SameLeases
<1>20. ASSUME NEW r \in Request, Linger(r) PROVE Single'
  BY <1>20, LingerDoes, <1>a, SingleKept DEF SameObjects, SameLeases
<1>21. ASSUME NEW r \in Request, Load(r) PROVE Single'
  BY <1>21, LoadDoes, <1>a, SingleKept DEF SameObjects, SameLeases
<1>22. ASSUME NEW r \in Request, ResolveAgain(r) PROVE Single'
  BY <1>22, ResolveAgainDoes, <1>a, SingleKept DEF SameObjects, SameLeases
<1>23. ASSUME NEW r \in Request, Acquire(r) PROVE Single'
  BY <1>23, AcquireDoes, <1>a, SingleKept DEF SameObjects, SameLeases
<1>24. ASSUME NEW r \in Request, Read(r) PROVE Single'
  BY <1>24, <1>a, ReadDoes DEF Single, Leased, Regular, Clean
<1>25. ASSUME NEW r \in Request, ReadFails(r) PROVE Single'
  BY <1>25, ReadFailsDoes, <1>a, SingleKept DEF SameObjects, SameLeases
<1>26. ASSUME NEW r \in Request, LoadMeta(r) PROVE Single'
  BY <1>26, LoadMetaDoes, <1>a, SingleKept DEF SameObjects, SameLeases
<1>27. ASSUME NEW r \in Request, LoadMetaFails(r) PROVE Single'
  BY <1>27, LoadMetaFailsDoes, <1>a, SingleKept DEF SameObjects, SameLeases
<1>28. ASSUME NEW r \in Request, Register(r) PROVE Single'
  BY <1>28, RegisterDoes, <1>a, SingleKept DEF SameObjects, SameLeases
<1>29. ASSUME NEW p \in Path, OtherAcquires(p) PROVE Single'
  BY <1>29, <1>a, SingleKept DEF OtherAcquires
<1>30. ASSUME NEW p \in Path, OtherReleases(p) PROVE Single'
  BY <1>30, <1>a, SingleKept DEF OtherReleases
<1>31. ASSUME NEW p \in Path, Reconcile(p) PROVE Single'
  BY <1>31, <1>a, SingleKept DEF Reconcile
<1>32. CASE Crash
  BY <1>32, CrashDoes DEF Single, Leased
<1>33. CASE UNCHANGED vars
  BY <1>33, <1>a, SingleKept DEF vars
<1> QED BY <1>1, <1>2, <1>3, <1>4, <1>5, <1>6, <1>7, <1>8, <1>9, <1>10, <1>11, <1>12, <1>13,
           <1>14, <1>15, <1>16, <1>17, <1>18, <1>19, <1>20, <1>21, <1>22, <1>23, <1>24, <1>25,
           <1>26, <1>27, <1>28, <1>29, <1>30, <1>31, <1>32, <1>33, PlainSteps DEF Next, Start,
           Continue, Turn, Save, Rebuild, Close, Open

\* The steps of a close and of a load on whose behalf a session has its lease.
Minding(r) == req[r].pc \in {"abort", "wait", "shut", "release", "meta", "register"}

LEMMA MindedKept ==
  ASSUME \A s \in Session : Minded(s), NEW r \in Request,
         \A q \in Request : q # r => req'[q] = req[q],
         Minding(r) => Minding(r)' /\ req'[r].on = req[r].on,
         live' = live,
         \A s \in Session : sess'[s].lease # None => sess[s].lease # None
  PROVE  \A s \in Session : Minded(s)'
BY DEF Minded, Minding, Leased

LEMMA PinnedKept ==
  ASSUME Goroutines, Shape, \A q \in Request : Pinned(q), NEW r \in Request,
         \A q \in Request : q # r => req'[q] = req[q],
         amiss \subseteq amiss',
         \A s \in Session : sess[s].lease # None => sess'[s].lease # None,
         \A q, p \in Request : \A k \in {"turn", "maint"} :
             q # r /\ p # r => (<<k, p>> \in waits[q] => <<k, p>> \in waits'[q]),
         \A q \in Request : q # r /\ Steered(q) /\ Pinned(q) => Waits(r, q)',
         Pinned(r)'
  PROVE  \A q \in Request : Pinned(q)'
<1> SUFFICES ASSUME NEW q \in Request, q # r, Steered(q)' PROVE Pinned(q)'
  BY DEF Pinned
<1>1. Steered(q) /\ req'[q] = req[q]
  BY DEF Steered, Clean
<1>2. req[q].on \in Session
  BY <1>1, Sessions DEF Steered, Saves
<1>3. ASSUME NEW p \in Request, p # r PROVE Waits(p, q)'
  <2>1. Waits(p, q)
    BY <1>1 DEF Pinned
  <2> QED BY <1>1, <1>3, <2>1 DEF Waits, Ticket
<1> QED BY <1>1, <1>2, <1>3 DEF Pinned, Leased

LEMMA MindedStep ==
  ASSUME Goroutines, Objects, Others, Shape, Closing, Tenure, Holding, Regular', [Next]_vars
  PROVE  (\A s \in Session : Minded(s))'
<1>a. Single
  BY RegularBefore DEF Holding
<1>b. \A s \in Session : Minded(s)
  BY RegularBefore DEF Holding
<1>c. \A r \in Request : Pinned(r)
  BY RegularBefore DEF Holding
<1>1. ASSUME NEW r \in Request, Plain(r) PROVE (\A s \in Session : Minded(s))'
  BY <1>1, <1>b, MindedKept DEF Plain, SameObjects, SameLeases, Minding, Special, Closes, Opens
<1>2. ASSUME NEW r \in Request, Build(r) PROVE (\A s \in Session : Minded(s))'
  BY <1>2, BuildDoes, <1>b, MindedKept DEF SameObjects, SameLeases, Minding
<1>3. ASSUME NEW r \in Request, Swap(r) PROVE (\A s \in Session : Minded(s))'
  BY <1>3, SwapDoes, <1>b, MindedKept DEF SameObjects, SameLeases, Minding
<1>4. ASSUME NEW r \in Request, SwapRefused(r) PROVE (\A s \in Session : Minded(s))'
  BY <1>4, SwapRefusedDoes, <1>b, MindedKept DEF SameObjects, SameLeases, Minding
<1>5. ASSUME NEW r \in Request, Recover(r) PROVE (\A s \in Session : Minded(s))'
  BY <1>5, RecoverDoes, <1>b, MindedKept DEF SameObjects, SameLeases, Minding
<1>6. ASSUME NEW r \in Request, Follow(r) PROVE (\A s \in Session : Minded(s))'
  BY <1>6, FollowDoes, <1>b, MindedKept DEF SameObjects, SameLeases, Minding
<1>7. ASSUME NEW r \in Request, Secure(r) PROVE (\A s \in Session : Minded(s))'
  BY <1>7, SecureDoes, <1>b, MindedKept DEF SameObjects, SameLeases, Minding
<1>8. ASSUME NEW r \in Request, Assign(r) PROVE (\A s \in Session : Minded(s))'
  BY <1>8, <1>b, <1>c, AssignDoes, MindedKept DEF Pinned, Steered, Leased, SameObjects,
     SameLeases, Minding
<1>9. ASSUME NEW r \in Request, Redirect(r) PROVE (\A s \in Session : Minded(s))'
  BY <1>9, RedirectDoes, <1>b, MindedKept DEF SameObjects, SameLeases, Minding
<1>10. ASSUME NEW r \in Request, Commit(r) PROVE (\A s \in Session : Minded(s))'
  BY <1>10, CommitDoes, <1>b, MindedKept DEF SameObjects, SameLeases, Minding
<1>11. ASSUME NEW r \in Request, Take(r) PROVE (\A s \in Session : Minded(s))'
  BY <1>11, <1>b, TakeDoes DEF Minded, Leased, SameObjects, SameLeases
<1>12. ASSUME NEW r \in Request, Abort(r) PROVE (\A s \in Session : Minded(s))'
  BY <1>12, AbortDoes, <1>b, MindedKept DEF SameObjects, SameLeases, Minding
<1>13. ASSUME NEW r \in Request, Waited(r) PROVE (\A s \in Session : Minded(s))'
  BY <1>13, WaitedDoes, <1>b, MindedKept DEF SameObjects, SameLeases, Minding
<1>14. ASSUME NEW r \in Request, Shut(r) PROVE (\A s \in Session : Minded(s))'
  BY <1>14, ShutDoes, <1>b, MindedKept DEF SameObjects, SameLeases, Minding
<1>15. ASSUME NEW r \in Request, Release(r) PROVE (\A s \in Session : Minded(s))'
  <2>1. ASSUME NEW s \in Session, Leased(s)' PROVE Leased(s) /\ s # req[r].on
    BY <1>15, <2>1, ReleaseDoes DEF Leased
  <2> QED BY <1>15, <1>b, <2>1, ReleaseDoes DEF Minded
<1>16. ASSUME NEW r \in Request, Destroy(r) PROVE (\A s \in Session : Minded(s))'
  BY <1>16, DestroyDoes, <1>b, MindedKept DEF SameObjects, SameLeases, Minding
<1>17. ASSUME NEW r \in Request, DeleteClosed(r) PROVE (\A s \in Session : Minded(s))'
  BY <1>17, DeleteClosedDoes, <1>b, MindedKept DEF SameObjects, SameLeases, Minding
<1>18. ASSUME NEW r \in Request, Erase(r) PROVE (\A s \in Session : Minded(s))'
  BY <1>18, EraseDoes, <1>b, MindedKept DEF SameObjects, SameLeases, Minding
<1>19. ASSUME NEW r \in Request, Twin(r) PROVE (\A s \in Session : Minded(s))'
  BY <1>19, TwinDoes, <1>b, MindedKept DEF SameObjects, SameLeases, Minding
<1>20. ASSUME NEW r \in Request, Linger(r) PROVE (\A s \in Session : Minded(s))'
  BY <1>20, LingerDoes, <1>b, MindedKept DEF SameObjects, SameLeases, Minding
<1>21. ASSUME NEW r \in Request, Load(r) PROVE (\A s \in Session : Minded(s))'
  BY <1>21, LoadDoes, <1>b, MindedKept DEF SameObjects, SameLeases, Minding
<1>22. ASSUME NEW r \in Request, ResolveAgain(r) PROVE (\A s \in Session : Minded(s))'
  BY <1>22, ResolveAgainDoes, <1>b, MindedKept DEF SameObjects, SameLeases, Minding
<1>23. ASSUME NEW r \in Request, Acquire(r) PROVE (\A s \in Session : Minded(s))'
  BY <1>23, AcquireDoes, <1>b, MindedKept DEF SameObjects, SameLeases, Minding
<1>24. ASSUME NEW r \in Request, Read(r) PROVE (\A s \in Session : Minded(s))'
  <2>1. ASSUME NEW s \in Session, Leased(s)' PROVE s = req[r].on
    BY <1>24, <2>1, ReadDoes DEF Leased, Regular, Clean
  <2> QED BY <1>24, <2>1, ReadDoes DEF Minded
<1>25. ASSUME NEW r \in Request, ReadFails(r) PROVE (\A s \in Session : Minded(s))'
  BY <1>25, ReadFailsDoes, <1>b, MindedKept DEF SameObjects, SameLeases, Minding
<1>26. ASSUME NEW r \in Request, LoadMeta(r) PROVE (\A s \in Session : Minded(s))'
  BY <1>26, LoadMetaDoes, <1>b, MindedKept DEF SameObjects, SameLeases, Minding
<1>27. ASSUME NEW r \in Request, LoadMetaFails(r) PROVE (\A s \in Session : Minded(s))'
  <2>1. ASSUME NEW s \in Session, Leased(s)' PROVE Leased(s) /\ s # req[r].on
    BY <1>27, <2>1, LoadMetaFailsDoes DEF Leased
  <2> QED BY <1>27, <1>b, <2>1, LoadMetaFailsDoes DEF Minded
<1>28. ASSUME NEW r \in Request, Register(r) PROVE (\A s \in Session : Minded(s))'
  <2>1. Leased(req[r].on)
    BY <1>28, RegisterDoes, Paths DEF Closing, Fresh, Leased, On, Goroutines, Goroutine
  <2>2. ASSUME NEW s \in Session, Leased(s)' PROVE s = req[r].on
    BY <1>28, <1>a, <2>1, <2>2, RegisterDoes DEF Single, Leased, SameObjects, SameLeases
  <2> QED BY <1>28, <2>2, RegisterDoes DEF Minded
<1>29. ASSUME NEW p \in Path, OtherAcquires(p) PROVE (\A s \in Session : Minded(s))'
  BY <1>29, <1>b DEF OtherAcquires, Minded, Leased
<1>30. ASSUME NEW p \in Path, OtherReleases(p) PROVE (\A s \in Session : Minded(s))'
  BY <1>30, <1>b DEF OtherReleases, Minded, Leased
<1>31. ASSUME NEW p \in Path, Reconcile(p) PROVE (\A s \in Session : Minded(s))'
  BY <1>31, <1>b DEF Reconcile, Minded, Leased
<1>32. CASE Crash
  BY <1>32, CrashDoes DEF Minded, Leased
<1>33. CASE UNCHANGED vars
  BY <1>33, <1>b DEF vars, Minded, Leased
<1> QED BY <1>1, <1>2, <1>3, <1>4, <1>5, <1>6, <1>7, <1>8, <1>9, <1>10, <1>11, <1>12, <1>13,
           <1>14, <1>15, <1>16, <1>17, <1>18, <1>19, <1>20, <1>21, <1>22, <1>23, <1>24, <1>25,
           <1>26, <1>27, <1>28, <1>29, <1>30, <1>31, <1>32, <1>33, PlainSteps DEF Next, Start,
           Continue, Turn, Save, Rebuild, Close, Open

LEMMA PinnedStep ==
  ASSUME Goroutines, Objects, Others, Shape, Work, Closing, Tenure, Holding,
         Regular' \/ Clean({"unfollowed"})', [Next]_vars
  PROVE  (\A q \in Request : Pinned(q))'
<1>c. \A r \in Request : Pinned(r)
  BY RegularBefore DEF Holding
<1>d. \A ways : Clean(ways)' => Clean(ways)
  BY RegularBefore
<1>1. ASSUME NEW r \in Request, Plain(r) PROVE (\A q \in Request : Pinned(q))'
  <2>1. Pinned(r)'
    <3>1. CASE req'[r] = req[r] /\ req[r].pc \in Special
      <4> SUFFICES ASSUME Steered(r)' PROVE Pinned(r)'
        BY DEF Pinned
      <4>1. Steered(r) /\ req[r].on \in Session
        BY <3>1, Sessions, <1>d DEF Steered, Clean, Saves
      <4>2. req'[r].to = req'[r].on /\ sess'[req'[r].on].lease # None
        BY <1>1, <1>c, <3>1, <4>1 DEF Plain, Pinned, Leased, SameObjects, SameLeases
      <4>3. ASSUME NEW q \in Request PROVE Waits(q, r)'
        <5>1. Waits(q, r)
          BY <1>c, <4>1 DEF Pinned
        <5>2. req'[q] = req[q] /\ (Ticket(r) \in waits[q] => Ticket(r) \in waits'[q])
          BY <1>1, <3>1 DEF Plain, Ticket
        <5> QED BY <3>1, <5>1, <5>2 DEF Waits, Ticket
      <4> QED BY <4>2, <4>3 DEF Pinned, Leased
    <3>2. CASE req'[r].pc \notin Special
      BY <3>2 DEF Pinned, Steered, Special, Moves
    <3> QED BY <1>1, <3>1, <3>2 DEF Plain
  <2>2. ASSUME NEW q \in Request, q # r, Steered(q), Pinned(q) PROVE Waits(r, q)'
    <3>1. CASE req'[r] = req[r]
      BY <1>1, <2>2, <3>1 DEF Plain, Pinned, Waits, Ticket
    <3>2. CASE req'[r].pc \notin Special
      BY <3>2 DEF Waits, Special
    <3> QED BY <1>1, <3>1, <3>2 DEF Plain
  <2>3. \A s \in Session : sess[s].lease # None => sess'[s].lease # None
    BY <1>1, Paths DEF Plain, SameObjects, SameLeases
  <2> QED BY <1>1, <1>c, <2>1, <2>2, <2>3, PinnedKept DEF Plain
<1>2. ASSUME NEW r \in Request, Build(r) PROVE (\A q \in Request : Pinned(q))'
  <2>1. Pinned(r)'
    BY <1>2, BuildDoes DEF Pinned, Steered
  <2>2. \A q \in Request : q # r /\ Steered(q) /\ Pinned(q) => Waits(r, q)'
    BY <1>2, BuildDoes DEF Waits, Closes
  <2>3. \A s \in Session : sess[s].lease # None => sess'[s].lease # None
    BY <1>2, BuildDoes, Paths DEF SameObjects, SameLeases
  <2> QED BY <1>2, BuildDoes, <1>c, <2>1, <2>2, <2>3, PinnedKept
<1>3. ASSUME NEW r \in Request, Swap(r) PROVE (\A q \in Request : Pinned(q))'
  <2>1. Pinned(r)'
    BY <1>3, SwapDoes DEF Pinned, Steered
  <2>2. \A q \in Request : q # r /\ Steered(q) /\ Pinned(q) => Waits(r, q)'
    BY <1>3, SwapDoes DEF Waits, Closes
  <2>3. \A s \in Session : sess[s].lease # None => sess'[s].lease # None
    BY <1>3, SwapDoes, Paths DEF SameObjects, SameLeases
  <2> QED BY <1>3, SwapDoes, <1>c, <2>1, <2>2, <2>3, PinnedKept
<1>4. ASSUME NEW r \in Request, SwapRefused(r) PROVE (\A q \in Request : Pinned(q))'
  <2>1. Pinned(r)'
    BY <1>4, SwapRefusedDoes DEF Pinned, Steered
  <2>2. \A q \in Request : q # r /\ Steered(q) /\ Pinned(q) => Waits(r, q)'
    BY <1>4, SwapRefusedDoes DEF Waits, Closes
  <2>3. \A s \in Session : sess[s].lease # None => sess'[s].lease # None
    BY <1>4, SwapRefusedDoes, Paths DEF SameObjects, SameLeases
  <2> QED BY <1>4, SwapRefusedDoes, <1>c, <2>1, <2>2, <2>3, PinnedKept
<1>5. ASSUME NEW r \in Request, Recover(r) PROVE (\A q \in Request : Pinned(q))'
  <2>1. Pinned(r)'
    BY <1>5, RecoverDoes DEF Pinned, Steered
  <2>2. \A q \in Request : q # r /\ Steered(q) /\ Pinned(q) => Waits(r, q)'
    BY <1>5, RecoverDoes DEF Waits, Closes
  <2>3. \A s \in Session : sess[s].lease # None => sess'[s].lease # None
    BY <1>5, RecoverDoes, Paths DEF SameObjects, SameLeases
  <2> QED BY <1>5, RecoverDoes, <1>c, <2>1, <2>2, <2>3, PinnedKept
<1>6. ASSUME NEW r \in Request, Follow(r) PROVE (\A q \in Request : Pinned(q))'
  <2>1. req[r].on \in Session /\ req[r].on # None /\ (Turning(r) \/ Rebuilding(r))
    BY <1>6, FollowDoes, Saver, Paths DEF Saves
  <2>2. live = req[r].on \/ ~Steered(r)'
    <3>1. CASE Clean({"unfollowed"})'
      BY <1>6, <3>1, FollowDoes DEF Clean
    <3>2. CASE Regular' /\ live = None
      BY <1>6, <3>1, <3>2, FollowDoes DEF Steered
    <3>3. CASE Regular' /\ live # None /\ ~Clean({"unfollowed"})'
      <4>1. Clean({"late"}) /\ Single
        BY <1>6, <3>3, RegularBefore DEF Regular, Holding
      <4>2. Leased(req[r].on)
        BY <2>1, <4>1, WorkersLeased
      <4>3. live \in Session /\ Leased(live)
        BY <3>3 DEF Others, Closing, Alive, Leased
      <4> QED BY <2>1, <4>1, <4>2, <4>3 DEF Single
    <3> QED BY <3>1, <3>2, <3>3
  <2>3. ASSUME live = req[r].on PROVE Pinned(r)'
    <3>1. Leased(live) /\ \A q \in Request : req[q].pc \in Closes => req[q].on # live
      BY <2>1, <2>3 DEF Closing, Alive, Gone, Leased
    <3> QED BY <1>6, <2>1, <2>3, <3>1, FollowDoes DEF Pinned, Waits, Leased, SameObjects,
               SameLeases, Closes
  <2>4. Pinned(r)'
    BY <2>2, <2>3 DEF Pinned
  <2>5. \A q \in Request : q # r /\ Steered(q) /\ Pinned(q) => Waits(r, q)'
    BY <1>6, FollowDoes DEF Waits, Closes
  <2> QED BY <1>6, <1>c, <2>4, <2>5, FollowDoes, PinnedKept DEF SameObjects, SameLeases
<1>7. ASSUME NEW r \in Request, Secure(r) PROVE (\A q \in Request : Pinned(q))'
  <2>1. Steered(r)' => Steered(r)
    BY <1>7, <1>d, SecureDoes DEF Steered
  <2>2. \A s \in Session : sess[s].lease # None => sess'[s].lease # None
    BY <1>7, SecureDoes, Paths DEF SameObjects, SameLeases
  <2>3. Pinned(r)'
    BY <1>7, <1>c, <2>1, <2>2, SecureDoes DEF Pinned, Leased, Waits, Ticket, Closes
  <2>4. \A q \in Request : q # r /\ Steered(q) /\ Pinned(q) => Waits(r, q)'
    BY <1>7, SecureDoes DEF Waits, Closes
  <2> QED BY <1>7, <1>c, SecureDoes, <2>2, <2>3, <2>4, PinnedKept
<1>8. ASSUME NEW r \in Request, Assign(r) PROVE (\A q \in Request : Pinned(q))'
  <2>1. Steered(r)' => Steered(r)
    BY <1>8, <1>d, AssignDoes DEF Steered
  <2>2. \A s \in Session : sess[s].lease # None => sess'[s].lease # None
    BY <1>8, AssignDoes, Paths DEF SameObjects, SameLeases
  <2>3. Pinned(r)'
    BY <1>8, <1>c, <2>1, <2>2, AssignDoes DEF Pinned, Leased, Waits, Ticket, Closes
  <2>4. \A q \in Request : q # r /\ Steered(q) /\ Pinned(q) => Waits(r, q)'
    BY <1>8, AssignDoes DEF Waits, Closes
  <2> QED BY <1>8, <1>c, AssignDoes, <2>2, <2>3, <2>4, PinnedKept
<1>9. ASSUME NEW r \in Request, Redirect(r) PROVE (\A q \in Request : Pinned(q))'
  <2>1. Steered(r)' => Steered(r)
    BY <1>9, <1>d, RedirectDoes DEF Steered
  <2>2. \A s \in Session : sess[s].lease # None => sess'[s].lease # None
    BY <1>9, RedirectDoes, Paths DEF SameObjects, SameLeases
  <2>3. Pinned(r)'
    BY <1>9, <1>c, <2>1, <2>2, RedirectDoes DEF Pinned, Leased, Waits, Ticket, Closes
  <2>4. \A q \in Request : q # r /\ Steered(q) /\ Pinned(q) => Waits(r, q)'
    BY <1>9, RedirectDoes DEF Waits, Closes
  <2> QED BY <1>9, <1>c, RedirectDoes, <2>2, <2>3, <2>4, PinnedKept
<1>10. ASSUME NEW r \in Request, Commit(r) PROVE (\A q \in Request : Pinned(q))'
  <2>1. Pinned(r)'
    BY <1>10, CommitDoes DEF Pinned, Steered
  <2>2. \A q \in Request : q # r /\ Steered(q) /\ Pinned(q) => Waits(r, q)'
    BY <1>10, CommitDoes DEF Waits, Closes
  <2> QED BY <1>10, <1>c, <2>1, <2>2, CommitDoes, PinnedKept DEF SameObjects, SameLeases
<1>11. ASSUME NEW r \in Request, Take(r) PROVE (\A q \in Request : Pinned(q))'
  <2>1. Pinned(r)'
    BY <1>11, TakeDoes DEF Pinned, Steered
  <2>2. \A q \in Request : q # r /\ Steered(q) /\ Pinned(q) => Waits(r, q)'
    BY <1>11, TakeDoes DEF Waits
  <2> QED BY <1>11, <1>c, <2>1, <2>2, TakeDoes, PinnedKept DEF SameObjects, SameLeases
<1>12. ASSUME NEW r \in Request, Abort(r) PROVE (\A q \in Request : Pinned(q))'
  <2>1. Pinned(r)'
    BY <1>12, AbortDoes DEF Pinned, Steered
  <2>2. ASSUME NEW q \in Request, q # r, Steered(q), Pinned(q) PROVE Waits(r, q)'
    <3>1. /\ Turning(q) => sess[req[q].on].turn = q
          /\ Rebuilding(q) => sess[req[q].on].maint = q
      BY DEF Work, Holds, On
    <3>2. IF req[q].phase = "rebuild" THEN Rebuilding(q) ELSE Turning(q)
      BY <2>2 DEF Steered, Shape, Located, Turning, Rebuilding, Saves
    <3>3. req'[q] = req[q] /\ q # None
      BY <1>12, <2>2, AbortDoes, Paths
    <3> QED BY <1>12, <3>1, <3>2, <3>3, AbortDoes DEF Waits, Ticket
  <2> QED BY <1>12, <1>c, <2>1, <2>2, AbortDoes, PinnedKept DEF SameObjects, SameLeases
<1>13. ASSUME NEW r \in Request, Waited(r) PROVE (\A q \in Request : Pinned(q))'
  <2>1. Pinned(r)'
    BY <1>13, WaitedDoes DEF Pinned, Steered
  <2>2. ASSUME NEW q \in Request, q # r, Steered(q), Pinned(q)
        PROVE  Waits(r, q)' /\ req[q].on # req[r].on
    <3>1. Waits(r, q) /\ req'[q] = req[q]
      BY <1>13, <2>2, WaitedDoes DEF Pinned
    <3> QED BY <1>13, <3>1, WaitedDoes DEF Waits, Closes
  <2> QED BY <1>13, <1>c, <2>1, <2>2, WaitedDoes, PinnedKept DEF SameObjects, SameLeases
<1>14. ASSUME NEW r \in Request, Shut(r) PROVE (\A q \in Request : Pinned(q))'
  <2>1. Pinned(r)'
    BY <1>14, ShutDoes DEF Pinned, Steered
  <2>2. ASSUME NEW q \in Request, q # r, Steered(q), Pinned(q)
        PROVE  Waits(r, q)' /\ req[q].on # req[r].on
    <3>1. Waits(r, q) /\ req'[q] = req[q]
      BY <1>14, <2>2, ShutDoes DEF Pinned
    <3> QED BY <1>14, <3>1, ShutDoes DEF Waits, Closes
  <2> QED BY <1>14, <1>c, <2>1, <2>2, ShutDoes, PinnedKept DEF SameObjects, SameLeases
<1>15. ASSUME NEW r \in Request, Release(r) PROVE (\A q \in Request : Pinned(q))'
  <2>1. ASSUME NEW q \in Request, Steered(q)'
        PROVE  /\ q # r /\ req'[q] = req[q] /\ Steered(q) /\ Pinned(q)
               /\ req[q].on \in Session /\ req[q].on # req[r].on
    <3>1. q # r /\ req'[q] = req[q]
      BY <1>15, <2>1, ReleaseDoes DEF Steered
    <3>2. Steered(q) /\ Pinned(q)
      BY <1>c, <1>d, <2>1, <3>1 DEF Steered
    <3>3. Waits(r, q)
      BY <3>2 DEF Pinned
    <3> QED BY <1>15, <3>1, <3>2, <3>3, ReleaseDoes, Sessions DEF Waits, Closes, Steered, Saves
  <2>2. ASSUME NEW q \in Request, Steered(q)' PROVE Pinned(q)'
    <3>1. ASSUME NEW p \in Request PROVE Waits(p, q)'
      <4>1. CASE p = r
        BY <1>15, <2>1, <2>2, <4>1, ReleaseDoes DEF Waits, Closes
      <4>2. CASE p # r
        <5>1. Waits(p, q) /\ req'[q] = req[q] /\ req'[p] = req[p] /\ waits' = waits
          BY <1>15, <2>1, <2>2, <4>2, ReleaseDoes DEF Pinned
        <5> QED BY <5>1 DEF Waits, Ticket
      <4> QED BY <4>1, <4>2
    <3> QED BY <1>15, <2>1, <2>2, <3>1, ReleaseDoes DEF Pinned, Leased
  <2> QED BY <2>2 DEF Pinned
<1>16. ASSUME NEW r \in Request, Destroy(r) PROVE (\A q \in Request : Pinned(q))'
  <2>1. Pinned(r)'
    BY <1>16, DestroyDoes DEF Pinned, Steered
  <2>2. \A q \in Request : q # r /\ Steered(q) /\ Pinned(q) => Waits(r, q)'
    BY <1>16, DestroyDoes DEF Waits, Closes
  <2>3. \A s \in Session : sess[s].lease # None => sess'[s].lease # None
    BY <1>16, DestroyDoes, Paths DEF SameObjects, SameLeases
  <2> QED BY <1>16, DestroyDoes, <1>c, <2>1, <2>2, <2>3, PinnedKept
<1>17. ASSUME NEW r \in Request, DeleteClosed(r) PROVE (\A q \in Request : Pinned(q))'
  <2>1. Pinned(r)'
    BY <1>17, DeleteClosedDoes DEF Pinned, Steered
  <2>2. \A q \in Request : q # r /\ Steered(q) /\ Pinned(q) => Waits(r, q)'
    BY <1>17, DeleteClosedDoes DEF Waits, Closes
  <2>3. \A s \in Session : sess[s].lease # None => sess'[s].lease # None
    BY <1>17, DeleteClosedDoes, Paths DEF SameObjects, SameLeases
  <2> QED BY <1>17, DeleteClosedDoes, <1>c, <2>1, <2>2, <2>3, PinnedKept
<1>18. ASSUME NEW r \in Request, Erase(r) PROVE (\A q \in Request : Pinned(q))'
  <2>1. Pinned(r)'
    BY <1>18, EraseDoes DEF Pinned, Steered
  <2>2. \A q \in Request : q # r /\ Steered(q) /\ Pinned(q) => Waits(r, q)'
    BY <1>18, EraseDoes DEF Waits, Closes
  <2>3. \A s \in Session : sess[s].lease # None => sess'[s].lease # None
    BY <1>18, EraseDoes, Paths DEF SameObjects, SameLeases
  <2> QED BY <1>18, EraseDoes, <1>c, <2>1, <2>2, <2>3, PinnedKept
<1>19. ASSUME NEW r \in Request, Twin(r) PROVE (\A q \in Request : Pinned(q))'
  <2>1. Pinned(r)'
    BY <1>19, TwinDoes DEF Pinned, Steered
  <2>2. \A q \in Request : q # r /\ Steered(q) /\ Pinned(q) => Waits(r, q)'
    BY <1>19, TwinDoes DEF Waits, Closes
  <2>3. \A s \in Session : sess[s].lease # None => sess'[s].lease # None
    BY <1>19, TwinDoes, Paths DEF SameObjects, SameLeases
  <2> QED BY <1>19, TwinDoes, <1>c, <2>1, <2>2, <2>3, PinnedKept
<1>20. ASSUME NEW r \in Request, Linger(r) PROVE (\A q \in Request : Pinned(q))'
  <2>1. Pinned(r)'
    BY <1>20, LingerDoes DEF Pinned, Steered
  <2>2. \A q \in Request : q # r /\ Steered(q) /\ Pinned(q) => Waits(r, q)'
    BY <1>20, LingerDoes DEF Waits, Closes
  <2>3. \A s \in Session : sess[s].lease # None => sess'[s].lease # None
    BY <1>20, LingerDoes, Paths DEF SameObjects, SameLeases
  <2> QED BY <1>20, LingerDoes, <1>c, <2>1, <2>2, <2>3, PinnedKept
<1>21. ASSUME NEW r \in Request, Load(r) PROVE (\A q \in Request : Pinned(q))'
  <2>1. Pinned(r)'
    BY <1>21, LoadDoes DEF Pinned, Steered
  <2>2. \A q \in Request : q # r /\ Steered(q) /\ Pinned(q) => Waits(r, q)'
    BY <1>21, LoadDoes DEF Waits, Closes
  <2>3. \A s \in Session : sess[s].lease # None => sess'[s].lease # None
    BY <1>21, LoadDoes, Paths DEF SameObjects, SameLeases
  <2> QED BY <1>21, LoadDoes, <1>c, <2>1, <2>2, <2>3, PinnedKept
<1>22. ASSUME NEW r \in Request, ResolveAgain(r) PROVE (\A q \in Request : Pinned(q))'
  <2>1. Pinned(r)'
    BY <1>22, ResolveAgainDoes DEF Pinned, Steered
  <2>2. \A q \in Request : q # r /\ Steered(q) /\ Pinned(q) => Waits(r, q)'
    BY <1>22, ResolveAgainDoes DEF Waits, Closes
  <2>3. \A s \in Session : sess[s].lease # None => sess'[s].lease # None
    BY <1>22, ResolveAgainDoes, Paths DEF SameObjects, SameLeases
  <2> QED BY <1>22, ResolveAgainDoes, <1>c, <2>1, <2>2, <2>3, PinnedKept
<1>23. ASSUME NEW r \in Request, Acquire(r) PROVE (\A q \in Request : Pinned(q))'
  <2>1. Pinned(r)'
    BY <1>23, AcquireDoes DEF Pinned, Steered
  <2>2. \A q \in Request : q # r /\ Steered(q) /\ Pinned(q) => Waits(r, q)'
    BY <1>23, AcquireDoes DEF Waits, Closes
  <2>3. \A s \in Session : sess[s].lease # None => sess'[s].lease # None
    BY <1>23, AcquireDoes, Paths DEF SameObjects, SameLeases
  <2> QED BY <1>23, AcquireDoes, <1>c, <2>1, <2>2, <2>3, PinnedKept
<1>24. ASSUME NEW r \in Request, Read(r) PROVE (\A q \in Request : Pinned(q))'
  <2>1. Pinned(r)'
    BY <1>24, ReadDoes DEF Pinned, Steered
  <2>2. \A q \in Request : q # r /\ Steered(q) /\ Pinned(q) => Waits(r, q)'
    BY <1>24, ReadDoes DEF Waits, Closes
  <2>3. \A s \in Session : sess[s].lease # None => sess'[s].lease # None
    BY <1>24, ReadDoes, Paths DEF SameObjects, SameLeases, Objects, Object, Goroutines,
       Goroutine
  <2> QED BY <1>24, ReadDoes, <1>c, <2>1, <2>2, <2>3, PinnedKept
<1>25. ASSUME NEW r \in Request, ReadFails(r) PROVE (\A q \in Request : Pinned(q))'
  <2>1. Pinned(r)'
    BY <1>25, ReadFailsDoes DEF Pinned, Steered
  <2>2. \A q \in Request : q # r /\ Steered(q) /\ Pinned(q) => Waits(r, q)'
    BY <1>25, ReadFailsDoes DEF Waits, Closes
  <2>3. \A s \in Session : sess[s].lease # None => sess'[s].lease # None
    BY <1>25, ReadFailsDoes, Paths DEF SameObjects, SameLeases
  <2> QED BY <1>25, ReadFailsDoes, <1>c, <2>1, <2>2, <2>3, PinnedKept
<1>26. ASSUME NEW r \in Request, LoadMeta(r) PROVE (\A q \in Request : Pinned(q))'
  <2>1. Pinned(r)'
    BY <1>26, LoadMetaDoes DEF Pinned, Steered
  <2>2. \A q \in Request : q # r /\ Steered(q) /\ Pinned(q) => Waits(r, q)'
    BY <1>26, LoadMetaDoes DEF Waits, Closes
  <2>3. \A s \in Session : sess[s].lease # None => sess'[s].lease # None
    BY <1>26, LoadMetaDoes, Paths DEF SameObjects, SameLeases
  <2> QED BY <1>26, LoadMetaDoes, <1>c, <2>1, <2>2, <2>3, PinnedKept
<1>27. ASSUME NEW r \in Request, LoadMetaFails(r) PROVE (\A q \in Request : Pinned(q))'
  <2>1. ASSUME NEW q \in Request, Steered(q)'
        PROVE  /\ q # r /\ req'[q] = req[q] /\ Steered(q) /\ Pinned(q)
               /\ req[q].on \in Session /\ req[q].on # req[r].on
    <3>1. q # r /\ req'[q] = req[q]
      BY <1>27, <2>1, LoadMetaFailsDoes DEF Steered
    <3>2. Steered(q) /\ Pinned(q)
      BY <1>c, <1>d, <2>1, <3>1 DEF Steered
    <3>3. req[q].on # req[r].on
      BY <1>27, <3>1, LoadMetaFailsDoes DEF Shape, Alone, Opens
    <3> QED BY <1>27, <3>1, <3>2, <3>3, Sessions DEF Steered, Saves
  <2>2. ASSUME NEW q \in Request, Steered(q)' PROVE Pinned(q)'
    <3>1. ASSUME NEW p \in Request PROVE Waits(p, q)'
      <4>1. CASE p = r
        BY <1>27, <2>1, <2>2, <4>1, LoadMetaFailsDoes DEF Waits, Closes
      <4>2. CASE p # r
        <5>1. Waits(p, q) /\ req'[q] = req[q] /\ req'[p] = req[p] /\ waits' = waits
          BY <1>27, <2>1, <2>2, <4>2, LoadMetaFailsDoes DEF Pinned
        <5> QED BY <5>1 DEF Waits, Ticket
      <4> QED BY <4>1, <4>2
    <3> QED BY <1>27, <2>1, <2>2, <3>1, LoadMetaFailsDoes DEF Pinned, Leased
  <2> QED BY <2>2 DEF Pinned
<1>28. ASSUME NEW r \in Request, Register(r) PROVE (\A q \in Request : Pinned(q))'
  <2>1. Pinned(r)'
    BY <1>28, RegisterDoes DEF Pinned, Steered
  <2>2. \A q \in Request : q # r /\ Steered(q) /\ Pinned(q) => Waits(r, q)'
    BY <1>28, RegisterDoes DEF Waits, Closes
  <2>3. \A s \in Session : sess[s].lease # None => sess'[s].lease # None
    BY <1>28, RegisterDoes, Paths DEF SameObjects, SameLeases
  <2> QED BY <1>28, RegisterDoes, <1>c, <2>1, <2>2, <2>3, PinnedKept
<1>29. ASSUME NEW p \in Path, OtherAcquires(p) PROVE (\A q \in Request : Pinned(q))'
  BY <1>29, <1>c DEF OtherAcquires, Pinned, Steered, Waits, Ticket, Leased, history, Clean
<1>30. ASSUME NEW p \in Path, OtherReleases(p) PROVE (\A q \in Request : Pinned(q))'
  BY <1>30, <1>c DEF OtherReleases, Pinned, Steered, Waits, Ticket, Leased, history, Clean
<1>31. ASSUME NEW p \in Path, Reconcile(p) PROVE (\A q \in Request : Pinned(q))'
  BY <1>31, <1>c DEF Reconcile, Pinned, Steered, Waits, Ticket, Leased, history, Clean
<1>32. CASE Crash
  BY <1>32, CrashDoes DEF Pinned, Steered
<1>33. CASE UNCHANGED vars
  BY <1>33, <1>c DEF vars, history, Pinned, Steered, Waits, Ticket, Leased, Clean
<1> QED BY <1>1, <1>2, <1>3, <1>4, <1>5, <1>6, <1>7, <1>8, <1>9, <1>10, <1>11, <1>12, <1>13,
           <1>14, <1>15, <1>16, <1>17, <1>18, <1>19, <1>20, <1>21, <1>22, <1>23, <1>24, <1>25,
           <1>26, <1>27, <1>28, <1>29, <1>30, <1>31, <1>32, <1>33, PlainSteps DEF Next, Start,
           Continue, Turn, Save, Rebuild, Close, Open

LEMMA HoldingStep ==
  ASSUME Goroutines, Objects, Others, Shape, Work, Closing, Tenure, Holding, [Next]_vars
  PROVE  Holding'
<1>1. ASSUME Regular' PROVE Single' /\ \A s \in Session : Minded(s)'
  BY <1>1, SingleStep, MindedStep
<1>2. ASSUME Regular' \/ Clean({"unfollowed"})' PROVE \A r \in Request : Pinned(r)'
  BY <1>2, PinnedStep
<1> QED BY <1>1, <1>2 DEF Holding

\* While a save moves its session the lease is ahead of the controller.
Trails(r) ==
    /\ Following(r) => On(r).lease = req[r].at
    /\ req[r].pc = "swap" /\ Leased(req[r].on) => path[req[r].next] = On(r).lease
Trailing == (\A s \in Session : Placed(s)) /\ (\A r \in Request : Trails(r))
Trailed  == Clean({"unfollowed"}) => Trailing

LEMMA TrailingKept ==
  ASSUME Goroutines, Objects, Shape, Trailing, NEW r \in Request,
         \A q \in Request : q # r => req'[q] = req[q],
         \/ ~Following(r) /\ ~Following(r)' /\ req'[r].pc # "swap"
         \/ /\ Following(r)' <=> Following(r)
            /\ req'[r].pc = "swap" => req[r].pc = "swap"
            /\ req'[r].on = req[r].on /\ req'[r].at = req[r].at /\ req'[r].next = req[r].next,
         SameObjects, path' = path
  PROVE  Trailing'
<1>1. ASSUME NEW s \in Session PROVE Placed(s)'
  <2>1. \A q \in Request : Following(q) /\ req[q].on = s => Following(q)' /\ req'[q].on = s
    BY DEF Following
  <2> QED BY <2>1 DEF Placed, Trailing, SameObjects, SameLeases
<1>2. ASSUME NEW q \in Request PROVE Trails(q)'
  <2>1. Following(q) \/ req[q].pc = "swap" => req[q].on \in Session
    BY Sessions DEF Following, Saves
  <2> QED BY <2>1 DEF Trails, Trailing, Following, On, Leased, SameObjects, SameLeases
<1> QED BY <1>1, <1>2 DEF Trailing

LEMMA TrailedStep ==
  ASSUME Goroutines, Objects, Others, Shape, Work, Distinct, Closing, Tenure, Holding, Trailed,
         [Next]_vars
  PROVE  Trailed'
<1> SUFFICES ASSUME Clean({"unfollowed"})' PROVE Trailing'
  BY DEF Trailed
<1>w. Trailing /\ Clean({"unfollowed"})
  BY RegularBefore DEF Trailed
<1>1. ASSUME NEW r \in Request, Plain(r) PROVE Trailing'
  <2>1. (~Following(r) /\ ~Following(r)' /\ req'[r].pc # "swap") \/ req'[r] = req[r]
    BY <1>1 DEF Plain, Special, Moves, Following
  <2> QED BY <1>1, <2>1, <1>w, TrailingKept DEF Plain, Following
<1>2. ASSUME NEW r \in Request, Build(r) PROVE Trailing'
  <2>1. (Turning(r) \/ Rebuilding(r)) /\ req[r].ctrl = sess[req[r].on].ctrl /\ req[r].on \in Session
    BY <1>2, BuildDoes, Paths DEF Rebuilding, Work, Holds, On, Shape, Located
  <2>2. ASSUME NEW q \in Request, Following(q) PROVE req[q].on # req[r].on
    BY <1>2, <2>1, <2>2, BuildDoes, FollowersWork, Sole DEF Following
  <2>3. ASSUME NEW s \in Session PROVE Placed(s)'
    <3>1. \A q \in Request : Following(q) /\ req[q].on = s => Following(q)' /\ req'[q].on = s
      BY <1>2, BuildDoes DEF Following
    <3>2. Leased(s) => sess[s].ctrl \in Ctrl
      BY DEF Tenure, Named, Objects, Object
    <3> QED BY <1>2, <1>w, <3>1, <3>2, BuildDoes DEF Placed, Leased, Trailing, SameObjects,
               SameLeases
  <2>4. ASSUME NEW q \in Request PROVE Trails(q)'
    <3>1. CASE q = r
      <4>1. Leased(req[r].on) => path[req[r].ctrl] = sess[req[r].on].lease
        BY <1>w, <2>1, <2>2 DEF Trailing, Placed, Leased
      <4> QED BY <1>2, <2>1, <3>1, <4>1, BuildDoes DEF Trails, Following, Leased, On,
                 SameObjects, SameLeases
    <3>2. CASE q # r
      <4>1. /\ Following(q) \/ req[q].pc = "swap" => req[q].on \in Session
            /\ req[q].pc = "swap" => req[q].next \in Ctrl
        BY Sessions, Paths DEF Following, Saves, Shape, Located, Goroutines, Goroutine
      <4> QED BY <1>2, <1>w, <3>2, <4>1, BuildDoes DEF Trails, Trailing, Following, Leased, On,
                 SameObjects, SameLeases
    <3> QED BY <3>1, <3>2
  <2> QED BY <2>3, <2>4 DEF Trailing
<1>3. ASSUME NEW r \in Request, Swap(r) PROVE Trailing'
  <2>1. ASSUME NEW s \in Session PROVE Placed(s)'
    <3>1. \A q \in Request : Following(q) /\ req[q].on = s => Following(q)' /\ req'[q].on = s
      BY <1>3, SwapDoes DEF Following
    <3>2. CASE s = req[r].on
      BY <1>3, <1>w, <3>2, SwapDoes DEF Placed, Trailing, Trails, Leased, On, SameLeases
    <3>3. CASE s # req[r].on
      BY <1>3, <1>w, <3>1, <3>3, SwapDoes DEF Placed, Trailing, SameLeases
    <3> QED BY <3>2, <3>3
  <2>2. ASSUME NEW q \in Request PROVE Trails(q)'
    <3>1. Following(q) \/ req[q].pc = "swap" => req[q].on \in Session
      BY Sessions DEF Following, Saves
    <3> QED BY <1>3, <1>w, <3>1, SwapDoes DEF Trails, Trailing, Following, Leased, On,
               SameLeases
  <2> QED BY <2>1, <2>2 DEF Trailing
<1>4. ASSUME NEW r \in Request, SwapRefused(r) PROVE Trailing'
  BY <1>4, SwapRefusedDoes, <1>w, TrailingKept DEF Following
<1>5. ASSUME NEW r \in Request, Recover(r) PROVE Trailing'
  BY <1>5, RecoverDoes, <1>w, TrailingKept DEF Following
<1>6. ASSUME NEW r \in Request, Follow(r) PROVE Trailing'
  <2>1. req'[r].pc = "secure"
    BY <1>6, <1>w, FollowDoes, Paths DEF Clean
  <2> QED BY <1>6, <1>w, <2>1, FollowDoes, TrailingKept DEF Following
<1>7. ASSUME NEW r \in Request, Secure(r) PROVE Trailing'
  BY <1>7, SecureDoes, <1>w, TrailingKept DEF Following
<1>8. ASSUME NEW r \in Request, Assign(r) PROVE Trailing'
  <2>1. req[r].to = req[r].on
    BY <1>8, <1>w, AssignDoes DEF Holding, Pinned, Steered
  <2>2. (Turning(r) \/ Rebuilding(r)) /\ req[r].on \in Session
    BY <1>8, AssignDoes, FollowersWork
  <2>3. CASE ~Following(r)'
    BY <1>8, <1>w, <2>3, AssignDoes, TrailingKept DEF Following
  <2>4. CASE Following(r)'
    <3>1. /\ sess'[req[r].on].lease = req[r].at
          /\ \A s \in Session : s # req[r].on => sess'[s] = sess[s]
      BY <1>8, <2>1, <2>4, AssignDoes DEF Following
    <3>2. ASSUME NEW s \in Session PROVE Placed(s)'
      <4>1. CASE s = req[r].on
        BY <1>8, <2>4, <4>1, AssignDoes DEF Placed
      <4>2. CASE s # req[r].on
        <5>1. \A q \in Request : Following(q) /\ req[q].on = s => Following(q)' /\ req'[q].on = s
          BY <1>8, <4>2, AssignDoes DEF Following
        <5> QED BY <1>8, <1>w, <3>1, <4>2, <5>1, AssignDoes DEF Placed, Trailing
      <4> QED BY <4>1, <4>2
    <3>3. ASSUME NEW q \in Request PROVE Trails(q)'
      <4>1. CASE q = r
        BY <1>8, <3>1, <4>1, AssignDoes DEF Trails, On, Following
      <4>2. CASE q # r
        <5>1. Following(q) \/ req[q].pc = "swap" => req[q].on \in Session /\ req[q].on # req[r].on
          BY <2>2, <4>2, FollowersWork, Sole, WorksOn
        <5> QED BY <1>8, <1>w, <3>1, <4>2, <5>1, AssignDoes DEF Trails, Trailing, Following,
                   Leased, On
      <4> QED BY <4>1, <4>2
    <3> QED BY <3>2, <3>3 DEF Trailing
  <2> QED BY <2>3, <2>4
<1>9. ASSUME NEW r \in Request, Redirect(r) PROVE Trailing'
  <2>1. ASSUME NEW s \in Session PROVE Placed(s)'
    <3>1. \A q \in Request : Following(q) /\ req[q].on = s => Following(q)' /\ req'[q].on = s
      BY <1>9, RedirectDoes DEF Following
    <3> QED BY <1>9, <1>w, <3>1, RedirectDoes DEF Placed, Trailing, SameObjects, SameLeases
  <2>2. ASSUME NEW q \in Request PROVE Trails(q)'
    <3>1. Following(q) \/ req[q].pc = "swap" => req[q].on \in Session
      BY Sessions DEF Following, Saves
    <3> QED BY <1>9, <1>w, <3>1, RedirectDoes DEF Trails, Trailing, Following, Leased, On,
               SameObjects, SameLeases
  <2> QED BY <2>1, <2>2 DEF Trailing
<1>10. ASSUME NEW r \in Request, Commit(r) PROVE Trailing'
  <2>1. (Turning(r) \/ Rebuilding(r)) /\ req[r].ctrl = sess[req[r].on].ctrl /\ req[r].on \in Session
    BY <1>10, CommitDoes, Saver DEF On, Saves
  <2>2. ASSUME NEW s \in Session PROVE Placed(s)'
    <3>1. CASE s = req[r].on
      BY <1>10, <1>w, <2>1, <3>1, CommitDoes DEF Trailing, Trails, Placed, Following, On,
         Others, SameObjects, SameLeases
    <3>2. CASE s # req[r].on
      <4>1. \A q \in Request : Following(q) /\ req[q].on = s => Following(q)' /\ req'[q].on = s
        BY <1>10, <3>2, CommitDoes DEF Following
      <4>2. Leased(s) => sess[s].ctrl \in Ctrl /\ sess[s].ctrl # req[r].ctrl
        BY <2>1, <3>2 DEF Tenure, Named, Distinct, Objects, Object
      <4> QED BY <1>10, <1>w, <4>1, <4>2, CommitDoes DEF Placed, Leased, Trailing, Others,
                 SameObjects, SameLeases
    <3> QED BY <3>1, <3>2
  <2>3. ASSUME NEW q \in Request PROVE Trails(q)'
    <3>1. /\ Following(q) \/ req[q].pc = "swap" => req[q].on \in Session
          /\ req[q].pc = "swap" => req[q].next \in Ctrl /\ req[q].next # req[r].ctrl
      BY Sessions, Paths DEF Following, Saves, Shape, Located, Goroutines, Goroutine, Distinct
    <3> QED BY <1>10, <1>w, <3>1, CommitDoes DEF Trails, Trailing, Following, Leased, On,
               Others, SameObjects, SameLeases
  <2> QED BY <2>2, <2>3 DEF Trailing
<1>11. ASSUME NEW r \in Request, Take(r) PROVE Trailing'
  BY <1>11, TakeDoes, <1>w, TrailingKept DEF Following
<1>12. ASSUME NEW r \in Request, Abort(r) PROVE Trailing'
  BY <1>12, AbortDoes, <1>w, TrailingKept DEF Following
<1>13. ASSUME NEW r \in Request, Waited(r) PROVE Trailing'
  BY <1>13, WaitedDoes, <1>w, TrailingKept DEF Following
<1>14. ASSUME NEW r \in Request, Shut(r) PROVE Trailing'
  BY <1>14, ShutDoes, <1>w, TrailingKept DEF Following
<1>15. ASSUME NEW r \in Request, Release(r) PROVE Trailing'
  <2>1. ASSUME NEW q \in Request, Following(q) PROVE req[q].on # req[r].on
    BY <1>15, <1>w, <2>1, ReleaseDoes DEF Following, Holding, Pinned, Steered, Waits, Closes
  <2>2. ASSUME NEW s \in Session PROVE Placed(s)'
    <3>1. \A q \in Request : Following(q) /\ req[q].on = s => Following(q)' /\ req'[q].on = s
      BY <1>15, ReleaseDoes DEF Following
    <3> QED BY <1>15, <1>w, <3>1, ReleaseDoes DEF Placed, Trailing
  <2>3. ASSUME NEW q \in Request PROVE Trails(q)'
    <3>1. Following(q) \/ req[q].pc = "swap" => req[q].on \in Session
      BY Sessions DEF Following, Saves
    <3> QED BY <1>15, <1>w, <2>1, <3>1, ReleaseDoes DEF Trails, Trailing, Following, Leased, On
  <2> QED BY <2>2, <2>3 DEF Trailing
<1>16. ASSUME NEW r \in Request, Destroy(r) PROVE Trailing'
  BY <1>16, DestroyDoes, <1>w, TrailingKept DEF Following
<1>17. ASSUME NEW r \in Request, DeleteClosed(r) PROVE Trailing'
  BY <1>17, DeleteClosedDoes, <1>w, TrailingKept DEF Following
<1>18. ASSUME NEW r \in Request, Erase(r) PROVE Trailing'
  BY <1>18, EraseDoes, <1>w, TrailingKept DEF Following
<1>19. ASSUME NEW r \in Request, Twin(r) PROVE Trailing'
  BY <1>19, TwinDoes, <1>w, TrailingKept DEF Following
<1>20. ASSUME NEW r \in Request, Linger(r) PROVE Trailing'
  BY <1>20, LingerDoes, <1>w, TrailingKept DEF Following
<1>21. ASSUME NEW r \in Request, Load(r) PROVE Trailing'
  BY <1>21, LoadDoes, <1>w, TrailingKept DEF Following
<1>22. ASSUME NEW r \in Request, ResolveAgain(r) PROVE Trailing'
  BY <1>22, ResolveAgainDoes, <1>w, TrailingKept DEF Following
<1>23. ASSUME NEW r \in Request, Acquire(r) PROVE Trailing'
  BY <1>23, AcquireDoes, <1>w, TrailingKept DEF Following
<1>24. ASSUME NEW r \in Request, Read(r) PROVE Trailing'
  <2>1. ASSUME NEW q \in Request, q # r PROVE req[q].on # req[r].on
    BY <1>24, <2>1, ReadDoes DEF Shape, Alone, Opens
  <2>2. ASSUME NEW s \in Session PROVE Placed(s)'
    <3>1. CASE s = req[r].on
      BY <1>24, <3>1, ReadDoes DEF Placed
    <3>2. CASE s # req[r].on
      <4>1. \A q \in Request : Following(q) /\ req[q].on = s => Following(q)' /\ req'[q].on = s
        BY <1>24, <3>2, ReadDoes DEF Following
      <4>2. Leased(s) => sess[s].ctrl \in Ctrl
        BY DEF Tenure, Named, Objects, Object
      <4> QED BY <1>24, <1>w, <3>2, <4>1, <4>2, ReadDoes DEF Placed, Leased, Trailing
    <3> QED BY <3>1, <3>2
  <2>3. ASSUME NEW q \in Request PROVE Trails(q)'
    <3>1. CASE q = r
      BY <1>24, <3>1, ReadDoes DEF Trails, Following
    <3>2. CASE q # r
      <4>1. /\ Following(q) \/ req[q].pc = "swap" => req[q].on \in Session
            /\ req[q].pc = "swap" => req[q].next \in Ctrl
        BY Sessions, Paths DEF Following, Saves, Shape, Located, Goroutines, Goroutine
      <4> QED BY <1>24, <1>w, <2>1, <3>2, <4>1, ReadDoes DEF Trails, Trailing, Following,
                 Leased, On
    <3> QED BY <3>1, <3>2
  <2> QED BY <2>2, <2>3 DEF Trailing
<1>25. ASSUME NEW r \in Request, ReadFails(r) PROVE Trailing'
  BY <1>25, ReadFailsDoes, <1>w, TrailingKept DEF Following
<1>26. ASSUME NEW r \in Request, LoadMeta(r) PROVE Trailing'
  BY <1>26, LoadMetaDoes, <1>w, TrailingKept DEF Following
<1>27. ASSUME NEW r \in Request, LoadMetaFails(r) PROVE Trailing'
  <2>1. ASSUME NEW q \in Request, q # r PROVE req[q].on # req[r].on
    BY <1>27, <2>1, LoadMetaFailsDoes DEF Shape, Alone, Opens
  <2>2. ASSUME NEW s \in Session PROVE Placed(s)'
    <3>1. CASE s = req[r].on
      BY <1>27, <3>1, LoadMetaFailsDoes DEF Placed
    <3>2. CASE s # req[r].on
      <4>1. \A q \in Request : Following(q) /\ req[q].on = s => Following(q)' /\ req'[q].on = s
        BY <1>27, <3>2, LoadMetaFailsDoes DEF Following
      <4> QED BY <1>27, <1>w, <3>2, <4>1, LoadMetaFailsDoes DEF Placed, Trailing
    <3> QED BY <3>1, <3>2
  <2>3. ASSUME NEW q \in Request PROVE Trails(q)'
    <3>1. Following(q) \/ req[q].pc = "swap" => req[q].on \in Session
      BY Sessions DEF Following, Saves
    <3> QED BY <1>27, <1>w, <2>1, <3>1, LoadMetaFailsDoes DEF Trails, Trailing, Following,
               Leased, On
  <2> QED BY <2>2, <2>3 DEF Trailing
<1>28. ASSUME NEW r \in Request, Register(r) PROVE Trailing'
  BY <1>28, RegisterDoes, <1>w, TrailingKept DEF Following
<1>29. ASSUME NEW p \in Path, OtherAcquires(p) PROVE Trailing'
  BY <1>29, <1>w DEF OtherAcquires, Trailing, Placed, Trails, Following, Leased, On
<1>30. ASSUME NEW p \in Path, OtherReleases(p) PROVE Trailing'
  BY <1>30, <1>w DEF OtherReleases, Trailing, Placed, Trails, Following, Leased, On
<1>31. ASSUME NEW p \in Path, Reconcile(p) PROVE Trailing'
  BY <1>31, <1>w DEF Reconcile, Trailing, Placed, Trails, Following, Leased, On
<1>32. CASE Crash
  BY <1>32, CrashDoes DEF Trailing, Placed, Trails, Following
<1>33. CASE UNCHANGED vars
  BY <1>33, <1>w DEF vars, Trailing, Placed, Trails, Following, Leased, On
<1> QED BY <1>1, <1>2, <1>3, <1>4, <1>5, <1>6, <1>7, <1>8, <1>9, <1>10, <1>11, <1>12, <1>13,
           <1>14, <1>15, <1>16, <1>17, <1>18, <1>19, <1>20, <1>21, <1>22, <1>23, <1>24, <1>25,
           <1>26, <1>27, <1>28, <1>29, <1>30, <1>31, <1>32, <1>33, PlainSteps DEF Next, Start,
           Continue, Turn, Save, Rebuild, Close, Open
-----------------------------------------------------------------------------
(***************************************************************************)
(* Where the id resolves to while its files are written and removed.       *)
(***************************************************************************)

\* A load that has resolved the id to a path marked for cleanup did so before the
\* delayed deletion marked it, and that one is not over.
Marked(r) ==
    req[r].pc \in {"resolve", "acquire", "read"} /\ req[r].at \in cleanup =>
        \E q \in Request : /\ req[q].pc \in {"twin", "linger"} /\ req[q].via
                           /\ req[q].at = req[r].at

LEMMA MarkedKept ==
  ASSUME \A q \in Request : Marked(q), NEW r \in Request,
         \A q \in Request : q # r => req'[q] = req[q],
         cleanup' \subseteq cleanup,
         \/ req[r].pc \notin {"twin", "linger"} \/ ~req[r].via \/ req[r].at \notin cleanup'
             \/ req'[r] = req[r]
         \/ req'[r].pc \in {"twin", "linger"} /\ req'[r].via /\ req'[r].at = req[r].at,
         req'[r].pc \in {"resolve", "acquire", "read"} /\ req'[r].at \in cleanup' =>
            req[r].pc \in {"resolve", "acquire", "read"} /\ req'[r].at = req[r].at
  PROVE  \A q \in Request : Marked(q)'
<1> SUFFICES ASSUME NEW q \in Request, req'[q].pc \in {"resolve", "acquire", "read"},
                     req'[q].at \in cleanup'
             PROVE  \E p \in Request : /\ req'[p].pc \in {"twin", "linger"} /\ req'[p].via
                                       /\ req'[p].at = req'[q].at
  BY DEF Marked
<1>1. req[q].pc \in {"resolve", "acquire", "read"} /\ req'[q].at = req[q].at
  OBVIOUS
<1>2. PICK p \in Request : req[p].pc \in {"twin", "linger"} /\ req[p].via /\ req[p].at = req[q].at
  BY <1>1 DEF Marked
<1>3. req'[p].pc \in {"twin", "linger"} /\ req'[p].via /\ req'[p].at = req[p].at
  BY <1>1, <1>2
<1> QED BY <1>1, <1>2, <1>3

LEMMA MarkedStep ==
  ASSUME Goroutines, Objects, Others, Shape, \A q \in Request : Marked(q), [Next]_vars
  PROVE  (\A q \in Request : Marked(q))'
<1>1. ASSUME NEW r \in Request, Plain(r), SameFiles PROVE (\A q \in Request : Marked(q))'
  BY <1>1, MarkedKept DEF Plain, Special, Opens, Flight, SameFiles
<1>2. ASSUME NEW r \in Request, Saved(r) PROVE (\A q \in Request : Marked(q))'
  BY <1>2, SavedDoes, MarkedKept DEF Plain, Special, Opens, Flight
<1>3. ASSUME NEW r \in Request, Stamp(r) PROVE (\A q \in Request : Marked(q))'
  BY <1>3, StampDoes, MarkedKept DEF Plain, Special, Opens, Flight
<1>4. ASSUME NEW r \in Request, Build(r) PROVE (\A q \in Request : Marked(q))'
  BY <1>4, BuildDoes, MarkedKept DEF SameFiles
<1>5. ASSUME NEW r \in Request, Swap(r) PROVE (\A q \in Request : Marked(q))'
  BY <1>5, SwapDoes, MarkedKept DEF SameFiles
<1>6. ASSUME NEW r \in Request, SwapRefused(r) PROVE (\A q \in Request : Marked(q))'
  BY <1>6, SwapRefusedDoes, MarkedKept DEF SameFiles
<1>7. ASSUME NEW r \in Request, Recover(r) PROVE (\A q \in Request : Marked(q))'
  BY <1>7, RecoverDoes, MarkedKept DEF SameFiles
<1>8. ASSUME NEW r \in Request, Follow(r) PROVE (\A q \in Request : Marked(q))'
  BY <1>8, FollowDoes, MarkedKept DEF SameFiles
<1>9. ASSUME NEW r \in Request, Secure(r) PROVE (\A q \in Request : Marked(q))'
  BY <1>9, SecureDoes, MarkedKept DEF SameFiles
<1>10. ASSUME NEW r \in Request, Assign(r) PROVE (\A q \in Request : Marked(q))'
  BY <1>10, AssignDoes, MarkedKept DEF SameFiles
<1>11. ASSUME NEW r \in Request, Redirect(r) PROVE (\A q \in Request : Marked(q))'
  BY <1>11, RedirectDoes, MarkedKept DEF SameFiles
<1>12. ASSUME NEW r \in Request, Commit(r) PROVE (\A q \in Request : Marked(q))'
  BY <1>12, CommitDoes, MarkedKept DEF SameFiles
<1>13. ASSUME NEW r \in Request, Take(r) PROVE (\A q \in Request : Marked(q))'
  BY <1>13, TakeDoes, MarkedKept DEF SameFiles
<1>14. ASSUME NEW r \in Request, Abort(r) PROVE (\A q \in Request : Marked(q))'
  BY <1>14, AbortDoes, MarkedKept DEF SameFiles
<1>15. ASSUME NEW r \in Request, Waited(r) PROVE (\A q \in Request : Marked(q))'
  BY <1>15, WaitedDoes, MarkedKept DEF SameFiles
<1>16. ASSUME NEW r \in Request, Shut(r) PROVE (\A q \in Request : Marked(q))'
  BY <1>16, ShutDoes, MarkedKept DEF SameFiles
<1>17. ASSUME NEW r \in Request, Release(r) PROVE (\A q \in Request : Marked(q))'
  BY <1>17, ReleaseDoes, MarkedKept DEF SameFiles
<1>18. ASSUME NEW r \in Request, Destroy(r) PROVE (\A q \in Request : Marked(q))'
  <2> SUFFICES ASSUME NEW q \in Request, req'[q].pc \in {"resolve", "acquire", "read"},
                       req'[q].at \in cleanup'
               PROVE  \E p \in Request : /\ req'[p].pc \in {"twin", "linger"} /\ req'[p].via
                                         /\ req'[p].at = req'[q].at
    BY DEF Marked
  <2>1. q # r /\ req'[q] = req[q]
    BY <1>18, DestroyDoes
  <2>2. CASE req[q].at \in cleanup
    <3>1. PICK p \in Request : req[p].pc \in {"twin", "linger"} /\ req[p].via /\ req[p].at = req[q].at
      BY <2>1, <2>2 DEF Marked
    <3> QED BY <1>18, <2>1, <3>1, DestroyDoes
  <2>3. CASE req[q].at \notin cleanup
    BY <1>18, <2>1, <2>3, DestroyDoes
  <2> QED BY <2>2, <2>3
<1>19. ASSUME NEW r \in Request, DeleteClosed(r) PROVE (\A q \in Request : Marked(q))'
  BY <1>19, DeleteClosedDoes, MarkedKept DEF SameFiles
<1>20. ASSUME NEW r \in Request, Erase(r) PROVE (\A q \in Request : Marked(q))'
  BY <1>20, EraseDoes, MarkedKept DEF Remove
<1>21. ASSUME NEW r \in Request, Twin(r) PROVE (\A q \in Request : Marked(q))'
  BY <1>21, TwinDoes, MarkedKept DEF RemoveTwin, Remove
<1>22. ASSUME NEW r \in Request, Linger(r) PROVE (\A q \in Request : Marked(q))'
  BY <1>22, LingerDoes, MarkedKept DEF Remove
<1>23. ASSUME NEW r \in Request, Load(r) PROVE (\A q \in Request : Marked(q))'
  BY <1>23, LoadDoes, MarkedKept DEF SameFiles
<1>24. ASSUME NEW r \in Request, ResolveAgain(r) PROVE (\A q \in Request : Marked(q))'
  BY <1>24, ResolveAgainDoes, MarkedKept DEF SameFiles
<1>25. ASSUME NEW r \in Request, Acquire(r) PROVE (\A q \in Request : Marked(q))'
  BY <1>25, AcquireDoes, MarkedKept DEF SameFiles
<1>26. ASSUME NEW r \in Request, Read(r) PROVE (\A q \in Request : Marked(q))'
  BY <1>26, ReadDoes, MarkedKept DEF SameFiles
<1>27. ASSUME NEW r \in Request, ReadFails(r) PROVE (\A q \in Request : Marked(q))'
  BY <1>27, ReadFailsDoes, MarkedKept DEF SameFiles
<1>28. ASSUME NEW r \in Request, LoadMeta(r) PROVE (\A q \in Request : Marked(q))'
  BY <1>28, LoadMetaDoes, MarkedKept DEF SameFiles
<1>29. ASSUME NEW r \in Request, LoadMetaFails(r) PROVE (\A q \in Request : Marked(q))'
  BY <1>29, LoadMetaFailsDoes, MarkedKept DEF SameFiles
<1>30. ASSUME NEW r \in Request, Register(r) PROVE (\A q \in Request : Marked(q))'
  BY <1>30, RegisterDoes, MarkedKept DEF SameFiles
<1>31. ASSUME NEW p \in Path, OtherAcquires(p) PROVE (\A q \in Request : Marked(q))'
  BY <1>31 DEF OtherAcquires, Marked
<1>32. ASSUME NEW p \in Path, OtherReleases(p) PROVE (\A q \in Request : Marked(q))'
  BY <1>32 DEF OtherReleases, Marked
<1>33. ASSUME NEW p \in Path, Reconcile(p) PROVE (\A q \in Request : Marked(q))'
  BY <1>33 DEF Reconcile, Remove, Marked
<1>34. CASE Crash
  BY <1>34, CrashDoes DEF Marked
<1>35. CASE UNCHANGED vars
  BY <1>35 DEF vars, fileVars, Marked
<1> QED BY <1>1, <1>2, <1>3, <1>4, <1>5, <1>6, <1>7, <1>8, <1>9, <1>10, <1>11, <1>12, <1>13,
           <1>14, <1>15, <1>16, <1>17, <1>18, <1>19, <1>20, <1>21, <1>22, <1>23, <1>24, <1>25,
           <1>26, <1>27, <1>28, <1>29, <1>30, <1>31, <1>32, <1>33, <1>34, <1>35, PlainSteps,
           PlainFiles DEF Next, Start, Continue, Turn, Save, Rebuild, Close, Open

\* No late request, no load on a stale or second transcript, no deletion beside a
\* close or a load.
Orderly == Clean({"late", "usurped", "raced"})
Nobody  == \A s \in Session : ~Leased(s)
Ending(r) == req[r].pc \in Flight \cup {"destroy"}

\* The files of the id are removed while no session of it has a lease, and one
\* deletion at a time gets as far as its jobs.
Silence ==
    /\ \A r \in Request : Ending(r) => Nobody
    /\ \A q, r \in Request : req[q].pc = "destroy" /\ Ending(r) => q = r
    /\ cleanup # {} => Nobody /\ \A r \in Request : req[r].pc # "destroy"

\* What the files are at each step that counts on them.
Bearing(r) ==
    /\ req[r].pc \in Moves => req[r].at \in disk
    /\ req[r].pc = "redirect" => On(r).lease = req[r].at
    /\ req[r].pc \in Flight => Resolve \in {req[r].at, Main}
    /\ req[r].pc = "destroy" => Resolve = On(r).transcript

\* The id resolves to the transcript of the session that is open, but between the
\* lease of a recovery branch and its redirect.
Aimed(s) ==
    Leased(s) =>
        /\ sess[s].lease \in disk \cup {Main}
        /\ (\A r \in Request : req[r].pc = "redirect" => req[r].on # s) => Resolve = sess[s].lease

\* A path marked for cleanup is where the id resolves to, or the id is not there.
Aiming ==
    /\ \A p \in cleanup : Resolve = p \/ Resolve \notin disk
    /\ metas \subseteq disk \cup {Main}
    /\ \A r \in Request : Bearing(r)
    /\ \A s \in Session : Aimed(s)
Order == Orderly => Silence /\ Aiming

LEMMA OrderlyBefore ==
  ASSUME Goroutines, Objects, Others, Shape, Holding, Holding', Orderly', [Next]_vars
  PROVE  /\ Orderly /\ Clean({"late"})
         /\ Single /\ Single'
         /\ \A s \in Session : Minded(s)
         /\ \A r \in Request : Pinned(r)
         /\ "usurped" \notin amiss' /\ "raced" \notin amiss'
BY RegularBefore DEF Orderly, Holding, Regular, Clean

LEMMA ResolveSame ==
  ASSUME UNCHANGED <<disk, metas, redirect>>
  PROVE  Resolve' = Resolve
BY DEF Resolve

LEMMA ResolveGrows ==
  ASSUME Others, metas \subseteq disk \cup {Main}, disk \subseteq disk', UNCHANGED <<metas,
         redirect>>
  PROVE  Resolve' = Resolve
<1>1. redirect # Main
  BY Paths, MainAssumption DEF Others
<1> QED BY <1>1 DEF Resolve

LEMMA ResolveStays ==
  ASSUME Others, UNCHANGED disk, SaveMeta(Resolve)
  PROVE  Resolve' = Resolve /\ metas' = metas \cup {Resolve}
<1>1. None \notin disk /\ redirect # Main
  BY Paths, MainAssumption DEF Others
<1> QED BY <1>1 DEF Resolve, SaveMeta

LEMMA ResolveFalls ==
  ASSUME Others, NEW p \in Path, Remove(p)
  PROVE  Resolve' = IF p = Main \/ Resolve = p THEN Main ELSE Resolve
<1>1. None \notin disk /\ redirect # Main
  BY Paths, MainAssumption DEF Others
<1> QED BY <1>1 DEF Resolve, Remove

LEMMA ResolveFound == Others /\ Resolve # Main => Resolve \in disk \cap metas
BY DEF Resolve

LEMMA SilenceKept ==
  ASSUME Silence, NEW r \in Request,
         \A q \in Request : q # r => req'[q] = req[q],
         req'[r].pc \in Flight \cup {"destroy"} => Ending(r),
         req'[r].pc = "destroy" => req[r].pc = "destroy",
         cleanup' \subseteq cleanup,
         \A s \in Session : sess'[s].lease # None => sess[s].lease # None
  PROVE  Silence'
BY DEF Silence, Ending, Nobody, Leased, Flight

LEMMA SilenceStep ==
  ASSUME Goroutines, Objects, Others, Shape, Tenure, Holding, Holding', Order,
         \A q \in Request : Marked(q), Orderly', [Next]_vars
  PROVE  Silence'
<1>a. Silence /\ Aiming /\ Single /\ (\A s \in Session : Minded(s)) /\ (\A q \in Request : Pinned(q))
  BY OrderlyBefore DEF Order
<1>b. "usurped" \notin amiss' /\ "raced" \notin amiss'
  BY OrderlyBefore
<1>1. ASSUME NEW r \in Request, Plain(r), SameFiles PROVE Silence'
  BY <1>1, <1>a, SilenceKept DEF Plain, SameObjects, SameLeases, SameFiles, Special, Flight,
     Ending, Closes
<1>2. ASSUME NEW r \in Request, Saved(r) PROVE Silence'
  BY <1>2, <1>a, SavedDoes, SilenceKept DEF Plain, SameObjects, SameLeases, Special, Flight,
     Ending, Closes
<1>3. ASSUME NEW r \in Request, Stamp(r) PROVE Silence'
  BY <1>3, <1>a, StampDoes, SilenceKept DEF Plain, SameObjects, SameLeases, Special, Flight,
     Ending, Closes
<1>4. ASSUME NEW r \in Request, Build(r) PROVE Silence'
  BY <1>4, <1>a, BuildDoes, SilenceKept DEF SameObjects, SameLeases, SameFiles, Flight, Ending
<1>5. ASSUME NEW r \in Request, Swap(r) PROVE Silence'
  BY <1>5, <1>a, SwapDoes, SilenceKept DEF SameObjects, SameLeases, SameFiles, Flight, Ending
<1>6. ASSUME NEW r \in Request, SwapRefused(r) PROVE Silence'
  BY <1>6, <1>a, SwapRefusedDoes, SilenceKept DEF SameObjects, SameLeases, SameFiles, Flight,
     Ending
<1>7. ASSUME NEW r \in Request, Recover(r) PROVE Silence'
  BY <1>7, <1>a, RecoverDoes, SilenceKept DEF SameObjects, SameLeases, SameFiles, Flight, Ending
<1>8. ASSUME NEW r \in Request, Follow(r) PROVE Silence'
  BY <1>8, <1>a, FollowDoes, SilenceKept DEF SameObjects, SameLeases, SameFiles, Flight, Ending
<1>9. ASSUME NEW r \in Request, Secure(r) PROVE Silence'
  BY <1>9, <1>a, SecureDoes, SilenceKept DEF SameObjects, SameLeases, SameFiles, Flight, Ending
<1>10. ASSUME NEW r \in Request, Assign(r) PROVE Silence'
  <2>1. \A s \in Session : sess'[s].lease # None => sess[s].lease # None
    BY <1>10, <1>a, AssignDoes DEF Pinned, Steered, Leased, SameObjects, SameLeases
  <2> QED BY <1>10, <1>a, <2>1, AssignDoes, SilenceKept DEF SameFiles, Flight
<1>11. ASSUME NEW r \in Request, Redirect(r) PROVE Silence'
  BY <1>11, <1>a, RedirectDoes, SilenceKept DEF SameObjects, SameLeases, SameFiles, Flight,
     Ending
<1>12. ASSUME NEW r \in Request, Commit(r) PROVE Silence'
  BY <1>12, <1>a, CommitDoes, SilenceKept DEF SameObjects, SameLeases, SameFiles, Flight, Ending
<1>13. ASSUME NEW r \in Request, Take(r) PROVE Silence'
  BY <1>13, <1>a, TakeDoes, SilenceKept DEF SameObjects, SameLeases, SameFiles, Flight, Ending
<1>14. ASSUME NEW r \in Request, Abort(r) PROVE Silence'
  BY <1>14, <1>a, AbortDoes, SilenceKept DEF SameObjects, SameLeases, SameFiles, Flight, Ending
<1>15. ASSUME NEW r \in Request, Waited(r) PROVE Silence'
  BY <1>15, <1>a, WaitedDoes, SilenceKept DEF SameObjects, SameLeases, SameFiles, Flight, Ending
<1>16. ASSUME NEW r \in Request, Shut(r) PROVE Silence'
  BY <1>16, <1>a, ShutDoes, SilenceKept DEF SameObjects, SameLeases, SameFiles, Flight, Ending
<1>17. ASSUME NEW r \in Request, Release(r) PROVE Silence'
  <2>1. Nobody'
    BY <1>17, <1>a, ReleaseDoes DEF Nobody, Single, Leased, Tenure, Unreleased
  <2>2. Leased(req[r].on)
    BY <1>17, ReleaseDoes DEF Tenure, Unreleased
  <2>3. cleanup = {} /\ \A q \in Request : ~Ending(q)
    BY <1>17, <1>a, <2>2, ReleaseDoes DEF Silence, Nobody
  <2> QED BY <1>17, <2>1, <2>3, ReleaseDoes DEF Silence, Ending, SameFiles
<1>18. ASSUME NEW r \in Request, Destroy(r) PROVE Silence'
  <2>1. Nobody /\ Nobody'
    BY <1>18, <1>a, DestroyDoes DEF Silence, Ending, Nobody, Leased, SameObjects, SameLeases
  <2>2. \A q \in Request : q # r => req[q].pc # "destroy"
    BY <1>18, <1>a, DestroyDoes DEF Silence, Ending
  <2> QED BY <1>18, <2>1, <2>2, DestroyDoes DEF Silence, Ending
<1>19. ASSUME NEW r \in Request, DeleteClosed(r) PROVE Silence'
  <2>1. \A q \in Request : q # r => req[q].pc \in {"idle", "done", "linger"}
    BY <1>19, <1>b, DeleteClosedDoes
  <2>2. ASSUME NEW s \in Session PROVE ~Leased(s)
    BY <1>19, <1>a, <2>1, DeleteClosedDoes, Paths DEF Minded
  <2> QED BY <1>19, <1>a, <2>1, <2>2, DeleteClosedDoes DEF Silence, Ending, Nobody, Leased,
             SameObjects, SameLeases, SameFiles
<1>20. ASSUME NEW r \in Request, Erase(r) PROVE Silence'
  BY <1>20, <1>a, EraseDoes, SilenceKept DEF SameObjects, SameLeases, Remove, Flight, Ending
<1>21. ASSUME NEW r \in Request, Twin(r) PROVE Silence'
  BY <1>21, <1>a, TwinDoes, SilenceKept DEF SameObjects, SameLeases, RemoveTwin, Remove, Flight,
     Ending
<1>22. ASSUME NEW r \in Request, Linger(r) PROVE Silence'
  BY <1>22, <1>a, LingerDoes, SilenceKept DEF SameObjects, SameLeases, Remove, Flight, Ending
<1>23. ASSUME NEW r \in Request, Load(r) PROVE Silence'
  BY <1>23, <1>a, LoadDoes, SilenceKept DEF SameObjects, SameLeases, SameFiles, Flight, Ending
<1>24. ASSUME NEW r \in Request, ResolveAgain(r) PROVE Silence'
  BY <1>24, <1>a, ResolveAgainDoes, SilenceKept DEF SameObjects, SameLeases, SameFiles, Flight,
     Ending
<1>25. ASSUME NEW r \in Request, Acquire(r) PROVE Silence'
  BY <1>25, <1>a, AcquireDoes, SilenceKept DEF SameObjects, SameLeases, SameFiles, Flight,
     Ending
<1>26. ASSUME NEW r \in Request, Read(r) PROVE Silence'
  <2>1. \A q \in Request : ~Ending(q)
    BY <1>26, <1>b, ReadDoes DEF Ending, Flight
  <2>2. ASSUME NEW p \in cleanup PROVE FALSE
    <3>1. p = req[r].at
      BY <1>26, <1>a, <1>b, ReadDoes DEF Aiming
    <3> QED BY <1>26, <2>1, <3>1, ReadDoes DEF Marked, Ending, Flight
  <2> QED BY <1>26, <2>1, <2>2, ReadDoes DEF Silence, Ending, Flight, SameFiles
<1>27. ASSUME NEW r \in Request, ReadFails(r) PROVE Silence'
  BY <1>27, <1>a, ReadFailsDoes, SilenceKept DEF SameObjects, SameLeases, SameFiles, Flight,
     Ending
<1>28. ASSUME NEW r \in Request, LoadMeta(r) PROVE Silence'
  BY <1>28, <1>a, LoadMetaDoes, SilenceKept DEF SameObjects, SameLeases, SameFiles, Flight,
     Ending
<1>29. ASSUME NEW r \in Request, LoadMetaFails(r) PROVE Silence'
  <2>1. \A s \in Session : sess'[s].lease # None => sess[s].lease # None
    BY <1>29, LoadMetaFailsDoes
  <2> QED BY <1>29, <1>a, <2>1, LoadMetaFailsDoes, SilenceKept DEF SameFiles, Flight
<1>30. ASSUME NEW r \in Request, Register(r) PROVE Silence'
  BY <1>30, <1>a, RegisterDoes, SilenceKept DEF SameObjects, SameLeases, SameFiles, Flight,
     Ending
<1>31. ASSUME NEW p \in Path, OtherAcquires(p) PROVE Silence'
  BY <1>31, <1>a DEF OtherAcquires, Silence, Ending, Nobody, Leased
<1>32. ASSUME NEW p \in Path, OtherReleases(p) PROVE Silence'
  BY <1>32, <1>a DEF OtherReleases, Silence, Ending, Nobody, Leased
<1>33. ASSUME NEW p \in Path, Reconcile(p) PROVE Silence'
  BY <1>33, <1>a DEF Reconcile, Remove, Silence, Ending, Nobody, Leased
<1>34. CASE Crash
  BY <1>34, CrashDoes DEF Silence, Ending, Nobody, Leased, Flight
<1>35. CASE UNCHANGED vars
  BY <1>35, <1>a DEF vars, fileVars, Silence, Ending, Nobody, Leased
<1> QED BY <1>1, <1>2, <1>3, <1>4, <1>5, <1>6, <1>7, <1>8, <1>9, <1>10, <1>11, <1>12, <1>13,
           <1>14, <1>15, <1>16, <1>17, <1>18, <1>19, <1>20, <1>21, <1>22, <1>23, <1>24, <1>25,
           <1>26, <1>27, <1>28, <1>29, <1>30, <1>31, <1>32, <1>33, <1>34, <1>35, PlainSteps,
           PlainFiles DEF Next, Start, Continue, Turn, Save, Rebuild, Close, Open

LEMMA AimingKept ==
  ASSUME Goroutines, Shape, Aiming, NEW r \in Request,
         \A q \in Request : q # r => req'[q] = req[q],
         req[r].pc = "redirect" => req'[r].pc = "redirect" /\ req'[r].on = req[r].on,
         SameLeases, Resolve' = Resolve,
         cleanup' = {} \/ (cleanup' \subseteq cleanup /\ disk' = disk),
         disk \subseteq disk', metas' \subseteq disk' \cup {Main},
         Bearing(r)'
  PROVE  Aiming'
<1>1. \A p \in cleanup' : Resolve' = p \/ Resolve' \notin disk'
  BY DEF Aiming
<1>2. ASSUME NEW q \in Request PROVE Bearing(q)'
  <2>1. CASE q = r
    BY <2>1
  <2>2. CASE q # r
    <3>1. req[q].pc \in {"redirect", "destroy"} => req[q].on \in Session
      BY Sessions DEF Saves, Closes
    <3> QED BY <2>2, <3>1 DEF Aiming, Bearing, On, SameLeases
  <2> QED BY <2>1, <2>2
<1>3. ASSUME NEW s \in Session PROVE Aimed(s)'
  BY DEF Aiming, Aimed, Leased, SameLeases
<1> QED BY <1>1, <1>2, <1>3 DEF Aiming

LEMMA AimingRemoved ==
  ASSUME Others, Silence, Aiming, NEW p \in Path, Remove(p), p = Main \/ Resolve \in {p, Main},
         Nobody', \A q \in Request : req'[q].pc \notin Moves \cup {"destroy"},
         \A q \in Request : req'[q].pc \in Flight => req[q].pc \in Flight /\ req'[q].at = req[q].at
  PROVE  Aiming'
<1>1. Resolve' = Main
  BY ResolveFalls
<1>2. \A x \in cleanup' : Resolve' = x \/ Resolve' \notin disk'
  <2>1. CASE p = Main
    BY <1>1, <2>1 DEF Remove
  <2>2. CASE p # Main /\ Resolve = p
    BY <2>2, ResolveFound DEF Remove, Aiming
  <2>3. CASE p # Main /\ Resolve = Main
    BY <1>1, <2>3 DEF Remove, Aiming
  <2> QED BY <2>1, <2>2, <2>3
<1>3. metas' \subseteq disk' \cup {Main}
  BY DEF Remove, Aiming
<1>4. \A q \in Request : Bearing(q)'
  BY <1>1 DEF Bearing, Moves
<1>5. \A s \in Session : Aimed(s)'
  BY DEF Aimed, Nobody
<1> QED BY <1>2, <1>3, <1>4, <1>5 DEF Aiming

LEMMA WorkersAimed ==
  ASSUME Goroutines, Objects, Shape, Work, Closing, Tenure, Clean({"late"}), Silence, Aiming,
         NEW r \in Request, Turning(r) \/ Rebuilding(r)
  PROVE  /\ req[r].on \in Session /\ Leased(req[r].on) /\ cleanup = {}
         /\ \A q \in Request : ~Ending(q)
         /\ req[r].pc # "redirect" =>
               Resolve = sess[req[r].on].lease /\ Resolve = sess[req[r].on].transcript
<1>1. req[r].on \in Session /\ Leased(req[r].on)
  BY WorkersLeased
<1>2. ASSUME req[r].pc # "redirect", NEW q \in Request, req[q].pc = "redirect"
      PROVE  req[q].on # req[r].on
  BY <1>2, FollowersWork, Sole DEF Following
<1> QED BY <1>1, <1>2 DEF Silence, Nobody, Aiming, Aimed, Tenure, Named

LEMMA AimingStep ==
  ASSUME Goroutines, Objects, Others, Shape, Work, Closing, Tenure, Holding, Holding', Order,
         Silence', \A q \in Request : Marked(q), Orderly', [Next]_vars
  PROVE  Aiming'
<1>a. Silence /\ Aiming /\ Single /\ (\A q \in Request : Pinned(q)) /\ Clean({"late"})
  BY OrderlyBefore DEF Order
<1>b. "usurped" \notin amiss' /\ "raced" \notin amiss'
  BY OrderlyBefore
<1>c. metas \subseteq disk \cup {Main}
  BY <1>a DEF Aiming
<1>1. ASSUME NEW r \in Request, Plain(r), SameFiles PROVE Aiming'
  <2>1. Resolve' = Resolve
    BY <1>1, ResolveSame DEF SameFiles
  <2>2. Bearing(r)'
    <3>1. req[r].pc \in {"redirect", "destroy"} => req[r].on \in Session
      BY Sessions DEF Saves, Closes
    <3> QED BY <1>1, <1>a, <2>1, <3>1 DEF Plain, Aiming, Bearing, On, SameObjects, SameLeases,
               SameFiles, Special, Moves, Closes
  <2> QED BY <1>1, <1>a, <1>c, <2>1, <2>2, AimingKept DEF Plain, SameObjects, SameFiles,
             Special, Moves
<1>2. ASSUME NEW r \in Request, Saved(r) PROVE Aiming'
  <2>1. Plain(r) /\ cleanup = {}
    BY <1>2, <1>a, SavedDoes, Saver, WorkersAimed DEF Saves
  <2>2. Resolve' = Resolve
    BY <1>2, <1>c, SavedDoes, ResolveGrows
  <2>3. Bearing(r)'
    BY <1>2, <2>1, SavedDoes DEF Plain, Bearing, Special, Moves, Closes
  <2> QED BY <1>2, <1>a, <1>c, <2>1, <2>2, <2>3, SavedDoes, AimingKept DEF Plain, SameObjects
<1>3. ASSUME NEW r \in Request, Stamp(r) PROVE Aiming'
  <2>1. Plain(r) /\ Resolve = sess[req[r].on].transcript
    BY <1>3, <1>a, StampDoes, WorkersAimed
  <2>2. Resolve' = Resolve /\ metas' \subseteq disk' \cup {Main}
    BY <1>3, <1>c, <2>1, StampDoes, ResolveStays, ResolveSame
  <2>3. Bearing(r)'
    BY <1>3, <2>1, StampDoes DEF Plain, Bearing, Special, Moves, Closes, Flight
  <2> QED BY <1>3, <1>a, <2>1, <2>2, <2>3, StampDoes, AimingKept DEF Plain, SameObjects
<1>4. ASSUME NEW r \in Request, Build(r) PROVE Aiming'
  <2>1. Resolve' = Resolve
    BY <1>4, BuildDoes, ResolveSame DEF SameFiles
  <2>2. Bearing(r)'
    BY <1>4, <1>a, <2>1, BuildDoes DEF Aiming, Bearing, Moves, Flight, On, SameObjects,
       SameLeases, SameFiles
  <2> QED BY <1>4, <1>a, <1>c, <2>1, <2>2, BuildDoes, AimingKept DEF SameObjects, SameFiles
<1>5. ASSUME NEW r \in Request, Swap(r) PROVE Aiming'
  <2>1. Resolve = sess[req[r].on].transcript
    BY <1>5, <1>a, SwapDoes, WorkersAimed DEF Rebuilding
  <2>2. Resolve' = Resolve /\ metas' \subseteq disk' \cup {Main}
    BY <1>5, <1>c, <2>1, SwapDoes, ResolveStays, ResolveSame
  <2> QED BY <1>5, <1>a, <2>1, <2>2, SwapDoes, AimingKept DEF Bearing, Moves, Flight
<1>6. ASSUME NEW r \in Request, SwapRefused(r) PROVE Aiming'
  <2>1. Resolve' = Resolve
    BY <1>6, SwapRefusedDoes, ResolveSame DEF SameFiles
  <2>2. Bearing(r)'
    BY <1>6, <1>a, <2>1, SwapRefusedDoes DEF Aiming, Bearing, Moves, Flight, On, SameObjects,
       SameLeases, SameFiles
  <2> QED BY <1>6, <1>a, <1>c, <2>1, <2>2, SwapRefusedDoes, AimingKept DEF SameObjects,
             SameFiles
<1>7. ASSUME NEW r \in Request, Recover(r) PROVE Aiming'
  <2>1. cleanup = {}
    BY <1>7, <1>a, RecoverDoes, Saver, WorkersAimed DEF Saves
  <2>2. Resolve' = Resolve
    BY <1>7, <1>c, RecoverDoes, ResolveGrows
  <2> QED BY <1>7, <1>a, <1>c, <2>1, <2>2, RecoverDoes, AimingKept DEF Bearing, Moves, Flight,
             SameObjects
<1>8. ASSUME NEW r \in Request, Follow(r) PROVE Aiming'
  <2>1. Resolve' = Resolve
    BY <1>8, FollowDoes, ResolveSame DEF SameFiles
  <2>2. Bearing(r)'
    BY <1>8, <1>a, <2>1, FollowDoes DEF Aiming, Bearing, Moves, Flight, On, SameObjects,
       SameLeases, SameFiles
  <2> QED BY <1>8, <1>a, <1>c, <2>1, <2>2, FollowDoes, AimingKept DEF SameObjects, SameFiles
<1>9. ASSUME NEW r \in Request, Secure(r) PROVE Aiming'
  <2>1. Resolve' = Resolve
    BY <1>9, SecureDoes, ResolveSame DEF SameFiles
  <2>2. Bearing(r)'
    BY <1>9, <1>a, <2>1, SecureDoes DEF Aiming, Bearing, Moves, Flight, On, SameObjects,
       SameLeases, SameFiles
  <2> QED BY <1>9, <1>a, <1>c, <2>1, <2>2, SecureDoes, AimingKept DEF SameObjects, SameFiles
<1>10. ASSUME NEW r \in Request, Assign(r) PROVE Aiming'
  <2>1. Resolve' = Resolve
    BY <1>10, AssignDoes, ResolveSame DEF SameFiles
  <2>2. (Turning(r) \/ Rebuilding(r)) /\ Leased(req[r].on) /\ req[r].to = req[r].on
    BY <1>10, <1>a, AssignDoes, FollowersWork, WorkersLeased DEF Pinned, Steered
  <2>3. CASE req'[r].pc # "redirect"
    BY <1>10, <1>a, <1>c, <2>1, <2>3, AssignDoes, AimingKept DEF Bearing, Moves, Flight,
       SameObjects, SameFiles
  <2>4. CASE req'[r].pc = "redirect"
    <3>1. ASSUME NEW q \in Request PROVE Bearing(q)'
      <4>1. CASE q = r
        BY <1>10, <1>a, <2>2, <2>4, <4>1, AssignDoes DEF Aiming, Bearing, Moves, Flight, On,
           SameFiles
      <4>2. CASE q # r
        <5>1. req[q].pc = "redirect" => req[q].on \in Session /\ req[q].on # req[r].on
          BY <2>2, <4>2, FollowersWork, Sole, WorksOn DEF Following
        <5>2. req[q].pc # "destroy"
          BY <1>a, <2>2, WorkersAimed DEF Ending
        <5> QED BY <1>10, <1>a, <2>1, <2>2, <2>4, <4>2, <5>1, <5>2, AssignDoes DEF Aiming,
                   Bearing, On, SameFiles
      <4> QED BY <4>1, <4>2
    <3>2. ASSUME NEW s \in Session PROVE Aimed(s)'
      <4>1. CASE s = req[r].on
        BY <1>10, <1>a, <2>2, <2>4, <4>1, AssignDoes DEF Aiming, Bearing, Aimed, Moves,
           SameFiles
      <4>2. CASE s # req[r].on
        BY <1>10, <1>a, <2>2, <2>4, <4>2, AssignDoes DEF Aimed, Single, Leased
      <4> QED BY <4>1, <4>2
    <3> QED BY <1>10, <1>a, <2>1, <3>1, <3>2, AssignDoes DEF Aiming, SameFiles
  <2> QED BY <2>3, <2>4
<1>11. ASSUME NEW r \in Request, Redirect(r) PROVE Aiming'
  <2>1. (Turning(r) \/ Rebuilding(r)) /\ Leased(req[r].on) /\ cleanup = {}
         /\ \A q \in Request : ~Ending(q)
    BY <1>11, <1>a, RedirectDoes, FollowersWork, WorkersAimed DEF Following
  <2>2. req[r].at \in disk /\ sess[req[r].on].lease = req[r].at
    BY <1>11, <1>a, RedirectDoes DEF Aiming, Bearing, Moves, On
  <2>3. Resolve' = req[r].at
    BY <1>11, <2>2, RedirectDoes DEF Resolve
  <2>4. ASSUME NEW q \in Request PROVE Bearing(q)'
    <3>1. req[q].pc = "redirect" => req[q].on \in Session
      BY Sessions DEF Saves
    <3>2. req'[q].pc \notin Flight \cup {"destroy"}
      BY <1>11, <2>1, RedirectDoes DEF Ending, Flight
    <3> QED BY <1>11, <1>a, <3>1, <3>2, RedirectDoes DEF Aiming, Bearing, Moves, On,
               SameObjects, SameLeases
  <2>5. ASSUME NEW s \in Session PROVE Aimed(s)'
    <3>1. CASE s = req[r].on
      BY <1>11, <1>a, <2>2, <2>3, <3>1, RedirectDoes DEF Aimed, SameObjects, SameLeases
    <3>2. CASE s # req[r].on
      BY <1>11, <1>a, <2>1, <3>2, RedirectDoes DEF Aimed, Single, Leased, SameObjects,
         SameLeases
    <3> QED BY <3>1, <3>2
  <2> QED BY <1>11, <1>c, <2>1, <2>2, <2>4, <2>5, RedirectDoes DEF Aiming
<1>12. ASSUME NEW r \in Request, Commit(r) PROVE Aiming'
  <2>1. Resolve' = Resolve
    BY <1>12, CommitDoes, ResolveSame DEF SameFiles
  <2>2. Bearing(r)'
    BY <1>12, <1>a, <2>1, CommitDoes DEF Aiming, Bearing, Moves, Flight, On, SameObjects,
       SameLeases, SameFiles
  <2> QED BY <1>12, <1>a, <1>c, <2>1, <2>2, CommitDoes, AimingKept DEF SameObjects, SameFiles
<1>13. ASSUME NEW r \in Request, Take(r) PROVE Aiming'
  <2>1. Resolve' = Resolve
    BY <1>13, TakeDoes, ResolveSame DEF SameFiles
  <2>2. Bearing(r)'
    BY <1>13, <1>a, <2>1, TakeDoes DEF Aiming, Bearing, Moves, Flight, On, SameObjects,
       SameLeases, SameFiles
  <2> QED BY <1>13, <1>a, <1>c, <2>1, <2>2, TakeDoes, AimingKept DEF SameObjects, SameFiles
<1>14. ASSUME NEW r \in Request, Abort(r) PROVE Aiming'
  <2>1. Resolve' = Resolve
    BY <1>14, AbortDoes, ResolveSame DEF SameFiles
  <2>2. Bearing(r)'
    BY <1>14, <1>a, <2>1, AbortDoes DEF Aiming, Bearing, Moves, Flight, On, SameObjects,
       SameLeases, SameFiles
  <2> QED BY <1>14, <1>a, <1>c, <2>1, <2>2, AbortDoes, AimingKept DEF SameObjects, SameFiles
<1>15. ASSUME NEW r \in Request, Waited(r) PROVE Aiming'
  <2>1. Resolve' = Resolve
    BY <1>15, WaitedDoes, ResolveSame DEF SameFiles
  <2>2. Bearing(r)'
    BY <1>15, <1>a, <2>1, WaitedDoes DEF Aiming, Bearing, Moves, Flight, On, SameObjects,
       SameLeases, SameFiles
  <2> QED BY <1>15, <1>a, <1>c, <2>1, <2>2, WaitedDoes, AimingKept DEF SameObjects, SameFiles
<1>16. ASSUME NEW r \in Request, Shut(r) PROVE Aiming'
  <2>1. Resolve' = Resolve
    BY <1>16, ShutDoes, ResolveSame DEF SameFiles
  <2>2. Bearing(r)'
    BY <1>16, <1>a, <2>1, ShutDoes DEF Aiming, Bearing, Moves, Flight, On, SameObjects,
       SameLeases, SameFiles
  <2> QED BY <1>16, <1>a, <1>c, <2>1, <2>2, ShutDoes, AimingKept DEF SameObjects, SameFiles
<1>17. ASSUME NEW r \in Request, Release(r) PROVE Aiming'
  <2>1. Leased(req[r].on) /\ sess[req[r].on].lease = sess[req[r].on].transcript
    BY <1>17, ReleaseDoes DEF Tenure, Unreleased, Named
  <2>2. ASSUME NEW q \in Request, req[q].pc = "redirect" PROVE req[q].on # req[r].on
    BY <1>17, <1>a, <2>2, ReleaseDoes DEF Pinned, Steered, Waits, Closes
  <2>3. Resolve' = Resolve /\ Resolve = sess[req[r].on].transcript
    BY <1>17, <1>a, <2>1, <2>2, ReleaseDoes, ResolveSame DEF Aiming, Aimed, SameFiles
  <2>4. ASSUME NEW q \in Request PROVE Bearing(q)'
    <3>1. CASE q = r
      BY <1>17, <2>3, <3>1, ReleaseDoes DEF Bearing, Moves, Flight, On
    <3>2. CASE q # r
      <4>1. req[q].pc \in {"redirect", "destroy"} => req[q].on \in Session
        BY Sessions DEF Saves, Closes
      <4> QED BY <1>17, <1>a, <2>2, <2>3, <3>2, <4>1, ReleaseDoes DEF Aiming, Bearing, On,
                 SameFiles
    <3> QED BY <3>1, <3>2
  <2>5. \A s \in Session : Aimed(s)'
    BY <1>17, <1>a, <2>1, ReleaseDoes DEF Aimed, Single, Leased
  <2> QED BY <1>17, <1>a, <2>3, <2>4, <2>5, ReleaseDoes DEF Aiming, SameFiles
<1>18. ASSUME NEW r \in Request, Destroy(r) PROVE Aiming'
  <2>1. Resolve' = Resolve /\ Resolve = req'[r].at
    BY <1>18, <1>a, DestroyDoes, ResolveSame DEF Aiming, Bearing, On
  <2>2. ASSUME NEW q \in Request PROVE Bearing(q)'
    <3>1. CASE q = r
      BY <1>18, <2>1, <3>1, DestroyDoes DEF Bearing, Moves
    <3>2. CASE q # r
      <4>1. req[q].pc \in {"redirect", "destroy"} => req[q].on \in Session
        BY Sessions DEF Saves, Closes
      <4> QED BY <1>18, <1>a, <2>1, <3>2, <4>1, DestroyDoes DEF Aiming, Bearing, On,
                 SameObjects, SameLeases
    <3> QED BY <3>1, <3>2
  <2>3. \A s \in Session : Aimed(s)'
    BY <1>18, <1>a, DestroyDoes DEF Silence, Ending, Nobody, Aimed, Leased, SameObjects,
       SameLeases
  <2> QED BY <1>18, <1>a, <2>1, <2>2, <2>3, DestroyDoes DEF Aiming
<1>19. ASSUME NEW r \in Request, DeleteClosed(r) PROVE Aiming'
  <2>1. Resolve' = Resolve
    BY <1>19, DeleteClosedDoes, ResolveSame DEF SameFiles
  <2> QED BY <1>19, <1>a, <1>c, <2>1, DeleteClosedDoes, AimingKept DEF Bearing, Moves, Flight,
             SameObjects, SameFiles
<1>20. ASSUME NEW r \in Request, Erase(r) PROVE Aiming'
  <2>1. Nobody /\ Nobody'
    BY <1>20, <1>a, EraseDoes DEF Silence, Ending, Flight, Nobody, Leased, SameObjects,
       SameLeases
  <2>2. \A q \in Request : req'[q].pc \notin Moves \cup {"destroy"}
    <3>1. ASSUME NEW q \in Request, req[q].pc \in Moves PROVE FALSE
      <4>1. Turning(q) \/ Rebuilding(q)
        BY <3>1, Saver DEF Moves, Saves
      <4> QED BY <1>a, <2>1, <4>1, WorkersLeased DEF Nobody
    <3>2. \A q \in Request : q # r => req[q].pc # "destroy"
      BY <1>20, <1>a, EraseDoes DEF Silence, Ending, Flight
    <3> QED BY <1>20, <3>1, <3>2, EraseDoes DEF Moves
  <2>3. req[r].at \in Path /\ Resolve \in {req[r].at, Main}
    BY <1>20, <1>a, EraseDoes DEF Aiming, Bearing, Flight, Goroutines, Goroutine
  <2> QED BY <1>20, <1>a, <2>1, <2>2, <2>3, EraseDoes, AimingRemoved DEF Flight
<1>21. ASSUME NEW r \in Request, Twin(r) PROVE Aiming'
  <2>1. Nobody /\ Nobody'
    BY <1>21, <1>a, TwinDoes DEF Silence, Ending, Flight, Nobody, Leased, SameObjects,
       SameLeases
  <2>2. \A q \in Request : req'[q].pc \notin Moves \cup {"destroy"}
    <3>1. ASSUME NEW q \in Request, req[q].pc \in Moves PROVE FALSE
      <4>1. Turning(q) \/ Rebuilding(q)
        BY <3>1, Saver DEF Moves, Saves
      <4> QED BY <1>a, <2>1, <4>1, WorkersLeased DEF Nobody
    <3>2. \A q \in Request : q # r => req[q].pc # "destroy"
      BY <1>21, <1>a, TwinDoes DEF Silence, Ending, Flight
    <3> QED BY <1>21, <3>1, <3>2, TwinDoes DEF Moves
  <2>3. req[r].at \in Path /\ Resolve \in {req[r].at, Main}
    BY <1>21, <1>a, TwinDoes DEF Aiming, Bearing, Flight, Goroutines, Goroutine
  <2>4. CASE req[r].at # Main
    BY <1>21, <1>a, <2>1, <2>2, <2>4, TwinDoes, AimingRemoved, Paths DEF Flight, RemoveTwin,
       Aiming, Bearing
  <2>5. CASE req[r].at = Main
    <3>1. Resolve' = Resolve
      BY <1>21, <2>5, TwinDoes, ResolveSame DEF RemoveTwin
    <3> QED BY <1>21, <1>a, <1>c, <2>3, <2>5, <3>1, TwinDoes, AimingKept DEF Bearing, Moves,
               Flight, RemoveTwin, SameObjects
  <2> QED BY <2>4, <2>5
<1>22. ASSUME NEW r \in Request, Linger(r) PROVE Aiming'
  <2>1. Nobody /\ Nobody'
    BY <1>22, <1>a, LingerDoes DEF Silence, Ending, Flight, Nobody, Leased, SameObjects,
       SameLeases
  <2>2. \A q \in Request : req'[q].pc \notin Moves \cup {"destroy"}
    <3>1. ASSUME NEW q \in Request, req[q].pc \in Moves PROVE FALSE
      <4>1. Turning(q) \/ Rebuilding(q)
        BY <3>1, Saver DEF Moves, Saves
      <4> QED BY <1>a, <2>1, <4>1, WorkersLeased DEF Nobody
    <3>2. \A q \in Request : q # r => req[q].pc # "destroy"
      BY <1>22, <1>a, LingerDoes DEF Silence, Ending, Flight
    <3> QED BY <1>22, <3>1, <3>2, LingerDoes DEF Moves
  <2>3. req[r].at \in Path /\ Resolve \in {req[r].at, Main}
    BY <1>22, <1>a, LingerDoes DEF Aiming, Bearing, Flight, Goroutines, Goroutine
  <2> QED BY <1>22, <1>a, <2>1, <2>2, <2>3, LingerDoes, AimingRemoved DEF Flight
<1>23. ASSUME NEW r \in Request, Load(r) PROVE Aiming'
  <2>1. Resolve' = Resolve
    BY <1>23, LoadDoes, ResolveSame DEF SameFiles
  <2>2. Bearing(r)'
    BY <1>23, <1>a, <2>1, LoadDoes DEF Aiming, Bearing, Moves, Flight, On, SameObjects,
       SameLeases, SameFiles
  <2> QED BY <1>23, <1>a, <1>c, <2>1, <2>2, LoadDoes, AimingKept DEF SameObjects, SameFiles
<1>24. ASSUME NEW r \in Request, ResolveAgain(r) PROVE Aiming'
  <2>1. Resolve' = Resolve
    BY <1>24, ResolveAgainDoes, ResolveSame DEF SameFiles
  <2>2. Bearing(r)'
    BY <1>24, <1>a, <2>1, ResolveAgainDoes DEF Aiming, Bearing, Moves, Flight, On, SameObjects,
       SameLeases, SameFiles
  <2> QED BY <1>24, <1>a, <1>c, <2>1, <2>2, ResolveAgainDoes, AimingKept DEF SameObjects,
             SameFiles
<1>25. ASSUME NEW r \in Request, Acquire(r) PROVE Aiming'
  <2>1. Resolve' = Resolve
    BY <1>25, AcquireDoes, ResolveSame DEF SameFiles
  <2>2. Bearing(r)'
    BY <1>25, <1>a, <2>1, AcquireDoes DEF Aiming, Bearing, Moves, Flight, On, SameObjects,
       SameLeases, SameFiles
  <2> QED BY <1>25, <1>a, <1>c, <2>1, <2>2, AcquireDoes, AimingKept DEF SameObjects, SameFiles
<1>26. ASSUME NEW r \in Request, Read(r) PROVE Aiming'
  <2>1. Resolve' = Resolve /\ Resolve = req[r].at
    BY <1>26, <1>b, ReadDoes, ResolveSame DEF SameFiles
  <2>2. ASSUME NEW q \in Request PROVE Bearing(q)'
    <3>1. CASE q = r
      BY <1>26, <3>1, ReadDoes DEF Bearing, Moves, Flight
    <3>2. CASE q # r
      <4>1. /\ req[q].pc \in {"redirect", "destroy"} => req[q].on \in Session
            /\ req[q].on # req[r].on
        BY <1>26, <3>2, Sessions, ReadDoes DEF Saves, Closes, Shape, Alone, Opens
      <4> QED BY <1>26, <1>a, <2>1, <3>2, <4>1, ReadDoes DEF Aiming, Bearing, On, SameFiles
    <3> QED BY <3>1, <3>2
  <2>3. ASSUME NEW s \in Session PROVE Aimed(s)'
    BY <1>26, <1>b, <2>1, ReadDoes DEF Aimed, Leased, SameFiles
  <2> QED BY <1>26, <1>a, <2>1, <2>2, <2>3, ReadDoes DEF Aiming, SameFiles
<1>27. ASSUME NEW r \in Request, ReadFails(r) PROVE Aiming'
  <2>1. Resolve' = Resolve
    BY <1>27, ReadFailsDoes, ResolveSame DEF SameFiles
  <2>2. Bearing(r)'
    BY <1>27, <1>a, <2>1, ReadFailsDoes DEF Aiming, Bearing, Moves, Flight, On, SameObjects,
       SameLeases, SameFiles
  <2> QED BY <1>27, <1>a, <1>c, <2>1, <2>2, ReadFailsDoes, AimingKept DEF SameObjects, SameFiles
<1>28. ASSUME NEW r \in Request, LoadMeta(r) PROVE Aiming'
  <2>1. Leased(req[r].on) /\ sess[req[r].on].lease = req[r].at
    BY <1>28, LoadMetaDoes, Paths DEF Closing, Fresh, On, Leased, Goroutines, Goroutine
  <2>2. ASSUME NEW q \in Request, req[q].pc = "redirect" PROVE req[q].on # req[r].on
    BY <1>28, <2>2, LoadMetaDoes DEF Shape, Alone, Opens
  <2>3. Resolve = req[r].at /\ req[r].at \in disk \cup {Main}
    BY <1>a, <2>1, <2>2, LoadMetaDoes, <1>28 DEF Aiming, Aimed
  <2>4. Resolve' = Resolve /\ metas' \subseteq disk' \cup {Main}
    BY <1>28, <1>c, <2>3, LoadMetaDoes, ResolveStays
  <2> QED BY <1>28, <1>a, <2>4, LoadMetaDoes, AimingKept DEF Bearing, Moves, Flight, SameObjects
<1>29. ASSUME NEW r \in Request, LoadMetaFails(r) PROVE Aiming'
  <2>1. Resolve' = Resolve
    BY <1>29, LoadMetaFailsDoes, ResolveSame DEF SameFiles
  <2>2. ASSUME NEW q \in Request PROVE Bearing(q)'
    <3>1. CASE q = r
      BY <1>29, <3>1, LoadMetaFailsDoes DEF Bearing, Moves, Flight
    <3>2. CASE q # r
      <4>1. /\ req[q].pc \in {"redirect", "destroy"} => req[q].on \in Session
            /\ req[q].on # req[r].on
        BY <1>29, <3>2, Sessions, LoadMetaFailsDoes DEF Saves, Closes, Shape, Alone, Opens
      <4> QED BY <1>29, <1>a, <2>1, <3>2, <4>1, LoadMetaFailsDoes DEF Aiming, Bearing, On,
                 SameFiles
    <3> QED BY <3>1, <3>2
  <2>3. ASSUME NEW s \in Session PROVE Aimed(s)'
    BY <1>29, <1>a, <2>1, LoadMetaFailsDoes DEF Aiming, Aimed, Leased, SameFiles
  <2> QED BY <1>29, <1>a, <2>1, <2>2, <2>3, LoadMetaFailsDoes DEF Aiming, SameFiles
<1>30. ASSUME NEW r \in Request, Register(r) PROVE Aiming'
  <2>1. Resolve' = Resolve
    BY <1>30, RegisterDoes, ResolveSame DEF SameFiles
  <2>2. Bearing(r)'
    BY <1>30, <1>a, <2>1, RegisterDoes DEF Aiming, Bearing, Moves, Flight, On, SameObjects,
       SameLeases, SameFiles
  <2> QED BY <1>30, <1>a, <1>c, <2>1, <2>2, RegisterDoes, AimingKept DEF SameObjects, SameFiles
<1>31. ASSUME NEW p \in Path, OtherAcquires(p) PROVE Aiming'
  <2>1. Resolve' = Resolve
    BY <1>31, ResolveSame DEF OtherAcquires
  <2> QED BY <1>31, <1>a, <2>1 DEF OtherAcquires, Aiming, Bearing, Aimed, Leased, On
<1>32. ASSUME NEW p \in Path, OtherReleases(p) PROVE Aiming'
  <2>1. Resolve' = Resolve
    BY <1>32, ResolveSame DEF OtherReleases
  <2> QED BY <1>32, <1>a, <2>1 DEF OtherReleases, Aiming, Bearing, Aimed, Leased, On
<1>33. ASSUME NEW p \in Path, Reconcile(p) PROVE Aiming'
  <2>1. Nobody /\ Nobody'
    BY <1>33, <1>a DEF Reconcile, Silence, Nobody, Leased
  <2>2. \A q \in Request : req'[q].pc \notin Moves \cup {"destroy"}
    <3>1. ASSUME NEW q \in Request, req[q].pc \in Moves PROVE FALSE
      <4>1. Turning(q) \/ Rebuilding(q)
        BY <3>1, Saver DEF Moves, Saves
      <4> QED BY <1>a, <2>1, <4>1, WorkersLeased DEF Nobody
    <3> QED BY <1>33, <1>a, <3>1 DEF Reconcile, Silence
  <2>3. Resolve \in {p, Main}
    BY <1>33, <1>a, ResolveFound DEF Aiming, Reconcile
  <2> QED BY <1>33, <1>a, <2>1, <2>2, <2>3, AimingRemoved DEF Reconcile
<1>34. CASE Crash
  <2>1. Resolve' = Resolve
    BY <1>34, CrashDoes, ResolveSame DEF SameFiles
  <2> QED BY <1>34, <1>a, <2>1, CrashDoes DEF SameFiles, Aiming, Bearing, Aimed, Leased, Moves,
             Flight
<1>35. CASE UNCHANGED vars
  <2>1. Resolve' = Resolve
    BY <1>35, ResolveSame DEF vars, fileVars
  <2> QED BY <1>35, <1>a, <2>1 DEF vars, fileVars, Aiming, Bearing, Aimed, Leased, On
<1> QED BY <1>1, <1>2, <1>3, <1>4, <1>5, <1>6, <1>7, <1>8, <1>9, <1>10, <1>11, <1>12, <1>13,
           <1>14, <1>15, <1>16, <1>17, <1>18, <1>19, <1>20, <1>21, <1>22, <1>23, <1>24, <1>25,
           <1>26, <1>27, <1>28, <1>29, <1>30, <1>31, <1>32, <1>33, <1>34, <1>35, PlainSteps,
           PlainFiles DEF Next, Start, Continue, Turn, Save, Rebuild, Close, Open

LEMMA OrderStep ==
  ASSUME Goroutines, Objects, Others, Shape, Work, Closing, Tenure, Holding, Holding', Order,
         \A q \in Request : Marked(q), [Next]_vars
  PROVE  Order'
BY SilenceStep, AimingStep DEF Order
-----------------------------------------------------------------------------
(***************************************************************************)
(* What a deletion leaves, and where the id reopens.                       *)
(***************************************************************************)

\* And no session has moved from one recovery branch to another.
Tidy == Orderly /\ Clean({"left"})

\* A recovery leaves the transcript keyed by the id, and the second half of a
\* deletion finds nothing but that one.
Swept(r) ==
    /\ req[r].pc = "redirect" => Resolve = Main
    /\ req[r].pc = "twin" => /\ metas \subseteq {Main} \cup cleanup
                             /\ {req[r].at} \cap (disk \cup metas) \subseteq cleanup
Lean ==
    /\ metas \subseteq {Main, Resolve} \cup cleanup
    /\ \A r \in Request : Swept(r)
    /\ gone => Nobody /\ metas \cup (disk \cap {Main}) \subseteq cleanup
Neat == Tidy => Lean

LEMMA LeanKept ==
  ASSUME Lean, NEW r \in Request,
         \A q \in Request : q # r => req'[q] = req[q],
         req'[r].pc = "redirect" => req[r].pc = "redirect",
         req'[r].pc = "twin" => req[r].pc = "twin" /\ req'[r].at = req[r].at,
         UNCHANGED <<disk, metas, redirect, gone>>, cleanup \subseteq cleanup',
         \A s \in Session : sess'[s].lease # None => sess[s].lease # None
  PROVE  Lean'
<1>1. Resolve' = Resolve
  BY ResolveSame
<1>2. \A q \in Request : Swept(q)'
  BY <1>1 DEF Lean, Swept
<1> QED BY <1>1, <1>2 DEF Lean, Nobody, Leased

LEMMA LeanGrown ==
  ASSUME Silence, Lean, NEW r \in Request, NEW s \in Session, Leased(s),
         \A q \in Request : q # r => req'[q] = req[q],
         req'[r].pc \notin {"redirect", "twin"},
         Resolve' = Resolve, metas' \subseteq metas \cup {Resolve},
         UNCHANGED <<cleanup, gone>>
  PROVE  Lean'
<1>1. ~gone /\ \A q \in Request : req[q].pc # "twin"
  BY DEF Lean, Nobody, Silence, Ending, Flight
<1>2. \A q \in Request : Swept(q)'
  BY <1>1 DEF Lean, Swept
<1> QED BY <1>1, <1>2 DEF Lean

LEMMA LeanRemoved ==
  ASSUME Others, Lean, NEW p \in Path, Remove(p),
         Resolve \in {p, Main} \/ (p = Main /\ metas \subseteq {Main} \cup cleanup),
         Nobody', \A q \in Request : req'[q].pc # "redirect",
         \A q \in Request : req'[q].pc = "twin" =>
             req'[q].at = p \/ (req[q].pc = "twin" /\ req'[q].at = req[q].at),
         gone' => (metas \cup (disk \cap {Main})) \ {p} \subseteq cleanup
  PROVE  Lean'
<1>1. metas' \subseteq {Main} \cup cleanup'
  BY DEF Lean, Remove
<1>2. ASSUME NEW q \in Request PROVE Swept(q)'
  BY <1>1 DEF Lean, Swept, Remove
<1>3. gone' => metas' \cup (disk' \cap {Main}) \subseteq cleanup'
  BY DEF Remove
<1> QED BY <1>1, <1>2, <1>3 DEF Lean

LEMMA LeanStep ==
  ASSUME Goroutines, Objects, Others, Shape, Work, Closing, Tenure, Holding, Holding', Order,
         Order',
         \A q \in Request : Marked(q), Neat, Tidy', [Next]_vars
  PROVE  Lean'
<1>a. /\ Silence /\ Aiming /\ Silence' /\ Aiming' /\ Lean /\ Single /\ (\A q \in Request : Pinned(q))
      /\ Clean({"late"})
  BY OrderlyBefore, RegularBefore DEF Order, Neat, Tidy
<1>b. "usurped" \notin amiss' /\ "raced" \notin amiss' /\ "left" \notin amiss'
  BY OrderlyBefore DEF Tidy, Clean
<1>c. metas \subseteq disk \cup {Main}
  BY <1>a DEF Aiming
<1>1. ASSUME NEW r \in Request, Plain(r), SameFiles PROVE Lean'
  BY <1>1, <1>a, LeanKept DEF Plain, SameObjects, SameLeases, SameFiles, Special, Moves, Flight
<1>2. ASSUME NEW r \in Request, Saved(r) PROVE Lean'
  <2>1. Plain(r) /\ req[r].on \in Session /\ Leased(req[r].on)
    BY <1>2, <1>a, SavedDoes, Saver, WorkersAimed DEF Saves
  <2>2. Resolve' = Resolve
    BY <1>2, <1>c, SavedDoes, ResolveGrows
  <2> QED BY <1>2, <1>a, <2>1, <2>2, SavedDoes, LeanGrown DEF Plain, Special, Moves, Flight
<1>3. ASSUME NEW r \in Request, Stamp(r) PROVE Lean'
  <2>1. Plain(r) /\ req[r].on \in Session /\ Leased(req[r].on) /\ Resolve = sess[req[r].on].transcript
    BY <1>3, <1>a, StampDoes, WorkersAimed
  <2>2. Resolve' = Resolve /\ metas' \subseteq metas \cup {Resolve}
    BY <1>3, <2>1, StampDoes, ResolveStays, ResolveSame
  <2> QED BY <1>3, <1>a, <2>1, <2>2, StampDoes, LeanGrown DEF Plain, Special, Moves, Flight
<1>4. ASSUME NEW r \in Request, Build(r) PROVE Lean'
  BY <1>4, <1>a, BuildDoes, LeanKept DEF SameObjects, SameLeases, SameFiles
<1>5. ASSUME NEW r \in Request, Swap(r) PROVE Lean'
  <2>1. req[r].on \in Session /\ Leased(req[r].on) /\ Resolve = sess[req[r].on].transcript
    BY <1>5, <1>a, SwapDoes, WorkersAimed DEF Rebuilding
  <2>2. Resolve' = Resolve /\ metas' \subseteq metas \cup {Resolve}
    BY <1>5, <2>1, SwapDoes, ResolveStays, ResolveSame
  <2> QED BY <1>5, <1>a, <2>1, <2>2, SwapDoes, LeanGrown
<1>6. ASSUME NEW r \in Request, SwapRefused(r) PROVE Lean'
  BY <1>6, <1>a, SwapRefusedDoes, LeanKept DEF SameObjects, SameLeases, SameFiles
<1>7. ASSUME NEW r \in Request, Recover(r) PROVE Lean'
  <2>1. req[r].on \in Session /\ Leased(req[r].on)
    BY <1>7, <1>a, RecoverDoes, Saver, WorkersAimed DEF Saves
  <2>2. Resolve' = Resolve
    BY <1>7, <1>c, RecoverDoes, ResolveGrows
  <2> QED BY <1>7, <1>a, <2>1, <2>2, RecoverDoes, LeanGrown
<1>8. ASSUME NEW r \in Request, Follow(r) PROVE Lean'
  BY <1>8, <1>a, FollowDoes, LeanKept DEF SameObjects, SameLeases, SameFiles
<1>9. ASSUME NEW r \in Request, Secure(r) PROVE Lean'
  BY <1>9, <1>a, SecureDoes, LeanKept DEF SameObjects, SameLeases, SameFiles
<1>10. ASSUME NEW r \in Request, Assign(r) PROVE Lean'
  <2>1. (Turning(r) \/ Rebuilding(r)) /\ Leased(req[r].on) /\ req[r].to = req[r].on
    BY <1>10, <1>a, AssignDoes, FollowersWork, WorkersLeased DEF Pinned, Steered
  <2>2. Resolve = Main
    BY <1>10, <1>a, <1>b, <2>1, AssignDoes, WorkersAimed
  <2>3. Resolve' = Resolve
    BY <1>10, AssignDoes, ResolveSame DEF SameFiles
  <2>4. ~gone
    BY <1>10, <1>a, <2>1, AssignDoes DEF Lean, Nobody
  <2>5. \A q \in Request : Swept(q)'
    BY <1>10, <1>a, <2>2, <2>3, AssignDoes DEF Lean, Swept, SameFiles
  <2> QED BY <1>10, <1>a, <2>3, <2>4, <2>5, AssignDoes DEF Lean, SameFiles
<1>11. ASSUME NEW r \in Request, Redirect(r) PROVE Lean'
  <2>1. (Turning(r) \/ Rebuilding(r)) /\ Leased(req[r].on) /\ cleanup = {}
         /\ \A q \in Request : ~Ending(q)
    BY <1>11, <1>a, RedirectDoes, FollowersWork, WorkersAimed DEF Following
  <2>2. req[r].at \in disk /\ Resolve = Main
    BY <1>11, <1>a, RedirectDoes DEF Aiming, Bearing, Moves, Lean, Swept
  <2>3. Resolve' = req[r].at
    BY <1>11, <2>2, RedirectDoes DEF Resolve
  <2>4. metas' \subseteq {Main, Resolve'} \cup cleanup'
    BY <1>11, <1>a, <2>1, <2>2, <2>3, RedirectDoes DEF Lean
  <2>5. ASSUME NEW q \in Request, q # r PROVE req[q].pc \notin {"redirect", "twin"}
    <3>1. CASE req[q].pc = "redirect"
      <4>1. (Turning(q) \/ Rebuilding(q)) /\ Leased(req[q].on) /\ req[q].on \in Session
        BY <1>a, <3>1, FollowersWork, WorkersLeased DEF Following
      <4> QED BY <1>11, <1>a, <2>1, <2>5, <4>1, RedirectDoes, Sole DEF Single
    <3> QED BY <2>1, <3>1 DEF Ending, Flight
  <2>6. \A q \in Request : Swept(q)'
    BY <1>11, <2>5, RedirectDoes DEF Swept
  <2>7. ~gone
    BY <1>11, <1>a, <2>1, RedirectDoes DEF Lean, Nobody
  <2> QED BY <1>11, <2>4, <2>6, <2>7, RedirectDoes DEF Lean
<1>12. ASSUME NEW r \in Request, Commit(r) PROVE Lean'
  BY <1>12, <1>a, CommitDoes, LeanKept DEF SameObjects, SameLeases, SameFiles
<1>13. ASSUME NEW r \in Request, Take(r) PROVE Lean'
  BY <1>13, <1>a, TakeDoes, LeanKept DEF SameObjects, SameLeases, SameFiles
<1>14. ASSUME NEW r \in Request, Abort(r) PROVE Lean'
  BY <1>14, <1>a, AbortDoes, LeanKept DEF SameObjects, SameLeases, SameFiles
<1>15. ASSUME NEW r \in Request, Waited(r) PROVE Lean'
  BY <1>15, <1>a, WaitedDoes, LeanKept DEF SameObjects, SameLeases, SameFiles
<1>16. ASSUME NEW r \in Request, Shut(r) PROVE Lean'
  BY <1>16, <1>a, ShutDoes, LeanKept DEF SameObjects, SameLeases, SameFiles
<1>17. ASSUME NEW r \in Request, Release(r) PROVE Lean'
  BY <1>17, <1>a, ReleaseDoes, LeanKept DEF SameObjects, SameLeases, SameFiles
<1>18. ASSUME NEW r \in Request, Destroy(r) PROVE Lean'
  <2>1. Resolve' = Resolve /\ Resolve = req'[r].at
    BY <1>18, <1>a, DestroyDoes, ResolveSame DEF Aiming, Bearing, On
  <2>2. ASSUME NEW q \in Request PROVE Swept(q)'
    <3>1. CASE q = r
      BY <1>18, <1>a, <2>1, <3>1, DestroyDoes DEF Lean, Swept
    <3>2. CASE q # r
      BY <1>18, <1>a, <2>1, <3>2, DestroyDoes DEF Lean, Swept
    <3> QED BY <3>1, <3>2
  <2> QED BY <1>18, <1>a, <2>1, <2>2, DestroyDoes DEF Lean, Nobody, Leased, SameObjects,
             SameLeases
<1>19. ASSUME NEW r \in Request, DeleteClosed(r) PROVE Lean'
  BY <1>19, <1>a, DeleteClosedDoes, LeanKept DEF SameObjects, SameLeases, SameFiles
<1>20. ASSUME NEW r \in Request, Erase(r) PROVE Lean'
  <2>1. Nobody /\ Nobody'
    BY <1>20, <1>a, EraseDoes DEF Silence, Ending, Flight, Nobody, Leased, SameObjects,
       SameLeases
  <2>2. ASSUME NEW q \in Request PROVE req[q].pc # "redirect"
    <3>1. req[q].pc = "redirect" => Turning(q) \/ Rebuilding(q)
      BY FollowersWork DEF Following
    <3> QED BY <1>a, <2>1, <3>1, WorkersLeased DEF Nobody
  <2>3. req[r].at \in Path /\ Resolve \in {req[r].at, Main}
    BY <1>20, <1>a, EraseDoes DEF Aiming, Bearing, Flight, Goroutines, Goroutine
  <2>4. gone' => (metas \cup (disk \cap {Main})) \ {req[r].at} \subseteq cleanup
    BY <1>20, <1>a, EraseDoes DEF Lean
  <2> DEFINE p == req[r].at
  <2>5. \A q \in Request : req'[q].pc # "redirect"
    BY <1>20, <2>2, EraseDoes
  <2>6. \A q \in Request : req'[q].pc = "twin" =>
            req'[q].at = p \/ (req[q].pc = "twin" /\ req'[q].at = req[q].at)
    BY <1>20, EraseDoes
  <2>7. Remove(p) /\ p \in Path /\ Resolve \in {p, Main}
    BY <1>20, <2>3, EraseDoes
  <2>8. gone' => (metas \cup (disk \cap {Main})) \ {p} \subseteq cleanup
    BY <2>4
  <2> HIDE DEF p
  <2> QED BY <1>a, <2>1, <2>5, <2>6, <2>7, <2>8, LeanRemoved
<1>21. ASSUME NEW r \in Request, Twin(r) PROVE Lean'
  <2>1. Nobody /\ Nobody'
    BY <1>21, <1>a, TwinDoes DEF Silence, Ending, Flight, Nobody, Leased, SameObjects,
       SameLeases
  <2>2. ASSUME NEW q \in Request PROVE req[q].pc # "redirect"
    <3>1. req[q].pc = "redirect" => Turning(q) \/ Rebuilding(q)
      BY FollowersWork DEF Following
    <3> QED BY <1>a, <2>1, <3>1, WorkersLeased DEF Nobody
  <2>3. req[r].at \in Path /\ Resolve \in {req[r].at, Main}
    BY <1>21, <1>a, TwinDoes DEF Aiming, Bearing, Flight, Goroutines, Goroutine
  <2>4. metas \subseteq {Main} \cup cleanup /\ {req[r].at} \cap (disk \cup metas) \subseteq cleanup
    BY <1>21, <1>a, TwinDoes DEF Lean, Swept
  <2>5. CASE req[r].at # Main
    BY <1>21, <1>a, <2>1, <2>2, <2>4, <2>5, TwinDoes, LeanRemoved, Paths DEF RemoveTwin
  <2>6. CASE req[r].at = Main
    <3>1. Resolve' = Resolve /\ UNCHANGED <<disk, metas, redirect, cleanup>>
      BY <1>21, <2>6, TwinDoes, ResolveSame DEF RemoveTwin
    <3>2. \A q \in Request : Swept(q)'
      BY <1>21, <1>a, <3>1, TwinDoes DEF Lean, Swept
    <3> QED BY <1>a, <2>1, <2>4, <2>6, <3>1, <3>2 DEF Lean
  <2> QED BY <2>5, <2>6
<1>22. ASSUME NEW r \in Request, Linger(r) PROVE Lean'
  <2>1. Nobody /\ Nobody'
    BY <1>22, <1>a, LingerDoes DEF Silence, Ending, Flight, Nobody, Leased, SameObjects,
       SameLeases
  <2>2. ASSUME NEW q \in Request PROVE req[q].pc # "redirect"
    <3>1. req[q].pc = "redirect" => Turning(q) \/ Rebuilding(q)
      BY FollowersWork DEF Following
    <3> QED BY <1>a, <2>1, <3>1, WorkersLeased DEF Nobody
  <2>3. req[r].at \in Path /\ Resolve \in {req[r].at, Main}
    BY <1>22, <1>a, LingerDoes DEF Aiming, Bearing, Flight, Goroutines, Goroutine
  <2>4. gone' => (metas \cup (disk \cap {Main})) \ {req[r].at} \subseteq cleanup
    BY <1>22, <1>a, LingerDoes DEF Lean
  <2> DEFINE p == req[r].at
  <2>5. \A q \in Request : req'[q].pc # "redirect"
    BY <1>22, <2>2, LingerDoes
  <2>6. \A q \in Request : req'[q].pc = "twin" =>
            req'[q].at = p \/ (req[q].pc = "twin" /\ req'[q].at = req[q].at)
    BY <1>22, LingerDoes
  <2>7. Remove(p) /\ p \in Path /\ Resolve \in {p, Main}
    BY <1>22, <2>3, LingerDoes
  <2>8. gone' => (metas \cup (disk \cap {Main})) \ {p} \subseteq cleanup
    BY <2>4
  <2> HIDE DEF p
  <2> QED BY <1>a, <2>1, <2>5, <2>6, <2>7, <2>8, LeanRemoved
<1>23. ASSUME NEW r \in Request, Load(r) PROVE Lean'
  BY <1>23, <1>a, LoadDoes, LeanKept DEF SameObjects, SameLeases, SameFiles
<1>24. ASSUME NEW r \in Request, ResolveAgain(r) PROVE Lean'
  BY <1>24, <1>a, ResolveAgainDoes, LeanKept DEF SameObjects, SameLeases, SameFiles
<1>25. ASSUME NEW r \in Request, Acquire(r) PROVE Lean'
  BY <1>25, <1>a, AcquireDoes, LeanKept DEF SameObjects, SameLeases, SameFiles
<1>26. ASSUME NEW r \in Request, Read(r) PROVE Lean'
  <2>1. cleanup = {}
    <3>1. req[r].on \in Session /\ sess'[req[r].on].lease # None
      BY <1>26, ReadDoes, Paths DEF Others
    <3> QED BY <1>26, <1>a, <3>1, ReadDoes DEF Silence, Nobody, Leased, SameFiles
  <2>2. ~gone
    <3>1. Resolve = req[r].at /\ Resolve \in disk
      BY <1>26, <1>b, ReadDoes
    <3> QED BY <1>a, <2>1, <3>1, ResolveFound DEF Lean
  <2>3. Resolve' = Resolve
    BY <1>26, ReadDoes, ResolveSame DEF SameFiles
  <2>4. \A q \in Request : Swept(q)'
    BY <1>26, <1>a, <2>3, ReadDoes DEF Lean, Swept, SameFiles
  <2> QED BY <1>26, <1>a, <2>2, <2>3, <2>4, ReadDoes DEF Lean, SameFiles
<1>27. ASSUME NEW r \in Request, ReadFails(r) PROVE Lean'
  BY <1>27, <1>a, ReadFailsDoes, LeanKept DEF SameObjects, SameLeases, SameFiles
<1>28. ASSUME NEW r \in Request, LoadMeta(r) PROVE Lean'
  <2>1. req[r].on \in Session /\ Leased(req[r].on) /\ sess[req[r].on].lease = req[r].at
    BY <1>28, LoadMetaDoes, Paths DEF Closing, Fresh, On, Leased, Goroutines, Goroutine
  <2>2. ASSUME NEW q \in Request, req[q].pc = "redirect" PROVE req[q].on # req[r].on
    BY <1>28, <2>2, LoadMetaDoes DEF Shape, Alone, Opens
  <2>3. Resolve = req[r].at
    BY <1>28, <1>a, <2>1, <2>2 DEF Aiming, Aimed
  <2>4. Resolve' = Resolve /\ metas' \subseteq metas \cup {Resolve}
    BY <1>28, <2>3, LoadMetaDoes, ResolveStays
  <2> QED BY <1>28, <1>a, <2>1, <2>4, LoadMetaDoes, LeanGrown
<1>29. ASSUME NEW r \in Request, LoadMetaFails(r) PROVE Lean'
  BY <1>29, <1>a, LoadMetaFailsDoes, LeanKept DEF SameObjects, SameLeases, SameFiles
<1>30. ASSUME NEW r \in Request, Register(r) PROVE Lean'
  BY <1>30, <1>a, RegisterDoes, LeanKept DEF SameObjects, SameLeases, SameFiles
<1>31. ASSUME NEW p \in Path, OtherAcquires(p) PROVE Lean'
  <2>1. Resolve' = Resolve
    BY <1>31, ResolveSame DEF OtherAcquires
  <2> QED BY <1>31, <1>a, <2>1 DEF OtherAcquires, history, Lean, Swept, Nobody, Leased
<1>32. ASSUME NEW p \in Path, OtherReleases(p) PROVE Lean'
  <2>1. Resolve' = Resolve
    BY <1>32, ResolveSame DEF OtherReleases
  <2> QED BY <1>32, <1>a, <2>1 DEF OtherReleases, history, Lean, Swept, Nobody, Leased
<1>33. ASSUME NEW p \in Path, Reconcile(p) PROVE Lean'
  <2>1. Nobody /\ Nobody'
    BY <1>33, <1>a DEF Reconcile, Silence, Nobody, Leased
  <2>2. ASSUME NEW q \in Request PROVE req[q].pc # "redirect"
    <3>1. req[q].pc = "redirect" => Turning(q) \/ Rebuilding(q)
      BY FollowersWork DEF Following
    <3> QED BY <1>a, <2>1, <3>1, WorkersLeased DEF Nobody
  <2>3. Resolve \in {p, Main}
    BY <1>33, <1>a, ResolveFound DEF Aiming, Reconcile
  <2>4. gone' => (metas \cup (disk \cap {Main})) \ {p} \subseteq cleanup
    BY <1>33, <1>a DEF Lean, Reconcile
  <2>5. Remove(p) /\ req' = req
    BY <1>33 DEF Reconcile
  <2>6. /\ \A q \in Request : req'[q].pc # "redirect"
        /\ \A q \in Request : req'[q].pc = "twin" =>
            req'[q].at = p \/ (req[q].pc = "twin" /\ req'[q].at = req[q].at)
    BY <2>2, <2>5
  <2> QED BY <1>33, <1>a, <2>1, <2>3, <2>4, <2>5, <2>6, LeanRemoved
<1>34. CASE Crash
  <2>1. Resolve' = Resolve
    BY <1>34, CrashDoes, ResolveSame DEF SameFiles
  <2> QED BY <1>34, <1>a, <2>1, CrashDoes DEF SameFiles, Lean, Swept, Nobody, Leased
<1>35. CASE UNCHANGED vars
  <2>1. Resolve' = Resolve
    BY <1>35, ResolveSame DEF vars, fileVars
  <2> QED BY <1>35, <1>a, <2>1 DEF vars, fileVars, history, Lean, Swept, Nobody, Leased
<1> QED BY <1>1, <1>2, <1>3, <1>4, <1>5, <1>6, <1>7, <1>8, <1>9, <1>10, <1>11, <1>12, <1>13,
           <1>14, <1>15, <1>16, <1>17, <1>18, <1>19, <1>20, <1>21, <1>22, <1>23, <1>24, <1>25,
           <1>26, <1>27, <1>28, <1>29, <1>30, <1>31, <1>32, <1>33, <1>34, <1>35, PlainSteps,
           PlainFiles DEF Next, Start, Continue, Turn, Save, Rebuild, Close, Open

\* The id resolves to the transcript written last, or that one has been removed.
Homed == Orderly /\ Clean({"unfollowed"}) /\ ~gone => home \in {None, Resolve}

LEMMA HomeRemoved ==
  ASSUME Others, NEW p \in Path, Remove(p), Resolve \in {p, Main}, home \in {None, Resolve}
  PROVE  home' \in {None, Resolve'}
BY ResolveFalls DEF Remove

LEMMA HomedStep ==
  ASSUME Goroutines, Objects, Others, Shape, Work, Closing, Tenure, Holding, Holding', Order,
         Trailed, Homed,
         [Next]_vars
  PROVE  Homed'
<1> SUFFICES ASSUME Orderly', Clean({"unfollowed"})', ~gone' PROVE home' \in {None, Resolve'}
  BY DEF Homed
<1>a. /\ Silence /\ Aiming /\ Trailing /\ Single /\ (\A q \in Request : Pinned(q)) /\ Clean({"late"})
      /\ ~gone => home \in {None, Resolve}
  BY OrderlyBefore, RegularBefore DEF Order, Trailed, Homed
<1>c. metas \subseteq disk \cup {Main}
  BY <1>a DEF Aiming
<1>1. ASSUME NEW r \in Request, Plain(r), SameFiles PROVE home' \in {None, Resolve'}
  <2>1. Resolve' = Resolve
    BY <1>1, ResolveSame DEF SameFiles
  <2> QED BY <1>1, <1>a, <2>1 DEF SameFiles
<1>2. ASSUME NEW r \in Request, Saved(r) PROVE home' \in {None, Resolve'}
  <2>1. Plain(r) /\ (Turning(r) \/ Rebuilding(r)) /\ req[r].ctrl = sess[req[r].on].ctrl
    BY <1>2, SavedDoes, Saver DEF Saves, On
  <2>2. req[r].on \in Session /\ Leased(req[r].on) /\ Resolve = sess[req[r].on].lease
    BY <1>2, <1>a, <2>1, SavedDoes, WorkersAimed
  <2>3. ASSUME NEW q \in Request, Following(q) PROVE req[q].on # req[r].on
    BY <1>2, <2>1, <2>3, SavedDoes, FollowersWork, Sole DEF Following
  <2>4. path[req[r].ctrl] = Resolve
    BY <1>a, <2>1, <2>2, <2>3 DEF Trailing, Placed, Leased
  <2>5. Resolve' = Resolve
    BY <1>2, <1>c, SavedDoes, ResolveGrows
  <2> QED BY <1>2, <2>4, <2>5, SavedDoes
<1>3. ASSUME NEW r \in Request, Stamp(r) PROVE home' \in {None, Resolve'}
  <2>1. Resolve = sess[req[r].on].transcript
    BY <1>3, <1>a, StampDoes, WorkersAimed
  <2>2. Resolve' = Resolve
    BY <1>3, <2>1, StampDoes, ResolveStays, ResolveSame
  <2> QED BY <1>3, <1>a, <2>2, StampDoes
<1>4. ASSUME NEW r \in Request, Build(r) PROVE home' \in {None, Resolve'}
  <2>1. Resolve' = Resolve
    BY <1>4, BuildDoes, ResolveSame DEF SameFiles
  <2> QED BY <1>4, <1>a, <2>1, BuildDoes DEF SameFiles
<1>5. ASSUME NEW r \in Request, Swap(r) PROVE home' \in {None, Resolve'}
  <2>1. Resolve = sess[req[r].on].transcript
    BY <1>5, <1>a, SwapDoes, WorkersAimed DEF Rebuilding
  <2>2. Resolve' = Resolve
    BY <1>5, <2>1, SwapDoes, ResolveStays, ResolveSame
  <2> QED BY <1>5, <1>a, <2>2, SwapDoes
<1>6. ASSUME NEW r \in Request, SwapRefused(r) PROVE home' \in {None, Resolve'}
  <2>1. Resolve' = Resolve
    BY <1>6, SwapRefusedDoes, ResolveSame DEF SameFiles
  <2> QED BY <1>6, <1>a, <2>1, SwapRefusedDoes DEF SameFiles
<1>7. ASSUME NEW r \in Request, Recover(r) PROVE home' \in {None, Resolve'}
  <2>1. Resolve' = Resolve
    BY <1>7, <1>c, RecoverDoes, ResolveGrows
  <2> QED BY <1>7, <1>a, <2>1, RecoverDoes
<1>8. ASSUME NEW r \in Request, Follow(r) PROVE home' \in {None, Resolve'}
  <2>1. Resolve' = Resolve
    BY <1>8, FollowDoes, ResolveSame DEF SameFiles
  <2> QED BY <1>8, <1>a, <2>1, FollowDoes DEF SameFiles
<1>9. ASSUME NEW r \in Request, Secure(r) PROVE home' \in {None, Resolve'}
  <2>1. Resolve' = Resolve
    BY <1>9, SecureDoes, ResolveSame DEF SameFiles
  <2> QED BY <1>9, <1>a, <2>1, SecureDoes DEF SameFiles
<1>10. ASSUME NEW r \in Request, Assign(r) PROVE home' \in {None, Resolve'}
  <2>1. Resolve' = Resolve
    BY <1>10, AssignDoes, ResolveSame DEF SameFiles
  <2> QED BY <1>10, <1>a, <2>1, AssignDoes DEF SameFiles
<1>11. ASSUME NEW r \in Request, Redirect(r) PROVE home' \in {None, Resolve'}
  <2>1. req[r].at \in disk
    BY <1>11, <1>a, RedirectDoes DEF Aiming, Bearing, Moves
  <2> QED BY <1>11, <2>1, RedirectDoes DEF Resolve
<1>12. ASSUME NEW r \in Request, Commit(r) PROVE home' \in {None, Resolve'}
  <2>1. (Turning(r) \/ Rebuilding(r)) /\ sess[req[r].on].lease = req[r].at
    BY <1>12, <1>a, CommitDoes, FollowersWork DEF Trailing, Trails, Following, On
  <2>2. Resolve = req[r].at
    BY <1>12, <1>a, <2>1, CommitDoes, WorkersAimed
  <2>3. Resolve' = Resolve
    BY <1>12, CommitDoes, ResolveSame
  <2> QED BY <1>12, <2>2, <2>3, CommitDoes
<1>13. ASSUME NEW r \in Request, Take(r) PROVE home' \in {None, Resolve'}
  <2>1. Resolve' = Resolve
    BY <1>13, TakeDoes, ResolveSame DEF SameFiles
  <2> QED BY <1>13, <1>a, <2>1, TakeDoes DEF SameFiles
<1>14. ASSUME NEW r \in Request, Abort(r) PROVE home' \in {None, Resolve'}
  <2>1. Resolve' = Resolve
    BY <1>14, AbortDoes, ResolveSame DEF SameFiles
  <2> QED BY <1>14, <1>a, <2>1, AbortDoes DEF SameFiles
<1>15. ASSUME NEW r \in Request, Waited(r) PROVE home' \in {None, Resolve'}
  <2>1. Resolve' = Resolve
    BY <1>15, WaitedDoes, ResolveSame DEF SameFiles
  <2> QED BY <1>15, <1>a, <2>1, WaitedDoes DEF SameFiles
<1>16. ASSUME NEW r \in Request, Shut(r) PROVE home' \in {None, Resolve'}
  <2>1. Resolve' = Resolve
    BY <1>16, ShutDoes, ResolveSame DEF SameFiles
  <2> QED BY <1>16, <1>a, <2>1, ShutDoes DEF SameFiles
<1>17. ASSUME NEW r \in Request, Release(r) PROVE home' \in {None, Resolve'}
  <2>1. Resolve' = Resolve
    BY <1>17, ReleaseDoes, ResolveSame DEF SameFiles
  <2> QED BY <1>17, <1>a, <2>1, ReleaseDoes DEF SameFiles
<1>18. ASSUME NEW r \in Request, Destroy(r) PROVE home' \in {None, Resolve'}
  <2>1. Resolve' = Resolve
    BY <1>18, DestroyDoes, ResolveSame
  <2> QED BY <1>18, <1>a, <2>1, DestroyDoes
<1>19. ASSUME NEW r \in Request, DeleteClosed(r) PROVE home' \in {None, Resolve'}
  <2>1. Resolve' = Resolve
    BY <1>19, DeleteClosedDoes, ResolveSame DEF SameFiles
  <2> QED BY <1>19, <1>a, <2>1, DeleteClosedDoes DEF SameFiles
<1>20. ASSUME NEW r \in Request, Erase(r) PROVE home' \in {None, Resolve'}
  <2>1. req[r].at \in Path /\ Resolve \in {req[r].at, Main}
    BY <1>20, <1>a, EraseDoes DEF Aiming, Bearing, Flight, Goroutines, Goroutine
  <2> QED BY <1>20, <1>a, <2>1, EraseDoes, HomeRemoved
<1>21. ASSUME NEW r \in Request, Twin(r) PROVE home' \in {None, Resolve'}
  BY <1>21, TwinDoes
<1>22. ASSUME NEW r \in Request, Linger(r) PROVE home' \in {None, Resolve'}
  <2>1. req[r].at \in Path /\ Resolve \in {req[r].at, Main}
    BY <1>22, <1>a, LingerDoes DEF Aiming, Bearing, Flight, Goroutines, Goroutine
  <2> QED BY <1>22, <1>a, <2>1, LingerDoes, HomeRemoved
<1>23. ASSUME NEW r \in Request, Load(r) PROVE home' \in {None, Resolve'}
  <2>1. Resolve' = Resolve
    BY <1>23, LoadDoes, ResolveSame DEF SameFiles
  <2> QED BY <1>23, <1>a, <2>1, LoadDoes DEF SameFiles
<1>24. ASSUME NEW r \in Request, ResolveAgain(r) PROVE home' \in {None, Resolve'}
  <2>1. Resolve' = Resolve
    BY <1>24, ResolveAgainDoes, ResolveSame DEF SameFiles
  <2> QED BY <1>24, <1>a, <2>1, ResolveAgainDoes DEF SameFiles
<1>25. ASSUME NEW r \in Request, Acquire(r) PROVE home' \in {None, Resolve'}
  <2>1. Resolve' = Resolve
    BY <1>25, AcquireDoes, ResolveSame DEF SameFiles
  <2> QED BY <1>25, <1>a, <2>1, AcquireDoes DEF SameFiles
<1>26. ASSUME NEW r \in Request, Read(r) PROVE home' \in {None, Resolve'}
  <2>1. Resolve' = Resolve
    BY <1>26, ReadDoes, ResolveSame DEF SameFiles
  <2> QED BY <1>26, <1>a, <2>1, ReadDoes DEF SameFiles
<1>27. ASSUME NEW r \in Request, ReadFails(r) PROVE home' \in {None, Resolve'}
  <2>1. Resolve' = Resolve
    BY <1>27, ReadFailsDoes, ResolveSame DEF SameFiles
  <2> QED BY <1>27, <1>a, <2>1, ReadFailsDoes DEF SameFiles
<1>28. ASSUME NEW r \in Request, LoadMeta(r) PROVE home' \in {None, Resolve'}
  <2>1. Leased(req[r].on) /\ sess[req[r].on].lease = req[r].at
    BY <1>28, LoadMetaDoes, Paths DEF Closing, Fresh, On, Leased, Goroutines, Goroutine
  <2>2. ASSUME NEW q \in Request, req[q].pc = "redirect" PROVE req[q].on # req[r].on
    BY <1>28, <2>2, LoadMetaDoes DEF Shape, Alone, Opens
  <2>3. Resolve = req[r].at
    BY <1>28, <1>a, <2>1, <2>2, LoadMetaDoes DEF Aiming, Aimed
  <2>4. Resolve' = Resolve
    BY <1>28, <2>3, LoadMetaDoes, ResolveStays
  <2> QED BY <1>28, <1>a, <2>4, LoadMetaDoes
<1>29. ASSUME NEW r \in Request, LoadMetaFails(r) PROVE home' \in {None, Resolve'}
  <2>1. Resolve' = Resolve
    BY <1>29, LoadMetaFailsDoes, ResolveSame DEF SameFiles
  <2> QED BY <1>29, <1>a, <2>1, LoadMetaFailsDoes DEF SameFiles
<1>30. ASSUME NEW r \in Request, Register(r) PROVE home' \in {None, Resolve'}
  <2>1. Resolve' = Resolve
    BY <1>30, RegisterDoes, ResolveSame DEF SameFiles
  <2> QED BY <1>30, <1>a, <2>1, RegisterDoes DEF SameFiles
<1>31. ASSUME NEW p \in Path, OtherAcquires(p) PROVE home' \in {None, Resolve'}
  <2>1. Resolve' = Resolve
    BY <1>31, ResolveSame DEF OtherAcquires, history
  <2> QED BY <1>31, <1>a, <2>1 DEF OtherAcquires, history
<1>32. ASSUME NEW p \in Path, OtherReleases(p) PROVE home' \in {None, Resolve'}
  <2>1. Resolve' = Resolve
    BY <1>32, ResolveSame DEF OtherReleases, history
  <2> QED BY <1>32, <1>a, <2>1 DEF OtherReleases, history
<1>33. ASSUME NEW p \in Path, Reconcile(p) PROVE home' \in {None, Resolve'}
  <2>1. Resolve \in {p, Main} /\ Remove(p) /\ gone' = gone
    BY <1>33, <1>a, ResolveFound DEF Aiming, Reconcile
  <2> QED BY <1>33, <1>a, <2>1, HomeRemoved
<1>34. CASE Crash
  <2>1. Resolve' = Resolve
    BY <1>34, CrashDoes, ResolveSame DEF SameFiles
  <2> QED BY <1>34, <1>a, <2>1, CrashDoes DEF SameFiles
<1>35. CASE UNCHANGED vars
  <2>1. Resolve' = Resolve
    BY <1>35, ResolveSame DEF vars, fileVars, history
  <2> QED BY <1>35, <1>a, <2>1 DEF vars, fileVars, history
<1> QED BY <1>1, <1>2, <1>3, <1>4, <1>5, <1>6, <1>7, <1>8, <1>9, <1>10, <1>11, <1>12, <1>13,
           <1>14, <1>15, <1>16, <1>17, <1>18, <1>19, <1>20, <1>21, <1>22, <1>23, <1>24, <1>25,
           <1>26, <1>27, <1>28, <1>29, <1>30, <1>31, <1>32, <1>33, <1>34, <1>35, PlainSteps,
           PlainFiles DEF Next, Start, Continue, Turn, Save, Rebuild, Close, Open
-----------------------------------------------------------------------------
(***************************************************************************)
(* The theorems about the life of an id.                                   *)
(***************************************************************************)

\* The whole invariant.
LifeInv ==
    /\ FullInv /\ Tenure /\ Keys /\ Holding /\ Trailed
    /\ (\A r \in Request : Marked(r)) /\ Order /\ Neat /\ Homed

LEMMA InitLife == Init => Tenure /\ Keys /\ Holding /\ Trailed /\ (\A r \in Request : Marked(r))
                         /\ Order /\ Neat /\ Homed
<1> SUFFICES ASSUME Init
             PROVE  Tenure /\ Keys /\ Holding /\ Trailed /\ (\A r \in Request : Marked(r))
                    /\ Order /\ Neat /\ Homed
  OBVIOUS
<1>1. /\ path = [c \in Ctrl |-> Main] /\ disk = {} /\ metas = {} /\ cleanup = {}
      /\ redirect = None
      /\ home = None /\ gone = FALSE
      /\ lock = [p \in Path |-> IF p = Main THEN "ours" ELSE "free"]
  BY DEF Init
<1>2. /\ live = First /\ First \in Session /\ sess[First].ctrl \in Ctrl
      /\ sess[First].lease = Main /\ sess[First].transcript = Main
      /\ \A s \in Session : s # First => ~Leased(s)
      /\ \A r \in Request : req[r].pc = "idle"
  BY Started, FirstAssumption DEF Leased, Init, Opened
<1>3. Tenure /\ Keys /\ Holding
  BY <1>1, <1>2, Paths DEF Tenure, Closers, Unreleased, Unopen, Named, Leased, Closes, Keys,
     Holding, Single, Minded, Pinned, Steered
<1>4. Trailed /\ \A r \in Request : Marked(r)
  BY <1>1, <1>2, Paths DEF Trailed, Trailing, Placed, Trails, Following, Leased, Marked
<1>5. Resolve = Main
  BY <1>1 DEF Resolve
<1>6. Order
  BY <1>1, <1>2, <1>5 DEF Order, Silence, Ending, Flight, Aiming, Bearing, Moves, Aimed, Leased
<1>7. Neat /\ Homed
  BY <1>1, <1>2, <1>5 DEF Neat, Lean, Swept, Homed
<1> QED BY <1>3, <1>4, <1>6, <1>7

LEMMA LifeInvStep == LifeInv /\ [Next]_vars => LifeInv'
<1> SUFFICES ASSUME LifeInv, [Next]_vars PROVE LifeInv'
  OBVIOUS
<1>1. FullInv' /\ Goroutines /\ Objects /\ Others /\ Shape /\ Work /\ Distinct /\ Closing
  BY FullInvStep DEF LifeInv, FullInv, ClosingInv, Inv
<1>2. Tenure' /\ Keys' /\ Holding' /\ Trailed' /\ \A r \in Request : Marked(r)'
  BY <1>1, TenureStep, KeysStep, HoldingStep, TrailedStep, MarkedStep DEF LifeInv
<1>3. Order'
  BY <1>1, <1>2, OrderStep DEF LifeInv
<1>4. Neat'
  BY <1>1, <1>2, <1>3, LeanStep DEF LifeInv, Neat
<1>5. Homed'
  BY <1>1, <1>2, HomedStep DEF LifeInv
<1> QED BY <1>1, <1>2, <1>3, <1>4, <1>5 DEF LifeInv

\* The whole invariant holds: who has the lease of a session object and until when,
\* where the id resolves to, and what a deletion leaves (sessionRecoveredHandler,
\* openExistingSession, sessionClose, sessionDelete, deleteSessionFiles).
THEOREM LifeInvariance == Spec => []LifeInv
<1>1. Init => LifeInv
  BY InitInv, InitClosing, InitFull, InitLife DEF LifeInv, FullInv, ClosingInv
<1> QED BY <1>1, LifeInvStep, PTL DEF Spec

\* When nothing is under way the session, its controller and its lease name one
\* transcript, its controller is not closed and no other lease is held, unless a
\* recovery found no session to follow it or an id was opened where it no longer
\* lives (sessionRecoveredHandler, openExistingSession, releaseSessionLease).
THEOREM LeasesAreOwned == Spec => []LeasesHaveOwners
<1>1. ASSUME LifeInv PROVE LeasesHaveOwners
  <2> SUFFICES ASSUME Still, Clean({"unfollowed", "usurped"})
               PROVE  /\ live # None => /\ path[sess[live].ctrl] = sess[live].transcript
                                        /\ sess[live].lease = sess[live].transcript
                                        /\ sess[live].ctrl \notin closed
                      /\ \A p \in Path : lock[p] = "ours" <=> live # None /\ sess[live].lease = p
    BY DEF LeasesHaveOwners
  <2>1. /\ Alive /\ Locks /\ Keys /\ Trailing
        /\ \A s \in Session : Named(s) /\ Minded(s)
        /\ live \in Session \cup {None}
    BY <1>1 DEF LifeInv, FullInv, ClosingInv, Inv, Closing, Tenure, Holding, Regular, Trailed,
       Clean, Others
  <2>2. \A r \in Request : req[r].pc \in {"idle", "done"}
    BY DEF Still
  <2>3. live # None => /\ path[sess[live].ctrl] = sess[live].lease
                       /\ sess[live].lease = sess[live].transcript
                       /\ sess[live].ctrl \notin closed
    BY <2>1, <2>2 DEF Alive, Trailing, Placed, Following, Named, Leased
  <2>4. ASSUME NEW p \in Path, lock[p] = "ours" PROVE live # None /\ sess[live].lease = p
    <3>1. PICK s \in Session : sess[s].lease = p
      BY <2>1, <2>2, <2>4 DEF Keys
    <3> QED BY <2>1, <2>2, <3>1, Paths DEF Minded, Leased
  <2>5. ASSUME NEW p \in Path, live # None, sess[live].lease = p PROVE lock[p] = "ours"
    BY <2>1, <2>5, Paths DEF Locks
  <2> QED BY <2>3, <2>4, <2>5
<1> QED BY <1>1, LifeInvariance, PTL

\* A process that dies leaves an id that reopens on what it wrote last, through
\* recoveries, rebuilds and loads of it, unless a request came late, a recovery was
\* not followed, or a load or a deletion overlapped what moves the files
\* (resolveTranscriptPath, sessionRecoveredHandler, saveACPMeta).
THEOREM IdsReopen == Spec => []ReopensWhereItWrote
<1>1. ASSUME LifeInv PROVE ReopensWhereItWrote
  BY <1>1 DEF LifeInv, Homed, Orderly, ReopensWhereItWrote, Clean
<1> QED BY <1>1, LifeInvariance, PTL

\* Nothing of a deleted id is listed or opened again but what is marked for
\* cleanup, and no other file of it is, delayed removals and restarts included
\* (sessionDelete, deleteSessionFiles, delayedDeleteSessionFiles).
THEOREM DeletionsLast == Spec => []DeletedStaysDeleted
<1>1. ASSUME LifeInv PROVE DeletedStaysDeleted
  BY <1>1 DEF LifeInv, Neat, Tidy, Orderly, Lean, DeletedStaysDeleted, Clean
<1> QED BY <1>1, LifeInvariance, PTL
-----------------------------------------------------------------------------
(***************************************************************************)
(* The session objects of the id implement the guarded session file.       *)
(***************************************************************************)

\* No session object gets a lease that had none, and one goroutine moves on, but
\* for those that end.
Lone ==
    \/ \A q, r \in Request : req'[q] # req[q] /\ req'[r] # req[r] => q = r
    \/ \A r \in Request : req'[r].pc # "save"
Fewer == (\A s \in Session : sess'[s].lease # None => sess[s].lease # None) /\ Lone

\* Only what a load reads makes a session object a holder: whoever moves the lease
\* of a session to a recovery moves one that is held.
LEMMA OnlyReadsLease ==
  ASSUME Goroutines, Objects, Others, Shape, \A r \in Request : Pinned(r), [Next]_vars
  PROVE  Fewer \/ \E r \in Request : Read(r)
<1> USE DEF Fewer, Lone, SameObjects, SameLeases
<1>1. ASSUME NEW r \in Request, Plain(r) PROVE Fewer
  BY <1>1 DEF Plain
<1>2. ASSUME NEW r \in Request, Build(r) PROVE Fewer
  BY <1>2, BuildDoes
<1>3. ASSUME NEW r \in Request, Swap(r) PROVE Fewer
  BY <1>3, SwapDoes
<1>4. ASSUME NEW r \in Request, SwapRefused(r) PROVE Fewer
  BY <1>4, SwapRefusedDoes
<1>5. ASSUME NEW r \in Request, Recover(r) PROVE Fewer
  BY <1>5, RecoverDoes
<1>6. ASSUME NEW r \in Request, Follow(r) PROVE Fewer
  BY <1>6, FollowDoes
<1>7. ASSUME NEW r \in Request, Secure(r) PROVE Fewer
  BY <1>7, SecureDoes
<1>8. ASSUME NEW r \in Request, Assign(r) PROVE Fewer
  BY <1>8, AssignDoes DEF Pinned, Steered, Leased
<1>9. ASSUME NEW r \in Request, Redirect(r) PROVE Fewer
  BY <1>9, RedirectDoes
<1>10. ASSUME NEW r \in Request, Commit(r) PROVE Fewer
  BY <1>10, CommitDoes
<1>11. ASSUME NEW r \in Request, Take(r) PROVE Fewer
  BY <1>11, TakeDoes
<1>12. ASSUME NEW r \in Request, Abort(r) PROVE Fewer
  BY <1>12, AbortDoes
<1>13. ASSUME NEW r \in Request, Waited(r) PROVE Fewer
  BY <1>13, WaitedDoes
<1>14. ASSUME NEW r \in Request, Shut(r) PROVE Fewer
  BY <1>14, ShutDoes
<1>15. ASSUME NEW r \in Request, Release(r) PROVE Fewer
  BY <1>15, ReleaseDoes
<1>16. ASSUME NEW r \in Request, Destroy(r) PROVE Fewer
  BY <1>16, DestroyDoes
<1>17. ASSUME NEW r \in Request, DeleteClosed(r) PROVE Fewer
  BY <1>17, DeleteClosedDoes
<1>18. ASSUME NEW r \in Request, Erase(r) PROVE Fewer
  BY <1>18, EraseDoes
<1>19. ASSUME NEW r \in Request, Twin(r) PROVE Fewer
  BY <1>19, TwinDoes
<1>20. ASSUME NEW r \in Request, Linger(r) PROVE Fewer
  BY <1>20, LingerDoes
<1>21. ASSUME NEW r \in Request, Load(r) PROVE Fewer
  BY <1>21, LoadDoes
<1>22. ASSUME NEW r \in Request, ResolveAgain(r) PROVE Fewer
  BY <1>22, ResolveAgainDoes
<1>23. ASSUME NEW r \in Request, Acquire(r) PROVE Fewer
  BY <1>23, AcquireDoes
<1>24. ASSUME NEW r \in Request, ReadFails(r) PROVE Fewer
  BY <1>24, ReadFailsDoes
<1>25. ASSUME NEW r \in Request, LoadMeta(r) PROVE Fewer
  BY <1>25, LoadMetaDoes
<1>26. ASSUME NEW r \in Request, LoadMetaFails(r) PROVE Fewer
  BY <1>26, LoadMetaFailsDoes
<1>27. ASSUME NEW r \in Request, Register(r) PROVE Fewer
  BY <1>27, RegisterDoes
<1>28. ASSUME NEW p \in Path, OtherAcquires(p) PROVE Fewer
  BY <1>28 DEF OtherAcquires
<1>29. ASSUME NEW p \in Path, OtherReleases(p) PROVE Fewer
  BY <1>29 DEF OtherReleases
<1>30. ASSUME NEW p \in Path, Reconcile(p) PROVE Fewer
  BY <1>30 DEF Reconcile
<1>31. CASE Crash
  BY <1>31, CrashDoes
<1>32. CASE UNCHANGED vars
  BY <1>32 DEF vars
<1> QED BY <1>1, <1>2, <1>3, <1>4, <1>5, <1>6, <1>7, <1>8, <1>9, <1>10, <1>11, <1>12, <1>13,
     <1>14, <1>15, <1>16, <1>17, <1>18, <1>19, <1>20, <1>21, <1>22, <1>23, <1>24, <1>25, <1>26,
     <1>27, <1>28, <1>29, <1>30, <1>31, <1>32, PlainSteps DEF Next, Start,
           Continue, Turn, Save, Rebuild, Close, Open

\* While nothing is amiss whoever saves has the lease, and one session has it.
HoldersSave ==
    /\ Single
    /\ \A r \in Request : req[r].pc = "save" => req[r].on \in Session /\ Leased(req[r].on)
    /\ \A r, q \in Request : req[r].pc = "save" /\ req[q].pc = "save" => r = q
Sound == Clean({"late", "unfollowed", "usurped"})

LEMMA SaversHold == LifeInv /\ Sound => HoldersSave
<1> SUFFICES ASSUME LifeInv, Sound PROVE HoldersSave
  OBVIOUS
<1> USE DEF Sound
<1>1. Single
  BY DEF LifeInv, Holding, Regular, Clean
<1>2. /\ Goroutines /\ Objects /\ Shape /\ Work /\ Closing /\ Clean({"late"})
  BY DEF LifeInv, FullInv, ClosingInv, Inv, Clean
<1>3. ASSUME NEW r \in Request, req[r].pc = "save"
      PROVE  req[r].on \in Session /\ Leased(req[r].on)
  <2>1. Turning(r) \/ Rebuilding(r)
    BY <1>2, <1>3, Saver DEF Saves
  <2> QED BY <1>2, <2>1, WorkersLeased
<1>4. ASSUME NEW r \in Request, NEW q \in Request, req[r].pc = "save", req[q].pc = "save"
      PROVE  r = q
  <2>1. req[r].on = req[q].on
    BY <1>1, <1>3, <1>4 DEF Single
  <2>2. /\ Turning(r) \/ Rebuilding(r)
        /\ Turning(q) \/ Rebuilding(q)
    BY <1>2, <1>4, Saver DEF Saves
  <2> QED BY <1>2, <1>3, <1>4, <2>1, <2>2, Sole
<1> QED BY <1>1, <1>3, <1>4 DEF HoldersSave

\* A step saves, lets go, or gives one session object the lease that none has.
LEMMA ObjectStep ==
    ASSUME LifeInv, LifeInv', [Next]_vars
    PROVE  [Guarded!Next]_(Guarded!vars)
<1> DEFINE H == {s \in Session : sess[s].lease # None}
           S == {r \in Request : At(r, "save")}
<1> USE DEF Guarded!Next, Guarded!vars, Guarded!Hold, Guarded!Save, Guarded!Leave,
            Guarded!GoStray, At
<1>1. /\ Goroutines /\ Objects /\ Others /\ Shape /\ Goroutines' /\ Shape'
  BY DEF LifeInv, FullInv, ClosingInv, Inv
<1>2. CASE ~Clean({"late", "unfollowed", "usurped"})'
  <2>1. Guarded!GoStray
    BY <1>2
  <2> QED BY <2>1
<1>3. CASE Clean({"late", "unfollowed", "usurped"})'
  <2>1. Clean({"late", "unfollowed", "usurped"})
    BY <1>1, <1>3, RegularBefore
  <2>2. HoldersSave
    BY <2>1, SaversHold DEF Sound
  <2>3. HoldersSave'
    <3>1. Sound'
      BY <1>3 DEF Sound
    <3> QED BY <3>1, SaversHold, PTL
  <2>4. /\ H = {} => S = {}
        /\ \A r, q \in S : r = q
        /\ \A s, t \in H : s = t
        /\ H' = {} => S' = {}
        /\ \A r, q \in S' : r = q
    BY <2>2, <2>3 DEF HoldersSave, Single, Leased
  <2>5. \A r \in Request : Pinned(r)
    BY <2>1 DEF LifeInv, Holding, Regular, Clean
  <2>6. CASE Fewer
    <3>1. CASE S' \subseteq S
      <4>1. Guarded!Leave
        BY <1>3, <2>1, <2>6, <3>1 DEF Fewer
      <4> QED BY <4>1
    <3>2. CASE ~(S' \subseteq S)
      <4>1. PICK s \in S' : s \notin S
        BY <3>2
      <4>2. s \in Request /\ S = {} /\ S' = {s} /\ H' = H
        <5>1. Lone
          BY <2>6 DEF Fewer
        <5>2. \A q \in S : q # s /\ req'[q] # req[q]
          BY <2>4, <4>1
        <5>3. S = {}
          BY <4>1, <5>1, <5>2 DEF Lone
        <5>4. S' = {s}
          BY ONLY <2>4, <4>1
        <5>5. H' = H
          <6>1. H' \subseteq H
            BY ONLY <2>6 DEF Fewer
          <6>2. S' # {}
            BY <4>1
          <6> QED BY ONLY <2>4, <6>1, <6>2
        <5> QED BY <4>1, <5>3, <5>4, <5>5
      <4>3. Guarded!Save(s)
        BY <1>3, <2>1, <4>2
      <4> QED BY <4>2, <4>3
    <3> QED BY <3>1, <3>2
  <2>7. CASE \E r \in Request : Read(r)
    <3>1. PICK r \in Request : Read(r)
      BY <2>7
    <3>2. /\ \A q \in Request : q # r => req'[q] = req[q]
          /\ req'[r].pc = "meta" /\ req[r].on \in Session
          /\ \A s \in Session : s # req[r].on => sess'[s] = sess[s]
          /\ \A s \in Session : sess[s].lease = None
      BY <1>1, <1>3, <3>1, ReadDoes DEF Clean
    <3>3. H = {} /\ S = {}
      BY <2>4, <3>2
    <3>4. S' = {}
      BY <3>2, <3>3
    <3>5. H' \subseteq {req[r].on}
      BY <3>2
    <3>6. CASE H' = {}
      BY <1>3, <2>1, <3>3, <3>4, <3>6
    <3>7. CASE H' = {req[r].on}
      <4>1. Guarded!Hold(req[r].on)
        BY <1>3, <2>1, <3>3, <3>4, <3>7
      <4> QED BY <3>2, <4>1
    <3> QED BY <3>5, <3>6, <3>7
  <2> QED BY <1>1, <2>5, <2>6, <2>7, OnlyReadsLease
<1> QED BY <1>2, <1>3

\* The session objects of an id are as good as the lease they share, for every
\* number of requests, session objects and branches: one holds a lease, the holder
\* saves, and the next gets its lease after the last has let it go, unless a
\* request came late, a recovery was not followed or a load was led astray
\* (sessionRecoveredHandler, openExistingSession, releaseSessionLease).
THEOREM OneWritesHolds == Spec => OneWrites
<1>1. Init => Guarded!Init
  <2> SUFFICES ASSUME Init PROVE Guarded!Init
    OBVIOUS
  <2>1. /\ First \in Session /\ sess[First].lease = Main
        /\ \A s \in Session : s # First => sess[s].lease = None
        /\ \A r \in Request : req[r].pc = "idle"
    BY Started, FirstAssumption DEF Leased, Init, Opened
  <2>2. {s \in Session : sess[s].lease # None} = {First}
    BY <2>1, Paths
  <2>3. amiss = {}
    BY DEF Init
  <2> QED BY <2>1, <2>2, <2>3 DEF Guarded!Init, At, Clean
<1>2. LifeInv /\ LifeInv' /\ [Next]_vars => [Guarded!Next]_(Guarded!vars)
  BY ObjectStep
<1> QED BY <1>1, <1>2, LifeInvariance, PTL DEF Spec, OneWrites, Guarded!Spec

=============================================================================
