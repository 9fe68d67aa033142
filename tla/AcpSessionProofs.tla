-------------------------- MODULE AcpSessionProofs --------------------------
(***************************************************************************)
(* The proofs about AcpSession, for every number of requests, sessions,    *)
(* controllers and branches.  This module states the inductive invariant   *)
(* in parts and proves the first of them: types, the shape of the local    *)
(* variables, the exclusion of turns and maintenances, and that no two     *)
(* sessions share a controller.  AcpSessionClosingProofs adds what a close *)
(* may count on and what each step does to leases and files;               *)
(* AcpSessionLeaseProofs the leases, the last choice, and the life of an   *)
(* id: who has its leases, where it resolves to, what a deletion leaves.   *)
(***************************************************************************)
EXTENDS AcpSession, TLAPS
-----------------------------------------------------------------------------
(***************************************************************************)
(* The parts of the invariant.  Sets of steps come first, named for what a *)
(* goroutine does there.                                                   *)
(***************************************************************************)
Saves    == {"save", "follow", "secure", "assign", "redirect", "commit"}
Moves    == {"follow", "secure", "assign", "redirect", "commit"}
Opens    == {"resolve", "acquire", "read", "meta", "register"}
Closes   == {"abort", "wait", "shut", "release", "destroy"}
Detached == {"idle", "done", "erase", "twin", "linger"}
Blank    == Detached \cup {"resolve", "acquire", "read"}

\* The goroutines between the two ends of a turn, and of a maintenance.
Turning(r) ==
    \/ req[r].pc \in {"enter", "turn", "persist", "stamp", "finish"}
    \/ req[r].pc \in Saves /\ req[r].phase \in {"turn", "persist"}
Rebuilding(r) ==
    \/ req[r].pc \in {"build", "swap", "retire", "unwind", "abandon"}
    \/ req[r].pc \in Saves /\ req[r].phase = "rebuild"

\* What the local variables of a goroutine hold at each of its steps.
Located(r) ==
    /\ req[r].pc \notin Detached => req[r].on # None
    /\ req[r].pc \notin Blank => sess[req[r].on].ctrl # None
    /\ req[r].pc \in {"secure", "assign", "redirect"} => req[r].to # None
    /\ req[r].pc \in Moves => req[r].at # Main
    /\ req[r].pc \in Saves => req[r].phase \in {"turn", "persist", "rebuild"}
    /\ Rebuilding(r) \/ req[r].pc \in {"claim", "drop"} => req[r].want # None
    /\ req[r].pc \in {"turn", "build", "swap", "retire"} \cup Saves => req[r].ctrl # None
    /\ req[r].next # None <=> req[r].pc = "swap"
    /\ req[r].pc = "unwind" => req[r].ctrl = None

\* A load has its session object for itself.
Alone(r) ==
    req[r].pc \in Opens =>
        /\ req[r].on # live
        /\ \A q \in Request : (q # r => req[q].on # req[r].on) /\ req[q].to # req[r].on

\* A live session has a controller, and goroutines are where they should be.
Shape ==
    /\ live # None => sess[live].ctrl # None
    /\ \A r \in Request : Located(r)
    /\ \A r \in Request : Alone(r)

\* Turns and maintenances exclude each other, and the controllers differ.
Holds(r) ==
    /\ Turning(r) => On(r).turn = r
    /\ Rebuilding(r) => On(r).maint = r
    /\ req[r].ctrl # None /\ req[r].pc # "retire" =>
          req[r].ctrl = On(r).ctrl /\ (Turning(r) \/ Rebuilding(r))
Held(s) ==
    /\ sess[s].turn # None => Turning(sess[s].turn) /\ req[sess[s].turn].on = s
    /\ sess[s].maint # None => Rebuilding(sess[s].maint) /\ req[sess[s].maint].on = s
    /\ sess[s].turn = None \/ sess[s].maint = None
Work == (\A r \in Request : Holds(r)) /\ (\A s \in Session : Held(s))

\* No controller serves two sessions, and the one being built serves none yet.
Distinct ==
    /\ \A s, t \in Session : sess[s].ctrl # None /\ sess[s].ctrl = sess[t].ctrl => s = t
    /\ \A r \in Request : req[r].next # None =>
          /\ \A s \in Session : sess[s].ctrl # req[r].next
          /\ \A q \in Request : req[q].ctrl # req[r].next /\ (q # r => req[q].next # req[r].next)
    /\ \A r \in Request : req[r].pc = "retire" =>
          /\ \A s \in Session : sess[s].ctrl # req[r].ctrl
          /\ \A q \in Request : q # r => req[q].ctrl # req[r].ctrl

\* The session of a close is out of the registry, and what it holds is at rest
\* once the close has waited, unless somebody came late.
Idle(s) == s.turn = None /\ s.maint = None
Fresh(r) ==
    req[r].pc \in {"meta", "register"} =>
        /\ On(r).ctrl \notin closed
        /\ Idle(On(r)) /\ On(r).pending = None /\ ~On(r).deleted
        /\ On(r).config = last[req[r].on]
        /\ On(r).lease = req[r].at
Gone(r) == req[r].pc \in Closes => req[r].on # live
Spare(r) == req[r].next \notin closed
Awaits(r) ==
    /\ req[r].pc \in {"shut", "release", "destroy"} => Idle(On(r))
    /\ req[r].pc = "wait" =>
          /\ On(r).turn # None => <<"turn", On(r).turn>> \in waits[r]
          /\ On(r).maint # None => <<"maint", On(r).maint>> \in waits[r]
Alive ==
    live # None => /\ sess[live].ctrl \notin closed
                   /\ ~sess[live].deleted /\ sess[live].lease # None
Served(s) == ~Idle(sess[s]) => sess[s].ctrl \notin closed /\ sess[s].lease # None
Closing ==
    /\ Alive
    /\ \A r \in Request : Fresh(r) /\ Gone(r) /\ Spare(r)
    /\ Clean({"late"}) => /\ \A r \in Request : Awaits(r)
                          /\ \A s \in Session : Served(s)

\* Whoever holds a lease holds it alone.
Locks ==
    /\ \A s \in Session : sess[s].lease # None => lock[sess[s].lease] = "ours"
    /\ \A s, t \in Session : sess[s].lease # None /\ sess[s].lease = sess[t].lease => s = t
    /\ \A r \in Request : req[r].pc \in {"assign", "read"} =>
          /\ lock[req[r].at] = "ours"
          /\ \A s \in Session : sess[s].lease # req[r].at
          /\ \A q \in Request : q # r /\ req[q].pc \in {"assign", "read"} => req[q].at # req[r].at

\* The controller of a session is where its lease is, but while it follows.
Following(r) == req[r].pc \in {"redirect", "commit"}
Placed(s) ==
    sess[s].lease # None /\ (\A r \in Request : Following(r) => req[r].on # s)
    => path[sess[s].ctrl] = sess[s].lease
Follows(r) ==
    /\ Following(r) => On(r).lease = req[r].at
    /\ req[r].pc \in {"secure", "assign", "redirect"} => req[r].to = req[r].on
    /\ req[r].pc = "swap" => path[req[r].next] = On(r).lease
Followed ==
    Clean({"late", "unfollowed"}) =>
        (\A s \in Session : Placed(s)) /\ (\A r \in Request : Follows(r))

\* What is queued is the last choice, and somebody will apply it; otherwise the
\* last choice is in force or being made so.
Drains(r, s) ==
    /\ req[r].on = s
    /\ req[r].pc \in {"apply", "copy", "drop"} \/ (req[r].pc = "claim" /\ req[r].via)
Queued(s) == sess[s].pending # None => sess[s].pending = last[s]
InForce(m) == req[m].pc \in {"retire", "unwind"}
Settled ==
    live # None =>
    LET s == sess[live]
    IN  /\ s.pending # None => ~Idle(s) \/ \E r \in Request : Drains(r, live)
        /\ s.pending = None /\ s.maint = None => s.config = last[live]
        /\ s.pending = None /\ s.maint # None =>
              IF InForce(s.maint) THEN s.config = last[live] ELSE req[s.maint].want = last[live]
Choice == Clean({"stale", "dropped", "stuck"}) => (\A s \in Session : Queued(s)) /\ Settled
-----------------------------------------------------------------------------
(***************************************************************************)
(* Types.                                                                  *)
(***************************************************************************)
Phases == {"turn", "persist", "rebuild", "close", "delete"}
Ways   == {"late", "unfollowed", "usurped", "stale", "dropped", "stuck", "raced", "left"}
Token  == {"turn", "maint"} \X Request

Goroutine ==
    [pc : Pc, on : Session \cup {None}, ctrl : Ctrl \cup {None}, next : Ctrl \cup {None},
     want : Config \cup {None}, via : BOOLEAN, phase : Phases, at : Path,
     to : Session \cup {None}]
Object ==
    [ctrl : Ctrl \cup {None}, config : Config, pending : Config \cup {None},
     turn : Request \cup {None}, maint : Request \cup {None}, deleted : BOOLEAN,
     transcript : Path, lease : Path \cup {None}]

Goroutines == req \in [Request -> Goroutine]
Objects    == sess \in [Session -> Object]
Others ==
    /\ live \in Session \cup {None}
    /\ path \in [Ctrl -> Path]
    /\ closed \subseteq Ctrl
    /\ waits \in [Request -> SUBSET Token]
    /\ cancelled \subseteq Request
    /\ lock \in [Path -> {"free", "ours", "other"}]
    /\ disk \subseteq Path /\ metas \subseteq Path /\ cleanup \subseteq Path
    /\ redirect \in Branch \cup {None}
    /\ home \in Path \cup {None}
    /\ last \in [Session -> Config]
    /\ gone \in BOOLEAN
    /\ amiss \subseteq Ways

LEMMA Types == TypeOK <=> Goroutines /\ Objects /\ Others
BY DEF TypeOK, Goroutines, Objects, Others, Goroutine, Object, Phases, Ways, Token

LEMMA Paths == /\ Main \in Path /\ Branch \subseteq Path /\ None \notin Path
               /\ \A p \in Path : p # Main => p \in Branch
               /\ None \notin Request /\ None \notin Session /\ None \notin Ctrl /\ None \notin Config
BY NoneAssumption DEF Path

LEMMA GotoTyped ==
  ASSUME Goroutines, NEW r \in Request, NEW p \in Pc, Goto(r, p)
  PROVE  Goroutines'
BY DEF Goroutines, Goroutine, Goto

LEMMA EndTyped ==
  ASSUME Goroutines, NEW r \in Request, End(r)
  PROVE  Goroutines'
<1>1. [Unserved EXCEPT !.pc = "done"] \in Goroutine
  BY Paths DEF Unserved, Goroutine, Pc, Phases
<1> QED BY <1>1 DEF Goroutines, End

LEMMA ReqPcOn ==
  ASSUME Goroutines, NEW i \in Request, NEW v0 \in Pc, NEW v1 \in Session \cup {None},
         req' = [req EXCEPT ![i].pc = v0, ![i].on = v1]
  PROVE  Goroutines'
<1>1. [req[i] EXCEPT !.pc = v0, !.on = v1] \in Goroutine
  BY DEF Goroutines, Goroutine
<1> QED BY <1>1 DEF Goroutines

LEMMA ReqPcOnWant ==
  ASSUME Goroutines, NEW i \in Request, NEW v0 \in Pc, NEW v1 \in Session \cup {None},
          NEW v2 \in Config \cup {None},
         req' = [req EXCEPT ![i].pc = v0, ![i].on = v1, ![i].want = v2]
  PROVE  Goroutines'
<1>1. [req[i] EXCEPT !.pc = v0, !.on = v1, !.want = v2] \in Goroutine
  BY DEF Goroutines, Goroutine
<1> QED BY <1>1 DEF Goroutines

LEMMA ReqPcOnPhase ==
  ASSUME Goroutines, NEW i \in Request, NEW v0 \in Pc, NEW v1 \in Session \cup {None},
          NEW v2 \in Phases,
         req' = [req EXCEPT ![i].pc = v0, ![i].on = v1, ![i].phase = v2]
  PROVE  Goroutines'
<1>1. [req[i] EXCEPT !.pc = v0, !.on = v1, !.phase = v2] \in Goroutine
  BY DEF Goroutines, Goroutine
<1> QED BY <1>1 DEF Goroutines

LEMMA ReqPcAt ==
  ASSUME Goroutines, NEW i \in Request, NEW v0 \in Pc, NEW v1 \in Path,
         req' = [req EXCEPT ![i].pc = v0, ![i].at = v1]
  PROVE  Goroutines'
<1>1. [req[i] EXCEPT !.pc = v0, !.at = v1] \in Goroutine
  BY DEF Goroutines, Goroutine
<1> QED BY <1>1 DEF Goroutines

LEMMA ReqPcOnAt ==
  ASSUME Goroutines, NEW i \in Request, NEW v0 \in Pc, NEW v1 \in Session \cup {None}, NEW v2 \in Path,
         req' = [req EXCEPT ![i].pc = v0, ![i].on = v1, ![i].at = v2]
  PROVE  Goroutines'
<1>1. [req[i] EXCEPT !.pc = v0, !.on = v1, !.at = v2] \in Goroutine
  BY DEF Goroutines, Goroutine
<1> QED BY <1>1 DEF Goroutines

LEMMA ReqPcCtrl ==
  ASSUME Goroutines, NEW i \in Request, NEW v0 \in Pc, NEW v1 \in Ctrl \cup {None},
         req' = [req EXCEPT ![i].pc = v0, ![i].ctrl = v1]
  PROVE  Goroutines'
<1>1. [req[i] EXCEPT !.pc = v0, !.ctrl = v1] \in Goroutine
  BY DEF Goroutines, Goroutine
<1> QED BY <1>1 DEF Goroutines

LEMMA ReqPcPhase ==
  ASSUME Goroutines, NEW i \in Request, NEW v0 \in Pc, NEW v1 \in Phases,
         req' = [req EXCEPT ![i].pc = v0, ![i].phase = v1]
  PROVE  Goroutines'
<1>1. [req[i] EXCEPT !.pc = v0, !.phase = v1] \in Goroutine
  BY DEF Goroutines, Goroutine
<1> QED BY <1>1 DEF Goroutines

LEMMA ReqPcPhaseCtrl ==
  ASSUME Goroutines, NEW i \in Request, NEW v0 \in Pc, NEW v1 \in Phases, NEW v2 \in Ctrl \cup {None},
         req' = [req EXCEPT ![i].pc = v0, ![i].phase = v1, ![i].ctrl = v2]
  PROVE  Goroutines'
<1>1. [req[i] EXCEPT !.pc = v0, !.phase = v1, !.ctrl = v2] \in Goroutine
  BY DEF Goroutines, Goroutine
<1> QED BY <1>1 DEF Goroutines

LEMMA ReqPcTo ==
  ASSUME Goroutines, NEW i \in Request, NEW v0 \in Pc, NEW v1 \in Session \cup {None},
         req' = [req EXCEPT ![i].pc = v0, ![i].to = v1]
  PROVE  Goroutines'
<1>1. [req[i] EXCEPT !.pc = v0, !.to = v1] \in Goroutine
  BY DEF Goroutines, Goroutine
<1> QED BY <1>1 DEF Goroutines

LEMMA ReqPcNext ==
  ASSUME Goroutines, NEW i \in Request, NEW v0 \in Pc, NEW v1 \in Ctrl \cup {None},
         req' = [req EXCEPT ![i].pc = v0, ![i].next = v1]
  PROVE  Goroutines'
<1>1. [req[i] EXCEPT !.pc = v0, !.next = v1] \in Goroutine
  BY DEF Goroutines, Goroutine
<1> QED BY <1>1 DEF Goroutines

LEMMA ReqPcWantVia ==
  ASSUME Goroutines, NEW i \in Request, NEW v0 \in Pc, NEW v1 \in Config \cup {None},
          NEW v2 \in BOOLEAN,
         req' = [req EXCEPT ![i].pc = v0, ![i].want = v1, ![i].via = v2]
  PROVE  Goroutines'
<1>1. [req[i] EXCEPT !.pc = v0, !.want = v1, !.via = v2] \in Goroutine
  BY DEF Goroutines, Goroutine
<1> QED BY <1>1 DEF Goroutines

LEMMA ReqPcAtVia ==
  ASSUME Goroutines, NEW i \in Request, NEW v0 \in Pc, NEW v1 \in Path, NEW v2 \in BOOLEAN,
         req' = [req EXCEPT ![i].pc = v0, ![i].at = v1, ![i].via = v2]
  PROVE  Goroutines'
<1>1. [req[i] EXCEPT !.pc = v0, !.at = v1, !.via = v2] \in Goroutine
  BY DEF Goroutines, Goroutine
<1> QED BY <1>1 DEF Goroutines

LEMMA SessTurn ==
  ASSUME Objects, NEW i \in Session, NEW v0 \in Request \cup {None},
         sess' = [sess EXCEPT ![i].turn = v0]
  PROVE  Objects'
<1>1. [sess[i] EXCEPT !.turn = v0] \in Object
  BY DEF Objects, Object
<1> QED BY <1>1 DEF Objects

LEMMA SessPending ==
  ASSUME Objects, NEW i \in Session, NEW v0 \in Config \cup {None},
         sess' = [sess EXCEPT ![i].pending = v0]
  PROVE  Objects'
<1>1. [sess[i] EXCEPT !.pending = v0] \in Object
  BY DEF Objects, Object
<1> QED BY <1>1 DEF Objects

LEMMA SessPendingMaint ==
  ASSUME Objects, NEW i \in Session, NEW v0 \in Config \cup {None}, NEW v1 \in Request \cup {None},
         sess' = [sess EXCEPT ![i].pending = v0, ![i].maint = v1]
  PROVE  Objects'
<1>1. [sess[i] EXCEPT !.pending = v0, !.maint = v1] \in Object
  BY DEF Objects, Object
<1> QED BY <1>1 DEF Objects

LEMMA SessCtrlConfig ==
  ASSUME Objects, NEW i \in Session, NEW v0 \in Ctrl \cup {None}, NEW v1 \in Config,
         sess' = [sess EXCEPT ![i].ctrl = v0, ![i].config = v1]
  PROVE  Objects'
<1>1. [sess[i] EXCEPT !.ctrl = v0, !.config = v1] \in Object
  BY DEF Objects, Object
<1> QED BY <1>1 DEF Objects

LEMMA SessMaint ==
  ASSUME Objects, NEW i \in Session, NEW v0 \in Request \cup {None},
         sess' = [sess EXCEPT ![i].maint = v0]
  PROVE  Objects'
<1>1. [sess[i] EXCEPT !.maint = v0] \in Object
  BY DEF Objects, Object
<1> QED BY <1>1 DEF Objects

LEMMA SessDeleted ==
  ASSUME Objects, NEW i \in Session, NEW v0 \in BOOLEAN,
         sess' = [sess EXCEPT ![i].deleted = v0]
  PROVE  Objects'
<1>1. [sess[i] EXCEPT !.deleted = v0] \in Object
  BY DEF Objects, Object
<1> QED BY <1>1 DEF Objects

LEMMA SessLease ==
  ASSUME Objects, NEW i \in Session, NEW v0 \in Path \cup {None},
         sess' = [sess EXCEPT ![i].lease = v0]
  PROVE  Objects'
<1>1. [sess[i] EXCEPT !.lease = v0] \in Object
  BY DEF Objects, Object
<1> QED BY <1>1 DEF Objects

LEMMA SessLeaseTranscript ==
  ASSUME Objects, NEW i \in Session, NEW v0 \in Path \cup {None}, NEW v1 \in Path,
         sess' = [sess EXCEPT ![i].lease = v0, ![i].transcript = v1]
  PROVE  Objects'
<1>1. [sess[i] EXCEPT !.lease = v0, !.transcript = v1] \in Object
  BY DEF Objects, Object
<1> QED BY <1>1 DEF Objects

LEMMA BackTyped ==
  ASSUME Goroutines, NEW r \in Request, NEW ok \in BOOLEAN, Back(r, ok),
         req[r].phase \in {"turn", "persist", "rebuild"}
  PROVE  Goroutines'
<1>1. PICK p \in {"persist", "stamp", "build", "abandon"} : Goto(r, p)
  BY DEF Back
<1>2. p \in Pc
  BY DEF Pc
<1> QED BY <1>1, <1>2, GotoTyped

LEMMA UnopenedTyped == Unopened \in Object
BY Paths, FirstAssumption DEF Unopened, Opened, Object

LEMMA ReqPc ==
  ASSUME Goroutines, NEW i \in Request, NEW v0 \in Pc,
         req' = [req EXCEPT ![i].pc = v0]
  PROVE  Goroutines'
<1>1. [req[i] EXCEPT !.pc = v0] \in Goroutine
  BY DEF Goroutines, Goroutine
<1> QED BY <1>1 DEF Goroutines

LEMMA TypedStep ==
  ASSUME Goroutines, Objects, Others, Shape, [Next]_vars
  PROVE  Goroutines' /\ Objects' /\ Others'
<1>1. CASE UNCHANGED vars
  BY <1>1 DEF Goroutines, Objects, Others, vars, fileVars, history
<1>2. ASSUME NEW r \in Request, Prompt(r) PROVE Goroutines' /\ Objects' /\ Others'
  <2>1. Goroutines'
    <3>1. live \in Session /\ req' = [req EXCEPT ![r].pc = "begin", ![r].on = live]
      BY <1>2, Paths DEF Prompt, Serve, Others
    <3>2. "begin" \in Pc
      BY DEF Pc
    <3> QED BY <3>1, <3>2, ReqPcOn
  <2>2. Objects'
    BY <1>2 DEF Prompt, Objects, Serve
  <2>3. Others'
    BY <1>2, Paths DEF Prompt, Others, fileVars, history, Ways
  <2> QED BY <2>1, <2>2, <2>3
<1>3. ASSUME NEW r \in Request, SetConfig(r) PROVE Goroutines' /\ Objects' /\ Others'
  <2>1. Goroutines'
    <3>1. PICK c \in Config : live \in Session
           /\ req' = [req EXCEPT ![r].pc = "claim", ![r].on = live, ![r].want = c]
      BY <1>3, Paths DEF SetConfig, Others
    <3>2. "claim" \in Pc
      BY DEF Pc
    <3> QED BY <3>1, <3>2, ReqPcOnWant
  <2>2. Objects'
    BY <1>3 DEF SetConfig, Objects
  <2>3. Others'
    BY <1>3, Paths DEF SetConfig, Others, fileVars, history, Ways
  <2> QED BY <2>1, <2>2, <2>3
<1>4. ASSUME NEW r \in Request, Take(r) PROVE Goroutines' /\ Objects' /\ Others'
  <2>1. Goroutines'
    <3>1. PICK k \in {"close", "delete"} : live \in Session
           /\ req' = [req EXCEPT ![r].pc = "abort", ![r].on = live, ![r].phase = k]
      BY <1>4, Paths DEF Take, Others
    <3>2. "abort" \in Pc
      BY DEF Pc
    <3> QED BY <3>1, <3>2, ReqPcOnPhase DEF Phases
  <2>2. Objects'
    BY <1>4 DEF Take, Objects
  <2>3. Others'
    BY <1>4, Paths DEF Take, Others, fileVars, history, Ways
  <2> QED BY <2>1, <2>2, <2>3
<1>5. ASSUME NEW r \in Request, DeleteClosed(r) PROVE Goroutines' /\ Objects' /\ Others'
  <2>1. Goroutines'
    <3>1. Resolve \in Path /\ req' = [req EXCEPT ![r].pc = "erase", ![r].at = Resolve]
      BY <1>5, Paths DEF DeleteClosed, Resolve, Others
    <3>2. "erase" \in Pc
      BY DEF Pc
    <3> QED BY <3>1, <3>2, ReqPcAt
  <2>2. Objects'
    BY <1>5 DEF DeleteClosed, Objects
  <2>3. Others'
    BY <1>5, Paths DEF DeleteClosed, Race, Resolve, Others, fileVars, history, Ways
  <2> QED BY <2>1, <2>2, <2>3
<1>6. ASSUME NEW r \in Request, Load(r) PROVE Goroutines' /\ Objects' /\ Others'
  <2>1. Goroutines'
    <3>1. PICK s \in Session : Resolve \in Path
           /\ req' = [req EXCEPT ![r].pc = "resolve", ![r].on = s, ![r].at = Resolve]
      BY <1>6, Paths DEF Load, Resolve, Others, FreeSessions
    <3>2. "resolve" \in Pc
      BY DEF Pc
    <3> QED BY <3>1, <3>2, ReqPcOnAt
  <2>2. Objects'
    BY <1>6 DEF Load, Objects
  <2>3. Others'
    BY <1>6, Paths DEF Load, Resolve, FreeSessions, Others, fileVars, history, Ways
  <2> QED BY <2>1, <2>2, <2>3
<1>7. ASSUME NEW r \in Request, Begin(r) PROVE Goroutines' /\ Objects' /\ Others'
  <2>1. req[r].on \in Session
    BY <1>7, Paths DEF Begin, At, On, Goroutines, Objects, Goroutine, Object, Shape, Located,
       Rebuilding, Saves, Moves, Blank, Detached
  <2>2. Goroutines'
    <3>1. "enter" \in Pc
      BY DEF Pc
    <3> QED BY <1>7, <3>1, GotoTyped DEF Begin
  <2>3. Objects'
    BY <1>7, <2>1, Paths, SessTurn DEF Begin, Objects, Object
  <2>4. Others'
    BY <1>7, <2>1, Paths DEF Begin, Late, Others, fileVars, history, Ways
  <2> QED BY <2>2, <2>3, <2>4
<1>8. ASSUME NEW r \in Request, BeginRefused(r) PROVE Goroutines' /\ Objects' /\ Others'
  <2>1. Goroutines'
    BY <1>8, EndTyped DEF BeginRefused
  <2>2. Objects'
    BY <1>8 DEF BeginRefused, Objects
  <2>3. Others'
    BY <1>8, Paths DEF BeginRefused, Others, fileVars, history, Ways
  <2> QED BY <2>1, <2>2, <2>3
<1>9. ASSUME NEW r \in Request, Enter(r) PROVE Goroutines' /\ Objects' /\ Others'
  <2>1. req[r].on \in Session
    BY <1>9, Paths DEF Enter, At, On, Goroutines, Objects, Goroutine, Object, Shape, Located,
       Rebuilding, Saves, Moves, Blank, Detached
  <2>2. Goroutines'
    <3>1. On(r).ctrl \in Ctrl \cup {None}
           /\ req' = [req EXCEPT ![r].pc = "turn", ![r].ctrl = On(r).ctrl]
      BY <1>9, <2>1, Paths DEF Enter, On, Objects, Object
    <3>2. "turn" \in Pc
      BY DEF Pc
    <3> QED BY <3>1, <3>2, ReqPcCtrl
  <2>3. Objects'
    BY <1>9 DEF Enter, Objects
  <2>4. Others'
    BY <1>9, <2>1, Paths DEF Enter, On, Others, fileVars, history, Ways
  <2> QED BY <2>2, <2>3, <2>4
<1>10. ASSUME NEW r \in Request, Persist(r) PROVE Goroutines' /\ Objects' /\ Others'
  <2>1. req[r].on \in Session
    BY <1>10, Paths DEF Persist, At, On, Goroutines, Objects, Goroutine, Object, Shape, Located,
       Rebuilding, Saves, Moves, Blank, Detached
  <2>2. Goroutines'
    <3>1. CASE On(r).deleted
      BY <1>10, <3>1, GotoTyped DEF Persist, Pc, Goto
    <3>2. CASE ~On(r).deleted
      <4>1. /\ On(r).ctrl \in Ctrl \cup {None}
            /\ req' = [req EXCEPT ![r].pc = "save", ![r].phase = "persist", ![r].ctrl = On(r).ctrl]
        BY <1>10, <2>1, <3>2 DEF Persist, On, Objects, Object
      <4>2. "save" \in Pc
        BY DEF Pc
      <4> QED BY <4>1, <4>2, ReqPcPhaseCtrl DEF Phases
    <3> QED BY <3>1, <3>2
  <2>3. Objects'
    BY <1>10 DEF Persist, Objects
  <2>4. Others'
    BY <1>10, <2>1, Paths DEF Persist, On, Others, fileVars, history, Ways
  <2> QED BY <2>2, <2>3, <2>4
<1>11. ASSUME NEW r \in Request, Stamp(r) PROVE Goroutines' /\ Objects' /\ Others'
  <2>1. req[r].on \in Session /\ On(r).transcript \in Path
    BY <1>11, Paths DEF Stamp, At, On, Goroutines, Objects, Goroutine, Object, Shape, Located,
       Rebuilding, Saves, Moves, Blank, Detached
  <2>2. Goroutines'
    <3>1. "finish" \in Pc
      BY DEF Pc
    <3> QED BY <1>11, <3>1, GotoTyped DEF Stamp
  <2>3. Objects'
    BY <1>11 DEF Stamp, Objects
  <2>4. Others'
    BY <1>11, <2>1, Paths DEF Stamp, SaveMeta, Others, fileVars, history, Ways
  <2> QED BY <2>2, <2>3, <2>4
<1>12. ASSUME NEW r \in Request, Finish(r) PROVE Goroutines' /\ Objects' /\ Others'
  <2>1. req[r].on \in Session
    BY <1>12, Paths DEF Finish, At, On, Goroutines, Objects, Goroutine, Object, Shape, Located,
       Rebuilding, Saves, Moves, Blank, Detached
  <2>2. Goroutines'
    BY <1>12, <2>1, Paths, ReqPcCtrl DEF Finish, At, Goroutines, Goroutine, Objects, Object, Pc,
       Phases
  <2>3. Objects'
    BY <1>12, <2>1, Paths, SessTurn DEF Finish, Objects, Object
  <2>4. Others'
    BY <1>12, <2>1, Paths DEF Finish, Wake, Others, fileVars, history, Ways
  <2> QED BY <2>2, <2>3, <2>4
<1>13. ASSUME NEW r \in Request, TurnReturns(r) PROVE Goroutines' /\ Objects' /\ Others'
  <2>1. Goroutines'
    BY <1>13, Paths, ReqPcPhase DEF TurnReturns, At, Goroutines, Goroutine, Objects, Object, Pc,
       Phases
  <2>2. Objects'
    BY <1>13 DEF TurnReturns, Objects
  <2>3. Others'
    BY <1>13, Paths DEF TurnReturns, Others, fileVars, history, Ways
  <2> QED BY <2>1, <2>2, <2>3
<1>14. ASSUME NEW r \in Request, Cancel(r) PROVE Goroutines' /\ Objects' /\ Others'
  <2>1. Goroutines'
    BY <1>14 DEF Cancel, Goroutines
  <2>2. Objects'
    BY <1>14 DEF Cancel, Objects
  <2>3. Others'
    BY <1>14, Paths DEF Cancel, Others, fileVars, history, Ways
  <2> QED BY <2>1, <2>2, <2>3
<1>15. ASSUME NEW r \in Request, Saved(r) PROVE Goroutines' /\ Objects' /\ Others'
  <2>1. req[r].ctrl \in Ctrl /\ req[r].phase \in {"turn", "persist", "rebuild"}
    BY <1>15, Paths DEF Saved, At, On, Goroutines, Objects, Goroutine, Object, Shape, Located,
       Rebuilding, Saves, Moves, Blank, Detached
  <2>2. Goroutines'
    BY <1>15, <2>1, BackTyped DEF Saved
  <2>3. Objects'
    BY <1>15 DEF Saved, Objects
  <2>4. Others'
    BY <1>15, <2>1, Paths DEF Saved, Others, fileVars, history, Ways
  <2> QED BY <2>2, <2>3, <2>4
<1>16. ASSUME NEW r \in Request, NotSaved(r) PROVE Goroutines' /\ Objects' /\ Others'
  <2>1. req[r].ctrl \in Ctrl /\ req[r].phase \in {"turn", "persist", "rebuild"}
    BY <1>16, Paths DEF NotSaved, At, On, Goroutines, Objects, Goroutine, Object, Shape,
       Located, Rebuilding, Saves, Moves, Blank, Detached
  <2>2. Goroutines'
    BY <1>16, <2>1, BackTyped DEF NotSaved
  <2>3. Objects'
    BY <1>16 DEF NotSaved, Objects
  <2>4. Others'
    BY <1>16, <2>1, Paths DEF NotSaved, Others, fileVars, history, Ways
  <2> QED BY <2>2, <2>3, <2>4
<1>17. ASSUME NEW r \in Request, Recover(r) PROVE Goroutines' /\ Objects' /\ Others'
  <2>1. req[r].ctrl \in Ctrl
    BY <1>17, Paths DEF Recover, At, On, Goroutines, Objects, Goroutine, Object, Shape, Located,
       Rebuilding, Saves, Moves, Blank, Detached
  <2>2. Goroutines'
    BY <1>17, <2>1, Paths, ReqPcAt, SMTT(20), ZenonT(40) DEF Recover, At, Goroutines, Goroutine,
       Objects, Object, Pc, Phases
  <2>3. Objects'
    BY <1>17 DEF Recover, Objects
  <2>4. Others'
    BY <1>17, <2>1, Paths DEF Recover, Others, fileVars, history, Ways
  <2> QED BY <2>2, <2>3, <2>4
<1>18. ASSUME NEW r \in Request, Follow(r) PROVE Goroutines' /\ Objects' /\ Others'
  <2>1. Goroutines'
    <3>1. (IF live = None THEN "commit" ELSE "secure") \in Pc
      BY DEF Pc
    <3> QED BY <1>18, <3>1, ReqPcTo DEF Follow, Others
  <2>2. Objects'
    BY <1>18 DEF Follow, Objects
  <2>3. Others'
    BY <1>18, Paths DEF Follow, Others, fileVars, history, Ways
  <2> QED BY <2>1, <2>2, <2>3
<1>19. ASSUME NEW r \in Request, Secure(r) PROVE Goroutines' /\ Objects' /\ Others'
  <2>1. req[r].at \in Path /\ req[r].phase \in {"turn", "persist", "rebuild"}
    BY <1>19, Paths DEF Secure, At, On, Goroutines, Objects, Goroutine, Object, Shape, Located,
       Rebuilding, Saves, Moves, Blank, Detached
  <2>2. Goroutines'
    <3>1. CASE Goto(r, "assign")
      BY <3>1, GotoTyped DEF Pc
    <3> QED BY <1>19, <2>1, <3>1, BackTyped DEF Secure
  <2>3. Objects'
    BY <1>19 DEF Secure, Objects
  <2>4. Others'
    BY <1>19, <2>1, Paths DEF Secure, Others, fileVars, history, Ways
  <2> QED BY <2>2, <2>3, <2>4
<1>20. ASSUME NEW r \in Request, Assign(r) PROVE Goroutines' /\ Objects' /\ Others'
  <2>1. req[r].to \in Session /\ req[r].at \in Path /\ sess[req[r].to].lease \in Path \cup {None}
         /\ req[r].phase \in {"turn", "persist", "rebuild"}
    BY <1>20, Paths DEF Assign, At, On, Goroutines, Objects, Goroutine, Object, Shape, Located,
       Rebuilding, Saves, Moves, Blank, Detached
  <2>2. Goroutines'
    <3>1. CASE Goto(r, "redirect")
      BY <3>1, GotoTyped DEF Pc
    <3> QED BY <1>20, <2>1, <3>1, BackTyped DEF Assign
  <2>3. Objects'
    <3>1. CASE MoveTo(req[r].to, req[r].at)
      BY <2>1, <3>1, SessLeaseTranscript DEF MoveTo
    <3> QED BY <1>20, <3>1 DEF Assign, Objects
  <2>4. Others'
    BY <1>20, <2>1, Paths DEF Assign, Unlock, Others, fileVars, history, Ways
  <2> QED BY <2>2, <2>3, <2>4
<1>21. ASSUME NEW r \in Request, Redirect(r) PROVE Goroutines' /\ Objects' /\ Others'
  <2>1. req[r].at \in Branch
    BY <1>21, Paths DEF Redirect, At, On, Goroutines, Objects, Goroutine, Object, Shape,
       Located, Rebuilding, Saves, Moves, Blank, Detached
  <2>2. Goroutines'
    <3>1. "commit" \in Pc
      BY DEF Pc
    <3> QED BY <1>21, <3>1, GotoTyped DEF Redirect
  <2>3. Objects'
    BY <1>21 DEF Redirect, Objects
  <2>4. Others'
    BY <1>21, <2>1, Paths DEF Redirect, RedirectTo, Others, fileVars, history, Ways
  <2> QED BY <2>2, <2>3, <2>4
<1>22. ASSUME NEW r \in Request, Commit(r) PROVE Goroutines' /\ Objects' /\ Others'
  <2>1. req[r].ctrl \in Ctrl /\ req[r].at \in Path /\ req[r].phase \in {"turn", "persist", "rebuild"}
    BY <1>22, Paths DEF Commit, At, On, Goroutines, Objects, Goroutine, Object, Shape, Located,
       Rebuilding, Saves, Moves, Blank, Detached
  <2>2. Goroutines'
    BY <1>22, <2>1, BackTyped DEF Commit
  <2>3. Objects'
    BY <1>22 DEF Commit, Objects
  <2>4. Others'
    BY <1>22, <2>1, Paths DEF Commit, Others, fileVars, history, Ways
  <2> QED BY <2>2, <2>3, <2>4
<1>23. ASSUME NEW r \in Request, ClaimRefused(r) PROVE Goroutines' /\ Objects' /\ Others'
  <2>1. Goroutines'
    <3>1. CASE Goto(r, "drop")
      BY <3>1, GotoTyped DEF Pc
    <3> QED BY <1>23, <3>1, EndTyped DEF ClaimRefused, Fail
  <2>2. Objects'
    BY <1>23 DEF ClaimRefused, Objects
  <2>3. Others'
    BY <1>23, Paths DEF ClaimRefused, Others, fileVars, history, Ways
  <2> QED BY <2>1, <2>2, <2>3
<1>24. ASSUME NEW r \in Request, Queue(r) PROVE Goroutines' /\ Objects' /\ Others'
  <2>1. req[r].on \in Session /\ req[r].want \in Config
    BY <1>24, Paths DEF Queue, At, On, Goroutines, Objects, Goroutine, Object, Shape, Located,
       Rebuilding, Saves, Moves, Blank, Detached
  <2>2. Goroutines'
    BY <1>24, EndTyped DEF Queue
  <2>3. Objects'
    BY <1>24, <2>1, Paths, SessPending DEF Queue, Objects, Object
  <2>4. Others'
    BY <1>24, <2>1, Paths DEF Queue, Chosen, Others, fileVars, history, Ways
  <2> QED BY <2>2, <2>3, <2>4
<1>25. ASSUME NEW r \in Request, Claim(r) PROVE Goroutines' /\ Objects' /\ Others'
  <2>1. req[r].on \in Session /\ req[r].want \in Config
    BY <1>25, Paths DEF Claim, At, On, Goroutines, Objects, Goroutine, Object, Shape, Located,
       Rebuilding, Saves, Moves, Blank, Detached
  <2>2. Goroutines'
    <3>1. On(r).ctrl \in Ctrl \cup {None}
           /\ req' = [req EXCEPT ![r].pc = "save", ![r].phase = "rebuild", ![r].ctrl = On(r).ctrl]
      BY <1>25, <2>1, Paths DEF Claim, On, Objects, Object
    <3>2. "save" \in Pc
      BY DEF Pc
    <3> QED BY <3>1, <3>2, ReqPcPhaseCtrl DEF Phases
  <2>3. Objects'
    BY <1>25, <2>1, Paths, SessPendingMaint DEF Claim, Objects, Object
  <2>4. Others'
    BY <1>25, <2>1, Paths DEF Claim, Chosen, On, Others, fileVars, history, Ways
  <2> QED BY <2>2, <2>3, <2>4
<1>26. ASSUME NEW r \in Request, Build(r) PROVE Goroutines' /\ Objects' /\ Others'
  <2>1. req[r].on \in Session /\ req[r].ctrl \in Ctrl
    BY <1>26, Paths DEF Build, At, On, Goroutines, Objects, Goroutine, Object, Shape, Located,
       Rebuilding, Saves, Moves, Blank, Detached
  <2>2. Goroutines'
    <3>1. PICK c \in Ctrl : req' = [req EXCEPT ![r].pc = "swap", ![r].next = c]
      BY <1>26 DEF Build, FreeCtrls
    <3> QED BY <3>1, ReqPcNext DEF Pc
  <2>3. Objects'
    BY <1>26 DEF Build, Objects
  <2>4. Others'
    BY <1>26, <2>1, Paths DEF Build, FreeCtrls, Others, fileVars, history, Ways
  <2> QED BY <2>2, <2>3, <2>4
<1>27. ASSUME NEW r \in Request, BuildFails(r) PROVE Goroutines' /\ Objects' /\ Others'
  <2>1. Goroutines'
    <3>1. "abandon" \in Pc
      BY DEF Pc
    <3> QED BY <1>27, <3>1, GotoTyped DEF BuildFails
  <2>2. Objects'
    BY <1>27 DEF BuildFails, Objects
  <2>3. Others'
    BY <1>27, Paths DEF BuildFails, Others, fileVars, history, Ways
  <2> QED BY <2>1, <2>2, <2>3
<1>28. ASSUME NEW r \in Request, Swap(r) PROVE Goroutines' /\ Objects' /\ Others'
  <2>1. req[r].on \in Session /\ req[r].want \in Config /\ req[r].next \in Ctrl
         /\ On(r).transcript \in Path
    BY <1>28, Paths DEF Swap, At, On, Goroutines, Objects, Goroutine, Object, Shape, Located,
       Rebuilding, Saves, Moves, Blank, Detached
  <2>2. Goroutines'
    BY <1>28, <2>1, Paths, ReqPcNext, SMTT(20), ZenonT(40) DEF Swap, At, Goroutines, Goroutine,
       Objects, Object, Pc, Phases
  <2>3. Objects'
    BY <1>28, <2>1, Paths, SessCtrlConfig DEF Swap, Objects, Object
  <2>4. Others'
    BY <1>28, <2>1, Paths DEF Swap, SaveMeta, Others, fileVars, history, Ways
  <2> QED BY <2>2, <2>3, <2>4
<1>29. ASSUME NEW r \in Request, SwapRefused(r) PROVE Goroutines' /\ Objects' /\ Others'
  <2>1. req[r].next \in Ctrl
    BY <1>29, Paths DEF SwapRefused, At, On, Goroutines, Objects, Goroutine, Object, Shape,
       Located, Rebuilding, Saves, Moves, Blank, Detached
  <2>2. Goroutines'
    BY <1>29, <2>1, Paths, ReqPcNext DEF SwapRefused, At, Goroutines, Goroutine, Objects,
       Object, Pc, Phases
  <2>3. Objects'
    BY <1>29 DEF SwapRefused, Objects
  <2>4. Others'
    BY <1>29, <2>1, Paths DEF SwapRefused, Others, fileVars, history, Ways
  <2> QED BY <2>2, <2>3, <2>4
<1>30. ASSUME NEW r \in Request, Retire(r) PROVE Goroutines' /\ Objects' /\ Others'
  <2>1. req[r].ctrl \in Ctrl
    BY <1>30, Paths DEF Retire, At, On, Goroutines, Objects, Goroutine, Object, Shape, Located,
       Rebuilding, Saves, Moves, Blank, Detached
  <2>2. Goroutines'
    BY <1>30, <2>1, Paths, ReqPcCtrl DEF Retire, At, Goroutines, Goroutine, Objects, Object, Pc,
       Phases
  <2>3. Objects'
    BY <1>30 DEF Retire, Objects
  <2>4. Others'
    BY <1>30, <2>1, Paths DEF Retire, Others, fileVars, history, Ways
  <2> QED BY <2>2, <2>3, <2>4
<1>31. ASSUME NEW r \in Request, Unwind(r) PROVE Goroutines' /\ Objects' /\ Others'
  <2>1. req[r].on \in Session
    BY <1>31, Paths DEF Unwind, At, On, Goroutines, Objects, Goroutine, Object, Shape, Located,
       Rebuilding, Saves, Moves, Blank, Detached
  <2>2. Goroutines'
    <3>1. "apply" \in Pc
      BY DEF Pc
    <3> QED BY <1>31, <3>1, GotoTyped DEF Unwind
  <2>3. Objects'
    BY <1>31, <2>1, Paths, SessMaint DEF Unwind, Objects, Object
  <2>4. Others'
    BY <1>31, <2>1, Paths DEF Unwind, Wake, Others, fileVars, history, Ways
  <2> QED BY <2>2, <2>3, <2>4
<1>32. ASSUME NEW r \in Request, Abandon(r) PROVE Goroutines' /\ Objects' /\ Others'
  <2>1. req[r].on \in Session /\ On(r).config \in Config
    BY <1>32, Paths DEF Abandon, At, On, Goroutines, Objects, Goroutine, Object, Shape, Located,
       Rebuilding, Saves, Moves, Blank, Detached
  <2>2. Goroutines'
    <3>1. CASE req' = [req EXCEPT ![r].pc = "drop", ![r].ctrl = None]
      BY <3>1, ReqPcCtrl DEF Pc
    <3> QED BY <1>32, <3>1, EndTyped DEF Abandon
  <2>3. Objects'
    BY <1>32, <2>1, Paths, SessMaint DEF Abandon, Objects, Object
  <2>4. Others'
    BY <1>32, <2>1, Paths DEF Abandon, Wake, Void, Others, fileVars, history, Ways
  <2> QED BY <2>2, <2>3, <2>4
<1>33. ASSUME NEW r \in Request, Apply(r) PROVE Goroutines' /\ Objects' /\ Others'
  <2>1. Goroutines'
    <3>1. CASE Goto(r, "copy")
      BY <3>1, GotoTyped DEF Pc
    <3> QED BY <1>33, <3>1, EndTyped DEF Apply
  <2>2. Objects'
    BY <1>33 DEF Apply, Objects
  <2>3. Others'
    BY <1>33, Paths DEF Apply, Others, fileVars, history, Ways
  <2> QED BY <2>1, <2>2, <2>3
<1>34. ASSUME NEW r \in Request, Copy(r) PROVE Goroutines' /\ Objects' /\ Others'
  <2>1. req[r].on \in Session /\ On(r).pending \in Config \cup {None}
    BY <1>34, Paths DEF Copy, At, On, Goroutines, Objects, Goroutine, Object, Shape, Located,
       Rebuilding, Saves, Moves, Blank, Detached
  <2>2. Goroutines'
    <3>1. CASE req' = [req EXCEPT ![r].pc = "claim", ![r].want = On(r).pending, ![r].via = TRUE]
      BY <2>1, <3>1, ReqPcWantVia DEF Pc
    <3> QED BY <1>34, <3>1, EndTyped DEF Copy
  <2>3. Objects'
    BY <1>34 DEF Copy, Objects
  <2>4. Others'
    BY <1>34, <2>1, Paths DEF Copy, On, Others, fileVars, history, Ways
  <2> QED BY <2>2, <2>3, <2>4
<1>35. ASSUME NEW r \in Request, Drop(r) PROVE Goroutines' /\ Objects' /\ Others'
  <2>1. req[r].on \in Session /\ On(r).config \in Config /\ On(r).pending \in Config \cup {None}
    BY <1>35, Paths DEF Drop, At, On, Goroutines, Objects, Goroutine, Object, Shape, Located,
       Rebuilding, Saves, Moves, Blank, Detached
  <2>2. Goroutines'
    BY <1>35, EndTyped DEF Drop
  <2>3. Objects'
    BY <1>35, <2>1, Paths, SessPending DEF Drop, Objects, Object
  <2>4. Others'
    BY <1>35, <2>1, Paths DEF Drop, Void, Others, fileVars, history, Ways
  <2> QED BY <2>2, <2>3, <2>4
<1>36. ASSUME NEW r \in Request, Abort(r) PROVE Goroutines' /\ Objects' /\ Others'
  <2>1. req[r].on \in Session /\ On(r).turn \in Request \cup {None}
         /\ On(r).maint \in Request \cup {None}
    BY <1>36, Paths DEF Abort, At, On, Goroutines, Objects, Goroutine, Object, Shape, Located,
       Rebuilding, Saves, Moves, Blank, Detached
  <2>2. Goroutines'
    <3>1. "wait" \in Pc
      BY DEF Pc
    <3> QED BY <1>36, <3>1, GotoTyped DEF Abort
  <2>3. Objects'
    BY <1>36, <2>1, Paths, SessDeleted DEF Abort, Objects, Object
  <2>4. Others'
    BY <1>36, <2>1, Paths DEF Abort, Awaited, Interrupted, Token, Others, fileVars, history, Ways
  <2> QED BY <2>2, <2>3, <2>4
<1>37. ASSUME NEW r \in Request, Waited(r) PROVE Goroutines' /\ Objects' /\ Others'
  <2>1. Goroutines'
    <3>1. (IF req[r].phase = "close" THEN "shut" ELSE "release") \in Pc
      BY DEF Pc
    <3> QED BY <1>37, <3>1, GotoTyped DEF Waited
  <2>2. Objects'
    BY <1>37 DEF Waited, Objects
  <2>3. Others'
    BY <1>37, Paths DEF Waited, Others, fileVars, history, Ways
  <2> QED BY <2>1, <2>2, <2>3
<1>38. ASSUME NEW r \in Request, Shut(r) PROVE Goroutines' /\ Objects' /\ Others'
  <2>1. req[r].on \in Session /\ On(r).ctrl \in Ctrl
    BY <1>38, Paths DEF Shut, At, On, Goroutines, Objects, Goroutine, Object, Shape, Located,
       Rebuilding, Saves, Moves, Blank, Detached
  <2>2. Goroutines'
    <3>1. "release" \in Pc
      BY DEF Pc
    <3> QED BY <1>38, <3>1, GotoTyped DEF Shut
  <2>3. Objects'
    BY <1>38 DEF Shut, Objects
  <2>4. Others'
    BY <1>38, <2>1, Paths DEF Shut, Others, fileVars, history, Ways
  <2> QED BY <2>2, <2>3, <2>4
<1>39. ASSUME NEW r \in Request, Release(r) PROVE Goroutines' /\ Objects' /\ Others'
  <2>1. req[r].on \in Session
    BY <1>39, Paths DEF Release, At, On, Goroutines, Objects, Goroutine, Object, Shape, Located,
       Rebuilding, Saves, Moves, Blank, Detached
  <2>2. Goroutines'
    <3>1. CASE Goto(r, "destroy")
      BY <3>1, GotoTyped DEF Pc
    <3> QED BY <1>39, <3>1, EndTyped DEF Release
  <2>3. Objects'
    BY <1>39, <2>1, Paths, SessLease DEF Release, Objects, Object
  <2>4. Others'
    BY <1>39, <2>1, Paths DEF Release, Unlock, Others, fileVars, history, Ways
  <2> QED BY <2>2, <2>3, <2>4
<1>40. ASSUME NEW r \in Request, Destroy(r) PROVE Goroutines' /\ Objects' /\ Others'
  <2>1. req[r].on \in Session /\ On(r).ctrl \in Ctrl /\ On(r).transcript \in Path
    BY <1>40, Paths DEF Destroy, At, On, Goroutines, Objects, Goroutine, Object, Shape, Located,
       Rebuilding, Saves, Moves, Blank, Detached
  <2>2. Goroutines'
    <3>1. CASE req' = [req EXCEPT ![r].pc = "twin", ![r].at = On(r).transcript, ![r].via = TRUE]
      BY <2>1, <3>1, ReqPcAtVia DEF Pc
    <3>2. ASSUME NEW p \in {"erase", "linger"},
                  req' = [req EXCEPT ![r].pc = p, ![r].at = On(r).transcript]
          PROVE  Goroutines'
      BY <2>1, <3>2, ReqPcAt DEF Pc
    <3> QED BY <1>40, <3>1, <3>2 DEF Destroy
  <2>3. Objects'
    BY <1>40 DEF Destroy, Objects
  <2>4. Others'
    BY <1>40, <2>1, Paths DEF Destroy, Others, fileVars, history, Ways
  <2> QED BY <2>2, <2>3, <2>4
<1>41. ASSUME NEW r \in Request, Erase(r) PROVE Goroutines' /\ Objects' /\ Others'
  <2>1. req[r].at \in Path
    BY <1>41, Paths DEF Erase, At, On, Goroutines, Objects, Goroutine, Object, Shape, Located,
       Rebuilding, Saves, Moves, Blank, Detached
  <2>2. Goroutines'
    <3>1. "twin" \in Pc
      BY DEF Pc
    <3> QED BY <1>41, <3>1, GotoTyped DEF Erase
  <2>3. Objects'
    BY <1>41 DEF Erase, Objects
  <2>4. Others'
    BY <1>41, <2>1, Paths DEF Erase, Remove, Others, fileVars, history, Ways
  <2> QED BY <2>2, <2>3, <2>4
<1>42. ASSUME NEW r \in Request, Twin(r) PROVE Goroutines' /\ Objects' /\ Others'
  <2>1. req[r].at \in Path
    BY <1>42, Paths DEF Twin, At, On, Goroutines, Objects, Goroutine, Object, Shape, Located,
       Rebuilding, Saves, Moves, Blank, Detached
  <2>2. Goroutines'
    <3>1. CASE Goto(r, "linger")
      BY <3>1, GotoTyped DEF Pc
    <3> QED BY <1>42, <3>1, EndTyped DEF Twin
  <2>3. Objects'
    BY <1>42 DEF Twin, Objects
  <2>4. Others'
    BY <1>42, <2>1, Paths DEF Twin, RemoveTwin, Remove, Others, fileVars, history, Ways
  <2> QED BY <2>2, <2>3, <2>4
<1>43. ASSUME NEW r \in Request, Linger(r) PROVE Goroutines' /\ Objects' /\ Others'
  <2>1. req[r].at \in Path
    BY <1>43, Paths DEF Linger, At, On, Goroutines, Objects, Goroutine, Object, Shape, Located,
       Rebuilding, Saves, Moves, Blank, Detached
  <2>2. Goroutines'
    BY <1>43, EndTyped DEF Linger
  <2>3. Objects'
    BY <1>43 DEF Linger, Objects
  <2>4. Others'
    BY <1>43, <2>1, Paths DEF Linger, Remove, Others, fileVars, history, Ways
  <2> QED BY <2>2, <2>3, <2>4
<1>44. ASSUME NEW r \in Request, ResolveAgain(r) PROVE Goroutines' /\ Objects' /\ Others'
  <2>1. Goroutines'
    <3>1. CASE req' = [req EXCEPT ![r].pc = "acquire", ![r].at = Resolve]
      BY <3>1, Paths, ReqPcAt DEF Pc, Resolve, Others
    <3> QED BY <1>44, <3>1, EndTyped DEF ResolveAgain
  <2>2. Objects'
    BY <1>44 DEF ResolveAgain, Objects
  <2>3. Others'
    BY <1>44, Paths DEF ResolveAgain, Resolve, Others, fileVars, history, Ways
  <2> QED BY <2>1, <2>2, <2>3
<1>45. ASSUME NEW r \in Request, Acquire(r) PROVE Goroutines' /\ Objects' /\ Others'
  <2>1. req[r].at \in Path
    BY <1>45, Paths DEF Acquire, At, On, Goroutines, Objects, Goroutine, Object, Shape, Located,
       Rebuilding, Saves, Moves, Blank, Detached
  <2>2. Goroutines'
    <3>1. CASE Goto(r, "read")
      BY <3>1, GotoTyped DEF Pc
    <3> QED BY <1>45, <3>1, EndTyped DEF Acquire
  <2>3. Objects'
    BY <1>45 DEF Acquire, Objects
  <2>4. Others'
    BY <1>45, <2>1, Paths DEF Acquire, Others, fileVars, history, Ways
  <2> QED BY <2>2, <2>3, <2>4
<1>46. ASSUME NEW r \in Request, Read(r) PROVE Goroutines' /\ Objects' /\ Others'
  <2>1. req[r].on \in Session /\ req[r].at \in Path
    BY <1>46, Paths DEF Read, At, On, Goroutines, Objects, Goroutine, Object, Shape, Located,
       Rebuilding, Saves, Moves, Blank, Detached
  <2>2. Goroutines'
    <3>1. "meta" \in Pc
      BY DEF Pc
    <3> QED BY <1>46, <3>1, GotoTyped DEF Read
  <2>3. Objects'
    <3>1. PICK c \in Ctrl, g \in Config : sess' = [sess EXCEPT ![req[r].on] = Opened(c, g, req[r].at)]
      BY <1>46 DEF Read, FreeCtrls
    <3>2. Opened(c, g, req[r].at) \in Object
      BY <2>1, Paths DEF Opened, Object
    <3> QED BY <2>1, <3>1, <3>2 DEF Objects
  <2>4. Others'
    <3>1. amiss' \subseteq amiss \cup {"raced", "usurped"}
      BY <1>46 DEF Read
    <3>2. amiss' \subseteq Ways
      BY <3>1 DEF Others, Ways
    <3> QED BY <1>46, <2>1, <3>2, Paths DEF Read, FreeCtrls, Others, fileVars
  <2> QED BY <2>2, <2>3, <2>4
<1>47. ASSUME NEW r \in Request, ReadFails(r) PROVE Goroutines' /\ Objects' /\ Others'
  <2>1. req[r].at \in Path
    BY <1>47, Paths DEF ReadFails, At, On, Goroutines, Objects, Goroutine, Object, Shape,
       Located, Rebuilding, Saves, Moves, Blank, Detached
  <2>2. Goroutines'
    BY <1>47, EndTyped DEF ReadFails
  <2>3. Objects'
    BY <1>47 DEF ReadFails, Objects
  <2>4. Others'
    BY <1>47, <2>1, Paths DEF ReadFails, Unlock, Others, fileVars, history, Ways
  <2> QED BY <2>2, <2>3, <2>4
<1>48. ASSUME NEW r \in Request, LoadMeta(r) PROVE Goroutines' /\ Objects' /\ Others'
  <2>1. req[r].at \in Path
    BY <1>48, Paths DEF LoadMeta, At, On, Goroutines, Objects, Goroutine, Object, Shape,
       Located, Rebuilding, Saves, Moves, Blank, Detached
  <2>2. Goroutines'
    <3>1. "register" \in Pc
      BY DEF Pc
    <3> QED BY <1>48, <3>1, GotoTyped DEF LoadMeta
  <2>3. Objects'
    BY <1>48 DEF LoadMeta, Objects
  <2>4. Others'
    BY <1>48, <2>1, Paths DEF LoadMeta, SaveMeta, Others, fileVars, history, Ways
  <2> QED BY <2>2, <2>3, <2>4
<1>49. ASSUME NEW r \in Request, LoadMetaFails(r) PROVE Goroutines' /\ Objects' /\ Others'
  <2>1. req[r].on \in Session /\ req[r].at \in Path
    BY <1>49, Paths DEF LoadMetaFails, At, On, Goroutines, Objects, Goroutine, Object, Shape,
       Located, Rebuilding, Saves, Moves, Blank, Detached
  <2>2. Goroutines'
    BY <1>49, EndTyped DEF LoadMetaFails
  <2>3. Objects'
    BY <1>49, <2>1, UnopenedTyped DEF LoadMetaFails, Objects
  <2>4. Others'
    BY <1>49, <2>1, Paths DEF LoadMetaFails, Unlock, Others, fileVars, history, Ways
  <2> QED BY <2>2, <2>3, <2>4
<1>50. ASSUME NEW r \in Request, Register(r) PROVE Goroutines' /\ Objects' /\ Others'
  <2>1. req[r].on \in Session
    BY <1>50, Paths DEF Register, At, On, Goroutines, Objects, Goroutine, Object, Shape,
       Located, Rebuilding, Saves, Moves, Blank, Detached
  <2>2. Goroutines'
    BY <1>50, EndTyped DEF Register
  <2>3. Objects'
    BY <1>50 DEF Register, Objects
  <2>4. Others'
    BY <1>50, <2>1, Paths DEF Register, Others, fileVars, history, Ways
  <2> QED BY <2>2, <2>3, <2>4
<1>51. ASSUME NEW p \in Path, OtherAcquires(p) PROVE Goroutines' /\ Objects' /\ Others'
  <2>1. Goroutines' /\ Objects'
    BY <1>51 DEF OtherAcquires, Goroutines, Objects
  <2> QED BY <1>51, <2>1, Paths DEF OtherAcquires, Unlock, Others, fileVars, history
<1>52. ASSUME NEW p \in Path, OtherReleases(p) PROVE Goroutines' /\ Objects' /\ Others'
  <2>1. Goroutines' /\ Objects'
    BY <1>52 DEF OtherReleases, Goroutines, Objects
  <2> QED BY <1>52, <2>1, Paths DEF OtherReleases, Unlock, Others, fileVars, history
<1>53. ASSUME NEW p \in Path, Reconcile(p) PROVE Goroutines' /\ Objects' /\ Others'
  <2>1. Goroutines' /\ Objects'
    BY <1>53 DEF Reconcile, Goroutines, Objects
  <2> QED BY <1>53, <2>1, Paths DEF Reconcile, Remove, Others, fileVars, history
<1>54. CASE Crash
  <2>1. Goroutines'
    <3>1. Unserved \in Goroutine /\ [Unserved EXCEPT !.pc = "done"] \in Goroutine
      BY Paths DEF Unserved, Goroutine, Pc, Phases
    <3> QED BY <1>54, <3>1 DEF Crash, Goroutines
  <2>2. Objects'
    BY <1>54, UnopenedTyped DEF Crash, Objects
  <2>3. Others'
    BY <1>54, Paths, FirstAssumption DEF Crash, Others
  <2> QED BY <2>1, <2>2, <2>3
<1> QED BY <1>1, <1>2, <1>3, <1>4, <1>5, <1>6, <1>7, <1>8, <1>9, <1>10, <1>11, <1>12, <1>13,
           <1>14, <1>15, <1>16, <1>17, <1>18, <1>19, <1>20, <1>21, <1>22, <1>23, <1>24, <1>25,
           <1>26, <1>27, <1>28, <1>29, <1>30, <1>31, <1>32, <1>33, <1>34, <1>35, <1>36, <1>37,
           <1>38, <1>39, <1>40, <1>41, <1>42, <1>43, <1>44, <1>45, <1>46, <1>47, <1>48, <1>49,
           <1>50, <1>51, <1>52, <1>53, <1>54 DEF Next, Start, Continue, Turn, Save, Rebuild,
           Close, Open

\* What nearly every step does: it moves one goroutine, and opens nothing.
Moved(r) ==
    /\ \A q \in Request : q # r => req'[q] = req[q]
    /\ req'[r].pc \in Opens => req[r].pc \in Opens /\ req'[r].on = req[r].on
    /\ req'[r].on \in {req[r].on, None}
    /\ req'[r].to \in {req[r].to, None, live}

LEMMA BackIs ==
  ASSUME NEW r \in Request, NEW ok \in BOOLEAN, Back(r, ok),
         req[r].phase \in {"turn", "persist", "rebuild"}
  PROVE  \E p \in {"persist", "stamp", "build", "abandon"} :
            /\ Goto(r, p)
            /\ req[r].phase = "turn" <=> p = "persist"
            /\ req[r].phase = "persist" <=> p = "stamp"
BY DEF Back

LEMMA AloneMoved ==
  ASSUME Shape, NEW r \in Request, Moved(r), live' \in {live, None}
  PROVE  \A q \in Request : Alone(q)'
<1> SUFFICES ASSUME NEW q \in Request, req'[q].pc \in Opens
             PROVE  /\ req'[q].on # live'
                    /\ \A p \in Request : (p # q => req'[p].on # req'[q].on) /\ req'[p].to # req'[q].on
  BY DEF Alone
<1>1. req[q].pc \in Opens /\ req[q].on # None
  BY DEF Moved, Shape, Located, Opens, Detached
<1>2. /\ req[q].on # live
      /\ \A p \in Request : (p # q => req[p].on # req[q].on) /\ req[p].to # req[q].on
  BY <1>1 DEF Shape, Alone
<1>3. req'[q].on = req[q].on
  BY DEF Moved
<1> QED BY <1>1, <1>2, <1>3 DEF Moved

LEMMA LocatedMoved ==
  ASSUME Shape, NEW r \in Request, Moved(r), Located(r)',
         \A q \in Request : q # r /\ req[q].on # None /\ sess[req[q].on].ctrl # None =>
           sess'[req[q].on].ctrl # None
  PROVE  \A q \in Request : Located(q)'
BY DEF Shape, Moved, Located, Rebuilding, Blank, Detached

LEMMA ShapeStep ==
  ASSUME Goroutines, Objects, Others, Shape, [Next]_vars
  PROVE  Shape'
<1>1. live \in Session \cup {None}
  BY DEF Others
<1>2. CASE UNCHANGED vars
  BY <1>2 DEF Goroutines, Objects, Goroutine, Object, Others, Shape, Located, Alone, Rebuilding,
     Saves, Moves, Detached, Blank, Opens, vars, fileVars, history
<1>3. ASSUME NEW r \in Request, Prompt(r) PROVE Shape'
  BY <1>3, Paths DEF Prompt, Serve, At, Goroutines, Objects, Goroutine, Object, Others, Shape,
     Located, Alone, Rebuilding, Saves, Moves, Detached, Blank, Opens, fileVars, history
<1>4. ASSUME NEW r \in Request, SetConfig(r) PROVE Shape'
  <2>1. (live # None => sess[live].ctrl # None)'
    BY <1>4, Paths DEF SetConfig, At, Goroutines, Objects, Goroutine, Object, Others, Shape,
       Located, Alone, Opens, Blank, Detached, fileVars, history
  <2>2. (\A q \in Request : Located(q))'
    BY <1>4, Paths, <1>1 DEF SetConfig, At, Goroutines, Objects, Goroutine, Object, Shape,
       Located, Rebuilding, Saves, Moves, Detached, Blank, fileVars, history
  <2>3. (\A q \in Request : Alone(q))'
    BY <1>4, Paths, <1>1 DEF SetConfig, At, Goroutines, Objects, Goroutine, Object, Shape,
       Alone, Opens, fileVars, history
  <2> QED BY <2>1, <2>2, <2>3 DEF Shape
<1>5. ASSUME NEW r \in Request, Take(r) PROVE Shape'
  <2>1. (live # None => sess[live].ctrl # None)'
    BY <1>5, <1>1, Paths DEF Take, At, Goroutines, Objects, Goroutine, Object, Shape, Located,
       Alone, Opens, Detached, Blank, fileVars, history
  <2>2. (\A q \in Request : Located(q))'
    BY <1>5, <1>1, Paths DEF Take, At, Shape, Located, Rebuilding, Saves, Moves, Detached,
       Blank, Goroutines, Objects, Goroutine, Object
  <2>3. (\A q \in Request : Alone(q))'
    <3>1. \A q \in Request : q # r => req'[q] = req[q]
      BY <1>5 DEF Take, Goroutines
    <3>2. req'[r].pc \notin Opens /\ req'[r].on = live /\ req'[r].to = req[r].to /\ live' = None
           /\ live # None
      BY <1>5, <1>1 DEF Take, Goroutines, Goroutine, Opens
    <3> QED BY <3>1, <3>2 DEF Shape, Alone, Located, Opens, Detached
  <2> QED BY <2>1, <2>2, <2>3 DEF Shape
<1>6. ASSUME NEW r \in Request, DeleteClosed(r) PROVE Shape'
  BY <1>6, Paths DEF DeleteClosed, Serve, At, Race, Resolve, Goroutines, Objects, Goroutine,
     Object, Others, Shape, Located, Alone, Rebuilding, Saves, Moves, Detached, Blank, Opens,
     fileVars, history
<1>7. ASSUME NEW r \in Request, Load(r) PROVE Shape'
  BY <1>7, Paths DEF Load, At, FreeSessions, Resolve, Unserved, Goroutines, Objects, Goroutine,
     Object, Others, Shape, Located, Alone, Rebuilding, Saves, Moves, Detached, Blank, Opens,
     fileVars, history
<1>8. ASSUME NEW r \in Request, Begin(r) PROVE Shape'
  BY <1>8, Paths DEF Begin, MayBegin, On, Goto, Late, At, Goroutines, Objects, Goroutine,
     Object, Others, Shape, Located, Alone, Rebuilding, Saves, Moves, Detached, Blank, Opens,
     fileVars, history
<1>9. ASSUME NEW r \in Request, BeginRefused(r) PROVE Shape'
  <2>1. (live # None => sess[live].ctrl # None)'
    BY <1>9, <1>1, Paths DEF BeginRefused, End, At, Unserved, Goroutines, Objects, Goroutine,
       Object, Shape, Located, Alone, Opens, Detached, Blank, fileVars, history
  <2>2. Moved(r)
    BY <1>9, Paths DEF BeginRefused, End, At, Unserved, Moved, Opens, Goroutines, Goroutine
  <2>3. (\A q \in Request : Alone(q))'
    BY <1>9, <2>2, AloneMoved DEF BeginRefused
  <2>4. (\A q \in Request : Located(q))'
    <3>1. Located(r)'
      BY <1>9, <1>1, Paths DEF BeginRefused, End, At, Unserved, Shape, Located, Rebuilding,
         Saves, Moves, Detached, Blank, Goroutines, Objects, Goroutine, Object
    <3>2. \A q \in Request : q # r /\ req[q].on # None /\ sess[req[q].on].ctrl # None =>
           sess'[req[q].on].ctrl # None
      BY <1>9, Paths DEF BeginRefused, End, At, Unserved, Goroutines, Objects, Goroutine, Object
    <3> QED BY <2>2, <3>1, <3>2, LocatedMoved
  <2> QED BY <2>1, <2>3, <2>4 DEF Shape
<1>10. ASSUME NEW r \in Request, Enter(r) PROVE Shape'
  BY <1>10, Paths DEF Enter, On, At, Goroutines, Objects, Goroutine, Object, Others, Shape,
     Located, Alone, Rebuilding, Saves, Moves, Detached, Blank, Opens, fileVars, history
<1>11. ASSUME NEW r \in Request, Persist(r) PROVE Shape'
  BY <1>11, Paths DEF Persist, On, At, Goroutines, Objects, Goroutine, Object, Others, Shape,
     Located, Alone, Rebuilding, Saves, Moves, Detached, Blank, Opens, fileVars, history
<1>12. ASSUME NEW r \in Request, Stamp(r) PROVE Shape'
  <2>1. (live # None => sess[live].ctrl # None)'
    BY <1>12, <1>1, Paths DEF Stamp, On, At, Goto, SaveMeta, Goroutines, Objects, Goroutine,
       Object, Shape, Located, Alone, Opens, Detached, Blank, fileVars, history
  <2>2. Moved(r)
    BY <1>12, Paths DEF Stamp, On, At, Goto, SaveMeta, Moved, Opens, Goroutines, Goroutine
  <2>3. (\A q \in Request : Alone(q))'
    BY <1>12, <2>2, AloneMoved DEF Stamp
  <2>4. (\A q \in Request : Located(q))'
    <3>1. Located(r)'
      BY <1>12, <1>1, Paths DEF Stamp, On, At, Goto, SaveMeta, Shape, Located, Rebuilding,
         Saves, Moves, Detached, Blank, Goroutines, Objects, Goroutine, Object
    <3>2. \A q \in Request : q # r /\ req[q].on # None /\ sess[req[q].on].ctrl # None =>
           sess'[req[q].on].ctrl # None
      BY <1>12, Paths DEF Stamp, On, At, Goto, SaveMeta, Goroutines, Objects, Goroutine, Object
    <3> QED BY <2>2, <3>1, <3>2, LocatedMoved
  <2> QED BY <2>1, <2>3, <2>4 DEF Shape
<1>13. ASSUME NEW r \in Request, Finish(r) PROVE Shape'
  <2>1. (live # None => sess[live].ctrl # None)'
    BY <1>13, <1>1, Paths DEF Finish, At, Wake, Goroutines, Objects, Goroutine, Object, Shape,
       Located, Alone, Opens, Detached, Blank, fileVars, history
  <2>2. Moved(r)
    BY <1>13, Paths DEF Finish, At, Wake, Moved, Opens, Goroutines, Goroutine
  <2>3. (\A q \in Request : Alone(q))'
    BY <1>13, <2>2, AloneMoved DEF Finish
  <2>4. (\A q \in Request : Located(q))'
    <3>1. Located(r)'
      BY <1>13, <1>1, Paths DEF Finish, At, Wake, Shape, Located, Rebuilding, Saves, Moves,
         Detached, Blank, Goroutines, Objects, Goroutine, Object
    <3>2. \A q \in Request : q # r /\ req[q].on # None /\ sess[req[q].on].ctrl # None =>
           sess'[req[q].on].ctrl # None
      BY <1>13, Paths DEF Finish, At, Wake, Goroutines, Objects, Goroutine, Object
    <3> QED BY <2>2, <3>1, <3>2, LocatedMoved
  <2> QED BY <2>1, <2>3, <2>4 DEF Shape
<1>14. ASSUME NEW r \in Request, TurnReturns(r) PROVE Shape'
  <2>1. (live # None => sess[live].ctrl # None)'
    BY <1>14, <1>1, Paths DEF TurnReturns, At, Goroutines, Objects, Goroutine, Object, Shape,
       Located, Alone, Opens, Detached, Blank, fileVars, history
  <2>2. Moved(r)
    BY <1>14, Paths DEF TurnReturns, At, Moved, Opens, Goroutines, Goroutine
  <2>3. (\A q \in Request : Alone(q))'
    BY <1>14, <2>2, AloneMoved DEF TurnReturns
  <2>4. (\A q \in Request : Located(q))'
    <3>1. Located(r)'
      BY <1>14, <1>1, Paths DEF TurnReturns, At, Shape, Located, Rebuilding, Saves, Moves,
         Detached, Blank, Goroutines, Objects, Goroutine, Object
    <3>2. \A q \in Request : q # r /\ req[q].on # None /\ sess[req[q].on].ctrl # None =>
           sess'[req[q].on].ctrl # None
      BY <1>14, Paths DEF TurnReturns, At, Goroutines, Objects, Goroutine, Object
    <3> QED BY <2>2, <3>1, <3>2, LocatedMoved
  <2> QED BY <2>1, <2>3, <2>4 DEF Shape
<1>15. ASSUME NEW r \in Request, Cancel(r) PROVE Shape'
  BY <1>15, Paths DEF Cancel, Goroutines, Objects, Goroutine, Object, Others, Shape, Located,
     Alone, Rebuilding, Saves, Moves, Detached, Blank, Opens, fileVars, history
<1>16. ASSUME NEW r \in Request, Saved(r) PROVE Shape'
  BY <1>16, Paths DEF Saved, At, Back, Goto, Goroutines, Objects, Goroutine, Object, Others,
     Shape, Located, Alone, Rebuilding, Saves, Moves, Detached, Blank, Opens, fileVars, history
<1>17. ASSUME NEW r \in Request, NotSaved(r) PROVE Shape'
  <2>1. (live # None => sess[live].ctrl # None)'
    BY <1>17, <1>1, Paths DEF NotSaved, At, Back, Goto, Goroutines, Objects, Goroutine, Object,
       Shape, Located, Alone, Opens, Detached, Blank, fileVars, history
  <2>2. Moved(r)
    <3>1. req[r].phase \in {"turn", "persist", "rebuild"}
      BY <1>17 DEF NotSaved, At, Shape, Located, Saves
    <3>2. ASSUME NEW ok \in BOOLEAN, Back(r, ok) PROVE Moved(r)
      <4>1. PICK p \in {"persist", "stamp", "build", "abandon"} : Goto(r, p)
        BY <3>1, <3>2, BackIs
      <4> QED BY <4>1 DEF Goto, Moved, Opens, Goroutines, Goroutine
    <3> QED BY <1>17, <3>2 DEF NotSaved
  <2>3. (\A q \in Request : Alone(q))'
    BY <1>17, <2>2, AloneMoved DEF NotSaved
  <2>4. (\A q \in Request : Located(q))'
    <3>1. Located(r)'
      BY <1>17, <1>1, Paths DEF NotSaved, At, Back, Goto, Shape, Located, Rebuilding, Saves,
         Moves, Detached, Blank, Goroutines, Objects, Goroutine, Object
    <3>2. \A q \in Request : q # r /\ req[q].on # None /\ sess[req[q].on].ctrl # None =>
           sess'[req[q].on].ctrl # None
      BY <1>17, Paths DEF NotSaved, At, Back, Goto, Goroutines, Objects, Goroutine, Object
    <3> QED BY <2>2, <3>1, <3>2, LocatedMoved
  <2> QED BY <2>1, <2>3, <2>4 DEF Shape
<1>18. ASSUME NEW r \in Request, Recover(r) PROVE Shape'
  <2>1. (live # None => sess[live].ctrl # None)'
    BY <1>18, <1>1, Paths DEF Recover, At, Goroutines, Objects, Goroutine, Object, Shape,
       Located, Alone, Opens, Detached, Blank, fileVars, history
  <2>2. Moved(r)
    BY <1>18, Paths DEF Recover, At, Moved, Opens, Goroutines, Goroutine
  <2>3. (\A q \in Request : Alone(q))'
    BY <1>18, <2>2, AloneMoved DEF Recover
  <2>4. (\A q \in Request : Located(q))'
    <3>1. Located(r)'
      BY <1>18, <1>1, Paths, MainAssumption DEF Recover, At, Shape, Located, Rebuilding, Saves,
         Moves, Detached, Blank, Goroutines, Objects, Goroutine, Object
    <3>2. \A q \in Request : q # r /\ req[q].on # None /\ sess[req[q].on].ctrl # None =>
           sess'[req[q].on].ctrl # None
      BY <1>18, Paths DEF Recover, At, Goroutines, Objects, Goroutine, Object
    <3> QED BY <2>2, <3>1, <3>2, LocatedMoved
  <2> QED BY <2>1, <2>3, <2>4 DEF Shape
<1>19. ASSUME NEW r \in Request, Follow(r) PROVE Shape'
  <2>1. (live # None => sess[live].ctrl # None)'
    BY <1>19, <1>1, Paths DEF Follow, At, Goroutines, Objects, Goroutine, Object, Shape,
       Located, Alone, Opens, Detached, Blank, fileVars, history
  <2>2. Moved(r)
    BY <1>19, Paths DEF Follow, At, Moved, Opens, Goroutines, Goroutine
  <2>3. (\A q \in Request : Alone(q))'
    BY <1>19, <2>2, AloneMoved DEF Follow
  <2>4. (\A q \in Request : Located(q))'
    <3>1. Located(r)'
      BY <1>19, <1>1, Paths DEF Follow, At, Shape, Located, Rebuilding, Saves, Moves, Detached,
         Blank, Goroutines, Objects, Goroutine, Object
    <3>2. \A q \in Request : q # r /\ req[q].on # None /\ sess[req[q].on].ctrl # None =>
           sess'[req[q].on].ctrl # None
      BY <1>19, Paths DEF Follow, At, Goroutines, Objects, Goroutine, Object
    <3> QED BY <2>2, <3>1, <3>2, LocatedMoved
  <2> QED BY <2>1, <2>3, <2>4 DEF Shape
<1>20. ASSUME NEW r \in Request, Secure(r) PROVE Shape'
  <2>1. (live # None => sess[live].ctrl # None)'
    BY <1>20, <1>1, Paths DEF Secure, At, Goto, Back, Goroutines, Objects, Goroutine, Object,
       Shape, Located, Alone, Opens, Detached, Blank, fileVars, history
  <2>2. Moved(r)
    <3>1. req[r].phase \in {"turn", "persist", "rebuild"}
      BY <1>20 DEF Secure, At, Shape, Located, Saves
    <3>2. ASSUME NEW ok \in BOOLEAN, Back(r, ok) PROVE Moved(r)
      <4>1. PICK p \in {"persist", "stamp", "build", "abandon"} : Goto(r, p)
        BY <3>1, <3>2, BackIs
      <4> QED BY <4>1 DEF Goto, Moved, Opens, Goroutines, Goroutine
    <3>3. CASE Goto(r, "assign")
      BY <3>3 DEF Goto, Moved, Opens, Goroutines, Goroutine
    <3> QED BY <1>20, <3>2, <3>3 DEF Secure
  <2>3. (\A q \in Request : Alone(q))'
    BY <1>20, <2>2, AloneMoved DEF Secure
  <2>4. (\A q \in Request : Located(q))'
    <3>1. Located(r)'
      BY <1>20, <1>1, Paths DEF Secure, At, Goto, Back, Shape, Located, Rebuilding, Saves,
         Moves, Detached, Blank, Goroutines, Objects, Goroutine, Object
    <3>2. \A q \in Request : q # r /\ req[q].on # None /\ sess[req[q].on].ctrl # None =>
           sess'[req[q].on].ctrl # None
      BY <1>20, Paths DEF Secure, At, Goto, Back, Goroutines, Objects, Goroutine, Object
    <3> QED BY <2>2, <3>1, <3>2, LocatedMoved
  <2> QED BY <2>1, <2>3, <2>4 DEF Shape
<1>21. ASSUME NEW r \in Request, Assign(r) PROVE Shape'
  <2>1. (live # None => sess[live].ctrl # None)'
    BY <1>21, <1>1, Paths DEF Assign, At, Unlock, Back, Goto, MoveTo, Goroutines, Objects,
       Goroutine, Object, Shape, Located, Alone, Opens, Detached, Blank, fileVars, history
  <2>2. Moved(r)
    <3>1. req[r].phase \in {"turn", "persist", "rebuild"}
      BY <1>21 DEF Assign, At, Shape, Located, Saves
    <3>2. ASSUME NEW ok \in BOOLEAN, Back(r, ok) PROVE Moved(r)
      <4>1. PICK p \in {"persist", "stamp", "build", "abandon"} : Goto(r, p)
        BY <3>1, <3>2, BackIs
      <4> QED BY <4>1 DEF Goto, Moved, Opens, Goroutines, Goroutine
    <3>3. CASE Goto(r, "redirect")
      BY <3>3 DEF Goto, Moved, Opens, Goroutines, Goroutine
    <3> QED BY <1>21, <3>2, <3>3 DEF Assign
  <2>3. (\A q \in Request : Alone(q))'
    BY <1>21, <2>2, AloneMoved DEF Assign
  <2>4. (\A q \in Request : Located(q))'
    <3>1. Located(r)'
      BY <1>21, <1>1, Paths DEF Assign, At, Unlock, Back, Goto, MoveTo, Shape, Located,
         Rebuilding, Saves, Moves, Detached, Blank, Goroutines, Objects, Goroutine, Object
    <3>2. \A q \in Request : q # r /\ req[q].on # None /\ sess[req[q].on].ctrl # None =>
           sess'[req[q].on].ctrl # None
      BY <1>21, Paths, SMTT(20), ZenonT(40) DEF Assign, At, Unlock, Back, Goto, MoveTo,
         Goroutines, Objects, Goroutine, Object
    <3> QED BY <2>2, <3>1, <3>2, LocatedMoved
  <2> QED BY <2>1, <2>3, <2>4 DEF Shape
<1>22. ASSUME NEW r \in Request, Redirect(r) PROVE Shape'
  BY <1>22, Paths DEF Redirect, At, RedirectTo, Goto, Goroutines, Objects, Goroutine, Object,
     Others, Shape, Located, Alone, Rebuilding, Saves, Moves, Detached, Blank, Opens, fileVars,
     history
<1>23. ASSUME NEW r \in Request, Commit(r) PROVE Shape'
  <2>1. (live # None => sess[live].ctrl # None)'
    BY <1>23, <1>1, Paths DEF Commit, At, Back, Goto, Goroutines, Objects, Goroutine, Object,
       Shape, Located, Alone, Opens, Detached, Blank, fileVars, history
  <2>2. Moved(r)
    <3>1. req[r].phase \in {"turn", "persist", "rebuild"}
      BY <1>23 DEF Commit, At, Shape, Located, Saves
    <3>2. ASSUME NEW ok \in BOOLEAN, Back(r, ok) PROVE Moved(r)
      <4>1. PICK p \in {"persist", "stamp", "build", "abandon"} : Goto(r, p)
        BY <3>1, <3>2, BackIs
      <4> QED BY <4>1 DEF Goto, Moved, Opens, Goroutines, Goroutine
    <3> QED BY <1>23, <3>2 DEF Commit
  <2>3. (\A q \in Request : Alone(q))'
    BY <1>23, <2>2, AloneMoved DEF Commit
  <2>4. (\A q \in Request : Located(q))'
    <3>1. Located(r)'
      BY <1>23, <1>1, Paths DEF Commit, At, Back, Goto, Shape, Located, Rebuilding, Saves,
         Moves, Detached, Blank, Goroutines, Objects, Goroutine, Object
    <3>2. \A q \in Request : q # r /\ req[q].on # None /\ sess[req[q].on].ctrl # None =>
           sess'[req[q].on].ctrl # None
      BY <1>23, Paths DEF Commit, At, Back, Goto, Goroutines, Objects, Goroutine, Object
    <3> QED BY <2>2, <3>1, <3>2, LocatedMoved
  <2> QED BY <2>1, <2>3, <2>4 DEF Shape
<1>24. ASSUME NEW r \in Request, ClaimRefused(r) PROVE Shape'
  <2>1. (live # None => sess[live].ctrl # None)'
    BY <1>24, <1>1, Paths DEF ClaimRefused, At, Fail, Goto, End, Unserved, Goroutines, Objects,
       Goroutine, Object, Shape, Located, Alone, Opens, Detached, Blank, fileVars, history
  <2>2. Moved(r)
    BY <1>24, Paths DEF ClaimRefused, At, Fail, Goto, End, Unserved, Moved, Opens, Goroutines,
       Goroutine
  <2>3. (\A q \in Request : Alone(q))'
    BY <1>24, <2>2, AloneMoved DEF ClaimRefused
  <2>4. (\A q \in Request : Located(q))'
    <3>1. Located(r)'
      BY <1>24, <1>1, Paths DEF ClaimRefused, At, Fail, Goto, End, Unserved, Shape, Located,
         Rebuilding, Saves, Moves, Detached, Blank, Goroutines, Objects, Goroutine, Object
    <3>2. \A q \in Request : q # r /\ req[q].on # None /\ sess[req[q].on].ctrl # None =>
           sess'[req[q].on].ctrl # None
      BY <1>24, Paths DEF ClaimRefused, At, Fail, Goto, End, Unserved, Goroutines, Objects,
         Goroutine, Object
    <3> QED BY <2>2, <3>1, <3>2, LocatedMoved
  <2> QED BY <2>1, <2>3, <2>4 DEF Shape
<1>25. ASSUME NEW r \in Request, Queue(r) PROVE Shape'
  <2>1. (live # None => sess[live].ctrl # None)'
    BY <1>25, <1>1, Paths DEF Queue, At, On, Chosen, End, Unserved, Busy, Goroutines, Objects,
       Goroutine, Object, Shape, Located, Alone, Opens, Detached, Blank, fileVars, history
  <2>2. Moved(r)
    BY <1>25, Paths DEF Queue, At, On, Chosen, End, Unserved, Busy, Moved, Opens, Goroutines,
       Goroutine
  <2>3. (\A q \in Request : Alone(q))'
    BY <1>25, <2>2, AloneMoved DEF Queue
  <2>4. (\A q \in Request : Located(q))'
    <3>1. Located(r)'
      BY <1>25, <1>1, Paths DEF Queue, At, On, Chosen, End, Unserved, Busy, Shape, Located,
         Rebuilding, Saves, Moves, Detached, Blank, Goroutines, Objects, Goroutine, Object
    <3>2. \A q \in Request : q # r /\ req[q].on # None /\ sess[req[q].on].ctrl # None =>
           sess'[req[q].on].ctrl # None
      BY <1>25, Paths DEF Queue, At, On, Chosen, End, Unserved, Busy, Goroutines, Objects,
         Goroutine, Object
    <3> QED BY <2>2, <3>1, <3>2, LocatedMoved
  <2> QED BY <2>1, <2>3, <2>4 DEF Shape
<1>26. ASSUME NEW r \in Request, Claim(r) PROVE Shape'
  <2>1. (live # None => sess[live].ctrl # None)'
    BY <1>26, <1>1, Paths DEF Claim, At, On, Busy, Chosen, Goroutines, Objects, Goroutine,
       Object, Shape, Located, Alone, Opens, Detached, Blank, fileVars, history
  <2>2. Moved(r)
    BY <1>26, Paths DEF Claim, At, On, Busy, Chosen, Moved, Opens, Goroutines, Goroutine
  <2>3. (\A q \in Request : Alone(q))'
    BY <1>26, <2>2, AloneMoved DEF Claim
  <2>4. (\A q \in Request : Located(q))'
    <3>1. Located(r)'
      BY <1>26, <1>1, Paths DEF Claim, At, On, Busy, Chosen, Shape, Located, Rebuilding, Saves,
         Moves, Detached, Blank, Goroutines, Objects, Goroutine, Object
    <3>2. \A q \in Request : q # r /\ req[q].on # None /\ sess[req[q].on].ctrl # None =>
           sess'[req[q].on].ctrl # None
      BY <1>26, Paths DEF Claim, At, On, Busy, Chosen, Goroutines, Objects, Goroutine, Object
    <3> QED BY <2>2, <3>1, <3>2, LocatedMoved
  <2> QED BY <2>1, <2>3, <2>4 DEF Shape
<1>27. ASSUME NEW r \in Request, Build(r) PROVE Shape'
  BY <1>27, Paths DEF Build, At, FreeCtrls, Goroutines, Objects, Goroutine, Object, Others,
     Shape, Located, Alone, Rebuilding, Saves, Moves, Detached, Blank, Opens, fileVars, history
<1>28. ASSUME NEW r \in Request, BuildFails(r) PROVE Shape'
  BY <1>28, Paths DEF BuildFails, At, Goto, Goroutines, Objects, Goroutine, Object, Others,
     Shape, Located, Alone, Rebuilding, Saves, Moves, Detached, Blank, Opens, fileVars, history
<1>29. ASSUME NEW r \in Request, Swap(r) PROVE Shape'
  <2>1. (live # None => sess[live].ctrl # None)'
    BY <1>29, <1>1, Paths DEF Swap, At, On, SaveMeta, Goroutines, Objects, Goroutine, Object,
       Shape, Located, Alone, Opens, Detached, Blank, fileVars, history
  <2>2. Moved(r)
    BY <1>29, Paths DEF Swap, At, On, SaveMeta, Moved, Opens, Goroutines, Goroutine
  <2>3. (\A q \in Request : Alone(q))'
    BY <1>29, <2>2, AloneMoved DEF Swap
  <2>4. (\A q \in Request : Located(q))'
    <3>1. Located(r)'
      BY <1>29, <1>1, Paths DEF Swap, At, On, SaveMeta, Shape, Located, Rebuilding, Saves,
         Moves, Detached, Blank, Goroutines, Objects, Goroutine, Object
    <3>2. \A q \in Request : q # r /\ req[q].on # None /\ sess[req[q].on].ctrl # None =>
           sess'[req[q].on].ctrl # None
      <4>1. req[r].on \in Session /\ req[r].next # None
        BY <1>29, Paths DEF Swap, At, Goroutines, Goroutine, Shape, Located, Rebuilding, Saves,
           Moves, Blank, Detached
      <4>2. \A s \in Session : sess'[s].ctrl = IF s = req[r].on THEN req[r].next ELSE sess[s].ctrl
        BY <1>29, <4>1 DEF Swap, Objects, Object
      <4> QED BY <4>1, <4>2, Paths DEF Goroutines, Goroutine
    <3> QED BY <2>2, <3>1, <3>2, LocatedMoved
  <2> QED BY <2>1, <2>3, <2>4 DEF Shape
<1>30. ASSUME NEW r \in Request, SwapRefused(r) PROVE Shape'
  BY <1>30, Paths DEF SwapRefused, At, On, Goroutines, Objects, Goroutine, Object, Others,
     Shape, Located, Alone, Rebuilding, Saves, Moves, Detached, Blank, Opens, fileVars, history
<1>31. ASSUME NEW r \in Request, Retire(r) PROVE Shape'
  BY <1>31, Paths DEF Retire, At, Goroutines, Objects, Goroutine, Object, Others, Shape,
     Located, Alone, Rebuilding, Saves, Moves, Detached, Blank, Opens, fileVars, history
<1>32. ASSUME NEW r \in Request, Unwind(r) PROVE Shape'
  <2>1. (live # None => sess[live].ctrl # None)'
    BY <1>32, <1>1, Paths DEF Unwind, At, Wake, Goto, Goroutines, Objects, Goroutine, Object,
       Shape, Located, Alone, Opens, Detached, Blank, fileVars, history
  <2>2. Moved(r)
    BY <1>32, Paths DEF Unwind, At, Wake, Goto, Moved, Opens, Goroutines, Goroutine
  <2>3. (\A q \in Request : Alone(q))'
    BY <1>32, <2>2, AloneMoved DEF Unwind
  <2>4. (\A q \in Request : Located(q))'
    <3>1. Located(r)'
      BY <1>32, <1>1, Paths DEF Unwind, At, Wake, Goto, Shape, Located, Rebuilding, Saves,
         Moves, Detached, Blank, Goroutines, Objects, Goroutine, Object
    <3>2. \A q \in Request : q # r /\ req[q].on # None /\ sess[req[q].on].ctrl # None =>
           sess'[req[q].on].ctrl # None
      BY <1>32, Paths DEF Unwind, At, Wake, Goto, Goroutines, Objects, Goroutine, Object
    <3> QED BY <2>2, <3>1, <3>2, LocatedMoved
  <2> QED BY <2>1, <2>3, <2>4 DEF Shape
<1>33. ASSUME NEW r \in Request, Abandon(r) PROVE Shape'
  <2>1. (live # None => sess[live].ctrl # None)'
    BY <1>33, <1>1, Paths DEF Abandon, At, Wake, On, Void, End, Unserved, Goroutines, Objects,
       Goroutine, Object, Shape, Located, Alone, Opens, Detached, Blank, fileVars, history
  <2>2. Moved(r)
    BY <1>33, Paths DEF Abandon, At, Wake, On, Void, End, Unserved, Moved, Opens, Goroutines,
       Goroutine
  <2>3. (\A q \in Request : Alone(q))'
    BY <1>33, <2>2, AloneMoved DEF Abandon
  <2>4. (\A q \in Request : Located(q))'
    <3>1. Located(r)'
      BY <1>33, <1>1, Paths, SMTT(20), ZenonT(40) DEF Abandon, At, Wake, On, Void, End,
         Unserved, Shape, Located, Rebuilding, Saves, Moves, Detached, Blank, Goroutines,
         Objects, Goroutine, Object
    <3>2. \A q \in Request : q # r /\ req[q].on # None /\ sess[req[q].on].ctrl # None =>
           sess'[req[q].on].ctrl # None
      BY <1>33, Paths DEF Abandon, At, Wake, On, Void, End, Unserved, Goroutines, Objects,
         Goroutine, Object
    <3> QED BY <2>2, <3>1, <3>2, LocatedMoved
  <2> QED BY <2>1, <2>3, <2>4 DEF Shape
<1>34. ASSUME NEW r \in Request, Apply(r) PROVE Shape'
  <2>1. (live # None => sess[live].ctrl # None)'
    BY <1>34, <1>1, Paths DEF Apply, At, Goto, End, Unserved, Goroutines, Objects, Goroutine,
       Object, Shape, Located, Alone, Opens, Detached, Blank, fileVars, history
  <2>2. Moved(r)
    BY <1>34, Paths DEF Apply, At, Goto, End, Unserved, Moved, Opens, Goroutines, Goroutine
  <2>3. (\A q \in Request : Alone(q))'
    BY <1>34, <2>2, AloneMoved DEF Apply
  <2>4. (\A q \in Request : Located(q))'
    <3>1. Located(r)'
      BY <1>34, <1>1, Paths DEF Apply, At, Goto, End, Unserved, Shape, Located, Rebuilding,
         Saves, Moves, Detached, Blank, Goroutines, Objects, Goroutine, Object
    <3>2. \A q \in Request : q # r /\ req[q].on # None /\ sess[req[q].on].ctrl # None =>
           sess'[req[q].on].ctrl # None
      BY <1>34, Paths DEF Apply, At, Goto, End, Unserved, Goroutines, Objects, Goroutine, Object
    <3> QED BY <2>2, <3>1, <3>2, LocatedMoved
  <2> QED BY <2>1, <2>3, <2>4 DEF Shape
<1>35. ASSUME NEW r \in Request, Copy(r) PROVE Shape'
  <2>1. (live # None => sess[live].ctrl # None)'
    BY <1>35, <1>1, Paths DEF Copy, At, On, End, Unserved, Goroutines, Objects, Goroutine,
       Object, Shape, Located, Alone, Opens, Detached, Blank, fileVars, history
  <2>2. Moved(r)
    BY <1>35, Paths DEF Copy, At, On, End, Unserved, Moved, Opens, Goroutines, Goroutine
  <2>3. (\A q \in Request : Alone(q))'
    BY <1>35, <2>2, AloneMoved DEF Copy
  <2>4. (\A q \in Request : Located(q))'
    <3>1. Located(r)'
      BY <1>35, <1>1, Paths DEF Copy, At, On, End, Unserved, Shape, Located, Rebuilding, Saves,
         Moves, Detached, Blank, Goroutines, Objects, Goroutine, Object
    <3>2. \A q \in Request : q # r /\ req[q].on # None /\ sess[req[q].on].ctrl # None =>
           sess'[req[q].on].ctrl # None
      BY <1>35, Paths DEF Copy, At, On, End, Unserved, Goroutines, Objects, Goroutine, Object
    <3> QED BY <2>2, <3>1, <3>2, LocatedMoved
  <2> QED BY <2>1, <2>3, <2>4 DEF Shape
<1>36. ASSUME NEW r \in Request, Drop(r) PROVE Shape'
  <2>1. (live # None => sess[live].ctrl # None)'
    BY <1>36, <1>1, Paths DEF Drop, At, On, MayDrop, Void, End, Unserved, Busy, Goroutines,
       Objects, Goroutine, Object, Shape, Located, Alone, Opens, Detached, Blank, fileVars,
       history
  <2>2. Moved(r)
    BY <1>36, Paths DEF Drop, At, On, MayDrop, Void, End, Unserved, Busy, Moved, Opens,
       Goroutines, Goroutine
  <2>3. (\A q \in Request : Alone(q))'
    BY <1>36, <2>2, AloneMoved DEF Drop
  <2>4. (\A q \in Request : Located(q))'
    <3>1. Located(r)'
      BY <1>36, <1>1, Paths DEF Drop, At, On, MayDrop, Void, End, Unserved, Busy, Shape,
         Located, Rebuilding, Saves, Moves, Detached, Blank, Goroutines, Objects, Goroutine,
         Object
    <3>2. \A q \in Request : q # r /\ req[q].on # None /\ sess[req[q].on].ctrl # None =>
           sess'[req[q].on].ctrl # None
      BY <1>36, Paths DEF Drop, At, On, MayDrop, Void, End, Unserved, Busy, Goroutines, Objects,
         Goroutine, Object
    <3> QED BY <2>2, <3>1, <3>2, LocatedMoved
  <2> QED BY <2>1, <2>3, <2>4 DEF Shape
<1>37. ASSUME NEW r \in Request, Abort(r) PROVE Shape'
  BY <1>37, Paths DEF Abort, At, On, Awaited, Interrupted, Goto, Goroutines, Objects, Goroutine,
     Object, Others, Shape, Located, Alone, Rebuilding, Saves, Moves, Detached, Blank, Opens,
     fileVars, history
<1>38. ASSUME NEW r \in Request, Waited(r) PROVE Shape'
  BY <1>38, Paths DEF Waited, At, Goto, Goroutines, Objects, Goroutine, Object, Others, Shape,
     Located, Alone, Rebuilding, Saves, Moves, Detached, Blank, Opens, fileVars, history
<1>39. ASSUME NEW r \in Request, Shut(r) PROVE Shape'
  <2>1. (live # None => sess[live].ctrl # None)'
    BY <1>39, <1>1, Paths DEF Shut, At, On, Goto, Goroutines, Objects, Goroutine, Object, Shape,
       Located, Alone, Opens, Detached, Blank, fileVars, history
  <2>2. Moved(r)
    BY <1>39, Paths DEF Shut, At, On, Goto, Moved, Opens, Goroutines, Goroutine
  <2>3. (\A q \in Request : Alone(q))'
    BY <1>39, <2>2, AloneMoved DEF Shut
  <2>4. (\A q \in Request : Located(q))'
    <3>1. Located(r)'
      BY <1>39, <1>1, Paths DEF Shut, At, On, Goto, Shape, Located, Rebuilding, Saves, Moves,
         Detached, Blank, Goroutines, Objects, Goroutine, Object
    <3>2. \A q \in Request : q # r /\ req[q].on # None /\ sess[req[q].on].ctrl # None =>
           sess'[req[q].on].ctrl # None
      BY <1>39, Paths DEF Shut, At, On, Goto, Goroutines, Objects, Goroutine, Object
    <3> QED BY <2>2, <3>1, <3>2, LocatedMoved
  <2> QED BY <2>1, <2>3, <2>4 DEF Shape
<1>40. ASSUME NEW r \in Request, Release(r) PROVE Shape'
  <2>1. (live # None => sess[live].ctrl # None)'
    BY <1>40, <1>1, Paths DEF Release, At, Unlock, On, Goto, End, Unserved, Goroutines, Objects,
       Goroutine, Object, Shape, Located, Alone, Opens, Detached, Blank, fileVars, history
  <2>2. Moved(r)
    BY <1>40, Paths DEF Release, At, Unlock, On, Goto, End, Unserved, Moved, Opens, Goroutines,
       Goroutine
  <2>3. (\A q \in Request : Alone(q))'
    BY <1>40, <2>2, AloneMoved DEF Release
  <2>4. (\A q \in Request : Located(q))'
    <3>1. Located(r)'
      BY <1>40, <1>1, Paths DEF Release, At, Unlock, On, Goto, End, Unserved, Shape, Located,
         Rebuilding, Saves, Moves, Detached, Blank, Goroutines, Objects, Goroutine, Object
    <3>2. \A q \in Request : q # r /\ req[q].on # None /\ sess[req[q].on].ctrl # None =>
           sess'[req[q].on].ctrl # None
      BY <1>40, Paths DEF Release, At, Unlock, On, Goto, End, Unserved, Goroutines, Objects,
         Goroutine, Object
    <3> QED BY <2>2, <3>1, <3>2, LocatedMoved
  <2> QED BY <2>1, <2>3, <2>4 DEF Shape
<1>41. ASSUME NEW r \in Request, Destroy(r) PROVE Shape'
  <2>1. (live # None => sess[live].ctrl # None)'
    BY <1>41, <1>1, Paths DEF Destroy, At, On, Goroutines, Objects, Goroutine, Object, Shape,
       Located, Alone, Opens, Detached, Blank, fileVars, history
  <2>2. Moved(r)
    BY <1>41, Paths DEF Destroy, At, On, Moved, Opens, Goroutines, Goroutine
  <2>3. (\A q \in Request : Alone(q))'
    BY <1>41, <2>2, AloneMoved DEF Destroy
  <2>4. (\A q \in Request : Located(q))'
    <3>1. Located(r)'
      BY <1>41, <1>1, Paths DEF Destroy, At, On, Shape, Located, Rebuilding, Saves, Moves,
         Detached, Blank, Goroutines, Objects, Goroutine, Object
    <3>2. \A q \in Request : q # r /\ req[q].on # None /\ sess[req[q].on].ctrl # None =>
           sess'[req[q].on].ctrl # None
      BY <1>41, Paths DEF Destroy, At, On, Goroutines, Objects, Goroutine, Object
    <3> QED BY <2>2, <3>1, <3>2, LocatedMoved
  <2> QED BY <2>1, <2>3, <2>4 DEF Shape
<1>42. ASSUME NEW r \in Request, Erase(r) PROVE Shape'
  <2>1. (live # None => sess[live].ctrl # None)'
    BY <1>42, <1>1, Paths DEF Erase, At, Remove, Goto, Goroutines, Objects, Goroutine, Object,
       Shape, Located, Alone, Opens, Detached, Blank, fileVars, history
  <2>2. Moved(r)
    BY <1>42, Paths DEF Erase, At, Remove, Goto, Moved, Opens, Goroutines, Goroutine
  <2>3. (\A q \in Request : Alone(q))'
    BY <1>42, <2>2, AloneMoved DEF Erase
  <2>4. (\A q \in Request : Located(q))'
    <3>1. Located(r)'
      BY <1>42, <1>1, Paths DEF Erase, At, Remove, Goto, Shape, Located, Rebuilding, Saves,
         Moves, Detached, Blank, Goroutines, Objects, Goroutine, Object
    <3>2. \A q \in Request : q # r /\ req[q].on # None /\ sess[req[q].on].ctrl # None =>
           sess'[req[q].on].ctrl # None
      BY <1>42, Paths DEF Erase, At, Remove, Goto, Goroutines, Objects, Goroutine, Object
    <3> QED BY <2>2, <3>1, <3>2, LocatedMoved
  <2> QED BY <2>1, <2>3, <2>4 DEF Shape
<1>43. ASSUME NEW r \in Request, Twin(r) PROVE Shape'
  <2>1. (live # None => sess[live].ctrl # None)'
    BY <1>43, <1>1, Paths DEF Twin, At, RemoveTwin, Remove, Goto, End, Unserved, Goroutines,
       Objects, Goroutine, Object, Shape, Located, Alone, Opens, Detached, Blank, fileVars,
       history
  <2>2. Moved(r)
    BY <1>43, Paths DEF Twin, At, RemoveTwin, Remove, Goto, End, Unserved, Moved, Opens,
       Goroutines, Goroutine
  <2>3. (\A q \in Request : Alone(q))'
    BY <1>43, <2>2, AloneMoved DEF Twin
  <2>4. (\A q \in Request : Located(q))'
    <3>1. Located(r)'
      BY <1>43, <1>1, Paths DEF Twin, At, RemoveTwin, Remove, Goto, End, Unserved, Shape,
         Located, Rebuilding, Saves, Moves, Detached, Blank, Goroutines, Objects, Goroutine,
         Object
    <3>2. \A q \in Request : q # r /\ req[q].on # None /\ sess[req[q].on].ctrl # None =>
           sess'[req[q].on].ctrl # None
      BY <1>43, Paths DEF Twin, At, RemoveTwin, Remove, Goto, End, Unserved, Goroutines,
         Objects, Goroutine, Object
    <3> QED BY <2>2, <3>1, <3>2, LocatedMoved
  <2> QED BY <2>1, <2>3, <2>4 DEF Shape
<1>44. ASSUME NEW r \in Request, Linger(r) PROVE Shape'
  <2>1. (live # None => sess[live].ctrl # None)'
    BY <1>44, <1>1, Paths DEF Linger, At, Remove, End, Unserved, Goroutines, Objects, Goroutine,
       Object, Shape, Located, Alone, Opens, Detached, Blank, fileVars, history
  <2>2. Moved(r)
    BY <1>44, Paths DEF Linger, At, Remove, End, Unserved, Moved, Opens, Goroutines, Goroutine
  <2>3. (\A q \in Request : Alone(q))'
    BY <1>44, <2>2, AloneMoved DEF Linger
  <2>4. (\A q \in Request : Located(q))'
    <3>1. Located(r)'
      BY <1>44, <1>1, Paths DEF Linger, At, Remove, End, Unserved, Shape, Located, Rebuilding,
         Saves, Moves, Detached, Blank, Goroutines, Objects, Goroutine, Object
    <3>2. \A q \in Request : q # r /\ req[q].on # None /\ sess[req[q].on].ctrl # None =>
           sess'[req[q].on].ctrl # None
      BY <1>44, Paths DEF Linger, At, Remove, End, Unserved, Goroutines, Objects, Goroutine, Object
    <3> QED BY <2>2, <3>1, <3>2, LocatedMoved
  <2> QED BY <2>1, <2>3, <2>4 DEF Shape
<1>45. ASSUME NEW r \in Request, ResolveAgain(r) PROVE Shape'
  <2>1. (live # None => sess[live].ctrl # None)'
    BY <1>45, <1>1, Paths DEF ResolveAgain, At, Resolve, End, Unserved, Goroutines, Objects,
       Goroutine, Object, Shape, Located, Alone, Opens, Detached, Blank, fileVars, history
  <2>2. Moved(r)
    BY <1>45, Paths DEF ResolveAgain, At, Resolve, End, Unserved, Moved, Opens, Goroutines,
       Goroutine
  <2>3. (\A q \in Request : Alone(q))'
    BY <1>45, <2>2, AloneMoved DEF ResolveAgain
  <2>4. (\A q \in Request : Located(q))'
    <3>1. Located(r)'
      BY <1>45, <1>1, Paths DEF ResolveAgain, At, Resolve, End, Unserved, Shape, Located,
         Rebuilding, Saves, Moves, Detached, Blank, Goroutines, Objects, Goroutine, Object
    <3>2. \A q \in Request : q # r /\ req[q].on # None /\ sess[req[q].on].ctrl # None =>
           sess'[req[q].on].ctrl # None
      BY <1>45, Paths DEF ResolveAgain, At, Resolve, End, Unserved, Goroutines, Objects,
         Goroutine, Object
    <3> QED BY <2>2, <3>1, <3>2, LocatedMoved
  <2> QED BY <2>1, <2>3, <2>4 DEF Shape
<1>46. ASSUME NEW r \in Request, Acquire(r) PROVE Shape'
  <2>1. (live # None => sess[live].ctrl # None)'
    BY <1>46, <1>1, Paths DEF Acquire, At, Goto, End, Unserved, Goroutines, Objects, Goroutine,
       Object, Shape, Located, Alone, Opens, Detached, Blank, fileVars, history
  <2>2. Moved(r)
    BY <1>46, Paths DEF Acquire, At, Goto, End, Unserved, Moved, Opens, Goroutines, Goroutine
  <2>3. (\A q \in Request : Alone(q))'
    BY <1>46, <2>2, AloneMoved DEF Acquire
  <2>4. (\A q \in Request : Located(q))'
    <3>1. Located(r)'
      BY <1>46, <1>1, Paths DEF Acquire, At, Goto, End, Unserved, Shape, Located, Rebuilding,
         Saves, Moves, Detached, Blank, Goroutines, Objects, Goroutine, Object
    <3>2. \A q \in Request : q # r /\ req[q].on # None /\ sess[req[q].on].ctrl # None =>
           sess'[req[q].on].ctrl # None
      BY <1>46, Paths DEF Acquire, At, Goto, End, Unserved, Goroutines, Objects, Goroutine, Object
    <3> QED BY <2>2, <3>1, <3>2, LocatedMoved
  <2> QED BY <2>1, <2>3, <2>4 DEF Shape
<1>47. ASSUME NEW r \in Request, Read(r) PROVE Shape'
  BY <1>47, Paths DEF Read, At, FreeCtrls, Opened, Goto, Race, Overlap, Goroutines, Objects,
     Goroutine, Object, Others, Shape, Located, Alone, Rebuilding, Saves, Moves, Detached,
     Blank, Opens, fileVars, history
<1>48. ASSUME NEW r \in Request, ReadFails(r) PROVE Shape'
  <2>1. (live # None => sess[live].ctrl # None)'
    BY <1>48, <1>1, Paths DEF ReadFails, At, Unlock, End, Unserved, Goroutines, Objects,
       Goroutine, Object, Shape, Located, Alone, Opens, Detached, Blank, fileVars, history
  <2>2. Moved(r)
    BY <1>48, Paths DEF ReadFails, At, Unlock, End, Unserved, Moved, Opens, Goroutines, Goroutine
  <2>3. (\A q \in Request : Alone(q))'
    BY <1>48, <2>2, AloneMoved DEF ReadFails
  <2>4. (\A q \in Request : Located(q))'
    <3>1. Located(r)'
      BY <1>48, <1>1, Paths DEF ReadFails, At, Unlock, End, Unserved, Shape, Located,
         Rebuilding, Saves, Moves, Detached, Blank, Goroutines, Objects, Goroutine, Object
    <3>2. \A q \in Request : q # r /\ req[q].on # None /\ sess[req[q].on].ctrl # None =>
           sess'[req[q].on].ctrl # None
      BY <1>48, Paths DEF ReadFails, At, Unlock, End, Unserved, Goroutines, Objects, Goroutine,
         Object
    <3> QED BY <2>2, <3>1, <3>2, LocatedMoved
  <2> QED BY <2>1, <2>3, <2>4 DEF Shape
<1>49. ASSUME NEW r \in Request, LoadMeta(r) PROVE Shape'
  <2>1. (live # None => sess[live].ctrl # None)'
    BY <1>49, <1>1, Paths DEF LoadMeta, At, SaveMeta, Goto, Goroutines, Objects, Goroutine,
       Object, Shape, Located, Alone, Opens, Detached, Blank, fileVars, history
  <2>2. Moved(r)
    BY <1>49, Paths DEF LoadMeta, At, SaveMeta, Goto, Moved, Opens, Goroutines, Goroutine
  <2>3. (\A q \in Request : Alone(q))'
    BY <1>49, <2>2, AloneMoved DEF LoadMeta
  <2>4. (\A q \in Request : Located(q))'
    <3>1. Located(r)'
      BY <1>49, <1>1, Paths DEF LoadMeta, At, SaveMeta, Goto, Shape, Located, Rebuilding, Saves,
         Moves, Detached, Blank, Goroutines, Objects, Goroutine, Object
    <3>2. \A q \in Request : q # r /\ req[q].on # None /\ sess[req[q].on].ctrl # None =>
           sess'[req[q].on].ctrl # None
      BY <1>49, Paths DEF LoadMeta, At, SaveMeta, Goto, Goroutines, Objects, Goroutine, Object
    <3> QED BY <2>2, <3>1, <3>2, LocatedMoved
  <2> QED BY <2>1, <2>3, <2>4 DEF Shape
<1>50. ASSUME NEW r \in Request, LoadMetaFails(r) PROVE Shape'
  <2>1. (live # None => sess[live].ctrl # None)'
    BY <1>50, <1>1, Paths DEF LoadMetaFails, At, Unlock, End, Unserved, Opened, Unopened,
       Goroutines, Objects, Goroutine, Object, Shape, Located, Alone, Opens, Detached, Blank,
       fileVars, history
  <2>2. Moved(r)
    BY <1>50, Paths DEF LoadMetaFails, At, Unlock, End, Unserved, Opened, Unopened, Moved,
       Opens, Goroutines, Goroutine
  <2>3. (\A q \in Request : Alone(q))'
    BY <1>50, <2>2, AloneMoved DEF LoadMetaFails
  <2>4. (\A q \in Request : Located(q))'
    <3>1. Located(r)'
      BY <1>50, <1>1, Paths DEF LoadMetaFails, At, Unlock, End, Unserved, Opened, Unopened,
         Shape, Located, Rebuilding, Saves, Moves, Detached, Blank, Goroutines, Objects,
         Goroutine, Object
    <3>2. \A q \in Request : q # r /\ req[q].on # None /\ sess[req[q].on].ctrl # None =>
           sess'[req[q].on].ctrl # None
      BY <1>50, Paths DEF LoadMetaFails, At, Unlock, End, Unserved, Opened, Unopened,
         Goroutines, Objects, Goroutine, Object, Shape, Alone, Opens
    <3> QED BY <2>2, <3>1, <3>2, LocatedMoved
  <2> QED BY <2>1, <2>3, <2>4 DEF Shape
<1>51. ASSUME NEW r \in Request, Register(r) PROVE Shape'
  BY <1>51, Paths, SMTT(20), ZenonT(40) DEF Register, At, End, Unserved, Goroutines, Objects,
     Goroutine, Object, Others, Shape, Located, Alone, Rebuilding, Saves, Moves, Detached,
     Blank, Opens, fileVars, history
<1>52. ASSUME NEW p \in Path, OtherAcquires(p) PROVE Shape'
  BY <1>52, Paths DEF OtherAcquires, Goroutines, Objects, Goroutine, Object, Others, Shape,
     Located, Alone, Rebuilding, Saves, Moves, Detached, Blank, Opens, fileVars, history
<1>53. ASSUME NEW p \in Path, OtherReleases(p) PROVE Shape'
  BY <1>53, Paths DEF OtherReleases, Unlock, Goroutines, Objects, Goroutine, Object, Others,
     Shape, Located, Alone, Rebuilding, Saves, Moves, Detached, Blank, Opens, fileVars, history
<1>54. ASSUME NEW p \in Path, Reconcile(p) PROVE Shape'
  BY <1>54, Paths DEF Reconcile, Remove, Goroutines, Objects, Goroutine, Object, Others, Shape,
     Located, Alone, Rebuilding, Saves, Moves, Detached, Blank, Opens, fileVars, history
<1>55. CASE Crash
  BY <1>55, Paths DEF Crash, Unserved, Unopened, Opened, At, Goroutines, Objects, Goroutine,
     Object, Others, Shape, Located, Alone, Rebuilding, Saves, Moves, Detached, Blank, Opens,
     fileVars, history
<1> QED BY <1>2, <1>3, <1>4, <1>5, <1>6, <1>7, <1>8, <1>9, <1>10, <1>11, <1>12, <1>13, <1>14,
           <1>15, <1>16, <1>17, <1>18, <1>19, <1>20, <1>21, <1>22, <1>23, <1>24, <1>25, <1>26,
           <1>27, <1>28, <1>29, <1>30, <1>31, <1>32, <1>33, <1>34, <1>35, <1>36, <1>37, <1>38,
           <1>39, <1>40, <1>41, <1>42, <1>43, <1>44, <1>45, <1>46, <1>47, <1>48, <1>49, <1>50,
           <1>51, <1>52, <1>53, <1>54, <1>55 DEF Next, Start, Continue, Turn, Save, Rebuild,
           Close, Open
-----------------------------------------------------------------------------
(***************************************************************************)
(* Turns and maintenances.                                                 *)
(***************************************************************************)
\* A step that neither begins nor ends one, and leaves the controllers.
Steady(r) ==
    /\ \A q \in Request : q # r => req'[q] = req[q]
    /\ Turning(r)' <=> Turning(r)
    /\ Rebuilding(r)' <=> Rebuilding(r)
    /\ Turning(r) \/ Rebuilding(r) => req'[r].on = req[r].on
    /\ req'[r].ctrl # None /\ req'[r].pc # "retire" =>
          req'[r].ctrl = On(r).ctrl /\ (Turning(r) \/ Rebuilding(r))

Fixed == \A s \in Session : /\ sess'[s].turn = sess[s].turn
                            /\ sess'[s].maint = sess[s].maint
                            /\ sess'[s].ctrl = sess[s].ctrl

LEMMA WorksOn ==
  ASSUME Goroutines, Objects, Shape, NEW q \in Request, Turning(q) \/ Rebuilding(q)
  PROVE  req[q].on \in Session /\ sess[req[q].on].ctrl # None
<1>1. req[q].pc \notin Detached /\ req[q].pc \notin Blank
  BY DEF Turning, Rebuilding, Saves, Detached, Blank
<1> QED BY <1>1 DEF Shape, Located, Goroutines, Goroutine

LEMMA GotoMoves ==
  ASSUME Goroutines, NEW r \in Request, NEW p, Goto(r, p)
  PROVE  /\ \A q \in Request : q # r => req'[q] = req[q]
         /\ req'[r].pc = p /\ req'[r].on = req[r].on /\ req'[r].ctrl = req[r].ctrl
         /\ req'[r].phase = req[r].phase /\ req'[r].at = req[r].at /\ req'[r].to = req[r].to
         /\ req'[r].want = req[r].want /\ req'[r].via = req[r].via /\ req'[r].next = req[r].next
BY DEF Goto, Goroutines, Goroutine

LEMMA Saver ==
  ASSUME Shape, Work, NEW r \in Request, req[r].pc \in Saves
  PROVE  (Turning(r) \/ Rebuilding(r)) /\ req[r].ctrl = On(r).ctrl
<1>1. Turning(r) \/ Rebuilding(r)
  BY DEF Shape, Located, Turning, Rebuilding, Saves
<1>2. req[r].ctrl # None /\ req[r].pc # "retire"
  BY DEF Shape, Located, Saves
<1> QED BY <1>1, <1>2 DEF Work, Holds

\* A step of a save, and its return.
LEMMA SaveSteady ==
  ASSUME Goroutines, Shape, Work, NEW r \in Request, req[r].pc \in Saves,
         NEW p \in Saves, Goto(r, p)
  PROVE  Steady(r)
<1>1. /\ \A q \in Request : q # r => req'[q] = req[q]
      /\ req'[r].pc = p /\ req'[r].on = req[r].on /\ req'[r].ctrl = req[r].ctrl
      /\ req'[r].phase = req[r].phase
  BY GotoMoves
<1>2. Turning(r)' <=> Turning(r)
  BY <1>1 DEF Turning, Saves
<1>3. Rebuilding(r)' <=> Rebuilding(r)
  BY <1>1 DEF Rebuilding, Saves
<1> QED BY <1>1, <1>2, <1>3, Saver DEF Steady

LEMMA BackSteady ==
  ASSUME Goroutines, Shape, Work, NEW r \in Request, req[r].pc \in Saves,
         req[r].phase \in {"turn", "persist", "rebuild"},
         NEW ok \in BOOLEAN, Back(r, ok)
  PROVE  Steady(r)
<1>1. ASSUME NEW p \in {"persist", "stamp"}, Goto(r, p), req[r].phase \in {"turn", "persist"}
      PROVE  Steady(r)
  <2>1. /\ \A q \in Request : q # r => req'[q] = req[q]
        /\ req'[r].pc = p /\ req'[r].on = req[r].on /\ req'[r].ctrl = req[r].ctrl
        /\ req'[r].phase = req[r].phase
    BY <1>1, GotoMoves
  <2>2. Turning(r)' /\ Turning(r) /\ ~Rebuilding(r)' /\ ~Rebuilding(r)
    BY <1>1, <2>1 DEF Turning, Rebuilding, Saves
  <2> QED BY <2>1, <2>2, Saver DEF Steady
<1>2. ASSUME NEW p \in {"build", "abandon"}, Goto(r, p), req[r].phase = "rebuild"
      PROVE  Steady(r)
  <2>1. /\ \A q \in Request : q # r => req'[q] = req[q]
        /\ req'[r].pc = p /\ req'[r].on = req[r].on /\ req'[r].ctrl = req[r].ctrl
        /\ req'[r].phase = req[r].phase
    BY <1>2, GotoMoves
  <2>2. ~Turning(r)' /\ ~Turning(r) /\ Rebuilding(r)' /\ Rebuilding(r)
    BY <1>2, <2>1 DEF Turning, Rebuilding, Saves
  <2> QED BY <2>1, <2>2, Saver DEF Steady
<1>3. CASE req[r].phase = "turn"
  BY <1>1, <1>3 DEF Back
<1>4. CASE req[r].phase = "persist"
  BY <1>1, <1>4 DEF Back
<1>5. CASE req[r].phase = "rebuild"
  BY <1>2, <1>5 DEF Back
<1> QED BY <1>3, <1>4, <1>5

LEMMA WorkSteady ==
  ASSUME Goroutines, Objects, Shape, Work, NEW r \in Request, Steady(r), Fixed
  PROVE  Work'
<1>1. ASSUME NEW q \in Request PROVE (q = r \/ req'[q] = req[q]) /\ (Turning(q)' <=> Turning(q))
              /\ (Rebuilding(q)' <=> Rebuilding(q))
  BY DEF Steady, Turning, Rebuilding
<1>2. ASSUME NEW q \in Request PROVE Turning(q) \/ Rebuilding(q) => req'[q].on = req[q].on
              /\ req[q].on \in Session
  <2>1. Turning(q) \/ Rebuilding(q) => req[q].pc \notin Detached
    BY DEF Turning, Rebuilding, Saves, Detached
  <2> QED BY <2>1, <1>1 DEF Steady, Shape, Located, Goroutines, Goroutine
<1>3. ASSUME NEW q \in Request PROVE Holds(q)'
  BY <1>1, <1>2 DEF Steady, Fixed, Work, Holds, On
<1>4. ASSUME NEW s \in Session PROVE Held(s)'
  <2>1. sess[s].turn \in Request \cup {None} /\ sess[s].maint \in Request \cup {None}
    BY DEF Objects, Object
  <2> QED BY <2>1, <1>1, <1>2 DEF Fixed, Work, Held
<1> QED BY <1>3, <1>4 DEF Work

LEMMA WorkStep ==
  ASSUME Goroutines, Objects, Others, Shape, Work, [Next]_vars
  PROVE  Work'
<1>1. CASE UNCHANGED vars
  BY <1>1 DEF Goroutines, Objects, Goroutine, Object, Others, Work, Holds, Held, On, Turning,
     Rebuilding, Saves, Shape, Located, Alone, Opens, Moves, Blank, Detached, vars, fileVars,
     history
<1>2. ASSUME NEW r \in Request, Prompt(r) PROVE Work'
  <2>1. Steady(r)
    BY <1>2, Paths DEF Prompt, Serve, At, Steady, Work, Holds, Turning, Rebuilding, Saves,
       Goroutines, Goroutine, On
  <2>2. Fixed
    BY <1>2 DEF Prompt, Serve, At, Fixed, Objects, Object
  <2> QED BY <2>1, <2>2, WorkSteady
<1>3. ASSUME NEW r \in Request, SetConfig(r) PROVE Work'
  <2>1. Steady(r)
    BY <1>3, Paths DEF SetConfig, At, Steady, Work, Holds, Turning, Rebuilding, Saves,
       Goroutines, Goroutine, On
  <2>2. Fixed
    BY <1>3 DEF SetConfig, At, Fixed, Objects, Object
  <2> QED BY <2>1, <2>2, WorkSteady
<1>4. ASSUME NEW r \in Request, Take(r) PROVE Work'
  <2>1. Steady(r)
    BY <1>4, Paths DEF Take, At, Steady, Work, Holds, Turning, Rebuilding, Saves, Goroutines,
       Goroutine, On
  <2>2. Fixed
    BY <1>4 DEF Take, At, Fixed, Objects, Object
  <2> QED BY <2>1, <2>2, WorkSteady
<1>5. ASSUME NEW r \in Request, DeleteClosed(r) PROVE Work'
  <2>1. Steady(r)
    BY <1>5, Paths DEF DeleteClosed, Serve, At, Race, Resolve, Steady, Work, Holds, Turning,
       Rebuilding, Saves, Goroutines, Goroutine, On
  <2>2. Fixed
    BY <1>5 DEF DeleteClosed, Serve, At, Race, Resolve, Fixed, Objects, Object
  <2> QED BY <2>1, <2>2, WorkSteady
<1>6. ASSUME NEW r \in Request, Load(r) PROVE Work'
  <2>1. Steady(r)
    BY <1>6, Paths DEF Load, At, FreeSessions, Resolve, Unserved, Steady, Work, Holds, Turning,
       Rebuilding, Saves, Goroutines, Goroutine, On
  <2>2. Fixed
    BY <1>6 DEF Load, At, FreeSessions, Resolve, Unserved, Fixed, Objects, Object
  <2> QED BY <2>1, <2>2, WorkSteady
<1>7. ASSUME NEW r \in Request, Begin(r) PROVE Work'
  <2>1. /\ \A q \in Request : q # r => req'[q] = req[q]
        /\ \A s \in Session : s # req[r].on => sess'[s] = sess[s]
        /\ req[r].on \in Session
        /\ req[r].pc = "begin"
        /\ req'[r].pc = "enter"
        /\ req'[r].on = req[r].on
        /\ req'[r].ctrl = req[r].ctrl
        /\ sess[req[r].on].turn = None
        /\ sess[req[r].on].maint = None
        /\ sess'[req[r].on].turn = r
        /\ sess'[req[r].on].maint = sess[req[r].on].maint
        /\ sess'[req[r].on].ctrl = sess[req[r].on].ctrl
    BY <1>7, Paths DEF Begin, At, MayBegin, On, Goto, Goroutines, Goroutine, Objects, Object,
       Shape, Located, Detached, Blank, Saves, Rebuilding
  <2>2. \A q \in Request : q # r => (Turning(q)' <=> Turning(q)) /\ (Rebuilding(q)' <=> Rebuilding(q))
    BY <2>1 DEF Turning, Rebuilding
  <2>3. ~Turning(r) /\ ~Rebuilding(r) /\ Turning(r)' /\ ~Rebuilding(r)'
    BY <2>1 DEF Turning, Rebuilding, Saves
  <2>4. ASSUME NEW q \in Request PROVE Holds(q)'
    BY <2>1, <2>2, <2>3, Paths, WorksOn DEF Work, Holds, Held, On
  <2>5. ASSUME NEW s \in Session PROVE Held(s)'
    <3>1. sess[s].turn \in Request \cup {None} /\ sess[s].maint \in Request \cup {None}
      BY DEF Objects, Object
    <3> QED BY <2>1, <2>2, <2>3, <3>1, Paths DEF Work, Holds, Held, On
  <2> QED BY <2>4, <2>5 DEF Work
<1>8. ASSUME NEW r \in Request, BeginRefused(r) PROVE Work'
  <2>1. Steady(r)
    BY <1>8, Paths DEF BeginRefused, End, At, Unserved, Steady, Work, Holds, Turning,
       Rebuilding, Saves, Goroutines, Goroutine, On
  <2>2. Fixed
    BY <1>8 DEF BeginRefused, End, At, Unserved, Fixed, Objects, Object
  <2> QED BY <2>1, <2>2, WorkSteady
<1>9. ASSUME NEW r \in Request, Enter(r) PROVE Work'
  <2>1. Steady(r)
    BY <1>9, Paths DEF Enter, At, Steady, Work, Holds, Turning, Rebuilding, Saves, Goroutines,
       Goroutine, On
  <2>2. Fixed
    BY <1>9 DEF Enter, At, Fixed, Objects, Object
  <2> QED BY <2>1, <2>2, WorkSteady
<1>10. ASSUME NEW r \in Request, Persist(r) PROVE Work'
  <2>1. Steady(r)
    BY <1>10, Paths DEF Persist, At, Steady, Work, Holds, Turning, Rebuilding, Saves,
       Goroutines, Goroutine, On
  <2>2. Fixed
    BY <1>10 DEF Persist, At, Fixed, Objects, Object
  <2> QED BY <2>1, <2>2, WorkSteady
<1>11. ASSUME NEW r \in Request, Stamp(r) PROVE Work'
  <2>1. Steady(r)
    BY <1>11, Paths DEF Stamp, At, Goto, SaveMeta, Steady, Work, Holds, Turning, Rebuilding,
       Saves, Goroutines, Goroutine, On
  <2>2. Fixed
    BY <1>11 DEF Stamp, At, Goto, SaveMeta, Fixed, Objects, Object
  <2> QED BY <2>1, <2>2, WorkSteady
<1>12. ASSUME NEW r \in Request, Finish(r) PROVE Work'
  <2>1. /\ \A q \in Request : q # r => req'[q] = req[q]
        /\ \A s \in Session : s # req[r].on => sess'[s] = sess[s]
        /\ req[r].on \in Session
        /\ req[r].pc = "finish"
        /\ req'[r].pc = "apply"
        /\ req'[r].on = req[r].on
        /\ req'[r].ctrl = None
        /\ sess'[req[r].on].turn = None
        /\ sess'[req[r].on].maint = sess[req[r].on].maint
        /\ sess'[req[r].on].ctrl = sess[req[r].on].ctrl
    BY <1>12, Paths DEF Finish, At, Wake, Goroutines, Goroutine, Objects, Object, Shape,
       Located, Detached, Blank, Saves, Rebuilding
  <2>2. \A q \in Request : q # r => (Turning(q)' <=> Turning(q)) /\ (Rebuilding(q)' <=> Rebuilding(q))
    BY <2>1 DEF Turning, Rebuilding
  <2>3. Turning(r) /\ ~Rebuilding(r) /\ ~Turning(r)' /\ ~Rebuilding(r)'
    BY <2>1 DEF Turning, Rebuilding, Saves
  <2>4. ASSUME NEW q \in Request PROVE Holds(q)'
    BY <2>1, <2>2, <2>3, Paths, WorksOn DEF Work, Holds, Held, On
  <2>5. ASSUME NEW s \in Session PROVE Held(s)'
    <3>1. sess[s].turn \in Request \cup {None} /\ sess[s].maint \in Request \cup {None}
      BY DEF Objects, Object
    <3> QED BY <2>1, <2>2, <2>3, <3>1, Paths DEF Work, Holds, Held, On
  <2> QED BY <2>4, <2>5 DEF Work
<1>13. ASSUME NEW r \in Request, TurnReturns(r) PROVE Work'
  <2>1. Steady(r)
    BY <1>13, Paths DEF TurnReturns, At, Steady, Work, Holds, Turning, Rebuilding, Saves,
       Goroutines, Goroutine, On
  <2>2. Fixed
    BY <1>13 DEF TurnReturns, At, Fixed, Objects, Object
  <2> QED BY <2>1, <2>2, WorkSteady
<1>14. ASSUME NEW r \in Request, Cancel(r) PROVE Work'
  BY <1>14, Paths DEF Cancel, Goroutines, Objects, Goroutine, Object, Others, Work, Holds, Held,
     On, Turning, Rebuilding, Saves, Shape, Located, Alone, Opens, Moves, Blank, Detached,
     fileVars, history
<1>15. ASSUME NEW r \in Request, Saved(r) PROVE Work'
  <2>1. req[r].pc = "save" /\ req[r].phase \in {"turn", "persist", "rebuild"}
    BY <1>15 DEF Saved, At, Shape, Located, Saves
  <2>2. ASSUME NEW ok \in BOOLEAN, Back(r, ok) PROVE Steady(r)
    BY <2>1, <2>2, BackSteady DEF Saves
  <2>3. Steady(r)
    BY <1>15, <2>2 DEF Saved
  <2>4. Fixed
    BY <1>15 DEF Saved, At, Back, Goto, Fixed, Objects, Object
  <2> QED BY <2>3, <2>4, WorkSteady
<1>16. ASSUME NEW r \in Request, NotSaved(r) PROVE Work'
  <2>1. req[r].pc = "save" /\ req[r].phase \in {"turn", "persist", "rebuild"}
    BY <1>16 DEF NotSaved, At, Shape, Located, Saves
  <2>2. ASSUME NEW ok \in BOOLEAN, Back(r, ok) PROVE Steady(r)
    BY <2>1, <2>2, BackSteady DEF Saves
  <2>3. Steady(r)
    BY <1>16, <2>2 DEF NotSaved
  <2>4. Fixed
    BY <1>16 DEF NotSaved, At, Back, Goto, Fixed, Objects, Object
  <2> QED BY <2>3, <2>4, WorkSteady
<1>17. ASSUME NEW r \in Request, Recover(r) PROVE Work'
  <2>1. Steady(r)
    BY <1>17, Paths DEF Recover, At, Steady, Work, Holds, Turning, Rebuilding, Saves,
       Goroutines, Goroutine, On
  <2>2. Fixed
    BY <1>17 DEF Recover, At, Fixed, Objects, Object
  <2> QED BY <2>1, <2>2, WorkSteady
<1>18. ASSUME NEW r \in Request, Follow(r) PROVE Work'
  <2>1. Steady(r)
    BY <1>18, Paths DEF Follow, At, Steady, Work, Holds, Turning, Rebuilding, Saves, Goroutines,
       Goroutine, On
  <2>2. Fixed
    BY <1>18 DEF Follow, At, Fixed, Objects, Object
  <2> QED BY <2>1, <2>2, WorkSteady
<1>19. ASSUME NEW r \in Request, Secure(r) PROVE Work'
  <2>1. req[r].pc = "secure" /\ req[r].phase \in {"turn", "persist", "rebuild"}
    BY <1>19 DEF Secure, At, Shape, Located, Saves
  <2>2. ASSUME NEW ok \in BOOLEAN, Back(r, ok) PROVE Steady(r)
    BY <2>1, <2>2, BackSteady DEF Saves
  <2>3. ASSUME Goto(r, "assign") PROVE Steady(r)
    BY <2>1, <2>3, SaveSteady DEF Saves
  <2>4. Steady(r)
    BY <1>19, <2>2, <2>3 DEF Secure
  <2>5. Fixed
    BY <1>19 DEF Secure, At, Goto, Back, Fixed, Objects, Object
  <2> QED BY <2>4, <2>5, WorkSteady
<1>20. ASSUME NEW r \in Request, Assign(r) PROVE Work'
  <2>1. req[r].pc = "assign" /\ req[r].phase \in {"turn", "persist", "rebuild"}
    BY <1>20 DEF Assign, At, Shape, Located, Saves
  <2>2. ASSUME NEW ok \in BOOLEAN, Back(r, ok) PROVE Steady(r)
    BY <2>1, <2>2, BackSteady DEF Saves
  <2>3. ASSUME Goto(r, "redirect") PROVE Steady(r)
    BY <2>1, <2>3, SaveSteady DEF Saves
  <2>4. Steady(r)
    BY <1>20, <2>2, <2>3 DEF Assign
  <2>5. Fixed
    BY <1>20 DEF Assign, At, Unlock, Back, Goto, MoveTo, Fixed, Objects, Object
  <2> QED BY <2>4, <2>5, WorkSteady
<1>21. ASSUME NEW r \in Request, Redirect(r) PROVE Work'
  <2>1. Steady(r)
    BY <1>21, Paths DEF Redirect, At, RedirectTo, Goto, Steady, Work, Holds, Turning,
       Rebuilding, Saves, Goroutines, Goroutine, On
  <2>2. Fixed
    BY <1>21 DEF Redirect, At, RedirectTo, Goto, Fixed, Objects, Object
  <2> QED BY <2>1, <2>2, WorkSteady
<1>22. ASSUME NEW r \in Request, Commit(r) PROVE Work'
  <2>1. req[r].pc = "commit" /\ req[r].phase \in {"turn", "persist", "rebuild"}
    BY <1>22 DEF Commit, At, Shape, Located, Saves
  <2>2. ASSUME NEW ok \in BOOLEAN, Back(r, ok) PROVE Steady(r)
    BY <2>1, <2>2, BackSteady DEF Saves
  <2>3. Steady(r)
    BY <1>22, <2>2 DEF Commit
  <2>4. Fixed
    BY <1>22 DEF Commit, At, Back, Goto, Fixed, Objects, Object
  <2> QED BY <2>3, <2>4, WorkSteady
<1>23. ASSUME NEW r \in Request, ClaimRefused(r) PROVE Work'
  <2>1. Steady(r)
    BY <1>23, Paths DEF ClaimRefused, At, Fail, Goto, End, Unserved, Steady, Work, Holds,
       Turning, Rebuilding, Saves, Goroutines, Goroutine, On
  <2>2. Fixed
    BY <1>23 DEF ClaimRefused, At, Fail, Goto, End, Unserved, Fixed, Objects, Object
  <2> QED BY <2>1, <2>2, WorkSteady
<1>24. ASSUME NEW r \in Request, Queue(r) PROVE Work'
  <2>1. Steady(r)
    BY <1>24, Paths DEF Queue, At, Chosen, End, Unserved, Busy, Steady, Work, Holds, Turning,
       Rebuilding, Saves, Goroutines, Goroutine, On
  <2>2. Fixed
    BY <1>24 DEF Queue, At, Chosen, End, Unserved, Busy, Fixed, Objects, Object
  <2> QED BY <2>1, <2>2, WorkSteady
<1>25. ASSUME NEW r \in Request, Claim(r) PROVE Work'
  <2>1. /\ \A q \in Request : q # r => req'[q] = req[q]
        /\ \A s \in Session : s # req[r].on => sess'[s] = sess[s]
        /\ req[r].on \in Session
        /\ req[r].pc = "claim"
        /\ req'[r].pc = "save"
        /\ req'[r].phase = "rebuild"
        /\ req'[r].on = req[r].on
        /\ req'[r].ctrl = sess[req[r].on].ctrl
        /\ sess[req[r].on].turn = None
        /\ sess[req[r].on].maint = None
        /\ sess'[req[r].on].turn = sess[req[r].on].turn
        /\ sess'[req[r].on].maint = r
        /\ sess'[req[r].on].ctrl = sess[req[r].on].ctrl
    BY <1>25, Paths DEF Claim, At, On, Busy, Goroutines, Goroutine, Objects, Object, Shape,
       Located, Detached, Blank, Saves, Rebuilding
  <2>2. \A q \in Request : q # r => (Turning(q)' <=> Turning(q)) /\ (Rebuilding(q)' <=> Rebuilding(q))
    BY <2>1 DEF Turning, Rebuilding
  <2>3. ~Turning(r) /\ ~Rebuilding(r) /\ ~Turning(r)' /\ Rebuilding(r)'
    BY <2>1 DEF Turning, Rebuilding, Saves
  <2>4. ASSUME NEW q \in Request PROVE Holds(q)'
    BY <2>1, <2>2, <2>3, Paths, WorksOn DEF Work, Holds, Held, On
  <2>5. ASSUME NEW s \in Session PROVE Held(s)'
    <3>1. sess[s].turn \in Request \cup {None} /\ sess[s].maint \in Request \cup {None}
      BY DEF Objects, Object
    <3> QED BY <2>1, <2>2, <2>3, <3>1, Paths DEF Work, Holds, Held, On
  <2> QED BY <2>4, <2>5 DEF Work
<1>26. ASSUME NEW r \in Request, Build(r) PROVE Work'
  <2>1. Steady(r)
    BY <1>26, Paths DEF Build, At, FreeCtrls, Steady, Work, Holds, Turning, Rebuilding, Saves,
       Goroutines, Goroutine, On
  <2>2. Fixed
    BY <1>26 DEF Build, At, FreeCtrls, Fixed, Objects, Object
  <2> QED BY <2>1, <2>2, WorkSteady
<1>27. ASSUME NEW r \in Request, BuildFails(r) PROVE Work'
  <2>1. Steady(r)
    BY <1>27, Paths DEF BuildFails, At, Goto, Steady, Work, Holds, Turning, Rebuilding, Saves,
       Goroutines, Goroutine, On
  <2>2. Fixed
    BY <1>27 DEF BuildFails, At, Goto, Fixed, Objects, Object
  <2> QED BY <2>1, <2>2, WorkSteady
<1>28. ASSUME NEW r \in Request, Swap(r) PROVE Work'
  <2>1. /\ \A q \in Request : q # r => req'[q] = req[q]
        /\ \A s \in Session : s # req[r].on => sess'[s] = sess[s]
        /\ req[r].on \in Session
        /\ req[r].pc = "swap"
        /\ req'[r].pc = "retire"
        /\ req'[r].on = req[r].on
        /\ req'[r].ctrl = req[r].ctrl
        /\ sess'[req[r].on].turn = sess[req[r].on].turn
        /\ sess'[req[r].on].maint = sess[req[r].on].maint
    BY <1>28, Paths DEF Swap, At, On, Goroutines, Goroutine, Objects, Object, Shape, Located,
       Detached, Blank, Saves, Rebuilding
  <2>2. \A q \in Request : q # r => (Turning(q)' <=> Turning(q)) /\ (Rebuilding(q)' <=> Rebuilding(q))
    BY <2>1 DEF Turning, Rebuilding
  <2>3. ~Turning(r) /\ Rebuilding(r) /\ ~Turning(r)' /\ Rebuilding(r)'
    BY <2>1 DEF Turning, Rebuilding, Saves
  <2>4. ASSUME NEW q \in Request PROVE Holds(q)'
    BY <2>1, <2>2, <2>3, Paths, WorksOn DEF Work, Holds, Held, On
  <2>5. ASSUME NEW s \in Session PROVE Held(s)'
    <3>1. sess[s].turn \in Request \cup {None} /\ sess[s].maint \in Request \cup {None}
      BY DEF Objects, Object
    <3> QED BY <2>1, <2>2, <2>3, <3>1, Paths DEF Work, Holds, Held, On
  <2> QED BY <2>4, <2>5 DEF Work
<1>29. ASSUME NEW r \in Request, SwapRefused(r) PROVE Work'
  <2>1. Steady(r)
    BY <1>29, Paths DEF SwapRefused, At, Steady, Work, Holds, Turning, Rebuilding, Saves,
       Goroutines, Goroutine, On
  <2>2. Fixed
    BY <1>29 DEF SwapRefused, At, Fixed, Objects, Object
  <2> QED BY <2>1, <2>2, WorkSteady
<1>30. ASSUME NEW r \in Request, Retire(r) PROVE Work'
  <2>1. Steady(r)
    BY <1>30, Paths DEF Retire, At, Steady, Work, Holds, Turning, Rebuilding, Saves, Goroutines,
       Goroutine, On
  <2>2. Fixed
    BY <1>30 DEF Retire, At, Fixed, Objects, Object
  <2> QED BY <2>1, <2>2, WorkSteady
<1>31. ASSUME NEW r \in Request, Unwind(r) PROVE Work'
  <2>1. /\ \A q \in Request : q # r => req'[q] = req[q]
        /\ \A s \in Session : s # req[r].on => sess'[s] = sess[s]
        /\ req[r].on \in Session
        /\ req[r].pc = "unwind"
        /\ req'[r].pc = "apply"
        /\ req'[r].on = req[r].on
        /\ req'[r].ctrl = None
        /\ sess'[req[r].on].turn = sess[req[r].on].turn
        /\ sess'[req[r].on].maint = None
        /\ sess'[req[r].on].ctrl = sess[req[r].on].ctrl
    BY <1>31, Paths DEF Unwind, At, Goto, Goroutines, Goroutine, Objects, Object, Shape,
       Located, Detached, Blank, Saves, Rebuilding
  <2>2. \A q \in Request : q # r => (Turning(q)' <=> Turning(q)) /\ (Rebuilding(q)' <=> Rebuilding(q))
    BY <2>1 DEF Turning, Rebuilding
  <2>3. ~Turning(r) /\ Rebuilding(r) /\ ~Turning(r)' /\ ~Rebuilding(r)'
    BY <2>1 DEF Turning, Rebuilding, Saves
  <2>4. ASSUME NEW q \in Request PROVE Holds(q)'
    BY <2>1, <2>2, <2>3, Paths, WorksOn DEF Work, Holds, Held, On
  <2>5. ASSUME NEW s \in Session PROVE Held(s)'
    <3>1. sess[s].turn \in Request \cup {None} /\ sess[s].maint \in Request \cup {None}
      BY DEF Objects, Object
    <3> QED BY <2>1, <2>2, <2>3, <3>1, Paths DEF Work, Holds, Held, On
  <2> QED BY <2>4, <2>5 DEF Work
<1>32. ASSUME NEW r \in Request, Abandon(r) PROVE Work'
  <2>1. /\ \A q \in Request : q # r => req'[q] = req[q]
        /\ \A s \in Session : s # req[r].on => sess'[s] = sess[s]
        /\ req[r].on \in Session
        /\ req[r].pc = "abandon"
        /\ req'[r].pc \in {"drop", "done"}
        /\ req'[r].ctrl = None
        /\ sess'[req[r].on].turn = sess[req[r].on].turn
        /\ sess'[req[r].on].maint = None
        /\ sess'[req[r].on].ctrl = sess[req[r].on].ctrl
    BY <1>32, Paths DEF Abandon, At, End, Unserved, Goroutines, Goroutine, Objects, Object,
       Shape, Located, Detached, Blank, Saves, Rebuilding
  <2>2. \A q \in Request : q # r => (Turning(q)' <=> Turning(q)) /\ (Rebuilding(q)' <=> Rebuilding(q))
    BY <2>1 DEF Turning, Rebuilding
  <2>3. ~Turning(r) /\ Rebuilding(r) /\ ~Turning(r)' /\ ~Rebuilding(r)'
    BY <2>1 DEF Turning, Rebuilding, Saves
  <2>4. ASSUME NEW q \in Request PROVE Holds(q)'
    BY <2>1, <2>2, <2>3, Paths, WorksOn DEF Work, Holds, Held, On
  <2>5. ASSUME NEW s \in Session PROVE Held(s)'
    <3>1. sess[s].turn \in Request \cup {None} /\ sess[s].maint \in Request \cup {None}
      BY DEF Objects, Object
    <3> QED BY <2>1, <2>2, <2>3, <3>1, Paths DEF Work, Holds, Held, On
  <2> QED BY <2>4, <2>5 DEF Work
<1>33. ASSUME NEW r \in Request, Apply(r) PROVE Work'
  <2>1. Steady(r)
    BY <1>33, Paths DEF Apply, At, Goto, End, Unserved, Steady, Work, Holds, Turning,
       Rebuilding, Saves, Goroutines, Goroutine, On
  <2>2. Fixed
    BY <1>33 DEF Apply, At, Goto, End, Unserved, Fixed, Objects, Object
  <2> QED BY <2>1, <2>2, WorkSteady
<1>34. ASSUME NEW r \in Request, Copy(r) PROVE Work'
  <2>1. Steady(r)
    BY <1>34, Paths DEF Copy, At, End, Unserved, Steady, Work, Holds, Turning, Rebuilding,
       Saves, Goroutines, Goroutine, On
  <2>2. Fixed
    BY <1>34 DEF Copy, At, End, Unserved, Fixed, Objects, Object
  <2> QED BY <2>1, <2>2, WorkSteady
<1>35. ASSUME NEW r \in Request, Drop(r) PROVE Work'
  <2>1. Steady(r)
    BY <1>35, Paths DEF Drop, At, MayDrop, Void, End, Unserved, Busy, Steady, Work, Holds,
       Turning, Rebuilding, Saves, Goroutines, Goroutine, On
  <2>2. Fixed
    BY <1>35 DEF Drop, At, MayDrop, Void, End, Unserved, Busy, Fixed, Objects, Object
  <2> QED BY <2>1, <2>2, WorkSteady
<1>36. ASSUME NEW r \in Request, Abort(r) PROVE Work'
  <2>1. Steady(r)
    BY <1>36, Paths DEF Abort, At, Awaited, Interrupted, Goto, Steady, Work, Holds, Turning,
       Rebuilding, Saves, Goroutines, Goroutine, On
  <2>2. Fixed
    BY <1>36 DEF Abort, At, Awaited, Interrupted, Goto, Fixed, Objects, Object
  <2> QED BY <2>1, <2>2, WorkSteady
<1>37. ASSUME NEW r \in Request, Waited(r) PROVE Work'
  <2>1. Steady(r)
    BY <1>37, Paths DEF Waited, At, Goto, Steady, Work, Holds, Turning, Rebuilding, Saves,
       Goroutines, Goroutine, On
  <2>2. Fixed
    BY <1>37 DEF Waited, At, Goto, Fixed, Objects, Object
  <2> QED BY <2>1, <2>2, WorkSteady
<1>38. ASSUME NEW r \in Request, Shut(r) PROVE Work'
  <2>1. Steady(r)
    BY <1>38, Paths DEF Shut, At, Goto, Steady, Work, Holds, Turning, Rebuilding, Saves,
       Goroutines, Goroutine, On
  <2>2. Fixed
    BY <1>38 DEF Shut, At, Goto, Fixed, Objects, Object
  <2> QED BY <2>1, <2>2, WorkSteady
<1>39. ASSUME NEW r \in Request, Release(r) PROVE Work'
  <2>1. Steady(r)
    BY <1>39, Paths DEF Release, At, Unlock, Goto, End, Unserved, Steady, Work, Holds, Turning,
       Rebuilding, Saves, Goroutines, Goroutine, On
  <2>2. Fixed
    BY <1>39 DEF Release, At, Unlock, Goto, End, Unserved, Fixed, Objects, Object
  <2> QED BY <2>1, <2>2, WorkSteady
<1>40. ASSUME NEW r \in Request, Destroy(r) PROVE Work'
  <2>1. Steady(r)
    BY <1>40, Paths DEF Destroy, At, Steady, Work, Holds, Turning, Rebuilding, Saves,
       Goroutines, Goroutine, On
  <2>2. Fixed
    BY <1>40 DEF Destroy, At, Fixed, Objects, Object
  <2> QED BY <2>1, <2>2, WorkSteady
<1>41. ASSUME NEW r \in Request, Erase(r) PROVE Work'
  <2>1. Steady(r)
    BY <1>41, Paths DEF Erase, At, Remove, Goto, Steady, Work, Holds, Turning, Rebuilding,
       Saves, Goroutines, Goroutine, On
  <2>2. Fixed
    BY <1>41 DEF Erase, At, Remove, Goto, Fixed, Objects, Object
  <2> QED BY <2>1, <2>2, WorkSteady
<1>42. ASSUME NEW r \in Request, Twin(r) PROVE Work'
  <2>1. Steady(r)
    BY <1>42, Paths DEF Twin, At, RemoveTwin, Remove, Goto, End, Unserved, Steady, Work, Holds,
       Turning, Rebuilding, Saves, Goroutines, Goroutine, On
  <2>2. Fixed
    BY <1>42 DEF Twin, At, RemoveTwin, Remove, Goto, End, Unserved, Fixed, Objects, Object
  <2> QED BY <2>1, <2>2, WorkSteady
<1>43. ASSUME NEW r \in Request, Linger(r) PROVE Work'
  <2>1. Steady(r)
    BY <1>43, Paths DEF Linger, At, Remove, End, Unserved, Steady, Work, Holds, Turning,
       Rebuilding, Saves, Goroutines, Goroutine, On
  <2>2. Fixed
    BY <1>43 DEF Linger, At, Remove, End, Unserved, Fixed, Objects, Object
  <2> QED BY <2>1, <2>2, WorkSteady
<1>44. ASSUME NEW r \in Request, ResolveAgain(r) PROVE Work'
  <2>1. Steady(r)
    BY <1>44, Paths DEF ResolveAgain, At, Resolve, End, Unserved, Steady, Work, Holds, Turning,
       Rebuilding, Saves, Goroutines, Goroutine, On
  <2>2. Fixed
    BY <1>44 DEF ResolveAgain, At, Resolve, End, Unserved, Fixed, Objects, Object
  <2> QED BY <2>1, <2>2, WorkSteady
<1>45. ASSUME NEW r \in Request, Acquire(r) PROVE Work'
  <2>1. Steady(r)
    BY <1>45, Paths DEF Acquire, At, Goto, End, Unserved, Steady, Work, Holds, Turning,
       Rebuilding, Saves, Goroutines, Goroutine, On
  <2>2. Fixed
    BY <1>45 DEF Acquire, At, Goto, End, Unserved, Fixed, Objects, Object
  <2> QED BY <2>1, <2>2, WorkSteady
<1>46. ASSUME NEW r \in Request, Read(r) PROVE Work'
  BY <1>46, Paths, SMTT(20), ZenonT(40) DEF Read, At, FreeCtrls, Opened, Goto, Race, Overlap,
     Goroutines, Objects, Goroutine, Object, Others, Work, Holds, Held, On, Turning, Rebuilding,
     Saves, Shape, Located, Alone, Opens, Moves, Blank, Detached, fileVars, history
<1>47. ASSUME NEW r \in Request, ReadFails(r) PROVE Work'
  <2>1. Steady(r)
    BY <1>47, Paths DEF ReadFails, At, Unlock, End, Unserved, Steady, Work, Holds, Turning,
       Rebuilding, Saves, Goroutines, Goroutine, On
  <2>2. Fixed
    BY <1>47 DEF ReadFails, At, Unlock, End, Unserved, Fixed, Objects, Object
  <2> QED BY <2>1, <2>2, WorkSteady
<1>48. ASSUME NEW r \in Request, LoadMeta(r) PROVE Work'
  <2>1. Steady(r)
    BY <1>48, Paths DEF LoadMeta, At, SaveMeta, Goto, Steady, Work, Holds, Turning, Rebuilding,
       Saves, Goroutines, Goroutine, On
  <2>2. Fixed
    BY <1>48 DEF LoadMeta, At, SaveMeta, Goto, Fixed, Objects, Object
  <2> QED BY <2>1, <2>2, WorkSteady
<1>49. ASSUME NEW r \in Request, LoadMetaFails(r) PROVE Work'
  BY <1>49, Paths, SMTT(20), ZenonT(40) DEF LoadMetaFails, At, Unlock, End, Unserved, Opened,
     Unopened, Goroutines, Objects, Goroutine, Object, Others, Work, Holds, Held, On, Turning,
     Rebuilding, Saves, Shape, Located, Alone, Opens, Moves, Blank, Detached, fileVars, history
<1>50. ASSUME NEW r \in Request, Register(r) PROVE Work'
  <2>1. Steady(r)
    BY <1>50, Paths DEF Register, At, End, Unserved, Steady, Work, Holds, Turning, Rebuilding,
       Saves, Goroutines, Goroutine, On
  <2>2. Fixed
    BY <1>50 DEF Register, At, End, Unserved, Fixed, Objects, Object
  <2> QED BY <2>1, <2>2, WorkSteady
<1>51. ASSUME NEW p \in Path, OtherAcquires(p) PROVE Work'
  BY <1>51, Paths DEF OtherAcquires, Goroutines, Objects, Goroutine, Object, Others, Work,
     Holds, Held, On, Turning, Rebuilding, Saves, Shape, Located, Alone, Opens, Moves, Blank,
     Detached, fileVars, history
<1>52. ASSUME NEW p \in Path, OtherReleases(p) PROVE Work'
  BY <1>52, Paths DEF OtherReleases, Unlock, Goroutines, Objects, Goroutine, Object, Others,
     Work, Holds, Held, On, Turning, Rebuilding, Saves, Shape, Located, Alone, Opens, Moves,
     Blank, Detached, fileVars, history
<1>53. ASSUME NEW p \in Path, Reconcile(p) PROVE Work'
  BY <1>53, Paths DEF Reconcile, Remove, Goroutines, Objects, Goroutine, Object, Others, Work,
     Holds, Held, On, Turning, Rebuilding, Saves, Shape, Located, Alone, Opens, Moves, Blank,
     Detached, fileVars, history
<1>54. CASE Crash
  BY <1>54, Paths DEF Crash, Unserved, Unopened, Opened, At, Goroutines, Objects, Goroutine,
     Object, Others, Work, Holds, Held, On, Turning, Rebuilding, Saves, Shape, Located, Alone,
     Opens, Moves, Blank, Detached, fileVars, history
<1> QED BY <1>1, <1>2, <1>3, <1>4, <1>5, <1>6, <1>7, <1>8, <1>9, <1>10, <1>11, <1>12, <1>13,
           <1>14, <1>15, <1>16, <1>17, <1>18, <1>19, <1>20, <1>21, <1>22, <1>23, <1>24, <1>25,
           <1>26, <1>27, <1>28, <1>29, <1>30, <1>31, <1>32, <1>33, <1>34, <1>35, <1>36, <1>37,
           <1>38, <1>39, <1>40, <1>41, <1>42, <1>43, <1>44, <1>45, <1>46, <1>47, <1>48, <1>49,
           <1>50, <1>51, <1>52, <1>53, <1>54 DEF Next, Start, Continue, Turn, Save, Rebuild,
           Close, Open
-----------------------------------------------------------------------------
(***************************************************************************)
(* The controllers differ.                                                 *)
(***************************************************************************)
\* A step that brings in no controller and gives none back.
Keeps(r) ==
    /\ \A q \in Request : q # r => req'[q] = req[q]
    /\ req'[r].next \in {req[r].next, None}
    /\ \/ req'[r].ctrl \in {req[r].ctrl, None}
       \/ req'[r].ctrl = On(r).ctrl /\ req[r].on \in Session
    /\ req'[r].pc = "retire" => req[r].pc = "retire" /\ req'[r].ctrl = req[r].ctrl

SameCtrls == \A s \in Session : sess'[s].ctrl = sess[s].ctrl

LEMMA DistinctKept ==
  ASSUME Goroutines, Objects, Shape, Distinct, NEW r \in Request, Keeps(r), SameCtrls
  PROVE  Distinct'
<1>1. ASSUME NEW q \in Request, req'[q].next # None
      PROVE  /\ \A s \in Session : sess'[s].ctrl # req'[q].next
             /\ \A p \in Request : req'[p].ctrl # req'[q].next /\ (p # q => req'[p].next # req'[q].next)
  <2>1. req'[q].next = req[q].next
    BY <1>1 DEF Keeps
  <2> QED BY <1>1, <2>1 DEF Keeps, SameCtrls, Distinct, On
<1>2. ASSUME NEW q \in Request, req'[q].pc = "retire"
      PROVE  /\ \A s \in Session : sess'[s].ctrl # req'[q].ctrl
             /\ \A p \in Request : p # q => req'[p].ctrl # req'[q].ctrl
  <2>1. req[q].pc = "retire" /\ req'[q].ctrl = req[q].ctrl
    BY <1>2 DEF Keeps
  <2>2. req[q].ctrl # None
    BY <2>1 DEF Shape, Located
  <2> QED BY <2>1, <2>2 DEF Keeps, SameCtrls, Distinct, On
<1>3. ASSUME NEW s \in Session, NEW t \in Session, sess'[s].ctrl # None, sess'[s].ctrl = sess'[t].ctrl
      PROVE  s = t
  BY <1>3 DEF SameCtrls, Distinct
<1> QED BY <1>1, <1>2, <1>3 DEF Distinct

LEMMA GotoKeeps ==
  ASSUME Goroutines, NEW r \in Request, NEW p, p # "retire", Goto(r, p)
  PROVE  Keeps(r)
BY GotoMoves DEF Keeps

LEMMA EndMoves ==
  ASSUME Goroutines, NEW r \in Request, End(r)
  PROVE  /\ \A q \in Request : q # r => req'[q] = req[q]
         /\ req'[r].pc = "done" /\ req'[r].on = None /\ req'[r].ctrl = None
         /\ req'[r].next = None /\ req'[r].to = None
BY DEF End, Unserved, Goroutines, Goroutine

LEMMA EndKeeps ==
  ASSUME Goroutines, NEW r \in Request, End(r)
  PROVE  Keeps(r)
BY EndMoves DEF Keeps

LEMMA BackKeeps ==
  ASSUME Goroutines, NEW r \in Request, NEW ok \in BOOLEAN, Back(r, ok),
         req[r].phase \in {"turn", "persist", "rebuild"}
  PROVE  Keeps(r)
<1>1. PICK p \in {"persist", "stamp", "build", "abandon"} : Goto(r, p)
  BY BackIs
<1>2. p # "retire"
  OBVIOUS
<1> QED BY <1>1, <1>2, GotoKeeps

LEMMA DistinctStep ==
  ASSUME Goroutines, Objects, Others, Shape, Work, Distinct, [Next]_vars
  PROVE  Distinct'
<1>1. CASE UNCHANGED vars
  BY <1>1 DEF Goroutines, Objects, Goroutine, Object, Distinct, Shape, Located, Blank, Detached,
     Alone, Opens, vars, fileVars, history
<1>2. ASSUME NEW r \in Request, Prompt(r) PROVE Distinct'
  <2>1. Keeps(r)
    BY <1>2, Paths DEF Prompt, Serve, At, Keeps, On, Goroutines, Goroutine, Shape, Located, Detached
  <2>2. SameCtrls
    BY <1>2 DEF Prompt, Serve, SameCtrls, Objects, Object
  <2> QED BY <2>1, <2>2, DistinctKept
<1>3. ASSUME NEW r \in Request, SetConfig(r) PROVE Distinct'
  <2>1. Keeps(r)
    BY <1>3, Paths DEF SetConfig, At, Keeps, On, Goroutines, Goroutine, Shape, Located, Detached
  <2>2. SameCtrls
    BY <1>3 DEF SetConfig, SameCtrls, Objects, Object
  <2> QED BY <2>1, <2>2, DistinctKept
<1>4. ASSUME NEW r \in Request, Take(r) PROVE Distinct'
  <2>1. Keeps(r)
    BY <1>4, Paths DEF Take, At, Keeps, On, Goroutines, Goroutine, Shape, Located, Detached
  <2>2. SameCtrls
    BY <1>4 DEF Take, SameCtrls, Objects, Object
  <2> QED BY <2>1, <2>2, DistinctKept
<1>5. ASSUME NEW r \in Request, DeleteClosed(r) PROVE Distinct'
  <2>1. Keeps(r)
    BY <1>5, Paths DEF DeleteClosed, Serve, At, Keeps, On, Goroutines, Goroutine, Shape,
       Located, Detached
  <2>2. SameCtrls
    BY <1>5 DEF DeleteClosed, Serve, SameCtrls, Objects, Object
  <2> QED BY <2>1, <2>2, DistinctKept
<1>6. ASSUME NEW r \in Request, Load(r) PROVE Distinct'
  <2>1. Keeps(r)
    BY <1>6, Paths DEF Load, At, FreeSessions, Unserved, Keeps, On, Goroutines, Goroutine,
       Shape, Located, Detached
  <2>2. SameCtrls
    BY <1>6 DEF Load, SameCtrls, Objects, Object
  <2> QED BY <2>1, <2>2, DistinctKept
<1>7. ASSUME NEW r \in Request, Begin(r) PROVE Distinct'
  <2>1. Keeps(r)
    BY <1>7, GotoKeeps DEF Begin
  <2>2. SameCtrls
    BY <1>7 DEF Begin, SameCtrls, Objects, Object
  <2> QED BY <2>1, <2>2, DistinctKept
<1>8. ASSUME NEW r \in Request, BeginRefused(r) PROVE Distinct'
  <2>1. Keeps(r)
    BY <1>8, EndKeeps DEF BeginRefused
  <2>2. SameCtrls
    BY <1>8 DEF BeginRefused, SameCtrls, Objects, Object
  <2> QED BY <2>1, <2>2, DistinctKept
<1>9. ASSUME NEW r \in Request, Enter(r) PROVE Distinct'
  <2>1. Keeps(r)
    BY <1>9, Paths DEF Enter, On, At, Keeps, On, Goroutines, Goroutine, Shape, Located, Detached
  <2>2. SameCtrls
    BY <1>9 DEF Enter, SameCtrls, Objects, Object
  <2> QED BY <2>1, <2>2, DistinctKept
<1>10. ASSUME NEW r \in Request, Persist(r) PROVE Distinct'
  <2>1. Keeps(r)
    BY <1>10, Paths DEF Persist, On, At, Keeps, On, Goroutines, Goroutine, Shape, Located, Detached
  <2>2. SameCtrls
    BY <1>10 DEF Persist, SameCtrls, Objects, Object
  <2> QED BY <2>1, <2>2, DistinctKept
<1>11. ASSUME NEW r \in Request, Stamp(r) PROVE Distinct'
  <2>1. Keeps(r)
    BY <1>11, GotoKeeps DEF Stamp
  <2>2. SameCtrls
    BY <1>11 DEF Stamp, SameCtrls, Objects, Object
  <2> QED BY <2>1, <2>2, DistinctKept
<1>12. ASSUME NEW r \in Request, Finish(r) PROVE Distinct'
  <2>1. Keeps(r)
    BY <1>12, Paths DEF Finish, At, Keeps, On, Goroutines, Goroutine, Shape, Located, Detached
  <2>2. SameCtrls
    BY <1>12 DEF Finish, SameCtrls, Objects, Object
  <2> QED BY <2>1, <2>2, DistinctKept
<1>13. ASSUME NEW r \in Request, TurnReturns(r) PROVE Distinct'
  <2>1. Keeps(r)
    BY <1>13, Paths DEF TurnReturns, At, Keeps, On, Goroutines, Goroutine, Shape, Located, Detached
  <2>2. SameCtrls
    BY <1>13 DEF TurnReturns, SameCtrls, Objects, Object
  <2> QED BY <2>1, <2>2, DistinctKept
<1>14. ASSUME NEW r \in Request, Cancel(r) PROVE Distinct'
  BY <1>14, Paths DEF Cancel, Goroutines, Objects, Goroutine, Object, Distinct, Shape, Located,
     Blank, Detached, Alone, Opens, fileVars, history
<1>15. ASSUME NEW r \in Request, Saved(r) PROVE Distinct'
  <2>1. Keeps(r)
    <3>1. req[r].phase \in {"turn", "persist", "rebuild"}
      BY <1>15 DEF Saved, At, Shape, Located, Saves
    <3> QED BY <1>15, <3>1, BackKeeps DEF Saved
  <2>2. SameCtrls
    BY <1>15 DEF Saved, SameCtrls, Objects, Object
  <2> QED BY <2>1, <2>2, DistinctKept
<1>16. ASSUME NEW r \in Request, NotSaved(r) PROVE Distinct'
  <2>1. Keeps(r)
    <3>1. req[r].phase \in {"turn", "persist", "rebuild"}
      BY <1>16 DEF NotSaved, At, Shape, Located, Saves
    <3> QED BY <1>16, <3>1, BackKeeps DEF NotSaved
  <2>2. SameCtrls
    BY <1>16 DEF NotSaved, SameCtrls, Objects, Object
  <2> QED BY <2>1, <2>2, DistinctKept
<1>17. ASSUME NEW r \in Request, Recover(r) PROVE Distinct'
  <2>1. Keeps(r)
    BY <1>17, Paths DEF Recover, At, Keeps, On, Goroutines, Goroutine, Shape, Located, Detached
  <2>2. SameCtrls
    BY <1>17 DEF Recover, SameCtrls, Objects, Object
  <2> QED BY <2>1, <2>2, DistinctKept
<1>18. ASSUME NEW r \in Request, Follow(r) PROVE Distinct'
  <2>1. Keeps(r)
    BY <1>18, Paths DEF Follow, At, Keeps, On, Goroutines, Goroutine, Shape, Located, Detached
  <2>2. SameCtrls
    BY <1>18 DEF Follow, SameCtrls, Objects, Object
  <2> QED BY <2>1, <2>2, DistinctKept
<1>19. ASSUME NEW r \in Request, Secure(r) PROVE Distinct'
  <2>1. Keeps(r)
    <3>1. req[r].phase \in {"turn", "persist", "rebuild"}
      BY <1>19 DEF Secure, At, Shape, Located, Saves
    <3> QED BY <1>19, <3>1, BackKeeps, GotoKeeps DEF Secure
  <2>2. SameCtrls
    BY <1>19 DEF Secure, SameCtrls, Objects, Object
  <2> QED BY <2>1, <2>2, DistinctKept
<1>20. ASSUME NEW r \in Request, Assign(r) PROVE Distinct'
  <2>1. Keeps(r)
    <3>1. req[r].phase \in {"turn", "persist", "rebuild"}
      BY <1>20 DEF Assign, At, Shape, Located, Saves
    <3> QED BY <1>20, <3>1, BackKeeps, GotoKeeps DEF Assign
  <2>2. SameCtrls
    <3>1. req[r].to \in Session
      BY <1>20 DEF Assign, At, Shape, Located, Goroutines, Goroutine
    <3>2. CASE UNCHANGED sess
      BY <3>2 DEF SameCtrls
    <3>3. CASE MoveTo(req[r].to, req[r].at)
      BY <3>1, <3>3 DEF MoveTo, SameCtrls, Objects, Object
    <3> QED BY <1>20, <3>2, <3>3 DEF Assign
  <2> QED BY <2>1, <2>2, DistinctKept
<1>21. ASSUME NEW r \in Request, Redirect(r) PROVE Distinct'
  <2>1. Keeps(r)
    BY <1>21, GotoKeeps DEF Redirect
  <2>2. SameCtrls
    BY <1>21 DEF Redirect, SameCtrls, Objects, Object
  <2> QED BY <2>1, <2>2, DistinctKept
<1>22. ASSUME NEW r \in Request, Commit(r) PROVE Distinct'
  <2>1. Keeps(r)
    <3>1. req[r].phase \in {"turn", "persist", "rebuild"}
      BY <1>22 DEF Commit, At, Shape, Located, Saves
    <3> QED BY <1>22, <3>1, BackKeeps DEF Commit
  <2>2. SameCtrls
    BY <1>22 DEF Commit, SameCtrls, Objects, Object
  <2> QED BY <2>1, <2>2, DistinctKept
<1>23. ASSUME NEW r \in Request, ClaimRefused(r) PROVE Distinct'
  <2>1. Keeps(r)
    BY <1>23, GotoKeeps, EndKeeps DEF ClaimRefused, Fail
  <2>2. SameCtrls
    BY <1>23 DEF ClaimRefused, SameCtrls, Objects, Object
  <2> QED BY <2>1, <2>2, DistinctKept
<1>24. ASSUME NEW r \in Request, Queue(r) PROVE Distinct'
  <2>1. Keeps(r)
    BY <1>24, EndKeeps, Paths DEF Queue, Keeps, Goroutines, Goroutine
  <2>2. SameCtrls
    BY <1>24 DEF Queue, SameCtrls, Objects, Object
  <2> QED BY <2>1, <2>2, DistinctKept
<1>25. ASSUME NEW r \in Request, Claim(r) PROVE Distinct'
  <2>1. Keeps(r)
    BY <1>25, Paths DEF Claim, At, On, Keeps, On, Goroutines, Goroutine, Shape, Located, Detached
  <2>2. SameCtrls
    BY <1>25 DEF Claim, SameCtrls, Objects, Object
  <2> QED BY <2>1, <2>2, DistinctKept
<1>26. ASSUME NEW r \in Request, Build(r) PROVE Distinct'
  BY <1>26, Paths DEF Build, At, FreeCtrls, Goroutines, Objects, Goroutine, Object, Distinct,
     Shape, Located, Blank, Detached, Alone, Opens, fileVars, history
<1>27. ASSUME NEW r \in Request, BuildFails(r) PROVE Distinct'
  <2>1. Keeps(r)
    BY <1>27, GotoKeeps DEF BuildFails
  <2>2. SameCtrls
    BY <1>27 DEF BuildFails, SameCtrls, Objects, Object
  <2> QED BY <2>1, <2>2, DistinctKept
<1>28. ASSUME NEW r \in Request, Swap(r) PROVE Distinct'
  BY <1>28, Paths DEF Swap, At, On, SaveMeta, Goroutines, Objects, Goroutine, Object, Distinct,
     Shape, Located, Blank, Detached, Alone, Opens, fileVars, history
<1>29. ASSUME NEW r \in Request, SwapRefused(r) PROVE Distinct'
  BY <1>29, Paths DEF SwapRefused, At, On, Goroutines, Objects, Goroutine, Object, Distinct,
     Shape, Located, Blank, Detached, Alone, Opens, fileVars, history
<1>30. ASSUME NEW r \in Request, Retire(r) PROVE Distinct'
  BY <1>30, Paths DEF Retire, At, Goroutines, Objects, Goroutine, Object, Distinct, Shape,
     Located, Blank, Detached, Alone, Opens, fileVars, history
<1>31. ASSUME NEW r \in Request, Unwind(r) PROVE Distinct'
  <2>1. Keeps(r)
    BY <1>31, GotoKeeps DEF Unwind
  <2>2. SameCtrls
    BY <1>31 DEF Unwind, SameCtrls, Objects, Object
  <2> QED BY <2>1, <2>2, DistinctKept
<1>32. ASSUME NEW r \in Request, Abandon(r) PROVE Distinct'
  <2>1. Keeps(r)
    BY <1>32, EndKeeps, Paths DEF Abandon, Keeps, Goroutines, Goroutine
  <2>2. SameCtrls
    BY <1>32 DEF Abandon, SameCtrls, Objects, Object
  <2> QED BY <2>1, <2>2, DistinctKept
<1>33. ASSUME NEW r \in Request, Apply(r) PROVE Distinct'
  <2>1. Keeps(r)
    BY <1>33, GotoKeeps, EndKeeps DEF Apply
  <2>2. SameCtrls
    BY <1>33 DEF Apply, SameCtrls, Objects, Object
  <2> QED BY <2>1, <2>2, DistinctKept
<1>34. ASSUME NEW r \in Request, Copy(r) PROVE Distinct'
  <2>1. Keeps(r)
    BY <1>34, EndKeeps, Paths DEF Copy, Keeps, Goroutines, Goroutine
  <2>2. SameCtrls
    BY <1>34 DEF Copy, SameCtrls, Objects, Object
  <2> QED BY <2>1, <2>2, DistinctKept
<1>35. ASSUME NEW r \in Request, Drop(r) PROVE Distinct'
  <2>1. Keeps(r)
    BY <1>35, EndKeeps DEF Drop
  <2>2. SameCtrls
    BY <1>35 DEF Drop, SameCtrls, Objects, Object
  <2> QED BY <2>1, <2>2, DistinctKept
<1>36. ASSUME NEW r \in Request, Abort(r) PROVE Distinct'
  <2>1. Keeps(r)
    BY <1>36, GotoKeeps DEF Abort
  <2>2. SameCtrls
    BY <1>36 DEF Abort, SameCtrls, Objects, Object
  <2> QED BY <2>1, <2>2, DistinctKept
<1>37. ASSUME NEW r \in Request, Waited(r) PROVE Distinct'
  <2>1. Keeps(r)
    BY <1>37, GotoKeeps DEF Waited
  <2>2. SameCtrls
    BY <1>37 DEF Waited, SameCtrls, Objects, Object
  <2> QED BY <2>1, <2>2, DistinctKept
<1>38. ASSUME NEW r \in Request, Shut(r) PROVE Distinct'
  <2>1. Keeps(r)
    BY <1>38, GotoKeeps DEF Shut
  <2>2. SameCtrls
    BY <1>38 DEF Shut, SameCtrls, Objects, Object
  <2> QED BY <2>1, <2>2, DistinctKept
<1>39. ASSUME NEW r \in Request, Release(r) PROVE Distinct'
  <2>1. Keeps(r)
    BY <1>39, GotoKeeps, EndKeeps DEF Release
  <2>2. SameCtrls
    BY <1>39 DEF Release, SameCtrls, Objects, Object
  <2> QED BY <2>1, <2>2, DistinctKept
<1>40. ASSUME NEW r \in Request, Destroy(r) PROVE Distinct'
  <2>1. Keeps(r)
    BY <1>40, Paths DEF Destroy, At, On, Keeps, On, Goroutines, Goroutine, Shape, Located, Detached
  <2>2. SameCtrls
    BY <1>40 DEF Destroy, SameCtrls, Objects, Object
  <2> QED BY <2>1, <2>2, DistinctKept
<1>41. ASSUME NEW r \in Request, Erase(r) PROVE Distinct'
  <2>1. Keeps(r)
    BY <1>41, GotoKeeps DEF Erase
  <2>2. SameCtrls
    BY <1>41 DEF Erase, SameCtrls, Objects, Object
  <2> QED BY <2>1, <2>2, DistinctKept
<1>42. ASSUME NEW r \in Request, Twin(r) PROVE Distinct'
  <2>1. Keeps(r)
    BY <1>42, GotoKeeps, EndKeeps DEF Twin
  <2>2. SameCtrls
    BY <1>42 DEF Twin, SameCtrls, Objects, Object
  <2> QED BY <2>1, <2>2, DistinctKept
<1>43. ASSUME NEW r \in Request, Linger(r) PROVE Distinct'
  <2>1. Keeps(r)
    BY <1>43, EndKeeps DEF Linger
  <2>2. SameCtrls
    BY <1>43 DEF Linger, SameCtrls, Objects, Object
  <2> QED BY <2>1, <2>2, DistinctKept
<1>44. ASSUME NEW r \in Request, ResolveAgain(r) PROVE Distinct'
  <2>1. Keeps(r)
    BY <1>44, EndKeeps, Paths DEF ResolveAgain, Keeps, Goroutines, Goroutine
  <2>2. SameCtrls
    BY <1>44 DEF ResolveAgain, SameCtrls, Objects, Object
  <2> QED BY <2>1, <2>2, DistinctKept
<1>45. ASSUME NEW r \in Request, Acquire(r) PROVE Distinct'
  <2>1. Keeps(r)
    BY <1>45, GotoKeeps, EndKeeps DEF Acquire
  <2>2. SameCtrls
    BY <1>45 DEF Acquire, SameCtrls, Objects, Object
  <2> QED BY <2>1, <2>2, DistinctKept
<1>46. ASSUME NEW r \in Request, Read(r) PROVE Distinct'
  BY <1>46, Paths DEF Read, At, FreeCtrls, Opened, Goto, Race, Overlap, Goroutines, Objects,
     Goroutine, Object, Distinct, Shape, Located, Blank, Detached, Alone, Opens, fileVars,
     history
<1>47. ASSUME NEW r \in Request, ReadFails(r) PROVE Distinct'
  <2>1. Keeps(r)
    BY <1>47, EndKeeps DEF ReadFails
  <2>2. SameCtrls
    BY <1>47 DEF ReadFails, SameCtrls, Objects, Object
  <2> QED BY <2>1, <2>2, DistinctKept
<1>48. ASSUME NEW r \in Request, LoadMeta(r) PROVE Distinct'
  <2>1. Keeps(r)
    BY <1>48, GotoKeeps DEF LoadMeta
  <2>2. SameCtrls
    BY <1>48 DEF LoadMeta, SameCtrls, Objects, Object
  <2> QED BY <2>1, <2>2, DistinctKept
<1>49. ASSUME NEW r \in Request, LoadMetaFails(r) PROVE Distinct'
  BY <1>49, Paths DEF LoadMetaFails, At, Unlock, End, Unserved, Opened, Unopened, Goroutines,
     Objects, Goroutine, Object, Distinct, Shape, Located, Blank, Detached, Alone, Opens,
     fileVars, history
<1>50. ASSUME NEW r \in Request, Register(r) PROVE Distinct'
  <2>1. Keeps(r)
    BY <1>50, EndKeeps DEF Register
  <2>2. SameCtrls
    BY <1>50 DEF Register, SameCtrls, Objects, Object
  <2> QED BY <2>1, <2>2, DistinctKept
<1>51. ASSUME NEW p \in Path, OtherAcquires(p) PROVE Distinct'
  BY <1>51, Paths DEF OtherAcquires, Goroutines, Objects, Goroutine, Object, Distinct, Shape,
     Located, Blank, Detached, Alone, Opens, fileVars, history
<1>52. ASSUME NEW p \in Path, OtherReleases(p) PROVE Distinct'
  BY <1>52, Paths DEF OtherReleases, Unlock, Goroutines, Objects, Goroutine, Object, Distinct,
     Shape, Located, Blank, Detached, Alone, Opens, fileVars, history
<1>53. ASSUME NEW p \in Path, Reconcile(p) PROVE Distinct'
  BY <1>53, Paths DEF Reconcile, Remove, Goroutines, Objects, Goroutine, Object, Distinct,
     Shape, Located, Blank, Detached, Alone, Opens, fileVars, history
<1>54. CASE Crash
  BY <1>54, Paths DEF Crash, Unserved, Unopened, Opened, At, Goroutines, Objects, Goroutine,
     Object, Distinct, Shape, Located, Blank, Detached, Alone, Opens, fileVars, history
<1> QED BY <1>1, <1>2, <1>3, <1>4, <1>5, <1>6, <1>7, <1>8, <1>9, <1>10, <1>11, <1>12, <1>13,
           <1>14, <1>15, <1>16, <1>17, <1>18, <1>19, <1>20, <1>21, <1>22, <1>23, <1>24, <1>25,
           <1>26, <1>27, <1>28, <1>29, <1>30, <1>31, <1>32, <1>33, <1>34, <1>35, <1>36, <1>37,
           <1>38, <1>39, <1>40, <1>41, <1>42, <1>43, <1>44, <1>45, <1>46, <1>47, <1>48, <1>49,
           <1>50, <1>51, <1>52, <1>53, <1>54 DEF Next, Start, Continue, Turn, Save, Rebuild,
           Close, Open
-----------------------------------------------------------------------------
(***************************************************************************)
(* The theorem.                                                            *)
(***************************************************************************)
Inv == Goroutines /\ Objects /\ Others /\ Shape /\ Work /\ Distinct

LEMMA InitTyped == Init => Goroutines /\ Objects /\ Others
<1> SUFFICES ASSUME Init PROVE Goroutines /\ Objects /\ Others
  OBVIOUS
<1>1. Unserved \in Goroutine
  BY Paths DEF Unserved, Goroutine, Pc, Phases
<1>2. (CHOOSE c \in Ctrl : TRUE) \in Ctrl
  BY FirstAssumption
<1>3. Opened(CHOOSE c \in Ctrl : TRUE, Default, Main) \in Object
  BY <1>2, Paths, FirstAssumption DEF Opened, Object
<1>4. Goroutines
  BY <1>1 DEF Init, Goroutines
<1>5. Objects
  BY <1>3, UnopenedTyped DEF Init, Objects
<1>6. Others
  BY Paths, FirstAssumption DEF Init, Others
<1> QED BY <1>4, <1>5, <1>6

\* Nothing is under way at the start, and one session is open.
LEMMA Started ==
  ASSUME Init
  PROVE  /\ live = First /\ First \in Session
         /\ \A r \in Request : /\ req[r].pc = "idle" /\ req[r].on = None /\ req[r].ctrl = None
                               /\ req[r].next = None /\ req[r].to = None
         /\ sess[First].ctrl \in Ctrl /\ sess[First].config = Default /\ sess[First].lease = Main
         /\ \A s \in Session : /\ s # First => sess[s].ctrl = None /\ sess[s].lease = None
                               /\ sess[s].turn = None /\ sess[s].maint = None
                               /\ sess[s].pending = None /\ ~sess[s].deleted
<1>1. (CHOOSE c \in Ctrl : TRUE) \in Ctrl
  BY FirstAssumption
<1> QED BY <1>1, FirstAssumption DEF Init, Unserved, Opened, Unopened

LEMMA InitInv == Init => Inv
<1> SUFFICES ASSUME Init PROVE Inv
  OBVIOUS
<1>1. Shape
  BY Started, Paths DEF Shape, Located, Alone, Detached, Blank, Moves, Saves, Opens, Rebuilding
<1>2. Work
  BY Started, Paths DEF Work, Holds, Held, Turning, Rebuilding, Saves
<1>3. Distinct
  BY Started, Paths DEF Distinct
<1> QED BY <1>1, <1>2, <1>3, InitTyped DEF Inv

LEMMA InvStep == Inv /\ [Next]_vars => Inv'
BY TypedStep, ShapeStep, WorkStep, DistinctStep DEF Inv

\* Turns and rebuilds of a session exclude each other, and work on the one
\* controller the session has (begin, finish, rebuildSession, finishMaintenance).
THEOREM Invariance == Spec => []Inv
BY InitInv, InvStep, PTL DEF Spec

\* Every reachable state is well typed: of the registry, the session objects, the
\* goroutines and their local variables, and the files (service.go:165-259).
THEOREM TypeCorrect == Spec => []TypeOK
<1>1. Inv => TypeOK
  BY Types DEF Inv
<1> QED BY <1>1, Invariance, PTL
=============================================================================
