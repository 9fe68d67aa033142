----------------------------- MODULE Approvals -----------------------------
(***************************************************************************)
(* The user's say over tool calls: the prompts, grants and postures of     *)
(* approvalManager (internal/control/approval.go), and the operations of   *)
(* the controller around it (internal/control/controller.go): the gate a   *)
(* call passes, the request that blocks on an answer, the switch of        *)
(* posture, Cancel, and the turn that issues the calls.                    *)
(*                                                                         *)
(* c.mu, a.mu and promptMu are separate locks and none is held across two  *)
(* of these: a step is one critical section.                               *)
(***************************************************************************)
EXTENDS FiniteSets

CONSTANTS
    Call,        \* the calls that ask for an approval, each at most once
    Turn,        \* the turns that may run, each at most once
    Canceller,   \* the goroutines that may be inside Cancel
    Switcher,    \* the goroutines that may be inside SetToolApprovalMode
    Kind,        \* what each call asks for
    Scope,       \* the scopes of session grants
    ScopeOf,     \* SessionGrantRuleForScope: the scope of each call
    Mode,        \* the postures the user switches between
    Timeouts,    \* whether approvalTimeout may be set (bots do, terminals do not)
    None

(***************************************************************************)
(* "writer": no rule matches, the writer fallback decides.  "asked": an    *)
(* explicit ask rule.  "trust": a fresh decision a session grant may       *)
(* answer (sandbox escape, read-only trust).  "memory" and "plan": fresh,  *)
(* and never answered by a grant.  "question": the ask tool.               *)
(***************************************************************************)
Kinds == {"writer", "asked", "trust", "memory", "plan", "question"}

ASSUME KindAssumption == Kind \in [Call -> Kinds]
ASSUME ScopeAssumption == ScopeOf \in [Call -> Scope]
ASSUME ModeAssumption == Mode \subseteq {"ask", "auto", "yolo"} /\ "ask" \in Mode
ASSUME FlagAssumption == Timeouts \subseteq BOOLEAN


\* The tools of read-only kind, which executeBatch runs beside each other.
Parallel(c) == Kind[c] \in {"asked", "trust", "question"}

\* requiresFreshApprovalTool, or requested with opts.fresh; a question has no
\* entry in a.approvals at all.
Fresh(c) == Kind[c] \in {"trust", "memory", "plan", "question"}

\* What ends up deciding a call.
Decision == {"policy", "bypass", "grant", "user", "auto", "yolo", "refused"}

Answer == {"allow", "session", "deny"}

\* What a reply channel carries: the answer and whose it is, the user's or the
\* one of the posture that drained the prompt.
Reply == [answer : Answer, by : {"user", "auto", "yolo"}]

ASSUME NoneAssumption == None \notin Turn \cup Call \cup Decision \cup Reply

VARIABLES
    turn,        \* c.running and c.cancel: the running turn, None
    begun,       \* the turns that have been started
    canceling,   \* c.canceling
    rotating,    \* c.rotating
    executing,   \* the turn is executing an approved plan
    ctxDone,     \* turns whose context is cancelled
    pc,          \* where each call is
    turnOf,      \* the turn that issued the call
    decided,     \* what decided it
    pending,     \* a.approvals and a.asks: the prompts that can be answered
    reply,       \* the answer in the reply channel of each prompt
    promptMu,    \* the call that holds promptMu
    granted,     \* a.granted
    mode,        \* a.toolApprovalMode
    window,      \* a.planAutoApprove
    hasTimeout,  \* a.approvalTimeout > 0, fixed at construction
    gate,        \* the posture the executor's gate was built for
    switch,      \* the progress of each SetToolApprovalMode
    canceller,   \* the turn whose cancel function each Cancel has picked up
    cleared,     \* cancellers past clearAll
    stray        \* history: calls whose prompt a Cancel of another turn dropped

turnVars   == <<turn, begun, canceling, rotating, executing, ctxDone>>
callVars   == <<pc, turnOf, decided>>
promptVars == <<pending, reply, promptMu, granted>>
modeVars   == <<mode, gate, switch>>
openVars   == <<window, hasTimeout>>
cancelVars == <<canceller, cleared, stray>>
vars == <<turnVars, callVars, promptVars, openVars, modeVars, cancelVars>>

Idle == [at |-> "idle", to |-> "ask", mode |-> "ask", drained |-> {}]

\* The calls a turn is waiting for.
InFlight(t) == {c \in Call : turnOf[c] = t /\ pc[c] # "over"}

Init ==
    /\ turn = None /\ begun = {} /\ canceling = FALSE /\ rotating = FALSE
    /\ executing = FALSE /\ ctxDone = {}
    /\ pc = [c \in Call |-> "new"]
    /\ turnOf = [c \in Call |-> None]
    /\ decided = [c \in Call |-> None]
    /\ pending = {}
    /\ reply = [c \in Call |-> None]
    /\ promptMu = None
    /\ granted = {}
    /\ mode = "ask" /\ gate = "ask" /\ window = FALSE
    /\ hasTimeout \in Timeouts
    /\ switch = [k \in Switcher |-> Idle]
    /\ canceller = [k \in Canceller |-> None]
    /\ cleared = {} /\ stray = {}

-----------------------------------------------------------------------------
(* The turn. *)

\* runGuarded and RunTurn up to the unlock.
StartTurn(t) ==
    /\ turn = None /\ ~rotating
    /\ t \notin begun
    /\ turn' = t
    /\ begun' = begun \cup {t}
    /\ canceling' = FALSE
    /\ UNCHANGED <<rotating, executing, ctxDone, callVars, promptVars, openVars,
                   modeVars, cancelVars>>

\* The body has returned, with all its tool calls: the turn is over, and its
\* deferred cancel ends the context.
FinishTurn ==
    /\ turn # None /\ ~executing
    /\ InFlight(turn) = {}
    /\ turn' = None
    /\ canceling' = FALSE
    /\ ctxDone' = ctxDone \cup {turn}
    /\ UNCHANGED <<begun, rotating, executing, callVars, promptVars, openVars,
                   modeVars, cancelVars>>

\* beginRotation and endRotation, around a change of session.
BeginRotation ==
    /\ turn = None /\ ~rotating
    /\ rotating' = TRUE
    /\ UNCHANGED <<turn, begun, canceling, executing, ctxDone, callVars,
                   promptVars, openVars, modeVars, cancelVars>>

EndRotation ==
    /\ rotating
    /\ rotating' = FALSE
    /\ UNCHANGED <<turn, begun, canceling, executing, ctxDone, callVars,
                   promptVars, openVars, modeVars, cancelVars>>

\* runOrchestratedTurn after an approved plan: the writers of the execution
\* are allowed without a prompt, until it returns.
ExecutePlan(c) ==
    /\ pc[c] = "approved"
    /\ pc' = [pc EXCEPT ![c] = "over"]
    /\ executing' = TRUE
    /\ window' = TRUE
    /\ UNCHANGED <<turn, begun, canceling, rotating, ctxDone, turnOf, decided,
                   promptVars, hasTimeout, modeVars, cancelVars>>

\* Mutant: the window is left open when the execution has returned.
PlanLeavesWindow ==
    /\ executing
    /\ InFlight(turn) = {}
    /\ executing' = FALSE
    /\ UNCHANGED <<turn, begun, canceling, rotating, ctxDone, callVars,
                   promptVars, openVars, modeVars, cancelVars>>

\* Its deferred setPlanAutoApprove(false), whether it succeeded or failed.
PlanExecuted ==
    /\ executing
    /\ InFlight(turn) = {}
    /\ executing' = FALSE
    /\ window' = FALSE
    /\ UNCHANGED <<turn, begun, canceling, rotating, ctxDone, callVars,
                   promptVars, hasTimeout, modeVars, cancelVars>>

-----------------------------------------------------------------------------
(* A call. *)

Decide(c, d) ==
    /\ pc' = [pc EXCEPT ![c] = "over"]
    /\ decided' = [decided EXCEPT ![c] = d]

Goto(c, place) == pc' = [pc EXCEPT ![c] = place]

\* executeOne: the gate lets a writer pass in auto and yolo, everything else
\* is referred to the user. The plan is put to the user between two runs of
\* the model, when no tool runs; a question goes straight to promptMu.
Issue(c) ==
    /\ turn # None /\ turn \notin ctxDone
    /\ pc[c] = "new"
    /\ \A d \in InFlight(turn) : Parallel(c) /\ Parallel(d)
    /\ Kind[c] = "plan" => ~executing
    /\ turnOf' = [turnOf EXCEPT ![c] = turn]
    /\ IF Kind[c] = "writer" /\ gate \in {"auto", "yolo"}
       THEN Decide(c, "policy")
       ELSE /\ Goto(c, IF Kind[c] = "question" THEN "queued" ELSE "checking")
            /\ UNCHANGED decided
    /\ UNCHANGED <<turnVars, promptVars, openVars, modeVars, cancelVars>>

\* bypassAllowsLocked and sessionGrantAllowsLocked.
Bypassed(c) == ~Fresh(c) /\ (mode = "yolo" \/ window)
Granted(c)  == Kind[c] \in {"writer", "asked", "trust"} /\ ScopeOf[c] \in granted
PreApproved(c) == Bypassed(c) \/ Granted(c)
Means(c) == IF Bypassed(c) THEN "bypass" ELSE "grant"

\* The first preApprovedForDecision, before promptMu.
Check(c) ==
    /\ pc[c] = "checking"
    /\ IF PreApproved(c) THEN Decide(c, Means(c))
                         ELSE Goto(c, "queued") /\ UNCHANGED decided
    /\ UNCHANGED <<turnVars, turnOf, promptVars, openVars, modeVars, cancelVars>>

LockPrompt(c) ==
    /\ pc[c] = "queued"
    /\ promptMu = None
    /\ promptMu' = c
    /\ Goto(c, IF Kind[c] = "question" THEN "rechecked" ELSE "holding")
    /\ UNCHANGED <<turnVars, turnOf, decided, pending, reply, granted, openVars,
                   modeVars, cancelVars>>

\* The second one, under promptMu.
Recheck(c) ==
    /\ pc[c] = "holding"
    /\ IF PreApproved(c)
       THEN Decide(c, Means(c)) /\ promptMu' = None
       ELSE Goto(c, "rechecked") /\ UNCHANGED <<decided, promptMu>>
    /\ UNCHANGED <<turnVars, turnOf, pending, reply, granted, openVars, modeVars,
                   cancelVars>>

\* registerDecision or registerAsk, and the event that shows the prompt.
Register(c) ==
    /\ pc[c] = "rechecked"
    /\ pending' = pending \cup {c}
    /\ Goto(c, "waiting")
    /\ UNCHANGED <<turnVars, turnOf, decided, reply, promptMu, granted, openVars,
                   modeVars, cancelVars>>

\* The select takes the reply: promptMu is released on return, and only then
\* a session grant is recorded. An approved plan is executed next.
TakeReply(c) ==
    /\ pc[c] = "waiting"
    /\ reply[c] # None
    /\ reply' = [reply EXCEPT ![c] = None]
    /\ promptMu' = None
    /\ CASE reply[c].answer = "deny"    -> Decide(c, "refused")
         [] reply[c].answer = "allow"   ->
                /\ Goto(c, IF Kind[c] = "plan" THEN "approved" ELSE "over")
                /\ decided' = [decided EXCEPT ![c] = reply[c].by]
         [] reply[c].answer = "session" -> Goto(c, "granting") /\ UNCHANGED decided
    /\ UNCHANGED <<turnVars, turnOf, pending, granted, openVars, modeVars, cancelVars>>

\* Mutant: the prompt of a call that has given up is not taken back.
GiveUpKeepsPrompt(c) ==
    /\ pc[c] = "waiting"
    /\ hasTimeout \/ turnOf[c] \in ctxDone
    /\ promptMu' = None
    /\ Decide(c, "refused")
    /\ UNCHANGED <<turnVars, turnOf, pending, reply, granted, openVars, modeVars,
                   cancelVars>>

\* Mutant: the wait is on the turn's context, not on the bounded one.
GiveUpUnbounded(c) ==
    /\ pc[c] = "waiting"
    /\ turnOf[c] \in ctxDone
    /\ pending' = pending \ {c}
    /\ promptMu' = None
    /\ Decide(c, "refused")
    /\ UNCHANGED <<turnVars, turnOf, reply, granted, openVars, modeVars, cancelVars>>

\* The select takes waitCtx.Done, also when a reply is there too.
GiveUp(c) ==
    /\ pc[c] = "waiting"
    /\ hasTimeout \/ turnOf[c] \in ctxDone
    /\ pending' = pending \ {c}
    /\ promptMu' = None
    /\ Decide(c, "refused")
    /\ UNCHANGED <<turnVars, turnOf, reply, granted, openVars, modeVars, cancelVars>>

\* grantSession.
Grant(c) ==
    /\ pc[c] = "granting"
    /\ granted' = granted \cup {ScopeOf[c]}
    /\ Decide(c, "user")
    /\ UNCHANGED <<turnVars, turnOf, pending, reply, promptMu, openVars, modeVars,
                   cancelVars>>

-----------------------------------------------------------------------------
(* The user. *)

\* Approve or AnswerQuestion for a prompt that is still there; the send into
\* the buffered channel cannot block. A scope is only remembered for the kinds
\* that have one.
Approve(c, answer) ==
    /\ c \in pending
    /\ answer = "session" => Kind[c] \in {"writer", "asked", "trust"}
    /\ pending' = pending \ {c}
    /\ reply' = [reply EXCEPT ![c] = [answer |-> answer, by |-> "user"]]
    /\ UNCHANGED <<turnVars, callVars, promptMu, granted, openVars, modeVars, cancelVars>>

\* Mutant: a posture drains what asks for a fresh decision too.
DrainedFreshToo(m) == {c \in pending : \/ m = "yolo"
                                       \/ m = "auto" /\ Kind[c] = "writer"}

\* drainLocked: the pending prompts the new posture answers.
Drained(m) == {c \in pending : /\ ~Fresh(c)
                               /\ \/ m = "yolo"
                                  \/ m = "auto" /\ Kind[c] = "writer"}

\* Mutant: the posture is stored under the alias the frontend sent.
SetModeRaw(k, m) ==
    /\ switch[k].at = "idle"
    /\ mode' = IF m = "yolo" THEN "full-access" ELSE m
    /\ switch' = [switch EXCEPT ![k] =
                      [at |-> "set", to |-> m, mode |-> "ask", drained |-> Drained(m)]]
    /\ pending' = pending \ Drained(m)
    /\ UNCHANGED <<turnVars, callVars, reply, promptMu, granted, openVars, gate, cancelVars>>

\* SetToolApprovalMode: setMode.
SetMode(k, m) ==
    /\ switch[k].at = "idle"
    /\ mode' = m
    /\ switch' = [switch EXCEPT ![k] =
                      [at |-> "set", to |-> m, mode |-> "ask", drained |-> Drained(m)]]
    /\ pending' = pending \ Drained(m)
    /\ UNCHANGED <<turnVars, callVars, reply, promptMu, granted, openVars, gate, cancelVars>>

\* refreshInteractiveGate: a gate is built for the posture of the moment...
BuildGate(k) ==
    /\ switch[k].at = "set"
    /\ switch' = [switch EXCEPT ![k].at = "built", ![k].mode = mode]
    /\ UNCHANGED <<turnVars, callVars, promptVars, openVars, mode, gate, cancelVars>>

\* Mutant: the new gate is built and never installed.
InstallNothing(k) ==
    /\ switch[k].at = "built"
    /\ switch' = [switch EXCEPT ![k].at = "installed"]
    /\ UNCHANGED <<turnVars, callVars, promptVars, openVars, mode, gate, cancelVars>>

\* ... and then given to the executor.
InstallGate(k) ==
    /\ switch[k].at = "built"
    /\ gate' = switch[k].mode
    /\ switch' = [switch EXCEPT ![k].at = "installed"]
    /\ UNCHANGED <<turnVars, callVars, promptVars, openVars, mode, cancelVars>>

\* Mutant: the drained prompts are never told.
SendNothing(k) ==
    /\ switch[k].at = "installed"
    /\ switch' = [switch EXCEPT ![k] = Idle]
    /\ UNCHANGED <<turnVars, callVars, promptVars, openVars, mode, gate, cancelVars>>

\* The drained prompts are told last.
SendReplies(k) ==
    /\ switch[k].at = "installed"
    /\ reply' = [c \in Call |->
           IF c \in switch[k].drained
           THEN [answer |-> "allow", by |-> switch[k].to] ELSE reply[c]]
    /\ switch' = [switch EXCEPT ![k] = Idle]
    /\ UNCHANGED <<turnVars, callVars, pending, promptMu, granted, openVars, mode, gate,
                   cancelVars>>

\* Cancel: the cancel function is picked up under c.mu ...
Cancel(k) ==
    /\ canceller[k] = None
    /\ turn # None
    /\ canceller' = [canceller EXCEPT ![k] = turn]
    /\ canceling' = TRUE
    /\ UNCHANGED <<turn, begun, rotating, executing, ctxDone, callVars, promptVars,
                   openVars, modeVars, cleared, stray>>

\* ... then clearAll drops every prompt there is ...
ClearAll(k) ==
    /\ canceller[k] # None /\ k \notin cleared
    /\ pending' = {}
    /\ cleared' = cleared \cup {k}
    /\ stray' = stray \cup {c \in pending : turnOf[c] # canceller[k]}
    /\ UNCHANGED <<turnVars, callVars, reply, promptMu, granted, openVars, modeVars,
                   canceller>>

\* Mutant: Cancel leaves it at dropping the prompts.
CancelPromptsOnly(k) ==
    /\ k \in cleared
    /\ canceller' = [canceller EXCEPT ![k] = None]
    /\ cleared' = cleared \ {k}
    /\ UNCHANGED <<turnVars, callVars, promptVars, openVars, modeVars, stray>>

\* ... and then the context is cancelled.
CancelContext(k) ==
    /\ k \in cleared
    /\ ctxDone' = ctxDone \cup {canceller[k]}
    /\ canceller' = [canceller EXCEPT ![k] = None]
    /\ cleared' = cleared \ {k}
    /\ UNCHANGED <<turn, begun, canceling, rotating, executing, callVars, promptVars,
                   openVars, modeVars, stray>>

-----------------------------------------------------------------------------
Step(c) == \/ Check(c) \/ LockPrompt(c) \/ Recheck(c) \/ Register(c)
           \/ TakeReply(c) \/ GiveUp(c) \/ Grant(c) \/ ExecutePlan(c)

Switching(k) == BuildGate(k) \/ InstallGate(k) \/ SendReplies(k)

Cancelling(k) == ClearAll(k) \/ CancelContext(k)

Next ==
    \/ \E t \in Turn : StartTurn(t)
    \/ FinishTurn \/ BeginRotation \/ EndRotation \/ PlanExecuted
    \/ \E c \in Call : \/ Issue(c) \/ Step(c)
                       \/ \E answer \in Answer : Approve(c, answer)
    \/ \E k \in Switcher : Switching(k) \/ \E m \in Mode : SetMode(k, m)
    \/ \E k \in Canceller : Cancel(k) \/ Cancelling(k)

Spec == Init /\ [][Next]_vars

(***************************************************************************)
(* The goroutines of a call, a switch and a cancel go on, a turn whose     *)
(* calls are over returns, and a timer that is set fires.  Nobody is       *)
(* obliged to answer a prompt or to cancel a turn.                         *)
(***************************************************************************)
Fairness ==
    /\ \A c \in Call : /\ WF_vars(Check(c) \/ Recheck(c) \/ Register(c) \/ Grant(c)
                                 \/ ExecutePlan(c))
                       /\ WF_vars(LockPrompt(c))
                       /\ WF_vars(TakeReply(c) \/ GiveUp(c))
    /\ \A k \in Switcher : WF_vars(Switching(k))
    /\ \A k \in Canceller : WF_vars(Cancelling(k))
    /\ WF_vars(PlanExecuted)
    /\ WF_vars(FinishTurn)

FairSpec == Spec /\ Fairness

-----------------------------------------------------------------------------
(* Properties. *)

\* Every variable keeps its type.
TypeOK ==
    /\ turn \in Turn \cup {None} /\ begun \subseteq Turn /\ ctxDone \subseteq Turn
    /\ canceling \in BOOLEAN /\ rotating \in BOOLEAN /\ executing \in BOOLEAN
    /\ pc \in [Call -> {"new", "checking", "queued", "holding", "rechecked",
                        "waiting", "granting", "approved", "over"}]
    /\ turnOf \in [Call -> Turn \cup {None}]
    /\ decided \in [Call -> Decision \cup {None}]
    /\ pending \subseteq Call
    /\ reply \in [Call -> Reply \cup {None}]
    /\ promptMu \in Call \cup {None}
    /\ granted \subseteq Scope
    /\ mode \in Mode /\ gate \in Mode
    /\ window \in BOOLEAN /\ hasTimeout \in BOOLEAN
    /\ switch \in [Switcher -> [at : {"idle", "set", "built", "installed"},
                               to : Mode, mode : Mode, drained : SUBSET Call]]
    /\ canceller \in [Canceller -> Turn \cup {None}]
    /\ cleared \subseteq Canceller /\ stray \subseteq Call

\* What may decide a call of each kind: YOLO, auto and the window of an approved
\* plan never answer what asks for a fresh decision, and auto never answers an
\* explicit ask rule.
Entitled(kind) ==
    CASE kind = "writer" -> Decision
      [] kind = "asked"  -> Decision \ {"policy", "auto"}
      [] kind = "trust"  -> {"user", "grant", "refused"}
      [] OTHER           -> {"user", "refused"}

\* Whatever posture changes, grants, drains, cancels and timeouts happen around
\* it, a call is only decided by what its kind allows (approval.go: "They are
\* never answered by YOLO/full-access or the approved-plan execution window").
DecisionsAreEntitled ==
    \A c \in Call : decided[c] # None => decided[c] \in Entitled(Kind[c])

\* At most one prompt is shown at a time, and it is the one of the call that
\* holds promptMu: an answer never meets a call that has left.
PromptsBelongToTheHolder == pending \subseteq {promptMu}

\* The window in which writers pass unasked is open only while the turn whose
\* plan the user approved executes it.
WindowIsApproved ==
    window => \E c \in Call : /\ Kind[c] = "plan" /\ decided[c] = "user"
                             /\ turnOf[c] = turn /\ turn # None

\* A call the user can still end: its prompt is there, or an answer is on its
\* way, or its context is done or about to be.
Answerable(c) ==
    \/ c \in pending
    \/ reply[c] # None
    \/ \E k \in Switcher : c \in switch[k].drained
    \/ turnOf[c] \in ctxDone
    \/ \E k \in cleared : canceller[k] = turnOf[c]

\* A call that waits for the user can be answered, as clearAll's comment says
\* ("blocked waiters unblock via their cancelled context instead"): every call but
\* the ones whose prompt was dropped by a Cancel that meant an earlier turn.
OthersAreAnswerable ==
    \A c \in Call \ stray : pc[c] = "waiting" => Answerable(c)

\* When no switch of posture is under way the executor's gate is the one of the
\* posture: in "ask", a writer is referred to the user.
GateFollowsMode == (\A k \in Switcher : switch[k].at = "idle") => gate = mode

\* With a timeout every call ends although nobody answers: a walked-away user
\* does not wedge the session.
CallsEnd == \A c \in Call : hasTimeout /\ pc[c] # "new" ~> pc[c] = "over"

\* A turn that is cancelled ends, whatever prompts its calls are at or still
\* come to, and although nobody answers any of them.
CancelledTurnsEnd ==
    \A k \in Canceller, t \in Turn : canceller[k] = t ~> turn # t

=============================================================================
