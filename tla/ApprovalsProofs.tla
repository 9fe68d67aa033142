--------------------------- MODULE ApprovalsProofs ---------------------------
(***************************************************************************)
(* What holds of the approval manager for any number of calls, turns,      *)
(* cancellers and switchers, whatever the calls ask for.                   *)
(***************************************************************************)
EXTENDS Approvals, TLAPS

-----------------------------------------------------------------------------
(* Types, and what decides a call. *)

\* A posture only ever drains the prompts it may answer, and a reply is one its
\* prompt may get.
AnswersAreEntitled ==
    /\ \A k \in Switcher : \A c \in switch[k].drained : switch[k].to \in Entitled(Kind[c])
    /\ \A c \in Call : reply[c] # None => reply[c].by \in Entitled(Kind[c])

\* A Cancel that has cleared the prompts knows whose context to cancel.
ClearedHaveTurns == \A k \in cleared : canceller[k] # None

DecisionInv == TypeOK /\ ClearedHaveTurns /\ AnswersAreEntitled /\ DecisionsAreEntitled

\* Every step keeps the types, and decides a call by what its kind allows.
LEMMA DecisionStep == ASSUME DecisionInv, [Next]_vars PROVE DecisionInv'
<1> USE KindAssumption, ScopeAssumption, ModeAssumption, NoneAssumption
    DEF DecisionInv, TypeOK, ClearedHaveTurns, AnswersAreEntitled, DecisionsAreEntitled,
        Entitled, Kinds,
        Decision, Answer, Reply, Fresh, Idle, turnVars, callVars, promptVars, openVars,
            modeVars, cancelVars
<1>1. ASSUME NEW t \in Turn, StartTurn(t) PROVE DecisionInv'
  BY <1>1 DEF StartTurn
<1>2. CASE FinishTurn
  BY <1>2 DEF FinishTurn, InFlight
<1>3. CASE BeginRotation
  BY <1>3 DEF BeginRotation
<1>4. CASE EndRotation
  BY <1>4 DEF EndRotation
<1>5. CASE PlanExecuted
  BY <1>5 DEF PlanExecuted, InFlight
<1>6. ASSUME NEW c \in Call, Issue(c) PROVE DecisionInv'
  BY <1>6 DEF Issue, Decide, Goto, InFlight
<1>7. ASSUME NEW c \in Call, Check(c) PROVE DecisionInv'
  <2>1. Means(c) \in Entitled(Kind[c]) \/ ~PreApproved(c)
    BY DEF Means, PreApproved, Bypassed, Granted
  <2>2. Means(c) \in Decision
    BY DEF Means
  <2>3. QED
    BY <1>7, <2>1, <2>2 DEF Check, Decide, Goto
<1>8. ASSUME NEW c \in Call, LockPrompt(c) PROVE DecisionInv'
  BY <1>8 DEF LockPrompt, Goto
<1>9. ASSUME NEW c \in Call, Recheck(c) PROVE DecisionInv'
  <2>1. Means(c) \in Entitled(Kind[c]) \/ ~PreApproved(c)
    BY DEF Means, PreApproved, Bypassed, Granted
  <2>2. Means(c) \in Decision
    BY DEF Means
  <2>3. QED
    BY <1>9, <2>1, <2>2 DEF Recheck, Decide, Goto
<1>10. ASSUME NEW c \in Call, Register(c) PROVE DecisionInv'
  BY <1>10 DEF Register, Goto
<1>11. ASSUME NEW c \in Call, TakeReply(c) PROVE DecisionInv'
  <2>1. reply[c] \in Reply /\ reply[c].by \in Entitled(Kind[c])
    BY <1>11 DEF TakeReply
  <2>2. reply[c].by \in Decision
    BY <2>1
  <2>3. reply[c].answer \in Answer
    BY <2>1
  <2>4. pc' \in [Call -> {"new", "checking", "queued", "holding", "rechecked",
                        "waiting", "granting", "approved", "over"}]
    BY <1>11, <2>3 DEF TakeReply, Decide, Goto
  <2>5. \/ decided' = decided
        \/ decided' = [decided EXCEPT ![c] = "refused"]
        \/ decided' = [decided EXCEPT ![c] = reply[c].by]
    BY <1>11, <2>3 DEF TakeReply, Decide
  <2>6. decided' \in [Call -> Decision \cup {None}] /\ DecisionsAreEntitled'
    <3>1. "refused" \in Decision /\ "refused" \in Entitled(Kind[c])
      OBVIOUS
    <3> HIDE DEF Entitled, Decision
    <3>2. decided' \in [Call -> Decision \cup {None}]
      BY <2>2, <2>5, <3>1
    <3>3. DecisionsAreEntitled'
      BY <2>1, <2>5, <3>1
    <3>4. QED
      BY <3>2, <3>3
  <2>7. reply' \in [Call -> Reply \cup {None}] /\ AnswersAreEntitled'
    BY <1>11 DEF TakeReply
  <2>8. QED
    BY <1>11, <2>4, <2>6, <2>7 DEF TakeReply
<1>12. ASSUME NEW c \in Call, GiveUp(c) PROVE DecisionInv'
  BY <1>12 DEF GiveUp, Decide
<1>13. ASSUME NEW c \in Call, Grant(c) PROVE DecisionInv'
  BY <1>13 DEF Grant, Decide
<1>14. ASSUME NEW c \in Call, ExecutePlan(c) PROVE DecisionInv'
  BY <1>14 DEF ExecutePlan
<1>15. ASSUME NEW c \in Call, NEW answer \in Answer, Approve(c, answer) PROVE DecisionInv'
  BY <1>15 DEF Approve
<1>16. ASSUME NEW k \in Switcher, NEW m \in Mode, SetMode(k, m) PROVE DecisionInv'
  BY <1>16 DEF SetMode, Drained
<1>17. ASSUME NEW k \in Switcher, BuildGate(k) PROVE DecisionInv'
  <2>1. switch[k] \in [at : {"idle", "set", "built", "installed"}, to : Mode, mode : Mode,
                      drained : SUBSET Call]
    OBVIOUS
  <2>2. switch'[k] = [at |-> "built", to |-> switch[k].to, mode |-> mode,
                      drained |-> switch[k].drained]
    BY <1>17, <2>1 DEF BuildGate
  <2>3. QED
    BY <1>17, <2>1, <2>2 DEF BuildGate
<1>18. ASSUME NEW k \in Switcher, InstallGate(k) PROVE DecisionInv'
  BY <1>18 DEF InstallGate
<1>19. ASSUME NEW k \in Switcher, SendReplies(k) PROVE DecisionInv'
  <2>1. TypeOK'
    BY <1>19 DEF SendReplies
  <2>2. AnswersAreEntitled'
    BY <1>19 DEF SendReplies
  <2>3. DecisionsAreEntitled'
    BY <1>19 DEF SendReplies
  <2>4. QED
    BY <1>19, <2>1, <2>2, <2>3 DEF SendReplies
<1>20. ASSUME NEW k \in Canceller, Cancel(k) PROVE DecisionInv'
  BY <1>20 DEF Cancel
<1>21. ASSUME NEW k \in Canceller, ClearAll(k) PROVE DecisionInv'
  BY <1>21 DEF ClearAll
<1>22. ASSUME NEW k \in Canceller, CancelContext(k) PROVE DecisionInv'
  BY <1>22 DEF CancelContext
<1>23. CASE UNCHANGED vars
  BY <1>23 DEF vars
<1> HIDE DEF DecisionInv
<1>24. QED
  BY <1>1, <1>2, <1>3, <1>4, <1>5, <1>6, <1>7, <1>8, <1>9, <1>10, <1>11,
     <1>12, <1>13, <1>14, <1>15, <1>16, <1>17, <1>18, <1>19, <1>20, <1>21,
     <1>22, <1>23
  DEF Next, Step, Switching, Cancelling

\* The ways a reply is taken.
LEMMA TakeReplyEffect ==
    ASSUME DecisionInv, NEW c \in Call, TakeReply(c)
    PROVE  /\ pc[c] = "waiting" /\ reply[c] # None
           /\ reply' = [reply EXCEPT ![c] = None] /\ promptMu' = None
           /\ \/ /\ pc' = [pc EXCEPT ![c] = "over"]
                 /\ \E d \in Decision : decided' = [decided EXCEPT ![c] = d]
              \/ /\ Kind[c] = "plan"
                 /\ pc' = [pc EXCEPT ![c] = "approved"]
                 /\ decided' = [decided EXCEPT ![c] = "user"]
              \/ /\ pc' = [pc EXCEPT ![c] = "granting"]
                 /\ decided' = decided
           /\ UNCHANGED <<turnVars, turnOf, pending, granted, openVars, modeVars,
               cancelVars>>
<1> USE NoneAssumption DEF DecisionInv, TypeOK, AnswersAreEntitled, Reply, TakeReply,
    Decide, Goto
<1>1. reply[c] \in Reply /\ reply[c].by \in Entitled(Kind[c])
  OBVIOUS
<1>2. reply[c].answer \in Answer /\ reply[c].by \in {"user", "auto", "yolo"}
  BY <1>1
<1>3. Kind[c] = "plan" => reply[c].by = "user"
  BY <1>1, <1>2 DEF Entitled
<1>4. CASE reply[c].answer = "deny"
  BY <1>4 DEF Decision
<1>5. CASE reply[c].answer = "allow" /\ Kind[c] = "plan"
  BY <1>3, <1>5
<1>6. CASE reply[c].answer = "allow" /\ Kind[c] # "plan"
  BY <1>2, <1>6 DEF Decision
<1>7. CASE reply[c].answer = "session"
  BY <1>7
<1>8. QED
  BY <1>2, <1>4, <1>5, <1>6, <1>7 DEF Answer

\* So all of it always holds.
LEMMA DecisionInvHolds == Spec => []DecisionInv
<1>1. Init => DecisionInv
  <2> SUFFICES ASSUME Init PROVE DecisionInv
    OBVIOUS
  <2> USE DEF Init, Idle
  <2>1. hasTimeout \in BOOLEAN /\ mode \in Mode /\ gate \in Mode
    BY ModeAssumption, FlagAssumption
  <2>2. switch \in [Switcher -> [at : {"idle", "set", "built", "installed"},
                                to : Mode, mode : Mode, drained : SUBSET Call]]
    BY ModeAssumption
  <2>3. TypeOK
    BY <2>1, <2>2 DEF TypeOK
  <2>4. QED
    BY <2>3 DEF DecisionInv, ClearedHaveTurns, AnswersAreEntitled, DecisionsAreEntitled
<1>2. DecisionInv /\ [Next]_vars => DecisionInv'
  BY DecisionStep
<1>3. QED
  BY <1>1, <1>2, PTL DEF Spec

\* The variables keep their types.
THEOREM TypeCorrect == Spec => []TypeOK
<1>1. DecisionInv => TypeOK
  BY DEF DecisionInv
<1>2. QED
  BY <1>1, DecisionInvHolds, PTL

\* Whatever posture changes, grants, drains, cancels and timeouts happen around
\* it, a call is only decided by what its kind allows.
THEOREM DecisionsAreEntitledHolds == Spec => []DecisionsAreEntitled
<1>1. DecisionInv => DecisionsAreEntitled
  BY DEF DecisionInv
<1>2. QED
  BY <1>1, DecisionInvHolds, PTL

-----------------------------------------------------------------------------
(* One prompt at a time. *)

\* Who is inside promptMu, and who has been past the registration.
Inside(c) == pc[c] \in {"holding", "rechecked", "waiting"}
Asked(c)  == pc[c] \in {"waiting", "granting", "approved", "over"}

\* promptMu is held by whoever is inside; a prompt is the one of a call that
\* waits, and what answers it has taken it off first.
PromptInv ==
    /\ \A c \in Call : Inside(c) <=> promptMu = c
    /\ \A c \in pending : pc[c] = "waiting"
    /\ \A c \in Call : reply[c] # None => Asked(c) /\ c \notin pending
    /\ \A k \in Switcher : \A c \in switch[k].drained : Asked(c) /\ c \notin pending

\* No step shows a second prompt, or leaves one that is answered.
LEMMA PromptStep == ASSUME DecisionInv, PromptInv, [Next]_vars PROVE PromptInv'
<1> TypeOK /\ ClearedHaveTurns /\ AnswersAreEntitled
  BY DEF DecisionInv
<1> USE NoneAssumption
    DEF TypeOK, PromptInv, Inside, Asked, Idle, turnVars, callVars, promptVars,
        openVars, modeVars, cancelVars
<1>1. ASSUME NEW t \in Turn, StartTurn(t) PROVE PromptInv'
  BY <1>1 DEF StartTurn
<1>2. CASE FinishTurn
  BY <1>2 DEF FinishTurn, InFlight
<1>3. CASE BeginRotation
  BY <1>3 DEF BeginRotation
<1>4. CASE EndRotation
  BY <1>4 DEF EndRotation
<1>5. CASE PlanExecuted
  BY <1>5 DEF PlanExecuted, InFlight
<1>6. ASSUME NEW c \in Call, Issue(c) PROVE PromptInv'
  BY <1>6 DEF Issue, Decide, Goto, InFlight
<1>7. ASSUME NEW c \in Call, Check(c) PROVE PromptInv'
  BY <1>7 DEF Check, Decide, Goto, PreApproved, Bypassed, Granted, Means
<1>8. ASSUME NEW c \in Call, LockPrompt(c) PROVE PromptInv'
  BY <1>8 DEF LockPrompt, Goto
<1>9. ASSUME NEW c \in Call, Recheck(c) PROVE PromptInv'
  BY <1>9 DEF Recheck, Decide, Goto, PreApproved, Bypassed, Granted, Means
<1>10. ASSUME NEW c \in Call, Register(c) PROVE PromptInv'
  BY <1>10 DEF Register, Goto
<1>11. ASSUME NEW c \in Call, TakeReply(c) PROVE PromptInv'
  BY <1>11, TakeReplyEffect
<1>12. ASSUME NEW c \in Call, GiveUp(c) PROVE PromptInv'
  BY <1>12 DEF GiveUp, Decide
<1>13. ASSUME NEW c \in Call, Grant(c) PROVE PromptInv'
  BY <1>13 DEF Grant, Decide
<1>14. ASSUME NEW c \in Call, ExecutePlan(c) PROVE PromptInv'
  BY <1>14 DEF ExecutePlan
<1>15. ASSUME NEW c \in Call, NEW answer \in Answer, Approve(c, answer) PROVE PromptInv'
  BY <1>15 DEF Approve
<1>16. ASSUME NEW k \in Switcher, NEW m \in Mode, SetMode(k, m) PROVE PromptInv'
  BY <1>16 DEF SetMode, Drained
<1>17. ASSUME NEW k \in Switcher, BuildGate(k) PROVE PromptInv'
  BY <1>17 DEF BuildGate
<1>18. ASSUME NEW k \in Switcher, InstallGate(k) PROVE PromptInv'
  BY <1>18 DEF InstallGate
<1>19. ASSUME NEW k \in Switcher, SendReplies(k) PROVE PromptInv'
  BY <1>19 DEF SendReplies, Idle
<1>20. ASSUME NEW k \in Canceller, Cancel(k) PROVE PromptInv'
  BY <1>20 DEF Cancel
<1>21. ASSUME NEW k \in Canceller, ClearAll(k) PROVE PromptInv'
  BY <1>21 DEF ClearAll
<1>22. ASSUME NEW k \in Canceller, CancelContext(k) PROVE PromptInv'
  BY <1>22 DEF CancelContext
<1>23. CASE UNCHANGED vars
  BY <1>23 DEF vars
<1> HIDE DEF PromptInv, TypeOK
<1>24. QED
  BY <1>1, <1>2, <1>3, <1>4, <1>5, <1>6, <1>7, <1>8, <1>9, <1>10, <1>11,
     <1>12, <1>13, <1>14, <1>15, <1>16, <1>17, <1>18, <1>19, <1>20, <1>21,
     <1>22, <1>23
  DEF Next, Step, Switching, Cancelling

\* At most one prompt is shown at a time, the one of the call that holds
\* promptMu.
THEOREM PromptsBelongToTheHolderHolds == Spec => []PromptsBelongToTheHolder
<1>1. Init => PromptInv
  BY NoneAssumption DEF Init, PromptInv, Inside, Asked, Idle
<1>2. DecisionInv /\ PromptInv /\ [Next]_vars => PromptInv'
  BY PromptStep
<1>3. DecisionInv /\ PromptInv => PromptsBelongToTheHolder
  BY DEF DecisionInv, TypeOK, PromptInv, Inside, PromptsBelongToTheHolder
<1>4. QED
  BY <1>1, <1>2, <1>3, DecisionInvHolds, PTL DEF Spec

-----------------------------------------------------------------------------
(* The window of an approved plan. *)

\* A plan of the running turn that the user has approved.
ApprovedPlan(c) == Kind[c] = "plan" /\ decided[c] = "user" /\ turnOf[c] = turn

\* A call under way belongs to the running turn, only a call that is over or a
\* plan about to be executed is decided, and the window is open only during an
\* execution.
WindowInv ==
    /\ \A c \in Call : pc[c] \notin {"new", "over"} => turn # None /\ turnOf[c] = turn
    /\ \A c \in Call : decided[c] # None => pc[c] \in {"approved", "over"}
    /\ \A c \in Call : pc[c] = "approved" => ApprovedPlan(c)
    /\ window => executing
    /\ executing => turn # None /\ \E c \in Call : ApprovedPlan(c)

\* No step opens the window without an approved plan, or outlives its turn.
LEMMA WindowStep == ASSUME DecisionInv, WindowInv, [Next]_vars PROVE WindowInv'
<1> TypeOK /\ ClearedHaveTurns /\ AnswersAreEntitled
  BY DEF DecisionInv
<1> USE NoneAssumption
    DEF TypeOK, WindowInv, ApprovedPlan, Decision, turnVars, callVars, promptVars,
        openVars, modeVars, cancelVars
<1>1. ASSUME NEW t \in Turn, StartTurn(t) PROVE WindowInv'
  BY <1>1 DEF StartTurn
<1>2. CASE FinishTurn
  BY <1>2 DEF FinishTurn, InFlight
<1>3. CASE BeginRotation
  BY <1>3 DEF BeginRotation
<1>4. CASE EndRotation
  BY <1>4 DEF EndRotation
<1>5. CASE PlanExecuted
  BY <1>5 DEF PlanExecuted, InFlight
<1>6. ASSUME NEW c \in Call, Issue(c) PROVE WindowInv'
  BY <1>6 DEF Issue, Decide, Goto, InFlight
<1>7. ASSUME NEW c \in Call, Check(c) PROVE WindowInv'
  <2>1. \A d \in Call : ApprovedPlan(d) => ApprovedPlan(d)'
    BY <1>7 DEF Check, Decide, Goto
  <2>2. QED
    BY <1>7, <2>1 DEF Check, Decide, Goto
<1>8. ASSUME NEW c \in Call, LockPrompt(c) PROVE WindowInv'
  BY <1>8 DEF LockPrompt, Goto
<1>9. ASSUME NEW c \in Call, Recheck(c) PROVE WindowInv'
  <2>1. \A d \in Call : ApprovedPlan(d) => ApprovedPlan(d)'
    BY <1>9 DEF Recheck, Decide, Goto
  <2>2. QED
    BY <1>9, <2>1 DEF Recheck, Decide, Goto
<1>10. ASSUME NEW c \in Call, Register(c) PROVE WindowInv'
  BY <1>10 DEF Register, Goto
<1>11. ASSUME NEW c \in Call, TakeReply(c) PROVE WindowInv'
  <2>1. \A d \in Call : ApprovedPlan(d) => ApprovedPlan(d)'
    BY <1>11, TakeReplyEffect
  <2>2. QED
    BY <1>11, <2>1, TakeReplyEffect
<1>12. ASSUME NEW c \in Call, GiveUp(c) PROVE WindowInv'
  <2>1. \A d \in Call : ApprovedPlan(d) => ApprovedPlan(d)'
    BY <1>12 DEF GiveUp, Decide
  <2>2. QED
    BY <1>12, <2>1 DEF GiveUp, Decide
<1>13. ASSUME NEW c \in Call, Grant(c) PROVE WindowInv'
  BY <1>13 DEF Grant, Decide
<1>14. ASSUME NEW c \in Call, ExecutePlan(c) PROVE WindowInv'
  BY <1>14 DEF ExecutePlan
<1>15. ASSUME NEW c \in Call, NEW answer \in Answer, Approve(c, answer) PROVE WindowInv'
  BY <1>15 DEF Approve
<1>16. ASSUME NEW k \in Switcher, NEW m \in Mode, SetMode(k, m) PROVE WindowInv'
  BY <1>16 DEF SetMode, Drained
<1>17. ASSUME NEW k \in Switcher, BuildGate(k) PROVE WindowInv'
  BY <1>17 DEF BuildGate
<1>18. ASSUME NEW k \in Switcher, InstallGate(k) PROVE WindowInv'
  BY <1>18 DEF InstallGate
<1>19. ASSUME NEW k \in Switcher, SendReplies(k) PROVE WindowInv'
  BY <1>19 DEF SendReplies, Idle
<1>20. ASSUME NEW k \in Canceller, Cancel(k) PROVE WindowInv'
  BY <1>20 DEF Cancel
<1>21. ASSUME NEW k \in Canceller, ClearAll(k) PROVE WindowInv'
  BY <1>21 DEF ClearAll
<1>22. ASSUME NEW k \in Canceller, CancelContext(k) PROVE WindowInv'
  BY <1>22 DEF CancelContext
<1>23. CASE UNCHANGED vars
  BY <1>23 DEF vars
<1> HIDE DEF WindowInv, TypeOK
<1>24. QED
  BY <1>1, <1>2, <1>3, <1>4, <1>5, <1>6, <1>7, <1>8, <1>9, <1>10, <1>11,
     <1>12, <1>13, <1>14, <1>15, <1>16, <1>17, <1>18, <1>19, <1>20, <1>21,
     <1>22, <1>23
  DEF Next, Step, Switching, Cancelling

\* The window in which writers pass unasked is open only while the turn whose
\* plan the user approved executes it.
THEOREM WindowIsApprovedHolds == Spec => []WindowIsApproved
<1>1. Init => WindowInv
  BY DEF Init, WindowInv, ApprovedPlan
<1>2. DecisionInv /\ WindowInv /\ [Next]_vars => WindowInv'
  BY WindowStep
<1>3. WindowInv => WindowIsApproved
  BY DEF WindowInv, ApprovedPlan, WindowIsApproved
<1>4. QED
  BY <1>1, <1>2, <1>3, DecisionInvHolds, PTL DEF Spec

-----------------------------------------------------------------------------
(* Whoever waits can be answered. *)

\* A switch that has not begun has drained nothing.
AnswerInv ==
    /\ OthersAreAnswerable
    /\ \A k \in Switcher : switch[k].at = "idle" => switch[k].drained = {}

\* No step leaves a waiting call without an answer to come.
LEMMA AnswerStep == ASSUME DecisionInv, AnswerInv, [Next]_vars PROVE AnswerInv'
<1> TypeOK /\ ClearedHaveTurns /\ AnswersAreEntitled
  BY DEF DecisionInv
<1> USE NoneAssumption
    DEF TypeOK, ClearedHaveTurns, AnswerInv, OthersAreAnswerable, Answerable,
        Idle, turnVars, callVars, promptVars, openVars, modeVars, cancelVars
<1>1. ASSUME NEW t \in Turn, StartTurn(t) PROVE AnswerInv'
  BY <1>1 DEF StartTurn
<1>2. CASE FinishTurn
  BY <1>2 DEF FinishTurn, InFlight
<1>3. CASE BeginRotation
  BY <1>3 DEF BeginRotation
<1>4. CASE EndRotation
  BY <1>4 DEF EndRotation
<1>5. CASE PlanExecuted
  BY <1>5 DEF PlanExecuted, InFlight
<1>6. ASSUME NEW c \in Call, Issue(c) PROVE AnswerInv'
  BY <1>6 DEF Issue, Decide, Goto, InFlight
<1>7. ASSUME NEW c \in Call, Check(c) PROVE AnswerInv'
  BY <1>7 DEF Check, Decide, Goto, PreApproved, Bypassed, Granted, Means
<1>8. ASSUME NEW c \in Call, LockPrompt(c) PROVE AnswerInv'
  BY <1>8 DEF LockPrompt, Goto
<1>9. ASSUME NEW c \in Call, Recheck(c) PROVE AnswerInv'
  BY <1>9 DEF Recheck, Decide, Goto, PreApproved, Bypassed, Granted, Means
<1>10. ASSUME NEW c \in Call, Register(c) PROVE AnswerInv'
  BY <1>10 DEF Register, Goto
<1>11. ASSUME NEW c \in Call, TakeReply(c) PROVE AnswerInv'
  BY <1>11, TakeReplyEffect
<1>12. ASSUME NEW c \in Call, GiveUp(c) PROVE AnswerInv'
  BY <1>12 DEF GiveUp, Decide
<1>13. ASSUME NEW c \in Call, Grant(c) PROVE AnswerInv'
  BY <1>13 DEF Grant, Decide
<1>14. ASSUME NEW c \in Call, ExecutePlan(c) PROVE AnswerInv'
  BY <1>14 DEF ExecutePlan
<1>15. ASSUME NEW c \in Call, NEW answer \in Answer, Approve(c, answer) PROVE AnswerInv'
  <2>1. [answer |-> answer, by |-> "user"] # None
    BY DEF Reply
  <2>2. QED
    BY <1>15, <2>1 DEF Approve
<1>16. ASSUME NEW k \in Switcher, NEW m \in Mode, SetMode(k, m) PROVE AnswerInv'
  BY <1>16 DEF SetMode, Drained
<1>17. ASSUME NEW k \in Switcher, BuildGate(k) PROVE AnswerInv'
  BY <1>17 DEF BuildGate
<1>18. ASSUME NEW k \in Switcher, InstallGate(k) PROVE AnswerInv'
  BY <1>18 DEF InstallGate
<1>19. ASSUME NEW k \in Switcher, SendReplies(k) PROVE AnswerInv'
  <2>1. ASSUME NEW c \in switch[k].drained PROVE reply'[c] # None
    <3>1. switch[k].to \in {"auto", "yolo"}
      BY <2>1, ModeAssumption DEF AnswersAreEntitled, Entitled, Decision
    <3>2. [answer |-> "allow", by |-> switch[k].to] \in Reply
      BY <3>1 DEF Reply, Answer
    <3>3. QED
      BY <1>19, <3>2 DEF SendReplies
  <2>2. \A c \in Call \ switch[k].drained : reply'[c] = reply[c]
    BY <1>19 DEF SendReplies
  <2>3. \A l \in Switcher \ {k} : switch'[l] = switch[l]
    BY <1>19 DEF SendReplies
  <2>4. OthersAreAnswerable'
    <3> SUFFICES ASSUME NEW c \in Call \ stray', pc'[c] = "waiting" PROVE Answerable(c)'
      OBVIOUS
    <3>1. CASE c \in switch[k].drained
      BY <2>1, <3>1
    <3>2. CASE c \notin switch[k].drained
      <4>1. Answerable(c)
        BY <1>19 DEF SendReplies
      <4>2. QED
        BY <1>19, <2>2, <2>3, <3>2, <4>1 DEF SendReplies
    <3>3. QED
      BY <3>1, <3>2
  <2>5. QED
    BY <1>19, <2>3, <2>4 DEF SendReplies
<1>20. ASSUME NEW k \in Canceller, Cancel(k) PROVE AnswerInv'
  BY <1>20 DEF Cancel
<1>21. ASSUME NEW k \in Canceller, ClearAll(k) PROVE AnswerInv'
  BY <1>21 DEF ClearAll
<1>22. ASSUME NEW k \in Canceller, CancelContext(k) PROVE AnswerInv'
  BY <1>22 DEF CancelContext
<1>23. CASE UNCHANGED vars
  BY <1>23 DEF vars
<1> HIDE DEF AnswerInv, TypeOK
<1>24. QED
  BY <1>1, <1>2, <1>3, <1>4, <1>5, <1>6, <1>7, <1>8, <1>9, <1>10, <1>11,
     <1>12, <1>13, <1>14, <1>15, <1>16, <1>17, <1>18, <1>19, <1>20, <1>21,
     <1>22, <1>23
  DEF Next, Step, Switching, Cancelling

\* A call that waits for the user can be answered, or its context is done or
\* about to be, unless a Cancel of another turn has dropped its prompt.
THEOREM OthersAreAnswerableHolds == Spec => []OthersAreAnswerable
<1>1. Init => AnswerInv
  BY DEF Init, AnswerInv, OthersAreAnswerable, Idle
<1>2. DecisionInv /\ AnswerInv /\ [Next]_vars => AnswerInv'
  BY AnswerStep
<1>3. AnswerInv => OthersAreAnswerable
  BY DEF AnswerInv
<1>4. QED
  BY <1>1, <1>2, <1>3, DecisionInvHolds, PTL DEF Spec

-----------------------------------------------------------------------------
(* The executor's gate, when one goroutine at a time switches the posture. *)

\* A switch is between setMode and InstallGate, and what it has built follows
\* the posture.
GateInv ==
    /\ \A k \in Switcher : switch[k].at = "built" => switch[k].mode = mode
    /\ (\A k \in Switcher : switch[k].at \in {"idle", "installed"}) => gate = mode

\* No step of the one switcher leaves a gate of another posture.
LEMMA GateStep ==
    ASSUME \A k, l \in Switcher : k = l, DecisionInv, GateInv, [Next]_vars
    PROVE  GateInv'
<1> TypeOK
  BY DEF DecisionInv
<1> USE DEF TypeOK, GateInv, Idle, turnVars, callVars, promptVars, openVars, modeVars,
    cancelVars
<1>1. ASSUME NEW t \in Turn, StartTurn(t) PROVE GateInv'
  BY <1>1 DEF StartTurn
<1>2. CASE FinishTurn
  BY <1>2 DEF FinishTurn, InFlight
<1>3. CASE BeginRotation
  BY <1>3 DEF BeginRotation
<1>4. CASE EndRotation
  BY <1>4 DEF EndRotation
<1>5. CASE PlanExecuted
  BY <1>5 DEF PlanExecuted, InFlight
<1>6. ASSUME NEW c \in Call, Issue(c) PROVE GateInv'
  BY <1>6 DEF Issue, Decide, Goto, InFlight
<1>7. ASSUME NEW c \in Call, Check(c) PROVE GateInv'
  BY <1>7 DEF Check, Decide, Goto, PreApproved, Bypassed, Granted, Means
<1>8. ASSUME NEW c \in Call, LockPrompt(c) PROVE GateInv'
  BY <1>8 DEF LockPrompt, Goto
<1>9. ASSUME NEW c \in Call, Recheck(c) PROVE GateInv'
  BY <1>9 DEF Recheck, Decide, Goto, PreApproved, Bypassed, Granted, Means
<1>10. ASSUME NEW c \in Call, Register(c) PROVE GateInv'
  BY <1>10 DEF Register, Goto
<1>11. ASSUME NEW c \in Call, TakeReply(c) PROVE GateInv'
  BY <1>11 DEF TakeReply, Decide, Goto
<1>12. ASSUME NEW c \in Call, GiveUp(c) PROVE GateInv'
  BY <1>12 DEF GiveUp, Decide
<1>13. ASSUME NEW c \in Call, Grant(c) PROVE GateInv'
  BY <1>13 DEF Grant, Decide
<1>14. ASSUME NEW c \in Call, ExecutePlan(c) PROVE GateInv'
  BY <1>14 DEF ExecutePlan
<1>15. ASSUME NEW c \in Call, NEW answer \in Answer, Approve(c, answer) PROVE GateInv'
  BY <1>15 DEF Approve
<1>16. ASSUME NEW k \in Switcher, NEW m \in Mode, SetMode(k, m) PROVE GateInv'
  BY <1>16 DEF SetMode, Drained
<1>17. ASSUME NEW k \in Switcher, BuildGate(k) PROVE GateInv'
  BY <1>17 DEF BuildGate
<1>18. ASSUME NEW k \in Switcher, InstallGate(k) PROVE GateInv'
  BY <1>18 DEF InstallGate
<1>19. ASSUME NEW k \in Switcher, SendReplies(k) PROVE GateInv'
  BY <1>19 DEF SendReplies, Idle
<1>20. ASSUME NEW k \in Canceller, Cancel(k) PROVE GateInv'
  BY <1>20 DEF Cancel
<1>21. ASSUME NEW k \in Canceller, ClearAll(k) PROVE GateInv'
  BY <1>21 DEF ClearAll
<1>22. ASSUME NEW k \in Canceller, CancelContext(k) PROVE GateInv'
  BY <1>22 DEF CancelContext
<1>23. CASE UNCHANGED vars
  BY <1>23 DEF vars
<1> HIDE DEF GateInv, TypeOK
<1>24. QED
  BY <1>1, <1>2, <1>3, <1>4, <1>5, <1>6, <1>7, <1>8, <1>9, <1>10, <1>11,
     <1>12, <1>13, <1>14, <1>15, <1>16, <1>17, <1>18, <1>19, <1>20, <1>21,
     <1>22, <1>23
  DEF Next, Step, Switching, Cancelling

\* Without a second switcher, the gate is the one of the posture whenever no
\* switch is under way.
THEOREM GateFollowsModeHolds ==
    (\A k, l \in Switcher : k = l) => (Spec => []GateFollowsMode)
<1> SUFFICES ASSUME \A k, l \in Switcher : k = l PROVE Spec => []GateFollowsMode
  OBVIOUS
<1>1. Init => GateInv
  BY DEF Init, GateInv, Idle
<1>2. DecisionInv /\ GateInv /\ [Next]_vars => GateInv'
  BY GateStep
<1>3. GateInv => GateFollowsMode
  BY DEF GateInv, GateFollowsMode
<1>4. QED
  BY <1>1, <1>2, <1>3, DecisionInvHolds, PTL DEF Spec

=============================================================================
