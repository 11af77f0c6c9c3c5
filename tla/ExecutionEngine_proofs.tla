----------------------- MODULE ExecutionEngine_proofs -----------------------
(***************************************************************************)
(* Theorems about ExecutionEngine, for every graph, every assignment of    *)
(* delays, every number of attempts and every set of faults.               *)
(***************************************************************************)
EXTENDS ExecutionEngine, TLAPS

-----------------------------------------------------------------------------
(* Facts about the operators the actions are built from.                   *)

\* The transition table of node.ts leads from statuses to statuses, never leaves
\* a terminal one, and enters "waiting" from "pending" only.
LEMMA TransitionTable ==
  ASSUME NEW s \in NodeStatus, NEW t, CanTransition(s, t)
  PROVE  /\ t \in NodeStatus
         /\ s \notin TerminalStatuses
         /\ s = "pending" <=> t = "waiting"
         /\ s = "waiting" => t = "running"
BY DEF NodeStatus, CanTransition, NodeTransitions, TerminalStatuses, FailureStatuses

\* activateReadyNodes takes ready nodes only, and none once stop() was called.
LEMMA PlanIsReady ==
  ASSUME NEW d \in DispatchPlans
  PROVE  /\ d.nodes \subseteq Ready
         /\ d.throws \in BOOLEAN
         /\ stopped => d = NoDispatch
<1>1. CASE stopped
  <2>1. DispatchPlans = {NoDispatch}
    BY <1>1 DEF DispatchPlans
  <2>2. d.nodes = {} /\ d.throws = FALSE
    BY <2>1 DEF NoDispatch
  <2> QED BY <2>1, <2>2
<1>2. CASE ~stopped
  <2> DEFINE invalid == {n \in Ready : Delay[n] = "invalid"}
  <2>1. CASE invalid = {}
    <3>1. DispatchPlans = {[nodes |-> Ready, throws |-> FALSE]}
      BY <1>2, <2>1 DEF DispatchPlans
    <3>2. d.nodes = Ready /\ d.throws = FALSE
      BY <3>1
    <3> QED BY <1>2, <3>2
  <2>2. CASE invalid # {}
    <3>1. PICK before \in SUBSET (Ready \ invalid), bad \in invalid :
             d = [nodes |-> before \cup {bad}, throws |-> TRUE]
      BY <1>2, <2>2 DEF DispatchPlans
    <3> QED BY <1>2, <3>1
  <2> QED BY <2>1, <2>2
<1> QED BY <1>1, <1>2

\* The next await of an executeNode under way is one of a busy node.
LEMMA NextAwaitTyped ==
  ASSUME NEW p \in DOMAIN NextAwait
  PROVE  p \in PC /\ NextAwait[p] \in PC \ {"idle"}
<1>1. p \in {"logStarted", "logExhausted", "logScheduled", "persistScheduled",
             "logResumed", "logCompleted", "persistBlocked"}
  BY DEF NextAwait
<1> QED BY <1>1 DEF NextAwait, PC, LogAwaits, PersistAwaits, Calling

-----------------------------------------------------------------------------
(* Type correctness                                                        *)

LEMMA DispatchTyped ==
  ASSUME TypeOK, NEW d \in DispatchPlans \cup {NoDispatch}, Dispatch(d)
  PROVE  /\ status' \in [Nodes -> NodeStatus]
         /\ activated' \subseteq Nodes
         /\ timers' \subseteq Nodes
         /\ Starting(d) \subseteq Nodes
         /\ Started(d, pc) \in [Nodes -> PC]
<1>1. d.nodes \subseteq Nodes
  BY PlanIsReady DEF NoDispatch, Ready
<1> QED BY <1>1 DEF TypeOK, Dispatch, Starting, Started, NodeStatus, PC, LogAwaits

LEMMA MoveTyped ==
  ASSUME TypeOK, NEW n \in Nodes, NEW to
  PROVE  MoveIfAllowed(n, to) \in [Nodes -> NodeStatus]
BY TransitionTable DEF TypeOK, MoveIfAllowed

LEMMA SweepTyped ==
  ASSUME TypeOK, NEW n \in Nodes, NEW also \in SUBSET Nodes, NodeSweep(n, also)
  PROVE  /\ status' \in [Nodes -> NodeStatus]
         /\ failed' \subseteq Nodes
         /\ pc' \in [Nodes -> PC]
BY DEF TypeOK, NodeSweep, SweepBlocks, SweepEnds, Unreachable, NodeStatus, PC,
       LogAwaits, PersistAwaits

LEMMA RunSweepTyped ==
  ASSUME TypeOK, RunSweeps
  PROVE  /\ status' \in [Nodes -> NodeStatus]
         /\ failed' \subseteq Nodes
         /\ phase' \in Phase
BY DEF TypeOK, RunSweeps, SweepBlocks, SweepEnds, Unreachable, NodeStatus, Phase,
       RunAwaits

LEMMA TypeOKInit ==
  ASSUME Init
  PROVE  TypeOK
<1>1. status \in [Nodes -> NodeStatus] /\ attempt \in [Nodes -> Nat]
  BY AttemptsAssumption DEF Init, NodeStatus
<1>2. overBudget \in BOOLEAN
  BY DEF Init
<1> QED BY <1>1, <1>2 DEF Init, TypeOK, PC, Phase, RunAwaits, Verdict, WorkflowStatus

LEMMA TypeOKStep ==
  ASSUME TypeOK, [Next]_vars
  PROVE  TypeOK'
<1> USE DEF runVars, envVars
<1>1. ASSUME NEW n \in Nodes, Proceed(n) PROVE TypeOK'
  BY <1>1, NextAwaitTyped DEF Proceed, TypeOK
<1>2. ASSUME NEW n \in Nodes, NEW r \in {"done", "failed", "blocked"}, ExecutorReturns(n, r)
      PROVE  TypeOK'
  <2>1. status' \in [Nodes -> NodeStatus]
    BY <1>2, MoveTyped DEF ExecutorReturns
  <2> QED BY <1>2, <2>1 DEF ExecutorReturns, TypeOK, PC, LogAwaits
<1>3. ASSUME NEW n \in Nodes, ExecutorRateLimited(n) PROVE TypeOK'
  BY <1>3 DEF ExecutorRateLimited, TypeOK, PC, LogAwaits
<1>4. ASSUME NEW n \in Nodes, RetryScheduled(n) PROVE TypeOK'
  <2>1. status' \in [Nodes -> NodeStatus]
    BY <1>4, MoveTyped DEF RetryScheduled
  <2> QED BY <1>4, <2>1 DEF RetryScheduled, TypeOK, PC, LogAwaits
<1>5. ASSUME NEW n \in Nodes, RetryExhausted(n) PROVE TypeOK'
  <2>1. status' \in [Nodes -> NodeStatus]
    BY <1>5, MoveTyped DEF RetryExhausted
  <2> QED BY <1>5, <2>1 DEF RetryExhausted, TypeOK, PC, LogAwaits
<1>6. ASSUME NEW n \in Nodes, ExhaustionPersisted(n) PROVE TypeOK'
  BY <1>6, SweepTyped DEF ExhaustionPersisted, TypeOK
<1>7. ASSUME NEW n \in Nodes, RetryResumes(n) PROVE TypeOK'
  <2>1. status' \in [Nodes -> NodeStatus]
    BY <1>7, MoveTyped DEF RetryResumes
  <2> QED BY <1>7, <2>1 DEF RetryResumes, TypeOK, PC, LogAwaits
<1>8. ASSUME NEW n \in Nodes, RetryAbandoned(n) PROVE TypeOK'
  <2>1. status' \in [Nodes -> NodeStatus]
    BY <1>8, MoveTyped DEF RetryAbandoned
  <2> QED BY <1>8, <2>1 DEF RetryAbandoned, TypeOK, PC, LogAwaits
<1>9. ASSUME NEW n \in Nodes, FailureLogged(n) PROVE TypeOK'
  BY <1>9, SweepTyped DEF FailureLogged, TypeOK
<1>10. ASSUME NEW n \in Nodes, Settle(n) PROVE TypeOK'
  <2>1. PICK d \in DispatchPlans \cup {NoDispatch} :
           /\ Dispatch(d)
           /\ active' = (active \ {n}) \cup Starting(d)
           /\ pc' = [Started(d, pc) EXCEPT ![n] = IF d.throws THEN "rejected" ELSE "settled"]
           /\ phase' = IF ~d.throws THEN Woken
                       ELSE IF phase = "awaiting" /\ n \in watched THEN "threw"
                       ELSE phase
    BY <1>10 DEF Settle
  <2>2. pc' \in [Nodes -> PC]
    BY <2>1, DispatchTyped DEF PC
  <2> QED BY <1>10, <2>1, <2>2, DispatchTyped
          DEF Settle, TypeOK, Woken, Phase, Ended
<1>11. ASSUME NEW n \in Nodes, SleepFires(n) PROVE TypeOK'
  BY <1>11 DEF SleepFires, TypeOK
<1>12. ASSUME NEW n \in Nodes, TimerFires(n) PROVE TypeOK'
  <2>1. status' \in [Nodes -> NodeStatus]
    BY <1>12, MoveTyped DEF TimerFires
  <2> QED BY <1>12, <2>1 DEF TimerFires, TypeOK, PC, LogAwaits
<1>13. ASSUME NEW n \in Nodes, StepRejects(n) PROVE TypeOK'
  BY <1>13 DEF StepRejects, TypeOK, PC, Phase, Ended
<1>14. CASE RunBegins
  <2>1. PICK d \in DispatchPlans : /\ Dispatch(d)
                                   /\ active' = active \cup Starting(d)
                                   /\ pc' = Started(d, pc)
                                   /\ phase' = IF d.throws THEN "threw" ELSE "check"
    BY <1>14 DEF RunBegins
  <2> QED BY <1>14, <2>1, DispatchTyped DEF RunBegins, TypeOK, Phase, Ended
<1>15. CASE LoopTerminal
  BY <1>15, RunSweepTyped DEF LoopTerminal, TypeOK
<1>16. CASE BlockedLogged
  BY <1>16, RunSweepTyped DEF BlockedLogged, TypeOK
<1>17. CASE BuildTerminalResult \/ Drained
  BY <1>17 DEF BuildTerminalResult, Drained, Conclude, TypeOK, nodeVars, Phase,
     RunAwaits, Verdict, ResultStatus, WorkflowStatus
<1>18. CASE LoopStopped \/ LoopOverBudget \/ LoopDeadlock
  BY <1>18 DEF LoopStopped, LoopOverBudget, LoopDeadlock, BeginDrain, TypeOK,
     nodeVars, Phase, Verdict
<1>19. CASE LoopWaits
  BY <1>19 DEF LoopWaits, TypeOK, nodeVars, Phase, Ended
<1>20. CASE VerdictPersisted \/ VerdictLogged \/ RunRejects
  BY <1>20 DEF VerdictPersisted, VerdictLogged, RunRejects, TypeOK, nodeVars, Phase,
     Ended, RunAwaits
<1>21. CASE Stop
  BY <1>21 DEF Stop, TypeOK, Woken, Phase
<1>22. CASE CallRecorded
  BY <1>22 DEF CallRecorded, TypeOK, nodeVars
<1>23. CASE UNCHANGED vars
  BY <1>23 DEF vars, nodeVars, TypeOK
<1> QED BY <1>1, <1>2, <1>3, <1>4, <1>5, <1>6, <1>7, <1>8, <1>9, <1>10, <1>11,
           <1>12, <1>13, <1>14, <1>15, <1>16, <1>17, <1>18, <1>19, <1>20, <1>21,
           <1>22, <1>23 DEF Next, NodeStep, RunStep

\* Every variable keeps its type (the fields of the engine, lines 133-152).
THEOREM TypeCorrect == Spec => []TypeOK
<1>1. Init => TypeOK
  BY TypeOKInit
<1>2. TypeOK /\ [Next]_vars => TypeOK'
  BY TypeOKStep
<1> QED BY <1>1, <1>2, PTL DEF Spec

-----------------------------------------------------------------------------
(* The inductive invariant.  DependencyOrder is not inductive alone: an    *)
(* executor's return or a timer must be known to concern an activated      *)
(* node, and what run() announces depends on where it is.                  *)

BusyAreActivated == \A n \in Nodes : pc[n] # "idle" => n \in activated
TimersAreActivated == timers \subseteq activated
StoppedCancels == stopped => timers = {}
RunningUntilVerdict ==
  phase \in {"logStarted", "check", "awaiting", "draining", "logBlocked", "persistBlocked"}
    => workflow = "running"
DrainVerdict ==
  phase = "draining" =>
    /\ verdict \in {"stopped", "budget", "deadlock"}
    /\ verdict = "deadlock" => watched = {} /\ \E n \in Nodes : status[n] # "done"

IInv ==
  /\ TypeOK
  /\ DependencyOrder
  /\ BusyAreActivated
  /\ TimersAreActivated
  /\ StoppedCancels
  /\ RunningUntilVerdict
  /\ DrainVerdict

(* What a step does to the nodes: nothing, a move of the transition table  *)
(* by a node that is activated, the blocking of an unreachable node, or    *)
(* one call of activateReadyNodes.                                         *)
Moves(n, to) ==
  n \in activated /\ status' = MoveIfAllowed(n, to) /\ UNCHANGED <<activated, workflow>>
Blocks(m) ==
  m \in Unreachable /\ status' = [status EXCEPT ![m] = "blocked"]
  /\ UNCHANGED <<activated, workflow>>
Activates(d) == Dispatch(d) /\ UNCHANGED workflow

StatusStep ==
  \/ UNCHANGED <<status, activated, workflow>>
  \/ \E n \in Nodes, to \in NodeStatus : Moves(n, to)
  \/ \E m \in Nodes : Blocks(m)
  \/ \E d \in DispatchPlans \cup {NoDispatch} : Activates(d)
  \/ BuildTerminalResult \/ Drained

LEMMA SweepStatusStep ==
  ASSUME NEW n \in Nodes, NEW also, NodeSweep(n, also), UNCHANGED <<activated, workflow>>
  PROVE  StatusStep
BY DEF NodeSweep, SweepBlocks, SweepEnds, StatusStep, Blocks

LEMMA RunSweepStatusStep ==
  ASSUME RunSweeps, UNCHANGED <<activated, workflow>>
  PROVE  StatusStep
BY DEF RunSweeps, SweepBlocks, SweepEnds, StatusStep, Blocks

LEMMA StepsMoveNodes ==
  ASSUME IInv, [Next]_vars
  PROVE  StatusStep
<1> USE DEF IInv, runVars, envVars
<1>1. ASSUME NEW n \in Nodes, Proceed(n) \/ ExecutorRateLimited(n) \/ SleepFires(n)
                               \/ StepRejects(n)
      PROVE  StatusStep
  BY <1>1 DEF Proceed, ExecutorRateLimited, SleepFires, StepRejects, StatusStep
<1>2. ASSUME NEW n \in Nodes, NEW r \in {"done", "failed", "blocked"}, ExecutorReturns(n, r)
      PROVE  StatusStep
  BY <1>2 DEF ExecutorReturns, StatusStep, Moves, BusyAreActivated, Calling, NodeStatus
<1>3. ASSUME NEW n \in Nodes, RetryScheduled(n) \/ RetryExhausted(n) \/ RetryResumes(n)
                               \/ RetryAbandoned(n)
      PROVE  StatusStep
  <2>1. n \in activated /\ UNCHANGED <<activated, workflow>>
    BY <1>3 DEF RetryScheduled, RetryExhausted, RetryResumes, RetryAbandoned,
       BusyAreActivated
  <2>2. \E to \in NodeStatus : status' = MoveIfAllowed(n, to)
    BY <1>3 DEF RetryScheduled, RetryExhausted, RetryResumes, RetryAbandoned, NodeStatus
  <2> QED BY <2>1, <2>2 DEF StatusStep, Moves
<1>4. ASSUME NEW n \in Nodes, ExhaustionPersisted(n) \/ FailureLogged(n)
      PROVE  StatusStep
  BY <1>4, SweepStatusStep DEF ExhaustionPersisted, FailureLogged
<1>5. ASSUME NEW n \in Nodes, Settle(n) PROVE StatusStep
  BY <1>5 DEF Settle, StatusStep, Activates
<1>6. ASSUME NEW n \in Nodes, TimerFires(n) PROVE StatusStep
  BY <1>6 DEF TimerFires, StatusStep, Moves, TimersAreActivated, NodeStatus
<1>7. CASE RunBegins
  BY <1>7 DEF RunBegins, StatusStep, Activates
<1>8. CASE LoopTerminal \/ BlockedLogged
  BY <1>8, RunSweepStatusStep DEF LoopTerminal, BlockedLogged
<1>9. CASE BuildTerminalResult \/ Drained
  BY <1>9 DEF StatusStep
<1>10. CASE LoopStopped \/ LoopOverBudget \/ LoopDeadlock \/ LoopWaits
            \/ VerdictPersisted \/ VerdictLogged \/ RunRejects
  BY <1>10 DEF LoopStopped, LoopOverBudget, LoopDeadlock, BeginDrain, LoopWaits,
     VerdictPersisted, VerdictLogged, RunRejects, nodeVars, StatusStep
<1>11. CASE Stop \/ CallRecorded
  BY <1>11 DEF Stop, CallRecorded, nodeVars, StatusStep
<1>12. CASE UNCHANGED vars
  BY <1>12 DEF vars, nodeVars, StatusStep
<1> QED BY <1>1, <1>2, <1>3, <1>4, <1>5, <1>6, <1>7, <1>8, <1>9, <1>10, <1>11, <1>12
        DEF Next, NodeStep, RunStep

LEMMA TerminalStatusesStay ==
  ASSUME IInv, StatusStep, NEW n \in Nodes, status[n] \in TerminalStatuses
  PROVE  status'[n] = status[n]
<1> USE DEF IInv, TypeOK
<1>1. ASSUME NEW m \in Nodes, NEW to \in NodeStatus, Moves(m, to)
      PROVE  status'[n] = status[n]
  BY <1>1, TransitionTable DEF Moves, MoveIfAllowed
<1>2. ASSUME NEW m \in Nodes, Blocks(m) PROVE status'[n] = status[n]
  BY <1>2 DEF Blocks, Unreachable, TerminalStatuses, FailureStatuses
<1>3. ASSUME NEW d \in DispatchPlans \cup {NoDispatch}, Activates(d)
      PROVE  status'[n] = status[n]
  <2>1. n \notin d.nodes
    BY PlanIsReady DEF NoDispatch, Ready, TerminalStatuses, FailureStatuses
  <2> QED BY <1>3, <2>1 DEF Activates, Dispatch, Starting
<1>4. CASE BuildTerminalResult \/ Drained
  BY <1>4 DEF BuildTerminalResult, Drained, Conclude, nodeVars
<1> QED BY <1>1, <1>2, <1>3, <1>4 DEF StatusStep

LEMMA DependencyOrderKept ==
  ASSUME IInv, StatusStep
  PROVE  DependencyOrder'
<1> USE DEF IInv
<1>1. SUFFICES ASSUME NEW n \in activated', NEW p \in Preds[n]
               PROVE  status'[p] = "done"
  BY DEF DependencyOrder, PredsDone
<1>2. CASE n \in activated
  <2>1. n \in Nodes /\ p \in Nodes /\ status[p] = "done"
    BY <1>2, PredsAssumption DEF DependencyOrder, PredsDone, TypeOK
  <2> QED BY <2>1, TerminalStatusesStay DEF TerminalStatuses
<1>3. CASE n \notin activated
  <2>1. PICK d \in DispatchPlans \cup {NoDispatch} : Activates(d)
    BY <1>1, <1>3 DEF StatusStep, Moves, Blocks, BuildTerminalResult, Drained, Conclude,
       nodeVars
  <2>2. n \in Ready
    BY <1>1, <1>3, <2>1, PlanIsReady DEF Activates, Dispatch, NoDispatch
  <2>3. n \in Nodes /\ p \in Nodes /\ status[p] = "done"
    BY <2>2, PredsAssumption DEF Ready, PredsDone
  <2> QED BY <2>3, TerminalStatusesStay DEF TerminalStatuses
<1> QED BY <1>2, <1>3

LEMMA IInvInit ==
  ASSUME Init
  PROVE  IInv
<1>1. TypeOK
  BY TypeOKInit
<1> QED BY <1>1 DEF Init, IInv, DependencyOrder, BusyAreActivated, TimersAreActivated,
           StoppedCancels, RunningUntilVerdict, DrainVerdict

LEMMA ActivationKept ==
  ASSUME IInv, [Next]_vars
  PROVE  BusyAreActivated' /\ TimersAreActivated' /\ StoppedCancels'
<1> DEFINE Kept == BusyAreActivated' /\ TimersAreActivated' /\ StoppedCancels'
<1> USE DEF IInv, TypeOK, BusyAreActivated, TimersAreActivated, StoppedCancels,
            nodeVars, runVars, envVars
<1>1. ASSUME NEW n \in Nodes, Proceed(n) PROVE Kept
  <2>1. pc[n] # "idle"
    BY <1>1, NextAwaitTyped DEF Proceed, NextAwait
  <2> QED BY <1>1, <2>1 DEF Proceed
<1>2. ASSUME NEW n \in Nodes,
             \/ \E r \in {"done", "failed", "blocked"} : ExecutorReturns(n, r)
             \/ ExecutorRateLimited(n)
      PROVE  Kept
  BY <1>2 DEF ExecutorReturns, ExecutorRateLimited, Calling
<1>3. ASSUME NEW n \in Nodes, RetryScheduled(n) \/ RetryExhausted(n) \/ RetryResumes(n)
                               \/ RetryAbandoned(n)
      PROVE  Kept
  BY <1>3 DEF RetryScheduled, RetryExhausted, RetryResumes, RetryAbandoned
<1>4. ASSUME NEW n \in Nodes, ExhaustionPersisted(n) \/ FailureLogged(n)
      PROVE  Kept
  BY <1>4 DEF ExhaustionPersisted, FailureLogged, NodeSweep
<1>5. ASSUME NEW d \in DispatchPlans \cup {NoDispatch}, Dispatch(d)
      PROVE  /\ \A n \in Nodes : Started(d, pc)[n] # "idle" => n \in activated'
             /\ TimersAreActivated'
             /\ stopped => timers' = {}
             /\ activated \subseteq activated'
  <2>1. d.nodes \subseteq Nodes /\ (stopped => d.nodes = {})
    BY PlanIsReady DEF NoDispatch, Ready
  <2> QED BY <1>5, <2>1 DEF Dispatch, Started, Starting
<1>6. ASSUME NEW n \in Nodes, Settle(n) PROVE Kept
  <2>1. PICK d \in DispatchPlans \cup {NoDispatch} :
           /\ Dispatch(d)
           /\ pc' = [Started(d, pc) EXCEPT ![n] = IF d.throws THEN "rejected" ELSE "settled"]
    BY <1>6 DEF Settle
  <2>2. n \in activated /\ UNCHANGED stopped
    BY <1>6 DEF Settle
  <2> QED BY <1>5, <2>1, <2>2 DEF Started
<1>7. CASE RunBegins
  <2>1. PICK d \in DispatchPlans : Dispatch(d) /\ pc' = Started(d, pc)
    BY <1>7 DEF RunBegins
  <2>2. UNCHANGED stopped
    BY <1>7 DEF RunBegins
  <2> QED BY <1>5, <2>1, <2>2
<1>8. ASSUME NEW n \in Nodes, SleepFires(n) \/ TimerFires(n) \/ StepRejects(n)
      PROVE  Kept
  BY <1>8 DEF SleepFires, TimerFires, StepRejects, LogAwaits, PersistAwaits
<1>9. CASE LoopTerminal \/ BlockedLogged
  BY <1>9 DEF LoopTerminal, BlockedLogged
<1>10. CASE \/ BuildTerminalResult \/ Drained
            \/ LoopStopped \/ LoopOverBudget \/ LoopDeadlock \/ LoopWaits
            \/ VerdictPersisted \/ VerdictLogged \/ RunRejects
  BY <1>10 DEF BuildTerminalResult, Drained, Conclude, LoopStopped, LoopOverBudget,
     LoopDeadlock, BeginDrain, LoopWaits, VerdictPersisted, VerdictLogged, RunRejects
<1>11. CASE Stop \/ CallRecorded
  BY <1>11 DEF Stop, CallRecorded
<1>12. CASE UNCHANGED vars
  BY <1>12 DEF vars
<1> QED BY <1>1, <1>2, <1>3, <1>4, <1>6, <1>7, <1>8, <1>9, <1>10, <1>11, <1>12
        DEF Next, NodeStep, RunStep

LEMMA VerdictKept ==
  ASSUME IInv, [Next]_vars
  PROVE  RunningUntilVerdict' /\ DrainVerdict'
<1> DEFINE Kept == RunningUntilVerdict' /\ DrainVerdict'
<1> USE DEF IInv, RunningUntilVerdict, DrainVerdict, nodeVars, runVars, envVars
\* While run() drains no node for a deadlock, the drain ends before any executor,
\* timer or log can: only the actions that follow a persist may come in between.
<1>1. phase = "draining" /\ verdict = "deadlock" => MicrotaskQueued
  BY DEF MicrotaskQueued, WatchedSettled
<1>2. ASSUME NEW n \in Nodes,
             \/ Proceed(n) \/ ExecutorRateLimited(n) \/ SleepFires(n)
      PROVE  Kept
  BY <1>2 DEF Proceed, ExecutorRateLimited, SleepFires
<1>3. ASSUME NEW n \in Nodes, StepRejects(n) PROVE Kept
  BY <1>3 DEF StepRejects
<1>4. ASSUME NEW n \in Nodes,
             \/ \E r \in {"done", "failed", "blocked"} : ExecutorReturns(n, r)
             \/ RetryScheduled(n) \/ RetryExhausted(n) \/ FailureLogged(n) \/ TimerFires(n)
      PROVE  Kept
  BY <1>1, <1>4 DEF ExecutorReturns, RetryScheduled, RetryExhausted, FailureLogged, TimerFires
<1>5. ASSUME NEW n \in Nodes, NEW to \in {"running", "failed"},
             status' = MoveIfAllowed(n, to), UNCHANGED runVars
      PROVE  Kept
  BY <1>5 DEF MoveIfAllowed, TypeOK
<1>6. ASSUME NEW n \in Nodes, RetryResumes(n) \/ RetryAbandoned(n) PROVE Kept
  BY <1>5, <1>6 DEF RetryResumes, RetryAbandoned
<1>7. ASSUME NEW n \in Nodes, ExhaustionPersisted(n) PROVE Kept
  <2>1. UNCHANGED runVars /\ (UNCHANGED status \/ \E m \in Nodes : status' = [status EXCEPT ![m] = "blocked"])
    BY <1>7 DEF ExhaustionPersisted, NodeSweep, SweepBlocks, SweepEnds
  <2> QED BY <2>1 DEF TypeOK
<1>8. ASSUME NEW n \in Nodes, Settle(n) PROVE Kept
  <2>1. PICK d \in DispatchPlans \cup {NoDispatch} :
           /\ Dispatch(d)
           /\ phase' = IF ~d.throws THEN Woken
                       ELSE IF phase = "awaiting" /\ n \in watched THEN "threw"
                       ELSE phase
    BY <1>8 DEF Settle
  <2>2. UNCHANGED <<watched, verdict, workflow>>
    BY <1>8 DEF Settle
  <2>3. phase' = "draining" <=> phase = "draining"
    BY <2>1 DEF Woken
  <2>4. \A m \in Nodes : status[m] # "done" => status'[m] # "done"
    BY <2>1 DEF Dispatch
  <2> QED BY <2>1, <2>2, <2>3, <2>4 DEF Woken
<1>9. CASE RunBegins
  <2>1. PICK d \in DispatchPlans : phase' = IF d.throws THEN "threw" ELSE "check"
    BY <1>9 DEF RunBegins
  <2> QED BY <1>9, <2>1 DEF RunBegins
<1>10. CASE LoopTerminal \/ BlockedLogged
  BY <1>10 DEF LoopTerminal, BlockedLogged, RunSweeps
<1>11. CASE BuildTerminalResult \/ Drained
  BY <1>11 DEF BuildTerminalResult, Drained, Conclude
<1>12. CASE LoopStopped \/ LoopOverBudget
  BY <1>12 DEF LoopStopped, LoopOverBudget, BeginDrain
<1>13. CASE LoopDeadlock
  <2>1. \E n \in Nodes : status[n] # "done"
    BY <1>13 DEF LoopDeadlock, Terminal, TerminalStatuses
  <2> QED BY <1>13, <2>1 DEF LoopDeadlock, BeginDrain
<1>14. CASE LoopWaits \/ VerdictPersisted \/ VerdictLogged \/ RunRejects
  BY <1>14 DEF LoopWaits, VerdictPersisted, VerdictLogged, RunRejects
<1>15. CASE Stop \/ CallRecorded
  BY <1>15 DEF Stop, CallRecorded, Woken
<1>16. CASE UNCHANGED vars
  BY <1>16 DEF vars
<1> QED BY <1>2, <1>3, <1>4, <1>6, <1>7, <1>8, <1>9, <1>10, <1>11, <1>12, <1>13, <1>14,
           <1>15, <1>16 DEF Next, NodeStep, RunStep

LEMMA IInvStep ==
  ASSUME IInv, [Next]_vars
  PROVE  IInv'
BY TypeOKStep, StepsMoveNodes, DependencyOrderKept, ActivationKept, VerdictKept DEF IInv

LEMMA IInvHolds == Spec => []IInv
<1>1. Init => IInv
  BY IInvInit
<1>2. IInv /\ [Next]_vars => IInv'
  BY IInvStep
<1> QED BY <1>1, <1>2, PTL DEF Spec

-----------------------------------------------------------------------------
(* The theorems                                                            *)

\* No node is activated before its predecessors are done, nor does a predecessor
\* of an activated node ever stop being done (findReadyNodes, lines 287-306).
THEOREM DependencyOrderHolds == Spec => []DependencyOrder
<1>1. IInv => DependencyOrder
  BY DEF IInv
<1> QED BY <1>1, IInvHolds, PTL

\* No handler, retry, sweep or timer moves a node out of a terminal status
\* (node.ts TRANSITIONS, and the canTransition tests of the engine).
THEOREM TerminalIsFinalHolds == Spec => TerminalIsFinal
<1>1. ASSUME IInv, [Next]_vars
      PROVE  [\A n \in Nodes : status[n] \in TerminalStatuses => status'[n] = status[n]]_vars
  BY <1>1, StepsMoveNodes, TerminalStatusesStay
<1> QED BY <1>1, IInvHolds, PTL DEF Spec, TerminalIsFinal

\* With no timer left, and a reason for activateReadyNodes not to be called or to take nothing,
\* a step activates no node and starts none.
LEMMA NothingStarts ==
  ASSUME TypeOK, [Next]_vars, timers = {}, stopped \/ (overBudget /\ phase # "logStarted")
  PROVE  UNCHANGED activated /\ \A n \in Nodes : pc[n] = "idle" => pc'[n] = "idle"
<1> DEFINE Still ==
      UNCHANGED activated /\ \A n \in Nodes : pc[n] = "idle" => pc'[n] = "idle"
<1> USE DEF TypeOK, nodeVars, runVars, envVars
<1>1. ASSUME NEW d \in DispatchPlans \cup {NoDispatch}, Dispatch(d), stopped \/ d = NoDispatch
      PROVE  UNCHANGED activated /\ Started(d, pc) = pc
  <2>1. d.nodes = {}
    BY <1>1, PlanIsReady DEF NoDispatch
  <2> QED BY <1>1, <2>1 DEF Dispatch, Started, Starting
<1>2. ASSUME NEW n \in Nodes, Proceed(n) PROVE Still
  <2>1. pc[n] # "idle"
    BY <1>2, NextAwaitTyped DEF Proceed, NextAwait
  <2> QED BY <1>2, <2>1 DEF Proceed
<1>3. ASSUME NEW n \in Nodes,
             \/ \E r \in {"done", "failed", "blocked"} : ExecutorReturns(n, r)
             \/ ExecutorRateLimited(n) \/ RetryScheduled(n) \/ RetryExhausted(n)
             \/ RetryResumes(n) \/ RetryAbandoned(n)
      PROVE  Still
  BY <1>3 DEF ExecutorReturns, ExecutorRateLimited, Calling, RetryScheduled,
     RetryExhausted, RetryResumes, RetryAbandoned
<1>4. ASSUME NEW n \in Nodes, ExhaustionPersisted(n) \/ FailureLogged(n) PROVE Still
  BY <1>4 DEF ExhaustionPersisted, FailureLogged, NodeSweep
<1>5. ASSUME NEW n \in Nodes, Settle(n) PROVE Still
  <2>1. PICK d \in DispatchPlans \cup {NoDispatch} :
           /\ Dispatch(d)
           /\ overBudget => d = NoDispatch
           /\ pc' = [Started(d, pc) EXCEPT ![n] = IF d.throws THEN "rejected" ELSE "settled"]
    BY <1>5 DEF Settle
  <2>2. pc[n] # "idle"
    BY <1>5 DEF Settle
  <2> QED BY <1>1, <2>1, <2>2
<1>6. CASE RunBegins
  BY <1>1, <1>6 DEF RunBegins
<1>7. ASSUME NEW n \in Nodes, SleepFires(n) \/ TimerFires(n) \/ StepRejects(n)
      PROVE  Still
  BY <1>7 DEF SleepFires, TimerFires, StepRejects, LogAwaits, PersistAwaits
<1>8. CASE LoopTerminal \/ BlockedLogged
  BY <1>8 DEF LoopTerminal, BlockedLogged
<1>9. CASE \/ BuildTerminalResult \/ Drained
           \/ LoopStopped \/ LoopOverBudget \/ LoopDeadlock \/ LoopWaits
           \/ VerdictPersisted \/ VerdictLogged \/ RunRejects
  BY <1>9 DEF BuildTerminalResult, Drained, Conclude, LoopStopped, LoopOverBudget,
     LoopDeadlock, BeginDrain, LoopWaits, VerdictPersisted, VerdictLogged, RunRejects
<1>10. CASE Stop \/ CallRecorded \/ UNCHANGED vars
  BY <1>10 DEF Stop, CallRecorded, vars
<1> QED BY <1>2, <1>3, <1>4, <1>5, <1>6, <1>7, <1>8, <1>9, <1>10 DEF Next, NodeStep, RunStep

\* Once stop() was called no node is activated or started, whatever was scheduled
\* or under way (stop, lines 214-225, and the guard of activateReadyNodes).
THEOREM StopFreezesDispatchHolds == Spec => StopFreezesDispatch
<1> DEFINE Frozen ==
      stopped => UNCHANGED activated /\ \A n \in Nodes : pc[n] = "idle" => pc'[n] = "idle"
<1>1. IInv /\ [Next]_vars => [Frozen]_vars
  BY NothingStarts DEF IInv, StoppedCancels
<1> QED BY <1>1, IInvHolds, PTL DEF Spec, StopFreezesDispatch

-----------------------------------------------------------------------------
(* A second invariant, for what the result says: which await goes with     *)
(* which status, who is in the lists and what is left when a run closes.   *)

WithRunning   == {"logStarted", "executing", "reexecuting", "logResumed", "logRateLimited"}
WithWaiting   == {"logScheduled", "persistScheduled", "sleeping"}
WithExhausted == {"logExhausted", "persistExhausted"}
Afterwards    == {"logFailed", "logBlocked", "persistBlocked", "persistResult", "settled",
                  "rejected"}

ActiveAreBusy ==
  \A n \in Nodes :
    /\ n \in active => pc[n] \notin {"idle", "settled"}
    /\ pc[n] \notin {"idle", "settled", "rejected"} => n \in active

TimersWait == \A n \in timers : status[n] = "waiting" /\ pc[n] = "idle"

StatusFitsAwait ==
  \A n \in Nodes :
    /\ pc[n] \in WithRunning => status[n] = "running"
    /\ pc[n] \in WithWaiting => status[n] = "waiting_for_provider"
    /\ pc[n] \in WithExhausted => status[n] = "failed_provider_exhausted"

FailedHaveFailed ==
  \A n \in failed : \/ status[n] \in FailureStatuses
                    \/ status[n] = "waiting_for_provider" /\ pc[n] \in Afterwards

CompletedAreDone == \A n \in completed : status[n] = "done"

OthersAreLeft ==
  \A n \in Nodes :
    /\ n \in activated => status[n] # "pending"
    /\ n \notin activated /\ status[n] \notin TerminalStatuses =>
         status[n] = "pending" \/ (status[n] = "waiting_for_provider" /\ PredsDone(n))

\* A node the run brought to a terminal status is listed, or will be, unless it rejected.
AreListed ==
  \A n \in activated : status[n] \in TerminalStatuses =>
    n \in completed \cup failed \/ pc[n] \in WithExhausted \cup {"rejected"}

NodesInv ==
  /\ ActiveAreBusy /\ TimersWait /\ StatusFitsAwait /\ FailedHaveFailed /\ CompletedAreDone
  /\ OthersAreLeft /\ AreListed

LEMMA NodesInvInit ==
  ASSUME Init
  PROVE  NodesInv
<1>1. ASSUME Resumed PROVE OthersAreLeft
  BY <1>1 DEF Init, OthersAreLeft, ResumedNode, PredsDone
<1>2. ASSUME ~Resumed PROVE OthersAreLeft
  BY <1>2 DEF Init, OthersAreLeft
<1> QED BY <1>1, <1>2
        DEF Init, NodesInv, ActiveAreBusy, TimersWait, StatusFitsAwait, FailedHaveFailed,
            CompletedAreDone, AreListed, WithRunning, WithWaiting, WithExhausted

\* Predecessors that are done stay done.
LEMMA PredsStayDone ==
  ASSUME IInv, [Next]_vars, NEW n \in Nodes, PredsDone(n)
  PROVE  PredsDone(n)'
<1>1. StatusStep
  BY StepsMoveNodes
<1>2. \A p \in Preds[n] : p \in Nodes /\ status[p] = "done"
  BY PredsAssumption DEF PredsDone
<1> QED BY <1>1, <1>2, TerminalStatusesStay DEF PredsDone, TerminalStatuses

\* One node goes from one await to the next, and its status with it.
LEMMA OneNodeMoves ==
  ASSUME IInv, NodesInv, [Next]_vars, NEW n \in Nodes, NEW st \in NodeStatus, NEW at \in PC,
         n \in activated, pc[n] \notin {"idle", "settled", "rejected"}, st # "pending",
         at \notin {"idle", "settled", "rejected"},
         status' = [status EXCEPT ![n] = st], pc' = [pc EXCEPT ![n] = at],
         UNCHANGED <<activated, active, timers>>,
         at \in WithRunning => st = "running",
         at \in WithWaiting => st = "waiting_for_provider",
         at \in WithExhausted => st = "failed_provider_exhausted"
  PROVE  ActiveAreBusy' /\ TimersWait' /\ StatusFitsAwait' /\ OthersAreLeft'
<1> USE DEF IInv, TypeOK, NodesInv
<1>1. ActiveAreBusy' /\ TimersWait' /\ StatusFitsAwait'
  BY DEF ActiveAreBusy, TimersWait, StatusFitsAwait, TimersAreActivated
<1>2. OthersAreLeft'
  BY PredsStayDone DEF OthersAreLeft
<1> QED BY <1>1, <1>2

\* A sweep blocks a node nobody is busy with.
LEMMA SweepKeeps ==
  ASSUME IInv, NodesInv, [Next]_vars, NEW m \in Nodes, NEW also, SweepBlocks(m, also),
         UNCHANGED <<activated, timers, completed>>,
         \A n \in Nodes : pc'[n] = pc[n] \/ pc'[n] \in Afterwards,
         \A n \in Nodes : pc'[n] # pc[n] => pc[n] \in Afterwards \cup WithExhausted,
         \A n \in also : n \in Nodes /\ status[n] \in FailureStatuses
  PROVE  /\ TimersWait' /\ StatusFitsAwait' /\ OthersAreLeft'
         /\ FailedHaveFailed' /\ CompletedAreDone'
<1> USE DEF IInv, TypeOK, NodesInv
<1>1. /\ status[m] = "pending" /\ status' = [status EXCEPT ![m] = "blocked"]
      /\ failed' = failed \cup also \cup {m}
  BY DEF SweepBlocks, Unreachable
<1>2. m \notin activated /\ m \notin timers /\ pc[m] = "idle" /\ m \notin completed
  BY <1>1 DEF OthersAreLeft, TimersAreActivated, BusyAreActivated, CompletedAreDone
<1>3. pc'[m] = "idle"
  BY <1>2 DEF Afterwards, WithExhausted
<1>4. TimersWait' /\ CompletedAreDone'
  BY <1>1, <1>2 DEF TimersWait, CompletedAreDone, Afterwards, WithExhausted
<1>5. StatusFitsAwait'
  BY <1>1, <1>2, <1>3
     DEF StatusFitsAwait, Afterwards, WithRunning, WithWaiting, WithExhausted
<1>6. FailedHaveFailed'
  BY <1>1 DEF FailedHaveFailed, FailureStatuses, Afterwards
<1>7. OthersAreLeft'
  BY <1>1, <1>2, PredsStayDone DEF OthersAreLeft, TerminalStatuses, FailureStatuses
<1> QED BY <1>4, <1>5, <1>6, <1>7

\* Activating ready nodes keeps all that is said of the nodes.
LEMMA DispatchKeeps ==
  ASSUME IInv, NodesInv, [Next]_vars, NEW d \in DispatchPlans \cup {NoDispatch}, Dispatch(d),
         NEW gone \in SUBSET Nodes, NEW at \in {"settled", "rejected"},
         \A n \in gone : pc[n] = "persistResult",
         active' = (active \ gone) \cup Starting(d),
         pc' = [n \in Nodes |-> IF n \in gone THEN at ELSE Started(d, pc)[n]],
         UNCHANGED <<completed, failed>>
  PROVE  NodesInv'
<1> USE DEF IInv, TypeOK
<1>1. /\ d.nodes \subseteq Nodes
      /\ \A n \in d.nodes : status[n] = "pending" /\ n \notin activated
  BY PlanIsReady DEF NoDispatch, Ready
<1>2. \A n \in d.nodes : /\ pc[n] = "idle" /\ n \notin gone /\ n \notin active /\ n \notin timers
                         /\ n \notin failed /\ n \notin completed
  <2>1. \A n \in d.nodes : pc[n] = "idle" /\ n \notin gone /\ n \notin timers
    BY <1>1 DEF BusyAreActivated, TimersAreActivated
  <2> QED BY <1>1, <2>1
          DEF NodesInv, ActiveAreBusy, FailedHaveFailed, CompletedAreDone, FailureStatuses
<1>3. \A n \in Nodes : /\ status'[n] = IF n \in Starting(d) THEN "running"
                                     ELSE IF n \in d.nodes THEN "waiting" ELSE status[n]
                      /\ pc'[n] = IF n \in gone THEN at
                                  ELSE IF n \in Starting(d) THEN "logStarted" ELSE pc[n]
  BY DEF Dispatch, Started
<1>4. Starting(d) \subseteq d.nodes /\ \A n \in Starting(d) : Delay[n] = "none"
  BY DEF Starting
<1>5. activated' = activated \cup d.nodes /\ timers' = timers \cup {n \in d.nodes : Delay[n] = "timer"}
  BY DEF Dispatch
<1> USE DEF NodesInv
<1>6. ActiveAreBusy'
  BY <1>1, <1>2, <1>3, <1>4 DEF ActiveAreBusy
<1>7. TimersWait'
  BY <1>1, <1>2, <1>3, <1>4, <1>5 DEF TimersWait
<1>8. StatusFitsAwait'
  BY <1>1, <1>2, <1>3, <1>4 DEF StatusFitsAwait, WithRunning, WithWaiting, WithExhausted
<1>9. FailedHaveFailed' /\ CompletedAreDone'
  BY <1>1, <1>2, <1>3, <1>4 DEF FailedHaveFailed, CompletedAreDone, Afterwards
<1>10. OthersAreLeft'
  BY <1>1, <1>2, <1>3, <1>4, <1>5, PredsStayDone DEF OthersAreLeft
<1>11. AreListed'
  BY <1>1, <1>2, <1>3, <1>4, <1>5
     DEF AreListed, TerminalStatuses, FailureStatuses, WithExhausted
<1> QED BY <1>6, <1>7, <1>8, <1>9, <1>10, <1>11

LEMMA NodesInvStep ==
  ASSUME IInv, NodesInv, [Next]_vars
  PROVE  NodesInv'
<1> USE DEF IInv, TypeOK, runVars, envVars
<1>0. ActiveAreBusy /\ TimersWait /\ StatusFitsAwait /\ FailedHaveFailed /\ CompletedAreDone
      /\ OthersAreLeft /\ AreListed
  BY DEF NodesInv
<1>1. ASSUME NEW n \in Nodes, Proceed(n) PROVE NodesInv'
  <2> DEFINE at == NextAwait[pc[n]]
  <2>1. /\ pc[n] \in {"logStarted", "logExhausted", "logScheduled", "persistScheduled",
                      "logResumed", "logCompleted", "persistBlocked"}
        /\ pc' = [pc EXCEPT ![n] = at]
    BY <1>1 DEF Proceed, NextAwait
  <2>2. /\ at \in PC \ {"idle", "settled", "rejected"}
        /\ at \in WithRunning => pc[n] \in WithRunning
        /\ at \in WithWaiting => pc[n] \in WithWaiting
        /\ at \in WithExhausted => pc[n] \in WithExhausted
        /\ pc[n] \in Afterwards => at \in Afterwards
        /\ pc[n] \in WithExhausted => at \in WithExhausted
    BY <2>1 DEF NextAwait, PC, LogAwaits, PersistAwaits, Calling, WithRunning, WithWaiting,
                WithExhausted, Afterwards
  <2>3. n \in activated /\ status[n] # "pending" /\ status' = [status EXCEPT ![n] = status[n]]
    BY <1>0, <1>1, <2>1 DEF BusyAreActivated, OthersAreLeft, Proceed
  <2>4. /\ at \in WithRunning => status[n] = "running"
        /\ at \in WithWaiting => status[n] = "waiting_for_provider"
        /\ at \in WithExhausted => status[n] = "failed_provider_exhausted"
    BY <1>0, <2>2 DEF StatusFitsAwait
  <2> HIDE DEF at
  <2>5. ActiveAreBusy' /\ TimersWait' /\ StatusFitsAwait' /\ OthersAreLeft'
    <3> DEFINE st == status[n]
    <3>1. st \in NodeStatus /\ at \in PC /\ at \notin {"idle", "settled", "rejected"}
      BY <2>2
    <3>2. pc[n] \notin {"idle", "settled", "rejected"}
      BY <2>1
    <3>3. UNCHANGED <<activated, active, timers>>
      BY <1>1 DEF Proceed
    <3>4. st # "pending" /\ status' = [status EXCEPT ![n] = st] /\ pc' = [pc EXCEPT ![n] = at]
      BY <2>1, <2>3
    <3>5. /\ at \in WithRunning => st = "running"
          /\ at \in WithWaiting => st = "waiting_for_provider"
          /\ at \in WithExhausted => st = "failed_provider_exhausted"
      BY <2>4
    <3> HIDE DEF st
    <3> QED BY <2>3, <3>1, <3>2, <3>3, <3>4, <3>5, OneNodeMoves
  <2>6. FailedHaveFailed' /\ CompletedAreDone' /\ AreListed'
    BY <1>0, <1>1, <2>1, <2>2 DEF Proceed, FailedHaveFailed, CompletedAreDone, AreListed
  <2> QED BY <2>5, <2>6 DEF NodesInv
<1>2. ASSUME NEW n \in Nodes, NEW r \in {"done", "failed", "blocked"}, ExecutorReturns(n, r)
      PROVE  NodesInv'
  <2>1. status[n] = "running" /\ n \in activated /\ pc[n] \in Calling
    BY <1>0, <1>2 DEF ExecutorReturns, StatusFitsAwait, WithRunning, Calling, BusyAreActivated
  <2>2. status' = [status EXCEPT ![n] = r]
    BY <1>2, <2>1 DEF ExecutorReturns, MoveIfAllowed, CanTransition, NodeTransitions
  <2>3. PICK at \in {"logCompleted", "logFailed"} :
          /\ pc' = [pc EXCEPT ![n] = at]
          /\ at = "logCompleted" => r = "done" /\ completed' = completed \cup {n} /\ failed' = failed
          /\ at = "logFailed" => r # "done" /\ failed' = failed \cup {n} /\ completed' = completed
    BY <1>2 DEF ExecutorReturns
  <2>4. ActiveAreBusy' /\ TimersWait' /\ StatusFitsAwait' /\ OthersAreLeft'
    <3>1. /\ at \in PC /\ at \notin {"idle", "settled", "rejected"} /\ r \in NodeStatus /\ r # "pending"
          /\ at \notin WithRunning \cup WithWaiting \cup WithExhausted
      BY DEF PC, LogAwaits, NodeStatus, WithRunning, WithWaiting, WithExhausted
    <3> QED BY <1>2, <2>1, <2>2, <2>3, <3>1, OneNodeMoves DEF ExecutorReturns, Calling
  <2>5. n \notin failed /\ n \notin completed
    BY <1>0, <2>1 DEF FailedHaveFailed, CompletedAreDone, FailureStatuses
  <2>6. FailedHaveFailed' /\ CompletedAreDone'
    BY <1>0, <2>1, <2>2, <2>3, <2>5 DEF FailedHaveFailed, CompletedAreDone, FailureStatuses
  <2>7. AreListed'
    BY <1>0, <1>2, <2>1, <2>2, <2>3 DEF ExecutorReturns, AreListed
  <2> QED BY <2>4, <2>6, <2>7 DEF NodesInv
<1>3. ASSUME NEW n \in Nodes, NEW st \in NodeStatus, NEW at \in PC,
             n \in activated, pc[n] \notin {"idle", "settled", "rejected"},
             status' = [status EXCEPT ![n] = st], pc' = [pc EXCEPT ![n] = at],
             UNCHANGED <<activated, active, timers, completed, failed>>,
             st # "pending", at \notin {"idle", "settled", "rejected"},
             status[n] \notin TerminalStatuses, n \notin failed,
             at \in WithRunning => st = "running",
             at \in WithWaiting => st = "waiting_for_provider",
             at \in WithExhausted => st = "failed_provider_exhausted",
             st \in TerminalStatuses => at \in WithExhausted
      PROVE  NodesInv'
  <2>1. ActiveAreBusy' /\ TimersWait' /\ StatusFitsAwait' /\ OthersAreLeft'
    BY <1>3, OneNodeMoves
  <2>2. FailedHaveFailed' /\ CompletedAreDone' /\ AreListed'
    BY <1>0, <1>3 DEF FailedHaveFailed, CompletedAreDone, AreListed, TerminalStatuses
  <2> QED BY <2>1, <2>2 DEF NodesInv
<1>4. ASSUME NEW n \in Nodes, ExecutorRateLimited(n) PROVE NodesInv'
  <2>1. status[n] = "running" /\ n \in activated /\ pc[n] \in Calling /\ n \notin failed
    BY <1>0, <1>4 DEF ExecutorRateLimited, StatusFitsAwait, WithRunning, Calling,
                      BusyAreActivated, FailedHaveFailed, FailureStatuses
  <2>2. "running" \in NodeStatus /\ "logRateLimited" \in PC /\ "running" \notin TerminalStatuses
        /\ "logRateLimited" \notin WithWaiting \cup WithExhausted
    BY DEF NodeStatus, PC, LogAwaits, TerminalStatuses, FailureStatuses, WithWaiting, WithExhausted
  <2>3. status' = [status EXCEPT ![n] = "running"]
    BY <1>4, <2>1 DEF ExecutorRateLimited
  <2> QED BY <1>3, <1>4, <2>1, <2>2, <2>3 DEF ExecutorRateLimited, Calling
<1>5. ASSUME NEW n \in Nodes, pc[n] = "logRateLimited"
      PROVE  status[n] = "running" /\ n \in activated /\ n \notin failed
  BY <1>0, <1>5 DEF StatusFitsAwait, WithRunning, BusyAreActivated, FailedHaveFailed, FailureStatuses
<1>6. ASSUME NEW n \in Nodes, RetryScheduled(n) PROVE NodesInv'
  <2>1. status' = [status EXCEPT ![n] = "waiting_for_provider"]
    BY <1>5, <1>6 DEF RetryScheduled, MoveIfAllowed, CanTransition, NodeTransitions
  <2>2. /\ "waiting_for_provider" \in NodeStatus /\ "logScheduled" \in PC
        /\ "running" \notin TerminalStatuses /\ "waiting_for_provider" \notin TerminalStatuses
        /\ "logScheduled" \notin WithRunning \cup WithExhausted
    BY DEF NodeStatus, PC, LogAwaits, TerminalStatuses, FailureStatuses, WithRunning, WithExhausted
  <2> QED BY <1>3, <1>5, <1>6, <2>1, <2>2 DEF RetryScheduled
<1>7. ASSUME NEW n \in Nodes, RetryExhausted(n) PROVE NodesInv'
  <2>1. status' = [status EXCEPT ![n] = "failed_provider_exhausted"]
    BY <1>5, <1>7 DEF RetryExhausted, MoveIfAllowed, CanTransition, NodeTransitions
  <2>2. /\ "failed_provider_exhausted" \in NodeStatus /\ "logExhausted" \in PC
        /\ "running" \notin TerminalStatuses /\ "logExhausted" \in WithExhausted
        /\ "logExhausted" \notin WithRunning \cup WithWaiting
    BY DEF NodeStatus, PC, LogAwaits, TerminalStatuses, FailureStatuses, WithRunning, WithWaiting,
           WithExhausted
  <2> QED BY <1>3, <1>5, <1>7, <2>1, <2>2 DEF RetryExhausted
<1>8. ASSUME NEW n \in Nodes, ExhaustionPersisted(n) \/ FailureLogged(n) PROVE NodesInv'
  <2>1. PICK also \in SUBSET {n} :
          /\ NodeSweep(n, also)
          /\ pc[n] \in WithExhausted => also = {n}
          /\ also # {} => status[n] = "failed_provider_exhausted"
          /\ pc[n] \in {"persistExhausted", "logFailed", "logBlocked"}
    BY <1>0, <1>8 DEF ExhaustionPersisted, FailureLogged, StatusFitsAwait, WithExhausted
  <2>2. UNCHANGED <<activated, active, timers, completed>>
    BY <1>8 DEF ExhaustionPersisted, FailureLogged
  <2>3. PICK at \in {"logBlocked", "persistBlocked"} : pc' = [pc EXCEPT ![n] = at]
    BY <2>1 DEF NodeSweep
  <2>4. ActiveAreBusy'
    BY <1>0, <2>1, <2>2, <2>3 DEF ActiveAreBusy
  <2>5. /\ \A m \in Nodes : pc'[m] = pc[m] \/ pc'[m] \in Afterwards
        /\ \A m \in Nodes : pc'[m] # pc[m] => pc[m] \in Afterwards \cup WithExhausted
        /\ \A m \in also : m \in Nodes /\ status[m] \in FailureStatuses
    BY <2>1, <2>3 DEF Afterwards, WithExhausted, FailureStatuses
  <2>6. CASE \E m \in Nodes : SweepBlocks(m, also)
    <3>1. /\ TimersWait' /\ StatusFitsAwait' /\ OthersAreLeft'
          /\ FailedHaveFailed' /\ CompletedAreDone'
      BY <2>2, <2>5, <2>6, SweepKeeps
    <3>2. AreListed'
      BY <1>0, <2>1, <2>2, <2>3, <2>6
         DEF AreListed, SweepBlocks, Unreachable, OthersAreLeft, WithExhausted
    <3> QED BY <2>4, <3>1, <3>2 DEF NodesInv
  <2>7. CASE SweepEnds(also)
    <3>1. status' = status /\ failed' = failed \cup also
      BY <2>7 DEF SweepEnds
    <3>2. TimersWait' /\ StatusFitsAwait' /\ CompletedAreDone'
      BY <1>0, <2>2, <2>3, <2>1, <3>1
         DEF TimersWait, StatusFitsAwait, CompletedAreDone, WithRunning, WithWaiting, WithExhausted
    <3>3. OthersAreLeft'
      BY <1>0, <2>2, <3>1 DEF OthersAreLeft, PredsDone
    <3>4. FailedHaveFailed' /\ AreListed'
      BY <1>0, <2>1, <2>2, <2>3, <3>1
         DEF FailedHaveFailed, AreListed, WithExhausted, Afterwards, FailureStatuses
    <3> QED BY <2>4, <3>2, <3>3, <3>4 DEF NodesInv
  <2> QED BY <2>1, <2>6, <2>7 DEF NodeSweep
<1>9. ASSUME NEW n \in Nodes, pc[n] = "sleeping"
      PROVE  status[n] = "waiting_for_provider" /\ n \in activated /\ n \notin failed
  BY <1>0, <1>9 DEF StatusFitsAwait, WithWaiting, BusyAreActivated, FailedHaveFailed,
                    FailureStatuses, Afterwards
<1>10. ASSUME NEW n \in Nodes, RetryResumes(n) PROVE NodesInv'
  <2>1. status' = [status EXCEPT ![n] = "running"]
    BY <1>9, <1>10 DEF RetryResumes, MoveIfAllowed, CanTransition, NodeTransitions
  <2>2. /\ "running" \in NodeStatus /\ "logResumed" \in PC
        /\ "running" \notin TerminalStatuses /\ "waiting_for_provider" \notin TerminalStatuses
        /\ "logResumed" \notin WithWaiting \cup WithExhausted
    BY DEF NodeStatus, PC, LogAwaits, TerminalStatuses, FailureStatuses, WithWaiting, WithExhausted
  <2> QED BY <1>3, <1>9, <1>10, <2>1, <2>2 DEF RetryResumes
<1>11. ASSUME NEW n \in Nodes, RetryAbandoned(n) PROVE NodesInv'
  <2>1. status' = [status EXCEPT ![n] = "waiting_for_provider"]
    BY <1>9, <1>11 DEF RetryAbandoned, MoveIfAllowed, CanTransition, NodeTransitions
  <2>2. /\ "waiting_for_provider" \in NodeStatus /\ "logFailed" \in PC
        /\ "logFailed" \notin WithRunning \cup WithWaiting \cup WithExhausted
    BY DEF NodeStatus, PC, LogAwaits, WithRunning, WithWaiting, WithExhausted
  <2>3. ActiveAreBusy' /\ TimersWait' /\ StatusFitsAwait' /\ OthersAreLeft'
    BY <1>9, <1>11, <2>1, <2>2, OneNodeMoves DEF RetryAbandoned
  <2>4. FailedHaveFailed' /\ CompletedAreDone' /\ AreListed'
    BY <1>0, <1>9, <1>11, <2>1
       DEF RetryAbandoned, FailedHaveFailed, CompletedAreDone, AreListed, Afterwards, WithExhausted
  <2> QED BY <2>3, <2>4 DEF NodesInv
<1>12. ASSUME NEW n \in Nodes, Settle(n) PROVE NodesInv'
  <2>1. PICK d \in DispatchPlans \cup {NoDispatch} :
           /\ Dispatch(d)
           /\ active' = (active \ {n}) \cup Starting(d)
           /\ pc' = [Started(d, pc) EXCEPT ![n] = IF d.throws THEN "rejected" ELSE "settled"]
    BY <1>12 DEF Settle
  <2>2. PICK at \in {"settled", "rejected"} :
           pc' = [m \in Nodes |-> IF m \in {n} THEN at ELSE Started(d, pc)[m]]
    BY <2>1 DEF Started
  <2>3. /\ {n} \in SUBSET Nodes /\ \A m \in {n} : pc[m] = "persistResult"
        /\ UNCHANGED <<completed, failed>>
    BY <1>12 DEF Settle
  <2> DEFINE gone == {n}
  <2> HIDE DEF gone
  <2>4. /\ gone \in SUBSET Nodes /\ \A m \in gone : pc[m] = "persistResult"
        /\ active' = (active \ gone) \cup Starting(d)
        /\ pc' = [m \in Nodes |-> IF m \in gone THEN at ELSE Started(d, pc)[m]]
    BY <2>1, <2>2, <2>3 DEF gone
  <2>5. Dispatch(d) /\ UNCHANGED <<completed, failed>>
    BY <2>1, <2>3
  <2> QED BY <2>4, <2>5, DispatchKeeps
<1>13. CASE RunBegins
  <2>1. PICK d \in DispatchPlans : /\ Dispatch(d) /\ active' = active \cup Starting(d)
                                   /\ pc' = Started(d, pc)
    BY <1>13 DEF RunBegins
  <2> DEFINE gone == {}
  <2>2. /\ gone \in SUBSET Nodes /\ \A m \in gone : pc[m] = "persistResult"
        /\ active' = (active \ gone) \cup Starting(d)
        /\ pc' = [m \in Nodes |-> IF m \in gone THEN "settled" ELSE Started(d, pc)[m]]
    BY <2>1 DEF Started
  <2>3. UNCHANGED <<completed, failed>>
    BY <1>13 DEF RunBegins
  <2> HIDE DEF gone
  <2> QED BY <2>1, <2>2, <2>3, DispatchKeeps
<1>14. ASSUME NEW n \in Nodes, TimerFires(n) PROVE NodesInv'
  <2>1. status[n] = "waiting" /\ pc[n] = "idle" /\ n \in activated
    BY <1>0, <1>14 DEF TimerFires, TimersWait, TimersAreActivated
  <2>2. status' = [status EXCEPT ![n] = "running"] /\ pc' = [pc EXCEPT ![n] = "logStarted"]
    BY <1>14, <2>1 DEF TimerFires, MoveIfAllowed, CanTransition, NodeTransitions
  <2>3. ActiveAreBusy' /\ TimersWait' /\ StatusFitsAwait'
    BY <1>0, <1>14, <2>1, <2>2
       DEF TimerFires, ActiveAreBusy, TimersWait, StatusFitsAwait, WithRunning, WithWaiting,
           WithExhausted
  <2>4. FailedHaveFailed' /\ CompletedAreDone' /\ AreListed'
    BY <1>0, <1>14, <2>1, <2>2
       DEF TimerFires, FailedHaveFailed, CompletedAreDone, AreListed, FailureStatuses,
           TerminalStatuses
  <2>5. OthersAreLeft'
    BY <1>0, <1>14, <2>1, <2>2, PredsStayDone DEF TimerFires, OthersAreLeft
  <2> QED BY <2>3, <2>4, <2>5 DEF NodesInv
<1>15. ASSUME NEW n \in Nodes, StepRejects(n) PROVE NodesInv'
  <2>1. pc' = [pc EXCEPT ![n] = "rejected"] /\ pc[n] # "idle"
        /\ UNCHANGED <<status, activated, active, timers, completed, failed>>
    BY <1>15 DEF StepRejects, LogAwaits, PersistAwaits
  <2>2. ActiveAreBusy' /\ TimersWait' /\ StatusFitsAwait' /\ OthersAreLeft'
    BY <1>0, <2>1
       DEF ActiveAreBusy, TimersWait, StatusFitsAwait, OthersAreLeft, PredsDone, WithRunning,
           WithWaiting, WithExhausted
  <2>3. FailedHaveFailed' /\ CompletedAreDone' /\ AreListed'
    BY <1>0, <2>1 DEF FailedHaveFailed, CompletedAreDone, AreListed, Afterwards
  <2> QED BY <2>2, <2>3 DEF NodesInv
<1>16. CASE LoopTerminal \/ BlockedLogged
  <2>1. RunSweeps /\ UNCHANGED <<pc, activated, active, timers, completed>>
    BY <1>16 DEF LoopTerminal, BlockedLogged
  <2>2. ASSUME NEW m \in Nodes, SweepBlocks(m, {}) PROVE NodesInv'
    <3>1. /\ TimersWait' /\ StatusFitsAwait' /\ OthersAreLeft'
          /\ FailedHaveFailed' /\ CompletedAreDone'
      BY <2>1, <2>2, SweepKeeps
    <3>2. ActiveAreBusy' /\ AreListed'
      BY <1>0, <2>1, <2>2 DEF ActiveAreBusy, AreListed, SweepBlocks, Unreachable, OthersAreLeft
    <3> QED BY <3>1, <3>2 DEF NodesInv
  <2>3. CASE SweepEnds({})
    BY <1>0, <2>1, <2>3
       DEF SweepEnds, NodesInv, ActiveAreBusy, TimersWait, StatusFitsAwait, FailedHaveFailed,
           CompletedAreDone, OthersAreLeft, AreListed, PredsDone
  <2> QED BY <2>1, <2>2, <2>3 DEF RunSweeps
<1>17. ASSUME UNCHANGED <<status, pc, activated, active, completed, failed>>, timers' \subseteq timers
       PROVE  NodesInv'
  BY <1>0, <1>17
     DEF NodesInv, ActiveAreBusy, TimersWait, StatusFitsAwait, FailedHaveFailed, CompletedAreDone,
         OthersAreLeft, AreListed, PredsDone
<1>18. CASE \/ BuildTerminalResult \/ Drained \/ LoopStopped \/ LoopOverBudget \/ LoopDeadlock
            \/ LoopWaits \/ VerdictPersisted \/ VerdictLogged \/ RunRejects \/ CallRecorded
  BY <1>17, <1>18
     DEF BuildTerminalResult, Drained, Conclude, LoopStopped, LoopOverBudget, LoopDeadlock, BeginDrain,
         LoopWaits, VerdictPersisted, VerdictLogged, RunRejects, CallRecorded, nodeVars
<1>19. CASE Stop \/ UNCHANGED vars \/ \E n \in Nodes : SleepFires(n)
  BY <1>17, <1>19 DEF Stop, SleepFires, vars, nodeVars
<1> QED BY <1>1, <1>2, <1>4, <1>6, <1>7, <1>8, <1>10, <1>11, <1>12, <1>13, <1>14, <1>15, <1>16, <1>18,
           <1>19 DEF Next, NodeStep, RunStep

LEMMA NodesInvHolds == Spec => []NodesInv
<1> QED BY NodesInvInit, NodesInvStep, IInvHolds, PTL DEF Spec

-----------------------------------------------------------------------------
(* What run() has found when it builds its result.                         *)

Closing == phase \in {"logBlocked", "persistBlocked"} \/ verdict \in {"done", "incomplete"}
AllTerminal == \A n \in Nodes : status[n] \in TerminalStatuses

ClosingInv ==
  /\ Closing => Terminal
  /\ phase = "persistBlocked" \/ verdict \in {"done", "incomplete"} => AllTerminal
  /\ verdict = "none" => phase \notin {"draining", "persistVerdict", "logVerdict", "returned"}
  /\ verdict # "none" => phase \in {"draining", "persistVerdict", "logVerdict", "returned", "threw"}
  /\ verdict \in {"done", "incomplete"} => phase # "draining"
  /\ verdict = "done" => \A n \in Nodes : status[n] = "done"
  /\ verdict = "incomplete" => \E n \in Nodes : status[n] # "done"

\* When all nodes are terminal nothing of theirs is under way or scheduled.
LEMMA TerminalIsQuiet ==
  ASSUME IInv, NodesInv, Terminal
  PROVE  timers = {} /\ \A n \in Nodes : pc[n] \in {"idle", "settled", "rejected"}
<1>1. \A n \in Nodes : pc[n] \in {"idle", "settled", "rejected"}
  BY DEF Terminal, NodesInv, ActiveAreBusy
<1>2. ASSUME NEW n \in timers PROVE FALSE
  <2>1. n \in Nodes /\ n \in activated /\ status[n] = "waiting"
    BY <1>2 DEF IInv, TypeOK, TimersAreActivated, NodesInv, TimersWait
  <2> QED BY <2>1 DEF Terminal, TerminalStatuses, FailureStatuses
<1> QED BY <1>1, <1>2

\* A step of a node, or of a timer, comes before the closing of the run.
LEMMA ClosingOutlastsNodes ==
  ASSUME IInv, NodesInv, ClosingInv,
         timers # {} \/ \E n \in Nodes : pc[n] \notin {"idle", "settled", "rejected"},
         verdict' = verdict,
         phase' = phase \/ (phase = "awaiting" /\ phase' \in {"check", "threw"})
  PROVE  ClosingInv'
<1>1. ~Closing
  BY TerminalIsQuiet DEF ClosingInv
<1> QED BY <1>1 DEF ClosingInv, Closing

LEMMA SweepCloses ==
  ASSUME IInv, NodesInv, [Next]_vars, Terminal, RunSweeps, verdict = "none",
         UNCHANGED <<active, activated, verdict>>
  PROVE  ClosingInv'
<1> USE DEF IInv, TypeOK
<1>1. \A n \in Nodes : status[n] \in TerminalStatuses => status'[n] = status[n]
  BY StepsMoveNodes, TerminalStatusesStay
<1>2. Terminal'
  <2>1. ASSUME NEW n \in Nodes, status'[n] \notin TerminalStatuses
        PROVE  status[n] \notin TerminalStatuses
    BY <1>1, <2>1
  <2>2. ASSUME NEW n \in Nodes, PredFailed(n) PROVE PredFailed(n)'
    BY <1>1, <2>2, PredsAssumption DEF PredFailed, TerminalStatuses
  <2> QED BY <2>1, <2>2 DEF Terminal
<1>3. CASE \E m \in Nodes : SweepBlocks(m, {}) /\ phase' = "logBlocked"
  BY <1>2, <1>3 DEF ClosingInv, Closing
<1>4. CASE SweepEnds({}) /\ phase' = "persistBlocked"
  <2>1. ASSUME NEW n \in Nodes, status[n] \notin TerminalStatuses PROVE FALSE
    <3>1. n \notin activated /\ PredFailed(n)
      BY <2>1 DEF Terminal
    <3>2. status[n] # "pending"
      BY <1>4, <3>1 DEF SweepEnds, Unreachable
    <3>3. PredsDone(n)
      BY <2>1, <3>1, <3>2 DEF NodesInv, OthersAreLeft
    <3> QED BY <3>1, <3>3 DEF PredsDone, PredFailed, FailureStatuses
  <2>2. AllTerminal'
    BY <1>4, <2>1 DEF SweepEnds, AllTerminal
  <2> QED BY <1>2, <1>4, <2>2 DEF ClosingInv, Closing
<1> QED BY <1>3, <1>4 DEF RunSweeps

LEMMA ClosingInvStep ==
  ASSUME IInv, NodesInv, ClosingInv, [Next]_vars
  PROVE  ClosingInv'
<1> USE DEF runVars, envVars, nodeVars
<1>1. ASSUME NEW n \in Nodes, NodeStep(n) \/ StepRejects(n)
      PROVE  ClosingInv'
  <2>1. pc[n] \notin {"idle", "settled", "rejected"}
    BY <1>1, NextAwaitTyped
       DEF NodeStep, Proceed, NextAwait, ExecutorReturns, ExecutorRateLimited, Calling, RetryScheduled,
           RetryExhausted, ExhaustionPersisted, RetryResumes, RetryAbandoned, FailureLogged, Settle,
           StepRejects, LogAwaits, PersistAwaits
  <2>2. /\ verdict' = verdict
        /\ phase' = phase \/ (phase = "awaiting" /\ phase' \in {"check", "threw"})
    BY <1>1
       DEF NodeStep, Proceed, ExecutorReturns, ExecutorRateLimited, RetryScheduled,
           RetryExhausted, ExhaustionPersisted, RetryResumes, RetryAbandoned, FailureLogged, Settle,
           StepRejects, Woken
  <2> QED BY <2>1, <2>2, ClosingOutlastsNodes
<1>2. ASSUME NEW n \in Nodes, TimerFires(n) PROVE ClosingInv'
  BY <1>2, ClosingOutlastsNodes DEF TimerFires
<1>3. CASE RunBegins
  <2>1. phase = "logStarted" /\ phase' \in {"threw", "check"} /\ verdict' = verdict
    BY <1>3 DEF RunBegins
  <2> QED BY <2>1 DEF ClosingInv, Closing
<1>4. CASE LoopTerminal \/ BlockedLogged
  <2>1. /\ RunSweeps /\ phase \in {"check", "logBlocked"} /\ (phase = "check" => Terminal)
        /\ UNCHANGED <<active, activated, verdict>>
    BY <1>4 DEF LoopTerminal, BlockedLogged
  <2>2. Terminal /\ verdict = "none"
    BY <2>1 DEF ClosingInv, Closing
  <2> QED BY <2>1, <2>2, SweepCloses
<1>5. CASE BuildTerminalResult
  BY <1>5
     DEF BuildTerminalResult, Conclude, ClosingInv, Closing, AllTerminal, Terminal, PredFailed
<1>6. CASE LoopStopped \/ LoopOverBudget \/ LoopDeadlock
  BY <1>6 DEF LoopStopped, LoopOverBudget, LoopDeadlock, BeginDrain, ClosingInv, Closing
<1>7. CASE LoopWaits
  BY <1>7 DEF LoopWaits, ClosingInv, Closing
<1>8. CASE Drained
  BY <1>8 DEF Drained, Conclude, ClosingInv, Closing, IInv, DrainVerdict
<1>9. CASE VerdictPersisted \/ VerdictLogged \/ RunRejects
  <2>1. /\ UNCHANGED <<verdict, status, active, activated>>
        /\ phase' \in {"logVerdict", "returned", "threw"}
        /\ phase' # "threw" => phase \in {"persistVerdict", "logVerdict"}
    BY <1>9 DEF VerdictPersisted, VerdictLogged, RunRejects
  <2>2. verdict' \in {"done", "incomplete"} => Terminal' /\ AllTerminal'
    BY <2>1 DEF ClosingInv, Closing, Terminal, AllTerminal, PredFailed
  <2> QED BY <2>1, <2>2 DEF ClosingInv, Closing
<1>10. ASSUME UNCHANGED <<verdict, status, active, activated>>,
              phase' = phase \/ (phase = "awaiting" /\ phase' = "check")
       PROVE  ClosingInv'
  BY <1>10 DEF ClosingInv, Closing, Terminal, AllTerminal, PredFailed
<1>11. CASE Stop \/ CallRecorded \/ UNCHANGED vars \/ \E n \in Nodes : SleepFires(n)
  BY <1>10, <1>11 DEF Stop, Woken, CallRecorded, SleepFires, vars
<1> QED BY <1>1, <1>2, <1>3, <1>4, <1>5, <1>6, <1>7, <1>8, <1>9, <1>11 DEF Next, RunStep

\* The verdict is what happened: "done" only where every node is done and none is listed as
\* failed, "incomplete" only where nothing is left to do and some node is not done, however nodes
\* fail while others are swept (isTerminal and buildTerminalResult).
THEOREM VerdictTruthfulHolds == Spec => []VerdictTruthful
<1>1. Init => ClosingInv
  BY DEF Init, ClosingInv, Closing
<1>2. IInv /\ NodesInv /\ ClosingInv => VerdictTruthful
  <2> SUFFICES ASSUME IInv, NodesInv, ClosingInv PROVE VerdictTruthful
    OBVIOUS
  <2>1. verdict = "done" => failed = {}
    BY DEF IInv, TypeOK, NodesInv, FailedHaveFailed, ClosingInv, FailureStatuses
  <2> QED BY <2>1 DEF ClosingInv, AllTerminal, VerdictTruthful
<1>3. IInv /\ NodesInv /\ ClosingInv /\ [Next]_vars => ClosingInv'
  BY ClosingInvStep
<1> QED BY <1>1, <1>2, <1>3, IInvHolds, NodesInvHolds, PTL DEF Spec

-----------------------------------------------------------------------------
(* Rate limits                                                             *)

LEMMA ExhaustionStep ==
  ASSUME IInv, ExhaustionJustified, [Next]_vars
  PROVE  ExhaustionJustified'
<1> USE DEF IInv, TypeOK, runVars, envVars, nodeVars
<1> DEFINE Retried == {"logScheduled", "persistScheduled", "sleeping", "logResumed", "reexecuting"}
\* What most steps are: no attempt is counted, nobody is given up or put to sleep.
<1>1. ASSUME UNCHANGED attempt,
             \A n \in Nodes : status'[n] = "failed_provider_exhausted" => status[n] = status'[n],
             \A n \in Nodes : pc'[n] \in Retried => pc[n] \in Retried
      PROVE  ExhaustionJustified'
  BY <1>1 DEF ExhaustionJustified
<1>2. ASSUME NEW n \in Nodes, NEW to \in NodeStatus \ {"failed_provider_exhausted"},
             status' = MoveIfAllowed(n, to)
      PROVE  \A m \in Nodes : status'[m] = "failed_provider_exhausted" => status[m] = status'[m]
  BY <1>2 DEF MoveIfAllowed
<1>3. ASSUME NEW d \in DispatchPlans \cup {NoDispatch}, Dispatch(d)
      PROVE  /\ \A m \in Nodes : status'[m] = "failed_provider_exhausted" => status[m] = status'[m]
             /\ \A m \in Nodes : Started(d, pc)[m] \in {pc[m], "logStarted"}
  BY <1>3 DEF Dispatch, Started
<1>4. ASSUME NEW n \in Nodes, Proceed(n) PROVE ExhaustionJustified'
  <2>1. /\ pc[n] \in {"logStarted", "logExhausted", "logScheduled", "persistScheduled",
                      "logResumed", "logCompleted", "persistBlocked"}
        /\ pc' = [pc EXCEPT ![n] = NextAwait[pc[n]]]
    BY <1>4 DEF Proceed, NextAwait
  <2>2. NextAwait[pc[n]] \in Retried => pc[n] \in Retried
    BY <2>1 DEF NextAwait
  <2> QED BY <1>1, <1>4, <2>1, <2>2 DEF Proceed
<1>5. ASSUME NEW n \in Nodes, NEW r \in {"done", "failed", "blocked"}, ExecutorReturns(n, r)
      PROVE  ExhaustionJustified'
  <2>1. \A m \in Nodes : status'[m] = "failed_provider_exhausted" => status[m] = status'[m]
    BY <1>2, <1>5 DEF ExecutorReturns, NodeStatus
  <2>2. \A m \in Nodes : pc'[m] \in Retried => pc'[m] = pc[m] /\ m # n
    BY <1>5 DEF ExecutorReturns
  <2>3. \A m \in Nodes : m # n => attempt'[m] = attempt[m]
    BY <1>5 DEF ExecutorReturns
  <2>4. attempt'[n] = IF pc[n] = "reexecuting" THEN 0 ELSE attempt[n]
    BY <1>5 DEF ExecutorReturns
  <2>5. pc[n] = "reexecuting" => status[n] # "failed_provider_exhausted"
    <3>1. attempt[n] \in Nat
      OBVIOUS
    <3> QED BY <3>1, AttemptsAssumption DEF ExhaustionJustified
  <2> QED BY <2>1, <2>2, <2>3, <2>4, <2>5 DEF ExhaustionJustified
<1>6. ASSUME NEW n \in Nodes, ExecutorRateLimited(n) PROVE ExhaustionJustified'
  <2>1. \A m \in Nodes : /\ attempt[m] \in Nat
                         /\ attempt'[m] = IF m = n THEN attempt[m] + 1 ELSE attempt[m]
    BY <1>6 DEF ExecutorRateLimited
  <2>2. \A m \in Nodes : status'[m] = status[m] /\ pc'[m] = IF m = n THEN "logRateLimited" ELSE pc[m]
    BY <1>6 DEF ExecutorRateLimited
  <2> QED BY <2>1, <2>2, AttemptsAssumption DEF ExhaustionJustified
<1>7. ASSUME NEW n \in Nodes, RetryScheduled(n) PROVE ExhaustionJustified'
  <2>1. \A m \in Nodes : status'[m] = "failed_provider_exhausted" => status[m] = status'[m]
    BY <1>2, <1>7 DEF RetryScheduled, NodeStatus
  <2> QED BY <1>7, <2>1 DEF RetryScheduled, ExhaustionJustified
<1>8. ASSUME NEW n \in Nodes, RetryExhausted(n) PROVE ExhaustionJustified'
  <2>1. \A m \in Nodes : m # n => status'[m] = status[m] /\ pc'[m] = pc[m]
    BY <1>8 DEF RetryExhausted, MoveIfAllowed
  <2> QED BY <1>8, <2>1 DEF RetryExhausted, ExhaustionJustified
<1>9. ASSUME NEW n \in Nodes, ExhaustionPersisted(n) \/ FailureLogged(n) PROVE ExhaustionJustified'
  BY <1>1, <1>9 DEF ExhaustionPersisted, FailureLogged, NodeSweep, SweepBlocks, SweepEnds
<1>10. ASSUME NEW n \in Nodes, RetryResumes(n) \/ RetryAbandoned(n) PROVE ExhaustionJustified'
  <2>1. \A m \in Nodes : status'[m] = "failed_provider_exhausted" => status[m] = status'[m]
    BY <1>2, <1>10 DEF RetryResumes, RetryAbandoned, NodeStatus
  <2> QED BY <1>1, <1>10, <2>1 DEF RetryResumes, RetryAbandoned
<1>11. ASSUME NEW n \in Nodes, Settle(n) PROVE ExhaustionJustified'
  <2>1. PICK d \in DispatchPlans \cup {NoDispatch} :
           /\ Dispatch(d)
           /\ pc' = [Started(d, pc) EXCEPT ![n] = IF d.throws THEN "rejected" ELSE "settled"]
    BY <1>11 DEF Settle
  <2>2. \A m \in Nodes : pc'[m] \in Retried => pc[m] \in Retried
    BY <1>3, <2>1 DEF Started
  <2> QED BY <1>1, <1>3, <1>11, <2>1, <2>2 DEF Settle
<1>12. CASE RunBegins
  BY <1>1, <1>3, <1>12 DEF RunBegins
<1>13. ASSUME NEW n \in Nodes, TimerFires(n) PROVE ExhaustionJustified'
  <2>1. \A m \in Nodes : status'[m] = "failed_provider_exhausted" => status[m] = status'[m]
    BY <1>2, <1>13 DEF TimerFires, NodeStatus
  <2> QED BY <1>1, <1>13, <2>1 DEF TimerFires
<1>14. CASE LoopTerminal \/ BlockedLogged
  BY <1>1, <1>14 DEF LoopTerminal, BlockedLogged, RunSweeps, SweepBlocks, SweepEnds
<1>15. CASE \/ BuildTerminalResult \/ Drained \/ LoopStopped \/ LoopOverBudget \/ LoopDeadlock
            \/ LoopWaits \/ VerdictPersisted \/ VerdictLogged \/ RunRejects \/ CallRecorded
            \/ Stop \/ UNCHANGED vars \/ \E n \in Nodes : SleepFires(n) \/ StepRejects(n)
  BY <1>1, <1>15
     DEF BuildTerminalResult, Drained, Conclude, LoopStopped, LoopOverBudget, LoopDeadlock, BeginDrain,
         LoopWaits, VerdictPersisted, VerdictLogged, RunRejects, CallRecorded, Stop, vars, SleepFires,
         StepRejects
<1> QED BY <1>4, <1>5, <1>6, <1>7, <1>8, <1>9, <1>10, <1>11, <1>12, <1>13, <1>14, <1>15
        DEF Next, NodeStep, RunStep

\* A node is given up only after MaxAttempts rate limits, and no retry is slept for once they are
\* used up, also by a node a resume restored with attempts behind it (provider-retry.ts).
THEOREM ExhaustionJustifiedHolds == Spec => []ExhaustionJustified
<1>1. ASSUME Init PROVE ExhaustionJustified
  <2>1. \A n \in Nodes : pc[n] = "idle"
    BY <1>1 DEF Init
  <2>2. \A n \in Nodes : status[n] = "failed_provider_exhausted" => attempt[n] = MaxAttempts
    <3>1. CASE Resumed
      BY <1>1, <3>1 DEF Init, ResumedNode
    <3>2. CASE ~Resumed
      BY <1>1, <3>2 DEF Init
    <3> QED BY <3>1, <3>2
  <2> QED BY <2>1, <2>2, AttemptsAssumption DEF ExhaustionJustified
<1>2. IInv /\ ExhaustionJustified /\ [Next]_vars => ExhaustionJustified'
  BY ExhaustionStep
<1> QED BY <1>1, <1>2, IInvHolds, PTL DEF Spec

-----------------------------------------------------------------------------
(* Nothing goes on after the result                                        *)

\* The graphs without delays, and no failing write: with a timer pending, or with a node whose
\* write has rejected, run() may return while nodes of it go on.
Undelayed == (\A n \in Nodes : Delay[n] = "none") /\ "ioError" \notin Faults

DrainInv ==
  /\ timers = {} /\ \A n \in Nodes : pc[n] # "rejected"
  /\ phase = "draining" => active \subseteq watched /\ (stopped \/ overBudget \/ active = {})
  /\ phase \in {"logBlocked", "persistBlocked", "persistVerdict", "logVerdict", "returned"}
       => active = {}

LEMMA UndelayedPlan ==
  ASSUME Undelayed, NEW d \in DispatchPlans \cup {NoDispatch}, Dispatch(d)
  PROVE  timers' = timers /\ d.throws = FALSE
<1>1. {n \in Ready : Delay[n] = "invalid"} = {}
  BY DEF Undelayed, Ready
<1>2. d \in {NoDispatch, [nodes |-> Ready, throws |-> FALSE]}
  BY <1>1 DEF DispatchPlans
<1>3. d.throws = FALSE /\ d.nodes \subseteq Nodes
  BY <1>2 DEF NoDispatch, Ready
<1> QED BY <1>3 DEF Dispatch, Undelayed

LEMMA DrainInvStep ==
  ASSUME Undelayed, IInv, NodesInv, DrainInv, [Next]_vars
  PROVE  DrainInv'
<1> USE DEF IInv, TypeOK, runVars, envVars, nodeVars
<1>1. ASSUME UNCHANGED <<timers, active, watched, stopped, overBudget, phase>>,
             \A n \in Nodes : pc'[n] # "rejected"
      PROVE  DrainInv'
  BY <1>1 DEF DrainInv
<1>2. ASSUME NEW n \in Nodes, Proceed(n) PROVE DrainInv'
  <2>1. NextAwait[pc[n]] # "rejected"
    BY <1>2 DEF Proceed, NextAwait
  <2> QED BY <1>1, <1>2, <2>1 DEF Proceed, DrainInv
<1>3. ASSUME NEW n \in Nodes,
             \/ \E r \in {"done", "failed", "blocked"} : ExecutorReturns(n, r)
             \/ ExecutorRateLimited(n) \/ RetryScheduled(n) \/ RetryExhausted(n)
             \/ RetryResumes(n) \/ RetryAbandoned(n) \/ SleepFires(n)
      PROVE  DrainInv'
  BY <1>1, <1>3 DEF ExecutorReturns, ExecutorRateLimited, RetryScheduled, RetryExhausted,
                    RetryResumes, RetryAbandoned, SleepFires, DrainInv
<1>4. ASSUME NEW n \in Nodes, ExhaustionPersisted(n) \/ FailureLogged(n) PROVE DrainInv'
  BY <1>1, <1>4 DEF ExhaustionPersisted, FailureLogged, NodeSweep, DrainInv
<1>5. ASSUME NEW n \in Nodes, Settle(n) PROVE DrainInv'
  <2>1. PICK d \in DispatchPlans \cup {NoDispatch} :
           /\ Dispatch(d)
           /\ overBudget => d = NoDispatch
           /\ active' = (active \ {n}) \cup Starting(d)
           /\ pc' = [Started(d, pc) EXCEPT ![n] = IF d.throws THEN "rejected" ELSE "settled"]
           /\ phase' = IF ~d.throws THEN Woken
                       ELSE IF phase = "awaiting" /\ n \in watched THEN "threw"
                       ELSE phase
    BY <1>5 DEF Settle
  <2>2. timers' = timers /\ d.throws = FALSE
    BY <2>1, UndelayedPlan
  <2>3. n \in active
    BY <1>5 DEF Settle, NodesInv, ActiveAreBusy
  <2>4. stopped \/ overBudget => Starting(d) = {}
    BY <2>1, PlanIsReady DEF NoDispatch, Starting
  <2>5. phase' \in {phase, "check"} /\ UNCHANGED <<watched, stopped, overBudget>>
    BY <1>5, <2>1, <2>2 DEF Settle, Woken
  <2>6. \A m \in Nodes : pc'[m] # "rejected"
    BY <2>1, <2>2 DEF DrainInv, Started
  <2> QED BY <2>1, <2>2, <2>3, <2>4, <2>5, <2>6 DEF DrainInv
<1>6. ASSUME NEW n \in Nodes, TimerFires(n) \/ StepRejects(n) PROVE FALSE
  BY <1>6 DEF TimerFires, StepRejects, DrainInv, Undelayed
<1>7. CASE RunBegins
  <2>1. PICK d \in DispatchPlans \cup {NoDispatch} :
           Dispatch(d) /\ pc' = Started(d, pc) /\ phase' \in {"threw", "check"}
    BY <1>7 DEF RunBegins
  <2>2. timers' = timers
    BY <2>1, UndelayedPlan
  <2> QED BY <2>1, <2>2 DEF DrainInv, Started
<1>8. CASE LoopTerminal \/ BlockedLogged
  <2>1. active = {} /\ UNCHANGED <<timers, active, pc>> /\ phase' \in {"logBlocked", "persistBlocked"}
    BY <1>8 DEF LoopTerminal, BlockedLogged, Terminal, RunSweeps, DrainInv
  <2> QED BY <2>1 DEF DrainInv
<1>9. CASE BuildTerminalResult
  BY <1>9 DEF BuildTerminalResult, Conclude, DrainInv
<1>10. CASE LoopStopped \/ LoopOverBudget \/ LoopDeadlock
  BY <1>10 DEF LoopStopped, LoopOverBudget, LoopDeadlock, BeginDrain, DrainInv
<1>11. CASE LoopWaits
  BY <1>11 DEF LoopWaits, DrainInv
<1>12. CASE Drained
  <2>1. active = {}
    BY <1>12 DEF Drained, WatchedSettled, DrainInv, NodesInv, ActiveAreBusy
  <2> QED BY <1>12, <2>1 DEF Drained, Conclude, DrainInv
<1>13. CASE VerdictPersisted \/ VerdictLogged
  BY <1>13 DEF VerdictPersisted, VerdictLogged, DrainInv
<1>14. CASE RunRejects
  BY <1>14 DEF RunRejects, Undelayed
<1>15. CASE Stop \/ CallRecorded
  BY <1>15 DEF Stop, Woken, CallRecorded, DrainInv
<1>16. CASE UNCHANGED vars
  BY <1>16 DEF vars, DrainInv
<1> QED BY <1>2, <1>3, <1>4, <1>5, <1>6, <1>7, <1>8, <1>9, <1>10, <1>11, <1>12, <1>13, <1>14, <1>15,
           <1>16 DEF Next, NodeStep, RunStep

LEMMA DrainInvHolds ==
  ASSUME Undelayed
  PROVE  Spec => []DrainInv
<1>1. Init => DrainInv
  BY DEF Init, DrainInv
<1>2. IInv /\ NodesInv /\ DrainInv /\ [Next]_vars => DrainInv'
  BY DrainInvStep
<1> QED BY <1>1, <1>2, IInvHolds, NodesInvHolds, PTL DEF Spec

\* Where no node has a delay and no write fails, nothing of a run goes on, and nothing is
\* scheduled, once its result has been given - whether it ended, was stopped or went over its
\* budget (drainActiveNodes).
THEOREM NoOrphansHolds ==
  ASSUME Undelayed
  PROVE  Spec => []NoOrphans
<1>1. DrainInv => NoOrphans
  BY DEF DrainInv, NoOrphans
<1> QED BY <1>1, DrainInvHolds, PTL

\* And its lists are those of the nodes: the completed ones are done, no failed one is, and every
\* node it brought to a terminal status is in one of them.
THEOREM ResultListsHolds ==
  ASSUME Undelayed
  PROVE  Spec => []ResultLists
<1>1. IInv /\ NodesInv /\ DrainInv => ResultLists
  <2> SUFFICES ASSUME IInv, NodesInv, DrainInv, phase = "returned"
               PROVE  /\ \A n \in completed : status[n] = "done"
                      /\ \A n \in failed : status[n] # "done"
                      /\ \A n \in activated : status[n] \in TerminalStatuses =>
                                                n \in completed \cup failed
    BY DEF ResultLists
  <2>1. \A n \in Nodes : pc[n] \in {"idle", "settled"}
    BY DEF DrainInv, NodesInv, ActiveAreBusy
  <2>2. \A n \in activated : status[n] \in TerminalStatuses => n \in completed \cup failed
    BY <2>1 DEF IInv, TypeOK, NodesInv, AreListed, WithExhausted
  <2>3. (\A n \in completed : status[n] = "done") /\ (\A n \in failed : status[n] # "done")
    BY DEF NodesInv, CompletedAreDone, FailedHaveFailed, FailureStatuses
  <2> QED BY <2>2, <2>3
<1> QED BY <1>1, DrainInvHolds, IInvHolds, NodesInvHolds, PTL

\* Nothing is spent before the first nodes are activated, if the run is a fresh one.
NothingSpentYet ==
  phase = "logStarted" => ~overBudget /\ \A n \in Nodes : pc[n] = "idle"

LEMMA NothingSpentStep ==
  ASSUME TypeOK, NothingSpentYet, timers = {}, [Next]_vars
  PROVE  NothingSpentYet'
<1> USE DEF TypeOK, nodeVars, runVars, envVars
<1>1. ASSUME NEW n \in Nodes, NodeStep(n) \/ TimerFires(n) \/ StepRejects(n)
      PROVE  phase # "logStarted" /\ phase' # "logStarted"
  <2>1. pc[n] # "idle"
    BY <1>1, NextAwaitTyped DEF NodeStep, Proceed, NextAwait, ExecutorReturns, ExecutorRateLimited,
       Calling, RetryScheduled, RetryExhausted, ExhaustionPersisted, RetryResumes, RetryAbandoned,
       FailureLogged, Settle, TimerFires, StepRejects, LogAwaits, PersistAwaits
  <2>2. phase' \in {phase, "check", "threw"}
    BY <1>1 DEF NodeStep, Proceed, ExecutorReturns, ExecutorRateLimited, RetryScheduled,
       RetryExhausted, ExhaustionPersisted, RetryResumes, RetryAbandoned, FailureLogged, Settle,
       Woken, TimerFires, StepRejects
  <2> QED BY <2>1, <2>2 DEF NothingSpentYet
<1>2. CASE RunStep \/ RunRejects
  BY <1>2 DEF RunStep, RunBegins, LoopTerminal, BlockedLogged, RunSweeps, BuildTerminalResult,
     Conclude, LoopStopped, LoopOverBudget, LoopDeadlock, BeginDrain, LoopWaits, Drained,
     VerdictPersisted, VerdictLogged, RunRejects, NothingSpentYet
<1>3. CASE Stop \/ UNCHANGED vars \/ \E n \in Nodes : SleepFires(n)
  BY <1>3 DEF Stop, Woken, SleepFires, vars, NothingSpentYet
<1>4. CASE CallRecorded
  BY <1>4 DEF CallRecorded, Calling, NothingSpentYet
<1> QED BY <1>1, <1>2, <1>3, <1>4 DEF Next, NothingSpentYet

\* A fresh run without delays activates no node and starts none once the budget is exceeded,
\* however many nodes are under way then (run, onNodeComplete; a resumed run activates its first
\* nodes before it looks).
THEOREM BudgetFreezesDispatchHolds ==
  ASSUME Undelayed, ~Resumed
  PROVE  Spec => BudgetFreezesDispatch
<1> DEFINE Frozen ==
      overBudget => UNCHANGED activated /\ \A n \in Nodes : pc[n] = "idle" => pc'[n] = "idle"
<1>1. Init => NothingSpentYet
  BY DEF Init, NothingSpentYet
<1>2. TypeOK /\ DrainInv /\ NothingSpentYet /\ [Next]_vars => NothingSpentYet'
  BY NothingSpentStep DEF DrainInv
<1>3. TypeOK /\ DrainInv /\ NothingSpentYet /\ [Next]_vars => [Frozen]_vars
  BY NothingStarts DEF DrainInv, NothingSpentYet
<1> QED BY <1>1, <1>2, <1>3, TypeCorrect, DrainInvHolds, PTL DEF Spec, BudgetFreezesDispatch

-----------------------------------------------------------------------------
(* The loop of run() always has something to wait for                      *)

Sweeping == {"logFailed", "logBlocked", "logExhausted", "persistExhausted"}
AfterResult == {"logCompleted", "logFailed", "logBlocked", "persistBlocked", "persistResult",
                "settled"}

OnlyStopCancels == \A n \in Nodes : sleep[n] = "cancelled" => stopped

ActivatedRun ==
  \A n \in Nodes : /\ n \in activated => pc[n] # "idle"
                   /\ n \notin activated => status[n] \in {"pending", "blocked"}

ResultIsTerminal ==
  ~stopped => \A n \in Nodes : pc[n] \in AfterResult => status[n] \in TerminalStatuses

\* A node that became ready is activated by the one that made it so, which is active until then.
NoneOverlooked ==
  phase = "logStarted" \/ stopped \/ overBudget \/ active # {} \/ Ready = {}

\* A node that became unreachable is still to be swept by one that failed.
SweepIsUnderWay ==
  Unreachable # {} => \E n \in active : pc[n] \in Sweeping

DispatchInv ==
  /\ OnlyStopCancels /\ ActivatedRun /\ ResultIsTerminal /\ NoneOverlooked /\ SweepIsUnderWay
  /\ phase # "logBlocked"

LEMMA DispatchInvInit ==
  ASSUME ~Resumed, Init
  PROVE  DispatchInv
<1>1. /\ \A n \in Nodes : status[n] = "pending" /\ pc[n] = "idle" /\ sleep[n] = "none"
      /\ activated = {} /\ phase = "logStarted"
  BY DEF Init
<1>2. Unreachable = {}
  BY <1>1, PredsAssumption DEF Unreachable, PredFailed, FailureStatuses
<1> QED BY <1>1, <1>2
        DEF DispatchInv, OnlyStopCancels, ActivatedRun, ResultIsTerminal, NoneOverlooked,
            SweepIsUnderWay, AfterResult

\* A move of one active node that is not to a failure makes no node unreachable.
LEMMA HarmlessMove ==
  ASSUME TypeOK, NEW n \in Nodes, NEW st, status' = [status EXCEPT ![n] = st],
         st \notin FailureStatuses, st # "pending"
  PROVE  Unreachable' \subseteq Unreachable
BY PredsAssumption DEF TypeOK, Unreachable, PredFailed

\* Activating nodes neither fails one nor makes one ready.
LEMMA DispatchIsComplete ==
  ASSUME Undelayed, IInv, NodesInv, NEW d \in DispatchPlans \cup {NoDispatch}, Dispatch(d),
         stopped' = stopped
  PROVE  /\ Unreachable' \subseteq Unreachable
         /\ ~stopped /\ d \in DispatchPlans => Ready' = {}
         /\ \A n \in Nodes : n \notin d.nodes => status'[n] = status[n]
         /\ Starting(d) = d.nodes
<1> USE DEF IInv, TypeOK
<1>1. d.nodes \subseteq Ready
  BY PlanIsReady DEF NoDispatch
<1>2. Starting(d) = d.nodes
  BY <1>1 DEF Starting, Ready, Undelayed
<1>3. /\ status' = [n \in Nodes |-> IF n \in d.nodes THEN "running" ELSE status[n]]
      /\ activated' = activated \cup d.nodes
  BY <1>1, <1>2 DEF Dispatch
<1>4. Unreachable' \subseteq Unreachable
  BY <1>3, PredsAssumption DEF Unreachable, PredFailed, FailureStatuses
<1>5. ASSUME ~stopped, d \in DispatchPlans PROVE Ready' = {}
  <2>1. {n \in Ready : Delay[n] = "invalid"} = {}
    BY DEF Undelayed, Ready
  <2>2. d.nodes = Ready
    BY <1>5, <2>1 DEF DispatchPlans
  <2>3. ASSUME NEW n \in Ready' PROVE FALSE
    <3>1. n \in Nodes /\ status'[n] = "pending" /\ n \notin activated' /\ PredsDone(n)'
      BY <2>3 DEF Ready
    <3>2. n \notin d.nodes /\ status[n] = "pending" /\ n \notin activated
      BY <1>3, <3>1
    <3>3. \A p \in Preds[n] : p \in Nodes /\ status'[p] = "done"
      BY <3>1, PredsAssumption DEF PredsDone
    <3>4. PredsDone(n)
      BY <1>3, <3>3 DEF PredsDone
    <3> QED BY <2>2, <3>1, <3>2, <3>4 DEF Ready
  <2> QED BY <2>3
<1> QED BY <1>1, <1>2, <1>3, <1>4, <1>5

LEMMA DispatchInvStep ==
  ASSUME Undelayed, IInv, NodesInv, DrainInv, DispatchInv, [Next]_vars
  PROVE  DispatchInv'
<1> USE DEF IInv, TypeOK, runVars, envVars, nodeVars
<1>0. /\ OnlyStopCancels /\ ActivatedRun /\ ResultIsTerminal /\ NoneOverlooked /\ SweepIsUnderWay
      /\ phase # "logBlocked" /\ ActiveAreBusy /\ StatusFitsAwait
  BY DEF DispatchInv, NodesInv
\* A step of one active node that goes from one await to the next and stays active.
<1>1. ASSUME NEW n \in Nodes, NEW st \in NodeStatus, NEW at \in PC,
             pc[n] \notin {"idle", "settled"}, at # "idle", st # "pending",
             status' = [status EXCEPT ![n] = st], pc' = [pc EXCEPT ![n] = at],
             UNCHANGED <<active, activated, stopped>>, n \in active,
             phase' = phase \/ phase' # "logBlocked",
             \A m \in Nodes : sleep'[m] = "cancelled" => sleep[m] = "cancelled",
             stopped \/ at \notin AfterResult \/ st \in TerminalStatuses,
             pc[n] \in Sweeping => at \in Sweeping \/ Unreachable = {},
             st \in FailureStatuses => at \in Sweeping \/ status[n] = st
      PROVE  DispatchInv'
  <2>1. n \in activated
    BY <1>1 DEF BusyAreActivated
  <2>2. OnlyStopCancels' /\ ActivatedRun' /\ ResultIsTerminal' /\ NoneOverlooked'
    BY <1>0, <1>1, <2>1
       DEF OnlyStopCancels, ActivatedRun, ResultIsTerminal, NoneOverlooked
  <2>0. pc'[n] = at /\ n \in active' /\ active' = active
    BY <1>1
  <2>3. ASSUME at \in Sweeping PROVE SweepIsUnderWay'
    BY <2>0, <2>3 DEF SweepIsUnderWay
  <2>4. ASSUME st \notin FailureStatuses \/ status[n] = st PROVE SweepIsUnderWay'
    <3>1. Unreachable' \subseteq Unreachable
      <4>1. CASE st \notin FailureStatuses
        BY <1>1, <4>1, HarmlessMove
      <4>2. CASE status[n] = st
        <5>1. status' = status
          BY <1>1, <4>2
        <5> QED BY <5>1 DEF Unreachable, PredFailed
      <4> QED BY <2>4, <4>1, <4>2
    <3>2. ASSUME Unreachable # {} PROVE \E k \in active : pc'[k] \in Sweeping
      <4>1. PICK k \in active : pc[k] \in Sweeping
        BY <1>0, <3>2 DEF SweepIsUnderWay
      <4>2. CASE k = n
        <5>1. at \in Sweeping
          BY <1>1, <3>2, <4>1, <4>2
        <5> QED BY <2>0, <4>1, <4>2, <5>1
      <4>3. CASE k # n
        <5>1. pc'[k] = pc[k]
          BY <1>1, <4>1, <4>3
        <5> QED BY <4>1, <5>1
      <4> QED BY <4>2, <4>3
    <3> QED BY <2>0, <3>1, <3>2 DEF SweepIsUnderWay
  <2>5. SweepIsUnderWay'
    <3>1. at \in Sweeping \/ st \notin FailureStatuses \/ status[n] = st
      BY <1>1
    <3> QED BY <2>3, <2>4, <3>1
  <2>6. phase' # "logBlocked"
    BY <1>0, <1>1
  <2> QED BY <2>2, <2>5, <2>6 DEF DispatchInv
<1>2. ASSUME NEW n \in Nodes, Proceed(n) PROVE DispatchInv'
  <2> DEFINE at == NextAwait[pc[n]]
  <2>1. /\ pc[n] \in {"logStarted", "logExhausted", "logScheduled", "persistScheduled",
                      "logResumed", "logCompleted", "persistBlocked"}
        /\ pc' = [pc EXCEPT ![n] = at]
    BY <1>2 DEF Proceed, NextAwait
  <2>2. /\ at \in PC \ {"idle"}
        /\ pc[n] \in Sweeping => at \in Sweeping
        /\ at \in AfterResult => pc[n] \in AfterResult
    BY <2>1 DEF NextAwait, PC, LogAwaits, PersistAwaits, Calling, Sweeping, AfterResult
  <2>3. n \in active /\ n \in activated
    BY <1>0, <2>1 DEF ActiveAreBusy, BusyAreActivated
  <2>4. status[n] # "pending" /\ status[n] \in NodeStatus /\ status' = [status EXCEPT ![n] = status[n]]
    BY <1>2, <2>3 DEF Proceed, NodesInv, OthersAreLeft
  <2>5. stopped \/ at \notin AfterResult \/ status[n] \in TerminalStatuses
    BY <1>0, <2>2 DEF ResultIsTerminal
  <2>6. UNCHANGED <<active, activated, stopped, sleep, phase>>
    BY <1>2 DEF Proceed
  <2> HIDE DEF at
  <2> QED BY <1>1, <2>1, <2>2, <2>3, <2>4, <2>5, <2>6
<1>3. ASSUME NEW n \in Nodes, NEW r \in {"done", "failed", "blocked"}, ExecutorReturns(n, r)
      PROVE  DispatchInv'
  <2>1. status[n] = "running" /\ pc[n] \in Calling /\ n \in active
    BY <1>0, <1>3 DEF ExecutorReturns, StatusFitsAwait, WithRunning, Calling, ActiveAreBusy
  <2>2. status' = [status EXCEPT ![n] = r]
    BY <1>3, <2>1 DEF ExecutorReturns, MoveIfAllowed, CanTransition, NodeTransitions
  <2>3. PICK at \in {"logCompleted", "logFailed"} :
          pc' = [pc EXCEPT ![n] = at] /\ (at = "logCompleted" => r = "done")
    BY <1>3 DEF ExecutorReturns
  <2>4. /\ at \in PC /\ r \in NodeStatus /\ r \in TerminalStatuses /\ pc[n] \notin Sweeping
        /\ r \in FailureStatuses => at \in Sweeping
    BY <2>1, <2>3 DEF PC, LogAwaits, NodeStatus, TerminalStatuses, FailureStatuses, Calling, Sweeping
  <2>5. UNCHANGED <<active, activated, stopped, sleep, phase>>
    BY <1>3 DEF ExecutorReturns
  <2> QED BY <1>1, <2>1, <2>2, <2>3, <2>4, <2>5 DEF Calling
<1>4. ASSUME NEW n \in Nodes, ExecutorRateLimited(n) PROVE DispatchInv'
  <2>1. status[n] = "running" /\ pc[n] \in Calling /\ n \in active
    BY <1>0, <1>4 DEF ExecutorRateLimited, StatusFitsAwait, WithRunning, Calling, ActiveAreBusy
  <2>2. status' = [status EXCEPT ![n] = "running"] /\ pc' = [pc EXCEPT ![n] = "logRateLimited"]
    BY <1>4, <2>1 DEF ExecutorRateLimited
  <2>3. /\ "logRateLimited" \in PC /\ "logRateLimited" \notin AfterResult
        /\ "running" \in NodeStatus \ FailureStatuses /\ pc[n] \notin Sweeping
    BY <2>1 DEF PC, LogAwaits, NodeStatus, FailureStatuses, Calling, Sweeping, AfterResult
  <2>4. UNCHANGED <<active, activated, stopped, sleep, phase>>
    BY <1>4 DEF ExecutorRateLimited
  <2> QED BY <1>1, <2>1, <2>2, <2>3, <2>4 DEF Calling
<1>5. ASSUME NEW n \in Nodes, RetryScheduled(n) PROVE DispatchInv'
  <2>1. status[n] = "running" /\ pc[n] = "logRateLimited" /\ n \in active
    BY <1>0, <1>5 DEF RetryScheduled, StatusFitsAwait, WithRunning, ActiveAreBusy
  <2>2. /\ status' = [status EXCEPT ![n] = "waiting_for_provider"]
        /\ pc' = [pc EXCEPT ![n] = "logScheduled"]
    BY <1>5, <2>1 DEF RetryScheduled, MoveIfAllowed, CanTransition, NodeTransitions
  <2>3. /\ "logScheduled" \in PC /\ "logScheduled" \notin AfterResult
        /\ "waiting_for_provider" \in NodeStatus \ FailureStatuses /\ pc[n] \notin Sweeping
    BY <2>1 DEF PC, LogAwaits, NodeStatus, FailureStatuses, Sweeping, AfterResult
  <2>4. /\ UNCHANGED <<active, activated, stopped, phase>>
        /\ \A m \in Nodes : sleep'[m] = "cancelled" => sleep[m] = "cancelled"
    BY <1>5 DEF RetryScheduled
  <2> QED BY <1>1, <2>1, <2>2, <2>3, <2>4
<1>6. ASSUME NEW n \in Nodes, RetryExhausted(n) PROVE DispatchInv'
  <2>1. status[n] = "running" /\ pc[n] = "logRateLimited" /\ n \in active
    BY <1>0, <1>6 DEF RetryExhausted, StatusFitsAwait, WithRunning, ActiveAreBusy
  <2>2. /\ status' = [status EXCEPT ![n] = "failed_provider_exhausted"]
        /\ pc' = [pc EXCEPT ![n] = "logExhausted"]
    BY <1>6, <2>1 DEF RetryExhausted, MoveIfAllowed, CanTransition, NodeTransitions
  <2>3. /\ "logExhausted" \in PC /\ "logExhausted" \notin AfterResult /\ "logExhausted" \in Sweeping
        /\ "failed_provider_exhausted" \in NodeStatus /\ pc[n] \notin Sweeping
    BY <2>1 DEF PC, LogAwaits, NodeStatus, Sweeping, AfterResult
  <2>4. UNCHANGED <<active, activated, stopped, sleep, phase>>
    BY <1>6 DEF RetryExhausted
  <2> QED BY <1>1, <2>1, <2>2, <2>3, <2>4
<1>7. ASSUME NEW n \in Nodes, RetryResumes(n) PROVE DispatchInv'
  <2>1. status[n] = "waiting_for_provider" /\ pc[n] = "sleeping" /\ n \in active
    BY <1>0, <1>7 DEF RetryResumes, StatusFitsAwait, WithWaiting, ActiveAreBusy
  <2>2. /\ status' = [status EXCEPT ![n] = "running"]
        /\ pc' = [pc EXCEPT ![n] = "logResumed"]
    BY <1>7, <2>1 DEF RetryResumes, MoveIfAllowed, CanTransition, NodeTransitions
  <2>3. /\ "logResumed" \in PC /\ "logResumed" \notin AfterResult
        /\ "running" \in NodeStatus \ FailureStatuses /\ pc[n] \notin Sweeping
    BY <2>1 DEF PC, LogAwaits, NodeStatus, FailureStatuses, Sweeping, AfterResult
  <2>4. /\ UNCHANGED <<active, activated, stopped, phase>>
        /\ \A m \in Nodes : sleep'[m] = "cancelled" => sleep[m] = "cancelled"
    BY <1>7 DEF RetryResumes
  <2> QED BY <1>1, <2>1, <2>2, <2>3, <2>4
<1>8. ASSUME NEW n \in Nodes, RetryAbandoned(n) PROVE DispatchInv'
  <2>1. status[n] = "waiting_for_provider" /\ pc[n] = "sleeping" /\ n \in active
    BY <1>0, <1>8 DEF RetryAbandoned, StatusFitsAwait, WithWaiting, ActiveAreBusy
  <2>2. /\ status' = [status EXCEPT ![n] = "waiting_for_provider"]
        /\ pc' = [pc EXCEPT ![n] = "logFailed"]
    BY <1>8, <2>1 DEF RetryAbandoned, MoveIfAllowed, CanTransition, NodeTransitions
  <2>3. /\ "logFailed" \in PC
        /\ "waiting_for_provider" \in NodeStatus \ FailureStatuses /\ pc[n] \notin Sweeping
    BY <2>1 DEF PC, LogAwaits, NodeStatus, FailureStatuses, Sweeping
  <2>4. /\ UNCHANGED <<active, activated, stopped, phase>> /\ stopped
        /\ \A m \in Nodes : sleep'[m] = "cancelled" => sleep[m] = "cancelled"
    BY <1>0, <1>8 DEF RetryAbandoned, OnlyStopCancels
  <2> QED BY <1>1, <2>1, <2>2, <2>3, <2>4
<1>9. ASSUME NEW n \in Nodes, NEW also \in SUBSET Nodes, NodeSweep(n, also), pc[n] \in Sweeping,
             UNCHANGED <<active, activated, stopped, sleep, phase, overBudget>>,
             pc[n] \in AfterResult \/ status[n] = "failed_provider_exhausted"
      PROVE  DispatchInv'
  <2>1. n \in active /\ n \in activated
    BY <1>0, <1>9 DEF ActiveAreBusy, BusyAreActivated, Sweeping
  <2>2. OnlyStopCancels' /\ NoneOverlooked' /\ phase' # "logBlocked"
    BY <1>0, <1>9, <2>1 DEF OnlyStopCancels, NoneOverlooked
  <2>3. status[n] \in TerminalStatuses \/ stopped
    BY <1>0, <1>9 DEF ResultIsTerminal, TerminalStatuses, FailureStatuses
  <2>4. CASE \E m \in Nodes : SweepBlocks(m, also) /\ pc' = [pc EXCEPT ![n] = "logBlocked"]
    <3>1. PICK m \in Nodes : /\ status[m] = "pending" /\ status' = [status EXCEPT ![m] = "blocked"]
                             /\ pc' = [pc EXCEPT ![n] = "logBlocked"]
      BY <2>4 DEF SweepBlocks, Unreachable
    <3>2. m \notin activated
      BY <3>1 DEF NodesInv, OthersAreLeft
    <3>3. ActivatedRun'
      BY <1>0, <1>9, <2>1, <3>1, <3>2 DEF ActivatedRun
    <3>4. ResultIsTerminal'
      BY <1>0, <1>9, <2>3, <3>1 DEF ResultIsTerminal, TerminalStatuses, FailureStatuses
    <3>5. SweepIsUnderWay'
      BY <1>9, <2>1, <3>1 DEF SweepIsUnderWay, Sweeping
    <3> QED BY <2>2, <3>3, <3>4, <3>5 DEF DispatchInv
  <2>5. CASE SweepEnds(also) /\ pc' = [pc EXCEPT ![n] = "persistBlocked"]
    <3>1. Unreachable = {} /\ status' = status
      BY <2>5 DEF SweepEnds
    <3>2. Unreachable' = {}
      BY <3>1 DEF Unreachable, PredFailed
    <3>3. ActivatedRun' /\ ResultIsTerminal'
      BY <1>0, <1>9, <2>1, <2>3, <2>5, <3>1 DEF ActivatedRun, ResultIsTerminal
    <3> QED BY <2>2, <3>2, <3>3 DEF DispatchInv, SweepIsUnderWay
  <2> QED BY <1>9, <2>4, <2>5 DEF NodeSweep
<1>10. ASSUME NEW n \in Nodes, ExhaustionPersisted(n) \/ FailureLogged(n) PROVE DispatchInv'
  <2>1. CASE ExhaustionPersisted(n)
    BY <1>0, <1>9, <2>1 DEF ExhaustionPersisted, Sweeping, StatusFitsAwait, WithExhausted
  <2>2. CASE FailureLogged(n)
    BY <1>9, <2>2 DEF FailureLogged, Sweeping, AfterResult
  <2> QED BY <1>10, <2>1, <2>2
<1>11. ASSUME NEW d \in DispatchPlans \cup {NoDispatch}, Dispatch(d),
              NEW gone \in SUBSET Nodes, \A n \in gone : pc[n] = "persistResult",
              ~stopped /\ ~overBudget => d \in DispatchPlans,
              active' = (active \ gone) \cup Starting(d),
              \A n \in Nodes : pc'[n] = IF n \in gone THEN "settled"
                                        ELSE IF n \in Starting(d) THEN "logStarted" ELSE pc[n],
              UNCHANGED <<sleep, stopped, overBudget>>, phase' # "logBlocked"
       PROVE  DispatchInv'
  <2>1. d.nodes \subseteq Nodes /\ \A n \in d.nodes : status[n] = "pending" /\ n \notin activated
    BY <1>11, PlanIsReady DEF NoDispatch, Ready
  <2>2. /\ Unreachable' \subseteq Unreachable
        /\ ~stopped /\ d \in DispatchPlans => Ready' = {}
        /\ \A n \in Nodes : n \notin d.nodes => status'[n] = status[n]
        /\ Starting(d) = d.nodes
    BY <1>11, DispatchIsComplete
  <2>3. activated' = activated \cup d.nodes
    BY <1>11 DEF Dispatch
  <2>4. \A n \in d.nodes : n \notin gone /\ pc[n] = "idle"
    BY <1>11, <2>1 DEF BusyAreActivated
  <2>5. OnlyStopCancels' /\ NoneOverlooked' /\ phase' # "logBlocked"
    BY <1>0, <1>11, <2>2 DEF OnlyStopCancels, NoneOverlooked
  <2>6. ActivatedRun'
    BY <1>0, <1>11, <2>1, <2>2, <2>3, <2>4 DEF ActivatedRun
  <2>7. ResultIsTerminal'
    BY <1>0, <1>11, <2>1, <2>2, <2>4 DEF ResultIsTerminal, AfterResult
  <2>8. SweepIsUnderWay'
    <3>1. ASSUME Unreachable # {} PROVE \E n \in active' : pc'[n] \in Sweeping
      <4>1. PICK n \in active : pc[n] \in Sweeping
        BY <1>0, <3>1 DEF SweepIsUnderWay
      <4>2. n \in Nodes /\ n \notin gone /\ n \notin d.nodes
        BY <1>11, <2>4, <4>1 DEF Sweeping
      <4> QED BY <1>11, <2>2, <4>1, <4>2
    <3> QED BY <2>2, <3>1 DEF SweepIsUnderWay
  <2> QED BY <2>5, <2>6, <2>7, <2>8 DEF DispatchInv
<1>12. ASSUME NEW n \in Nodes, Settle(n) PROVE DispatchInv'
  <2>1. PICK d \in DispatchPlans \cup {NoDispatch} :
           /\ Dispatch(d)
           /\ ~overBudget => d \in DispatchPlans
           /\ active' = (active \ {n}) \cup Starting(d)
           /\ pc' = [Started(d, pc) EXCEPT ![n] = IF d.throws THEN "rejected" ELSE "settled"]
           /\ phase' = IF ~d.throws THEN Woken
                       ELSE IF phase = "awaiting" /\ n \in watched THEN "threw"
                       ELSE phase
    BY <1>12 DEF Settle
  <2>2. d.throws = FALSE /\ pc[n] = "persistResult" /\ UNCHANGED <<sleep, stopped, overBudget>>
    BY <1>12, <2>1, UndelayedPlan DEF Settle
  <2>3. phase' # "logBlocked"
    BY <1>0, <2>1, <2>2 DEF Woken
  <2>4. \A m \in Nodes : pc'[m] = IF m \in {n} THEN "settled"
                                  ELSE IF m \in Starting(d) THEN "logStarted" ELSE pc[m]
    BY <2>1, <2>2 DEF Started
  <2> DEFINE gone == {n}
  <2>5. /\ gone \in SUBSET Nodes /\ \A m \in gone : pc[m] = "persistResult"
        /\ active' = (active \ gone) \cup Starting(d)
        /\ ~stopped /\ ~overBudget => d \in DispatchPlans
    BY <2>1, <2>2
  <2>6. \A m \in Nodes : pc'[m] = IF m \in gone THEN "settled"
                                  ELSE IF m \in Starting(d) THEN "logStarted" ELSE pc[m]
    BY <2>4
  <2>7. Dispatch(d)
    BY <2>1
  <2> HIDE DEF gone
  <2> QED BY <1>11, <2>2, <2>3, <2>5, <2>6, <2>7
<1>13. ASSUME NEW n \in Nodes, TimerFires(n) \/ StepRejects(n) PROVE FALSE
  BY <1>13 DEF TimerFires, StepRejects, DrainInv, Undelayed
<1>14. CASE RunBegins
  <2>1. PICK d \in DispatchPlans : /\ Dispatch(d) /\ active' = active \cup Starting(d)
                                   /\ pc' = Started(d, pc) /\ phase' \in {"threw", "check"}
    BY <1>14 DEF RunBegins
  <2>2. UNCHANGED <<sleep, stopped, overBudget>>
    BY <1>14 DEF RunBegins
  <2>3. \A m \in Nodes : pc'[m] = IF m \in {} THEN "settled"
                                  ELSE IF m \in Starting(d) THEN "logStarted" ELSE pc[m]
    BY <2>1 DEF Started
  <2>4. active' = (active \ {}) \cup Starting(d)
    BY <2>1
  <2>5. {} \in SUBSET Nodes /\ (\A n \in {} : pc[n] = "persistResult") /\ phase' # "logBlocked"
    BY <2>1
  <2>6. Dispatch(d) /\ d \in DispatchPlans \cup {NoDispatch}
        /\ (~stopped /\ ~overBudget => d \in DispatchPlans)
    BY <2>1
  <2> DEFINE gone == {}
  <2>7. /\ gone \in SUBSET Nodes /\ \A n \in gone : pc[n] = "persistResult"
        /\ active' = (active \ gone) \cup Starting(d)
    BY <2>4, <2>5
  <2>8. \A m \in Nodes : pc'[m] = IF m \in gone THEN "settled"
                                  ELSE IF m \in Starting(d) THEN "logStarted" ELSE pc[m]
    BY <2>3
  <2> HIDE DEF gone
  <2> QED BY <1>11, <2>2, <2>5, <2>6, <2>7, <2>8
\* What leaves the nodes as they are.
<1>15. ASSUME UNCHANGED <<status, pc, active, activated>>,
              phase' # "logBlocked" /\ (phase' = "logStarted" \/ phase # "logStarted"),
              stopped => stopped', overBudget => overBudget',
              \A n \in Nodes : sleep'[n] = "cancelled" => stopped'
       PROVE  DispatchInv'
  <2>1. Unreachable' = Unreachable /\ Ready' = Ready
    BY <1>15 DEF Unreachable, PredFailed, Ready, PredsDone
  <2> QED BY <1>0, <1>15, <2>1
          DEF DispatchInv, OnlyStopCancels, ActivatedRun, ResultIsTerminal, NoneOverlooked,
              SweepIsUnderWay
<1>16. CASE LoopTerminal \/ BlockedLogged
  <2>1. phase = "check" /\ active = {} /\ RunSweeps
    BY <1>0, <1>16 DEF LoopTerminal, BlockedLogged, Terminal
  <2>2. Unreachable = {}
    BY <1>0, <2>1 DEF SweepIsUnderWay
  <2>3. UNCHANGED <<status, pc, active, activated, sleep, stopped, overBudget>> /\ phase' = "persistBlocked"
    BY <1>16, <2>1, <2>2 DEF LoopTerminal, BlockedLogged, RunSweeps, SweepBlocks, SweepEnds
  <2> QED BY <1>0, <1>15, <2>1, <2>3 DEF OnlyStopCancels
<1>17. CASE BuildTerminalResult \/ LoopStopped \/ LoopOverBudget \/ LoopDeadlock \/ LoopWaits
            \/ Drained \/ VerdictPersisted \/ VerdictLogged \/ RunRejects
  <2>1. UNCHANGED <<status, pc, active, activated, sleep, stopped, overBudget>>
    BY <1>17
       DEF BuildTerminalResult, Conclude, LoopStopped, LoopOverBudget, LoopDeadlock, BeginDrain,
           LoopWaits, Drained, VerdictPersisted, VerdictLogged, RunRejects
  <2>2. phase' # "logBlocked" /\ phase # "logStarted"
    BY <1>17
       DEF BuildTerminalResult, Conclude, LoopStopped, LoopOverBudget, LoopDeadlock, BeginDrain,
           LoopWaits, Drained, VerdictPersisted, VerdictLogged, RunRejects, Undelayed
  <2> QED BY <1>0, <1>15, <2>1, <2>2 DEF OnlyStopCancels
<1>18. CASE Stop
  BY <1>0, <1>15, <1>18 DEF Stop, Woken
<1>19. CASE CallRecorded \/ UNCHANGED vars \/ \E n \in Nodes : SleepFires(n)
  BY <1>0, <1>15, <1>19 DEF CallRecorded, vars, SleepFires, OnlyStopCancels
<1> QED BY <1>2, <1>3, <1>4, <1>5, <1>6, <1>7, <1>8, <1>10, <1>12, <1>13, <1>14, <1>16, <1>17, <1>18,
           <1>19 DEF Next, NodeStep, RunStep

\* What is left when nobody is active: nodes that wait for others that wait, in a circle.
LEMMA WaitingInACircle ==
  ASSUME IInv, NodesInv, DrainInv, DispatchInv, Spinning,
         NEW n \in Nodes, status[n] = "pending", n \notin activated, ~PredFailed(n)
  PROVE  \E p \in Preds[n] : status[p] = "pending" /\ p \notin activated /\ ~PredFailed(p)
<1> USE DEF IInv, TypeOK
<1>1. active = {} /\ ~stopped /\ ~overBudget /\ phase = "check"
  BY DEF Spinning
<1>2. Ready = {} /\ Unreachable = {}
  BY <1>1 DEF DispatchInv, NoneOverlooked, SweepIsUnderWay
<1>3. PICK p \in Preds[n] : status[p] # "done"
  BY <1>2 DEF Ready, PredsDone
<1>4. p \in Nodes /\ status[p] \notin TerminalStatuses
  BY <1>3, PredsAssumption DEF PredFailed, TerminalStatuses
<1>5. p \notin activated
  <2>1. ASSUME p \in activated PROVE FALSE
    <3>1. pc[p] = "settled"
      BY <1>1, <1>4, <2>1 DEF NodesInv, ActiveAreBusy, DispatchInv, ActivatedRun, DrainInv
    <3> QED BY <1>1, <1>4, <3>1 DEF DispatchInv, ResultIsTerminal, AfterResult
  <2> QED BY <2>1
<1>6. status[p] = "pending"
  BY <1>4, <1>5 DEF DispatchInv, ActivatedRun, TerminalStatuses, FailureStatuses
<1>7. ~PredFailed(p)
  BY <1>2, <1>4, <1>6 DEF Unreachable
<1> QED BY <1>3, <1>5, <1>6, <1>7

\* In a fresh run of a graph without cycles and without delays, however its nodes end and whatever
\* is stopped or spent meanwhile, the loop of run() never finds nodes it could activate while none
\* is under way: it does not spin (waitForAnyCompletion).
THEOREM LoopNeverSpinsHolds ==
  ASSUME Undelayed, ~Resumed, NoCycle
  PROVE  Spec => []LoopNeverSpins
<1>1. Init => DispatchInv
  BY DispatchInvInit
<1>2. IInv /\ NodesInv /\ DrainInv /\ DispatchInv /\ [Next]_vars => DispatchInv'
  BY DispatchInvStep
<1>3. IInv /\ NodesInv /\ DrainInv /\ DispatchInv => LoopNeverSpins
  <2> SUFFICES ASSUME IInv, NodesInv, DrainInv, DispatchInv, Spinning
               PROVE  FALSE
    BY DEF LoopNeverSpins
  <2> DEFINE W == {n \in Nodes : status[n] = "pending" /\ n \notin activated /\ ~PredFailed(n)}
  <2>1. W # {}
    BY DEF Spinning, HasActivatable
  <2>2. PICK n \in W : Preds[n] \cap W = {}
    BY <2>1 DEF NoCycle
  <2>3. \E p \in Preds[n] : p \in W
    BY WaitingInACircle, PredsAssumption
  <2> QED BY <2>2, <2>3
<1> QED BY <1>1, <1>2, <1>3, IInvHolds, NodesInvHolds, DrainInvHolds, PTL DEF Spec

-----------------------------------------------------------------------------
(* Refinement of DagExecution                                              *)

LEMMA AbstractValues ==
  /\ Abstract("pending") = "pending" /\ Abstract("waiting") = "pending"
  /\ Abstract("running") = "running" /\ Abstract("done") = "done"
  /\ \A s \in FailureStatuses : Abstract(s) = "failed"
BY DEF Abstract, FailureStatuses

\* What a move of the transition table is to DagExecution.
LEMMA AbstractMove ==
  ASSUME NEW s \in NodeStatus, NEW t, CanTransition(s, t)
  PROVE  \/ Abstract(t) = Abstract(s)
         \/ s = "waiting" /\ Abstract(s) = "pending" /\ Abstract(t) = "running"
         \/ Abstract(s) = "running" /\ Abstract(t) \in {"done", "failed"}
BY DEF NodeStatus, CanTransition, NodeTransitions, Abstract, FailureStatuses

LEMMA OutcomeOf ==
  ASSUME NEW n \in Nodes
  PROVE  Outcomes[n] = Abstract(status[n])
BY DEF Outcomes

LEMMA OutcomesTyped == Outcomes \in [Nodes -> Dag!Outcome]
BY DEF Outcomes, Abstract, Dag!Outcome

\* A step that changes the status of one node changes its outcome only.
LEMMA OneOutcome ==
  ASSUME TypeOK, NEW n \in Nodes, NEW t, status' = [status EXCEPT ![n] = t]
  PROVE  Outcomes' = [Outcomes EXCEPT ![n] = Abstract(t)]
BY DEF TypeOK, Outcomes

LEMMA MovesImplement ==
  ASSUME IInv, NEW n \in Nodes, NEW to \in NodeStatus, Moves(n, to)
  PROVE  [Dag!Next]_(Dag!vars)
<1> USE DEF IInv
<1>1. UNCHANGED Announced
  BY DEF Moves, Announced
<1>2. CASE ~CanTransition(status[n], to)
  <2>1. UNCHANGED Outcomes
    BY <1>2 DEF Moves, MoveIfAllowed, Outcomes
  <2> QED BY <1>1, <2>1 DEF Dag!vars
<1>3. CASE CanTransition(status[n], to)
  <2>1. Outcomes' = [Outcomes EXCEPT ![n] = Abstract(to)]
    BY <1>3, OneOutcome DEF Moves, MoveIfAllowed
  <2>2. status[n] \in NodeStatus
    BY DEF TypeOK
  <2>3. CASE Abstract(to) = Abstract(status[n])
    <3>1. UNCHANGED Outcomes
      BY <2>1, <2>3, OutcomeOf DEF Outcomes
    <3> QED BY <1>1, <3>1 DEF Dag!vars
  <2>4. CASE status[n] = "waiting" /\ Abstract(status[n]) = "pending" /\ Abstract(to) = "running"
    <3>1. \A p \in Preds[n] : p \in Nodes /\ status[p] = "done"
      BY PredsAssumption DEF DependencyOrder, PredsDone, Moves
    <3>2. \A p \in Preds[n] : Outcomes[p] = "done"
      BY <3>1, AbstractValues, OutcomeOf
    <3>3. Outcomes' = [m \in Nodes |-> IF m \in {n} THEN "running" ELSE Outcomes[m]]
      BY <2>1, <2>4, OutcomesTyped
    <3>4. Dag!Begin({n})
      BY <1>1, <2>4, <3>2, <3>3, OutcomeOf DEF Dag!Begin
    <3> QED BY <3>4 DEF Dag!Next
  <2>5. CASE Abstract(status[n]) = "running" /\ Abstract(to) \in {"done", "failed"}
    <3>1. Dag!End(n, Abstract(to))
      BY <1>1, <2>1, <2>5, OutcomeOf DEF Dag!End
    <3> QED BY <2>5, <3>1 DEF Dag!Next
  <2> QED BY <1>3, <2>2, <2>3, <2>4, <2>5, AbstractMove
<1> QED BY <1>2, <1>3

LEMMA BlocksImplement ==
  ASSUME IInv, NEW m \in Nodes, Blocks(m)
  PROVE  Dag!Next
<1> USE DEF IInv
<1>1. Outcomes' = [Outcomes EXCEPT ![m] = "failed"]
  BY OneOutcome DEF Blocks, Abstract, FailureStatuses
<1>2. Outcomes[m] = "pending" /\ \E p \in Preds[m] : Outcomes[p] = "failed"
  BY PredsAssumption, OutcomeOf DEF Blocks, Unreachable, PredFailed, Abstract, FailureStatuses
<1>3. Dag!WriteOff(m)
  BY <1>1, <1>2 DEF Blocks, Announced, Dag!WriteOff
<1> QED BY <1>3 DEF Dag!Next

LEMMA ActivatesImplement ==
  ASSUME IInv, NEW d \in DispatchPlans \cup {NoDispatch}, Activates(d)
  PROVE  Dag!Next
<1> USE DEF IInv
<1>1. d.nodes \subseteq Ready
  BY PlanIsReady DEF NoDispatch
<1>2. ASSUME NEW n \in d.nodes
      PROVE  n \in Nodes /\ Outcomes[n] = "pending" /\ \A p \in Preds[n] : Outcomes[p] = "done"
  <2>1. n \in Nodes /\ status[n] = "pending" /\ \A p \in Preds[n] : status[p] = "done"
    BY <1>1 DEF Ready, PredsDone
  <2>2. Preds[n] \subseteq Nodes
    BY <2>1, PredsAssumption
  <2> QED BY <2>1, <2>2, AbstractValues, OutcomeOf
<1>3. ASSUME NEW n \in Nodes
      PROVE  Abstract(status'[n]) = IF n \in Starting(d) THEN "running" ELSE Outcomes[n]
  <2>1. status'[n] = IF n \in Starting(d) THEN "running"
                     ELSE IF n \in d.nodes THEN "waiting" ELSE status[n]
    BY DEF Activates, Dispatch
  <2> QED BY <1>2, <2>1, AbstractValues, OutcomeOf
<1>4. Outcomes' = [n \in Nodes |-> IF n \in Starting(d) THEN "running" ELSE Outcomes[n]]
  BY <1>3 DEF Outcomes
<1>5. Dag!Begin(Starting(d))
  <2>1. UNCHANGED Announced
    BY DEF Activates, Announced
  <2> QED BY <1>2, <1>4, <2>1 DEF Starting, Dag!Begin
<1>6. Starting(d) \in SUBSET Nodes
  BY <1>2 DEF Starting
<1> QED BY <1>5, <1>6 DEF Dag!Next

LEMMA ConcludesImplement ==
  ASSUME IInv, BuildTerminalResult \/ Drained
  PROVE  Dag!Next
<1> USE DEF IInv
<1>1. workflow = "running" /\ UNCHANGED status
  BY DEF BuildTerminalResult, Drained, Conclude, RunningUntilVerdict, nodeVars
<1>2. UNCHANGED Outcomes
  BY <1>1 DEF Outcomes
<1>3. /\ workflow' \in {"done", "failed", "paused"}
      /\ workflow' = "done" => \A n \in Nodes : status[n] = "done"
      /\ workflow' = "failed" => \E n \in Nodes : status[n] # "done"
  <2>1. CASE BuildTerminalResult
    BY <2>1 DEF BuildTerminalResult, Conclude, ResultStatus
  <2>2. CASE Drained
    BY <2>2 DEF Drained, Conclude, ResultStatus, DrainVerdict
  <2> QED BY <2>1, <2>2
<1>4. Dag!Announce(workflow')
  <2>1. Announced = "none" /\ Announced' = workflow'
    BY <1>1, <1>3 DEF Announced
  <2>2. \A n \in Nodes : Outcomes[n] = "done" <=> status[n] = "done"
    BY OutcomeOf DEF Abstract, FailureStatuses
  <2> QED BY <1>2, <1>3, <2>1, <2>2 DEF Dag!Announce
<1> QED BY <1>3, <1>4 DEF Dag!Next, Dag!Result

\* Every behaviour of the engine is one of DagExecution: the initial states map to
\* initial states, every step to a step or to none.
THEOREM EngineImplementsDag == Spec => ImplementsDag
<1>1. Init => Dag!Init
  BY OutcomesTyped DEF Init, Dag!Init, Announced
<1>2. ASSUME IInv, [Next]_vars PROVE [Dag!Next]_(Dag!vars)
  <2>1. StatusStep
    BY <1>2, StepsMoveNodes
  <2>2. CASE UNCHANGED <<status, activated, workflow>>
    BY <2>2 DEF Dag!vars, Outcomes, Announced
  <2> QED BY <1>2, <2>1, <2>2, MovesImplement, BlocksImplement, ActivatesImplement,
             ConcludesImplement DEF StatusStep
<1> QED BY <1>1, <1>2, IInvHolds, PTL DEF Spec, ImplementsDag, Dag!Spec
=============================================================================
