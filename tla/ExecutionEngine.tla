-------------------------- MODULE ExecutionEngine --------------------------
(***************************************************************************)
(* workflow/execution-engine.ts, with workflow/scheduler.ts and the retry  *)
(* state of workflow/provider-retry.ts: one call of                        *)
(* WorkflowExecutionEngine.run() over the nodes of one workflow.           *)
(*                                                                         *)
(* The engine is single-threaded JavaScript.  What interleaves is the code *)
(* between two awaits: each action below is such a segment, from the await *)
(* that just completed to the next one.  pc[n] names the await at which    *)
(* executeNode(n) is suspended, phase the one at which run() is.           *)
(*                                                                         *)
(* Definitions whose name ends in _Faulty are not part of the model: each  *)
(* is the definition after it with one plausible mistake, and README.md    *)
(* says which property notices it.                                         *)
(*                                                                         *)
(* A promise continuation (microtask) runs before any I/O completion or    *)
(* timer (macrotask).  MicrotaskQueued says that run() has a continuation  *)
(* to run; the actions that model macrotasks wait for it.  Two nodes may   *)
(* await one coalesced write of workflow.json, and then continue in the    *)
(* same macrotask: the actions that follow a persist do not wait.          *)
(***************************************************************************)
EXTENDS Naturals, FiniteSets, NodeLifecycle

CONSTANTS
  Nodes,        \* the node ids of the workflow graph
  Preds,        \* graph.getPredecessors, for each node
  Delay,        \* what parseDelay makes of each node's delay string
  MaxAttempts,  \* MAX_PROVIDER_RETRY_ATTEMPTS (10 in the code)
  Resumed,      \* is the workflow one that WorkflowManager.resume restored?
  Faults        \* which of "stop", "budget", "ioError" the environment may do

ASSUME PredsAssumption == Preds \in [Nodes -> SUBSET Nodes]
ASSUME DelayAssumption == Delay \in [Nodes -> {"none", "timer", "invalid"}]
ASSUME AttemptsAssumption == MaxAttempts \in Nat \ {0}
ASSUME ResumedAssumption == Resumed \in BOOLEAN

\* The graph has no cycle: every set of nodes has one without a predecessor in the set.  Edges that
\* would close one are refused when a graph is built or edited (addEdge of graph.ts, validateDag of
\* spec-engine.ts).
NoCycle == \A S \in SUBSET Nodes : S # {} => \E n \in S : Preds[n] \cap S = {}

VARIABLES
  status,       \* WorkflowNode.status of each node
  attempt,      \* providerRetryState.attempt, 0 when it is null
  pc,           \* the await at which executeNode(n) is suspended
  sleep,        \* the CancellableSleep of n in providerRetrySleeps
  activated,    \* activatedNodes
  active,       \* the keys of activeNodes
  timers,       \* the keys of Scheduler.entries
  completed,    \* completedNodes
  failed,       \* failedNodes
  stopped,      \* the flag stop() sets
  overBudget,   \* costTracker.isBudgetExceeded()
  phase,        \* the await at which run() is suspended
  watched,      \* the promises run() is racing or draining
  verdict,      \* the result run() has decided to build
  workflow      \* WorkflowManager.status

nodeVars == <<status, attempt, pc, sleep, activated, active, timers,
              completed, failed>>
runVars  == <<phase, watched, verdict, workflow>>
envVars  == <<stopped, overBudget>>
vars     == <<nodeVars, runVars, envVars>>

-----------------------------------------------------------------------------
(* The awaits of executeNode and of the functions it calls.                *)

LogAwaits == {"logStarted", "logRateLimited", "logExhausted", "logScheduled",
              "logResumed", "logCompleted", "logFailed", "logBlocked"}
PersistAwaits == {"persistExhausted", "persistScheduled", "persistBlocked",
                  "persistResult"}
Calling == {"executing", "reexecuting"}
PC == LogAwaits \cup PersistAwaits \cup Calling
        \cup {"idle", "sleeping", "settled", "rejected"}

RunAwaits == {"logStarted", "logBlocked", "persistBlocked", "persistVerdict",
              "logVerdict"}
Ended  == {"returned", "threw"}
Phase  == RunAwaits \cup Ended \cup {"check", "awaiting", "draining"}
Verdict == {"none", "done", "incomplete", "deadlock", "stopped", "budget"}

ResultStatus_Faulty(v) ==  \* a node status where a workflow status belongs
  CASE v = "done" -> "done"
    [] v \in {"incomplete", "deadlock"} -> "blocked"
    [] OTHER -> "paused"

\* The status of the ExecutionResult built for each verdict.
ResultStatus(v) ==
  CASE v = "done" -> "done"
    [] v \in {"incomplete", "deadlock"} -> "failed"
    [] OTHER -> "paused"

TypeOK ==
  /\ status \in [Nodes -> NodeStatus]
  /\ attempt \in [Nodes -> Nat]
  /\ pc \in [Nodes -> PC]
  /\ sleep \in [Nodes -> {"none", "armed", "fired", "cancelled"}]
  /\ activated \subseteq Nodes
  /\ active \subseteq Nodes
  /\ timers \subseteq Nodes
  /\ completed \subseteq Nodes
  /\ failed \subseteq Nodes
  /\ stopped \in BOOLEAN
  /\ overBudget \in BOOLEAN
  /\ phase \in Phase
  /\ watched \subseteq Nodes
  /\ verdict \in Verdict
  /\ workflow \in WorkflowStatus

-----------------------------------------------------------------------------
(* Init.  /workflow/start runs a graph whose nodes are all pending.        *)
(* /workflow/resume runs what WorkflowManager.resume makes of the file an  *)
(* earlier run left: running and waiting nodes are pending again (keeping  *)
(* their retry attempts), the other statuses are kept as they were.        *)

PredsDone(n) == \A p \in Preds[n] : status[p] = "done"
PredFailed(n) == \E p \in Preds[n] : status[p] \in FailureStatuses

ResumedNode(n) ==
  /\ status[n] \in TerminalStatuses \cup {"pending", "waiting_for_provider"}
  /\ status[n] \in {"done", "failed", "failed_provider_exhausted",
                    "waiting_for_provider"} => PredsDone(n)
  /\ status[n] = "blocked" => PredsDone(n) \/ PredFailed(n)
  /\ Delay[n] = "invalid" => status[n] = "pending" \/ PredFailed(n)
  /\ attempt[n] \in
       CASE status[n] = "pending" /\ PredsDone(n) -> 0 .. MaxAttempts
         [] status[n] = "waiting_for_provider" -> 1 .. MaxAttempts - 1
         [] status[n] = "failed_provider_exhausted" -> {MaxAttempts}
         [] OTHER -> {0}

Init ==
  /\ IF Resumed
       THEN /\ status \in [Nodes -> NodeStatus]
            /\ attempt \in [Nodes -> 0 .. MaxAttempts]
            /\ \A n \in Nodes : ResumedNode(n)
       ELSE /\ status = [n \in Nodes |-> "pending"]
            /\ attempt = [n \in Nodes |-> 0]
  /\ pc = [n \in Nodes |-> "idle"]
  /\ sleep = [n \in Nodes |-> "none"]
  /\ activated = {} /\ active = {} /\ timers = {}
  /\ completed = {} /\ failed = {}
  /\ stopped = FALSE
  /\ overBudget \in IF Resumed /\ "budget" \in Faults THEN BOOLEAN ELSE {FALSE}
  /\ phase = "logStarted"
  /\ watched = {}
  /\ verdict = "none"
  /\ workflow = "running"

-----------------------------------------------------------------------------
(* Helpers of the engine.                                                  *)

\* node.transition(to), where the code first asks canTransition(to).
MoveIfAllowed(n, to) ==
  IF CanTransition(status[n], to) THEN [status EXCEPT ![n] = to] ELSE status

Ready_Faulty ==  \* .some for .every
  {n \in Nodes : status[n] = "pending" /\ n \notin activated
                  /\ (Preds[n] = {} \/ \E p \in Preds[n] : status[p] = "done")}

Ready_Restart_Faulty ==  \* the test of the status is missing
  {n \in Nodes : n \notin activated /\ PredsDone(n)}

\* findReadyNodes
Ready == {n \in Nodes : status[n] = "pending" /\ n \notin activated /\ PredsDone(n)}

\* hasActivatableNodes
HasActivatable ==
  \E n \in Nodes : status[n] = "pending" /\ n \notin activated /\ ~PredFailed(n)


\* isTerminal
Terminal ==
  /\ active = {}
  /\ \A n \in Nodes : status[n] \notin TerminalStatuses =>
                        n \notin activated /\ PredFailed(n)

Unreachable_Faulty ==  \* a predecessor that is not done yet counts as failed
  {n \in Nodes : status[n] = "pending" /\ ~PredsDone(n)}

\* The nodes markUnreachableNodesBlocked looks for.
Unreachable == {n \in Nodes : status[n] = "pending" /\ PredFailed(n)}

\* run() has a continuation in the microtask queue.
WatchedSettled == \A n \in watched : pc[n] \in {"settled", "rejected"}
MicrotaskQueued == phase = "check" \/ (phase = "draining" /\ WatchedSettled)

(* activateReadyNodes, one synchronous loop over the ready nodes: each is  *)
(* activated and moved to "waiting", then scheduled.  A zero delay starts  *)
(* it at once, any other delay sets a timer, and a delay string parseDelay *)
(* rejects throws out of the loop, leaving the nodes after it untouched.   *)
NoDispatch == [nodes |-> {}, throws |-> FALSE]


DispatchPlans ==
  LET invalid == {n \in Ready : Delay[n] = "invalid"}
  IN  IF stopped THEN {NoDispatch}
      ELSE IF invalid = {} THEN {[nodes |-> Ready, throws |-> FALSE]}
      ELSE {[nodes |-> before \cup {bad}, throws |-> TRUE] :
              before \in SUBSET (Ready \ invalid), bad \in invalid}

Starting(d) == {n \in d.nodes : Delay[n] = "none"}

Dispatch(d) ==
  /\ status' = [n \in Nodes |-> IF n \in Starting(d) THEN "running"
                                ELSE IF n \in d.nodes THEN "waiting"
                                ELSE status[n]]
  /\ activated' = activated \cup d.nodes
  /\ timers' = timers \cup {n \in d.nodes : Delay[n] = "timer"}

\* startNodeExecution: executeNode(n) runs up to the log of node_started.
Started(d, base) == [n \in Nodes |-> IF n \in Starting(d) THEN "logStarted" ELSE base[n]]

(* markUnreachableNodesBlocked up to its next await: one unreachable node  *)
(* goes pending -> waiting -> running -> blocked and is logged, or none is *)
(* left and the state is persisted.  "also" is what the caller pushed to   *)
(* failedNodes in the same segment.                                        *)
SweepBlocks(m, also) ==
  /\ m \in Unreachable
  /\ status' = [status EXCEPT ![m] = "blocked"]
  /\ failed' = failed \cup also \cup {m}

SweepEnds(also) ==
  /\ Unreachable = {}
  /\ failed' = failed \cup also
  /\ UNCHANGED status

NodeSweep(n, also) ==
  \/ /\ \E m \in Nodes : SweepBlocks(m, also)
     /\ pc' = [pc EXCEPT ![n] = "logBlocked"]
  \/ /\ SweepEnds(also)
     /\ pc' = [pc EXCEPT ![n] = "persistBlocked"]

Woken_Faulty == phase  \* the wake-up is lost

\* signalWakeUp: run() goes on if it is racing.
Woken == IF phase = "awaiting" THEN "check" ELSE phase

-----------------------------------------------------------------------------
(* executeNode                                                             *)

\* Awaits with nothing to do but to go on to the next one.
NextAwait ==
  [logStarted |-> "executing", logExhausted |-> "persistExhausted",
   logScheduled |-> "persistScheduled", persistScheduled |-> "sleeping",
   logResumed |-> "reexecuting", logCompleted |-> "persistResult",
   persistBlocked |-> "persistResult"]

Proceed(n) ==
  /\ pc[n] \in DOMAIN NextAwait
  /\ pc[n] \in LogAwaits => ~MicrotaskQueued
  /\ pc' = [pc EXCEPT ![n] = NextAwait[pc[n]]]
  /\ UNCHANGED <<status, attempt, sleep, activated, active, timers, completed,
                 failed, runVars, envVars>>

\* The executor returned a result, or threw an error that is no rate limit
\* (which the code turns into the result "failed"): applyNodeResult up to the
\* log of node_completed, node_failed or node_blocked.
ExecutorReturns(n, result) ==
  /\ pc[n] \in Calling
  /\ ~MicrotaskQueued
  /\ status' = MoveIfAllowed(n, result)
  /\ attempt' = IF pc[n] = "reexecuting" THEN [attempt EXCEPT ![n] = 0] ELSE attempt
  /\ IF result = "done"
       THEN /\ completed' = completed \cup {n}
            /\ pc' = [pc EXCEPT ![n] = "logCompleted"]
            /\ UNCHANGED failed
       ELSE /\ failed' = failed \cup {n}
            /\ pc' = [pc EXCEPT ![n] = "logFailed"]
            /\ UNCHANGED completed
  /\ UNCHANGED <<sleep, activated, active, timers, runVars, envVars>>

\* The executor threw a rate-limit error: handleProviderRateLimit creates or
\* advances the retry state and logs provider_rate_limited.
ExecutorRateLimited(n) ==
  /\ pc[n] \in Calling
  /\ ~MicrotaskQueued
  /\ attempt' = [attempt EXCEPT ![n] = @ + 1]
  /\ pc' = [pc EXCEPT ![n] = "logRateLimited"]
  /\ UNCHANGED <<status, sleep, activated, active, timers, completed, failed,
                 runVars, envVars>>

\* getProviderRetryDelay gave a delay: wait for the provider.
RetryScheduled(n) ==
  /\ pc[n] = "logRateLimited"
  /\ ~MicrotaskQueued
  /\ attempt[n] < MaxAttempts
  /\ status' = MoveIfAllowed(n, "waiting_for_provider")
  /\ sleep' = [sleep EXCEPT ![n] = "armed"]
  /\ pc' = [pc EXCEPT ![n] = "logScheduled"]
  /\ UNCHANGED <<attempt, activated, active, timers, completed, failed, runVars, envVars>>

RetryExhausted_Faulty(n) ==  \* gives up one attempt early
  /\ pc[n] = "logRateLimited"
  /\ ~MicrotaskQueued
  /\ attempt[n] >= MaxAttempts - 1
  /\ status' = MoveIfAllowed(n, "failed_provider_exhausted")
  /\ pc' = [pc EXCEPT ![n] = "logExhausted"]
  /\ UNCHANGED <<attempt, sleep, activated, active, timers, completed, failed,
                 runVars, envVars>>

\* getProviderRetryDelay gave null: exhaustProviderRetry.
RetryExhausted(n) ==
  /\ pc[n] = "logRateLimited"
  /\ ~MicrotaskQueued
  /\ attempt[n] >= MaxAttempts
  /\ status' = MoveIfAllowed(n, "failed_provider_exhausted")
  /\ pc' = [pc EXCEPT ![n] = "logExhausted"]
  /\ UNCHANGED <<attempt, sleep, activated, active, timers, completed, failed,
                 runVars, envVars>>

ExhaustionPersisted_Faulty(n) ==  \* the node is not pushed to failedNodes
  /\ pc[n] = "persistExhausted"
  /\ NodeSweep(n, {})
  /\ UNCHANGED <<attempt, sleep, activated, active, timers, completed, runVars, envVars>>

\* The exhausted node's "failed" result is applied: it is in its terminal
\* status already and has been logged, so the sweep follows at once.
ExhaustionPersisted(n) ==
  /\ pc[n] = "persistExhausted"
  /\ NodeSweep(n, {n})
  /\ UNCHANGED <<attempt, sleep, activated, active, timers, completed, runVars, envVars>>

\* The timer of the sleep fires, whether or not n has come to await it.
SleepFires(n) ==
  /\ sleep[n] = "armed"
  /\ ~MicrotaskQueued
  /\ sleep' = [sleep EXCEPT ![n] = "fired"]
  /\ UNCHANGED <<status, attempt, pc, activated, active, timers, completed, failed,
                 runVars, envVars>>

\* await sleep.promise gave true: back to running, unless stop() was called.
RetryResumes(n) ==
  /\ pc[n] = "sleeping"
  /\ sleep[n] = "fired" /\ ~stopped
  /\ sleep' = [sleep EXCEPT ![n] = "none"]
  /\ status' = MoveIfAllowed(n, "running")
  /\ pc' = [pc EXCEPT ![n] = "logResumed"]
  /\ UNCHANGED <<attempt, activated, active, timers, completed, failed, runVars, envVars>>

\* The sleep was cancelled: executeNode applies the result "failed", a move
\* waiting_for_provider does not allow.
RetryAbandoned(n) ==
  /\ pc[n] = "sleeping"
  /\ sleep[n] = "cancelled" \/ (sleep[n] = "fired" /\ stopped)
  /\ sleep' = [sleep EXCEPT ![n] = "none"]
  /\ status' = MoveIfAllowed(n, "failed")
  /\ failed' = failed \cup {n}
  /\ pc' = [pc EXCEPT ![n] = "logFailed"]
  /\ UNCHANGED <<attempt, activated, active, timers, completed, runVars, envVars>>

FailureLogged_Faulty(n) ==  \* markUnreachableNodesBlocked is not called
  /\ pc[n] \in {"logFailed", "logBlocked"}
  /\ ~MicrotaskQueued
  /\ pc' = [pc EXCEPT ![n] = "persistResult"]
  /\ UNCHANGED <<status, attempt, sleep, activated, active, timers, completed, failed,
                 runVars, envVars>>

\* node_failed or node_blocked is logged: the sweep goes on.
FailureLogged(n) ==
  /\ pc[n] \in {"logFailed", "logBlocked"}
  /\ ~MicrotaskQueued
  /\ NodeSweep(n, {})
  /\ UNCHANGED <<attempt, sleep, activated, active, timers, completed, runVars, envVars>>

Settle_Faulty(n) ==  \* the budget is not consulted
  /\ pc[n] = "persistResult"
  /\ \E d \in DispatchPlans :
       /\ Dispatch(d)
       /\ active' = (active \ {n}) \cup Starting(d)
       /\ pc' = [Started(d, pc) EXCEPT ![n] = "settled"]
       /\ phase' = Woken
  /\ UNCHANGED <<attempt, sleep, completed, failed, watched, verdict, workflow, envVars>>

\* The node's result is on disk: it leaves activeNodes, the nodes it made
\* ready are activated, and run() is woken.
Settle(n) ==
  /\ pc[n] = "persistResult"
  /\ \E d \in IF overBudget THEN {NoDispatch} ELSE DispatchPlans :
       /\ Dispatch(d)
       /\ active' = (active \ {n}) \cup Starting(d)
       /\ pc' = [Started(d, pc) EXCEPT ![n] = IF d.throws THEN "rejected" ELSE "settled"]
       /\ phase' = IF ~d.throws THEN Woken
                   ELSE IF phase = "awaiting" /\ n \in watched THEN "threw"
                   ELSE phase
  /\ UNCHANGED <<attempt, sleep, completed, failed, watched, verdict, workflow, envVars>>

\* appendEvent or saveWorkflowState rejects: so does executeNode(n), which
\* stays in activeNodes, and so does run() if it is racing that promise.
StepRejects(n) ==
  /\ "ioError" \in Faults
  /\ pc[n] \in LogAwaits \cup PersistAwaits
  /\ pc[n] \in LogAwaits => ~MicrotaskQueued
  /\ pc' = [pc EXCEPT ![n] = "rejected"]
  /\ phase' = IF phase = "awaiting" /\ n \in watched THEN "threw" ELSE phase
  /\ UNCHANGED <<status, attempt, sleep, activated, active, timers, completed,
                 failed, watched, verdict, workflow, envVars>>

\* Scheduler: the timer of a delayed node fires and the node starts.
TimerFires(n) ==
  /\ n \in timers
  /\ ~MicrotaskQueued
  /\ timers' = timers \ {n}
  /\ status' = MoveIfAllowed(n, "running")
  /\ pc' = [pc EXCEPT ![n] = "logStarted"]
  /\ active' = active \cup {n}
  /\ UNCHANGED <<attempt, sleep, activated, completed, failed, runVars, envVars>>

-----------------------------------------------------------------------------
(* run()                                                                   *)

\* workflow_started is logged: the first nodes are activated.  The budget is
\* not consulted here.
RunBegins ==
  /\ phase = "logStarted"
  /\ \E d \in DispatchPlans :
       /\ Dispatch(d)
       /\ active' = active \cup Starting(d)
       /\ pc' = Started(d, pc)
       /\ phase' = IF d.throws THEN "threw" ELSE "check"
  /\ UNCHANGED <<attempt, sleep, completed, failed, watched, verdict, workflow, envVars>>

\* The nodes are all terminal: buildTerminalResult starts its own sweep.
RunSweeps ==
  \/ /\ \E m \in Nodes : SweepBlocks(m, {})
     /\ phase' = "logBlocked"
  \/ /\ SweepEnds({})
     /\ phase' = "persistBlocked"

LoopTerminal ==
  /\ phase = "check" /\ Terminal
  /\ RunSweeps
  /\ UNCHANGED <<attempt, pc, sleep, activated, active, timers, completed,
                 watched, verdict, workflow, envVars>>

BlockedLogged ==
  /\ phase = "logBlocked"
  /\ RunSweeps
  /\ UNCHANGED <<attempt, pc, sleep, activated, active, timers, completed,
                 watched, verdict, workflow, envVars>>

\* manager.transition: the status changes, then it is persisted.
Conclude(v) ==
  /\ verdict' = v
  /\ workflow' = ResultStatus(v)
  /\ phase' = "persistVerdict"
  /\ UNCHANGED <<nodeVars, watched, envVars>>

BuildTerminalResult_Faulty ==  \* a blocked node is not a failure
  /\ phase = "persistBlocked"
  /\ Conclude(IF \A n \in Nodes : status[n] # "failed" THEN "done" ELSE "incomplete")

BuildTerminalResult ==
  /\ phase = "persistBlocked"
  /\ Conclude(IF \A n \in Nodes : status[n] = "done" THEN "done" ELSE "incomplete")

BeginDrain_Faulty(v) ==  \* drainActiveNodes is not awaited
  /\ verdict' = v
  /\ watched' = {}
  /\ phase' = "draining"
  /\ UNCHANGED <<nodeVars, workflow, envVars>>

\* buildPausedResult and buildFailedResult drain the active nodes first.
BeginDrain(v) ==
  /\ verdict' = v
  /\ watched' = active
  /\ phase' = "draining"
  /\ UNCHANGED <<nodeVars, workflow, envVars>>

LoopStopped ==
  /\ phase = "check" /\ ~Terminal /\ stopped
  /\ BeginDrain("stopped")

LoopOverBudget ==
  /\ phase = "check" /\ ~Terminal /\ ~stopped /\ overBudget
  /\ BeginDrain("budget")

LoopDeadlock ==
  /\ phase = "check" /\ ~Terminal /\ ~stopped /\ ~overBudget
  /\ active = {} /\ ~HasActivatable
  /\ BeginDrain("deadlock")

\* waitForAnyCompletion.  With no active node it returns at once and the loop
\* comes round to the same check: Spinning below, a step that changes nothing.
LoopWaits ==
  /\ phase = "check" /\ ~Terminal /\ ~stopped /\ ~overBudget
  /\ active # {}
  /\ watched' = active
  /\ phase' = IF \E n \in active : pc[n] = "rejected" THEN "threw" ELSE "awaiting"
  /\ UNCHANGED <<nodeVars, verdict, workflow, envVars>>

Spinning ==
  /\ phase = "check" /\ ~Terminal /\ ~stopped /\ ~overBudget
  /\ active = {} /\ HasActivatable

Drained ==
  /\ phase = "draining" /\ WatchedSettled
  /\ Conclude(verdict)

\* workflow_completed and workflow_paused are logged, a failure is not.
VerdictPersisted ==
  /\ phase = "persistVerdict"
  /\ phase' = IF workflow \in {"done", "paused"} THEN "logVerdict" ELSE "returned"
  /\ UNCHANGED <<nodeVars, watched, verdict, workflow, envVars>>

VerdictLogged ==
  /\ phase = "logVerdict"
  /\ phase' = "returned"
  /\ UNCHANGED <<nodeVars, watched, verdict, workflow, envVars>>

RunRejects ==
  /\ "ioError" \in Faults
  /\ phase \in RunAwaits
  /\ phase' = "threw"
  /\ UNCHANGED <<nodeVars, watched, verdict, workflow, envVars>>

-----------------------------------------------------------------------------
(* The environment                                                         *)

Stop_Sleeps_Faulty ==  \* providerRetrySleeps is cleared, its sleeps are not cancelled
  /\ "stop" \in Faults
  /\ ~stopped /\ phase \notin Ended /\ ~MicrotaskQueued
  /\ stopped' = TRUE
  /\ timers' = {}
  /\ sleep' = [n \in Nodes |-> "none"]
  /\ phase' = Woken
  /\ UNCHANGED <<status, attempt, pc, activated, active, completed, failed,
                 overBudget, watched, verdict, workflow>>

Stop_Timers_Faulty ==  \* scheduler.cancelAll is not called
  /\ "stop" \in Faults
  /\ ~stopped /\ phase \notin Ended /\ ~MicrotaskQueued
  /\ stopped' = TRUE
  /\ sleep' = [n \in Nodes |-> IF sleep[n] = "armed" THEN "cancelled" ELSE sleep[n]]
  /\ phase' = Woken
  /\ UNCHANGED <<status, attempt, pc, activated, active, timers, completed, failed,
                 overBudget, watched, verdict, workflow>>

\* stop(), from the abort signal of the server, while run() is under way.
Stop ==
  /\ "stop" \in Faults
  /\ ~stopped /\ phase \notin Ended /\ ~MicrotaskQueued
  /\ stopped' = TRUE
  /\ timers' = {}
  /\ sleep' = [n \in Nodes |-> IF sleep[n] = "armed" THEN "cancelled" ELSE sleep[n]]
  /\ phase' = Woken
  /\ UNCHANGED <<status, attempt, pc, activated, active, completed, failed,
                 overBudget, watched, verdict, workflow>>

\* An agent's call made by an executor takes the cost over the limit.
CallRecorded ==
  /\ "budget" \in Faults
  /\ ~overBudget /\ ~MicrotaskQueued
  /\ \E n \in Nodes : pc[n] \in Calling
  /\ overBudget' = TRUE
  /\ UNCHANGED <<nodeVars, runVars, stopped>>

-----------------------------------------------------------------------------
NodeStep(n) ==
  \/ Proceed(n)
  \/ \E result \in {"done", "failed", "blocked"} : ExecutorReturns(n, result)
  \/ ExecutorRateLimited(n)
  \/ RetryScheduled(n)
  \/ RetryExhausted(n)
  \/ ExhaustionPersisted(n)
  \/ RetryResumes(n)
  \/ RetryAbandoned(n)
  \/ FailureLogged(n)
  \/ Settle(n)

RunStep ==
  \/ RunBegins
  \/ LoopTerminal
  \/ BlockedLogged
  \/ BuildTerminalResult
  \/ LoopStopped
  \/ LoopOverBudget
  \/ LoopDeadlock
  \/ LoopWaits
  \/ Drained
  \/ VerdictPersisted
  \/ VerdictLogged

Next ==
  \/ \E n \in Nodes : NodeStep(n) \/ SleepFires(n) \/ TimerFires(n) \/ StepRejects(n)
  \/ RunStep
  \/ RunRejects
  \/ Stop
  \/ CallRecorded

\* Promises settle, timers fire and executors return (an agent loop is bounded
\* by its timeout, its token budget and MAX_ITERATIONS).
Fairness ==
  /\ WF_vars(RunStep)
  /\ \A n \in Nodes : WF_vars(NodeStep(n)) /\ WF_vars(SleepFires(n)) /\ WF_vars(TimerFires(n))

Spec == Init /\ [][Next]_vars
FairSpec == Spec /\ Fairness

-----------------------------------------------------------------------------
(* Properties                                                              *)

\* A node is activated only when every predecessor is done, and no later step
\* of the run takes that "done" back (findReadyNodes reads it once).
DependencyOrder == \A n \in activated : PredsDone(n)

\* The verdict says what happened to the nodes: "done" only if every node is
\* done and none was reported as failed, "incomplete" only if nothing is left
\* to do and some node is not done (isTerminal, buildTerminalResult).
VerdictTruthful ==
  /\ verdict = "done" => (\A n \in Nodes : status[n] = "done") /\ failed = {}
  /\ verdict = "incomplete" =>
       /\ \A n \in Nodes : status[n] \in TerminalStatuses
       /\ \E n \in Nodes : status[n] # "done"

\* The lists of the ExecutionResult agree with the nodes: completedNodes are done,
\* no node of failedNodes is, and every node the run brought to a terminal status
\* is in one of them.
ResultLists ==
  phase = "returned" =>
    /\ \A n \in completed : status[n] = "done"
    /\ \A n \in failed : status[n] # "done"
    /\ \A n \in activated : status[n] \in TerminalStatuses => n \in completed \cup failed

\* When run() has returned, nothing of this workflow is executing and nothing is
\* scheduled to execute (drainActiveNodes, Scheduler.cancelAll): no node starts
\* after the result has been given.
NoOrphans == phase = "returned" => active = {} /\ timers = {}

\* run() never comes round its loop with nothing to wait for: the loop would then
\* hold the event loop for ever, and no timer, request or write would be served.
LoopNeverSpins == ~Spinning

\* A node is given up as failed_provider_exhausted only after MaxAttempts rate
\* limits, and no retry is slept for once they are used up.
ExhaustionJustified ==
  \A n \in Nodes :
    /\ status[n] = "failed_provider_exhausted" => attempt[n] >= MaxAttempts
    /\ pc[n] \in {"logScheduled", "persistScheduled", "sleeping", "logResumed",
                  "reexecuting"} => attempt[n] < MaxAttempts

\* After stop() no node is activated and no node starts executing.
StopFreezesDispatch ==
  [][stopped => UNCHANGED activated /\ \A n \in Nodes : pc[n] = "idle" => pc'[n] = "idle"]_vars

\* Once the budget is exceeded no node is activated and no node starts executing
\* (docs/internals/dag-execution.md: "Check budget before activating each node").
BudgetFreezesDispatch ==
  [][overBudget => UNCHANGED activated /\ \A n \in Nodes : pc[n] = "idle" => pc'[n] = "idle"]_vars

\* What a run decided about a node stands: a terminal status never changes.
TerminalIsFinal ==
  [][\A n \in Nodes : status[n] \in TerminalStatuses => status'[n] = status[n]]_vars

\* run() comes to an end, whatever the executors return.
RunEnds == <>(phase \in Ended)

\* A node that waits for its provider is retried or given up, unless stop()
\* cancels the wait.
ProviderWaitEnds ==
  \A n \in Nodes : (pc[n] = "sleeping") ~> (pc[n] # "sleeping")

-----------------------------------------------------------------------------
(* The engine implements DagExecution.  A node counts as begun once its    *)
(* executor is under way, provider retries included.                       *)

Abstract(s) ==
  CASE s \in {"pending", "waiting"} -> "pending"
    [] s = "done" -> "done"
    [] s \in FailureStatuses -> "failed"
    [] OTHER -> "running"

Outcomes == [n \in Nodes |-> Abstract(status[n])]
Announced == IF workflow = "running" THEN "none" ELSE workflow

Dag == INSTANCE DagExecution WITH outcome <- Outcomes, result <- Announced

\* Every run of the engine is an execution of the graph as DagExecution has it,
\* through retries, delays, stops, budget pauses and failing writes.
ImplementsDag == Dag!Spec
=============================================================================
