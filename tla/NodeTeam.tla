------------------------------- MODULE NodeTeam -------------------------------
(***************************************************************************)
(* One call of runLoomi (agents/loomi.ts): the orchestrator of a node      *)
(* plans a team, runs its workers in parallel, asks for a review, and      *)
(* retries or escalates.  Each worker is a call of runAgentLoop            *)
(* (agents/base-agent.ts), which talks to the provider and runs tools.     *)
(*                                                                         *)
(* An action is the code between two awaits of the orchestrator, or of one *)
(* worker.  The events and progress entries awaited in a row are one await *)
(* (TeamWriteRejects is any of them failing).  Prompts, plans' texts and   *)
(* costs are left out; of the tools only report_complete has an effect     *)
(* here, and the messages workers send are MessageBus's.  A plan is the    *)
(* set of worker ids: the array may repeat a completed worker's.           *)
(***************************************************************************)
EXTENDS Naturals, FiniteSets

CONSTANTS
  Workers, Loomi,  \* agent ids: those a plan may use, and the orchestrator's
  MaxRetries,      \* config.maxRetriesPerNode
  MaxTaskRetries,  \* config.maxRetriesPerTask
  MaxIterations,   \* MAX_ITERATIONS of the agent loop: 100 in the code
  TeamConfigs,     \* the configurations: [review, oauth : BOOLEAN, delay : {"ok", "invalid"}]
  TeamFaults       \* "ioError": an append to the event log or to PROGRESS.md may fail

ASSUME LoomiAssumption == Loomi \notin Workers
ASSUME LimitsAssumption == {MaxRetries, MaxTaskRetries, MaxIterations} \subseteq Nat
ASSUME ConfigsAssumption ==
  TeamConfigs \subseteq [review : BOOLEAN, oauth : BOOLEAN, delay : {"ok", "invalid"}]

VARIABLES
  cfg,          \* the configuration of this call
  teamPc,       \* the await at which runLoomi is
  team,         \* teamPlan.workers
  activePlans,  \* the workers of this round
  retryCount,
  taskRetries,  \* taskRetryTracker
  permanent,    \* permanentlyFailedAgents
  completed,    \* allCompletedAgents
  report,       \* CompletionTracker: each worker's last report_complete
  agent,        \* the agent loop of each worker
  failed,       \* failedIds of this round
  result,       \* the LoomiResult
  registered,   \* the agents on the MessageBus
  verdict,      \* what the review of this round said, and the tasks it failed
  runs,         \* history: how often each worker was spawned
  lastReport    \* history: what each worker reported last in its last run

teamVars == <<cfg, teamPc, team, activePlans, retryCount, taskRetries, permanent, completed,
              report, agent, failed, result, registered, verdict, runs, lastReport>>
planVars  == <<cfg, team>>
retryVars == <<retryCount, taskRetries, permanent>>
history  == <<runs, lastReport>>

LoopStatus == {"completed", "failed", "timeout", "token_limit"}
Idle == [at |-> "idle", iteration |-> 0, status |-> "completed"]
NoVerdict == [is |-> "none", failing |-> {}]
NoResult == [status |-> "none", completed |-> {}, failed |-> {}]

TeamTypeOK ==
  /\ cfg \in TeamConfigs
  /\ teamPc \in {"planning", "replanning", "spawning", "working", "collecting", "judging",
                 "reviewing", "retrying", "ending", "returned", "threw"}
  /\ team \subseteq Workers /\ activePlans \subseteq team
  /\ retryCount \in 0 .. MaxRetries
  /\ taskRetries \in [Workers -> 0 .. MaxTaskRetries + 1]
  /\ permanent \subseteq team /\ completed \subseteq team /\ failed \subseteq activePlans
  /\ report \in [Workers -> {"none", "success", "partial"}]
  /\ agent \in [Workers -> [at : {"idle", "head", "calling", "tools", "ended"},
                            iteration : 0 .. MaxIterations, status : LoopStatus]]
  /\ result \in [status : {"none", "completed", "failed", "escalated"},
                 completed : SUBSET Workers, failed : SUBSET Workers]
  /\ registered \subseteq Workers \cup {Loomi}
  /\ runs \in [Workers -> 0 .. MaxRetries + 1]
  /\ lastReport \in [Workers -> {"none", "success", "partial"}]
  /\ verdict \in [is : {"none", "PASS", "FAIL", "BLOCKED"}, failing : SUBSET Workers]

TeamInit ==
  /\ cfg \in TeamConfigs
  /\ teamPc = "planning"
  /\ team = {} /\ activePlans = {}
  /\ retryCount = 0
  /\ taskRetries = [w \in Workers |-> 0]
  /\ permanent = {} /\ completed = {} /\ failed = {}
  /\ report = [w \in Workers |-> "none"]
  /\ agent = [w \in Workers |-> Idle]
  /\ result = NoResult
  /\ registered = {}
  /\ runs = [w \in Workers |-> 0]
  /\ lastReport = [w \in Workers |-> "none"]
  /\ verdict = NoVerdict

-----------------------------------------------------------------------------
(* Ends                                                                    *)

\* return { status, completedAgents, failedAgents }, after the last entries.
Return(status, done, fails) ==
  /\ result' = [status |-> status, completed |-> done, failed |-> fails]
  /\ teamPc' = "ending"

\* handleEscalation.
Escalate(done, fails) == Return("escalated", done, fails)

Finally_Faulty == UNCHANGED registered

\* The finally block.
Finally == registered' = registered \ {Loomi}

TeamReturns ==
  /\ teamPc = "ending"
  /\ teamPc' = "returned"
  /\ Finally
  /\ UNCHANGED <<planVars, retryVars, activePlans, completed, report, agent, failed, result,
                 verdict, history>>

\* logEvent or writeProgress rejects: nothing catches it.
TeamWriteRejects ==
  /\ "ioError" \in TeamFaults
  /\ teamPc \notin {"working", "returned", "threw"}
  /\ teamPc' = "threw"
  /\ Finally
  /\ UNCHANGED <<planVars, retryVars, activePlans, completed, report, agent, failed, result,
                 verdict, history>>

-----------------------------------------------------------------------------
(* A round                                                                 *)

BeginRound_Faulty(plans) ==
  /\ activePlans' = plans
  /\ UNCHANGED report
  /\ registered' = registered \cup {Loomi} \cup plans
  /\ failed' = {}
  /\ teamPc' = "spawning"

\* The top of the loop: forget the reports of the last round, register the workers.
BeginRound(plans) ==
  /\ activePlans' = plans
  /\ report' = [w \in Workers |-> "none"]
  /\ registered' = registered \cup {Loomi} \cup plans
  /\ failed' = {}
  /\ teamPc' = "spawning"

\* planTeam answers.  Scopes that overlap, as far as validateFileScopes sees, make it
\* plan once more.
TeamPlanned ==
  /\ teamPc \in {"planning", "replanning"}
  /\ \E plans \in (SUBSET Workers) \ {{}}, overlap \in BOOLEAN :
       IF ~overlap
       THEN team' = plans /\ BeginRound(plans) /\ UNCHANGED result
       ELSE /\ IF teamPc = "planning"
               THEN teamPc' = "replanning" /\ UNCHANGED result
               ELSE Return("failed", {}, {})
            /\ UNCHANGED <<team, activePlans, report, registered, failed>>
  /\ UNCHANGED <<cfg, retryVars, completed, agent, verdict, history>>

\* planTeam throws: the provider fails, or its answer does not parse.
PlanFails ==
  /\ teamPc \in {"planning", "replanning"}
  /\ Return("failed", {}, {})
  /\ UNCHANGED <<planVars, retryVars, activePlans, completed, report, agent, failed,
                 registered, verdict, history>>

\* spawnWorker for every active plan, joined by Promise.all.
SpawnWorkers ==
  /\ teamPc = "spawning"
  /\ teamPc' = "working"
  /\ agent' = [w \in Workers |->
                 IF w \in activePlans THEN [Idle EXCEPT !.at = "head"] ELSE agent[w]]
  /\ runs' = [w \in Workers |-> IF w \in activePlans THEN runs[w] + 1 ELSE runs[w]]
  /\ lastReport' = [w \in Workers |-> IF w \in activePlans THEN "none" ELSE lastReport[w]]
  /\ UNCHANGED <<planVars, retryVars, activePlans, completed, report, failed, result,
                 registered, verdict>>

-----------------------------------------------------------------------------
(* runAgentLoop                                                            *)

loopUnchanged == <<planVars, retryVars, teamPc, activePlans, completed, failed, result,
                   registered, verdict, runs>>

LoopEnds(w, status) ==
  agent' = [agent EXCEPT ![w] = [@ EXCEPT !.at = "ended", !.status = status]]

LoopHead_Faulty(w) ==
  /\ agent[w].at = "head"
  /\ IF agent[w].iteration > MaxIterations
     THEN LoopEnds(w, "failed")
     ELSE agent' = [agent EXCEPT ![w].at = "calling"]
  /\ UNCHANGED <<report, lastReport, loopUnchanged>>

\* The head of the loop: the cap on iterations, the two limits, then the provider.
LoopHead(w) ==
  /\ agent[w].at = "head"
  /\ IF agent[w].iteration >= MaxIterations
     THEN LoopEnds(w, "failed")
     ELSE \/ LoopEnds(w, "timeout")
          \/ agent[w].iteration > 0 /\ LoopEnds(w, "token_limit")
          \/ agent' = [agent EXCEPT ![w].at = "calling"]
  /\ UNCHANGED <<report, lastReport, loopUnchanged>>

\* provider.complete answers end_turn, or fails.
LoopAnswered(w) ==
  /\ agent[w].at = "calling"
  /\ \E status \in {"completed", "failed"} : LoopEnds(w, status)
  /\ UNCHANGED <<report, lastReport, loopUnchanged>>

\* It answers tool_use: the tools run one after the other.
LoopToolUse(w) ==
  /\ agent[w].at = "calling"
  /\ agent' = [agent EXCEPT ![w].at = "tools"]
  /\ UNCHANGED <<report, lastReport, loopUnchanged>>

\* The tool report_complete.
ReportComplete(w) ==
  /\ agent[w].at = "tools"
  /\ \E status \in {"success", "partial"} :
       /\ report' = [report EXCEPT ![w] = status]
       /\ lastReport' = [lastReport EXCEPT ![w] = status]
  /\ UNCHANGED <<agent, loopUnchanged>>

\* All tools of the answer have run.
LoopIterates(w) ==
  /\ agent[w].at = "tools"
  /\ agent' = [agent EXCEPT ![w].at = "head", ![w].iteration = @ + 1]
  /\ UNCHANGED <<report, lastReport, loopUnchanged>>

AgentLoop(w) ==
  LoopHead(w) \/ LoopAnswered(w) \/ LoopToolUse(w) \/ ReportComplete(w) \/ LoopIterates(w)

-----------------------------------------------------------------------------
(* The results of a round                                                  *)

WorkersFinish ==
  /\ teamPc = "working"
  /\ \A w \in activePlans : agent[w].at = "ended"
  /\ teamPc' = "collecting"
  /\ UNCHANGED <<planVars, retryVars, activePlans, completed, report, agent, failed, result,
                 registered, verdict, history>>

WorkerFailed_Faulty(w) == agent[w].status # "completed"

\* classifyWorkerResults.
WorkerFailed(w) == agent[w].status # "completed" \/ report[w] = "partial"

\* The outcomes are logged: unregister the workers and classify them.
CollectResults ==
  /\ teamPc = "collecting"
  /\ LET bad == {w \in activePlans : WorkerFailed(w)} IN
       /\ failed' = bad
       /\ completed' = completed \cup (activePlans \ bad)
  /\ registered' = registered \ activePlans
  /\ teamPc' = "judging"
  /\ UNCHANGED <<planVars, retryVars, activePlans, report, agent, result, verdict, history>>

Retryable(plans) == plans \ permanent
Counted(plans) == [w \in Workers |->
  IF w \in Retryable(plans) THEN taskRetries[w] + 1 ELSE taskRetries[w]]

Eligible_Faulty(plans) == {w \in Retryable(plans) : taskRetries[w] <= MaxTaskRetries}

\* applyPerTaskRetryLimits: the workers that may be retried once more.
Eligible(plans) == {w \in Retryable(plans) : Counted(plans)[w] <= MaxTaskRetries}

\* The tail both branches share: count, give up on some, retry the others or escalate.
RetrySome(plans) ==
  LET eligible == Eligible(plans)
      given == permanent \cup (Retryable(plans) \ eligible)
  IN /\ taskRetries' = Counted(plans)
     /\ permanent' = given
     /\ IF eligible = {}
        THEN /\ Escalate(completed, given)
             /\ UNCHANGED <<activePlans, failed, retryCount>>
        ELSE /\ activePlans' = eligible
             /\ failed' = {}
             /\ retryCount' = retryCount + 1
             /\ teamPc' = "retrying"
             /\ UNCHANGED result

\* Every worker completed: review, or return.
JudgeCompleted ==
  /\ teamPc = "judging" /\ failed = {}
  /\ IF cfg.review
     THEN teamPc' = "reviewing" /\ UNCHANGED result
     ELSE Return("completed", completed, {})
  /\ UNCHANGED <<planVars, retryVars, activePlans, completed, report, agent, failed, registered,
                 verdict, history>>

MayRetry == retryCount < MaxRetries

\* Some failed.
JudgeFailed ==
  /\ teamPc = "judging" /\ failed # {}
  /\ verdict' = NoVerdict
  /\ IF ~MayRetry
     THEN Escalate(completed, failed \cup permanent) /\ UNCHANGED <<retryVars, activePlans, failed>>
     ELSE RetrySome(failed)
  /\ UNCHANGED <<planVars, completed, report, agent, registered, history>>

-----------------------------------------------------------------------------
(* The review                                                              *)

\* reviewCallback answers null or PASS.
ReviewPasses ==
  /\ teamPc = "reviewing"
  /\ \E is \in {"none", "PASS"} : verdict' = [NoVerdict EXCEPT !.is = is]
  /\ Return("completed", completed, {})
  /\ UNCHANGED <<planVars, retryVars, activePlans, completed, report, agent, failed, registered,
                 history>>

ReviewBlocks ==
  /\ teamPc = "reviewing"
  /\ verdict' = [NoVerdict EXCEPT !.is = "BLOCKED"]
  /\ Escalate(completed, {})
  /\ UNCHANGED <<planVars, retryVars, activePlans, completed, report, agent, failed, registered,
                 history>>

\* The workers whose tasks the report fails are retried; all of them, if it names none.
ReviewFails ==
  /\ teamPc = "reviewing"
  /\ \E failing \in SUBSET Workers :
       /\ verdict' = [is |-> "FAIL", failing |-> failing]
       /\ IF ~MayRetry
          THEN /\ Escalate(completed, permanent)
               /\ UNCHANGED <<retryVars, activePlans, failed>>
          ELSE RetrySome(IF failing \cap team = {} THEN team ELSE failing \cap team)
  /\ UNCHANGED <<planVars, completed, report, agent, registered, history>>

-----------------------------------------------------------------------------
(* The next round                                                          *)

\* adaptPlansForRetry keeps the ids, and may fail; then parseDelay throws, or the
\* delay passes and the next round begins.
RetryDue ==
  /\ teamPc = "retrying"
  /\ IF cfg.delay = "invalid"
     THEN /\ teamPc' = "threw"
          /\ Finally
          /\ UNCHANGED <<activePlans, report, failed>>
     ELSE BeginRound(activePlans)
  /\ UNCHANGED <<planVars, retryVars, completed, agent, result, verdict, history>>

\* The OAuth token has expired meanwhile.
TokenExpired ==
  /\ teamPc = "retrying"
  /\ cfg.oauth /\ cfg.delay = "ok"
  /\ Return("failed", completed, IF verdict.is = "FAIL" THEN activePlans ELSE permanent)
  /\ UNCHANGED <<planVars, retryVars, activePlans, completed, report, agent, failed, registered,
                 verdict, history>>

-----------------------------------------------------------------------------
TeamStep ==
  \/ TeamReturns \/ TeamPlanned \/ PlanFails \/ SpawnWorkers \/ WorkersFinish \/ CollectResults
  \/ JudgeCompleted \/ JudgeFailed \/ ReviewPasses \/ ReviewBlocks \/ ReviewFails
  \/ RetryDue \/ TokenExpired

TeamNext == TeamStep \/ TeamWriteRejects \/ \E w \in Workers : AgentLoop(w)

TeamSpec == TeamInit /\ [][TeamNext]_teamVars

\* The process goes on, the provider answers or fails, timers fire.  An answer may
\* carry any finite number of tool calls.
TeamFairness ==
  /\ WF_teamVars(TeamStep)
  /\ \A w \in Workers : /\ WF_teamVars(LoopHead(w) \/ LoopAnswered(w) \/ LoopToolUse(w))
                        /\ WF_teamVars(LoopIterates(w))

-----------------------------------------------------------------------------
(* Properties                                                              *)

RanWell(w) == agent[w].at = "ended" /\ agent[w].status = "completed" /\ lastReport[w] # "partial"

\* A node that completes has earned it: the last run of every worker of the team ended
\* well, whatever round that was in, except of those given up on; and with a review, the
\* last one did not fail it.
CompletedIsEarned ==
  result.status = "completed" =>
    /\ \A w \in team \ permanent : RanWell(w)
    /\ verdict.is \notin {"FAIL", "BLOCKED"}

\* A worker is given up on when its retries are used up, neither before nor after, over
\* rounds in which its own run failed and rounds in which a review failed its task.
RetriesUsedUp ==
  \A w \in team : /\ runs[w] <= MaxTaskRetries + 1
                  /\ w \in permanent => runs[w] = MaxTaskRetries + 1

\* An escalation names no worker without cause: each one listed as failed failed in its
\* last run, or was given up on while a reviewer could fail its task - a report of an earlier
\* round is not held against it.
EscalationJustified ==
  result.status = "escalated" =>
    \A w \in result.failed : ~RanWell(w) \/ (w \in permanent /\ cfg.review)

\* runLoomi ends, whatever the workers, the provider and the reviewer answer, and when it
\* returns nobody of the node is left on the bus, whatever rounds there were.
NodeEnds == <>(teamPc = "threw" \/ (teamPc = "returned" /\ registered = {}))

=============================================================================
