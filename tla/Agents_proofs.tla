----------------------------- MODULE Agents_proofs -----------------------------
(***************************************************************************)
(* Theorems about what works on one node and what asks for it (MCAgents):  *)
(* for any agents, files, messages, sessions, calls and timers, one part   *)
(* after the other, and then of all of them.  The parts share no variable, *)
(* so each keeps an invariant of its own, whatever the others do.          *)
(***************************************************************************)
EXTENDS MCAgents, Clients_proofs, FiniteSetTheorems, TLAPS

-----------------------------------------------------------------------------
(* The workers of a node: what it reports of them is what they have done   *)

Planning == {"planning", "replanning"}
EndStates == {"ending", "returned", "threw"}

\* Nobody works before there is a plan.
NothingYet ==
  teamPc \in Planning =>
    /\ team = {} /\ permanent = {} /\ completed = {} /\ activePlans = {} /\ retryCount = 0
    /\ \A w \in Workers : taskRetries[w] = 0 /\ runs[w] = 0

\* An agent loop is under way only while the orchestrator waits for it, within its cap.
LoopsAreAwaited ==
  \A w \in Workers :
    /\ agent[w].at \in {"head", "calling", "tools"} => teamPc = "working" /\ w \in activePlans
    /\ agent[w].at \in {"calling", "tools"} => agent[w].iteration < MaxIterations

\* The rounds begun are the retries and the first one.
RoundsAreCounted ==
  \A w \in Workers :
    /\ runs[w] <= retryCount + 1
    /\ teamPc \in {"spawning", "retrying"} => runs[w] <= retryCount

\* Until the orchestrator ends, a worker that is not given up on has run once more than it was
\* retried, unless it is about to.
RetriesAreCounted ==
  /\ \A w \in Workers \ team : taskRetries[w] = 0
  /\ \A w \in Workers : taskRetries[w] > MaxTaskRetries => w \in permanent
  /\ teamPc \notin EndStates =>
       \A w \in team \ permanent :
         runs[w] = IF w \in activePlans /\ teamPc \in {"spawning", "retrying"}
                   THEN taskRetries[w] ELSE taskRetries[w] + 1

\* Those given up on take part in no round.
GivenUpRest == teamPc \notin EndStates => activePlans \cap permanent = {}

\* What the tracker has of a worker of this round is what it reported last.
ReportsAreOfThisRound ==
  /\ teamPc = "spawning" => \A w \in Workers : report[w] = "none"
  /\ teamPc \in {"working", "collecting", "judging"} =>
       \A w \in activePlans : report[w] = lastReport[w]

\* Who is not in the round has earned its place in the earlier ones.
RestRanWell ==
  teamPc \notin EndStates => \A w \in team \ permanent : w \notin activePlans => RanWell(w)

\* What the orchestrator judges is how the workers of the round ended.
RoundIsKnown ==
  /\ teamPc \in {"collecting", "judging", "reviewing"} =>
       \A w \in activePlans : agent[w].at = "ended"
  /\ teamPc = "judging" => failed = {w \in activePlans : ~RanWell(w)}
  /\ teamPc = "reviewing" => cfg.review /\ \A w \in activePlans : RanWell(w)

\* Without a review nobody but a failed worker is given up on.
GivenUpForFailure ==
  ~cfg.review => verdict = NoVerdict /\ \A w \in permanent : ~RanWell(w)

\* The result comes with the end.
ResultComesLast == teamPc \notin EndStates => result = NoResult

TeamInv ==
  /\ TeamTypeOK /\ NothingYet /\ LoopsAreAwaited /\ RoundsAreCounted /\ RetriesAreCounted
  /\ GivenUpRest /\ ReportsAreOfThisRound /\ RestRanWell /\ RoundIsKnown /\ GivenUpForFailure
  /\ ResultComesLast /\ RetriesUsedUp /\ CompletedIsEarned /\ EscalationJustified

LEMMA TeamInvInit ==
  ASSUME TeamInit
  PROVE  TeamInv
BY LimitsAssumption, ConfigsAssumption
   DEF TeamInit, TeamInv, TeamTypeOK, NothingYet, LoopsAreAwaited, RoundsAreCounted,
       RetriesAreCounted, GivenUpRest, ReportsAreOfThisRound, RestRanWell, RoundIsKnown,
       GivenUpForFailure, ResultComesLast, RetriesUsedUp, CompletedIsEarned, EscalationJustified,
       RanWell, Planning, EndStates, LoopStatus, planVars, retryVars, history, NoResult, NoVerdict,
       Idle

\* A step of a worker's loop: it is awaited before, and stays within its cap.
LEMMA LoopStep ==
  ASSUME TeamInv, NEW w \in Workers, agent[w].at \in {"head", "calling", "tools"},
         NEW new \in [at : {"head", "calling", "tools", "ended"}, iteration : 0 .. MaxIterations,
                      status : LoopStatus],
         new.at \in {"calling", "tools"} => new.iteration < MaxIterations,
         agent' = [agent EXCEPT ![w] = new],
         UNCHANGED <<report, lastReport, loopUnchanged>>
  PROVE  TeamInv'
<1> USE LimitsAssumption, ConfigsAssumption
    DEF TeamInv, TeamTypeOK, NothingYet, LoopsAreAwaited, RoundsAreCounted, RetriesAreCounted,
        GivenUpRest, ReportsAreOfThisRound, RestRanWell, RoundIsKnown, GivenUpForFailure,
        ResultComesLast, RetriesUsedUp, CompletedIsEarned, EscalationJustified, RanWell, Planning,
        EndStates, LoopStatus, planVars, retryVars, history, NoResult, NoVerdict, Idle, loopUnchanged
<1>1. teamPc = "working" /\ w \in activePlans
  OBVIOUS
<1>2. TeamTypeOK' /\ LoopsAreAwaited'
  BY <1>1
<1>3. GivenUpForFailure'
  BY <1>1
<1>4. RestRanWell' /\ RoundIsKnown'
  BY <1>1
<1> QED BY <1>1, <1>2, <1>3, <1>4

\* What RetrySome counts: of those not given up on, some may run again.
LEMMA RetryCounts ==
  ASSUME TeamInv, teamPc \in {"judging", "reviewing"}, NEW plans \in SUBSET team
  PROVE  /\ Counted(plans) = [w \in Workers |->
              IF w \in plans \ permanent THEN taskRetries[w] + 1 ELSE taskRetries[w]]
         /\ Eligible(plans) = {w \in plans \ permanent : taskRetries[w] < MaxTaskRetries}
         /\ Retryable(plans) \ Eligible(plans) =
              {w \in plans \ permanent : taskRetries[w] = MaxTaskRetries}
         /\ \A w \in team \ permanent :
              runs[w] = taskRetries[w] + 1 /\ taskRetries[w] \in 0 .. MaxTaskRetries
<1>1. /\ taskRetries \in [Workers -> 0 .. MaxTaskRetries + 1] /\ team \subseteq Workers
      /\ \A w \in Workers : taskRetries[w] > MaxTaskRetries => w \in permanent
      /\ \A w \in team \ permanent : runs[w] = taskRetries[w] + 1
      /\ MaxTaskRetries \in Nat
  BY LimitsAssumption DEF TeamInv, TeamTypeOK, RetriesAreCounted, EndStates
<1>2. Counted(plans) = [w \in Workers |->
              IF w \in plans \ permanent THEN taskRetries[w] + 1 ELSE taskRetries[w]]
  BY DEF Counted, Retryable
<1>3. \A w \in plans \ permanent : /\ w \in Workers
                                  /\ Counted(plans)[w] = taskRetries[w] + 1
                                  /\ taskRetries[w] \in Nat /\ taskRetries[w] <= MaxTaskRetries
  BY <1>1, <1>2
<1>4. Eligible(plans) = {w \in plans \ permanent : taskRetries[w] < MaxTaskRetries}
  BY <1>1, <1>3 DEF Eligible, Retryable
<1>5. Retryable(plans) \ Eligible(plans) =
        {w \in plans \ permanent : taskRetries[w] = MaxTaskRetries}
  BY <1>1, <1>3, <1>4 DEF Retryable
<1>6. \A w \in team \ permanent : taskRetries[w] \in 0 .. MaxTaskRetries
  BY <1>1
<1> QED BY <1>1, <1>2, <1>4, <1>5, <1>6

\* The tail of a round that is not the last: whoever is left out has run well, and is given up
\* on for a failure.
LEMMA RetryStep ==
  ASSUME TeamInv, teamPc \in {"judging", "reviewing"}, MayRetry, NEW plans \in SUBSET team,
         \A w \in team \ permanent : w \notin plans => RanWell(w),
         ~cfg.review => verdict' = NoVerdict /\ \A w \in plans : ~RanWell(w),
         verdict' \in [is : {"none", "PASS", "FAIL", "BLOCKED"}, failing : SUBSET Workers],
         RetrySome(plans),
         UNCHANGED <<planVars, completed, report, agent, registered, history>>
  PROVE  TeamInv'
<1> DEFINE eligible == {w \in plans \ permanent : taskRetries[w] < MaxTaskRetries}
           given == permanent \cup {w \in plans \ permanent : taskRetries[w] = MaxTaskRetries}
<1>1. /\ taskRetries' = [w \in Workers |->
            IF w \in plans \ permanent THEN taskRetries[w] + 1 ELSE taskRetries[w]]
      /\ permanent' = given
      /\ \A w \in team \ permanent :
           runs[w] = taskRetries[w] + 1 /\ taskRetries[w] \in 0 .. MaxTaskRetries
  BY RetryCounts DEF RetrySome
<1>2. IF eligible = {}
      THEN /\ result' = [status |-> "escalated", completed |-> completed, failed |-> given]
           /\ teamPc' = "ending"
           /\ UNCHANGED <<activePlans, failed, retryCount>>
      ELSE /\ activePlans' = eligible /\ failed' = {} /\ retryCount' = retryCount + 1
           /\ teamPc' = "retrying" /\ result' = result
  BY RetryCounts DEF RetrySome, Escalate, Return
<1>3. /\ team \subseteq Workers /\ taskRetries \in [Workers -> 0 .. MaxTaskRetries + 1]
      /\ \A w \in Workers : taskRetries[w] > MaxTaskRetries => w \in permanent
      /\ \A w \in Workers \ team : taskRetries[w] = 0
  BY DEF TeamInv, TeamTypeOK, RetriesAreCounted
<1>4. \A w \in team \ permanent : (w \in eligible \/ w \in given) <=> w \in plans
  BY <1>1, LimitsAssumption
<1>5. \A w \in Workers : /\ w \notin team => taskRetries'[w] = 0
                        /\ taskRetries'[w] > MaxTaskRetries => w \in permanent'
  <2> SUFFICES ASSUME NEW w \in Workers
               PROVE  /\ w \notin team => taskRetries'[w] = 0
                      /\ taskRetries'[w] > MaxTaskRetries => w \in permanent'
    OBVIOUS
  <2>1. CASE w \in plans \ permanent
    BY <1>3, <1>1, <2>1, LimitsAssumption
  <2>2. CASE w \notin plans \ permanent
    BY <1>3, <1>1, <2>2
  <2> QED BY <2>1, <2>2
<1>6. \A w \in team \ permanent : w \notin given =>
        runs[w] = IF w \in eligible THEN taskRetries'[w] ELSE taskRetries'[w] + 1
  BY <1>3, <1>1, <1>4
<1> USE LimitsAssumption, ConfigsAssumption
    DEF TeamInv, TeamTypeOK, NothingYet, LoopsAreAwaited, RoundsAreCounted, RetriesAreCounted,
        GivenUpRest, ReportsAreOfThisRound, RestRanWell, RoundIsKnown, GivenUpForFailure,
        ResultComesLast, RetriesUsedUp, CompletedIsEarned, EscalationJustified, RanWell, Planning,
        EndStates, LoopStatus, planVars, retryVars, history, NoResult, NoVerdict, Idle
<1>7. RetriesUsedUp'
  BY <1>1
<1>8. GivenUpForFailure'
  BY <1>1
<1>9. CASE eligible = {}
  <2>1. TeamTypeOK'
    BY <1>1, <1>2, <1>9
  <2>2. EscalationJustified'
    BY <1>1, <1>2, <1>9
  <2>3. RetriesAreCounted'
    BY <1>1, <1>2, <1>9
  <2> QED BY <1>1, <1>2, <1>7, <1>8, <1>9, <2>1, <2>2, <2>3
<1>10. CASE eligible # {}
  <2>1. TeamTypeOK'
    BY <1>1, <1>2, <1>10 DEF MayRetry
  <2>2. RetriesAreCounted' /\ GivenUpRest'
    BY <1>1, <1>2, <1>10, <1>5, <1>6
  <2>3. \A w \in team \ permanent : w \notin given /\ w \notin eligible => w \notin plans
    BY <1>4
  <2>4. RestRanWell'
    BY <1>1, <1>2, <1>10, <2>3
  <2> QED BY <1>1, <1>2, <1>7, <1>8, <1>10, <2>1, <2>2, <2>4
<1> QED BY <1>9, <1>10

\* Every step of a loop is one.
LEMMA AgentLoopStep ==
  ASSUME TeamInv, NEW w \in Workers, AgentLoop(w)
  PROVE  TeamInv'
<1> DEFINE LoopRecords == [at : {"head", "calling", "tools", "ended"}, iteration : 0 .. MaxIterations,
                           status : LoopStatus]
<1>1. /\ agent \in [Workers -> [at : {"idle", "head", "calling", "tools", "ended"},
                                iteration : 0 .. MaxIterations, status : LoopStatus]]
      /\ MaxIterations \in Nat
      /\ agent[w].at \in {"calling", "tools"} => agent[w].iteration < MaxIterations
  BY LimitsAssumption DEF TeamInv, TeamTypeOK, LoopsAreAwaited
<1>2. ASSUME NEW status \in LoopStatus, LoopEnds(w, status), agent[w].at \in {"head", "calling"},
             UNCHANGED <<report, lastReport, loopUnchanged>>
      PROVE  TeamInv'
  <2> DEFINE new == [agent[w] EXCEPT !.at = "ended", !.status = status]
  <2>1. agent' = [agent EXCEPT ![w] = new]
    BY <1>2 DEF LoopEnds
  <2>2. new \in LoopRecords /\ new.at = "ended"
    BY <1>1
  <2> HIDE DEF new
  <2> QED BY <1>2, <2>1, <2>2, LoopStep
<1>3. CASE LoopHead(w)
  <2> DEFINE new == [agent[w] EXCEPT !.at = "calling"]
  <2>1. CASE agent[w].iteration < MaxIterations /\ agent' = [agent EXCEPT ![w].at = "calling"]
    <3>1. agent' = [agent EXCEPT ![w] = new]
      BY <1>1, <2>1
    <3>2. new \in LoopRecords /\ new.iteration < MaxIterations
      BY <1>1, <2>1
    <3> HIDE DEF new
    <3> QED BY <1>3, <3>1, <3>2, LoopStep DEF LoopHead
  <2> QED BY <1>1, <1>2, <1>3, <2>1 DEF LoopHead, LoopStatus
<1>4. CASE LoopAnswered(w)
  BY <1>2, <1>4 DEF LoopAnswered, LoopStatus
<1>5. CASE LoopToolUse(w)
  <2> DEFINE new == [agent[w] EXCEPT !.at = "tools"]
  <2>1. agent' = [agent EXCEPT ![w] = new] /\ agent[w].at = "calling"
    BY <1>1, <1>5 DEF LoopToolUse
  <2>2. new \in LoopRecords /\ new.iteration < MaxIterations
    BY <1>1, <2>1
  <2> HIDE DEF new
  <2> QED BY <1>5, <2>1, <2>2, LoopStep DEF LoopToolUse
<1>6. CASE ReportComplete(w)
  BY <1>6
     DEF ReportComplete, loopUnchanged, TeamInv, TeamTypeOK, NothingYet, LoopsAreAwaited,
         RoundsAreCounted, RetriesAreCounted, GivenUpRest, ReportsAreOfThisRound, RestRanWell,
         RoundIsKnown, GivenUpForFailure, ResultComesLast, RetriesUsedUp, CompletedIsEarned,
         EscalationJustified, RanWell, Planning, EndStates, LoopStatus, planVars, retryVars, history,
         NoResult, NoVerdict, Idle
<1>7. CASE LoopIterates(w)
  <2> DEFINE new == [at |-> "head", iteration |-> agent[w].iteration + 1, status |-> agent[w].status]
  <2>1. agent[w].at = "tools" /\ agent' = [agent EXCEPT ![w] = new]
    BY <1>1, <1>7 DEF LoopIterates
  <2>2. new \in LoopRecords /\ new.at = "head"
    BY <1>1, <2>1
  <2> HIDE DEF new
  <2> QED BY <1>7, <2>1, <2>2, LoopStep DEF LoopIterates
<1> QED BY <1>3, <1>4, <1>5, <1>6, <1>7 DEF AgentLoop

LEMMA TeamInvStep ==
  ASSUME TeamInv, [TeamNext]_teamVars
  PROVE  TeamInv'
<1> USE LimitsAssumption, ConfigsAssumption
    DEF TeamInv, TeamTypeOK, NothingYet, LoopsAreAwaited, RoundsAreCounted, RetriesAreCounted,
        GivenUpRest, ReportsAreOfThisRound, RestRanWell, RoundIsKnown, GivenUpForFailure,
        ResultComesLast, RetriesUsedUp, CompletedIsEarned, EscalationJustified, RanWell, Planning,
        EndStates, LoopStatus, planVars, retryVars, history, NoResult, NoVerdict, Idle
<1>1. CASE TeamReturns
  BY <1>1 DEF TeamReturns, Finally
<1>2. CASE TeamPlanned
  BY <1>2 DEF TeamPlanned, Return, BeginRound
<1>3. CASE PlanFails
  BY <1>3 DEF PlanFails, Return
<1>4. CASE SpawnWorkers
  BY <1>4 DEF SpawnWorkers
<1>5. CASE WorkersFinish
  BY <1>5 DEF WorkersFinish
<1>6. CASE CollectResults
  BY <1>6 DEF CollectResults, WorkerFailed
<1>7. CASE JudgeCompleted
  BY <1>7 DEF JudgeCompleted, Return
<1>8. CASE JudgeFailed
  <2>1. CASE ~MayRetry
    BY <1>8, <2>1 DEF JudgeFailed, Escalate, Return
  <2>2. CASE MayRetry
    BY <1>8, <2>2, RetryStep DEF JudgeFailed
  <2> QED BY <2>1, <2>2
<1>9. CASE ReviewPasses
  BY <1>9 DEF ReviewPasses, Return
<1>10. CASE ReviewBlocks
  BY <1>10 DEF ReviewBlocks, Escalate, Return
<1>11. CASE ReviewFails
  <2>1. PICK failing \in SUBSET Workers :
          /\ verdict' = [is |-> "FAIL", failing |-> failing]
          /\ IF ~MayRetry
             THEN /\ Escalate(completed, permanent)
                  /\ UNCHANGED <<retryVars, activePlans, failed>>
             ELSE RetrySome(IF failing \cap team = {} THEN team ELSE failing \cap team)
    BY <1>11 DEF ReviewFails
  <2>2. CASE ~MayRetry
    BY <1>11, <2>1, <2>2 DEF ReviewFails, Escalate, Return
  <2>3. CASE MayRetry
    <3> DEFINE plans == IF failing \cap team = {} THEN team ELSE failing \cap team
    <3>1. plans \in SUBSET team /\ RetrySome(plans)
      BY <2>1, <2>3
    <3>2. cfg.review /\ \A w \in team \ permanent : RanWell(w)
      BY <1>11 DEF ReviewFails
    <3>3. UNCHANGED <<planVars, completed, report, agent, registered, history>>
      BY <1>11 DEF ReviewFails
    <3> HIDE DEF plans
    <3> QED BY <1>11, <2>1, <2>3, <3>1, <3>2, <3>3, RetryStep DEF ReviewFails
  <2> QED BY <2>2, <2>3
<1>12. CASE RetryDue
  BY <1>12 DEF RetryDue, Finally, BeginRound
<1>13. CASE TokenExpired
  BY <1>13 DEF TokenExpired, Return
<1>14. CASE TeamWriteRejects
  BY <1>14 DEF TeamWriteRejects, Finally
<1>15. ASSUME NEW w \in Workers, AgentLoop(w) PROVE TeamInv'
  BY <1>15, AgentLoopStep
<1>16. CASE UNCHANGED teamVars
  BY <1>16 DEF teamVars
<1> QED BY <1>1, <1>2, <1>3, <1>4, <1>5, <1>6, <1>7, <1>8, <1>9, <1>10, <1>11, <1>12, <1>13, <1>14,
    <1>15, <1>16
    DEF TeamNext, TeamStep

\* Every variable of runLoomi keeps its type, counters within the limits of the configuration
\* (loomi.ts, lines 905 to 955).
THEOREM TeamTypeCorrect == TeamSpec => []TeamTypeOK
<1>1. TeamInv => TeamTypeOK
  BY DEF TeamInv
<1> QED BY <1>1, TeamInvInit, TeamInvStep, PTL DEF TeamSpec

\* Whatever workers, limits, failures and reviews: a node that completes has earned it
\* (loomi.ts, the returns of runLoomi).
THEOREM CompletedIsEarnedHolds == TeamSpec => []CompletedIsEarned
<1>1. TeamInv => CompletedIsEarned
  BY DEF TeamInv
<1> QED BY <1>1, TeamInvInit, TeamInvStep, PTL DEF TeamSpec

\* A worker is given up on after MaxTaskRetries + 1 runs and no sooner (applyPerTaskRetryLimits).
THEOREM RetriesUsedUpHolds == TeamSpec => []RetriesUsedUp
<1>1. TeamInv => RetriesUsedUp
  BY DEF TeamInv
<1> QED BY <1>1, TeamInvInit, TeamInvStep, PTL DEF TeamSpec

\* An escalation names no worker without cause (handleEscalation and its callers).
THEOREM EscalationJustifiedHolds == TeamSpec => []EscalationJustified
<1>1. TeamInv => EscalationJustified
  BY DEF TeamInv
<1> QED BY <1>1, TeamInvInit, TeamInvStep, PTL DEF TeamSpec

-----------------------------------------------------------------------------
(* Ownership of files                                                      *)

LEMMA OwnTypeOKInit == OwnInit => OwnTypeOK
BY DEF OwnInit, OwnTypeOK

LEMMA OwnTypeOKStep ==
  ASSUME OwnTypeOK, [OwnNext]_ownVars
  PROVE  OwnTypeOK'
<1> USE DEF OwnTypeOK, With, Without
<1>1. ASSUME NEW a \in Agents, NEW patterns \in SUBSET Globs, SetScope(a, patterns) PROVE OwnTypeOK'
  BY <1>1 DEF SetScope
<1>2. ASSUME NEW a \in Agents, RemoveScope(a) PROVE OwnTypeOK'
  BY <1>2 DEF RemoveScope
<1>3. ASSUME NEW a \in Agents, NEW glob \in Globs, NEW d \in 1 .. MaxDuration,
             GrantTemporaryLock(a, glob, d)
      PROVE  OwnTypeOK'
  <2>1. d \in 0 .. MaxDuration
    OBVIOUS
  <2> QED BY <1>3, <2>1 DEF GrantTemporaryLock, Lock
<1>4. ASSUME NEW l \in DOMAIN locks, ReleaseTemporaryLock(l) PROVE OwnTypeOK'
  BY <1>4 DEF ReleaseTemporaryLock
<1>5. CASE PruneExpiredLocks
  BY <1>5 DEF PruneExpiredLocks
<1>6. CASE LocksAge
  <2>1. ASSUME NEW l \in DOMAIN locks
        PROVE  [locks[l] EXCEPT !.left = IF @ = 0 THEN 0 ELSE @ - 1] \in Lock
    <3>1. locks[l] \in Lock /\ locks[l].left \in 0 .. MaxDuration
      BY DEF Lock
    <3>2. (IF locks[l].left = 0 THEN 0 ELSE locks[l].left - 1) \in 0 .. MaxDuration
      BY <3>1, DurationAssumption
    <3> QED BY <3>1, <3>2 DEF Lock
  <2> QED BY <1>6, <2>1 DEF LocksAge
<1>7. CASE UNCHANGED ownVars
  BY <1>7 DEF ownVars
<1> QED BY <1>1, <1>2, <1>3, <1>4, <1>5, <1>6, <1>7 DEF OwnNext

\* A write is allowed by the agent's scope or by a lock of its own that has not expired,
\* whichever of the two checks allows it.
LEMMA PermittedBy ==
  ASSUME NEW a \in Agents, NEW path \in Files, <<a, path>> \in Permissions
  PROVE  InScope(ScopeOf(a), path) \/ \E l \in ActiveLocks(a) : Matches(locks[l].glob, path)
BY DEF Permissions, IsWriteAllowed, EffectiveScope, InScope

LEMMA ScopesApart ==
  ASSUME GlobsSeparate, OwnTypeOK, ValidScopes(scopes),
         NEW a \in Agents, NEW b \in Agents, a # b,
         NEW path \in Files, InScope(ScopeOf(a), path), InScope(ScopeOf(b), path)
  PROVE  FALSE
<1>1. a \in DOMAIN scopes /\ b \in DOMAIN scopes
  BY DEF ScopeOf, InScope
<1>2. PICK glob1 \in scopes[a] : Matches(glob1, path)
  BY <1>1 DEF ScopeOf, InScope
<1>3. PICK glob2 \in scopes[b] : Matches(glob2, path)
  BY <1>1 DEF ScopeOf, InScope
<1>4. ~Overlap(scopes[a], scopes[b])
  BY <1>1 DEF ValidScopes
<1>5. ~Overlap({glob1}, {glob2})
  BY <1>2, <1>3, <1>4 DEF Overlap, InScope
<1> QED BY <1>1, <1>2, <1>3, <1>5 DEF GlobsSeparate, OwnTypeOK

LEMMA ExclusiveOfTypes ==
  ASSUME GlobsSeparate, OwnTypeOK
  PROVE  WritersAreExclusive
<1> SUFFICES ASSUME ValidScopes(scopes), NEW a \in Agents, NEW b \in Agents, NEW path \in Files,
                    a # b, {<<a, path>>, <<b, path>>} \subseteq Permissions
             PROVE  \E l \in ActiveLocks(a) \cup ActiveLocks(b) : Matches(locks[l].glob, path)
  BY DEF WritersAreExclusive
<1> QED BY PermittedBy, ScopesApart

-----------------------------------------------------------------------------
(* The bus                                                                 *)

\* Messages are numbered by their places in the log.
Numbered == \A i \in DOMAIN log : log[i].id = i

Delivered(a) == received[a] \o queues[a]

\* What an agent's messages are, for sequences in general: those of the log to it after a place.
Faithful(s, l, from, a) ==
  /\ Range(s) = {l[i] : i \in {k \in from + 1 .. Len(l) : l[k].to = a}}
  /\ \A i, j \in DOMAIN s : i < j => s[i].id < s[j].id

AllFaithful == \A a \in BusRegistered : Faithful(Delivered(a), log, joinedAt[a], a)
BusInv == BusTypeOK /\ Numbered /\ AllFaithful

LEMMA DeliveredByAllFaithful == AllFaithful => DeliveredOnceInOrder
BY DEF AllFaithful, DeliveredOnceInOrder, Faithful, Delivered, SentTo

\* The log grows by messages to others.
LEMMA FaithfulElsewhere ==
  ASSUME NEW s, NEW l \in Seq(Message), NEW more \in Seq(Message), NEW from \in 0 .. Len(l), NEW a,
         Faithful(s, l, from, a), \A k \in DOMAIN more : more[k].to # a
  PROVE  Faithful(s, l \o more, from, a)
<1> DEFINE new == l \o more
<1>1. Len(new) = Len(l) + Len(more) /\ \A k \in 1 .. Len(l) : new[k] = l[k]
  OBVIOUS
<1>2. \A k \in Len(l) + 1 .. Len(new) : new[k] = more[k - Len(l)] /\ k - Len(l) \in DOMAIN more
  BY <1>1
<1>3. {k \in from + 1 .. Len(new) : new[k].to = a} = {k \in from + 1 .. Len(l) : l[k].to = a}
  BY <1>1, <1>2
<1> HIDE DEF new
<1>4. {new[i] : i \in {k \in from + 1 .. Len(new) : new[k].to = a}}
        = {l[i] : i \in {k \in from + 1 .. Len(l) : l[k].to = a}}
  BY <1>1, <1>3
<1> QED BY <1>4 DEF Faithful, new

\* The log grows by messages of which one is to the agent, who gets it.
LEMMA FaithfulHere ==
  ASSUME NEW s \in Seq(Message), NEW l \in Seq(Message), NEW more \in Seq(Message),
         NEW from \in 0 .. Len(l), NEW a, Faithful(s, l, from, a),
         \A i \in DOMAIN l : l[i].id = i, \A i \in DOMAIN more : more[i].id = Len(l) + i,
         NEW p \in DOMAIN more, more[p].to = a, \A k \in DOMAIN more : more[k].to = a => k = p
  PROVE  Faithful(Append(s, more[p]), l \o more, from, a)
<1> DEFINE new == l \o more
           t == Append(s, more[p])
<1>1. Len(new) = Len(l) + Len(more) /\ \A k \in 1 .. Len(l) : new[k] = l[k]
  OBVIOUS
<1>2. \A k \in Len(l) + 1 .. Len(new) : new[k] = more[k - Len(l)] /\ k - Len(l) \in DOMAIN more
  BY <1>1
<1>3. Len(l) + p \in from + 1 .. Len(new) /\ new[Len(l) + p] = more[p]
  BY <1>1
<1>4. {k \in from + 1 .. Len(new) : new[k].to = a}
        = {k \in from + 1 .. Len(l) : l[k].to = a} \cup {Len(l) + p}
  BY <1>1, <1>2, <1>3
<1>6. \A i \in DOMAIN s : s[i].id \in 1 .. Len(l)
  <2> SUFFICES ASSUME NEW i \in DOMAIN s PROVE s[i].id \in 1 .. Len(l)
    OBVIOUS
  <2>1. s[i] \in Range(s)
    BY DEF Range
  <2>2. PICK k \in from + 1 .. Len(l) : s[i] = l[k]
    BY <2>1 DEF Faithful
  <2> QED BY <2>2
<1>7. more[p].id > Len(l)
  OBVIOUS
<1>8. Len(t) = Len(s) + 1 /\ t[Len(s) + 1] = more[p] /\ (\A k \in 1 .. Len(s) : t[k] = s[k])
      /\ DOMAIN t = 1 .. Len(s) + 1 /\ DOMAIN s = 1 .. Len(s) /\ Len(s) \in Nat
  OBVIOUS
<1> HIDE DEF new, t
<1>5. Range(t) = Range(s) \cup {more[p]}
  <2>1. \A x : x \in Range(t) <=> \E i \in 1 .. Len(s) + 1 : t[i] = x
    BY <1>8 DEF Range
  <2>2. \A x : x \in Range(s) <=> \E i \in 1 .. Len(s) : s[i] = x
    BY <1>8 DEF Range
  <2>3. ASSUME NEW x PROVE x \in Range(t) <=> x \in Range(s) \/ x = more[p]
    <3>1. x \in Range(t) => x \in Range(s) \/ x = more[p]
      <4> SUFFICES ASSUME NEW i \in 1 .. Len(s) + 1, t[i] = x PROVE x \in Range(s) \/ x = more[p]
        BY <2>1
      <4>1. i = Len(s) + 1 \/ i \in 1 .. Len(s)
        BY <1>8
      <4> QED BY <4>1, <2>2, <1>8
    <3>2. x = more[p] => x \in Range(t)
      <4>1. Len(s) + 1 \in 1 .. Len(s) + 1
        BY <1>8
      <4> QED BY <4>1, <2>1, <1>8
    <3>3. x \in Range(s) => x \in Range(t)
      <4> SUFFICES ASSUME NEW i \in 1 .. Len(s), s[i] = x PROVE x \in Range(t)
        BY <2>2
      <4>1. i \in 1 .. Len(s) + 1 /\ t[i] = x
        BY <1>8
      <4> QED BY <4>1, <2>1
    <3> QED BY <3>1, <3>2, <3>3
  <2> QED BY <2>3
<1>9. {new[i] : i \in {k \in from + 1 .. Len(new) : new[k].to = a}}
        = {l[i] : i \in {k \in from + 1 .. Len(l) : l[k].to = a}} \cup {more[p]}
  <2> DEFINE old == {k \in from + 1 .. Len(l) : l[k].to = a}
  <2>1. \A k \in old : new[k] = l[k]
    BY <1>1
  <2>2. {new[i] : i \in old} = {l[i] : i \in old}
    BY <2>1
  <2> HIDE DEF old
  <2>3. {new[i] : i \in old \cup {Len(l) + p}} = {new[i] : i \in old} \cup {more[p]}
    BY <1>3
  <2> QED BY <2>2, <2>3, <1>4 DEF old
<1>10. Range(t) = {new[i] : i \in {k \in from + 1 .. Len(new) : new[k].to = a}}
  BY <1>5, <1>9 DEF Faithful
<1>11. \A i, j \in DOMAIN t : i < j => t[i].id < t[j].id
  <2> SUFFICES ASSUME NEW i \in DOMAIN t, NEW j \in DOMAIN t, i < j PROVE t[i].id < t[j].id
    OBVIOUS
  <2>1. CASE j \in DOMAIN s
    BY <2>1, <1>8 DEF Faithful
  <2>2. CASE j = Len(s) + 1
    <3>1. i \in DOMAIN s /\ t[i] = s[i]
      BY <2>2, <1>8
    <3> QED BY <3>1, <2>2, <1>6, <1>7, <1>8
  <2> QED BY <2>1, <2>2, <1>8
<1> QED BY <1>10, <1>11 DEF Faithful, new, t
LEMMA AppendAfter ==
  ASSUME NEW S, NEW r \in Seq(S), NEW q \in Seq(S), NEW m \in S
  PROVE  r \o Append(q, m) = Append(r \o q, m)
OBVIOUS

LEMMA BusInvInit == BusInit => BusInv
<1> SUFFICES ASSUME BusInit PROVE BusInv
  OBVIOUS
<1> QED BY BusAssumption DEF BusInit, BusInv, BusTypeOK, Numbered, AllFaithful, BusRegistered

\* Nothing but a's queue and history changes: what the others were delivered is what it was.
LEMMA Undisturbed ==
  ASSUME AllFaithful, NEW b \in BusRegistered, log' = log,
         Delivered(b)' = Delivered(b), joinedAt'[b] = joinedAt[b]
  PROVE  Faithful(Delivered(b), log, joinedAt[b], b)'
BY DEF AllFaithful, Faithful

LEMMA RegisterStep ==
  ASSUME BusInv, NEW a \in BusAgents, RegisterAgent(a)
  PROVE  BusInv'
<1> USE DEF BusInv, BusTypeOK, BusRegistered
<1>1. CASE a \in BusRegistered
  <2>1. UNCHANGED <<queues, received, joinedAt, log>>
    BY <1>1 DEF RegisterAgent, WithQueue
  <2> QED BY <2>1 DEF Numbered, AllFaithful, Faithful, Delivered
<1>2. CASE a \notin BusRegistered
  <2>1. /\ queues' \in [DOMAIN queues \cup {a} -> Seq(Message)]
        /\ DOMAIN queues' = DOMAIN queues \cup {a} /\ queues'[a] = <<>>
        /\ \A b \in DOMAIN queues : queues'[b] = queues[b]
        /\ received' = [received EXCEPT ![a] = <<>>] /\ joinedAt' = [joinedAt EXCEPT ![a] = Len(log)]
        /\ log' = log
    BY <1>2 DEF RegisterAgent, WithQueue
  <2>2. BusTypeOK' /\ Numbered'
    BY <2>1 DEF Numbered
  <2>3. ASSUME NEW b \in BusRegistered' PROVE Faithful(Delivered(b), log, joinedAt[b], b)'
    <3>1. CASE b = a
      BY <3>1, <2>1 DEF Faithful, Delivered, Range
    <3>2. CASE b # a
      <4>1. b \in BusRegistered /\ Delivered(b)' = Delivered(b) /\ joinedAt'[b] = joinedAt[b]
        BY <3>2, <2>1, <2>3 DEF Delivered
      <4> QED BY <4>1, <2>1, Undisturbed
    <3> QED BY <3>1, <3>2
  <2>4. AllFaithful'
    BY <2>3 DEF AllFaithful
  <2> QED BY <2>2, <2>4
<1> QED BY <1>1, <1>2

LEMMA UnregisterStep ==
  ASSUME BusInv, NEW a \in BusAgents, UnregisterAgent(a)
  PROVE  BusInv'
<1>1. /\ BusRegistered' \subseteq BusRegistered /\ \A b \in BusRegistered' : queues'[b] = queues[b]
      /\ queues' \in [BusRegistered' -> Seq(Message)] /\ UNCHANGED <<log, received, joinedAt>>
  BY DEF UnregisterAgent, BusInv, BusTypeOK, BusRegistered
<1>2. BusTypeOK' /\ Numbered'
  BY <1>1 DEF BusInv, BusTypeOK, Numbered
<1>3. ASSUME NEW b \in BusRegistered' PROVE Faithful(Delivered(b), log, joinedAt[b], b)'
  BY <1>1, Undisturbed DEF BusInv, Delivered
<1> QED BY <1>2, <1>3 DEF BusInv, AllFaithful

LEMMA CollectStep ==
  ASSUME BusInv, NEW a \in BusAgents, Collect(a)
  PROVE  BusInv'
<1> USE DEF BusInv, BusTypeOK, BusRegistered
<1>1. /\ queues' = [queues EXCEPT ![a] = <<>>] /\ received' = [received EXCEPT ![a] = @ \o queues[a]]
      /\ a \in BusRegistered /\ UNCHANGED <<log, joinedAt>>
  BY DEF Collect, Drained
<1>2. BusTypeOK' /\ Numbered'
  BY <1>1 DEF Numbered
<1>3. ASSUME NEW b \in BusRegistered' PROVE Faithful(Delivered(b), log, joinedAt[b], b)'
  <2>1. Delivered(b)' = Delivered(b)
    <3>1. CASE b = a
      <4>1. received[a] \in Seq(Message) /\ queues[a] \in Seq(Message)
        BY <1>1
      <4>2. queues'[a] = <<>> /\ received'[a] = received[a] \o queues[a]
        BY <1>1
      <4>3. (received[a] \o queues[a]) \o <<>> = received[a] \o queues[a]
        BY <4>1
      <4> QED BY <3>1, <4>2, <4>3 DEF Delivered
    <3>2. CASE b # a
      BY <1>1, <3>2 DEF Delivered
    <3> QED BY <3>1, <3>2
  <2> QED BY <1>1, <2>1, Undisturbed
<1> QED BY <1>2, <1>3 DEF AllFaithful

\* Messages are logged; those they are to have them queued, the others do not.
LEMMA MoreStep ==
  ASSUME BusInv, NEW more \in Seq(Message), UNCHANGED <<received, joinedAt>>,
         log' = log \o more, Len(log') <= MaxLog,
         \A i \in DOMAIN more : more[i].id = Len(log) + i,
         queues' \in [BusRegistered -> Seq(Message)],
         \A b \in BusRegistered :
           \/ queues'[b] = queues[b] /\ \A k \in DOMAIN more : more[k].to # b
           \/ \E p \in DOMAIN more : /\ queues'[b] = Append(queues[b], more[p]) /\ more[p].to = b
                                     /\ \A k \in DOMAIN more : more[k].to = b => k = p
  PROVE  BusInv'
<1> USE DEF BusInv, BusTypeOK, BusRegistered
<1>1. Len(log') = Len(log) + Len(more) /\ log' \in Seq(Message)
  OBVIOUS
<1>2. BusTypeOK'
  BY <1>1
<1>3. Numbered'
  <2> SUFFICES ASSUME NEW i \in 1 .. Len(log) + Len(more) PROVE (log \o more)[i].id = i
    BY <1>1 DEF Numbered
  <2>1. CASE i <= Len(log)
    BY <2>1 DEF Numbered
  <2>2. CASE i > Len(log)
    <3>1. i - Len(log) \in DOMAIN more /\ (log \o more)[i] = more[i - Len(log)]
      BY <2>2
    <3>2. more[i - Len(log)].id = Len(log) + (i - Len(log))
      BY <3>1
    <3> QED BY <3>1, <3>2
  <2> QED BY <2>1, <2>2
<1>4. ASSUME NEW b \in BusRegistered' PROVE Faithful(Delivered(b), log, joinedAt[b], b)'
  <2>0. /\ b \in BusRegistered /\ joinedAt[b] \in 0 .. Len(log) /\ joinedAt'[b] = joinedAt[b]
        /\ Faithful(Delivered(b), log, joinedAt[b], b) /\ Delivered(b) \in Seq(Message)
    BY <1>4 DEF AllFaithful, Delivered
  <2>1. CASE queues'[b] = queues[b] /\ \A k \in DOMAIN more : more[k].to # b
    <3>1. Delivered(b)' = Delivered(b)
      BY <2>1 DEF Delivered
    <3> QED BY <2>0, <2>1, <3>1, FaithfulElsewhere
  <2>2. ASSUME NEW p \in DOMAIN more, queues'[b] = Append(queues[b], more[p]), more[p].to = b,
               \A k \in DOMAIN more : more[k].to = b => k = p
        PROVE  Faithful(Delivered(b), log, joinedAt[b], b)'
    <3>1. Delivered(b)' = Append(Delivered(b), more[p])
      <4>1. received[b] \in Seq(Message) /\ queues[b] \in Seq(Message) /\ more[p] \in Message
        BY <2>0, <2>2
      <4>2. received[b] \o Append(queues[b], more[p]) = Append(received[b] \o queues[b], more[p])
        <5> DEFINE r == received[b]  q == queues[b]  m == more[p]
        <5>1. r \in Seq(Message) /\ q \in Seq(Message) /\ m \in Message
          BY <4>1
        <5> HIDE DEF r, q, m
        <5>2. r \o Append(q, m) = Append(r \o q, m)
          BY ONLY <5>1, AppendAfter
        <5> QED BY <5>2 DEF r, q, m
      <4> QED BY <2>2, <4>2 DEF Delivered
    <3>2. \A i \in DOMAIN log : log[i].id = i
      BY DEF Numbered
    <3>3. Faithful(Append(Delivered(b), more[p]), log \o more, joinedAt[b], b)
      BY <2>0, <2>2, <3>2, FaithfulHere
    <3> QED BY <2>0, <3>1, <3>3
  <2> QED BY <2>0, <2>1, <2>2
<1> QED BY <1>2, <1>3, <1>4 DEF AllFaithful

LEMMA SendStep ==
  ASSUME BusInv, NEW a \in BusAgents, NEW b \in BusAgents, Send(a, b)
  PROVE  BusInv'
<1> DEFINE message == [id |-> Len(log) + 1, from |-> a, to |-> b]
           more == <<message>>
<1>1. /\ b \in BusRegistered /\ Len(log) < MaxLog /\ log' = Append(log, message)
      /\ queues' = [queues EXCEPT ![b] = Append(@, message)] /\ UNCHANGED <<received, joinedAt>>
  BY DEF Send
<1>2. message \in Message
  BY <1>1, BusAssumption DEF Message, BusInv, BusTypeOK
<1>3. more \in Seq(Message) /\ DOMAIN more = {1} /\ more[1] = message /\ log' = log \o more
      /\ message.id = Len(log) + 1 /\ message.to = b
  BY <1>1, <1>2 DEF BusInv, BusTypeOK
<1> HIDE DEF message, more
<1>4. Len(log') <= MaxLog
  BY <1>1, <1>2, BusAssumption DEF BusInv, BusTypeOK
<1>5. queues' \in [BusRegistered -> Seq(Message)]
  BY <1>1, <1>2 DEF BusInv, BusTypeOK
<1>6. ASSUME NEW c \in BusRegistered
      PROVE  \/ queues'[c] = queues[c] /\ \A k \in DOMAIN more : more[k].to # c
             \/ \E p \in DOMAIN more : /\ queues'[c] = Append(queues[c], more[p]) /\ more[p].to = c
                                       /\ \A k \in DOMAIN more : more[k].to = c => k = p
  BY <1>1, <1>3 DEF BusInv, BusTypeOK
<1> QED BY <1>1, <1>3, <1>4, <1>5, <1>6, MoreStep

LEMMA BroadcastStep ==
  ASSUME BusInv, NEW a \in BusAgents, Broadcast(a)
  PROVE  BusInv'
<1> DEFINE others == BusRegistered \ {a}
<1>1. PICK order \in SetToSeqs(others) :
        /\ log' = log \o [i \in DOMAIN order |-> [id |-> Len(log) + i, from |-> a, to |-> order[i]]]
        /\ queues' = [b \in BusRegistered |->
             IF b = a THEN queues[b]
             ELSE Append(queues[b], [id |-> Len(log) + (CHOOSE i \in DOMAIN order : order[i] = b),
                                     from |-> a, to |-> order[CHOOSE i \in DOMAIN order : order[i] = b]])]
  BY DEF Broadcast
<1>2. a \in BusRegistered /\ Len(log) + Cardinality(BusRegistered) <= MaxLog + 1
      /\ UNCHANGED <<received, joinedAt>>
  BY DEF Broadcast
<1> DEFINE n == Cardinality(others)
           more == [i \in 1 .. n |-> [id |-> Len(log) + i, from |-> a, to |-> order[i]]]
<1>3. /\ IsFiniteSet(BusRegistered) /\ IsFiniteSet(others) /\ n \in Nat
      /\ Cardinality(BusRegistered) = n + 1
  BY <1>2, BusAssumption, FS_Subset, FS_RemoveElement, FS_CardinalityType
     DEF BusInv, BusTypeOK
<1>4. order \in [1 .. n -> others] /\ \A i, j \in 1 .. n : i # j => order[i] # order[j]
  BY DEF SetToSeqs
<1>5. \A b \in others : \E i \in 1 .. n : order[i] = b
  <2>1. order \in Injection(1 .. n, others)
    BY <1>4 DEF Injection, IsInjective
  <2>2. Cardinality(1 .. n) = n
    BY <1>3, FS_Interval
  <2>3. order \in Surjection(1 .. n, others)
    BY <1>3, <2>1, <2>2, FS_Injection
  <2> QED BY <2>3 DEF Surjection
<1> HIDE DEF n, others
<1>6. others \subseteq BusRegistered /\ a \notin others
  BY DEF others
<1>7. Len(log) \in Nat /\ Len(log) + n <= MaxLog /\ BusRegistered \subseteq BusAgents
  BY <1>2, <1>3, BusAssumption DEF BusInv, BusTypeOK
<1>8. ASSUME NEW i \in 1 .. n PROVE more[i] \in Message
  BY <1>3, <1>4, <1>6, <1>7, BusAssumption DEF Message
<1>9. more \in Seq(Message) /\ DOMAIN more = 1 .. n /\ Len(more) = n
  BY <1>3, <1>8
<1>10. log' = log \o more
  BY <1>1, <1>4
<1>11. \A i \in 1 .. n : more[i].id = Len(log) + i /\ more[i].to = order[i]
  OBVIOUS
<1>12. ASSUME NEW b \in others
       PROVE  \E p \in 1 .. n : queues'[b] = Append(queues[b], more[p]) /\ order[p] = b
  <2> DEFINE p == CHOOSE i \in DOMAIN order : order[i] = b
  <2>1. p \in 1 .. n /\ order[p] = b
    BY <1>4, <1>5
  <2>2. queues'[b] = Append(queues[b], [id |-> Len(log) + p, from |-> a, to |-> order[p]])
    BY <1>1, <1>6
  <2> QED BY <2>1, <2>2
<1>13. queues'[a] = queues[a] /\ DOMAIN queues' = BusRegistered
  BY <1>1, <1>2
<1> HIDE DEF more
<1>14. queues' \in [BusRegistered -> Seq(Message)]
  <2>1. ASSUME NEW b \in BusRegistered PROVE queues'[b] \in Seq(Message)
    <3>1. CASE b = a
      BY <3>1, <1>13 DEF BusInv, BusTypeOK
    <3>2. CASE b \in others
      <4>1. PICK p \in 1 .. n : queues'[b] = Append(queues[b], more[p])
        BY <3>2, <1>12
      <4>2. queues[b] \in Seq(Message) /\ more[p] \in Message
        BY <1>8 DEF BusInv, BusTypeOK
      <4> QED BY <4>1, <4>2
    <3> QED BY <3>1, <3>2 DEF others
  <2> QED BY <1>1, <2>1
<1>15. ASSUME NEW b \in BusRegistered
       PROVE  \/ queues'[b] = queues[b] /\ \A k \in DOMAIN more : more[k].to # b
              \/ \E p \in DOMAIN more : /\ queues'[b] = Append(queues[b], more[p]) /\ more[p].to = b
                                        /\ \A k \in DOMAIN more : more[k].to = b => k = p
  <2>1. CASE b = a
    BY <2>1, <1>4, <1>6, <1>9, <1>11, <1>13
  <2>2. CASE b \in others
    BY <2>2, <1>4, <1>9, <1>11, <1>12
  <2> QED BY <2>1, <2>2 DEF others
<1>16. Len(log') <= MaxLog
  <2>1. log \in Seq(Message)
    BY DEF BusInv, BusTypeOK
  <2>2. Len(log \o more) = Len(log) + Len(more)
    BY <2>1, <1>9
  <2> QED BY <1>7, <1>9, <1>10, <2>2
<1> QED BY <1>2, <1>9, <1>10, <1>11, <1>14, <1>15, <1>16, MoreStep

LEMMA BusInvStep ==
  ASSUME BusInv, [BusNext]_busVars
  PROVE  BusInv'
<1>1. CASE UNCHANGED busVars
  <2>1. UNCHANGED <<queues, log, received, joinedAt>>
    BY <1>1 DEF busVars
  <2>2. BusTypeOK' /\ Numbered'
    BY <2>1 DEF BusInv, BusTypeOK, Numbered, BusRegistered
  <2>3. ASSUME NEW b \in BusRegistered' PROVE Faithful(Delivered(b), log, joinedAt[b], b)'
    BY <2>1, Undisturbed DEF BusInv, Delivered, BusRegistered
  <2> QED BY <2>2, <2>3 DEF BusInv, AllFaithful
<1> QED BY <1>1, RegisterStep, UnregisterStep, CollectStep, BroadcastStep, SendStep DEF BusNext

-----------------------------------------------------------------------------
(* Runs of agents                                                          *)

LEMMA RunTypeOKInit == RunInit => RunTypeOK
<1> SUFFICES ASSUME RunInit PROVE RunTypeOK
  OBVIOUS
<1>1. NoAnswer \in Answers
  BY DEF NoAnswer, Answers
<1>2. CreateFailReport \in Reports
  BY DEF CreateFailReport, Reports, Verdicts, TaskStatuses
<1> QED BY <1>1, <1>2 DEF RunInit, RunTypeOK

\* Whatever an answer is, it is read as a report.
LEMMA ReportsAreReports ==
  ASSUME NEW answer \in Answers
  PROVE  ParseReviewReport(answer) \in Reports
<1>1. answer.verdict \in Verdicts
  BY DEF Answers, Verdicts
<1>2. Salvaged(answer) \in [Tasks -> TaskStatuses \cup {"absent"}]
  BY DEF Salvaged, TaskStatuses
<1>3. CreateFailReport \in Reports
  BY DEF CreateFailReport, Reports, Verdicts, TaskStatuses
<1>4. CASE answer.form = "valid"
  <2>1. answer.said \in [Tasks -> TaskStatuses \cup {"unsaid"}]
    BY <1>4 DEF Answers
  <2> QED BY <1>1, <1>4, <2>1 DEF ParseReviewReport, Reports
<1>5. CASE answer.form \in {"partial", "text"}
  BY <1>1, <1>2, <1>5 DEF ParseReviewReport, Reports
<1>6. CASE answer.form \notin {"valid", "partial", "text"}
  BY <1>3, <1>6 DEF ParseReviewReport
<1> QED BY <1>4, <1>5, <1>6

\* Nothing passes in a report that did not in the answer.
LEMMA ReportsFailSafe ==
  ASSUME NEW answer \in Answers
  PROVE  /\ ParseReviewReport(answer).verdict = "PASS" =>
              answer.verdict = "PASS" /\ answer.form \in {"valid", "partial", "text"}
         /\ \A t \in Tasks : ParseReviewReport(answer).tasks[t] = "pass" => answer.said[t] = "pass"
<1>1. CASE answer.form = "valid"
  BY <1>1 DEF ParseReviewReport
<1>2. CASE answer.form \in {"partial", "text"}
  BY <1>2 DEF ParseReviewReport, Salvaged
<1>3. CASE answer.form \notin {"valid", "partial", "text"}
  BY <1>3 DEF ParseReviewReport, CreateFailReport
<1> QED BY <1>1, <1>2, <1>3

\* What a run is at, and what it has left behind.  A worker with an outcome has ended.
RunsInv ==
  /\ RunTypeOK /\ ReviewFailsSafe /\ RunsAreClosed
  /\ \A a \in RunAgents : runAt[a] \in {"none", "starting", "looping"} => looped[a] = "none"
  /\ \A a \in RunAgents : runAt[a] # "ended" => returned[a] = "none" /\ <<a, "completed">> \notin ran
  /\ \A a \in RunAgents : looped[a] = "threw" => runAt[a] \in {"looped", "ended"}
  /\ \A a \in RunAgents : runAt[a] = "looped" => looped[a] # "none"

LEMMA RunsInvInit ==
  ASSUME RunInit
  PROVE  RunsInv
BY RunTypeOKInit DEF RunInit, RunsInv, ReviewFailsSafe, RunsAreClosed, RunAgents, LoopResults

LEMMA RunTypeOKStep ==
  ASSUME RunTypeOK, [RunNext]_runsVars
  PROVE  RunTypeOK'
<1> USE DEF RunTypeOK, RunAgents
<1>1. CASE UNCHANGED runsVars
  BY <1>1 DEF runsVars
<1>2. ASSUME NEW a \in RunAgents, Starts(a) PROVE RunTypeOK'
  BY <1>2 DEF Starts, At
<1>3. ASSUME NEW a \in RunAgents, Logged(a) PROVE RunTypeOK'
  BY <1>3 DEF Logged, At
<1>4. ASSUME NEW a \in RunAgents, Captures(a) PROVE RunTypeOK'
  BY <1>4 DEF Captures
<1>5. ASSUME NEW a \in RunAgents, Loops(a) PROVE RunTypeOK'
  <2>1. NoAnswer \in Answers
    BY DEF NoAnswer, Answers
  <2>2. answers' \in [Loomexes -> Answers]
    BY <1>5, <2>1 DEF Loops
  <2>3. looped' \in [RunAgents -> LoopResults \cup {"none", "threw"}]
    BY <1>5 DEF Loops
  <2>4. charged' \subseteq RunAgents
    BY <1>5 DEF Loops
  <2> QED BY <1>5, <2>2, <2>3, <2>4 DEF Loops, At
<1>6. ASSUME NEW a \in RunAgents, LoomaEnds(a) PROVE RunTypeOK'
  <2>1. (IF looped[a] = "threw" THEN "failed" ELSE looped[a]) \in LoopResults \cup {"none", "threw", "report"}
    BY DEF LoopResults
  <2>2. returned' \in [RunAgents -> LoopResults \cup {"none", "threw", "report"}]
    BY <1>6, <2>1 DEF LoomaEnds, Gives
  <2> QED BY <1>6, <2>2 DEF LoomaEnds, At, Unregisters
<1>7. ASSUME NEW a \in RunAgents, LoomexEnds(a) PROVE RunTypeOK'
  <2>1. CreateFailReport \in Reports
    BY DEF CreateFailReport, Reports, Verdicts, TaskStatuses
  <2>2. a \in Loomexes /\ ParseReviewReport(answers[a]) \in Reports
    BY <1>7, ReportsAreReports DEF LoomexEnds
  <2>3. reports' \in [Loomexes -> Reports]
    BY <1>7, <2>1, <2>2 DEF LoomexEnds
  <2> QED BY <1>7, <2>3 DEF LoomexEnds, At, Gives
<1>8. ASSUME NEW a \in RunAgents, LogRejects(a) PROVE RunTypeOK'
  <2>1. CreateFailReport \in Reports
    BY DEF CreateFailReport, Reports, Verdicts, TaskStatuses
  <2> QED BY <1>8, <2>1 DEF LogRejects, At, Gives, Unregisters
<1> QED BY <1>1, <1>2, <1>3, <1>4, <1>5, <1>6, <1>7, <1>8 DEF RunNext

LEMMA RunsInvStep ==
  ASSUME RunsInv, [RunNext]_runsVars
  PROVE  RunsInv'
<1>0. RunTypeOK'
  BY RunTypeOKStep DEF RunsInv
<1> USE <1>0, RunAgentsAssumption DEF RunsInv, RunAgents, RunTypeOK
<1>1. CASE UNCHANGED runsVars
  BY <1>1 DEF runsVars, ReviewFailsSafe, RunsAreClosed
<1>2. ASSUME NEW a \in RunAgents, Starts(a) PROVE RunsInv'
  BY <1>2 DEF Starts, At, ReviewFailsSafe, RunsAreClosed
<1>3. ASSUME NEW a \in RunAgents, Logged(a) PROVE RunsInv'
  BY <1>3 DEF Logged, At, ReviewFailsSafe, RunsAreClosed
<1>4. ASSUME NEW a \in RunAgents, Captures(a) PROVE RunsInv'
  BY <1>4 DEF Captures, ReviewFailsSafe, RunsAreClosed
<1>5. ASSUME NEW a \in RunAgents, Loops(a) PROVE RunsInv'
  BY <1>5 DEF Loops, At, ReviewFailsSafe, RunsAreClosed, LoopResults
<1>6. ASSUME NEW a \in RunAgents, LoomaEnds(a) PROVE RunsInv'
  BY <1>6 DEF LoomaEnds, At, Gives, Unregisters, ReviewFailsSafe, RunsAreClosed
<1>7. ASSUME NEW a \in RunAgents, LoomexEnds(a) PROVE RunsInv'
  <2> DEFINE parsed == IF looped[a] = "threw" THEN CreateFailReport ELSE ParseReviewReport(answers[a])
  <2>1. /\ a \in Loomexes /\ runAt[a] = "looped" /\ looped[a] \in LoopResults \cup {"threw"}
        /\ answers[a] \in Answers /\ reports' = [reports EXCEPT ![a] = parsed]
        /\ UNCHANGED <<looped, answers, onBus, charged, captured>>
        /\ runAt' = [runAt EXCEPT ![a] = "ended"] /\ ran' = ran \cup {<<a, "verdict">>}
        /\ returned' = [returned EXCEPT ![a] = "report"]
    BY <1>7 DEF LoomexEnds, At, Gives
  <2>2. /\ parsed.verdict = "PASS" => looped[a] \in LoopResults /\ answers[a].verdict = "PASS"
                                      /\ answers[a].form \in {"valid", "partial", "text"}
        /\ \A t \in Tasks : parsed.tasks[t] = "pass" => answers[a].said[t] = "pass"
    BY <2>1, ReportsFailSafe DEF CreateFailReport
  <2> HIDE DEF parsed
  <2>3. ReviewFailsSafe'
    BY <2>1, <2>2 DEF ReviewFailsSafe
  <2>4. RunsAreClosed'
    BY <2>1 DEF RunsAreClosed
  <2> QED BY <2>1, <2>3, <2>4
<1>8. ASSUME NEW a \in RunAgents, LogRejects(a) PROVE RunsInv'
  <2>1. /\ runAt[a] \in {"starting", "looped"} /\ runAt' = [runAt EXCEPT ![a] = "ended"]
        /\ returned' = [returned EXCEPT ![a] = IF a \in Loomas THEN "threw" ELSE "report"]
        /\ onBus' = onBus \ {a}
        /\ reports' = IF a \in Loomexes THEN [reports EXCEPT ![a] = CreateFailReport] ELSE reports
        /\ UNCHANGED <<looped, answers, ran, charged, captured>>
    BY <1>8 DEF LogRejects, At, Gives, Unregisters
  <2>2. ReviewFailsSafe'
    BY <2>1 DEF ReviewFailsSafe, CreateFailReport
  <2>3. RunsAreClosed'
    BY <2>1 DEF RunsAreClosed
  <2> QED BY <2>1, <2>2, <2>3
<1> QED BY <1>1, <1>2, <1>3, <1>4, <1>5, <1>6, <1>7, <1>8 DEF RunNext

\* However a run of an agent ends: a review passes only what its answer passed, nobody stays on the
\* bus, and every loop that used the model is paid for (looma.ts, loomex.ts).
THEOREM RunsAreClosedHolds == RunSpec => [](ReviewFailsSafe /\ RunsAreClosed)
<1>1. RunsInv => ReviewFailsSafe /\ RunsAreClosed
  BY DEF RunsInv
<1> QED BY <1>1, RunsInvInit, RunsInvStep, PTL DEF RunSpec

-----------------------------------------------------------------------------
(* Escalations                                                             *)

\* An escalation whose change was decided and not made, although there was one to make.
EscRefused(e) == e \notin applied /\ decided[e].action # "no_action"

\* What an escalation has left by where it is: nothing until its change is made or refused; the
\* manager's traces follow changes that were made, or nothing to change; the LoomAgent's
\* refusals are in PROGRESS.md before they are traced.
EscInv ==
  /\ EscTypeOK
  /\ \A e \in EscIds :
       /\ escAt[e] \in {"none", "deciding", "applying"} =>
            e \notin applied /\ e \notin notes /\ <<e, "applied">> \notin traced
       /\ escAt[e] \in {"tracing", "noting"} =>
            /\ handler[e] = "manager" => ~EscRefused(e)
            /\ handler[e] = "loom" /\ EscRefused(e) => e \in progressed \cup untraced
       /\ escAt[e] = "noting" => <<e, "applied">> \in traced \/ e \in untraced
  /\ ChangesAreTraced

LEMMA SilenceTypes == Silence \in [action : Actions, node : EscNodes \cup NewNodes \cup {NoTarget}]
BY DEF Silence, Actions

LEMMA EscInvInit == (handler \in [EscIds -> Handlers] /\ subject \in [EscIds -> EscNodes] /\ EscStarts) => EscInv
BY SilenceTypes DEF EscStarts, EscInv, EscTypeOK, ChangesAreTraced

\* Whoever handles it, an answer becomes a change of a kind there is.
LEMMA AnswersParse ==
  ASSUME EscTypeOK, NEW e \in EscIds, NEW raw \in RawAnswers
  PROVE  Parsed(e, raw) \in [action : Actions, node : EscNodes \cup NewNodes \cup {NoTarget}]
<1>1. subject[e] \in EscNodes /\ Fallback(e) \in EscNodes \cup {NoTarget}
  BY DEF EscTypeOK, Fallback
<1>2. raw.action \in Actions \cup {"?"} /\ raw.node \in EscNodes \cup NewNodes \cup {NoTarget}
  BY DEF RawAnswers, Named, Actions
<1>3. raw.action # "?" => raw \in [action : Actions, node : EscNodes \cup NewNodes \cup {NoTarget}]
  BY <1>2 DEF RawAnswers, Named, Actions
<1>4. ParsedByManager(e, raw) \in [action : Actions, node : EscNodes \cup NewNodes \cup {NoTarget}]
  BY <1>1, <1>3 DEF ParsedByManager, Actions
<1>5. ParsedByLoom(e, raw) \in [action : Actions, node : EscNodes \cup NewNodes \cup {NoTarget}]
  BY <1>1, <1>2 DEF ParsedByLoom, Actions
<1> QED BY <1>4, <1>5 DEF Parsed

LEMMA EscTypeOKStep ==
  ASSUME EscTypeOK, [EscNext]_escVars
  PROVE  EscTypeOK'
<1> USE DEF EscTypeOK, askedVars, changeVars, traceVars
<1>1. CASE UNCHANGED escVars
  BY <1>1 DEF escVars
<1>2. ASSUME NEW e \in EscIds, Escalates(e) PROVE EscTypeOK'
  BY <1>2 DEF Escalates, To
<1>3. ASSUME NEW e \in EscIds, Decides(e) PROVE EscTypeOK'
  <2>1. PICK raw \in RawAnswers : decided' = [decided EXCEPT ![e] = Parsed(e, raw)]
    BY <1>3 DEF Decides
  <2>2. decided' \in [EscIds -> [action : Actions, node : EscNodes \cup NewNodes \cup {NoTarget}]]
    BY <2>1, AnswersParse
  <2> QED BY <1>3, <2>2 DEF Decides, To
<1>4. ASSUME NEW e \in EscIds, ProviderFails(e) PROVE EscTypeOK'
  BY <1>4 DEF ProviderFails, To, Actions
<1>5. ASSUME NEW e \in EscIds, Applies(e) PROVE EscTypeOK'
  <2>1. decided' \in [EscIds -> [action : Actions, node : EscNodes \cup NewNodes \cup {NoTarget}]]
    BY <1>5 DEF Applies
  <2>2. plan' \subseteq EscNodes \cup NewNodes /\ skippedOver' \subseteq plan'
    BY <1>5 DEF Applies, Modifies
  <2> QED BY <1>5, <2>1, <2>2 DEF Applies, To
<1>6. ASSUME NEW e \in EscIds, AppliesNothing(e) PROVE EscTypeOK'
  BY <1>6 DEF AppliesNothing, To
<1>7. ASSUME NEW e \in EscIds, ModifierRejects(e) PROVE EscTypeOK'
  <2>1. decided' \in [EscIds -> [action : Actions, node : EscNodes \cup NewNodes \cup {NoTarget}]]
    BY <1>7 DEF ModifierRejects
  <2>2. traced' \subseteq EscIds \X {"applied", "error"} /\ {progressed', untraced'} \subseteq SUBSET EscIds
    BY <1>7 DEF ModifierRejects, Written
  <2> QED BY <1>7, <2>1, <2>2 DEF ModifierRejects, To, AfterRejection
<1>8. ASSUME NEW e \in EscIds, Traces(e) PROVE EscTypeOK'
  BY <1>8 DEF Traces, Written, To
<1>9. ASSUME NEW e \in EscIds, Notes(e) PROVE EscTypeOK'
  BY <1>9 DEF Notes, To
<1> QED BY <1>1, <1>2, <1>3, <1>4, <1>5, <1>6, <1>7, <1>8, <1>9 DEF EscNext

LEMMA EscInvStep ==
  ASSUME EscInv, [EscNext]_escVars
  PROVE  EscInv'
<1>0. EscTypeOK /\ EscTypeOK'
  BY EscTypeOKStep DEF EscInv
<1> USE <1>0 DEF EscInv, askedVars, changeVars, traceVars, ChangesAreTraced, EscRefused
<1>1. CASE UNCHANGED escVars
  BY <1>1 DEF escVars
<1>2. ASSUME NEW e \in EscIds, Escalates(e) PROVE EscInv'
  BY <1>2 DEF Escalates, To, EscTypeOK
<1>3. ASSUME NEW e \in EscIds, Decides(e) PROVE EscInv'
  BY <1>3 DEF Decides, To, EscTypeOK
<1>4. ASSUME NEW e \in EscIds, ProviderFails(e) PROVE EscInv'
  BY <1>4 DEF ProviderFails, To, EscTypeOK
<1>5. ASSUME NEW e \in EscIds, Applies(e) PROVE EscInv'
  BY <1>5 DEF Applies, To, EscTypeOK
<1>6. ASSUME NEW e \in EscIds, AppliesNothing(e) PROVE EscInv'
  BY <1>6 DEF AppliesNothing, To, EscTypeOK
<1>7. ASSUME NEW e \in EscIds, ModifierRejects(e) PROVE EscInv'
  BY <1>7 DEF ModifierRejects, To, EscTypeOK, AfterRejection, Written
<1>8. ASSUME NEW e \in EscIds, Traces(e) PROVE EscInv'
  BY <1>8 DEF Traces, Written, To, EscTypeOK
<1>9. ASSUME NEW e \in EscIds, Notes(e) PROVE EscInv'
  BY <1>9 DEF Notes, To, EscTypeOK
<1> QED BY <1>1, <1>2, <1>3, <1>4, <1>5, <1>6, <1>7, <1>8, <1>9 DEF EscNext

\* Whoever handles an escalation, and whatever escalates beside it: a change that was made is in the
\* log and one that could not be made is an error there (escalation.ts, loom.ts, escalate.ts).
THEOREM ChangesAreTracedHolds == EscSpec => []ChangesAreTraced
<1>1. EscInv => ChangesAreTraced
  BY DEF EscInv
<1> QED BY <1>1, EscInvInit, EscInvStep, PTL DEF EscSpec, EscInit

-----------------------------------------------------------------------------
(* Timers                                                                  *)

\* A timer belongs to the entry of its node, and fires when the entry is due unless that is too
\* far away; the bucket holds what was refilled and not used, and will hold a call when it said so.
TimerInv ==
  /\ TimerTypeOK
  /\ bucket.at <= now
  /\ cut \subseteq tooLong
  /\ \A t \in timers : /\ entries[t[1]] = t[2] /\ t[2].resumeAt > 0
                       /\ t[2].resumeAt <= t[2].firesAt \/ t[1] \in tooLong
  /\ \A n \in launched : resumeAt[n] = None
  /\ bucket.units + granted * CallUnits <= BucketSize * CallUnits + bucket.at * Refill
  /\ retryAt # NoRetry =>
       retryAt >= bucket.at /\ bucket.units + (retryAt - bucket.at) * Refill >= CallUnits

LEMMA TimerInvInit == TimerInit => TimerInv
<1> SUFFICES ASSUME TimerInit PROVE TimerInv
  OBVIOUS
<1>1. BucketSize * CallUnits \in Nat /\ 0 * CallUnits = 0 /\ 0 * Refill = 0
  BY TimersAssumption
<1>2. BucketSize * CallUnits \in 0 .. BucketSize * CallUnits /\ 0 \in 0 .. MaxClock
  BY <1>1, TimersAssumption
<1> HIDE DEF None
<1>3. None \in Int
  BY DEF None
<1>4. NoEntry \in Entries
  BY DEF NoEntry, Entries
<1>5. TimerTypeOK
  BY <1>2, <1>3, <1>4, TimersAssumption DEF TimerInit, TimerTypeOK, NoRetry
<1> QED BY <1>1, <1>5 DEF TimerInit, TimerInv, NoRetry

-----------------------------------------------------------------------------
(* The Scheduler                                                           *)

LEMMA LaunchKeeps ==
  ASSUME TimerInv, NEW n \in TimedNodes, NEW due \in Int, Launch(n, due)
  PROVE  /\ launched' \subseteq TimedNodes /\ cut' \subseteq TimedNodes
         /\ resumeAt' \in [TimedNodes -> Int]
         /\ \A m \in launched' : resumeAt'[m] = None
         /\ (now >= due \/ n \in tooLong) => cut' \subseteq tooLong
BY DEF TimerInv, TimerTypeOK, Launch, None

LEMMA ArmsKeeps ==
  ASSUME TimerInv, NEW n \in TimedNodes, NEW due \in Nat, due > now, entries[n] = NoEntry, Arms(n, due)
  PROVE  /\ entries' \in [TimedNodes -> Entries] /\ timers' \subseteq TimedNodes \X Entries
         /\ tooLong' \subseteq TimedNodes /\ tooLong \subseteq tooLong' /\ UNCHANGED <<launched, cut>>
         /\ \A t \in timers' : /\ entries'[t[1]] = t[2] /\ t[2].resumeAt > 0
                               /\ t[2].resumeAt <= t[2].firesAt \/ t[1] \in tooLong'
<1> DEFINE late == due - now > MaxTimeout
           entry == [resumeAt |-> due, firesAt |-> IF late THEN now ELSE due]
<1>1. /\ entries' = [entries EXCEPT ![n] = entry] /\ timers' = timers \cup {<<n, entry>>}
      /\ tooLong' = IF late THEN tooLong \cup {n} ELSE tooLong
      /\ UNCHANGED <<launched, cut>>
  BY DEF Arms
<1>2. now \in Nat /\ MaxTimeout \in Nat
  BY TimersAssumption DEF TimerInv, TimerTypeOK
<1>3. entry \in Entries /\ entry.resumeAt > 0 /\ (entry.resumeAt <= entry.firesAt \/ late)
  BY <1>2 DEF Entries
<1>4. \A t \in timers : t[1] # n
  <2> SUFFICES ASSUME NEW t \in timers, t[1] = n PROVE FALSE
    OBVIOUS
  <2>1. t[2] = NoEntry /\ t[2].resumeAt > 0
    BY DEF TimerInv
  <2> QED BY <2>1 DEF NoEntry
<1> HIDE DEF entry, late
<1>5. \A t \in timers : t[1] \in TimedNodes /\ t = <<t[1], t[2]>>
  BY DEF TimerInv, TimerTypeOK
<1> QED BY <1>1, <1>3, <1>4, <1>5 DEF TimerInv, TimerTypeOK

\* What the scheduler does leaves the limiter alone.
LEMMA SchedulerStep ==
  ASSUME TimerInv, UNCHANGED <<now, bucketVars>>,
         entries' \in [TimedNodes -> Entries], timers' \subseteq TimedNodes \X Entries,
         tooLong' \subseteq TimedNodes, launched' \subseteq TimedNodes, cut' \subseteq tooLong',
         resumeAt' \in [TimedNodes -> Int],
         \A m \in launched' : resumeAt'[m] = None,
         \A t \in timers' : /\ entries'[t[1]] = t[2] /\ t[2].resumeAt > 0
                            /\ t[2].resumeAt <= t[2].firesAt \/ t[1] \in tooLong'
  PROVE  TimerInv'
<1>1. UNCHANGED <<now, bucket, retryAt, granted>>
  BY DEF bucketVars
<1>2. TimerTypeOK'
  BY <1>1 DEF TimerInv, TimerTypeOK
<1> QED BY <1>1, <1>2 DEF TimerInv

LEMMA ScheduleNodeStep ==
  ASSUME TimerInv, NEW n \in TimedNodes, ScheduleNode(n)
  PROVE  TimerInv'
<1>1. PICK delay \in Delays :
        IF delay = 0 THEN Launch(n, now) /\ UNCHANGED <<entries, timers, tooLong>>
        ELSE Arms(n, now + delay) /\ resumeAt' = [resumeAt EXCEPT ![n] = now + delay]
  BY DEF ScheduleNode
<1>2. entries[n] = NoEntry /\ n \notin launched /\ UNCHANGED <<now, bucketVars>>
  BY DEF ScheduleNode
<1>3. delay \in Nat /\ now \in Nat
  BY TimersAssumption DEF TimerInv, TimerTypeOK
<1>4. CASE delay = 0
  <2>1. Launch(n, now) /\ UNCHANGED <<entries, timers, tooLong>>
    BY <1>1, <1>4
  <2>2. /\ launched' \subseteq TimedNodes /\ resumeAt' \in [TimedNodes -> Int]
        /\ (\A m \in launched' : resumeAt'[m] = None) /\ cut' \subseteq tooLong
    BY <2>1, <1>3, LaunchKeeps
  <2> QED BY <1>2, <2>1, <2>2, SchedulerStep DEF TimerInv, TimerTypeOK
<1>5. CASE delay # 0
  <2>1. Arms(n, now + delay) /\ resumeAt' = [resumeAt EXCEPT ![n] = now + delay]
    BY <1>1, <1>5
  <2>2. now + delay \in Nat /\ now + delay > now
    BY <1>3, <1>5
  <2>3. /\ entries' \in [TimedNodes -> Entries] /\ timers' \subseteq TimedNodes \X Entries
        /\ tooLong' \subseteq TimedNodes /\ tooLong \subseteq tooLong' /\ UNCHANGED <<launched, cut>>
        /\ \A t \in timers' : /\ entries'[t[1]] = t[2] /\ t[2].resumeAt > 0
                              /\ t[2].resumeAt <= t[2].firesAt \/ t[1] \in tooLong'
    BY <1>2, <2>1, <2>2, ArmsKeeps
  <2>4. resumeAt' \in [TimedNodes -> Int] /\ \A m \in launched' : resumeAt'[m] = None
    BY <1>2, <2>1, <2>2, <2>3 DEF TimerInv, TimerTypeOK
  <2> QED BY <1>2, <2>3, <2>4, SchedulerStep DEF TimerInv, TimerTypeOK
<1> QED BY <1>4, <1>5

LEMMA RescheduleStep ==
  ASSUME TimerInv, NEW n \in TimedNodes, RescheduleFromPersistence(n)
  PROVE  TimerInv'
<1>2. /\ entries[n] = NoEntry /\ resumeAt[n] # None /\ UNCHANGED <<now, bucketVars>>
      /\ IF resumeAt[n] - now <= 0 THEN Launch(n, resumeAt[n]) /\ UNCHANGED <<entries, timers, tooLong>>
         ELSE Arms(n, resumeAt[n]) /\ UNCHANGED resumeAt
  BY DEF RescheduleFromPersistence
<1>3. resumeAt[n] \in Int /\ now \in Nat
  BY TimersAssumption DEF TimerInv, TimerTypeOK
<1>4. CASE resumeAt[n] - now <= 0
  <2>1. Launch(n, resumeAt[n]) /\ UNCHANGED <<entries, timers, tooLong>>
    BY <1>2, <1>4
  <2>2. /\ launched' \subseteq TimedNodes /\ resumeAt' \in [TimedNodes -> Int]
        /\ (\A m \in launched' : resumeAt'[m] = None) /\ cut' \subseteq tooLong
    BY <2>1, <1>3, <1>4, LaunchKeeps
  <2> QED BY <1>2, <2>1, <2>2, SchedulerStep DEF TimerInv, TimerTypeOK
<1>5. CASE resumeAt[n] - now > 0
  <2>1. Arms(n, resumeAt[n]) /\ UNCHANGED resumeAt
    BY <1>2, <1>3, <1>5
  <2>2. resumeAt[n] \in Nat /\ resumeAt[n] > now
    BY <1>3, <1>5
  <2>3. /\ entries' \in [TimedNodes -> Entries] /\ timers' \subseteq TimedNodes \X Entries
        /\ tooLong' \subseteq TimedNodes /\ tooLong \subseteq tooLong' /\ UNCHANGED <<launched, cut>>
        /\ \A t \in timers' : /\ entries'[t[1]] = t[2] /\ t[2].resumeAt > 0
                              /\ t[2].resumeAt <= t[2].firesAt \/ t[1] \in tooLong'
    BY <1>2, <2>1, <2>2, ArmsKeeps
  <2> QED BY <1>2, <2>1, <2>3, SchedulerStep DEF TimerInv, TimerTypeOK
<1> QED BY <1>3, <1>4, <1>5

LEMMA FiresStep ==
  ASSUME TimerInv, NEW t \in timers, Fires(t[1], t[2])
  PROVE  TimerInv'
<1> DEFINE n == t[1]  entry == t[2]
<1>1. /\ n \in TimedNodes /\ entry \in Entries /\ t = <<n, entry>> /\ entries[n] = entry
      /\ entry.resumeAt <= entry.firesAt \/ n \in tooLong
  BY DEF TimerInv, TimerTypeOK
<1>2. /\ now >= entry.firesAt /\ timers' = timers \ {<<n, entry>>}
      /\ entries' = [entries EXCEPT ![n] = NoEntry]
      /\ Launch(n, entry.resumeAt) /\ UNCHANGED <<now, tooLong, bucketVars>>
  BY DEF Fires
<1> HIDE DEF n, entry
<1>3. entry.resumeAt \in Nat /\ entry.firesAt \in Nat /\ now \in Nat
  BY <1>1, TimersAssumption DEF Entries, TimerInv, TimerTypeOK
<1>4. now >= entry.resumeAt \/ n \in tooLong
  BY <1>1, <1>2, <1>3
<1>5. /\ launched' \subseteq TimedNodes /\ resumeAt' \in [TimedNodes -> Int]
      /\ (\A m \in launched' : resumeAt'[m] = None) /\ cut' \subseteq tooLong
  BY <1>1, <1>2, <1>3, <1>4, LaunchKeeps
<1>6. NoEntry \in Entries
  BY DEF NoEntry, Entries
<1>7. entries' \in [TimedNodes -> Entries] /\ timers' \subseteq TimedNodes \X Entries
  BY <1>1, <1>2, <1>6 DEF TimerInv, TimerTypeOK
<1>8. \A u \in timers' : u[1] # n
  <2> SUFFICES ASSUME NEW u \in timers', u[1] = n PROVE FALSE
    OBVIOUS
  <2>1. u \in timers /\ u # <<n, entry>> /\ u = <<u[1], u[2]>> /\ entries[u[1]] = u[2]
    BY <1>2 DEF TimerInv, TimerTypeOK
  <2> QED BY <1>1, <2>1
<1>9. \A u \in timers' : /\ entries'[u[1]] = u[2] /\ u[2].resumeAt > 0
                         /\ u[2].resumeAt <= u[2].firesAt \/ u[1] \in tooLong
  BY <1>2, <1>8 DEF TimerInv, TimerTypeOK
<1> QED BY <1>2, <1>5, <1>7, <1>9, SchedulerStep DEF TimerInv, TimerTypeOK

LEMMA CancelStep ==
  ASSUME TimerInv, NEW n \in TimedNodes, CancelNode(n)
  PROVE  TimerInv'
<1>1. /\ timers' = timers \ {<<n, entries[n]>>} /\ entries' = [entries EXCEPT ![n] = NoEntry]
      /\ resumeAt' = [resumeAt EXCEPT ![n] = None]
      /\ UNCHANGED <<now, launched, cut, tooLong, bucketVars>>
  BY DEF CancelNode
<1>2. NoEntry \in Entries /\ None \in Int
  BY DEF NoEntry, Entries, None
<1>3. \A u \in timers' : u \in timers /\ u[1] # n
  BY <1>1 DEF TimerInv, TimerTypeOK
<1>4. \A u \in timers' : /\ entries'[u[1]] = u[2] /\ u[2].resumeAt > 0
                         /\ u[2].resumeAt <= u[2].firesAt \/ u[1] \in tooLong
  BY <1>1, <1>3 DEF TimerInv, TimerTypeOK
<1>5. /\ entries' \in [TimedNodes -> Entries] /\ timers' \subseteq TimedNodes \X Entries
      /\ resumeAt' \in [TimedNodes -> Int] /\ \A m \in launched' : resumeAt'[m] = None
  BY <1>1, <1>2 DEF TimerInv, TimerTypeOK
<1> QED BY <1>1, <1>4, <1>5, SchedulerStep DEF TimerInv, TimerTypeOK

LEMMA CancelAllStep ==
  ASSUME TimerInv, CancelAll
  PROVE  TimerInv'
<1>1. /\ timers' = WithoutCancelled /\ entries' = [n \in TimedNodes |-> NoEntry]
      /\ UNCHANGED <<now, resumeAt, launched, cut, tooLong, bucketVars>>
  BY DEF CancelAll
<1>2. timers' = {}
  BY <1>1 DEF WithoutCancelled, TimerInv
<1>3. NoEntry \in Entries
  BY DEF NoEntry, Entries
<1> QED BY <1>1, <1>2, <1>3, SchedulerStep DEF TimerInv, TimerTypeOK

-----------------------------------------------------------------------------
(* The RateLimiter                                                         *)

LEMMA Products ==
  ASSUME NEW a \in Nat, NEW b \in Nat, NEW c \in Nat \ {0}
  PROVE  /\ a * c \in Nat /\ a <= a * c
         /\ (a + b) * c = a * c + b * c
         /\ a <= b => a * c <= b * c
OBVIOUS

\* The ticks asked for bring what is missing.
LEMMA UntilIsEnough ==
  ASSUME NEW units \in Nat, units < CallUnits
  PROVE  Until(units) \in Nat /\ units + Until(units) * Refill >= CallUnits /\ Until(units) > 0
<1> DEFINE missing == CallUnits - units + Refill - 1
           q == missing \div Refill
<1>1. missing \in Nat /\ missing >= Refill /\ Refill \in Nat \ {0} /\ CallUnits \in Nat
  BY TimersAssumption
<1> HIDE DEF missing
<1>2. q \in Nat /\ missing < q * Refill + Refill /\ q > 0
  BY <1>1
<1> HIDE DEF q
<1>3. q * Refill \in Nat
  BY <1>1, <1>2
<1>4. units + q * Refill >= CallUnits
  BY <1>1, <1>2, <1>3 DEF missing
<1> QED BY <1>2, <1>4 DEF Until, q, missing

LEMMA AcquireStep ==
  ASSUME TimerInv, AcquireOrReject
  PROVE  TimerInv'
<1> DEFINE units == bucket.units
           gained == (now - bucket.at) * Refill
           full == BucketSize * CallUnits
<1>1. /\ units \in 0 .. full /\ full \in Nat /\ full >= CallUnits /\ now \in Nat /\ bucket.at \in Nat
      /\ bucket.at <= now /\ now \in 0 .. MaxClock /\ granted \in Nat
      /\ CallUnits \in Nat \ {0} /\ Refill \in Nat \ {0}
  <2>1. full \in Nat /\ CallUnits <= full
    BY TimersAssumption
  <2> HIDE DEF full
  <2> QED BY <2>1, TimersAssumption DEF TimerInv, TimerTypeOK, full
<1>2. gained \in Nat /\ bucket.at * Refill + gained = now * Refill
      /\ bucket.at * Refill \in Nat /\ now * Refill \in Nat
  <2>1. now - bucket.at \in Nat /\ bucket.at + (now - bucket.at) = now
    BY <1>1
  <2> DEFINE d == now - bucket.at
  <2> HIDE DEF d
  <2>2. d \in Nat /\ bucket.at + d = now
    BY <2>1 DEF d
  <2>3. d * Refill \in Nat /\ bucket.at * Refill \in Nat
        /\ (bucket.at + d) * Refill = bucket.at * Refill + d * Refill
    BY <1>1, <2>2, Products
  <2> QED BY <1>1, <2>2, <2>3 DEF d
<1>3. /\ Refilled = (IF units + gained > full THEN full ELSE units + gained)
  BY DEF Refilled
<1>4. units + granted * CallUnits <= full + bucket.at * Refill /\ granted * CallUnits \in Nat
  BY <1>1, Products DEF TimerInv
<1> HIDE DEF gained, full
<1>5. Refilled \in 0 .. full /\ Refilled <= units + gained
  BY <1>1, <1>2, <1>3
<1>6. Refilled + granted * CallUnits <= full + now * Refill
  BY <1>1, <1>2, <1>4, <1>5
<1>7. UNCHANGED <<now, entries, timers, resumeAt, launched, cut, tooLong>>
  BY DEF AcquireOrReject, nodeTimerVars
<1>8. CASE Refilled >= CallUnits
  <2>1. bucket' = [units |-> Refilled - CallUnits, at |-> now] /\ granted' = granted + 1 /\ retryAt' = NoRetry
    BY <1>8 DEF AcquireOrReject
  <2>2. (granted + 1) * CallUnits = granted * CallUnits + CallUnits
    <3>1. (granted + 1) * CallUnits = granted * CallUnits + 1 * CallUnits
      BY <1>1, Products
    <3> QED BY <1>1, <3>1
  <2>3. bucket'.units + granted' * CallUnits <= full + bucket'.at * Refill
    BY <1>1, <1>2, <1>4, <1>5, <1>6, <2>1, <2>2
  <2>4. TimerTypeOK'
    BY <1>1, <1>5, <1>7, <1>8, <2>1 DEF TimerInv, TimerTypeOK, NoRetry, full
  <2> QED BY <1>1, <1>7, <2>1, <2>3, <2>4 DEF TimerInv, NoRetry, full
<1>9. CASE Refilled < CallUnits
  <2>1. bucket' = [units |-> Refilled, at |-> now] /\ retryAt' = now + Until(Refilled) /\ granted' = granted
    BY <1>1, <1>5, <1>9 DEF AcquireOrReject
  <2>2. Until(Refilled) \in Nat /\ Refilled + Until(Refilled) * Refill >= CallUnits
    BY <1>5, <1>9, UntilIsEnough
  <2>3. retryAt' - bucket'.at = Until(Refilled) /\ retryAt' >= bucket'.at /\ retryAt' \in Nat
    BY <1>1, <2>1, <2>2
  <2>4. TimerTypeOK'
    BY <1>1, <1>5, <1>7, <2>1, <2>3 DEF TimerInv, TimerTypeOK, full
  <2> QED BY <1>1, <1>6, <1>7, <2>1, <2>2, <2>3, <2>4 DEF TimerInv, full
<1> QED BY <1>1, <1>5, <1>8, <1>9

LEMMA TimerInvStep ==
  ASSUME TimerInv, [TimerNext]_timerVars
  PROVE  TimerInv'
<1>1. CASE UNCHANGED timerVars
  BY <1>1 DEF timerVars, TimerInv, TimerTypeOK
<1>2. CASE Tick
  <2>1. now < MaxClock /\ now' = now + 1
        /\ UNCHANGED <<entries, timers, resumeAt, launched, cut, tooLong, bucket, retryAt, granted>>
    BY <1>2 DEF Tick, nodeTimerVars, bucketVars
  <2>2. TimerTypeOK'
    BY <2>1, TimersAssumption DEF TimerInv, TimerTypeOK
  <2>3. bucket.at <= now'
    BY <2>1, TimersAssumption DEF TimerInv, TimerTypeOK
  <2> QED BY <2>1, <2>2, <2>3 DEF TimerInv
<1> QED BY <1>1, <1>2, AcquireStep, CancelAllStep, ScheduleNodeStep, RescheduleStep, CancelStep, FiresStep
        DEF TimerNext

LEMMA TimerInvImplies == TimerInv => TimersAreTrue
<1> SUFFICES ASSUME TimerInv PROVE TimersAreTrue
  OBVIOUS
<1> DEFINE full == BucketSize * CallUnits
<1>1. /\ now \in Nat /\ bucket.at \in Nat /\ bucket.at <= now /\ bucket.units \in Nat /\ granted \in Nat
      /\ retryAt \in Nat /\ CallUnits \in Nat \ {0} /\ Refill \in Nat \ {0} /\ full \in Nat /\ CallUnits <= full
  BY TimersAssumption, Products DEF TimerInv, TimerTypeOK
<1>2. bucket.at * Refill <= now * Refill /\ bucket.at * Refill \in Nat /\ now * Refill \in Nat
      /\ granted * CallUnits \in Nat
  BY <1>1, Products
<1>3. bucket.units + granted * CallUnits <= full + bucket.at * Refill
  BY DEF TimerInv
<1> HIDE DEF full
<1>4. granted * CallUnits <= full + now * Refill
  BY <1>1, <1>2, <1>3
<1>5. ASSUME retryAt # NoRetry, now >= retryAt PROVE Refilled >= CallUnits
  <2> DEFINE d == retryAt - bucket.at  e == now - bucket.at
  <2>1. d \in Nat /\ e \in Nat /\ d <= e /\ bucket.units + d * Refill >= CallUnits
    BY <1>1, <1>5 DEF TimerInv
  <2>2. Refilled = IF bucket.units + e * Refill > full THEN full ELSE bucket.units + e * Refill
    BY DEF Refilled, full
  <2> HIDE DEF d, e
  <2>3. d * Refill <= e * Refill /\ d * Refill \in Nat /\ e * Refill \in Nat
    BY <1>1, <2>1, Products
  <2> QED BY <1>1, <2>1, <2>2, <2>3
<1> QED BY <1>4, <1>5 DEF TimersAreTrue, TimerInv, full

\* However nodes are scheduled, cancelled and scheduled again after a restart: nothing is launched
\* before its time or twice, and the limiter keeps to its rate (scheduler.ts, rate-limiter.ts).
THEOREM TimersAreTrueHolds == TimerSpec => []TimersAreTrue
<1> QED BY TimerInvInit, TimerInvStep, TimerInvImplies, PTL DEF TimerSpec

-----------------------------------------------------------------------------
(* Calls of providers                                                      *)

\* A call that waits has a retry left.
CallTypes == CallTypeOK /\ \A c \in CallIds : callAt[c] = "waiting" => attempt[c] < MaxCallRetries

DoneCalls == {c \in CallIds : callAt[c] = "done"}

\* A call reads at least what was offered; until it ends the client has its token or a newer one,
\* unless another call has put an older one; only a login is refused; and the accounts have the
\* calls that are done.
CallInv ==
  /\ CallTypes
  /\ provider \in {"none", "failed"} => \A c \in CallIds : callAt[c] = "none"
  /\ \A c \in CallIds :
       /\ callAt[c] # "none" /\ provider = "claude" => readToken[c] >= offered[c]
       /\ callAt[c] \in {"sending", "waiting"} /\ provider = "claude" =>
            c \in undercut \/ authToken >= readToken[c]
       /\ callAt[c] = "threw" =>
            /\ callError[c].status = 401 => c \in undercut \/ sentToken[c] >= offered[c]
            /\ lastStatus[c] \in {429, 529} \cap TriedAgain =>
                 IsRateLimit(callError[c]) /\ attempt[c] = MaxCallRetries
       /\ perAgent[c] = (IF callAt[c] = "done" THEN 1 ELSE 0)
  /\ totalCost = Cardinality(DoneCalls)

LEMMA CallTypesInit ==
  ASSUME profile \in Profiles, environ \in Environments, CallsStart
  PROVE  CallTypes
<1>1. 1 \in Tokens /\ 0 \in 0 .. MaxCallRetries
  BY ProviderCallsAssumption DEF Tokens
<1>2. NoError \in Failures
  BY DEF Failures
<1> QED BY <1>1, <1>2 DEF CallsStart, CallTypeOK, CallTypes

LEMMA CallInvInit ==
  ASSUME profile \in Profiles, environ \in Environments, CallsStart
  PROVE  CallInv
<1>1. DoneCalls = {}
  BY DEF CallsStart, DoneCalls
<1> QED BY <1>1, CallTypesInit, FS_EmptySet DEF CallInv, CallsStart

-----------------------------------------------------------------------------
\* What a call throws.
LEMMA ThrownTypes ==
  ASSUME NEW status \in Statuses \cup {0, 401}, NEW text \in {"credit", "other"}
  PROVE  Thrown(status, text) \in Failures
BY DEF Thrown, Failures

\* An attempt fails with a status: the call waits for the next, or throws.
FailsWith(c, status, text) ==
  /\ callAt[c] = "sending" /\ sentToken' = [sentToken EXCEPT ![c] = authToken]
  /\ status = 401 => Answers401
  /\ lastStatus' = [lastStatus EXCEPT ![c] = status]
  /\ \/ /\ status \in TriedAgain /\ attempt[c] < MaxCallRetries
        /\ callAt' = [callAt EXCEPT ![c] = "waiting"] /\ UNCHANGED callError
     \/ /\ status \notin TriedAgain \/ ~(attempt[c] < MaxCallRetries)
        /\ callAt' = [callAt EXCEPT ![c] = "threw"]
        /\ callError' = [callError EXCEPT ![c] = Thrown(status, text)]
  /\ UNCHANGED <<setupVars, loginVars, authToken, attempt, readToken, offered, undercut, costVars>>

LEMMA FailsSomehow ==
  ASSUME NEW c \in CallIds, Fails(c)
  PROVE  \E status \in Statuses \cup {0, 401}, text \in {"credit", "other"} : FailsWith(c, status, text)
<1>1. PICK status \in (IF Answers401 THEN {401} ELSE Statuses \cup {0}), text \in {"credit", "other"} :
       /\ lastStatus' = [lastStatus EXCEPT ![c] = status]
       /\ IF status \in TriedAgain /\ attempt[c] < MaxCallRetries
          THEN callAt' = [callAt EXCEPT ![c] = "waiting"] /\ UNCHANGED callError
          ELSE /\ callAt' = [callAt EXCEPT ![c] = "threw"]
               /\ callError' = [callError EXCEPT ![c] = Thrown(status, text)]
  BY DEF Fails
<1>2. status \in Statuses \cup {0, 401} /\ (status = 401 => Answers401)
  BY ProviderCallsAssumption
<1>3. /\ callAt[c] = "sending" /\ sentToken' = [sentToken EXCEPT ![c] = authToken]
      /\ UNCHANGED <<setupVars, loginVars, authToken, attempt, readToken, offered, undercut, costVars>>
  BY DEF Fails
<1>4. FailsWith(c, status, text)
  <2>1. CASE status \in TriedAgain /\ attempt[c] < MaxCallRetries
    BY <1>1, <1>2, <1>3, <2>1, Zenon DEF FailsWith
  <2>2. CASE ~(status \in TriedAgain /\ attempt[c] < MaxCallRetries)
    BY <1>1, <1>2, <1>3, <2>2, Zenon DEF FailsWith
  <2> QED BY <2>1, <2>2
<1> QED BY <1>2, <1>4

LEMMA CallTypesStep ==
  ASSUME CallTypes, [CallNext]_callVars
  PROVE  CallTypes'
<1> USE ProviderCallsAssumption DEF CallTypes, CallTypeOK, setupVars, loginVars, costVars
<1>0. ReadClaudeCode \in Tokens \cup {NoToken} /\ TokenFor \in Tokens \cup {NoToken}
  BY DEF ReadClaudeCode, TokenFor
<1>1. CASE UNCHANGED callVars
  BY <1>1 DEF callVars
<1>2. CASE BuildsProvider
  <2>1. provider' \in {"none", "failed", "apiKey", "envToken", "claude", "openai"}
    BY <1>2 DEF BuildsProvider, Resolved
  <2>2. loginToken' \in Tokens \cup {NoToken}
    BY <1>0, <1>2 DEF BuildsProvider
  <2> QED BY <1>2, <2>1, <2>2 DEF BuildsProvider
<1>3. CASE FileChanges
  BY <1>3 DEF FileChanges, Refreshed
<1>4. ASSUME NEW c \in CallIds, Calls(c) PROVE CallTypes'
  BY <1>0, <1>4 DEF Calls
<1>5. ASSUME NEW c \in CallIds, PutsToken(c) PROVE CallTypes'
  BY <1>5 DEF PutsToken
<1>6. ASSUME NEW c \in CallIds, Completes(c) PROVE CallTypes'
  BY <1>6 DEF Completes, RecordCall
<1>7. ASSUME NEW c \in CallIds, Fails(c) PROVE CallTypes'
  <2>1. PICK status \in Statuses \cup {0, 401}, text \in {"credit", "other"} : FailsWith(c, status, text)
    BY <1>7, FailsSomehow
  <2>2. callError' \in [CallIds -> Failures] /\ lastStatus' \in [CallIds -> Statuses \cup {0, 200, 401}]
        /\ callAt' \in [CallIds -> {"none", "reading", "sending", "waiting", "done", "threw"}]
    BY <2>1, ThrownTypes DEF FailsWith
  <2> QED BY <2>1, <2>2 DEF FailsWith
<1>8. ASSUME NEW c \in CallIds, TriesAgain(c) PROVE CallTypes'
  BY <1>8 DEF TriesAgain
<1> QED BY <1>1, <1>2, <1>3, <1>4, <1>5, <1>6, <1>7, <1>8 DEF CallNext
LEMMA CallInvStep ==
  ASSUME CallInv, [CallNext]_callVars
  PROVE  CallInv'
<1>0. CallTypes /\ CallTypes'
  BY CallTypesStep DEF CallInv
<1> USE <1>0 DEF CallTypes, CallTypeOK, setupVars, loginVars, costVars, TriedAgain, IsRateLimit
<1>1. CASE UNCHANGED callVars
  BY <1>1 DEF callVars, CallInv, DoneCalls
<1>2. CASE BuildsProvider
  BY <1>2 DEF BuildsProvider, CallInv, DoneCalls
<1>3. CASE FileChanges
  BY <1>3 DEF FileChanges, CallInv, DoneCalls
<1>4. ASSUME NEW c \in CallIds, Calls(c) PROVE CallInv'
  <2>1. DoneCalls' = DoneCalls
    BY <1>4 DEF Calls, DoneCalls
  <2>2. ReadClaudeCode \in Nat /\ TokenFor \in Nat /\ TokenFor >= ReadClaudeCode
    <3>1. claudeFile \in Nat /\ loginToken \in Nat
      BY ProviderCallsAssumption DEF Tokens, NoToken
    <3> QED BY ONLY <3>1 DEF ReadClaudeCode, TokenFor, NoToken
  <2> QED BY <1>4, <2>1, <2>2 DEF Calls, CallInv
<1>5. ASSUME NEW c \in CallIds, PutsToken(c) PROVE CallInv'
  <2>1. DoneCalls' = DoneCalls
    BY <1>5 DEF PutsToken, DoneCalls
  <2>2. \A d \in CallIds : readToken[d] \in Nat
    BY ProviderCallsAssumption DEF Tokens, NoToken
  <2>3. ASSUME NEW d \in CallIds, callAt'[d] \in {"sending", "waiting"}
        PROVE  d \in undercut' \/ authToken' >= readToken'[d]
    BY <1>5, <2>2, <2>3 DEF PutsToken
  <2> QED BY <1>5, <2>1, <2>3 DEF PutsToken, CallInv
<1>6. ASSUME NEW c \in CallIds, Completes(c) PROVE CallInv'
  <2>1. DoneCalls' = DoneCalls \cup {c} /\ c \notin DoneCalls /\ IsFiniteSet(DoneCalls)
    BY <1>6, ProviderCallsAssumption, FS_Subset DEF Completes, DoneCalls
  <2>2. totalCost' = Cardinality(DoneCalls')
    <3>1. totalCost' = Cardinality(DoneCalls) + 1
      BY <1>6 DEF Completes, RecordCall, CallInv
    <3> QED BY ONLY <2>1, <3>1, FS_AddElement
  <2>3. perAgent'[c] = 1
    BY <1>6 DEF Completes, RecordCall, CallInv
  <2> QED BY <1>6, <2>2, <2>3 DEF Completes, RecordCall, CallInv
<1>7. ASSUME NEW c \in CallIds, Fails(c) PROVE CallInv'
  <2>1. PICK status \in Statuses \cup {0, 401}, text \in {"credit", "other"} : FailsWith(c, status, text)
    BY <1>7, FailsSomehow
  <2>2. DoneCalls' = DoneCalls
    BY <2>1 DEF FailsWith, DoneCalls
  <2>3. /\ sentToken'[c] = authToken /\ lastStatus'[c] = status
        /\ callAt'[c] = "threw" => callError'[c] = Thrown(status, text)
                                   /\ ~(status \in TriedAgain /\ attempt[c] < MaxCallRetries)
    BY <2>1 DEF FailsWith
  <2>4. callAt'[c] = "threw" /\ status \in {429, 529} \cap TriedAgain =>
          IsRateLimit(callError'[c]) /\ attempt'[c] = MaxCallRetries
    <3> SUFFICES ASSUME callAt'[c] = "threw", status \in {429, 529} \cap TriedAgain
                 PROVE  IsRateLimit(callError'[c]) /\ attempt'[c] = MaxCallRetries
      OBVIOUS
    <3>1. attempt'[c] = MaxCallRetries
      BY <2>1, <2>3, ProviderCallsAssumption DEF FailsWith
    <3>2. IsRateLimit(Thrown(status, text))
      BY DEF Thrown
    <3> QED BY <2>3, <3>1, <3>2
  <2>5. callAt'[c] = "threw" /\ callError'[c].status = 401 => c \in undercut' \/ sentToken'[c] >= offered'[c]
    <3> SUFFICES ASSUME callAt'[c] = "threw", callError'[c].status = 401
                 PROVE  c \in undercut' \/ sentToken'[c] >= offered'[c]
      OBVIOUS
    <3>1. status = 401
      BY <2>3 DEF Thrown
    <3>2. provider = "claude" /\ callAt[c] = "sending"
      BY <2>1, <3>1 DEF FailsWith, Answers401
    <3>3. authToken \in Nat /\ readToken[c] \in Nat /\ offered[c] \in Nat
      BY ProviderCallsAssumption DEF Tokens, NoToken
    <3>4. c \in undercut \/ authToken >= offered[c]
      BY <3>2, <3>3 DEF CallInv
    <3> QED BY <2>1, <3>4, <2>3 DEF FailsWith
  <2>6. /\ \A d \in CallIds \ {c} : /\ callAt'[d] = callAt[d] /\ callError'[d] = callError[d]
                                    /\ lastStatus'[d] = lastStatus[d] /\ sentToken'[d] = sentToken[d]
        /\ UNCHANGED <<provider, authToken, attempt, readToken, offered, undercut, perAgent, totalCost>>
        /\ callAt'[c] \in {"waiting", "threw"} /\ callAt[c] = "sending"
    BY <2>1 DEF FailsWith
  <2> QED BY <2>2, <2>3, <2>4, <2>5, <2>6 DEF CallInv
<1>8. ASSUME NEW c \in CallIds, TriesAgain(c) PROVE CallInv'
  <2>1. DoneCalls' = DoneCalls
    BY <1>8 DEF TriesAgain, DoneCalls
  <2> QED BY <1>8, <2>1 DEF TriesAgain, CallInv
<1> QED BY <1>1, <1>2, <1>3, <1>4, <1>5, <1>6, <1>7, <1>8 DEF CallNext

LEMMA CallInvImplies == CallInv => CallsAreJustified
BY ProviderCallsAssumption DEF CallInv, CallsAreJustified, CallTypes, CallTypeOK, DoneCalls,
   IsBudgetExceeded, BudgetRemaining

\* Whatever tokens expire and attempts fail: a call fails for its credentials only when there were
\* none, a busy service is seen as such, and the accounts agree (the providers, costs/tracker.ts).
THEOREM CallsAreJustifiedHolds == CallSpec => []CallsAreJustified
<1> QED BY CallInvInit, CallInvStep, CallInvImplies, PTL DEF CallSpec, CallInit

-----------------------------------------------------------------------------
(* The objects of a workflow                                               *)

\* A oneNode as the code leaves it: started and ended go with its status.
SoundNode(oneNode) ==
  /\ oneNode.started <=> oneNode.status \notin {"pending", "waiting"}
  /\ oneNode.ended <=> oneNode.status \in Lifecycle!TerminalStatuses

\* The data of a workflow, in memory or kept: its nodes are sound, own what their agents own
\* unless they are haunted, and its edges join nodes it has, unless the graph was given others.
SoundData(data) ==
  /\ \A n \in Declared : /\ SoundNode(data.nodes[n])
                         /\ n \notin haunted => data.nodes[n].scopes \subseteq data.nodes[n].team
  /\ ~unnamed => data.edges \subseteq Declared \X Declared

\* What is kept is never newer than what it was kept of: the log's than the file's, the file's
\* than the save's that waits, the save's than the object's.
Behind ==
  /\ onDisk.version <= objActs
  /\ \A e \in diary \cup toAppend : e.version <= onDisk.version
  /\ unwritten # NoSave => /\ onDisk.version <= unwritten.what.version
                           /\ \A e \in unwritten.events : e.version <= unwritten.what.version
                           /\ flow # NoObject /\ unwritten.what.version <= flow.version
  /\ flow # NoObject => onDisk.version <= flow.version /\ flow.version <= objActs

ObjectInv ==
  /\ ObjectTypeOK
  /\ SoundData(onDisk)
  /\ unwritten # NoSave => SoundData(unwritten.what)
  /\ flow # NoObject => SoundData(flow) /\ (~unnamed => flow.ids = Declared)
  /\ Behind

LEMMA ObjectsAreObjects ==
  ASSUME NEW f \in FlowObjects
  PROVE  f # NoObject
BY DEF FlowObjects, NoObject

LEMMA ObjectInvInit == ObjectInit => ObjectInv
<1> SUFFICES ASSUME ObjectInit PROVE ObjectInv
  OBVIOUS
<1>1. FreshNode \in WorkflowNode /\ AtWork \in WorkflowNode
  <2>1. 0 \in 0 .. ObjMaxRetries /\ {} \in SUBSET ObjAgents /\ ObjAgents \in SUBSET ObjAgents
        /\ {"pending", "running"} \subseteq Lifecycle!NodeStatus
    BY ObjectAssumption DEF Lifecycle!NodeStatus, Lifecycle!TerminalStatuses, Lifecycle!FailureStatuses
  <2>2. FreshNode \in WorkflowNode
    BY <2>1 DEF FreshNode, WorkflowNode
  <2> QED BY <2>1, <2>2 DEF AtWork, WorkflowNode
<1>2. SoundNode(FreshNode) /\ SoundNode(AtWork) /\ FreshNode.scopes \subseteq FreshNode.team
      /\ AtWork.scopes \subseteq AtWork.team
  BY DEF FreshNode, AtWork, SoundNode, Lifecycle!TerminalStatuses, Lifecycle!FailureStatuses
<1>3. onDisk \in FlowData /\ onDisk.version = 0 /\ onDisk.edges = {}
      /\ \A n \in Declared : onDisk.nodes[n] \in {FreshNode, AtWork}
  BY <1>1, ObjectAssumption DEF ObjectInit, FlowData, Lifecycle!WorkflowStatus
<1>4. flow \in FlowObjects /\ flow.version = 0 /\ flow.nodes = onDisk.nodes /\ flow.edges = {}
      /\ flow.ids = Declared
  BY <1>3, ObjectAssumption DEF ObjectInit, FromJSON, FlowData, FlowObjects
<1>5. SoundData(onDisk) /\ SoundData(flow)
  BY <1>2, <1>3, <1>4 DEF SoundData
<1>6. ObjectTypeOK
  <2>1. {} \in SUBSET ObjAgents /\ "none" \in Declared \cup {"none"} /\ 0 \in 0 .. MaxObjActs
    BY ObjectAssumption
  <2>2. scopeCopy \in [of : Declared \cup {"none"}, scopes : SUBSET ObjAgents]
    BY <2>1 DEF ObjectInit
  <2> QED BY <1>3, <1>4, <2>1, <2>2 DEF ObjectInit, ObjectTypeOK
<1> QED BY <1>3, <1>4, <1>5, <1>6 DEF ObjectInit, ObjectInv, Behind, NoSave

\* Only objActs, and data that are kept as they were, change.
LEMMA SoundDataKept ==
  ASSUME NEW data, SoundData(data), haunted \subseteq haunted', unnamed => unnamed'
  PROVE  /\ \A n \in Declared : /\ SoundNode(data.nodes[n])
                                /\ n \notin haunted' => data.nodes[n].scopes \subseteq data.nodes[n].team
         /\ ~unnamed' => data.edges \subseteq Declared \X Declared
BY DEF SoundData

SoundNow(data) ==
  /\ \A n \in Declared : /\ SoundNode(data.nodes[n])
                         /\ n \notin haunted' => data.nodes[n].scopes \subseteq data.nodes[n].team
  /\ ~unnamed' => data.edges \subseteq Declared \X Declared

\* The object changes, and what is kept does not.
LEMMA ObjectChanges ==
  ASSUME ObjectInv, Counts, flow # NoObject, UNCHANGED <<keptVars, scopeCopy>>,
         haunted \subseteq haunted', haunted' \subseteq Declared, unnamed => unnamed', unnamed' \in BOOLEAN,
         flow' \in FlowObjects, flow'.version = flow.version, SoundNow(flow'),
         ~unnamed' => flow'.ids = Declared
  PROVE  ObjectInv'
<1>1. UNCHANGED <<onDisk, unwritten, diary, toAppend, scopeCopy>>
  BY DEF keptVars
<1>2. objActs \in 0 .. MaxObjActs /\ objActs' \in 0 .. MaxObjActs /\ objActs <= objActs' /\ MaxObjActs \in Nat
  BY ObjectAssumption DEF ObjectInv, ObjectTypeOK, Counts
<1>3. ObjectTypeOK'
  BY <1>1, <1>2 DEF ObjectInv, ObjectTypeOK
<1>4. SoundData(onDisk)' /\ (unwritten' # NoSave => SoundData(unwritten.what)') /\ SoundData(flow)'
  BY <1>1 DEF ObjectInv, SoundData, SoundNow
<1>5. Behind'
  <2>1. onDisk.version \in Nat /\ flow.version \in Nat
    BY ObjectAssumption DEF ObjectInv, ObjectTypeOK, FlowObjects, FlowData
  <2>2. onDisk.version <= objActs' /\ flow.version <= objActs'
    BY <1>2, <2>1 DEF ObjectInv, Behind
  <2>3. flow' # NoObject /\ flow'.version = flow.version
    BY ObjectsAreObjects
  <2>4. onDisk' = onDisk /\ unwritten' = unwritten /\ diary' = diary /\ toAppend' = toAppend
    BY <1>1
  <2> QED BY <2>2, <2>3, <2>4 DEF ObjectInv, Behind
<1> QED BY <1>3, <1>4, <1>5 DEF ObjectInv

\* The object as it now is waits to be written.
LEMMA ObjectWaits ==
  ASSUME ObjectInv, Counts, flow' \in FlowObjects, SoundNow(flow'), ~unnamed' => flow'.ids = Declared,
         onDisk.version <= flow'.version, flow # NoObject => flow.version <= flow'.version,
         flow'.version <= objActs',
         NEW events \in SUBSET Tellings, \A e \in events : e.version = flow'.version,
         SaveState(flow', events), UNCHANGED <<onDisk, diary, toAppend, scopeCopy>>,
         haunted \subseteq haunted', haunted' \subseteq Declared, unnamed' = unnamed
  PROVE  ObjectInv'
<1>1. onDisk' = onDisk /\ diary' = diary /\ toAppend' = toAppend /\ scopeCopy' = scopeCopy
  OBVIOUS
<1>2. objActs \in 0 .. MaxObjActs /\ objActs' \in 0 .. MaxObjActs /\ objActs <= objActs' /\ MaxObjActs \in Nat
  BY ObjectAssumption DEF ObjectInv, ObjectTypeOK, Counts
<1>3. /\ unwritten'.what = ToJSON(flow') /\ unwritten'.events = events \cup unwritten.events
      /\ unwritten' = [what |-> ToJSON(flow'), events |-> events \cup unwritten.events]
  BY DEF SaveState
<1>4. ToJSON(flow') \in FlowData
  BY DEF ToJSON, FlowObjects, FlowData
<1>5. /\ ToJSON(flow').version = flow'.version /\ ToJSON(flow').nodes = flow'.nodes
      /\ ToJSON(flow').edges = flow'.edges
  BY DEF ToJSON
<1>6. unwritten.events \subseteq Tellings
  <2>1. CASE unwritten = NoSave
    BY <2>1 DEF NoSave
  <2>2. CASE unwritten # NoSave
    BY <2>2 DEF ObjectInv, ObjectTypeOK
  <2> QED BY <2>1, <2>2
<1>7. ObjectTypeOK'
  BY <1>1, <1>2, <1>3, <1>4, <1>6 DEF ObjectInv, ObjectTypeOK
<1>8. SoundData(onDisk)' /\ SoundData(unwritten.what)' /\ SoundData(flow)'
  BY <1>1, <1>3, <1>5 DEF ObjectInv, SoundData, SoundNow
<1>9. flow' # NoObject /\ flow'.version \in Nat /\ onDisk.version \in Nat
  BY ObjectsAreObjects DEF ObjectInv, ObjectTypeOK, FlowObjects, FlowData
<1>10. \A e \in unwritten.events : e.version <= flow'.version
  <2>1. CASE unwritten = NoSave
    BY <2>1 DEF NoSave
  <2>2. CASE unwritten # NoSave
    <3>1. flow.version \in Nat /\ unwritten.what.version \in Nat /\ \A e \in unwritten.events : e.version \in Nat
      BY <2>2, <1>6 DEF ObjectInv, ObjectTypeOK, FlowObjects, FlowData, Behind, Tellings
    <3> QED BY <3>1, <2>2, <1>9 DEF ObjectInv, Behind
  <2> QED BY <2>1, <2>2
<1>11. \A e \in events \cup unwritten.events : e.version <= flow'.version
  BY <1>9, <1>10
<1>12. onDisk.version <= objActs'
  BY <1>9, <1>2 DEF ObjectInv, Behind
<1>13. \A e \in diary' \cup toAppend' : e.version <= onDisk'.version
  BY <1>1 DEF ObjectInv, Behind
<1>14. Behind'
  <2>1. onDisk'.version <= unwritten'.what.version /\ unwritten'.what.version <= flow'.version
        /\ \A e \in unwritten'.events : e.version <= unwritten'.what.version
    BY <1>1, <1>3, <1>5, <1>9, <1>11
  <2> QED BY <1>1, <1>9, <1>12, <1>13, <2>1 DEF Behind
<1> QED BY <1>7, <1>8, <1>14 DEF ObjectInv

LEMMA FlowTransitions ==
  ASSUME NEW s
  PROVE  Lifecycle!WorkflowTransitions(s) \subseteq Lifecycle!WorkflowStatus
BY DEF Lifecycle!WorkflowTransitions, Lifecycle!WorkflowStatus

LEMMA EventsTell ==
  ASSUME NEW object \in FlowObjects
  PROVE  EventsOf(object) \subseteq Tellings /\ \A e \in EventsOf(object) : e.version = object.version
<1>1. CASE object.status \in {"running", "paused", "done"}
  <2>1. object.status \in Lifecycle!WorkflowStatus /\ object.version \in 0 .. MaxObjActs
    BY DEF FlowObjects
  <2>2. EventsOf(object) = {[to |-> object.status, version |-> object.version]}
    BY <1>1 DEF EventsOf
  <2> QED BY <2>1, <2>2 DEF Tellings
<1>2. CASE object.status \notin {"running", "paused", "done"}
  BY <1>2 DEF EventsOf
<1> QED BY <1>1, <1>2

LEMMA TransitionFlowStep == ObjectInv /\ TransitionFlow => ObjectInv'
<1> SUFFICES ASSUME ObjectInv, TransitionFlow PROVE ObjectInv'
  OBVIOUS
<1>1. PICK to \in Lifecycle!WorkflowTransitions(flow.status) :
        /\ flow' = [flow EXCEPT !.status = to, !.version = @ + 1]
        /\ SaveState(flow', EventsOf(flow'))
  BY DEF TransitionFlow
<1>2. flow \in FlowObjects /\ flow # NoObject /\ Counts
  BY DEF TransitionFlow, ObjectInv, ObjectTypeOK
<1>3. flow.version \in Nat /\ flow.version <= objActs /\ objActs \in Nat /\ objActs' = objActs + 1
      /\ objActs < MaxObjActs /\ MaxObjActs \in Nat
  BY <1>2, ObjectAssumption DEF FlowObjects, ObjectInv, Behind, ObjectTypeOK, Counts
<1>4. to \in Lifecycle!WorkflowStatus /\ flow.version + 1 \in 0 .. MaxObjActs
  BY <1>3, FlowTransitions
<1>5. flow' \in FlowObjects /\ flow'.version = flow.version + 1 /\ flow'.nodes = flow.nodes
      /\ flow'.edges = flow.edges /\ flow'.ids = flow.ids
  BY <1>1, <1>2, <1>4 DEF FlowObjects
<1>6. UNCHANGED <<onDisk, diary, toAppend, scopeCopy, haunted, unnamed>>
  BY DEF TransitionFlow
<1>7. SoundNow(flow') /\ (~unnamed' => flow'.ids = Declared) /\ haunted \subseteq haunted' /\ haunted' \subseteq Declared
  BY <1>2, <1>5, <1>6 DEF ObjectInv, ObjectTypeOK, SoundData, SoundNow
<1>8. onDisk.version <= flow'.version /\ flow.version <= flow'.version /\ flow'.version <= objActs'
  BY <1>2, <1>3, <1>5 DEF ObjectInv, Behind, ObjectTypeOK, FlowData
<1>9. EventsOf(flow') \in SUBSET Tellings /\ \A e \in EventsOf(flow') : e.version = flow'.version
  BY <1>5, EventsTell
<1> QED BY <1>1, <1>2, <1>5, <1>6, <1>7, <1>8, <1>9, ObjectWaits

LEMMA PersistFlowStep == ObjectInv /\ PersistFlow => ObjectInv'
<1> SUFFICES ASSUME ObjectInv, PersistFlow PROVE ObjectInv'
  OBVIOUS
<1>1. flow \in FlowObjects /\ flow' = flow /\ Counts /\ SaveState(flow', {})
      /\ UNCHANGED <<onDisk, diary, toAppend, scopeCopy, haunted, unnamed>> /\ flow # NoObject
  BY DEF PersistFlow, ObjectInv, ObjectTypeOK
<1>2. SoundNow(flow') /\ (~unnamed' => flow'.ids = Declared) /\ haunted \subseteq haunted' /\ haunted' \subseteq Declared
  BY <1>1 DEF ObjectInv, ObjectTypeOK, SoundData, SoundNow
<1>3. onDisk.version <= flow'.version /\ flow.version <= flow'.version /\ flow'.version <= objActs'
  BY <1>1, ObjectAssumption DEF ObjectInv, Behind, ObjectTypeOK, FlowData, FlowObjects, Counts
<1> QED BY <1>1, <1>2, <1>3, ObjectWaits

LEMMA ResumedIsSound ==
  ASSUME NEW oneNode \in WorkflowNode, SoundNode(oneNode)
  PROVE  ResumedNode(oneNode) \in WorkflowNode /\ SoundNode(ResumedNode(oneNode))
<1>1. FreshNode \in WorkflowNode
  <2>1. 0 \in 0 .. ObjMaxRetries /\ {} \in SUBSET ObjAgents /\ {"pending", "running"} \subseteq Lifecycle!NodeStatus
    BY ObjectAssumption DEF Lifecycle!NodeStatus
  <2> QED BY <2>1 DEF FreshNode, WorkflowNode
<1>2. SoundNode(FreshNode)
  BY DEF FreshNode, SoundNode, Lifecycle!TerminalStatuses, Lifecycle!FailureStatuses
<1>3. CASE oneNode.status \in {"running", "review"}
  <2>1. ResumedNode(oneNode) = [FreshNode EXCEPT !.scopes = oneNode.scopes]
    BY <1>3 DEF ResumedNode
  <2> QED BY <1>1, <1>2, <2>1 DEF WorkflowNode, SoundNode
<1>4. CASE oneNode.status = "waiting" /\ ~oneNode.resumes
  <2>1. ResumedNode(oneNode) = [oneNode EXCEPT !.status = "pending"]
    BY <1>4 DEF ResumedNode
  <2>2. "pending" \in Lifecycle!NodeStatus
    BY DEF Lifecycle!NodeStatus
  <2>3. ResumedNode(oneNode) \in WorkflowNode
    BY <2>1, <2>2 DEF WorkflowNode
  <2>4. /\ ResumedNode(oneNode).status = "pending" /\ ResumedNode(oneNode).started = oneNode.started
        /\ ResumedNode(oneNode).ended = oneNode.ended
    BY <2>1 DEF WorkflowNode
  <2> QED BY <1>4, <2>3, <2>4 DEF SoundNode, Lifecycle!TerminalStatuses, Lifecycle!FailureStatuses
<1>5. CASE oneNode.status \notin {"running", "review"} /\ ~(oneNode.status = "waiting" /\ ~oneNode.resumes)
  <2>1. ResumedNode(oneNode) = oneNode
    BY <1>5 DEF ResumedNode
  <2> QED BY <2>1
<1> QED BY <1>3, <1>4, <1>5

LEMMA ResumeFlowStep == ObjectInv /\ ResumeFlow => ObjectInv'
<1> SUFFICES ASSUME ObjectInv, ResumeFlow PROVE ObjectInv'
  OBVIOUS
<1> DEFINE resumed == [n \in Declared |-> ResumedNode(onDisk.nodes[n])]
<1>1. /\ flow = NoObject /\ Counts /\ SaveState(flow', EventsOf(flow'))
      /\ flow' = FromJSON([onDisk EXCEPT !.status = "running", !.version = @ + 1, !.nodes = resumed])
      /\ haunted' = haunted \cup {n \in Declared : ~ resumed[n].scopes \subseteq resumed[n].team}
      /\ UNCHANGED <<onDisk, diary, toAppend, scopeCopy, unnamed>>
  BY DEF ResumeFlow
<1>2. onDisk \in FlowData /\ SoundData(onDisk) /\ onDisk.nodes \in [Declared -> WorkflowNode]
  BY DEF ObjectInv, ObjectTypeOK, FlowData
<1>3. resumed \in [Declared -> WorkflowNode] /\ \A n \in Declared : SoundNode(resumed[n])
  BY <1>2, ResumedIsSound DEF SoundData
<1> HIDE DEF resumed
<1>4. onDisk.version \in Nat /\ onDisk.version <= objActs /\ objActs \in Nat /\ objActs' = objActs + 1
      /\ objActs < MaxObjActs /\ MaxObjActs \in Nat
  BY <1>1, <1>2, ObjectAssumption DEF FlowData, ObjectInv, Behind, ObjectTypeOK, Counts
<1>5. flow' = [status |-> "running", version |-> onDisk.version + 1, nodes |-> resumed, edges |-> onDisk.edges,
               ids |-> Declared]
  BY <1>1, <1>2 DEF FromJSON, FlowData
<1>6. flow' \in FlowObjects
  <2>1. "running" \in Lifecycle!WorkflowStatus /\ onDisk.version + 1 \in 0 .. MaxObjActs
        /\ Declared \in SUBSET ObjNodes /\ onDisk.edges \in SUBSET (ObjNodes \X ObjNodes)
    BY <1>2, <1>4, ObjectAssumption DEF Lifecycle!WorkflowStatus, FlowData
  <2> QED BY <1>3, <1>5, <2>1 DEF FlowObjects
<1>7. SoundNow(flow') /\ haunted \subseteq haunted' /\ haunted' \subseteq Declared /\ flow'.ids = Declared
  <2>1. \A n \in Declared : n \notin haunted' => resumed[n].scopes \subseteq resumed[n].team
    BY <1>1
  <2>2. flow'.nodes = resumed /\ flow'.edges = onDisk.edges /\ flow'.ids = Declared
    BY <1>5
  <2>3. haunted \subseteq haunted' /\ haunted' \subseteq Declared
    BY <1>1 DEF ObjectInv, ObjectTypeOK
  <2> QED BY <1>1, <1>2, <1>3, <2>1, <2>2, <2>3 DEF SoundNow, SoundData
<1>8. onDisk.version <= flow'.version /\ flow'.version <= objActs'
  BY <1>4, <1>5
<1>9. EventsOf(flow') \in SUBSET Tellings /\ \A e \in EventsOf(flow') : e.version = flow'.version
  BY <1>6, EventsTell
<1> QED BY <1>1, <1>6, <1>7, <1>8, <1>9, ObjectWaits

\* What is on disk takes the place of nothing newer: a write that ends, one that fails, a program
\* that goes, an event that is written.
LEMMA KeptSteps == ObjectInv /\ (Saved \/ SaveThrows \/ Appended \/ Dies) => ObjectInv'
<1> SUFFICES ASSUME ObjectInv, Saved \/ SaveThrows \/ Appended \/ Dies PROVE ObjectInv'
  OBVIOUS
<1>1. /\ onDisk.version \in Nat /\ (flow # NoObject => flow.version \in Nat)
      /\ (unwritten # NoSave => unwritten.what.version \in Nat) /\ objActs \in Nat
      /\ \A e \in diary \cup toAppend : e.version \in Nat
  BY ObjectAssumption DEF ObjectInv, ObjectTypeOK, FlowObjects, FlowData, Tellings
<1>2. CASE Saved
  <2>1. /\ unwritten # NoSave /\ unwritten' = NoSave /\ onDisk' = unwritten.what
        /\ toAppend' = toAppend \cup unwritten.events
        /\ UNCHANGED <<flow, diary, scopeCopy, haunted, unnamed, objActs>>
    BY <1>2 DEF Saved
  <2>2. unwritten \in [what : FlowData, events : SUBSET Tellings]
    BY <2>1 DEF ObjectInv, ObjectTypeOK
  <2>3. \A e \in unwritten.events : e.version \in Nat
    BY <2>2, ObjectAssumption DEF Tellings
  <2>4. ObjectTypeOK' /\ (SoundData(onDisk))' /\ (flow # NoObject => SoundData(flow) /\ (~unnamed => flow.ids = Declared))'
    BY <2>1, <2>2 DEF ObjectInv, ObjectTypeOK, SoundData
  <2>5. Behind'
    <3>1. \A e \in diary' \cup toAppend' : e.version <= onDisk'.version
      BY <1>1, <2>1, <2>3 DEF ObjectInv, Behind
    <3>2. flow # NoObject /\ unwritten.what.version <= flow.version /\ flow.version <= objActs
      BY <2>1 DEF ObjectInv, Behind
    <3> QED BY <1>1, <2>1, <3>1, <3>2 DEF Behind
  <2> QED BY <2>1, <2>4, <2>5 DEF ObjectInv
<1>3. CASE SaveThrows
  <2>1. unwritten' = NoSave /\ UNCHANGED <<flow, onDisk, diary, toAppend, scopeCopy, haunted, unnamed, objActs>>
    BY <1>3 DEF SaveThrows
  <2> QED BY <2>1 DEF ObjectInv, ObjectTypeOK, SoundData, Behind
<1>4. CASE Appended
  <2>1. diary' \cup toAppend' \subseteq diary \cup toAppend
        /\ UNCHANGED <<flow, onDisk, unwritten, scopeCopy, haunted, unnamed, objActs>>
    BY <1>4 DEF Appended
  <2> QED BY <2>1 DEF ObjectInv, ObjectTypeOK, SoundData, Behind
<1>5. CASE Dies
  <2>1. /\ flow' = NoObject /\ unwritten' = NoSave /\ toAppend' = {} /\ scopeCopy' = [of |-> "none", scopes |-> {}]
        /\ UNCHANGED <<onDisk, diary, haunted, unnamed, objActs>>
    BY <1>5 DEF Dies
  <2>2. scopeCopy' \in [of : Declared \cup {"none"}, scopes : SUBSET ObjAgents]
    BY <2>1
  <2>3. ObjectTypeOK'
    BY <2>1, <2>2 DEF ObjectInv, ObjectTypeOK
  <2> QED BY <2>1, <2>3 DEF ObjectInv, SoundData, Behind
<1> QED BY <1>2, <1>3, <1>4, <1>5

\* A call changes one oneNode.
LEMMA OfNodeStep ==
  ASSUME ObjectInv, flow # NoObject, NEW n \in Declared, NEW oneNode \in WorkflowNode, SoundNode(oneNode),
         n \notin haunted => oneNode.scopes \subseteq oneNode.team, OfNode(n, oneNode)
  PROVE  ObjectInv'
<1>1. flow \in FlowObjects /\ flow.nodes \in [Declared -> WorkflowNode] /\ SoundData(flow)
  BY DEF ObjectInv, ObjectTypeOK, FlowObjects
<1>2. flow' = [flow EXCEPT !.nodes[n] = oneNode] /\ Counts /\ UNCHANGED <<keptVars, scopeCopy, haunted, unnamed>>
  BY DEF OfNode
<1>3. /\ flow' = [flow EXCEPT !.nodes = [flow.nodes EXCEPT ![n] = oneNode]]
      /\ [flow.nodes EXCEPT ![n] = oneNode] \in [Declared -> WorkflowNode]
  BY <1>1, <1>2
<1>4. flow' \in FlowObjects /\ flow'.version = flow.version /\ flow'.nodes = [flow.nodes EXCEPT ![n] = oneNode]
      /\ flow'.edges = flow.edges /\ flow'.ids = flow.ids
  BY <1>1, <1>3 DEF FlowObjects
<1>5. \A k \in Declared : flow'.nodes[k] = IF k = n THEN oneNode ELSE flow.nodes[k]
  BY <1>1, <1>4
<1>6. SoundNow(flow')
  BY <1>1, <1>2, <1>4, <1>5 DEF SoundData, SoundNow
<1> QED BY <1>2, <1>4, <1>6, ObjectChanges DEF ObjectInv, ObjectTypeOK

LEMMA EnteredIsSound ==
  ASSUME NEW oneNode \in WorkflowNode, SoundNode(oneNode), NEW to \in Lifecycle!NodeTransitions(oneNode.status)
  PROVE  /\ Entered(oneNode, to) \in WorkflowNode /\ SoundNode(Entered(oneNode, to))
         /\ Entered(oneNode, to).scopes = oneNode.scopes /\ Entered(oneNode, to).team = oneNode.team
<1>1. to \in Lifecycle!NodeStatus
  BY DEF Lifecycle!NodeTransitions, Lifecycle!NodeStatus
<1>2. /\ to # "pending" /\ (to = "waiting" <=> oneNode.status = "pending")
      /\ (oneNode.status = "waiting" => to = "running") /\ oneNode.status \notin Lifecycle!TerminalStatuses
  BY DEF Lifecycle!NodeTransitions, Lifecycle!TerminalStatuses, Lifecycle!FailureStatuses
<1>3. (oneNode.started \/ to = "running") \in BOOLEAN /\ (oneNode.ended \/ to \in Lifecycle!TerminalStatuses) \in BOOLEAN
  OBVIOUS
<1>4. /\ Entered(oneNode, to) \in WorkflowNode /\ Entered(oneNode, to).status = to
      /\ Entered(oneNode, to).scopes = oneNode.scopes /\ Entered(oneNode, to).team = oneNode.team
  BY <1>1, <1>3 DEF Entered, WorkflowNode
<1>5. /\ Entered(oneNode, to).started <=> (oneNode.started \/ to = "running")
      /\ Entered(oneNode, to).ended <=> (oneNode.ended \/ to \in Lifecycle!TerminalStatuses)
  BY DEF Entered, WorkflowNode
<1> QED BY <1>2, <1>4, <1>5 DEF SoundNode, Lifecycle!TerminalStatuses, Lifecycle!FailureStatuses

LEMMA NodeCalls ==
  ASSUME ObjectInv, flow # NoObject, NEW n \in Declared,
         \/ TransitionNode(n) \/ IncrementRetry(n) \/ AddAgent(n) \/ RemoveAgent(n) \/ SetFileOwnership(n)
  PROVE  ObjectInv'
<1> DEFINE oneNode == flow.nodes[n]
<1>1. oneNode \in WorkflowNode /\ SoundNode(oneNode) /\ (n \notin haunted => oneNode.scopes \subseteq oneNode.team)
  BY DEF ObjectInv, ObjectTypeOK, FlowObjects, SoundData
<1>2. CASE TransitionNode(n)
  <2>1. PICK to \in Lifecycle!NodeTransitions(oneNode.status) : OfNode(n, Entered(oneNode, to))
    BY <1>2 DEF TransitionNode
  <2> QED BY <1>1, <2>1, EnteredIsSound, OfNodeStep
<1>3. CASE IncrementRetry(n)
  <2> DEFINE next == [oneNode EXCEPT !.retries = @ + 1]
  <2>1. oneNode.retries < ObjMaxRetries /\ OfNode(n, next)
    BY <1>3 DEF IncrementRetry
  <2>2. oneNode.retries + 1 \in 0 .. ObjMaxRetries
    BY <1>1, <2>1, ObjectAssumption DEF WorkflowNode
  <2>3. next \in WorkflowNode /\ next.status = oneNode.status /\ next.started = oneNode.started /\ next.ended = oneNode.ended
        /\ next.scopes = oneNode.scopes /\ next.team = oneNode.team
    BY <1>1, <2>2 DEF WorkflowNode
  <2>4. SoundNode(next)
    BY <1>1, <2>3 DEF SoundNode
  <2> QED BY <1>1, <2>1, <2>3, <2>4, OfNodeStep
<1>4. CASE AddAgent(n)
  <2>1. PICK a \in ObjAgents : OfNode(n, [oneNode EXCEPT !.team = @ \cup {a}])
    BY <1>4 DEF AddAgent
  <2> DEFINE next == [oneNode EXCEPT !.team = @ \cup {a}]
  <2>2. next \in WorkflowNode /\ next.status = oneNode.status /\ next.started = oneNode.started /\ next.ended = oneNode.ended
        /\ next.scopes = oneNode.scopes /\ next.team = oneNode.team \cup {a}
    BY <1>1 DEF WorkflowNode
  <2>3. SoundNode(next)
    BY <1>1, <2>2 DEF SoundNode
  <2>4. n \notin haunted => next.scopes \subseteq next.team
    BY <1>1, <2>2
  <2> QED BY <2>1, <2>2, <2>3, <2>4, OfNodeStep
<1>5. CASE RemoveAgent(n)
  <2>1. PICK a \in oneNode.team : OfNode(n, WithoutAgent(oneNode, a))
    BY <1>5 DEF RemoveAgent
  <2> DEFINE next == WithoutAgent(oneNode, a)
  <2>2. next \in WorkflowNode /\ next.status = oneNode.status /\ next.started = oneNode.started /\ next.ended = oneNode.ended
        /\ next.scopes = oneNode.scopes \ {a} /\ next.team = oneNode.team \ {a}
    BY <1>1 DEF WorkflowNode, WithoutAgent
  <2>3. SoundNode(next)
    BY <1>1, <2>2 DEF SoundNode
  <2>4. n \notin haunted => next.scopes \subseteq next.team
    BY <1>1, <2>2
  <2> QED BY <2>1, <2>2, <2>3, <2>4, OfNodeStep
<1>6. CASE SetFileOwnership(n)
  <2>1. PICK a \in oneNode.team : OfNode(n, [oneNode EXCEPT !.scopes = @ \cup {a}])
    BY <1>6 DEF SetFileOwnership
  <2> DEFINE next == [oneNode EXCEPT !.scopes = @ \cup {a}]
  <2>2. next \in WorkflowNode /\ next.status = oneNode.status /\ next.started = oneNode.started /\ next.ended = oneNode.ended
        /\ next.scopes = oneNode.scopes \cup {a} /\ next.team = oneNode.team /\ a \in oneNode.team
    BY <1>1, <2>1 DEF WorkflowNode
  <2>3. SoundNode(next)
    BY <1>1, <2>2 DEF SoundNode
  <2>4. n \notin haunted => next.scopes \subseteq next.team
    BY <1>1, <2>2
  <2> QED BY <2>1, <2>2, <2>3, <2>4, OfNodeStep
<1> QED BY <1>2, <1>3, <1>4, <1>5, <1>6

LEMMA ManagerCalls ==
  ASSUME ObjectInv, \/ CheckBudget \/ ApplyFileOwnershipState
                    \/ flow # NoObject /\ \E n \in Declared : CreateFileOwnershipManager(n)
  PROVE  ObjectInv'
<1>1. CASE CheckBudget
  <2> DEFINE nodes == [n \in Declared |-> IF flow.nodes[n].status = "running"
                                          THEN [flow.nodes[n] EXCEPT !.status = "blocked", !.ended = TRUE]
                                          ELSE flow.nodes[n]]
             status == IF flow.status = "running" THEN "paused" ELSE flow.status
  <2>1. flow # NoObject /\ flow \in FlowObjects /\ Counts /\ UNCHANGED <<keptVars, scopeCopy, haunted, unnamed>>
    BY <1>1 DEF CheckBudget, ObjectInv, ObjectTypeOK
  <2>2. flow.nodes \in [Declared -> WorkflowNode] /\ SoundData(flow)
    BY <2>1 DEF FlowObjects, ObjectInv
  <2>3. flow' = [flow EXCEPT !.nodes = nodes, !.status = status]
    BY <1>1 DEF CheckBudget
  <2>4. \A n \in Declared : /\ nodes[n] \in WorkflowNode /\ SoundNode(nodes[n])
                            /\ nodes[n].scopes = flow.nodes[n].scopes /\ nodes[n].team = flow.nodes[n].team
    <3> TAKE n \in Declared
    <3>1. flow.nodes[n] \in WorkflowNode /\ SoundNode(flow.nodes[n])
      BY <2>2 DEF SoundData
    <3>2. CASE flow.nodes[n].status = "running"
      <4>1. nodes[n] = [flow.nodes[n] EXCEPT !.status = "blocked", !.ended = TRUE]
        BY <3>2
      <4>2. "blocked" \in Lifecycle!NodeStatus
        BY DEF Lifecycle!NodeStatus
      <4>3. /\ nodes[n] \in WorkflowNode /\ nodes[n].scopes = flow.nodes[n].scopes
            /\ nodes[n].team = flow.nodes[n].team /\ nodes[n].status = "blocked"
            /\ nodes[n].started = flow.nodes[n].started /\ nodes[n].ended
        BY <3>1, <4>1, <4>2 DEF WorkflowNode
      <4> QED BY <3>1, <3>2, <4>3 DEF SoundNode, Lifecycle!TerminalStatuses, Lifecycle!FailureStatuses
    <3>3. CASE flow.nodes[n].status # "running"
      BY <3>1, <3>3
    <3> QED BY <3>2, <3>3
  <2>5. nodes \in [Declared -> WorkflowNode] /\ status \in Lifecycle!WorkflowStatus
    BY <2>1, <2>4 DEF FlowObjects, Lifecycle!WorkflowStatus
  <2> HIDE DEF nodes, status
  <2>6. flow' \in FlowObjects /\ flow'.version = flow.version /\ flow'.nodes = nodes
        /\ flow'.edges = flow.edges /\ flow'.ids = flow.ids
    BY <2>1, <2>3, <2>5 DEF FlowObjects
  <2>7. SoundNow(flow')
    BY <2>1, <2>2, <2>4, <2>6 DEF SoundNow, SoundData
  <2> QED BY <2>1, <2>6, <2>7, ObjectChanges DEF ObjectInv, ObjectTypeOK
<1>2. CASE ApplyFileOwnershipState
  <2> DEFINE n == scopeCopy.of
             oneNode == [flow.nodes[n] EXCEPT !.scopes = scopeCopy.scopes]
  <2>1. /\ flow # NoObject /\ flow \in FlowObjects /\ Counts /\ n # "none"
        /\ flow' = [flow EXCEPT !.nodes[n].scopes = scopeCopy.scopes]
        /\ haunted' = IF scopeCopy.scopes \subseteq flow.nodes[n].team THEN haunted ELSE haunted \cup {n}
        /\ scopeCopy' = [of |-> "none", scopes |-> {}]
        /\ UNCHANGED <<keptVars, unnamed>>
    BY <1>2 DEF ApplyFileOwnershipState, ObjectInv, ObjectTypeOK
  <2>2. n \in Declared /\ scopeCopy.scopes \in SUBSET ObjAgents
    BY <2>1 DEF ObjectInv, ObjectTypeOK
  <2>3. flow.nodes \in [Declared -> WorkflowNode] /\ SoundData(flow) /\ SoundNode(flow.nodes[n])
    BY <2>1, <2>2 DEF FlowObjects, ObjectInv, SoundData
  <2>4. /\ oneNode \in WorkflowNode /\ oneNode.scopes = scopeCopy.scopes /\ oneNode.team = flow.nodes[n].team
        /\ oneNode.status = flow.nodes[n].status /\ oneNode.started = flow.nodes[n].started
        /\ oneNode.ended = flow.nodes[n].ended
    BY <2>2, <2>3 DEF WorkflowNode
  <2>5. SoundNode(oneNode)
    BY <2>3, <2>4 DEF SoundNode
  <2>6. /\ flow' = [flow EXCEPT !.nodes = [flow.nodes EXCEPT ![n] = oneNode]]
        /\ [flow.nodes EXCEPT ![n] = oneNode] \in [Declared -> WorkflowNode]
    BY <2>1, <2>3, <2>4
  <2> HIDE DEF oneNode
  <2>7. flow' \in FlowObjects /\ flow'.version = flow.version /\ flow'.nodes = [flow.nodes EXCEPT ![n] = oneNode]
        /\ flow'.edges = flow.edges /\ flow'.ids = flow.ids
    BY <2>1, <2>6 DEF FlowObjects
  <2>8. \A k \in Declared : flow'.nodes[k] = IF k = n THEN oneNode ELSE flow.nodes[k]
    BY <2>3, <2>7
  <2>9. haunted \subseteq haunted' /\ haunted' \subseteq Declared
    BY <2>1, <2>2 DEF ObjectInv, ObjectTypeOK
  <2>10. n \notin haunted' => oneNode.scopes \subseteq oneNode.team
    BY <2>1, <2>4
  <2>11. SoundNow(flow')
    BY <2>1, <2>3, <2>5, <2>7, <2>8, <2>9, <2>10 DEF SoundNow, SoundData
  <2>12. ObjectTypeOK' /\ Behind'
    <3>1. UNCHANGED <<onDisk, unwritten, diary, toAppend>>
      BY <2>1 DEF keptVars
    <3>2. scopeCopy' \in [of : Declared \cup {"none"}, scopes : SUBSET ObjAgents]
      BY <2>1
    <3>3. objActs' \in 0 .. MaxObjActs /\ objActs <= objActs' /\ objActs \in Nat
      BY <2>1, ObjectAssumption DEF Counts, ObjectInv, ObjectTypeOK
    <3>4. ObjectTypeOK'
      BY <2>1, <2>7, <2>9, <3>1, <3>2, <3>3 DEF ObjectInv, ObjectTypeOK
    <3>5. onDisk.version \in Nat /\ flow.version \in Nat /\ objActs' \in Nat /\ flow' # NoObject
      BY <2>1, <2>7, <3>3, ObjectsAreObjects, ObjectAssumption DEF ObjectInv, ObjectTypeOK, FlowData, FlowObjects
    <3>6. onDisk.version <= objActs' /\ flow.version <= objActs'
      BY <2>1, <3>3, <3>5 DEF ObjectInv, Behind
    <3> QED BY <2>1, <2>7, <3>1, <3>4, <3>5, <3>6 DEF ObjectInv, Behind
  <2>13. (SoundData(onDisk) /\ (unwritten # NoSave => SoundData(unwritten.what)))'
    BY <2>1, <2>9 DEF ObjectInv, SoundData, keptVars
  <2>14. (SoundData(flow) /\ (~unnamed => flow.ids = Declared))'
    BY <2>1, <2>7, <2>11 DEF SoundData, SoundNow, ObjectInv
  <2> QED BY <2>12, <2>13, <2>14 DEF ObjectInv
<1>3. CASE flow # NoObject /\ \E n \in Declared : CreateFileOwnershipManager(n)
  <2>1. PICK n \in Declared : CreateFileOwnershipManager(n)
    BY <1>3
  <2>2. /\ scopeCopy' = [of |-> n, scopes |-> flow.nodes[n].scopes]
        /\ UNCHANGED <<flow, onDisk, unwritten, diary, toAppend, haunted, unnamed, objActs>>
    BY <2>1 DEF CreateFileOwnershipManager, keptVars
  <2>3. flow.nodes[n].scopes \in SUBSET ObjAgents
    BY <1>3 DEF ObjectInv, ObjectTypeOK, FlowObjects, WorkflowNode
  <2>4. scopeCopy' \in [of : Declared \cup {"none"}, scopes : SUBSET ObjAgents]
    BY <2>2, <2>3
  <2> QED BY <2>2, <2>4 DEF ObjectInv, ObjectTypeOK, SoundData, Behind
<1> QED BY <1>1, <1>2, <1>3

LEMMA GraphCalls ==
  ASSUME ObjectInv, flow # NoObject, AddGraphNode \/ RemoveGraphNode \/ AddGraphEdge \/ RemoveGraphEdge
  PROVE  ObjectInv'
<1>1. flow \in FlowObjects /\ SoundData(flow) /\ (~unnamed => flow.ids = Declared) /\ unnamed \in BOOLEAN
  BY DEF ObjectInv, ObjectTypeOK
<1>2. ASSUME NEW ids \in SUBSET ObjNodes, NEW edges \in SUBSET (ObjNodes \X ObjNodes),
             OfGraph([flow EXCEPT !.ids = ids, !.edges = edges]), unnamed => unnamed', unnamed' \in BOOLEAN,
             ~unnamed' => ids = Declared /\ edges \subseteq Declared \X Declared
      PROVE  ObjectInv'
  <2>1. flow' = [flow EXCEPT !.ids = ids, !.edges = edges] /\ Counts /\ UNCHANGED <<keptVars, scopeCopy, haunted>>
    BY <1>2 DEF OfGraph
  <2>2. flow' \in FlowObjects /\ flow'.version = flow.version /\ flow'.nodes = flow.nodes /\ flow'.ids = ids
        /\ flow'.edges = edges
    BY <1>1, <2>1 DEF FlowObjects
  <2>3. SoundNow(flow')
    BY <1>1, <1>2, <2>1, <2>2 DEF SoundNow, SoundData
  <2> QED BY <1>2, <2>1, <2>2, <2>3, ObjectChanges DEF ObjectInv, ObjectTypeOK
<1>3. flow.ids \in SUBSET ObjNodes /\ flow.edges \in SUBSET (ObjNodes \X ObjNodes)
  BY <1>1 DEF FlowObjects
<1>4. CASE AddGraphNode
  <2>1. PICK n \in ObjNodes \ flow.ids : OfGraph([flow EXCEPT !.ids = @ \cup {n}])
    BY <1>4 DEF AddGraphNode
  <2>2. [flow EXCEPT !.ids = @ \cup {n}] = [flow EXCEPT !.ids = flow.ids \cup {n}, !.edges = flow.edges]
    BY <1>1 DEF FlowObjects
  <2>3. unnamed' = TRUE /\ flow.ids \cup {n} \in SUBSET ObjNodes
    BY <1>3, <1>4, <2>1 DEF AddGraphNode
  <2> QED BY <1>2, <1>3, <2>1, <2>2, <2>3
<1>5. CASE RemoveGraphNode
  <2>1. PICK n \in flow.ids : OfGraph([flow EXCEPT !.ids = @ \ {n}, !.edges = @ \ Touching(@, n)])
    BY <1>5 DEF RemoveGraphNode
  <2> DEFINE edges == flow.edges \ Touching(flow.edges, n)
  <2>2. unnamed' = TRUE /\ flow.ids \ {n} \in SUBSET ObjNodes /\ edges \in SUBSET (ObjNodes \X ObjNodes)
    BY <1>3, <1>5 DEF RemoveGraphNode
  <2>3. OfGraph([flow EXCEPT !.ids = flow.ids \ {n}, !.edges = edges])
    BY <2>1
  <2> QED BY <1>2, <2>2, <2>3
<1>6. CASE AddGraphEdge
  <2>1. PICK e \in (flow.ids \X flow.ids) \ flow.edges : OfGraph([flow EXCEPT !.edges = @ \cup {e}])
    BY <1>6 DEF AddGraphEdge
  <2>2. [flow EXCEPT !.edges = @ \cup {e}] = [flow EXCEPT !.ids = flow.ids, !.edges = flow.edges \cup {e}]
    BY <1>1 DEF FlowObjects
  <2>3. unnamed' = unnamed /\ flow.edges \cup {e} \in SUBSET (ObjNodes \X ObjNodes)
    BY <1>3, <1>6, <2>1 DEF AddGraphEdge
  <2>4. ~unnamed' => flow.ids = Declared /\ flow.edges \cup {e} \subseteq Declared \X Declared
    BY <1>1, <2>1, <2>3 DEF SoundData
  <2>5. OfGraph([flow EXCEPT !.ids = flow.ids, !.edges = flow.edges \cup {e}])
    BY <2>1, <2>2
  <2> QED BY <1>1, <1>2, <1>3, <2>3, <2>4, <2>5
<1>7. CASE RemoveGraphEdge
  <2>1. PICK e \in flow.edges : OfGraph([flow EXCEPT !.edges = @ \ {e}])
    BY <1>7 DEF RemoveGraphEdge
  <2>2. [flow EXCEPT !.edges = @ \ {e}] = [flow EXCEPT !.ids = flow.ids, !.edges = flow.edges \ {e}]
    BY <1>1 DEF FlowObjects
  <2>3. unnamed' = unnamed /\ flow.edges \ {e} \in SUBSET (ObjNodes \X ObjNodes)
    BY <1>3, <1>7 DEF RemoveGraphEdge
  <2>4. ~unnamed' => flow.ids = Declared /\ flow.edges \ {e} \subseteq Declared \X Declared
    BY <1>1, <2>3 DEF SoundData
  <2>5. OfGraph([flow EXCEPT !.ids = flow.ids, !.edges = flow.edges \ {e}])
    BY <2>1, <2>2
  <2> QED BY <1>1, <1>2, <1>3, <2>3, <2>4, <2>5
<1> QED BY <1>4, <1>5, <1>6, <1>7

LEMMA ObjectInvStep == ObjectInv /\ [ObjectNext]_objectVars => ObjectInv'
<1> SUFFICES ASSUME ObjectInv, [ObjectNext]_objectVars PROVE ObjectInv'
  OBVIOUS
<1>1. CASE UNCHANGED objectVars
  BY <1>1 DEF objectVars, ObjectInv, ObjectTypeOK, SoundData, Behind
<1>2. CASE TransitionFlow \/ PersistFlow \/ ResumeFlow
  BY <1>2, TransitionFlowStep, PersistFlowStep, ResumeFlowStep
<1>3. CASE Saved \/ SaveThrows \/ Appended \/ Dies
  BY <1>3, KeptSteps
<1>4. CASE CheckBudget \/ ApplyFileOwnershipState
  BY <1>4, ManagerCalls
<1>5. CASE flow # NoObject /\ (AddGraphNode \/ RemoveGraphNode \/ AddGraphEdge \/ RemoveGraphEdge)
  BY <1>5, GraphCalls
<1>6. ASSUME flow # NoObject, NEW n \in Declared,
             \/ TransitionNode(n) \/ IncrementRetry(n) \/ AddAgent(n) \/ RemoveAgent(n)
             \/ SetFileOwnership(n) \/ CreateFileOwnershipManager(n)
      PROVE  ObjectInv'
  BY <1>6, NodeCalls, ManagerCalls
<1> QED BY <1>1, <1>2, <1>3, <1>4, <1>5, <1>6 DEF ObjectNext

LEMMA ObjectInvImplies == ObjectInv => ObjectTypeOK /\ ObjectIsTrue
<1> SUFFICES ASSUME ObjectInv PROVE ObjectTypeOK /\ ObjectIsTrue
  OBVIOUS
<1> QED BY DEF ObjectInv, ObjectIsTrue, SoundData, SoundNode, Behind

\* Whatever saves throw and processes die: who may write is who works, a oneNode's times agree with its
\* status, and the log tells of nothing the file is still to hear of (oneNode.ts, workflow.ts, state.ts).
THEOREM ObjectIsTrueHolds == ObjectSpec => []ObjectIsTrue
<1> QED BY ObjectInvInit, ObjectInvStep, ObjectInvImplies, PTL DEF ObjectSpec

-----------------------------------------------------------------------------
(* The sessions of a workflow: their tools                                 *)

Kinds == {"started", "text", "call", "result", "cost", "idle", "limited", "completed", "aborted"}

\* What a mock session has told when it has told i things: its start, the steps of its script, its end.
Telling(n, i) ==
  IF i = 1 THEN "started"
  ELSE IF sess[n].pc = "aborted" /\ i = Len(heard[n]) THEN "aborted"
  ELSE IF i = Len(script[n]) + 2 THEN "completed"
  ELSE script[n][i - 1]

\* A mock session tells its script from the start, and its end when it is over.
Tells(n) ==
  /\ heard[n] # <<>> => node[n].runtime = "mock" /\ script[n] \in Scenarios
                        /\ sess[n].pc \in {"open", "ended", "aborted"}
  /\ node[n].runtime = "mock" /\ sess[n].pc = "open" => script[n] \in Scenarios /\ Len(heard[n]) <= Len(script[n]) + 1
  /\ \A i \in 1 .. Len(heard[n]) : heard[n][i] = Telling(n, i)

\* An open session has its node's scope; one that has used a tool is open or was; and copilot's are
\* not made before their client and their key are there.
SessToolsInv ==
  /\ SessToolsTypeOK
  /\ heard \in [SessNodes -> Seq(Kinds)]
  /\ \A n \in SessNodes :
       /\ sess[n].pc = "open" => sess[n].scope = DeriveFileScope(n)
       /\ sess[n].pc \in {"client", "create"} => node[n].runtime = "copilot"
       /\ node[n].runtime = "copilot" /\ sess[n].pc \in {"create", "open", "ended"}
            => client = "ready" /\ "apiKey" \in keys
       /\ Tells(n)
  /\ \A w \in wrote :
       /\ node[w[1]].role = "looma" /\ sess[w[1]].pc \in {"open", "ended"} /\ node[w[1]].runtime # "mock"
       /\ w[3] # "exec_command" => w[2] \in DeriveFileScope(w[1])
  /\ \A d \in did : /\ sess[d[1]].pc \in {"open", "ended"} /\ node[d[1]].runtime # "mock"
                    /\ node[d[1]].role # "loomex"
                    /\ d[2] = "escalate" => node[d[1]].role = "loomi"
                    /\ d[2] = "report_complete" => node[d[1]].role = "looma"

\* The scripts: no result without its call, one cost, and idle after it.
LEMMA ScenarioShape ==
  ASSUME NEW s \in Scenarios
  PROVE  /\ s \in Seq(Kinds) /\ Len(s) >= 3
         /\ s[Len(s) - 1] = "cost" /\ s[Len(s)] = "idle"
         /\ \A i \in 1 .. Len(s) : /\ s[i] = "result" => i > 1 /\ s[i - 1] = "call"
                                   /\ s[i] = "cost" => i = Len(s) - 1
                                   /\ s[i] \notin {"started", "completed", "aborted"}
<1>1. CASE s = TextOnly
  BY <1>1 DEF TextOnly, Kinds
<1>2. CASE s = ToolCall
  BY <1>2 DEF ToolCall, Kinds
<1>3. CASE s = ManyWorkers
  BY <1>3 DEF ManyWorkers, Kinds
<1>4. CASE s = RateLimited
  BY <1>4 DEF RateLimited, Kinds
<1> QED BY <1>1, <1>2, <1>3, <1>4 DEF Scenarios

\* Which tools a session may use, by its role.
LEMMA ToolsOfRoles ==
  ASSUME NEW role \in {"loom", "loomi", "looma", "loomex"}
  PROVE  /\ \A tool \in RoleTools(role) :
              /\ tool \in {"write_file", "edit_file", "exec_command", "report_complete"} => role = "looma"
              /\ tool = "escalate" => role = "loomi"
              /\ role = "loomex" => tool \in ReadTools
         /\ ClaudeTools(role) \subseteq RoleTools(role) /\ CopilotTools(role) = RoleTools(role)
  BY DEF RoleTools, ReadTools, ClaudeTools, CopilotTools

LEMMA SessToolsInvInit ==
  ASSUME \A n \in SessNodes : node[n] \in SessKinds[n], DOMAIN node = SessNodes,
         keys \subseteq {"apiKey", "claudeOauth"}, SessToolsStart
  PROVE  SessToolsInv
<1>1. NotOpen \in [pc : {"none", "client", "create", "open", "native", "ended", "aborted", "rejected"},
                   scope : SUBSET Areas, acts : 0 .. MaxSessActs]
  BY SessionToolsAssumption DEF NotOpen
<1>2. <<>> \in Seq(Kinds) /\ Len(<<>>) = 0
  OBVIOUS
<1>3. SessToolsTypeOK
  BY <1>1 DEF SessToolsStart, SessToolsTypeOK
<1>4. heard \in [SessNodes -> Seq(Kinds)]
  BY <1>2 DEF SessToolsStart
<1> QED BY <1>3, <1>4 DEF SessToolsStart, SessToolsInv, NotOpen, Tells

Sessions == [pc : {"none", "client", "create", "open", "native", "ended", "aborted", "rejected"},
             scope : SUBSET Areas, acts : 0 .. MaxSessActs]

LEMMA OpenedIsASession ==
  ASSUME NEW scope \in SUBSET Areas
  PROVE  LET opened == [NotOpen EXCEPT !.pc = "open", !.scope = scope]
         IN  opened \in Sessions /\ opened.pc = "open" /\ opened.scope = scope
<1>1. NotOpen \in Sessions
  <2>1. 0 \in 0 .. MaxSessActs /\ {} \in SUBSET Areas
    BY SessionToolsAssumption
  <2> QED BY <2>1 DEF NotOpen, Sessions
<1> QED BY <1>1 DEF Sessions

\* A session gets as far as it gets before it is used: it has told nothing and done nothing.
LEMMA SessionPrepared ==
  ASSUME SessToolsInv, NEW n \in SessNodes, NEW s \in Sessions, sess' = [sess EXCEPT ![n] = s],
         sess[n].pc \in {"none", "client", "create"}, s.pc \in {"client", "create", "open", "native", "rejected"},
         s.pc = "open" => s.scope = DeriveFileScope(n),
         s.pc \in {"client", "create"} => node[n].runtime = "copilot",
         node[n].runtime = "copilot" /\ s.pc \in {"create", "open"} => client = "ready" /\ "apiKey" \in keys,
         client' \in {"none", "starting", "ready", "broken"}, client = "ready" => client' = "ready",
         script' \in [SessNodes -> Scenarios \cup {<<>>}], \A m \in SessNodes \ {n} : script'[m] = script[m],
         node[n].runtime = "mock" /\ s.pc = "open" => script'[n] \in Scenarios,
         UNCHANGED <<node, keys, wrote, did, heard>>
  PROVE  SessToolsInv'
<1>1. sess \in [SessNodes -> Sessions] /\ heard \in [SessNodes -> Seq(Kinds)] /\ script \in [SessNodes -> Scenarios \cup {<<>>}]
  BY DEF SessToolsInv, SessToolsTypeOK, Sessions
<1>2. sess' \in [SessNodes -> Sessions] /\ sess'[n] = s /\ \A m \in SessNodes \ {n} : sess'[m] = sess[m]
  BY <1>1
<1>3. heard[n] = <<>> /\ Len(heard[n]) = 0
  BY DEF SessToolsInv, Tells
<1>4. \A m \in SessNodes : DeriveFileScope(m)' = DeriveFileScope(m)
  BY DEF DeriveFileScope
<1>5. \A w \in wrote : w[1] \in SessNodes
  BY DEF SessToolsInv, SessToolsTypeOK
<1>6. \A d \in did : d[1] \in SessNodes
  BY DEF SessToolsInv, SessToolsTypeOK
<1>7. \A m \in SessNodes : Len(heard[m]) <= Len(script'[m]) + 2
  <2> TAKE m \in SessNodes
  <2>1. CASE m = n
    <3>1. Len(script'[n]) \in Nat
      BY ScenarioShape
    <3> QED BY <1>3, <2>1, <3>1
  <2>2. CASE m # n
    BY <2>2 DEF SessToolsInv, SessToolsTypeOK
  <2> QED BY <2>1, <2>2
<1>8. SessToolsTypeOK'
  BY <1>2, <1>7 DEF SessToolsInv, SessToolsTypeOK, Sessions
<1>9. \A m \in SessNodes : Tells(m)'
  <2> TAKE m \in SessNodes
  <2>1. CASE m = n
    <3>1. node[n].runtime = "mock" /\ s.pc = "open" => Len(script'[n]) \in Nat
      BY ScenarioShape
    <3> QED BY <1>2, <1>3, <2>1, <3>1 DEF Tells
  <2>2. CASE m # n
    <3>1. Tells(m) /\ sess'[m] = sess[m] /\ script'[m] = script[m] /\ heard'[m] = heard[m] /\ node' = node
      BY <1>2, <2>2 DEF SessToolsInv
    <3> QED BY ONLY <3>1 DEF Tells, Telling
  <2> QED BY <2>1, <2>2
<1>10. \A w \in wrote : w[1] # n /\ \A d \in did : d[1] # n
  BY DEF SessToolsInv
<1>11. \A w \in wrote' : sess'[w[1]] = sess[w[1]]
  BY <1>2, <1>5, <1>10
<1>12. \A d \in did' : sess'[d[1]] = sess[d[1]]
  <2>1. \A d \in did : d[1] # n
    BY DEF SessToolsInv
  <2> QED BY <1>2, <1>6, <2>1
<1>13. \A w \in wrote' :
       /\ node'[w[1]].role = "looma" /\ sess'[w[1]].pc \in {"open", "ended"} /\ node'[w[1]].runtime # "mock"
       /\ w[3] # "exec_command" => w[2] \in DeriveFileScope(w[1])'
  BY <1>4, <1>5, <1>11 DEF SessToolsInv
<1>14. \A d \in did' : /\ sess'[d[1]].pc \in {"open", "ended"} /\ node'[d[1]].runtime # "mock"
                       /\ node'[d[1]].role # "loomex"
                       /\ d[2] = "escalate" => node'[d[1]].role = "loomi"
                       /\ d[2] = "report_complete" => node'[d[1]].role = "looma"
  BY <1>12 DEF SessToolsInv
<1>15. \A m \in SessNodes :
       /\ sess'[m].pc = "open" => sess'[m].scope = DeriveFileScope(m)'
       /\ sess'[m].pc \in {"client", "create"} => node'[m].runtime = "copilot"
       /\ node'[m].runtime = "copilot" /\ sess'[m].pc \in {"create", "open", "ended"}
            => client' = "ready" /\ "apiKey" \in keys'
  BY <1>2, <1>4 DEF SessToolsInv
<1> QED BY <1>1, <1>8, <1>9, <1>13, <1>14, <1>15 DEF SessToolsInv

LEMMA ScopesAreAreas ==
  ASSUME \A n \in SessNodes : node[n] \in SessKinds[n], NEW n \in SessNodes
  PROVE  /\ DeriveFileScope(n) \in SUBSET Areas /\ node[n].role \in {"loom", "loomi", "looma", "loomex"}
         /\ node[n].runtime \in {"loomi-native", "claude-agent", "copilot", "mock"}
<1>1. node[n] \in [runtime : {"loomi-native", "claude-agent", "copilot", "mock"},
                   role : {"loom", "loomi", "looma", "loomex"}, own : SUBSET Areas, others : SUBSET Areas]
  BY SessionToolsAssumption
<1> QED BY <1>1 DEF DeriveFileScope

LEMMA RunNodeStep ==
  ASSUME SessToolsInv, NEW n \in SessNodes, RunNode(n)
  PROVE  SessToolsInv'
<1>1. sess \in [SessNodes -> Sessions] /\ script \in [SessNodes -> Scenarios \cup {<<>>}]
      /\ client \in {"none", "starting", "ready", "broken"} /\ \A m \in SessNodes : node[m] \in SessKinds[m]
  BY DEF SessToolsInv, SessToolsTypeOK, Sessions
<1>2. DeriveFileScope(n) \in SUBSET Areas
  BY <1>1, ScopesAreAreas
<1>3. sess[n].pc = "none" /\ UNCHANGED <<node, keys, wrote, did, heard>>
  BY DEF RunNode
<1> DEFINE opened == [NotOpen EXCEPT !.pc = "open", !.scope = DeriveFileScope(n)]
           Gone(pc) == [sess[n] EXCEPT !.pc = pc]
<1>4. opened \in Sessions /\ opened.pc = "open" /\ opened.scope = DeriveFileScope(n)
  BY <1>2, OpenedIsASession
<1>5. ASSUME NEW pc \in {"native", "rejected", "client"}
      PROVE  Gone(pc) \in Sessions /\ Gone(pc).pc = pc
  BY <1>1 DEF Sessions
<1>6. ASSUME NEW pc \in {"native", "rejected", "client"}, SessGoes(n, pc)
      PROVE  sess' = [sess EXCEPT ![n] = Gone(pc)]
  BY <1>1, <1>6 DEF SessGoes, Sessions
<1> HIDE DEF opened, Gone
<1>7. CASE node[n].runtime = "loomi-native" /\ SessGoes(n, "native") /\ UNCHANGED <<script, client>>
  BY <1>1, <1>3, <1>5, <1>6, <1>7, SessionPrepared
<1>8. CASE SessGoes(n, "rejected") /\ UNCHANGED <<script, client>>
  BY <1>1, <1>3, <1>5, <1>6, <1>8, SessionPrepared
<1>9. CASE /\ node[n].runtime = "mock" /\ UNCHANGED client /\ sess' = [sess EXCEPT ![n] = opened]
           /\ \E s \in Scenarios : script' = [script EXCEPT ![n] = s]
  <2>1. PICK s \in Scenarios : script' = [script EXCEPT ![n] = s]
    BY <1>9
  <2>2. /\ script' \in [SessNodes -> Scenarios \cup {<<>>}] /\ script'[n] = s
        /\ \A m \in SessNodes \ {n} : script'[m] = script[m]
    BY <1>1, <2>1
  <2> QED BY <1>1, <1>3, <1>4, <1>9, <2>2, SessionPrepared
<1>10. CASE node[n].runtime = "claude-agent" /\ UNCHANGED <<script, client>> /\ sess' = [sess EXCEPT ![n] = opened]
  BY <1>1, <1>3, <1>4, <1>10, SessionPrepared
<1>11. CASE /\ node[n].runtime = "copilot" /\ UNCHANGED script /\ SessGoes(n, "client")
            /\ client' = IF client = "none" THEN "starting" ELSE client
  BY <1>1, <1>3, <1>5, <1>6, <1>11, SessionPrepared
<1> QED BY <1>7, <1>8, <1>9, <1>10, <1>11 DEF RunNode, opened

LEMMA CopilotOpensStep ==
  ASSUME SessToolsInv, NEW n \in SessNodes, CopilotOpens(n)
  PROVE  SessToolsInv'
<1>1. sess \in [SessNodes -> Sessions] /\ script \in [SessNodes -> Scenarios \cup {<<>>}]
      /\ client \in {"none", "starting", "ready", "broken"} /\ \A m \in SessNodes : node[m] \in SessKinds[m]
  BY DEF SessToolsInv, SessToolsTypeOK, Sessions
<1>2. DeriveFileScope(n) \in SUBSET Areas
  BY <1>1, ScopesAreAreas
<1>3. /\ UNCHANGED <<node, keys, client, wrote, did, script, heard>> /\ sess[n].pc \in {"client", "create"}
      /\ node[n].runtime = "copilot"
  BY DEF CopilotOpens, SessToolsInv
<1> DEFINE opened == [NotOpen EXCEPT !.pc = "open", !.scope = DeriveFileScope(n)]
           Gone(pc) == [sess[n] EXCEPT !.pc = pc]
<1>4. opened \in Sessions /\ opened.pc = "open" /\ opened.scope = DeriveFileScope(n)
  BY <1>2, OpenedIsASession
<1>5. ASSUME NEW pc \in {"create", "rejected"}
      PROVE  Gone(pc) \in Sessions /\ Gone(pc).pc = pc
  BY <1>1 DEF Sessions
<1>6. ASSUME NEW pc \in {"create", "rejected"}, SessGoes(n, pc)
      PROVE  sess' = [sess EXCEPT ![n] = Gone(pc)]
  BY <1>1, <1>6 DEF SessGoes, Sessions
<1>7. Accepts("copilot", Credentials) => "apiKey" \in keys
  BY DEF Accepts, Credentials
<1> HIDE DEF opened, Gone
<1>8. CASE SessGoes(n, "rejected")
  BY <1>1, <1>3, <1>5, <1>6, <1>8, SessionPrepared
<1>9. CASE SessGoes(n, "create") /\ client = "ready" /\ Accepts("copilot", Credentials)
  BY <1>1, <1>3, <1>5, <1>6, <1>7, <1>9, SessionPrepared
<1>10. CASE sess[n].pc = "create" /\ sess' = [sess EXCEPT ![n] = opened]
  <2>1. client = "ready" /\ "apiKey" \in keys
    BY <1>3, <1>10 DEF SessToolsInv
  <2> QED BY <1>1, <1>3, <1>4, <1>10, <2>1, SessionPrepared
<1> QED BY <1>8, <1>9, <1>10 DEF CopilotOpens, opened

\* What is said of a session, its node and its script is kept where none of them changes.
LEMMA ToldIsKept ==
  ASSUME NEW n, Tells(n), node' = node, sess'[n].pc = sess[n].pc, heard'[n] = heard[n], script'[n] = script[n]
  PROVE  Tells(n)'
BY DEF Tells, Telling

LEMMA UseToolStep ==
  ASSUME SessToolsInv, NEW n \in SessNodes, UseTool(n)
  PROVE  SessToolsInv'
<1>1. sess \in [SessNodes -> Sessions] /\ node[n].role \in {"loom", "loomi", "looma", "loomex"}
  BY ScopesAreAreas DEF SessToolsInv, SessToolsTypeOK, Sessions
<1>2. /\ sess[n].pc = "open" /\ node[n].runtime \in {"claude-agent", "copilot"} /\ sess[n].acts < MaxSessActs
      /\ sess' = [sess EXCEPT ![n].acts = @ + 1] /\ UNCHANGED <<node, keys, client, script, heard>>
  BY DEF UseTool
<1>3. /\ sess' \in [SessNodes -> Sessions]
      /\ \A m \in SessNodes : sess'[m].pc = sess[m].pc /\ sess'[m].scope = sess[m].scope
  <2>1. sess[n].acts + 1 \in 0 .. MaxSessActs
    BY <1>1, <1>2, SessionToolsAssumption DEF Sessions
  <2>2. [sess[n] EXCEPT !.acts = @ + 1] \in Sessions
    BY <1>1, <2>1 DEF Sessions
  <2>3. sess' = [sess EXCEPT ![n] = [sess[n] EXCEPT !.acts = @ + 1]]
    BY <1>2
  <2>4. /\ [sess[n] EXCEPT !.acts = @ + 1].pc = sess[n].pc
        /\ [sess[n] EXCEPT !.acts = @ + 1].scope = sess[n].scope
    BY <1>1 DEF Sessions
  <2> HIDE DEF Sessions
  <2> QED BY <1>1, <2>2, <2>3, <2>4
<1>4. PICK tool \in RoleTools(node[n].role) :
        \/ /\ tool \in {"write_file", "edit_file", "exec_command"} /\ UNCHANGED did
           /\ \E area \in Areas : CanUse(n, tool, area) /\ wrote' = wrote \cup {<<n, area, tool>>}
        \/ /\ tool \in {"write_memory", "send_message", "report_complete", "escalate"}
           /\ did' = did \cup {<<n, tool>>} /\ UNCHANGED wrote
  BY <1>1, ToolsOfRoles DEF UseTool
<1>5. /\ tool \in {"write_file", "edit_file", "exec_command", "report_complete"} => node[n].role = "looma"
      /\ tool = "escalate" => node[n].role = "loomi"
      /\ node[n].role = "loomex" => tool \in ReadTools
  BY <1>1, <1>4, ToolsOfRoles
<1>6. \A m \in SessNodes : Tells(m)' /\ DeriveFileScope(m)' = DeriveFileScope(m)
  BY <1>2, <1>3, ToldIsKept DEF SessToolsInv, DeriveFileScope
<1>7. /\ wrote' \subseteq SessNodes \X Areas \X {"write_file", "edit_file", "exec_command"}
      /\ \A w \in wrote' : /\ node[w[1]].role = "looma" /\ sess[w[1]].pc \in {"open", "ended"} /\ node[w[1]].runtime # "mock"
                           /\ w[3] # "exec_command" => w[2] \in DeriveFileScope(w[1])
  <2>1. CASE wrote' = wrote
    BY <2>1 DEF SessToolsInv, SessToolsTypeOK
  <2>2. ASSUME NEW area \in Areas, CanUse(n, tool, area), wrote' = wrote \cup {<<n, area, tool>>},
               tool \in {"write_file", "edit_file", "exec_command"}
        PROVE  <1>7!1 /\ <1>7!2
    <3>1. tool # "exec_command" => area \in DeriveFileScope(n)
      BY <1>2, <2>2 DEF CanUse, SessToolsInv
    <3>2. /\ wrote \subseteq SessNodes \X Areas \X {"write_file", "edit_file", "exec_command"}
          /\ \A w \in wrote : /\ node[w[1]].role = "looma" /\ sess[w[1]].pc \in {"open", "ended"} /\ node[w[1]].runtime # "mock"
                              /\ w[3] # "exec_command" => w[2] \in DeriveFileScope(w[1])
      BY DEF SessToolsInv, SessToolsTypeOK
    <3> QED BY <1>2, <1>5, <2>2, <3>1, <3>2
  <2> QED BY <1>4, <2>1, <2>2
<1>8. /\ did' \subseteq SessNodes \X {"write_memory", "send_message", "report_complete", "escalate"}
      /\ \A d \in did' : /\ sess[d[1]].pc \in {"open", "ended"} /\ node[d[1]].runtime # "mock"
                         /\ node[d[1]].role # "loomex"
                         /\ d[2] = "escalate" => node[d[1]].role = "loomi"
                         /\ d[2] = "report_complete" => node[d[1]].role = "looma"
  <2>1. CASE did' = did
    BY <2>1 DEF SessToolsInv, SessToolsTypeOK
  <2>2. CASE did' = did \cup {<<n, tool>>} /\ tool \in {"write_memory", "send_message", "report_complete", "escalate"}
    <3>1. node[n].role # "loomex"
      BY <1>5, <2>2 DEF ReadTools
    <3> QED BY <1>2, <1>5, <2>2, <3>1 DEF SessToolsInv, SessToolsTypeOK
  <2> QED BY <1>4, <2>1, <2>2
<1>9. SessToolsTypeOK'
  BY <1>2, <1>3, <1>7, <1>8 DEF SessToolsInv, SessToolsTypeOK, Sessions
<1>10. \A w \in wrote' : w[1] \in SessNodes
  BY <1>7
<1>11. \A d \in did' : d[1] \in SessNodes
  BY <1>8
<1> QED BY <1>2, <1>3, <1>6, <1>7, <1>8, <1>9, <1>10, <1>11 DEF SessToolsInv

\* An open session that is over stays as it was otherwise.
LEMMA SessionOverStep ==
  ASSUME SessToolsInv, NEW n \in SessNodes, SessionOver(n)
  PROVE  SessToolsInv'
<1>1. sess \in [SessNodes -> Sessions]
  BY DEF SessToolsInv, SessToolsTypeOK, Sessions
<1>2. /\ sess[n].pc = "open" /\ node[n].runtime \in {"claude-agent", "copilot"}
      /\ sess' = [sess EXCEPT ![n].pc = "ended"]
      /\ UNCHANGED <<node, keys, client, wrote, did, script, heard>>
  BY DEF SessionOver, SessGoes
<1>3. /\ sess' \in [SessNodes -> Sessions] /\ sess'[n].pc = "ended"
      /\ \A m \in SessNodes \ {n} : sess'[m] = sess[m]
  <2>1. [sess[n] EXCEPT !.pc = "ended"] \in Sessions /\ [sess[n] EXCEPT !.pc = "ended"].pc = "ended"
    BY <1>1 DEF Sessions
  <2>2. sess' = [sess EXCEPT ![n] = [sess[n] EXCEPT !.pc = "ended"]]
    BY <1>2
  <2> QED BY <1>1, <2>1, <2>2
<1>4. \A m \in SessNodes : DeriveFileScope(m)' = DeriveFileScope(m)
  BY <1>2 DEF DeriveFileScope
<1>5. \A m \in SessNodes : Tells(m)'
  <2>1. heard[n] = <<>> /\ Len(heard[n]) = 0
    BY <1>2 DEF SessToolsInv, Tells
  <2>2. Tells(n)'
    BY <1>2, <1>3, <2>1 DEF Tells
  <2> QED BY <1>2, <1>3, <2>2, ToldIsKept DEF SessToolsInv
<1>6. SessToolsTypeOK'
  BY <1>2, <1>3 DEF SessToolsInv, SessToolsTypeOK, Sessions
<1>7. (\A w \in wrote : w[1] \in SessNodes) /\ \A d \in did : d[1] \in SessNodes
  BY DEF SessToolsInv, SessToolsTypeOK
<1> QED BY <1>2, <1>3, <1>4, <1>5, <1>6, <1>7 DEF SessToolsInv

\* The mock's replay goes on to what it tells next, or ends.
LEMMA ReplaySteps ==
  ASSUME SessToolsInv, NEW n \in SessNodes, Replay(n) \/ ReplayAborts(n)
  PROVE  SessToolsInv'
<1>1. sess \in [SessNodes -> Sessions] /\ heard \in [SessNodes -> Seq(Kinds)]
  BY DEF SessToolsInv, SessToolsTypeOK, Sessions
<1>2. /\ sess[n].pc = "open" /\ node[n].runtime = "mock"
      /\ UNCHANGED <<node, keys, client, wrote, did, script>>
  BY DEF Replay, ReplayAborts
<1>3. /\ script[n] \in Scenarios /\ script[n] \in Seq(Kinds) /\ Len(script[n]) \in Nat
      /\ heard[n] \in Seq(Kinds) /\ Len(heard[n]) \in Nat /\ Len(heard[n]) <= Len(script[n]) + 1
  BY <1>1, <1>2, ScenarioShape DEF SessToolsInv, Tells
<1>4. \A i \in 1 .. Len(heard[n]) : heard[n][i] = IF i = 1 THEN "started" ELSE script[n][i - 1]
  BY <1>2, <1>3 DEF SessToolsInv, Tells, Telling
<1>5. ASSUME NEW said \in Kinds, NEW pc \in {"open", "ended", "aborted"},
             heard' = [heard EXCEPT ![n] = Append(@, said)],
             (pc = "open" /\ UNCHANGED sess) \/ SessGoes(n, pc),
             pc = "open" => Len(heard[n]) <= Len(script[n])
                            /\ said = IF Len(heard[n]) = 0 THEN "started" ELSE script[n][Len(heard[n])],
             pc = "ended" => Len(heard[n]) = Len(script[n]) + 1 /\ said = "completed",
             pc = "aborted" => Len(heard[n]) >= 1 /\ said = "aborted"
      PROVE  SessToolsInv'
  <2>1. /\ sess' \in [SessNodes -> Sessions] /\ sess'[n].pc = pc /\ sess'[n].scope = sess[n].scope
        /\ \A m \in SessNodes \ {n} : sess'[m] = sess[m]
    <3>1. [sess[n] EXCEPT !.pc = pc] \in Sessions /\ [sess[n] EXCEPT !.pc = pc].pc = pc
          /\ [sess[n] EXCEPT !.pc = pc].scope = sess[n].scope
      BY <1>1 DEF Sessions
    <3>2. (sess' = sess /\ pc = "open") \/ sess' = [sess EXCEPT ![n] = [sess[n] EXCEPT !.pc = pc]]
      BY <1>5 DEF SessGoes
    <3> QED BY <1>1, <1>2, <3>1, <3>2
  <2>2. /\ heard' \in [SessNodes -> Seq(Kinds)] /\ heard'[n] = Append(heard[n], said)
        /\ \A m \in SessNodes \ {n} : heard'[m] = heard[m]
    BY <1>1, <1>3, <1>5
  <2>3. /\ Len(heard'[n]) = Len(heard[n]) + 1 /\ heard'[n] # <<>> /\ heard'[n][Len(heard[n]) + 1] = said
        /\ \A i \in 1 .. Len(heard[n]) : heard'[n][i] = heard[n][i]
    BY <1>3, <2>2
  <2>4. Tells(n)'
    <3>1. \A i \in 1 .. Len(heard'[n]) : heard'[n][i] = Telling(n, i)'
      <4> TAKE i \in 1 .. Len(heard'[n])
      <4>1. CASE i = Len(heard[n]) + 1
        BY <1>2, <1>3, <1>5, <2>1, <2>3, <4>1 DEF Telling
      <4>2. CASE i \in 1 .. Len(heard[n])
        <5>1. i # Len(script[n]) + 2 /\ i # Len(heard'[n])
          BY <1>3, <2>3, <4>2
        <5> QED BY <1>2, <1>4, <2>3, <4>2, <5>1 DEF Telling
      <4> QED BY <1>3, <2>3, <4>1, <4>2
    <3> QED BY <1>2, <1>3, <1>5, <2>1, <2>3, <3>1 DEF Tells
  <2>5. \A m \in SessNodes : Tells(m)'
    BY <1>2, <2>1, <2>2, <2>4, ToldIsKept DEF SessToolsInv
  <2>6. \A m \in SessNodes : Len(heard'[m]) <= Len(script'[m]) + 2
    <3>1. Len(heard[n]) + 1 <= Len(script[n]) + 2 /\ script' = script
      BY <1>2, <1>3
    <3>2. \A m \in SessNodes : Len(heard[m]) <= Len(script[m]) + 2
      BY DEF SessToolsInv, SessToolsTypeOK
    <3> QED BY <2>2, <2>3, <3>1, <3>2
  <2>7. SessToolsTypeOK'
    BY <1>2, <2>1, <2>6 DEF SessToolsInv, SessToolsTypeOK, Sessions
  <2>8. \A m \in SessNodes : DeriveFileScope(m)' = DeriveFileScope(m)
    BY <1>2 DEF DeriveFileScope
  <2>9. (\A w \in wrote : w[1] \in SessNodes) /\ \A d \in did : d[1] \in SessNodes
    BY DEF SessToolsInv, SessToolsTypeOK
  <2>10. (\A w \in wrote : w[1] # n) /\ \A d \in did : d[1] # n
    BY <1>2 DEF SessToolsInv
  <2>11. \A m \in SessNodes :
       /\ sess'[m].pc = "open" => sess'[m].scope = DeriveFileScope(m)'
       /\ sess'[m].pc \in {"client", "create"} => node'[m].runtime = "copilot"
       /\ node'[m].runtime = "copilot" /\ sess'[m].pc \in {"create", "open", "ended"}
            => client' = "ready" /\ "apiKey" \in keys'
    BY <1>2, <2>1, <2>8 DEF SessToolsInv
  <2>12. (\A w \in wrote : sess'[w[1]] = sess[w[1]]) /\ \A d \in did : sess'[d[1]] = sess[d[1]]
    BY <2>1, <2>9, <2>10
  <2> QED BY <1>2, <2>1, <2>2, <2>5, <2>7, <2>8, <2>9, <2>11, <2>12 DEF SessToolsInv
<1>6. CASE Replay(n)
  <2>1. CASE Len(heard[n]) <= Len(script[n])
    <3> DEFINE said == IF Len(heard[n]) = 0 THEN "started" ELSE script[n][Len(heard[n])]
    <3>1. heard' = [heard EXCEPT ![n] = Append(@, said)] /\ UNCHANGED sess
      BY <1>6, <2>1 DEF Replay
    <3>2. said \in Kinds
      BY <1>3, <2>1 DEF Kinds
    <3> QED BY <1>5, <2>1, <3>1, <3>2
  <2>2. CASE Len(heard[n]) > Len(script[n])
    <3>1. heard' = [heard EXCEPT ![n] = Append(@, "completed")] /\ SessGoes(n, "ended")
      BY <1>3, <1>6, <2>2 DEF Replay
    <3>2. "completed" \in Kinds /\ Len(heard[n]) = Len(script[n]) + 1
      BY <1>3, <2>2 DEF Kinds
    <3> QED BY <1>5, <3>1, <3>2
  <2> QED BY <1>3, <2>1, <2>2
<1>7. CASE ReplayAborts(n)
  <2>1. heard' = [heard EXCEPT ![n] = Append(@, "aborted")] /\ SessGoes(n, "aborted") /\ Len(heard[n]) >= 1
    BY <1>3, <1>7 DEF ReplayAborts
  <2>2. "aborted" \in Kinds
    BY DEF Kinds
  <2> QED BY <1>5, <2>1, <2>2
<1> QED BY <1>6, <1>7

LEMMA ClientStartsStep == SessToolsInv /\ ClientStarts => SessToolsInv'
<1> SUFFICES ASSUME SessToolsInv, ClientStarts PROVE SessToolsInv'
  OBVIOUS
<1>1. client = "starting" /\ client' \in {"ready", "broken"}
      /\ UNCHANGED <<node, keys, sess, wrote, did, script, heard>>
  BY DEF ClientStarts
<1>2. \A n \in SessNodes : Tells(n)' /\ DeriveFileScope(n)' = DeriveFileScope(n)
  BY <1>1, ToldIsKept DEF SessToolsInv, DeriveFileScope
<1>3. (\A w \in wrote : w[1] \in SessNodes) /\ SessToolsTypeOK'
  BY <1>1 DEF SessToolsInv, SessToolsTypeOK
<1> QED BY <1>1, <1>2, <1>3 DEF SessToolsInv

LEMMA SessToolsInvStep == SessToolsInv /\ [SessToolsNext]_sessToolVars => SessToolsInv'
<1> SUFFICES ASSUME SessToolsInv, [SessToolsNext]_sessToolVars PROVE SessToolsInv'
  OBVIOUS
<1>1. CASE UNCHANGED sessToolVars
  <2>1. UNCHANGED <<node, keys, sess, client, wrote, did, script, heard>>
    BY <1>1 DEF sessToolVars
  <2>2. \A n \in SessNodes : Tells(n)' /\ DeriveFileScope(n)' = DeriveFileScope(n)
    BY <2>1, ToldIsKept DEF SessToolsInv, DeriveFileScope
  <2>3. (\A w \in wrote : w[1] \in SessNodes) /\ SessToolsTypeOK'
    BY <2>1 DEF SessToolsInv, SessToolsTypeOK
  <2> QED BY <2>1, <2>2, <2>3 DEF SessToolsInv
<1>2. CASE ClientStarts
  BY <1>2, ClientStartsStep
<1>3. ASSUME NEW n \in SessNodes,
             RunNode(n) \/ CopilotOpens(n) \/ UseTool(n) \/ SessionOver(n) \/ Replay(n) \/ ReplayAborts(n)
      PROVE  SessToolsInv'
  BY <1>3, RunNodeStep, CopilotOpensStep, UseToolStep, SessionOverStep, ReplaySteps
<1> QED BY <1>1, <1>2, <1>3 DEF SessToolsNext

LEMMA SessToolsInvImplies == SessToolsInv => SessToolsTypeOK /\ SessionsStayInside
<1> SUFFICES ASSUME SessToolsInv PROVE SessionsStayInside
  BY DEF SessToolsInv
<1>1. \A w \in wrote :
       /\ node[w[1]].role = "looma"
       /\ w[3] # "exec_command" /\ node[w[1]].own # {} => w[2] \in node[w[1]].own
       /\ w[3] # "exec_command" /\ node[w[1]].own = {} /\ node[w[1]].others # {} => w[2] \in node[w[1]].others
  BY DEF SessToolsInv, DeriveFileScope
<1>2. \A n \in SessNodes : sess[n].pc = "rejected" => (\A w \in wrote : w[1] # n) /\ \A d \in did : d[1] # n
  BY DEF SessToolsInv
<1>3. ASSUME NEW n \in SessNodes
      PROVE  /\ \A i \in 1 .. Len(heard[n]) : heard[n][i] = "result" => i > 1 /\ heard[n][i - 1] = "call"
             /\ heard[n] # <<>> /\ heard[n][Len(heard[n])] = "completed" =>
                  \E i \in 1 .. Len(heard[n]) :
                    /\ heard[n][i] = "cost" /\ heard[n][i + 1] = "idle"
                    /\ \A j \in 1 .. Len(heard[n]) : heard[n][j] = "cost" => j = i
  <2>1. Tells(n) /\ heard[n] \in Seq(Kinds) /\ Len(heard[n]) \in Nat /\ Len(heard[n]) <= Len(script[n]) + 2
    BY DEF SessToolsInv, SessToolsTypeOK
  <2>2. CASE heard[n] = <<>>
    BY <2>2
  <2>3. CASE heard[n] # <<>>
    <3> DEFINE s == script[n]
    <3>1. /\ s \in Scenarios /\ s \in Seq(Kinds) /\ Len(s) \in Nat /\ Len(s) >= 3
          /\ s[Len(s) - 1] = "cost" /\ s[Len(s)] = "idle"
          /\ \A i \in 1 .. Len(s) : /\ s[i] = "result" => i > 1 /\ s[i - 1] = "call"
                                    /\ s[i] = "cost" => i = Len(s) - 1
                                    /\ s[i] \notin {"started", "completed", "aborted"}
      BY <2>1, <2>3, ScenarioShape DEF Tells
    <3> HIDE DEF s
    <3>2. \A i \in 1 .. Len(heard[n]) :
            \/ i = 1 /\ heard[n][i] = "started"
            \/ i > 1 /\ i = Len(heard[n]) /\ heard[n][i] = "aborted"
            \/ i = Len(s) + 2 /\ i = Len(heard[n]) /\ heard[n][i] = "completed"
            \/ i > 1 /\ i - 1 \in 1 .. Len(s) /\ heard[n][i] = s[i - 1]
      <4> TAKE i \in 1 .. Len(heard[n])
      <4>1. heard[n][i] = Telling(n, i)
        BY <2>1 DEF Tells
      <4> QED BY <2>1, <3>1, <4>1 DEF Telling, s
    <3>3. \A i \in 1 .. Len(heard[n]) : heard[n][i] = "result" => i > 1 /\ heard[n][i - 1] = "call"
      <4> SUFFICES ASSUME NEW i \in 1 .. Len(heard[n]), heard[n][i] = "result"
                   PROVE  i > 1 /\ heard[n][i - 1] = "call"
        OBVIOUS
      <4>1. i > 1 /\ i - 1 \in 1 .. Len(s) /\ s[i - 1] = "result"
        BY <3>2
      <4>2. i - 1 > 1 /\ s[i - 2] = "call" /\ i - 2 \in 1 .. Len(s) /\ i - 1 \in 1 .. Len(heard[n])
        BY <2>1, <3>1, <4>1
      <4>3. i - 1 # Len(heard[n]) /\ i - 1 # 1
        BY <2>1, <4>2
      <4>4. heard[n][i - 1] = s[i - 1 - 1]
        BY <3>2, <4>2, <4>3
      <4> QED BY <4>1, <4>2, <4>4
    <3>4. ASSUME heard[n][Len(heard[n])] = "completed"
          PROVE  \E i \in 1 .. Len(heard[n]) :
                    /\ heard[n][i] = "cost" /\ heard[n][i + 1] = "idle"
                    /\ \A j \in 1 .. Len(heard[n]) : heard[n][j] = "cost" => j = i
      <4>1. Len(heard[n]) \in 1 .. Len(heard[n])
        BY <2>1, <2>3
      <4>2. Len(heard[n]) = Len(s) + 2
        <5>1. ~(Len(heard[n]) - 1 \in 1 .. Len(s) /\ heard[n][Len(heard[n])] = s[Len(heard[n]) - 1])
          BY <3>1, <3>4
        <5> QED BY <3>2, <3>4, <4>1, <5>1
      <4>3. Len(s) \in 1 .. Len(heard[n]) /\ Len(s) + 1 \in 1 .. Len(heard[n])
        BY <3>1, <4>2
      <4>4. heard[n][Len(s)] = "cost"
        BY <3>1, <3>2, <4>2, <4>3
      <4>5. heard[n][Len(s) + 1] = "idle"
        BY <3>1, <3>2, <4>2, <4>3
      <4>6. ASSUME NEW j \in 1 .. Len(heard[n]), heard[n][j] = "cost"
            PROVE  j = Len(s)
        <5>1. j - 1 \in 1 .. Len(s) /\ s[j - 1] = "cost"
          BY <3>2, <4>6
        <5> QED BY <3>1, <5>1
      <4> QED BY <4>3, <4>4, <4>5, <4>6
    <3> QED BY <3>3, <3>4
  <2> QED BY <2>2, <2>3
<1> QED BY <1>1, <1>2, <1>3 DEF SessToolsInv, SessionsStayInside

\* Whatever kinds of session there are and whatever tools they try: files are written by workers
\* alone and in their scope, and a session that could not open has done nothing (run-node.ts,
\* can-use-tool.ts, loomflo-tools.ts and the runtimes).
THEOREM SessionsStayInsideHolds == SessToolsSpec => []SessionsStayInside
<1>1. SessToolsInit => SessToolsInv
  <2> SUFFICES ASSUME SessToolsInit PROVE SessToolsInv
    OBVIOUS
  <2>1. DOMAIN node = SessNodes /\ \A n \in SessNodes : node[n] \in SessKinds[n]
    BY DEF SessToolsInit
  <2>2. keys \subseteq {"apiKey", "claudeOauth"} /\ SessToolsStart
    BY DEF SessToolsInit
  <2> QED BY <2>1, <2>2, SessToolsInvInit
<1> QED BY <1>1, SessToolsInvStep, SessToolsInvImplies, PTL DEF SessToolsSpec

-----------------------------------------------------------------------------
(* ... and what becomes of one                                             *)

\* The subscriber has counted what the session has spent, and disposes of it once it has ended.
SessionInv ==
  /\ SessionTypeOK /\ counted = spent
  /\ disposal # "none" => session \in {"completed", "aborted", "error"}

LEMMA SessionInvInit == SessionInit => SessionInv
<1> SUFFICES ASSUME SessionInit PROVE SessionInv
  OBVIOUS
<1>1. 0 \in 0 .. MaxCost
  BY SessionAssumption
<1> QED BY <1>1 DEF SessionInit, SessionInv, SessionTypeOK

LEMMA CostUpdateKeeps ==
  ASSUME SessionInv, NEW usd \in 0 .. MaxCost, CostUpdate(usd)
  PROVE  spent' \in 0 .. MaxCost /\ counted' = spent' /\ overCap' \in BOOLEAN /\ aborted' \in BOOLEAN
<1>1. spent' = spent + usd /\ counted' = counted + usd /\ spent + usd <= MaxCost
  BY DEF CostUpdate, CountCost
<1>2. spent' \in 0 .. MaxCost /\ counted' = spent'
  BY <1>1, SessionAssumption DEF SessionInv, SessionTypeOK
<1>3. overCap' \in BOOLEAN /\ aborted' \in BOOLEAN
  BY DEF CostUpdate
<1> QED BY <1>2, <1>3

LEMMA SessionInvStep == SessionInv /\ [SessionNext]_sessionVars => SessionInv'
<1> SUFFICES ASSUME SessionInv, [SessionNext]_sessionVars PROVE SessionInv'
  OBVIOUS
<1> USE DEF SessionInv, SessionTypeOK
<1>1. CASE UNCHANGED sessionVars
  BY <1>1 DEF sessionVars
<1>2. CASE StartSession
  BY <1>2 DEF StartSession
<1>3. CASE SessionMessage
  <2>1. PICK usd \in 1 .. MaxCost : CostUpdate(usd)
    BY <1>3 DEF SessionMessage
  <2>2. usd \in 0 .. MaxCost
    BY SessionAssumption
  <2> QED BY <1>3, <2>1, <2>2, CostUpdateKeeps DEF SessionMessage
<1>4. CASE MockAborts \/ SessionCompletes \/ StreamThrows \/ CopilotFails
  BY <1>4 DEF MockAborts, SessionCompletes, StreamThrows, CopilotFails, Ended
<1>5. CASE CopilotAnswers
  <2>1. PICK usd \in 0 .. MaxCost : IF usd > 0 THEN CostUpdate(usd) ELSE UNCHANGED <<aborted, spent, counted, overCap>>
    BY <1>5 DEF CopilotAnswers
  <2>2. spent' \in 0 .. MaxCost /\ counted' = spent' /\ overCap' \in BOOLEAN /\ aborted' \in BOOLEAN
    BY <2>1, CostUpdateKeeps
  <2> QED BY <1>5, <2>2 DEF CopilotAnswers, Ended
<1>6. CASE DisposalSettles
  BY <1>6 DEF DisposalSettles
<1>7. CASE NodeAnswered
  BY <1>7 DEF NodeAnswered
<1> QED BY <1>1, <1>2, <1>3, <1>4, <1>5, <1>6, <1>7 DEF SessionNext

-----------------------------------------------------------------------------
(* Files and the shared memory                                             *)

(* Theorems: no edit and no entry of the shared memory is lost.            *)

\* The entries are numbered as they are recorded, and are there only with the file; initialize
\* gets to its writing only while there are none.
MemoryInv ==
  /\ memory \in [exists : BOOLEAN, titled : BOOLEAN, entries : Seq(Nat)]
  /\ Len(memory.entries) \in Nat
  /\ memory.entries = [i \in 1 .. Len(memory.entries) |-> i]
  /\ recorded = 1 .. Len(memory.entries)
  /\ ~memory.exists \/ init = "writing" => memory.entries = <<>>
  /\ init = "checked" => ~memory.exists
  /\ mutex # "free" => init = "done"

\* A file with no entries.
LEMMA NoEntries == /\ 1 .. 0 = {} /\ <<>> = [i \in 1 .. 0 |-> i] /\ Len(<<>>) = 0
                   /\ <<>> \in Seq(Nat) /\ <<>> \in Seq(1 .. MaxEntries)
OBVIOUS

LEMMA MemoryInvStarts ==
  ASSUME memory = NoMemory, init \in {"due", "done"}, mutex = "free", recorded = {}
  PROVE  MemoryInv
<1>1. memory.exists = FALSE /\ memory.entries = <<>> /\ memory = [exists |-> FALSE, titled |-> FALSE, entries |-> <<>>]
  BY DEF NoMemory
<1>2. memory \in [exists : BOOLEAN, titled : BOOLEAN, entries : Seq(Nat)]
  BY ONLY <1>1, NoEntries
<1>3. /\ Len(memory.entries) \in Nat /\ memory.entries = [i \in 1 .. Len(memory.entries) |-> i]
      /\ recorded = 1 .. Len(memory.entries)
  <2>1. recorded = {}
    OBVIOUS
  <2> QED BY ONLY <1>1, <2>1, NoEntries
<1>4. init # "checked" /\ init # "writing" /\ init \in {"due", "done"} /\ mutex = "free"
  OBVIOUS
<1> QED BY ONLY <1>1, <1>2, <1>3, <1>4 DEF MemoryInv

LEMMA MemoryInvInit ==
  ASSUME ToolsInit
  PROVE  MemoryInv
BY MemoryInvStarts DEF ToolsInit

\* The next entry is the one after the last.
LEMMA AppendKeeps ==
  ASSUME MemoryInv, init = "done", Append1(NextEntry), init' = init
  PROVE  MemoryInv'
<1> DEFINE n == Len(memory.entries)
<1>1. n \in Nat /\ recorded = 1 .. n
  BY DEF MemoryInv
<1>2. Cardinality(recorded) = n
  <2>1. Cardinality(1 .. n) = IF 1 > n THEN 0 ELSE n - 1 + 1
    BY <1>1, FS_Interval
  <2> QED BY <1>1, <2>1
<1>3. /\ memory' = [memory EXCEPT !.exists = TRUE, !.entries = Append(@, n + 1)]
      /\ recorded' = recorded \cup {n + 1}
  BY <1>2 DEF Append1, NextEntry
<1>4. memory'.exists /\ memory'.entries = Append(memory.entries, n + 1)
  BY <1>3 DEF MemoryInv
<1>5. memory'.entries = [i \in 1 .. n + 1 |-> i] /\ Len(memory'.entries) = n + 1
  BY <1>1, <1>4 DEF MemoryInv
<1>6. recorded' = 1 .. n + 1
  BY <1>1, <1>3
<1>7. memory' \in [exists : BOOLEAN, titled : BOOLEAN, entries : Seq(Nat)]
  <2>1. Append(memory.entries, n + 1) \in Seq(Nat)
    BY <1>1 DEF MemoryInv
  <2> QED BY <1>3, <2>1 DEF MemoryInv
<1>8. init' = "done"
  OBVIOUS
<1> HIDE DEF n
<1> QED BY <1>1, <1>4, <1>5, <1>6, <1>7, <1>8 DEF MemoryInv

LEMMA MemoryInvStep ==
  ASSUME MemoryInv, [ToolsNext]_toolVars
  PROVE  MemoryInv'
<1>1. CASE UNCHANGED memoryVars
  BY <1>1 DEF memoryVars, MemoryInv
<1>2. CASE InitChecks
  BY <1>2 DEF InitChecks, MemoryInv
<1>3. CASE InitTruncates
  BY <1>3 DEF InitTruncates, MemoryInv, NoMemory
<1>4. CASE InitTitles
  BY <1>4 DEF InitTitles, MemoryInv
<1>5. ASSUME NEW a \in Agents, TakeMutex(a) PROVE MemoryInv'
  BY <1>5 DEF TakeMutex, MemoryInv
<1>6. CASE WriteEntry
  BY <1>6, AppendKeeps DEF WriteEntry, MemoryInv
<1>7. CASE ToolEntry
  BY <1>7, AppendKeeps DEF ToolEntry
<1>8. CASE Restart
  BY <1>8 DEF Restart, MemoryInv
<1> QED BY <1>1, <1>2, <1>3, <1>4, <1>5, <1>6, <1>7, <1>8
        DEF ToolsNext, WriteFile, EditReads, EditWrites, EditRefused, toolVars, memoryVars

LEMMA MemoryInvImplies ==
  ASSUME MemoryInv
  PROVE  EntriesSurvive
<1> DEFINE n == Len(memory.entries)
<1>1. n \in Nat /\ memory.entries = [i \in 1 .. n |-> i] /\ recorded = 1 .. n
  BY DEF MemoryInv
<1> HIDE DEF n
<1>2. Range(memory.entries) = 1 .. n
  BY <1>1 DEF Range
<1> QED BY <1>1, <1>2 DEF EntriesSurvive

\* "Existing files are not overwritten": whatever crashes, restarts and writers there are, the
\* memory file has every entry whose write has resolved, once and in order
\* (shared-memory.ts, initialize and write; memory-write.ts).
THEOREM EntriesSurviveHolds == ToolsSpec => []EntriesSurvive
<1> QED BY MemoryInvInit, MemoryInvStep, MemoryInvImplies, PTL DEF ToolsSpec

-----------------------------------------------------------------------------
(* Edits                                                                   *)

\* An edit under way is of a file in its agent's scope, and of what the file still has.
EditInv ==
  /\ \A a, b \in Agents, path \in Files : MayWrite(a, path) /\ MayWrite(b, path) => a = b
  /\ content \in [Files -> Nat]
  /\ editing \in [Agents -> [path : Files \cup {<<>>}, read : Nat]]
  /\ \A a \in Agents : ~Free(a) =>
       /\ editing[a].path \in Files /\ MayWrite(a, editing[a].path)
       /\ content[editing[a].path] = editing[a].read

LEMMA EditInvInit ==
  ASSUME GlobsSeparate, ToolsInit
  PROVE  EditInv
<1>1. ASSUME NEW a \in Agents, NEW b \in Agents, NEW path \in Files,
             MayWrite(a, path), MayWrite(b, path), a # b
      PROVE  FALSE
  <2>1. PICK glob1 \in Globs : writeScope[a] = {glob1}
    BY DEF ToolsInit
  <2>2. PICK glob2 \in Globs : writeScope[b] = {glob2}
    BY DEF ToolsInit
  <2>3. ~Overlap(writeScope[a], writeScope[b])
    BY <1>1 DEF ToolsInit, ValidScopes
  <2>4. Matches(glob1, path) /\ Matches(glob2, path)
    BY <1>1, <2>1, <2>2 DEF MayWrite, InScope
  <2> QED BY <2>1, <2>2, <2>3, <2>4 DEF GlobsSeparate
<1>2. editing = [a \in Agents |-> NotEditing] /\ content = [f \in Files |-> 0]
  BY DEF ToolsInit
<1> QED BY <1>1, <1>2 DEF EditInv, Free, NotEditing

LEMMA EditInvStep ==
  ASSUME EditInv, [ToolsNext]_toolVars
  PROVE  EditInv'
<1> USE DEF EditInv, Free, MayWrite
<1>1. ASSUME NEW a \in Agents, NEW path \in Files, WriteFile(a, path) PROVE EditInv'
  BY <1>1 DEF WriteFile
<1>2. ASSUME NEW a \in Agents, NEW path \in Files, EditReads(a, path) PROVE EditInv'
  BY <1>2 DEF EditReads, NotEditing
<1>3. ASSUME NEW a \in Agents, EditWrites(a) PROVE EditInv'
  BY <1>3 DEF EditWrites, NotEditing
<1>4. ASSUME NEW a \in Agents, EditRefused(a) PROVE EditInv'
  BY <1>4 DEF EditRefused, NotEditing
<1>5. CASE UNCHANGED <<writeScope, fileVars>>
  BY <1>5 DEF fileVars
<1>6. CASE Restart
  BY <1>6 DEF Restart, NotEditing
<1> QED BY <1>1, <1>2, <1>3, <1>4, <1>5, <1>6
        DEF ToolsNext, TakeMutex, InitChecks, InitTruncates, InitTitles, WriteEntry, ToolEntry,
            toolVars, fileVars

\* Where accepted scopes share no file, no edit_file writes over what it has not read, although
\* it takes no lock (file-edit.ts, lines 66 to 95).
THEOREM EditsLoseNothingHolds ==
  ASSUME GlobsSeparate
  PROVE  ToolsSpec => EditsLoseNothing
<1>1. ToolsInit => EditInv
  BY EditInvInit
<1>2. EditInv /\ [ToolsNext]_toolVars => EditInv'
  BY EditInvStep
<1>3. EditInv =>
        [\A a \in Agents : EditWrites(a) => content[editing[a].path] = editing[a].read]_toolVars
  BY DEF EditInv, EditWrites
<1> QED BY <1>1, <1>2, <1>3, PTL DEF ToolsSpec, EditsLoseNothing

-----------------------------------------------------------------------------
(* Types                                                                   *)

\* A file has room for the write that an edit ends with.
EditsHaveRoom ==
  \A a \in Agents : ~Free(a) => editing[a].path \in Files /\ editing[a].read < MaxWrites
ToolsInv == ToolsTypeOK /\ EditsHaveRoom /\ MemoryInv

\* The first of everything is within the bounds.
LEMMA FirstOnes == 0 \in 0 .. MaxWrites /\ 1 \in 1 .. MaxStarts
BY ToolsAssumption

LEMMA ToolsInvStarts ==
  ASSUME writeScope \in [Agents -> SUBSET Globs], content = [f \in Files |-> 0],
         editing = [a \in Agents |-> NotEditing], memory = NoMemory, init \in {"due", "done"}, mutex = "free",
         recorded = {}, starts = 1
  PROVE  ToolsInv
<1>1. 0 \in 0 .. MaxWrites /\ 1 \in 1 .. MaxStarts
  BY FirstOnes
<1>2. NotEditing \in [path : Files \cup {<<>>}, read : 0 .. MaxWrites]
  BY <1>1 DEF NotEditing
<1>3. memory.exists = FALSE /\ memory.titled = FALSE /\ memory.entries = <<>>
  BY DEF NoMemory
<1>4. <<>> \in Seq(1 .. MaxEntries)
  BY NoEntries
<1>5. ToolsTypeOK
  BY <1>1, <1>2, <1>3, <1>4 DEF ToolsTypeOK
<1>6. EditsHaveRoom
  BY DEF EditsHaveRoom, Free
<1>7. MemoryInv
  BY MemoryInvStarts
<1> QED BY <1>5, <1>6, <1>7 DEF ToolsInv

LEMMA ToolsInvInit ==
  ASSUME ToolsInit
  PROVE  ToolsInv
<1>1. writeScope \in [Agents -> SUBSET Globs]
  <2>1. writeScope \in [Agents -> {{g} : g \in Globs}]
    BY DEF ToolsInit
  <2>2. {{g} : g \in Globs} \subseteq SUBSET Globs
    OBVIOUS
  <2> HIDE DEF ToolsInit
  <2> QED BY ONLY <2>1, <2>2
<1> QED BY <1>1, ToolsInvStarts DEF ToolsInit

LEMMA AppendTypes ==
  ASSUME ToolsInv, Append1(NextEntry)
  PROVE  /\ memory'.exists \in BOOLEAN /\ memory'.titled \in BOOLEAN /\ memory'.entries \in Seq(1 .. MaxEntries)
         /\ recorded' \subseteq 1 .. MaxEntries
<1> DEFINE n == Len(memory.entries)
           next == n + 1
<1>1. n \in Nat /\ recorded = 1 .. n
  BY DEF ToolsInv, MemoryInv
<1>2. Cardinality(recorded) = n
  <2>1. Cardinality(1 .. n) = IF 1 > n THEN 0 ELSE n - 1 + 1
    BY <1>1, FS_Interval
  <2> QED BY <1>1, <2>1
<1>3. /\ memory' = [memory EXCEPT !.exists = TRUE, !.entries = Append(@, next)]
      /\ recorded' = recorded \cup {next} /\ next <= MaxEntries
  BY <1>2 DEF Append1, NextEntry
<1>4. next \in 1 .. MaxEntries
  BY <1>1, <1>3, ToolsAssumption
<1> HIDE DEF next
<1>5. Append(memory.entries, next) \in Seq(1 .. MaxEntries)
  BY <1>4 DEF ToolsInv, ToolsTypeOK
<1>6. memory'.exists = TRUE /\ memory'.titled = memory.titled /\ memory'.entries = Append(memory.entries, next)
  BY <1>3 DEF ToolsInv, MemoryInv
<1> QED BY <1>3, <1>4, <1>5, <1>6 DEF ToolsInv, ToolsTypeOK

LEMMA ToolsInvStep ==
  ASSUME ToolsInv, [ToolsNext]_toolVars
  PROVE  ToolsInv'
<1>1. MemoryInv'
  BY MemoryInvStep DEF ToolsInv
<1>2. ASSUME UNCHANGED <<writeScope, fileVars, starts>>, init' \in {"due", "checked", "writing", "done"},
             mutex' \in Agents \cup {"free"},
             memory'.exists \in BOOLEAN /\ memory'.titled \in BOOLEAN /\ memory'.entries \in Seq(1 .. MaxEntries),
             recorded' \subseteq 1 .. MaxEntries
      PROVE  ToolsInv'
  BY <1>1, <1>2 DEF ToolsInv, ToolsTypeOK, EditsHaveRoom, Free, fileVars
<1>3. CASE UNCHANGED toolVars
  BY <1>1, <1>3 DEF toolVars, ToolsInv, ToolsTypeOK, EditsHaveRoom, Free
<1>4. ASSUME NEW a \in Agents, NEW path \in Files, WriteFile(a, path) PROVE ToolsInv'
  <2>1. content[path] + 1 \in 0 .. MaxWrites
    BY <1>4, ToolsAssumption DEF WriteFile, ToolsInv, ToolsTypeOK
  <2>2. content' \in [Files -> 0 .. MaxWrites]
    BY <1>4, <2>1 DEF WriteFile, ToolsInv, ToolsTypeOK
  <2> QED BY <1>1, <1>4, <2>2 DEF WriteFile, ToolsInv, ToolsTypeOK, EditsHaveRoom, Free, memoryVars
<1>5. ASSUME NEW a \in Agents, NEW path \in Files, EditReads(a, path) PROVE ToolsInv'
  <2> DEFINE edit == [path |-> path, read |-> content[path]]
  <2>1. edit \in [path : Files \cup {<<>>}, read : 0 .. MaxWrites] /\ edit.path \in Files /\ edit.read < MaxWrites
    BY <1>5, ToolsAssumption DEF EditReads
  <2>2. editing' = [editing EXCEPT ![a] = edit]
    BY <1>5 DEF EditReads
  <2> HIDE DEF edit
  <2>3. editing' \in [Agents -> [path : Files \cup {<<>>}, read : 0 .. MaxWrites]]
    BY <2>1, <2>2 DEF ToolsInv, ToolsTypeOK
  <2>4. EditsHaveRoom'
    BY <2>1, <2>2 DEF ToolsInv, ToolsTypeOK, EditsHaveRoom, Free
  <2> QED BY <1>1, <1>5, <2>3, <2>4 DEF EditReads, ToolsInv, ToolsTypeOK, memoryVars
<1>6. NotEditing \in [path : Files \cup {<<>>}, read : 0 .. MaxWrites]
  BY ToolsAssumption DEF NotEditing
<1>7. ASSUME NEW a \in Agents, EditWrites(a) PROVE ToolsInv'
  <2>1. editing[a].path \in Files /\ editing[a].read + 1 \in 0 .. MaxWrites
    BY <1>7, ToolsAssumption DEF EditWrites, ToolsInv, ToolsTypeOK, EditsHaveRoom
  <2>2. content' \in [Files -> 0 .. MaxWrites]
    BY <1>7, <2>1 DEF EditWrites, ToolsInv, ToolsTypeOK
  <2>3. editing' \in [Agents -> [path : Files \cup {<<>>}, read : 0 .. MaxWrites]] /\ EditsHaveRoom'
    BY <1>6, <1>7 DEF EditWrites, ToolsInv, ToolsTypeOK, EditsHaveRoom, Free
  <2> QED BY <1>1, <1>7, <2>2, <2>3 DEF EditWrites, ToolsInv, ToolsTypeOK, memoryVars
<1>8. ASSUME NEW a \in Agents, EditRefused(a) PROVE ToolsInv'
  <2>1. editing' \in [Agents -> [path : Files \cup {<<>>}, read : 0 .. MaxWrites]] /\ EditsHaveRoom'
    BY <1>6, <1>8 DEF EditRefused, ToolsInv, ToolsTypeOK, EditsHaveRoom, Free
  <2> QED BY <1>1, <1>8, <2>1 DEF EditRefused, ToolsInv, ToolsTypeOK, memoryVars
<1>9. ASSUME NEW a \in Agents, TakeMutex(a) PROVE ToolsInv'
  BY <1>2, <1>9 DEF TakeMutex, ToolsInv, ToolsTypeOK
<1>10. CASE InitChecks
  BY <1>2, <1>10 DEF InitChecks, ToolsInv, ToolsTypeOK
<1>11. CASE InitTruncates
  BY <1>2, <1>11 DEF InitTruncates, ToolsInv, ToolsTypeOK, NoMemory
<1>12. CASE InitTitles
  <2>1. memory'.exists = memory.exists /\ memory'.titled = TRUE /\ memory'.entries = memory.entries
    BY <1>12 DEF InitTitles, ToolsInv, MemoryInv
  <2> QED BY <1>2, <1>12, <2>1 DEF InitTitles, ToolsInv, ToolsTypeOK
<1>13. CASE WriteEntry
  BY <1>2, <1>13, AppendTypes DEF WriteEntry, ToolsInv, ToolsTypeOK
<1>14. CASE ToolEntry
  BY <1>2, <1>14, AppendTypes DEF ToolEntry, ToolsInv, ToolsTypeOK
<1>15. CASE Restart
  <2>1. starts' \in 1 .. MaxStarts
    BY <1>15, ToolsAssumption DEF Restart, ToolsInv, ToolsTypeOK
  <2>2. editing' \in [Agents -> [path : Files \cup {<<>>}, read : 0 .. MaxWrites]] /\ EditsHaveRoom'
    BY <1>6, <1>15 DEF Restart, EditsHaveRoom, Free
  <2> QED BY <1>1, <1>15, <2>1, <2>2 DEF Restart, ToolsInv, ToolsTypeOK
<1> QED BY <1>3, <1>4, <1>5, <1>7, <1>8, <1>9, <1>10, <1>11, <1>12, <1>13, <1>14, <1>15 DEF ToolsNext

-----------------------------------------------------------------------------
(* All of them                                                             *)

\* The invariants of the parts, together.
AgentsInv ==
  /\ TeamInv /\ BusInv /\ SessionInv /\ OwnTypeOK /\ ToolsInv /\ RunsInv /\ EscInv /\ TimerInv
  /\ CallInv /\ ObjectInv /\ SessToolsInv /\ EventsInv /\ ApiInv

\* Whether its behaviour is of that part or not, each of them starts as it may.
LEMMA TeamStarts == TeamInit \/ TeamRests => TeamInv
<1>1. CASE TeamInit
  BY <1>1, TeamInvInit
<1>2. CASE TeamRests
  <2>1. cfg \in TeamConfigs
    BY <1>2, PartsCanRest DEF TeamRests
  <2> QED BY <1>2, <2>1, LimitsAssumption, ConfigsAssumption
          DEF TeamRests, TeamInv, TeamTypeOK, NothingYet, LoopsAreAwaited, RoundsAreCounted,
              RetriesAreCounted, GivenUpRest, ReportsAreOfThisRound, RestRanWell, RoundIsKnown,
              GivenUpForFailure, ResultComesLast, RetriesUsedUp, CompletedIsEarned,
              EscalationJustified, RanWell, Planning, EndStates, LoopStatus, NoResult, NoVerdict, Idle
<1> QED BY <1>1, <1>2

LEMMA SessionStarts == SessionInit \/ SessionRests => SessionInv
<1>1. CASE SessionRests
  <2>1. cap \in CostCaps
    BY <1>1, SessionAssumption DEF SessionRests
  <2>2. spent \in 0 .. MaxCost /\ counted \in 0 .. MaxCost /\ counted = spent
    <3>1. spent = 0 /\ counted = 0
      BY <1>1 DEF SessionRests
    <3>2. 0 \in 0 .. MaxCost
      BY SessionAssumption
    <3> QED BY <3>1, <3>2
  <2> QED BY <1>1, <2>1, <2>2 DEF SessionRests, SessionInv, SessionTypeOK
<1> QED BY <1>1, SessionInvInit

LEMMA ToolsStart == ToolsInit \/ ToolsRest => ToolsInv
<1>1. CASE ToolsRest
  <2>1. writeScope \in [Agents -> SUBSET Globs]
    BY <1>1 DEF ToolsRest
  <2> QED BY <1>1, <2>1, ToolsInvStarts DEF ToolsRest
<1> QED BY <1>1, ToolsInvInit

LEMMA EscalationsStart == EscInit \/ EscalationsRest => EscInv
<1>1. CASE EscalationsRest
  <2>1. handler \in [EscIds -> Handlers] /\ subject \in [EscIds -> EscNodes]
    BY <1>1, PartsCanRest DEF EscalationsRest
  <2> QED BY <1>1, <2>1, EscInvInit DEF EscalationsRest
<1> QED BY <1>1, EscInvInit DEF EscInit

LEMMA CallsBegin == CallInit \/ CallsRest => CallInv
<1>1. CASE CallsRest
  <2>1. profile \in Profiles /\ environ \in Environments
    BY <1>1, PartsCanRest DEF CallsRest
  <2> QED BY <1>1, <2>1, CallInvInit DEF CallsRest
<1> QED BY <1>1, CallInvInit DEF CallInit

LEMMA SessToolsBegin == SessToolsInit \/ SessToolsRest => SessToolsInv
<1>1. CASE SessToolsRest
  <2>1. DOMAIN node = SessNodes /\ \A n \in SessNodes : node[n] \in SessKinds[n]
    BY <1>1, PartsCanRest DEF SessToolsRest
  <2>2. keys \subseteq {"apiKey", "claudeOauth"}
    BY <1>1 DEF SessToolsRest
  <2> QED BY <1>1, <2>1, <2>2, SessToolsInvInit DEF SessToolsRest
<1>2. CASE SessToolsInit
  <2>1. DOMAIN node = SessNodes /\ \A n \in SessNodes : node[n] \in SessKinds[n]
    BY <1>2 DEF SessToolsInit
  <2>2. keys \subseteq {"apiKey", "claudeOauth"}
    BY <1>2 DEF SessToolsInit
  <2> QED BY <1>2, <2>1, <2>2, SessToolsInvInit DEF SessToolsInit
<1> QED BY <1>1, <1>2

LEMMA EventsBegin == EventsInit \/ EventsRest => EventsInv
BY EventsInvInit DEF EventsInit, EventsRest, Clients

LEMMA ApiBegins == ApiInit \/ ApiRest => ApiInv
<1>1. CASE ApiRest
  <2>1. apiHost \in Hosts
    BY <1>1 DEF ApiRest, Hosts
  <2> QED BY <1>1, <2>1, ApiInvStarts DEF ApiRest
<1> QED BY <1>1, ApiInvInit

LEMMA AgentsInvInit == AgentsInit => AgentsInv
<1> SUFFICES ASSUME AgentsInit PROVE AgentsInv
  OBVIOUS
<1>1. /\ TeamInit \/ TeamRests
      /\ SessionInit \/ SessionRests
      /\ ToolsInit \/ ToolsRest
      /\ EscInit \/ EscalationsRest
      /\ CallInit \/ CallsRest
      /\ SessToolsInit \/ SessToolsRest
      /\ EventsInit \/ EventsRest
      /\ ApiInit \/ ApiRest
      /\ BusInit /\ OwnInit /\ RunInit /\ TimerInit /\ ObjectInit
  BY DEF AgentsInit
<1> QED BY ONLY <1>1, TeamStarts, SessionStarts, ToolsStart, EscalationsStart, CallsBegin, SessToolsBegin,
           EventsBegin, ApiBegins, BusInvInit, OwnTypeOKInit, RunsInvInit, TimerInvInit, ObjectInvInit
        DEF AgentsInv

\* A step of all is a step of each part, or leaves it as it is.
LEMMA StepsOfParts ==
  ASSUME [AgentsNext]_agentVars
  PROVE  /\ [TeamNext]_teamVars /\ [BusNext]_busVars /\ [SessionNext]_sessionVars
         /\ [OwnNext]_ownVars /\ [ToolsNext]_toolVars /\ [RunNext]_runsVars /\ [EscNext]_escVars
         /\ [TimerNext]_timerVars /\ [CallNext]_callVars /\ [ObjectNext]_objectVars
         /\ [SessToolsNext]_sessToolVars /\ [EventsNext]_eventVars /\ [ApiNext]_apiVars
<1>1. CASE UNCHANGED agentVars
  BY <1>1 DEF agentVars
<1>2. CASE AgentsNext
  BY <1>2 DEF AgentsNext
<1> QED BY <1>1, <1>2

LEMMA AgentsInvStep ==
  ASSUME AgentsInv, [AgentsNext]_agentVars
  PROVE  AgentsInv'
BY StepsOfParts, TeamInvStep, BusInvStep, SessionInvStep, OwnTypeOKStep, ToolsInvStep, RunsInvStep,
   EscInvStep, TimerInvStep, CallInvStep, ObjectInvStep, SessToolsInvStep, EventsInvStep, ApiInvStep
   DEF AgentsInv

LEMMA AgentsInvHolds == AgentsSpec => []AgentsInv
<1> QED BY AgentsInvInit, AgentsInvStep, PTL DEF AgentsSpec

\* Every variable of every part keeps its type: counters stay within their limits, queues hold
\* messages, maps are over the names there are (the declarations of the sources of each part).
THEOREM AgentsTypeCorrect == AgentsSpec => []AgentsTypeOK
<1>1. AgentsInv => AgentsTypeOK
  BY ObjectInvImplies, SessToolsInvImplies, EventsInvImplies, ApiInvImplies
     DEF AgentsInv, AgentsTypeOK, TeamInv, BusInv, SessionInv, ToolsInv, RunsInv, EscInv, TimerInv,
         CallInv, CallTypes
<1> QED BY <1>1, AgentsInvHolds, PTL

\* Whoever joins, leaves, sends, broadcasts and collects: an agent has each message sent to it
\* since it joined once, in the order of the log (message-bus.ts, send, broadcast and collect).
THEOREM DeliveredOnceInOrderHolds == AgentsSpec => []DeliveredOnceInOrder
<1>1. AgentsInv => DeliveredOnceInOrder
  BY DeliveredByAllFaithful DEF AgentsInv, BusInv
<1> QED BY <1>1, AgentsInvHolds, PTL

\* Where accepted scopes share no file, two agents may write one only by a lock on it, whatever
\* scopes are set and dropped and whatever locks are granted, pruned or expire
\* (file-ownership.ts, isWriteAllowed, and scope.ts, validateFileScopes).
THEOREM WritersAreExclusiveHolds ==
  ASSUME GlobsSeparate
  PROVE  AgentsSpec => []WritersAreExclusive
<1>1. AgentsInv => WritersAreExclusive
  BY ExclusiveOfTypes DEF AgentsInv
<1> QED BY <1>1, AgentsInvHolds, PTL

\* Whatever the agents, providers, sessions, timers and callers do, and in whatever order: reviews
\* fail safe, runs leave nothing behind, every change of a graph is traced, delays end once,
\* retried calls had a reason, the objects agree with what was saved, sessions stay inside their
\* role, and clients and callers are told what was so while they asked.
THEOREM RunsAreAccountedHolds == AgentsSpec => []RunsAreAccounted
<1>1. AgentsInv => RunsAreAccounted
  BY TimerInvImplies, CallInvImplies, ObjectInvImplies, SessToolsInvImplies, EventsInvImplies,
     ApiInvImplies
     DEF AgentsInv, RunsAreAccounted, RunsInv, EscInv
<1> QED BY <1>1, AgentsInvHolds, PTL

=============================================================================
