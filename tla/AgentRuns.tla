------------------------------ MODULE AgentRuns ------------------------------
(***************************************************************************)
(* One run of an agent of a node, around its loop of model calls: a worker *)
(* (runLooma, agents/looma.ts), on the message bus while it runs, and the  *)
(* reviewer (runLoomex, agents/loomex.ts), whose answer is read as a       *)
(* report in whatever form it comes.  The loop itself is in NodeTeam; here *)
(* it ends in one of its ways.                                             *)
(*                                                                         *)
(* An action is the code between two awaits; the runs of several agents    *)
(* interleave.                                                             *)
(***************************************************************************)
EXTENDS FiniteSets

CONSTANTS
  Loomas,     \* workers
  Loomexes,   \* reviewers
  Tasks,      \* what there is to verify
  RunFaults   \* "events": an event may not be written

ASSUME RunAgentsAssumption == Loomas \cap Loomexes = {}

RunAgents == Loomas \cup Loomexes
Verdicts == {"PASS", "FAIL", "BLOCKED"}
TaskStatuses == {"pass", "fail", "blocked"}
LoopResults == {"completed", "failed", "timeout", "token_limit"}

\* A reviewer's answer.  form: "none" for an empty one, "valid" for JSON of the schema, "partial"
\* for other JSON with a verdict, "text" for prose, "garbage" when neither names a verdict.
\* said: what it says of a task; "unsaid" if nothing, "odd" if no status at all.
Answers ==
  [form : {"none", "garbage"}, verdict : {"FAIL"}, said : [Tasks -> {"unsaid"}]]
  \cup [form : {"valid"}, verdict : Verdicts, said : [Tasks -> TaskStatuses \cup {"unsaid"}]]
  \cup [form : {"partial", "text"}, verdict : Verdicts,
        said : [Tasks -> TaskStatuses \cup {"unsaid", "odd"}]]
NoAnswer == [form |-> "none", verdict |-> "FAIL", said |-> [t \in Tasks |-> "unsaid"]]

\* A report: a verdict and the tasks it speaks of with their status; "absent" for the others.
Reports == [verdict : Verdicts, tasks : [Tasks -> TaskStatuses \cup {"absent"}]]

CreateFailReport == [verdict |-> "FAIL", tasks |-> [t \in Tasks |-> "fail"]]

\* salvageTaskVerifications, extractTaskStatuses: what is not a status, and what is not said,
\* is a failure.
Salvaged(answer) == [t \in Tasks |-> IF answer.said[t] \in TaskStatuses THEN answer.said[t]
                                     ELSE "fail"]

\* parseReviewReport: a valid report is taken as it is, whatever tasks it leaves out.
ParseReviewReport(answer) ==
  CASE answer.form = "valid" ->
         [verdict |-> answer.verdict,
          tasks |-> [t \in Tasks |-> IF answer.said[t] = "unsaid" THEN "absent"
                                     ELSE answer.said[t]]]
    [] answer.form \in {"partial", "text"} ->
         [verdict |-> answer.verdict, tasks |-> Salvaged(answer)]
    [] OTHER -> CreateFailReport

-----------------------------------------------------------------------------
VARIABLES
  runAt,    \* where each run is
  looped,   \* how its loop ended, "threw" included
  answers,  \* what the reviewer's loop put out
  onBus,    \* the workers on the message bus
  ran,      \* events: <<agent, type>>
  charged,  \* the agents whose tokens the cost tracker has
  captured, \* the workers whose report_complete was captured
  returned, \* what each run returned: a status, "report" or "threw"
  reports   \* the reviewers' reports

runsVars == <<runAt, looped, answers, onBus, ran, charged, captured, returned, reports>>

RunTypeOK ==
  /\ runAt \in [RunAgents -> {"none", "starting", "looping", "looped", "ended"}]
  /\ looped \in [RunAgents -> LoopResults \cup {"none", "threw"}]
  /\ answers \in [Loomexes -> Answers] /\ reports \in [Loomexes -> Reports]
  /\ onBus \subseteq Loomas /\ captured \subseteq Loomas /\ charged \subseteq RunAgents
  /\ ran \subseteq RunAgents \X {"created", "completed", "failed", "verdict"}
  /\ returned \in [RunAgents -> LoopResults \cup {"none", "threw", "report"}]

RunInit ==
  /\ runAt = [a \in RunAgents |-> "none"] /\ looped = [a \in RunAgents |-> "none"]
  /\ answers = [a \in Loomexes |-> NoAnswer] /\ reports = [a \in Loomexes |-> CreateFailReport]
  /\ onBus = {} /\ ran = {} /\ charged = {} /\ captured = {}
  /\ returned = [a \in RunAgents |-> "none"]

At(a, step) == runAt' = [runAt EXCEPT ![a] = step]
Gives(a, what) == returned' = [returned EXCEPT ![a] = what]

\* A worker registers and logs agent_created; a reviewer logs reviewer_started.
Starts(a) ==
  /\ runAt[a] = "none" /\ At(a, "starting")
  /\ onBus' = IF a \in Loomas THEN onBus \cup {a} ELSE onBus
  /\ UNCHANGED <<looped, answers, ran, charged, captured, returned, reports>>

Logged(a) ==
  /\ runAt[a] = "starting" /\ At(a, "looping")
  /\ ran' = ran \cup {<<a, "created">>}
  /\ UNCHANGED <<looped, answers, onBus, charged, captured, returned, reports>>

\* report_complete, in the loop: captured and handed on.
Captures(a) ==
  /\ a \in Loomas /\ runAt[a] = "looping"
  /\ captured' = captured \cup {a}
  /\ UNCHANGED <<runAt, looped, answers, onBus, ran, charged, returned, reports>>

\* The loop ends and is paid for; a loop that throws is not.
Loops(a) ==
  /\ runAt[a] = "looping" /\ At(a, "looped")
  /\ \E how \in LoopResults \cup {"threw"} :
       /\ looped' = [looped EXCEPT ![a] = how]
       /\ charged' = IF how = "threw" THEN charged ELSE charged \cup {a}
       /\ \E answer \in (IF a \in Loomexes /\ how # "threw" THEN Answers ELSE {NoAnswer}) :
            answers' = IF a \in Loomexes THEN [answers EXCEPT ![a] = answer] ELSE answers
  /\ UNCHANGED <<onBus, ran, captured, returned, reports>>

\* A worker leaves the bus, however its run ends.
Unregisters(a) == onBus \ {a}

\* The worker's outcome is logged: only a loop that completed is an agent_completed.
LoomaEnds(a) ==
  /\ a \in Loomas /\ runAt[a] = "looped" /\ At(a, "ended")
  /\ ran' = ran \cup {<<a, IF looped[a] = "completed" THEN "completed" ELSE "failed">>}
  /\ Gives(a, IF looped[a] = "threw" THEN "failed" ELSE looped[a])
  /\ onBus' = Unregisters(a)
  /\ UNCHANGED <<looped, answers, charged, captured, reports>>

\* The verdict is logged: of the answer, however the loop ended, or FAIL if it threw.
LoomexEnds(a) ==
  /\ a \in Loomexes /\ runAt[a] = "looped" /\ At(a, "ended")
  /\ ran' = ran \cup {<<a, "verdict">>}
  /\ Gives(a, "report")
  /\ reports' = [reports EXCEPT ![a] =
       IF looped[a] = "threw" THEN CreateFailReport ELSE ParseReviewReport(answers[a])]
  /\ UNCHANGED <<looped, answers, onBus, charged, captured>>

\* An event cannot be written: the worker's run throws, whatever its loop has done; the reviewer's
\* is a FAIL, whatever it has found.
LogRejects(a) ==
  /\ "events" \in RunFaults /\ runAt[a] \in {"starting", "looped"} /\ At(a, "ended")
  /\ Gives(a, IF a \in Loomas THEN "threw" ELSE "report")
  /\ onBus' = Unregisters(a)
  /\ reports' = IF a \in Loomexes THEN [reports EXCEPT ![a] = CreateFailReport] ELSE reports
  /\ UNCHANGED <<looped, answers, ran, charged, captured>>

RunNext ==
  \E a \in RunAgents : \/ Starts(a) \/ Logged(a) \/ Captures(a) \/ Loops(a)
                       \/ LoomaEnds(a) \/ LoomexEnds(a) \/ LogRejects(a)

RunSpec == RunInit /\ [][RunNext]_runsVars

-----------------------------------------------------------------------------
\* A review fails safe: a node passes, and a task of it, only because a reviewer's loop has
\* put out that it does; a form nobody can read, a task not mentioned, a loop that throws and
\* a log that cannot be written are all failures.
ReviewFailsSafe ==
  \A a \in Loomexes : runAt[a] = "ended" =>
    /\ reports[a].verdict = "PASS" => looped[a] \in LoopResults /\ answers[a].verdict = "PASS"
                                      /\ answers[a].form \in {"valid", "partial", "text"}
    /\ \A t \in Tasks : reports[a].tasks[t] = "pass" => answers[a].said[t] = "pass"

\* What outlives a run: nobody stays on the bus, whatever threw; every loop that used the model
\* is paid for, even if the run itself came to nothing; and an agent counts as completed in the
\* log only if that is what the run returned.
RunsAreClosed ==
  /\ \A a \in Loomas : a \in onBus <=> runAt[a] \in {"starting", "looping", "looped"}
  /\ \A a \in RunAgents : a \in charged <=> looped[a] \in LoopResults
  /\ \A a \in Loomas : <<a, "completed">> \in ran <=> returned[a] = "completed"

=============================================================================
