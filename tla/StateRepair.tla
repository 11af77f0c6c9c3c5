---------------------------- MODULE StateRepair ----------------------------
(***************************************************************************)
(* What becomes of a node through crashes when the state is repaired       *)
(* before it is resumed: verifyStateConsistency and repairState            *)
(* (persistence/state.ts) compare workflow.json with events.jsonl          *)
(* (persistence/events.ts), which the engine writes one after the other:   *)
(* the status in memory changes, the event is appended, and a save, its    *)
(* own or another node's, takes the status of that moment to the disk.     *)
(*                                                                         *)
(* repairState is offered by the package; the daemon resumes without it.   *)
(***************************************************************************)
EXTENDS Naturals, Sequences, SequencesExt

CONSTANTS
  LifeResults,  \* of an execution: "done", "failed", "blocked", "rateLimited"
  MaxLives      \* bound on the processes

ASSUME RepairAssumption ==
  MaxLives \in Nat \ {0} /\ LifeResults \subseteq {"done", "failed", "blocked", "rateLimited"}

Statuses == {"pending", "running", "done", "failed", "blocked", "waiting_for_provider"}
NodeEvents == {"node_started", "node_completed", "node_failed", "node_blocked"}

VARIABLES
  status,    \* in memory
  diskStatus,\* in workflow.json
  log,       \* the node's events in events.jsonl, the torn line of a crash left out
  toLog,     \* the event being appended, or NoEvent
  life,      \* processes so far; between two the file can be repaired, then resumed
  alive, repaired,
  again      \* history: executed after its completion was logged

repVars == <<status, diskStatus, log, toLog, life, alive, repaired, again>>

NoEvent == "no event"

RepTypeOK ==
  /\ {status, diskStatus} \subseteq Statuses
  /\ log \in Seq(NodeEvents) /\ toLog \in NodeEvents \cup {NoEvent}
  /\ life \in 1 .. MaxLives /\ {alive, repaired, again} \subseteq BOOLEAN

RepInit ==
  /\ status = "pending" /\ diskStatus = "pending"
  /\ log = <<>> /\ toLog = NoEvent
  /\ life = 1 /\ alive = TRUE /\ repaired = FALSE /\ again = FALSE

Completed == \E i \in DOMAIN log : log[i] = "node_completed"

-----------------------------------------------------------------------------
\* startNodeExecution, and the event that executeNode logs first.
StartsNode ==
  /\ alive /\ status = "pending" /\ toLog = NoEvent
  /\ status' = "running" /\ toLog' = "node_started"
  /\ again' = (again \/ Completed)
  /\ UNCHANGED <<diskStatus, log, life, alive, repaired>>

\* appendEvent has returned.
EventAppended ==
  /\ alive /\ toLog # NoEvent
  /\ log' = Append(log, toLog) /\ toLog' = NoEvent
  /\ UNCHANGED <<status, diskStatus, life, alive, repaired, again>>

EventOf(result) ==
  CASE result = "done"    -> "node_completed"
    [] result = "failed"  -> "node_failed"
    [] result = "blocked" -> "node_blocked"

\* applyNodeResult, or the wait for a provider that has a limit; after it the node runs again.
Executed(result) ==
  /\ alive /\ status = "running" /\ toLog = NoEvent
  /\ IF result = "rateLimited"
     THEN status' = "waiting_for_provider" /\ UNCHANGED toLog
     ELSE status' = result /\ toLog' = EventOf(result)
  /\ UNCHANGED <<diskStatus, log, life, alive, repaired, again>>

ProviderIsBack ==
  /\ alive /\ status = "waiting_for_provider"
  /\ status' = "running"
  /\ UNCHANGED <<diskStatus, log, toLog, life, alive, repaired, again>>

\* persistState, of this node or of another.
SavesState ==
  /\ alive /\ diskStatus # status
  /\ diskStatus' = status
  /\ UNCHANGED <<status, log, toLog, life, alive, repaired, again>>

ProcessDies ==
  /\ alive /\ life < MaxLives
  /\ alive' = FALSE /\ life' = life + 1 /\ repaired' = FALSE
  /\ toLog' = NoEvent
  /\ UNCHANGED <<status, diskStatus, log, again>>

-----------------------------------------------------------------------------
\* EVENT_TO_NODE_STATUS, and buildLastEventByNode.
Expected(event) ==
  CASE event = "node_started"   -> "running"
    [] event = "node_completed" -> "done"
    [] event = "node_failed"    -> "failed"
    [] event = "node_blocked"   -> "blocked"

LastEvent == Last(log)

\* The issues verifyStateConsistency finds with the node.
Issues ==
  IF log = <<>>
  THEN IF diskStatus \in {"pending", "waiting"} THEN {} ELSE {"no events"}
  ELSE (IF diskStatus # Expected(LastEvent) THEN {"mismatch"} ELSE {})
       \cup (IF diskStatus = "done" /\ ~Completed THEN {"no completion"} ELSE {})

\* repairState, which corrects a node that has events only.
RepairState ==
  /\ ~alive /\ ~repaired /\ repaired' = TRUE
  /\ diskStatus' = IF Issues = {} \/ log = <<>> THEN diskStatus ELSE Expected(LastEvent)
  /\ UNCHANGED <<status, log, toLog, life, alive, again>>

\* WorkflowManager.resume: what was running is pending again.
ResumeState ==
  /\ ~alive /\ repaired /\ alive' = TRUE
  /\ status' = IF diskStatus = "running" THEN "pending" ELSE diskStatus
  /\ diskStatus' = status'
  /\ UNCHANGED <<log, toLog, life, repaired, again>>

RepNext ==
  \/ StartsNode \/ EventAppended \/ ProviderIsBack \/ SavesState \/ ProcessDies
  \/ RepairState \/ ResumeState
  \/ \E r \in LifeResults : Executed(r)

RepSpec == RepInit /\ [][RepNext]_repVars

-----------------------------------------------------------------------------
\* A node of which the completion was logged is not executed again, although the save of its
\* status may have been lost; a repaired file has a node done only if it completed, unless the
\* node has no events, and then nothing is repaired, for all that the issue counts as recoverable.
RepairIsTrue ==
  /\ ~again
  /\ ~alive /\ repaired => Issues \subseteq {"no events"}

=============================================================================
