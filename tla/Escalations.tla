----------------------------- MODULE Escalations -----------------------------
(***************************************************************************)
(* Escalations: a node that is blocked asks for another graph.  Either the *)
(* EscalationManager (agents/escalation.ts) or the LoomAgent's             *)
(* handleEscalation (agents/loom.ts) decides; monitorSharedMemory of the   *)
(* LoomAgent decides without being asked.  Each asks the model, applies    *)
(* what it answers through the graph modifier, and leaves a trace in       *)
(* events.jsonl and in the shared memory.                                  *)
(*                                                                         *)
(* An action is the code between two awaits; escalations of several nodes  *)
(* interleave.  The graph modifier is an interface without an              *)
(* implementation in the repository: here it does what the chat's does,    *)
(* and throws for a node that is not there.                                *)
(***************************************************************************)
EXTENDS FiniteSets

CONSTANTS
  EscIds,     \* the escalations
  EscNodes,   \* the nodes of the graph at first
  NewNodes,   \* the nodes add_node may make
  Handlers,   \* a subset of {"manager", "loom", "monitor"}
  EscFaults   \* "provider", "modifier", "files": what may fail

NoTarget == "no node"
Silence == [action |-> "no_action", node |-> NoTarget]
Actions == {"add_node", "modify_node", "remove_node", "skip_node", "no_action"}

VARIABLES
  handler,    \* who handles each escalation
  subject,    \* the node it is about
  escAt,      \* where it is
  decided,    \* what it has decided
  plan,       \* the nodes of the graph
  skippedOver,\* those marked as done
  traced,     \* graph_modified events: <<escalation, "applied" or "error">>
  notes,      \* escalations with an entry in ARCHITECTURE_CHANGES.md
  progressed, \* escalations whose failure is noted in PROGRESS.md
  applied,    \* history: the escalations whose change was made
  untraced    \* history: the escalations of which something could not be written

escVars == <<handler, subject, escAt, decided, plan, skippedOver, traced, notes, progressed,
             applied, untraced>>
changeVars == <<plan, skippedOver, applied>>
traceVars == <<traced, notes, progressed, untraced>>
askedVars == <<handler, subject>>

EscTypeOK ==
  /\ handler \in [EscIds -> Handlers] /\ subject \in [EscIds -> EscNodes]
  /\ escAt \in [EscIds -> {"none", "deciding", "applying", "tracing", "noting", "done", "failed"}]
  /\ decided \in [EscIds -> [action : Actions, node : EscNodes \cup NewNodes \cup {NoTarget}]]
  /\ plan \subseteq EscNodes \cup NewNodes /\ skippedOver \subseteq plan
  /\ traced \subseteq EscIds \X {"applied", "error"}
  /\ {notes, progressed, applied, untraced} \subseteq SUBSET EscIds

EscStarts ==
  /\ escAt = [e \in EscIds |-> "none"] /\ decided = [e \in EscIds |-> Silence]
  /\ plan = EscNodes /\ skippedOver = {}
  /\ traced = {} /\ notes = {} /\ progressed = {} /\ applied = {} /\ untraced = {}

EscInit == handler \in [EscIds -> Handlers] /\ subject \in [EscIds -> EscNodes] /\ EscStarts

To(e, step) == escAt' = [escAt EXCEPT ![e] = step]

\* escalate, handleEscalation: the escalation is logged, or not; monitorSharedMemory logs none.
Escalates(e) ==
  /\ escAt[e] = "none" /\ To(e, "deciding")
  /\ UNCHANGED <<askedVars, decided, changeVars, traceVars>>

\* What an answer becomes.  raw.action "?" is one that is not an action, or no JSON at all; a
\* node that was left out is the one the escalation is about for the LoomAgent, and stays left
\* out for the manager and for the monitor, whose fallback is the empty id.
Fallback(e) == IF handler[e] = "monitor" THEN NoTarget ELSE subject[e]

ParsedByManager(e, raw) ==
  IF raw.action = "?" THEN [action |-> "skip_node", node |-> Fallback(e)] ELSE raw

ParsedByLoom(e, raw) ==
  LET action == IF raw.action = "?" THEN "skip_node" ELSE raw.action IN
  [action |-> action,
   node |-> IF raw.node = NoTarget /\ action \notin {"add_node", "no_action"}
            THEN Fallback(e) ELSE raw.node]

Parsed(e, raw) == IF handler[e] = "manager" THEN ParsedByManager(e, raw) ELSE ParsedByLoom(e, raw)

Named == {"modify_node", "remove_node", "skip_node"}
RawAnswers == [action : Named, node : EscNodes \cup NewNodes \cup {NoTarget}]
              \cup [action : {"add_node", "no_action", "?"}, node : {NoTarget}]

\* The model answers; a monitor that sees no issue is done.
Decides(e) ==
  /\ escAt[e] = "deciding"
  /\ \E raw \in RawAnswers :
       /\ decided' = [decided EXCEPT ![e] = Parsed(e, raw)]
       /\ To(e, IF handler[e] = "monitor" /\ raw.action = "no_action" THEN "done" ELSE "applying")
  /\ UNCHANGED <<askedVars, changeVars, traceVars>>

\* The call fails: the manager skips the node, handleEscalation answers success: false and
\* monitorSharedMemory that it has seen nothing.
ProviderFails(e) ==
  /\ "provider" \in EscFaults /\ escAt[e] = "deciding"
  /\ IF handler[e] = "manager"
     THEN /\ decided' = [decided EXCEPT ![e] = [action |-> "skip_node", node |-> subject[e]]]
          /\ To(e, "applying")
     ELSE To(e, "failed") /\ UNCHANGED decided
  /\ UNCHANGED <<askedVars, changeVars, traceVars>>

-----------------------------------------------------------------------------
\* The graph modifier.
Modifies(m) ==
  \/ /\ m.action = "add_node"
     /\ \E n \in NewNodes \ plan : plan' = plan \cup {n}
     /\ UNCHANGED skippedOver
  \/ m.action = "modify_node" /\ m.node \in plan /\ UNCHANGED <<plan, skippedOver>>
  \/ /\ m.action = "remove_node" /\ m.node \in plan
     /\ plan' = plan \ {m.node} /\ skippedOver' = skippedOver \ {m.node}
  \/ /\ m.action = "skip_node" /\ m.node \in plan
     /\ skippedOver' = skippedOver \cup {m.node} /\ UNCHANGED plan

Applicable(m) == IF m.action = "add_node" THEN NewNodes \ plan # {} ELSE m.node \in plan

\* What is logged is decided when the modifier has answered.
Applies(e) ==
  /\ escAt[e] = "applying" /\ decided[e].action # "no_action"
  /\ Modifies(decided[e]) /\ applied' = applied \cup {e}
  /\ To(e, "tracing") /\ decided' = [decided EXCEPT ![e].node = NoTarget]
  /\ UNCHANGED <<askedVars, traceVars>>

\* no_action touches no graph.
AppliesNothing(e) ==
  /\ escAt[e] = "applying" /\ decided[e].action = "no_action"
  /\ To(e, IF handler[e] = "monitor" THEN "done" ELSE "tracing")
  /\ UNCHANGED <<askedVars, decided, changeVars, traceVars>>

Written(e, where, entry) == \/ where' = where \cup {entry} /\ UNCHANGED untraced
                            \/ "files" \in EscFaults /\ untraced' = untraced \cup {e}
                                                      /\ UNCHANGED where

\* The modifier throws: the manager logs an error and is done, handleEscalation notes it and
\* goes on as if nothing had happened, the monitor keeps it to itself.
AfterRejection_Faulty(e) == IF handler[e] = "manager" THEN "tracing" ELSE "done"
AfterRejection(e) == IF handler[e] = "loom" THEN "tracing" ELSE "done"

ModifierRejects(e) ==
  /\ escAt[e] = "applying" /\ decided[e].action # "no_action"
  /\ ~Applicable(decided[e]) \/ "modifier" \in EscFaults
  /\ CASE handler[e] = "manager" -> Written(e, traced, <<e, "error">>) /\ UNCHANGED progressed
       [] handler[e] = "loom"    -> Written(e, progressed, e) /\ UNCHANGED traced
       [] OTHER                  -> UNCHANGED <<traced, progressed, untraced>>
  /\ To(e, AfterRejection(e)) /\ decided' = [decided EXCEPT ![e].node = NoTarget]
  /\ UNCHANGED <<askedVars, changeVars, notes>>

\* graph_modified is logged, or that fails and nobody is told.
Traces(e) ==
  /\ escAt[e] = "tracing"
  /\ Written(e, traced, <<e, "applied">>)
  /\ To(e, IF handler[e] = "monitor" THEN "done" ELSE "noting")
  /\ UNCHANGED <<askedVars, decided, changeVars, notes, progressed>>

\* ARCHITECTURE_CHANGES.md.
Notes(e) ==
  /\ escAt[e] = "noting"
  /\ \/ notes' = notes \cup {e} /\ UNCHANGED untraced
     \/ "files" \in EscFaults /\ untraced' = untraced \cup {e} /\ UNCHANGED notes
  /\ To(e, "done")
  /\ UNCHANGED <<askedVars, decided, changeVars, traced, progressed>>

EscNext ==
  \E e \in EscIds : \/ Escalates(e) \/ Decides(e) \/ ProviderFails(e) \/ Applies(e)
                    \/ AppliesNothing(e) \/ ModifierRejects(e) \/ Traces(e) \/ Notes(e)

EscSpec == EscInit /\ [][EscNext]_escVars

-----------------------------------------------------------------------------
\* The traces tell what happened to the graph, other escalations beside it: a change that was
\* made is in the event log and, if somebody had asked for it, in ARCHITECTURE_CHANGES.md; one
\* that the manager could not make is an error there and never among the changes.  Unless
\* the writing itself has failed.
ChangesAreTraced ==
  \A e \in EscIds \ untraced : escAt[e] = "done" =>
    /\ e \in applied => <<e, "applied">> \in traced /\ (handler[e] = "monitor" \/ e \in notes)
    /\ handler[e] = "manager" /\ e \notin applied /\ decided[e].action # "no_action" =>
         <<e, "error">> \in traced /\ e \notin notes /\ <<e, "applied">> \notin traced
    /\ handler[e] = "loom" /\ e \notin applied /\ decided[e].action # "no_action" =>
         e \in progressed

=============================================================================
