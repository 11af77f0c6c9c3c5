---------------------------- MODULE SpecPipeline ----------------------------
(***************************************************************************)
(* Spec generation: SpecEngine.runPipeline (spec/spec-engine.ts), driven   *)
(* by LoomAgent.runSpecGeneration (agents/loom.ts) for the background      *)
(* function of POST /workflow/init.  Five steps write an artifact each,    *)
(* the sixth builds the graph of the workflow.                             *)
(*                                                                         *)
(* An action is the code between two awaits.  The texts are left out: an   *)
(* answer of the provider has questions in it or not, and the last one is  *)
(* a graph or malformed.  Progress events are what the callback is given.  *)
(***************************************************************************)
EXTENDS WorkflowGraph

CONSTANTS
  SpecIds,     \* the node ids a generated graph may use
  Clarifies,   \* whether a clarificationCallback is configured
  SpecFaults   \* "ioError": an append to the event log, or a write of an artifact, may fail

\* An answer of the provider names finitely many nodes.
ASSUME SpecAssumption == IsFiniteSet(SpecIds)

LastStep == 5

VARIABLES
  specAt,     \* the await at which the generation is
  step,       \* the step of the pipeline
  progress,   \* history: the events of each step
  artifacts,  \* the steps whose artifact has been written
  built,      \* the graph of the last step
  loom,       \* LoomAgent.status
  flow,       \* the status of the workflow
  diskFailed  \* history: a write has failed

specVars == <<specAt, step, progress, artifacts, built, loom, flow, diskFailed>>
flowUnchanged == UNCHANGED <<loom, flow, diskFailed>>
DiskFails == diskFailed' = TRUE /\ UNCHANGED <<loom, flow>>

SpecEnded == {"built", "failed", "crashed"}

SpecTypeOK ==
  /\ specAt \in {"starting", "generating", "asking", "rerunning", "writing", "finishing",
                 "failing"} \cup SpecEnded
  /\ step \in 0 .. LastStep
  /\ progress \in [0 .. LastStep -> SUBSET {"started", "completed", "error"}]
  /\ artifacts \subseteq 0 .. LastStep - 1
  /\ built.nodes \subseteq SpecIds
  /\ loom \in {"created", "running_spec", "idle"}
  /\ flow \in {"spec", "building", "failed"}
  /\ diskFailed \in BOOLEAN

SpecInit ==
  /\ specAt = "starting"
  /\ step = 0
  /\ progress = [s \in 0 .. LastStep |-> {}]
  /\ artifacts = {}
  /\ built = NoGraph
  /\ loom = "running_spec"
  /\ flow = "spec"
  /\ diskFailed = FALSE

Emit(s, kind) == progress' = [progress EXCEPT ![s] = @ \cup {kind}]

\* The first entries are logged and the directory is made: step 0 starts.
PipelineStarts ==
  /\ specAt = "starting"
  /\ specAt' = "generating"
  /\ Emit(0, "started")
  /\ flowUnchanged /\ UNCHANGED <<step, artifacts, built>>

\* The logEvent of the start rejects: it is outside the try, and the status stays.
StartRejects ==
  /\ specAt = "starting" /\ "ioError" \in SpecFaults
  /\ specAt' = "failed"
  /\ flow' = "failed"
  /\ diskFailed' = TRUE
  /\ UNCHANGED <<step, progress, artifacts, built, loom>>

\* A text with questions, in one of the first two steps and with somebody to ask.
QuestionsRaised ==
  /\ specAt = "generating" /\ step \in {0, 1} /\ Clarifies
  /\ specAt' = "asking"
  /\ flowUnchanged /\ UNCHANGED <<step, progress, artifacts, built>>

\* The callback answers, and the step runs once more; or it fails, and the text is taken
\* without its questions.
QuestionsAnswered ==
  /\ specAt = "asking"
  /\ specAt' \in {"rerunning", "writing"}
  /\ flowUnchanged /\ UNCHANGED <<step, progress, artifacts, built>>

TextGenerated_Faulty ==
  /\ specAt \in {"generating", "rerunning"}
  /\ specAt' = "writing"
  /\ flowUnchanged /\ UNCHANGED <<step, progress, artifacts, built>>

\* A text to write.
TextGenerated ==
  /\ specAt \in {"generating", "rerunning"} /\ step < LastStep
  /\ specAt' = "writing"
  /\ flowUnchanged /\ UNCHANGED <<step, progress, artifacts, built>>

StepFails_Faulty ==
  /\ specAt \in {"generating", "rerunning"}
  /\ specAt' = "failing"
  /\ flowUnchanged /\ UNCHANGED <<step, progress, artifacts, built>>

\* executeStep catches: the provider fails, or the graph is malformed or not accepted.
StepFails ==
  /\ specAt \in {"generating", "rerunning"}
  /\ specAt' = "failing"
  /\ Emit(step, "error")
  /\ flowUnchanged /\ UNCHANGED <<step, artifacts, built>>

\* The artifact is on disk, and the next step starts.
ArtifactWritten ==
  /\ specAt = "writing"
  /\ artifacts' = artifacts \cup {step}
  /\ step' = step + 1
  /\ progress' = [progress EXCEPT ![step] = @ \cup {"completed"},
                                  ![step + 1] = @ \cup {"started"}]
  /\ specAt' = "generating"
  /\ flowUnchanged /\ UNCHANGED built

\* writeArtifact is outside executeStep: no event says that it failed.
ArtifactRejects ==
  /\ specAt = "writing" /\ "ioError" \in SpecFaults
  /\ specAt' = "failing"
  /\ DiskFails /\ UNCHANGED <<step, progress, artifacts, built>>

\* buildGraph: what validateAndOptimizeGraph lets through.
Accepted(g) == ValidateGraphIntegrity(g) /\ ValidateDag(g)

GraphBuilt ==
  /\ specAt = "generating" /\ step = LastStep
  /\ \E nodes \in SUBSET SpecIds, edges \in SUBSET (SpecIds \X SpecIds) :
       /\ \A e \in edges : e[2] \in nodes
       /\ Accepted([nodes |-> nodes, edges |-> edges])
       /\ built' = [nodes |-> nodes, edges |-> edges]
  /\ Emit(step, "completed")
  /\ specAt' = "finishing"
  /\ flowUnchanged /\ UNCHANGED <<step, artifacts>>

\* runSpecGeneration logs and returns; the background function sets the graph.
GenerationReturns ==
  /\ specAt = "finishing"
  /\ specAt' = "built"
  /\ loom' = "idle"
  /\ flow' = "building"
  /\ UNCHANGED <<step, progress, artifacts, built, diskFailed>>

\* The entries about the end are inside the try: if they fail, so does the generation.
FinishRejects ==
  /\ specAt = "finishing" /\ "ioError" \in SpecFaults
  /\ specAt' = "failing"
  /\ DiskFails /\ UNCHANGED <<step, progress, artifacts, built>>

\* The catch of runSpecGeneration: log, or fail to, and throw.
GenerationFails ==
  /\ specAt = "failing"
  /\ specAt' = "failed"
  /\ loom' = "idle"
  /\ flow' = "failed"
  /\ UNCHANGED <<step, progress, artifacts, built, diskFailed>>

\* handleSpecProgress logs without waiting and without a catch: a rejection is unhandled,
\* which ends the process.  The workflow on disk is still in spec.
ProgressLogRejects ==
  /\ "ioError" \in SpecFaults
  /\ specAt \notin SpecEnded \cup {"starting"}
  /\ specAt' = "crashed"
  /\ flowUnchanged /\ UNCHANGED <<step, progress, artifacts, built>>

SpecStep ==
  \/ PipelineStarts \/ QuestionsRaised \/ QuestionsAnswered \/ TextGenerated \/ StepFails
  \/ ArtifactWritten \/ GraphBuilt \/ GenerationReturns \/ GenerationFails
SpecFault == StartRejects \/ ArtifactRejects \/ FinishRejects \/ ProgressLogRejects
SpecNext == SpecStep \/ SpecFault

PipelineSpec == SpecInit /\ [][SpecNext]_specVars
SpecFairness == WF_specVars(SpecStep)

-----------------------------------------------------------------------------
\* A graph that is accepted can be executed: it has nodes, its edges join them, and it has
\* no cycle; and the check a chat's edits go through agrees.
BuiltGraphRuns ==
  flow = "building" => built.nodes # {} /\ Runnable(built) /\ ~DetectCycles(built)

\* The events tell the story of the run: steps start in order, each after the one before
\* has completed; completed means its artifact is on disk; no step both completes and fails;
\* and a workflow that fails without a failure of the disk names the step that failed.
ProgressIsTruthful ==
  /\ \A s \in 0 .. LastStep :
       /\ progress[s] # {} => \A t \in 0 .. s - 1 : "completed" \in progress[t]
       /\ "completed" \in progress[s] /\ s < LastStep => s \in artifacts
       /\ ~({"completed", "error"} \subseteq progress[s])
  /\ flow = "failed" => diskFailed \/ "error" \in progress[step]

\* A workflow does not stay in spec for ever while the daemon lives.
SpecSettles == <>(flow # "spec" \/ specAt = "crashed")

=============================================================================
