--------------------------- MODULE WorkflowService ---------------------------
(***************************************************************************)
(* api/routes/workflow.ts over one project: the requests that create,      *)
(* start, pause and resume its workflow, the background work they launch,  *)
(* and the three copies of the workflow they share - rt.workflow in the    *)
(* server, the WorkflowManager of each engine, and workflow.json.          *)
(*                                                                         *)
(* An action is a request handler, or a background function, from one      *)
(* await to the next.  Two things ExecutionEngine and StateStore have in   *)
(* detail are abstracted.  An engine begins the nodes whose predecessors   *)
(* are done, ends them and concludes, as in DagExecution, and persists     *)
(* each result before it goes on.  A save replaces the snapshot that is    *)
(* queued, and its caller goes on when the queue has been written, or is   *)
(* rejected when it could not be.                                          *)
(*                                                                         *)
(* Definitions whose name ends in _Faulty are not part of the model: each  *)
(* is the definition after it with one plausible mistake.                  *)
(***************************************************************************)
EXTENDS Naturals, FiniteSets, NodeLifecycle

CONSTANTS
  Nodes, Preds,  \* the graph spec generation comes up with
  MaxFlows,      \* bound on the POST /workflow/init that succeed
  MaxEngines,    \* bound on the engines a process launches
  MaxWork,       \* bound on both together
  Events         \* which of "pause", "resume", "crash", "ioError" happen

ASSUME PredsAssumption == Preds \in [Nodes -> SUBSET Nodes]
ASSUME BoundsAssumption == MaxFlows \in Nat /\ MaxEngines \in Nat /\ MaxWork \in Nat

Flows   == 1 .. MaxFlows
Engines == 1 .. MaxEngines

VARIABLES
  mem,     \* rt.workflow
  disk,    \* workflow.json
  queued,  \* the snapshot the pending write holds
  init,    \* where POST /workflow/init and its spec generation are, per workflow
  start,   \* where POST /workflow/start is, per workflow
  resume,  \* where POST /workflow/resume is, and the snapshot it restores
  engine,  \* where runExecutionBackground is, and its manager, per engine
  busy,    \* what each engine does about each node
  lost     \* history: a save, or an append to the event log, has been rejected

vars == <<mem, disk, queued, init, start, resume, engine, busy, lost>>

Outcome == {"pending", "running", "done", "failed", "blocked"}
Snapshot == [flow : 0 .. MaxFlows, st : WorkflowStatus, out : [Nodes -> Outcome]]

AllPending == [n \in Nodes |-> "pending"]
Snap(f, s, o) == [flow |-> f, st |-> s, out |-> o]
None == Snap(0, "init", AllPending)

EngineAt == {"unused", "launched", "running", "concluding", "concluded", "rejected", "ended"}
Live(e) == engine[e].at \notin {"unused", "ended"}

TypeOK ==
  /\ mem \in Snapshot /\ disk \in Snapshot /\ queued \in Snapshot
  /\ init \in [Flows -> {"none", "loading", "generating", "ended"}]
  /\ start \in [Flows -> {"none", "saving", "saved", "ended"}]
  /\ resume \in [at : {"idle", "loading", "saving", "saved"}, snap : Snapshot]
  /\ engine \in [Engines -> [at : EngineAt, snap : Snapshot]]
  /\ \A e \in Engines : Live(e) => engine[e].snap.st \in {"running", "done", "failed"}
  /\ busy \in [Engines -> [Nodes -> {"no", "executing", "saving", "saved", "stuck"}]]
  /\ lost \in BOOLEAN

\* Room within the bounds for the engine, or the init, a request asks for: the
\* engines of requests already accepted are counted.
Promised == Cardinality({f \in Flows : start[f] \in {"saving", "saved"}})
              + (IF resume.at = "idle" THEN 0 ELSE 1)
Launched == Cardinality({e \in Engines : engine[e].at # "unused"})
WorkLeft ==
  Promised + Launched + Cardinality({f \in Flows : init[f] # "none"}) < MaxWork
EngineLeft == Promised + Launched < MaxEngines /\ WorkLeft

Idle == [at |-> "idle", snap |-> None]
Unused == [at |-> "unused", snap |-> None]
NotBusy == [n \in Nodes |-> "no"]

Init ==
  /\ mem = None /\ disk = None /\ queued = None
  /\ init = [f \in Flows |-> "none"]
  /\ start = [f \in Flows |-> "none"]
  /\ resume = Idle
  /\ engine = [e \in Engines |-> Unused]
  /\ busy = [e \in Engines |-> NotBusy]
  /\ lost = FALSE

-----------------------------------------------------------------------------
(* saveWorkflowState                                                       *)

Save(snapshot) == queued' = snapshot

\* The debounced write lands: every caller that awaits it goes on.
WriteLands ==
  /\ queued # None
  /\ disk' = queued
  /\ queued' = None
  /\ start' = [f \in Flows |-> IF start[f] = "saving" THEN "saved" ELSE start[f]]
  /\ resume' = [resume EXCEPT !.at = IF @ = "saving" THEN "saved" ELSE @]
  /\ engine' = [e \in Engines |->
                  [engine[e] EXCEPT !.at = IF @ = "concluding" THEN "concluded" ELSE @]]
  /\ busy' = [e \in Engines |-> [n \in Nodes |->
                IF busy[e][n] = "saving" THEN "saved" ELSE busy[e][n]]]
  /\ UNCHANGED <<mem, init, lost>>

\* The write fails: every caller that awaits it is rejected.  POST /start and
\* POST /resume answer 500 and 400; an engine's run() rejects, whether the node's
\* result or the verdict was being saved.
WriteRejects ==
  /\ "ioError" \in Events
  /\ queued # None
  /\ queued' = None
  /\ lost' = TRUE
  /\ start' = [f \in Flows |-> IF start[f] = "saving" THEN "ended" ELSE start[f]]
  /\ resume' = IF resume.at = "saving" THEN Idle ELSE resume
  /\ engine' = [e \in Engines |->
                  IF \/ engine[e].at = "concluding"
                     \/ engine[e].at = "running" /\ (\E n \in Nodes : busy[e][n] = "saving")
                  THEN [engine[e] EXCEPT !.at = "rejected"] ELSE engine[e]]
  /\ busy' = [e \in Engines |-> [n \in Nodes |->
                IF busy[e][n] = "saving" THEN "stuck" ELSE busy[e][n]]]
  /\ UNCHANGED <<mem, disk, init>>

-----------------------------------------------------------------------------
(* POST /workflow/init and runSpecGenerationBackground                     *)

\* No workflow is active: the configuration is loaded.
InitChecks(f) ==
  /\ init[f] = "none" /\ \A g \in Flows : g < f => init[g] # "none"
  /\ WorkLeft
  /\ mem.flow = 0
  /\ init' = [init EXCEPT ![f] = "loading"]
  /\ UNCHANGED <<mem, disk, queued, start, resume, engine, busy, lost>>

\* It is loaded: the workflow is set, and spec generation launched.
InitSets(f) ==
  /\ init[f] = "loading"
  /\ mem' = Snap(f, "spec", AllPending)
  /\ init' = [init EXCEPT ![f] = "generating"]
  /\ UNCHANGED <<disk, queued, start, resume, engine, busy, lost>>

\* The configuration is refused.
InitRefused(f) ==
  /\ init[f] = "loading"
  /\ init' = [init EXCEPT ![f] = "ended"]
  /\ UNCHANGED <<mem, disk, queued, start, resume, engine, busy, lost>>


\* Spec generation ends with a graph or fails: either is set and saved.
SpecEnds(f) ==
  /\ init[f] = "generating"
  /\ \E s \in {"building", "failed"} :
       /\ mem' = Snap(f, s, AllPending)
       /\ Save(Snap(f, s, AllPending))
  /\ init' = [init EXCEPT ![f] = "ended"]
  /\ UNCHANGED <<disk, start, resume, engine, busy, lost>>

-----------------------------------------------------------------------------
(* runExecutionBackground                                                  *)

\* A manager is made of the snapshot, and an engine is run.
Launch(snapshot) ==
  \E e \in Engines :
    /\ engine[e].at = "unused" /\ \A d \in Engines : d < e => engine[d].at # "unused"
    /\ engine' = [engine EXCEPT ![e] = [at |-> "launched", snap |-> snapshot]]

\* The engine's activateReadyNodes.
ReadyIn(out) == {n \in Nodes : out[n] = "pending" /\ \A p \in Preds[n] : out[p] = "done"}

Dispatch(e, b) ==
  LET out == engine[e].snap.out
      ready == ReadyIn(out)
      at == IF engine[e].at = "launched" THEN "running" ELSE engine[e].at
      begun == [n \in Nodes |-> IF n \in ready THEN "running" ELSE out[n]]
  IN  /\ engine' = [engine EXCEPT ![e] = [at |-> at, snap |-> [engine[e].snap EXCEPT !.out = begun]]]
      /\ busy' = [busy EXCEPT ![e] = [n \in Nodes |-> IF n \in ready THEN "executing" ELSE b[n]]]

EngineBegins(e) ==
  /\ engine[e].at = "launched"
  /\ Dispatch(e, busy[e])
  /\ UNCHANGED <<mem, disk, queued, init, start, resume, lost>>

\* The nodes a failure makes unreachable, in as many passes as there are nodes.
Blocked(out) ==
  LET unreachable[k \in 0 .. Cardinality(Nodes)] ==
        IF k = 0 THEN {}
        ELSE {n \in Nodes : /\ out[n] = "pending"
                            /\ \E p \in Preds[n] : \/ out[p] \in {"failed", "blocked"}
                                                   \/ p \in unreachable[k - 1]}
  IN  [n \in Nodes |-> IF n \in unreachable[Cardinality(Nodes)] THEN "blocked" ELSE out[n]]

\* The executor of node n is through: its result is applied and persisted.
NodeEnds(e, n, how) ==
  /\ busy[e][n] = "executing"
  /\ LET out == Blocked([engine[e].snap.out EXCEPT ![n] = how])
     IN  /\ engine' = [engine EXCEPT ![e].snap.out = out]
         /\ Save([engine[e].snap EXCEPT !.out = out])
  /\ busy' = [busy EXCEPT ![e][n] = "saving"]
  /\ UNCHANGED <<mem, disk, init, start, resume, lost>>

NodeSettles(e, n) ==
  /\ busy[e][n] = "saved"
  /\ Dispatch(e, [busy[e] EXCEPT ![n] = "no"])
  /\ UNCHANGED <<mem, disk, queued, init, start, resume, lost>>

\* No node is left: the manager's status is final, and persisted.
EngineConcludes(e) ==
  /\ engine[e].at = "running"
  /\ busy[e] = NotBusy
  /\ LET done == \A n \in Nodes : engine[e].snap.out[n] = "done"
         snap == [engine[e].snap EXCEPT !.st = IF done THEN "done" ELSE "failed"]
     IN  /\ engine' = [engine EXCEPT ![e] = [at |-> "concluding", snap |-> snap]]
         /\ Save(snap)
  /\ UNCHANGED <<mem, disk, init, start, resume, busy, lost>>

EngineReturns_Faulty(e) ==  \* no final sync
  /\ engine[e].at = "concluded"
  /\ engine' = [engine EXCEPT ![e].at = "ended"]
  /\ UNCHANGED <<mem, disk, queued, init, start, resume, busy, lost>>

EngineReturns_Unsaved_Faulty(e) ==  \* the final sync is not saved
  /\ engine[e].at = "concluded"
  /\ mem' = engine[e].snap
  /\ engine' = [engine EXCEPT ![e].at = "ended"]
  /\ UNCHANGED <<disk, queued, init, start, resume, busy, lost>>

\* run() has returned: the final sync, and its save.
EngineReturns(e) ==
  /\ engine[e].at = "concluded"
  /\ mem' = engine[e].snap
  /\ Save(engine[e].snap)
  /\ engine' = [engine EXCEPT ![e].at = "ended"]
  /\ UNCHANGED <<disk, init, start, resume, busy, lost>>

\* run() has rejected: the workflow is marked failed, whatever nodes go on.
EngineFails(e) ==
  /\ engine[e].at = "rejected"
  /\ mem' = [engine[e].snap EXCEPT !.st = "failed"]
  /\ Save([engine[e].snap EXCEPT !.st = "failed"])
  /\ engine' = [engine EXCEPT ![e].at = "ended"]
  /\ UNCHANGED <<disk, init, start, resume, busy, lost>>

\* The timer that copies the manager to rt.workflow every second.
Sync(e) ==
  /\ Live(e)
  /\ mem' = engine[e].snap
  /\ UNCHANGED <<disk, queued, init, start, resume, engine, busy, lost>>

-----------------------------------------------------------------------------
(* POST /workflow/start, /pause and /resume                                *)

Start_Faulty(f) ==  \* the status is set after the save
  /\ EngineLeft
  /\ mem.flow = f /\ mem.st = "building"
  /\ Save([mem EXCEPT !.st = "running"])
  /\ start' = [start EXCEPT ![f] = "saving"]
  /\ UNCHANGED <<mem, disk, init, resume, engine, busy, lost>>

Start(f) ==
  /\ EngineLeft
  /\ mem.flow = f /\ mem.st = "building"
  /\ mem' = [mem EXCEPT !.st = "running"]
  /\ Save([mem EXCEPT !.st = "running"])
  /\ start' = [start EXCEPT ![f] = "saving"]
  /\ UNCHANGED <<disk, init, resume, engine, busy, lost>>


StartLaunches(f) ==
  /\ start[f] = "saved"
  /\ Launch(Snap(f, "running", AllPending))
  /\ start' = [start EXCEPT ![f] = "ended"]
  /\ UNCHANGED <<mem, disk, queued, init, resume, busy, lost>>

\* The engine is not told.
Pause ==
  /\ "pause" \in Events
  /\ mem.flow # 0 /\ mem.st = "running"
  /\ mem' = [mem EXCEPT !.st = "paused"]
  /\ Save([mem EXCEPT !.st = "paused"])
  /\ UNCHANGED <<disk, init, start, resume, engine, busy, lost>>

ResumeChecks ==
  /\ "resume" \in Events
  /\ resume.at = "idle"
  /\ EngineLeft
  /\ mem.flow # 0 /\ mem.st \in {"paused", "running"}
  /\ resume' = [resume EXCEPT !.at = "loading"]
  /\ UNCHANGED <<mem, disk, queued, init, start, engine, busy, lost>>

\* WorkflowManager.resume: running nodes are reset to pending, the workflow is
\* running again.
ResumeLoads ==
  /\ resume.at = "loading"
  /\ disk.flow # 0 /\ disk.st \in {"running", "paused"}
  /\ LET out == [n \in Nodes |-> IF disk.out[n] = "running" THEN "pending" ELSE disk.out[n]]
         snap == Snap(disk.flow, "running", out)
     IN  /\ resume' = [at |-> "saving", snap |-> snap]
         /\ Save(snap)
  /\ UNCHANGED <<mem, disk, init, start, engine, busy, lost>>

\* There is no file (404), or its workflow cannot be resumed, or read (400).
ResumeRefused ==
  /\ resume.at = "loading"
  /\ disk.flow = 0 \/ disk.st \notin {"running", "paused"} \/ "ioError" \in Events
  /\ resume' = Idle
  /\ UNCHANGED <<mem, disk, queued, init, start, engine, busy, lost>>

\* The event is logged: the workflow is set, and an engine launched.
ResumeLaunches ==
  /\ resume.at = "saved"
  /\ mem' = resume.snap
  /\ Launch(resume.snap)
  /\ resume' = Idle
  /\ UNCHANGED <<disk, queued, init, start, busy, lost>>

\* The event cannot be logged (400), and the file says running already.
ResumeRejects ==
  /\ "ioError" \in Events
  /\ resume.at = "saved"
  /\ resume' = Idle
  /\ lost' = TRUE
  /\ UNCHANGED <<mem, disk, queued, init, start, engine, busy>>

-----------------------------------------------------------------------------
\* The daemon dies and is started again: registerProject makes a runtime whose
\* workflow is null.
Crash ==
  /\ "crash" \in Events
  /\ mem # None
  /\ mem' = None /\ queued' = None
  /\ init' = [f \in Flows |-> IF init[f] = "none" THEN "none" ELSE "ended"]
  /\ start' = [f \in Flows |-> IF start[f] = "none" THEN "none" ELSE "ended"]
  /\ resume' = Idle
  /\ engine' = [e \in Engines |-> Unused]
  /\ busy' = [e \in Engines |-> NotBusy]
  /\ lost' = FALSE
  /\ UNCHANGED disk

EngineStep(e) ==
  \/ EngineBegins(e)
  \/ \E n \in Nodes, how \in {"done", "failed"} : NodeEnds(e, n, how)
  \/ \E n \in Nodes : NodeSettles(e, n)
  \/ EngineConcludes(e)
  \/ EngineReturns(e)
  \/ EngineFails(e)

Next ==
  \/ WriteLands \/ WriteRejects
  \/ \E f \in Flows : InitChecks(f) \/ InitSets(f) \/ InitRefused(f) \/ SpecEnds(f)
                      \/ Start(f) \/ StartLaunches(f)
  \/ \E e \in Engines : EngineStep(e) \/ Sync(e)
  \/ Pause
  \/ ResumeChecks \/ ResumeLoads \/ ResumeRefused \/ ResumeLaunches \/ ResumeRejects
  \/ Crash

Spec == Init /\ [][Next]_vars

\* Writes land, executors return and handlers go on; nobody has to send a request.
FairSpec ==
  /\ Spec
  /\ WF_vars(WriteLands \/ WriteRejects)
  /\ \A e \in Engines : WF_vars(EngineStep(e))
  /\ \A f \in Flows : WF_vars(StartLaunches(f))
  /\ WF_vars(ResumeLoads \/ ResumeRefused \/ ResumeLaunches \/ ResumeRejects)

-----------------------------------------------------------------------------
(* Properties                                                              *)

Quiet ==
  /\ queued = None /\ resume.at = "idle"
  /\ \A f \in Flows : init[f] # "generating" /\ start[f] \in {"none", "ended"}
  /\ \A e \in Engines : ~Live(e)

\* When nothing is under way, what the server answers is what a later process would
\* find on disk, however requests, syncs and writes were interleaved - provided no
\* write was rejected (every setWorkflow but the sync's comes with a save).
QuietDiskAgrees == Quiet /\ mem.flow # 0 /\ ~lost => disk = mem

\* A workflow reported as running is one day reported as done or failed, pauses and
\* resumes notwithstanding, unless a write was rejected (POST /start then answers 500
\* and leaves the workflow running with no engine) or the daemon dies.
RunningConcludes ==
  (mem.flow # 0 /\ mem.st = "running")
    ~> (mem.flow = 0 \/ mem.st \in {"done", "failed"} \/ lost)

\* However often POST /workflow/start is sent, and whichever of two workflows
\* created by racing POST /workflow/init is the current one, each is started once
\* ("Workflow not in building state").
StartedOnce ==
  [][\A f \in Flows : start[f] # "none" => start'[f] \in {start[f], "saved", "ended"}]_vars

\* "In-progress nodes continue until their current agent calls complete, but no new
\* nodes are dispatched" (POST /workflow/pause).
PauseStopsDispatch ==
  [][mem.st = "paused" =>
       \A e \in Engines, n \in Nodes : busy[e][n] = "no" => busy'[e][n] # "executing"]_vars

\* "identifies completed nodes (skipped)" (POST /workflow/resume): no node that an
\* engine of the workflow has completed is executed again.
CompletedNodesSkipped ==
  [][\A d, e \in Engines, n \in Nodes :
       (/\ busy[e][n] # "executing" /\ busy'[e][n] = "executing"
        /\ engine[d].snap.flow = engine[e].snap.flow)
       => engine[d].snap.out[n] # "done"]_vars
=============================================================================
