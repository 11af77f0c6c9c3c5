------------------------ MODULE WorkflowService_proofs ------------------------
(***************************************************************************)
(* Theorems about WorkflowService, for any graph, any number of workflows  *)
(* and engines, and any requests, failing writes and restarts.             *)
(***************************************************************************)
EXTENDS WorkflowService, TLAPS

\* A snapshot that a resume restores is running.
ResumesRunning == resume.at \in {"saving", "saved"} => resume.snap.st = "running"

\* The workflow that may be started has its graph, and has not been started.
BuildingIsFresh ==
  mem.st = "building" /\ mem.flow # 0 => init[mem.flow] = "ended" /\ start[mem.flow] = "none"

\* Only a workflow that has its graph has been started.
StartedIsBuilt == \A f \in Flows : start[f] # "none" => init[f] = "ended"

ServiceInv == TypeOK /\ ResumesRunning /\ BuildingIsFresh /\ StartedIsBuilt

LEMMA SnapIsSnapshot ==
  ASSUME NEW f \in 0 .. MaxFlows, NEW s \in WorkflowStatus, NEW o \in [Nodes -> Outcome]
  PROVE  /\ Snap(f, s, o) \in Snapshot
         /\ Snap(f, s, o).flow = f /\ Snap(f, s, o).st = s
BY DEF Snap, Snapshot

LEMMA Constants ==
  /\ None \in Snapshot /\ None.flow = 0 /\ AllPending \in [Nodes -> Outcome]
  /\ {"init", "spec", "building", "running", "paused", "done", "failed"} \subseteq WorkflowStatus
BY BoundsAssumption DEF None, Snap, AllPending, Snapshot, Outcome, WorkflowStatus

LEMMA ServiceInvInit ==
  ASSUME Init
  PROVE  ServiceInv
BY Constants
   DEF Init, ServiceInv, TypeOK, ResumesRunning, BuildingIsFresh, StartedIsBuilt, Idle, Unused,
       NotBusy, EngineAt, Live

\* The types of what an engine has.
EnginesTyped ==
  /\ engine \in [Engines -> [at : EngineAt, snap : Snapshot]]
  /\ \A e \in Engines : Live(e) => engine[e].snap.st \in {"running", "done", "failed"}

LEMMA EngineTypes ==
  ASSUME EnginesTyped, NEW e \in Engines, NEW new \in [at : EngineAt, snap : Snapshot],
         new.at \notin {"unused", "ended"} => new.snap.st \in {"running", "done", "failed"},
         engine' = [engine EXCEPT ![e] = new]
  PROVE  EnginesTyped'
BY DEF EnginesTyped, Live

\* An engine of which one field is set.
LEMMA EngineFields ==
  ASSUME NEW r \in [at : EngineAt, snap : Snapshot], NEW v
  PROVE  /\ [r EXCEPT !.at = v] = [at |-> v, snap |-> r.snap]
         /\ [r EXCEPT !.snap = v] = [at |-> r.at, snap |-> v]
OBVIOUS

LEMMA EngineAtSet ==
  ASSUME EnginesTyped, NEW e \in Engines, NEW v
  PROVE  [engine EXCEPT ![e].at = v] = [engine EXCEPT ![e] = [at |-> v, snap |-> engine[e].snap]]
<1>1. engine[e] \in [at : EngineAt, snap : Snapshot]
  BY DEF EnginesTyped
<1>2. [engine[e] EXCEPT !.at = v] = [at |-> v, snap |-> engine[e].snap]
  BY <1>1, EngineFields
<1>3. [engine EXCEPT ![e].at = v] = [engine EXCEPT ![e] = [engine[e] EXCEPT !.at = v]]
  BY DEF EnginesTyped
<1> QED BY <1>2, <1>3

LEMMA EngineOutSet ==
  ASSUME EnginesTyped, NEW e \in Engines, NEW v
  PROVE  [engine EXCEPT ![e].snap.out = v]
           = [engine EXCEPT ![e] = [at |-> engine[e].at, snap |-> [engine[e].snap EXCEPT !.out = v]]]
<1>1. engine[e] \in [at : EngineAt, snap : Snapshot]
  BY DEF EnginesTyped
<1>2. [engine[e] EXCEPT !.snap.out = v]
        = [at |-> engine[e].at, snap |-> [engine[e].snap EXCEPT !.out = v]]
  BY <1>1
<1>3. [engine EXCEPT ![e].snap.out = v] = [engine EXCEPT ![e] = [engine[e] EXCEPT !.snap.out = v]]
  BY DEF EnginesTyped
<1> QED BY <1>2, <1>3

\* What an engine works with: its snapshot, with other outcomes or another status.
LEMMA SnapshotFields ==
  ASSUME NEW s \in Snapshot
  PROVE  /\ s.flow \in 0 .. MaxFlows /\ s.st \in WorkflowStatus /\ s.out \in [Nodes -> Outcome]
         /\ \A o \in [Nodes -> Outcome] : /\ [s EXCEPT !.out = o] \in Snapshot
                                         /\ [s EXCEPT !.out = o].st = s.st
                                         /\ [s EXCEPT !.out = o].flow = s.flow
         /\ \A st \in WorkflowStatus : /\ [s EXCEPT !.st = st] \in Snapshot
                                      /\ [s EXCEPT !.st = st].st = st
                                      /\ [s EXCEPT !.st = st].flow = s.flow
BY DEF Snapshot

\* Dispatching keeps the types.
LEMMA DispatchTypes ==
  ASSUME EnginesTyped, NEW e \in Engines, NEW b \in [Nodes -> {"no", "executing", "saving", "saved", "stuck"}],
         busy \in [Engines -> [Nodes -> {"no", "executing", "saving", "saved", "stuck"}]],
         Dispatch(e, b)
  PROVE  /\ EnginesTyped'
         /\ busy' \in [Engines -> [Nodes -> {"no", "executing", "saving", "saved", "stuck"}]]
<1> DEFINE ready == ReadyIn(engine[e].snap.out)
           out == [n \in Nodes |-> IF n \in ready THEN "running" ELSE engine[e].snap.out[n]]
           at == IF engine[e].at = "launched" THEN "running" ELSE engine[e].at
           new == [at |-> at, snap |-> [engine[e].snap EXCEPT !.out = out]]
<1>1. engine[e] \in [at : EngineAt, snap : Snapshot] /\ engine[e].snap \in Snapshot
  BY DEF EnginesTyped
<1>2. out \in [Nodes -> Outcome]
  BY <1>1, SnapshotFields DEF Outcome
<1>3. engine' = [engine EXCEPT ![e] = new]
  BY DEF Dispatch
<1>4. new \in [at : EngineAt, snap : Snapshot]
  BY <1>1, <1>2, SnapshotFields DEF EngineAt
<1>5. new.at \notin {"unused", "ended"} => new.snap.st \in {"running", "done", "failed"}
  <2>1. new.snap.st = engine[e].snap.st
    <3> HIDE DEF out
    <3> QED BY <1>1, <1>2, SnapshotFields
  <2>2. at \notin {"unused", "ended"} => engine[e].at \notin {"unused", "ended"}
    OBVIOUS
  <2> HIDE DEF out, at
  <2> QED BY <2>1, <2>2 DEF EnginesTyped, Live
<1>6. EnginesTyped'
  <2> HIDE DEF new
  <2> QED BY <1>3, <1>4, <1>5, EngineTypes
<1>7. busy' \in [Engines -> [Nodes -> {"no", "executing", "saving", "saved", "stuck"}]]
  BY DEF Dispatch
<1> QED BY <1>6, <1>7

\* The types of the variables but those of the engines.
RestTyped ==
  /\ mem \in Snapshot /\ disk \in Snapshot /\ queued \in Snapshot
  /\ init \in [Flows -> {"none", "loading", "generating", "ended"}]
  /\ start \in [Flows -> {"none", "saving", "saved", "ended"}]
  /\ resume \in [at : {"idle", "loading", "saving", "saved"}, snap : Snapshot]
  /\ lost \in BOOLEAN

BusyTyped == busy \in [Engines -> [Nodes -> {"no", "executing", "saving", "saved", "stuck"}]]

LEMMA InvInParts ==
  ServiceInv <=> /\ RestTyped /\ EnginesTyped /\ BusyTyped
                 /\ ResumesRunning /\ BuildingIsFresh /\ StartedIsBuilt
BY DEF ServiceInv, TypeOK, RestTyped, EnginesTyped, BusyTyped

LEMMA PartsPrimed ==
  ASSUME RestTyped', EnginesTyped', BusyTyped', ResumesRunning', BuildingIsFresh', StartedIsBuilt'
  PROVE  ServiceInv'
BY DEF ServiceInv, TypeOK, RestTyped, EnginesTyped, BusyTyped, Live

\* A step that sets what the server keeps of the workflow to one that is not in building, and
\* changes at most the engines beside it, keeps what is said of starting.
LEMMA FreshAfter ==
  ASSUME RestTyped, BuildingIsFresh, StartedIsBuilt, UNCHANGED <<init, start>>,
         mem' = mem \/ mem'.st # "building"
  PROVE  BuildingIsFresh' /\ StartedIsBuilt'
BY DEF BuildingIsFresh, StartedIsBuilt

LEMMA ServiceInvStep ==
  ASSUME ServiceInv, [Next]_vars
  PROVE  ServiceInv'
<1>1. /\ RestTyped /\ EnginesTyped /\ BusyTyped
      /\ ResumesRunning /\ BuildingIsFresh /\ StartedIsBuilt
  BY InvInParts
<1>2. CASE WriteLands
  <2>1. RestTyped'
    BY <1>1, <1>2, Constants DEF WriteLands, RestTyped
  <2>2. EnginesTyped'
    <3>1. ASSUME NEW e \in Engines
          PROVE  /\ engine'[e] \in [at : EngineAt, snap : Snapshot]
                 /\ engine'[e].at \notin {"unused", "ended"} =>
                      engine'[e].snap.st \in {"running", "done", "failed"}
      BY <1>1, <1>2 DEF WriteLands, EnginesTyped, EngineAt, Live
    <3> QED BY <3>1, <1>2 DEF WriteLands, EnginesTyped, Live
  <2>3. BusyTyped'
    BY <1>1, <1>2 DEF WriteLands, BusyTyped
  <2>4. ResumesRunning' /\ BuildingIsFresh' /\ StartedIsBuilt'
    BY <1>1, <1>2
       DEF WriteLands, ResumesRunning, BuildingIsFresh, StartedIsBuilt, RestTyped, Flows,
           Snapshot
  <2> QED BY <2>1, <2>2, <2>3, <2>4, PartsPrimed
<1>3. CASE WriteRejects
  <2>1. RestTyped'
    BY <1>1, <1>3, Constants DEF WriteRejects, RestTyped, Idle
  <2>2. EnginesTyped'
    <3>1. ASSUME NEW e \in Engines
          PROVE  /\ engine'[e] \in [at : EngineAt, snap : Snapshot]
                 /\ engine'[e].at \notin {"unused", "ended"} =>
                      engine'[e].snap.st \in {"running", "done", "failed"}
      BY <1>1, <1>3 DEF WriteRejects, EnginesTyped, EngineAt, Live
    <3> QED BY <3>1, <1>3 DEF WriteRejects, EnginesTyped, Live
  <2>3. BusyTyped'
    BY <1>1, <1>3 DEF WriteRejects, BusyTyped
  <2>4. ResumesRunning' /\ BuildingIsFresh' /\ StartedIsBuilt'
    BY <1>1, <1>3
       DEF WriteRejects, ResumesRunning, BuildingIsFresh, StartedIsBuilt, RestTyped, Flows,
           Snapshot, Idle
  <2> QED BY <2>1, <2>2, <2>3, <2>4, PartsPrimed
<1>4. ASSUME NEW f \in Flows, InitChecks(f) PROVE ServiceInv'
  BY <1>4, Constants
     DEF InitChecks, ServiceInv, TypeOK, ResumesRunning, BuildingIsFresh, StartedIsBuilt, Live
<1>5. ASSUME NEW f \in Flows, InitSets(f) PROVE ServiceInv'
  <2>1. f \in 0 .. MaxFlows
    BY DEF Flows
  <2> QED
    BY <1>5, <2>1, Constants, SnapIsSnapshot
       DEF InitSets, ServiceInv, TypeOK, ResumesRunning, BuildingIsFresh, StartedIsBuilt, Live
<1>6. ASSUME NEW f \in Flows, InitRefused(f) PROVE ServiceInv'
  BY <1>6, Constants
     DEF InitRefused, ServiceInv, TypeOK, ResumesRunning, BuildingIsFresh, StartedIsBuilt,
         Live
<1>7. ASSUME NEW f \in Flows, SpecEnds(f) PROVE ServiceInv'
  <2>1. f \in 0 .. MaxFlows
    BY DEF Flows
  <2> QED
    BY <1>7, <2>1, Constants, SnapIsSnapshot
       DEF SpecEnds, Save, ServiceInv, TypeOK, ResumesRunning, BuildingIsFresh, StartedIsBuilt, Live
<1>8. ASSUME NEW e \in Engines, EngineBegins(e) PROVE ServiceInv'
  <2>1. busy[e] \in [Nodes -> {"no", "executing", "saving", "saved", "stuck"}]
    BY <1>1 DEF BusyTyped
  <2>2. EnginesTyped' /\ BusyTyped'
    BY <1>1, <1>8, <2>1, DispatchTypes DEF EngineBegins, BusyTyped
  <2>3. RestTyped' /\ ResumesRunning' /\ BuildingIsFresh' /\ StartedIsBuilt'
    BY <1>1, <1>8 DEF EngineBegins, RestTyped, ResumesRunning, BuildingIsFresh, StartedIsBuilt
  <2> QED BY <2>2, <2>3, PartsPrimed
<1>9. ASSUME NEW e \in Engines, NEW n \in Nodes, NEW how \in {"done", "failed"}, NodeEnds(e, n, how)
      PROVE  ServiceInv'
  <2> DEFINE ended == [engine[e].snap.out EXCEPT ![n] = how]
             out == Blocked(ended)
             snap == [engine[e].snap EXCEPT !.out = out]
             new == [at |-> engine[e].at, snap |-> snap]
  <2>1. engine[e] \in [at : EngineAt, snap : Snapshot] /\ engine[e].snap \in Snapshot
    BY <1>1 DEF EnginesTyped
  <2>2. ended \in [Nodes -> Outcome]
    BY <2>1, SnapshotFields DEF Outcome
  <2>3. out \in [Nodes -> Outcome]
    <3> HIDE DEF ended
    <3> QED BY <2>2 DEF Blocked, Outcome
  <2>4. snap \in Snapshot /\ snap.st = engine[e].snap.st
    <3> HIDE DEF out
    <3> QED BY <2>1, <2>3, SnapshotFields
  <2>5. engine' = [engine EXCEPT ![e] = new]
    <3> HIDE DEF out
    <3>1. engine' = [engine EXCEPT ![e].snap.out = out]
      BY <1>9 DEF NodeEnds, out
    <3> QED BY <3>1, <1>1, EngineOutSet
  <2>6. EnginesTyped'
    <3> HIDE DEF snap
    <3>1. new \in [at : EngineAt, snap : Snapshot]
      BY <2>1, <2>4
    <3>2. new.at \notin {"unused", "ended"} => new.snap.st \in {"running", "done", "failed"}
      BY <1>1, <2>4 DEF EnginesTyped, Live
    <3> HIDE DEF new
    <3> QED BY <1>1, <2>5, <3>1, <3>2, EngineTypes
  <2>7. queued' = snap
    BY <1>9 DEF NodeEnds, Save
  <2>8. RestTyped'
    <3> HIDE DEF snap
    <3> QED BY <1>1, <1>9, <2>4, <2>7 DEF NodeEnds, RestTyped
  <2>9. BusyTyped'
    BY <1>1, <1>9 DEF NodeEnds, BusyTyped
  <2>10. ResumesRunning' /\ BuildingIsFresh' /\ StartedIsBuilt'
    BY <1>1, <1>9 DEF NodeEnds, ResumesRunning, BuildingIsFresh, StartedIsBuilt
  <2> QED BY <2>6, <2>8, <2>9, <2>10, PartsPrimed
<1>10. ASSUME NEW e \in Engines, NEW n \in Nodes, NodeSettles(e, n) PROVE ServiceInv'
  <2>1. [busy[e] EXCEPT ![n] = "no"] \in [Nodes -> {"no", "executing", "saving", "saved", "stuck"}]
    BY <1>1 DEF BusyTyped
  <2>2. EnginesTyped' /\ BusyTyped'
    BY <1>1, <1>10, <2>1, DispatchTypes DEF NodeSettles, BusyTyped
  <2>3. RestTyped' /\ ResumesRunning' /\ BuildingIsFresh' /\ StartedIsBuilt'
    BY <1>1, <1>10 DEF NodeSettles, RestTyped, ResumesRunning, BuildingIsFresh, StartedIsBuilt
  <2> QED BY <2>2, <2>3, PartsPrimed
<1>11. ASSUME NEW e \in Engines, EngineConcludes(e) PROVE ServiceInv'
  <2>1. PICK st \in {"done", "failed"} :
          /\ engine' = [engine EXCEPT ![e] = [at |-> "concluding", snap |-> [engine[e].snap EXCEPT !.st = st]]]
          /\ queued' = [engine[e].snap EXCEPT !.st = st]
    BY <1>11 DEF EngineConcludes, Save
  <2> DEFINE snap == [engine[e].snap EXCEPT !.st = st]
             new == [at |-> "concluding", snap |-> snap]
  <2>2. snap \in Snapshot /\ snap.st = st
    BY <1>1, Constants, SnapshotFields DEF EnginesTyped
  <2>3. EnginesTyped'
    <3> HIDE DEF snap
    <3>1. new \in [at : EngineAt, snap : Snapshot] /\ new.snap.st \in {"running", "done", "failed"}
      BY <2>2 DEF EngineAt
    <3>2. engine' = [engine EXCEPT ![e] = new]
      BY <2>1 DEF snap
    <3> HIDE DEF new
    <3> QED BY <1>1, <3>1, <3>2, EngineTypes
  <2>4. RestTyped'
    <3>1. queued' \in Snapshot
      BY <2>1, <2>2
    <3> QED BY <1>1, <1>11, <3>1 DEF EngineConcludes, RestTyped
  <2>5. BusyTyped' /\ ResumesRunning' /\ BuildingIsFresh' /\ StartedIsBuilt'
    BY <1>1, <1>11 DEF EngineConcludes, BusyTyped, ResumesRunning, BuildingIsFresh, StartedIsBuilt
  <2> QED BY <2>3, <2>4, <2>5, PartsPrimed
<1>12. ASSUME NEW e \in Engines, EngineReturns(e) PROVE ServiceInv'
  <2>1. EnginesTyped' /\ mem' = engine[e].snap /\ engine[e].snap \in Snapshot /\ mem'.st # "building"
    <3>1. engine[e] \in [at : EngineAt, snap : Snapshot]
      BY <1>1 DEF EnginesTyped
    <3>2. engine' = [engine EXCEPT ![e] = [at |-> "ended", snap |-> engine[e].snap]]
      BY <1>1, <1>12, EngineAtSet DEF EngineReturns
    <3>3. EnginesTyped'
      <4> DEFINE new == [at |-> "ended", snap |-> engine[e].snap]
      <4>1. new \in [at : EngineAt, snap : Snapshot] /\ new.at = "ended"
        BY <3>1 DEF EngineAt
      <4>2. engine' = [engine EXCEPT ![e] = new]
        BY <3>2
      <4> HIDE DEF new
      <4> QED BY <1>1, <4>1, <4>2, EngineTypes
    <3> QED BY <1>1, <1>12, <3>1, <3>3 DEF EngineReturns, EnginesTyped, Live
  <2>2. RestTyped'
    BY <1>1, <1>12, <2>1 DEF EngineReturns, Save, RestTyped
  <2>3. BusyTyped' /\ ResumesRunning' /\ BuildingIsFresh' /\ StartedIsBuilt'
    BY <1>1, <1>12, <2>1, FreshAfter DEF EngineReturns, BusyTyped, ResumesRunning
  <2> QED BY <2>1, <2>2, <2>3, PartsPrimed
<1>13. ASSUME NEW e \in Engines, EngineFails(e) PROVE ServiceInv'
  <2>1. EnginesTyped'
    <3>1. engine[e] \in [at : EngineAt, snap : Snapshot]
      BY <1>1 DEF EnginesTyped
    <3> DEFINE new == [at |-> "ended", snap |-> engine[e].snap]
    <3>2. new \in [at : EngineAt, snap : Snapshot] /\ new.at = "ended"
      BY <3>1 DEF EngineAt
    <3>3. engine' = [engine EXCEPT ![e] = new]
      BY <1>1, <1>13, EngineAtSet DEF EngineFails
    <3> HIDE DEF new
    <3> QED BY <1>1, <3>2, <3>3, EngineTypes
  <2>2. mem' \in Snapshot /\ mem'.st = "failed" /\ queued' \in Snapshot
    <3>1. engine[e].snap \in Snapshot /\ "failed" \in WorkflowStatus
      BY <1>1, Constants DEF EnginesTyped
    <3> QED BY <1>13, <3>1, SnapshotFields DEF EngineFails, Save
  <2>3. RestTyped'
    BY <1>1, <1>13, <2>2 DEF EngineFails, RestTyped
  <2>4. BusyTyped' /\ ResumesRunning' /\ BuildingIsFresh' /\ StartedIsBuilt'
    BY <1>1, <1>13, <2>2, FreshAfter DEF EngineFails, BusyTyped, ResumesRunning
  <2> QED BY <2>1, <2>3, <2>4, PartsPrimed
<1>14. ASSUME NEW e \in Engines, Sync(e) PROVE ServiceInv'
  BY <1>14, Constants
     DEF Sync, Snapshot, ServiceInv, TypeOK, ResumesRunning, BuildingIsFresh, StartedIsBuilt, Live
<1>15. ASSUME NEW f \in Flows, Start(f) PROVE ServiceInv'
  <2>1. mem' \in Snapshot /\ mem'.st = "running" /\ queued' \in Snapshot
    <3>1. mem \in Snapshot /\ "running" \in WorkflowStatus
      BY <1>1, Constants DEF RestTyped
    <3> QED BY <1>15, <3>1, SnapshotFields DEF Start, Save
  <2>2. RestTyped'
    BY <1>1, <1>15, <2>1 DEF Start, RestTyped
  <2>3. EnginesTyped' /\ BusyTyped' /\ ResumesRunning'
    BY <1>1, <1>15 DEF Start, EnginesTyped, Live, BusyTyped, ResumesRunning
  <2>4. init[f] = "ended"
    BY <1>1, <1>15 DEF Start, BuildingIsFresh, Flows
  <2>5. BuildingIsFresh' /\ StartedIsBuilt'
    BY <1>1, <1>15, <2>1, <2>4 DEF Start, BuildingIsFresh, StartedIsBuilt, RestTyped
  <2> QED BY <2>2, <2>3, <2>5, PartsPrimed
<1>16. ASSUME NEW f \in Flows, StartLaunches(f) PROVE ServiceInv'
  <2>1. PICK e \in Engines :
          engine' = [engine EXCEPT ![e] = [at |-> "launched", snap |-> Snap(f, "running", AllPending)]]
    BY <1>16 DEF StartLaunches, Launch
  <2> DEFINE new == [at |-> "launched", snap |-> Snap(f, "running", AllPending)]
  <2>2. new \in [at : EngineAt, snap : Snapshot] /\ new.snap.st = "running"
    BY Constants, SnapIsSnapshot DEF EngineAt, Flows
  <2>3. EnginesTyped'
    <3> HIDE DEF new
    <3>1. engine' = [engine EXCEPT ![e] = new]
      BY <2>1 DEF new
    <3> QED BY <1>1, <2>2, <3>1, EngineTypes
  <2>4. RestTyped' /\ BusyTyped' /\ ResumesRunning' /\ BuildingIsFresh' /\ StartedIsBuilt'
    BY <1>1, <1>16
       DEF StartLaunches, RestTyped, BusyTyped, ResumesRunning, BuildingIsFresh, StartedIsBuilt
  <2> QED BY <2>3, <2>4, PartsPrimed
<1>17. CASE Pause
  <2>1. mem' \in Snapshot /\ mem'.st = "paused" /\ queued' \in Snapshot
    <3>1. mem \in Snapshot /\ "paused" \in WorkflowStatus
      BY <1>1, Constants DEF RestTyped
    <3> QED BY <1>17, <3>1, SnapshotFields DEF Pause, Save
  <2>2. RestTyped' /\ EnginesTyped' /\ BusyTyped' /\ ResumesRunning'
    BY <1>1, <1>17, <2>1 DEF Pause, RestTyped, EnginesTyped, Live, BusyTyped, ResumesRunning
  <2>3. BuildingIsFresh' /\ StartedIsBuilt'
    BY <1>1, <1>17, <2>1, FreshAfter DEF Pause
  <2> QED BY <2>2, <2>3, PartsPrimed
<1>18. CASE ResumeChecks
  BY PartsPrimed, <1>1, <1>18
     DEF ResumeChecks, RestTyped, EnginesTyped, Live, BusyTyped, ResumesRunning, BuildingIsFresh,
         StartedIsBuilt
<1>19. CASE ResumeLoads
  <2>1. PICK o \in [Nodes -> Outcome] :
          /\ resume' = [at |-> "saving", snap |-> Snap(disk.flow, "running", o)]
          /\ queued' = Snap(disk.flow, "running", o)
    <3> DEFINE out == [n \in Nodes |-> IF disk.out[n] = "running" THEN "pending" ELSE disk.out[n]]
    <3>1. disk.out \in [Nodes -> Outcome]
      BY <1>1, SnapshotFields DEF RestTyped
    <3>2. out \in [Nodes -> Outcome]
      BY <3>1 DEF Outcome
    <3> QED BY <1>19, <3>2 DEF ResumeLoads, Save
  <2>2. Snap(disk.flow, "running", o) \in Snapshot /\ Snap(disk.flow, "running", o).st = "running"
    BY <1>1, Constants, SnapIsSnapshot, SnapshotFields DEF RestTyped
  <2>3. RestTyped'
    BY <1>1, <1>19, <2>1, <2>2 DEF ResumeLoads, RestTyped
  <2>4. EnginesTyped' /\ BusyTyped' /\ BuildingIsFresh' /\ StartedIsBuilt'
    BY <1>1, <1>19 DEF ResumeLoads, EnginesTyped, Live, BusyTyped, BuildingIsFresh, StartedIsBuilt
  <2>5. ResumesRunning'
    BY <2>1, <2>2 DEF ResumesRunning
  <2> QED BY <2>3, <2>4, <2>5, PartsPrimed
<1>20. CASE ResumeRefused
  BY PartsPrimed, <1>1, <1>20, Constants
     DEF ResumeRefused, Idle, RestTyped, EnginesTyped, Live, BusyTyped, ResumesRunning,
         BuildingIsFresh, StartedIsBuilt
<1>21. CASE ResumeLaunches
  <2>1. PICK e \in Engines :
          engine' = [engine EXCEPT ![e] = [at |-> "launched", snap |-> resume.snap]]
    BY <1>21 DEF ResumeLaunches, Launch
  <2>2. resume.snap \in Snapshot /\ resume.snap.st = "running" /\ mem' = resume.snap
    BY <1>1, <1>21 DEF RestTyped, ResumesRunning, ResumeLaunches
  <2>3. EnginesTyped'
    <3> DEFINE new == [at |-> "launched", snap |-> resume.snap]
    <3>1. new \in [at : EngineAt, snap : Snapshot] /\ new.snap.st = "running"
      BY <2>2 DEF EngineAt
    <3>2. engine' = [engine EXCEPT ![e] = new]
      BY <2>1
    <3> HIDE DEF new
    <3> QED BY <1>1, <3>1, <3>2, EngineTypes
  <2>4. RestTyped' /\ BusyTyped' /\ ResumesRunning'
    BY <1>1, <1>21, <2>2, Constants DEF ResumeLaunches, Idle, RestTyped, BusyTyped, ResumesRunning
  <2>5. BuildingIsFresh' /\ StartedIsBuilt'
    BY <1>1, <1>21, <2>2, FreshAfter DEF ResumeLaunches
  <2> QED BY <2>3, <2>4, <2>5, PartsPrimed
<1>22. CASE ResumeRejects
  BY PartsPrimed, <1>1, <1>22, Constants
     DEF ResumeRejects, Idle, RestTyped, EnginesTyped, Live, BusyTyped, ResumesRunning,
         BuildingIsFresh, StartedIsBuilt
<1>23. CASE Crash
  <2>1. RestTyped' /\ BusyTyped' /\ ResumesRunning' /\ BuildingIsFresh' /\ StartedIsBuilt'
    BY <1>1, <1>23, Constants
       DEF Crash, Idle, NotBusy, RestTyped, BusyTyped, ResumesRunning, BuildingIsFresh, StartedIsBuilt
  <2>2. EnginesTyped'
    BY <1>23, Constants DEF Crash, Unused, EnginesTyped, Live, EngineAt
  <2> QED BY <2>1, <2>2, PartsPrimed
<1>24. CASE UNCHANGED vars
  BY PartsPrimed, <1>1, <1>24
     DEF vars, RestTyped, EnginesTyped, Live, BusyTyped, ResumesRunning, BuildingIsFresh, StartedIsBuilt
<1>25. CASE \E f \in Flows : InitChecks(f) \/ InitSets(f) \/ InitRefused(f) \/ SpecEnds(f)
                             \/ Start(f) \/ StartLaunches(f)
  BY <1>25, <1>4, <1>5, <1>6, <1>7, <1>15, <1>16, PartsPrimed
<1>26. CASE \E e \in Engines : EngineStep(e) \/ Sync(e)
  BY <1>26, <1>8, <1>9, <1>10, <1>11, <1>12, <1>13, <1>14, PartsPrimed DEF EngineStep
<1> QED BY <1>2, <1>3, <1>17, <1>18, <1>19, <1>20, <1>21, <1>22, <1>23, <1>24, <1>25, <1>26 DEF Next

\* Every variable keeps its type, and the manager of a live engine is never in building.
THEOREM ServiceTypeCorrect == Spec => []TypeOK
<1>1. ServiceInv => TypeOK
  BY DEF ServiceInv
<1> QED BY <1>1, ServiceInvInit, ServiceInvStep, PTL DEF Spec

\* However often POST /workflow/start is sent and whatever else happens between, a workflow is
\* started once (workflow.ts, lines 283 to 316).
THEOREM StartedOnceHolds == Spec => StartedOnce
<1>1. ServiceInv /\ [Next]_vars =>
        [\A f \in Flows : start[f] # "none" => start'[f] \in {start[f], "saved", "ended"}]_vars
  <2> SUFFICES ASSUME ServiceInv, Next, NEW f \in Flows, start[f] # "none"
               PROVE  start'[f] \in {start[f], "saved", "ended"}
    OBVIOUS
  <2>1. start \in [Flows -> {"none", "saving", "saved", "ended"}]
    BY DEF ServiceInv, TypeOK
  <2>2. ASSUME NEW g \in Flows, Start(g) PROVE g # f
    BY <2>2 DEF Start, ServiceInv, BuildingIsFresh, Flows
  <2> QED BY <2>1, <2>2
          DEF Next, EngineStep, WriteLands, WriteRejects, InitChecks, InitSets, InitRefused, SpecEnds,
              Start, StartLaunches, EngineBegins, NodeEnds, NodeSettles, EngineConcludes,
              EngineReturns, EngineFails, Sync, Pause, ResumeChecks, ResumeLoads, ResumeRefused,
              ResumeLaunches, ResumeRejects, Crash
<1> QED BY <1>1, ServiceInvInit, ServiceInvStep, PTL DEF Spec, StartedOnce

\* Nobody is about to set what the server keeps of the workflow: no engine is live, no
\* specification is being generated, and no resume is past its reading of the file.
Settled ==
  /\ \A e \in Engines : ~Live(e)
  /\ \A f \in Flows : init[f] # "generating"
  /\ resume.at \in {"idle", "loading"}

\* Then what the server keeps is what is being written, or what the file has.
SettledAgrees ==
  Settled /\ mem.flow # 0 /\ ~lost => IF queued = None THEN disk = mem ELSE queued = mem

\* An engine has nodes under way only while it runs, unless a rejected write ended it.
BusyAreRunning ==
  \A e \in Engines, n \in Nodes : busy[e][n] # "no" => engine[e].at = "running" \/ lost

LEMMA BusyAreRunningInit == Init => BusyAreRunning
BY DEF Init, BusyAreRunning, NotBusy

LEMMA BusyAreRunningStep ==
  ASSUME ServiceInv, BusyAreRunning, [Next]_vars
  PROVE  BusyAreRunning'
<1>1. EnginesTyped /\ BusyTyped
  BY InvInParts
<1>2. ASSUME UNCHANGED busy, lost' = lost,
             \A e \in Engines : engine[e].at = "running" => engine'[e].at = "running"
      PROVE  BusyAreRunning'
  BY <1>2 DEF BusyAreRunning
<1>3. CASE WriteLands
  <2>1. \A e \in Engines, n \in Nodes : busy'[e][n] # "no" => busy[e][n] # "no"
    BY <1>1, <1>3 DEF WriteLands, BusyTyped
  <2>2. \A e \in Engines : engine[e].at = "running" => engine'[e].at = "running"
    BY <1>1, <1>3 DEF WriteLands, EnginesTyped
  <2> QED BY <1>3, <2>1, <2>2 DEF WriteLands, BusyAreRunning
<1>4. CASE WriteRejects \/ ResumeRejects
  BY <1>4 DEF WriteRejects, ResumeRejects, BusyAreRunning
<1>5. ASSUME NEW f \in Flows,
             InitChecks(f) \/ InitSets(f) \/ InitRefused(f) \/ SpecEnds(f) \/ Start(f)
      PROVE  BusyAreRunning'
  BY <1>2, <1>5 DEF InitChecks, InitSets, InitRefused, SpecEnds, Start
<1>6. ASSUME NEW s, Launch(s), UNCHANGED <<busy, lost>> PROVE BusyAreRunning'
  <2>1. \A e \in Engines : engine[e].at = "running" => engine'[e].at = "running"
    BY <1>1, <1>6 DEF Launch, EnginesTyped
  <2> QED BY <1>2, <1>6, <2>1
<1>7. ASSUME NEW e \in Engines, NEW b \in [Nodes -> {"no", "executing", "saving", "saved", "stuck"}],
             Dispatch(e, b), lost' = lost,
             engine[e].at \in {"launched", "running"} \/ lost
      PROVE  BusyAreRunning'
  <2>1. \A d \in Engines : engine[d].at = "running" => engine'[d].at = "running"
    BY <1>1, <1>7 DEF Dispatch, EnginesTyped
  <2>2. engine[e].at \in {"launched", "running"} => engine'[e].at = "running"
    BY <1>1, <1>7 DEF Dispatch, EnginesTyped
  <2>3. \A d \in Engines : d # e => busy'[d] = busy[d]
    BY <1>1, <1>7 DEF Dispatch, BusyTyped
  <2> QED BY <1>7, <2>1, <2>2, <2>3 DEF BusyAreRunning
<1>8. ASSUME NEW e \in Engines, EngineBegins(e) PROVE BusyAreRunning'
  BY <1>1, <1>7, <1>8 DEF EngineBegins, BusyTyped
<1>9. ASSUME NEW e \in Engines, NEW n \in Nodes, NEW how \in {"done", "failed"}, NodeEnds(e, n, how)
      PROVE  BusyAreRunning'
  <2>1. \A d \in Engines : engine'[d].at = engine[d].at
    BY <1>1, <1>9 DEF NodeEnds, EnginesTyped
  <2>2. \A d \in Engines, m \in Nodes : busy'[d][m] # "no" => busy[d][m] # "no"
    BY <1>1, <1>9 DEF NodeEnds, BusyTyped
  <2> QED BY <1>9, <2>1, <2>2 DEF NodeEnds, BusyAreRunning
<1>10. ASSUME NEW e \in Engines, NEW n \in Nodes, NodeSettles(e, n) PROVE BusyAreRunning'
  <2>1. [busy[e] EXCEPT ![n] = "no"] \in [Nodes -> {"no", "executing", "saving", "saved", "stuck"}]
    BY <1>1 DEF BusyTyped
  <2>2. engine[e].at = "running" \/ lost
    BY <1>10 DEF NodeSettles, BusyAreRunning
  <2> QED BY <1>7, <1>10, <2>1, <2>2 DEF NodeSettles
<1>11. ASSUME NEW e \in Engines, EngineConcludes(e) PROVE BusyAreRunning'
  <2>1. \A d \in Engines : d # e => engine'[d] = engine[d]
    BY <1>1, <1>11 DEF EngineConcludes, EnginesTyped
  <2>2. \A n \in Nodes : busy[e][n] = "no"
    BY <1>11 DEF EngineConcludes, NotBusy
  <2> QED BY <1>11, <2>1, <2>2 DEF EngineConcludes, BusyAreRunning
<1>12. ASSUME NEW e \in Engines, EngineReturns(e) \/ EngineFails(e) PROVE BusyAreRunning'
  <2>1. \A d \in Engines : engine[d].at = "running" => engine'[d].at = "running"
    BY <1>1, <1>12 DEF EngineReturns, EngineFails, EnginesTyped
  <2> QED BY <1>2, <1>12, <2>1 DEF EngineReturns, EngineFails
<1>13. ASSUME NEW e \in Engines, Sync(e) PROVE BusyAreRunning'
  BY <1>2, <1>13 DEF Sync
<1>14. ASSUME NEW f \in Flows, StartLaunches(f) PROVE BusyAreRunning'
  BY <1>6, <1>14 DEF StartLaunches
<1>15. CASE Pause \/ ResumeChecks \/ ResumeLoads \/ ResumeRefused \/ UNCHANGED vars
  BY <1>2, <1>15 DEF Pause, ResumeChecks, ResumeLoads, ResumeRefused, vars
<1>16. CASE ResumeLaunches
  BY <1>6, <1>16 DEF ResumeLaunches
<1>17. CASE Crash
  BY <1>17 DEF Crash, BusyAreRunning, NotBusy
<1> QED
  BY <1>3, <1>4, <1>5, <1>8, <1>9, <1>10, <1>11, <1>12, <1>13, <1>14, <1>15, <1>16, <1>17
     DEF Next, EngineStep

LEMMA SettledAgreesInit == Init => SettledAgrees
BY Constants DEF Init, SettledAgrees

LEMMA SettledAgreesStep ==
  ASSUME ServiceInv, BusyAreRunning, SettledAgrees, [Next]_vars
  PROVE  SettledAgrees'
<1> SUFFICES ASSUME Settled', mem'.flow # 0, ~lost'
             PROVE  IF queued' = None THEN disk' = mem' ELSE queued' = mem'
  BY DEF SettledAgrees, None, Snap, AllPending
<1>1. RestTyped /\ EnginesTyped /\ BusyTyped
  BY InvInParts
<1>2. ASSUME queued' = mem' PROVE queued' # None
  BY <1>2, Constants
\* A step that sets neither what is kept, nor what is written, nor who is about to.
<1>3. ASSUME UNCHANGED <<mem, disk, queued, lost>>, Settled
      PROVE  IF queued' = None THEN disk' = mem' ELSE queued' = mem'
  BY <1>3 DEF SettledAgrees
<1>4. CASE WriteLands
  <2>1. ASSUME NEW e \in Engines PROVE ~Live(e)
    <3>1. engine'[e].at \in {"unused", "ended"}
      BY DEF Settled, Live
    <3> QED BY <1>1, <1>4, <3>1 DEF WriteLands, EnginesTyped, Live
  <2>2. Settled
    BY <1>1, <1>4, <2>1 DEF WriteLands, Settled, RestTyped
  <2> QED BY <1>4, <2>2 DEF WriteLands, SettledAgrees
<1>5. CASE WriteRejects
  BY <1>5 DEF WriteRejects
<1>6. ASSUME NEW f \in Flows, InitChecks(f)
      PROVE  IF queued' = None THEN disk' = mem' ELSE queued' = mem'
  <2>1. Settled
    BY <1>1, <1>6 DEF InitChecks, Settled, RestTyped, Live
  <2> QED BY <1>3, <1>6, <2>1 DEF InitChecks
<1>7. ASSUME NEW f \in Flows, InitSets(f) PROVE FALSE
  BY <1>1, <1>7 DEF InitSets, Settled, RestTyped
<1>8. ASSUME NEW f \in Flows, InitRefused(f)
      PROVE  IF queued' = None THEN disk' = mem' ELSE queued' = mem'
  <2>1. Settled
    BY <1>1, <1>8 DEF InitRefused, Settled, RestTyped, Live
  <2> QED BY <1>3, <1>8, <2>1 DEF InitRefused
<1>9. ASSUME NEW f \in Flows, SpecEnds(f) PROVE queued' = mem'
  BY <1>9 DEF SpecEnds, Save
<1>10. ASSUME NEW e \in Engines, EngineBegins(e) PROVE FALSE
  <2>1. engine'[e].at = "running"
    BY <1>1, <1>10 DEF EngineBegins, Dispatch, EnginesTyped
  <2> QED BY <2>1 DEF Settled, Live
<1>11. ASSUME NEW e \in Engines, NEW n \in Nodes, NEW how \in {"done", "failed"}, NodeEnds(e, n, how)
       PROVE  FALSE
  <2>1. engine[e].at = "running"
    BY <1>11 DEF NodeEnds, BusyAreRunning
  <2>2. engine'[e].at = "running"
    BY <1>1, <1>11, <2>1 DEF NodeEnds, EnginesTyped
  <2> QED BY <2>2 DEF Settled, Live
<1>12. ASSUME NEW e \in Engines, NEW n \in Nodes, NodeSettles(e, n)
       PROVE  IF queued' = None THEN disk' = mem' ELSE queued' = mem'
  <2>1. ASSUME NEW d \in Engines PROVE ~Live(d)
    <3>1. engine'[d].at \in {"unused", "ended"}
      BY DEF Settled, Live
    <3> QED BY <1>1, <1>12, <3>1 DEF NodeSettles, Dispatch, EnginesTyped, Live
  <2>2. Settled
    BY <1>12, <2>1 DEF NodeSettles, Settled
  <2> QED BY <1>3, <1>12, <2>2 DEF NodeSettles
<1>13. ASSUME NEW e \in Engines, EngineConcludes(e) PROVE FALSE
  <2>1. engine'[e].at = "concluding"
    BY <1>1, <1>13 DEF EngineConcludes, EnginesTyped
  <2> QED BY <2>1 DEF Settled, Live
<1>14. ASSUME NEW e \in Engines, EngineReturns(e) \/ EngineFails(e) PROVE queued' = mem'
  BY <1>14 DEF EngineReturns, EngineFails, Save
<1>15. ASSUME NEW e \in Engines, Sync(e) PROVE FALSE
  BY <1>15 DEF Sync, Settled, Live
<1>16. ASSUME NEW f \in Flows, Start(f) PROVE queued' = mem'
  BY <1>16 DEF Start, Save
<1>17. ASSUME NEW s \in Snapshot, Launch(s) PROVE FALSE
  <2>1. PICK e \in Engines : engine' = [engine EXCEPT ![e] = [at |-> "launched", snap |-> s]]
    BY <1>17 DEF Launch
  <2>2. engine'[e].at = "launched"
    BY <1>1, <2>1 DEF EnginesTyped
  <2> QED BY <2>2 DEF Settled, Live
<1>18. ASSUME NEW f \in Flows, StartLaunches(f) PROVE FALSE
  BY <1>17, <1>18, Constants, SnapIsSnapshot DEF StartLaunches, Flows
<1>19. CASE Pause
  BY <1>2, <1>19 DEF Pause, Save
<1>20. CASE ResumeChecks
  <2>1. Settled
    BY <1>20 DEF ResumeChecks, Settled, Live
  <2> QED BY <1>3, <1>20, <2>1 DEF ResumeChecks
<1>21. CASE ResumeLoads
  BY <1>21 DEF ResumeLoads, Settled
<1>22. CASE ResumeRefused
  <2>1. Settled
    BY <1>22 DEF ResumeRefused, Settled, Live
  <2> QED BY <1>3, <1>22, <2>1 DEF ResumeRefused
<1>23. CASE ResumeLaunches
  BY <1>1, <1>17, <1>23 DEF ResumeLaunches, RestTyped
<1>24. CASE ResumeRejects
  BY <1>24 DEF ResumeRejects
<1>25. CASE Crash
  BY <1>25, Constants DEF Crash
<1>26. CASE UNCHANGED vars
  <2>1. Settled
    BY <1>26 DEF vars, Settled, Live
  <2> QED BY <1>3, <1>26, <2>1 DEF vars
<1> QED
  BY <1>2, <1>4, <1>5, <1>6, <1>7, <1>8, <1>9, <1>10, <1>11, <1>12, <1>13, <1>14, <1>15, <1>16,
     <1>18, <1>19, <1>20, <1>21, <1>22, <1>23, <1>24, <1>25, <1>26
     DEF Next, EngineStep

\* When nothing is under way, what the server answers is what a later process would find on disk,
\* however requests, syncs and writes were interleaved, unless a write was rejected (each
\* setWorkflow of workflow.ts but the sync's comes with a save, and the sync's engine ends in one).
THEOREM QuietDiskAgreesHolds == Spec => []QuietDiskAgrees
<1>1. SettledAgrees => QuietDiskAgrees
  BY DEF SettledAgrees, Settled, QuietDiskAgrees, Quiet
<1> QED BY <1>1, ServiceInvInit, ServiceInvStep, BusyAreRunningInit, BusyAreRunningStep,
           SettledAgreesInit, SettledAgreesStep, PTL DEF Spec

=============================================================================
