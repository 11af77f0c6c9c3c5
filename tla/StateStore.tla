----------------------------- MODULE StateStore -----------------------------
(***************************************************************************)
(* persistence/state.ts: how snapshots of a workflow reach workflow.json.  *)
(*                                                                         *)
(* Calls are numbered in the order they are made, and a call's number      *)
(* stands for the snapshot it passes.  A write is named by the snapshot it *)
(* carries.  Its three awaits (mkdir, writeFile, rename) are separate      *)
(* steps, and so are the open of the temporary file, which truncates it,   *)
(* and the write of its content: every write uses the same temporary path. *)
(* A file is an inode; a write that has opened one keeps writing to it     *)
(* when another write has renamed it.                                      *)
(*                                                                         *)
(* One project: pendingWrites is keyed by project path, and the files of   *)
(* two projects are different.                                             *)
(*                                                                         *)
(* Definitions whose name ends in _Faulty are not part of the model: each  *)
(* is the definition after it with one plausible mistake.                  *)
(***************************************************************************)
EXTENDS Naturals, FiniteSets, TLAPS

CONSTANTS
  MaxCalls,  \* bound on the number of calls
  Overlap,   \* may a write still be in flight when the next one starts?
  Faults     \* which of "crash", "ioError" may happen

ASSUME MaxCallsAssumption == MaxCalls \in Nat
ASSUME OverlapAssumption == Overlap \in BOOLEAN

Calls == 1 .. MaxCalls
NoFile == 0

\* What is not a snapshot: nothing, and the beginning of one and the end of another.
Empty == MaxCalls + 1
Mixed == MaxCalls + 2

VARIABLES
  made,     \* number of calls made so far
  outcome,  \* what became of the promise of each call
  pending,  \* pendingWrites.get(projectPath): the snapshot, 0 for none
  joined,   \* the calls whose resolvers the pending write holds
  at,       \* the await each write is at
  serves,   \* the calls each write resolves or rejects when it ends
  inode,    \* the inode each write has open
  content,  \* what each inode holds
  tmp,      \* the inode at workflow.json.tmp
  file      \* the inode at workflow.json

vars == <<made, outcome, pending, joined, at, serves, inode, content, tmp, file>>

Outcome == {"none", "open", "resolved", "rejected", "lost"}
At == {"none", "mkdir", "opened", "written", "ended"}

TypeOK ==
  /\ made \in 0 .. MaxCalls
  /\ outcome \in [Calls -> Outcome]
  /\ pending \in Calls \cup {0}
  /\ joined \subseteq Calls
  /\ pending = 0 <=> joined = {}
  /\ at \in [Calls -> At]
  /\ serves \in [Calls -> SUBSET Calls]
  /\ inode \in [Calls -> Calls \cup {NoFile}]
  /\ content \in [Calls -> Calls \cup {Empty, Mixed}]
  /\ tmp \in Calls \cup {NoFile}
  /\ file \in Calls \cup {NoFile}

Init ==
  /\ made = 0
  /\ outcome = [c \in Calls |-> "none"]
  /\ pending = 0 /\ joined = {}
  /\ at = [w \in Calls |-> "none"]
  /\ serves = [w \in Calls |-> {}]
  /\ inode = [w \in Calls |-> NoFile]
  /\ content = [i \in Calls |-> Empty]
  /\ tmp = NoFile /\ file = NoFile

-----------------------------------------------------------------------------
InFlight == {w \in Calls : at[w] \in {"mkdir", "opened", "written"}}

\* The assumption Overlap = FALSE makes: a write takes less than DEBOUNCE_MS, and
\* no immediate write is asked for while one is in flight.
MayStart == Overlap \/ InFlight = {}

Settle(calls, how) == outcome' = [c \in Calls |-> IF c \in calls THEN how ELSE outcome[c]]

Save_Faulty ==  \* the snapshot of the first call is kept
  /\ made < MaxCalls
  /\ made' = made + 1
  /\ outcome' = [outcome EXCEPT ![made'] = "open"]
  /\ pending' = IF pending = 0 THEN made' ELSE pending
  /\ joined' = joined \cup {made'}
  /\ UNCHANGED <<at, serves, inode, content, tmp, file>>

\* saveWorkflowState: the call joins the pending write, whose snapshot it
\* replaces and whose timer it restarts.
Save ==
  /\ made < MaxCalls
  /\ made' = made + 1
  /\ outcome' = [outcome EXCEPT ![made'] = "open"]
  /\ pending' = made'
  /\ joined' = joined \cup {made'}
  /\ UNCHANGED <<at, serves, inode, content, tmp, file>>


\* executePendingWrite, from the timer or from flushPendingWrites.
ExecutePending ==
  /\ pending # 0
  /\ MayStart
  /\ at' = [at EXCEPT ![pending] = "mkdir"]
  /\ serves' = [serves EXCEPT ![pending] = joined]
  /\ pending' = 0 /\ joined' = {}
  /\ UNCHANGED <<made, outcome, inode, content, tmp, file>>

SaveImmediate_Resolvers_Faulty ==  \* the resolvers of the pending write are dropped
  /\ made < MaxCalls
  /\ MayStart
  /\ made' = made + 1
  /\ outcome' = [outcome EXCEPT ![made'] = "open"]
  /\ at' = [at EXCEPT ![made'] = "mkdir"]
  /\ serves' = [serves EXCEPT ![made'] = {made'}]
  /\ pending' = 0 /\ joined' = {}
  /\ UNCHANGED <<inode, content, tmp, file>>

SaveImmediate_Timer_Faulty ==  \* the pending write is not cancelled
  /\ made < MaxCalls
  /\ MayStart
  /\ made' = made + 1
  /\ outcome' = [outcome EXCEPT ![made'] = "open"]
  /\ at' = [at EXCEPT ![made'] = "mkdir"]
  /\ serves' = [serves EXCEPT ![made'] = {made'}]
  /\ UNCHANGED <<pending, joined, inode, content, tmp, file>>

\* saveWorkflowStateImmediate: cancels the pending write, takes over its
\* resolvers and writes at once.
SaveImmediate ==
  /\ made < MaxCalls
  /\ MayStart
  /\ made' = made + 1
  /\ outcome' = [outcome EXCEPT ![made'] = "open"]
  /\ at' = [at EXCEPT ![made'] = "mkdir"]
  /\ serves' = [serves EXCEPT ![made'] = joined \cup {made'}]
  /\ pending' = 0 /\ joined' = {}
  /\ UNCHANGED <<inode, content, tmp, file>>

-----------------------------------------------------------------------------
(* atomicWrite                                                             *)

Open_Faulty(w) ==  \* the target is opened in place of the temporary file
  /\ at[w] = "mkdir"
  /\ at' = [at EXCEPT ![w] = "opened"]
  /\ LET i == IF file = NoFile THEN w ELSE file
     IN  /\ inode' = [inode EXCEPT ![w] = i]
         /\ content' = [content EXCEPT ![i] = Empty]
         /\ tmp' = i
  /\ UNCHANGED <<made, outcome, pending, joined, serves, file>>

\* writeFile opens the temporary path: a new inode, or the one that is there, cut
\* to length zero.
Open(w) ==
  /\ at[w] = "mkdir"
  /\ at' = [at EXCEPT ![w] = "opened"]
  /\ LET i == IF tmp = NoFile THEN w ELSE tmp
     IN  /\ inode' = [inode EXCEPT ![w] = i]
         /\ content' = [content EXCEPT ![i] = Empty]
         /\ tmp' = i
  /\ UNCHANGED <<made, outcome, pending, joined, serves, file>>

\* ... and writes the content from offset zero.  Over something longer it leaves
\* the tail.
Write(w) ==
  /\ at[w] = "opened"
  /\ at' = [at EXCEPT ![w] = "written"]
  /\ \E new \in {w} \cup (IF content[inode[w]] = Empty THEN {} ELSE {Mixed}) :
       content' = [content EXCEPT ![inode[w]] = new]
  /\ UNCHANGED <<made, outcome, pending, joined, serves, inode, tmp, file>>

\* rename succeeds, and the promises are resolved.
Rename(w) ==
  /\ at[w] = "written"
  /\ tmp # NoFile
  /\ file' = tmp
  /\ tmp' = NoFile
  /\ at' = [at EXCEPT ![w] = "ended"]
  /\ Settle(serves[w], "resolved")
  /\ UNCHANGED <<made, pending, joined, serves, inode, content>>

\* An await of atomicWrite rejects: rename because another write has taken the
\* temporary file away, or any of them because of the file system.
WriteRejects(w) ==
  /\ w \in InFlight
  /\ "ioError" \in Faults \/ (at[w] = "written" /\ tmp = NoFile)
  /\ at' = [at EXCEPT ![w] = "ended"]
  /\ Settle(serves[w], "rejected")
  /\ UNCHANGED <<made, pending, joined, serves, inode, content, tmp, file>>

-----------------------------------------------------------------------------
\* The process dies and a new one starts: the files stay, a temporary one too.
Crash ==
  /\ "crash" \in Faults
  /\ InFlight # {} \/ pending # 0
  /\ Settle({c \in Calls : outcome[c] = "open"}, "lost")
  /\ pending' = 0 /\ joined' = {}
  /\ at' = [w \in Calls |-> IF at[w] = "none" THEN "none" ELSE "ended"]
  /\ UNCHANGED <<made, serves, inode, content, tmp, file>>

WriteStep(w) == Open(w) \/ Write(w) \/ Rename(w) \/ WriteRejects(w)

Next ==
  \/ Save
  \/ ExecutePending
  \/ SaveImmediate
  \/ \E w \in Calls : WriteStep(w)
  \/ Crash

Spec == Init /\ [][Next]_vars

\* The timer fires and the file system answers.
FairSpec ==
  Spec /\ WF_vars(ExecutePending) /\ \A w \in Calls : WF_vars(WriteStep(w))

-----------------------------------------------------------------------------
(* Properties                                                              *)

\* What loadWorkflowState would find, 0 when there is no file.
OnDisk == IF file = NoFile THEN 0 ELSE content[file]

\* Whatever happens, crash included, workflow.json is absent or one snapshot,
\* whole (saveWorkflowState: "Uses atomic writes (temp file + rename) to prevent
\* corruption").
FileWhole == file # NoFile => content[file] \in Calls

\* A save whose promise has resolved is on disk, or a later one is, and stays so
\* (the engine goes on to its next step, a route answers).
ResolvedIsDurable ==
  \A c \in Calls : outcome[c] = "resolved" => OnDisk \in Calls /\ OnDisk >= c

\* The file never goes back to an older snapshot.
NeverGoesBack ==
  [][file' # file /\ OnDisk \in Calls => OnDisk' \in Calls /\ OnDisk' > OnDisk]_vars

\* Every save is answered, or the process died: a coalesced call is not forgotten
\* (existing.resolvers).
SavesSettle == \A c \in Calls : (outcome[c] = "open") ~> (outcome[c] # "open")

-----------------------------------------------------------------------------
(* Theorems, for any number of calls, crashes and I/O errors.  All but     *)
(* type correctness need the assumption ~Overlap: with overlapping writes  *)
(* they are false.                                                         *)

LEMMA TypeOKInit ==
  ASSUME Init
  PROVE  TypeOK
BY MaxCallsAssumption DEF Init, TypeOK, Calls, NoFile, Empty, Outcome, At

LEMMA TypeOKStep ==
  ASSUME TypeOK, [Next]_vars
  PROVE  TypeOK'
<1> USE MaxCallsAssumption DEF TypeOK, Calls, NoFile, Outcome, At
<1>1. CASE Save
  BY <1>1 DEF Save
<1>2. CASE ExecutePending
  BY <1>2 DEF ExecutePending
<1>3. CASE SaveImmediate
  BY <1>3 DEF SaveImmediate
<1>4. ASSUME NEW w \in Calls, Open(w) PROVE TypeOK'
  BY <1>4 DEF Open, Empty
<1>5. ASSUME NEW w \in Calls, Write(w) PROVE TypeOK'
  <2>1. PICK new \in {w, Mixed} : content' = [content EXCEPT ![inode[w]] = new]
    BY <1>5 DEF Write
  <2>2. content' \in [Calls -> Calls \cup {Empty, Mixed}]
    BY <2>1
  <2> QED BY <1>5, <2>2 DEF Write
<1>6. ASSUME NEW w \in Calls, Rename(w) PROVE TypeOK'
  BY <1>6 DEF Rename, Settle
<1>7. ASSUME NEW w \in Calls, WriteRejects(w) PROVE TypeOK'
  BY <1>7 DEF WriteRejects, Settle
<1>8. CASE Crash
  BY <1>8 DEF Crash, Settle
<1>9. CASE UNCHANGED vars
  BY <1>9 DEF vars
<1> QED BY <1>1, <1>2, <1>3, <1>4, <1>5, <1>6, <1>7, <1>8, <1>9 DEF Next, WriteStep

\* Every variable keeps its type (the module state of state.ts, lines 16-27).
THEOREM TypeCorrect == Spec => []TypeOK
<1>1. Init => TypeOK
  BY TypeOKInit
<1>2. TypeOK /\ [Next]_vars => TypeOK'
  BY TypeOKStep
<1> QED BY <1>1, <1>2, PTL DEF Spec

-----------------------------------------------------------------------------
(* The inductive invariant.  Snapshots reach the disk in the order of the  *)
(* calls: what is on disk is older than what is in flight, and that is     *)
(* older than what is pending.                                             *)

\* The calls made so far are those with an outcome, and the pending write serves
\* no call later than its snapshot.
Numbered ==
  /\ \A c \in Calls : outcome[c] # "none" \/ at[c] # "none" => c <= made
  /\ pending <= made
  /\ \A c \in joined : c <= pending

\* Writes go one at a time, each serving no call later than its snapshot.
OneWrite ==
  /\ \A v, w \in InFlight : v = w
  /\ \A w \in InFlight : \A c \in serves[w] : c <= w
  /\ \A w \in InFlight : pending # 0 => w < pending
  /\ pending # 0 => at[pending] = "none"

\* The temporary file and the target are different inodes, made by different
\* writes, and the write in flight is the one that has the temporary file open.
Inodes ==
  /\ tmp # NoFile => tmp # file /\ at[tmp] \notin {"none", "mkdir"}
  /\ file # NoFile => at[file] \notin {"none", "mkdir"}
  /\ \A w \in InFlight : at[w] # "mkdir" => tmp # NoFile /\ inode[w] = tmp
  /\ \A w \in Calls : at[w] = "opened" => content[tmp] = Empty
  /\ \A w \in Calls : at[w] = "written" => content[tmp] = w

InOrder ==
  /\ FileWhole
  /\ pending # 0 => OnDisk < pending
  /\ \A w \in InFlight : OnDisk < w
  /\ OnDisk <= made

IInv == TypeOK /\ Numbered /\ OneWrite /\ Inodes /\ InOrder /\ ResolvedIsDurable

LEMMA IInvInit ==
  ASSUME Init
  PROVE  IInv
<1>1. TypeOK
  BY TypeOKInit
<1> QED BY <1>1, MaxCallsAssumption
        DEF Init, IInv, Numbered, OneWrite, Inodes, InOrder, FileWhole, ResolvedIsDurable,
            OnDisk, InFlight, Calls, NoFile

LEMMA IInvStep ==
  ASSUME ~Overlap, IInv, [Next]_vars
  PROVE  IInv'
<1> USE MaxCallsAssumption DEF IInv, TypeOK, Numbered, OneWrite, Inodes, InOrder, FileWhole,
        ResolvedIsDurable, OnDisk, InFlight, Calls, NoFile
<1>0. TypeOK'
  BY TypeOKStep DEF TypeOK
<1>1. CASE Save
  BY <1>0, <1>1 DEF Save
<1>2. CASE ExecutePending
  <2>1. /\ pending \in Calls /\ InFlight = {} /\ at' = [at EXCEPT ![pending] = "mkdir"]
        /\ serves' = [serves EXCEPT ![pending] = joined] /\ pending' = 0 /\ joined' = {}
        /\ UNCHANGED <<made, outcome, inode, content, tmp, file>>
    BY <1>2 DEF ExecutePending, MayStart
  <2>2. InFlight' = {pending}
    BY <2>1
  <2>3. Numbered'
    BY <2>1
  <2>4. OneWrite'
    <3>1. serves'[pending] = joined /\ \A c \in joined : c <= pending
      BY <2>1
    <3> HIDE DEF InFlight
    <3> QED BY <2>1, <2>2, <3>1
  <2>5. Inodes'
    BY <2>1, <2>2
  <2>6. InOrder' /\ ResolvedIsDurable'
    BY <2>1, <2>2
  <2> QED BY <1>0, <2>3, <2>4, <2>5, <2>6
<1>3. CASE SaveImmediate
  <2>1. /\ made' \in Calls /\ made' = made + 1 /\ InFlight = {}
        /\ outcome' = [outcome EXCEPT ![made'] = "open"]
        /\ at' = [at EXCEPT ![made'] = "mkdir"]
        /\ serves' = [serves EXCEPT ![made'] = joined \cup {made'}]
        /\ pending' = 0 /\ joined' = {} /\ UNCHANGED <<inode, content, tmp, file>>
    BY <1>3 DEF SaveImmediate, MayStart
  <2>2. InFlight' = {made'} /\ at[made'] = "none"
    BY <2>1
  <2>3. Numbered'
    BY <2>1
  <2>4. OneWrite'
    <3>1. serves'[made'] = joined \cup {made'} /\ \A c \in joined : c <= made
      BY <2>1
    <3> HIDE DEF InFlight
    <3> QED BY <2>1, <2>2, <3>1
  <2>5. Inodes'
    BY <2>1, <2>2
  <2>6. InOrder' /\ ResolvedIsDurable'
    BY <2>1, <2>2
  <2> QED BY <1>0, <2>3, <2>4, <2>5, <2>6
<1>4. ASSUME NEW w \in Calls, Open(w) PROVE IInv'
  BY <1>0, <1>4 DEF Open
<1>5. ASSUME NEW w \in Calls, Write(w) PROVE IInv'
  <2>1. inode[w] = tmp /\ tmp \in Calls /\ tmp # file /\ InFlight = {w}
    BY <1>5 DEF Write
  <2>2. content' = [content EXCEPT ![tmp] = w]
    BY <1>5, <2>1 DEF Write
  <2>3. UNCHANGED <<made, outcome, pending, joined, serves, inode, tmp, file>>
        /\ at' = [at EXCEPT ![w] = "written"]
    BY <1>5 DEF Write
  <2>4. InFlight' = InFlight
    BY <1>5, <2>3 DEF Write
  <2>5. file # NoFile => content'[file] = content[file]
    BY <2>1, <2>2
  <2>6. OnDisk' = OnDisk
    BY <2>3, <2>5
  <2>7. Numbered' /\ OneWrite'
    BY <1>5, <2>3, <2>4 DEF Write
  <2>8. Inodes'
    BY <2>1, <2>2, <2>3
  <2>9. InOrder' /\ ResolvedIsDurable'
    BY <2>3, <2>4, <2>5, <2>6
  <2> QED BY <1>0, <2>7, <2>8, <2>9
<1>6. ASSUME NEW w \in Calls, Rename(w) PROVE IInv'
  <2>1. InFlight = {w} /\ tmp \in Calls /\ content[tmp] = w /\ at[tmp] \notin {"none", "mkdir"}
    BY <1>6 DEF Rename
  <2>2. /\ file' = tmp /\ tmp' = NoFile /\ at' = [at EXCEPT ![w] = "ended"]
        /\ UNCHANGED <<made, pending, joined, serves, inode, content>>
    BY <1>6 DEF Rename
  <2>3. outcome' = [c \in Calls |-> IF c \in serves[w] THEN "resolved" ELSE outcome[c]]
    BY <1>6 DEF Rename, Settle
  <2>4. OnDisk' = w /\ OnDisk < w /\ w <= made
    BY <2>1, <2>2
  <2>5. Numbered' /\ OneWrite'
    BY <2>1, <2>2, <2>3
  <2>6. Inodes' /\ InOrder'
    BY <2>1, <2>2, <2>4
  <2>7. ResolvedIsDurable'
    BY <2>1, <2>2, <2>3, <2>4
  <2> QED BY <1>0, <2>5, <2>6, <2>7
<1>7. ASSUME NEW w \in Calls, WriteRejects(w) PROVE IInv'
  BY <1>0, <1>7 DEF WriteRejects, Settle
<1>8. CASE Crash
  BY <1>0, <1>8 DEF Crash, Settle
<1>9. CASE UNCHANGED vars
  BY <1>9 DEF vars
<1> QED BY <1>1, <1>2, <1>3, <1>4, <1>5, <1>6, <1>7, <1>8, <1>9 DEF Next, WriteStep

LEMMA IInvHolds ==
  ASSUME ~Overlap
  PROVE  Spec => []IInv
<1>1. Init => IInv
  BY IInvInit
<1>2. IInv /\ [Next]_vars => IInv'
  BY IInvStep
<1> QED BY <1>1, <1>2, PTL DEF Spec

-----------------------------------------------------------------------------
(* The theorems                                                            *)

\* When writes do not overlap, workflow.json is never found empty or half written,
\* through crashes and failing writes (atomicWrite, lines 46-54).
THEOREM FileWholeHolds ==
  ASSUME ~Overlap
  PROVE  Spec => []FileWhole
<1>1. IInv => FileWhole
  BY DEF IInv, InOrder
<1> QED BY <1>1, IInvHolds, PTL

\* ... and a save that was answered is on disk for good, itself or a later one
\* (saveWorkflowState, lines 109-127, and executePendingWrite, lines 134-153).
THEOREM ResolvedIsDurableHolds ==
  ASSUME ~Overlap
  PROVE  Spec => []ResolvedIsDurable
<1>1. IInv => ResolvedIsDurable
  BY DEF IInv
<1> QED BY <1>1, IInvHolds, PTL

\* ... and the file never goes back to an older snapshot, although an immediate
\* save may overtake a debounced one (saveWorkflowStateImmediate, lines 166-190).
THEOREM NeverGoesBackHolds ==
  ASSUME ~Overlap
  PROVE  Spec => NeverGoesBack
<1> DEFINE Forward == file' # file /\ OnDisk \in Calls => OnDisk' \in Calls /\ OnDisk' > OnDisk
<1>1. ASSUME IInv, [Next]_vars PROVE [Forward]_vars
  <2> USE <1>1 DEF IInv, TypeOK
  <2>1. ASSUME NEW w \in Calls, Rename(w) PROVE Forward
    <3>1. w \in InFlight /\ OnDisk < w /\ tmp # NoFile /\ content[tmp] = w
      BY <2>1 DEF Rename, InFlight, InOrder, Inodes
    <3>2. file' = tmp /\ UNCHANGED content
      BY <2>1 DEF Rename
    <3>3. OnDisk' = w
      BY <3>1, <3>2 DEF OnDisk
    <3> QED BY <3>1, <3>3, MaxCallsAssumption DEF Calls
  <2>2. (\A w \in Calls : ~Rename(w)) => UNCHANGED file
    BY DEF Next, WriteStep, Save, ExecutePending, SaveImmediate, Open, Write, WriteRejects,
       Crash, vars
  <2> QED BY <2>1, <2>2
<1> QED BY <1>1, IInvHolds, PTL DEF Spec, NeverGoesBack
=============================================================================
