---------------------------- MODULE Pages_proofs ----------------------------
(***************************************************************************)
(* Proofs about the pages of the dashboard: the one that follows a running *)
(* workflow, the list of the projects and its page, the settings, the      *)
(* pages of a workflow and its nodes: each alone, and all of them as       *)
(* MCPlatform runs them.                                                   *)
(***************************************************************************)
EXTENDS MCPlatform, SequenceTheorems, FiniteSetTheorems, TLAPS

-----------------------------------------------------------------------------
(* The page that follows a running workflow                                *)

SocketRecords == [state : {"connecting", "open", "lost", "closing", "gone"}, subscribed : BOOLEAN, inbox : Seq(Events)]
FetchRecords == [state : {"idle", "asked", "answered"}, saw : 0 .. MaxChanges]

\* What is there, and nothing that arrives is newer than the workflow.
LiveTyped ==
  /\ socket \in [Sockets -> SocketRecords]
  /\ current \in Sockets \cup {NoSocket}
  /\ timer \in BOOLEAN /\ wanted \in BOOLEAN /\ mounted \in BOOLEAN
  /\ opened \in BOOLEAN /\ serving \in BOOLEAN /\ mishap \in BOOLEAN
  /\ outages \in 0 .. MaxOutages
  /\ truth \in 0 .. MaxChanges
  /\ shown = {} \/ \E v \in 0 .. truth : shown = {v}
  /\ fetch \in [Fetches -> FetchRecords]
  /\ \A f \in Fetches : fetch[f].saw <= truth
  /\ \A s \in Sockets : \A i \in 1 .. Len(socket[s].inbox) : socket[s].inbox[i].leadsTo <= truth

\* A page that was never opened has nothing; the one that is mounted is wanted, and no socket of
\* it closes; a timer runs for it alone, while it has no socket that lives.
LiveOwned ==
  /\ ~opened => /\ ~mounted /\ ~timer /\ ~wanted /\ shown = {}
                /\ \A s \in Sockets : socket[s] = Unused
                /\ \A f \in Fetches : fetch[f].state = "idle"
  /\ (timer \/ wanted) => mounted
  /\ mounted => \A s \in Sockets : socket[s].state # "closing"
  /\ \A s \in Sockets : socket[s].state = "gone" => socket[s] = Unused
  /\ OneSocketPerPage

\* The news of the last change is on its way to the page.
NewsComes == \E s \in Sockets : LET inbox == socket[s].inbox IN
               inbox # <<>> /\ inbox[Len(inbox)].leadsTo = truth

\* An old answer will be followed by the news, and an old view by the news or by a new answer.
LiveFollows ==
  ~mishap /\ mounted =>
    /\ (\E f \in Fetches : fetch[f].state = "answered" /\ fetch[f].saw < truth) => NewsComes
    /\ \A v \in shown : \/ v = truth \/ NewsComes
                        \/ \E f \in Fetches : \/ fetch[f].state = "asked"
                                              \/ fetch[f].state = "answered" /\ fetch[f].saw = truth

LiveInv == LiveTyped /\ LiveOwned /\ LiveFollows

LEMMA LiveInvInit == LiveInit => LiveInv
<1> SUFFICES ASSUME LiveInit PROVE LiveInv
  OBVIOUS
<1> USE DEF LiveInit
<1>1. ASSUME NEW s \in Sockets PROVE socket[s] = Unused /\ Unused \in SocketRecords
  BY DEF Unused, SocketRecords
<1>2. ASSUME NEW f \in Fetches PROVE fetch[f] = Idle
  OBVIOUS
<1>0. MaxChanges \in Nat /\ MaxOutages \in Nat
  BY LiveViewAssumption
<1>3. LiveTyped
  <2>1. socket \in [Sockets -> SocketRecords]
    BY <1>1
  <2>2. Idle \in FetchRecords
    BY <1>0 DEF Idle, FetchRecords
  <2>3. fetch \in [Fetches -> FetchRecords]
    BY <1>2, <2>2
  <2>4. \A f \in Fetches : fetch[f].saw <= truth
    BY <1>2 DEF Idle
  <2>5. \A s \in Sockets : Len(socket[s].inbox) = 0
    BY <1>1 DEF Unused
  <2>6. \A s \in Sockets : 1 .. Len(socket[s].inbox) = {}
    BY <2>5
  <2>7. /\ timer \in BOOLEAN /\ wanted \in BOOLEAN /\ mounted \in BOOLEAN
        /\ opened \in BOOLEAN /\ serving \in BOOLEAN /\ mishap \in BOOLEAN
        /\ outages \in 0 .. MaxOutages /\ truth \in 0 .. MaxChanges /\ shown = {}
        /\ current \in Sockets \cup {NoSocket}
    <3>1. outages = 0 /\ truth = 0 /\ 0 \in 0 .. MaxOutages /\ 0 \in 0 .. MaxChanges
      BY <1>0
    <3>2. /\ timer \in BOOLEAN /\ wanted \in BOOLEAN /\ mounted \in BOOLEAN
          /\ opened \in BOOLEAN /\ serving \in BOOLEAN /\ mishap \in BOOLEAN
      OBVIOUS
    <3> QED BY <3>1, <3>2
  <2> QED BY <2>1, <2>3, <2>4, <2>6, <2>7 DEF LiveTyped
<1>4. LiveOwned
  BY <1>1, <1>2 DEF LiveOwned, OneSocketPerPage, Live, Unused, Idle
<1>5. LiveFollows
  BY DEF LiveFollows
<1> QED BY <1>3, <1>4, <1>5 DEF LiveInv

LEMMA LiveInvImplies == LiveInv => LiveTypeOK /\ OneSocketPerPage /\ QuietViewIsCurrent
<1> SUFFICES ASSUME LiveInv PROVE LiveTypeOK /\ OneSocketPerPage /\ QuietViewIsCurrent
  OBVIOUS
<1> USE DEF LiveInv
<1>1. shown \subseteq 0 .. truth /\ Cardinality(shown) <= 1
  <2>1. CASE shown = {}
    BY <2>1, FS_EmptySet
  <2>2. CASE \E v \in 0 .. truth : shown = {v}
    <3>1. PICK v \in 0 .. truth : shown = {v}
      BY <2>2
    <3>2. Cardinality(shown) = 1
      BY <3>1, FS_Singleton
    <3> QED BY <3>1, <3>2
  <2> QED BY <2>1, <2>2 DEF LiveTyped
<1>2. LiveTypeOK
  BY <1>1 DEF LiveTyped, LiveTypeOK, SocketRecords, FetchRecords
<1>3. QuietViewIsCurrent
  <2> SUFFICES ASSUME ~mishap, mounted, shown # {},
                      \A s \in Sockets : socket[s].inbox = <<>>,
                      \A f \in Fetches : fetch[f].state = "idle"
               PROVE  shown = {truth}
    BY DEF QuietViewIsCurrent
  <2>1. PICK v \in 0 .. truth : shown = {v}
    BY DEF LiveTyped
  <2>2. ~NewsComes
    BY DEF NewsComes
  <2> QED BY <2>1, <2>2 DEF LiveFollows
<1> QED BY <1>2, <1>3 DEF LiveOwned

\* Connect, when nothing of the page lives: an unused socket is connecting.
LEMMA PageConnects ==
  ASSUME LiveTyped, Connect, \A s \in Sockets : ~Live(s)
  PROVE  \E s \in Sockets :
           /\ socket[s] = Unused /\ current' = s
           /\ socket'[s].state = "connecting" /\ ~socket'[s].subscribed /\ socket'[s].inbox = <<>>
           /\ \A t \in Sockets \ {s} : socket'[t] = socket[t]
           /\ socket' \in [Sockets -> SocketRecords]
<1>1. ~(current # NoSocket /\ Live(current))
  BY DEF LiveTyped
<1>2. PICK s \in Sockets : /\ socket[s] = Unused
                           /\ socket' = [socket EXCEPT ![s].state = "connecting"]
                           /\ current' = s
  BY <1>1 DEF Connect
<1>3. socket'[s] = [Unused EXCEPT !.state = "connecting"]
  BY <1>2 DEF LiveTyped
<1>4. socket'[s] \in SocketRecords /\ socket'[s].state = "connecting" /\ ~socket'[s].subscribed /\ socket'[s].inbox = <<>>
  <2>1. socket'[s] = [state |-> "connecting", subscribed |-> FALSE, inbox |-> <<>>]
    BY <1>3 DEF Unused
  <2>2. <<>> \in Seq(Events)
    OBVIOUS
  <2> QED BY <2>1, <2>2 DEF SocketRecords
<1>5. \A t \in Sockets \ {s} : socket'[t] = socket[t]
  BY <1>2 DEF LiveTyped
<1>6. socket' \in [Sockets -> SocketRecords]
  BY <1>2, <1>4, <1>5 DEF LiveTyped
<1> QED BY <1>2, <1>4, <1>5, <1>6

\* A call that begins.
LEMMA AsksOne ==
  ASSUME LiveTyped, NEW f \in Fetches, Asks(f)
  PROVE  /\ fetch' \in [Fetches -> FetchRecords]
         /\ fetch'[f].state = "asked" /\ fetch[f].state = "idle" /\ fetch'[f].saw = fetch[f].saw
         /\ \A g \in Fetches \ {f} : fetch'[g] = fetch[g]
<1>1. fetch[f] \in FetchRecords /\ fetch'[f] = [fetch[f] EXCEPT !.state = "asked"]
  BY DEF LiveTyped, Asks
<1>2. fetch'[f] \in FetchRecords /\ fetch'[f].state = "asked" /\ fetch'[f].saw = fetch[f].saw
  BY <1>1 DEF FetchRecords
<1> QED BY <1>2 DEF LiveTyped, Asks

LEMMA MountKeeps == ASSUME LiveInv, Mount, ~Remounts PROVE LiveInv'
<1> USE DEF LiveInv
<1>1. PICK f \in Fetches : Asks(f)
  BY DEF Mount
<1>2. ~opened /\ \A s \in Sockets : socket[s] = Unused
  BY DEF Mount, LiveOwned
<1>3. \A s \in Sockets : ~Live(s)
  BY <1>2 DEF Live, Unused
<1>4. PICK s \in Sockets :
           /\ socket[s] = Unused /\ current' = s
           /\ socket'[s].state = "connecting" /\ ~socket'[s].subscribed /\ socket'[s].inbox = <<>>
           /\ \A t \in Sockets \ {s} : socket'[t] = socket[t]
           /\ socket' \in [Sockets -> SocketRecords]
  BY <1>3, PageConnects DEF Mount
<1>5. fetch' \in [Fetches -> FetchRecords] /\ \A g \in Fetches : fetch'[g].saw = fetch[g].saw
  BY <1>1, AsksOne
<1>6. \A t \in Sockets : Len(socket'[t].inbox) = 0
  BY <1>2, <1>4 DEF Unused
<1>7. LiveTyped'
  BY <1>4, <1>5, <1>6 DEF LiveTyped, Mount
<1>8. LiveOwned'
  BY <1>2, <1>4 DEF LiveOwned, OneSocketPerPage, Live, Unused, Mount
<1>9. LiveFollows'
  <2>1. shown' = {}
    BY <1>2 DEF Mount, LiveOwned
  <2>2. \A g \in Fetches : fetch[g].state = "idle"
    BY <1>2 DEF LiveOwned
  <2>3. \A g \in Fetches : fetch'[g].state # "answered"
    BY <1>1, <2>2, AsksOne
  <2> QED BY <2>1, <2>3 DEF LiveFollows
<1> QED BY <1>7, <1>8, <1>9

LEMMA ReconnectKeeps == ASSUME LiveInv, Reconnect PROVE LiveInv'
<1> USE DEF LiveInv
<1>1. timer /\ mounted /\ \A s \in Sockets : ~Live(s)
  BY DEF LiveOwned, OneSocketPerPage, Reconnect
<1>2. PICK s \in Sockets :
           /\ socket[s] = Unused /\ current' = s
           /\ socket'[s].state = "connecting" /\ ~socket'[s].subscribed /\ socket'[s].inbox = <<>>
           /\ \A t \in Sockets \ {s} : socket'[t] = socket[t]
           /\ socket' \in [Sockets -> SocketRecords]
  BY <1>1, PageConnects DEF Reconnect
<1>3. \A t \in Sockets : socket'[t].inbox = socket[t].inbox
  BY <1>2 DEF Unused
<1>4. LiveTyped'
  BY <1>2, <1>3 DEF LiveTyped, Reconnect
<1>5. LiveOwned'
  <2>1. mounted' /\ opened' /\ ~timer'
    BY <1>1 DEF LiveOwned, LiveTyped, Reconnect
  <2> QED BY <1>1, <1>2, <2>1 DEF LiveOwned, OneSocketPerPage, Live
<1>6. LiveFollows'
  BY <1>3 DEF LiveFollows, NewsComes, Reconnect
<1> QED BY <1>4, <1>5, <1>6

LEMMA UnmountKeeps == ASSUME LiveInv, Unmount PROVE LiveInv'
<1> USE DEF LiveInv
<1>1. ASSUME NEW s \in Sockets
      PROVE  /\ socket'[s] \in SocketRecords /\ socket'[s].inbox = socket[s].inbox
             /\ socket'[s] = socket[s] \/ socket'[s].state = "closing"
             /\ socket'[s].state \in {"gone", "closing"}
  <2>1. socket[s] \in SocketRecords
    BY DEF LiveTyped
  <2>2. CASE s = current /\ Live(s)
    <3>1. socket'[s] = [socket[s] EXCEPT !.state = "closing"]
      BY <2>2 DEF Unmount
    <3> QED BY <2>1, <3>1 DEF SocketRecords
  <2>3. CASE ~(s = current /\ Live(s))
    <3>1. socket'[s] = socket[s]
      BY <2>3 DEF Unmount
    <3>2. ~Live(s)
      BY <2>3 DEF LiveOwned, OneSocketPerPage
    <3> QED BY <2>1, <3>1, <3>2 DEF SocketRecords, Live
  <2> QED BY <2>2, <2>3
<1>2. socket' \in [Sockets -> SocketRecords]
  BY <1>1 DEF Unmount
<1>3. LiveTyped'
  BY <1>1, <1>2 DEF LiveTyped, Unmount
<1>4. LiveOwned'
  BY <1>1 DEF LiveOwned, OneSocketPerPage, Live, Unmount, LiveTyped
<1>5. LiveFollows'
  BY DEF LiveFollows, Unmount
<1> QED BY <1>3, <1>4, <1>5

\* A socket that changes in what is not its inbox, and lives if it lived.
LEMMA SocketKeeps ==
  ASSUME LiveInv, NEW s \in Sockets, NEW w \in SocketRecords, socket' = [socket EXCEPT ![s] = w],
         Live(s), w.state \in {"connecting", "open", "lost"}, w.inbox = socket[s].inbox,
         UNCHANGED <<current, timer, wanted, mounted, opened, serving, outages, truth, shown, fetch, mishap>>
  PROVE  LiveInv'
<1> USE DEF LiveInv
<1>1. socket'[s] = w /\ \A t \in Sockets \ {s} : socket'[t] = socket[t]
  BY DEF LiveTyped
<1>2. socket' \in [Sockets -> SocketRecords] /\ \A t \in Sockets : socket'[t].inbox = socket[t].inbox
  BY <1>1 DEF LiveTyped
<1>3. LiveTyped'
  BY <1>2 DEF LiveTyped
<1>4. LiveOwned'
  BY <1>1 DEF LiveOwned, OneSocketPerPage, Live, Unused
<1>5. LiveFollows'
  BY <1>2 DEF LiveFollows, NewsComes
<1> QED BY <1>3, <1>4, <1>5

LEMMA OpenedKeeps == ASSUME LiveInv, NEW s \in Sockets, Opened(s) \/ Subscribed(s) PROVE LiveInv'
<1>0. socket[s] \in SocketRecords /\ socket \in [Sockets -> SocketRecords]
  BY DEF LiveInv, LiveTyped
<1>1. CASE Opened(s)
  <2> DEFINE w == [socket[s] EXCEPT !.state = "open"]
  <2>1. w \in SocketRecords /\ w.state = "open" /\ w.inbox = socket[s].inbox
    BY <1>0 DEF SocketRecords
  <2>2. socket' = [socket EXCEPT ![s] = w] /\ Live(s)
    BY <1>0, <1>1 DEF Opened, Live
  <2> HIDE DEF w
  <2> QED BY <1>1, <2>1, <2>2, SocketKeeps DEF Opened
<1>2. CASE Subscribed(s)
  <2> DEFINE w == [socket[s] EXCEPT !.subscribed = TRUE]
  <2>1. w \in SocketRecords /\ w.state = socket[s].state /\ w.inbox = socket[s].inbox
    BY <1>0 DEF SocketRecords
  <2>2. socket' = [socket EXCEPT ![s] = w] /\ Live(s) /\ socket[s].state = "open"
    BY <1>0, <1>2 DEF Subscribed, Live
  <2> HIDE DEF w
  <2> QED BY <1>2, <2>1, <2>2, SocketKeeps DEF Subscribed
<1> QED BY <1>1, <1>2

LEMMA ClosedKeeps == ASSUME LiveInv, NEW s \in Sockets, Closed(s) PROVE LiveInv'
<1> USE DEF LiveInv
<1>1. socket'[s] = Unused /\ \A t \in Sockets \ {s} : socket'[t] = socket[t]
  BY DEF LiveTyped, Closed
<1>2. Unused \in SocketRecords /\ Unused.state = "gone" /\ Unused.inbox = <<>>
  BY DEF SocketRecords, Unused
<1>3. socket' \in [Sockets -> SocketRecords]
  BY <1>1, <1>2 DEF LiveTyped, Closed
<1>4. LiveTyped'
  <2>1. Len(socket'[s].inbox) = 0
    BY <1>1, <1>2
  <2> QED BY <1>1, <1>3, <2>1 DEF LiveTyped, Closed
<1>5. LiveOwned'
  <2>1. opened' /\ opened
    BY <1>2 DEF LiveOwned, Closed, LiveTyped
  <2>2. wanted => mounted
    BY DEF LiveOwned
  <2>3. \A t \in Sockets \ {s} : ~Live(t)
    BY DEF LiveOwned, OneSocketPerPage, Closed, Live
  <2> QED BY <1>1, <1>2, <2>1, <2>2, <2>3 DEF LiveOwned, OneSocketPerPage, Live, Closed
<1>6. LiveFollows'
  <2> SUFFICES ASSUME ~mishap', mounted' PROVE LiveFollows'
    BY DEF LiveFollows
  <2>1. ~mishap /\ mounted /\ socket[s].inbox = <<>>
    BY DEF Closed
  <2>2. \A t \in Sockets : socket'[t].inbox = socket[t].inbox
    BY <1>1, <1>2, <2>1
  <2> QED BY <2>1, <2>2 DEF LiveFollows, NewsComes, Closed
<1> QED BY <1>4, <1>5, <1>6

LEMMA OutageKeeps == ASSUME LiveInv, GoesDown \/ ComesUp PROVE LiveInv'
<1> USE DEF LiveInv
<1>1. CASE GoesDown
  <2>1. ASSUME NEW s \in Sockets
        PROVE  /\ socket'[s] \in SocketRecords /\ socket'[s].inbox = socket[s].inbox
               /\ socket'[s] = socket[s] \/ (socket[s].state = "open" /\ socket'[s].state = "lost")
    <3>1. socket[s] \in SocketRecords
      BY DEF LiveTyped
    <3>2. CASE socket[s].state = "open"
      <4>1. socket'[s] = [socket[s] EXCEPT !.state = "lost", !.subscribed = FALSE]
        BY <1>1, <3>2 DEF GoesDown
      <4> QED BY <3>1, <3>2, <4>1 DEF SocketRecords
    <3>3. CASE socket[s].state # "open"
      BY <1>1, <3>1, <3>3 DEF GoesDown
    <3> QED BY <3>2, <3>3
  <2>2. socket' \in [Sockets -> SocketRecords]
    BY <1>1, <2>1 DEF GoesDown
  <2>3. outages' \in 0 .. MaxOutages
    <3>1. outages \in 0 .. MaxOutages /\ MaxOutages \in Nat
      BY LiveViewAssumption DEF LiveTyped
    <3>2. outages < MaxOutages /\ outages' = outages + 1
      BY <1>1 DEF GoesDown
    <3> QED BY ONLY <3>1, <3>2
  <2>4. LiveTyped'
    BY <1>1, <2>1, <2>2, <2>3 DEF LiveTyped, GoesDown
  <2>5. LiveOwned'
    BY <1>1, <2>1 DEF LiveOwned, OneSocketPerPage, Live, Unused, GoesDown
  <2>6. LiveFollows'
    BY <1>1, <2>1 DEF LiveFollows, NewsComes, GoesDown
  <2> QED BY <2>4, <2>5, <2>6
<1>2. CASE ComesUp
  BY <1>2 DEF ComesUp, LiveTyped, LiveOwned, LiveFollows, NewsComes, OneSocketPerPage, Live
<1> QED BY <1>1, <1>2

\* The event that is told when the workflow changes is the last on its way.
LEMMA ChangeKeeps == ASSUME LiveInv, NEW kind \in {"node_status", "graph_modified"}, WorkflowChanges(kind) PROVE LiveInv'
<1> USE DEF LiveInv
<1> DEFINE event == [kind |-> kind, leadsTo |-> truth']
<1>0. truth \in Nat /\ truth' = truth + 1 /\ truth' \in 1 .. MaxChanges
  BY LiveViewAssumption DEF WorkflowChanges, LiveTyped
<1>1. event \in Events /\ event.leadsTo = truth'
  BY <1>0 DEF Events
<1>2. ASSUME NEW s \in Sockets
      PROVE  /\ socket'[s] \in SocketRecords /\ socket'[s].state = socket[s].state
             /\ socket'[s] = socket[s]
                \/ (socket[s].state = "open" /\ socket'[s].inbox = Append(socket[s].inbox, event))
  <2>1. socket[s] \in SocketRecords
    BY DEF LiveTyped
  <2>2. CASE socket[s].state = "open" /\ socket[s].subscribed
    <3>1. socket'[s] = [socket[s] EXCEPT !.inbox = Append(@, event)]
      BY <2>2 DEF WorkflowChanges
    <3>2. Append(socket[s].inbox, event) \in Seq(Events)
      BY <1>1, <2>1 DEF SocketRecords
    <3> HIDE DEF event
    <3> QED BY <2>1, <2>2, <3>1, <3>2 DEF SocketRecords
  <2>3. CASE ~(socket[s].state = "open" /\ socket[s].subscribed)
    BY <2>1, <2>3 DEF WorkflowChanges
  <2> QED BY <2>2, <2>3
<1> HIDE DEF event
<1>3. socket' \in [Sockets -> SocketRecords]
  BY <1>2 DEF WorkflowChanges
<1>4. ASSUME NEW s \in Sockets, NEW i \in 1 .. Len(socket'[s].inbox) PROVE socket'[s].inbox[i].leadsTo <= truth'
  <2>1. socket[s].inbox \in Seq(Events) /\ \A j \in 1 .. Len(socket[s].inbox) : socket[s].inbox[j].leadsTo <= truth
    BY DEF LiveTyped, SocketRecords
  <2>2. \A j \in 1 .. Len(socket[s].inbox) : socket[s].inbox[j].leadsTo \in Nat
    <3>1. \A j \in 1 .. Len(socket[s].inbox) : socket[s].inbox[j] \in Events
      BY <2>1
    <3> QED BY <3>1 DEF Events
  <2>3. CASE socket'[s] = socket[s]
    BY <1>0, <2>1, <2>2, <2>3
  <2>4. CASE socket'[s].inbox = Append(socket[s].inbox, event)
    BY <1>0, <1>1, <2>1, <2>2, <2>4
  <2> QED BY <1>2, <2>3, <2>4
<1>5. LiveTyped'
  <2>1. \A f \in Fetches : fetch[f].saw <= truth'
    BY <1>0 DEF LiveTyped, FetchRecords
  <2>2. shown' = {} \/ \E v \in 0 .. truth' : shown' = {v}
    BY <1>0 DEF LiveTyped, WorkflowChanges
  <2>3. mishap' \in BOOLEAN /\ truth' \in 0 .. MaxChanges
    BY <1>0 DEF LiveTyped, WorkflowChanges
  <2> QED BY <1>3, <1>4, <2>1, <2>2, <2>3 DEF LiveTyped, WorkflowChanges
<1>6. LiveOwned'
  <2>1. \A s \in Sockets : socket[s].state = "gone" \/ socket[s] = Unused => socket'[s] = socket[s]
    BY <1>2 DEF Unused
  <2> QED BY <1>2, <2>1 DEF LiveOwned, OneSocketPerPage, Live, WorkflowChanges
<1>7. LiveFollows'
  <2> SUFFICES ASSUME ~mishap', mounted' PROVE LiveFollows'
    BY DEF LiveFollows
  <2>1. CASE socket' = socket
    BY <2>1 DEF WorkflowChanges, LiveFollows
  <2>2. CASE socket' # socket
    <3>1. PICK s \in Sockets : socket'[s] # socket[s]
      BY <1>3, <2>2 DEF LiveTyped
    <3>2. socket'[s].inbox = Append(socket[s].inbox, event) /\ socket[s].inbox \in Seq(Events)
      BY <1>2, <3>1 DEF LiveTyped, SocketRecords
    <3>3. socket'[s].inbox # <<>> /\ socket'[s].inbox[Len(socket'[s].inbox)] = event
      BY <1>1, <3>2
    <3>4. NewsComes'
      BY <1>1, <3>3 DEF NewsComes
    <3> QED BY <3>4 DEF LiveFollows
  <2> QED BY <2>1, <2>2
<1> QED BY <1>5, <1>6, <1>7

\* What follows the first has the same last.
LEMMA LastOfTail ==
  ASSUME NEW S, NEW q \in Seq(S), q # <<>>, Len(q) # 1
  PROVE  Tail(q) # <<>> /\ Tail(q)[Len(Tail(q))] = q[Len(q)]
<1>1. Len(q) \in Nat /\ Len(q) > 1
  <2> DEFINE n == Len(q)
  <2>1. n \in Nat /\ n # 0 /\ n # 1
    BY EmptySeq
  <2> HIDE DEF n
  <2>2. n > 1
    BY <2>1
  <2> QED BY <2>1, <2>2 DEF n
<1>2. Len(Tail(q)) = Len(q) - 1 /\ Tail(q) \in Seq(S)
  BY <1>1
<1> QED BY <1>1, <1>2

LEMMA DeliveredKeeps == ASSUME LiveInv, NEW s \in Sockets, Delivered(s) PROVE LiveInv'
<1> USE DEF LiveInv
<1> DEFINE inbox == socket[s].inbox
           event == Head(inbox)
<1>0. /\ socket[s] \in SocketRecords /\ inbox \in Seq(Events) /\ inbox # <<>> /\ socket[s].state \in {"open", "lost"}
      /\ \A i \in 1 .. Len(inbox) : inbox[i].leadsTo <= truth
      /\ truth \in Nat
  BY DEF LiveTyped, SocketRecords, Delivered
<1>1. event \in Events /\ event = inbox[1] /\ 1 \in 1 .. Len(inbox)
  BY <1>0
<1>2. event.leadsTo \in 0 .. truth
  BY <1>0, <1>1 DEF Events
<1>3. socket' = [socket EXCEPT ![s].inbox = Tail(@)]
  BY DEF Delivered
<1>4. /\ socket'[s] \in SocketRecords /\ socket'[s].inbox = Tail(inbox) /\ socket'[s].state = socket[s].state
      /\ \A t \in Sockets \ {s} : socket'[t] = socket[t]
  <2>1. Tail(inbox) \in Seq(Events)
    BY <1>0
  <2>2. socket'[s] = [socket[s] EXCEPT !.inbox = Tail(inbox)]
    BY <1>3 DEF LiveTyped
  <2> HIDE DEF inbox
  <2> QED BY <1>0, <1>3, <2>1, <2>2 DEF SocketRecords, LiveTyped
<1>5. socket' \in [Sockets -> SocketRecords]
  BY <1>3, <1>4 DEF LiveTyped
<1>6. ASSUME NEW t \in Sockets, NEW i \in 1 .. Len(socket'[t].inbox) PROVE socket'[t].inbox[i].leadsTo <= truth
  <2>1. CASE t = s
    <3>1. i + 1 \in 1 .. Len(inbox) /\ socket'[t].inbox[i] = inbox[i + 1]
        <4>1. inbox \in Seq(Events) /\ inbox # <<>> /\ socket'[t].inbox = Tail(inbox)
        BY <1>0, <1>4, <2>1
      <4>2. i \in 1 .. Len(Tail(inbox))
        BY <4>1
      <4> HIDE DEF inbox
      <4> QED BY ONLY <4>1, <4>2
    <3> QED BY <1>0, <3>1
  <2>2. CASE t # s
    BY <1>4, <2>2 DEF LiveTyped
  <2> QED BY <2>1, <2>2
<1> HIDE DEF inbox, event
<1>7. \/ /\ \E f \in Fetches : Asks(f)
         /\ UNCHANGED shown /\ event.kind = "graph_modified"
      \/ /\ UNCHANGED fetch
         /\ shown' = IF shown # {} THEN {event.leadsTo} ELSE shown
  <2>1. event.kind \in {"node_status", "graph_modified"}
    BY <1>1 DEF Events
  <2> QED BY <2>1 DEF Delivered, ReloadsAt, event, inbox
<1>8. mishap' = (mishap \/ Overtakes(event.leadsTo))
  BY DEF Delivered, event, inbox
<1>9. LiveTyped'
  <2>1. fetch' \in [Fetches -> FetchRecords] /\ \A f \in Fetches : fetch'[f].saw <= truth
    BY <1>7, AsksOne DEF LiveTyped
  <2>2. shown' = {} \/ \E v \in 0 .. truth : shown' = {v}
    BY <1>2, <1>7 DEF LiveTyped
  <2>3. mishap' \in BOOLEAN
    BY <1>8 DEF LiveTyped, Overtakes
  <2> QED BY <1>5, <1>6, <2>1, <2>2, <2>3 DEF LiveTyped, Delivered
<1>10. LiveOwned'
  <2>1. opened /\ socket[s].state \notin {"gone", "closing"}
    BY <1>0 DEF LiveOwned, Unused
  <2> QED BY <1>4, <2>1 DEF LiveOwned, OneSocketPerPage, Live, Delivered
<1>11. LiveFollows'
  <2> SUFFICES ASSUME ~mishap', mounted' PROVE LiveFollows'
    BY DEF LiveFollows
  <2>1. ~mishap /\ mounted /\ truth' = truth /\ ~Overtakes(event.leadsTo)
    BY <1>8 DEF Delivered
  <2>2. \A f \in Fetches : fetch[f].state = "answered" => ~(fetch[f].saw < event.leadsTo)
    BY <2>1 DEF Overtakes
  <2>3. NewsComes => NewsComes' \/ event.leadsTo = truth
    <3> SUFFICES ASSUME NewsComes PROVE NewsComes' \/ event.leadsTo = truth
      OBVIOUS
    <3>1. PICK t \in Sockets : socket[t].inbox # <<>> /\ socket[t].inbox[Len(socket[t].inbox)].leadsTo = truth
      BY DEF NewsComes
    <3>2. CASE t # s
      <4>1. socket'[t] = socket[t]
        BY <1>4, <3>2
      <4> QED BY <2>1, <3>1, <4>1 DEF NewsComes
    <3>3. CASE t = s /\ Len(inbox) = 1
      BY <1>1, <3>1, <3>3 DEF inbox
    <3>4. CASE t = s /\ Len(inbox) # 1
      <4>1. inbox \in Seq(Events) /\ inbox # <<>> /\ Len(inbox) # 1
        BY <1>0, <3>4
      <4>2. Tail(inbox) # <<>> /\ Tail(inbox)[Len(Tail(inbox))] = inbox[Len(inbox)]
        BY <4>1, LastOfTail
      <4>3. socket'[s].inbox # <<>> /\ socket'[s].inbox[Len(socket'[s].inbox)].leadsTo = truth
        BY <1>4, <3>1, <3>4, <4>2 DEF inbox
      <4> QED BY <2>1, <4>3 DEF NewsComes
    <3> QED BY <3>2, <3>3, <3>4
  <2>4. ASSUME NEW f \in Fetches, fetch'[f].state = "answered"
        PROVE  fetch'[f] = fetch[f]
    BY <1>7, <2>4, AsksOne
  <2>5. (\E f \in Fetches : fetch'[f].state = "answered" /\ fetch'[f].saw < truth') => NewsComes'
    BY <2>1, <2>2, <2>3, <2>4 DEF LiveFollows
  <2>6. ASSUME NEW v \in shown'
        PROVE  \/ v = truth' \/ NewsComes'
               \/ \E f \in Fetches : \/ fetch'[f].state = "asked"
                                     \/ fetch'[f].state = "answered" /\ fetch'[f].saw = truth'
    <3>1. CASE \E f \in Fetches : Asks(f)
      <4>1. PICK f \in Fetches : Asks(f)
        BY <3>1
      <4> QED BY <4>1, AsksOne
    <3>2. CASE ~\E f \in Fetches : Asks(f)
      <4>1. fetch' = fetch /\ v = event.leadsTo /\ shown # {}
        BY <1>7, <2>6, <3>2
      <4>2. PICK u \in shown : TRUE
        BY <4>1
      <4>3. CASE event.leadsTo = truth
        BY <2>1, <4>1, <4>3
      <4>4. CASE event.leadsTo # truth
        <5>1. u # truth \/ NewsComes
          <6>1. ~(u > event.leadsTo)
            BY <2>1, <4>2 DEF Overtakes
          <6>2. event.leadsTo < truth
            BY <1>0, <1>2, <4>4
          <6>3. u \in Nat
            BY <4>2 DEF LiveTyped
          <6> QED BY <1>0, <1>2, <6>1, <6>2, <6>3
        <5>2. \/ NewsComes
              \/ \E f \in Fetches : \/ fetch[f].state = "asked"
                                    \/ fetch[f].state = "answered" /\ fetch[f].saw = truth
          BY <2>1, <4>2, <5>1 DEF LiveFollows
        <5> QED BY <2>1, <2>3, <4>1, <4>4, <5>2
      <4> QED BY <4>3, <4>4
    <3> QED BY <3>1, <3>2
  <2> QED BY <2>5, <2>6 DEF LiveFollows
<1> QED BY <1>9, <1>10, <1>11

LEMMA LoadKeeps == ASSUME LiveInv, NEW f \in Fetches, FetchStep(f) PROVE LiveInv'
<1> USE DEF LiveInv
<1>0. fetch[f] \in FetchRecords /\ truth \in 0 .. MaxChanges /\ truth \in Nat /\ MaxChanges \in Nat
  BY LiveViewAssumption DEF LiveTyped
<1>1. opened
  BY DEF FetchStep, Reads, Loaded, LoadFails, LiveOwned
<1>2. CASE Reads(f)
  <2> DEFINE w == [state |-> "answered", saw |-> truth]
  <2>1. w \in FetchRecords /\ w.state = "answered" /\ w.saw = truth
    BY <1>0 DEF FetchRecords
  <2> HIDE DEF w
  <2>2. fetch'[f] = w /\ (\A g \in Fetches \ {f} : fetch'[g] = fetch[g]) /\ fetch' \in [Fetches -> FetchRecords]
    BY <1>2, <2>1 DEF Reads, LiveTyped, w
  <2>3. LiveTyped'
    BY <1>0, <1>2, <2>1, <2>2 DEF LiveTyped, Reads
  <2>4. LiveOwned'
    BY <1>1, <1>2 DEF LiveOwned, OneSocketPerPage, Live, Reads
  <2>5. UNCHANGED <<mishap, mounted, truth, shown, socket>>
    BY <1>2 DEF Reads
  <2>6. NewsComes' <=> NewsComes
    BY <2>5 DEF NewsComes
  <2>7. LiveFollows'
    BY <1>0, <2>1, <2>2, <2>5, <2>6 DEF LiveFollows
  <2> QED BY <2>3, <2>4, <2>7
<1>3. CASE Loaded(f) \/ LoadFails(f)
  <2>1. Idle \in FetchRecords /\ Idle.state = "idle" /\ Idle.saw = 0
    BY <1>0 DEF FetchRecords, Idle
  <2>2. fetch'[f] = Idle /\ (\A g \in Fetches \ {f} : fetch'[g] = fetch[g]) /\ fetch' \in [Fetches -> FetchRecords]
    BY <1>3, <2>1 DEF Loaded, LoadFails, LiveTyped
  <2>3. fetch[f].saw \in 0 .. truth
    BY <1>0 DEF LiveTyped, FetchRecords
  <2>4. shown' = {} \/ \E v \in 0 .. truth : shown' = {v}
    BY <1>3, <2>3 DEF Loaded, LoadFails, LiveTyped
  <2>5. LiveTyped'
    <3>1. mishap' \in BOOLEAN
      BY <1>3 DEF Loaded, LoadFails, LiveTyped
    <3>2. UNCHANGED <<socket, current, timer, wanted, mounted, opened, serving, outages, truth>>
      BY <1>3 DEF Loaded, LoadFails
    <3>3. \A g \in Fetches : fetch'[g].saw <= truth
      BY <1>0, <2>1, <2>2 DEF LiveTyped
    <3> QED BY <2>2, <2>4, <3>1, <3>2, <3>3 DEF LiveTyped
  <2>6. LiveOwned'
    <3>1. UNCHANGED <<socket, current, timer, wanted, mounted, opened>>
      BY <1>3 DEF Loaded, LoadFails
    <3> QED BY <1>1, <3>1 DEF LiveOwned, OneSocketPerPage, Live
  <2>7. LiveFollows'
    <3> SUFFICES ASSUME ~mishap', mounted' PROVE LiveFollows'
      BY DEF LiveFollows
    <3>1. Loaded(f)
      BY <1>3 DEF LoadFails
    <3>2. ~mishap /\ mounted /\ shown' = {fetch[f].saw} /\ fetch[f].state = "answered" /\ truth' = truth /\ socket' = socket
      BY <3>1 DEF Loaded
    <3>3. NewsComes' <=> NewsComes
      BY <3>2 DEF NewsComes
    <3>4. fetch[f].saw = truth \/ NewsComes
      <4>1. fetch[f].saw = truth \/ fetch[f].saw < truth
        BY <1>0, <2>3
      <4> QED BY <3>2, <4>1 DEF LiveFollows
    <3>5. (\E g \in Fetches : fetch'[g].state = "answered" /\ fetch'[g].saw < truth') => NewsComes'
      <4>1. ASSUME NEW g \in Fetches, fetch'[g].state = "answered" PROVE fetch'[g] = fetch[g]
        BY <2>1, <2>2, <4>1
      <4> QED BY <3>2, <3>3, <4>1 DEF LiveFollows
    <3> QED BY <3>2, <3>3, <3>4, <3>5 DEF LiveFollows
  <2> QED BY <2>5, <2>6, <2>7
<1> QED BY <1>2, <1>3 DEF FetchStep

LEMMA LiveInvStep == ASSUME ~Remounts, LiveInv, [LiveNext]_liveVars PROVE LiveInv'
<1>1. CASE UNCHANGED liveVars
  BY <1>1 DEF liveVars, LiveInv, LiveTyped, LiveOwned, LiveFollows, NewsComes, OneSocketPerPage, Live
<1>2. CASE LiveNext
  <2>1. ASSUME NEW s \in Sockets, SocketStep(s) PROVE LiveInv'
    BY <2>1, OpenedKeeps, ClosedKeeps, DeliveredKeeps DEF SocketStep
  <2> QED BY <1>2, <2>1, MountKeeps, UnmountKeeps, ReconnectKeeps, OutageKeeps, LoadKeeps, ChangeKeeps DEF LiveNext
<1> QED BY <1>1, <1>2

\* However the daemon goes down and up, events and answers cross and the page is left: it has one
\* socket, and once it is quiet it shows the workflow as it is (lib/ws.ts, useWorkflow.ts); if React
\* mounts it once.
THEOREM LiveViewIsTrue ==
  ASSUME ~Remounts PROVE LiveSpec => [](LiveTypeOK /\ OneSocketPerPage /\ QuietViewIsCurrent)
<1> QED BY LiveInvInit, LiveInvStep, LiveInvImplies, PTL DEF LiveSpec

-----------------------------------------------------------------------------
(* The list of the projects                                                *)

RefreshRecords == [step : {"none", "asked", "answered"}, age : 0 .. MaxAsked, list : SUBSET ProjectIds]
MakingRecords == [step : {"none", "posting", "listing"}, id : ProjectIds \cup {Seed}, call : Calls \cup {Seed}]
RemovingRecords == [id : ProjectIds \cup {Seed}, list : SUBSET (ProjectIds \cup {Seed}), age : 0 .. MaxAsked]

\* A refresh under way, and the times they were asked at: all different, and none the one of what
\* is listed or of the list a removal began with.
UnderWay(c) == refreshes[c].step # "none"
AgesDiffer ==
  /\ listAge <= refreshesAsked /\ removing.age <= refreshesAsked
  /\ \A c \in Calls : UnderWay(c) => /\ refreshes[c].age \in 1 .. refreshesAsked
                                     /\ refreshes[c].age # listAge /\ refreshes[c].age # removing.age
  /\ \A c, d \in Calls : UnderWay(c) /\ UnderWay(d) /\ refreshes[c].age = refreshes[d].age => c = d
  /\ \A c \in Calls : ~UnderWay(c) => refreshes[c] = NoRefresh

\* What creates and removals have in hand.
InHand ==
  /\ making = NotMaking \/ (making.step \in {"posting", "listing"} /\ making.id \in ProjectIds)
  /\ making.step = "listing" => making.call \in Calls /\ UnderWay(making.call)
  /\ removing = NotRemoving \/ removing.id \in ProjectIds
  /\ openable \subseteq there

\* The project a create() waits for is in every answer asked for since.
MadeIsAnswered ==
  making.step = "listing" /\ making.id \in there =>
    \A c \in Calls : refreshes[c].step = "answered" /\ refreshes[c].age >= refreshes[making.call].age
                       => making.id \in refreshes[c].list

\* While nothing older replaced what is listed and nothing failed, what was returned is listed, and
\* in the newer answers; a list a removal began with, if it is not old, is the one shown.
ListFollows ==
  ~overtaken /\ ~callFailed =>
    /\ openable \subseteq listed
    /\ \A c \in Calls : refreshes[c].step = "answered" /\ refreshes[c].age > listAge
                          => openable \subseteq refreshes[c].list
    /\ removing.age <= listAge
    /\ removing # NotRemoving /\ removing.age = listAge => removing.list = listed

\* ... and if nobody else changes projects, the list is the daemon's unless a refresh is under way,
\* and the newest answer is the daemon's.
ListSettles ==
  ~overtaken /\ ~callFailed /\ others = 0 =>
    /\ (\A c \in Calls : ~UnderWay(c)) => listed = there
    /\ \A c \in Calls : refreshes[c].step = "answered" =>
         \/ refreshes[c].list = there \/ refreshes[c].age < listAge
         \/ \E d \in Calls : UnderWay(d) /\ refreshes[d].age > refreshes[c].age

ListInv == ListTypeOK /\ AgesDiffer /\ InHand /\ MadeIsAnswered /\ ListFollows /\ ListSettles

LEMMA ListInvInit == ListInit => ListInv
<1> SUFFICES ASSUME ListInit PROVE ListInv
  OBVIOUS
<1> USE DEF ListInit
<1>1. \A c \in Calls : refreshes[c] = NoRefresh /\ ~UnderWay(c) /\ refreshes[c].step = "none"
  BY DEF UnderWay, NoRefresh
<1>2. /\ NotMaking \in MakingRecords /\ NotRemoving \in RemovingRecords /\ NoRefresh \in RefreshRecords
      /\ NotMaking.step = "none" /\ NotRemoving.age = 0
  BY ListAssumption DEF MakingRecords, RemovingRecords, RefreshRecords, NotMaking, NotRemoving, NoRefresh
<1>3. ListTypeOK
  <2>1. refreshes \in [Calls -> RefreshRecords]
    BY <1>1, <1>2
  <2>2. 0 \in 0 .. MaxAsked /\ 0 \in 0 .. MaxOthers
    BY ListAssumption
  <2>3. overtaken \in BOOLEAN /\ callFailed \in BOOLEAN
    OBVIOUS
  <2> QED BY <1>2, <2>1, <2>2, <2>3 DEF ListTypeOK, MakingRecords, RemovingRecords, RefreshRecords
<1>4. AgesDiffer /\ InHand /\ MadeIsAnswered
  BY <1>1, <1>2 DEF AgesDiffer, InHand, MadeIsAnswered
<1>5. ListFollows /\ ListSettles
  BY <1>1, <1>2 DEF ListFollows, ListSettles
<1> QED BY <1>3, <1>4, <1>5 DEF ListInv

LEMMA ListInvImplies == ListInv => ListTypeOK /\ ListIsKept
<1> SUFFICES ASSUME ListInv PROVE ListIsKept
  BY DEF ListInv
<1>1. CreatedIsListed
  BY DEF ListInv, ListFollows, CreatedIsListed
<1>2. QuietListAgrees
  BY DEF ListInv, ListSettles, QuietListAgrees, UnderWay, NoRefresh
<1> QED BY <1>1, <1>2 DEF ListIsKept

\* A refresh that begins is newer than all there is.
LEMMA BeginsNewest ==
  ASSUME ListInv, NEW c \in Calls, Begins(c)
  PROVE  /\ refreshesAsked \in 0 .. MaxAsked /\ refreshesAsked \in Nat /\ refreshesAsked' = refreshesAsked + 1
         /\ refreshesAsked' \in 0 .. MaxAsked
         /\ refreshes' \in [Calls -> RefreshRecords] /\ ~UnderWay(c)
         /\ refreshes'[c].step = "asked" /\ refreshes'[c].age = refreshesAsked + 1
         /\ \A d \in Calls \ {c} : refreshes'[d] = refreshes[d]
<1>1. refreshesAsked \in 0 .. MaxAsked /\ refreshesAsked \in Nat /\ MaxAsked \in Nat
  BY ListAssumption DEF ListInv, ListTypeOK
<1>2. refreshesAsked' = refreshesAsked + 1 /\ refreshesAsked < MaxAsked
  BY DEF Begins
<1>3. refreshesAsked' \in 0 .. MaxAsked
  BY ONLY <1>1, <1>2
<1>4. refreshes \in [Calls -> RefreshRecords]
  BY DEF ListInv, ListTypeOK, RefreshRecords
<1>5. refreshes'[c] = [step |-> "asked", age |-> refreshesAsked + 1, list |-> {}]
  <2>1. refreshes'[c] = [NoRefresh EXCEPT !.step = "asked", !.age = refreshesAsked + 1]
    BY <1>4 DEF Begins
  <2> QED BY <2>1 DEF NoRefresh
<1>6. refreshes'[c] \in RefreshRecords
  BY <1>2, <1>3, <1>5 DEF RefreshRecords
<1>7. \A d \in Calls \ {c} : refreshes'[d] = refreshes[d]
  BY <1>4 DEF Begins
<1>8. refreshes' \in [Calls -> RefreshRecords]
  BY <1>4, <1>6, <1>7 DEF Begins
<1> QED BY <1>1, <1>2, <1>3, <1>5, <1>7, <1>8 DEF Begins, UnderWay, NoRefresh

LEMMA RefreshesKeep == ASSUME ListInv, NEW c \in Calls, Refreshes(c) PROVE ListInv'
<1> USE DEF ListInv
<1>1. Begins(c)
  BY DEF Refreshes
<1>2. /\ refreshesAsked \in Nat /\ refreshesAsked' = refreshesAsked + 1 /\ refreshesAsked' \in 0 .. MaxAsked
      /\ refreshes' \in [Calls -> RefreshRecords] /\ ~UnderWay(c)
      /\ refreshes'[c].step = "asked" /\ refreshes'[c].age = refreshesAsked + 1
      /\ \A d \in Calls \ {c} : refreshes'[d] = refreshes[d]
  BY <1>1, BeginsNewest
<1>3. UNCHANGED <<making, removing, metaOf, openable, callFailed, listed, listAge, overtaken, there, others>>
  BY DEF Refreshes, shownVars, daemonVars
<1>4. ListTypeOK'
  BY <1>2, <1>3 DEF ListTypeOK, RefreshRecords
<1>5. AgesDiffer'
  <2>1. listAge \in Nat /\ removing.age \in Nat
    BY DEF ListTypeOK
  <2> QED BY <1>2, <1>3, <2>1 DEF AgesDiffer, UnderWay
<1>6. InHand'
  BY <1>2, <1>3 DEF InHand, UnderWay
<1>7. MadeIsAnswered'
  BY <1>2, <1>3 DEF MadeIsAnswered, InHand, UnderWay
<1>8. ListFollows'
  BY <1>2, <1>3 DEF ListFollows
<1>9. ListSettles'
  <2> SUFFICES ASSUME ~overtaken, ~callFailed, others = 0 PROVE ListSettles'
    BY <1>3 DEF ListSettles
  <2>1. UnderWay(c)'
    BY <1>2 DEF UnderWay
  <2>2. \A d \in Calls : UnderWay(d) => d # c /\ UnderWay(d)' /\ refreshes'[d] = refreshes[d]
    BY <1>2 DEF UnderWay
  <2>3. \A d \in Calls : refreshes'[d].step = "answered" => d # c /\ refreshes'[d] = refreshes[d]
    BY <1>2
  <2> QED BY <1>3, <2>1, <2>2, <2>3 DEF ListSettles
<1> QED BY <1>4, <1>5, <1>6, <1>7, <1>8, <1>9

LEMMA DaemonAnswersKeep == ASSUME ListInv, NEW c \in Calls, DaemonAnswers(c) PROVE ListInv'
<1> USE DEF ListInv
<1>1. refreshes \in [Calls -> RefreshRecords] /\ there \subseteq ProjectIds
  BY DEF ListTypeOK, RefreshRecords
<1>2. refreshes'[c] = [refreshes[c] EXCEPT !.step = "answered", !.list = there]
  BY <1>1 DEF DaemonAnswers
<1>3. /\ refreshes'[c] \in RefreshRecords /\ refreshes'[c].step = "answered" /\ refreshes'[c].list = there
      /\ refreshes'[c].age = refreshes[c].age
  BY <1>1, <1>2 DEF RefreshRecords
<1>4. /\ \A d \in Calls \ {c} : refreshes'[d] = refreshes[d]
      /\ refreshes' \in [Calls -> RefreshRecords]
  BY <1>1, <1>3 DEF DaemonAnswers
<1>5. UNCHANGED <<refreshesAsked, making, removing, metaOf, openable, callFailed, listed, listAge, overtaken, there, others>>
  BY DEF DaemonAnswers, shownVars, daemonVars
<1>6. \A d \in Calls : refreshes'[d].age = refreshes[d].age /\ (UnderWay(d)' <=> UnderWay(d))
  BY <1>3, <1>4 DEF UnderWay, DaemonAnswers
<1>7. ListTypeOK'
  BY <1>4, <1>5 DEF ListTypeOK, RefreshRecords
<1>8. AgesDiffer'
  <2>1. \A d \in Calls : ~UnderWay(d)' => refreshes'[d] = refreshes[d]
    BY <1>3, <1>4 DEF UnderWay
  <2> QED BY <1>5, <1>6, <2>1 DEF AgesDiffer
<1>9. InHand'
  BY <1>5, <1>6 DEF InHand
<1>10. MadeIsAnswered'
  BY <1>3, <1>4, <1>5, <1>6 DEF MadeIsAnswered, InHand
<1>11. ListFollows'
  BY <1>3, <1>4, <1>5 DEF ListFollows, InHand
<1>12. ListSettles'
  BY <1>3, <1>4, <1>5, <1>6 DEF ListSettles
<1> QED BY <1>7, <1>8, <1>9, <1>10, <1>11, <1>12

\* A refresh that ends: its answer is shown, or the seeds are.
LEMMA EndsKeep == ASSUME ListInv, NEW c \in Calls, Shows(c) \/ RefreshFails(c) PROVE ListInv'
<1> USE DEF ListInv
<1>1. refreshes \in [Calls -> RefreshRecords] /\ UnderWay(c)
  BY DEF ListTypeOK, RefreshRecords, Shows, RefreshFails, UnderWay
<1>2. NoRefresh \in RefreshRecords /\ NoRefresh.step = "none"
  BY ListAssumption DEF RefreshRecords, NoRefresh
<1>3. refreshes'[c] = NoRefresh /\ (\A d \in Calls \ {c} : refreshes'[d] = refreshes[d]) /\ refreshes' \in [Calls -> RefreshRecords]
  BY <1>1, <1>2 DEF Shows, RefreshFails
<1>4. UNCHANGED <<refreshesAsked, removing, metaOf, there, others>>
  BY DEF Shows, RefreshFails, daemonVars
<1>5. Returns(c) /\ listAge' = refreshes[c].age /\ overtaken' = (overtaken \/ refreshes[c].age < listAge)
  BY DEF Shows, RefreshFails, Broadcast
<1>6. refreshes[c] \in RefreshRecords /\ listAge \in Nat /\ listAge' \in Nat /\ refreshesAsked \in Nat
      /\ \A d \in Calls : refreshes[d].age \in Nat
  BY <1>1, <1>5 DEF ListTypeOK, RefreshRecords
<1>7. \A d \in Calls : (UnderWay(d)' <=> UnderWay(d) /\ d # c)
  BY <1>2, <1>3 DEF UnderWay
<1>8. \/ making.step = "listing" /\ making.call = c /\ making' = NotMaking
         /\ openable' = openable \cup ({making.id} \cap there)
      \/ ~(making.step = "listing" /\ making.call = c) /\ UNCHANGED <<making, openable>>
  BY <1>5 DEF Returns
<1>9. NotMaking \in MakingRecords /\ NotMaking.step = "none"
  BY DEF MakingRecords, NotMaking
<1>10. ListTypeOK'
  <2>1. listed' \subseteq ProjectIds \cup {Seed}
    BY <1>6 DEF Shows, RefreshFails, Broadcast, RefreshRecords
  <2>2. openable' \subseteq ProjectIds
    BY <1>8 DEF ListTypeOK
  <2>3. making' \in MakingRecords
    BY <1>8, <1>9 DEF ListTypeOK, MakingRecords
  <2>4. listAge' \in 0 .. MaxAsked
    BY <1>5, <1>6 DEF RefreshRecords
  <2>5. overtaken' \in BOOLEAN /\ callFailed' \in BOOLEAN
    BY <1>5 DEF ListTypeOK, Shows, RefreshFails
  <2> QED BY <1>3, <1>4, <2>1, <2>2, <2>3, <2>4, <2>5 DEF ListTypeOK, MakingRecords, RefreshRecords
<1>11. AgesDiffer'
  <2>1. refreshes[c].age \in 1 .. refreshesAsked
    BY <1>1 DEF AgesDiffer
  <2>2. \A d \in Calls : UnderWay(d)' => refreshes'[d] = refreshes[d] /\ d # c /\ UnderWay(d)
    BY <1>3, <1>7
  <2> QED BY <1>1, <1>3, <1>4, <1>5, <1>6, <1>7, <2>1, <2>2 DEF AgesDiffer
<1>12. InHand'
  <2>1. making.step = "listing" => making.call \in Calls /\ UnderWay(making.call)
    BY DEF InHand
  <2>2. ASSUME making'.step = "listing" PROVE making'.call \in Calls /\ refreshes'[making'.call].step # "none"
    <3>1. making' = making /\ making.call # c
      BY <1>8, <1>9, <2>2
    <3> QED BY <1>7, <2>1, <2>2, <3>1 DEF UnderWay
  <2> QED BY <1>4, <1>8, <1>9, <2>2 DEF InHand, UnderWay
<1>13. MadeIsAnswered'
  <2> SUFFICES ASSUME making'.step = "listing", making'.id \in there', NEW d \in Calls,
                      refreshes'[d].step = "answered", refreshes'[d].age >= refreshes'[making'.call].age
               PROVE  making'.id \in refreshes'[d].list
    BY DEF MadeIsAnswered
  <2>1. making' = making /\ making.call # c /\ making.call \in Calls
    BY <1>8, <1>9 DEF InHand
  <2>2. d # c /\ refreshes'[d] = refreshes[d] /\ refreshes'[making.call] = refreshes[making.call]
    BY <1>2, <1>3, <2>1
  <2> QED BY <1>4, <2>1, <2>2 DEF MadeIsAnswered
<1>14. ListFollows' /\ ListSettles'
  <2> SUFFICES ASSUME ~overtaken', ~callFailed' PROVE ListFollows' /\ ListSettles'
    BY DEF ListFollows, ListSettles
  <2>1. ~overtaken /\ ~callFailed /\ listed' = refreshes[c].list /\ refreshes[c].step = "answered"
    <3>1. Shows(c)
      BY DEF RefreshFails
    <3> QED BY <1>5, <3>1 DEF Shows, Broadcast
  <2>2. refreshes[c].age > listAge
    <3>1. refreshes[c].age # listAge
      BY <1>1 DEF AgesDiffer
    <3>2. ~(refreshes[c].age < listAge)
      BY <1>5
    <3> QED BY <1>6, <3>1, <3>2
  <2>3. ASSUME NEW d \in Calls, refreshes[d].step = "answered", refreshes[d].age >= refreshes[c].age
        PROVE  openable' \subseteq refreshes[d].list
    <3>1. openable \subseteq refreshes[d].list
      BY <1>6, <2>1, <2>2, <2>3 DEF ListFollows
    <3>2. making.step = "listing" /\ making.call = c /\ making.id \in there => making.id \in refreshes[d].list
      BY <2>3 DEF MadeIsAnswered
    <3> QED BY <1>8, <3>1, <3>2
  <2>4. openable' \subseteq listed'
    BY <1>6, <2>1, <2>3
  <2>5. \A d \in Calls : refreshes'[d].step = "answered" /\ refreshes'[d].age > listAge' => openable' \subseteq refreshes'[d].list
    BY <1>2, <1>3, <1>5, <1>6, <2>3
  <2>6. removing.age < listAge' /\ removing'.age = removing.age
    <3>1. removing.age <= listAge /\ removing.age \in Nat
      BY <2>1 DEF ListFollows, ListTypeOK
    <3> QED BY <1>4, <1>5, <1>6, <2>2, <3>1
  <2>7. removing.age \in Nat
    BY DEF ListTypeOK
  <2>8. ListFollows'
    BY <1>6, <2>4, <2>5, <2>6, <2>7 DEF ListFollows
  <2>9. ListSettles'
    <3> SUFFICES ASSUME others = 0 PROVE ListSettles'
      BY <1>4 DEF ListSettles
    <3>1. ASSUME \A d \in Calls : ~UnderWay(d)' PROVE listed' = there'
      <4>1. \A d \in Calls \ {c} : ~UnderWay(d)
        BY <1>7, <3>1
      <4>2. refreshes[c].list = there
        BY <1>6, <2>1, <2>2, <4>1 DEF ListSettles
      <4> QED BY <1>4, <2>1, <4>2
    <3>2. ASSUME NEW d \in Calls, refreshes'[d].step = "answered"
          PROVE  \/ refreshes'[d].list = there' \/ refreshes'[d].age < listAge'
                 \/ \E e \in Calls : UnderWay(e)' /\ refreshes'[e].age > refreshes'[d].age
      <4>1. d # c /\ refreshes'[d] = refreshes[d]
        BY <1>2, <1>3, <3>2
      <4>2. CASE refreshes[d].list = there \/ refreshes[d].age < listAge
        BY <1>4, <1>5, <1>6, <2>2, <4>1, <4>2
      <4>3. CASE \E e \in Calls : UnderWay(e) /\ refreshes[e].age > refreshes[d].age
        <5>1. PICK e \in Calls : UnderWay(e) /\ refreshes[e].age > refreshes[d].age
          BY <4>3
        <5>2. CASE e = c
          BY <1>5, <4>1, <5>1, <5>2
        <5>3. CASE e # c
          BY <1>3, <1>7, <4>1, <5>1, <5>3
        <5> QED BY <5>2, <5>3
      <4> QED BY <2>1, <3>2, <4>1, <4>2, <4>3 DEF ListSettles
    <3> QED BY <3>1, <3>2 DEF ListSettles
  <2> QED BY <2>8, <2>9
<1> QED BY <1>10, <1>11, <1>12, <1>13, <1>14

LEMMA CreatesKeep == ASSUME ListInv, NEW p \in ProjectIds, Creates(p) PROVE ListInv'
<1> USE DEF ListInv
<1>1. making' = [NotMaking EXCEPT !.step = "posting", !.id = p]
  BY DEF Creates
<1>2. making' = [step |-> "posting", id |-> p, call |-> Seed]
  BY <1>1 DEF NotMaking
<1>3. making' \in MakingRecords /\ making'.step = "posting" /\ making'.id = p
  BY <1>2 DEF MakingRecords
<1>4. UNCHANGED <<removing, metaOf, openable, callFailed, listed, listAge, overtaken, there, others, refreshesAsked, refreshes>>
  BY DEF Creates, shownVars, daemonVars, refreshVars
<1>5. ListTypeOK'
  BY <1>3, <1>4 DEF ListTypeOK, MakingRecords
<1>6. AgesDiffer' /\ ListFollows' /\ ListSettles'
  BY <1>4 DEF AgesDiffer, ListFollows, ListSettles, UnderWay
<1>7. InHand' /\ MadeIsAnswered'
  BY <1>3, <1>4 DEF InHand, MadeIsAnswered
<1> QED BY <1>5, <1>6, <1>7

LEMMA CreatedKeeps == ASSUME ListInv, NEW c \in Calls, Created(c) PROVE ListInv'
<1> USE DEF ListInv
<1>1. Begins(c) /\ making.step = "posting"
  BY DEF Created
<1>2. /\ refreshesAsked \in Nat /\ refreshesAsked' = refreshesAsked + 1 /\ refreshesAsked' \in 0 .. MaxAsked
      /\ refreshes' \in [Calls -> RefreshRecords] /\ ~UnderWay(c)
      /\ refreshes'[c].step = "asked" /\ refreshes'[c].age = refreshesAsked + 1
      /\ \A d \in Calls \ {c} : refreshes'[d] = refreshes[d]
  BY <1>1, BeginsNewest
<1>3. making \in MakingRecords /\ making.id \in ProjectIds
  BY <1>1 DEF ListTypeOK, MakingRecords, InHand, NotMaking
<1>4. making' = [making EXCEPT !.step = "listing", !.call = c]
  BY DEF Created
<1>5. making' \in MakingRecords /\ making'.step = "listing" /\ making'.call = c /\ making'.id = making.id
  BY <1>3, <1>4 DEF MakingRecords
<1>6. UNCHANGED <<removing, others, openable, callFailed, listed, listAge, overtaken>>
      /\ there' = there \cup {making.id} /\ metaOf' = metaOf \cup {making.id}
  BY DEF Created, shownVars
<1>7. ListTypeOK'
  BY <1>2, <1>3, <1>5, <1>6 DEF ListTypeOK, RefreshRecords, MakingRecords
<1>8. AgesDiffer'
  <2>1. listAge \in Nat /\ removing.age \in Nat
    BY DEF ListTypeOK
  <2> QED BY <1>2, <1>6, <2>1 DEF AgesDiffer, UnderWay
<1>9. InHand'
  BY <1>2, <1>3, <1>5, <1>6 DEF InHand, UnderWay
<1>10. MadeIsAnswered'
  <2> SUFFICES ASSUME NEW d \in Calls, refreshes'[d].step = "answered", refreshes'[d].age >= refreshes'[c].age
               PROVE  FALSE
    BY <1>5 DEF MadeIsAnswered
  <2>1. d # c /\ refreshes'[d] = refreshes[d]
    BY <1>2
  <2>2. refreshes[d].age \in 1 .. refreshesAsked
    BY <2>1 DEF AgesDiffer, UnderWay
  <2> QED BY <1>2, <2>1, <2>2
<1>11. ListFollows'
  BY <1>2, <1>6 DEF ListFollows
<1>12. ListSettles'
  <2>1. ASSUME NEW d \in Calls, refreshes'[d].step = "answered"
        PROVE  UnderWay(c)' /\ refreshes'[c].age > refreshes'[d].age
    <3>1. d # c /\ refreshes'[d] = refreshes[d]
      BY <1>2, <2>1
    <3>2. refreshes[d].age \in 1 .. refreshesAsked
      BY <2>1, <3>1 DEF AgesDiffer, UnderWay
    <3> QED BY <1>2, <3>1, <3>2 DEF UnderWay
  <2>2. UnderWay(c)'
    BY <1>2 DEF UnderWay
  <2> QED BY <2>1, <2>2 DEF ListSettles
<1> QED BY <1>7, <1>8, <1>9, <1>10, <1>11, <1>12

LEMMA CreateFailsKeeps == ASSUME ListInv, NEW done \in BOOLEAN, CreateFails(done) PROVE ListInv'
<1> USE DEF ListInv
<1>1. making.step = "posting" /\ making' = NotMaking
  BY DEF CreateFails
<1>2. making.id \in ProjectIds
  BY <1>1 DEF InHand, NotMaking
<1>3. NotMaking \in MakingRecords /\ NotMaking.step = "none"
  BY DEF MakingRecords, NotMaking
<1>4. UNCHANGED <<removing, metaOf, others, openable, listed, listAge, overtaken, refreshesAsked, refreshes>>
      /\ there' = (IF done THEN there \cup {making.id} ELSE there) /\ callFailed' = (callFailed \/ done)
  BY DEF CreateFails, shownVars, refreshVars
<1>5. callFailed' \in BOOLEAN /\ there' \subseteq ProjectIds /\ there \subseteq there'
  BY <1>2, <1>4 DEF ListTypeOK
<1>6. ListTypeOK'
  BY <1>1, <1>3, <1>4, <1>5 DEF ListTypeOK, MakingRecords
<1>7. AgesDiffer' /\ InHand' /\ MadeIsAnswered'
  BY <1>1, <1>3, <1>4, <1>5 DEF AgesDiffer, InHand, MadeIsAnswered, UnderWay
<1>8. ListFollows' /\ ListSettles'
  BY <1>4 DEF ListFollows, ListSettles, UnderWay
<1> QED BY <1>6, <1>7, <1>8

LEMMA RemovesKeep == ASSUME ListInv, NEW p \in ProjectIds, Removes(p) PROVE ListInv'
<1> USE DEF ListInv
<1>1. removing' = [id |-> p, list |-> listed, age |-> listAge]
  BY DEF Removes
<1>2. /\ removing' \in RemovingRecords /\ removing'.id = p /\ removing'.list = listed /\ removing'.age = listAge
      /\ listAge \in Nat
  BY <1>1 DEF RemovingRecords, ListTypeOK
<1>3. UNCHANGED <<making, metaOf, openable, callFailed, listed, listAge, overtaken, there, others, refreshesAsked, refreshes>>
  BY DEF Removes, shownVars, daemonVars, refreshVars
<1>4. ListTypeOK'
  BY <1>2, <1>3 DEF ListTypeOK, RemovingRecords
<1>5. AgesDiffer' /\ InHand' /\ MadeIsAnswered' /\ ListFollows' /\ ListSettles'
  BY <1>2, <1>3 DEF AgesDiffer, InHand, MadeIsAnswered, ListFollows, ListSettles, UnderWay
<1> QED BY <1>4, <1>5

LEMMA RemoveAnsweredKeeps == ASSUME ListInv, NEW answered \in BOOLEAN, RemoveAnswered(answered) PROVE ListInv'
<1> USE DEF ListInv
<1>1. PICK reached \in (IF answered THEN {TRUE} ELSE BOOLEAN) :
        /\ there' = IF reached THEN there \ {removing.id} ELSE there
        /\ openable' = IF reached THEN openable \ {removing.id} ELSE openable
  BY DEF RemoveAnswered
<1>2. /\ metaOf' = metaOf \ {removing.id} /\ removing # NotRemoving /\ removing' = NotRemoving
      /\ callFailed' = (callFailed \/ ~answered)
      /\ UNCHANGED <<making, others, refreshesAsked, refreshes>>
      /\ listed' = removing.list \ {removing.id} /\ listAge' = removing.age
      /\ overtaken' = (overtaken \/ removing.age < listAge \/ \E c \in Calls : refreshes[c] # NoRefresh)
  BY DEF RemoveAnswered, refreshVars, Broadcast, WithoutRemoved
<1>3. NotRemoving \in RemovingRecords /\ NotRemoving.age = 0
  BY ListAssumption DEF RemovingRecords, NotRemoving
<1>4. removing.list \subseteq ProjectIds \cup {Seed} /\ removing.age \in 0 .. MaxAsked /\ removing.age \in Nat /\ listAge \in Nat
      /\ refreshesAsked \in Nat
  BY DEF ListTypeOK
<1>5. there' \subseteq there /\ openable' \subseteq openable /\ openable' \subseteq there'
  BY <1>1 DEF InHand
<1>6. ListTypeOK'
  <2>1. callFailed' \in BOOLEAN /\ overtaken' \in BOOLEAN
    BY <1>2 DEF ListTypeOK
  <2> QED BY <1>2, <1>3, <1>4, <1>5, <2>1 DEF ListTypeOK, RemovingRecords
<1>7. AgesDiffer'
  BY <1>2, <1>3, <1>4 DEF AgesDiffer, UnderWay
<1>8. InHand' /\ MadeIsAnswered'
  BY <1>2, <1>5 DEF InHand, MadeIsAnswered, UnderWay
<1>9. ListFollows' /\ ListSettles'
  <2> SUFFICES ASSUME ~overtaken', ~callFailed' PROVE ListFollows' /\ ListSettles'
    BY DEF ListFollows, ListSettles
  <2>1. ~overtaken /\ ~callFailed /\ ~(removing.age < listAge) /\ answered /\ \A c \in Calls : refreshes[c] = NoRefresh
    BY <1>2
  <2>2. there' = there \ {removing.id} /\ openable' = openable \ {removing.id}
    BY <1>1, <2>1
  <2>3. removing.age = listAge
    BY <1>4, <2>1 DEF ListFollows
  <2>4. removing.list = listed
    BY <1>2, <2>1, <2>3 DEF ListFollows
  <2>5. openable \subseteq listed
    BY <2>1 DEF ListFollows
  <2>6. \A c \in Calls : refreshes[c].step = "none"
    BY <2>1 DEF NoRefresh
  <2>7. others = 0 => listed = there
    BY <2>1, <2>6 DEF ListSettles, UnderWay
  <2>8. ListFollows'
    BY <1>2, <1>3, <1>4, <2>2, <2>4, <2>5, <2>6 DEF ListFollows
  <2>9. ListSettles'
    BY <1>2, <2>2, <2>4, <2>6, <2>7 DEF ListSettles
  <2> QED BY <2>8, <2>9
<1> QED BY <1>6, <1>7, <1>8, <1>9

LEMMA RemoveFailsKeeps == ASSUME ListInv, RemoveFails PROVE ListInv'
<1> USE DEF ListInv
<1>1. removing' = NotRemoving
      /\ UNCHANGED <<making, metaOf, openable, callFailed, listed, listAge, overtaken, there, others, refreshesAsked, refreshes>>
  BY DEF RemoveFails, shownVars, daemonVars, refreshVars
<1>2. NotRemoving \in RemovingRecords /\ NotRemoving.age = 0
  BY ListAssumption DEF RemovingRecords, NotRemoving
<1>3. ListTypeOK'
  BY <1>1, <1>2 DEF ListTypeOK, RemovingRecords
<1>4. listAge \in Nat /\ refreshesAsked \in Nat
  BY DEF ListTypeOK
<1>5. AgesDiffer'
  BY <1>1, <1>2, <1>4 DEF AgesDiffer, UnderWay
<1>6. InHand' /\ MadeIsAnswered' /\ ListFollows' /\ ListSettles'
  BY <1>1, <1>2, <1>4 DEF InHand, MadeIsAnswered, ListFollows, ListSettles, UnderWay
<1> QED BY <1>3, <1>5, <1>6

LEMMA OthersKeep == ASSUME ListInv, NEW p \in ProjectIds, OthersChange(p) PROVE ListInv'
<1> USE DEF ListInv
<1>1. UNCHANGED <<making, removing, metaOf, callFailed, listed, listAge, overtaken, refreshesAsked, refreshes>>
      /\ openable' = openable \ {p} /\ p # making.id
      /\ there' = (IF p \in there THEN there \ {p} ELSE there \cup {p})
      /\ others < MaxOthers /\ others' = others + 1
  BY DEF OthersChange, shownVars, refreshVars
<1>2. others' \in 0 .. MaxOthers /\ others' # 0
  BY <1>1, ListAssumption DEF ListTypeOK
<1>3. openable' \subseteq there' /\ openable' \subseteq openable /\ there' \subseteq ProjectIds
      /\ (making.id \in there' => making.id \in there)
  BY <1>1 DEF InHand, ListTypeOK
<1>4. ListTypeOK'
  BY <1>1, <1>2, <1>3 DEF ListTypeOK
<1>5. AgesDiffer' /\ InHand' /\ MadeIsAnswered'
  BY <1>1, <1>3 DEF AgesDiffer, InHand, MadeIsAnswered, UnderWay
<1>6. ListFollows'
  BY <1>1, <1>3 DEF ListFollows
<1>7. ListSettles'
  BY <1>2 DEF ListSettles
<1> QED BY <1>4, <1>5, <1>6, <1>7

LEMMA ListInvStep == ListInv /\ [ListNext]_listVars => ListInv'
<1> SUFFICES ASSUME ListInv, [ListNext]_listVars PROVE ListInv'
  OBVIOUS
<1>1. CASE UNCHANGED listVars
  BY <1>1 DEF listVars, shownVars, daemonVars, refreshVars, ListInv, ListTypeOK, AgesDiffer, InHand,
              MadeIsAnswered, ListFollows, ListSettles, UnderWay
<1>2. CASE ListNext
  BY <1>2, RefreshesKeep, DaemonAnswersKeep, EndsKeep, CreatesKeep, CreatedKeeps, CreateFailsKeeps, RemovesKeep,
     RemoveAnsweredKeeps, RemoveFailsKeeps, OthersKeep DEF ListNext
<1> QED BY <1>1, <1>2

\* However reads of the list cross with projects made and removed, here and elsewhere: once all are
\* answered the list is the daemon's, but for what an older answer took away (ProjectStoreContext.tsx).
THEOREM ProjectListIsKept == ListSpec => [](ListTypeOK /\ ListIsKept)
<1> QED BY ListInvInit, ListInvStep, ListInvImplies, PTL DEF ListSpec

-----------------------------------------------------------------------------
(* The page of the settings                                                *)

SaveRecords == [mount : 1 .. MaxOpens, draft : Confs, conf : Confs, sent : SUBSET Fields,
                touched : SUBSET Fields, step : {"sent", "answered", "failed"}]

\* SetTypeOK, with what its bounds leave out.
SetTyped ==
  /\ files \in Confs /\ config \in Confs /\ local \in Confs /\ keptConf \in Confs
  /\ edited \in Confs /\ answer \in Confs
  /\ fetched \in {"asked", "answered", "arrived", "failed"}
  /\ section \in Fields \cup {NoField} /\ touched \subseteq Fields
  /\ saves \subseteq SaveRecords
  /\ savesMade \in 0 .. MaxSaves /\ changes \in 0 .. MaxElsewhere
  /\ accepted \in [Fields -> Values \cup {Unset}]
  /\ settingsMount \in 0 .. MaxOpens /\ (settingsOpen => settingsMount # 0)

\* A page has one save under way, and those of later pages have not begun.
OneSave ==
  /\ \A s \in saves : s.mount <= settingsMount
  /\ \A s, t \in saves : s.mount = settingsMount /\ t.mount = settingsMount => s = t

\* Sections that are not opened early are opened, and saved, once the configuration is there; and
\* their drafts differ from what is shown in what was touched.
EditsAreTouched ==
  ~early =>
    /\ section # NoField => fetched = "arrived" /\ DiffLocalConfig(local, edited) \subseteq touched
    /\ SaveRuns => fetched = "arrived"
    /\ \A s \in saves : s.sent \subseteq s.touched

\* The answer under way, what is shown, and what a save was answered, are the daemon's.
PageFollows ==
  settingsOpen /\ ~early /\ ~foreign =>
    /\ fetched = "answered" => answer = config
    /\ fetched = "arrived" /\ ~refused /\ ~SaveRuns => local = config
    /\ \A s \in saves : s.mount = settingsMount /\ s.step = "answered" => s.conf = config

SettingsInv == SetTyped /\ OneSave /\ EditsAreTouched /\ PageFollows

LEMMA SettingsInvInit == SetInit => SettingsInv
<1> SUFFICES ASSUME SetInit PROVE SettingsInv
  OBVIOUS
<1>1. Defaults \in Confs
  BY SettingsAssumption DEF Defaults, Confs
<1>2. SetTyped
  BY <1>1, SettingsAssumption DEF SetInit, SetTyped
<1> QED BY <1>2 DEF SetInit, SettingsInv, OneSave, EditsAreTouched, PageFollows, SaveRuns

LEMMA SettingsInvImplies == SettingsInv => SetTypeOK /\ SettingsAreKept
BY DEF SettingsInv, SetTyped, SetTypeOK, SaveRecords, EditsAreTouched, PageFollows, SettingsAreKept,
       SettingsAreTheDaemons, OnlyEditsAreSent

LEMMA OpensSettingsKeeps == ASSUME SettingsInv, OpensSettings PROVE SettingsInv'
<1> USE DEF SettingsInv
<1>1. settingsMount \in Nat /\ settingsMount' = settingsMount + 1 /\ settingsMount' \in 0 .. MaxOpens
  BY SettingsAssumption DEF SetTyped, OpensSettings
<1>2. \A s \in saves : s.mount \in Nat /\ s.mount <= settingsMount
  BY DEF OneSave, SetTyped, SaveRecords
<1>3. \A s \in saves : s.mount # settingsMount'
  BY <1>1, <1>2
<1>4. Defaults \in Confs
  BY SettingsAssumption DEF Defaults, Confs
<1>5. SetTyped'
  BY <1>1, <1>4 DEF SetTyped, OpensSettings, daemonConf, savesVars
<1>6. saves' = saves /\ ~SaveRuns'
  BY <1>3 DEF OpensSettings, savesVars, SaveRuns
<1>7. OneSave'
  BY <1>1, <1>2, <1>3, <1>6 DEF OneSave
<1>8. EditsAreTouched'
  BY <1>6 DEF EditsAreTouched, OpensSettings
<1>9. PageFollows'
  BY <1>3, <1>6 DEF PageFollows, OpensSettings
<1> QED BY <1>5, <1>7, <1>8, <1>9

LEMMA VisitKeeps == ASSUME SettingsInv, LeavesSettings \/ GetConfig \/ ConfigArrives PROVE SettingsInv'
<1> USE DEF SettingsInv
<1>1. UNCHANGED <<settingsMount, saves, savesMade, files, config, changes, accepted, keptConf, section, edited, touched,
                  early, foreign, refused>>
  BY DEF LeavesSettings, GetConfig, ConfigArrives, daemonConf, pageConf, pastConf, savesVars
<1>2. OneSave' /\ (SaveRuns' <=> SaveRuns)
  BY <1>1 DEF OneSave, SaveRuns
<1>3. CASE LeavesSettings
  BY <1>1, <1>2, <1>3 DEF SetTyped, EditsAreTouched, PageFollows, LeavesSettings, pageConf
<1>4. CASE GetConfig
  BY <1>1, <1>2, <1>4 DEF SetTyped, EditsAreTouched, PageFollows, GetConfig, pageConf, SaveRuns
<1>5. CASE ConfigArrives
  BY <1>1, <1>2, <1>5 DEF SetTyped, EditsAreTouched, PageFollows, ConfigArrives, SaveRuns
<1> QED BY <1>3, <1>4, <1>5

LEMMA EditKeeps ==
  ASSUME SettingsInv, (\E f \in Fields : StartEdit(f)) \/ (\E v \in Values : SetDraft(v)) \/ CancelEdit
  PROVE  SettingsInv'
<1> USE DEF SettingsInv
<1>1. UNCHANGED <<local, keptConf, foreign, refused, files, config, changes, accepted, settingsOpen, settingsMount,
                  fetched, answer, saves, savesMade>>
  BY DEF StartEdit, SetDraft, CancelEdit, daemonConf, visitConf, savesVars, pastConf
<1>2. OneSave' /\ (SaveRuns' <=> SaveRuns)
  BY <1>1 DEF OneSave, SaveRuns
<1>3. CASE \E f \in Fields : StartEdit(f)
  BY <1>1, <1>2, <1>3 DEF SetTyped, EditsAreTouched, PageFollows, StartEdit, DiffLocalConfig
<1>4. CASE \E v \in Values : SetDraft(v)
  <2>1. PICK v \in Values : SetDraft(v)
    BY <1>4
  <2>2. section \in Fields /\ edited' = [edited EXCEPT ![section] = v] /\ touched' = touched \cup {section}
        /\ UNCHANGED <<section, early>>
    BY <2>1 DEF SetDraft, SetTyped, pastConf
  <2>3. edited' \in Confs /\ \A f \in Fields \ {section} : edited'[f] = edited[f]
    BY <2>2 DEF SetTyped, Confs
  <2>4. DiffLocalConfig(local, edited)' \subseteq DiffLocalConfig(local, edited) \cup {section}
    BY <1>1, <2>3 DEF DiffLocalConfig
  <2>5. EditsAreTouched'
    BY <1>1, <1>2, <2>2, <2>4 DEF EditsAreTouched
  <2> QED BY <1>1, <1>2, <2>2, <2>3, <2>5 DEF SetTyped, PageFollows
<1>5. CASE CancelEdit
  <2>1. Defaults \in Confs
    BY SettingsAssumption DEF Defaults, Confs
  <2> QED BY <1>1, <1>2, <1>5, <2>1 DEF SetTyped, EditsAreTouched, PageFollows, CancelEdit, pastConf
<1> QED BY <1>3, <1>4, <1>5

LEMMA SaveEditKeeps == ASSUME SettingsInv, SaveEdit PROVE SettingsInv'
<1> USE DEF SettingsInv
<1>1. UNCHANGED <<files, config, changes, accepted, settingsOpen, settingsMount, fetched, answer, early, foreign, refused>>
      /\ settingsOpen /\ section # NoField /\ ~SaveRuns /\ savesMade < MaxSaves /\ savesMade' = savesMade + 1
  BY DEF SaveEdit, daemonConf, visitConf, pastConf
<1>2. savesMade' \in 0 .. MaxSaves
  BY <1>1, SettingsAssumption DEF SetTyped
<1>3. CASE DiffLocalConfig(local, edited) = {}
  <2>1. local' = edited /\ keptConf' = edited /\ section' = NoField /\ edited' = Defaults /\ touched' = {} /\ saves' = saves
    BY <1>3 DEF SaveEdit
  <2>2. local' = local
    BY <1>3, <2>1 DEF SetTyped, Confs, DiffLocalConfig
  <2>3. Defaults \in Confs
    BY SettingsAssumption DEF Defaults, Confs
  <2>4. OneSave' /\ (SaveRuns' <=> SaveRuns)
    BY <1>1, <2>1 DEF OneSave, SaveRuns
  <2> QED BY <1>1, <1>2, <2>1, <2>2, <2>3, <2>4 DEF SetTyped, EditsAreTouched, PageFollows
<1>4. CASE DiffLocalConfig(local, edited) # {}
  <2> DEFINE new == [mount |-> settingsMount, draft |-> edited, conf |-> local, touched |-> touched,
                     sent |-> DiffLocalConfig(local, edited), step |-> "sent"]
  <2>1. saves' = saves \cup {new} /\ UNCHANGED <<local, keptConf, section, edited, touched>>
    BY <1>4 DEF SaveEdit, pageConf
  <2>2. settingsMount \in 1 .. MaxOpens /\ DiffLocalConfig(local, edited) \subseteq Fields
    BY <1>1 DEF SetTyped, DiffLocalConfig
  <2>3. new \in SaveRecords
    BY <2>2 DEF SetTyped, SaveRecords
  <2>4. new.mount = settingsMount /\ new.sent = DiffLocalConfig(local, edited) /\ new.touched = touched /\ new.step = "sent"
    OBVIOUS
  <2> HIDE DEF new
  <2>5. \A s \in saves : s.mount # settingsMount
    BY <1>1 DEF SaveRuns
  <2>6. OneSave'
    BY <1>1, <2>1, <2>2, <2>4, <2>5 DEF OneSave, SetTyped
  <2>7. EditsAreTouched'
    BY <1>1, <2>1, <2>4 DEF EditsAreTouched, DiffLocalConfig
  <2>8. PageFollows'
    BY <1>1, <2>1, <2>4 DEF PageFollows, SaveRuns
  <2> QED BY <1>1, <1>2, <2>1, <2>3, <2>6, <2>7, <2>8 DEF SetTyped
<1> QED BY <1>3, <1>4

LEMMA PutConfigKeeps ==
  ASSUME SettingsInv, NEW s \in saves, NEW outcome \in {"answered", "lost", "refused"}, PutConfig(s, outcome)
  PROVE  SettingsInv'
<1> USE DEF SettingsInv
<1> DEFINE updated == [f \in Fields |-> IF f \in s.sent THEN s.draft[f] ELSE config[f]]
           new == [s EXCEPT !.conf = updated, !.step = IF outcome = "answered" THEN "answered" ELSE "failed"]
<1>1. s \in SaveRecords
  BY DEF SetTyped
<1>2. updated \in Confs
  BY <1>1 DEF SetTyped, SaveRecords, Confs
<1>3. /\ config' = (IF outcome = "refused" THEN config ELSE updated)
      /\ saves' = (saves \ {s}) \cup {new}
      /\ accepted' = [f \in Fields |->
          IF f \notin s.sent \/ outcome = "refused" THEN accepted[f]
          ELSE IF outcome = "answered" THEN s.draft[f] ELSE Unset]
      /\ foreign' = (foreign \/ s.mount # settingsMount)
      /\ UNCHANGED <<files, changes, savesMade, early, refused, local, keptConf, section, edited, touched,
                     settingsOpen, settingsMount, fetched, answer>>
      /\ s.step = "sent"
  BY DEF PutConfig, pageConf, visitConf
<1> HIDE DEF updated
<1>4. /\ new \in SaveRecords /\ new.mount = s.mount /\ new.sent = s.sent /\ new.touched = s.touched
      /\ new.conf = updated /\ new.step = IF outcome = "answered" THEN "answered" ELSE "failed"
  BY <1>1, <1>2 DEF SaveRecords
<1> HIDE DEF new
<1>5. accepted' \in [Fields -> Values \cup {Unset}]
  BY <1>1, <1>3 DEF SetTyped, SaveRecords, Confs
<1>6. SetTyped'
  BY <1>2, <1>3, <1>4, <1>5 DEF SetTyped
<1>7. OneSave' /\ (SaveRuns' <=> SaveRuns)
  BY <1>3, <1>4 DEF OneSave, SaveRuns
<1>8. EditsAreTouched'
  BY <1>3, <1>4, <1>7 DEF EditsAreTouched
<1>9. PageFollows'
  <2> SUFFICES ASSUME settingsOpen, ~early, ~foreign, s.mount = settingsMount PROVE PageFollows'
    BY <1>3 DEF PageFollows
  <2>1. SaveRuns /\ fetched = "arrived"
    BY DEF SaveRuns, EditsAreTouched
  <2>2. \A t \in saves \ {s} : t.mount # settingsMount
    BY DEF OneSave
  <2> QED BY <1>3, <1>4, <1>7, <2>1, <2>2 DEF PageFollows
<1> QED BY <1>6, <1>7, <1>8, <1>9

LEMMA SaveReturnsKeeps == ASSUME SettingsInv, NEW s \in saves, SaveReturns(s) PROVE SettingsInv'
<1> USE DEF SettingsInv
<1>1. s \in SaveRecords /\ s.conf \in Confs /\ s.draft \in Confs /\ s.step \in {"answered", "failed"}
  BY DEF SetTyped, SaveRecords, SaveReturns
<1>2. saves' = saves \ {s} /\ keptConf' = s.draft
      /\ UNCHANGED <<savesMade, early, foreign, files, config, changes, accepted, settingsOpen, settingsMount, fetched, answer>>
  BY DEF SaveReturns, daemonConf, visitConf
<1>3. Defaults \in Confs
  BY SettingsAssumption DEF Defaults, Confs
<1>4. OneSave'
  BY <1>2 DEF OneSave
<1>5. CASE settingsOpen /\ s.mount = settingsMount
  <2>1. /\ local' = (IF s.step = "failed" THEN s.draft ELSE s.conf)
        /\ section' = NoField /\ edited' = Defaults /\ touched' = {}
        /\ refused' = (refused \/ s.step = "failed")
    BY <1>5 DEF SaveReturns
  <2>2. ~SaveRuns' /\ SaveRuns
    BY <1>2, <1>5 DEF SaveRuns, OneSave
  <2>3. EditsAreTouched'
    BY <1>2, <2>1, <2>2 DEF EditsAreTouched
  <2>4. PageFollows'
    BY <1>1, <1>2, <1>5, <2>1 DEF PageFollows
  <2> QED BY <1>1, <1>2, <1>3, <1>4, <2>1, <2>3, <2>4 DEF SetTyped
<1>6. CASE ~(settingsOpen /\ s.mount = settingsMount)
  <2>1. UNCHANGED <<local, section, edited, touched, refused>>
    BY <1>6 DEF SaveReturns
  <2>2. EditsAreTouched'
    BY <1>2, <2>1 DEF EditsAreTouched, SaveRuns
  <2>3. PageFollows'
    BY <1>2, <1>6, <2>1 DEF PageFollows, SaveRuns
  <2> QED BY <1>1, <1>2, <1>4, <2>1, <2>2, <2>3 DEF SetTyped
<1> QED BY <1>5, <1>6

LEMMA ElsewhereKeeps ==
  ASSUME SettingsInv,
         (\E v \in Values, f \in Fields : OtherPuts(f, v) \/ ConfigSet(f, v)) \/ DaemonRestarts
  PROVE  SettingsInv'
<1> USE DEF SettingsInv
<1>1. UNCHANGED <<early, refused, local, keptConf, section, edited, touched, settingsOpen, settingsMount, fetched, answer,
                  saves, savesMade>> /\ changes < MaxElsewhere /\ changes' = changes + 1
  BY DEF OtherPuts, ConfigSet, DaemonRestarts, pageConf, visitConf, savesVars, pastConf
<1>2. changes' \in 0 .. MaxElsewhere
  BY <1>1, SettingsAssumption DEF SetTyped
<1>3. foreign' \/ UNCHANGED <<foreign, config>>
  BY DEF OtherPuts, ConfigSet, DaemonRestarts, pastConf
<1>4. files' \in Confs /\ config' \in Confs /\ accepted' \in [Fields -> Values \cup {Unset}]
  BY DEF OtherPuts, ConfigSet, DaemonRestarts, SetTyped, Confs
<1>5. OneSave' /\ (SaveRuns' <=> SaveRuns)
  BY <1>1 DEF OneSave, SaveRuns
<1> QED BY <1>1, <1>2, <1>3, <1>4, <1>5 DEF SetTyped, EditsAreTouched, PageFollows, DiffLocalConfig

LEMMA SettingsInvStep == SettingsInv /\ [SetNext]_setVars => SettingsInv'
<1> SUFFICES ASSUME SettingsInv, [SetNext]_setVars PROVE SettingsInv'
  OBVIOUS
<1>1. CASE UNCHANGED setVars
  BY <1>1 DEF setVars, daemonConf, pageConf, visitConf, pastConf, savesVars, SettingsInv, SetTyped, OneSave,
              EditsAreTouched, PageFollows, SaveRuns, DiffLocalConfig
<1>2. CASE SetNext
  BY <1>2, OpensSettingsKeeps, VisitKeeps, EditKeeps, SaveEditKeeps, PutConfigKeeps, SaveReturnsKeeps, ElsewhereKeeps DEF SetNext
<1> QED BY <1>1, <1>2

\* Whatever is edited while a save is under way, here and elsewhere: what was saved is the
\* configuration, and the page shows what it holds (SettingsPage.tsx).
THEOREM SettingsAreKeptHolds == SetSpec => [](SetTypeOK /\ SettingsAreKept)
<1> QED BY SettingsInvInit, SettingsInvStep, SettingsInvImplies, PTL DEF SetSpec

-----------------------------------------------------------------------------
(* The pages of a workflow: buttons and events                             *)

PressRecords == [on : 0 .. MaxPages, action : Actions \cup {"none"}, at : {"none", "asked", "done", "refused", "over"}]
ReadRecords == [on : 0 .. MaxPages, at : {"none", "asked", "answered"}, saw : 0 .. MaxLogged]

OverPresses == {c \in Clicks : pressed[c].at = "over"}

\* The types of the page and its buttons, and of the events; a toast's timer is a button's.
ButtonsTyped ==
  /\ onPage \in {NoPage, Overview} \cup PageNodes
  /\ nthPage \in 0 .. MaxPages /\ (onPage # NoPage => nthPage # 0)
  /\ wfStatus \in {"building", "running", "paused"}
  /\ seen = {} \/ \E s \in {"building", "running", "paused"} : seen = {s}
  /\ pressed \in [Clicks -> PressRecords] /\ \A c \in Clicks : pressed[c].on <= nthPage
  /\ actionPending \in Actions \cup {"none"}
  /\ actionError \in BOOLEAN /\ toast \in BOOLEAN
  /\ toasts \in Nat /\ toasts <= Cardinality(OverPresses)

EventsTyped ==
  /\ due \in BOOLEAN /\ stalerLog \in BOOLEAN
  /\ emitted \in Seq(PageNodes) /\ Len(emitted) <= MaxEmits /\ delivered \in 0 .. Len(emitted)
  /\ lines \in Seq(Emits) /\ Len(lines) <= LineLimit
  /\ logged \in 0 .. MaxLogged
  /\ reads \in [1 .. 2 -> ReadRecords]
  /\ \A r \in 1 .. 2 : reads[r].on <= nthPage /\ reads[r].saw <= logged
  /\ drawer = {} \/ \E v \in 0 .. logged : drawer = {v}
  /\ loggedThen \in 0 .. logged

\* A page that was left has nothing.
NothingLeft == onPage = NoPage => actionPending = "none" /\ lines = <<>> /\ drawer = {} /\ ~due

\* The calls of this page: one, while a button waits for it.
Mine == {c \in Clicks : pressed[c].on = nthPage /\ pressed[c].at \in {"asked", "done", "refused"}}
OneIsMine == onPage # NoPage => IF actionPending = "none" THEN Mine = {} ELSE \E c \in Clicks : Mine = {c}

\* What keeps the drawer from being old: the timer, a call under way, or what it shows.
Fresh(r) == /\ reads[r].on = nthPage
            /\ \/ reads[r].at = "asked"
               \/ reads[r].at = "answered" /\ reads[r].saw >= FirstOf(loggedThen)
DrawerFollows ==
  onPage = Overview /\ ~stalerLog =>
    \/ due
    \/ \E r \in 1 .. 2 : Fresh(r)
    \/ drawer # {} /\ \A v \in drawer : v >= FirstOf(loggedThen)

WfPagesInv == /\ ButtonsTyped /\ EventsTyped /\ NothingLeft /\ OneIsMine /\ ToastsEnd
              /\ LinesAreTheLast /\ DrawerFollows

LEMMA PagesAreNatural ==
  /\ DrawerLimit \in Nat /\ MaxPages \in Nat /\ MaxClicks \in Nat /\ MaxEmits \in Nat /\ MaxLogged \in Nat
  /\ LineLimit \in Nat /\ LineLimit > 1
  /\ IsFiniteSet(Clicks) /\ Cardinality(Clicks) = MaxClicks
  /\ NoPage # Overview /\ NoPage \notin PageNodes /\ Overview \notin PageNodes
<1>1. MaxClicks \in Nat
  BY PageBounds
<1>2. IsFiniteSet(Clicks) /\ Cardinality(Clicks) = MaxClicks
  BY <1>1, FS_Interval DEF Clicks
<1>3. NoPage # Overview
  BY DEF NoPage, Overview
<1> QED BY <1>1, <1>2, <1>3, PageBounds, LimitAssumption, PagesAssumption

LEMMA WfPagesInvInit == WorkflowPagesInit => WfPagesInv
<1> SUFFICES ASSUME WorkflowPagesInit PROVE WfPagesInv
  OBVIOUS
<1> USE DEF WorkflowPagesInit
<1>1. Unpressed \in PressRecords /\ Unpressed.on = 0 /\ Unpressed.at = "none"
  BY PagesAreNatural DEF Unpressed, PressRecords
<1>2. Unread \in ReadRecords /\ Unread.on = 0 /\ Unread.saw = 0
  BY PagesAreNatural DEF Unread, ReadRecords
<1>3. ButtonsTyped
  <2>1. IsFiniteSet(OverPresses)
    BY PagesAreNatural, FS_Subset DEF OverPresses
  <2>2. Cardinality(OverPresses) \in Nat
    BY <2>1, FS_CardinalityType
  <2>3. pressed \in [Clicks -> PressRecords] /\ \A c \in Clicks : pressed[c].on <= nthPage
    BY <1>1
  <2>4. actionError \in BOOLEAN /\ toast \in BOOLEAN
    OBVIOUS
  <2>5. toasts \in Nat /\ toasts <= Cardinality(OverPresses)
    BY <2>2
  <2>6. nthPage \in 0 .. MaxPages /\ (onPage # NoPage => nthPage # 0)
    BY PagesAreNatural
  <2> QED BY <2>3, <2>4, <2>5, <2>6 DEF ButtonsTyped
<1>4. EventsTyped
  <2>1. reads \in [1 .. 2 -> ReadRecords] /\ \A r \in 1 .. 2 : reads[r].on <= nthPage /\ reads[r].saw <= logged
    BY <1>2
  <2>2. emitted \in Seq(PageNodes) /\ Len(emitted) = 0 /\ lines \in Seq(Emits) /\ Len(lines) = 0
    OBVIOUS
  <2>3. due \in BOOLEAN /\ stalerLog \in BOOLEAN
    OBVIOUS
  <2> QED BY <2>1, <2>2, <2>3, PagesAreNatural DEF EventsTyped
<1>5. NothingLeft /\ OneIsMine /\ ToastsEnd /\ LinesAreTheLast /\ DrawerFollows
  BY PagesAreNatural DEF NothingLeft, OneIsMine, ToastsEnd, LinesAreTheLast, DrawerFollows
<1> QED BY <1>3, <1>4, <1>5 DEF WfPagesInv

LEMMA WfPagesInvImplies == WfPagesInv => WorkflowPagesTypeOK /\ WorkflowPagesAreTrue
<1> SUFFICES ASSUME WfPagesInv PROVE WorkflowPagesTypeOK /\ WorkflowPagesAreTrue
  OBVIOUS
<1> USE DEF WfPagesInv
<1>1. Cardinality(seen) <= 1 /\ Cardinality(drawer) <= 1
  <2>1. Cardinality({}) = 0 /\ \A v : Cardinality({v}) = 1
    BY FS_EmptySet, FS_Singleton
  <2>2. (seen = {} \/ \E v : seen = {v}) /\ (drawer = {} \/ \E v : drawer = {v})
    BY DEF ButtonsTyped, EventsTyped
  <2>3. Cardinality(seen) \in {0, 1} /\ Cardinality(drawer) \in {0, 1}
    BY <2>1, <2>2
  <2> QED BY <2>3
<1>2. toasts \in 0 .. MaxClicks
  <2>1. OverPresses \subseteq Clicks
    BY DEF OverPresses
  <2>2. Cardinality(OverPresses) <= MaxClicks /\ Cardinality(OverPresses) \in Nat
    BY <2>1, PagesAreNatural, FS_Subset, FS_CardinalityType
  <2> QED BY <2>2, PagesAreNatural DEF ButtonsTyped
<1>3. WorkflowPagesTypeOK
  <2>1. /\ onPage \in {NoPage, Overview} \cup PageNodes /\ nthPage \in 0 .. MaxPages
        /\ wfStatus \in {"building", "running", "paused"}
        /\ seen \subseteq {"building", "running", "paused"}
        /\ actionPending \in Actions \cup {"none"}
        /\ {actionError, toast, due} \subseteq BOOLEAN
    BY DEF ButtonsTyped, EventsTyped
  <2>2. ASSUME NEW c \in Clicks
        PROVE  /\ pressed[c].on \in 0 .. nthPage
               /\ pressed[c].action \in Actions \cup {"none"}
               /\ pressed[c].at \in {"none", "asked", "done", "refused", "over"}
    <3>1. pressed[c] \in PressRecords /\ pressed[c].on <= nthPage
      BY DEF ButtonsTyped
    <3> QED BY <3>1 DEF PressRecords
  <2>3. \A r \in DOMAIN reads : reads[r].at \in {"none", "asked", "answered"} /\ reads[r].saw <= logged
    BY DEF EventsTyped, ReadRecords
  <2>4. drawer \subseteq 0 .. logged
    BY DEF EventsTyped
  <2> QED BY <1>1, <1>2, <2>1, <2>2, <2>3, <2>4 DEF WorkflowPagesTypeOK, EventsTyped
<1>4. OneCallPerPage
  <2>1. Cardinality({}) = 0 /\ \A c \in Clicks : Cardinality({c}) = 1
    BY FS_EmptySet, FS_Singleton
  <2> QED BY <2>1 DEF OneCallPerPage, OneIsMine, Mine
<1>5. DrawerCatchesUp
  BY DEF DrawerCatchesUp, DrawerFollows, Fresh, EventsTyped
<1> QED BY <1>3, <1>4, <1>5 DEF WorkflowPagesAreTrue

\* Over is finite, and what the buttons leave alone.
LEMMA OverIsFinite == IsFiniteSet(OverPresses) /\ Cardinality(OverPresses) \in Nat
<1>1. IsFiniteSet(OverPresses)
  BY PagesAreNatural, FS_Subset DEF OverPresses
<1> QED BY <1>1, FS_CardinalityType

LEMMA OpenPageKeeps == ASSUME WfPagesInv, NEW p \in {Overview} \cup PageNodes, OpenPage(p) PROVE WfPagesInv'
<1> USE DEF WfPagesInv
<1>1. /\ onPage = NoPage /\ onPage' = p /\ nthPage' = nthPage + 1 /\ nthPage \in Nat /\ nthPage' \in 0 .. MaxPages
      /\ seen' = {wfStatus}
      /\ UNCHANGED <<wfStatus, pressed, actionPending, actionError, toasts, toast,
                     emitted, delivered, lines, logged, due, drawer, loggedThen, stalerLog>>
  BY PagesAreNatural DEF OpenPage, ButtonsTyped
<1>2. actionPending = "none" /\ lines = <<>> /\ drawer = {} /\ ~due
  BY <1>1 DEF NothingLeft
<1>3. p # NoPage
  BY PagesAreNatural
<1>4. \A c \in Clicks : pressed[c].on <= nthPage /\ pressed[c].on \in Nat
  BY DEF ButtonsTyped, PressRecords
<1>5. ButtonsTyped'
  <2>1. OverPresses' = OverPresses
    BY <1>1 DEF OverPresses
  <2> QED BY <1>1, <1>4, <2>1 DEF ButtonsTyped
<1>6. /\ reads' \in [1 .. 2 -> ReadRecords]
      /\ \A r \in 1 .. 2 : reads'[r].on <= nthPage' /\ reads'[r].saw <= logged
      /\ p = Overview => \E r \in 1 .. 2 : reads'[r].on = nthPage' /\ reads'[r].at = "asked"
  <2>1. \A r \in 1 .. 2 : reads[r].on \in Nat /\ reads[r].on <= nthPage /\ reads[r].saw <= logged
    BY DEF EventsTyped, ReadRecords
  <2>2. CASE p = Overview
    <3>1. PICK r \in 1 .. 2 : ReadsLog(r)
      BY <2>2 DEF OpenPage, EventsTyped
    <3> DEFINE w == [on |-> nthPage', at |-> "asked", saw |-> 0]
    <3>2. w \in ReadRecords /\ w.on = nthPage' /\ w.at = "asked" /\ w.saw = 0 /\ 0 <= logged
      BY <1>1, PagesAreNatural DEF ReadRecords, EventsTyped
    <3>3. reads' = [reads EXCEPT ![r] = w]
      BY <3>1 DEF ReadsLog
    <3> HIDE DEF w
    <3>4. reads'[r] = w /\ \A q \in (1 .. 2) \ {r} : reads'[q] = reads[q]
      BY <3>3 DEF EventsTyped
    <3> QED BY <1>1, <2>1, <3>2, <3>3, <3>4 DEF EventsTyped
  <2>3. CASE p # Overview
    BY <1>1, <2>1, <2>3 DEF OpenPage, EventsTyped
  <2> QED BY <2>2, <2>3
<1>7. EventsTyped'
  BY <1>1, <1>6 DEF EventsTyped
<1>8. NothingLeft' /\ ToastsEnd' /\ LinesAreTheLast'
  BY <1>1, <1>2, <1>3 DEF NothingLeft, ToastsEnd, LinesAreTheLast
<1>9. OneIsMine'
  <2>1. Mine' = {}
    BY <1>1, <1>4 DEF Mine
  <2> QED BY <1>1, <1>2, <2>1 DEF OneIsMine
<1>10. DrawerFollows'
  BY <1>1, <1>6 DEF DrawerFollows, Fresh
<1> QED BY <1>5, <1>7, <1>8, <1>9, <1>10

LEMMA LeavePageKeeps == ASSUME WfPagesInv, LeavePage PROVE WfPagesInv'
<1> USE DEF WfPagesInv, LeavePage
<1>1. ButtonsTyped'
  <2>1. OverPresses' = OverPresses
    BY DEF OverPresses
  <2>2. actionError' \in BOOLEAN /\ toast' \in BOOLEAN
    OBVIOUS
  <2>3. toasts' \in Nat /\ toasts' <= Cardinality(OverPresses')
    BY <2>1, OverIsFinite
  <2>4. onPage' \in {NoPage, Overview} \cup PageNodes /\ (onPage' # NoPage => nthPage' # 0) /\ seen' = {}
    OBVIOUS
  <2> QED BY <2>2, <2>3, <2>4 DEF ButtonsTyped
<1>2. EventsTyped'
  <2>1. lines' \in Seq(Emits) /\ Len(lines') = 0
    OBVIOUS
  <2>2. loggedThen' \in 0 .. logged'
    BY DEF EventsTyped
  <2>3. due' \in BOOLEAN /\ stalerLog' \in BOOLEAN
    OBVIOUS
  <2>4. Len(lines') <= LineLimit
    BY <2>1, PagesAreNatural
  <2> QED BY <2>1, <2>2, <2>3, <2>4 DEF EventsTyped
<1>3. NothingLeft' /\ OneIsMine' /\ ToastsEnd' /\ LinesAreTheLast' /\ DrawerFollows'
  BY PagesAreNatural DEF NothingLeft, OneIsMine, ToastsEnd, LinesAreTheLast, DrawerFollows
<1> QED BY <1>1, <1>2, <1>3

\* What an action of the buttons leaves alone.
LEMMA ButtonsLeaveEvents ==
  ASSUME WfPagesInv, UNCHANGED <<onPage, nthPage, eventVars>>
  PROVE  /\ EventsTyped' /\ LinesAreTheLast' /\ DrawerFollows'
         /\ lines' = lines /\ drawer' = drawer /\ due' = due
BY DEF WfPagesInv, eventVars, EventsTyped, LinesAreTheLast, DrawerFollows, Fresh

LEMMA PressKeeps == ASSUME WfPagesInv, NEW c \in Clicks, NEW a \in Actions, Press(c, a) PROVE WfPagesInv'
<1> USE DEF WfPagesInv
<1> DEFINE w == [on |-> nthPage, action |-> a, at |-> "asked"]
<1>1. /\ actionPending = "none" /\ pressed[c].at = "none" /\ onPage # NoPage
      /\ pressed' = [pressed EXCEPT ![c] = w]
      /\ actionPending' = a /\ actionError' = FALSE
      /\ UNCHANGED <<onPage, nthPage, wfStatus, seen, toasts, toast, eventVars>>
  BY PagesAreNatural DEF Press, Enabled
<1>2. w \in PressRecords /\ w.on = nthPage /\ w.at = "asked"
  BY DEF PressRecords, ButtonsTyped
<1> HIDE DEF w
<1>3. pressed'[c] = w /\ (\A d \in Clicks \ {c} : pressed'[d] = pressed[d]) /\ pressed' \in [Clicks -> PressRecords]
  BY <1>1, <1>2 DEF ButtonsTyped
<1>4. EventsTyped' /\ LinesAreTheLast' /\ DrawerFollows' /\ lines' = lines /\ drawer' = drawer /\ due' = due
  BY <1>1, ButtonsLeaveEvents
<1>5. OverPresses' = OverPresses
  BY <1>1, <1>2, <1>3 DEF OverPresses
<1>6. ButtonsTyped'
  <2>1. actionError' \in BOOLEAN /\ toast' \in BOOLEAN
    BY <1>1 DEF ButtonsTyped
  <2>2. toasts' \in Nat /\ toasts' <= Cardinality(OverPresses')
    BY <1>1, <1>5 DEF ButtonsTyped
  <2>3. \A d \in Clicks : pressed'[d].on <= nthPage'
    <3>1. nthPage \in Nat
      BY DEF ButtonsTyped
    <3> QED BY <1>1, <1>2, <1>3, <3>1 DEF ButtonsTyped
  <2> QED BY <1>1, <1>3, <2>1, <2>2, <2>3 DEF ButtonsTyped
<1>7. OneIsMine'
  <2>1. Mine = {}
    BY <1>1 DEF OneIsMine
  <2>2. Mine' = {c}
    BY <1>1, <1>2, <1>3, <2>1 DEF Mine
  <2> QED BY <1>1, <2>2 DEF OneIsMine, Actions
<1>8. NothingLeft' /\ ToastsEnd'
  BY <1>1 DEF NothingLeft, ToastsEnd
<1> QED BY <1>4, <1>6, <1>7, <1>8

LEMMA HandleActionKeeps == ASSUME WfPagesInv, NEW c \in Clicks, HandleAction(c) PROVE WfPagesInv'
<1> USE DEF WfPagesInv
<1>1. pressed[c].at = "asked" /\ UNCHANGED <<onPage, nthPage, seen, actionPending, actionError, toasts, toast, eventVars>>
  BY DEF HandleAction
<1>2. PICK at \in {"done", "refused"} : pressed' = [pressed EXCEPT ![c].at = at]
  BY DEF HandleAction
<1>3. pressed[c] \in PressRecords /\ pressed'[c] = [pressed[c] EXCEPT !.at = at]
  BY <1>2 DEF ButtonsTyped
<1>4. pressed'[c] \in PressRecords /\ pressed'[c].at = at /\ pressed'[c].on = pressed[c].on
  BY <1>3 DEF PressRecords
<1>5. (\A d \in Clicks \ {c} : pressed'[d] = pressed[d]) /\ pressed' \in [Clicks -> PressRecords]
  BY <1>2, <1>4 DEF ButtonsTyped
<1>6. wfStatus' \in {"building", "running", "paused"}
  BY DEF HandleAction, ButtonsTyped
<1>7. EventsTyped' /\ LinesAreTheLast' /\ DrawerFollows' /\ lines' = lines /\ drawer' = drawer /\ due' = due
  BY <1>1, ButtonsLeaveEvents
<1>8. OverPresses' = OverPresses /\ Mine' = Mine
  BY <1>1, <1>4, <1>5 DEF OverPresses, Mine
<1>9. ButtonsTyped'
  BY <1>1, <1>4, <1>5, <1>6, <1>8 DEF ButtonsTyped
<1>10. OneIsMine' /\ NothingLeft' /\ ToastsEnd'
  BY <1>1, <1>7, <1>8 DEF OneIsMine, NothingLeft, ToastsEnd
<1> QED BY <1>7, <1>9, <1>10

LEMMA SettledKeeps == ASSUME WfPagesInv, NEW c \in Clicks, Settled(c) PROVE WfPagesInv'
<1> USE DEF WfPagesInv
<1>1. pressed[c].at \in {"done", "refused"} /\ pressed' = [pressed EXCEPT ![c].at = "over"]
      /\ UNCHANGED <<onPage, nthPage, wfStatus, seen, eventVars>>
  BY DEF Settled
<1>2. pressed[c] \in PressRecords /\ pressed'[c] = [pressed[c] EXCEPT !.at = "over"]
  BY <1>1 DEF ButtonsTyped
<1>3. pressed'[c] \in PressRecords /\ pressed'[c].at = "over" /\ pressed'[c].on = pressed[c].on
  BY <1>2 DEF PressRecords
<1>4. (\A d \in Clicks \ {c} : pressed'[d] = pressed[d]) /\ pressed' \in [Clicks -> PressRecords]
  BY <1>1, <1>3 DEF ButtonsTyped
<1>5. EventsTyped' /\ LinesAreTheLast' /\ DrawerFollows' /\ lines' = lines /\ drawer' = drawer /\ due' = due
  BY <1>1, ButtonsLeaveEvents
<1>6. OverPresses' = OverPresses \cup {c} /\ c \notin OverPresses /\ Mine' = Mine \ {c}
  BY <1>1, <1>3, <1>4 DEF OverPresses, Mine
<1>7. Cardinality(OverPresses') = Cardinality(OverPresses) + 1
  BY <1>6, OverIsFinite, FS_AddElement
<1>8. CASE pressed[c].on = nthPage /\ onPage # NoPage
  <2>1. actionPending' = "none" /\ c \in Mine
    BY <1>1, <1>8 DEF Settled, Mine
  <2>2. \/ actionError' = (actionError \/ pressed[c].at = "refused") /\ UNCHANGED <<toasts, toast>>
        \/ toasts' = toasts + 1 /\ toast' = TRUE /\ UNCHANGED actionError
    BY <1>8 DEF Settled
  <2>3. Mine = {c} /\ Mine' = {}
    BY <1>6, <1>8, <2>1 DEF OneIsMine
  <2>4. ButtonsTyped'
    <3>1. toasts \in Nat /\ Cardinality(OverPresses) \in Nat /\ toasts <= Cardinality(OverPresses)
      BY OverIsFinite DEF ButtonsTyped
    <3>2. toasts' \in Nat /\ toasts' <= Cardinality(OverPresses')
      BY <1>7, <2>2, <3>1
    <3>3. actionError' \in BOOLEAN /\ toast' \in BOOLEAN
      BY <2>2 DEF ButtonsTyped
    <3> QED BY <1>1, <1>3, <1>4, <2>1, <3>2, <3>3 DEF ButtonsTyped
  <2>5. OneIsMine' /\ NothingLeft'
    BY <1>1, <1>8, <2>1, <2>3 DEF OneIsMine, NothingLeft
  <2>6. ToastsEnd'
    <3>1. CASE UNCHANGED <<toasts, toast>>
      BY <3>1 DEF ToastsEnd
    <3>2. CASE toasts' = toasts + 1
      <4>1. toasts \in Nat
        BY DEF ButtonsTyped
      <4>2. toasts' > 0
        BY ONLY <3>2, <4>1
      <4> QED BY <4>2 DEF ToastsEnd
    <3> QED BY <2>2, <3>1, <3>2
  <2> QED BY <1>5, <2>4, <2>5, <2>6
<1>9. CASE ~(pressed[c].on = nthPage /\ onPage # NoPage)
  <2>1. UNCHANGED <<actionPending, actionError, toasts, toast>>
    BY <1>9 DEF Settled
  <2>2. ButtonsTyped'
    <3>1. toasts \in Nat /\ Cardinality(OverPresses) \in Nat /\ toasts <= Cardinality(OverPresses)
      BY OverIsFinite DEF ButtonsTyped
    <3>2. toasts' \in Nat /\ toasts' <= Cardinality(OverPresses')
      BY <1>7, <2>1, <3>1
    <3> QED BY <1>1, <1>3, <1>4, <2>1, <3>2 DEF ButtonsTyped
  <2>3. onPage # NoPage => Mine' = Mine
    BY <1>6, <1>9 DEF Mine
  <2>4. OneIsMine' /\ NothingLeft' /\ ToastsEnd'
    BY <1>1, <1>5, <2>1, <2>3 DEF OneIsMine, NothingLeft, ToastsEnd
  <2> QED BY <1>5, <2>2, <2>4
<1> QED BY <1>8, <1>9

LEMMA ToastEndsKeeps == ASSUME WfPagesInv, ToastEnds PROVE WfPagesInv'
<1> USE DEF WfPagesInv
<1>1. toasts > 0 /\ toasts' = toasts - 1 /\ toast' = FALSE
      /\ UNCHANGED <<onPage, nthPage, wfStatus, seen, pressed, actionPending, actionError, eventVars>>
  BY DEF ToastEnds
<1>2. EventsTyped' /\ LinesAreTheLast' /\ DrawerFollows' /\ lines' = lines /\ drawer' = drawer /\ due' = due
  BY <1>1, ButtonsLeaveEvents
<1>3. OverPresses' = OverPresses /\ Mine' = Mine
  BY <1>1 DEF OverPresses, Mine
<1>4. toasts' \in Nat /\ toasts' <= Cardinality(OverPresses)
  BY <1>1, OverIsFinite DEF ButtonsTyped
<1>5. ButtonsTyped'
  BY <1>1, <1>3, <1>4 DEF ButtonsTyped
<1> QED BY <1>1, <1>2, <1>3, <1>5 DEF OneIsMine, NothingLeft, ToastsEnd

\* What an action of the events leaves alone.
LEMMA EventsLeaveButtons ==
  ASSUME WfPagesInv, UNCHANGED <<onPage, nthPage, buttonVars>>
  PROVE  ButtonsTyped' /\ OneIsMine' /\ ToastsEnd' /\ actionPending' = actionPending
BY DEF WfPagesInv, buttonVars, ButtonsTyped, OneIsMine, ToastsEnd, OverPresses, Mine

LEMMA LoggingKeeps == ASSUME WfPagesInv, (\E n \in PageNodes : SessionEmits(n)) \/ LogEvent PROVE WfPagesInv'
<1> USE DEF WfPagesInv
<1>1. UNCHANGED <<onPage, nthPage, delivered, lines, due, reads, drawer, loggedThen, stalerLog, buttonVars>>
  BY DEF SessionEmits, LogEvent
<1>2. ButtonsTyped' /\ OneIsMine' /\ ToastsEnd' /\ actionPending' = actionPending
  BY <1>1, EventsLeaveButtons
<1>3. NothingLeft' /\ DrawerFollows'
  BY <1>1, <1>2 DEF NothingLeft, DrawerFollows, Fresh
<1>4. CASE \E n \in PageNodes : SessionEmits(n)
  <2>1. PICK n \in PageNodes : SessionEmits(n)
    BY <1>4
  <2>2. emitted' = Append(emitted, n) /\ logged' = logged /\ Len(emitted) < MaxEmits /\ emitted \in Seq(PageNodes)
    BY <2>1 DEF SessionEmits, EventsTyped
  <2>3. emitted' \in Seq(PageNodes) /\ Len(emitted') = Len(emitted) + 1 /\ Len(emitted) \in Nat
        /\ \A i \in 1 .. Len(emitted) : emitted'[i] = emitted[i]
    BY <2>2
  <2>4. Len(emitted') <= MaxEmits /\ delivered \in 0 .. Len(emitted')
    BY <2>2, <2>3, PagesAreNatural DEF EventsTyped
  <2>5. EventsTyped'
    BY <1>1, <2>2, <2>3, <2>4 DEF EventsTyped
  <2>6. delivered \in 0 .. Len(emitted) /\ \A i \in DOMAIN lines : lines[i] \in Nat \ {0}
    <3>1. lines \in Seq(Emits) /\ delivered \in 0 .. Len(emitted)
      BY DEF EventsTyped
    <3>2. \A i \in DOMAIN lines : lines[i] \in Emits
      BY <3>1
    <3> QED BY <3>1, <3>2 DEF Emits
  <2>7. LinesAreTheLast'
    BY <1>1, <2>3, <2>6 DEF LinesAreTheLast
  <2> QED BY <1>2, <1>3, <2>5, <2>7
<1>5. CASE LogEvent
  <2>1. logged' = logged + 1 /\ logged < MaxLogged /\ emitted' = emitted
    BY <1>5 DEF LogEvent
  <2>2. logged \in Nat /\ logged' \in 0 .. MaxLogged
    BY <2>1, PagesAreNatural DEF EventsTyped
  <2>3. (\A r \in 1 .. 2 : reads[r].saw <= logged') /\ loggedThen \in 0 .. logged'
        /\ (drawer = {} \/ \E v \in 0 .. logged' : drawer = {v})
    BY <2>1, <2>2 DEF EventsTyped, ReadRecords
  <2>4. EventsTyped'
    BY <1>1, <2>1, <2>2, <2>3 DEF EventsTyped
  <2>5. LinesAreTheLast'
    BY <1>1, <2>1 DEF LinesAreTheLast
  <2> QED BY <1>2, <1>3, <2>4, <2>5
<1> QED BY <1>4, <1>5

\* slice(-(LIMIT - 1)): the last lines, in order.
LEMMA KeptLines ==
  ASSUME WfPagesInv
  PROVE  \E m \in 1 .. Len(lines) + 1 :
           /\ Kept(lines) \in Seq(Emits) /\ Len(Kept(lines)) = Len(lines) - m + 1 /\ Len(Kept(lines)) < LineLimit
           /\ \A i \in 1 .. Len(Kept(lines)) : Kept(lines)[i] = lines[m + i - 1]
           /\ (Kept(lines) = <<>> => lines = <<>>)
<1> USE DEF WfPagesInv
<1> DEFINE n == Len(lines)
           m == IF n < LineLimit THEN 1 ELSE n - LineLimit + 2
<1>1. lines \in Seq(Emits) /\ n \in Nat /\ n <= LineLimit /\ LineLimit \in Nat /\ LineLimit > 1
  BY PagesAreNatural DEF EventsTyped
<1>2. Kept(lines) = SubSeq(lines, m, n)
  BY DEF Kept
<1> HIDE DEF n
<1>3. m \in 1 .. n + 1 /\ (m > n => n = 0) /\ n - m + 1 < LineLimit /\ n - m + 1 \in Nat /\ m \in Nat
  BY ONLY <1>1 DEF m
<1> HIDE DEF m
<1>4. Kept(lines) \in Seq(Emits) /\ Len(Kept(lines)) = n - m + 1
      /\ \A i \in 1 .. n - m + 1 : Kept(lines)[i] = lines[m + i - 1]
  BY <1>1, <1>2, <1>3, SubSeqProperties DEF n
<1>5. Kept(lines) = <<>> => n = 0
  <2> SUFFICES ASSUME Kept(lines) = <<>> PROVE n = 0
    OBVIOUS
  <2>1. Len(Kept(lines)) = 0
    OBVIOUS
  <2> DEFINE k == n - m + 1
  <2>2. k = 0
    BY <1>4, <2>1
  <2> QED BY <1>1, <1>3, <2>2
<1>6. n = 0 => lines = <<>>
  BY <1>1, EmptySeq DEF n
<1> QED BY <1>3, <1>4, <1>5, <1>6 DEF n

LEMMA DeliverKeeps == ASSUME WfPagesInv, Deliver PROVE WfPagesInv'
<1> USE DEF WfPagesInv
<1> DEFINE e == delivered + 1
<1>1. /\ delivered < Len(emitted) /\ delivered' = e /\ due' = (due \/ onPage = Overview)
      /\ lines' = (IF onPage = emitted[e] THEN Append(Kept(lines), e) ELSE lines)
      /\ loggedThen' = (IF onPage = Overview THEN logged ELSE loggedThen)
      /\ UNCHANGED <<onPage, nthPage, emitted, logged, reads, drawer, stalerLog, buttonVars>>
  BY DEF Deliver
<1>2. delivered \in Nat /\ e \in 1 .. Len(emitted) /\ Len(emitted) \in Nat /\ Len(emitted) <= MaxEmits
  BY <1>1 DEF EventsTyped
<1>3. e \in Emits /\ emitted[e] \in PageNodes
  BY <1>2, PagesAreNatural DEF EventsTyped, Emits
<1> HIDE DEF e
<1>4. ButtonsTyped' /\ OneIsMine' /\ ToastsEnd' /\ actionPending' = actionPending
  BY <1>1, EventsLeaveButtons
<1>5. PICK m \in 1 .. Len(lines) + 1 :
           /\ Kept(lines) \in Seq(Emits) /\ Len(Kept(lines)) = Len(lines) - m + 1 /\ Len(Kept(lines)) < LineLimit
           /\ \A i \in 1 .. Len(Kept(lines)) : Kept(lines)[i] = lines[m + i - 1]
           /\ (Kept(lines) = <<>> => lines = <<>>)
  BY KeptLines
<1> DEFINE stayed == Kept(lines)
<1>6. stayed \in Seq(Emits) /\ Len(stayed) \in Nat /\ Len(stayed) < LineLimit /\ Len(stayed) = Len(lines) - m + 1
      /\ (\A i \in 1 .. Len(stayed) : stayed[i] = lines[m + i - 1])
      /\ (stayed = <<>> => lines = <<>>)
  BY <1>5
<1> HIDE DEF stayed
<1>7. lines \in Seq(Emits) /\ Len(lines) \in Nat
  BY DEF EventsTyped
<1>8. /\ Append(stayed, e) \in Seq(Emits) /\ Len(Append(stayed, e)) = Len(stayed) + 1
      /\ Append(stayed, e)[Len(stayed) + 1] = e
      /\ \A i \in 1 .. Len(stayed) : Append(stayed, e)[i] = stayed[i]
  BY <1>3, <1>6
<1>9. lines' = IF onPage = emitted[e] THEN Append(stayed, e) ELSE lines
  BY <1>1 DEF stayed
<1>10. lines' \in Seq(Emits) /\ Len(lines') <= LineLimit
  BY <1>6, <1>8, <1>9, PagesAreNatural DEF EventsTyped
<1>11. EventsTyped'
  <2>1. delivered' \in 0 .. Len(emitted) /\ loggedThen' \in 0 .. logged
    BY <1>1, <1>2, PagesAreNatural DEF EventsTyped
  <2>2. due' \in BOOLEAN
    BY <1>1 DEF EventsTyped
  <2> QED BY <1>1, <1>10, <2>1, <2>2 DEF EventsTyped
<1>12. NothingLeft'
  BY <1>1, <1>3, <1>4, <1>9, PagesAreNatural DEF NothingLeft
<1>13. DrawerFollows'
  BY <1>1 DEF DrawerFollows, Fresh
<1>14. LinesAreTheLast'
  <2> SUFFICES ASSUME onPage \in PageNodes PROVE LinesAreTheLast'
    BY <1>1 DEF LinesAreTheLast
  <2>1. /\ \A i \in DOMAIN lines : emitted[lines[i]] = onPage /\ lines[i] <= delivered
        /\ \A i, j \in DOMAIN lines : i < j => lines[i] < lines[j]
        /\ \A x \in 1 .. delivered :
             (emitted[x] = onPage /\ lines # <<>> /\ x > lines[1]) => \E i \in DOMAIN lines : lines[i] = x
    BY DEF LinesAreTheLast
  <2>2. DOMAIN lines = 1 .. Len(lines) /\ \A i \in 1 .. Len(lines) : lines[i] \in Nat
    <3>1. \A i \in 1 .. Len(lines) : lines[i] \in Emits
      BY <1>7
    <3> QED BY <1>7, <3>1 DEF Emits
  <2>3. \A x \in 1 .. delivered' : x = e \/ x \in 1 .. delivered
    BY <1>1, <1>2 DEF e
  <2>4. e = delivered + 1
    BY DEF e
  <2>5. CASE onPage # emitted[e]
    <3>1. lines' = lines /\ emitted' = emitted /\ onPage' = onPage
      BY <1>1, <1>9, <2>5
    <3>2. \A i \in DOMAIN lines : emitted[lines[i]] = onPage /\ lines[i] <= delivered'
      BY <1>1, <1>2, <2>1, <2>2, <2>4
    <3> QED BY <2>1, <2>3, <2>5, <3>1, <3>2 DEF LinesAreTheLast
  <2>6. CASE onPage = emitted[e]
    <3>1. lines' = Append(stayed, e) /\ emitted' = emitted /\ onPage' = onPage /\ delivered' = e
      BY <1>1, <1>9, <2>6
    <3>2. DOMAIN lines' = 1 .. Len(stayed) + 1
      BY <1>8, <3>1
    <3>3. ASSUME NEW i \in 1 .. Len(stayed)
          PROVE  /\ m + i - 1 \in 1 .. Len(lines) /\ lines'[i] = lines[m + i - 1]
                 /\ emitted[lines'[i]] = onPage /\ lines'[i] < e /\ lines'[i] \in Nat
      <4>1. m + i - 1 \in 1 .. Len(lines)
        BY <1>5, <1>6, <1>7
      <4>2. lines'[i] = lines[m + i - 1]
        BY <1>6, <1>8, <3>1
      <4> QED BY <1>2, <2>1, <2>2, <2>4, <4>1, <4>2
    <3>4. lines'[Len(stayed) + 1] = e
      BY <1>8, <3>1
    <3>5. ASSUME NEW i \in DOMAIN lines' PROVE emitted'[lines'[i]] = onPage' /\ lines'[i] <= delivered'
      <4>1. i \in 1 .. Len(stayed) \/ i = Len(stayed) + 1
        BY <1>6, <3>2
      <4> QED BY <1>2, <2>6, <3>1, <3>3, <3>4, <4>1 DEF e
    <3>6. ASSUME NEW i \in DOMAIN lines', NEW j \in DOMAIN lines', i < j PROVE lines'[i] < lines'[j]
      <4>1. i \in 1 .. Len(stayed) /\ (j \in 1 .. Len(stayed) \/ j = Len(stayed) + 1)
        <5>1. i \in 1 .. Len(stayed) + 1 /\ j \in 1 .. Len(stayed) + 1 /\ Len(stayed) \in Nat
          BY <1>6, <3>2
        <5> QED BY <3>6, <5>1
      <4>2. CASE j = Len(stayed) + 1
        BY <3>3, <3>4, <4>1, <4>2
      <4>3. CASE j \in 1 .. Len(stayed)
        <5>1. m + i - 1 < m + j - 1
          BY <1>5, <1>7, <3>6, <4>1, <4>3
        <5>2. /\ m + i - 1 \in 1 .. Len(lines) /\ lines'[i] = lines[m + i - 1]
              /\ m + j - 1 \in 1 .. Len(lines) /\ lines'[j] = lines[m + j - 1]
          BY <3>3, <4>1, <4>3
        <5>3. lines[m + i - 1] < lines[m + j - 1]
          BY <2>1, <2>2, <5>1, <5>2
        <5> QED BY <5>2, <5>3
      <4> QED BY <4>1, <4>2, <4>3
    <3>7. ASSUME NEW x \in 1 .. delivered', emitted'[x] = onPage', x > lines'[1]
          PROVE  \E i \in DOMAIN lines' : lines'[i] = x
      <4>1. CASE x = e
        <5>1. Len(stayed) \in Nat /\ DOMAIN lines' = 1 .. Len(stayed) + 1
          BY <1>6, <3>2
        <5>2. Len(stayed) + 1 \in DOMAIN lines'
          BY <5>1
        <5> QED BY <3>4, <4>1, <5>2, Zenon
      <4>2. CASE x # e /\ Len(stayed) = 0
        <5>1. lines'[1] = e
          BY <3>4, <4>2
        <5> QED BY <1>2, <2>3, <2>4, <3>7, <4>2, <5>1
      <4>3. CASE x # e /\ Len(stayed) # 0
        <5>1. 1 \in 1 .. Len(stayed) /\ m \in 1 .. Len(lines) /\ 1 \in 1 .. Len(lines)
          BY <1>5, <1>6, <1>7, <4>3
        <5>2. lines'[1] = lines[m] /\ lines[1] <= lines[m]
          <6>1. lines'[1] = lines[m + 1 - 1]
            BY <3>3, <5>1
          <6>2. m + 1 - 1 = m /\ (m = 1 \/ 1 < m)
            BY <5>1
          <6> QED BY <2>1, <2>2, <5>1, <6>1, <6>2
        <5>3. x \in 1 .. delivered /\ x > lines[1] /\ x > lines[m] /\ lines # <<>>
          BY <1>2, <1>7, <2>2, <2>3, <3>7, <4>3, <5>1, <5>2
        <5>4. PICK i \in DOMAIN lines : lines[i] = x
          BY <2>1, <3>1, <3>7, <5>3
        <5>5. i > m
          BY <2>1, <2>2, <5>1, <5>3, <5>4
        <5>6. i - m + 1 \in 1 .. Len(stayed) /\ m + (i - m + 1) - 1 = i
          BY <1>5, <1>6, <1>7, <2>2, <5>5
        <5>7. lines'[i - m + 1] = lines[i]
          BY <3>3, <5>6
        <5> QED BY <1>6, <3>2, <5>4, <5>6, <5>7
      <4> QED BY <4>1, <4>2, <4>3
    <3> QED BY <3>5, <3>6, <3>7 DEF LinesAreTheLast
  <2> QED BY <2>5, <2>6
<1> QED BY <1>4, <1>11, <1>12, <1>13, <1>14

LEMMA ReadKeeps ==
  ASSUME WfPagesInv, NEW r \in 1 .. 2, DebounceEnds(r) \/ LogRead(r) \/ LogLoaded(r)
  PROVE  WfPagesInv'
<1> USE DEF WfPagesInv
<1>1. UNCHANGED <<onPage, nthPage, emitted, delivered, lines, logged, loggedThen, buttonVars>>
  BY DEF DebounceEnds, LogRead, LogLoaded
<1>2. ButtonsTyped' /\ OneIsMine' /\ ToastsEnd' /\ actionPending' = actionPending
  BY <1>1, EventsLeaveButtons
<1>3. LinesAreTheLast'
  BY <1>1 DEF LinesAreTheLast
<1>4. reads[r] \in ReadRecords /\ reads \in [1 .. 2 -> ReadRecords] /\ reads[r].on <= nthPage /\ reads[r].saw <= logged
      /\ logged \in 0 .. MaxLogged /\ nthPage \in 0 .. MaxPages /\ loggedThen \in 0 .. logged
  BY DEF EventsTyped, ButtonsTyped
<1>5. CASE DebounceEnds(r)
  <2> DEFINE w == [on |-> nthPage, at |-> "asked", saw |-> 0]
  <2>1. due /\ due' = FALSE /\ reads' = [reads EXCEPT ![r] = w] /\ UNCHANGED <<drawer, stalerLog>>
    BY <1>1, <1>5 DEF DebounceEnds, ReadsLog
  <2>2. w \in ReadRecords /\ w.on = nthPage /\ w.at = "asked" /\ w.saw = 0
    BY <1>4, PagesAreNatural DEF ReadRecords
  <2> HIDE DEF w
  <2>3. reads'[r] = w /\ (\A q \in (1 .. 2) \ {r} : reads'[q] = reads[q]) /\ reads' \in [1 .. 2 -> ReadRecords]
    BY <1>4, <2>1, <2>2
  <2>4. \A q \in 1 .. 2 : reads'[q].on <= nthPage /\ reads'[q].saw <= logged
    BY <1>4, <2>2, <2>3 DEF EventsTyped
  <2>5. EventsTyped'
    BY <1>1, <2>1, <2>3, <2>4 DEF EventsTyped
  <2>6. NothingLeft' /\ DrawerFollows'
    BY <1>1, <1>2, <2>1, <2>2, <2>3 DEF NothingLeft, DrawerFollows, Fresh
  <2> QED BY <1>2, <1>3, <2>5, <2>6
<1>6. CASE LogRead(r)
  <2>1. /\ reads[r].at = "asked" /\ UNCHANGED <<due, drawer, stalerLog>>
        /\ reads' = [reads EXCEPT ![r] = [reads[r] EXCEPT !.at = "answered", !.saw = FirstOf(logged)]]
    BY <1>4, <1>6 DEF LogRead
  <2>2. FirstOf(logged) \in 0 .. logged /\ FirstOf(logged) >= FirstOf(loggedThen) /\ FirstOf(logged) \in 0 .. MaxLogged
    BY <1>4, PagesAreNatural DEF FirstOf
  <2>3. reads'[r] = [[reads[r] EXCEPT !.at = "answered"] EXCEPT !.saw = FirstOf(logged)]
    BY <1>4, <2>1
  <2>4. reads'[r] \in ReadRecords /\ reads'[r].on = reads[r].on /\ reads'[r].at = "answered" /\ reads'[r].saw = FirstOf(logged)
    BY <1>4, <2>2, <2>3 DEF ReadRecords
  <2>5. (\A q \in (1 .. 2) \ {r} : reads'[q] = reads[q]) /\ reads' \in [1 .. 2 -> ReadRecords]
    BY <1>4, <2>1, <2>4
  <2>6. \A q \in 1 .. 2 : reads'[q].on <= nthPage /\ reads'[q].saw <= logged
    BY <1>4, <2>2, <2>4, <2>5 DEF EventsTyped
  <2>7. EventsTyped'
    BY <1>1, <2>1, <2>5, <2>6 DEF EventsTyped
  <2>8. NothingLeft'
    BY <1>1, <1>2, <2>1 DEF NothingLeft
  <2>9. \A q \in 1 .. 2 : Fresh(q) => Fresh(q)'
    BY <1>1, <2>1, <2>2, <2>4, <2>5 DEF Fresh, FirstOf
  <2>10. DrawerFollows'
    BY <1>1, <2>1, <2>9 DEF DrawerFollows, FirstOf
  <2> QED BY <1>2, <1>3, <2>7, <2>8, <2>10
<1>7. CASE LogLoaded(r)
  <2>1. /\ reads[r].at = "answered" /\ due' = due /\ reads' = [reads EXCEPT ![r] = Unread]
        /\ drawer' = (IF onPage = Overview /\ reads[r].on = nthPage THEN {reads[r].saw} ELSE drawer)
        /\ stalerLog' = (stalerLog \/ \E v \in drawer', u \in drawer : v < u)
    BY <1>7 DEF LogLoaded
  <2>2. Unread \in ReadRecords /\ Unread.on = 0 /\ Unread.saw = 0
    BY PagesAreNatural DEF Unread, ReadRecords
  <2>3. reads'[r] = Unread /\ (\A q \in (1 .. 2) \ {r} : reads'[q] = reads[q]) /\ reads' \in [1 .. 2 -> ReadRecords]
    BY <1>4, <2>1, <2>2
  <2>4. \A q \in 1 .. 2 : reads'[q].on <= nthPage /\ reads'[q].saw <= logged
    BY <1>4, <2>2, <2>3 DEF EventsTyped
  <2>5. drawer' = {} \/ \E v \in 0 .. logged : drawer' = {v}
    <3>1. reads[r].saw \in 0 .. logged
      BY <1>4 DEF ReadRecords
    <3> QED BY <2>1, <3>1 DEF EventsTyped
  <2>6. stalerLog' \in BOOLEAN
    BY <2>1 DEF EventsTyped
  <2>7. EventsTyped'
    BY <1>1, <2>1, <2>3, <2>4, <2>5, <2>6 DEF EventsTyped
  <2>8. NothingLeft'
    BY <1>1, <1>2, <2>1, PagesAreNatural DEF NothingLeft
  <2>9. DrawerFollows'
    <3> SUFFICES ASSUME onPage = Overview, ~stalerLog', ~due, \A q \in 1 .. 2 : ~Fresh(q)'
                 PROVE  drawer' # {} /\ \A v \in drawer' : v >= FirstOf(loggedThen)
      BY <1>1, <2>1 DEF DrawerFollows, FirstOf
    <3>1. ~stalerLog /\ \A v \in drawer', u \in drawer : ~(v < u)
      BY <2>1
    <3>2. \A q \in (1 .. 2) \ {r} : ~Fresh(q)
      BY <1>1, <2>3 DEF Fresh, FirstOf
    <3>3. Fresh(r) \/ (drawer # {} /\ \A v \in drawer : v >= FirstOf(loggedThen))
      BY <3>1, <3>2 DEF DrawerFollows
    <3>4. CASE reads[r].on # nthPage
      BY <2>1, <3>3, <3>4 DEF Fresh
    <3>5. CASE reads[r].on = nthPage
      <4>1. drawer' = {reads[r].saw}
        BY <2>1, <3>5
      <4>2. CASE Fresh(r)
        BY <2>1, <4>1, <4>2 DEF Fresh
      <4>3. CASE drawer # {} /\ \A v \in drawer : v >= FirstOf(loggedThen)
        <5>1. PICK u \in drawer : u >= FirstOf(loggedThen) /\ ~(reads[r].saw < u)
          BY <3>1, <4>1, <4>3
        <5>2. u \in Nat /\ reads[r].saw \in Nat /\ FirstOf(loggedThen) \in Nat
          <6>1. u \in Nat
            BY <1>4 DEF EventsTyped
          <6>2. reads[r].saw \in Nat
            BY <1>4 DEF ReadRecords
          <6>3. FirstOf(loggedThen) \in Nat
            BY <1>4, PagesAreNatural DEF FirstOf
          <6> QED BY <6>1, <6>2, <6>3
        <5> QED BY <4>1, <5>1, <5>2
      <4> QED BY <3>3, <4>2, <4>3
    <3> QED BY <3>4, <3>5
  <2> QED BY <1>2, <1>3, <2>7, <2>8, <2>9
<1> QED BY <1>5, <1>6, <1>7

LEMMA WfPagesInvStep == WfPagesInv /\ [ButtonsNext \/ EventsNext]_pageVars => WfPagesInv'
<1> SUFFICES ASSUME WfPagesInv, [ButtonsNext \/ EventsNext]_pageVars PROVE WfPagesInv'
  OBVIOUS
<1>1. CASE UNCHANGED pageVars
  <2>1. UNCHANGED <<onPage, nthPage, buttonVars, eventVars>>
    BY <1>1 DEF pageVars, buttonVars, eventVars
  <2>2. ButtonsTyped' /\ OneIsMine' /\ ToastsEnd' /\ actionPending' = actionPending
    BY <2>1, EventsLeaveButtons
  <2>3. EventsTyped' /\ LinesAreTheLast' /\ DrawerFollows' /\ lines' = lines /\ drawer' = drawer /\ due' = due
    BY <2>1, ButtonsLeaveEvents
  <2> QED BY <2>1, <2>2, <2>3 DEF WfPagesInv, NothingLeft
<1>2. CASE Moves
  BY <1>2, OpenPageKeeps, LeavePageKeeps DEF Moves
<1>3. CASE ButtonsNext
  BY <1>2, <1>3, ToastEndsKeeps, HandleActionKeeps, SettledKeeps, PressKeeps DEF ButtonsNext
<1>4. CASE EventsNext
  <2>1. DOMAIN reads = 1 .. 2
    BY DEF WfPagesInv, EventsTyped
  <2> QED BY <1>2, <1>4, <2>1, LoggingKeeps, DeliverKeeps, ReadKeeps DEF EventsNext
<1> QED BY <1>1, <1>3, <1>4

-----------------------------------------------------------------------------
(* The page of the projects, its palette and toasts                        *)

\* As many places as there are: the one that comes j-th among them.
LEMMA PlaceExists ==
  ASSUME NEW places, IsFiniteSet(places), places \subseteq Nat, NEW j \in 1 .. Cardinality(places)
  PROVE  \E i \in places : Cardinality({k \in places : k <= i}) = j
<1> DEFINE n == Cardinality(places)
           upTo(i) == {k \in places : k <= i}
           rank == [i \in places |-> Cardinality(upTo(i))]
<1>1. n \in Nat
  BY FS_CardinalityType
<1>2. ASSUME NEW i \in places PROVE IsFiniteSet(upTo(i)) /\ Cardinality(upTo(i)) \in 1 .. n
  <2>1. upTo(i) \in SUBSET places
    OBVIOUS
  <2>2. IsFiniteSet(upTo(i)) /\ Cardinality(upTo(i)) <= n
    BY <2>1, FS_Subset
  <2>3. Cardinality(upTo(i)) \in Nat /\ upTo(i) # {}
    BY <2>2, FS_CardinalityType
  <2>4. Cardinality(upTo(i)) # 0
    BY <2>2, <2>3, FS_EmptySet
  <2> QED BY <1>1, <2>2, <2>3, <2>4
<1>3. ASSUME NEW i \in places, NEW k \in places, i < k PROVE rank[i] # rank[k]
  <2>1. k \notin upTo(i)
    BY <1>3
  <2>2. Cardinality(upTo(i) \cup {k}) = rank[i] + 1 /\ IsFiniteSet(upTo(i) \cup {k})
    BY <1>2, <2>1, FS_AddElement
  <2>3. upTo(i) \cup {k} \in SUBSET upTo(k)
    <3>1. i \in Nat /\ k \in Nat /\ i <= k /\ k <= k
      BY <1>3
    <3>2. ASSUME NEW m \in upTo(i) PROVE m \in upTo(k)
      <4>1. m \in places /\ m <= i /\ m \in Nat
        OBVIOUS
      <4> QED BY <3>1, <4>1
    <3> QED BY <3>1, <3>2
  <2>4. rank[i] + 1 <= rank[k]
    BY <1>2, <2>2, <2>3, FS_Subset
  <2> QED BY <1>2, <2>4
<1>4. rank \in Injection(places, 1 .. n)
  <2>1. rank \in [places -> 1 .. n]
    BY <1>2
  <2>2. \A i, k \in places : rank[i] = rank[k] => i = k
    <3>1. ASSUME NEW i \in places, NEW k \in places, i # k PROVE i < k \/ k < i
      BY <3>1
    <3> HIDE DEF rank
    <3> QED BY <1>3, <3>1
  <2> HIDE DEF rank, n
  <2> QED BY <2>1, <2>2 DEF Injection, IsInjective
<1>5. IsFiniteSet(1 .. n) /\ Cardinality(1 .. n) = n
  BY <1>1, FS_Interval
<1>6. rank \in Surjection(places, 1 .. n)
  <2> HIDE DEF rank
  <2> QED BY <1>4, <1>5, FS_Injection
<1>7. PICK i \in places : rank[i] = j
  <2> HIDE DEF rank
  <2> QED BY <1>6 DEF Surjection
<1> QED BY <1>7

\* What is kept of a sequence is of the same kind, and there is one of each place.
LEMMA AtPlacesType ==
  ASSUME NEW S, NEW s \in Seq(S), NEW places \in SUBSET (DOMAIN s)
  PROVE  /\ AtPlaces(s, places) \in Seq(S)
         /\ Len(AtPlaces(s, places)) = Cardinality(places)
         /\ Cardinality(places) \in Nat
         /\ IsFiniteSet(places)
<1>1. DOMAIN s = 1 .. Len(s) /\ Len(s) \in Nat
  BY LenProperties
<1>2. IsFiniteSet(1 .. Len(s))
  BY <1>1, FS_Interval
<1>3. IsFiniteSet(places)
  BY <1>1, <1>2, FS_Subset
<1>4. Cardinality(places) \in Nat
  BY <1>3, FS_CardinalityType
<1> DEFINE n == Cardinality(places)
           nth(j) == CHOOSE i \in places : Cardinality({k \in places : k <= i}) = j
<1>5. ASSUME NEW j \in 1 .. n PROVE nth(j) \in DOMAIN s
  <2>1. \E i \in places : Cardinality({k \in places : k <= i}) = j
    BY <1>1, <1>3, <1>5, PlaceExists
  <2> QED BY <2>1
<1> DEFINE keptItems == [j \in 1 .. n |-> s[nth(j)]]
<1>6. keptItems = AtPlaces(s, places)
  BY DEF AtPlaces
<1>7. \A j \in 1 .. n : s[nth(j)] \in S
  <2> HIDE DEF nth
  <2> QED BY <1>5, ElementOfSeq, <1>1
<1>8. keptItems \in Seq(S) /\ Len(keptItems) = n
  <2> HIDE DEF n, nth
  <2>1. n \in Nat
    BY <1>4 DEF n
  <2>2. keptItems \in [1 .. n -> S] /\ DOMAIN keptItems = 1 .. n
    BY <1>7
  <2> HIDE DEF keptItems
  <2> QED BY <2>1, <2>2
<1> QED BY <1>3, <1>4, <1>6, <1>8

ViewStores == [mode : StoreModes, list : Seq(CardIds), meta : [CardIds -> {Nobody, "init"}]]
ViewPages == [page : {Nobody, "wizard", "workflow", "brainstorm", "settings"}, id : CardIds \cup {Nobody}]
PaletteItems ==
  [kind : {"project", "recent"}, id : CardIds]
    \cup [kind : {"action"}, id : {"new-project", "toggle-theme"}]
    \cup [kind : {"nav"}, id : {"workflow", "brainstorm", "settings"}]
PaletteRecords == [open : BOOLEAN, query : Queries, idx : Nat]

ViewTyped ==
  /\ store \in ViewStores /\ palette \in PaletteRecords
  /\ choice \in [active : CardIds \cup {Nobody}, to : ViewPages]
  /\ notice \in [text : 0 .. 2, timers : 0 .. 2]
  /\ aim \in [item : PaletteItems \cup {NoItem}, moved : BOOLEAN]
  /\ listChanges \in 0 .. MaxListChanges /\ visits \in 0 .. MaxVisits

\* The index is at an item, before the first, or where it begins; and while the palette is open what
\* it highlights is what the user saw, or the list has changed.
AimIsSeen ==
  /\ palette.idx <= Len(Items) \/ palette.idx = 1
  /\ palette.open => aim.moved \/ aim.item = Highlighted(palette, Items)

ViewInv ==
  /\ ViewTyped /\ AimIsSeen
  /\ ran.moved \/ ran.item = ran.aim
  /\ notice.text # 0 => notice.timers > 0

\* Whatever the mode, no project is under way.
LEMMA NoneIsUnderWay ==
  ASSUME NEW st \in ViewStores
  PROVE  /\ \A p \in CardIds : SummaryToUi(st, p) = "init"
         /\ RecentItems(st) = <<>>
<1>1. ASSUME NEW p \in CardIds PROVE SummaryToUi(st, p) = "init"
  <2>1. st.meta[p] \in {Nobody, "init"}
    BY DEF ViewStores
  <2>2. WorkflowStatusFromSummary(SummaryStatus(st.mode)) = "init"
    BY DEF WorkflowStatusFromSummary, SummaryStatus
  <2> QED BY <2>1, <2>2 DEF SummaryToUi
<1>2. RecentItems(st) = <<>>
  <2> DEFINE places == {i \in DOMAIN st.list : SummaryToUi(st, st.list[i]) = "running"}
  <2>1. st.list \in Seq(CardIds)
    BY DEF ViewStores
  <2>2. places = {}
    <3>1. \A i \in DOMAIN st.list : st.list[i] \in CardIds
      BY <2>1, ElementOfSeq, LenProperties
    <3> QED BY <3>1, <1>1
  <2>3. Len(AtPlaces(st.list, places)) = 0
    <3>1. places \in SUBSET (DOMAIN st.list)
      OBVIOUS
    <3> HIDE DEF places
    <3> QED BY <2>1, <2>2, <3>1, AtPlacesType, FS_EmptySet
  <2> DEFINE running == AtPlaces(st.list, places)
             few == IF Len(running) > 3 THEN 3 ELSE Len(running)
             recent == [i \in 1 .. few |-> Item("recent", running[i])]
  <2>4. RecentItems(st) = recent
    BY DEF RecentItems
  <2> HIDE DEF running, places
  <2>7. Len(running) = 0
    BY <2>3 DEF running
  <2>8. 1 .. few = {}
    BY <2>7
  <2> HIDE DEF few
  <2>5. recent \in [1 .. 0 -> {}] /\ DOMAIN recent = 1 .. 0
    <3>1. 1 .. 0 = {}
      OBVIOUS
    <3> QED BY <2>8, <3>1
  <2> HIDE DEF recent
  <2>6. recent \in Seq({}) /\ Len(recent) = 0
    BY <2>5
  <2> QED BY <2>4, <2>6, EmptySeq
<1> QED BY <1>1, <1>2

LEMMA SectionType ==
  ASSUME NEW S, NEW s \in Seq(S), NEW query
  PROVE  /\ Section(s, query) \in Seq(S)
         /\ Len(Section(s, query)) = Cardinality({i \in DOMAIN s : Matches(query, s[i])})
         /\ IsFiniteSet({i \in DOMAIN s : Matches(query, s[i])})
BY AtPlacesType DEF Section

LEMMA ItemsType ==
  ASSUME NEW st \in ViewStores, NEW active \in CardIds \cup {Nobody}, NEW query
  PROVE  /\ ProjectItems(st) \in Seq(PaletteItems)
         /\ ActionItems \in Seq(PaletteItems)
         /\ NavItems(active) \in Seq(PaletteItems)
         /\ RecentItems(st) \in Seq(PaletteItems)
         /\ ItemsOf(st, active, query) \in Seq(PaletteItems)
<1>1. ProjectItems(st) \in Seq(PaletteItems)
  <2>1. st.list \in Seq(CardIds) /\ DOMAIN st.list = 1 .. Len(st.list) /\ Len(st.list) \in Nat
    BY LenProperties DEF ViewStores
  <2>2. \A i \in 1 .. Len(st.list) : Item("project", st.list[i]) \in PaletteItems
    BY <2>1, ElementOfSeq DEF Item, PaletteItems
  <2>3. ProjectItems(st) \in [1 .. Len(st.list) -> PaletteItems]
    BY <2>1, <2>2 DEF ProjectItems
  <2> QED BY <2>1, <2>3
<1>2. ActionItems \in Seq(PaletteItems)
  <2>1. Item("action", "new-project") \in PaletteItems /\ Item("action", "toggle-theme") \in PaletteItems
    BY DEF Item, PaletteItems
  <2> QED BY <2>1 DEF ActionItems
<1>3. NavItems(active) \in Seq(PaletteItems)
  <2>1. /\ Item("nav", "workflow") \in PaletteItems /\ Item("nav", "brainstorm") \in PaletteItems
        /\ Item("nav", "settings") \in PaletteItems
    BY DEF Item, PaletteItems
  <2> QED BY <2>1 DEF NavItems
<1>4. RecentItems(st) \in Seq(PaletteItems)
  BY NoneIsUnderWay, EmptySeq
<1>5. ItemsOf(st, active, query) \in Seq(PaletteItems)
  <2>1. /\ Section(ProjectItems(st), query) \in Seq(PaletteItems)
        /\ Section(ActionItems, query) \in Seq(PaletteItems)
        /\ Section(NavItems(active), query) \in Seq(PaletteItems)
        /\ Section(RecentItems(st), query) \in Seq(PaletteItems)
    BY <1>1, <1>2, <1>3, <1>4, SectionType
  <2> QED BY <2>1, ConcatProperties DEF ItemsOf
<1> QED BY <1>1, <1>2, <1>3, <1>4, <1>5

LEMMA NothingOfNothing == ASSUME NEW query PROVE Section(<<>>, query) = <<>>
<1>1. {i \in DOMAIN <<>> : Matches(query, <<>>[i])} = {}
  OBVIOUS
<1>2. <<>> \in Seq({})
  OBVIOUS
<1> DEFINE none == <<>>
<1>3. Section(none, query) \in Seq({}) /\ Len(Section(none, query)) = 0
  <2>1. {i \in DOMAIN none : Matches(query, none[i])} = {} /\ none \in Seq({})
    BY <1>1, <1>2
  <2> HIDE DEF none
  <2> QED BY <2>1, SectionType, FS_EmptySet
<1> QED BY <1>3, EmptySeq

\* A project that is opened adds items behind those there are, where there are any.
LEMMA ItemsGrow ==
  ASSUME NEW st \in ViewStores, NEW a \in CardIds \cup {Nobody}, NEW b \in CardIds, NEW query \in Queries
  PROVE  LET old == ItemsOf(st, a, query)
             new == ItemsOf(st, b, query) IN
         /\ Len(old) <= Len(new)
         /\ \A i \in 1 .. Len(old) : new[i] = old[i]
         /\ old = <<>> => new = <<>>
<1> DEFINE items(c) == ItemsOf(st, c, query)
<1>1. a # Nobody => items(a) = items(b)
  <2>1. b # Nobody
    BY ViewAssumption DEF Nobody
  <2> QED BY <2>1 DEF ItemsOf, NavItems
<1>2. items(a) \in Seq(PaletteItems) /\ items(b) \in Seq(PaletteItems)
  BY ItemsType
<1>3. CASE a # Nobody
  <2> HIDE DEF items
  <2>1. Len(items(a)) \in Nat /\ items(a) = items(b)
    BY <1>1, <1>2, <1>3, LenProperties
  <2>2. /\ Len(items(a)) <= Len(items(b))
        /\ \A i \in 1 .. Len(items(a)) : items(b)[i] = items(a)[i]
        /\ items(a) = <<>> => items(b) = <<>>
    BY <2>1
  <2> QED BY <2>2 DEF items
<1>4. CASE a = Nobody
  <2> DEFINE P == Section(ProjectItems(st), query)
             A == Section(ActionItems, query)
             N == Section(NavItems(b), query)
  <2>1. P \in Seq(PaletteItems) /\ A \in Seq(PaletteItems) /\ N \in Seq(PaletteItems)
    BY ItemsType, SectionType
  <2>2. items(a) = (P \o A \o <<>>) \o <<>> /\ items(b) = (P \o A \o N) \o <<>>
    BY <1>4, NoneIsUnderWay, NothingOfNothing DEF ItemsOf, NavItems
  <2>3. A = <<>> => N = <<>>
    <3>1. CASE query = "all"
      <4>1. {i \in DOMAIN ActionItems : Matches(query, ActionItems[i])} # {}
        <5>1. 1 \in DOMAIN ActionItems
          BY DEF ActionItems
        <5> QED BY <3>1, <5>1 DEF Matches
      <4>2. ActionItems \in Seq(PaletteItems)
        BY ItemsType
      <4>3. Len(A) # 0
        BY <4>1, <4>2, SectionType, FS_EmptySet
      <4> QED BY <4>3
    <3>2. CASE query # "all"
      <4> DEFINE places == {i \in DOMAIN NavItems(b) : Matches(query, NavItems(b)[i])}
      <4>1. query \notin {"workflow", "brainstorm", "settings"}
        BY <3>2, ViewAssumption DEF Queries
      <4>2. \A i \in DOMAIN NavItems(b) : /\ NavItems(b)[i].kind = "nav"
                                          /\ NavItems(b)[i].id \in {"workflow", "brainstorm", "settings"}
        <5>1. CASE b = Nobody
          BY <5>1 DEF NavItems
        <5>2. CASE b # Nobody
          <6>1. NavItems(b) = <<Item("nav", "workflow"), Item("nav", "brainstorm"), Item("nav", "settings")>>
            BY <5>2 DEF NavItems
          <6>2. DOMAIN NavItems(b) = 1 .. 3
            BY <6>1
          <6>3. /\ NavItems(b)[1] = Item("nav", "workflow") /\ NavItems(b)[2] = Item("nav", "brainstorm")
                /\ NavItems(b)[3] = Item("nav", "settings")
            BY <6>1
          <6> QED BY <6>2, <6>3 DEF Item
        <5> QED BY <5>1, <5>2
      <4>3. places = {}
        BY <3>2, <4>1, <4>2 DEF Matches
      <4>4. Len(N) = 0
        <5>1. NavItems(b) \in Seq(PaletteItems)
          BY ItemsType
        <5> QED BY <4>3, <5>1, SectionType, FS_EmptySet
      <4> QED BY <2>1, <4>4, EmptySeq
    <3> QED BY <3>1, <3>2
  <2> HIDE DEF P, A, N, items
  <2>4. /\ Len(P \o A) \in Nat /\ Len(N) \in Nat /\ P \o A \in Seq(PaletteItems)
        /\ Len(P \o A) = Len(P) + Len(A) /\ Len(P) \in Nat /\ Len(A) \in Nat
    BY <2>1, ConcatProperties, LenProperties
  <2>5. items(a) = P \o A /\ items(b) = P \o A \o N
    <3>1. P \o A \o N \in Seq(PaletteItems)
      BY <2>1, <2>4, ConcatProperties
    <3> QED BY <2>2, <2>4, <3>1, ConcatEmptySeq
  <2>6. /\ Len(items(a)) <= Len(items(b))
        /\ \A i \in 1 .. Len(items(a)) : items(b)[i] = items(a)[i]
    <3> DEFINE w == P \o A
    <3> HIDE DEF w
    <3>1. w \in Seq(PaletteItems) /\ N \in Seq(PaletteItems) /\ items(a) = w /\ items(b) = w \o N
      BY <2>1, <2>4, <2>5 DEF w
    <3>2. Len(w \o N) = Len(w) + Len(N) /\ Len(w) \in Nat /\ Len(N) \in Nat
      BY <3>1, ConcatProperties, LenProperties
    <3>3. \A i \in 1 .. Len(w) : (w \o N)[i] = w[i]
      BY <3>1, <3>2, ConcatProperties
    <3> QED BY <3>1, <3>2, <3>3
  <2>7. items(a) = <<>> => items(b) = <<>>
    <3> SUFFICES ASSUME items(a) = <<>> PROVE items(b) = <<>>
      OBVIOUS
    <3>1. Len(P) + Len(A) = 0
      BY <2>4, <2>5
    <3>2. P = <<>> /\ A = <<>>
      BY <2>1, <2>4, <3>1, EmptySeq
    <3> QED BY <2>3, <2>5, <3>2
  <2> QED BY <2>6, <2>7 DEF items
<1> QED BY <1>3, <1>4

LEMMA HighlightedType ==
  ASSUME NEW items \in Seq(PaletteItems), NEW p \in PaletteRecords
  PROVE  Highlighted(p, items) \in PaletteItems \cup {NoItem}
<1>1. p.idx \in DOMAIN items => items[p.idx] \in PaletteItems
  BY LenProperties
<1> QED BY <1>1 DEF Highlighted

LEMMA ClampType ==
  ASSUME NEW p \in PaletteRecords, NEW items \in Seq(PaletteItems)
  PROVE  /\ Clamp(p, items) \in PaletteRecords
         /\ Clamp(p, items).query = p.query /\ Clamp(p, items).open = p.open
         /\ Clamp(p, items).idx <= Len(items) \/ Clamp(p, items).idx = 1
         /\ p.idx <= Len(items) \/ p.idx = 1 => Clamp(p, items) = p
<1>1. Len(items) \in Nat /\ p.idx \in Nat
  BY LenProperties DEF PaletteRecords
<1>2. CASE p.idx > Len(items)
  <2>1. Clamp(p, items) = [p EXCEPT !.idx = 1]
    BY <1>2 DEF Clamp
  <2>2. /\ [p EXCEPT !.idx = 1] \in PaletteRecords
        /\ [p EXCEPT !.idx = 1].idx = 1
        /\ [p EXCEPT !.idx = 1].query = p.query
        /\ [p EXCEPT !.idx = 1].open = p.open
        /\ p.idx = 1 => [p EXCEPT !.idx = 1] = p
    BY DEF PaletteRecords
  <2> QED BY <1>1, <1>2, <2>1, <2>2
<1>3. CASE ~(p.idx > Len(items))
  BY <1>1, <1>3 DEF Clamp
<1> QED BY <1>2, <1>3

LEMMA ClosedType == PaletteClosed \in PaletteRecords /\ PaletteClosed.idx = 1 /\ ~PaletteClosed.open
BY DEF PaletteClosed, PaletteRecords, Queries

LEMMA NoAimType == NoAim \in [item : PaletteItems \cup {NoItem}, moved : BOOLEAN]
BY DEF NoAim

LEMMA ItemsAre == ViewTyped => Items \in Seq(PaletteItems)
BY ItemsType DEF ViewTyped, Items

LEMMA ViewInvInit == ViewInit => ViewInv
<1> SUFFICES ASSUME ViewInit PROVE ViewInv
  OBVIOUS
<1>1. SetToSeq(CardIds) \in Seq(CardIds)
  <2> DEFINE n == Cardinality(CardIds)
  <2>1. n \in Nat /\ ExistsBijection(1 .. n, CardIds)
    BY ViewAssumption, FS_CardinalityType
  <2>2. \E f \in [1 .. n -> CardIds] : IsInjective(f)
    BY <2>1 DEF ExistsBijection, Bijection, Injection
  <2>3. SetToSeq(CardIds) \in [1 .. n -> CardIds]
    BY <2>2 DEF SetToSeq
  <2> HIDE DEF n
  <2> QED BY <2>1, <2>3
<1>2. store \in ViewStores
  <2>1. store \in [mode : StoreModes, list : {<<>>, SetToSeq(CardIds)}, meta : [CardIds -> {Nobody}]]
    BY DEF ViewInit
  <2> QED BY <1>1, <2>1, EmptySeq DEF ViewStores
<1>3. palette = PaletteClosed /\ aim = NoAim /\ ran = NothingRun
  BY DEF ViewInit, Mounted
<1>4. choice \in [active : CardIds \cup {Nobody}, to : ViewPages]
  BY DEF ViewInit, Mounted, ThisPage, ViewPages
<1>5. notice \in [text : 0 .. 2, timers : 0 .. 2] /\ notice.text = 0
  BY DEF ViewInit, Mounted
<1>6. listChanges \in 0 .. MaxListChanges /\ visits \in 0 .. MaxVisits
  BY ViewAssumption DEF ViewInit
<1>7. ViewTyped
  BY <1>2, <1>3, <1>4, <1>5, <1>6, ClosedType, NoAimType DEF ViewTyped
<1>8. AimIsSeen
  BY <1>3, ClosedType DEF AimIsSeen
<1>9. ran.moved \/ ran.item = ran.aim
  BY <1>3 DEF NothingRun
<1> QED BY <1>5, <1>7, <1>8, <1>9 DEF ViewInv

LEMMA ViewInvImplies == ViewInv => ViewTypeOK /\ ViewIsTrue
<1> SUFFICES ASSUME ViewInv PROVE ViewTypeOK /\ ViewIsTrue
  OBVIOUS
<1>1. ViewTypeOK
  BY DEF ViewTypeOK, ViewInv, ViewTyped, ViewStores, PaletteRecords
<1>2. palette.open /\ Items # <<>> => palette.idx \in DOMAIN Items \cup {0}
  <2>1. /\ Items \in Seq(PaletteItems) /\ palette.idx \in Nat
        /\ palette.idx <= Len(Items) \/ palette.idx = 1
    BY ItemsAre DEF ViewInv, ViewTyped, AimIsSeen, PaletteRecords
  <2>2. Len(Items) \in Nat /\ DOMAIN Items = 1 .. Len(Items) /\ (Items # <<>> => Len(Items) # 0)
    BY <2>1, LenProperties, EmptySeq
  <2> QED BY <2>1, <2>2
<1>3. store \in ViewStores
  BY DEF ViewInv, ViewTyped
<1>4. \A p \in ToSet(store.list) : Destination(p).page = "brainstorm"
  <2>1. \A p \in ToSet(store.list) : p \in CardIds
    <3>1. store.list \in Seq(CardIds)
      BY <1>3 DEF ViewStores
    <3> QED BY <3>1, LenProperties, ElementOfSeq DEF ToSet
  <2> QED BY <1>3, <2>1, NoneIsUnderWay DEF Destination
<1>5. RecentItems(store) = <<>>
  BY <1>3, NoneIsUnderWay
<1> QED BY <1>1, <1>2, <1>4, <1>5 DEF ViewInv, ViewIsTrue

\* The items change under the palette.
LEMMA ShiftKeeps ==
  ASSUME ViewInv, store' \in ViewStores, choice' \in [active : CardIds \cup {Nobody}, to : ViewPages],
         ItemsShift(ItemsOf(store', choice'.active, palette.query))
  PROVE  /\ palette' \in PaletteRecords
         /\ aim' \in [item : PaletteItems \cup {NoItem}, moved : BOOLEAN]
         /\ AimIsSeen'
<1> DEFINE items == ItemsOf(store', choice'.active, palette.query)
<1>1. items \in Seq(PaletteItems) /\ Items \in Seq(PaletteItems)
  BY ItemsType, ItemsAre DEF ViewInv
<1>2. palette \in PaletteRecords /\ aim \in [item : PaletteItems \cup {NoItem}, moved : BOOLEAN]
  BY DEF ViewInv, ViewTyped
<1>3. palette' = Clamp(palette, items) /\ aim' = [aim EXCEPT !.moved = palette.open /\ (aim.moved \/ items # Items)]
  BY DEF ItemsShift
<1>4. Items' = items
  <2>1. palette'.query = palette.query
    BY <1>1, <1>2, <1>3, ClampType
  <2> QED BY <2>1 DEF Items
<1> HIDE DEF items
<1>5. palette' \in PaletteRecords /\ palette'.open = palette.open /\ (palette'.idx <= Len(items) \/ palette'.idx = 1)
  BY <1>1, <1>2, <1>3, ClampType
<1>6. palette.open \in BOOLEAN
  BY <1>2 DEF PaletteRecords
<1>7. /\ aim' \in [item : PaletteItems \cup {NoItem}, moved : BOOLEAN]
      /\ aim'.item = aim.item /\ aim'.moved = (palette.open /\ (aim.moved \/ items # Items))
  BY <1>2, <1>3, <1>6
<1>8. ASSUME palette'.open, ~aim'.moved PROVE aim'.item = Highlighted(palette', items)
  <2>1. palette.open /\ ~aim.moved /\ items = Items
    BY <1>5, <1>7, <1>8
  <2>2. palette' = palette
    BY <1>1, <1>2, <1>3, <2>1, ClampType DEF ViewInv, AimIsSeen
  <2> QED BY <1>7, <2>1, <2>2 DEF ViewInv, AimIsSeen
<1> QED BY <1>4, <1>5, <1>7, <1>8 DEF AimIsSeen

\* The user moves in the palette, and sees where.
LEMMA MoveKeeps == ASSUME ViewInv, NEW p \in PaletteRecords, MovesTo(p) PROVE ViewInv'
<1> DEFINE items == ItemsOf(store, choice.active, p.query)
<1>1. items \in Seq(PaletteItems)
  BY ItemsType DEF ViewInv, ViewTyped
<1>2. palette' = Clamp(p, items) /\ aim' = [item |-> Highlighted(palette', items), moved |-> FALSE] /\ ran' = NothingRun
  BY DEF MovesTo
<1>3. UNCHANGED <<store, choice, away, notice, listChanges, visits>>
  BY DEF MovesTo
<1>4. /\ palette' \in PaletteRecords /\ palette'.query = p.query
      /\ palette'.idx <= Len(items) \/ palette'.idx = 1
  BY <1>1, <1>2, ClampType
<1>5. Items' = items
  BY <1>3, <1>4 DEF Items
<1> HIDE DEF items
<1>6. aim' \in [item : PaletteItems \cup {NoItem}, moved : BOOLEAN] /\ aim'.item = Highlighted(palette', items)
  BY <1>1, <1>2, <1>4, HighlightedType
<1>7. ViewTyped'
  BY <1>3, <1>4, <1>6 DEF ViewInv, ViewTyped
<1>8. AimIsSeen'
  BY <1>4, <1>5, <1>6 DEF AimIsSeen
<1>9. ran'.moved \/ ran'.item = ran'.aim
  BY <1>2 DEF NothingRun
<1> QED BY <1>3, <1>7, <1>8, <1>9 DEF ViewInv

LEMMA PaletteKeeps ==
  ASSUME ViewInv, PaletteKey \/ ArrowDown \/ ArrowUp \/ (\E query \in Queries : TypesQuery(query)) \/ (\E i \in 1 .. Len(Items) : Hover(i))
  PROVE  ViewInv'
<1>0. palette \in PaletteRecords /\ Items \in Seq(PaletteItems) /\ Len(Items) \in Nat /\ palette.idx \in Nat
  BY ItemsAre, LenProperties DEF ViewInv, ViewTyped, PaletteRecords
<1>1. CASE PaletteKey
  <2>1. CASE ~palette.open
    <3>1. [PaletteClosed EXCEPT !.open = TRUE] \in PaletteRecords
      BY ClosedType DEF PaletteRecords
    <3> QED BY <1>1, <2>1, <3>1, MoveKeeps DEF PaletteKey
  <2>2. CASE palette.open
    <3>1. palette' = PaletteClosed /\ aim' = NoAim /\ UNCHANGED <<store, choice, away, notice, ran, listChanges, visits>>
      BY <1>1, <2>2 DEF PaletteKey
    <3>2. ViewTyped'
      BY <3>1, ClosedType, NoAimType DEF ViewInv, ViewTyped
    <3>3. AimIsSeen'
      BY <3>1, ClosedType DEF AimIsSeen
    <3> QED BY <3>1, <3>2, <3>3 DEF ViewInv
  <2> QED BY <2>1, <2>2
<1>2. CASE ArrowDown
  <2> DEFINE to == [palette EXCEPT !.idx = IF palette.idx < Len(Items) THEN palette.idx + 1 ELSE Len(Items)]
  <2>1. to \in PaletteRecords
    BY <1>0 DEF PaletteRecords
  <2>2. MovesTo(to)
    BY <1>2 DEF ArrowDown
  <2> HIDE DEF to
  <2> QED BY <2>1, <2>2, MoveKeeps
<1>3. CASE ArrowUp
  <2> DEFINE to == [palette EXCEPT !.idx = IF palette.idx > 1 THEN palette.idx - 1 ELSE 1]
  <2>1. to \in PaletteRecords
    BY <1>0 DEF PaletteRecords
  <2>2. MovesTo(to)
    BY <1>3 DEF ArrowUp
  <2> HIDE DEF to
  <2> QED BY <2>1, <2>2, MoveKeeps
<1>4. ASSUME NEW query \in Queries, TypesQuery(query) PROVE ViewInv'
  <2>1. [palette EXCEPT !.query = query] \in PaletteRecords
    BY <1>0 DEF PaletteRecords
  <2> QED BY <1>4, <2>1, MoveKeeps DEF TypesQuery
<1>5. ASSUME NEW i \in 1 .. Len(Items), Hover(i) PROVE ViewInv'
  <2>1. [palette EXCEPT !.idx = i] \in PaletteRecords
    BY <1>0 DEF PaletteRecords
  <2> QED BY <1>5, <2>1, MoveKeeps DEF Hover
<1> QED BY <1>1, <1>2, <1>3, <1>4, <1>5

LEMMA DestinationType == ASSUME store \in ViewStores, NEW p \in CardIds PROVE Destination(p) \in ViewPages
BY DEF Destination, ViewPages

LEMMA GoesKeeps ==
  ASSUME ViewInv, NEW p \in CardIds, GoToProject(p)
  PROVE  choice' \in [active : CardIds \cup {Nobody}, to : ViewPages] /\ choice'.active = p
<1>1. Destination(p) \in ViewPages
  BY DestinationType DEF ViewInv, ViewTyped
<1> QED BY <1>1 DEF GoToProject

LEMMA EnterKeeps == ASSUME ViewInv, Enter PROVE ViewInv'
<1> DEFINE item == Highlighted(palette, Items)
<1>1. item \in PaletteItems
  BY ItemsAre, HighlightedType DEF ViewInv, ViewTyped, Enter
<1>2. RunsAction(item) /\ palette.open
  BY DEF Enter, EnterRuns
<1>3. /\ ran' = [item |-> item, aim |-> aim.item, moved |-> aim.moved]
      /\ palette' = PaletteClosed /\ aim' = NoAim
      /\ UNCHANGED <<store, away, notice, listChanges>>
      /\ visits' \in 0 .. MaxVisits
  BY ViewAssumption DEF Enter, EnterRuns, Chooses, ViewInv, ViewTyped
<1>4. choice' \in [active : CardIds \cup {Nobody}, to : ViewPages]
  <2>0. choice \in [active : CardIds \cup {Nobody}, to : ViewPages]
    BY DEF ViewInv, ViewTyped
  <2> HIDE DEF item
  <2>1. CASE item.kind \in {"project", "recent"}
    <3>1. item.id \in CardIds
      BY <1>1, <2>1 DEF PaletteItems
    <3>2. /\ item # Item("action", "new-project") /\ item # Item("action", "toggle-theme")
          /\ item.kind # "nav"
      BY <2>1 DEF Item
    <3>3. GoToProject(item.id)
      BY <1>2, <2>1, <3>2 DEF RunsAction
    <3> QED BY <3>1, <3>3, GoesKeeps
  <2>2. CASE item.kind = "action"
    <3>1. item = Item("action", "new-project") \/ item = Item("action", "toggle-theme")
      BY <1>1, <2>2 DEF PaletteItems, Item
    <3>2. CASE item = Item("action", "new-project")
      <4>1. choice' = [choice EXCEPT !.to = [page |-> "wizard", id |-> Nobody]]
        BY <1>2, <3>2 DEF RunsAction, Item
      <4>2. [page |-> "wizard", id |-> Nobody] \in ViewPages
        BY DEF ViewPages
      <4> QED BY <2>0, <4>1, <4>2
    <3>3. CASE item = Item("action", "toggle-theme")
      <4>1. choice' = choice
        BY <1>2, <3>3 DEF RunsAction, Item
      <4> QED BY <2>0, <4>1
    <3> QED BY <3>1, <3>2, <3>3
  <2>3. CASE item.kind = "nav"
    <3>1. choice' = [choice EXCEPT !.to = [page |-> item.id, id |-> choice.active]]
      BY <1>2, <2>3 DEF RunsAction, Item
    <3>2. item.id \in {"workflow", "brainstorm", "settings"}
      BY <1>1, <2>3 DEF PaletteItems
    <3>3. [page |-> item.id, id |-> choice.active] \in ViewPages
      BY <2>0, <3>2 DEF ViewPages
    <3> QED BY <2>0, <3>1, <3>3
  <2>4. item.kind \in {"project", "recent", "action", "nav"}
    BY <1>1 DEF PaletteItems
  <2> QED BY <2>1, <2>2, <2>3, <2>4
<1>5. ran'.moved \/ ran'.item = ran'.aim
  <2>1. aim.moved \/ aim.item = item
    BY <1>2 DEF ViewInv, AimIsSeen
  <2> HIDE DEF item
  <2> QED BY <1>3, <2>1
<1> HIDE DEF item
<1>6. ViewTyped'
  BY <1>3, <1>4, ClosedType, NoAimType DEF ViewInv, ViewTyped
<1>7. AimIsSeen'
  BY <1>3, ClosedType DEF AimIsSeen
<1> QED BY <1>3, <1>5, <1>6, <1>7 DEF ViewInv

LEMMA OpensKeeps == ASSUME ViewInv, NEW p \in CardIds, OpensCard(p) PROVE ViewInv'
<1>1. /\ choice' \in [active : CardIds \cup {Nobody}, to : ViewPages] /\ choice'.active = p
      /\ UNCHANGED <<store, palette, away, notice, aim, ran, listChanges>>
      /\ visits' \in 0 .. MaxVisits
  <2>1. GoToProject(p)
    BY DEF OpensCard
  <2> QED BY <2>1, GoesKeeps, ViewAssumption DEF OpensCard, Chooses, ViewInv, ViewTyped
<1>2. ViewTyped'
  BY <1>1 DEF ViewInv, ViewTyped
<1> DEFINE old == Items
           new == Items'
<1>3. old \in Seq(PaletteItems) /\ new \in Seq(PaletteItems)
  <2>1. new = ItemsOf(store, p, palette.query)
    BY <1>1 DEF Items
  <2> QED BY <2>1, ItemsAre, ItemsType DEF ViewInv, ViewTyped
<1>4. /\ Len(old) <= Len(new)
      /\ \A i \in 1 .. Len(old) : new[i] = old[i]
      /\ old = <<>> => new = <<>>
  <2>1. new = ItemsOf(store, p, palette.query) /\ old = ItemsOf(store, choice.active, palette.query)
    BY <1>1 DEF Items
  <2>2. store \in ViewStores /\ choice.active \in CardIds \cup {Nobody} /\ palette.query \in Queries
    BY DEF ViewInv, ViewTyped, PaletteRecords
  <2> QED BY <2>1, <2>2, ItemsGrow
<1>5. palette.idx \in Nat /\ (palette.idx <= Len(old) \/ palette.idx = 1)
  BY DEF ViewInv, ViewTyped, AimIsSeen, PaletteRecords
<1>6. palette.open => aim.moved \/ aim.item = Highlighted(palette, old)
  BY DEF ViewInv, AimIsSeen
<1>a. palette' = palette /\ aim' = aim
  BY <1>1
<1> HIDE DEF old, new
<1>7. /\ Len(old) \in Nat /\ DOMAIN old = 1 .. Len(old) /\ (old # <<>> => Len(old) # 0)
      /\ Len(new) \in Nat /\ DOMAIN new = 1 .. Len(new)
  BY <1>3, LenProperties, EmptySeq
<1>8. Highlighted(palette, new) = Highlighted(palette, old)
  <2>1. CASE palette.idx = 0
    BY <1>7, <2>1 DEF Highlighted
  <2>2. CASE palette.idx \in 1 .. Len(old)
    <3>1. palette.idx \in DOMAIN old /\ palette.idx \in DOMAIN new
      BY <1>4, <1>7, <2>2
    <3> QED BY <1>4, <2>2, <3>1 DEF Highlighted
  <2>3. CASE palette.idx = 1 /\ palette.idx \notin 1 .. Len(old)
    <3>1. old = <<>>
      BY <1>7, <2>3
    <3> QED BY <1>4, <3>1
  <2> QED BY <1>5, <1>7, <2>1, <2>2, <2>3
<1>9. palette.idx <= Len(new) \/ palette.idx = 1
  BY <1>4, <1>5, <1>7
<1>10. AimIsSeen'
  BY <1>a, <1>6, <1>8, <1>9 DEF AimIsSeen, new
<1> QED BY <1>1, <1>2, <1>10 DEF ViewInv

LEMMA ListMovesKeep ==
  ASSUME ViewInv, AllProjects \/ ResetMock \/ (\E list \in Seq(CardIds) : ListChanges(list))
  PROVE  ViewInv'
<1>0. store \in ViewStores /\ choice \in [active : CardIds \cup {Nobody}, to : ViewPages]
  BY DEF ViewInv, ViewTyped
<1>1. CASE AllProjects
  <2>1. /\ choice' = [choice EXCEPT !.active = Nobody]
        /\ ItemsShift(ItemsOf(store, Nobody, palette.query))
        /\ UNCHANGED <<store, away, notice, ran, listChanges, visits>>
    BY <1>1 DEF AllProjects
  <2>2. choice' \in [active : CardIds \cup {Nobody}, to : ViewPages] /\ choice'.active = Nobody
    BY <1>0, <2>1
  <2>3. ItemsShift(ItemsOf(store', choice'.active, palette.query)) /\ store' \in ViewStores
    BY <1>0, <2>1, <2>2
  <2>4. /\ palette' \in PaletteRecords
        /\ aim' \in [item : PaletteItems \cup {NoItem}, moved : BOOLEAN]
        /\ AimIsSeen'
    BY <2>2, <2>3, ShiftKeeps
  <2>5. ViewTyped'
    BY <2>1, <2>2, <2>3, <2>4 DEF ViewInv, ViewTyped
  <2> QED BY <2>1, <2>4, <2>5 DEF ViewInv
<1>2. CASE ResetMock
  <2>1. /\ store' = [store EXCEPT !.list = IF store.mode = "offline" THEN <<>> ELSE store.list]
        /\ notice' = [text |-> notice.timers + 1, timers |-> notice.timers + 1] /\ notice.timers < 2
        /\ ItemsShift(ItemsOf(store', choice.active, palette.query))
        /\ UNCHANGED <<choice, away, ran, listChanges, visits>>
    BY <1>2 DEF ResetMock
  <2>2. store' \in ViewStores
    <3>1. (IF store.mode = "offline" THEN <<>> ELSE store.list) \in Seq(CardIds)
      BY <1>0, EmptySeq DEF ViewStores
    <3> QED BY <1>0, <2>1, <3>1 DEF ViewStores
  <2>3. notice' \in [text : 0 .. 2, timers : 0 .. 2] /\ (notice'.text # 0 => notice'.timers > 0)
    BY <2>1 DEF ViewInv, ViewTyped
  <2>4. /\ palette' \in PaletteRecords
        /\ aim' \in [item : PaletteItems \cup {NoItem}, moved : BOOLEAN]
        /\ AimIsSeen'
    <3>1. ItemsShift(ItemsOf(store', choice'.active, palette.query)) /\ choice' \in [active : CardIds \cup {Nobody}, to : ViewPages]
      BY <1>0, <2>1
    <3> QED BY <2>2, <3>1, ShiftKeeps
  <2>5. ViewTyped'
    BY <2>1, <2>2, <2>3, <2>4 DEF ViewInv, ViewTyped
  <2> QED BY <2>1, <2>3, <2>4, <2>5 DEF ViewInv
<1>3. ASSUME NEW list \in Seq(CardIds), ListChanges(list) PROVE ViewInv'
  <2>1. /\ store' = [store EXCEPT !.list = list]
        /\ ItemsShift(ItemsOf(store', choice.active, palette.query))
        /\ UNCHANGED <<choice, away, notice, ran, visits>>
        /\ listChanges' \in 0 .. MaxListChanges
    BY <1>3, ViewAssumption DEF ListChanges, ViewInv, ViewTyped
  <2>2. store' \in ViewStores
    BY <1>0, <2>1 DEF ViewStores
  <2>4. /\ palette' \in PaletteRecords
        /\ aim' \in [item : PaletteItems \cup {NoItem}, moved : BOOLEAN]
        /\ AimIsSeen'
    <3>1. ItemsShift(ItemsOf(store', choice'.active, palette.query)) /\ choice' \in [active : CardIds \cup {Nobody}, to : ViewPages]
      BY <1>0, <2>1
    <3> QED BY <2>2, <3>1, ShiftKeeps
  <2>5. ViewTyped'
    BY <2>1, <2>2, <2>4 DEF ViewInv, ViewTyped
  <2> QED BY <2>1, <2>4, <2>5 DEF ViewInv
<1> QED BY <1>1, <1>2, <1>3

LEMMA TurnKeeps == ASSUME ViewInv, ToastTimer \/ Arrives \/ ComesBack PROVE ViewInv'
<1>1. CASE ToastTimer
  <2>1. /\ notice' = [text |-> 0, timers |-> notice.timers - 1] /\ notice.timers > 0
        /\ UNCHANGED <<store, palette, choice, away, aim, ran, listChanges, visits>>
    BY <1>1 DEF ToastTimer, ToastAfter
  <2>2. notice' \in [text : 0 .. 2, timers : 0 .. 2] /\ notice'.text = 0
    BY <2>1 DEF ViewInv, ViewTyped
  <2> QED BY <2>1, <2>2 DEF ViewInv, ViewTyped, AimIsSeen, Items
<1>2. CASE Arrives
  <2>1. palette' = PaletteClosed /\ aim' = NoAim /\ UNCHANGED <<store, choice, notice, ran, listChanges, visits>>
    BY <1>2 DEF Arrives
  <2>2. ViewTyped'
    BY <2>1, ClosedType, NoAimType DEF ViewInv, ViewTyped
  <2>3. AimIsSeen'
    BY <2>1, ClosedType DEF AimIsSeen
  <2> QED BY <2>1, <2>2, <2>3 DEF ViewInv
<1>3. CASE ComesBack
  <2>0. store \in ViewStores
    BY DEF ViewInv, ViewTyped
  <2>1. /\ palette' = PaletteClosed /\ aim' = NoAim /\ choice' = [active |-> Nobody, to |-> ThisPage]
        /\ notice' = [text |-> 0, timers |-> 0] /\ UNCHANGED <<ran, listChanges, visits>>
    BY <1>3 DEF ComesBack
  <2>2. store' \in ViewStores
    <3>1. ASSUME NEW p \in CardIds PROVE MadeByWizard(p) \in ViewStores
      <4>1. store.list \in Seq(CardIds) /\ store.meta \in [CardIds -> {Nobody, "init"}] /\ <<p>> \in Seq(CardIds)
        BY <2>0 DEF ViewStores
      <4>2. Append(store.list, p) \in Seq(CardIds) /\ <<p>> \o store.list \in Seq(CardIds)
        BY <4>1, AppendProperties, ConcatProperties
      <4> DEFINE list == IF store.mode = "daemon" THEN Append(store.list, p) ELSE <<p>> \o store.list
                 meta == [store.meta EXCEPT ![p] = "init"]
      <4>3. list \in Seq(CardIds) /\ meta \in [CardIds -> {Nobody, "init"}]
        BY <4>1, <4>2
      <4>4. MadeByWizard(p) = [store EXCEPT !.meta = meta, !.list = list]
        BY <2>0 DEF MadeByWizard, ViewStores
      <4> HIDE DEF list, meta
      <4> QED BY <2>0, <4>3, <4>4 DEF ViewStores
    <3>2. store' = store \/ \E p \in CardIds : store' = MadeByWizard(p)
      BY <1>3 DEF ComesBack
    <3> QED BY <2>0, <3>1, <3>2
  <2>3. choice' \in [active : CardIds \cup {Nobody}, to : ViewPages] /\ notice' \in [text : 0 .. 2, timers : 0 .. 2] /\ notice'.text = 0
    BY <2>1 DEF ThisPage, ViewPages
  <2>4. ViewTyped'
    BY <2>1, <2>2, <2>3, ClosedType, NoAimType DEF ViewInv, ViewTyped
  <2>5. AimIsSeen'
    BY <2>1, ClosedType DEF AimIsSeen
  <2> QED BY <2>1, <2>3, <2>4, <2>5 DEF ViewInv
<1> QED BY <1>1, <1>2, <1>3

LEMMA ViewInvStep == ViewInv /\ [ViewNext]_viewVars => ViewInv'
<1> SUFFICES ASSUME ViewInv, [ViewNext]_viewVars PROVE ViewInv'
  OBVIOUS
<1>1. CASE UNCHANGED viewVars
  BY <1>1 DEF viewVars, ViewInv, ViewTyped, AimIsSeen, Items
<1>2. CASE ViewNext
  <2>0. store.list \in Seq(CardIds)
    BY DEF ViewInv, ViewTyped, ViewStores
  <2>1. ASSUME NEW i \in DOMAIN store.list PROVE RemoveAt(store.list, i) \in Seq(CardIds)
    <3>1. i \in 1 .. Len(store.list) /\ Len(store.list) \in Nat
      BY <2>0, LenProperties
    <3>2. SubSeq(store.list, 1, i - 1) \in Seq(CardIds) /\ SubSeq(store.list, i + 1, Len(store.list)) \in Seq(CardIds)
      BY <2>0, <3>1, SubSeqProperties, ElementOfSeq
    <3> QED BY <3>2, ConcatProperties DEF RemoveAt
  <2>2. ASSUME NEW p \in CardIds PROVE Append(store.list, p) \in Seq(CardIds)
    BY <2>0, AppendProperties
  <2> QED BY <1>2, <2>1, <2>2, PaletteKeeps, EnterKeeps, OpensKeeps, ListMovesKeep, TurnKeeps DEF ViewNext
<1> QED BY <1>1, <1>2

\* However the list changes under the palette: what Enter runs is what was seen, unless it has
\* changed, an item is highlighted, and no toast stays (ProjectsPage.tsx).
THEOREM ViewIsTrueHolds == ViewSpec => [](ViewTypeOK /\ ViewIsTrue)
<1> QED BY ViewInvInit, ViewInvStep, ViewInvImplies, PTL DEF ViewSpec

-----------------------------------------------------------------------------
(* The page that makes a project                                           *)

\* Each step that was left behind is valid, in a draft that is shown or kept.
Passed(d) ==
  /\ d.step > 1 => d.folder = "absolute"
  /\ d.step > 2 => d.provider # None
  /\ d.step > 4 => d.delay # "custom0"
  /\ d.step > 5 => d.name = "valid"

Tries == [visit : 1 .. WizActs, of : Drafts, phase : {"credential", "project"}]

\* An attempt is of a visit there was, one at a time; each try is under way, over or has made one.
TriesAreCounted ==
  /\ IsFiniteSet(attempts) /\ madeBy \in Seq(1 .. WizActs)
  /\ Len(madeBy) + Cardinality(attempts) <= tries
  /\ page \in {"wizard", "created"} => visit >= 1
  /\ \A a \in attempts : a.visit <= visit
  /\ \A a, b \in attempts : a.visit = b.visit => a = b

\* Unless an answer was lost, the visit of a project is over, or its page shows what was made.
MadeAreOver ==
  answerLost \/ /\ \A i \in DOMAIN madeBy :
                     /\ madeBy[i] <= visit
                     /\ madeBy[i] = visit => page # "wizard"
                     /\ \A a \in attempts : a.visit # madeBy[i]
                /\ \A i, j \in DOMAIN madeBy : i # j => madeBy[i] # madeBy[j]

WizInv ==
  /\ WizTypeOK /\ TriesAreCounted /\ MadeAreOver
  /\ Passed(draft) /\ (saved # NoDraft => Passed(saved))
  /\ OnlyCompleteIsSent /\ DraftIsKept
  /\ page = "created" => outlived \/ saved = NoDraft \/ draft.step # 1

LEMMA DefaultIsADraft == DefaultDraft \in Drafts /\ DefaultDraft.step = 1 /\ Passed(DefaultDraft)
BY WizardAssumption DEF DefaultDraft, Drafts, Passed

LEMMA NoDraftIsNone == \A d \in Drafts : d # NoDraft /\ d.step # 0
<1> SUFFICES ASSUME NEW d \in Drafts PROVE d # NoDraft /\ d.step # 0
  OBVIOUS
<1>1. d.step \in 1 .. 6
  BY DEF Drafts
<1>2. NoDraft.step = 0
  BY DEF NoDraft
<1>3. d.step # 0
  BY <1>1
<1> QED BY <1>2, <1>3

\* One field of a draft is written.
LEMMA EditedFolder == ASSUME NEW d \in Drafts, NEW f \in {"", "absolute"}
                      PROVE  LET e == [d EXCEPT !.folder = f] IN
                             e \in Drafts /\ e.step = d.step /\ e.folder = f /\ e.provider = d.provider
                             /\ e.delay = d.delay /\ e.name = d.name
BY DEF Drafts
LEMMA EditedProvider == ASSUME NEW d \in Drafts, NEW f \in Providers
                        PROVE  LET e == [d EXCEPT !.provider = f] IN
                               e \in Drafts /\ e.step = d.step /\ e.folder = d.folder /\ e.provider = f
                               /\ e.delay = d.delay /\ e.name = d.name
BY DEF Drafts
LEMMA EditedDelay == ASSUME NEW d \in Drafts, NEW f \in {"10m", "custom0"}
                     PROVE  LET e == [d EXCEPT !.delay = f] IN
                            e \in Drafts /\ e.step = d.step /\ e.folder = d.folder /\ e.provider = d.provider
                            /\ e.delay = f /\ e.name = d.name
BY DEF Drafts
LEMMA EditedName == ASSUME NEW d \in Drafts, NEW f \in {"", "valid"}
                    PROVE  LET e == [d EXCEPT !.name = f] IN
                           e \in Drafts /\ e.step = d.step /\ e.folder = d.folder /\ e.provider = d.provider
                           /\ e.delay = d.delay /\ e.name = f
BY DEF Drafts
LEMMA EditedStep == ASSUME NEW d \in Drafts, NEW f \in 1 .. 6
                    PROVE  LET e == [d EXCEPT !.step = f] IN
                           e \in Drafts /\ e.step = f /\ e.folder = d.folder /\ e.provider = d.provider
                           /\ e.delay = d.delay /\ e.name = d.name
BY DEF Drafts

LEMMA WizInvInit == WizInit => WizInv
<1> SUFFICES ASSUME WizInit PROVE WizInv
  OBVIOUS
<1> USE DEF WizInit
<1>1. DefaultDraft \in Drafts /\ Passed(DefaultDraft) /\ WizActs \in Nat
  BY DefaultIsADraft, WizardAssumption
<1>2. IsFiniteSet({}) /\ Cardinality({}) = 0
  BY FS_EmptySet
<1>3. <<>> \in Seq(1 .. WizActs) /\ Len(<<>>) = 0
  OBVIOUS
<1>4. WizTypeOK
  <2>1. /\ draft \in Drafts /\ saved \in Drafts \cup {NoDraft} /\ keys \subseteq ApiProviders /\ ready \subseteq CliAgents
        /\ modal \in {None, "credential", "cancel"} /\ page \in {"wizard", "created", "away"}
    BY <1>1
  <2>2. visit \in 0 .. WizActs /\ tries \in 0 .. WizActs /\ Len(madeBy) <= tries
    BY <1>1
  <2>3. attempts \subseteq [visit : 1 .. WizActs, of : Drafts, phase : {"credential", "project"}]
    OBVIOUS
  <2>4. profiles \subseteq Providers \cup {"default"} /\ answerLost \in BOOLEAN /\ outlived \in BOOLEAN
    OBVIOUS
  <2> QED BY <2>1, <2>2, <2>3, <2>4, Zenon DEF WizTypeOK
<1>5. TriesAreCounted
  BY <1>2, <1>3 DEF TriesAreCounted
<1>6. MadeAreOver
  BY DEF MadeAreOver
<1>7. OnlyCompleteIsSent /\ DraftIsKept
  BY DEF OnlyCompleteIsSent, DraftIsKept
<1> QED BY <1>1, <1>4, <1>5, <1>6, <1>7 DEF WizInv

LEMMA WizInvImplies == WizInv => WizTypeOK /\ WizardKeepsItsWord
BY DEF WizInv, WizardKeepsItsWord, MadeAreOver, OncePerPass

\* A step writes what it shows, on the page of a visit, and no attempt is touched.
LEMMA WriteKeeps ==
  ASSUME WizInv, NEW d \in Drafts, Passed(d), WritesDraft(d), Stay, page = "wizard" \/ d.step # 1
  PROVE  WizInv'
<1> USE DEF Stay, visitVars, tryVars, madeVars, WritesDraft
<1>1. WizTypeOK'
  BY DEF WizInv, WizTypeOK
<1>2. TriesAreCounted' /\ MadeAreOver' /\ OnlyCompleteIsSent'
  BY DEF WizInv, TriesAreCounted, MadeAreOver, OnlyCompleteIsSent
<1>3. DraftIsKept' /\ Passed(draft') /\ Passed(saved')
  BY DEF DraftIsKept
<1>4. page' = "created" => outlived' \/ saved' = NoDraft \/ draft'.step # 1
  OBVIOUS
<1> QED BY <1>1, <1>2, <1>3, <1>4 DEF WizInv, Passed

LEMMA OpensKeepsDraft == ASSUME WizInv, NEW clis \in SUBSET CliAgents, Opens(clis) PROVE WizInv'
<1> DEFINE d == IF saved = NoDraft THEN DefaultDraft ELSE saved
<1>1. d \in Drafts /\ Passed(d)
  BY DefaultIsADraft DEF WizInv, WizTypeOK
<1>2. /\ draft' = d /\ saved' = d /\ visit' = visit + 1 /\ page' = "wizard" /\ modal' = None /\ ready' = clis
      /\ visit + tries < WizActs /\ page = "away"
      /\ UNCHANGED <<keys, attempts, tries, profiles, madeBy, answerLost, outlived>>
  BY DEF Opens, WritesDraft, tryVars, madeVars
<1> HIDE DEF d
<1>3. visit \in Nat /\ tries \in Nat /\ WizActs \in Nat
  BY WizardAssumption DEF WizInv, WizTypeOK
<1>4. WizTypeOK'
  BY <1>1, <1>2, <1>3 DEF WizInv, WizTypeOK
<1>5. TriesAreCounted'
  <2>1. \A a \in attempts : a.visit <= visit /\ a.visit \in Nat
    BY DEF WizInv, WizTypeOK, TriesAreCounted
  <2>2. \A a \in attempts' : a.visit <= visit'
    BY <1>2, <1>3, <2>1
  <2> QED BY <1>2, <1>3, <2>2 DEF WizInv, TriesAreCounted
<1>6. MadeAreOver'
  <2> SUFFICES ASSUME ~answerLost PROVE MadeAreOver'
    BY <1>2 DEF MadeAreOver
  <2>1. ASSUME NEW i \in DOMAIN madeBy PROVE madeBy[i] <= visit' /\ madeBy[i] # visit'
    <3>1. madeBy[i] <= visit /\ madeBy[i] \in Nat
      <4>1. madeBy \in Seq(1 .. WizActs) /\ madeBy[i] <= visit
        BY DEF WizInv, MadeAreOver, TriesAreCounted
      <4>2. madeBy[i] \in 1 .. WizActs
        BY <4>1, LenProperties, ElementOfSeq
      <4> QED BY <4>1, <4>2
    <3> QED BY <1>2, <1>3, <3>1
  <2> QED BY <1>2, <2>1 DEF WizInv, MadeAreOver
<1>7. OnlyCompleteIsSent' /\ DraftIsKept'
  BY <1>2 DEF WizInv, OnlyCompleteIsSent, DraftIsKept
<1> QED BY <1>1, <1>2, <1>4, <1>5, <1>6, <1>7 DEF WizInv

\* What is edited on a step is not behind it.
LEMMA FirstPassed == ASSUME NEW d, NEW e, d.step = 1, e.step = d.step PROVE Passed(e)
BY DEF Passed

LEMMA FifthPassed ==
  ASSUME NEW d, NEW e, Passed(d), d.step = 5, e.step = d.step, e.folder = d.folder, e.provider = d.provider,
         e.delay = d.delay
  PROVE  Passed(e)
BY DEF Passed

LEMMA EditsKeep == ASSUME WizInv, Edits PROVE WizInv'
<1>0. draft \in Drafts /\ Passed(draft) /\ page = "wizard"
  BY DEF WizInv, WizTypeOK, Edits
<1>1. ASSUME draft.step = 1, NEW f \in {"", "absolute"}, Step1(f) PROVE WizInv'
  <2> DEFINE e == [draft EXCEPT !.folder = f]
  <2>0. /\ e \in Drafts /\ e.step = draft.step /\ e.folder = f /\ e.provider = draft.provider
        /\ e.delay = draft.delay /\ e.name = draft.name
    BY <1>0, <1>1, EditedFolder, WizardAssumption
  <2>1. e \in Drafts /\ Passed(e)
    <3> HIDE DEF e
    <3> QED BY <1>0, <1>1, <2>0, FirstPassed
  <2> QED BY <1>0, <1>1, <2>1, WriteKeeps DEF Step1
<1>2. ASSUME draft.step = 2, NEW p \in Providers, Step2(p) PROVE WizInv'
  <2> DEFINE e == [draft EXCEPT !.provider = p]
  <2>0. /\ e \in Drafts /\ e.step = draft.step /\ e.folder = draft.folder /\ e.provider = p
        /\ e.delay = draft.delay /\ e.name = draft.name
    BY <1>0, <1>2, EditedProvider, WizardAssumption
  <2>1. e \in Drafts /\ Passed(e)
    <3> HIDE DEF e
    <3> QED BY <1>0, <1>2, <2>0, WizardAssumption DEF Passed
  <2> QED BY <1>0, <1>2, <2>1, WriteKeeps DEF Step2
<1>3. ASSUME draft.step = 3, NEW l \in Levels, Step3(l) PROVE WizInv'
  <2>1. [draft EXCEPT !.level = l] \in Drafts /\ Passed([draft EXCEPT !.level = l])
    BY <1>0, <1>3 DEF Drafts, Passed
  <2> QED BY <1>0, <1>3, <2>1, WriteKeeps DEF Step3
<1>4. ASSUME draft.step = 4, NEW d \in {"10m", "custom0"}, Step4(d) PROVE WizInv'
  <2> DEFINE e == [draft EXCEPT !.delay = d]
  <2>0. /\ e \in Drafts /\ e.step = draft.step /\ e.folder = draft.folder /\ e.provider = draft.provider
        /\ e.delay = d /\ e.name = draft.name
    BY <1>0, <1>4, EditedDelay, WizardAssumption
  <2>1. e \in Drafts /\ Passed(e)
    <3> HIDE DEF e
    <3> QED BY <1>0, <1>4, <2>0, WizardAssumption DEF Passed
  <2> QED BY <1>0, <1>4, <2>1, WriteKeeps DEF Step4
<1>5. ASSUME draft.step = 5, NEW n \in {"", "valid"}, Step5(n) PROVE WizInv'
  <2> DEFINE e == [draft EXCEPT !.name = n]
  <2>0. /\ e \in Drafts /\ e.step = draft.step /\ e.folder = draft.folder /\ e.provider = draft.provider
        /\ e.delay = draft.delay /\ e.name = n
    BY <1>0, <1>5, EditedName, WizardAssumption
  <2>1. e \in Drafts /\ Passed(e)
    <3> HIDE DEF e
    <3> QED BY <1>0, <1>5, <2>0, FifthPassed
  <2> QED BY <1>0, <1>5, <2>1, WriteKeeps DEF Step5
<1> QED BY <1>1, <1>2, <1>3, <1>4, <1>5 DEF Edits

LEMMA GoesToKeeps == ASSUME WizInv, GoNext \/ \E s \in 1 .. 6 : GoTo(s) PROVE WizInv'
<1>0. draft \in Drafts /\ Passed(draft) /\ draft.step \in 1 .. 6
  BY DEF WizInv, WizTypeOK, Drafts
<1>1. CASE GoNext
  <2> DEFINE d == [draft EXCEPT !.step = draft.step + 1]
  <2>1. /\ draft.step < 6 /\ Validity(draft.step) /\ WritesDraft(d) /\ Stay
    BY <1>1 DEF GoNext
  <2>2. draft.step = 2 => draft.provider # None
    <3>1. draft.step = 2 => draft.provider \in keys \cup ready
      BY <2>1 DEF Validity, ProviderIsValid
    <3>2. keys \subseteq Providers /\ ready \subseteq Providers
      BY DEF WizInv, WizTypeOK, Providers
    <3> QED BY <3>1, <3>2, WizardAssumption
  <2>3. /\ draft.step = 1 => draft.folder = "absolute"
        /\ draft.step = 4 => draft.delay # "custom0"
        /\ draft.step = 5 => draft.name = "valid"
    BY <2>1 DEF Validity
  <2>4. /\ d \in Drafts /\ d.step = draft.step + 1 /\ d.folder = draft.folder /\ d.provider = draft.provider
        /\ d.delay = draft.delay /\ d.name = draft.name
    <3>1. draft.step + 1 \in 1 .. 6
      BY <1>0, <2>1
    <3> QED BY <1>0, <3>1, EditedStep
  <2> HIDE DEF d
  <2>5. Passed(d)
    BY <1>0, <2>2, <2>3, <2>4 DEF Passed
  <2>6. d.step # 1
    BY <1>0, <2>4
  <2> QED BY <2>1, <2>4, <2>5, <2>6, WriteKeeps
<1>2. ASSUME NEW s \in 1 .. 6, GoTo(s) PROVE WizInv'
  <2> DEFINE d == [draft EXCEPT !.step = s]
  <2>1. s < draft.step /\ WritesDraft(d) /\ Stay /\ page = "wizard"
    BY <1>2 DEF GoTo, JumpsTo
  <2>0. /\ d \in Drafts /\ d.step = s /\ d.folder = draft.folder /\ d.provider = draft.provider
        /\ d.delay = draft.delay /\ d.name = draft.name
    BY <1>0, EditedStep
  <2>2. d \in Drafts /\ Passed(d)
    <3> HIDE DEF d
    <3> QED BY <1>0, <2>0, <2>1 DEF Passed
  <2> HIDE DEF d
  <2> QED BY <2>1, <2>2, WriteKeeps
<1> QED BY <1>1, <1>2

\* Whatever else the page does: no draft, no attempt and no project changes.
LEMMA ModalKeeps ==
  ASSUME WizInv, \/ OpensCredential \/ Escape \/ ConfirmsCancel \/ LeavesWizard
                 \/ \E p \in ApiProviders, has \in BOOLEAN : SavesKey(p, has)
  PROVE  WizInv'
<1>1. /\ UNCHANGED <<draft, saved, ready, visit, tryVars, madeVars>>
      /\ page' = page \/ page' = "away"
  BY DEF OpensCredential, Escape, ConfirmsCancel, LeavesWizard, SavesKey, formVars, visitVars
<1>2. modal' \in {None, "credential", "cancel"} /\ keys' \subseteq ApiProviders
  <2>1. modal \in {None, "credential", "cancel"} /\ keys \subseteq ApiProviders
    BY DEF WizInv, WizTypeOK
  <2> QED BY <2>1 DEF OpensCredential, Escape, ConfirmsCancel, LeavesWizard, SavesKey, formVars
<1> USE <1>1 DEF tryVars, madeVars
<1>3. WizTypeOK'
  BY <1>2 DEF WizInv, WizTypeOK
<1>4. TriesAreCounted' /\ MadeAreOver' /\ OnlyCompleteIsSent' /\ DraftIsKept'
  BY DEF WizInv, TriesAreCounted, MadeAreOver, OnlyCompleteIsSent, DraftIsKept
<1>5. Passed(draft') /\ (saved' # NoDraft => Passed(saved'))
  BY DEF WizInv
<1>6. page' = "created" => outlived' \/ saved' = NoDraft \/ draft'.step # 1
  BY DEF WizInv
<1> QED BY <1>3, <1>4, <1>5, <1>6 DEF WizInv, Passed

LEMMA AgainKeeps == ASSUME WizInv, Again PROVE WizInv'
<1>1. /\ page = "created" /\ visit + tries < WizActs /\ visit' = visit + 1 /\ page' = "wizard" /\ draft' = DefaultDraft
      /\ saved' = IF draft.step = 1 THEN saved ELSE DefaultDraft
      /\ UNCHANGED <<keys, ready, modal, attempts, tries, profiles, madeBy, answerLost, outlived>>
  BY DEF Again, tryVars, madeVars
<1>2. DefaultDraft \in Drafts /\ Passed(DefaultDraft)
  BY DefaultIsADraft
<1>3. visit \in Nat /\ tries \in Nat /\ WizActs \in Nat
  BY WizardAssumption DEF WizInv, WizTypeOK
<1>4. WizTypeOK'
  BY <1>1, <1>2, <1>3 DEF WizInv, WizTypeOK
<1>5. TriesAreCounted'
  <2>1. \A a \in attempts : a.visit <= visit /\ a.visit \in Nat
    BY DEF WizInv, WizTypeOK, TriesAreCounted
  <2>2. \A a \in attempts' : a.visit <= visit'
    BY <1>1, <1>3, <2>1
  <2> QED BY <1>1, <1>3, <2>2 DEF WizInv, TriesAreCounted
<1>6. MadeAreOver'
  <2> SUFFICES ASSUME ~answerLost PROVE MadeAreOver'
    BY <1>1 DEF MadeAreOver
  <2>1. ASSUME NEW i \in DOMAIN madeBy PROVE madeBy[i] <= visit' /\ madeBy[i] # visit'
    <3>1. madeBy[i] <= visit /\ madeBy[i] \in Nat
      <4>1. madeBy \in Seq(1 .. WizActs) /\ madeBy[i] <= visit
        BY DEF WizInv, MadeAreOver, TriesAreCounted
      <4>2. madeBy[i] \in 1 .. WizActs
        BY <4>1, LenProperties, ElementOfSeq
      <4> QED BY <4>1, <4>2
    <3> QED BY <1>1, <1>3, <3>1
  <2> QED BY <1>1, <2>1 DEF WizInv, MadeAreOver
<1>7. OnlyCompleteIsSent'
  BY <1>1 DEF WizInv, OnlyCompleteIsSent
<1>8. DraftIsKept'
  <2>1. draft.step = 1 => outlived \/ saved = NoDraft
    BY <1>1 DEF WizInv
  <2> QED BY <1>1, <2>1 DEF DraftIsKept
<1>9. Passed(draft') /\ (saved' # NoDraft => Passed(saved'))
  BY <1>1, <1>2 DEF WizInv
<1> QED BY <1>1, <1>4, <1>5, <1>6, <1>7, <1>8, <1>9 DEF WizInv

LEMMA FinalizeKeeps == ASSUME WizInv, Finalize PROVE WizInv'
<1> DEFINE a0 == [visit |-> visit, of |-> draft,
                  phase |-> IF draft.provider \in keys \cup {"claude-code"} THEN "credential" ELSE "project"]
<1>1. /\ page = "wizard" /\ draft.step = 6 /\ ~Creating /\ visit + tries < WizActs /\ tries' = tries + 1
      /\ attempts' = attempts \cup {a0}
      /\ UNCHANGED <<profiles, draft, saved, keys, ready, modal, page, visit, madeBy, answerLost, outlived>>
  BY DEF Finalize, MayCreate, formVars, visitVars, madeVars
<1>2. visit \in Nat /\ tries \in Nat /\ WizActs \in Nat /\ visit >= 1 /\ draft \in Drafts /\ Passed(draft)
  BY <1>1, WizardAssumption DEF WizInv, WizTypeOK, TriesAreCounted
<1>3. a0 \in Tries /\ a0.visit = visit /\ a0.of = draft
  BY <1>1, <1>2 DEF Tries
<1> HIDE DEF a0
<1>4. WizTypeOK'
  <2>1. attempts' \subseteq Tries
    BY <1>1, <1>3 DEF WizInv, WizTypeOK, Tries
  <2>2. tries' \in 0 .. WizActs /\ Len(madeBy') <= tries'
    <3>1. Len(madeBy) \in Nat
      BY LenProperties DEF WizInv, TriesAreCounted
    <3> QED BY <1>1, <1>2, <3>1 DEF WizInv, WizTypeOK
  <2> QED BY <1>1, <2>1, <2>2 DEF WizInv, WizTypeOK, Tries
<1>5. TriesAreCounted'
  <2>1. IsFiniteSet(attempts) /\ Cardinality(attempts) \in Nat /\ Len(madeBy) \in Nat
    BY FS_CardinalityType, LenProperties DEF WizInv, TriesAreCounted
  <2>2. IsFiniteSet(attempts') /\ Cardinality(attempts') <= Cardinality(attempts) + 1 /\ Cardinality(attempts') \in Nat
    <3>1. IsFiniteSet(attempts') /\ Cardinality(attempts') = IF a0 \in attempts THEN Cardinality(attempts) ELSE Cardinality(attempts) + 1
      BY <1>1, <2>1, FS_AddElement
    <3> QED BY <2>1, <3>1
  <2>3. Len(madeBy') + Cardinality(attempts') <= tries'
    BY <1>1, <1>2, <2>1, <2>2 DEF WizInv, TriesAreCounted
  <2>4. \A a \in attempts' : a.visit <= visit'
    BY <1>1, <1>2, <1>3 DEF WizInv, TriesAreCounted
  <2>5. \A a, b \in attempts' : a.visit = b.visit => a = b
    BY <1>1, <1>3 DEF WizInv, TriesAreCounted, Creating
  <2> QED BY <1>1, <2>2, <2>3, <2>4, <2>5 DEF WizInv, TriesAreCounted
<1>6. MadeAreOver'
  BY <1>1, <1>3 DEF WizInv, MadeAreOver
<1>7. OnlyCompleteIsSent'
  <2>1. draft.folder = "absolute" /\ draft.name = "valid" /\ draft.provider # None /\ draft.delay # "custom0"
    BY <1>1, <1>2 DEF Passed
  <2> QED BY <1>1, <1>3, <2>1 DEF WizInv, OnlyCompleteIsSent
<1>8. DraftIsKept' /\ Passed(draft') /\ (saved' # NoDraft => Passed(saved'))
  BY <1>1 DEF WizInv, DraftIsKept
<1> QED BY <1>1, <1>4, <1>5, <1>6, <1>7, <1>8 DEF WizInv

\* An attempt that ends is one less.
LEMMA OneTryLess ==
  ASSUME WizInv, NEW a \in attempts
  PROVE  /\ IsFiniteSet(attempts \ {a}) /\ Cardinality(attempts \ {a}) \in Nat /\ Len(madeBy) \in Nat
         /\ Cardinality(attempts) = Cardinality(attempts \ {a}) + 1
         /\ a \in Tries /\ a.visit \in 1 .. WizActs /\ a.of \in Drafts
         /\ Len(madeBy) + Cardinality(attempts \ {a}) + 1 <= tries /\ tries \in Nat
<1>1. IsFiniteSet(attempts) /\ Cardinality(attempts) \in Nat /\ Len(madeBy) \in Nat
  BY FS_CardinalityType, LenProperties DEF WizInv, TriesAreCounted
<1>2. IsFiniteSet(attempts \ {a}) /\ Cardinality(attempts \ {a}) = Cardinality(attempts) - 1
  BY <1>1, FS_RemoveElement
<1>3. Cardinality(attempts \ {a}) \in Nat
  BY <1>2, FS_CardinalityType
<1>4. a \in Tries
  BY DEF WizInv, WizTypeOK, Tries
<1>5. Len(madeBy) + Cardinality(attempts) <= tries /\ tries \in Nat
  BY DEF WizInv, TriesAreCounted, WizTypeOK
<1> QED BY <1>1, <1>2, <1>3, <1>4, <1>5 DEF Tries

LEMMA CredentialKeeps == ASSUME WizInv, NEW a \in attempts, NEW answered \in BOOLEAN, UpsertsCredential(a, answered) PROVE WizInv'
<1> DEFINE next == [a EXCEPT !.phase = "project"]
<1>1. /\ profiles' = profiles \cup {ProfileOf(a.of.provider)}
      /\ attempts' = (attempts \ {a}) \cup (IF answered THEN {next} ELSE {})
      /\ answerLost' = (answerLost \/ ~answered)
      /\ UNCHANGED <<tries, madeBy, outlived, draft, saved, keys, ready, modal, page, visit>>
  BY DEF UpsertsCredential, formVars, visitVars
<1>2. a \in Tries /\ next \in Tries /\ next.visit = a.visit /\ next.of = a.of
  <2>1. a \in Tries
    BY OneTryLess
  <2> QED BY <2>1 DEF Tries
<1>3. profiles' \subseteq Providers \cup {"default"}
  <2>1. a.of \in Drafts /\ a.of.provider \in Providers \cup {None} /\ a.of.provider # None
    BY <1>2 DEF Tries, Drafts, WizInv, OnlyCompleteIsSent
  <2>2. ProfileOf(a.of.provider) \in Providers \cup {"default"}
    BY <2>1 DEF ProfileOf
  <2> QED BY <1>1, <2>2 DEF WizInv, WizTypeOK
<1> HIDE DEF next
<1>4. WizTypeOK'
  BY <1>1, <1>2, <1>3 DEF WizInv, WizTypeOK, Tries
<1>5. TriesAreCounted'
  <2>1. IsFiniteSet(attempts') /\ Cardinality(attempts') <= Cardinality(attempts \ {a}) + 1 /\ Cardinality(attempts') \in Nat
    <3>1. CASE answered
      <4>1. attempts' = (attempts \ {a}) \cup {next}
        BY <1>1, <3>1
      <4>2. /\ IsFiniteSet(attempts')
            /\ Cardinality(attempts') = IF next \in attempts \ {a} THEN Cardinality(attempts \ {a}) ELSE Cardinality(attempts \ {a}) + 1
        BY <4>1, OneTryLess, FS_AddElement
      <4>3. Cardinality(attempts \ {a}) \in Nat
        BY OneTryLess
      <4> QED BY <4>2, <4>3
    <3>2. CASE ~answered
      BY <1>1, <3>2, OneTryLess
    <3> QED BY <3>1, <3>2
  <2>2. Len(madeBy') + Cardinality(attempts') <= tries'
    <3>1. /\ Len(madeBy) \in Nat /\ tries \in Nat /\ Cardinality(attempts \ {a}) \in Nat
          /\ Len(madeBy) + Cardinality(attempts \ {a}) + 1 <= tries
      BY OneTryLess
    <3>2. madeBy' = madeBy /\ tries' = tries
      BY <1>1
    <3> HIDE DEF next
    <3> QED BY <2>1, <3>1, <3>2
  <2>3. \A b \in attempts' : b \in attempts \ {a} \/ b = next
    BY <1>1
  <2>4. \A b \in attempts : b.visit = a.visit => b = a
    BY DEF WizInv, TriesAreCounted
  <2>5. \A b, c \in attempts' : b.visit = c.visit => b = c
    BY <1>2, <2>3, <2>4 DEF WizInv, TriesAreCounted
  <2>6. \A b \in attempts' : b.visit <= visit'
    BY <1>1, <1>2, <2>3 DEF WizInv, TriesAreCounted
  <2> QED BY <1>1, <2>1, <2>2, <2>5, <2>6 DEF WizInv, TriesAreCounted
<1>6. MadeAreOver'
  BY <1>1, <1>2 DEF WizInv, MadeAreOver
<1>7. OnlyCompleteIsSent'
  BY <1>1, <1>2 DEF WizInv, OnlyCompleteIsSent
<1>8. DraftIsKept' /\ Passed(draft') /\ (saved' # NoDraft => Passed(saved'))
  BY <1>1 DEF WizInv, DraftIsKept
<1> QED BY <1>1, <1>4, <1>5, <1>6, <1>7, <1>8 DEF WizInv

LEMMA AttemptEndsKeeps == ASSUME WizInv, NEW a \in attempts, AttemptFails(a) PROVE WizInv'
<1>1. /\ attempts' = attempts \ {a}
      /\ UNCHANGED <<tries, profiles, draft, saved, keys, ready, modal, page, visit, madeBy, answerLost, outlived>>
  BY DEF AttemptFails, formVars, visitVars, madeVars
<1>2. WizTypeOK'
  BY <1>1 DEF WizInv, WizTypeOK
<1>3. TriesAreCounted'
  <2>1. Len(madeBy') + Cardinality(attempts') <= tries' /\ IsFiniteSet(attempts')
    BY <1>1, OneTryLess
  <2> QED BY <1>1, <2>1 DEF WizInv, TriesAreCounted
<1>4. MadeAreOver' /\ OnlyCompleteIsSent' /\ DraftIsKept'
  BY <1>1 DEF WizInv, MadeAreOver, OnlyCompleteIsSent, DraftIsKept
<1>5. Passed(draft') /\ (saved' # NoDraft => Passed(saved'))
  BY <1>1 DEF WizInv
<1> QED BY <1>1, <1>2, <1>3, <1>4, <1>5 DEF WizInv

LEMMA CreatesKeepWord == ASSUME WizInv, NEW a \in attempts, NEW answered \in BOOLEAN, CreatesProject(a, answered) PROVE WizInv'
<1>1. /\ madeBy' = Append(madeBy, a.visit) /\ attempts' = attempts \ {a}
      /\ answerLost' = (answerLost \/ ~answered)
      /\ saved' = IF answered THEN NoDraft ELSE saved
      /\ page' = IF answered /\ a.visit = visit /\ page = "wizard" THEN "created" ELSE page
      /\ outlived' = (outlived \/ a.visit # visit \/ page = "away")
      /\ UNCHANGED <<draft, keys, ready, modal, visit, tries, profiles>>
  BY DEF CreatesProject
<1> DEFINE n == Len(madeBy)
<1>2. /\ madeBy \in Seq(1 .. WizActs) /\ a.visit \in 1 .. WizActs /\ n \in Nat
  BY OneTryLess, LenProperties DEF WizInv, TriesAreCounted
<1>3. /\ madeBy' \in Seq(1 .. WizActs) /\ Len(madeBy') = n + 1
      /\ \A i \in 1 .. n : madeBy'[i] = madeBy[i]
      /\ madeBy'[n + 1] = a.visit
      /\ DOMAIN madeBy' = 1 .. n + 1 /\ DOMAIN madeBy = 1 .. n
  <2>1. madeBy' \in Seq(1 .. WizActs)
    BY <1>1, <1>2, AppendProperties
  <2> QED BY <1>1, <1>2, <2>1, AppendProperties, LenProperties
<1>4. n + Cardinality(attempts \ {a}) + 1 <= tries /\ tries \in Nat /\ Cardinality(attempts \ {a}) \in Nat /\ IsFiniteSet(attempts \ {a})
  BY OneTryLess
<1> HIDE DEF n
<1>5. WizTypeOK'
  <2>1. page' \in {"wizard", "created", "away"} /\ saved' \in Drafts \cup {NoDraft}
    BY <1>1 DEF WizInv, WizTypeOK
  <2>2. Len(madeBy') <= tries'
    BY <1>1, <1>2, <1>3, <1>4
  <2> QED BY <1>1, <2>1, <2>2 DEF WizInv, WizTypeOK
<1>6. TriesAreCounted'
  <2>1. IsFiniteSet(attempts') /\ Len(madeBy') + Cardinality(attempts') <= tries'
    BY <1>1, <1>2, <1>3, <1>4
  <2>2. page' \in {"wizard", "created"} => visit' >= 1
    BY <1>1 DEF WizInv, TriesAreCounted
  <2> QED BY <1>1, <1>3, <2>1, <2>2 DEF WizInv, TriesAreCounted
<1>7. MadeAreOver'
  <2> SUFFICES ASSUME ~answerLost, answered PROVE MadeAreOver'
    BY <1>1 DEF MadeAreOver
  <2>1. ASSUME NEW i \in 1 .. n
        PROVE  /\ madeBy[i] <= visit /\ (madeBy[i] = visit => page # "wizard")
               /\ a.visit # madeBy[i] /\ \A b \in attempts' : b.visit # madeBy[i]
    BY <1>1, <1>3 DEF WizInv, MadeAreOver
  <2>2. /\ a.visit <= visit /\ (a.visit = visit => page' # "wizard")
        /\ \A b \in attempts' : b.visit # a.visit
    BY <1>1 DEF WizInv, TriesAreCounted
  <2>3. page' = "wizard" => page = "wizard"
    BY <1>1
  <2>4. ASSUME NEW i \in 1 .. n + 1
        PROVE  /\ madeBy'[i] <= visit' /\ (madeBy'[i] = visit' => page' # "wizard")
               /\ \A b \in attempts' : b.visit # madeBy'[i]
    <3>1. CASE i = n + 1
      BY <1>1, <1>3, <2>2, <3>1
    <3>2. CASE i \in 1 .. n
      BY <1>1, <1>3, <2>1, <2>3, <3>2
    <3> QED BY <1>2, <3>1, <3>2 DEF n
  <2>5. ASSUME NEW i \in 1 .. n + 1, NEW j \in 1 .. n + 1, i # j PROVE madeBy'[i] # madeBy'[j]
    <3>0. \A k \in 1 .. n + 1 : k \in 1 .. n \/ k = n + 1
      BY <1>2 DEF n
    <3>1. CASE i \in 1 .. n /\ j \in 1 .. n
      BY <1>3, <2>5, <3>1 DEF WizInv, MadeAreOver
    <3>2. CASE i \in 1 .. n /\ j = n + 1
      BY <1>3, <2>1, <3>2
    <3>3. CASE i = n + 1 /\ j \in 1 .. n
      BY <1>3, <2>1, <3>3
    <3> QED BY <2>5, <3>0, <3>1, <3>2, <3>3
  <2> QED BY <1>3, <2>4, <2>5 DEF MadeAreOver
<1>8. OnlyCompleteIsSent'
  BY <1>1 DEF WizInv, OnlyCompleteIsSent
<1>9. DraftIsKept'
  <2>1. CASE page' = "wizard"
    <3>1. page = "wizard" /\ (answered => a.visit # visit)
      BY <1>1, <2>1
    <3> QED BY <1>1, <3>1 DEF WizInv, DraftIsKept
  <2> QED BY <2>1 DEF DraftIsKept
<1>10. Passed(draft') /\ (saved' # NoDraft => Passed(saved'))
  BY <1>1 DEF WizInv
<1>11. page' = "created" => outlived' \/ saved' = NoDraft \/ draft'.step # 1
  <2>1. CASE answered
    BY <1>1, <2>1
  <2>2. CASE ~answered
    BY <1>1, <2>2 DEF WizInv
  <2> QED BY <2>1, <2>2
<1> QED BY <1>5, <1>6, <1>7, <1>8, <1>9, <1>10, <1>11 DEF WizInv

LEMMA WizInvStep == WizInv /\ [WizNext]_wizVars => WizInv'
<1> SUFFICES ASSUME WizInv, [WizNext]_wizVars PROVE WizInv'
  OBVIOUS
<1>1. CASE UNCHANGED wizVars
  BY <1>1 DEF wizVars, formVars, visitVars, tryVars, madeVars, WizInv, WizTypeOK, TriesAreCounted, MadeAreOver,
              OnlyCompleteIsSent, DraftIsKept
<1>2. CASE WizNext
  BY <1>2, OpensKeepsDraft, EditsKeep, GoesToKeeps, ModalKeeps, AgainKeeps, FinalizeKeeps, CredentialKeeps,
     AttemptEndsKeeps, CreatesKeepWord DEF WizNext
<1> QED BY <1>1, <1>2

\* Whatever is filled in, left and come back to, and whichever answer is lost: only complete drafts are
\* sent, no pass makes two projects, and the draft is kept until then (WizardPage.tsx).
THEOREM WizardKeepsItsWordHolds == WizSpec => [](WizTypeOK /\ WizardKeepsItsWord)
<1> QED BY WizInvInit, WizInvStep, WizInvImplies, PTL DEF WizSpec

-----------------------------------------------------------------------------
(* The conversation before the specification                               *)

\* The place that comes j-th among some.
NthOf(places, j) == CHOOSE i \in places : Cardinality({k \in places : k <= i}) = j

\* Two places have two ranks.
LEMMA RanksDiffer ==
  ASSUME NEW places, IsFiniteSet(places), places \subseteq Nat, NEW i \in places, NEW k \in places,
         Cardinality({m \in places : m <= i}) = Cardinality({m \in places : m <= k})
  PROVE  i = k
<1> DEFINE upTo(x) == {m \in places : m <= x}
<1>1. ASSUME NEW x \in places, NEW y \in places, x < y PROVE Cardinality(upTo(x)) # Cardinality(upTo(y))
  <2>1. x \in Nat /\ y \in Nat
    OBVIOUS
  <2>2. upTo(x) \in SUBSET places /\ upTo(y) \in SUBSET places
    OBVIOUS
  <2>3. IsFiniteSet(upTo(x)) /\ IsFiniteSet(upTo(y))
    BY <2>2, FS_Subset
  <2>4. upTo(x) \in SUBSET upTo(y)
    <3>1. ASSUME NEW m \in upTo(x) PROVE m \in upTo(y)
      <4>1. m \in places /\ m <= x /\ m \in Nat
        OBVIOUS
      <4> QED BY <1>1, <2>1, <4>1
    <3> QED BY <3>1
  <2>5. y \in upTo(y) /\ y \notin upTo(x)
    BY <1>1, <2>1
  <2> HIDE DEF upTo
  <2>6. Cardinality(upTo(x)) = Cardinality(upTo(y)) => upTo(x) = upTo(y)
    BY <2>3, <2>4, FS_Subset
  <2> QED BY <2>5, <2>6
<1>2. i \in Nat /\ k \in Nat
  OBVIOUS
<1>3. Cardinality(upTo(i)) = Cardinality(upTo(k))
  OBVIOUS
<1> HIDE DEF upTo
<1> QED BY <1>1, <1>2, <1>3

\* A place behind all others is the last, and the others stay what they were.
LEMMA PlaceAdded ==
  ASSUME NEW n \in Nat, NEW places \in SUBSET (1 .. n)
  PROVE  LET more == places \cup {n + 1} IN
         /\ Cardinality(places) \in Nat /\ Cardinality(more) = Cardinality(places) + 1
         /\ \A j \in 1 .. Cardinality(places) : NthOf(more, j) = NthOf(places, j) /\ NthOf(places, j) \in places
         /\ NthOf(more, Cardinality(places) + 1) = n + 1
<1> DEFINE more == places \cup {n + 1}
           card == Cardinality(places)
           rank(P, i) == Cardinality({k \in P : k <= i})
<1>1. IsFiniteSet(places) /\ card \in Nat
  <2>1. IsFiniteSet(1 .. n)
    BY FS_Interval
  <2>2. IsFiniteSet(places)
    BY <2>1, FS_Subset
  <2> QED BY <2>2, FS_CardinalityType
<1>2. n + 1 \notin places /\ places \subseteq Nat /\ more \subseteq Nat
  OBVIOUS
<1>3. IsFiniteSet(more) /\ Cardinality(more) = card + 1
  BY <1>1, <1>2, FS_AddElement
<1>4. ASSUME NEW i \in places PROVE rank(more, i) = rank(places, i)
  <2>1. {k \in more : k <= i} = {k \in places : k <= i}
    <3>1. i <= n /\ i \in Nat /\ ~(n + 1 <= i)
      OBVIOUS
    <3> QED BY <3>1
  <2> QED BY <2>1
<1>5. rank(more, n + 1) = card + 1
  <2>1. {k \in more : k <= n + 1} = more
    <3>1. ASSUME NEW k \in more PROVE k <= n + 1
      OBVIOUS
    <3> QED BY <3>1
  <2> QED BY <1>3, <2>1
<1>6. ASSUME NEW P, IsFiniteSet(P), P \subseteq Nat, NEW j \in 1 .. Cardinality(P)
      PROVE  NthOf(P, j) \in P /\ rank(P, NthOf(P, j)) = j
  <2>1. \E i \in P : Cardinality({k \in P : k <= i}) = j
    BY <1>6, PlaceExists
  <2> QED BY <2>1 DEF NthOf
<1>7. ASSUME NEW P, IsFiniteSet(P), P \subseteq Nat, NEW x \in P, NEW y \in P, rank(P, x) = rank(P, y) PROVE x = y
  BY <1>7, RanksDiffer
<1> HIDE DEF rank
<1>8. ASSUME NEW j \in 1 .. card PROVE NthOf(more, j) = NthOf(places, j) /\ NthOf(places, j) \in places
  <2>1. NthOf(places, j) \in places /\ rank(places, NthOf(places, j)) = j
    BY <1>1, <1>2, <1>6
  <2>2. j \in 1 .. Cardinality(more)
    BY <1>1, <1>3
  <2>3. NthOf(more, j) \in more /\ rank(more, NthOf(more, j)) = j
    BY <1>2, <1>3, <1>6, <2>2
  <2>4. NthOf(places, j) \in more /\ rank(more, NthOf(places, j)) = j
    BY <1>4, <2>1
  <2> HIDE DEF more, card
  <2>5. NthOf(more, j) = NthOf(places, j)
    BY <1>2, <1>3, <1>7, <2>3, <2>4
  <2> QED BY <2>1, <2>5
<1>9. NthOf(more, card + 1) = n + 1
  <2>1. card + 1 \in 1 .. Cardinality(more)
    BY <1>1, <1>3
  <2>2. NthOf(more, card + 1) \in more /\ rank(more, NthOf(more, card + 1)) = card + 1
    BY <1>2, <1>3, <1>6, <2>1
  <2>3. n + 1 \in more
    OBVIOUS
  <2> HIDE DEF more
  <2> QED BY <1>2, <1>3, <1>5, <1>7, <2>2, <2>3
<1> QED BY <1>1, <1>3, <1>8, <1>9

-----------------------------------------------------------------------------
\* The questions of the transcript are those since the last reset, in their order.
QuestionsKept ==
  /\ firstKept <= questions + 1
  /\ Cardinality(Asked) = questions + 1 - firstKept
  /\ \A j \in 1 .. Cardinality(Asked) : messages[NthOf(Asked, j)].n = firstKept + j - 1

LastIs(n) == messages # <<>> /\ messages[Len(messages)] = [from |-> "user", n |-> n]

\* Unless a reset has crossed an answer: one question waits at a time, one stream shows its answer, and
\* the question is the last of the transcript.
OneAtATime ==
  resetCrossed \/
    /\ AnswersFollow
    /\ thinking <=> waiting # {}
    /\ \A q \in waiting : waiting = {q} /\ LastIs(q)
    /\ waiting # {} => streaming = Nothing /\ hydration # "asked" /\ bootstrapped
    /\ streaming = Nothing => streamTimers = {}
    /\ streaming # Nothing => streamTimers = {streaming} /\ streamTimer = streaming
    /\ streaming \notin {0, Nothing} => LastIs(streaming) /\ waiting = {} /\ hydration # "asked" /\ bootstrapped

BsInv == BsTypeOK /\ QuestionsKept /\ OneAtATime

LEMMA BoundsAreNat == /\ MaxQuestions \in Nat /\ MaxResets \in Nat /\ MaxMounts \in Nat /\ Nothing \in Nat
                      /\ Nothing > MaxQuestions /\ Nothing # 0 /\ Nothing = MaxQuestions + 1
BY BrainstormAssumption DEF Nothing

\* The types, element by element.
LEMMA BsTypeIs ==
  BsTypeOK <=> /\ online \in BOOLEAN /\ open \in BOOLEAN /\ thinking \in BOOLEAN /\ bootstrapped \in BOOLEAN
               /\ resetCrossed \in BOOLEAN
               /\ mounts \in 0 .. MaxMounts /\ resets \in 0 .. MaxResets /\ messages \in Seq(Message)
               /\ questions \in 0 .. MaxQuestions /\ firstKept \in 1 .. MaxQuestions + 1 /\ waiting \subseteq Questions
               /\ streaming \in 0 .. Nothing /\ streamTimer \in 0 .. Nothing /\ streamTimers \subseteq 0 .. MaxQuestions
               /\ hydration \in {"none", "asked", "cancelled", "arrived", "dropped"}
BY Zenon DEF BsTypeOK

LEMMA BsTypeWillBe ==
  BsTypeOK' <=> /\ online' \in BOOLEAN /\ open' \in BOOLEAN /\ thinking' \in BOOLEAN /\ bootstrapped' \in BOOLEAN
                /\ resetCrossed' \in BOOLEAN
                /\ mounts' \in 0 .. MaxMounts /\ resets' \in 0 .. MaxResets /\ messages' \in Seq(Message)
                /\ questions' \in 0 .. MaxQuestions /\ firstKept' \in 1 .. MaxQuestions + 1 /\ waiting' \subseteq Questions
                /\ streaming' \in 0 .. Nothing /\ streamTimer' \in 0 .. Nothing /\ streamTimers' \subseteq 0 .. MaxQuestions
                /\ hydration' \in {"none", "asked", "cancelled", "arrived", "dropped"}
BY Zenon DEF BsTypeOK

LEMMA BsInvInit == BsInit => BsInv
<1> SUFFICES ASSUME BsInit PROVE BsInv
  OBVIOUS
<1> USE DEF BsInit
<1>1. BsTypeOK
  <2>1. online \in BOOLEAN
    BY BrainstormAssumption
  <2>2. messages \in Seq(Message)
    OBVIOUS
  <2>3. /\ streaming \in 0 .. Nothing /\ streamTimer \in 0 .. Nothing /\ streamTimers \subseteq 0 .. MaxQuestions
        /\ questions \in 0 .. MaxQuestions /\ firstKept \in 1 .. MaxQuestions + 1 /\ waiting \subseteq Questions
        /\ mounts \in 0 .. MaxMounts /\ resets \in 0 .. MaxResets
    BY BoundsAreNat
  <2>4. hydration \in {"none", "asked", "cancelled", "arrived", "dropped"}
    OBVIOUS
  <2>5. open \in BOOLEAN /\ thinking \in BOOLEAN /\ bootstrapped \in BOOLEAN /\ resetCrossed \in BOOLEAN
    OBVIOUS
  <2> QED BY <2>1, <2>2, <2>3, <2>4, <2>5, BsTypeIs
<1>2. QuestionsKept
  <2>1. Asked = {}
    BY DEF Asked
  <2>2. Cardinality(Asked) = 0
    BY <2>1, FS_EmptySet
  <2> QED BY <2>2 DEF QuestionsKept
<1>3. OneAtATime
  BY BoundsAreNat DEF OneAtATime, AnswersFollow
<1> QED BY <1>1, <1>2, <1>3 DEF BsInv

LEMMA BsInvImplies == BsInv => BsTypeOK /\ ConversationIsKept
<1> SUFFICES ASSUME BsInv PROVE BsTypeOK /\ ConversationIsKept
  OBVIOUS
<1>1. NothingIsForgotten
  <2>1. Description = [j \in 1 .. Cardinality(Asked) |-> messages[NthOf(Asked, j)].n]
    BY DEF Description, NthOf
  <2>2. Cardinality(Asked) = questions + 1 - firstKept /\ \A j \in 1 .. Cardinality(Asked) : messages[NthOf(Asked, j)].n = firstKept + j - 1
    BY DEF BsInv, QuestionsKept
  <2> QED BY <2>1, <2>2 DEF NothingIsForgotten
<1> QED BY <1>1 DEF BsInv, OneAtATime, ConversationIsKept, AnswersFollow

\* The transcript is left alone.
LEMMA QuestionsRest == ASSUME QuestionsKept, UNCHANGED <<messages, questions, firstKept>> PROVE QuestionsKept'
BY DEF QuestionsKept, Asked, NthOf

\* Something is said.
LEMMA SaysAppends ==
  ASSUME BsTypeOK, NEW from \in {"user", "loom"}, NEW n \in 0 .. MaxQuestions, Says(from, n)
  PROVE  /\ messages' \in Seq(Message) /\ Len(messages') = Len(messages) + 1 /\ Len(messages) \in Nat
         /\ \A i \in 1 .. Len(messages) : messages'[i] = messages[i]
         /\ messages'[Len(messages) + 1] = [from |-> from, n |-> n]
         /\ DOMAIN messages = 1 .. Len(messages) /\ DOMAIN messages' = 1 .. Len(messages) + 1
         /\ messages' # <<>>
<1> DEFINE m == [from |-> from, n |-> n]
<1>1. m \in Message /\ messages \in Seq(Message) /\ messages' = Append(messages, m)
  BY DEF Message, BsTypeOK, Says
<1> HIDE DEF m
<1>2. /\ messages' \in Seq(Message) /\ Len(messages') = Len(messages) + 1 /\ Len(messages) \in Nat
      /\ \A i \in 1 .. Len(messages) : messages'[i] = messages[i]
      /\ messages'[Len(messages) + 1] = m
  BY <1>1, AppendProperties, LenProperties
<1>3. DOMAIN messages = 1 .. Len(messages) /\ DOMAIN messages' = 1 .. Len(messages) + 1
  BY <1>1, <1>2, LenProperties
<1>4. messages' # <<>>
  BY <1>2
<1> QED BY <1>2, <1>3, <1>4 DEF m

LEMMA AnswerLeavesQuestions ==
  ASSUME BsTypeOK, QuestionsKept, NEW n \in 0 .. MaxQuestions, Says("loom", n), UNCHANGED <<questions, firstKept>>
  PROVE  QuestionsKept'
<1>0. /\ Len(messages) \in Nat /\ DOMAIN messages = 1 .. Len(messages) /\ DOMAIN messages' = 1 .. Len(messages) + 1
      /\ \A i \in 1 .. Len(messages) : messages'[i] = messages[i]
      /\ messages'[Len(messages) + 1] = [from |-> "loom", n |-> n]
  BY SaysAppends
<1>1. Asked' = Asked
  <2>1. ASSUME NEW i \in 1 .. Len(messages) + 1 PROVE i \in 1 .. Len(messages) \/ i = Len(messages) + 1
    BY <1>0
  <2>2. ASSUME NEW i \in 1 .. Len(messages) PROVE i \in 1 .. Len(messages) + 1 /\ (IsQuestion(messages'[i]) <=> IsQuestion(messages[i]))
    BY <1>0 DEF IsQuestion
  <2>3. ~IsQuestion(messages'[Len(messages) + 1])
    BY <1>0 DEF IsQuestion
  <2>4. ASSUME NEW i \in Asked PROVE i \in Asked'
    BY <2>2, <1>0 DEF Asked, IsQuestion
  <2>5. ASSUME NEW i \in Asked' PROVE i \in Asked
    <3>1. i \in 1 .. Len(messages) + 1 /\ IsQuestion(messages'[i])
      BY <1>0 DEF Asked, IsQuestion
    <3>2. i \in 1 .. Len(messages)
      BY <2>1, <2>3, <3>1
    <3> QED BY <2>2, <3>1, <3>2, <1>0 DEF Asked, IsQuestion
  <2> QED BY <2>4, <2>5
<1>2. ASSUME NEW j \in 1 .. Cardinality(Asked) PROVE messages'[NthOf(Asked, j)] = messages[NthOf(Asked, j)]
  <2>1. Asked \in SUBSET (1 .. Len(messages)) /\ Len(messages) \in Nat
    BY <1>0 DEF Asked
  <2>2. NthOf(Asked, j) \in Asked
    BY <1>2, <2>1, PlaceAdded
  <2> QED BY <2>1, <2>2, <1>0
<1>3. QuestionsKept' <=> /\ firstKept' <= questions' + 1
                         /\ Cardinality(Asked') = questions' + 1 - firstKept'
                         /\ \A j \in 1 .. Cardinality(Asked') : messages'[NthOf(Asked', j)].n = firstKept' + j - 1
  BY DEF QuestionsKept, NthOf
<1> QED BY <1>1, <1>2, <1>3 DEF QuestionsKept

LEMMA QuestionJoins ==
  ASSUME BsTypeOK, QuestionsKept, questions < MaxQuestions, questions' = questions + 1,
         Says("user", questions + 1), firstKept' = firstKept
  PROVE  QuestionsKept'
<1> DEFINE n == Len(messages)
           card == Cardinality(Asked)
<1>0. questions + 1 \in 0 .. MaxQuestions /\ questions \in Nat /\ firstKept \in Nat
  BY BoundsAreNat DEF BsTypeOK
<1>a. /\ n \in Nat /\ DOMAIN messages = 1 .. n /\ DOMAIN messages' = 1 .. n + 1
      /\ \A i \in 1 .. n : messages'[i] = messages[i]
      /\ messages'[n + 1] = [from |-> "user", n |-> questions + 1]
  BY <1>0, SaysAppends
<1>1. Asked' = Asked \cup {n + 1}
  <2>1. ASSUME NEW i \in 1 .. n + 1 PROVE i \in 1 .. n \/ i = n + 1
    BY <1>a
  <2>2. ASSUME NEW i \in 1 .. n PROVE i \in 1 .. n + 1 /\ (IsQuestion(messages'[i]) <=> IsQuestion(messages[i]))
    BY <1>a DEF IsQuestion
  <2>3. IsQuestion(messages'[n + 1]) /\ n + 1 \in 1 .. n + 1
    BY <1>a DEF IsQuestion
  <2>4. DOMAIN messages = 1 .. n /\ DOMAIN messages' = 1 .. n + 1
    BY <1>a
  <2> HIDE DEF n
  <2>5. ASSUME NEW i \in Asked \cup {n + 1} PROVE i \in Asked'
    BY <2>2, <2>3, <2>4 DEF Asked, IsQuestion
  <2>6. ASSUME NEW i \in Asked' PROVE i \in Asked \cup {n + 1}
    <3>1. i \in 1 .. n + 1 /\ IsQuestion(messages'[i])
      BY <2>4 DEF Asked, IsQuestion
    <3> QED BY <2>1, <2>2, <2>4, <3>1 DEF Asked, IsQuestion
  <2> QED BY <2>5, <2>6
<1>2. Asked \in SUBSET (1 .. n) /\ n \in Nat
  BY <1>a DEF Asked
<1>3. /\ card \in Nat /\ Cardinality(Asked') = card + 1
      /\ \A j \in 1 .. card : NthOf(Asked', j) = NthOf(Asked, j) /\ NthOf(Asked, j) \in Asked
      /\ NthOf(Asked', card + 1) = n + 1
  <2> HIDE DEF n
  <2> QED BY <1>1, <1>2, PlaceAdded
<1>4. card = questions + 1 - firstKept /\ firstKept <= questions + 1
  BY DEF QuestionsKept
<1>5. \A i \in 1 .. n : messages'[i] = messages[i]
  BY <1>a
<1>6. messages'[n + 1].n = questions + 1
  BY <1>a
<1> HIDE DEF n
<1>7. ASSUME NEW j \in 1 .. card + 1 PROVE messages'[NthOf(Asked', j)].n = firstKept + j - 1
  <2>1. CASE j \in 1 .. card
    <3>1. messages[NthOf(Asked, j)].n = firstKept + j - 1
      BY <2>1 DEF QuestionsKept
    <3> QED BY <1>2, <1>3, <1>5, <2>1, <3>1
  <2>2. CASE j = card + 1
    BY <1>0, <1>3, <1>4, <1>6, <2>2
  <2> QED BY <1>3, <2>1, <2>2
<1> HIDE DEF card
<1>8. QuestionsKept' <=> /\ firstKept' <= questions' + 1
                         /\ Cardinality(Asked') = questions' + 1 - firstKept'
                         /\ \A j \in 1 .. Cardinality(Asked') : messages'[NthOf(Asked', j)].n = firstKept' + j - 1
  BY DEF QuestionsKept, NthOf
<1>9. firstKept' <= questions' + 1 /\ Cardinality(Asked') = questions' + 1 - firstKept'
  BY <1>0, <1>3, <1>4
<1> QED BY <1>3, <1>7, <1>8, <1>9

LEMMA FollowGrows ==
  ASSUME BsTypeOK, ~resetCrossed, AnswersFollow, NEW from \in {"user", "loom"}, NEW n \in 0 .. MaxQuestions,
         Says(from, n), from = "user" \/ n = 0 \/ LastIs(n)
  PROVE  AnswersFollow'
<1>1. /\ Len(messages) \in Nat /\ DOMAIN messages = 1 .. Len(messages) /\ DOMAIN messages' = 1 .. Len(messages) + 1
      /\ \A i \in 1 .. Len(messages) : messages'[i] = messages[i]
      /\ messages'[Len(messages) + 1] = [from |-> from, n |-> n]
  BY SaysAppends
<1>2. ASSUME NEW i \in 1 .. Len(messages), messages'[i].from = "loom", messages'[i].n # 0
      PROVE  i > 1 /\ messages'[i - 1] = [from |-> "user", n |-> messages'[i].n]
  <2>1. i > 1 /\ messages[i - 1] = [from |-> "user", n |-> messages[i].n]
    BY <1>1, <1>2 DEF AnswersFollow
  <2>2. i - 1 \in 1 .. Len(messages)
    BY <1>1, <2>1
  <2> QED BY <1>1, <2>1, <2>2
<1>3. ASSUME from = "loom", n # 0
      PROVE  Len(messages) + 1 > 1 /\ messages'[Len(messages) + 1 - 1] = [from |-> "user", n |-> n]
  <2>1. messages # <<>> /\ messages[Len(messages)] = [from |-> "user", n |-> n]
    BY <1>3 DEF LastIs
  <2>2. messages \in Seq(Message)
    BY DEF BsTypeOK
  <2>3. Len(messages) > 0
    BY <1>1, <2>1, <2>2, EmptySeq
  <2>4. Len(messages) + 1 - 1 = Len(messages) /\ Len(messages) \in 1 .. Len(messages)
    BY <1>1, <2>3
  <2> QED BY <1>1, <2>1, <2>3, <2>4
<1>4. ASSUME NEW i \in DOMAIN messages', messages'[i].from = "loom", messages'[i].n # 0
      PROVE  i > 1 /\ messages'[i - 1] = [from |-> "user", n |-> messages'[i].n]
  <2>1. i \in 1 .. Len(messages) \/ i = Len(messages) + 1
    BY <1>1
  <2>2. CASE i = Len(messages) + 1
    <3>1. messages'[i].from = from /\ messages'[i].n = n
      BY <1>1, <2>2
    <3> QED BY <1>3, <1>4, <2>2, <3>1
  <2> QED BY <1>2, <1>4, <2>1, <2>2
<1> QED BY <1>4 DEF AnswersFollow

\* What OneAtATime says, but for the answers that follow.
OneWaits ==
  /\ thinking <=> waiting # {}
  /\ \A q \in waiting : waiting = {q} /\ LastIs(q)
  /\ waiting # {} => streaming = Nothing /\ hydration # "asked" /\ bootstrapped
  /\ streaming = Nothing => streamTimers = {}
  /\ streaming # Nothing => streamTimers = {streaming} /\ streamTimer = streaming
  /\ streaming \notin {0, Nothing} => LastIs(streaming) /\ waiting = {} /\ hydration # "asked" /\ bootstrapped

LEMMA OneAtATimeIs == OneAtATime <=> resetCrossed \/ (AnswersFollow /\ OneWaits)
BY DEF OneAtATime, OneWaits

LEMMA OneAtATimeWillBe == OneAtATime' <=> resetCrossed' \/ (AnswersFollow' /\ OneWaits')
BY DEF OneAtATime, OneWaits

\* Nothing is said.
LEMMA LastRests == ASSUME UNCHANGED messages PROVE \A n : LastIs(n)' <=> LastIs(n)
BY DEF LastIs

LEMMA FollowRests == ASSUME UNCHANGED <<messages, resetCrossed>> PROVE AnswersFollow' <=> AnswersFollow
BY DEF AnswersFollow

-----------------------------------------------------------------------------
LEMMA PageRestsKeeps ==
  ASSUME BsInv, NEW n, LeavesBrainstorm \/ Rerenders \/ Ticks(n) \/ (\E b \in BOOLEAN : Launch(b)) \/ (\E b, ok : Launched(b, ok))
  PROVE  BsInv'
<1> USE DEF LeavesBrainstorm, Rerenders, Ticks, Launch, Launched, mountVars, talkVars, streamVars, startVars, launchVars, resetVars
<1>1. UNCHANGED <<messages, questions, waiting, thinking, streaming, streamTimers, bootstrapped, resetVars, mounts, online>>
  OBVIOUS
<1>2. open' \in BOOLEAN
  BY DEF BsInv, BsTypeOK
<1>3. /\ hydration' \in {"none", "asked", "cancelled", "arrived", "dropped"}
      /\ hydration' = "asked" => hydration = "asked"
      /\ streamTimer' = streamTimer \/ streamTimer' \in streamTimers
  BY DEF BsInv, BsTypeOK
<1>4. BsTypeOK'
  <2>1. streamTimer' \in 0 .. Nothing
    BY <1>3, BsTypeIs, BoundsAreNat DEF BsInv
  <2> QED BY <1>1, <1>2, <1>3, <2>1 DEF BsInv, BsTypeOK
<1>5. QuestionsKept'
  BY <1>1, QuestionsRest DEF BsInv
<1>6. OneAtATime'
  <2> SUFFICES ASSUME ~resetCrossed PROVE AnswersFollow' /\ OneWaits'
    BY <1>1, OneAtATimeWillBe
  <2>1. AnswersFollow /\ OneWaits
    BY OneAtATimeIs DEF BsInv
  <2>2. OneWaits'
    BY <1>1, <1>3, <2>1, LastRests DEF OneWaits
  <2> QED BY <1>1, <2>1, <2>2, FollowRests
<1> QED BY <1>4, <1>5, <1>6 DEF BsInv

LEMMA MountsKeeps == ASSUME BsInv, Mounts PROVE BsInv'
<1> USE DEF Mounts, resetVars
<1>1. BsTypeOK'
  <2>1. BsTypeOK
    BY DEF BsInv
  <2>2. mounts' \in 0 .. MaxMounts
    BY <2>1, BoundsAreNat, BsTypeIs
  <2>3. streaming' \in 0 .. Nothing /\ streamTimer' \in 0 .. Nothing /\ streamTimers' \subseteq 0 .. MaxQuestions
    BY BoundsAreNat
  <2>4. waiting' \subseteq Questions /\ thinking' \in BOOLEAN /\ open' \in BOOLEAN /\ bootstrapped' \in BOOLEAN
    OBVIOUS
  <2> QED BY <2>1, <2>2, <2>3, <2>4, BsTypeIs, BsTypeWillBe
<1>2. QuestionsKept'
  BY QuestionsRest DEF BsInv
<1>3. OneAtATime'
  <2> SUFFICES ASSUME ~resetCrossed PROVE AnswersFollow' /\ OneWaits'
    BY OneAtATimeWillBe
  <2>1. AnswersFollow'
    BY FollowRests, OneAtATimeIs DEF BsInv
  <2> QED BY <2>1 DEF OneWaits
<1> QED BY <1>1, <1>2, <1>3 DEF BsInv

\* The timers of a notice, when at most a notice was typed.
LEMMA NoticeStarts ==
  ASSUME BsTypeOK, OneWaits, streaming \in {0, Nothing}, BeginStream(0)
  PROVE  streaming' = 0 /\ streamTimers' = {0} /\ streamTimer' = 0
<1>1. streamTimers \subseteq {0}
  BY BoundsAreNat DEF OneWaits
<1> QED BY <1>1 DEF BeginStream

LEMMA HydratesKeeps == ASSUME BsInv, Hydrates PROVE BsInv'
<1> USE DEF Hydrates, mountVars, talkVars, launchVars, resetVars, streamVars
<1>1. BsTypeOK'
  BY BoundsAreNat, BsTypeIs, BsTypeWillBe DEF BsInv, BeginStream
<1>2. QuestionsKept'
  BY QuestionsRest DEF BsInv
<1>3. OneAtATime'
  <2> SUFFICES ASSUME ~resetCrossed PROVE AnswersFollow' /\ OneWaits'
    BY OneAtATimeWillBe
  <2>1. BsTypeOK /\ AnswersFollow /\ OneWaits
    BY OneAtATimeIs DEF BsInv
  <2>2. waiting = {} /\ streaming \in {0, Nothing} /\ bootstrapped' /\ waiting' = {} /\ thinking' = thinking
    BY <2>1 DEF OneWaits
  <2>3. OneWaits'
    <3>1. CASE online
      BY <2>1, <2>2, <3>1 DEF OneWaits
    <3>2. CASE ~online
      BY <2>1, <2>2, <3>2, NoticeStarts, BoundsAreNat DEF OneWaits
    <3> QED BY <3>1, <3>2
  <2> QED BY <2>1, <2>3, FollowRests
<1> QED BY <1>1, <1>2, <1>3 DEF BsInv

LEMMA HistoryKeeps == ASSUME BsInv, NEW empty \in BOOLEAN, HistoryArrives(empty) PROVE BsInv'
<1> USE DEF HistoryArrives, mountVars, launchVars, resetVars, streamVars
<1>0. BsTypeOK /\ QuestionsKept
  BY DEF BsInv
<1>1. CASE hydration = "asked" /\ ~empty
  <2>1. Says("loom", 0) /\ 0 \in 0 .. MaxQuestions /\ hydration' = "arrived"
    BY <1>1, BoundsAreNat
  <2>2. BsTypeOK'
    BY <1>0, <1>1, <2>1, SaysAppends DEF BsTypeOK
  <2>3. QuestionsKept'
    BY <1>0, <2>1, AnswerLeavesQuestions
  <2>4. OneAtATime'
    <3> SUFFICES ASSUME ~resetCrossed PROVE AnswersFollow' /\ OneWaits'
      BY OneAtATimeWillBe
    <3>1. AnswersFollow /\ OneWaits
      BY OneAtATimeIs DEF BsInv
    <3>2. AnswersFollow'
      BY <1>0, <2>1, <3>1, FollowGrows
    <3>3. waiting = {} /\ streaming \in {0, Nothing} /\ waiting' = {} /\ streaming' = streaming
      BY <1>1, <3>1 DEF OneWaits
    <3>4. OneWaits'
      BY <1>1, <3>1, <3>3 DEF OneWaits
    <3> QED BY <3>2, <3>4
  <2> QED BY <2>2, <2>3, <2>4 DEF BsInv
<1>2. CASE hydration = "asked" /\ empty
  <2>1. BeginStream(0) /\ messages' = messages /\ hydration' = "arrived"
    BY <1>2
  <2>2. BsTypeOK'
    BY <1>0, <2>1, BoundsAreNat, BsTypeIs, BsTypeWillBe DEF BeginStream
  <2>3. QuestionsKept'
    BY <1>0, <2>1, QuestionsRest
  <2>4. OneAtATime'
    <3> SUFFICES ASSUME ~resetCrossed PROVE AnswersFollow' /\ OneWaits'
      BY OneAtATimeWillBe
    <3>1. AnswersFollow /\ OneWaits
      BY OneAtATimeIs DEF BsInv
    <3>2. waiting = {} /\ streaming \in {0, Nothing} /\ waiting' = {}
      BY <1>2, <3>1 DEF OneWaits
    <3>3. OneWaits'
      BY <1>0, <2>1, <3>1, <3>2, NoticeStarts, BoundsAreNat DEF OneWaits
    <3> QED BY <2>1, <3>1, <3>3, FollowRests
  <2> QED BY <2>2, <2>3, <2>4 DEF BsInv
<1>3. CASE hydration = "cancelled"
  <2>1. UNCHANGED <<messages, streaming, streamTimers, streamTimer>> /\ hydration' = "dropped"
    BY <1>3
  <2>2. BsTypeOK'
    BY <1>0, <2>1 DEF BsTypeOK
  <2>3. QuestionsKept'
    BY <1>0, <2>1, QuestionsRest
  <2>4. OneAtATime'
    <3> SUFFICES ASSUME ~resetCrossed PROVE AnswersFollow' /\ OneWaits'
      BY OneAtATimeWillBe
    <3>1. AnswersFollow /\ OneWaits
      BY OneAtATimeIs DEF BsInv
    <3>2. OneWaits'
      BY <2>1, <3>1, LastRests DEF OneWaits
    <3> QED BY <2>1, <3>1, <3>2, FollowRests
  <2> QED BY <2>2, <2>3, <2>4 DEF BsInv
<1> QED BY <1>1, <1>2, <1>3

LEMMA SubmitKeeps == ASSUME BsInv, Submit PROVE BsInv'
<1> USE DEF Submit, MaySubmit, mountVars, startVars, launchVars, resetVars, streamVars
<1>0. BsTypeOK /\ QuestionsKept
  BY DEF BsInv
<1>1. /\ questions' = questions + 1 /\ questions + 1 \in 0 .. MaxQuestions /\ questions + 1 \in Questions
      /\ Says("user", questions + 1) /\ questions < MaxQuestions
  BY <1>0, BoundsAreNat DEF BsTypeOK, Questions
<1>2. /\ messages' \in Seq(Message) /\ messages' # <<>> /\ Len(messages') = Len(messages) + 1
      /\ messages'[Len(messages) + 1] = [from |-> "user", n |-> questions + 1]
  BY <1>0, <1>1, SaysAppends
<1>3. BsTypeOK'
  <2>1. waiting' \subseteq Questions /\ thinking' \in BOOLEAN
    BY <1>0, <1>1 DEF BsTypeOK
  <2>2. streaming' \in 0 .. Nothing /\ streamTimer' \in 0 .. Nothing /\ streamTimers' \subseteq 0 .. MaxQuestions
    BY <1>0, BoundsAreNat, BsTypeIs DEF BeginStream
  <2> QED BY <1>0, <1>1, <1>2, <2>1, <2>2, BsTypeIs, BsTypeWillBe
<1>4. QuestionsKept'
  BY <1>0, <1>1, QuestionJoins
<1>5. OneAtATime'
  <2> SUFFICES ASSUME ~resetCrossed PROVE AnswersFollow' /\ OneWaits'
    BY OneAtATimeWillBe
  <2>1. AnswersFollow /\ OneWaits
    BY OneAtATimeIs DEF BsInv
  <2>2. AnswersFollow'
    BY <1>0, <1>1, <2>1, FollowGrows
  <2>3. waiting = {} /\ streaming = Nothing /\ streamTimers = {}
    BY <2>1 DEF OneWaits
  <2>4. ASSUME NEW q, q = questions + 1 PROVE LastIs(q)'
    BY <1>2, <2>4, SaysAppends DEF LastIs
  <2>5. CASE online
    <3>1. waiting' = {questions + 1} /\ thinking' = TRUE /\ streaming' = Nothing /\ streamTimers' = {}
      BY <2>3, <2>5
    <3> QED BY <2>2, <2>4, <3>1 DEF OneWaits
  <2>6. CASE ~online
    <3>1. waiting' = {} /\ thinking' = thinking /\ BeginStream(0)
      BY <2>3, <2>6
    <3>2. streaming' = 0 /\ streamTimers' = {0} /\ streamTimer' = 0
      BY <1>0, <2>1, <2>3, <3>1, NoticeStarts
    <3> QED BY <2>1, <2>2, <2>3, <3>1, <3>2, BoundsAreNat DEF OneWaits
  <2> QED BY <2>5, <2>6
<1> QED BY <1>3, <1>4, <1>5 DEF BsInv

LEMMA LoomAnswersKeeps == ASSUME BsInv, NEW n \in 0 .. MaxQuestions, LoomAnswers(n) PROVE BsInv'
<1> USE DEF LoomAnswers, mountVars, startVars, launchVars, resetVars
<1>0. BsTypeOK /\ QuestionsKept /\ n \in Questions
  BY DEF BsInv, BsTypeOK
<1>1. BsTypeOK'
  <2>1. streaming' \in 0 .. Nothing /\ streamTimer' \in 0 .. Nothing /\ streamTimers' \subseteq 0 .. MaxQuestions
    BY <1>0, BoundsAreNat, BsTypeIs DEF BeginStream
  <2>2. waiting' \subseteq Questions /\ thinking' \in BOOLEAN
    BY <1>0, BsTypeIs
  <2> QED BY <1>0, <2>1, <2>2, BsTypeIs, BsTypeWillBe
<1>2. QuestionsKept'
  BY <1>0, QuestionsRest
<1>3. OneAtATime'
  <2> SUFFICES ASSUME ~resetCrossed PROVE AnswersFollow' /\ OneWaits'
    BY OneAtATimeWillBe
  <2>1. AnswersFollow /\ OneWaits
    BY OneAtATimeIs DEF BsInv
  <2>2. waiting = {n} /\ LastIs(n) /\ streaming = Nothing /\ streamTimers = {} /\ hydration # "asked" /\ bootstrapped
    BY <2>1 DEF OneWaits
  <2>3. streaming' = n /\ streamTimers' = {n} /\ streamTimer' = n /\ waiting' = {} /\ thinking' = FALSE
    BY <2>2 DEF BeginStream
  <2>4. LastIs(n)'
    BY <2>2, LastRests
  <2>5. OneWaits'
    BY <1>0, <2>2, <2>3, <2>4, BoundsAreNat DEF OneWaits, Questions
  <2> QED BY <2>1, <2>5, FollowRests
<1> QED BY <1>1, <1>2, <1>3 DEF BsInv

\* A stream is shown: as far as one waits, it was the only one.
LEMMA ShownKeeps ==
  ASSUME BsInv, NEW n \in 0 .. MaxQuestions, n = streaming \/ n \in streamTimers, streaming # Nothing \/ n \in streamTimers,
         Says("loom", n), streaming' = Nothing, streamTimers' = (streamTimers) \ {n} \/ streamTimers' = (streamTimers) \ {streamTimer},
         UNCHANGED <<questions, waiting, thinking, streamTimer, mountVars, startVars, launchVars, resetVars>>, open
  PROVE  BsInv'
<1> USE DEF mountVars, startVars, launchVars, resetVars
<1>0. BsTypeOK /\ QuestionsKept
  BY DEF BsInv
<1>1. BsTypeOK'
  <2>1. messages' \in Seq(Message)
    BY <1>0, SaysAppends
  <2>2. streaming' \in 0 .. Nothing /\ streamTimer' \in 0 .. Nothing /\ streamTimers' \subseteq 0 .. MaxQuestions
    BY <1>0, BoundsAreNat, BsTypeIs
  <2> QED BY <1>0, <2>1, <2>2, BsTypeIs, BsTypeWillBe
<1>2. QuestionsKept'
  BY <1>0, AnswerLeavesQuestions
<1>3. OneAtATime'
  <2> SUFFICES ASSUME ~resetCrossed PROVE AnswersFollow' /\ OneWaits'
    BY OneAtATimeWillBe
  <2>1. AnswersFollow /\ OneWaits
    BY OneAtATimeIs DEF BsInv
  <2>2. streaming # Nothing /\ n = streaming /\ streamTimer = streaming /\ streamTimers = {streaming} /\ waiting = {}
    BY <2>1, BoundsAreNat DEF OneWaits
  <2>3. n = 0 \/ LastIs(n)
    BY <2>1, <2>2, BoundsAreNat DEF OneWaits
  <2>4. AnswersFollow'
    BY <1>0, <2>1, <2>3, FollowGrows
  <2>5. streamTimers' = {} /\ waiting' = {} /\ ~thinking'
    BY <2>1, <2>2 DEF OneWaits
  <2>6. OneWaits'
    BY <2>5 DEF OneWaits
  <2> QED BY <2>4, <2>6
<1> QED BY <1>1, <1>2, <1>3 DEF BsInv

LEMMA TypedKeeps == ASSUME BsInv, NEW n \in 0 .. MaxQuestions, Typed(n) PROVE BsInv'
BY ShownKeeps DEF Typed

LEMMA SkipStreamKeeps == ASSUME BsInv, SkipStream PROVE BsInv'
<1>1. streaming \in 0 .. MaxQuestions
  BY BoundsAreNat DEF BsInv, BsTypeOK, SkipStream
<1> QED BY <1>1, ShownKeeps DEF SkipStream

LEMMA DoResetKeeps == ASSUME BsInv, DoReset PROVE BsInv'
<1> USE DEF DoReset, mountVars, launchVars
<1>0. BsTypeOK
  BY DEF BsInv
<1>1. BsTypeOK'
  <2>1. firstKept' \in 1 .. MaxQuestions + 1 /\ resets' \in 0 .. MaxResets
    BY <1>0, BoundsAreNat DEF BsTypeOK
  <2>2. messages' \in Seq(Message) /\ resetCrossed' \in BOOLEAN
    BY <1>0 DEF BsTypeOK
  <2>3. streaming' \in 0 .. Nothing /\ streamTimers' \subseteq 0 .. MaxQuestions
    BY <1>0, BoundsAreNat, BsTypeIs
  <2> QED BY <1>0, <2>1, <2>2, <2>3, BsTypeIs, BsTypeWillBe
<1>2. QuestionsKept'
  <2>1. Asked' = {}
    BY DEF Asked
  <2>2. Cardinality(Asked') = 0
    BY <2>1, FS_EmptySet
  <2>3. questions' \in Nat /\ firstKept' = questions' + 1
    BY <1>0 DEF BsTypeOK
  <2> HIDE DEF DoReset
  <2>4. QuestionsKept' <=> /\ firstKept' <= questions' + 1
                           /\ Cardinality(Asked') = questions' + 1 - firstKept'
                           /\ \A j \in 1 .. Cardinality(Asked') : messages'[NthOf(Asked', j)].n = firstKept' + j - 1
    BY DEF QuestionsKept, NthOf
  <2>5. 1 .. Cardinality(Asked') = {}
    BY <2>2
  <2>6. firstKept' <= questions' + 1 /\ Cardinality(Asked') = questions' + 1 - firstKept'
    <3>1. \A q \in Nat : \A f, c : f = q + 1 /\ c = 0 => f <= q + 1 /\ c = q + 1 - f
      OBVIOUS
    <3> QED BY <2>2, <2>3, <3>1, Zenon
  <2>7. \A j \in 1 .. Cardinality(Asked') : messages'[NthOf(Asked', j)].n = firstKept' + j - 1
    BY <2>5
  <2> QED BY <2>4, <2>6, <2>7
<1>3. OneAtATime'
  <2> SUFFICES ASSUME ~resetCrossed, waiting = {} PROVE AnswersFollow' /\ OneWaits'
    BY OneAtATimeWillBe
  <2>1. OneWaits
    BY OneAtATimeIs DEF BsInv
  <2>2. streamTimers' = {} /\ waiting' = {} /\ streaming' = Nothing /\ ~thinking'
    BY <2>1 DEF OneWaits
  <2>3. OneWaits'
    BY <2>2 DEF OneWaits
  <2>4. DOMAIN messages' = {}
    OBVIOUS
  <2> QED BY <2>3, <2>4 DEF AnswersFollow
<1> QED BY <1>1, <1>2, <1>3 DEF BsInv

LEMMA BsInvStep == ASSUME BsInv, [BsNext]_bsVars PROVE BsInv'
<1>1. CASE UNCHANGED bsVars
  <2> USE <1>1 DEF bsVars, mountVars, talkVars, streamVars, startVars, resetVars
  <2>1. BsTypeOK'
    BY DEF BsInv, BsTypeOK
  <2>2. QuestionsKept'
    BY QuestionsRest DEF BsInv
  <2>3. OneWaits' <=> OneWaits
    BY LastRests DEF OneWaits
  <2>4. OneAtATime'
    BY <2>3, FollowRests, OneAtATimeIs, OneAtATimeWillBe DEF BsInv
  <2> QED BY <2>1, <2>2, <2>4 DEF BsInv
<1>2. CASE Mounts \/ LeavesBrainstorm \/ Hydrates \/ Rerenders
  BY <1>2, MountsKeeps, PageRestsKeeps, HydratesKeeps
<1>3. CASE Submit \/ SkipStream \/ DoReset
  BY <1>3, SubmitKeeps, SkipStreamKeeps, DoResetKeeps
<1>4. ASSUME NEW b \in BOOLEAN, HistoryArrives(b) \/ Launch(b) PROVE BsInv'
  BY <1>4, HistoryKeeps, PageRestsKeeps
<1>5. ASSUME NEW b \in launching, NEW ok \in BOOLEAN, Launched(b, ok) PROVE BsInv'
  BY <1>5, PageRestsKeeps
<1>6. ASSUME NEW n \in 0 .. MaxQuestions, LoomAnswers(n) \/ Ticks(n) \/ Typed(n) PROVE BsInv'
  BY <1>6, LoomAnswersKeeps, TypedKeeps, PageRestsKeeps
<1> QED BY <1>1, <1>2, <1>3, <1>4, <1>5, <1>6 DEF BsNext

\* However answers, timers, the history, resets and mounts cross: what was asked since the last reset
\* makes the brief, and an answer follows its question (BrainstormPage.tsx).
THEOREM ConversationIsKeptHolds == BsSpec => [](BsTypeOK /\ ConversationIsKept)
<1> QED BY BsInvInit, BsInvStep, BsInvImplies, PTL DEF BsSpec

-----------------------------------------------------------------------------
(* The conversation beside a workflow                                      *)

\* How often an entry is said, when something more is.
LEMMA TimesIsNat == ASSUME NEW S, NEW s \in Seq(S), NEW e PROVE Times(e, s) \in Nat /\ IsFiniteSet({i \in DOMAIN s : s[i] = e})
<1> DEFINE places == {i \in DOMAIN s : s[i] = e}
<1>1. DOMAIN s = 1 .. Len(s) /\ Len(s) \in Nat
  BY LenProperties
<1>2. IsFiniteSet(1 .. Len(s))
  BY <1>1, FS_Interval
<1>3. places \in SUBSET (1 .. Len(s))
  BY <1>1
<1>4. IsFiniteSet(places)
  BY <1>2, <1>3, FS_Subset
<1>5. Cardinality(places) \in Nat
  BY <1>4, FS_CardinalityType
<1> QED BY <1>4, <1>5 DEF Times

LEMMA TimesAppend ==
  ASSUME NEW S, NEW s \in Seq(S), NEW x \in S, NEW e
  PROVE  Times(e, Append(s, x)) = Times(e, s) + (IF e = x THEN 1 ELSE 0)
<1> DEFINE t == Append(s, x)
           n == Len(s) + 1
           places(r) == {i \in DOMAIN r : r[i] = e}
<1>1. /\ Len(s) \in Nat /\ DOMAIN s = 1 .. Len(s) /\ DOMAIN t = 1 .. n
      /\ \A i \in 1 .. Len(s) : t[i] = s[i]
      /\ t[n] = x
  BY AppendProperties, LenProperties
<1>2. IsFiniteSet(places(s)) /\ Cardinality(places(s)) \in Nat
  BY TimesIsNat DEF Times
<1> HIDE DEF t
<1>3. n \in 1 .. n /\ n \notin places(s)
  BY <1>1
<1>4. ASSUME NEW i \in places(s) PROVE i \in places(t)
  BY <1>1
<1>5. ASSUME NEW i \in places(t), i # n PROVE i \in places(s)
  <2>1. i \in 1 .. Len(s)
    BY <1>1, <1>5
  <2> QED BY <1>1, <2>1
<1>6. CASE e = x
  <2>1. n \in places(t)
    BY <1>1, <1>3, <1>6
  <2>2. places(t) = places(s) \cup {n}
    BY <1>4, <1>5, <2>1
  <2>3. Cardinality(places(t)) = Cardinality(places(s)) + 1
    BY <1>2, <1>3, <2>2, FS_AddElement
  <2> QED BY <1>6, <2>3 DEF Times, t
<1>7. CASE e # x
  <2>1. n \notin places(t)
    BY <1>1, <1>7
  <2>2. places(t) = places(s)
    BY <1>4, <1>5, <2>1
  <2>3. Times(e, Append(s, x)) = Cardinality(places(t)) /\ Times(e, s) = Cardinality(places(s))
    BY DEF Times, t
  <2> HIDE DEF places
  <2> QED BY <1>2, <1>7, <2>2, <2>3
<1> QED BY <1>6, <1>7

LEMMA TimesNone == ASSUME NEW e PROVE Times(e, <<>>) = 0
<1>1. {i \in DOMAIN <<>> : <<>>[i] = e} = {}
  OBVIOUS
<1> QED BY <1>1, FS_EmptySet DEF Times

LEMMA TimesIn == ASSUME NEW S, NEW s \in Seq(S), NEW i \in DOMAIN s PROVE Times(s[i], s) >= 1
<1> DEFINE places == {j \in DOMAIN s : s[j] = s[i]}
<1>1. IsFiniteSet(places) /\ Cardinality(places) \in Nat /\ Times(s[i], s) = Cardinality(places)
  BY TimesIsNat DEF Times
<1>2. places # {}
  OBVIOUS
<1> HIDE DEF places
<1>3. Cardinality(places) # 0
  BY <1>1, <1>2, FS_EmptySet
<1> QED BY <1>1, <1>3

LEMMA EntriesDiffer ==
  /\ \A m \in Messages : User(m) \in Entries /\ Loom(m) \in Entries
  /\ \A m, k : (User(m) = User(k) => m = k) /\ (Loom(m) = Loom(k) => m = k) /\ User(m) # Loom(k)
<1>1. \A m \in Messages : User(m) \in Entries /\ Loom(m) \in Entries
  BY DEF User, Loom, Entries
<1>2. \A m : User(m).of = m /\ Loom(m).of = m /\ User(m).by = "user" /\ Loom(m).by = "loom"
  BY DEF User, Loom
<1> QED BY <1>1, <1>2

-----------------------------------------------------------------------------
Stations == {"unsaid", "asked", "heard", "answered", "refused", "shown"}
Posts == [at : Stations, visit : 0 .. ChatActs]
HistoryCalls == [at : {"none", "asked", "answered", "over"}, saw : Seq(Entries)]

PanelShape ==
  /\ nthVisit \in 0 .. ChatActs /\ here \in BOOLEAN /\ sending \in BOOLEAN /\ loomThinks \in BOOLEAN
  /\ told \in Seq(Entries) /\ said \in Seq(Entries)
  /\ post \in [Messages -> Posts] /\ load \in [Visits -> HistoryCalls]
  /\ typing \subseteq Messages /\ bubble \in {0} \cup typing /\ late \subseteq Visits

\* The messages are written one after the other, each on a visit there was.
WrittenInOrder ==
  /\ \E k \in 0 .. ChatActs - 1 : \A m \in Messages : post[m].at # "unsaid" <=> m <= k
  /\ \A m \in Messages : IF post[m].at = "unsaid" THEN post[m].visit = 0 ELSE post[m].visit \in 1 .. nthVisit

\* Nobody waits on a page that is not there.
FlagsAreOfThePage ==
  /\ IF here THEN nthVisit \in Visits ELSE ~sending /\ ~loomThinks
  /\ here /\ (loomThinks \/ sending) => \E m \in Messages : InFlight(m) /\ post[m].visit = nthVisit

\* What is told is told once, and as far as its call has come.
ToldOnce ==
  \A m \in Messages :
    /\ Times(User(m), told) <= 1 /\ Times(Loom(m), told) <= 1
    /\ post[m].at \in {"unsaid", "asked"} => Times(User(m), told) = 0
    /\ post[m].at \in {"unsaid", "asked", "heard"} => Times(Loom(m), told) = 0
    /\ post[m].at = "answered" => Times(Loom(m), told) = 1

SeenWasTold == \A v \in Visits : \A e \in Entries : Times(e, load[v].saw) <= Times(e, told)

\* A page that had its history in time shows that, and once what was said since.
WrittenHere(m) ==
  /\ Times(User(m), said) = 1
  /\ Times(Loom(m), said) <= Times(Loom(m), told)
  /\ InFlight(m) => Times(Loom(m), said) = 0
WrittenBefore(m) ==
  /\ Times(User(m), said) = Times(User(m), load[nthVisit].saw)
  /\ Times(Loom(m), said) = Times(Loom(m), load[nthVisit].saw)
HasHistory == here /\ load[nthVisit].at = "over" /\ nthVisit \notin late
ShowsHistory ==
  HasHistory => \A m \in Messages : IF post[m].visit = nthVisit THEN WrittenHere(m) ELSE WrittenBefore(m)

PanelInv ==
  PanelShape /\ WrittenInOrder /\ FlagsAreOfThePage /\ ToldOnce /\ SeenWasTold /\ ShowsHistory

LEMMA PanelInvInit == PanelInit => PanelInv
<1> SUFFICES ASSUME PanelInit PROVE PanelInv
  OBVIOUS
<1> USE DEF PanelInit
<1>0. ChatActs \in Nat /\ ChatActs # 0
  BY PanelAssumption
<1>1. <<>> \in Seq(Entries)
  OBVIOUS
<1>2. PanelShape
  <2>1. post \in [Messages -> Posts]
    BY <1>0 DEF Posts, Stations
  <2>2. load \in [Visits -> HistoryCalls]
    BY <1>1 DEF HistoryCalls
  <2>3. nthVisit \in 0 .. ChatActs
    BY <1>0
  <2>4. here \in BOOLEAN /\ sending \in BOOLEAN /\ loomThinks \in BOOLEAN /\ told \in Seq(Entries) /\ said \in Seq(Entries)
    BY <1>1
  <2>5. typing \subseteq Messages /\ bubble \in {0} \cup typing /\ late \subseteq Visits
    OBVIOUS
  <2> QED BY <2>1, <2>2, <2>3, <2>4, <2>5, Zenon DEF PanelShape
<1>3. WrittenInOrder
  <2>1. \A m \in Messages : post[m].at = "unsaid" /\ post[m].visit = 0
    OBVIOUS
  <2>2. 0 \in 0 .. ChatActs - 1 /\ \A m \in Messages : ~(m <= 0)
    BY <1>0 DEF Messages
  <2> QED BY <2>1, <2>2 DEF WrittenInOrder
<1>4. FlagsAreOfThePage /\ ShowsHistory
  BY DEF FlagsAreOfThePage, ShowsHistory, HasHistory
<1>5. ToldOnce
  <2>1. \A m \in Messages : Times(User(m), told) = 0 /\ Times(Loom(m), told) = 0 /\ post[m].at = "unsaid"
    BY TimesNone
  <2> QED BY <2>1 DEF ToldOnce
<1>6. SeenWasTold
  <2>1. ASSUME NEW v \in Visits, NEW e \in Entries PROVE Times(e, load[v].saw) = 0 /\ Times(e, told) = 0
    BY TimesNone
  <2> QED BY <2>1 DEF SeenWasTold
<1> QED BY <1>2, <1>3, <1>4, <1>5, <1>6 DEF PanelInv

LEMMA PanelInvImplies == PanelInv => PanelTypeOK /\ PanelIsTrue
<1> SUFFICES ASSUME PanelInv PROVE PanelTypeOK /\ PanelIsTrue
  OBVIOUS
<1>1. PanelShape /\ WrittenInOrder /\ FlagsAreOfThePage /\ ToldOnce /\ SeenWasTold /\ ShowsHistory
  BY DEF PanelInv
<1>2. PanelTypeOK
  <2>1. post \in [Messages -> [at : {"unsaid", "asked", "heard", "answered", "refused", "shown"}, visit : 0 .. ChatActs]]
    BY <1>1 DEF PanelShape, Posts, Stations
  <2>2. \A v \in Visits : load[v].at \in {"none", "asked", "answered", "over"} /\ load[v].saw \in Seq(Entries)
    BY <1>1 DEF PanelShape, HistoryCalls
  <2> QED BY <1>1, <2>1, <2>2, Zenon DEF PanelShape, PanelTypeOK
<1>3. ShownOnce
  <2> SUFFICES ASSUME NEW m \in Messages, here, post[m].visit = nthVisit, nthVisit \notin late, load[nthVisit].at = "over"
               PROVE  Times(User(m), said) = 1 /\ Times(Loom(m), said) <= Times(Loom(m), told)
    BY DEF ShownOnce
  <2> QED BY <1>1 DEF ShowsHistory, HasHistory, WrittenHere
<1>4. EarlierIsShown
  <2> SUFFICES ASSUME NEW m \in Messages, here, load[nthVisit].at = "over", nthVisit \notin late,
                      post[m].visit \in 1 .. nthVisit - 1,
                      NEW i \in DOMAIN load[nthVisit].saw, User(m) = load[nthVisit].saw[i]
               PROVE  /\ Times(User(m), said) = 1
                      /\ Times(Loom(m), said) = Times(Loom(m), load[nthVisit].saw)
    BY DEF EarlierIsShown
  <2>1. nthVisit \in Visits /\ nthVisit \in Nat /\ post[m].visit # nthVisit
    BY <1>1 DEF FlagsAreOfThePage, PanelShape
  <2>2. WrittenBefore(m)
    BY <1>1, <2>1 DEF ShowsHistory, HasHistory
  <2>3. load[nthVisit].saw \in Seq(Entries) /\ told \in Seq(Entries)
    BY <1>1, <2>1 DEF PanelShape, HistoryCalls
  <2>4. Times(User(m), load[nthVisit].saw) >= 1 /\ Times(User(m), load[nthVisit].saw) \in Nat
    BY <2>3, TimesIn, TimesIsNat
  <2>5. Times(User(m), load[nthVisit].saw) <= Times(User(m), told) /\ Times(User(m), told) <= 1 /\ Times(User(m), told) \in Nat
    BY <1>1, <2>1, <2>3, EntriesDiffer, TimesIsNat DEF SeenWasTold, ToldOnce
  <2>6. Times(User(m), load[nthVisit].saw) = 1
    BY <2>4, <2>5
  <2> QED BY <2>2, <2>6 DEF WrittenBefore
<1>5. NobodyWaitsForNothing
  BY <1>1 DEF FlagsAreOfThePage, PanelShape, NobodyWaitsForNothing
<1> QED BY <1>2, <1>3, <1>4, <1>5 DEF PanelIsTrue

-----------------------------------------------------------------------------
LEMMA OpenChatKeeps == ASSUME PanelInv, OpenChat PROVE PanelInv'
<1> USE DEF OpenChat
<1>0. PanelShape /\ WrittenInOrder /\ FlagsAreOfThePage /\ ToldOnce /\ SeenWasTold
  BY DEF PanelInv
<1>1. nthVisit \in Nat /\ ChatActs \in Nat /\ nthVisit' = nthVisit + 1 /\ nthVisit' \in Visits /\ nthVisit' \in 0 .. ChatActs
  BY <1>0, PanelAssumption DEF PanelShape, Visits
<1>2. /\ load' \in [Visits -> HistoryCalls] /\ load'[nthVisit'].at = "asked"
      /\ \A v \in Visits : load'[v].saw = load[v].saw
  BY <1>0, <1>1 DEF PanelShape, HistoryCalls
<1>3. PanelShape'
  BY <1>0, <1>1, <1>2 DEF PanelShape
<1>4. WrittenInOrder'
  <2>1. ASSUME NEW m \in Messages, post[m].visit \in 1 .. nthVisit PROVE post[m].visit \in 1 .. nthVisit'
    BY <1>1, <2>1
  <2> QED BY <1>0, <2>1 DEF WrittenInOrder
<1>5. FlagsAreOfThePage'
  BY <1>0, <1>1 DEF FlagsAreOfThePage
<1>6. ToldOnce'
  BY <1>0 DEF ToldOnce
<1>7. SeenWasTold'
  BY <1>0, <1>2 DEF SeenWasTold
<1>8. ShowsHistory'
  BY <1>2 DEF ShowsHistory, HasHistory
<1> QED BY <1>3, <1>4, <1>5, <1>6, <1>7, <1>8 DEF PanelInv

LEMMA LeaveChatKeeps == ASSUME PanelInv, LeaveChat PROVE PanelInv'
<1> USE DEF LeaveChat
<1>0. PanelShape /\ WrittenInOrder /\ ToldOnce /\ SeenWasTold
  BY DEF PanelInv
<1>1. PanelShape'
  <2>1. said' \in Seq(Entries)
    OBVIOUS
  <2>2. here' \in BOOLEAN /\ sending' \in BOOLEAN /\ loomThinks' \in BOOLEAN
    OBVIOUS
  <2>3. typing' \subseteq Messages /\ bubble' \in {0} \cup typing'
    OBVIOUS
  <2> QED BY <1>0, <2>1, <2>2, <2>3, Zenon DEF PanelShape
<1>2. WrittenInOrder' /\ ToldOnce' /\ SeenWasTold'
  BY <1>0 DEF WrittenInOrder, ToldOnce, SeenWasTold
<1>3. FlagsAreOfThePage' /\ ShowsHistory'
  BY DEF FlagsAreOfThePage, ShowsHistory, HasHistory
<1> QED BY <1>1, <1>2, <1>3 DEF PanelInv

\* What has been said is counted up to the last message.
LEMMA SaidIsLast ==
  ASSUME PanelInv
  PROVE  Said \in 0 .. ChatActs - 1 /\ \A m \in Messages : post[m].at # "unsaid" <=> m <= Said
<1>1. PICK k \in 0 .. ChatActs - 1 : \A m \in Messages : post[m].at # "unsaid" <=> m <= k
  BY DEF PanelInv, WrittenInOrder
<1>2. k \in Nat /\ k <= ChatActs - 1 /\ ChatActs \in Nat
  BY PanelAssumption
<1>3. {m \in Messages : post[m].at # "unsaid"} = 1 .. k
  <2>1. \A m : m \in Messages /\ m <= k <=> m \in 1 .. k
    BY <1>2 DEF Messages
  <2> QED BY <1>1, <2>1
<1>4. Cardinality(1 .. k) = k
  BY <1>2, FS_Interval
<1>5. Said = k
  BY <1>3, <1>4 DEF Said
<1> QED BY <1>1, <1>5

LEMMA WritesKeeps == ASSUME PanelInv, NEW m \in Messages, UserWrites(m) PROVE PanelInv'
<1> USE DEF UserWrites
<1>0. PanelShape /\ WrittenInOrder /\ FlagsAreOfThePage /\ ToldOnce /\ SeenWasTold /\ ShowsHistory
  BY DEF PanelInv
<1>1. nthVisit \in Visits /\ nthVisit \in Nat /\ nthVisit >= 1 /\ nthVisit \in 0 .. ChatActs
  BY <1>0, PanelAssumption DEF FlagsAreOfThePage, PanelShape, Visits
<1>2. Said \in 0 .. ChatActs - 1 /\ m = Said + 1 /\ m \in 0 .. ChatActs - 1 /\ m \in Nat
  BY SaidIsLast, PanelAssumption DEF Messages
<1>3. \A k \in Messages : post[k].at # "unsaid" <=> k <= Said
  BY SaidIsLast
<1>4. post[m].at = "unsaid" /\ post[m].visit = 0
  BY <1>0, <1>2, <1>3 DEF WrittenInOrder
<1>5. /\ post' \in [Messages -> Posts] /\ post'[m].at = "asked" /\ post'[m].visit = nthVisit
      /\ \A k \in Messages : k # m => post'[k] = post[k]
  <2>1. [at |-> "asked", visit |-> nthVisit] \in Posts
    BY <1>1 DEF Posts, Stations
  <2>2. post' = [post EXCEPT ![m] = [at |-> "asked", visit |-> nthVisit]] /\ post \in [Messages -> Posts]
    BY <1>0 DEF PanelShape
  <2> QED BY <2>1, <2>2
<1>6. said' \in Seq(Entries) /\ User(m) \in Entries /\ said \in Seq(Entries) /\ said' = Append(said, User(m))
  BY <1>0, EntriesDiffer, AppendProperties DEF PanelShape
<1>7. PanelShape'
  BY <1>0, <1>5, <1>6 DEF PanelShape
<1>8. WrittenInOrder'
  <2>1. ASSUME NEW k \in Messages PROVE post'[k].at # "unsaid" <=> k <= m
    <3>1. k \in Nat
      BY PanelAssumption DEF Messages
    <3> QED BY <1>2, <1>3, <1>5, <3>1
  <2>2. ASSUME NEW k \in Messages PROVE IF post'[k].at = "unsaid" THEN post'[k].visit = 0 ELSE post'[k].visit \in 1 .. nthVisit'
    BY <1>0, <1>1, <1>5 DEF WrittenInOrder
  <2> QED BY <1>2, <2>1, <2>2 DEF WrittenInOrder
<1>9. FlagsAreOfThePage'
  <2>1. InFlight(m)' /\ post'[m].visit = nthVisit'
    BY <1>5 DEF InFlight
  <2> QED BY <1>1, <2>1 DEF FlagsAreOfThePage
<1>10. ToldOnce'
  BY <1>0, <1>4, <1>5 DEF ToldOnce
<1>11. SeenWasTold'
  BY <1>0 DEF SeenWasTold
<1>12. ShowsHistory'
  <2> SUFFICES ASSUME HasHistory, NEW k \in Messages
               PROVE  IF post'[k].visit = nthVisit THEN WrittenHere(k)' ELSE WrittenBefore(k)'
    BY DEF ShowsHistory, HasHistory
  <2>1. IF post[k].visit = nthVisit THEN WrittenHere(k) ELSE WrittenBefore(k)
    BY <1>0 DEF ShowsHistory
  <2>2. /\ Times(User(k), said') = Times(User(k), said) + (IF User(k) = User(m) THEN 1 ELSE 0)
        /\ Times(Loom(k), said') = Times(Loom(k), said) + (IF Loom(k) = User(m) THEN 1 ELSE 0)
        /\ Times(User(k), said) \in Nat /\ Times(Loom(k), said) \in Nat
    <3>1. \A e : Times(e, Append(said, User(m))) = Times(e, said) + (IF e = User(m) THEN 1 ELSE 0)
      BY <1>6, TimesAppend
    <3>2. \A e : Times(e, said) \in Nat
      BY <1>6, TimesIsNat
    <3>3. said' = Append(said, User(m))
      BY <1>6
    <3> QED BY <3>1, <3>2, <3>3, Zenon
  <2>3. Loom(k) # User(m) /\ (User(k) = User(m) <=> k = m)
    BY EntriesDiffer
  <2>4. CASE k # m
    <3>1. Times(User(k), said') = Times(User(k), said) /\ Times(Loom(k), said') = Times(Loom(k), said) /\ post'[k] = post[k]
      BY <1>5, <2>2, <2>3, <2>4
    <3> QED BY <2>1, <3>1 DEF WrittenHere, WrittenBefore, InFlight
  <2>5. CASE k = m
    <3>1. Times(User(m), load[nthVisit].saw) <= Times(User(m), told) /\ Times(User(m), told) = 0
      BY <1>0, <1>1, <1>4, EntriesDiffer DEF SeenWasTold, ToldOnce
    <3>2. Times(Loom(m), load[nthVisit].saw) <= Times(Loom(m), told) /\ Times(Loom(m), told) = 0
      BY <1>0, <1>1, <1>4, EntriesDiffer DEF SeenWasTold, ToldOnce
    <3>3. WrittenBefore(m)
      BY <1>1, <1>4, <2>1, <2>5
    <3>4. Times(User(m), said) = 0 /\ Times(Loom(m), said) = 0
      BY <2>2, <2>5, <3>1, <3>2, <3>3 DEF WrittenBefore
    <3>5. Times(User(m), said') = 1 /\ Times(Loom(m), said') = 0
      BY <2>2, <2>3, <2>5, <3>4
    <3> QED BY <1>5, <2>5, <3>2, <3>5 DEF WrittenHere
  <2> QED BY <2>4, <2>5
<1> QED BY <1>7, <1>8, <1>9, <1>10, <1>11, <1>12 DEF PanelInv

\* A call comes further.
LEMMA PostMoves ==
  ASSUME PanelInv, NEW m \in Messages, NEW x \in Stations, x # "unsaid", post[m].at # "unsaid",
         post' = [post EXCEPT ![m].at = x], nthVisit' = nthVisit
  PROVE  /\ post' \in [Messages -> Posts] /\ WrittenInOrder'
         /\ post'[m].at = x /\ post'[m].visit = post[m].visit
         /\ \A k \in Messages : post'[k].visit = post[k].visit /\ (k # m => post'[k].at = post[k].at)
<1>0. post \in [Messages -> Posts] /\ WrittenInOrder
  BY DEF PanelInv, PanelShape
<1>1. /\ post' \in [Messages -> Posts]
      /\ post'[m].at = x /\ post'[m].visit = post[m].visit
      /\ \A k \in Messages : k # m => post'[k] = post[k]
  BY <1>0 DEF Posts
<1>2. \A k \in Messages : post'[k].visit = post[k].visit /\ (k # m => post'[k].at = post[k].at)
  BY <1>1
<1>3. \A k \in Messages : post'[k].at = "unsaid" <=> post[k].at = "unsaid"
  BY <1>1
<1>4. WrittenInOrder'
  BY <1>0, <1>2, <1>3 DEF WrittenInOrder
<1> QED BY <1>1, <1>2, <1>4

LEMMA ReplyKeeps == ASSUME PanelInv, NEW m \in Messages, ReplyShown(m) PROVE PanelInv'
<1> DEFINE shows == here /\ post[m].visit = nthVisit
           answers == shows /\ post[m].at = "answered"
<1>0. PanelShape /\ WrittenInOrder /\ FlagsAreOfThePage /\ ToldOnce /\ SeenWasTold /\ ShowsHistory
  BY DEF PanelInv
<1>1. /\ post[m].at \in {"answered", "refused"} /\ post' = [post EXCEPT ![m].at = "shown"]
      /\ UNCHANGED <<nthVisit, here, told, load, late>>
      /\ said' = IF answers THEN Append(said, Loom(m)) ELSE said
  BY DEF ReplyShown
<1>2. /\ shows => sending' = FALSE /\ loomThinks' = FALSE /\ typing' = typing \cup {m} /\ bubble' = m
      /\ ~shows => UNCHANGED <<sending, loomThinks, typing, bubble>>
  BY DEF ReplyShown
<1>3. /\ post' \in [Messages -> Posts] /\ WrittenInOrder'
      /\ post'[m].at = "shown"
      /\ \A k \in Messages : post'[k].visit = post[k].visit /\ (k # m => post'[k].at = post[k].at)
  BY <1>1, PostMoves DEF Stations
<1>4. said' \in Seq(Entries) /\ Loom(m) \in Entries /\ said \in Seq(Entries)
  BY <1>0, <1>1, EntriesDiffer, AppendProperties DEF PanelShape
<1>5. PanelShape'
  BY <1>0, <1>1, <1>2, <1>3, <1>4 DEF PanelShape
<1>6. FlagsAreOfThePage'
  <2>1. CASE shows
    BY <1>0, <1>1, <1>2, <2>1 DEF FlagsAreOfThePage
  <2>2. CASE ~shows
    <3>1. ASSUME here, loomThinks \/ sending PROVE \E k \in Messages : InFlight(k)' /\ post'[k].visit = nthVisit'
      <4>1. PICK k \in Messages : InFlight(k) /\ post[k].visit = nthVisit
        BY <1>0, <3>1 DEF FlagsAreOfThePage
      <4>2. k # m
        BY <2>2, <3>1, <4>1
      <4>3. InFlight(k)' /\ post'[k].visit = nthVisit'
        BY <1>1, <1>3, <4>1, <4>2 DEF InFlight
      <4> QED BY <4>3
    <3> HIDE DEF shows
    <3> QED BY <1>0, <1>1, <1>2, <2>2, <3>1 DEF FlagsAreOfThePage
  <2> QED BY <2>1, <2>2
<1>7. ToldOnce'
  BY <1>0, <1>1, <1>3 DEF ToldOnce
<1>8. SeenWasTold'
  BY <1>0, <1>1 DEF SeenWasTold
<1>9. ShowsHistory'
  <2> SUFFICES ASSUME HasHistory, NEW k \in Messages
               PROVE  IF post'[k].visit = nthVisit THEN WrittenHere(k)' ELSE WrittenBefore(k)'
    BY <1>1 DEF ShowsHistory, HasHistory
  <2>1. IF post[k].visit = nthVisit THEN WrittenHere(k) ELSE WrittenBefore(k)
    BY <1>0 DEF ShowsHistory
  <2>2. /\ Times(User(k), Append(said, Loom(m))) = Times(User(k), said) + (IF User(k) = Loom(m) THEN 1 ELSE 0)
        /\ Times(Loom(k), Append(said, Loom(m))) = Times(Loom(k), said) + (IF Loom(k) = Loom(m) THEN 1 ELSE 0)
        /\ Times(User(k), said) \in Nat /\ Times(Loom(k), said) \in Nat
    BY <1>4, TimesAppend, TimesIsNat
  <2>3. User(k) # Loom(m) /\ (Loom(k) = Loom(m) <=> k = m)
    BY EntriesDiffer
  <2>4. CASE k # m \/ ~answers
    <3>1. Times(User(k), said') = Times(User(k), said) /\ Times(Loom(k), said') = Times(Loom(k), said)
      BY <1>1, <2>2, <2>3, <2>4
    <3>2. InFlight(k)' => InFlight(k)
      BY <1>1, <1>3 DEF InFlight
    <3> QED BY <1>1, <1>3, <2>1, <3>1, <3>2 DEF WrittenHere, WrittenBefore
  <2>5. CASE k = m /\ answers
    <3>1. WrittenHere(m) /\ InFlight(m) /\ Times(Loom(m), told) = 1
      BY <1>0, <2>1, <2>5 DEF InFlight, ToldOnce
    <3>2. Times(User(m), said') = 1 /\ Times(Loom(m), said') = 1
      BY <1>1, <2>2, <2>3, <2>5, <3>1 DEF WrittenHere
    <3>3. ~InFlight(m)'
      BY <1>3 DEF InFlight
    <3> QED BY <1>1, <1>3, <2>5, <3>1, <3>2, <3>3 DEF WrittenHere
  <2> QED BY <2>4, <2>5
<1> QED BY <1>3, <1>5, <1>6, <1>7, <1>8, <1>9 DEF PanelInv

LEMMA TypedOutKeeps == ASSUME PanelInv, NEW m \in Messages, TypedOut(m) PROVE PanelInv'
<1> USE DEF TypedOut
<1>0. PanelShape /\ WrittenInOrder /\ FlagsAreOfThePage /\ ToldOnce /\ SeenWasTold /\ ShowsHistory
  BY DEF PanelInv
<1>1. PanelShape'
  BY <1>0 DEF PanelShape
<1>2. WrittenInOrder' /\ ToldOnce' /\ SeenWasTold'
  BY <1>0 DEF WrittenInOrder, ToldOnce, SeenWasTold
<1>3. FlagsAreOfThePage'
  BY <1>0 DEF FlagsAreOfThePage, InFlight
<1>4. ShowsHistory'
  BY <1>0 DEF ShowsHistory, HasHistory, WrittenHere, WrittenBefore, InFlight
<1> QED BY <1>1, <1>2, <1>3, <1>4 DEF PanelInv

\* The answer to a call for the history comes.
LEMMA LoadMoves ==
  ASSUME PanelInv, NEW v \in Visits, NEW x \in {"none", "asked", "answered", "over"}, load' = [load EXCEPT ![v].at = x]
  PROVE  /\ load' \in [Visits -> HistoryCalls] /\ load'[v].at = x
         /\ \A w \in Visits : load'[w].saw = load[w].saw /\ (w # v => load'[w].at = load[w].at)
<1>1. load \in [Visits -> HistoryCalls]
  BY DEF PanelInv, PanelShape
<1>2. /\ load' \in [Visits -> HistoryCalls] /\ load'[v].at = x /\ load'[v].saw = load[v].saw
      /\ \A w \in Visits : w # v => load'[w] = load[w]
  BY <1>1 DEF HistoryCalls
<1> QED BY <1>2

LEMMA LoadedKeeps == ASSUME PanelInv, NEW v \in Visits, HistoryLoaded(v) PROVE PanelInv'
<1> USE DEF HistoryLoaded
<1>0. PanelShape /\ WrittenInOrder /\ FlagsAreOfThePage /\ ToldOnce /\ SeenWasTold /\ ShowsHistory
  BY DEF PanelInv
<1>1. /\ load' \in [Visits -> HistoryCalls] /\ load'[v].at = "over"
      /\ \A w \in Visits : load'[w].saw = load[w].saw /\ (w # v => load'[w].at = load[w].at)
  BY LoadMoves
<1>2. PanelShape'
  <2>1. load[v].saw \in Seq(Entries)
    BY <1>0 DEF PanelShape, HistoryCalls
  <2>2. said' \in Seq(Entries) /\ late' \subseteq Visits
    BY <1>0, <2>1 DEF PanelShape
  <2> QED BY <1>0, <1>1, <2>2 DEF PanelShape
<1>3. WrittenInOrder' /\ ToldOnce'
  BY <1>0 DEF WrittenInOrder, ToldOnce
<1>4. SeenWasTold'
  BY <1>0, <1>1 DEF SeenWasTold
<1>5. FlagsAreOfThePage'
  BY <1>0 DEF FlagsAreOfThePage, InFlight
<1>6. ShowsHistory'
  <2> SUFFICES ASSUME here, load'[nthVisit].at = "over", nthVisit \notin late', NEW m \in Messages
               PROVE  IF post[m].visit = nthVisit THEN WrittenHere(m)' ELSE WrittenBefore(m)'
    BY DEF ShowsHistory, HasHistory
  <2>1. nthVisit \in Visits
    BY <1>0 DEF FlagsAreOfThePage
  <2>2. CASE v = nthVisit
    <3>1. post[m].visit # nthVisit /\ said' = load[v].saw
      BY <2>2
    <3> QED BY <1>1, <2>1, <2>2, <3>1 DEF WrittenBefore
  <2>3. CASE v # nthVisit
    <3>1. HasHistory /\ said' = said
      BY <1>1, <2>1, <2>3 DEF HasHistory
    <3>2. IF post[m].visit = nthVisit THEN WrittenHere(m) ELSE WrittenBefore(m)
      BY <1>0, <3>1 DEF ShowsHistory
    <3> QED BY <1>1, <2>1, <3>1, <3>2 DEF WrittenHere, WrittenBefore, InFlight
  <2> QED BY <2>2, <2>3
<1> QED BY <1>2, <1>3, <1>4, <1>5, <1>6 DEF PanelInv

LEMMA HistoryFailsKeeps == ASSUME PanelInv, NEW v \in Visits, HistoryFails(v) PROVE PanelInv'
<1> USE DEF HistoryFails
<1>0. PanelShape /\ WrittenInOrder /\ FlagsAreOfThePage /\ ToldOnce /\ SeenWasTold /\ ShowsHistory
  BY DEF PanelInv
<1>1. /\ load' \in [Visits -> HistoryCalls] /\ load'[v].at = "over"
      /\ \A w \in Visits : load'[w].saw = load[w].saw /\ (w # v => load'[w].at = load[w].at)
  BY LoadMoves
<1>2. PanelShape'
  BY <1>0, <1>1 DEF PanelShape
<1>3. WrittenInOrder' /\ ToldOnce'
  BY <1>0 DEF WrittenInOrder, ToldOnce
<1>4. SeenWasTold'
  BY <1>0, <1>1 DEF SeenWasTold
<1>5. FlagsAreOfThePage'
  BY <1>0 DEF FlagsAreOfThePage, InFlight
<1>6. ShowsHistory'
  <2> SUFFICES ASSUME here, load'[nthVisit].at = "over", nthVisit \notin late', NEW m \in Messages
               PROVE  IF post[m].visit = nthVisit THEN WrittenHere(m)' ELSE WrittenBefore(m)'
    BY DEF ShowsHistory, HasHistory
  <2>1. nthVisit \in Visits /\ v # nthVisit
    BY <1>0 DEF FlagsAreOfThePage
  <2>2. HasHistory
    BY <1>1, <2>1 DEF HasHistory
  <2>3. IF post[m].visit = nthVisit THEN WrittenHere(m) ELSE WrittenBefore(m)
    BY <1>0, <2>2 DEF ShowsHistory
  <2> QED BY <1>1, <2>1, <2>3 DEF WrittenHere, WrittenBefore, InFlight
<1> QED BY <1>2, <1>3, <1>4, <1>5, <1>6 DEF PanelInv

LEMMA HistoryReadKeeps == ASSUME PanelInv, NEW v \in Visits, HistoryRead(v) PROVE PanelInv'
<1> USE DEF HistoryRead
<1>0. PanelShape /\ WrittenInOrder /\ FlagsAreOfThePage /\ ToldOnce /\ SeenWasTold /\ ShowsHistory
  BY DEF PanelInv
<1>1. /\ load' \in [Visits -> HistoryCalls] /\ load'[v].at = "answered" /\ load'[v].saw = told
      /\ \A w \in Visits : w # v => load'[w] = load[w]
  <2>1. [at |-> "answered", saw |-> told] \in HistoryCalls /\ load \in [Visits -> HistoryCalls]
    BY <1>0 DEF PanelShape, HistoryCalls
  <2> QED BY <2>1
<1>2. PanelShape'
  BY <1>0, <1>1 DEF PanelShape
<1>3. WrittenInOrder' /\ ToldOnce'
  BY <1>0 DEF WrittenInOrder, ToldOnce
<1>4. SeenWasTold'
  <2>1. ASSUME NEW w \in Visits, NEW e \in Entries PROVE Times(e, load'[w].saw) <= Times(e, told')
    <3>1. CASE w = v
      <4>1. Times(e, told) \in Nat
        BY <1>0, TimesIsNat DEF PanelShape
      <4> QED BY <1>1, <3>1, <4>1
    <3>2. CASE w # v
      BY <1>0, <1>1, <3>2 DEF SeenWasTold
    <3> QED BY <3>1, <3>2
  <2> QED BY <2>1 DEF SeenWasTold
<1>5. FlagsAreOfThePage'
  BY <1>0 DEF FlagsAreOfThePage, InFlight
<1>6. ShowsHistory'
  <2> SUFFICES ASSUME here, load'[nthVisit].at = "over", nthVisit \notin late, NEW m \in Messages
               PROVE  IF post[m].visit = nthVisit THEN WrittenHere(m)' ELSE WrittenBefore(m)'
    BY DEF ShowsHistory, HasHistory
  <2>1. nthVisit \in Visits /\ v # nthVisit
    BY <1>0, <1>1 DEF FlagsAreOfThePage
  <2>2. HasHistory /\ load'[nthVisit] = load[nthVisit]
    BY <1>1, <2>1 DEF HasHistory
  <2>3. IF post[m].visit = nthVisit THEN WrittenHere(m) ELSE WrittenBefore(m)
    BY <1>0, <2>2 DEF ShowsHistory
  <2> QED BY <2>2, <2>3 DEF WrittenHere, WrittenBefore, InFlight
<1> QED BY <1>2, <1>3, <1>4, <1>5, <1>6 DEF PanelInv

\* The daemon tells what it was asked, or not: the page has not changed yet.
LEMMA DaemonKeeps ==
  ASSUME PanelInv, NEW m \in Messages, NEW x \in {"heard", "answered", "refused"}, InFlight(m),
         post' = [post EXCEPT ![m].at = x],
         \/ told' = told /\ x = "refused"
         \/ post[m].at = "asked" /\ x = "heard" /\ told' = Append(told, User(m))
         \/ post[m].at = "heard" /\ x \in {"answered", "refused"} /\ told' = Append(told, Loom(m)),
         UNCHANGED <<nthVisit, here, said, load, sending, loomThinks, typing, bubble, late>>
  PROVE  PanelInv'
<1>0. PanelShape /\ WrittenInOrder /\ FlagsAreOfThePage /\ ToldOnce /\ SeenWasTold /\ ShowsHistory
  BY DEF PanelInv
<1>1. /\ post' \in [Messages -> Posts] /\ WrittenInOrder'
      /\ post'[m].at = x
      /\ \A k \in Messages : post'[k].visit = post[k].visit /\ (k # m => post'[k].at = post[k].at)
  BY PostMoves DEF InFlight, Stations
<1>2. told \in Seq(Entries) /\ User(m) \in Entries /\ Loom(m) \in Entries
  BY <1>0, EntriesDiffer DEF PanelShape
<1>3. told' \in Seq(Entries)
  BY <1>2, AppendProperties
<1>4. PanelShape'
  BY <1>0, <1>1, <1>3 DEF PanelShape
<1>5. \A k \in Messages : InFlight(k)' <=> InFlight(k)
  BY <1>1 DEF InFlight
<1>6. FlagsAreOfThePage'
  BY <1>0, <1>1, <1>5 DEF FlagsAreOfThePage
<1>7. \A e : Times(e, told) \in Nat /\ Times(e, told') \in Nat
  BY <1>2, <1>3, TimesIsNat
<1>8. \A e : /\ Times(e, Append(told, User(m))) = Times(e, told) + (IF e = User(m) THEN 1 ELSE 0)
             /\ Times(e, Append(told, Loom(m))) = Times(e, told) + (IF e = Loom(m) THEN 1 ELSE 0)
  BY <1>2, TimesAppend
<1>a. told' = told \/ told' = Append(told, User(m)) \/ told' = Append(told, Loom(m))
  OBVIOUS
<1>9. \A e : Times(e, told) <= Times(e, told')
  <2>1. ASSUME NEW e, NEW y, Times(e, told') = Times(e, told) + (IF e = y THEN 1 ELSE 0) PROVE Times(e, told) <= Times(e, told')
    BY <1>7, <2>1
  <2>2. ASSUME NEW e, told' = told PROVE Times(e, told) <= Times(e, told')
    <3>1. Times(e, told) \in Nat /\ Times(e, told) = Times(e, told')
      BY <1>7, <2>2
    <3> QED BY <3>1
  <2>3. ASSUME NEW e, NEW y, y \in {User(m), Loom(m)}, told' = Append(told, y) PROVE Times(e, told) <= Times(e, told')
    <3>1. Times(e, told') = Times(e, told) + (IF e = y THEN 1 ELSE 0)
      BY <1>8, <2>3, Zenon
    <3> QED BY <2>1, <3>1
  <2> QED BY <1>a, <2>2, <2>3
<1>10. ToldOnce'
  <2> SUFFICES ASSUME NEW k \in Messages
               PROVE  /\ Times(User(k), told') <= 1 /\ Times(Loom(k), told') <= 1
                      /\ post'[k].at \in {"unsaid", "asked"} => Times(User(k), told') = 0
                      /\ post'[k].at \in {"unsaid", "asked", "heard"} => Times(Loom(k), told') = 0
                      /\ post'[k].at = "answered" => Times(Loom(k), told') = 1
    BY DEF ToldOnce
  <2>1. /\ Times(User(k), told) <= 1 /\ Times(Loom(k), told) <= 1
        /\ post[k].at \in {"unsaid", "asked"} => Times(User(k), told) = 0
        /\ post[k].at \in {"unsaid", "asked", "heard"} => Times(Loom(k), told) = 0
        /\ post[k].at = "answered" => Times(Loom(k), told) = 1
    BY <1>0 DEF ToldOnce
  <2>2. /\ User(k) # Loom(m) /\ Loom(k) # User(m) /\ (User(k) = User(m) <=> k = m) /\ (Loom(k) = Loom(m) <=> k = m)
    BY EntriesDiffer
  <2>3. CASE k # m
    <3>0. ASSUME NEW e, e # User(m), e # Loom(m) PROVE Times(e, told') = Times(e, told)
      <4>1. Times(e, Append(told, User(m))) = Times(e, told) + 0 /\ Times(e, Append(told, Loom(m))) = Times(e, told) + 0
        BY <1>8, <3>0, Zenon
      <4>2. Times(e, told) + 0 = Times(e, told)
        BY <1>7
      <4> QED BY <1>a, <4>1, <4>2, Zenon
    <3>1. Times(User(k), told') = Times(User(k), told) /\ Times(Loom(k), told') = Times(Loom(k), told)
      BY <2>2, <2>3, <3>0
    <3> QED BY <1>1, <2>1, <2>3, <3>1
  <2>4. CASE k = m /\ told' = told
    BY <1>1, <2>1, <2>4
  <2>5. CASE k = m /\ post[m].at = "asked" /\ x = "heard" /\ told' = Append(told, User(m))
    <3>1. Times(User(k), told') = 1 /\ Times(Loom(k), told') = 0
      BY <1>7, <1>8, <2>1, <2>2, <2>5
    <3> QED BY <1>1, <2>5, <3>1
  <2>6. CASE k = m /\ post[m].at = "heard" /\ x \in {"answered", "refused"} /\ told' = Append(told, Loom(m))
    <3>1. Times(User(k), told') <= 1 /\ Times(Loom(k), told') = 1
      BY <1>7, <1>8, <2>1, <2>2, <2>6
    <3> QED BY <1>1, <2>6, <3>1
  <2> QED BY <2>3, <2>4, <2>5, <2>6
<1>11. SeenWasTold'
  <2>1. ASSUME NEW v \in Visits, NEW e \in Entries PROVE Times(e, load[v].saw) <= Times(e, told')
    <3>1. Times(e, load[v].saw) <= Times(e, told)
      BY <1>0 DEF SeenWasTold
    <3>2. load[v].saw \in Seq(Entries)
      BY <1>0 DEF PanelShape, HistoryCalls
    <3>3. Times(e, load[v].saw) \in Nat
      BY <3>2, TimesIsNat
    <3> QED BY <1>7, <1>9, <3>1, <3>3
  <2> QED BY <2>1 DEF SeenWasTold
<1>12. ShowsHistory'
  <2> SUFFICES ASSUME HasHistory, NEW k \in Messages
               PROVE  IF post'[k].visit = nthVisit THEN WrittenHere(k)' ELSE WrittenBefore(k)'
    BY DEF ShowsHistory, HasHistory
  <2>1. IF post[k].visit = nthVisit THEN WrittenHere(k) ELSE WrittenBefore(k)
    BY <1>0 DEF ShowsHistory
  <2>2. Times(Loom(k), said) \in Nat
    BY <1>0, TimesIsNat DEF PanelShape
  <2>3. CASE post[k].visit = nthVisit
    <3>1. WrittenHere(k)
      BY <2>1, <2>3
    <3>2. Times(Loom(k), said) <= Times(Loom(k), told')
      BY <1>7, <1>9, <2>2, <3>1 DEF WrittenHere
    <3> QED BY <1>1, <1>5, <2>3, <3>1, <3>2 DEF WrittenHere
  <2>4. CASE post[k].visit # nthVisit
    BY <1>1, <2>1, <2>4 DEF WrittenBefore
  <2> QED BY <2>3, <2>4
<1> QED BY <1>1, <1>4, <1>6, <1>10, <1>11, <1>12 DEF PanelInv

LEMMA PanelInvStep == ASSUME PanelInv, [PanelNext]_panelVars PROVE PanelInv'
<1>1. CASE UNCHANGED panelVars
  BY <1>1 DEF panelVars, PanelInv, PanelShape, WrittenInOrder, FlagsAreOfThePage, ToldOnce, SeenWasTold, ShowsHistory,
              HasHistory, WrittenHere, WrittenBefore, InFlight
<1>2. CASE OpenChat \/ LeaveChat
  BY <1>2, OpenChatKeeps, LeaveChatKeeps
<1>3. ASSUME NEW m \in Messages, UserWrites(m) \/ ReplyShown(m) \/ TypedOut(m) PROVE PanelInv'
  BY <1>3, WritesKeeps, ReplyKeeps, TypedOutKeeps
<1>4. ASSUME NEW m \in Messages, Heard(m) PROVE PanelInv'
  BY <1>4, DaemonKeeps DEF Heard, InFlight
<1>5. ASSUME NEW m \in Messages, ChatAnswered(m) PROVE PanelInv'
  <2>1. PICK at \in {"answered", "refused"} : post' = [post EXCEPT ![m].at = at]
    BY <1>5 DEF ChatAnswered
  <2> QED BY <1>5, <2>1, DaemonKeeps DEF ChatAnswered, InFlight
<1>6. ASSUME NEW m \in Messages, Unanswered(m) PROVE PanelInv'
  BY <1>6, DaemonKeeps DEF Unanswered, InFlight
<1>7. ASSUME NEW v \in Visits, HistoryLoaded(v) \/ HistoryFails(v) \/ HistoryRead(v) PROVE PanelInv'
  BY <1>7, LoadedKeeps, HistoryFailsKeeps, HistoryReadKeeps
<1> QED BY <1>1, <1>2, <1>3, <1>4, <1>5, <1>6, <1>7 DEF PanelNext

\* However calls, answers and visits cross: what is written is shown once, what was said before is
\* not lost, and nobody waits for nothing (useChat.ts, LoomChatPanel.tsx).
THEOREM PanelIsTrueHolds == PanelSpec => [](PanelTypeOK /\ PanelIsTrue)
<1> QED BY PanelInvInit, PanelInvStep, PanelInvImplies, PTL DEF PanelSpec

-----------------------------------------------------------------------------
(* The pages side by side                                                  *)

\* A step of the platform is, for each page, one of its own or none.
LEMMA EachPageItsOwn ==
  ASSUME [PlatformNext]_platformVars
  PROVE  /\ [LiveNext]_liveVars /\ [ListNext]_listVars /\ [SetNext]_setVars
         /\ [ButtonsNext \/ EventsNext]_pageVars /\ [ViewNext]_viewVars
         /\ [WizNext]_wizVars /\ [BsNext]_bsVars /\ [PanelNext]_panelVars
<1>1. CASE UNCHANGED pagesVars
  BY <1>1 DEF pagesVars
<1>2. CASE PagesNext(part)
  BY <1>2 DEF PagesNext
<1>3. UNCHANGED pagesVars \/ PagesNext(part)
  BY DEF PlatformNext, platformVars
<1> QED BY <1>1, <1>2, <1>3

\* The pages of the dashboard, but for what is typed.
PagesInv == LiveInv /\ ListInv /\ SettingsInv /\ WfPagesInv /\ ViewInv

LEMMA PagesInvInit == PlatformInit => PagesInv
BY LiveInvInit, ListInvInit, SettingsInvInit, WfPagesInvInit, ViewInvInit DEF PlatformInit, PagesInit, PagesInv

LEMMA PagesInvStep == ASSUME ~Remounts, PagesInv, [PlatformNext]_platformVars PROVE PagesInv'
BY EachPageItsOwn, LiveInvStep, ListInvStep, SettingsInvStep, WfPagesInvStep, ViewInvStep DEF PagesInv

\* However events, answers, clicks and changes elsewhere cross: a page has one socket, and once they
\* are quiet view, list, settings and drawer show what the daemon has; a button sends nothing
\* twice, and Enter runs what was seen; if React mounts a page once.
THEOREM PagesAgreeHolds ==
  ASSUME ~Remounts
  PROVE  PlatformSpec => []( /\ LiveTypeOK /\ ListTypeOK /\ SetTypeOK /\ WorkflowPagesTypeOK /\ ViewTypeOK
                             /\ PagesAgree)
<1>1. PagesInv => /\ LiveTypeOK /\ ListTypeOK /\ SetTypeOK /\ WorkflowPagesTypeOK /\ ViewTypeOK
                  /\ PagesAgree
  BY LiveInvImplies, ListInvImplies, SettingsInvImplies, WfPagesInvImplies, ViewInvImplies DEF PagesInv, PagesAgree
<1>2. PagesInv /\ [PlatformNext]_platformVars => PagesInv'
  BY PagesInvStep
<1> QED BY <1>1, <1>2, PagesInvInit, PTL DEF PlatformSpec

\* What is typed on them.
TypedInv == WizInv /\ BsInv /\ PanelInv

LEMMA TypedInvInit == PlatformInit => TypedInv
BY WizInvInit, BsInvInit, PanelInvInit DEF PlatformInit, PagesInit, TypedInv

LEMMA TypedInvStep == TypedInv /\ [PlatformNext]_platformVars => TypedInv'
BY EachPageItsOwn, WizInvStep, BsInvStep, PanelInvStep DEF TypedInv

\* However answers are lost, timers fire and pages are left and come back to: no project is made twice
\* or from half a draft, no question is missing from the brief, and no message is lost from the
\* conversation or shown twice.
THEOREM NothingTypedIsLostHolds ==
  PlatformSpec => [](WizTypeOK /\ BsTypeOK /\ PanelTypeOK /\ NothingTypedIsLost)
<1>1. TypedInv => WizTypeOK /\ BsTypeOK /\ PanelTypeOK /\ NothingTypedIsLost
  BY WizInvImplies, BsInvImplies, PanelInvImplies DEF TypedInv, NothingTypedIsLost
<1> QED BY <1>1, TypedInvInit, TypedInvStep, PTL DEF PlatformSpec

=============================================================================
