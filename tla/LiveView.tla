------------------------------ MODULE LiveView ------------------------------
(***************************************************************************)
(* A page of the dashboard that follows a workflow: WebSocketClient        *)
(* (dashboard/src/lib/ws.ts) under AppContext's effect, the daemon's /ws   *)
(* endpoint (core/src/api/server.ts), and useWorkflow over useAsyncResource*)
(* (dashboard/src/hooks), which loads the workflow once, patches it with   *)
(* every node_status event and loads it again at graph_modified.           *)
(*                                                                         *)
(* The workflow is the number of changes it has seen, and an event carries *)
(* the number it leads to.  An event of the browser and what its handlers  *)
(* do are one action.  Delays of reconnection are left out.                *)
(***************************************************************************)
EXTENDS Naturals, Sequences, FiniteSets

CONSTANTS
  Sockets,      \* identities of WebSockets; one that is gone is used again
  Fetches,      \* identities of GET /workflow calls
  MaxChanges,   \* bound on the changes of the workflow
  MaxOutages,   \* bound on the outages of the daemon
  Remounts      \* whether the page may mount again: React's StrictMode does it at once

NoSocket == "no socket"
ASSUME LiveViewAssumption ==
  NoSocket \notin Sockets /\ Remounts \in BOOLEAN /\ MaxChanges \in Nat /\ MaxOutages \in Nat

Events == [kind : {"node_status", "graph_modified"}, leadsTo : 1 .. MaxChanges]

VARIABLES
  socket,     \* each WebSocket, at both ends: its state, the daemon's subscription for it,
              \* and the events on their way
  current,    \* this.socket
  timer,      \* whether reconnectTimer is set
  wanted,     \* not closedByUser
  mounted,    \* the page is there
  opened,     \* ... or was
  serving,    \* the daemon is up
  outages,
  truth,      \* changes the workflow has seen
  shown,      \* changes the page shows, in a set that is empty until it has loaded
  fetch,      \* each call: idle, asked, or the answer on its way
  mishap      \* history: a change that the page was not told, or an event or an answer that
              \* arrived after a newer one

liveVars == <<socket, current, timer, wanted, mounted, opened, serving, outages, truth, shown, fetch, mishap>>

Unused == [state |-> "gone", subscribed |-> FALSE, inbox |-> <<>>]
Idle == [state |-> "idle", saw |-> 0]

LiveTypeOK ==
  /\ \A s \in Sockets : /\ socket[s].state \in {"connecting", "open", "lost", "closing", "gone"}
                        /\ socket[s].subscribed \in BOOLEAN
                        /\ socket[s].inbox \in Seq(Events)
  /\ current \in Sockets \cup {NoSocket}
  /\ {timer, wanted, mounted, opened, serving, mishap} \subseteq BOOLEAN
  /\ outages \in 0 .. MaxOutages
  /\ truth \in 0 .. MaxChanges
  /\ shown \subseteq 0 .. truth /\ Cardinality(shown) <= 1
  /\ fetch \in [Fetches -> [state : {"idle", "asked", "answered"}, saw : 0 .. MaxChanges]]

LiveInit ==
  /\ socket = [s \in Sockets |-> Unused]
  /\ current = NoSocket
  /\ timer = FALSE /\ wanted = FALSE /\ mounted = FALSE /\ opened = FALSE /\ serving = TRUE /\ mishap = FALSE
  /\ outages = 0 /\ truth = 0
  /\ shown = {}
  /\ fetch = [f \in Fetches |-> Idle]

-----------------------------------------------------------------------------
(* WebSocketClient                                                         *)

\* readyState CONNECTING or OPEN, which a socket keeps until the close event.
Live(s) == socket[s].state \in {"connecting", "open", "lost"}

\* connect: a socket that lives is kept.
Connect ==
  IF current # NoSocket /\ Live(current)
  THEN UNCHANGED <<socket, current>>
  ELSE \E s \in Sockets :
         /\ socket[s] = Unused
         /\ socket' = [socket EXCEPT ![s].state = "connecting"]
         /\ current' = s

\* run() of useAsyncResource, here and in Delivered.
Asks(f) == fetch[f].state = "idle" /\ fetch' = [fetch EXCEPT ![f].state = "asked"]

\* The effects of a mount: connect, and load.
Mount ==
  /\ ~mounted /\ mounted' = TRUE /\ opened' = TRUE
  /\ (Remounts \/ ~opened)
  /\ wanted' = TRUE
  /\ Connect
  /\ \E f \in Fetches : Asks(f)
  /\ UNCHANGED <<timer, serving, outages, truth, shown, mishap>>


\* close().  The socket's close event is still to come.
Unmount ==
  /\ mounted /\ mounted' = FALSE /\ wanted' = FALSE
  /\ timer' = FALSE
  /\ socket' = [s \in Sockets |-> IF s = current /\ Live(s)
                                  THEN [socket[s] EXCEPT !.state = "closing"] ELSE socket[s]]
  /\ current' = NoSocket
  /\ UNCHANGED <<opened, serving, outages, truth, shown, fetch, mishap>>

\* The open event, with the subscribe message it sends.
Opened(s) ==
  /\ serving /\ socket[s].state = "connecting"
  /\ socket' = [socket EXCEPT ![s].state = "open"]
  /\ UNCHANGED <<current, timer, wanted, mounted, opened, serving, outages, truth, shown, fetch, mishap>>

Closed_Faulty(s) ==
  /\ \/ socket[s].state \in {"closing", "lost"}
     \/ socket[s].state = "connecting" /\ ~serving
  /\ socket' = [socket EXCEPT ![s] = Unused]
  /\ current' = NoSocket
  /\ timer' = (timer \/ (wanted /\ socket[s].state = "lost"))
  /\ mishap' = (mishap \/ (socket[s].inbox # <<>>))
  /\ UNCHANGED <<wanted, mounted, opened, serving, outages, truth, shown, fetch>>

\* The close event: it clears this.socket, whichever socket that is by now.
Closed(s) ==
  /\ \/ socket[s].state \in {"closing", "lost"}
     \/ socket[s].state = "connecting" /\ ~serving
  /\ socket' = [socket EXCEPT ![s] = Unused]
  /\ current' = NoSocket
  /\ timer' = (timer \/ wanted)
  /\ mishap' = (mishap \/ (socket[s].inbox # <<>>))
  /\ UNCHANGED <<wanted, mounted, opened, serving, outages, truth, shown, fetch>>

Reconnect ==
  /\ timer /\ timer' = FALSE
  /\ wanted' = TRUE
  /\ Connect
  /\ UNCHANGED <<mounted, opened, serving, outages, truth, shown, fetch, mishap>>

-----------------------------------------------------------------------------
(* The daemon                                                              *)

\* The subscribe message arrives: { all: true }.
Subscribed(s) ==
  /\ serving /\ socket[s].state = "open" /\ ~socket[s].subscribed
  /\ socket' = [socket EXCEPT ![s].subscribed = TRUE]
  /\ UNCHANGED <<current, timer, wanted, mounted, opened, serving, outages, truth, shown, fetch, mishap>>

\* The daemon goes away, and its connections with it.
GoesDown ==
  /\ serving /\ outages < MaxOutages
  /\ serving' = FALSE /\ outages' = outages + 1
  /\ socket' = [s \in Sockets |-> IF socket[s].state = "open"
                                  THEN [socket[s] EXCEPT !.state = "lost", !.subscribed = FALSE]
                                  ELSE socket[s]]
  /\ UNCHANGED <<current, timer, wanted, mounted, opened, truth, shown, fetch, mishap>>

ComesUp ==
  /\ ~serving
  /\ serving' = TRUE
  /\ UNCHANGED <<socket, current, timer, wanted, mounted, opened, outages, truth, shown, fetch, mishap>>

\* Something the page shows changes, and every open socket that is subscribed is told.  The page
\* handles these messages, but the daemon as it is started broadcasts only those of runtime
\* sessions: what follows is what the page does with them.
WorkflowChanges(kind) ==
  /\ serving /\ truth < MaxChanges
  /\ truth' = truth + 1
  /\ socket' = [s \in Sockets |->
       IF socket[s].state = "open" /\ socket[s].subscribed
       THEN [socket[s] EXCEPT !.inbox = Append(@, [kind |-> kind, leadsTo |-> truth'])]
       ELSE socket[s]]
  /\ mishap' = (mishap \/ (/\ socket' = socket
                          /\ \/ shown # {}
                             \/ \E f \in Fetches : fetch[f].state = "answered"))
  /\ UNCHANGED <<current, timer, wanted, mounted, opened, serving, outages, shown, fetch>>

-----------------------------------------------------------------------------
(* useWorkflow and useAsyncResource                                        *)

Overtakes(v) ==
  \/ \E u \in shown : u > v
  \/ \E f \in Fetches : fetch[f].state = "answered" /\ fetch[f].saw < v

ReloadsAt_Faulty(kind) == FALSE
ReloadsAt(kind) == kind = "graph_modified"

\* A message event: patch what is loaded, or load again.  What is not loaded is not patched.
Delivered(s) ==
  /\ socket[s].state \in {"open", "lost"} /\ socket[s].inbox # <<>>
  /\ LET event == Head(socket[s].inbox) IN
     /\ socket' = [socket EXCEPT ![s].inbox = Tail(@)]
     /\ IF ReloadsAt(event.kind)
        THEN (\E f \in Fetches : Asks(f)) /\ UNCHANGED shown
        ELSE /\ shown' = IF shown # {} /\ event.kind = "node_status"
                         THEN {event.leadsTo} ELSE shown
             /\ UNCHANGED fetch
     /\ mishap' = (mishap \/ Overtakes(event.leadsTo))
  /\ UNCHANGED <<current, timer, wanted, mounted, opened, serving, outages, truth>>

\* The daemon reads the workflow ...
Reads(f) ==
  /\ serving /\ fetch[f].state = "asked"
  /\ fetch' = [fetch EXCEPT ![f] = [state |-> "answered", saw |-> truth]]
  /\ UNCHANGED <<socket, current, timer, wanted, mounted, opened, serving, outages, truth, shown, mishap>>

\* ... and the answer replaces what is shown, while the page is mounted.
Loaded(f) ==
  /\ fetch[f].state = "answered"
  /\ fetch' = [fetch EXCEPT ![f] = Idle]
  /\ shown' = IF mounted THEN {fetch[f].saw} ELSE shown
  /\ mishap' = (mishap \/ (\E v \in shown : v > fetch[f].saw))
  /\ UNCHANGED <<socket, current, timer, wanted, mounted, opened, serving, outages, truth>>

\* ... or the call fails, and what is shown stays.
LoadFails(f) ==
  /\ fetch[f].state = "asked" /\ ~serving
  /\ fetch' = [fetch EXCEPT ![f] = Idle]
  /\ mishap' = TRUE
  /\ UNCHANGED <<socket, current, timer, wanted, mounted, opened, serving, outages, truth, shown>>

SocketStep(s) == Opened(s) \/ Closed(s) \/ Subscribed(s) \/ Delivered(s)
FetchStep(f) == Reads(f) \/ Loaded(f) \/ LoadFails(f)

LiveNext ==
  \/ Mount \/ Unmount \/ Reconnect \/ GoesDown \/ ComesUp
  \/ \E s \in Sockets : SocketStep(s)
  \/ \E f \in Fetches : FetchStep(f)
  \/ \E kind \in {"node_status", "graph_modified"} : WorkflowChanges(kind)

\* Timers fire, the network and the daemon answer, an outage ends.  Nothing has to change, to
\* be mounted, or to break.
LiveFairness ==
  /\ WF_liveVars(Reconnect) /\ WF_liveVars(ComesUp)
  /\ \A s \in Sockets : WF_liveVars(SocketStep(s))
  /\ \A f \in Fetches : WF_liveVars(FetchStep(f))

LiveSpec == LiveInit /\ [][LiveNext]_liveVars /\ LiveFairness

-----------------------------------------------------------------------------
\* A page that is mounted comes back to one open, subscribed socket after every outage.
ComesBackLive ==
  []<>(~mounted \/ (current # NoSocket /\ socket[current].subscribed))

\* A page that was closed has no timer and no socket left that would bring it back to life,
\* and one that is open follows the daemon through one socket only.
OneSocketPerPage ==
  \A s \in Sockets : Live(s) => mounted /\ s = current /\ ~timer

\* When nothing is on its way, a page that has been told every change, and has got all events
\* and answers in the order they were sent in, shows the workflow as it is.
QuietViewIsCurrent ==
  (/\ ~mishap /\ mounted /\ shown # {}
   /\ \A s \in Sockets : socket[s].inbox = <<>>
   /\ \A f \in Fetches : fetch[f].state = "idle") => shown = {truth}

=============================================================================
