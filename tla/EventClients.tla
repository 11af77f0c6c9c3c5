---------------------------- MODULE EventClients ----------------------------
(***************************************************************************)
(* The daemon's event socket and those who listen to it outside the        *)
(* dashboard: /ws and broadcastForProject (server.ts), the SDK's client    *)
(* (sdk/src/client.ts), the CLI's DaemonClient (cli/src/client.ts) and     *)
(* `loomflo watch` (watch.ts over observation/ws.ts and api.ts).  The      *)
(* dashboard's own socket is in LiveView.                                  *)
(*                                                                         *)
(* One client at a time; revision[p] counts the changes of a project that  *)
(* are broadcast.                                                          *)
(***************************************************************************)
EXTENDS Naturals, Sequences, FiniteSets

CONSTANTS
  Listeners,    \* callbacks a program may register for one type of event
  WatchedIds,   \* projects
  MaxSockets,   \* bound: sockets a client opens
  MaxRestarts,  \* bound: daemons after the first
  MaxRevision,  \* bound: changes broadcast
  MaxClientActs \* bound: calls of the program that uses the client

ASSUME EventClientsAssumption ==
  WatchedIds # {} /\ {MaxSockets, MaxRestarts, MaxRevision, MaxClientActs} \subseteq Nat /\ MaxSockets # 0

VARIABLES
  asker,     \* which client it is: "sdk", "cli", or "watch" of all or of one project
  daemonTok, \* the daemon: [up, token]
  sockets,   \* of each: [st, subs (as the daemon has them), inbox]
  link,      \* the client: [ws, closed, timer, delay, token, acts]
  connects,  \* the SDK's connect() of each socket: "none", "pending", "resolved", "rejected"
  regs,      \* its callbacks: [entry (the Set its Map has), sets, own (Set of each), off]
  view,      \* watch: [pc, dirty, shown, fetches]
  revision,
  gotEvents,  \* history: the projects whose events have come
  excused    \* history: what has gone wrong in a way the code does not mend

eventVars == <<asker, daemonTok, sockets, link, connects, regs, view, revision, gotEvents, excused>>

Sockets == 1 .. MaxSockets
SetIds == 1 .. MaxClientActs
NoRevision == [p \in WatchedIds |-> 0]
NoFetch == [st |-> "none", read |-> NoRevision]
Clients == {[kind |-> "sdk", ids |-> {}], [kind |-> "cli", ids |-> {}],
            [kind |-> "watch", ids |-> WatchedIds]}
           \cup {[kind |-> "watch", ids |-> {p}] : p \in WatchedIds}

Revisions == [WatchedIds -> 0 .. MaxRevision]

EventsTypeOK ==
  /\ asker \in Clients
  /\ daemonTok \in [up : BOOLEAN, token : 0 .. MaxRestarts]
  /\ sockets \in [Sockets -> [st : {"none", "connecting", "open", "closing", "gone"},
                              subs : SUBSET WatchedIds, frame : BOOLEAN,
                              inbox : Seq({"connected"} \cup WatchedIds)]]
  /\ link \in [ws : 0 .. MaxSockets, closed : BOOLEAN, timer : BOOLEAN, delay : 0 .. 6,
               token : 0 .. MaxRestarts, acts : 0 .. MaxClientActs]
  /\ connects \in [Sockets -> {"none", "pending", "resolved", "rejected"}]
  /\ regs \in [entry : 0 .. MaxClientActs, sets : [SetIds -> SUBSET Listeners],
               own : [Listeners -> 0 .. MaxClientActs], live : SUBSET Listeners]
  /\ view \in [pc : {"none", "reading", "live", "over"}, dirty : BOOLEAN, shown : Revisions,
               fetches : [1 .. 2 -> [st : {"none", "sent", "answered", "refused"}, read : Revisions]]]
  /\ revision \in Revisions /\ gotEvents \subseteq WatchedIds
  /\ excused \subseteq {"stolen", "doubled", "untold", "failed", "overtaken"}

EventsStart ==
  /\ daemonTok = [up |-> TRUE, token |-> 0]
  /\ sockets = [s \in Sockets |-> [st |-> "none", subs |-> {}, frame |-> FALSE, inbox |-> <<>>]]
  /\ link = [ws |-> 0, closed |-> FALSE, timer |-> FALSE, delay |-> 0, token |-> 0, acts |-> 0]
  /\ connects = [s \in Sockets |-> "none"]
  /\ regs = [entry |-> 0, sets |-> [i \in SetIds |-> {}], own |-> [h \in Listeners |-> 0], live |-> {}]
  /\ view = [pc |-> "none", dirty |-> FALSE, shown |-> NoRevision, fetches |-> [i \in 1 .. 2 |-> NoFetch]]
  /\ revision = NoRevision /\ gotEvents = {} /\ excused = {}

EventsInit == asker \in Clients /\ EventsStart

SocketGoes(s, st) == sockets' = [sockets EXCEPT ![s].st = st]
Fresh == CHOOSE s \in Sockets : sockets[s].st = "none" /\ \A r \in 1 .. s - 1 : sockets[r].st # "none"
MayOpen == \E s \in Sockets : sockets[s].st = "none"
Acts == link.acts < MaxClientActs
Acted(l) == [l EXCEPT !.acts = @ + 1]

-----------------------------------------------------------------------------
\* The daemon.  A handshake is accepted whatever the token; the handler then closes the socket of
\* one that has the wrong token, and welcomes the others, subscribed to nothing.
Opened(l) == IF asker.kind = "cli" THEN [l EXCEPT !.delay = 0] ELSE l
Accept(s) ==
  /\ sockets[s].st = "connecting" /\ daemonTok.up
  /\ link' = Opened(link)
  /\ IF link.token = daemonTok.token
     THEN sockets' = [sockets EXCEPT ![s] = [@ EXCEPT !.st = "open", !.inbox = <<"connected">>,
                                                      !.frame = asker.kind = "watch"]]
     ELSE SocketGoes(s, "closing")
  /\ view' = IF asker.kind = "watch" THEN [view EXCEPT !.pc = "live"] ELSE view
  /\ UNCHANGED <<asker, daemonTok, connects, regs, revision, gotEvents, excused>>

\* Its subscribe frame arrives.  Projects are added to what a socket is subscribed to.
Subscribe(s) ==
  /\ sockets[s].st = "open" /\ sockets[s].frame
  /\ sockets' = [sockets EXCEPT ![s].frame = FALSE, ![s].subs = @ \cup asker.ids]
  /\ UNCHANGED <<asker, daemonTok, link, connects, regs, view, revision, gotEvents, excused>>

\* broadcastForProject, of a change of the project.
Hears(s, p) == sockets[s].st = "open" /\ p \in sockets[s].subs
BroadcastForProject(p) ==
  /\ daemonTok.up /\ \A q \in WatchedIds : revision[q] < MaxRevision
  /\ revision' = [revision EXCEPT ![p] = @ + 1]
  /\ sockets' = [s \in Sockets |-> IF Hears(s, p) THEN [sockets[s] EXCEPT !.inbox = Append(@, p)]
                                   ELSE sockets[s]]
  /\ excused' = excused \cup IF \E s \in Sockets : Hears(s, p) THEN {} ELSE {"untold"}
  /\ UNCHANGED <<asker, daemonTok, link, connects, regs, view, gotEvents>>

\* openSubscription rejects, and the command ends.
Rejected(errs) == IF errs /\ view.pc = "reading" THEN [view EXCEPT !.pc = "over"] ELSE view

\* The daemon ends, with its sockets, or one is started, with a token of its own.
DaemonEnds ==
  /\ daemonTok.up /\ daemonTok.token < MaxRestarts
  /\ daemonTok' = [daemonTok EXCEPT !.up = FALSE]
  /\ sockets' = [s \in Sockets |->
                   IF sockets[s].st \in {"open", "connecting"}
                   THEN [sockets[s] EXCEPT !.st = "closing", !.subs = {}, !.frame = FALSE, !.inbox = <<>>]
                   ELSE sockets[s]]
  /\ connects' = [s \in Sockets |-> IF sockets[s].st = "connecting" /\ connects[s] = "pending"
                                    THEN "rejected" ELSE connects[s]]
  /\ excused' = excused \cup {"untold"} /\ view' = Rejected(\E s \in Sockets : sockets[s].st = "connecting")
  /\ UNCHANGED <<asker, link, regs, revision, gotEvents>>
DaemonStarts ==
  /\ ~daemonTok.up /\ daemonTok' = [up |-> TRUE, token |-> daemonTok.token + 1]
  /\ UNCHANGED <<asker, sockets, link, connects, regs, view, revision, gotEvents, excused>>

\* Nobody answers: an error, and the close that follows.
Refused(s) ==
  /\ sockets[s].st = "connecting" /\ ~daemonTok.up /\ SocketGoes(s, "closing")
  /\ connects' = [connects EXCEPT ![s] = IF @ = "pending" THEN "rejected" ELSE @]
  /\ view' = Rejected(TRUE)
  /\ UNCHANGED <<asker, daemonTok, link, regs, revision, gotEvents, excused>>

-----------------------------------------------------------------------------
\* connect() of the SDK: it sees a socket that has been welcomed only.
Connect ==
  /\ asker.kind = "sdk" /\ Acts /\ MayOpen
  /\ IF link.ws # 0 THEN UNCHANGED <<sockets, connects, excused>> /\ link' = Acted(link)  \* throws
     ELSE /\ SocketGoes(Fresh, "connecting") /\ connects' = [connects EXCEPT ![Fresh] = "pending"]
          /\ excused' = excused \cup IF \E s \in Sockets : sockets[s].st \in {"connecting", "open"}
                                     THEN {"doubled"} ELSE {}
          /\ link' = Acted(link)
  /\ UNCHANGED <<asker, daemonTok, regs, view, revision, gotEvents>>

\* disconnect() of the SDK, which may be connected again; and of DaemonClient, which may not.
Disconnect ==
  /\ Acts /\ asker.kind # "watch"
  /\ sockets' = IF link.ws # 0
                THEN [sockets EXCEPT ![link.ws] = [@ EXCEPT !.st = "closing", !.inbox = <<>>]] ELSE sockets
  /\ IF asker.kind = "sdk"
     THEN link' = [Acted(link) EXCEPT !.ws = 0] /\ UNCHANGED regs
     ELSE /\ link' = [Acted(link) EXCEPT !.ws = 0, !.closed = TRUE, !.timer = FALSE]
          /\ regs' = [regs EXCEPT !.entry = 0, !.live = {}]
  /\ UNCHANGED <<asker, daemonTok, connects, view, revision, gotEvents, excused>>

\* connectWebSocket of DaemonClient, by its user or by the timer; its token is the one it was made with.
ConnectWebSocket(l) ==
  IF l.ws # 0 \/ l.closed THEN UNCHANGED sockets /\ link' = l
  ELSE MayOpen /\ SocketGoes(Fresh, "connecting") /\ link' = [l EXCEPT !.ws = Fresh]
ConnectsFirst ==
  /\ asker.kind = "cli" /\ Acts /\ ConnectWebSocket(Acted(link))
  /\ UNCHANGED <<asker, daemonTok, connects, regs, view, revision, gotEvents, excused>>
ReconnectTimer ==
  /\ link.timer /\ ConnectWebSocket([link EXCEPT !.timer = FALSE])
  /\ UNCHANGED <<asker, daemonTok, connects, regs, view, revision, gotEvents, excused>>

\* scheduleReconnect: one timer; each delay is twice the one before, up to a limit.
ScheduleReconnect(l) ==
  IF l.closed \/ l.timer THEN l
  ELSE [l EXCEPT !.timer = TRUE, !.delay = IF @ < 6 THEN @ + 1 ELSE @]

\* The close event.  `loomflo watch` asked for none.
Closed(s) ==
  CASE asker.kind = "cli" -> ScheduleReconnect([link EXCEPT !.ws = 0])
    [] asker.kind = "sdk" -> [link EXCEPT !.ws = IF @ = s THEN 0 ELSE @]
    [] asker.kind = "watch" -> link
SocketCloses(s) ==
  /\ sockets[s].st = "closing" /\ SocketGoes(s, "gone") /\ link' = Closed(s)
  /\ UNCHANGED <<asker, daemonTok, connects, regs, view, revision, gotEvents, excused>>

\* A message: the callbacks', and in the SDK also connect()'s, once.
SocketMessage(s) ==
  /\ sockets[s].st = "open" /\ sockets[s].inbox # <<>>
  /\ sockets' = [sockets EXCEPT ![s].inbox = Tail(@)]
  /\ IF connects[s] = "pending"
     THEN connects' = [connects EXCEPT ![s] = "resolved"] /\ link' = [link EXCEPT !.ws = s]
     ELSE UNCHANGED <<connects, link>>
  /\ gotEvents' = gotEvents \cup ({Head(sockets[s].inbox)} \ {"connected"})
  /\ view' = IF asker.kind = "watch" THEN [view EXCEPT !.dirty = TRUE] ELSE view
  /\ UNCHANGED <<asker, daemonTok, regs, revision, excused>>

-----------------------------------------------------------------------------
\* onEvent and on: the Set of the event's type, a new one if the Map has none.
OnEvent(h) ==
  /\ asker.kind # "watch" /\ Acts /\ h \notin regs.live /\ link' = Acted(link)
  /\ LET set == IF regs.entry # 0 THEN regs.entry ELSE link.acts + 1 IN
     regs' = [entry |-> set, sets |-> [regs.sets EXCEPT ![set] = @ \cup {h}],
              own |-> [regs.own EXCEPT ![h] = set], live |-> regs.live \cup {h}]
  /\ UNCHANGED <<asker, daemonTok, sockets, connects, view, revision, gotEvents, excused>>

\* The function they return: an empty Set takes its type out of the Map, whichever Set is there,
\* and it may be called again.
Unsubscribe(h) ==
  /\ Acts /\ regs.own[h] # 0 /\ link' = Acted(link)
  /\ LET left == regs.sets[regs.own[h]] \ {h}
         steals == left = {} /\ regs.entry \notin {0, regs.own[h]} IN
     /\ regs' = [regs EXCEPT !.sets[regs.own[h]] = left, !.live = @ \ {h},
                             !.entry = IF left = {} THEN 0 ELSE @]
     /\ excused' = excused \cup IF steals THEN {"stolen"} ELSE {}
  /\ UNCHANGED <<asker, daemonTok, sockets, connects, view, revision, gotEvents>>

\* off(), in DaemonClient.
Off ==
  /\ asker.kind = "cli" /\ Acts /\ link' = Acted(link)
  /\ regs' = [regs EXCEPT !.entry = 0, !.live = {}]
  /\ UNCHANGED <<asker, daemonTok, sockets, connects, view, revision, gotEvents, excused>>

-----------------------------------------------------------------------------
\* `loomflo watch`: what it shows is read first, then it subscribes.
WatchBegins ==
  /\ asker.kind = "watch" /\ view.pc = "none" /\ daemonTok.up
  /\ view' = [view EXCEPT !.pc = "reading", !.fetches[1].st = "sent"]
  /\ link' = [link EXCEPT !.token = daemonTok.token]  \* readDaemonConfig
  /\ UNCHANGED <<asker, daemonTok, sockets, connects, regs, revision, gotEvents, excused>>

\* fetchProjectsRuntime at the daemon, and back.
FetchAnswered(i) ==
  /\ view.fetches[i].st = "sent"
  /\ view' = [view EXCEPT !.fetches[i] =
                IF daemonTok = [up |-> TRUE, token |-> link.token]
                THEN [st |-> "answered", read |-> revision] ELSE [@ EXCEPT !.st = "refused"]]
  /\ UNCHANGED <<asker, daemonTok, sockets, link, connects, regs, revision, gotEvents, excused>>
Back(i) == [view EXCEPT !.fetches[i] = NoFetch]
FetchReturns(i) ==
  /\ view.fetches[i].st \in {"answered", "refused"} /\ view.pc \in {"reading", "live"}
  /\ LET fetch == view.fetches[i]
         back == Back(i) IN
     IF fetch.st = "answered"
     THEN /\ view' = [back EXCEPT !.shown = fetch.read]
          /\ excused' = excused \cup IF \E p \in asker.ids : fetch.read[p] < view.shown[p]
                                     THEN {"overtaken"} ELSE {}
          /\ IF view.pc = "reading" THEN SocketGoes(Fresh, "connecting") ELSE UNCHANGED sockets
     ELSE /\ view' = IF view.pc = "reading" THEN [back EXCEPT !.pc = "over"] ELSE back
          /\ excused' = excused \cup {"failed"} /\ UNCHANGED sockets
  /\ UNCHANGED <<asker, daemonTok, link, connects, regs, revision, gotEvents>>

\* The interval: a message since the last time is why to read again.
WatchTick ==
  /\ view.pc = "live" /\ view.dirty
  /\ \E i \in 1 .. 2 : /\ view.fetches[i].st = "none"
                       /\ view' = [view EXCEPT !.dirty = FALSE, !.fetches[i].st = "sent"]
  /\ excused' = excused \ {"untold", "failed", "overtaken"}
  /\ UNCHANGED <<asker, daemonTok, sockets, link, connects, regs, revision, gotEvents>>

\* SIGINT or SIGTERM.
Cleanup ==
  /\ view.pc = "live" /\ view' = [view EXCEPT !.pc = "over"]
  /\ sockets' = [s \in Sockets |-> IF sockets[s].st = "open"
                                   THEN [sockets[s] EXCEPT !.st = "closing", !.inbox = <<>>] ELSE sockets[s]]
  /\ UNCHANGED <<asker, daemonTok, link, connects, regs, revision, gotEvents, excused>>

EventsNext ==
  \/ DaemonEnds \/ DaemonStarts \/ Connect \/ Disconnect \/ ConnectsFirst \/ ReconnectTimer \/ Off
  \/ WatchBegins \/ WatchTick \/ Cleanup
  \/ \E p \in WatchedIds : BroadcastForProject(p)
  \/ \E s \in Sockets : Accept(s) \/ Subscribe(s) \/ Refused(s) \/ SocketCloses(s) \/ SocketMessage(s)
  \/ \E h \in Listeners : OnEvent(h) \/ Unsubscribe(h)
  \/ \E i \in 1 .. 2 : FetchAnswered(i) \/ FetchReturns(i)

EventsSpec == EventsInit /\ [][EventsNext]_eventVars

-----------------------------------------------------------------------------
\* A client is told of the projects it asked for and no others: the SDK and DaemonClient, who
\* cannot ask, of none.  A callback that is registered is in the Set its type leads to, unless an
\* unsubscribe function was called after that Set had been replaced.  DaemonClient has one socket,
\* and until it is disconnected a socket or the one timer that leads to the next, but neither
\* afterwards; the SDK has one unless connect() was called while another was under way.  Watch, when
\* nothing is on its way, shows the last change, unless one was broadcast while it was not
\* subscribed, or its last answers failed or came in the wrong order.
Live == {s \in Sockets : sockets[s].st \in {"connecting", "open"}}
ClientsAreTold ==
  /\ gotEvents \subseteq asker.ids
  /\ "stolen" \notin excused =>
       \A h \in regs.live : regs.entry # 0 /\ h \in regs.sets[regs.entry]
  /\ asker.kind = "cli" =>
       /\ Live \subseteq {link.ws}
       /\ link.closed => Live = {} /\ ~link.timer
       /\ ~link.closed /\ sockets[1].st # "none" => link.ws # 0 \/ link.timer
  /\ asker.kind = "sdk" /\ "doubled" \notin excused => Cardinality(Live) <= 1
  /\ /\ view.pc = "live" /\ ~view.dirty
     /\ \A i \in 1 .. 2 : view.fetches[i].st = "none"
     /\ \A s \in Live : sockets[s].inbox = <<>>
     /\ excused \cap {"untold", "failed", "overtaken"} = {}
     => \A p \in asker.ids : view.shown[p] = revision[p]

=============================================================================
