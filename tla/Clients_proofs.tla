----------------------------- MODULE Clients_proofs -----------------------------
(***************************************************************************)
(* Theorems about EventClients and ApiCalls, for any projects, sockets and *)
(* graphs: a client that is quiet knows what is so, and a caller is        *)
(* answered for what the daemon held while it asked.                       *)
(***************************************************************************)
EXTENDS EventClients, ApiCalls, FiniteSetTheorems, TLAPS

-----------------------------------------------------------------------------
(* Clients over sockets                                                    *)

SocketRecords == [st : {"none", "connecting", "open", "closing", "gone"}, subs : SUBSET asker.ids,
                  frame : BOOLEAN, inbox : Seq({"connected"} \cup asker.ids)]
Links == [ws : 0 .. MaxSockets, closed : BOOLEAN, timer : BOOLEAN, delay : 0 .. 6,
          token : 0 .. MaxRestarts, acts : 0 .. MaxClientActs]
Registrations == [entry : 0 .. MaxClientActs, sets : [SetIds -> SUBSET Listeners],
                  own : [Listeners -> 0 .. MaxClientActs], live : SUBSET Listeners]
Fetches == [st : {"none", "sent", "answered", "refused"}, read : Revisions]
Views == [pc : {"none", "reading", "live", "over"}, dirty : BOOLEAN, shown : Revisions,
          fetches : [1 .. 2 -> Fetches]]

\* Sockets are opened one after the other.
Opening == \E k \in 0 .. MaxSockets : \A s \in Sockets : sockets[s].st = "none" <=> s > k
LinkOpened == link.ws # 0 => sockets[link.ws].st # "none"

LEMMA FreshIsNext ==
  ASSUME Opening, MayOpen
  PROVE  /\ Fresh \in Sockets /\ sockets[Fresh].st = "none"
         /\ \A s \in Sockets : sockets[s].st = "none" <=> s >= Fresh
<1>1. PICK k \in 0 .. MaxSockets : \A s \in Sockets : sockets[s].st = "none" <=> s > k
  BY DEF Opening
<1>2. k + 1 \in Sockets /\ sockets[k + 1].st = "none" /\ \A r \in 1 .. k : sockets[r].st # "none"
  BY <1>1, EventClientsAssumption DEF MayOpen, Sockets
<1>3. \E s \in Sockets : sockets[s].st = "none" /\ \A r \in 1 .. s - 1 : sockets[r].st # "none"
  BY <1>1, <1>2
<1>4. Fresh \in Sockets /\ sockets[Fresh].st = "none" /\ \A r \in 1 .. Fresh - 1 : sockets[r].st # "none"
  BY <1>3 DEF Fresh
<1>5. Fresh = k + 1
  BY <1>1, <1>2, <1>4, EventClientsAssumption DEF Sockets
<1> QED BY <1>1, <1>4, <1>5, EventClientsAssumption DEF Sockets

\* Of types, and of what was asked for: no socket is subscribed to anything else, and no event of
\* anything else is on its way or has come.
EventsTyped ==
  /\ asker \in Clients /\ daemonTok \in [up : BOOLEAN, token : 0 .. MaxRestarts]
  /\ sockets \in [Sockets -> SocketRecords] /\ link \in Links
  /\ connects \in [Sockets -> {"none", "pending", "resolved", "rejected"}]
  /\ regs \in Registrations /\ view \in Views /\ revision \in Revisions
  /\ gotEvents \subseteq asker.ids
  /\ excused \subseteq {"stolen", "doubled", "untold", "failed", "overtaken"}
  /\ ~daemonTok.up => daemonTok.token < MaxRestarts
  /\ Opening /\ LinkOpened

LEMMA EventsTypedImplies == EventsTyped => EventsTypeOK /\ gotEvents \subseteq asker.ids
<1> SUFFICES ASSUME EventsTyped PROVE EventsTypeOK /\ gotEvents \subseteq asker.ids
  OBVIOUS
<1>1. asker.ids \subseteq WatchedIds
  BY DEF EventsTyped, Clients
<1>2. Seq({"connected"} \cup asker.ids) \subseteq Seq({"connected"} \cup WatchedIds)
  BY <1>1
<1>3. SocketRecords \subseteq [st : {"none", "connecting", "open", "closing", "gone"},
                              subs : SUBSET WatchedIds, frame : BOOLEAN,
                              inbox : Seq({"connected"} \cup WatchedIds)]
  BY <1>1, <1>2 DEF SocketRecords
<1> HIDE DEF SocketRecords
<1> QED BY <1>1, <1>3 DEF EventsTyped, EventsTypeOK, Links, Registrations, Views, Fetches

LEMMA EventsTypedInit == asker \in Clients /\ EventsStart => EventsTyped
<1> SUFFICES ASSUME asker \in Clients, EventsStart PROVE EventsTyped
  OBVIOUS
<1>1. NoRevision \in Revisions /\ NoFetch \in Fetches
  BY EventClientsAssumption DEF NoRevision, Revisions, NoFetch, Fetches
<1>2. daemonTok \in [up : BOOLEAN, token : 0 .. MaxRestarts]
  BY EventClientsAssumption DEF EventsStart
<1>3. sockets \in [Sockets -> SocketRecords]
  BY DEF EventsStart, SocketRecords
<1>4. link \in Links
  BY EventClientsAssumption DEF EventsStart, Links
<1>5. regs \in Registrations
  BY EventClientsAssumption DEF EventsStart, Registrations
<1>6. view \in Views
  BY <1>1 DEF EventsStart, Views
<1>7. connects \in [Sockets -> {"none", "pending", "resolved", "rejected"}]
  BY DEF EventsStart
<1>8. Opening
  <2>1. 0 \in 0 .. MaxSockets /\ \A s \in Sockets : sockets[s].st = "none" /\ s > 0
    BY EventClientsAssumption DEF EventsStart, Sockets
  <2> QED BY <2>1 DEF Opening
<1>9. link.ws = 0 /\ daemonTok.up
  BY DEF EventsStart
<1> QED BY <1>1, <1>2, <1>3, <1>4, <1>5, <1>6, <1>7, <1>8, <1>9 DEF EventsStart, EventsTyped, LinkOpened

LEMMA SocketGoesTyped ==
  ASSUME sockets \in [Sockets -> SocketRecords], NEW s, NEW st \in {"connecting", "open", "closing", "gone"},
         SocketGoes(s, st)
  PROVE  /\ sockets' \in [Sockets -> SocketRecords]
         /\ s \in Sockets => sockets'[s] = [sockets[s] EXCEPT !.st = st] /\ sockets'[s].st = st
                             /\ sockets'[s].subs = sockets[s].subs /\ sockets'[s].frame = sockets[s].frame
                             /\ sockets'[s].inbox = sockets[s].inbox
         /\ \A r \in Sockets : r # s => sockets'[r] = sockets[r]
<1>1. CASE s \in Sockets
  <2>1. [sockets[s] EXCEPT !.st = st] \in SocketRecords /\ [sockets[s] EXCEPT !.st = st].st = st
        /\ [sockets[s] EXCEPT !.st = st].subs = sockets[s].subs
        /\ [sockets[s] EXCEPT !.st = st].frame = sockets[s].frame
        /\ [sockets[s] EXCEPT !.st = st].inbox = sockets[s].inbox
    BY <1>1 DEF SocketRecords
  <2>2. sockets' = [sockets EXCEPT ![s] = [sockets[s] EXCEPT !.st = st]]
    BY DEF SocketGoes
  <2> QED BY <1>1, <2>1, <2>2
<1>2. CASE s \notin Sockets
  BY <1>2 DEF SocketGoes
<1> QED BY <1>1, <1>2

LEMMA OpeningKept ==
  ASSUME EventsTyped, link'.ws = link.ws,
         \A s \in Sockets : sockets'[s].st = "none" <=> sockets[s].st = "none"
  PROVE  Opening' /\ LinkOpened'
<1>1. Opening'
  BY DEF EventsTyped, Opening
<1>2. link.ws # 0 => link.ws \in Sockets
  BY EventClientsAssumption DEF EventsTyped, Links, Sockets
<1> QED BY <1>1, <1>2 DEF EventsTyped, LinkOpened

LEMMA LinkTyped ==
  ASSUME link \in Links, Acts
  PROVE  Acted(link) \in Links /\ Acted(link).ws = link.ws /\ Acted(link).closed = link.closed
         /\ Acted(link).timer = link.timer
<1>1. link.acts + 1 \in 0 .. MaxClientActs
  BY EventClientsAssumption DEF Links, Acts
<1> QED BY <1>1 DEF Links, Acted

LEMMA ConnectWebSocketTyped ==
  ASSUME EventsTyped, NEW l \in Links, ConnectWebSocket(l), l.ws = link.ws
  PROVE  sockets' \in [Sockets -> SocketRecords] /\ link' \in Links /\ Opening' /\ LinkOpened'
<1>1. CASE l.ws # 0 \/ l.closed
  BY <1>1 DEF ConnectWebSocket, EventsTyped, Opening, LinkOpened
<1>2. CASE ~(l.ws # 0 \/ l.closed)
  <2>1. MayOpen /\ SocketGoes(Fresh, "connecting") /\ link' = [l EXCEPT !.ws = Fresh]
    BY <1>2 DEF ConnectWebSocket
  <2>2. Fresh \in Sockets /\ \A s \in Sockets : sockets[s].st = "none" <=> s >= Fresh
    BY <2>1, FreshIsNext DEF EventsTyped
  <2>3. /\ sockets' \in [Sockets -> SocketRecords] /\ sockets'[Fresh].st = "connecting"
        /\ \A r \in Sockets : r # Fresh => sockets'[r] = sockets[r]
    BY <2>1, <2>2, SocketGoesTyped DEF EventsTyped
  <2> HIDE DEF Fresh
  <2>4. Fresh \in 0 .. MaxSockets
    BY <2>2 DEF Sockets
  <2>5. link' \in Links /\ link'.ws = Fresh
    BY <2>1, <2>4 DEF Links
  <2>6. \A s \in Sockets : sockets'[s].st = "none" <=> s > Fresh
    BY <2>2, <2>3 DEF Sockets
  <2>7. Opening'
    BY <2>4, <2>6 DEF Opening
  <2> QED BY <2>3, <2>5, <2>7 DEF LinkOpened
<1> QED BY <1>1, <1>2

\* The daemon's steps.
LEMMA DaemonTyped ==
  ASSUME EventsTyped,
         \/ DaemonEnds \/ DaemonStarts \/ \E p \in WatchedIds : BroadcastForProject(p)
         \/ \E s \in Sockets : Accept(s) \/ Subscribe(s) \/ Refused(s)
  PROVE  EventsTyped'
<1>0. /\ asker \in Clients /\ asker' = asker /\ sockets \in [Sockets -> SocketRecords] /\ link \in Links /\ view \in Views
      /\ daemonTok \in [up : BOOLEAN, token : 0 .. MaxRestarts]
      /\ connects \in [Sockets -> {"none", "pending", "resolved", "rejected"}]
  BY DEF EventsTyped, DaemonEnds, DaemonStarts, BroadcastForProject, Accept, Subscribe, Refused
<1>1. CASE DaemonEnds
  <2>1. /\ daemonTok' = [daemonTok EXCEPT !.up = FALSE]
        /\ sockets' = [s \in Sockets |->
                   IF sockets[s].st \in {"open", "connecting"}
                   THEN [sockets[s] EXCEPT !.st = "closing", !.subs = {}, !.frame = FALSE, !.inbox = <<>>]
                   ELSE sockets[s]]
        /\ connects' = [s \in Sockets |-> IF sockets[s].st = "connecting" /\ connects[s] = "pending"
                                    THEN "rejected" ELSE connects[s]]
        /\ excused' = excused \cup {"untold"} /\ view' = Rejected(\E s \in Sockets : sockets[s].st = "connecting")
        /\ UNCHANGED <<asker, link, regs, revision, gotEvents>>
    BY <1>1 DEF DaemonEnds
  <2>2. \A s \in Sockets : [sockets[s] EXCEPT !.st = "closing", !.subs = {}, !.frame = FALSE, !.inbox = <<>>]
                              \in SocketRecords
    <3>1. <<>> \in Seq({"connected"} \cup asker.ids) /\ {} \in SUBSET asker.ids /\ FALSE \in BOOLEAN
      OBVIOUS
    <3> QED BY <1>0, <3>1 DEF SocketRecords
  <2>3. sockets' \in [Sockets -> SocketRecords]
    BY <1>0, <2>1, <2>2
  <2>4. \A s \in Sockets : sockets'[s].st = "none" <=> sockets[s].st = "none"
    <3> TAKE s \in Sockets
    <3>1. CASE sockets[s].st \in {"open", "connecting"}
      <4>1. sockets'[s].st = "closing"
        BY <1>0, <2>1, <3>1 DEF SocketRecords
      <4> QED BY <3>1, <4>1
    <3>2. CASE sockets[s].st \notin {"open", "connecting"}
      BY <2>1, <3>2
    <3> QED BY <3>1, <3>2
  <2>5. view' \in Views
    BY <1>0, <2>1 DEF Rejected, Views
  <2>6. connects' \in [Sockets -> {"none", "pending", "resolved", "rejected"}]
    BY <1>0, <2>1
  <2>7. daemonTok' \in [up : BOOLEAN, token : 0 .. MaxRestarts] /\ daemonTok'.token < MaxRestarts
    BY <1>0, <1>1, <2>1 DEF DaemonEnds
  <2>8. SocketRecords' = SocketRecords
    BY <1>0 DEF SocketRecords
  <2> HIDE DEF SocketRecords, Views
  <2> QED BY <1>0, <2>1, <2>3, <2>4, <2>5, <2>6, <2>7, <2>8, OpeningKept DEF EventsTyped, Links
<1>2. CASE DaemonStarts
  <2>1. daemonTok' = [up |-> TRUE, token |-> daemonTok.token + 1] /\ ~daemonTok.up
        /\ UNCHANGED <<asker, sockets, link, connects, regs, view, revision, gotEvents, excused>>
    BY <1>2 DEF DaemonStarts
  <2>2. daemonTok.token + 1 \in 0 .. MaxRestarts
    BY <1>0, <2>1, EventClientsAssumption DEF EventsTyped
  <2>3. daemonTok' \in [up : BOOLEAN, token : 0 .. MaxRestarts] /\ daemonTok'.up
    BY <2>1, <2>2
  <2> QED BY <2>1, <2>3 DEF EventsTyped, SocketRecords, Opening, LinkOpened
<1>3. ASSUME NEW p \in WatchedIds, BroadcastForProject(p)
      PROVE  EventsTyped'
  <2>1. /\ revision' = [revision EXCEPT ![p] = @ + 1] /\ revision[p] < MaxRevision
        /\ sockets' = [s \in Sockets |-> IF Hears(s, p) THEN [sockets[s] EXCEPT !.inbox = Append(@, p)]
                                   ELSE sockets[s]]
        /\ excused' \subseteq excused \cup {"untold"}
        /\ UNCHANGED <<asker, daemonTok, link, connects, regs, view, gotEvents>>
    BY <1>3 DEF BroadcastForProject
  <2>2. revision' \in Revisions
    <3>1. revision \in [WatchedIds -> 0 .. MaxRevision]
      BY DEF EventsTyped, Revisions
    <3>2. revision[p] + 1 \in 0 .. MaxRevision
      BY <2>1, <3>1, EventClientsAssumption
    <3> QED BY <2>1, <3>1, <3>2 DEF Revisions
  <2>3. \A s \in Sockets : /\ sockets'[s] \in SocketRecords
                           /\ sockets'[s].st = "none" <=> sockets[s].st = "none"
    <3> TAKE s \in Sockets
    <3>1. CASE Hears(s, p)
      <4>1. Append(sockets[s].inbox, p) \in Seq({"connected"} \cup asker.ids)
        BY <1>0, <3>1 DEF Hears, SocketRecords
      <4> DEFINE box == Append(sockets[s].inbox, p)
      <4>2. sockets'[s] = [sockets[s] EXCEPT !.inbox = box]
        BY <2>1, <3>1
      <4> HIDE DEF box
      <4>3. box \in Seq({"connected"} \cup asker.ids)
        BY <4>1 DEF box
      <4>4. sockets[s] \in SocketRecords
        BY <1>0
      <4>5. sockets'[s] \in SocketRecords /\ sockets'[s].st = sockets[s].st
        BY ONLY <4>2, <4>3, <4>4 DEF SocketRecords
      <4> QED BY <4>5
    <3>2. CASE ~Hears(s, p)
      BY <1>0, <2>1, <3>2
    <3> QED BY <3>1, <3>2
  <2>4. sockets' \in [Sockets -> SocketRecords]
    BY <2>1, <2>3
  <2>5. SocketRecords' = SocketRecords
    BY <1>0 DEF SocketRecords
  <2> HIDE DEF SocketRecords
  <2> QED BY <1>0, <2>1, <2>2, <2>3, <2>4, <2>5, OpeningKept DEF EventsTyped
<1>4. ASSUME NEW s \in Sockets, Accept(s)
      PROVE  EventsTyped'
  <2>1. /\ sockets[s].st = "connecting" /\ link' = Opened(link)
        /\ IF link.token = daemonTok.token
           THEN sockets' = [sockets EXCEPT ![s] = [@ EXCEPT !.st = "open", !.inbox = <<"connected">>,
                                                      !.frame = asker.kind = "watch"]]
           ELSE SocketGoes(s, "closing")
        /\ view' = IF asker.kind = "watch" THEN [view EXCEPT !.pc = "live"] ELSE view
        /\ UNCHANGED <<asker, daemonTok, connects, regs, revision, gotEvents, excused>>
    BY <1>4 DEF Accept
  <2>2. link' \in Links /\ link'.ws = link.ws
    BY <1>0, <2>1 DEF Opened, Links
  <2>3. view' \in Views
    BY <1>0, <2>1 DEF Views
  <2>4. /\ sockets' \in [Sockets -> SocketRecords]
        /\ \A r \in Sockets : sockets'[r].st = "none" <=> sockets[r].st = "none"
    <3>1. CASE link.token = daemonTok.token
      <4> DEFINE open == [sockets[s] EXCEPT !.st = "open", !.inbox = <<"connected">>, !.frame = asker.kind = "watch"]
      <4>1. open \in SocketRecords /\ open.st = "open"
        <5>1. <<"connected">> \in Seq({"connected"} \cup asker.ids) /\ (asker.kind = "watch") \in BOOLEAN
          OBVIOUS
        <5> QED BY <1>0, <5>1 DEF SocketRecords
      <4>2. sockets' = [sockets EXCEPT ![s] = open]
        BY <2>1, <3>1
      <4> HIDE DEF open
      <4> QED BY <1>0, <2>1, <4>1, <4>2
    <3>2. CASE link.token # daemonTok.token
      BY <1>0, <2>1, <3>2, SocketGoesTyped
    <3> QED BY <3>1, <3>2
  <2>5. SocketRecords' = SocketRecords
    BY <1>0 DEF SocketRecords
  <2> HIDE DEF SocketRecords
  <2> QED BY <1>0, <2>1, <2>2, <2>3, <2>4, <2>5, OpeningKept DEF EventsTyped
<1>5. ASSUME NEW s \in Sockets, Subscribe(s)
      PROVE  EventsTyped'
  <2> DEFINE next == [sockets[s] EXCEPT !.frame = FALSE, !.subs = @ \cup asker.ids]
  <2>1. /\ sockets' = [sockets EXCEPT ![s] = next]
        /\ UNCHANGED <<asker, daemonTok, link, connects, regs, view, revision, gotEvents, excused>>
    BY <1>5 DEF Subscribe
  <2>2. next \in SocketRecords /\ next.st = sockets[s].st
    BY <1>0 DEF SocketRecords
  <2> HIDE DEF next
  <2>3. /\ sockets' \in [Sockets -> SocketRecords]
        /\ \A r \in Sockets : sockets'[r].st = "none" <=> sockets[r].st = "none"
    BY <1>0, <2>1, <2>2
  <2>5. SocketRecords' = SocketRecords
    BY <1>0 DEF SocketRecords
  <2> HIDE DEF SocketRecords
  <2> QED BY <1>0, <2>1, <2>3, <2>5, OpeningKept DEF EventsTyped
<1>6. ASSUME NEW s \in Sockets, Refused(s)
      PROVE  EventsTyped'
  <2>1. /\ sockets[s].st = "connecting" /\ SocketGoes(s, "closing")
        /\ connects' = [connects EXCEPT ![s] = IF @ = "pending" THEN "rejected" ELSE @]
        /\ view' = Rejected(TRUE) /\ UNCHANGED <<asker, daemonTok, link, regs, revision, gotEvents, excused>>
    BY <1>6 DEF Refused
  <2>2. view' \in Views
    BY <1>0, <2>1 DEF Rejected, Views
  <2>3. /\ sockets' \in [Sockets -> SocketRecords]
        /\ \A r \in Sockets : sockets'[r].st = "none" <=> sockets[r].st = "none"
    BY <1>0, <2>1, SocketGoesTyped
  <2>4. connects' \in [Sockets -> {"none", "pending", "resolved", "rejected"}]
    BY <1>0, <2>1
  <2>5. SocketRecords' = SocketRecords
    BY <1>0 DEF SocketRecords
  <2> HIDE DEF SocketRecords, Views
  <2> QED BY <1>0, <2>1, <2>2, <2>3, <2>4, <2>5, OpeningKept DEF EventsTyped
<1> QED BY <1>1, <1>2, <1>3, <1>4, <1>5, <1>6

LEMMA SocketClosing ==
  ASSUME sockets \in [Sockets -> SocketRecords], NEW s, s \in Sockets
  PROVE  LET shut == [sockets[s] EXCEPT !.st = "closing", !.inbox = <<>>]
         IN  shut \in SocketRecords /\ shut.st = "closing" /\ shut.inbox = <<>> /\ shut.subs = sockets[s].subs
<1>1. <<>> \in Seq({"connected"} \cup asker.ids)
  OBVIOUS
<1> QED BY <1>1 DEF SocketRecords

\* What the program that uses the client calls, and its socket's and timer's events.
LEMMA ClientTyped ==
  ASSUME EventsTyped,
         \/ Connect \/ Disconnect \/ ConnectsFirst \/ ReconnectTimer
         \/ \E s \in Sockets : SocketCloses(s) \/ SocketMessage(s)
  PROVE  EventsTyped'
<1>0. /\ asker \in Clients /\ asker' = asker /\ sockets \in [Sockets -> SocketRecords] /\ link \in Links /\ view \in Views
      /\ daemonTok \in [up : BOOLEAN, token : 0 .. MaxRestarts] /\ regs \in Registrations
      /\ connects \in [Sockets -> {"none", "pending", "resolved", "rejected"}]
      /\ SocketRecords' = SocketRecords
  BY DEF EventsTyped, Connect, Disconnect, ConnectsFirst, ReconnectTimer, SocketCloses, SocketMessage, SocketRecords
<1>1. CASE Connect
  <2>1. Acts /\ MayOpen /\ UNCHANGED <<asker, daemonTok, regs, view, revision, gotEvents>>
        /\ link' = Acted(link) /\ excused' \subseteq excused \cup {"doubled"}
        /\ \/ UNCHANGED <<sockets, connects>>
           \/ SocketGoes(Fresh, "connecting") /\ connects' = [connects EXCEPT ![Fresh] = "pending"]
    BY <1>1 DEF Connect
  <2>2. link' \in Links
    BY <1>0, <2>1, LinkTyped
  <2>3. CASE UNCHANGED <<sockets, connects>>
    <3>1. link'.ws = link.ws
      BY <1>0, <2>1, LinkTyped
    <3> QED BY <1>0, <2>1, <2>2, <2>3, <3>1, OpeningKept DEF EventsTyped
  <2>4. CASE SocketGoes(Fresh, "connecting") /\ connects' = [connects EXCEPT ![Fresh] = "pending"]
    <3>1. Fresh \in Sockets /\ \A s \in Sockets : sockets[s].st = "none" <=> s >= Fresh
      BY <2>1, FreshIsNext DEF EventsTyped
    <3>2. /\ sockets' \in [Sockets -> SocketRecords] /\ sockets'[Fresh].st = "connecting"
          /\ \A r \in Sockets : r # Fresh => sockets'[r] = sockets[r]
      BY <1>0, <2>4, <3>1, SocketGoesTyped
    <3>3. connects' \in [Sockets -> {"none", "pending", "resolved", "rejected"}]
      BY <1>0, <2>4, <3>1
    <3> HIDE DEF Fresh
    <3>4. Fresh \in 0 .. MaxSockets /\ \A s \in Sockets : sockets'[s].st = "none" <=> s > Fresh
      BY <3>1, <3>2 DEF Sockets
    <3>5. Opening'
      BY <3>4 DEF Opening
    <3>6. LinkOpened'
      <4>1. link.ws # 0 => link.ws \in Sockets
        BY <1>0, EventClientsAssumption DEF Links, Sockets
      <4>2. link'.ws = link.ws
        BY <1>0, <2>1, LinkTyped
      <4> QED BY <3>2, <4>1, <4>2 DEF EventsTyped, LinkOpened
    <3> HIDE DEF SocketRecords
    <3> QED BY <1>0, <2>1, <2>2, <3>2, <3>3, <3>5, <3>6 DEF EventsTyped
  <2> QED BY <2>1, <2>3, <2>4
<1>2. CASE Disconnect
  <2>1. /\ Acts /\ UNCHANGED <<asker, daemonTok, connects, view, revision, gotEvents, excused>>
        /\ sockets' = IF link.ws # 0
                      THEN [sockets EXCEPT ![link.ws] = [sockets[link.ws] EXCEPT !.st = "closing", !.inbox = <<>>]]
                      ELSE sockets
        /\ \/ link' = [Acted(link) EXCEPT !.ws = 0] /\ UNCHANGED regs
           \/ /\ link' = [Acted(link) EXCEPT !.ws = 0, !.closed = TRUE, !.timer = FALSE]
              /\ regs' = [regs EXCEPT !.entry = 0, !.live = {}]
    BY <1>2 DEF Disconnect
  <2>2. link' \in Links
    <3>1. Acted(link) \in Links /\ 0 \in 0 .. MaxSockets
      BY <1>0, <2>1, LinkTyped, EventClientsAssumption
    <3> QED BY <2>1, <3>1 DEF Links
  <2>3. regs' \in Registrations
    <3>1. 0 \in 0 .. MaxClientActs /\ {} \in SUBSET Listeners
      BY EventClientsAssumption
    <3>2. [regs EXCEPT !.entry = 0, !.live = {}] \in Registrations
      BY <1>0, <3>1 DEF Registrations
    <3> QED BY <1>0, <2>1, <3>2
  <2>4. /\ sockets' \in [Sockets -> SocketRecords]
        /\ \A s \in Sockets : sockets'[s].st = "none" => sockets[s].st = "none"
        /\ \A s \in Sockets : s # link.ws => sockets'[s] = sockets[s]
    <3>1. CASE link.ws # 0
      <4>1. link.ws \in Sockets
        BY <1>0, <3>1, EventClientsAssumption DEF Links, Sockets
      <4> DEFINE shut == [sockets[link.ws] EXCEPT !.st = "closing", !.inbox = <<>>]
      <4>2. shut \in SocketRecords /\ shut.st = "closing"
        BY <1>0, <4>1, SocketClosing
      <4>3. sockets' = [sockets EXCEPT ![link.ws] = shut]
        BY <2>1, <3>1
      <4> HIDE DEF shut
      <4> QED BY <1>0, <4>1, <4>2, <4>3
    <3>2. CASE link.ws = 0
      BY <1>0, <2>1, <3>2
    <3> QED BY <3>1, <3>2
  <2>5. Opening' /\ LinkOpened'
    <3>1. link.ws # 0 => sockets[link.ws].st # "none" /\ sockets'[link.ws].st = "closing" /\ link.ws \in Sockets
      <4>1. CASE link.ws # 0
        <5>1. link.ws \in Sockets
          BY <1>0, <4>1, EventClientsAssumption DEF Links, Sockets
        <5> DEFINE shut == [sockets[link.ws] EXCEPT !.st = "closing", !.inbox = <<>>]
        <5>2. shut.st = "closing"
          BY <1>0, <5>1, SocketClosing
        <5>3. sockets' = [sockets EXCEPT ![link.ws] = shut]
          BY <2>1, <4>1
        <5> HIDE DEF shut
        <5> QED BY <1>0, <4>1, <5>1, <5>2, <5>3 DEF EventsTyped, LinkOpened
      <4> QED BY <4>1
    <3>2. \A s \in Sockets : sockets'[s].st = "none" <=> sockets[s].st = "none"
      <4>1. \A s \in Sockets : s = link.ws => link.ws # 0
        BY DEF Sockets
      <4> QED BY <2>4, <3>1, <4>1
    <3>3. link'.ws = 0
      BY <1>0, <2>1, LinkTyped DEF Links
    <3> QED BY <3>2, <3>3 DEF EventsTyped, Opening, LinkOpened
  <2> HIDE DEF SocketRecords
  <2> QED BY <1>0, <2>1, <2>2, <2>3, <2>4, <2>5 DEF EventsTyped
<1>3. CASE ConnectsFirst \/ ReconnectTimer
  <2>1. UNCHANGED <<asker, daemonTok, connects, regs, view, revision, gotEvents, excused>>
        /\ \/ Acts /\ ConnectWebSocket(Acted(link))
           \/ ConnectWebSocket([link EXCEPT !.timer = FALSE])
    BY <1>3 DEF ConnectsFirst, ReconnectTimer
  <2>2. [link EXCEPT !.timer = FALSE] \in Links /\ [link EXCEPT !.timer = FALSE].ws = link.ws
    BY <1>0 DEF Links
  <2>3. Acts => Acted(link) \in Links /\ Acted(link).ws = link.ws
    BY <1>0, LinkTyped
  <2>4. sockets' \in [Sockets -> SocketRecords] /\ link' \in Links /\ Opening' /\ LinkOpened'
    BY <2>1, <2>2, <2>3, ConnectWebSocketTyped
  <2> HIDE DEF SocketRecords
  <2> QED BY <1>0, <2>1, <2>4 DEF EventsTyped
<1>4. ASSUME NEW s \in Sockets, SocketCloses(s)
      PROVE  EventsTyped'
  <2>1. sockets[s].st = "closing" /\ SocketGoes(s, "gone") /\ link' = Closed(s)
        /\ UNCHANGED <<asker, daemonTok, connects, regs, view, revision, gotEvents, excused>>
    BY <1>4 DEF SocketCloses
  <2>2. link' \in Links /\ link'.ws \in {0, link.ws}
    <3>1. asker.kind \in {"cli", "sdk", "watch"}
      BY <1>0 DEF Clients
    <3>2. CASE asker.kind = "cli"
      <4>1. [link EXCEPT !.ws = 0] \in Links /\ [link EXCEPT !.ws = 0].ws = 0
        BY <1>0, EventClientsAssumption DEF Links
      <4>2. link' = ScheduleReconnect([link EXCEPT !.ws = 0])
        BY <2>1, <3>2 DEF Closed
      <4> DEFINE l == [link EXCEPT !.ws = 0]
      <4>3. l \in Links /\ l.ws = 0 /\ link' = ScheduleReconnect(l)
        BY <4>1, <4>2
      <4> HIDE DEF l
      <4>4. l.delay \in 0 .. 6 /\ (IF l.delay < 6 THEN l.delay + 1 ELSE l.delay) \in 0 .. 6
        BY <4>3 DEF Links
      <4>5. CASE l.closed \/ l.timer
        BY <4>3, <4>5 DEF ScheduleReconnect
      <4>6. CASE ~(l.closed \/ l.timer)
        <5> DEFINE delay == IF l.delay < 6 THEN l.delay + 1 ELSE l.delay
        <5>1. link' = [l EXCEPT !.timer = TRUE, !.delay = delay] /\ delay \in 0 .. 6
          BY <4>3, <4>4, <4>6 DEF ScheduleReconnect
        <5> HIDE DEF delay
        <5> QED BY <4>3, <5>1 DEF Links
      <4> QED BY <4>5, <4>6
    <3>3. CASE asker.kind = "sdk"
      BY <1>0, <2>1, <3>3, EventClientsAssumption DEF Closed, Links
    <3>4. CASE asker.kind = "watch"
      BY <1>0, <2>1, <3>4 DEF Closed
    <3> QED BY <3>1, <3>2, <3>3, <3>4
  <2>3. /\ sockets' \in [Sockets -> SocketRecords]
        /\ \A r \in Sockets : sockets'[r].st = "none" <=> sockets[r].st = "none"
    BY <1>0, <2>1, SocketGoesTyped
  <2>4. Opening' /\ LinkOpened'
    <3>1. link.ws # 0 => link.ws \in Sockets
      BY <1>0, EventClientsAssumption DEF Links, Sockets
    <3> QED BY <2>2, <2>3, <3>1 DEF EventsTyped, Opening, LinkOpened
  <2> HIDE DEF SocketRecords
  <2> QED BY <1>0, <2>1, <2>2, <2>3, <2>4 DEF EventsTyped
<1>5. ASSUME NEW s \in Sockets, SocketMessage(s)
      PROVE  EventsTyped'
  <2> DEFINE next == [sockets[s] EXCEPT !.inbox = Tail(@)]
  <2>1. /\ sockets[s].st = "open" /\ sockets[s].inbox # <<>> /\ sockets' = [sockets EXCEPT ![s] = next]
        /\ \/ connects' = [connects EXCEPT ![s] = "resolved"] /\ link' = [link EXCEPT !.ws = s]
           \/ UNCHANGED <<connects, link>>
        /\ gotEvents' = gotEvents \cup ({Head(sockets[s].inbox)} \ {"connected"})
        /\ view' = IF asker.kind = "watch" THEN [view EXCEPT !.dirty = TRUE] ELSE view
        /\ UNCHANGED <<asker, daemonTok, regs, revision, excused>>
    BY <1>5 DEF SocketMessage
  <2>2. sockets[s].inbox \in Seq({"connected"} \cup asker.ids)
    BY <1>0 DEF SocketRecords
  <2>3. Tail(sockets[s].inbox) \in Seq({"connected"} \cup asker.ids)
        /\ Head(sockets[s].inbox) \in {"connected"} \cup asker.ids
    BY <2>1, <2>2
  <2>4. next \in SocketRecords /\ next.st = "open"
    <3> DEFINE box == Tail(sockets[s].inbox)
    <3>1. next = [sockets[s] EXCEPT !.inbox = box] /\ box \in Seq({"connected"} \cup asker.ids)
      BY <2>3
    <3>2. sockets[s] \in SocketRecords /\ sockets[s].st = "open"
      BY <1>0, <2>1
    <3> HIDE DEF box, next
    <3> QED BY ONLY <3>1, <3>2 DEF SocketRecords
  <2>5. gotEvents' \subseteq asker.ids
    BY <2>1, <2>3 DEF EventsTyped
  <2> HIDE DEF next
  <2>6. /\ sockets' \in [Sockets -> SocketRecords] /\ sockets'[s].st = "open"
        /\ \A r \in Sockets : sockets'[r].st = "none" <=> sockets[r].st = "none"
    BY <1>0, <2>1, <2>4
  <2>7. link' \in Links /\ link'.ws \in {s, link.ws}
    <3>1. s \in 0 .. MaxSockets
      BY EventClientsAssumption DEF Sockets
    <3> QED BY <1>0, <2>1, <3>1 DEF Links
  <2>8. view' \in Views
    BY <1>0, <2>1 DEF Views
  <2>9. connects' \in [Sockets -> {"none", "pending", "resolved", "rejected"}]
    BY <1>0, <2>1
  <2>10. Opening' /\ LinkOpened'
    <3>1. link.ws # 0 => link.ws \in Sockets
      BY <1>0, EventClientsAssumption DEF Links, Sockets
    <3> QED BY <2>6, <2>7, <3>1 DEF EventsTyped, Opening, LinkOpened
  <2> HIDE DEF SocketRecords, Views
  <2> QED BY <1>0, <2>1, <2>5, <2>6, <2>7, <2>8, <2>9, <2>10 DEF EventsTyped
<1> QED BY <1>1, <1>2, <1>3, <1>4, <1>5

\* The callbacks.
LEMMA RegistrationsTyped ==
  ASSUME EventsTyped, Off \/ \E h \in Listeners : OnEvent(h) \/ Unsubscribe(h)
  PROVE  EventsTyped'
<1>0. /\ link \in Links /\ regs \in Registrations /\ Acts /\ link' = Acted(link)
      /\ UNCHANGED <<asker, daemonTok, sockets, connects, view, revision, gotEvents>>
      /\ excused' \subseteq excused \cup {"stolen"}
  BY DEF EventsTyped, Off, OnEvent, Unsubscribe
<1>1. link' \in Links /\ link'.ws = link.ws
  BY <1>0, LinkTyped
<1>2. regs' \in Registrations
  <2>1. CASE Off
    <3>1. regs' = [regs EXCEPT !.entry = 0, !.live = {}]
      BY <2>1 DEF Off
    <3>2. 0 \in 0 .. MaxClientActs /\ {} \in SUBSET Listeners
      BY EventClientsAssumption
    <3> QED BY <1>0, <3>1, <3>2 DEF Registrations
  <2>2. ASSUME NEW h \in Listeners, OnEvent(h)
        PROVE  regs' \in Registrations
    <3> DEFINE set == IF regs.entry # 0 THEN regs.entry ELSE link.acts + 1
    <3>1. regs' = [entry |-> set, sets |-> [regs.sets EXCEPT ![set] = @ \cup {h}],
                   own |-> [regs.own EXCEPT ![h] = set], live |-> regs.live \cup {h}]
      BY <2>2 DEF OnEvent
    <3>2. set \in SetIds /\ set \in 0 .. MaxClientActs
      BY <1>0, EventClientsAssumption DEF Acts, Links, Registrations, SetIds
    <3> HIDE DEF set
    <3>3. regs.sets \in [SetIds -> SUBSET Listeners] /\ regs.own \in [Listeners -> 0 .. MaxClientActs]
          /\ regs.live \in SUBSET Listeners
      BY <1>0 DEF Registrations
    <3>4. [regs.sets EXCEPT ![set] = @ \cup {h}] \in [SetIds -> SUBSET Listeners]
      BY <3>2, <3>3
    <3>5. [regs.own EXCEPT ![h] = set] \in [Listeners -> 0 .. MaxClientActs]
      BY <3>2, <3>3
    <3> QED BY <3>1, <3>2, <3>3, <3>4, <3>5 DEF Registrations
  <2>3. ASSUME NEW h \in Listeners, Unsubscribe(h)
        PROVE  regs' \in Registrations
    <3> DEFINE left == regs.sets[regs.own[h]] \ {h}
               sets == [regs.sets EXCEPT ![regs.own[h]] = left]
               entry == IF left = {} THEN 0 ELSE regs.entry
    <3>1. regs' = [regs EXCEPT !.sets = sets, !.live = regs.live \ {h}, !.entry = entry] /\ regs.own[h] # 0
      BY <2>3 DEF Unsubscribe
    <3>2. /\ regs.sets \in [SetIds -> SUBSET Listeners] /\ regs.own[h] \in SetIds
          /\ regs.live \ {h} \in SUBSET Listeners
      BY <1>0, <3>1, EventClientsAssumption DEF Registrations, SetIds
    <3>3. sets \in [SetIds -> SUBSET Listeners] /\ entry \in 0 .. MaxClientActs
      BY <1>0, <3>2, EventClientsAssumption DEF Registrations
    <3> HIDE DEF sets, entry
    <3> QED BY <1>0, <3>1, <3>2, <3>3 DEF Registrations
  <2> QED BY <2>1, <2>2, <2>3
<1>3. Opening' /\ LinkOpened'
  BY <1>0, <1>1, OpeningKept
<1>4. SocketRecords' = SocketRecords
  BY <1>0 DEF SocketRecords
<1> HIDE DEF SocketRecords
<1> QED BY <1>0, <1>1, <1>2, <1>3, <1>4 DEF EventsTyped

\* A change of one of the two fetches, and of what is beside them.
LEMMA FetchTyped ==
  ASSUME view \in Views, NEW i \in 1 .. 2, NEW fetch \in Fetches
  PROVE  LET next == [view EXCEPT !.fetches[i] = fetch]
         IN  /\ next \in Views /\ next.fetches = [view.fetches EXCEPT ![i] = fetch] /\ next.fetches[i] = fetch
             /\ \A j \in 1 .. 2 : j # i => next.fetches[j] = view.fetches[j]
             /\ next.pc = view.pc /\ next.dirty = view.dirty /\ next.shown = view.shown
<1> DEFINE fetches == [view.fetches EXCEPT ![i] = fetch]
<1>1. view.fetches \in [1 .. 2 -> Fetches]
  BY DEF Views
<1>2. fetches \in [1 .. 2 -> Fetches] /\ fetches[i] = fetch /\ \A j \in 1 .. 2 : j # i => fetches[j] = view.fetches[j]
  BY <1>1
<1>3. [view EXCEPT !.fetches[i] = fetch] = [view EXCEPT !.fetches = fetches]
  OBVIOUS
<1> HIDE DEF fetches
<1>4. /\ [view EXCEPT !.fetches = fetches] \in Views /\ [view EXCEPT !.fetches = fetches].fetches = fetches
      /\ [view EXCEPT !.fetches = fetches].pc = view.pc /\ [view EXCEPT !.fetches = fetches].dirty = view.dirty
      /\ [view EXCEPT !.fetches = fetches].shown = view.shown
  BY <1>2 DEF Views
<1> QED BY <1>2, <1>3, <1>4 DEF fetches

\* What the actions of watch make of its view.
LEMMA WatchEffects ==
  ASSUME EventsTyped
  PROVE  /\ WatchBegins => /\ view' \in Views /\ view'.pc = "reading" /\ view'.dirty = view.dirty
                           /\ view'.shown = view.shown /\ view'.fetches[1].st = "sent"
                           /\ view'.fetches[1].read = view.fetches[1].read /\ view'.fetches[2] = view.fetches[2]
         /\ WatchTick => /\ view' \in Views /\ view'.pc = "live" /\ view'.shown = view.shown
                         /\ \E i \in 1 .. 2 : /\ view.fetches[i].st = "none" /\ view'.fetches[i].st = "sent"
                                              /\ view'.fetches[i].read = view.fetches[i].read
                                              /\ \A j \in 1 .. 2 : j # i => view'.fetches[j] = view.fetches[j]
         /\ \A i \in 1 .. 2 :
              /\ FetchAnswered(i) =>
                   /\ view' \in Views /\ view'.pc = view.pc /\ view'.dirty = view.dirty /\ view'.shown = view.shown
                   /\ \/ view'.fetches[i] = [st |-> "answered", read |-> revision]
                      \/ view'.fetches[i].st = "refused" /\ view'.fetches[i].read = view.fetches[i].read
                   /\ \A j \in 1 .. 2 : j # i => view'.fetches[j] = view.fetches[j]
              /\ FetchReturns(i) =>
                   /\ view' \in Views /\ view'.dirty = view.dirty /\ view'.fetches[i] = NoFetch
                   /\ \A j \in 1 .. 2 : j # i => view'.fetches[j] = view.fetches[j]
                   /\ \/ /\ view.fetches[i].st = "answered" /\ view'.pc = view.pc
                         /\ view'.shown = view.fetches[i].read
                      \/ /\ view.fetches[i].st = "refused" /\ view'.shown = view.shown
                         /\ view'.pc = IF view.pc = "reading" THEN "over" ELSE view.pc
<1>0. view \in Views /\ revision \in Revisions /\ view.fetches \in [1 .. 2 -> Fetches]
  BY DEF EventsTyped, Views
<1>1. ASSUME WatchBegins
      PROVE  /\ view' \in Views /\ view'.pc = "reading" /\ view'.dirty = view.dirty
             /\ view'.shown = view.shown /\ view'.fetches[1].st = "sent"
             /\ view'.fetches[1].read = view.fetches[1].read /\ view'.fetches[2] = view.fetches[2]
  <2> DEFINE fetch == [view.fetches[1] EXCEPT !.st = "sent"]
             sent == [view EXCEPT !.fetches[1] = fetch]
  <2>1. fetch \in Fetches /\ fetch.st = "sent" /\ fetch.read = view.fetches[1].read
    BY <1>0 DEF Fetches
  <2>2. view' = [view EXCEPT !.pc = "reading", !.fetches[1] = fetch]
    BY <1>1 DEF WatchBegins
  <2> HIDE DEF fetch
  <2>3. /\ sent \in Views /\ sent.fetches[1] = fetch /\ sent.fetches[2] = view.fetches[2]
        /\ sent.pc = view.pc /\ sent.dirty = view.dirty /\ sent.shown = view.shown
    BY <1>0, <2>1, FetchTyped
  <2>4. view' = [sent EXCEPT !.pc = "reading"]
    BY <1>0, <2>2 DEF Views
  <2> HIDE DEF sent
  <2>5. /\ view' \in Views /\ view'.pc = "reading" /\ view'.dirty = sent.dirty
        /\ view'.shown = sent.shown /\ view'.fetches = sent.fetches
    BY <2>3, <2>4 DEF Views
  <2> QED BY <2>1, <2>3, <2>5
<1>2. ASSUME WatchTick
      PROVE  /\ view' \in Views /\ view'.pc = "live" /\ view'.shown = view.shown
             /\ \E i \in 1 .. 2 : /\ view.fetches[i].st = "none" /\ view'.fetches[i].st = "sent"
                                  /\ view'.fetches[i].read = view.fetches[i].read
                                  /\ \A j \in 1 .. 2 : j # i => view'.fetches[j] = view.fetches[j]
  <2>1. PICK i \in 1 .. 2 : /\ view.fetches[i].st = "none" /\ view.pc = "live"
                            /\ view' = [view EXCEPT !.dirty = FALSE, !.fetches[i].st = "sent"]
    BY <1>2 DEF WatchTick
  <2> DEFINE fetch == [view.fetches[i] EXCEPT !.st = "sent"]
             sent == [view EXCEPT !.fetches[i] = fetch]
  <2>2. fetch \in Fetches /\ fetch.st = "sent" /\ fetch.read = view.fetches[i].read
    BY <1>0 DEF Fetches
  <2>3. view' = [view EXCEPT !.dirty = FALSE, !.fetches[i] = fetch]
    BY <2>1
  <2> HIDE DEF fetch
  <2>4. /\ sent \in Views /\ sent.fetches[i] = fetch /\ \A j \in 1 .. 2 : j # i => sent.fetches[j] = view.fetches[j]
        /\ sent.pc = view.pc /\ sent.dirty = view.dirty /\ sent.shown = view.shown
    BY <1>0, <2>2, FetchTyped
  <2>5. view' = [sent EXCEPT !.dirty = FALSE]
    BY <1>0, <2>3 DEF Views
  <2> HIDE DEF sent
  <2>6. /\ view' \in Views /\ view'.pc = sent.pc /\ view'.shown = sent.shown /\ view'.fetches = sent.fetches
    BY <2>4, <2>5 DEF Views
  <2> QED BY <2>1, <2>2, <2>4, <2>6
<1>3. ASSUME NEW i \in 1 .. 2, FetchAnswered(i)
      PROVE  /\ view' \in Views /\ view'.pc = view.pc /\ view'.dirty = view.dirty /\ view'.shown = view.shown
             /\ \/ view'.fetches[i] = [st |-> "answered", read |-> revision]
                \/ view'.fetches[i].st = "refused" /\ view'.fetches[i].read = view.fetches[i].read
             /\ \A j \in 1 .. 2 : j # i => view'.fetches[j] = view.fetches[j]
  <2>1. CASE daemonTok = [up |-> TRUE, token |-> link.token]
    <3> DEFINE fetch == [st |-> "answered", read |-> revision]
    <3>1. view' = [view EXCEPT !.fetches[i] = fetch] /\ fetch \in Fetches
      BY <1>0, <1>3, <2>1 DEF FetchAnswered, Fetches
    <3> HIDE DEF fetch
    <3> QED BY <1>0, <3>1, FetchTyped DEF fetch
  <2>2. CASE daemonTok # [up |-> TRUE, token |-> link.token]
    <3> DEFINE fetch == [view.fetches[i] EXCEPT !.st = "refused"]
    <3>1. fetch \in Fetches /\ fetch.st = "refused" /\ fetch.read = view.fetches[i].read
      BY <1>0 DEF Fetches
    <3>2. view' = [view EXCEPT !.fetches[i] = fetch]
      BY <1>3, <2>2 DEF FetchAnswered
    <3> HIDE DEF fetch
    <3> QED BY <1>0, <3>1, <3>2, FetchTyped
  <2> QED BY <2>1, <2>2
<1>4. ASSUME NEW i \in 1 .. 2, FetchReturns(i)
      PROVE  /\ view' \in Views /\ view'.dirty = view.dirty /\ view'.fetches[i] = NoFetch
             /\ \A j \in 1 .. 2 : j # i => view'.fetches[j] = view.fetches[j]
             /\ \/ /\ view.fetches[i].st = "answered" /\ view'.pc = view.pc
                   /\ view'.shown = view.fetches[i].read
                \/ /\ view.fetches[i].st = "refused" /\ view'.shown = view.shown
                   /\ view'.pc = IF view.pc = "reading" THEN "over" ELSE view.pc
  <2> DEFINE back == [view EXCEPT !.fetches[i] = NoFetch]
  <2>1. NoFetch \in Fetches
    BY EventClientsAssumption DEF NoFetch, Fetches, NoRevision, Revisions
  <2>2. /\ back \in Views /\ back.fetches[i] = NoFetch /\ \A j \in 1 .. 2 : j # i => back.fetches[j] = view.fetches[j]
        /\ back.pc = view.pc /\ back.dirty = view.dirty /\ back.shown = view.shown
    BY <1>0, <2>1, FetchTyped
  <2>3. CASE view.fetches[i].st = "answered"
    <3>1. view' = [back EXCEPT !.shown = view.fetches[i].read]
      BY <1>4, <2>3 DEF FetchReturns, Back
    <3>2. view.fetches[i].read \in Revisions
      BY <1>0 DEF Fetches
    <3> HIDE DEF back
    <3>3. /\ view' \in Views /\ view'.fetches = back.fetches /\ view'.pc = back.pc /\ view'.dirty = back.dirty
          /\ view'.shown = view.fetches[i].read
      BY <2>2, <3>1, <3>2 DEF Views
    <3> QED BY <2>2, <2>3, <3>3
  <2>4. CASE view.fetches[i].st # "answered"
    <3>1. /\ view.fetches[i].st = "refused"
          /\ view' = IF view.pc = "reading" THEN [back EXCEPT !.pc = "over"] ELSE back
      BY <1>4, <2>4 DEF FetchReturns, Back
    <3> HIDE DEF back
    <3>2. CASE view.pc = "reading"
      <4>1. /\ view' \in Views /\ view'.fetches = back.fetches /\ view'.pc = "over" /\ view'.dirty = back.dirty
            /\ view'.shown = back.shown
        BY <2>2, <3>1, <3>2 DEF Views
      <4> QED BY <2>2, <3>1, <3>2, <4>1
    <3>3. CASE view.pc # "reading"
      BY <2>2, <3>1, <3>3
    <3> QED BY <3>2, <3>3
  <2> QED BY <2>3, <2>4
<1> QED BY <1>1, <1>2, <1>3, <1>4

LEMMA WatchTyped ==
  ASSUME EventsTyped, WatchBegins \/ WatchTick \/ Cleanup \/ \E i \in 1 .. 2 : FetchAnswered(i) \/ FetchReturns(i)
  PROVE  EventsTyped'
<1>0. /\ link \in Links /\ sockets \in [Sockets -> SocketRecords] /\ view \in Views
      /\ UNCHANGED <<asker, daemonTok, connects, regs, revision, gotEvents>>
      /\ excused' \subseteq excused \cup {"failed", "overtaken"}
  BY DEF EventsTyped, WatchBegins, WatchTick, Cleanup, FetchAnswered, FetchReturns
<1>1. link' \in Links /\ link'.ws = link.ws
  <2>1. link' = link \/ link' = [link EXCEPT !.token = daemonTok.token]
    BY DEF WatchBegins, WatchTick, Cleanup, FetchAnswered, FetchReturns
  <2>2. daemonTok.token \in 0 .. MaxRestarts
    BY DEF EventsTyped
  <2> QED BY <1>0, <2>1, <2>2 DEF Links
<1>2. view' \in Views
  <2>1. CASE Cleanup
    BY <1>0, <2>1 DEF Cleanup, Views
  <2> QED BY <2>1, WatchEffects
<1>3. /\ sockets' \in [Sockets -> SocketRecords]
      /\ \/ \A s \in Sockets : sockets'[s].st = "none" <=> sockets[s].st = "none"
         \/ MayOpen /\ SocketGoes(Fresh, "connecting")
  <2>1. CASE Cleanup
    <3>1. sockets' = [s \in Sockets |-> IF sockets[s].st = "open"
                         THEN [sockets[s] EXCEPT !.st = "closing", !.inbox = <<>>] ELSE sockets[s]]
      BY <2>1 DEF Cleanup
    <3>2. \A s \in Sockets : sockets'[s] \in SocketRecords /\ (sockets'[s].st = "none" <=> sockets[s].st = "none")
      <4> TAKE s \in Sockets
      <4>1. CASE sockets[s].st = "open"
        <5>1. sockets'[s] = [sockets[s] EXCEPT !.st = "closing", !.inbox = <<>>]
          BY <3>1, <4>1
        <5> QED BY <1>0, <4>1, <5>1, SocketClosing
      <4>2. CASE sockets[s].st # "open"
        BY <1>0, <3>1, <4>2
      <4> QED BY <4>1, <4>2
    <3> QED BY <3>1, <3>2
  <2>2. CASE sockets' = sockets
    BY <1>0, <2>2
  <2>3. CASE SocketGoes(Fresh, "connecting")
    <3>1. sockets' \in [Sockets -> SocketRecords] /\ \A r \in Sockets : r # Fresh => sockets'[r] = sockets[r]
      BY <1>0, <2>3, SocketGoesTyped
    <3>2. Fresh \in Sockets => sockets'[Fresh].st = "connecting"
      BY <1>0, <2>3, SocketGoesTyped
    <3>3. CASE MayOpen
      BY <2>3, <3>1, <3>3
    <3>4. CASE ~MayOpen
      BY <3>1, <3>2, <3>4 DEF MayOpen
    <3> QED BY <3>3, <3>4
  <2> QED BY <2>1, <2>2, <2>3 DEF WatchBegins, WatchTick, FetchAnswered, FetchReturns
<1>4. Opening' /\ LinkOpened'
  <2>1. CASE \A s \in Sockets : sockets'[s].st = "none" <=> sockets[s].st = "none"
    BY <1>1, <2>1, OpeningKept
  <2>2. CASE MayOpen /\ SocketGoes(Fresh, "connecting")
    <3>1. Fresh \in Sockets /\ \A s \in Sockets : sockets[s].st = "none" <=> s >= Fresh
      BY <2>2, FreshIsNext DEF EventsTyped
    <3>2. /\ sockets'[Fresh].st = "connecting"
          /\ \A r \in Sockets : r # Fresh => sockets'[r] = sockets[r]
      BY <1>0, <2>2, <3>1, SocketGoesTyped
    <3> HIDE DEF Fresh
    <3>3. Fresh \in 0 .. MaxSockets /\ \A s \in Sockets : sockets'[s].st = "none" <=> s > Fresh
      BY <3>1, <3>2 DEF Sockets
    <3>4. Opening'
      BY <3>3 DEF Opening
    <3>5. link.ws # 0 => link.ws \in Sockets
      BY <1>0, EventClientsAssumption DEF Links, Sockets
    <3> QED BY <1>1, <3>2, <3>4, <3>5 DEF EventsTyped, LinkOpened
  <2> QED BY <1>3, <2>1, <2>2
<1>5. SocketRecords' = SocketRecords
  BY <1>0 DEF SocketRecords
<1> HIDE DEF SocketRecords, Views
<1> QED BY <1>0, <1>1, <1>2, <1>3, <1>4, <1>5 DEF EventsTyped

LEMMA EventsTypedStep == EventsTyped /\ [EventsNext]_eventVars => EventsTyped'
<1> SUFFICES ASSUME EventsTyped, [EventsNext]_eventVars PROVE EventsTyped'
  OBVIOUS
<1>1. CASE UNCHANGED eventVars
  BY <1>1 DEF eventVars, EventsTyped, SocketRecords, Opening, LinkOpened
<1>2. CASE EventsNext
  BY <1>2, DaemonTyped, ClientTyped, RegistrationsTyped, WatchTyped DEF EventsNext
<1> QED BY <1>1, <1>2

-----------------------------------------------------------------------------
\* A callback that is registered is found, unless one was stolen.
CallbacksFound ==
  "stolen" \notin excused => \A h \in regs.live : regs.entry # 0 /\ h \in regs.sets[regs.entry]

LEMMA CallbacksFoundStep == EventsTyped /\ CallbacksFound /\ [EventsNext]_eventVars => CallbacksFound'
<1> SUFFICES ASSUME EventsTyped, CallbacksFound, [EventsNext]_eventVars PROVE CallbacksFound'
  OBVIOUS
<1>0. regs \in Registrations /\ link \in Links
  BY DEF EventsTyped
<1>1. CASE regs' = regs /\ ("stolen" \in excused => "stolen" \in excused')
  BY <1>1 DEF CallbacksFound
<1>2. CASE regs' = [regs EXCEPT !.entry = 0, !.live = {}]
  <2>1. regs'.live = {}
    BY <1>0, <1>2 DEF Registrations
  <2> QED BY <2>1 DEF CallbacksFound
<1>3. ASSUME NEW h \in Listeners, OnEvent(h)
      PROVE  CallbacksFound'
  <2> DEFINE set == IF regs.entry # 0 THEN regs.entry ELSE link.acts + 1
  <2>1. /\ regs' = [entry |-> set, sets |-> [regs.sets EXCEPT ![set] = @ \cup {h}],
                   own |-> [regs.own EXCEPT ![h] = set], live |-> regs.live \cup {h}]
        /\ excused' = excused /\ Acts
    BY <1>3 DEF OnEvent
  <2>2. set \in SetIds /\ set # 0 /\ (regs.entry # 0 => set = regs.entry)
    BY <1>0, <2>1, EventClientsAssumption DEF Acts, Links, Registrations, SetIds
  <2>3. regs.sets \in [SetIds -> SUBSET Listeners]
    BY <1>0 DEF Registrations
  <2> HIDE DEF set
  <2>4. /\ regs'.entry = set /\ regs'.live = regs.live \cup {h}
        /\ regs'.sets[set] = regs.sets[set] \cup {h}
    BY <2>1, <2>2, <2>3
  <2>5. ASSUME "stolen" \notin excused
        PROVE  \A k \in regs'.live : regs'.entry # 0 /\ k \in regs'.sets[regs'.entry]
    <3>1. \A k \in regs.live : regs.entry # 0 /\ k \in regs.sets[regs.entry]
      BY <2>5 DEF CallbacksFound
    <3> QED BY <2>2, <2>4, <3>1
  <2> QED BY <2>1, <2>5 DEF CallbacksFound
<1>4. ASSUME NEW h \in Listeners, Unsubscribe(h)
      PROVE  CallbacksFound'
  <2> DEFINE left == regs.sets[regs.own[h]] \ {h}
             sets == [regs.sets EXCEPT ![regs.own[h]] = left]
             entry == IF left = {} THEN 0 ELSE regs.entry
  <2>1. /\ regs' = [regs EXCEPT !.sets = sets, !.live = regs.live \ {h}, !.entry = entry] /\ regs.own[h] # 0
        /\ excused' = excused \cup IF left = {} /\ regs.entry \notin {0, regs.own[h]} THEN {"stolen"} ELSE {}
    BY <1>4 DEF Unsubscribe
  <2>2. regs.sets \in [SetIds -> SUBSET Listeners] /\ regs.own[h] \in SetIds
    BY <1>0, <2>1, EventClientsAssumption DEF Registrations, SetIds
  <2>3. \A i \in SetIds : sets[i] = IF i = regs.own[h] THEN left ELSE regs.sets[i]
    BY <2>2
  <2>4. regs'.entry = entry /\ regs'.live = regs.live \ {h} /\ regs'.sets = sets
    BY <1>0, <2>1 DEF Registrations
  <2>5. ASSUME "stolen" \notin excused', NEW k \in regs.live \ {h}
        PROVE  entry # 0 /\ k \in sets[entry]
    <3>1. "stolen" \notin excused /\ ~(left = {} /\ regs.entry \notin {0, regs.own[h]})
      BY <2>1, <2>5
    <3>2. regs.entry # 0 /\ k \in regs.sets[regs.entry] /\ regs.entry \in SetIds
      BY <1>0, <2>5, <3>1, EventClientsAssumption DEF CallbacksFound, Registrations, SetIds
    <3>3. left # {}
      BY <2>5, <3>1, <3>2
    <3> QED BY <2>3, <2>5, <3>2, <3>3
  <2> HIDE DEF sets, entry
  <2> QED BY <2>4, <2>5 DEF CallbacksFound
<1>5. CASE UNCHANGED eventVars
  BY <1>1, <1>5 DEF eventVars
<1>6. CASE EventsNext
  <2>1. CASE DaemonEnds \/ DaemonStarts \/ Connect \/ ConnectsFirst \/ ReconnectTimer \/ WatchBegins \/ WatchTick \/ Cleanup
    BY <1>1, <2>1 DEF DaemonEnds, DaemonStarts, Connect, ConnectsFirst, ReconnectTimer, WatchBegins, WatchTick, Cleanup
  <2>2. CASE Disconnect \/ Off
    BY <1>1, <1>2, <2>2 DEF Disconnect, Off
  <2>3. ASSUME NEW p \in WatchedIds, BroadcastForProject(p) PROVE CallbacksFound'
    BY <1>1, <2>3 DEF BroadcastForProject
  <2>4. ASSUME NEW s \in Sockets, Accept(s) \/ Subscribe(s) \/ Refused(s) \/ SocketCloses(s) \/ SocketMessage(s)
        PROVE  CallbacksFound'
    BY <1>1, <2>4 DEF Accept, Subscribe, Refused, SocketCloses, SocketMessage
  <2>5. ASSUME NEW i \in 1 .. 2, FetchAnswered(i) \/ FetchReturns(i) PROVE CallbacksFound'
    BY <1>1, <2>5 DEF FetchAnswered, FetchReturns
  <2> QED BY <1>3, <1>4, <1>6, <2>1, <2>2, <2>3, <2>4, <2>5 DEF EventsNext
<1> QED BY <1>5, <1>6

\* A client that is not watch has nothing of watch's view; one that is not the CLI's has no timer.
OthersRest ==
  /\ asker.kind \in {"cli", "sdk", "watch"}
  /\ asker.kind # "watch" => view.pc = "none" /\ \A i \in 1 .. 2 : view.fetches[i].st = "none"
  /\ asker.kind # "cli" => ~link.timer

LEMMA OthersRestStep == EventsTyped /\ OthersRest /\ [EventsNext]_eventVars => OthersRest'
<1> SUFFICES ASSUME EventsTyped, OthersRest, [EventsNext]_eventVars PROVE OthersRest'
  OBVIOUS
<1>0. asker' = asker /\ link \in Links
  BY DEF EventsTyped, EventsNext, eventVars, DaemonEnds, DaemonStarts, Connect, Disconnect, ConnectsFirst, ReconnectTimer, Off,
         WatchBegins, WatchTick, Cleanup, BroadcastForProject, Accept, Subscribe, Refused, SocketCloses,
         SocketMessage, OnEvent, Unsubscribe, FetchAnswered, FetchReturns
<1>1. ASSUME asker.kind # "watch"
      PROVE  view' = view
  <2>1. view.pc = "none" /\ \A i \in 1 .. 2 : view.fetches[i].st = "none"
    BY <1>1 DEF OthersRest
  <2>2. Rejected(TRUE) = view /\ Rejected(\E s \in Sockets : sockets[s].st = "connecting") = view
    BY <2>1 DEF Rejected
  <2> QED BY <1>1, <2>1, <2>2 DEF EventsNext, eventVars, DaemonEnds, DaemonStarts, Connect, Disconnect, ConnectsFirst,
         ReconnectTimer, Off, WatchBegins, WatchTick, Cleanup, BroadcastForProject, Accept, Subscribe, Refused,
         SocketCloses, SocketMessage, OnEvent, Unsubscribe, FetchAnswered, FetchReturns
<1>2. ASSUME asker.kind # "cli"
      PROVE  ~link'.timer
  <2>1. ~link.timer
    BY <1>2 DEF OthersRest
  <2>2. CASE link' \in {link, Acted(link), Opened(link), [link EXCEPT !.token = daemonTok.token]}
    BY <1>0, <2>1, <2>2 DEF Acted, Opened, Links
  <2>3. ASSUME NEW ws, link' = [link EXCEPT !.ws = ws] \/ link' = [Acted(link) EXCEPT !.ws = ws]
        PROVE  ~link'.timer
    BY <1>0, <2>1, <2>3 DEF Acted, Links
  <2>4. ~ReconnectTimer /\ ~ConnectsFirst
    BY <1>2, <2>1 DEF ReconnectTimer, ConnectsFirst
  <2>5. asker.kind = "sdk" \/ asker.kind = "watch"
    BY <1>2 DEF OthersRest
  <2>6. ASSUME NEW s \in Sockets, SocketCloses(s) PROVE ~link'.timer
    BY <2>2, <2>3, <2>5, <2>6 DEF SocketCloses, Closed
  <2>7. ASSUME Disconnect PROVE ~link'.timer
    BY <1>2, <2>3, <2>5, <2>7 DEF Disconnect
  <2>8. ASSUME NEW s \in Sockets, SocketMessage(s) PROVE ~link'.timer
    BY <2>2, <2>3, <2>8 DEF SocketMessage
  <2> QED BY <2>2, <2>4, <2>6, <2>7, <2>8 DEF EventsNext, eventVars, DaemonEnds, DaemonStarts, Connect,
         Off, WatchBegins, WatchTick, Cleanup, BroadcastForProject, Accept, Subscribe, Refused,
         OnEvent, Unsubscribe, FetchAnswered, FetchReturns
<1> QED BY <1>0, <1>1, <1>2 DEF OthersRest

\* A socket goes on by itself, or with the daemon: it is not opened anew.
GoesOnly ==
  \A s \in Sockets : \/ sockets'[s].st = sockets[s].st
                     \/ sockets[s].st \in {"connecting", "open"} /\ sockets'[s].st \in {"open", "closing"}

LEMMA DaemonSockets ==
  ASSUME EventsTyped,
         \/ DaemonEnds \/ DaemonStarts \/ Cleanup \/ \E p \in WatchedIds : BroadcastForProject(p)
         \/ \E s \in Sockets : Accept(s) \/ Subscribe(s) \/ Refused(s) \/ SocketMessage(s)
  PROVE  GoesOnly
<1>0. sockets \in [Sockets -> SocketRecords]
  BY DEF EventsTyped
<1>1. CASE DaemonEnds
  <2> SUFFICES ASSUME NEW s \in Sockets, sockets[s].st \in {"open", "connecting"}
               PROVE  sockets'[s].st = "closing"
    BY <1>1 DEF DaemonEnds, GoesOnly
  <2>1. sockets'[s] = [sockets[s] EXCEPT !.st = "closing", !.subs = {}, !.frame = FALSE, !.inbox = <<>>]
    BY <1>1 DEF DaemonEnds
  <2> QED BY <1>0, <2>1 DEF SocketRecords
<1>2. CASE DaemonStarts
  BY <1>2 DEF DaemonStarts, GoesOnly
<1>3. CASE Cleanup
  <2> SUFFICES ASSUME NEW s \in Sockets, sockets[s].st = "open"
               PROVE  sockets'[s].st = "closing"
    BY <1>3 DEF Cleanup, GoesOnly
  <2>1. sockets'[s] = [sockets[s] EXCEPT !.st = "closing", !.inbox = <<>>]
    BY <1>3 DEF Cleanup
  <2> QED BY <1>0, <2>1 DEF SocketRecords
<1>4. ASSUME NEW p \in WatchedIds, BroadcastForProject(p) PROVE GoesOnly
  <2> SUFFICES ASSUME NEW s \in Sockets, Hears(s, p)
               PROVE  sockets'[s].st = sockets[s].st
    BY <1>4 DEF BroadcastForProject, GoesOnly
  <2>1. sockets'[s] = [sockets[s] EXCEPT !.inbox = Append(@, p)]
    BY <1>4 DEF BroadcastForProject
  <2> QED BY <1>0, <2>1 DEF SocketRecords
<1>5. ASSUME NEW s \in Sockets, Accept(s) PROVE GoesOnly
  <2>1. CASE link.token = daemonTok.token
    <3> DEFINE open == [sockets[s] EXCEPT !.st = "open", !.inbox = <<"connected">>, !.frame = asker.kind = "watch"]
    <3>1. open.st = "open"
      BY <1>0 DEF SocketRecords
    <3>2. sockets' = [sockets EXCEPT ![s] = open] /\ sockets[s].st = "connecting"
      BY <1>5, <2>1 DEF Accept
    <3> HIDE DEF open
    <3> QED BY <1>0, <3>1, <3>2 DEF GoesOnly
  <2>2. CASE link.token # daemonTok.token
    <3>1. SocketGoes(s, "closing") /\ sockets[s].st = "connecting"
      BY <1>5, <2>2 DEF Accept
    <3> QED BY <1>0, <3>1, SocketGoesTyped DEF GoesOnly
  <2> QED BY <2>1, <2>2
<1>6. ASSUME NEW s \in Sockets, Subscribe(s) PROVE GoesOnly
  <2> DEFINE next == [sockets[s] EXCEPT !.frame = FALSE, !.subs = @ \cup asker.ids]
  <2>1. next.st = sockets[s].st
    BY <1>0 DEF SocketRecords
  <2>2. sockets' = [sockets EXCEPT ![s] = next]
    BY <1>6 DEF Subscribe
  <2> HIDE DEF next
  <2> QED BY <1>0, <2>1, <2>2 DEF GoesOnly
<1>7. ASSUME NEW s \in Sockets, Refused(s) PROVE GoesOnly
  BY <1>0, <1>7, SocketGoesTyped DEF Refused, GoesOnly
<1>8. ASSUME NEW s \in Sockets, SocketMessage(s) PROVE GoesOnly
  <2> DEFINE next == [sockets[s] EXCEPT !.inbox = Tail(@)]
  <2>1. next.st = sockets[s].st
    BY <1>0 DEF SocketRecords
  <2>2. sockets' = [sockets EXCEPT ![s] = next]
    BY <1>8 DEF SocketMessage
  <2> HIDE DEF next
  <2> QED BY <1>0, <2>1, <2>2 DEF GoesOnly
<1> QED BY <1>1, <1>2, <1>3, <1>4, <1>5, <1>6, <1>7, <1>8

LEMMA DisconnectSockets ==
  ASSUME EventsTyped, Disconnect
  PROVE  /\ \A s \in Sockets : s # link.ws => sockets'[s] = sockets[s]
         /\ link.ws # 0 => sockets'[link.ws].st = "closing"
         /\ link'.ws = 0 /\ (asker.kind # "sdk" => link'.closed /\ ~link'.timer)
<1>0. sockets \in [Sockets -> SocketRecords] /\ link \in Links /\ Acts
  BY DEF EventsTyped, Disconnect
<1>1. Acted(link) \in Links
  BY <1>0, LinkTyped
<1>2. link'.ws = 0 /\ (asker.kind # "sdk" => link'.closed /\ ~link'.timer)
  <2>1. \/ asker.kind = "sdk" /\ link' = [Acted(link) EXCEPT !.ws = 0]
        \/ link' = [Acted(link) EXCEPT !.ws = 0, !.closed = TRUE, !.timer = FALSE]
    BY DEF Disconnect
  <2> QED BY <1>1, <2>1 DEF Links
<1>3. CASE link.ws = 0
  BY <1>2, <1>3 DEF Disconnect
<1>4. CASE link.ws # 0
  <2>1. link.ws \in Sockets
    BY <1>0, <1>4, EventClientsAssumption DEF Links, Sockets
  <2> DEFINE shut == [sockets[link.ws] EXCEPT !.st = "closing", !.inbox = <<>>]
  <2>2. shut.st = "closing"
    BY <1>0, <2>1, SocketClosing
  <2>3. sockets' = [sockets EXCEPT ![link.ws] = shut]
    BY <1>4 DEF Disconnect
  <2> HIDE DEF shut
  <2> QED BY <1>0, <1>2, <2>1, <2>2, <2>3
<1> QED BY <1>3, <1>4

\* DaemonClient: what is not closed is its one socket, and until it is disconnected there is one or
\* a timer, once there has been any.
CliSockets ==
  asker.kind = "cli" =>
    /\ \A s \in Sockets : sockets[s].st \in {"connecting", "open", "closing"}
                            => s = link.ws \/ (link.closed /\ sockets[s].st = "closing")
    /\ link.closed => link.ws = 0 /\ ~link.timer
    /\ ~link.closed /\ sockets[1].st # "none" => link.ws # 0 \/ link.timer

LEMMA CliQuiet ==
  ASSUME EventsTyped, CliSockets, GoesOnly, asker' = asker,
         link'.ws = link.ws /\ link'.closed = link.closed /\ link'.timer = link.timer
  PROVE  CliSockets'
<1>1. 1 \in Sockets
  BY EventClientsAssumption DEF Sockets
<1> QED BY <1>1 DEF CliSockets, GoesOnly

LEMMA CliConnects ==
  ASSUME EventsTyped, CliSockets, asker.kind = "cli", asker' = asker, NEW l \in Links, ConnectWebSocket(l),
         l.ws = link.ws, l.closed = link.closed, l.timer => link.timer
  PROVE  CliSockets'
<1>1. CASE l.ws # 0
  BY <1>1 DEF ConnectWebSocket, CliSockets
<1>2. CASE l.ws = 0 /\ l.closed
  BY <1>2 DEF ConnectWebSocket, CliSockets
<1>3. CASE ~(l.ws # 0 \/ l.closed)
  <2>1. MayOpen /\ SocketGoes(Fresh, "connecting") /\ link' = [l EXCEPT !.ws = Fresh]
    BY <1>3 DEF ConnectWebSocket
  <2>2. Fresh \in Sockets
    BY <2>1, FreshIsNext DEF EventsTyped
  <2>3. /\ sockets'[Fresh].st = "connecting" /\ \A r \in Sockets : r # Fresh => sockets'[r] = sockets[r]
    BY <2>1, <2>2, SocketGoesTyped DEF EventsTyped
  <2> HIDE DEF Fresh
  <2>4. link'.ws = Fresh /\ link'.closed = link.closed /\ link'.timer = l.timer /\ ~link.closed
        /\ Fresh # 0 /\ 0 \notin Sockets
    BY <1>3, <2>1, <2>2 DEF Links, Sockets
  <2> QED BY <1>3, <2>2, <2>3, <2>4 DEF CliSockets
<1> QED BY <1>1, <1>2, <1>3

LEMMA CliSocketsStep == EventsTyped /\ OthersRest /\ CliSockets /\ [EventsNext]_eventVars => CliSockets'
<1> SUFFICES ASSUME EventsTyped, OthersRest, CliSockets, [EventsNext]_eventVars PROVE CliSockets'
  OBVIOUS
<1>0. asker' = asker /\ link \in Links /\ sockets \in [Sockets -> SocketRecords]
  BY DEF EventsTyped, EventsNext, eventVars, DaemonEnds, DaemonStarts, Connect, Disconnect, ConnectsFirst, ReconnectTimer, Off,
         WatchBegins, WatchTick, Cleanup, BroadcastForProject, Accept, Subscribe, Refused, SocketCloses,
         SocketMessage, OnEvent, Unsubscribe, FetchAnswered, FetchReturns
<1> SUFFICES ASSUME asker.kind = "cli" PROVE CliSockets'
  BY <1>0 DEF CliSockets
<1>1. view.pc = "none" /\ \A i \in 1 .. 2 : view.fetches[i].st = "none"
  BY DEF OthersRest
<1>2. CASE UNCHANGED <<sockets, link>>
  BY <1>0, <1>2, CliQuiet DEF GoesOnly
<1>3. CASE Disconnect
  <2>1. /\ \A s \in Sockets : s # link.ws => sockets'[s] = sockets[s]
        /\ link.ws # 0 => sockets'[link.ws].st = "closing"
        /\ link'.ws = 0 /\ link'.closed /\ ~link'.timer
    BY <1>3, DisconnectSockets
  <2>2. \A s \in Sockets : s = link.ws => link.ws # 0
    BY DEF Sockets
  <2>3. \A s \in Sockets : sockets'[s].st \in {"connecting", "open", "closing"} => sockets'[s].st = "closing"
    BY <2>1, <2>2 DEF CliSockets
  <2> QED BY <2>1, <2>3 DEF CliSockets
<1>4. CASE ConnectsFirst
  <2>1. Acted(link) \in Links /\ Acted(link).ws = link.ws /\ Acted(link).closed = link.closed
        /\ Acted(link).timer = link.timer
    BY <1>0, <1>4, LinkTyped DEF ConnectsFirst
  <2> QED BY <1>0, <1>4, <2>1, CliConnects DEF ConnectsFirst
<1>5. CASE ReconnectTimer
  <2> DEFINE l == [link EXCEPT !.timer = FALSE]
  <2>1. l \in Links /\ l.ws = link.ws /\ l.closed = link.closed /\ ~l.timer
    BY <1>0 DEF Links
  <2>2. ConnectWebSocket(l)
    BY <1>5 DEF ReconnectTimer
  <2> QED BY <1>0, <2>1, <2>2, CliConnects
<1>6. CASE Off \/ \E h \in Listeners : OnEvent(h) \/ Unsubscribe(h)
  <2>1. link' = Acted(link) /\ sockets' = sockets /\ Acts
    BY <1>6 DEF Off, OnEvent, Unsubscribe
  <2>2. link'.ws = link.ws /\ link'.closed = link.closed /\ link'.timer = link.timer
    BY <1>0, <2>1, LinkTyped
  <2> QED BY <1>0, <2>1, <2>2, CliQuiet DEF GoesOnly
<1>7. ~Connect /\ ~WatchBegins /\ ~WatchTick /\ ~Cleanup /\ \A i \in 1 .. 2 : ~FetchAnswered(i) /\ ~FetchReturns(i)
  BY <1>1 DEF Connect, WatchBegins, WatchTick, Cleanup, FetchAnswered, FetchReturns
<1>8. CASE DaemonEnds \/ DaemonStarts \/ (\E p \in WatchedIds : BroadcastForProject(p))
           \/ \E s \in Sockets : Subscribe(s) \/ Refused(s)
  <2>1. link' = link
    BY <1>8 DEF DaemonEnds, DaemonStarts, BroadcastForProject, Subscribe, Refused
  <2> QED BY <1>0, <1>8, <2>1, DaemonSockets, CliQuiet
<1>9. ASSUME NEW s \in Sockets, Accept(s) PROVE CliSockets'
  <2>1. link' = link \/ link' = [link EXCEPT !.delay = 0]
    BY <1>9 DEF Accept, Opened
  <2>2. link'.ws = link.ws /\ link'.closed = link.closed /\ link'.timer = link.timer
    BY <1>0, <2>1 DEF Links
  <2> QED BY <1>0, <1>9, <2>2, DaemonSockets, CliQuiet
<1>10. ASSUME NEW s \in Sockets, SocketMessage(s) PROVE CliSockets'
  <2>1. sockets[s].st = "open" /\ s = link.ws
    BY <1>10 DEF SocketMessage, CliSockets
  <2>2. link' = link \/ link' = [link EXCEPT !.ws = s]
    BY <1>10 DEF SocketMessage
  <2>3. link'.ws = link.ws /\ link'.closed = link.closed /\ link'.timer = link.timer
    BY <1>0, <2>1, <2>2 DEF Links
  <2> QED BY <1>0, <1>10, <2>3, DaemonSockets, CliQuiet
<1>11. ASSUME NEW s \in Sockets, SocketCloses(s) PROVE CliSockets'
  <2> DEFINE l == [link EXCEPT !.ws = 0]
  <2>1. sockets[s].st = "closing" /\ SocketGoes(s, "gone") /\ link' = ScheduleReconnect(l)
    BY <1>11 DEF SocketCloses, Closed
  <2>2. sockets'[s].st = "gone" /\ \A r \in Sockets : r # s => sockets'[r] = sockets[r]
    BY <1>0, <2>1, SocketGoesTyped
  <2>3. l \in Links /\ l.ws = 0 /\ l.closed = link.closed /\ l.timer = link.timer
    BY <1>0, EventClientsAssumption DEF Links
  <2> HIDE DEF l
  <2>4. link'.ws = 0 /\ link'.closed = link.closed /\ (link.closed => link'.timer = link.timer)
        /\ (~link.closed => link'.timer)
    <3>1. CASE l.closed \/ l.timer
      BY <2>1, <2>3, <3>1 DEF ScheduleReconnect
    <3>2. CASE ~(l.closed \/ l.timer)
      <4> DEFINE delay == IF l.delay < 6 THEN l.delay + 1 ELSE l.delay
      <4>1. link' = [l EXCEPT !.timer = TRUE, !.delay = delay]
        BY <2>1, <3>2 DEF ScheduleReconnect
      <4> HIDE DEF delay
      <4> QED BY <2>3, <3>2, <4>1 DEF Links
    <3> QED BY <3>1, <3>2
  <2>5. CASE link.closed
    <3>1. \A r \in Sockets : sockets[r].st \in {"connecting", "open", "closing"} => sockets[r].st = "closing"
      BY <2>5 DEF CliSockets, Sockets
    <3> QED BY <2>2, <2>4, <2>5, <3>1 DEF CliSockets
  <2>6. CASE ~link.closed
    <3>1. s = link.ws /\ \A r \in Sockets : r # s => sockets[r].st \notin {"connecting", "open", "closing"}
      BY <2>1, <2>6 DEF CliSockets
    <3> QED BY <2>2, <2>4, <2>6, <3>1 DEF CliSockets
  <2> QED BY <2>5, <2>6
<1> QED BY <1>2, <1>3, <1>4, <1>5, <1>6, <1>7, <1>8, <1>9, <1>10, <1>11 DEF EventsNext, eventVars

\* The SDK has one socket that is not closing, unless connect() has been called while there was one.
SdkSockets ==
  asker.kind = "sdk" /\ "doubled" \notin excused => \A a, b \in Live : a = b

LEMMA SdkSocketsStep == EventsTyped /\ OthersRest /\ SdkSockets /\ [EventsNext]_eventVars => SdkSockets'
<1> SUFFICES ASSUME EventsTyped, OthersRest, SdkSockets, [EventsNext]_eventVars PROVE SdkSockets'
  OBVIOUS
<1>0. asker' = asker /\ sockets \in [Sockets -> SocketRecords]
  BY DEF EventsTyped, EventsNext, eventVars, DaemonEnds, DaemonStarts, Connect, Disconnect, ConnectsFirst, ReconnectTimer, Off,
         WatchBegins, WatchTick, Cleanup, BroadcastForProject, Accept, Subscribe, Refused, SocketCloses,
         SocketMessage, OnEvent, Unsubscribe, FetchAnswered, FetchReturns
<1> SUFFICES ASSUME asker.kind = "sdk", "doubled" \notin excused'
             PROVE  \A a, b \in Live' : a = b
  BY <1>0 DEF SdkSockets
<1>1. view.pc = "none" /\ (\A i \in 1 .. 2 : view.fetches[i].st = "none") /\ ~link.timer
  BY DEF OthersRest
<1>2. ~ConnectsFirst /\ ~ReconnectTimer /\ ~WatchBegins /\ ~WatchTick /\ ~Cleanup
      /\ \A i \in 1 .. 2 : ~FetchAnswered(i) /\ ~FetchReturns(i)
  BY <1>1 DEF ConnectsFirst, ReconnectTimer, WatchBegins, WatchTick, Cleanup, FetchAnswered, FetchReturns
<1>3. CASE Live' \subseteq Live /\ "doubled" \notin excused
  BY <1>3 DEF SdkSockets
<1>4. GoesOnly => Live' \subseteq Live
  BY DEF GoesOnly, Live
<1>5. CASE Connect
  <2>1. CASE link.ws # 0
    BY <1>3, <1>5, <2>1 DEF Connect, Live
  <2>2. CASE link.ws = 0
    <3>1. /\ MayOpen /\ SocketGoes(Fresh, "connecting")
          /\ excused' = excused \cup IF \E s \in Sockets : sockets[s].st \in {"connecting", "open"}
                                     THEN {"doubled"} ELSE {}
      BY <1>5, <2>2 DEF Connect
    <3>2. Fresh \in Sockets
      BY <3>1, FreshIsNext DEF EventsTyped
    <3>3. \A r \in Sockets : r # Fresh => sockets'[r] = sockets[r]
      BY <1>0, <3>1, <3>2, SocketGoesTyped
    <3>4. Live = {}
      BY <3>1 DEF Live
    <3> HIDE DEF Fresh
    <3>5. Live' \subseteq {Fresh}
      BY <3>2, <3>3, <3>4 DEF Live
    <3> QED BY <3>5
  <2> QED BY <2>1, <2>2
<1>6. CASE Disconnect
  <2>1. /\ \A s \in Sockets : s # link.ws => sockets'[s] = sockets[s]
        /\ link.ws # 0 => sockets'[link.ws].st = "closing"
    BY <1>6, DisconnectSockets
  <2>2. \A s \in Sockets : s = link.ws => link.ws # 0
    BY DEF Sockets
  <2>3. Live' \subseteq Live /\ excused' = excused
    BY <1>6, <2>1, <2>2 DEF Live, Disconnect
  <2> QED BY <1>3, <2>3
<1>7. CASE UNCHANGED sockets /\ excused \subseteq excused'
  BY <1>3, <1>7 DEF Live
<1>8. CASE DaemonEnds \/ DaemonStarts \/ (\E p \in WatchedIds : BroadcastForProject(p))
           \/ \E s \in Sockets : Accept(s) \/ Subscribe(s) \/ Refused(s) \/ SocketMessage(s)
  <2>1. excused \subseteq excused'
    BY <1>8 DEF DaemonEnds, DaemonStarts, BroadcastForProject, Accept, Subscribe, Refused, SocketMessage
  <2> QED BY <1>3, <1>4, <1>8, <2>1, DaemonSockets
<1>9. ASSUME NEW s \in Sockets, SocketCloses(s) PROVE \A a, b \in Live' : a = b
  <2>1. sockets'[s].st = "gone" /\ (\A r \in Sockets : r # s => sockets'[r] = sockets[r]) /\ excused' = excused
    BY <1>0, <1>9, SocketGoesTyped DEF SocketCloses
  <2>2. Live' \subseteq Live
    BY <2>1 DEF Live
  <2> QED BY <1>3, <2>1, <2>2
<1>10. CASE Off \/ \E h \in Listeners : OnEvent(h) \/ Unsubscribe(h)
  BY <1>7, <1>10 DEF Off, OnEvent, Unsubscribe
<1>11. CASE UNCHANGED eventVars
  BY <1>7, <1>11 DEF eventVars
<1> QED BY <1>2, <1>5, <1>6, <1>8, <1>9, <1>10, <1>11 DEF EventsNext

\* Watch has one socket, which it opens when its first answer has come, and which is there only
\* while watch is about to go live or is; nothing is told before the daemon has accepted it.
WatchSockets ==
  asker.kind = "watch" =>
    /\ \A s, r \in Sockets : sockets[s].st # "none" /\ sockets[r].st # "none" => s = r
    /\ \A s \in Sockets : /\ sockets[s].st = "connecting" => view.pc = "reading"
                          /\ sockets[s].st \in {"none", "connecting"} => sockets[s].inbox = <<>>
    /\ view.pc = "none" => /\ \A s \in Sockets : sockets[s].st = "none"
                           /\ \A i \in 1 .. 2 : view.fetches[i].st = "none"
    /\ view.pc = "reading" => /\ view.fetches[2].st = "none"
                              /\ view.fetches[1].st # "none" => \A s \in Sockets : sockets[s].st = "none"

\* What watch has read is not newer than what there is.
ReadsThePast == \A i \in 1 .. 2 : \A p \in WatchedIds : view.fetches[i].read[p] <= revision[p]

Unmended == {"untold", "failed", "overtaken"}

\* Why watch may show an old state of a project: it is about to read again, it has been told, or is
\* being told, that there is something to read, or its answer is on its way.
Reason(p) ==
  \/ view.dirty \/ excused \cap Unmended # {}
  \/ \E s \in Live : sockets[s].inbox # <<>>
  \/ \E i \in 1 .. 2 : \/ view.fetches[i].st \in {"sent", "refused"}
                       \/ view.fetches[i].st = "answered" /\ view.fetches[i].read[p] = revision[p]

WatchKnows ==
  asker.kind = "watch" /\ view.pc # "over" =>
    \A p \in asker.ids : view.shown[p] = revision[p] \/ Reason(p)

LEMMA KnowsStill ==
  ASSUME WatchKnows, asker' = asker, revision' = revision, view.pc = "over" => view'.pc = "over",
         view'.dirty = view.dirty, view'.shown = view.shown, view'.fetches = view.fetches,
         excused \cap Unmended \subseteq excused',
         \A s \in Live : sockets[s].inbox # <<>> => s \in Live' /\ sockets'[s].inbox = sockets[s].inbox
  PROVE  WatchKnows'
<1> SUFFICES ASSUME asker.kind = "watch", view'.pc # "over", NEW p \in asker.ids
             PROVE  view'.shown[p] = revision'[p] \/ Reason(p)'
  BY DEF WatchKnows
<1>1. view.shown[p] = revision[p] \/ Reason(p)
  BY DEF WatchKnows
<1> QED BY <1>1 DEF Reason

WatchInv == WatchSockets /\ ReadsThePast /\ WatchKnows

LEMMA WatchUntouched ==
  ASSUME WatchInv, asker' = asker, revision' = revision, view' = view, sockets' = sockets, excused \subseteq excused'
  PROVE  WatchInv'
BY KnowsStill DEF WatchInv, WatchSockets, ReadsThePast, Live

LEMMA WatchOnly ==
  ASSUME EventsTyped, asker.kind # "watch", asker' = asker, view' = view, \A p \in WatchedIds : revision[p] <= revision'[p],
         revision' \in Revisions, WatchInv
  PROVE  WatchInv'
<1>1. revision \in Revisions /\ view.fetches \in [1 .. 2 -> Fetches]
  BY DEF EventsTyped, Views
<1>2. ReadsThePast'
  <2> SUFFICES ASSUME NEW i \in 1 .. 2, NEW p \in WatchedIds PROVE view.fetches[i].read[p] <= revision'[p]
    BY DEF ReadsThePast
  <2>1. view.fetches[i].read[p] <= revision[p]
    BY DEF WatchInv, ReadsThePast
  <2>2. view.fetches[i].read \in Revisions
    BY <1>1 DEF Fetches
  <2>3. view.fetches[i].read[p] \in Nat /\ revision[p] \in Nat /\ revision'[p] \in Nat
    BY <1>1, <2>2 DEF Revisions
  <2> QED BY <2>1, <2>3
<1> QED BY <1>2 DEF WatchInv, WatchSockets, WatchKnows

LEMMA WatchInvInit == asker \in Clients /\ EventsStart => WatchInv
<1> SUFFICES ASSUME asker \in Clients, EventsStart PROVE WatchInv
  OBVIOUS
<1>1. view.pc = "none" /\ view.shown = NoRevision /\ revision = NoRevision
      /\ \A i \in 1 .. 2 : view.fetches[i] = NoFetch
  BY DEF EventsStart
<1>2. \A s \in Sockets : sockets[s].st = "none" /\ sockets[s].inbox = <<>>
  BY DEF EventsStart
<1>3. ReadsThePast
  BY <1>1 DEF ReadsThePast, NoFetch, NoRevision
<1>4. WatchKnows
  BY <1>1 DEF WatchKnows
<1>5. WatchSockets
  BY <1>1, <1>2 DEF WatchSockets, NoFetch
<1> QED BY <1>3, <1>4, <1>5 DEF WatchInv

LEMMA RevisionGrows ==
  ASSUME EventsTyped, [EventsNext]_eventVars
  PROVE  /\ asker' = asker /\ revision \in Revisions
         /\ \A p \in WatchedIds : revision[p] \in Nat /\ revision'[p] \in Nat /\ revision[p] <= revision'[p]
<1>1. revision \in Revisions /\ revision \in [WatchedIds -> 0 .. MaxRevision]
  BY DEF EventsTyped, Revisions
<1>2. ASSUME NEW p \in WatchedIds, BroadcastForProject(p)
      PROVE  asker' = asker /\ \A q \in WatchedIds : revision[q] \in Nat /\ revision'[q] \in Nat /\ revision[q] <= revision'[q]
  BY <1>1, <1>2, EventClientsAssumption DEF BroadcastForProject
<1>3. CASE asker' = asker /\ revision' = revision
  BY <1>1, <1>3, EventClientsAssumption
<1> QED BY <1>1, <1>2, <1>3 DEF EventsNext, eventVars, DaemonEnds, DaemonStarts, Connect, Disconnect, ConnectsFirst, ReconnectTimer, Off,
         WatchBegins, WatchTick, Cleanup, Accept, Subscribe, Refused, SocketCloses,
         SocketMessage, OnEvent, Unsubscribe, FetchAnswered, FetchReturns

\* What the daemon and the socket do while watch looks on.
LEMMA WatchedSocket ==
  ASSUME EventsTyped, WatchInv, asker.kind = "watch", NEW s \in Sockets,
         Accept(s) \/ Subscribe(s) \/ Refused(s) \/ SocketCloses(s)
  PROVE  /\ sockets[s].st = "connecting" \/ sockets'[s].inbox = sockets[s].inbox
         /\ \A r \in Sockets : r # s => sockets'[r] = sockets[r]
         /\ sockets[s].st # "none" /\ sockets'[s].st \notin {"none", "connecting"}
         /\ revision' = revision /\ asker' = asker /\ excused' = excused
         /\ view'.dirty = view.dirty /\ view'.shown = view.shown /\ view'.fetches = view.fetches
         /\ \/ view'.pc = view.pc
            \/ sockets[s].st = "connecting" /\ view.pc = "reading" /\ view'.pc \in {"live", "over"}
<1>0. sockets \in [Sockets -> SocketRecords] /\ view \in Views
  BY DEF EventsTyped
<1>1. sockets[s].st = "connecting" => view.pc = "reading"
  BY DEF WatchInv, WatchSockets
<1>2. CASE Accept(s)
  <2>1. /\ sockets[s].st = "connecting" /\ view' = [view EXCEPT !.pc = "live"]
        /\ UNCHANGED <<asker, revision, excused>>
    BY <1>2 DEF Accept
  <2>2. /\ view'.dirty = view.dirty /\ view'.shown = view.shown /\ view'.fetches = view.fetches /\ view'.pc = "live"
    BY <1>0, <2>1 DEF Views
  <2>3. CASE link.token = daemonTok.token
    <3> DEFINE open == [sockets[s] EXCEPT !.st = "open", !.inbox = <<"connected">>, !.frame = asker.kind = "watch"]
    <3>1. open.st = "open"
      BY <1>0 DEF SocketRecords
    <3>2. sockets' = [sockets EXCEPT ![s] = open]
      BY <1>2, <2>3 DEF Accept
    <3> HIDE DEF open
    <3> QED BY <1>0, <1>1, <1>2, <2>1, <2>2, <3>1, <3>2
  <2>4. CASE link.token # daemonTok.token
    <3>1. SocketGoes(s, "closing")
      BY <1>2, <2>4 DEF Accept
    <3>2. sockets'[s].st = "closing" /\ \A r \in Sockets : r # s => sockets'[r] = sockets[r]
      BY <1>0, <3>1, SocketGoesTyped
    <3> QED BY <1>1, <1>2, <2>1, <2>2, <3>2
  <2> QED BY <2>3, <2>4
<1>3. CASE Subscribe(s)
  <2> DEFINE next == [sockets[s] EXCEPT !.frame = FALSE, !.subs = @ \cup asker.ids]
  <2>1. next.st = sockets[s].st /\ next.inbox = sockets[s].inbox
    BY <1>0 DEF SocketRecords
  <2>2. sockets' = [sockets EXCEPT ![s] = next] /\ sockets[s].st = "open"
        /\ UNCHANGED <<asker, revision, excused, view>>
    BY <1>3 DEF Subscribe
  <2> HIDE DEF next
  <2> QED BY <1>0, <2>1, <2>2
<1>4. CASE Refused(s)
  <2>1. /\ sockets[s].st = "connecting" /\ SocketGoes(s, "closing") /\ view' = Rejected(TRUE) /\ ~daemonTok.up
        /\ UNCHANGED <<asker, revision, excused>>
    BY <1>4 DEF Refused
  <2>2. view' = [view EXCEPT !.pc = "over"]
    BY <1>1, <2>1 DEF Rejected
  <2>3. view'.dirty = view.dirty /\ view'.shown = view.shown /\ view'.fetches = view.fetches /\ view'.pc = "over"
    BY <1>0, <2>2 DEF Views
  <2>4. sockets'[s].st = "closing" /\ sockets'[s].inbox = sockets[s].inbox
        /\ \A r \in Sockets : r # s => sockets'[r] = sockets[r]
    BY <1>0, <2>1, SocketGoesTyped
  <2> QED BY <1>1, <2>1, <2>3, <2>4
<1>5. CASE SocketCloses(s)
  <2>1. /\ sockets[s].st = "closing" /\ SocketGoes(s, "gone") /\ UNCHANGED <<asker, revision, excused, view>>
    BY <1>5 DEF SocketCloses
  <2>2. sockets'[s].st = "gone" /\ sockets'[s].inbox = sockets[s].inbox
        /\ \A r \in Sockets : r # s => sockets'[r] = sockets[r]
    BY <1>0, <2>1, SocketGoesTyped
  <2> QED BY <2>1, <2>2
<1> QED BY <1>2, <1>3, <1>4, <1>5

LEMMA WatchInvOfSocket ==
  ASSUME EventsTyped, WatchInv, asker.kind = "watch", NEW s \in Sockets,
         Accept(s) \/ Subscribe(s) \/ Refused(s) \/ SocketCloses(s)
  PROVE  WatchInv'
<1>1. /\ sockets[s].st = "connecting" \/ sockets'[s].inbox = sockets[s].inbox
      /\ \A r \in Sockets : r # s => sockets'[r] = sockets[r]
      /\ sockets[s].st # "none" /\ sockets'[s].st \notin {"none", "connecting"}
      /\ revision' = revision /\ asker' = asker /\ excused' = excused
      /\ view'.dirty = view.dirty /\ view'.shown = view.shown /\ view'.fetches = view.fetches
      /\ \/ view'.pc = view.pc
         \/ sockets[s].st = "connecting" /\ view.pc = "reading" /\ view'.pc \in {"live", "over"}
  BY WatchedSocket
<1>2. Accept(s) \/ Refused(s) => sockets[s].st = "connecting" /\ view.pc = "reading"
  BY DEF Accept, Refused, WatchInv, WatchSockets
<1>3. sockets[s].st # "none" /\ sockets'[s].st \notin {"none", "connecting"}
  BY <1>1
<1>4. WatchSockets'
  BY <1>1, <1>2, <1>3 DEF WatchInv, WatchSockets
<1>5. ReadsThePast'
  BY <1>1 DEF WatchInv, ReadsThePast
<1>6. ASSUME NEW r \in Live, sockets[r].inbox # <<>>
      PROVE  r \in Live' /\ sockets'[r].inbox = sockets[r].inbox
  <2>1. CASE r # s
    BY <1>1, <1>6, <2>1 DEF Live
  <2>2. CASE r = s
    <3>1. sockets[s].st = "open"
      BY <1>6, <2>2 DEF Live, WatchInv, WatchSockets
    <3>2. Subscribe(s)
      BY <3>1 DEF Accept, Refused, SocketCloses
    <3>3. sockets'[s].st = "open"
      <4>1. sockets' = [sockets EXCEPT ![s] = [sockets[s] EXCEPT !.frame = FALSE, !.subs = @ \cup asker.ids]]
        BY <3>2 DEF Subscribe
      <4>2. sockets \in [Sockets -> SocketRecords]
        BY DEF EventsTyped
      <4>3. [sockets[s] EXCEPT !.frame = FALSE, !.subs = @ \cup asker.ids].st = sockets[s].st
        BY <4>2 DEF SocketRecords
      <4> QED BY <3>1, <4>1, <4>2, <4>3
    <3> QED BY <1>1, <2>2, <3>1, <3>3 DEF Live
  <2> QED BY <2>1, <2>2
<1>7. WatchKnows'
  BY <1>1, <1>2, <1>6, KnowsStill DEF WatchInv
<1> QED BY <1>4, <1>5, <1>7 DEF WatchInv

LEMMA WatchInvOfDaemon ==
  ASSUME EventsTyped, EventsTyped', WatchInv, asker.kind = "watch", DaemonEnds \/ \E p \in WatchedIds : BroadcastForProject(p)
  PROVE  WatchInv'
<1>0. sockets \in [Sockets -> SocketRecords] /\ view \in Views /\ asker' = asker
      /\ view.fetches \in [1 .. 2 -> Fetches] /\ revision \in [WatchedIds -> 0 .. MaxRevision]
  BY DEF EventsTyped, DaemonEnds, BroadcastForProject, Views, Revisions
<1>1. CASE DaemonEnds
  <2>1. /\ revision' = revision /\ "untold" \in excused' /\ view' = Rejected(\E s \in Sockets : sockets[s].st = "connecting")
    BY <1>1 DEF DaemonEnds
  <2>2. /\ \/ view' = view /\ ~(view.pc = "reading" /\ \E s \in Sockets : sockets[s].st = "connecting")
           \/ view' = [view EXCEPT !.pc = "over"] /\ view.pc = "reading"
    BY <2>1 DEF Rejected
  <2>3. /\ view'.dirty = view.dirty /\ view'.shown = view.shown /\ view'.fetches = view.fetches
        /\ view'.pc \in {view.pc, "over"}
    BY <1>0, <2>2 DEF Views
  <2>4. \A s \in Sockets :
          \/ sockets[s].st \in {"open", "connecting"} /\ sockets'[s].st = "closing"
          \/ sockets[s].st \notin {"open", "connecting"} /\ sockets'[s] = sockets[s]
    <3> TAKE s \in Sockets
    <3>1. CASE sockets[s].st \in {"open", "connecting"}
      <4>1. sockets'[s] = [sockets[s] EXCEPT !.st = "closing", !.subs = {}, !.frame = FALSE, !.inbox = <<>>]
        BY <1>1, <3>1 DEF DaemonEnds
      <4> QED BY <1>0, <3>1, <4>1 DEF SocketRecords
    <3>2. CASE sockets[s].st \notin {"open", "connecting"}
      BY <1>1, <3>2 DEF DaemonEnds
    <3> QED BY <3>1, <3>2
  <2>5. WatchSockets'
    BY <1>0, <2>3, <2>4 DEF WatchInv, WatchSockets
  <2>6. ReadsThePast' /\ WatchKnows'
    BY <1>0, <2>1, <2>3 DEF WatchInv, ReadsThePast, WatchKnows, Reason, Unmended
  <2> QED BY <2>5, <2>6 DEF WatchInv
<1>2. ASSUME NEW q \in WatchedIds, BroadcastForProject(q)
      PROVE  WatchInv'
  <2>1. /\ \A p \in WatchedIds : revision'[p] = IF p = q THEN revision[p] + 1 ELSE revision[p]
        /\ excused \subseteq excused' /\ view' = view
    BY <1>0, <1>2 DEF BroadcastForProject
  <2>2. \A s \in Sockets : \/ sockets[s].st = "open" /\ sockets'[s].st = "open" /\ sockets'[s].inbox # <<>>
                           \/ ~Hears(s, q) /\ sockets'[s] = sockets[s]
    <3> TAKE s \in Sockets
    <3>1. CASE Hears(s, q)
      <4>1. sockets'[s] = [sockets[s] EXCEPT !.inbox = Append(@, q)] /\ sockets[s].st = "open"
        BY <1>2, <3>1 DEF BroadcastForProject, Hears
      <4>2. Append(sockets[s].inbox, q) # <<>>
        BY <1>0 DEF SocketRecords
      <4> QED BY <1>0, <4>1, <4>2 DEF SocketRecords
    <3>2. CASE ~Hears(s, q)
      BY <1>2, <3>2 DEF BroadcastForProject
    <3> QED BY <3>1, <3>2
  <2>3. WatchSockets'
    BY <1>0, <2>1, <2>2 DEF WatchInv, WatchSockets
  <2>4. ReadsThePast'
    <3> SUFFICES ASSUME NEW i \in 1 .. 2, NEW p \in WatchedIds PROVE view.fetches[i].read[p] <= revision'[p]
      BY <2>1 DEF ReadsThePast
    <3>1. view.fetches[i].read[p] <= revision[p]
      BY DEF WatchInv, ReadsThePast
    <3>2. view.fetches[i].read[p] \in Nat /\ revision[p] \in Nat
      BY <1>0 DEF Fetches, Revisions
    <3> QED BY <2>1, <3>1, <3>2
  <2>5. WatchKnows'
    <3> SUFFICES ASSUME view.pc # "over", NEW p \in asker.ids
                 PROVE  view.shown[p] = revision'[p] \/ Reason(p)'
      BY <1>0, <2>1 DEF WatchKnows
    <3>1. view.shown[p] = revision[p] \/ Reason(p)
      BY DEF WatchInv, WatchKnows
    <3>2. CASE p = q /\ \E s \in Sockets : Hears(s, q)
      <4>1. PICK s \in Sockets : Hears(s, q)
        BY <3>2
      <4>2. s \in Live' /\ sockets'[s].inbox # <<>>
        BY <2>2, <4>1 DEF Live
      <4> QED BY <4>2 DEF Reason
    <3>3. CASE ~\E s \in Sockets : Hears(s, q)
      <4>1. "untold" \in excused'
        BY <1>2, <3>3 DEF BroadcastForProject
      <4> QED BY <4>1 DEF Reason, Unmended
    <3>4. CASE p # q
      <4>1. p \in WatchedIds
        BY DEF EventsTyped, Clients
      <4>2. revision'[p] = revision[p]
        BY <2>1, <3>4, <4>1
      <4>3. \A s \in Live : sockets[s].inbox # <<>> => s \in Live' /\ sockets'[s].inbox # <<>>
        BY <2>2 DEF Live
      <4> QED BY <2>1, <3>1, <4>2, <4>3 DEF Reason
    <3> QED BY <3>2, <3>3, <3>4
  <2> QED BY <2>3, <2>4, <2>5 DEF WatchInv
<1> QED BY <1>1, <1>2

LEMMA WatchInvOfView ==
  ASSUME EventsTyped, WatchInv, asker.kind = "watch", WatchBegins \/ WatchTick \/ Cleanup \/ \E i \in 1 .. 2 : FetchAnswered(i)
  PROVE  WatchInv'
<1>0. /\ view \in Views /\ sockets \in [Sockets -> SocketRecords] /\ asker' = asker /\ revision' = revision
      /\ revision \in [WatchedIds -> 0 .. MaxRevision]
  BY DEF EventsTyped, WatchBegins, WatchTick, Cleanup, FetchAnswered, Revisions
<1>1. CASE WatchBegins
  <2>1. /\ view.pc = "none" /\ view'.pc = "reading" /\ view'.dirty = view.dirty /\ sockets' = sockets
        /\ view'.shown = view.shown /\ view'.fetches[1].st = "sent"
        /\ view'.fetches[1].read = view.fetches[1].read /\ view'.fetches[2] = view.fetches[2]
    BY <1>1, WatchEffects DEF WatchBegins
  <2>2. WatchSockets'
    BY <1>0, <2>1 DEF WatchInv, WatchSockets
  <2>3. ReadsThePast'
    <3>1. \A i \in 1 .. 2 : view'.fetches[i].read = view.fetches[i].read
      BY <2>1
    <3> QED BY <1>0, <3>1 DEF WatchInv, ReadsThePast
  <2>4. WatchKnows'
    BY <2>1 DEF WatchKnows, Reason
  <2> QED BY <2>2, <2>3, <2>4 DEF WatchInv
<1>2. CASE WatchTick
  <2>1. /\ view.pc = "live" /\ view'.pc = "live" /\ view'.shown = view.shown /\ sockets' = sockets
        /\ \E i \in 1 .. 2 : /\ view.fetches[i].st = "none" /\ view'.fetches[i].st = "sent"
                             /\ view'.fetches[i].read = view.fetches[i].read
                             /\ \A j \in 1 .. 2 : j # i => view'.fetches[j] = view.fetches[j]
    BY <1>2, WatchEffects DEF WatchTick
  <2>2. WatchSockets'
    BY <1>0, <2>1 DEF WatchInv, WatchSockets
  <2>3. ReadsThePast'
    <3>1. \A i \in 1 .. 2 : view'.fetches[i].read = view.fetches[i].read
      BY <2>1
    <3> QED BY <1>0, <3>1 DEF WatchInv, ReadsThePast
  <2>4. WatchKnows'
    BY <2>1 DEF WatchKnows, Reason
  <2> QED BY <2>2, <2>3, <2>4 DEF WatchInv
<1>3. CASE Cleanup
  <2>1. /\ view.pc = "live" /\ view'.pc = "over" /\ view'.fetches = view.fetches
    BY <1>0, <1>3 DEF Cleanup, Views
  <2>2. \A s \in Sockets : \/ sockets[s].st = "open" /\ sockets'[s].st = "closing"
                           \/ sockets[s].st # "open" /\ sockets'[s] = sockets[s]
    <3> TAKE s \in Sockets
    <3>1. CASE sockets[s].st = "open"
      <4>1. sockets'[s] = [sockets[s] EXCEPT !.st = "closing", !.inbox = <<>>]
        BY <1>3, <3>1 DEF Cleanup
      <4> QED BY <1>0, <3>1, <4>1 DEF SocketRecords
    <3>2. CASE sockets[s].st # "open"
      BY <1>3, <3>2 DEF Cleanup
    <3> QED BY <3>1, <3>2
  <2>3. WatchSockets'
    BY <1>0, <2>1, <2>2 DEF WatchInv, WatchSockets
  <2>4. ReadsThePast' /\ WatchKnows'
    BY <1>0, <2>1 DEF WatchInv, ReadsThePast, WatchKnows
  <2> QED BY <2>3, <2>4 DEF WatchInv
<1>4. ASSUME NEW i \in 1 .. 2, FetchAnswered(i)
      PROVE  WatchInv'
  <2>1. /\ view.fetches[i].st = "sent" /\ sockets' = sockets /\ excused' = excused
        /\ view'.pc = view.pc /\ view'.dirty = view.dirty /\ view'.shown = view.shown
        /\ \/ view'.fetches[i] = [st |-> "answered", read |-> revision]
           \/ view'.fetches[i].st = "refused" /\ view'.fetches[i].read = view.fetches[i].read
        /\ \A j \in 1 .. 2 : j # i => view'.fetches[j] = view.fetches[j]
    BY <1>4, WatchEffects DEF FetchAnswered
  <2>2. view.pc # "none"
    BY <2>1 DEF WatchInv, WatchSockets
  <2>3. WatchSockets'
    <3>1. view.pc = "reading" => i = 1 /\ (\A s \in Sockets : sockets[s].st = "none") /\ view'.fetches[2] = view.fetches[2]
      BY <2>1 DEF WatchInv, WatchSockets
    <3> QED BY <1>0, <2>1, <2>2, <3>1 DEF WatchInv, WatchSockets
  <2>4. ReadsThePast'
    <3> SUFFICES ASSUME NEW j \in 1 .. 2, NEW p \in WatchedIds PROVE view'.fetches[j].read[p] <= revision[p]
      BY <1>0 DEF ReadsThePast
    <3>1. view.fetches[j].read[p] <= revision[p] /\ revision[p] <= revision[p]
      BY <1>0 DEF WatchInv, ReadsThePast
    <3> QED BY <2>1, <3>1
  <2>5. WatchKnows'
    <3> SUFFICES ASSUME view.pc # "over", NEW p \in asker.ids
                 PROVE  view.shown[p] = revision[p] \/ Reason(p)'
      BY <1>0, <2>1 DEF WatchKnows
    <3>1. \/ view'.fetches[i].st = "answered" /\ view'.fetches[i].read[p] = revision'[p]
          \/ view'.fetches[i].st = "refused"
      BY <1>0, <2>1
    <3> QED BY <3>1 DEF Reason
  <2> QED BY <2>3, <2>4, <2>5 DEF WatchInv
<1> QED BY <1>1, <1>2, <1>3, <1>4

LEMMA WatchInvOfAnswer ==
  ASSUME EventsTyped, WatchInv, asker.kind = "watch", NEW i \in 1 .. 2, FetchReturns(i)
  PROVE  WatchInv'
<1>0. /\ view \in Views /\ sockets \in [Sockets -> SocketRecords] /\ asker' = asker /\ revision' = revision
      /\ revision \in [WatchedIds -> 0 .. MaxRevision] /\ excused \subseteq excused'
      /\ view.fetches \in [1 .. 2 -> Fetches] /\ view.shown \in Revisions /\ view.pc \in {"reading", "live"}
  BY DEF EventsTyped, FetchReturns, Revisions, Views
<1>1. /\ view'.dirty = view.dirty /\ view'.fetches[i] = NoFetch
      /\ \A j \in 1 .. 2 : j # i => view'.fetches[j] = view.fetches[j]
      /\ \/ /\ view.fetches[i].st = "answered" /\ view'.pc = view.pc
            /\ view'.shown = view.fetches[i].read
         \/ /\ view.fetches[i].st = "refused" /\ view'.shown = view.shown
            /\ view'.pc = IF view.pc = "reading" THEN "over" ELSE view.pc
  BY WatchEffects
<1>2. view.pc = "reading" => i = 1 /\ view.fetches[2].st = "none" /\ \A s \in Sockets : sockets[s].st = "none"
  BY <1>1 DEF WatchInv, WatchSockets
<1>3. \/ view.pc = "reading" /\ view.fetches[i].st = "answered" /\ SocketGoes(Fresh, "connecting")
      \/ sockets' = sockets /\ (view.pc = "live" \/ view'.pc = "over")
  BY <1>0, <1>1 DEF FetchReturns
<1>4. ReadsThePast'
  <2> SUFFICES ASSUME NEW j \in 1 .. 2, NEW p \in WatchedIds PROVE view'.fetches[j].read[p] <= revision[p]
    BY <1>0 DEF ReadsThePast
  <2>1. view.fetches[j].read[p] <= revision[p] /\ NoFetch.read[p] = 0 /\ 0 <= revision[p]
    BY <1>0 DEF WatchInv, ReadsThePast, NoFetch, NoRevision
  <2> QED BY <1>1, <2>1
<1>5. WatchSockets'
  <2>1. CASE view.pc = "reading" /\ view.fetches[i].st = "answered" /\ SocketGoes(Fresh, "connecting")
    <3>1. MayOpen
      BY <1>2, <2>1, EventClientsAssumption DEF MayOpen, Sockets
    <3>2. Fresh \in Sockets
      BY <3>1, FreshIsNext DEF EventsTyped
    <3>3. /\ sockets'[Fresh].st = "connecting" /\ sockets'[Fresh].inbox = sockets[Fresh].inbox
          /\ \A r \in Sockets : r # Fresh => sockets'[r] = sockets[r]
      BY <1>0, <2>1, <3>2, SocketGoesTyped
    <3> HIDE DEF Fresh
    <3>4. \A r \in Sockets : sockets'[r].st # "none" => r = Fresh
      BY <1>2, <2>1, <3>3
    <3>5. \A r \in Sockets : sockets'[r].inbox = <<>>
      BY <1>2, <2>1, <3>2, <3>3 DEF WatchInv, WatchSockets
    <3>6. view'.pc = "reading" /\ view'.fetches[1].st = "none" /\ view'.fetches[2].st = "none"
      BY <1>1, <1>2, <2>1 DEF NoFetch
    <3> QED BY <3>4, <3>5, <3>6 DEF WatchSockets
  <2>2. CASE sockets' = sockets /\ (view.pc = "live" \/ view'.pc = "over")
    <3>1. view'.pc \in {"live", "over"} /\ (view'.pc = "over" => view.pc = "reading")
      BY <1>0, <1>1, <2>2
    <3>2. \A s \in Sockets : sockets[s].st # "connecting"
      BY <1>0, <1>2, <2>2 DEF WatchInv, WatchSockets
    <3> QED BY <1>0, <2>2, <3>1, <3>2 DEF WatchInv, WatchSockets
  <2> QED BY <1>3, <2>1, <2>2
<1>6. WatchKnows'
  <2> SUFFICES ASSUME view'.pc # "over", NEW p \in asker.ids
               PROVE  view'.shown[p] = revision[p] \/ Reason(p)'
    BY <1>0 DEF WatchKnows
  <2>1. CASE view.fetches[i].st = "refused"
    <3>1. "failed" \in excused'
      BY <2>1 DEF FetchReturns
    <3> QED BY <3>1 DEF Reason, Unmended
  <2>2. CASE view.fetches[i].st # "refused"
    <3>1. view.fetches[i].st = "answered" /\ view'.shown = view.fetches[i].read
      BY <1>1, <2>2
    <3>2. p \in WatchedIds
      BY DEF EventsTyped, Clients
    <3>3. view.fetches[i].read[p] <= revision[p] /\ view.fetches[i].read[p] \in Nat /\ revision[p] \in Nat
          /\ view.shown[p] \in Nat
      BY <1>0, <3>2 DEF WatchInv, ReadsThePast, Fetches, Revisions
    <3>4. view.shown[p] = revision[p] \/ Reason(p)
      BY <1>0 DEF WatchInv, WatchKnows
    <3>5. CASE view.fetches[i].read[p] = revision[p]
      BY <3>1, <3>5
    <3>6. CASE view.fetches[i].read[p] # revision[p] /\ view.shown[p] = revision[p]
      <4>1. view.fetches[i].read[p] < view.shown[p]
        BY <3>3, <3>6
      <4>2. "overtaken" \in excused'
        BY <3>1, <4>1 DEF FetchReturns
      <4> QED BY <4>2 DEF Reason, Unmended
    <3>7. CASE view.fetches[i].read[p] # revision[p] /\ Reason(p)
      <4>1. CASE view.dirty \/ excused \cap Unmended # {}
        BY <1>0, <1>1, <4>1 DEF Reason
      <4>2. ASSUME NEW s \in Live, sockets[s].inbox # <<>>
            PROVE  Reason(p)'
        <5>1. sockets[s].st # "none"
          BY DEF Live
        <5>2. view.pc # "reading"
          BY <1>2, <5>1 DEF Live
        <5>3. sockets' = sockets
          BY <1>3, <5>2
        <5> QED BY <4>2, <5>3 DEF Reason, Live
      <4>3. ASSUME NEW j \in 1 .. 2, \/ view.fetches[j].st \in {"sent", "refused"}
                                     \/ view.fetches[j].st = "answered" /\ view.fetches[j].read[p] = revision[p]
            PROVE  Reason(p)'
        <5>1. j # i
          BY <3>1, <3>7, <4>3
        <5>2. view'.fetches[j] = view.fetches[j]
          BY <1>1, <5>1
        <5> QED BY <1>0, <4>3, <5>2 DEF Reason
      <4> QED BY <3>7, <4>1, <4>2, <4>3 DEF Reason
    <3> QED BY <3>4, <3>5, <3>6, <3>7
  <2> QED BY <2>1, <2>2
<1> QED BY <1>4, <1>5, <1>6 DEF WatchInv

LEMMA WatchInvOfMessage ==
  ASSUME EventsTyped, WatchInv, asker.kind = "watch", NEW s \in Sockets, SocketMessage(s)
  PROVE  WatchInv'
<1>1. /\ sockets \in [Sockets -> SocketRecords] /\ sockets[s].st = "open" /\ asker' = asker /\ revision' = revision
      /\ sockets' = [sockets EXCEPT ![s] = [sockets[s] EXCEPT !.inbox = Tail(sockets[s].inbox)]]
      /\ view \in Views /\ view' = [view EXCEPT !.dirty = TRUE]
  BY DEF EventsTyped, SocketMessage
<1>2. view'.dirty /\ view'.pc = view.pc /\ view'.fetches = view.fetches
  BY <1>1 DEF Views
<1>3. [sockets[s] EXCEPT !.inbox = Tail(sockets[s].inbox)].st = "open"
  BY <1>1 DEF SocketRecords
<1>4. sockets'[s].st = "open" /\ \A r \in Sockets : r # s => sockets'[r] = sockets[r]
  BY <1>1, <1>3
<1>5. WatchSockets'
  BY <1>1, <1>2, <1>4 DEF WatchInv, WatchSockets
<1> QED BY <1>1, <1>2, <1>5 DEF WatchInv, ReadsThePast, WatchKnows, Reason

LEMMA WatchInvStep == EventsTyped /\ EventsTyped' /\ OthersRest /\ WatchInv /\ [EventsNext]_eventVars => WatchInv'
<1> SUFFICES ASSUME EventsTyped, EventsTyped', OthersRest, WatchInv, [EventsNext]_eventVars PROVE WatchInv'
  OBVIOUS
<1>1. asker' = asker /\ \A p \in WatchedIds : revision[p] <= revision'[p]
  BY RevisionGrows
<1>2. CASE asker.kind # "watch"
  <2>1. view' = view
    <3>1. view.pc = "none" /\ \A i \in 1 .. 2 : view.fetches[i].st = "none"
      BY <1>2 DEF OthersRest
    <3>2. Rejected(TRUE) = view /\ Rejected(\E s \in Sockets : sockets[s].st = "connecting") = view
      BY <3>1 DEF Rejected
    <3> QED BY <1>2, <3>1, <3>2 DEF EventsNext, eventVars, DaemonEnds, DaemonStarts, Connect, Disconnect, ConnectsFirst,
         ReconnectTimer, Off, WatchBegins, WatchTick, Cleanup, BroadcastForProject, Accept, Subscribe, Refused,
         SocketCloses, SocketMessage, OnEvent, Unsubscribe, FetchAnswered, FetchReturns
  <2>2. revision' \in Revisions
    BY DEF EventsTyped
  <2> QED BY <1>1, <1>2, <2>1, <2>2, WatchOnly
<1>3. CASE asker.kind = "watch"
  <2>1. ~Connect /\ ~Disconnect /\ ~ConnectsFirst /\ ~ReconnectTimer /\ ~Off /\ \A h \in Listeners : ~OnEvent(h)
    BY <1>3 DEF OthersRest, Connect, Disconnect, ConnectsFirst, ReconnectTimer, Off, OnEvent
  <2>2. CASE DaemonStarts \/ (\E h \in Listeners : Unsubscribe(h)) \/ UNCHANGED eventVars
    BY <2>2, WatchUntouched DEF DaemonStarts, Unsubscribe, eventVars
  <2> QED BY <1>3, <2>1, <2>2, WatchInvOfSocket, WatchInvOfDaemon, WatchInvOfView, WatchInvOfAnswer,
             WatchInvOfMessage DEF EventsNext
<1> QED BY <1>2, <1>3

-----------------------------------------------------------------------------
EventsInv ==
  EventsTyped /\ CallbacksFound /\ OthersRest /\ CliSockets /\ SdkSockets /\ WatchInv

LEMMA EventsInvInit == asker \in Clients /\ EventsStart => EventsInv
<1> SUFFICES ASSUME asker \in Clients, EventsStart PROVE EventsInv
  OBVIOUS
<1>1. \A s \in Sockets : sockets[s].st = "none"
  BY DEF EventsStart
<1>2. /\ link.ws = 0 /\ ~link.closed /\ ~link.timer /\ regs.live = {} /\ view.pc = "none"
      /\ \A i \in 1 .. 2 : view.fetches[i].st = "none"
  BY DEF EventsStart, NoFetch
<1>3. 1 \in Sockets
  BY EventClientsAssumption DEF Sockets
<1>4. asker.kind \in {"cli", "sdk", "watch"}
  BY DEF Clients
<1> QED BY <1>1, <1>2, <1>3, <1>4, EventsTypedInit, WatchInvInit
        DEF EventsInv, CallbacksFound, OthersRest, CliSockets, SdkSockets, Live

LEMMA EventsInvStep == EventsInv /\ [EventsNext]_eventVars => EventsInv'
BY EventsTypedStep, CallbacksFoundStep, OthersRestStep, CliSocketsStep, SdkSocketsStep, WatchInvStep DEF EventsInv

LEMMA EventsInvImplies == EventsInv => EventsTypeOK /\ ClientsAreTold
<1> SUFFICES ASSUME EventsInv PROVE EventsTypeOK /\ ClientsAreTold
  OBVIOUS
<1>1. EventsTypeOK /\ gotEvents \subseteq asker.ids
  BY EventsTypedImplies DEF EventsInv
<1>2. "stolen" \notin excused => \A h \in regs.live : regs.entry # 0 /\ h \in regs.sets[regs.entry]
  BY DEF EventsInv, CallbacksFound
<1>3. asker.kind = "cli" =>
        /\ Live \subseteq {link.ws}
        /\ link.closed => Live = {} /\ ~link.timer
        /\ ~link.closed /\ sockets[1].st # "none" => link.ws # 0 \/ link.timer
  BY DEF EventsInv, CliSockets, Live, Sockets
<1>4. ASSUME asker.kind = "sdk", "doubled" \notin excused
      PROVE  Cardinality(Live) <= 1
  <2>1. \A a, b \in Live : a = b
    BY <1>4 DEF EventsInv, SdkSockets
  <2>2. CASE Live = {}
    BY <2>2, FS_EmptySet
  <2>3. ASSUME NEW a \in Live
        PROVE  Cardinality(Live) <= 1
    <3>1. Live = {a}
      BY <2>1
    <3>2. Cardinality({a}) = 1
      BY FS_Singleton
    <3> QED BY <3>1, <3>2
  <2> QED BY <2>2, <2>3
<1>5. ASSUME view.pc = "live", ~view.dirty, \A i \in 1 .. 2 : view.fetches[i].st = "none",
             \A s \in Live : sockets[s].inbox = <<>>, excused \cap {"untold", "failed", "overtaken"} = {},
             NEW p \in asker.ids
      PROVE  view.shown[p] = revision[p]
  <2>1. asker.kind = "watch"
    BY <1>5 DEF EventsInv, OthersRest
  <2>2. view.shown[p] = revision[p] \/ Reason(p)
    BY <1>5, <2>1 DEF EventsInv, WatchInv, WatchKnows
  <2> QED BY <1>5, <2>2 DEF Reason, Unmended
<1> QED BY <1>1, <1>2, <1>3, <1>4, <1>5 DEF ClientsAreTold

\* However the daemon comes and goes, sockets open late and answers cross: a client is told of the
\* projects it asked for, its callbacks stay registered, it has one socket or the one timer that
\* leads to the next, and a watch that is quiet shows the last change (sdk and cli client.ts,
\* observation/ws.ts, commands/watch.ts).
THEOREM ClientsAreToldHolds == EventsSpec => [](EventsTypeOK /\ ClientsAreTold)
<1> QED BY EventsInvInit, EventsInvStep, EventsInvImplies, PTL DEF EventsSpec, EventsInit

-----------------------------------------------------------------------------
(* Callers over HTTP                                                       *)

Hosts ==
  {d \in [registered : SUBSET ApiProjects, flow : BOOLEAN, nodes : SUBSET GraphNodes,
          finished : SUBSET GraphNodes, reviewed : SUBSET GraphNodes,
          specs : SUBSET DocNames, memory : SUBSET DocNames] :
     ~d.flow => d.nodes = {} /\ d.specs = {}}

\* A state of the daemon that the call in hand may have been answered from.
Seen(d) ==
  /\ There(d) \subseteq during.ever /\ during.always \subseteq There(d)
  /\ Bare(d) => during.bare
  /\ d.finished \subseteq apiHost.finished

\* A request that reads something of a project, or of the daemon; and one that asks for more.
Gets(scope, path, arg, json) == Request(scope, <<"GET", path>>, arg, json)
Posts(path, arg, json) == Request(TheProject, <<"POST", path>>, arg, json)
Is(a, status, body) == a.status = status /\ a.body = body
IsFound(a, arg, S) == (arg \in S => Is(a, 200, {arg})) /\ (arg \notin S => Is(a, 404, {}))
Asks(r, scope, path) == r.scope = scope /\ r.call = <<"GET", path>>

LEMMA AskedIs ==
  ASSUME NEW r, NEW scope, NEW path, Asks(r, scope, path)
  PROVE  r.scope = scope /\ r.call = <<"GET", path>> /\ r.call[1] = "GET" /\ r.call[2] = path
BY DEF Asks

LEMMA GetsAsks ==
  ASSUME NEW scope, NEW path, NEW arg, NEW json
  PROVE  Asks(Gets(scope, path, arg, json), scope, path) /\ Gets(scope, path, arg, json).arg = arg
BY DEF Asks, Gets, Request

-----------------------------------------------------------------------------
\* What there is at the daemon, kind by kind.
LEMMA ThereIs ==
  ASSUME NEW d \in Hosts
  PROVE  /\ \A p : <<"project", p>> \in There(d) <=> p \in d.registered
         /\ \A n : <<"node", n>> \in There(d) <=> TheProject \in d.registered /\ n \in d.nodes
         /\ \A n : <<"spec", n>> \in There(d) <=> TheProject \in d.registered /\ n \in d.specs
         /\ \A n : <<"memory", n>> \in There(d) <=> TheProject \in d.registered /\ n \in d.memory
BY DEF There, OfKind

\* A project's routes.
LEMMA ServesProject ==
  ASSUME NEW d \in Hosts, NEW r, NEW token \in BOOLEAN,
         r.scope \in ApiProjects, r.call \in ProjectRoutes, ~EmptyJson(r)
  PROVE  Serve(d, r, token) = IF token THEN ProjectAnswer(d, r) ELSE Answer(401, {})
<1>1. r.scope # ""
  BY ApiCallsAssumption
<1> QED BY <1>1 DEF Serve

WorkflowAnswer(a, d, p, token) ==
  /\ ~token => Is(a, 401, {})
  /\ token /\ p = TheProject /\ ~Bare(d) => Is(a, 200, {"workflow"})
  /\ token /\ (p # TheProject \/ Bare(d)) => Is(a, 404, {})
LEMMA ServesWorkflow ==
  ASSUME NEW d \in Hosts, NEW p \in ApiProjects, NEW r, Asks(r, p, "workflow"), NEW token \in BOOLEAN
  PROVE  WorkflowAnswer(Serve(d, r, token), d, p, token)
<1>1. r.scope = p /\ r.call = <<"GET", "workflow">> /\ r.call[1] = "GET" /\ r.call[2] = "workflow"
  BY AskedIs
<1>2. <<"GET", "workflow">> \in ProjectRoutes
  BY DEF ProjectRoutes
<1>3. ~EmptyJson(r)
  BY <1>1 DEF EmptyJson
<1>4. Serve(d, r, token) = IF token THEN ProjectAnswer(d, r) ELSE Answer(401, {})
  BY <1>1, <1>2, <1>3, ServesProject
<1>5. ProjectAnswer(d, r) = IF p = TheProject /\ ~Bare(d) THEN Answer(200, {"workflow"}) ELSE Answer(404, {})
  BY <1>1 DEF ProjectAnswer, Bare, OthersAnswer
<1> QED BY <1>4, <1>5 DEF Is, Answer, WorkflowAnswer

\* The other routes of a project that are read.
ReadAnswer(a, d, r, path, token) ==
  /\ ~token => Is(a, 401, {})
  /\ token /\ TheProject \notin d.registered => Is(a, 404, {})
  /\ token /\ TheProject \in d.registered =>
       /\ path = "events" => Is(a, 200, {"entry"})
       /\ path = "memory" => Is(a, 200, d.memory)
       /\ path = "memory/:name" => IsFound(a, r.arg, d.memory)
       /\ ~d.flow /\ path \notin {"events", "memory", "memory/:name"} => Is(a, 404, {})
       /\ d.flow =>
            /\ path = "nodes" => Is(a, 200, {<<n, n \in d.finished>> : n \in d.nodes})
            /\ path = "nodes/:id" => IsFound(a, r.arg, d.nodes)
            /\ path = "nodes/:id/review" =>
                 IsFound(a, r.arg, d.nodes \cap d.reviewed)
            /\ path = "specs" => Is(a, 200, d.specs)
            /\ path = "specs/:name" => IsFound(a, r.arg, d.specs)
            /\ path = "costs" => Is(a, 200, d.nodes)
LEMMA ServesReads ==
  ASSUME NEW d \in Hosts, NEW token \in BOOLEAN, NEW r,
         NEW path \in {"nodes", "nodes/:id", "nodes/:id/review", "costs", "specs", "specs/:name", "events",
                       "memory", "memory/:name"},
         Asks(r, TheProject, path)
  PROVE  ReadAnswer(Serve(d, r, token), d, r, path, token)
<1> DEFINE a == Serve(d, r, token)
<1>1. r.scope = TheProject /\ r.call = <<"GET", path>> /\ r.call[1] = "GET" /\ r.call[2] = path
  BY AskedIs
<1>2. <<"GET", path>> \in ProjectRoutes
  BY DEF ProjectRoutes
<1>3. ~EmptyJson(r)
  BY <1>1 DEF EmptyJson
<1>4. a = IF token THEN ProjectAnswer(d, r) ELSE Answer(401, {})
  BY <1>1, <1>2, <1>3, ServesProject, ApiCallsAssumption
<1> HIDE DEF a
<1>5. \A s, b : Is(Answer(s, b), s, b)
  BY DEF Is, Answer
<1>6. ~token => Is(a, 401, {})
  BY <1>4, <1>5
<1>7. token => a = ProjectAnswer(d, r)
  BY <1>4
<1>8. token /\ TheProject \notin d.registered => Is(a, 404, {})
  BY <1>1, <1>5, <1>7 DEF ProjectAnswer
<1>9. ASSUME token, TheProject \in d.registered
      PROVE  /\ path = "events" => Is(a, 200, {"entry"})
             /\ path = "memory" => Is(a, 200, d.memory)
             /\ path = "memory/:name" => IsFound(a, r.arg, d.memory)
  <2>1. CASE path = "events"
    <3>1. a = Answer(200, {"entry"})
      BY <1>1, <1>7, <1>9, <2>1 DEF ProjectAnswer, OthersAnswer
    <3> QED BY <2>1, <3>1 DEF Is, Answer
  <2>2. CASE path \in {"memory", "memory/:name"}
    <3>1. a = MemoryAnswer(d, r)
      BY <1>1, <1>7, <1>9, <2>2 DEF ProjectAnswer
    <3>2. MemoryAnswer(d, r) = IF path = "memory" THEN Answer(200, d.memory)
                               ELSE IF r.arg \in d.memory THEN Answer(200, {r.arg}) ELSE Answer(404, {})
      BY <1>1, <2>2 DEF MemoryAnswer
    <3> QED BY <2>2, <3>1, <3>2 DEF Is, Answer, IsFound
  <2> QED BY <2>1, <2>2
<1>10. ASSUME token, TheProject \in d.registered, path \notin {"events", "memory", "memory/:name"}
       PROVE  a = IF ~d.flow THEN Answer(404, {})
                  ELSE IF path \in {"nodes", "nodes/:id", "nodes/:id/review"} THEN NodesAnswer(d, r)
                  ELSE IF path \in {"specs", "specs/:name"} THEN SpecsAnswer(d, r)
                  ELSE CostsAnswer(d)
  BY <1>1, <1>7, <1>10 DEF ProjectAnswer
<1>11. ASSUME token, TheProject \in d.registered, d.flow
       PROVE  /\ path = "specs" => Is(a, 200, d.specs)
              /\ path = "specs/:name" => IsFound(a, r.arg, d.specs)
              /\ path = "costs" => Is(a, 200, d.nodes)
  <2>1. CASE path \in {"specs", "specs/:name"}
    <3>1. a = SpecsAnswer(d, r)
      BY <1>10, <1>11, <2>1
    <3>2. SpecsAnswer(d, r) = IF path = "specs" THEN Answer(200, d.specs)
                              ELSE IF r.arg \in d.specs THEN Answer(200, {r.arg}) ELSE Answer(404, {})
      BY <1>1, <2>1 DEF SpecsAnswer
    <3> QED BY <2>1, <3>1, <3>2 DEF Is, Answer, IsFound
  <2>2. CASE path = "costs"
    <3>1. a = CostsAnswer(d)
      BY <1>10, <1>11, <2>2
    <3> QED BY <2>2, <3>1 DEF CostsAnswer, Is, Answer
  <2> QED BY <2>1, <2>2
<1>12. ASSUME token, TheProject \in d.registered, d.flow, path \in {"nodes", "nodes/:id", "nodes/:id/review"}
       PROVE  /\ path = "nodes" => Is(a, 200, {<<n, n \in d.finished>> : n \in d.nodes})
              /\ path = "nodes/:id" => IsFound(a, r.arg, d.nodes)
              /\ path = "nodes/:id/review" =>
                   IsFound(a, r.arg, d.nodes \cap d.reviewed)
  <2>1. a = NodesAnswer(d, r)
    BY <1>10, <1>12
  <2>2. CASE path = "nodes"
    <3>1. a = Answer(200, {<<n, n \in d.finished>> : n \in d.nodes})
      <4>1. r.call[2] = "nodes"
        BY <1>1, <2>2
      <4> QED BY <2>1, <4>1 DEF NodesAnswer
    <3> QED BY <2>2, <3>1 DEF Is, Answer
  <2>3. CASE path # "nodes"
    <3>1. NodesAnswer(d, r) = IF r.arg \notin d.nodes THEN Answer(404, {})
                              ELSE IF path = "nodes/:id" \/ r.arg \in d.reviewed THEN Answer(200, {r.arg}) ELSE Answer(404, {})
      BY <1>1, <1>12, <2>3 DEF NodesAnswer
    <3> QED BY <1>12, <2>1, <2>3, <3>1 DEF Is, Answer, IsFound
  <2> QED BY <2>2, <2>3
<1>13. ASSUME token, TheProject \in d.registered, ~d.flow, path \notin {"events", "memory", "memory/:name"}
       PROVE  Is(a, 404, {})
  BY <1>5, <1>10, <1>13
<1> QED BY <1>6, <1>8, <1>9, <1>11, <1>12, <1>13 DEF a, ReadAnswer

\* A message to the Loom; and the two commands whose requests are refused unread.
MessageAnswer == Posts("chat", "message", FALSE)
Bodiless(path) == Posts(path, "", TRUE)
ChatAnswer(a, d, token) ==
  /\ ~token => Is(a, 401, {})
  /\ token /\ Bare(d) => Is(a, 404, {})
  /\ token /\ ~Bare(d) => Is(a, 200, {"entry"})
LEMMA ServesChat ==
  ASSUME NEW d \in Hosts, NEW token \in BOOLEAN
  PROVE  ChatAnswer(Serve(d, MessageAnswer, token), d, token)
<1> DEFINE r == Posts("chat", "message", FALSE)
<1>1. /\ r.scope = TheProject /\ r.call = <<"POST", "chat">> /\ r.call[1] = "POST" /\ r.call[2] = "chat"
      /\ r.json = FALSE
  BY DEF Posts, Request
<1>2. <<"POST", "chat">> \in ProjectRoutes
  BY DEF ProjectRoutes
<1>3. ~EmptyJson(r)
  BY <1>1 DEF EmptyJson
<1> HIDE DEF r
<1>4. Serve(d, r, token) = IF token THEN ProjectAnswer(d, r) ELSE Answer(401, {})
  BY <1>1, <1>2, <1>3, ServesProject, ApiCallsAssumption
<1>5. ProjectAnswer(d, r) = IF Bare(d) THEN Answer(404, {}) ELSE Answer(200, {"entry"})
  BY <1>1 DEF ProjectAnswer, OthersAnswer, Bare
<1>6. ChatAnswer(Serve(d, r, token), d, token)
  BY <1>4, <1>5 DEF Is, Answer, ChatAnswer
<1> QED BY <1>6 DEF r, MessageAnswer

LEMMA ServesBodiless ==
  ASSUME NEW d \in Hosts, NEW token \in BOOLEAN, NEW path \in {"workflow/resume", "workflow/stop"}
  PROVE  LET a == Serve(d, Bodiless(path), token)
         IN  Is(a, 401, {}) \/ Is(a, 400, {})
<1> DEFINE r == Bodiless(path)
<1>1. r.call = <<"POST", path>> /\ r.call[1] = "POST" /\ r.json = TRUE /\ r.call # <<"GET", "health">>
  BY DEF Bodiless, Posts, Request
<1>2. EmptyJson(r)
  BY <1>1 DEF EmptyJson
<1> HIDE DEF r
<1>3. Serve(d, r, token) \in {Answer(401, {}), Answer(400, {})}
  BY <1>1, <1>2 DEF Serve
<1>4. Is(Serve(d, r, token), 401, {}) \/ Is(Serve(d, r, token), 400, {})
  BY <1>3 DEF Is, Answer
<1> QED BY <1>4 DEF r

\* The daemon's own routes, and those of version 0.1.
Daemon(d, path, token) == Serve(d, Gets("", path, "", FALSE), token)
LEMMA ServesDaemon ==
  ASSUME NEW d \in Hosts, NEW token \in BOOLEAN
  PROVE  LET DaemonAt(path) == Daemon(d, path, token)
         IN  /\ Is(DaemonAt("health"), 200, {"ok"})
             /\ ~token => /\ Is(DaemonAt("projects"), 401, {}) /\ Is(DaemonAt("specs"), 401, {})
                          /\ Is(DaemonAt("workflow"), 401, {}) /\ Is(DaemonAt("nodes"), 401, {})
             /\ token => /\ Is(DaemonAt("projects"), 200, d.registered) /\ Is(DaemonAt("specs"), 404, {})
                         /\ Is(DaemonAt("workflow"), 410, {}) /\ Is(DaemonAt("nodes"), 410, {})
<1>1. Is(Daemon(d, "health", token), 200, {"ok"})
  BY DEF Daemon, Serve, Gets, Request, Is, Answer
<1>2. ASSUME NEW path \in {"projects", "workflow", "nodes", "specs"}
      PROVE  LET a == Daemon(d, path, token)
             IN  /\ ~token => Is(a, 401, {})
                 /\ token /\ path \in {"workflow", "nodes"} => Is(a, 410, {})
                 /\ token /\ path = "projects" => Is(a, 200, d.registered)
                 /\ token /\ path = "specs" => Is(a, 404, {})
  <2> DEFINE r == Gets("", path, "", FALSE)
  <2>1. r.scope = "" /\ r.call = <<"GET", path>> /\ r.call[1] = "GET" /\ r.call # <<"GET", "health">>
        /\ (r.call = <<"GET", "projects">> <=> path = "projects")
    BY DEF Gets, Request
  <2>2. ~EmptyJson(r)
    BY <2>1 DEF EmptyJson
  <2>3. r.call \in GoneRoutes <=> path \in {"workflow", "nodes"}
    <3>1. <<"GET", "workflow">> \in GoneRoutes /\ <<"GET", "nodes">> \in GoneRoutes
      BY DEF GoneRoutes
    <3>2. <<"GET", "projects">> \notin GoneRoutes /\ <<"GET", "specs">> \notin GoneRoutes
      BY DEF GoneRoutes
    <3> HIDE DEF r
    <3> QED BY <2>1, <3>1, <3>2
  <2> HIDE DEF r
  <2>4. Serve(d, r, token) = IF ~token THEN Answer(401, {}) ELSE IF path \in {"workflow", "nodes"} THEN Answer(410, {})
                             ELSE IF path = "projects" THEN Answer(200, d.registered) ELSE Answer(404, {})
    BY <2>1, <2>2, <2>3 DEF Serve
  <2>5. LET a == Serve(d, r, token)
        IN  /\ ~token => Is(a, 401, {})
            /\ token /\ path \in {"workflow", "nodes"} => Is(a, 410, {})
            /\ token /\ path = "projects" => Is(a, 200, d.registered)
            /\ token /\ path = "specs" => Is(a, 404, {})
    BY <2>4 DEF Is, Answer
  <2> QED BY <2>5 DEF r, Daemon
<1>3. ASSUME ~token
      PROVE  LET DaemonAt(path) == Daemon(d, path, token)
             IN  /\ Is(DaemonAt("projects"), 401, {}) /\ Is(DaemonAt("specs"), 401, {})
                 /\ Is(DaemonAt("workflow"), 401, {}) /\ Is(DaemonAt("nodes"), 401, {})
  BY <1>2, <1>3
<1>4. ASSUME token
      PROVE  LET DaemonAt(path) == Daemon(d, path, token)
             IN  /\ Is(DaemonAt("projects"), 200, d.registered) /\ Is(DaemonAt("specs"), 404, {})
                 /\ Is(DaemonAt("workflow"), 410, {}) /\ Is(DaemonAt("nodes"), 410, {})
  BY <1>2, <1>4
<1> QED BY <1>1, <1>3, <1>4

LEMMA ServesSdk ==
  ASSUME NEW d \in Hosts, NEW token \in BOOLEAN
  PROVE  LET DaemonAt(path) == Daemon(d, path, token)
         IN  /\ Is(DaemonAt("health"), 200, {"ok"}) /\ (Is(DaemonAt("workflow"), 401, {}) \/ Is(DaemonAt("workflow"), 410, {}))
             /\ (Is(DaemonAt("nodes"), 401, {}) \/ Is(DaemonAt("nodes"), 410, {}))
             /\ (Is(DaemonAt("specs"), 401, {}) \/ Is(DaemonAt("specs"), 404, {}))
<1>0. Is(Daemon(d, "health", token), 200, {"ok"})
  BY ServesDaemon
<1>1. CASE token
  <2>1. Is(Daemon(d, "workflow", token), 410, {})
    BY <1>1, ServesDaemon
  <2>2. Is(Daemon(d, "nodes", token), 410, {})
    BY <1>1, ServesDaemon
  <2>3. Is(Daemon(d, "specs", token), 404, {})
    BY <1>1, ServesDaemon
  <2> QED BY <1>0, <2>1, <2>2, <2>3
<1>2. CASE ~token
  BY <1>0, <1>2, ServesDaemon
<1> QED BY <1>1, <1>2

LEMMA ServesProjects ==
  ASSUME NEW d \in Hosts, NEW token \in BOOLEAN
  PROVE  Is(Daemon(d, "projects", token), 401, {}) \/ Is(Daemon(d, "projects", token), 200, d.registered)
<1>1. CASE token
  <2>1. Is(Daemon(d, "projects", token), 200, d.registered)
    BY <1>1, ServesDaemon
  <2> QED BY <2>1
<1>2. CASE ~token
  <2>1. Is(Daemon(d, "projects", token), 401, {})
    BY <1>2, ServesDaemon
  <2> QED BY <2>1
<1> QED BY <1>1, <1>2

-----------------------------------------------------------------------------
Commands == CliCommands \cup SdkMethods \cup ClientMethods
OfWorkflow(p) == Gets(p, "workflow", "", FALSE)

\* The requests that the commands begin with.
ReadsOf(cmd) ==
  CASE cmd \in {"nodes", "nodes --all"} -> "nodes"
    [] cmd \in {"inspect", "inspect --json"} -> "nodes/:id"
    [] cmd \in {"tree", "tree --json"} -> "workflow"
    [] cmd = "listSpecs" -> "specs" [] cmd = "readSpec" -> "specs/:name"
    [] cmd = "listMemory" -> "memory" [] cmd = "readMemory" -> "memory/:name"
    [] cmd = "getReview" -> "nodes/:id/review"
Readers == {"nodes", "nodes --all", "inspect", "inspect --json", "tree", "tree --json"} \cup ClientMethods
NamedIn == {"inspect", "inspect --json", "readSpec", "readMemory", "getReview"}
SdkReads(cmd) ==
  CASE cmd = "getWorkflow" -> "workflow" [] cmd = "getNodes" -> "nodes"
    [] cmd = "getSpecs" -> "specs" [] cmd = "health" -> "health"

LEMMA FirstCallsAre ==
  ASSUME NEW u, u.cmd \in Commands
  PROVE  /\ u.cmd \in Readers =>
              FirstCalls(u) = {Gets(TheProject, ReadsOf(u.cmd), IF u.cmd \in NamedIn THEN u.arg ELSE "", FALSE)}
         /\ u.cmd = "status" => FirstCalls(u) = {Gets(TheProject, p, "", TRUE) : p \in {"workflow", "costs", "nodes"}}
         /\ u.cmd = "logs" => FirstCalls(u) = {Gets(TheProject, "events", "", TRUE)}
         /\ u.cmd = "ps" => FirstCalls(u) = {Gets("", "projects", "", FALSE)}
         /\ u.cmd = "chat" => FirstCalls(u) = {Posts("chat", "message", FALSE)}
         /\ u.cmd = "resume" => FirstCalls(u) = {Posts("workflow/resume", "", TRUE)}
         /\ u.cmd = "stop" => FirstCalls(u) = {Posts("workflow/stop", "", TRUE)}
         /\ u.cmd \in SdkMethods => FirstCalls(u) = {Gets("", SdkReads(u.cmd), "", FALSE)}
<1>1. CASE u.cmd \in Readers
  BY <1>1 DEF FirstCalls, Scoped, Gets, Readers, NamedIn, ReadsOf, ClientMethods, SdkMethods
<1>2. CASE u.cmd \in SdkMethods
  BY <1>2 DEF FirstCalls, Gets, SdkReads, SdkMethods, Readers, ClientMethods
<1>3. CASE u.cmd \in {"status", "logs", "ps", "chat", "resume", "stop"}
  BY <1>3 DEF FirstCalls, Scoped, Gets, Posts, SdkMethods, Readers, ClientMethods
<1> QED BY <1>1, <1>2, <1>3 DEF Commands, CliCommands, Readers

LEMMA PathsAre ==
  ASSUME NEW scope, NEW path, NEW arg, NEW json
  PROVE  /\ Gets(scope, path, arg, json).scope = scope /\ Gets(scope, path, arg, json).call[2] = path
         /\ Posts(path, arg, json).scope = TheProject /\ Posts(path, arg, json).call[2] = path
BY DEF Gets, Posts, Request

-----------------------------------------------------------------------------
IsCaller ==
  caller = [cmd |-> caller.cmd, arg |-> caller.arg, token |-> caller.token, pc |-> caller.pc,
            open |-> caller.open, got |-> caller.got]

\* Every answer is that of a daemon that the call has seen; each request has one.
Justified(a) == \E d \in Hosts : Seen(d) /\ a = <<a[1], Serve(d, a[1], caller.token)>>
Answered == {a[1] : a \in caller.got}
OneAnswer ==
  /\ \A a, b \in caller.got : a[1] = b[1] => a = b
  /\ \A a \in caller.got : a[1] \notin caller.open
FollowUps == {OfWorkflow(p) : p \in ApiProjects}

\* The daemon's side, and what the call has seen of it.
HostInv ==
  /\ apiHost \in Hosts /\ changes \in 0 .. MaxApiChanges
  /\ caller.pc # "idle" => Seen(apiHost)

\* A caller that has not begun, and one that has: what it has asked and been answered.
CallerInv ==
  /\ IsCaller /\ caller.pc \in {"idle", "first", "next", "done"}
  /\ caller.pc = "idle" => caller = NoUser
  /\ caller.pc # "idle" => caller.cmd \in Commands /\ caller.token \in BOOLEAN /\ caller.arg \in ArgsOf(caller.cmd)
  /\ (\A a \in caller.got : Justified(a)) /\ OneAnswer
  /\ caller.pc = "first" => caller.open \cup Answered = FirstCalls(caller)
  /\ caller.pc \in {"next", "done"} =>
       /\ FirstCalls(caller) \subseteq Answered
       /\ caller.cmd # "ps" => caller.open \cup Answered = FirstCalls(caller)
       /\ caller.cmd = "ps" => caller.open \cup Answered \subseteq FirstCalls(caller) \cup FollowUps
       /\ caller.cmd = "ps" => \A a \in caller.got : a[1] \in FirstCalls(caller) /\ a[2].status = 200 =>
                                  \A p \in a[2].body : OfWorkflow(p) \in caller.open \cup Answered
  /\ caller.pc = "next" => caller.cmd = "ps"
  /\ caller.pc = "done" =>
       /\ caller.open = {}
       /\ \E u : u.cmd = caller.cmd /\ u.arg = caller.arg /\ u.got = caller.got /\ outcome = Outcome(u)
  /\ caller.pc # "done" => outcome = Shows({})

ApiInv == HostInv /\ CallerInv

LEMMA ChangesAreBounded == MaxApiChanges \in Nat
BY ApiCallsAssumption

LEMMA ApiInvStarts ==
  ASSUME apiHost \in Hosts, ApiStart
  PROVE  ApiInv
<1>1. caller = NoUser /\ outcome = Shows({}) /\ changes = 0
  BY DEF ApiStart
<1>2. /\ caller.pc = "idle" /\ caller.got = {} /\ caller.open = {} /\ IsCaller
  BY <1>1 DEF NoUser, IsCaller
<1>3. HostInv
  BY <1>1, <1>2, ChangesAreBounded DEF HostInv
<1>4. CallerInv
  BY <1>1, <1>2 DEF CallerInv, OneAnswer
<1> QED BY <1>3, <1>4 DEF ApiInv

LEMMA ApiInvInit == ApiInit => ApiInv
<1> SUFFICES ASSUME ApiInit PROVE ApiInv
  OBVIOUS
<1>1. apiHost \in Hosts
  BY DEF ApiInit, Hosts
<1> QED BY <1>1, ApiInvStarts DEF ApiInit

\* What is there may change; what the call has seen, it has seen.
LEMMA SeenStill ==
  ASSUME HostInv, NEW d \in Hosts, Becomes(d), apiHost.finished \subseteq d.finished
  PROVE  HostInv' /\ \A e \in Hosts : caller.pc # "idle" /\ Seen(e) => Seen(e)'
<1>1. /\ apiHost' = d /\ changes < MaxApiChanges /\ changes' = changes + 1 /\ caller' = caller
      /\ during' = [ever |-> during.ever \cup There(d), always |-> during.always \cap There(d),
                    bare |-> during.bare \/ Bare(d)]
  BY DEF Becomes
<1>2. /\ during'.ever = during.ever \cup There(d) /\ during'.always = during.always \cap There(d)
      /\ during'.bare = (during.bare \/ Bare(d))
  BY <1>1
<1>3. changes' \in 0 .. MaxApiChanges
  BY <1>1, ChangesAreBounded DEF HostInv
<1>4. ASSUME NEW e \in Hosts, Seen(e)
      PROVE  Seen(e)'
  BY <1>1, <1>2, <1>4 DEF Seen
<1>5. Seen(d)'
  BY <1>1, <1>2 DEF Seen
<1> QED BY <1>1, <1>3, <1>4, <1>5 DEF HostInv

LEMMA HostChanges ==
  ASSUME HostInv, \/ WorkflowGoesOn \/ \E p \in ApiProjects : ProjectComesOrGoes(p)
  PROVE  \E d \in Hosts : Becomes(d) /\ apiHost.finished \subseteq d.finished
<1>0. apiHost \in Hosts
  BY DEF HostInv
<1>1. ASSUME NEW p \in ApiProjects, ProjectComesOrGoes(p)
      PROVE  \E d \in Hosts : Becomes(d) /\ apiHost.finished \subseteq d.finished
  <2> DEFINE registered == IF p \in apiHost.registered THEN apiHost.registered \ {p} ELSE apiHost.registered \cup {p}
             d == [apiHost EXCEPT !.registered = registered]
  <2>1. Becomes(d)
    BY <1>1 DEF ProjectComesOrGoes
  <2>2. registered \in SUBSET ApiProjects
    BY <1>0 DEF Hosts
  <2> HIDE DEF registered
  <2>3. d \in Hosts /\ d.finished = apiHost.finished
    BY <1>0, <2>2 DEF Hosts
  <2> HIDE DEF d
  <2> QED BY <2>1, <2>3
<1>2. CASE ~apiHost.flow /\ Becomes([apiHost EXCEPT !.flow = TRUE])
  <2> DEFINE d == [apiHost EXCEPT !.flow = TRUE]
  <2>1. d \in Hosts /\ d.finished = apiHost.finished
    BY <1>0 DEF Hosts
  <2>2. Becomes(d)
    BY <1>2
  <2> HIDE DEF d
  <2> QED BY <2>1, <2>2
<1>3. CASE apiHost.flow /\ Becomes([apiHost EXCEPT !.nodes = GraphNodes])
  <2> DEFINE d == [apiHost EXCEPT !.nodes = GraphNodes]
  <2>1. d \in Hosts /\ d.finished = apiHost.finished
    BY <1>0, <1>3 DEF Hosts
  <2>2. Becomes(d)
    BY <1>3
  <2> HIDE DEF d
  <2> QED BY <2>1, <2>2
<1>4. ASSUME NEW n \in apiHost.nodes, Becomes([apiHost EXCEPT !.finished = @ \cup {n}, !.reviewed = @ \cup {n}])
      PROVE  \E d \in Hosts : Becomes(d) /\ apiHost.finished \subseteq d.finished
  <2> DEFINE finished == apiHost.finished \cup {n}
             reviewed == apiHost.reviewed \cup {n}
             d == [apiHost EXCEPT !.finished = finished, !.reviewed = reviewed]
  <2>1. finished \in SUBSET GraphNodes /\ reviewed \in SUBSET GraphNodes /\ apiHost.finished \subseteq finished
    BY <1>0 DEF Hosts
  <2>2. Becomes(d)
    BY <1>4
  <2> HIDE DEF finished, reviewed
  <2>3. d \in Hosts /\ d.finished = finished
    BY <1>0, <2>1 DEF Hosts
  <2> HIDE DEF d
  <2> QED BY <2>1, <2>2, <2>3
<1>5. ASSUME apiHost.flow, NEW n \in DocNames, Becomes([apiHost EXCEPT !.specs = @ \cup {n}])
      PROVE  \E d \in Hosts : Becomes(d) /\ apiHost.finished \subseteq d.finished
  <2> DEFINE specs == apiHost.specs \cup {n}
             d == [apiHost EXCEPT !.specs = specs]
  <2>1. specs \in SUBSET DocNames
    BY <1>0 DEF Hosts
  <2>2. Becomes(d)
    BY <1>5
  <2> HIDE DEF specs
  <2>3. d \in Hosts /\ d.finished = apiHost.finished
    BY <1>0, <1>5, <2>1 DEF Hosts
  <2> HIDE DEF d
  <2> QED BY <2>2, <2>3
<1>6. ASSUME NEW n \in DocNames, Becomes([apiHost EXCEPT !.memory = @ \cup {n}])
      PROVE  \E d \in Hosts : Becomes(d) /\ apiHost.finished \subseteq d.finished
  <2> DEFINE files == apiHost.memory \cup {n}
             d == [apiHost EXCEPT !.memory = files]
  <2>1. files \in SUBSET DocNames
    BY <1>0 DEF Hosts
  <2>2. Becomes(d)
    BY <1>6
  <2> HIDE DEF files
  <2>3. d \in Hosts /\ d.finished = apiHost.finished
    BY <1>0, <2>1 DEF Hosts
  <2> HIDE DEF d
  <2> QED BY <2>2, <2>3
<1> QED BY <1>1, <1>2, <1>3, <1>4, <1>5, <1>6 DEF WorkflowGoesOn

LEMMA HostStep ==
  ASSUME ApiInv, \/ WorkflowGoesOn \/ \E p \in ApiProjects : ProjectComesOrGoes(p)
  PROVE  ApiInv'
<1>1. PICK d \in Hosts : Becomes(d) /\ apiHost.finished \subseteq d.finished
  BY HostChanges DEF ApiInv
<1>2. caller' = caller /\ outcome' = outcome
  BY <1>1 DEF Becomes
<1>3. HostInv' /\ \A e \in Hosts : caller.pc # "idle" /\ Seen(e) => Seen(e)'
  BY <1>1, SeenStill DEF ApiInv
<1>4. \A a \in caller.got : Justified(a)'
  <2> TAKE a \in caller.got
  <2>1. PICK e \in Hosts : Seen(e) /\ a = <<a[1], Serve(e, a[1], caller.token)>>
    BY DEF ApiInv, CallerInv, Justified
  <2>2. caller.pc # "idle"
    <3>1. NoUser.got = {}
      BY DEF NoUser
    <3> QED BY <3>1 DEF ApiInv, CallerInv
  <2> QED BY <1>2, <1>3, <2>1, <2>2 DEF Justified
<1>5. CallerInv'
  BY <1>2, <1>4 DEF ApiInv, CallerInv, IsCaller, OneAnswer, Answered
<1> QED BY <1>3, <1>5 DEF ApiInv

LEMMA BeginsStep ==
  ASSUME ApiInv, NEW cmd \in Commands, NEW token \in BOOLEAN, NEW arg \in ArgsOf(cmd), Begins(cmd, arg, token)
  PROVE  ApiInv'
<1> DEFINE first == FirstCalls([NoUser EXCEPT !.cmd = cmd, !.arg = arg])
<1>1. /\ caller' = [cmd |-> cmd, arg |-> arg, token |-> token, pc |-> "first", open |-> first, got |-> {}]
      /\ during' = [ever |-> There(apiHost), always |-> There(apiHost), bare |-> Bare(apiHost)]
      /\ caller.pc = "idle" /\ UNCHANGED <<apiHost, outcome, changes>>
  BY DEF Begins
<1>2. first = FirstCalls(caller')
  <2>1. [NoUser EXCEPT !.cmd = cmd, !.arg = arg].cmd = cmd /\ [NoUser EXCEPT !.cmd = cmd, !.arg = arg].arg = arg
    BY DEF NoUser
  <2>2. caller'.cmd = cmd /\ caller'.arg = arg
    BY <1>1
  <2> QED BY <2>1, <2>2 DEF FirstCalls
<1> HIDE DEF first
<1>3. /\ caller'.cmd = cmd /\ caller'.arg = arg /\ caller'.token = token /\ caller'.pc = "first"
      /\ caller'.open = first /\ caller'.got = {} /\ IsCaller'
  BY <1>1 DEF IsCaller
<1>4. Seen(apiHost)'
  BY <1>1 DEF Seen
<1>5. HostInv'
  BY <1>1, <1>4 DEF ApiInv, HostInv
<1>6. CallerInv'
  BY <1>1, <1>2, <1>3 DEF ApiInv, CallerInv, OneAnswer, Answered
<1> QED BY <1>5, <1>6 DEF ApiInv

LEMMA IsServedStep ==
  ASSUME ApiInv, NEW r \in caller.open, IsServed(r)
  PROVE  ApiInv'
<1> DEFINE a == <<r, Serve(apiHost, r, caller.token)>>
           left == caller.open \ {r}
           got == caller.got \cup {a}
<1>1. /\ caller' = [caller EXCEPT !.open = left, !.got = got] /\ UNCHANGED <<apiHost, outcome, during, changes>>
  BY DEF IsServed
<1>2. a[1] = r
  OBVIOUS
<1>3. caller.pc \in {"first", "next"}
  <2>1. NoUser.open = {}
    BY DEF NoUser
  <2> QED BY <2>1 DEF ApiInv, CallerInv
<1>4. \E d \in Hosts : Seen(d)' /\ a = <<a[1], Serve(d, a[1], caller'.token)>>
  <2>1. apiHost \in Hosts /\ Seen(apiHost)
    BY <1>3 DEF ApiInv, HostInv
  <2>2. PICK d \in Hosts : d = apiHost
    BY <2>1
  <2>3. caller'.token = caller.token /\ Seen(d)'
    BY <1>1, <2>1, <2>2 DEF ApiInv, CallerInv, IsCaller, Seen
  <2>4. a = <<a[1], Serve(d, a[1], caller'.token)>>
    BY <2>2, <2>3
  <2> QED BY <2>3, <2>4
<1> HIDE DEF a, left, got
<1>5. /\ caller'.cmd = caller.cmd /\ caller'.arg = caller.arg /\ caller'.token = caller.token /\ caller'.pc = caller.pc
      /\ caller'.open = left /\ caller'.got = got /\ IsCaller'
  BY <1>1 DEF ApiInv, CallerInv, IsCaller
<1>6. FirstCalls(caller') = FirstCalls(caller)
  BY <1>5 DEF FirstCalls
<1>7. Answered' = Answered \cup {r} /\ left \cup Answered' = caller.open \cup Answered
  BY <1>2, <1>5 DEF Answered, left, got
<1>8. OneAnswer'
  BY <1>2, <1>5 DEF ApiInv, CallerInv, OneAnswer, left, got
<1>9. \A b \in got : Justified(b)'
  <2> TAKE b \in got
  <2>1. CASE b = a
    <3>1. \E d \in Hosts : Seen(d)' /\ b = <<b[1], Serve(d, b[1], caller'.token)>>
      BY <1>4, <2>1
    <3> QED BY <3>1 DEF Justified
  <2>2. CASE b \in caller.got
    BY <1>1, <1>5, <2>2 DEF ApiInv, CallerInv, Justified, Seen
  <2> QED BY <2>1, <2>2 DEF got
<1>10. HostInv'
  BY <1>1, <1>5 DEF ApiInv, HostInv, Seen
<1>11. ASSUME caller.pc = "next"
       PROVE  \A b \in got : b[1] \in FirstCalls(caller) => b \in caller.got
  <2>1. FirstCalls(caller) \subseteq Answered
    BY <1>11 DEF ApiInv, CallerInv
  <2>2. r \notin Answered
    BY DEF ApiInv, CallerInv, OneAnswer, Answered
  <2> QED BY <1>2, <2>1, <2>2 DEF got
<1>12. CallerInv'
  BY <1>1, <1>3, <1>5, <1>6, <1>7, <1>8, <1>9, <1>11 DEF ApiInv, CallerInv
<1> QED BY <1>10, <1>12 DEF ApiInv

LEMMA GotIs ==
  ASSUME NEW u, NEW path, NEW a \in u.got, a[1].call[2] = path,
         \A b \in u.got : b[1].call[2] = path => b = a
  PROVE  Got(u, path) = a[2]
<1>1. (CHOOSE b \in u.got : b[1].call[2] = path) = a
  OBVIOUS
<1> QED BY <1>1 DEF Got

\* The one answer that a command with one request ends with.
LEMMA TheAnswer ==
  ASSUME ApiInv, caller.pc \in {"first", "next", "done"}, caller.open = {},
         NEW r, FirstCalls(caller) = {r}
  PROVE  \E a \in caller.got : a[1] = r /\ Justified(a) /\ \A b \in caller.got : b[1] = r => b = a
<1>1. r \in Answered
  BY DEF ApiInv, CallerInv
<1>2. PICK a \in caller.got : a[1] = r
  BY <1>1 DEF Answered
<1> QED BY <1>2 DEF ApiInv, CallerInv, OneAnswer

LEMMA PsIsAnswered ==
  ASSUME ApiInv, caller.pc \in {"first", "next", "done"}, caller.open = {}, caller.cmd = "ps"
  PROVE  \E a \in caller.got :
           /\ a[1] = Gets("", "projects", "", FALSE) /\ Justified(a) /\ Got(caller, "projects") = a[2]
           /\ a[1] \in FirstCalls(caller) /\ \A b \in caller.got : b[1] = a[1] => b = a
<1> DEFINE r == Gets("", "projects", "", FALSE)
<1>1. caller.cmd \in Commands
  BY DEF Commands, CliCommands
<1>2. FirstCalls(caller) = {r}
  BY <1>1, FirstCallsAre
<1>3. r.call[2] = "projects" /\ \A p : OfWorkflow(p).call[2] = "workflow"
  BY DEF OfWorkflow, Gets, Request
<1> HIDE DEF r
<1>4. PICK a \in caller.got : a[1] = r /\ Justified(a) /\ \A b \in caller.got : b[1] = r => b = a
  BY <1>2, TheAnswer
<1>5. \A b \in caller.got : b[1] = r \/ b[1] \in FollowUps
  BY <1>2 DEF ApiInv, CallerInv, Answered
<1>6. \A b \in caller.got : b[1].call[2] = "projects" => b = a
  BY <1>3, <1>4, <1>5 DEF FollowUps
<1>7. Got(caller, "projects") = a[2]
  BY <1>3, <1>4, <1>6, GotIs
<1> QED BY <1>2, <1>4, <1>7 DEF r

LEMMA GoesOnStep ==
  ASSUME ApiInv, GoesOn
  PROVE  ApiInv'
<1> DEFINE open == NextCalls(caller)
<1>1. /\ caller.pc = "first" /\ caller.open = {} /\ open # {}
      /\ caller' = [caller EXCEPT !.pc = "next", !.open = open] /\ UNCHANGED <<apiHost, outcome, during, changes>>
  BY DEF GoesOn
<1>2. caller.cmd = "ps" /\ open = FetchProjectsRuntime(caller)
  BY <1>1 DEF NextCalls
<1> HIDE DEF open
<1>3. /\ caller'.cmd = caller.cmd /\ caller'.arg = caller.arg /\ caller'.token = caller.token /\ caller'.pc = "next"
      /\ caller'.open = open /\ caller'.got = caller.got /\ IsCaller'
  BY <1>1 DEF ApiInv, CallerInv, IsCaller
<1>4. PICK a \in caller.got :
        /\ a[1] = Gets("", "projects", "", FALSE) /\ Justified(a) /\ Got(caller, "projects") = a[2]
        /\ a[1] \in FirstCalls(caller) /\ \A b \in caller.got : b[1] = a[1] => b = a
  BY <1>1, <1>2, PsIsAnswered
<1>5. open = {OfWorkflow(p) : p \in a[2].body} /\ a[2].status = 200
  BY <1>1, <1>2, <1>4 DEF FetchProjectsRuntime, OfWorkflow, Gets
<1>6. a[2].body \subseteq ApiProjects
  <2>1. PICK d \in Hosts : a = <<a[1], Serve(d, a[1], caller.token)>>
    BY <1>4 DEF Justified
  <2>2. caller.token \in BOOLEAN
    BY <1>1 DEF ApiInv, CallerInv
  <2>3. LET b == Daemon(d, "projects", caller.token)
        IN  Is(b, 401, {}) \/ Is(b, 200, d.registered)
    BY <2>2, ServesProjects
  <2>4. a[2] = Daemon(d, "projects", caller.token)
    <3> DEFINE r == Gets("", "projects", "", FALSE)
    <3>1. Daemon(d, "projects", caller.token) = Serve(d, r, caller.token)
      BY DEF Daemon
    <3>2. a[1] = r
      BY <1>4
    <3> HIDE DEF r
    <3>3. a[2] = Serve(d, a[1], caller.token)
      BY <2>1
    <3> QED BY <3>1, <3>2, <3>3
  <2>5. a[2].body \in {{}, d.registered}
    BY <2>3, <2>4 DEF Is
  <2> QED BY <2>5 DEF Hosts
<1>7. FirstCalls(caller') = FirstCalls(caller) /\ Answered' = Answered /\ FirstCalls(caller) = {a[1]}
  <2>1. caller.cmd \in Commands
    BY <1>2 DEF Commands, CliCommands
  <2> QED BY <1>2, <1>3, <1>4, <2>1, FirstCallsAre DEF FirstCalls, Answered
<1>8. Answered = {a[1]}
  BY <1>1, <1>7 DEF ApiInv, CallerInv
<1>9. a[1] \notin open
  <2>1. \A p : OfWorkflow(p).call[2] = "workflow"
    BY DEF OfWorkflow, Gets, Request
  <2>2. Gets("", "projects", "", FALSE).call[2] = "projects"
    BY DEF Gets, Request
  <2>3. a[1].call[2] = "projects"
    BY <1>4, <2>2
  <2> QED BY <1>5, <2>1, <2>3
<1>10. OneAnswer'
  BY <1>3, <1>4, <1>8, <1>9 DEF OneAnswer, Answered
<1>11. \A b \in caller.got : Justified(b)'
  BY <1>1, <1>3 DEF ApiInv, CallerInv, Justified, Seen
<1>12. HostInv'
  BY <1>1, <1>3 DEF ApiInv, HostInv, Seen
<1>13. open \subseteq FollowUps
  BY <1>5, <1>6 DEF FollowUps
<1>14. \A b \in caller.got : \A p \in b[2].body : OfWorkflow(p) \in open
  <2>1. \A b \in caller.got : b[1] = a[1]
    BY <1>8 DEF Answered
  <2>2. \A b \in caller.got : b = a
    BY <1>4, <2>1
  <2> QED BY <1>5, <2>2
<1>15. CallerInv'
  BY <1>1, <1>2, <1>3, <1>7, <1>8, <1>10, <1>11, <1>13, <1>14 DEF ApiInv, CallerInv
<1> QED BY <1>12, <1>15 DEF ApiInv

LEMMA EndsStep ==
  ASSUME ApiInv, Ends
  PROVE  ApiInv'
<1>1. /\ caller.open = {} /\ (caller.pc = "next" \/ (caller.pc = "first" /\ NextCalls(caller) = {}))
      /\ caller' = [caller EXCEPT !.pc = "done"] /\ outcome' = Outcome(caller)
      /\ UNCHANGED <<apiHost, during, changes>>
  BY DEF Ends
<1>2. /\ caller'.cmd = caller.cmd /\ caller'.arg = caller.arg /\ caller'.token = caller.token /\ caller'.pc = "done"
      /\ caller'.open = {} /\ caller'.got = caller.got /\ IsCaller'
  BY <1>1 DEF ApiInv, CallerInv, IsCaller
<1>3. FirstCalls(caller') = FirstCalls(caller) /\ Answered' = Answered
  BY <1>2 DEF FirstCalls, Answered
<1>4. \A b \in caller.got : Justified(b)'
  BY <1>1, <1>2 DEF ApiInv, CallerInv, Justified, Seen
<1>5. HostInv' /\ OneAnswer'
  BY <1>1, <1>2 DEF ApiInv, HostInv, Seen, CallerInv, OneAnswer
<1>6. \E u : u.cmd = caller'.cmd /\ u.arg = caller'.arg /\ u.got = caller'.got /\ outcome' = Outcome(u)
  BY <1>1, <1>2
<1>7. ASSUME caller.pc = "first", caller.cmd = "ps"
      PROVE  \A b \in caller.got : b[2].status = 200 => b[2].body = {}
  <2>1. PICK a \in caller.got :
          /\ a[1] = Gets("", "projects", "", FALSE) /\ Justified(a) /\ Got(caller, "projects") = a[2]
          /\ a[1] \in FirstCalls(caller) /\ \A b \in caller.got : b[1] = a[1] => b = a
    BY <1>1, <1>7, PsIsAnswered
  <2>2. FirstCalls(caller) = {a[1]}
    <3>1. caller.cmd \in Commands
      BY <1>7 DEF Commands, CliCommands
    <3> QED BY <1>7, <2>1, <3>1, FirstCallsAre
  <2>3. \A b \in caller.got : b = a
    BY <1>1, <1>7, <2>1, <2>2 DEF ApiInv, CallerInv, Answered
  <2>4. a[2].status # 200 \/ a[2].body = {}
    <3>1. FetchProjectsRuntime(caller) = {}
      BY <1>1, <1>7 DEF NextCalls
    <3>2. a[2].status = 200 => {Request(p, <<"GET", "workflow">>, "", FALSE) : p \in a[2].body} = {}
      BY <2>1, <3>1 DEF FetchProjectsRuntime
    <3> DEFINE body == a[2].body
    <3> HIDE DEF body
    <3>3. ASSUME NEW p \in body PROVE {OfWorkflow(q) : q \in body} # {}
      <4>1. OfWorkflow(p) \in {OfWorkflow(q) : q \in body}
        OBVIOUS
      <4> QED BY <4>1
    <3>4. a[2].status = 200 => {OfWorkflow(q) : q \in body} = {}
      BY <3>2 DEF OfWorkflow, Gets, body
    <3>5. a[2].status = 200 => body = {}
      BY <3>3, <3>4
    <3> QED BY <3>5 DEF body
  <2> QED BY <2>3, <2>4
<1>8. CASE caller.pc = "first"
  <2>1. caller.open \cup Answered = FirstCalls(caller)
    BY <1>8 DEF ApiInv, CallerInv
  <2>2. CallerInv'
    BY <1>1, <1>2, <1>3, <1>4, <1>5, <1>6, <1>7, <1>8, <2>1 DEF ApiInv, CallerInv
  <2> QED BY <1>5, <2>2 DEF ApiInv
<1>9. CASE caller.pc = "next"
  <2>1. CallerInv'
    BY <1>1, <1>2, <1>3, <1>4, <1>5, <1>6, <1>9 DEF ApiInv, CallerInv
  <2> QED BY <1>5, <2>1 DEF ApiInv
<1> QED BY <1>1, <1>8, <1>9

LEMMA ApiInvStep == ApiInv /\ [ApiNext]_apiVars => ApiInv'
<1> SUFFICES ASSUME ApiInv, [ApiNext]_apiVars PROVE ApiInv'
  OBVIOUS
<1>1. CASE UNCHANGED apiVars
  BY <1>1 DEF apiVars, ApiInv, HostInv, CallerInv, Seen, Justified, IsCaller, OneAnswer, Answered
<1>2. CASE WorkflowGoesOn \/ \E p \in ApiProjects : ProjectComesOrGoes(p)
  BY <1>2, HostStep
<1>3. ASSUME NEW cmd \in CliCommands \cup SdkMethods \cup ClientMethods, NEW token \in BOOLEAN,
             NEW arg \in ArgsOf(cmd), Begins(cmd, arg, token)
      PROVE  ApiInv'
  BY <1>3, BeginsStep DEF Commands
<1>4. CASE GoesOn
  BY <1>4, GoesOnStep
<1>5. CASE Ends
  BY <1>5, EndsStep
<1>6. ASSUME NEW r \in caller.open, IsServed(r)
      PROVE  ApiInv'
  BY <1>6, IsServedStep
<1> QED BY <1>1, <1>2, <1>3, <1>4, <1>5, <1>6 DEF ApiNext

-----------------------------------------------------------------------------
\* How a command ends, from the state that the daemon answered it from.
HasEnded == ApiInv /\ caller.pc = "done"
Ends1(a) == IF a.status = 200 THEN Shows(a.body) ELSE GivesUp
IsUser(u) == u.cmd = caller.cmd /\ u.arg = caller.arg /\ u.got = caller.got /\ outcome = Outcome(u)

LEMMA ShowsIs ==
  /\ GivesUp.exit = 1 /\ GivesUp.of = {}
  /\ \A of : Shows(of).exit = 0 /\ Shows(of).of = of /\ Shows(of) # GivesUp
BY DEF GivesUp, Shows

LEMMA SingleCall ==
  ASSUME HasEnded, caller.cmd # "ps", NEW r, FirstCalls(caller) = {r}, NEW u, IsUser(u)
  PROVE  \E d \in Hosts :
           /\ Seen(d) /\ OneCallOutcome(u) = Ends1(Serve(d, r, caller.token))
           /\ \A path : r.call[2] = path => Got(u, path) = Serve(d, r, caller.token)
<1>1. PICK a \in caller.got : a[1] = r /\ Justified(a) /\ \A b \in caller.got : b[1] = r => b = a
  BY TheAnswer DEF HasEnded, ApiInv, CallerInv
<1>2. Answered = {r}
  BY DEF HasEnded, ApiInv, CallerInv
<1>3. \A b \in u.got : b = a
  BY <1>1, <1>2 DEF Answered, IsUser
<1>4. a \in u.got
  BY <1>1 DEF IsUser
<1>5. PICK d \in Hosts : Seen(d) /\ a = <<a[1], Serve(d, a[1], caller.token)>>
  BY <1>1 DEF Justified
<1>6. a[2] = Serve(d, r, caller.token)
  BY <1>1, <1>5
<1>7. OneCallOutcome(u) = Ends1(Serve(d, r, caller.token))
  <2>1. (CHOOSE x \in u.got : TRUE) = a
    BY <1>3, <1>4
  <2>2. OneCallOutcome(u) = Ends1((CHOOSE x \in u.got : TRUE)[2])
    BY DEF OneCallOutcome, Ends1
  <2> QED BY <1>6, <2>1, <2>2
<1>8. \A path : r.call[2] = path => Got(u, path) = a[2]
  BY <1>1, <1>3, <1>4, GotIs
<1> QED BY <1>5, <1>6, <1>7, <1>8

\* What CallersAreAnswered asks of a caller whose call has ended.
EndsTruly ==
  /\ outcome.exit = 0 => Listed \subseteq during.ever
  /\ outcome.exit = 0 => during.always \cap Lists \subseteq Listed
  /\ caller.cmd = "nodes" /\ outcome.exit = 0 =>
       during.always \cap OfKind("node", GraphNodes \ apiHost.finished) \subseteq Listed
  /\ caller.cmd # "ps" /\ "no workflow" \in outcome.of => during.bare
  /\ caller.cmd = "ps" => \A row \in outcome.of : row = <<TheProject, "unknown">> => during.bare
  /\ outcome.exit = 0 => caller.token \/ caller.cmd = "health"
  /\ caller.cmd \in SdkMethods => (outcome.exit = 0 <=> caller.cmd = "health")
  /\ outcome.exit = 0 => caller.cmd \notin {"inspect", "tree", "resume", "stop"}
  /\ outcome.exit = 1 /\ caller.token /\ ~during.bare /\ WasAsked \subseteq during.always =>
       caller.cmd \in {"inspect", "tree", "resume", "stop", "getReview"} \cup SdkMethods

\* A command that gives up, of those that may.
LEMMA GivesUpTruly ==
  ASSUME outcome = GivesUp, caller.cmd # "health",
         \/ caller.cmd \in {"inspect", "tree", "resume", "stop", "getReview"} \cup SdkMethods
         \/ ~caller.token \/ during.bare \/ ~(WasAsked \subseteq during.always)
  PROVE  EndsTruly
BY ShowsIs DEF EndsTruly

\* What has been seen of the daemon, kind by kind.
LEMMA SeenIs ==
  ASSUME NEW d \in Hosts, Seen(d)
  PROVE  /\ \A p \in d.registered : <<"project", p>> \in during.ever
         /\ \A p : <<"project", p>> \in during.always => p \in d.registered
         /\ \A n : TheProject \in d.registered /\ n \in d.nodes => <<"node", n>> \in during.ever
         /\ \A n : <<"node", n>> \in during.always => TheProject \in d.registered /\ n \in d.nodes
         /\ \A n : TheProject \in d.registered /\ n \in d.specs => <<"spec", n>> \in during.ever
         /\ \A n : <<"spec", n>> \in during.always => TheProject \in d.registered /\ n \in d.specs
         /\ \A n : TheProject \in d.registered /\ n \in d.memory => <<"memory", n>> \in during.ever
         /\ \A n : <<"memory", n>> \in during.always => TheProject \in d.registered /\ n \in d.memory
         /\ d.nodes \subseteq GraphNodes /\ d.specs \subseteq DocNames /\ d.memory \subseteq DocNames
         /\ ~d.flow => d.nodes = {} /\ d.specs = {}
         /\ (TheProject \notin d.registered \/ ~d.flow) => during.bare
         /\ d.finished \subseteq apiHost.finished /\ d.registered \subseteq ApiProjects /\ d.flow \in BOOLEAN
<1>1. There(d) \subseteq during.ever /\ during.always \subseteq There(d) /\ (Bare(d) => during.bare)
  BY DEF Seen
<1>2. \A p \in d.registered : <<"project", p>> \in during.ever
  BY <1>1, ThereIs
<1>3. \A p : <<"project", p>> \in during.always => p \in d.registered
  BY <1>1, ThereIs
<1>4. /\ \A n : TheProject \in d.registered /\ n \in d.nodes => <<"node", n>> \in during.ever
      /\ \A n : TheProject \in d.registered /\ n \in d.specs => <<"spec", n>> \in during.ever
      /\ \A n : TheProject \in d.registered /\ n \in d.memory => <<"memory", n>> \in during.ever
  BY <1>1, ThereIs
<1>5. \A n : <<"node", n>> \in during.always => TheProject \in d.registered /\ n \in d.nodes
  BY <1>1, ThereIs
<1>6. \A n : <<"spec", n>> \in during.always => TheProject \in d.registered /\ n \in d.specs
  BY <1>1, ThereIs
<1>7. \A n : <<"memory", n>> \in during.always => TheProject \in d.registered /\ n \in d.memory
  BY <1>1, ThereIs
<1>8. /\ d.nodes \subseteq GraphNodes /\ d.specs \subseteq DocNames /\ d.memory \subseteq DocNames
      /\ (~d.flow => d.nodes = {} /\ d.specs = {}) /\ d.registered \subseteq ApiProjects /\ d.flow \in BOOLEAN
  BY DEF Hosts
<1>9. d.finished \subseteq apiHost.finished /\ ((TheProject \notin d.registered \/ ~d.flow) => during.bare)
  BY <1>1 DEF Seen, Bare
<1> QED BY <1>2, <1>3, <1>4, <1>5, <1>6, <1>7, <1>8, <1>9

LEMMA OutcomeIs ==
  ASSUME NEW u
  PROVE  /\ u.cmd = "status" => Outcome(u) = StatusOutcome(u)
         /\ u.cmd \in {"nodes", "nodes --all"} => Outcome(u) = NodesOutcome(u)
         /\ u.cmd \in {"inspect", "inspect --json"} => Outcome(u) = InspectOutcome(u)
         /\ u.cmd \in {"tree", "tree --json"} => Outcome(u) = TreeOutcome(u)
         /\ u.cmd = "ps" => Outcome(u) = PsOutcome(u)
         /\ u.cmd \in {"logs", "chat", "resume", "stop"} => Outcome(u) = OneCallOutcome(u)
         /\ u.cmd \in ClientMethods => Outcome(u) = OneCallOutcome(u)
         /\ u.cmd \in SdkMethods => Outcome(u) = SdkOutcome(u)
<1>1. CASE u.cmd \in ClientMethods
  BY <1>1 DEF Outcome, ClientMethods, SdkMethods
<1>2. CASE u.cmd \in SdkMethods
  BY <1>2 DEF Outcome, ClientMethods, SdkMethods
<1>3. CASE u.cmd \in {"logs", "chat", "resume", "stop"}
  BY <1>3 DEF Outcome, ClientMethods, SdkMethods
<1>4. CASE u.cmd \in {"status", "nodes", "nodes --all", "inspect", "inspect --json", "tree", "tree --json", "ps"}
  BY <1>4 DEF Outcome, ClientMethods, SdkMethods
<1> QED BY <1>1, <1>2, <1>3, <1>4

LEMMA ReadIsAnswered ==
  ASSUME HasEnded, NEW u, IsUser(u), caller.cmd \in Readers
  PROVE  \E d \in Hosts : \E r :
           /\ Seen(d) /\ Asks(r, TheProject, ReadsOf(caller.cmd)) /\ (caller.cmd \in NamedIn => r.arg = caller.arg)
           /\ OneCallOutcome(u) = Ends1(Serve(d, r, caller.token))
           /\ Got(u, ReadsOf(caller.cmd)) = Serve(d, r, caller.token)
<1> DEFINE arg == IF caller.cmd \in NamedIn THEN caller.arg ELSE ""
           r == Gets(TheProject, ReadsOf(caller.cmd), arg, FALSE)
<1>1. caller.cmd \in Commands /\ caller.cmd # "ps"
  BY DEF Commands, Readers, CliCommands, ClientMethods
<1>2. FirstCalls(caller) = {r}
  BY <1>1, FirstCallsAre
<1> HIDE DEF arg
<1>3. Asks(r, TheProject, ReadsOf(caller.cmd)) /\ r.arg = arg
  BY DEF Asks, Gets, Request
<1> HIDE DEF r
<1>4. r.call[2] = ReadsOf(caller.cmd)
  BY <1>3, AskedIs
<1>5. PICK d \in Hosts :
           /\ Seen(d) /\ OneCallOutcome(u) = Ends1(Serve(d, r, caller.token))
           /\ Got(u, ReadsOf(caller.cmd)) = Serve(d, r, caller.token)
  BY <1>1, <1>2, <1>4, SingleCall
<1> QED BY <1>3, <1>5 DEF arg

LEMMA ArgIs ==
  ASSUME HasEnded
  PROVE  /\ caller.cmd \in {"inspect", "inspect --json", "getReview"} => caller.arg \in GraphNodes
         /\ caller.cmd \in {"readSpec", "readMemory"} => caller.arg \in DocNames
         /\ caller.token \in BOOLEAN /\ caller.cmd \in Commands
<1>1. caller.arg \in ArgsOf(caller.cmd) /\ caller.token \in BOOLEAN /\ caller.cmd \in Commands
  BY DEF HasEnded, ApiInv, CallerInv
<1> QED BY <1>1 DEF ArgsOf

\* A command that ends well, of those that show what they were answered.
LEMMA ShowsTruly ==
  ASSUME NEW of, outcome = Shows(of), caller.token,
         caller.cmd \notin {"ps", "nodes", "inspect", "tree", "resume", "stop"} \cup SdkMethods,
         Listed \subseteq during.ever, during.always \cap Lists \subseteq Listed,
         "no workflow" \in of => during.bare
  PROVE  EndsTruly
<1>1. outcome.exit = 0 /\ outcome.of = of
  BY ShowsIs
<1>2. caller.cmd # "nodes" /\ caller.cmd # "ps" /\ caller.cmd \notin SdkMethods
      /\ caller.cmd \notin {"inspect", "tree", "resume", "stop"}
  OBVIOUS
<1>3. outcome.exit # 1
  BY ONLY <1>1
<1> QED BY <1>1, <1>2, <1>3 DEF EndsTruly

LEMMA Ends1Is ==
  ASSUME NEW a
  PROVE  /\ \A body : Is(a, 200, body) => Ends1(a) = Shows(body)
         /\ \A status, body : status # 200 /\ Is(a, status, body) => Ends1(a) = GivesUp
BY DEF Ends1, Is

LEMMA NamesAre ==
  /\ \A n \in GraphNodes \cup DocNames : n \notin {"workflow", "no workflow", "running", "entry", "ok"}
BY ApiCallsAssumption

LEMMA OfKindIs == \A kind, S, x : x \in OfKind(kind, S) <=> \E y \in S : x = <<kind, y>>
BY DEF OfKind

\* The documents: of a run of agents, or of the shared memory.
LEMMA SpecsEndTruly ==
  ASSUME HasEnded, NEW u, IsUser(u), caller.cmd \in {"listSpecs", "readSpec"}
  PROVE  EndsTruly
<1> DEFINE path == ReadsOf(caller.cmd)
<1>1. path = (IF caller.cmd = "listSpecs" THEN "specs" ELSE "specs/:name") /\ caller.cmd \in Readers
  BY DEF ReadsOf, Readers, ClientMethods
<1> HIDE DEF path
<1>2a. PICK d \in Hosts : \E r :
        /\ Seen(d) /\ Asks(r, TheProject, path) /\ (caller.cmd \in NamedIn => r.arg = caller.arg)
        /\ OneCallOutcome(u) = Ends1(Serve(d, r, caller.token))
  BY <1>1, ReadIsAnswered DEF path
<1>2. PICK r :
        /\ d \in Hosts
        /\ Seen(d) /\ Asks(r, TheProject, path) /\ (caller.cmd \in NamedIn => r.arg = caller.arg)
        /\ OneCallOutcome(u) = Ends1(Serve(d, r, caller.token))
  BY <1>2a
<1>3. outcome = OneCallOutcome(u)
  BY OutcomeIs DEF IsUser, ClientMethods
<1> DEFINE a == Serve(d, r, caller.token)
<1>4. caller.token \in BOOLEAN /\ path \in {"specs", "specs/:name"}
  BY <1>1, ArgIs
<1>5. ReadAnswer(a, d, r, path, caller.token)
  BY <1>2, <1>4, ServesReads
<1> HIDE DEF a
<1>6. /\ ~caller.token => Is(a, 401, {})
      /\ caller.token /\ TheProject \notin d.registered => Is(a, 404, {})
      /\ caller.token /\ TheProject \in d.registered /\ ~d.flow => Is(a, 404, {})
      /\ caller.token /\ TheProject \in d.registered /\ d.flow =>
            /\ path = "specs" => Is(a, 200, d.specs)
            /\ path = "specs/:name" => IsFound(a, r.arg, d.specs)
  BY <1>4, <1>5 DEF ReadAnswer
<1>7. CASE ~caller.token \/ TheProject \notin d.registered \/ ~d.flow
  <2>1. outcome = GivesUp
    BY <1>2, <1>3, <1>4, <1>6, <1>7, Ends1Is DEF a
  <2>2. ~caller.token \/ during.bare
    BY <1>2, <1>7, SeenIs
  <2> QED BY <2>1, <2>2, GivesUpTruly
<1>8. CASE caller.token /\ TheProject \in d.registered /\ d.flow /\ path = "specs"
  <2>1. caller.cmd = "listSpecs"
    BY <1>1, <1>8
  <2>2. outcome = Shows(d.specs)
    BY <1>2, <1>3, <1>6, <1>8, Ends1Is DEF a
  <2>3. Listed = OfKind("spec", d.specs) /\ Lists = OfKind("spec", DocNames)
    BY <2>1, <2>2, ShowsIs DEF Listed, Lists
  <2>4. Listed \subseteq during.ever
    BY <1>2, <1>8, <2>3, SeenIs, OfKindIs
  <2>5. during.always \cap Lists \subseteq Listed
    BY <1>2, <2>3, SeenIs, OfKindIs
  <2>6. "no workflow" \notin d.specs
    BY <1>2, SeenIs, NamesAre
  <2> QED BY <1>8, <2>1, <2>2, <2>4, <2>5, <2>6, ShowsTruly DEF SdkMethods
<1>9. CASE caller.token /\ TheProject \in d.registered /\ d.flow /\ path = "specs/:name"
  <2>1. caller.cmd = "readSpec" /\ r.arg = caller.arg
    BY <1>1, <1>2, <1>9 DEF NamedIn
  <2>2. CASE r.arg \in d.specs
    <3>1. outcome = Shows({caller.arg})
      BY <1>2, <1>3, <1>6, <1>9, <2>1, <2>2, Ends1Is DEF a, IsFound
    <3>2. Listed = OfKind("spec", {caller.arg}) /\ Lists = {}
      BY <2>1, <3>1, ShowsIs DEF Listed, Lists
    <3>3. Listed \subseteq during.ever
      BY <1>2, <1>9, <2>1, <2>2, <3>2, SeenIs, OfKindIs
    <3>4. "no workflow" \notin {caller.arg}
      BY <1>2, <2>1, <2>2, SeenIs, NamesAre
    <3> QED BY <1>9, <2>1, <3>1, <3>2, <3>3, <3>4, ShowsTruly DEF SdkMethods
  <2>3. CASE r.arg \notin d.specs
    <3>0. Is(a, 404, {})
      BY <1>6, <1>9, <2>3 DEF IsFound
    <3>1. outcome = GivesUp
      BY <1>2, <1>3, <3>0, Ends1Is DEF a
    <3>2. ~(WasAsked \subseteq during.always)
      BY <1>2, <2>1, <2>3, SeenIs DEF WasAsked
    <3> QED BY <2>1, <3>1, <3>2, GivesUpTruly
  <2> QED BY <2>2, <2>3
<1> QED BY <1>4, <1>7, <1>8, <1>9, ArgIs

\* A read of a project, as a command with one request has it answered.
LEMMA Reading ==
  ASSUME HasEnded, NEW u, IsUser(u), caller.cmd \in Readers \ {"tree", "tree --json"}
  PROVE  \E d \in Hosts : \E r, a :
           /\ Seen(d) /\ (caller.cmd \in NamedIn => r.arg = caller.arg)
           /\ ReadAnswer(a, d, r, ReadsOf(caller.cmd), caller.token)
           /\ OneCallOutcome(u) = Ends1(a) /\ Got(u, ReadsOf(caller.cmd)) = a
<1> DEFINE path == ReadsOf(caller.cmd)
<1>1. path \in {"nodes", "nodes/:id", "nodes/:id/review", "specs", "specs/:name", "memory", "memory/:name"}
  BY DEF ReadsOf, Readers, ClientMethods
<1> HIDE DEF path
<1>2a. PICK d \in Hosts : \E r :
        /\ Seen(d) /\ Asks(r, TheProject, path) /\ (caller.cmd \in NamedIn => r.arg = caller.arg)
        /\ OneCallOutcome(u) = Ends1(Serve(d, r, caller.token)) /\ Got(u, path) = Serve(d, r, caller.token)
  BY ReadIsAnswered DEF path
<1>2. PICK r :
        /\ d \in Hosts
        /\ Seen(d) /\ Asks(r, TheProject, path) /\ (caller.cmd \in NamedIn => r.arg = caller.arg)
        /\ OneCallOutcome(u) = Ends1(Serve(d, r, caller.token)) /\ Got(u, path) = Serve(d, r, caller.token)
  BY <1>2a
<1>3. caller.token \in BOOLEAN
  BY ArgIs
<1>4. ReadAnswer(Serve(d, r, caller.token), d, r, path, caller.token)
  BY <1>1, <1>2, <1>3, ServesReads
<1> QED BY <1>2, <1>4 DEF path

LEMMA MemoryEndsTruly ==
  ASSUME HasEnded, NEW u, IsUser(u), caller.cmd \in {"listMemory", "readMemory"}
  PROVE  EndsTruly
<1> DEFINE path == ReadsOf(caller.cmd)
<1>1. /\ path = (IF caller.cmd = "listMemory" THEN "memory" ELSE "memory/:name")
      /\ caller.cmd \in Readers \ {"tree", "tree --json"}
  BY DEF ReadsOf, Readers, ClientMethods
<1> HIDE DEF path
<1>2a. PICK d \in Hosts : \E r, a :
        /\ Seen(d) /\ (caller.cmd \in NamedIn => r.arg = caller.arg)
        /\ ReadAnswer(a, d, r, path, caller.token) /\ OneCallOutcome(u) = Ends1(a)
  BY <1>1, Reading DEF path
<1>2. PICK r, a :
        /\ d \in Hosts
        /\ Seen(d) /\ (caller.cmd \in NamedIn => r.arg = caller.arg)
        /\ ReadAnswer(a, d, r, path, caller.token) /\ OneCallOutcome(u) = Ends1(a)
  BY <1>2a
<1>3. outcome = OneCallOutcome(u)
  BY OutcomeIs DEF IsUser, ClientMethods
<1>4. path \in {"memory", "memory/:name"} /\ caller.token \in BOOLEAN
  BY <1>1, ArgIs
<1>6. /\ ~caller.token => Is(a, 401, {})
      /\ caller.token /\ TheProject \notin d.registered => Is(a, 404, {})
      /\ caller.token /\ TheProject \in d.registered =>
            /\ path = "memory" => Is(a, 200, d.memory)
            /\ path = "memory/:name" => IsFound(a, r.arg, d.memory)
  BY <1>2, <1>4 DEF ReadAnswer
<1>7. CASE ~caller.token \/ TheProject \notin d.registered
  <2>1. outcome = GivesUp
    BY <1>2, <1>3, <1>4, <1>6, <1>7, Ends1Is
  <2>2. ~caller.token \/ during.bare
    BY <1>2, <1>7, SeenIs
  <2> QED BY <2>1, <2>2, GivesUpTruly
<1>8. CASE caller.token /\ TheProject \in d.registered /\ path = "memory"
  <2>1. caller.cmd = "listMemory"
    BY <1>1, <1>8
  <2>2. outcome = Shows(d.memory)
    BY <1>2, <1>3, <1>6, <1>8, Ends1Is
  <2>3. Listed = OfKind("memory", d.memory) /\ Lists = OfKind("memory", DocNames)
    BY <2>1, <2>2, ShowsIs DEF Listed, Lists
  <2>4. Listed \subseteq during.ever
    BY <1>2, <1>8, <2>3, SeenIs, OfKindIs
  <2>5. during.always \cap Lists \subseteq Listed
    BY <1>2, <2>3, SeenIs, OfKindIs
  <2>6. "no workflow" \notin d.memory
    BY <1>2, SeenIs, NamesAre
  <2> QED BY <1>8, <2>1, <2>2, <2>4, <2>5, <2>6, ShowsTruly DEF SdkMethods
<1>9. CASE caller.token /\ TheProject \in d.registered /\ path = "memory/:name"
  <2>1. caller.cmd = "readMemory" /\ r.arg = caller.arg
    BY <1>1, <1>2, <1>9 DEF NamedIn
  <2>2. CASE r.arg \in d.memory
    <3>1. outcome = Shows({caller.arg})
      BY <1>2, <1>3, <1>6, <1>9, <2>1, <2>2, Ends1Is DEF IsFound
    <3>2. Listed = OfKind("memory", {caller.arg}) /\ Lists = {}
      BY <2>1, <3>1, ShowsIs DEF Listed, Lists
    <3>3. Listed \subseteq during.ever
      BY <1>2, <1>9, <2>1, <2>2, <3>2, SeenIs, OfKindIs
    <3>4. "no workflow" \notin {caller.arg}
      BY <1>2, <2>1, <2>2, SeenIs, NamesAre
    <3> QED BY <1>9, <2>1, <3>1, <3>2, <3>3, <3>4, ShowsTruly DEF SdkMethods
  <2>3. CASE r.arg \notin d.memory
    <3>0. Is(a, 404, {})
      BY <1>6, <1>9, <2>3 DEF IsFound
    <3>1. outcome = GivesUp
      BY <1>2, <1>3, <3>0, Ends1Is
    <3>2. ~(WasAsked \subseteq during.always)
      BY <1>2, <2>1, <2>3, SeenIs DEF WasAsked
    <3> QED BY <2>1, <3>1, <3>2, GivesUpTruly
  <2> QED BY <2>2, <2>3
<1> QED BY <1>4, <1>7, <1>8, <1>9

LEMMA ReviewEndsTruly ==
  ASSUME HasEnded, NEW u, IsUser(u), caller.cmd = "getReview"
  PROVE  EndsTruly
<1>1. ReadsOf(caller.cmd) = "nodes/:id/review" /\ caller.cmd \in Readers \ {"tree", "tree --json"}
  BY DEF ReadsOf, Readers, ClientMethods
<1>2a. PICK d \in Hosts : \E r, a :
        /\ Seen(d) /\ (caller.cmd \in NamedIn => r.arg = caller.arg)
        /\ ReadAnswer(a, d, r, "nodes/:id/review", caller.token) /\ OneCallOutcome(u) = Ends1(a)
  BY <1>1, Reading
<1>2. PICK r, a :
        /\ d \in Hosts
        /\ Seen(d) /\ (caller.cmd \in NamedIn => r.arg = caller.arg)
        /\ ReadAnswer(a, d, r, "nodes/:id/review", caller.token) /\ OneCallOutcome(u) = Ends1(a)
  BY <1>2a
<1>3. outcome = OneCallOutcome(u)
  BY OutcomeIs DEF IsUser, ClientMethods
<1>4. caller.token \in BOOLEAN /\ r.arg = caller.arg
  BY <1>2, ArgIs DEF NamedIn
<1>5. /\ ~caller.token => Is(a, 401, {})
      /\ caller.token /\ TheProject \notin d.registered => Is(a, 404, {})
      /\ caller.token /\ TheProject \in d.registered /\ ~d.flow => Is(a, 404, {})
      /\ caller.token /\ TheProject \in d.registered /\ d.flow => IsFound(a, r.arg, d.nodes \cap d.reviewed)
  BY <1>2, <1>4 DEF ReadAnswer
<1>6. CASE Is(a, 401, {}) \/ Is(a, 404, {})
  <2>1. outcome = GivesUp
    BY <1>2, <1>3, <1>6, Ends1Is
  <2> QED BY <2>1, GivesUpTruly
<1>7. CASE caller.token /\ TheProject \in d.registered /\ r.arg \in d.nodes /\ Is(a, 200, {r.arg})
  <2>1. outcome = Shows({caller.arg})
    BY <1>2, <1>3, <1>4, <1>7, Ends1Is
  <2>2. Listed = OfKind("node", {caller.arg} \cap GraphNodes) /\ Lists = {}
    BY <2>1, ShowsIs DEF Listed, Lists
  <2>3. Listed \subseteq during.ever
    BY <1>2, <1>4, <1>7, <2>2, SeenIs, OfKindIs
  <2>4. "no workflow" \notin {caller.arg}
    BY <1>2, <1>4, <1>7, SeenIs, NamesAre
  <2> QED BY <1>7, <2>1, <2>2, <2>3, <2>4, ShowsTruly DEF SdkMethods
<1> QED BY <1>4, <1>5, <1>6, <1>7 DEF IsFound

LEMMA InspectEndsTruly ==
  ASSUME HasEnded, NEW u, IsUser(u), caller.cmd \in {"inspect", "inspect --json"}
  PROVE  EndsTruly
<1>1. ReadsOf(caller.cmd) = "nodes/:id" /\ caller.cmd \in Readers \ {"tree", "tree --json"}
  BY DEF ReadsOf, Readers, ClientMethods
<1>2a. PICK d \in Hosts : \E r, a :
        /\ Seen(d) /\ (caller.cmd \in NamedIn => r.arg = caller.arg)
        /\ ReadAnswer(a, d, r, "nodes/:id", caller.token) /\ Got(u, "nodes/:id") = a
  BY <1>1, Reading
<1>2. PICK r, a :
        /\ d \in Hosts
        /\ Seen(d) /\ (caller.cmd \in NamedIn => r.arg = caller.arg)
        /\ ReadAnswer(a, d, r, "nodes/:id", caller.token) /\ Got(u, "nodes/:id") = a
  BY <1>2a
<1>3. outcome = InspectOutcome(u) /\ u.cmd = caller.cmd /\ u.arg = caller.arg
  BY OutcomeIs DEF IsUser
<1>4. caller.token \in BOOLEAN /\ r.arg = caller.arg /\ caller.arg \in GraphNodes
  BY <1>2, ArgIs DEF NamedIn
<1>5. /\ ~caller.token => Is(a, 401, {})
      /\ caller.token /\ TheProject \notin d.registered => Is(a, 404, {})
      /\ caller.token /\ TheProject \in d.registered /\ ~d.flow => Is(a, 404, {})
      /\ caller.token /\ TheProject \in d.registered /\ d.flow => IsFound(a, r.arg, d.nodes)
  BY <1>2, <1>4 DEF ReadAnswer
<1>6. outcome = IF a.status = 200 /\ caller.cmd = "inspect --json" THEN Shows({caller.arg}) ELSE GivesUp
  BY <1>2, <1>3 DEF InspectOutcome
<1>7. CASE outcome = GivesUp
  <2>1. CASE caller.cmd = "inspect"
    BY <1>7, <2>1, GivesUpTruly
  <2>2. CASE caller.cmd = "inspect --json" /\ (~caller.token \/ TheProject \notin d.registered \/ ~d.flow)
    <3>1. ~caller.token \/ during.bare
      BY <1>2, <2>2, SeenIs
    <3> QED BY <1>7, <2>2, <3>1, GivesUpTruly
  <2>3. CASE caller.cmd = "inspect --json" /\ caller.token /\ TheProject \in d.registered /\ d.flow
    <3>1. a.status # 200
      <4> SUFFICES ASSUME a.status = 200 PROVE FALSE
        OBVIOUS
      <4>1. outcome = Shows({caller.arg})
        BY <1>6, <2>3
      <4> QED BY <1>7, <4>1, ShowsIs
    <3>2. r.arg \notin d.nodes
      BY <1>5, <2>3, <3>1 DEF IsFound, Is
    <3>3. ~(WasAsked \subseteq during.always)
      BY <1>2, <1>4, <2>3, <3>2, SeenIs DEF WasAsked
    <3> QED BY <1>7, <2>3, <3>3, GivesUpTruly
  <2> QED BY <1>4, <2>1, <2>2, <2>3
<1>8. CASE a.status = 200 /\ caller.cmd = "inspect --json"
  <2>1. outcome = Shows({caller.arg})
    BY <1>6, <1>8
  <2>2. Listed = OfKind("node", {caller.arg} \cap GraphNodes) /\ Lists = {}
    BY <1>8, <2>1, ShowsIs DEF Listed, Lists
  <2>3. caller.token /\ TheProject \in d.registered /\ d.flow /\ r.arg \in d.nodes
    <3>0. a.status = 200
      BY <1>8
    <3>1. a.status # 401 /\ a.status # 404
      BY ONLY <3>0
    <3>2. ~Is(a, 401, {}) /\ ~Is(a, 404, {})
      BY <3>1 DEF Is
    <3> QED BY <1>4, <1>5, <3>2 DEF IsFound
  <2>4. Listed \subseteq during.ever
    <3>1. <<"node", caller.arg>> \in during.ever
      BY <1>2, <1>4, <2>3, SeenIs
    <3> QED BY <2>2, <3>1 DEF OfKind
  <2>5. "no workflow" \notin {caller.arg}
    BY <1>4, NamesAre
  <2> QED BY <1>8, <2>1, <2>2, <2>3, <2>4, <2>5, ShowsTruly DEF SdkMethods
<1> QED BY <1>6, <1>7, <1>8

LEMMA NodesEndTruly ==
  ASSUME HasEnded, NEW u, IsUser(u), caller.cmd \in {"nodes", "nodes --all"}
  PROVE  EndsTruly
<1>1. ReadsOf(caller.cmd) = "nodes" /\ caller.cmd \in Readers \ {"tree", "tree --json"}
  BY DEF ReadsOf, Readers, ClientMethods
<1>2a. PICK d \in Hosts : \E r, a :
        Seen(d) /\ ReadAnswer(a, d, r, "nodes", caller.token) /\ Got(u, "nodes") = a
  BY <1>1, Reading
<1>2. PICK r, a :
        /\ d \in Hosts
        /\ Seen(d) /\ ReadAnswer(a, d, r, "nodes", caller.token) /\ Got(u, "nodes") = a
  BY <1>2a
<1>3. outcome = NodesOutcome(u) /\ u.cmd = caller.cmd
  BY OutcomeIs DEF IsUser
<1>4. caller.token \in BOOLEAN
  BY ArgIs
<1> DEFINE rows == {<<n, n \in d.finished>> : n \in d.nodes}
           shown == NodesNamed({m \in Got(u, "nodes").body : u.cmd = "nodes" => ~m[2]})
<1>5. /\ ~caller.token => Is(a, 401, {})
      /\ caller.token /\ (TheProject \notin d.registered \/ ~d.flow) => Is(a, 404, {})
      /\ caller.token /\ TheProject \in d.registered /\ d.flow => Is(a, 200, rows)
  BY <1>2, <1>4 DEF ReadAnswer
<1>6. /\ a.status = 200 => outcome = Shows(shown)
      /\ a.status = 404 => outcome = Shows({})
      /\ a.status = 401 => outcome = GivesUp
  <2>1. CASE a.status = 200
    <3>0. Got(u, "nodes").status = 200 => NodesOutcome(u) = Shows(shown)
      BY ONLY TRUE DEF NodesOutcome
    <3>1. outcome = Shows(shown)
      BY <1>2, <1>3, <2>1, <3>0
    <3>2. a.status # 404 /\ a.status # 401
      BY ONLY <2>1
    <3> QED BY <3>1, <3>2
  <2>2. CASE a.status # 200
    <3>1. a.status = 404 => outcome = Shows({})
      BY <1>2, <1>3, <2>2 DEF NodesOutcome
    <3>2. a.status # 404 => outcome = GivesUp
      BY <1>2, <1>3, <2>2 DEF NodesOutcome
    <3>3. a.status = 401 => a.status # 404
      BY ONLY TRUE
    <3> QED BY <2>2, <3>1, <3>2, <3>3
  <2> QED BY <2>1, <2>2
<1>7. CASE ~caller.token
  BY <1>5, <1>6, <1>7, GivesUpTruly DEF Is
<1>8. CASE caller.token /\ (TheProject \notin d.registered \/ ~d.flow)
  <2>1. outcome = Shows({})
    BY <1>5, <1>6, <1>8 DEF Is
  <2>2. outcome.exit = 0 /\ outcome.of = {}
    BY <2>1, ShowsIs
  <2>3. \A n : <<"node", n>> \notin during.always
    BY <1>2, <1>8, SeenIs
  <2>4. Lists \in {{}, OfKind("node", GraphNodes)} /\ Listed = OfKind("node", {} \cap GraphNodes)
    BY <2>2 DEF Lists, Listed
  <2>5. Listed = {} /\ during.always \cap Lists = {} /\ during.always \cap OfKind("node", GraphNodes \ apiHost.finished) = {}
    BY <2>3, <2>4 DEF OfKind
  <2>6. outcome.exit # 1
    <3>1. outcome.exit = 0
      BY <2>2
    <3> QED BY ONLY <3>1
  <2>7. caller.cmd \notin SdkMethods /\ caller.cmd \notin {"inspect", "tree", "resume", "stop"} /\ caller.cmd # "ps"
    BY DEF SdkMethods
  <2> QED BY <1>8, <2>2, <2>5, <2>6, <2>7 DEF EndsTruly
<1>9. CASE caller.token /\ TheProject \in d.registered /\ d.flow
  <2>1. outcome = Shows(shown) /\ a.body = rows
    BY <1>5, <1>6, <1>9 DEF Is
  <2>2. shown = {n \in d.nodes : caller.cmd = "nodes" => n \notin d.finished}
    <3> DEFINE row(n) == <<n, n \in d.finished>>
    <3>1. \A n : row(n)[1] = n /\ (row(n)[2] <=> n \in d.finished)
      OBVIOUS
    <3>2. a.body = {row(n) : n \in d.nodes}
      BY <2>1
    <3> HIDE DEF row
    <3>3. ASSUME NEW n \in d.nodes, caller.cmd = "nodes" => n \notin d.finished
          PROVE  n \in shown
      <4>1. row(n) \in Got(u, "nodes").body /\ (u.cmd = "nodes" => ~row(n)[2])
        BY <1>2, <1>3, <3>1, <3>2, <3>3
      <4> QED BY <3>1, <4>1 DEF NodesNamed
    <3>4. ASSUME NEW n \in shown
          PROVE  n \in d.nodes /\ (caller.cmd = "nodes" => n \notin d.finished)
      <4>1. PICK m \in Got(u, "nodes").body : n = m[1] /\ (u.cmd = "nodes" => ~m[2])
        BY DEF NodesNamed
      <4>2. PICK k \in d.nodes : m = row(k)
        BY <1>2, <3>2, <4>1
      <4> QED BY <1>3, <3>1, <4>1, <4>2
    <3> HIDE DEF shown
    <3> QED BY <3>3, <3>4
  <2> HIDE DEF shown, rows
  <2>3. outcome.exit = 0 /\ outcome.of = shown
    BY <2>1, ShowsIs
  <2>4. shown \subseteq d.nodes /\ d.nodes \subseteq GraphNodes
    BY <1>2, <2>2, SeenIs
  <2>5. Listed = OfKind("node", shown)
    <3>1. shown \cap GraphNodes = shown
      BY <2>4
    <3> QED BY <2>3, <3>1 DEF Listed
  <2>6. Listed \subseteq during.ever
    BY <1>2, <1>9, <2>4, <2>5, SeenIs DEF OfKind
  <2>7. \A n : <<"node", n>> \in during.always => n \in d.nodes
    BY <1>2, SeenIs
  <2>8. during.always \cap OfKind("node", GraphNodes \ apiHost.finished) \subseteq Listed
    <3>1. d.finished \subseteq apiHost.finished
      BY <1>2, SeenIs
    <3> QED BY <2>2, <2>5, <2>7, <3>1 DEF OfKind
  <2>9. during.always \cap Lists \subseteq Listed
    <3>1. caller.cmd = "nodes" => Lists = {}
      BY DEF Lists
    <3>2. caller.cmd = "nodes --all" => Lists = OfKind("node", GraphNodes)
      BY DEF Lists
    <3>3. caller.cmd = "nodes --all" => shown = d.nodes
      BY <2>2
    <3> QED BY <2>5, <2>7, <3>1, <3>2, <3>3 DEF OfKind
  <2>10. "no workflow" \notin outcome.of
    BY <2>3, <2>4, NamesAre
  <2>11. outcome.exit # 1
    <3>1. outcome.exit = 0
      BY <2>3
    <3> QED BY ONLY <3>1
  <2>12. caller.cmd \notin SdkMethods /\ caller.cmd \notin {"inspect", "tree", "resume", "stop"} /\ caller.cmd # "ps"
    BY DEF SdkMethods
  <2> QED BY <1>9, <2>6, <2>8, <2>9, <2>10, <2>11, <2>12 DEF EndsTruly
<1>10. d.flow \in BOOLEAN
  BY <1>2, SeenIs
<1> QED BY <1>4, <1>7, <1>8, <1>9, <1>10

LEMMA TreeEndsTruly ==
  ASSUME HasEnded, NEW u, IsUser(u), caller.cmd \in {"tree", "tree --json"}
  PROVE  EndsTruly
<1>1. ReadsOf(caller.cmd) = "workflow" /\ caller.cmd \in Readers
  BY DEF ReadsOf, Readers, ClientMethods
<1>2a. PICK d \in Hosts : \E r :
        /\ Seen(d) /\ Asks(r, TheProject, "workflow") /\ Got(u, "workflow") = Serve(d, r, caller.token)
  BY <1>1, ReadIsAnswered
<1>2. PICK r :
        /\ d \in Hosts
        /\ Seen(d) /\ Asks(r, TheProject, "workflow") /\ Got(u, "workflow") = Serve(d, r, caller.token)
  BY <1>2a
<1>3. outcome = TreeOutcome(u) /\ u.cmd = caller.cmd
  BY OutcomeIs DEF IsUser
<1> DEFINE a == Serve(d, r, caller.token)
<1>4. caller.token \in BOOLEAN /\ TheProject \in ApiProjects
  BY ArgIs, ApiCallsAssumption
<1>5. WorkflowAnswer(a, d, TheProject, caller.token)
  BY <1>2, <1>4, ServesWorkflow
<1> HIDE DEF a
<1>6. outcome = IF a.status = 200 /\ caller.cmd = "tree --json" THEN Shows({"workflow"}) ELSE GivesUp
  BY <1>2, <1>3 DEF TreeOutcome, a
<1>7. CASE a.status = 200 /\ caller.cmd = "tree --json"
  <2>1. outcome = Shows({"workflow"})
    BY <1>6, <1>7
  <2>2. Listed = OfKind("node", {"workflow"} \cap GraphNodes) /\ Lists = {}
    BY <1>7, <2>1, ShowsIs DEF Listed, Lists
  <2>3. Listed = {}
    BY <2>2, NamesAre DEF OfKind
  <2>4. caller.token
    <3>0. a.status = 200
      BY <1>7
    <3>1. a.status # 401
      BY ONLY <3>0
    <3> QED BY <1>4, <1>5, <3>1 DEF WorkflowAnswer, Is
  <2> QED BY <1>7, <2>1, <2>2, <2>3, <2>4, ShowsTruly DEF SdkMethods
<1>8. CASE ~(a.status = 200 /\ caller.cmd = "tree --json")
  <2>1. outcome = GivesUp
    BY <1>6, <1>8
  <2>2. CASE caller.cmd = "tree"
    BY <2>1, <2>2, GivesUpTruly
  <2>3. CASE caller.cmd = "tree --json"
    <3>1. ~caller.token \/ Bare(d)
      BY <1>4, <1>5, <1>8, <2>3 DEF WorkflowAnswer, Is
    <3>2. ~caller.token \/ during.bare
      BY <1>2, <3>1 DEF Seen
    <3> QED BY <2>1, <2>3, <3>2, GivesUpTruly
  <2> QED BY <2>2, <2>3
<1> QED BY <1>7, <1>8

\* The methods of the SDK.
LEMMA SdkEndsTruly ==
  ASSUME HasEnded, NEW u, IsUser(u), caller.cmd \in SdkMethods
  PROVE  EndsTruly
<1> DEFINE path == SdkReads(caller.cmd)
           r == Gets("", path, "", FALSE)
<1>1. path = (IF caller.cmd = "getWorkflow" THEN "workflow" ELSE IF caller.cmd = "getNodes" THEN "nodes"
              ELSE IF caller.cmd = "getSpecs" THEN "specs" ELSE "health")
  BY DEF SdkReads, SdkMethods
<1>2. caller.cmd \in Commands /\ caller.cmd # "ps"
  BY DEF Commands, SdkMethods
<1>3. FirstCalls(caller) = {r}
  BY <1>2, FirstCallsAre
<1> HIDE DEF path
<1>4. r.call[2] = path
  BY DEF Gets, Request
<1>5. caller.token \in BOOLEAN
  BY ArgIs
<1>6. ASSUME NEW d \in Hosts
      PROVE  LET a == Serve(d, r, caller.token)
             IN  /\ path = "health" => Is(a, 200, {"ok"})
                 /\ path # "health" => Is(a, 401, {}) \/ Is(a, 404, {}) \/ Is(a, 410, {})
                 /\ path = "workflow" => Is(a, 401, {}) \/ Is(a, 410, {})
  <2> DEFINE DaemonAt(p) == Daemon(d, p, caller.token)
  <2>1. /\ Is(DaemonAt("health"), 200, {"ok"}) /\ (Is(DaemonAt("workflow"), 401, {}) \/ Is(DaemonAt("workflow"), 410, {}))
        /\ (Is(DaemonAt("nodes"), 401, {}) \/ Is(DaemonAt("nodes"), 410, {}))
        /\ (Is(DaemonAt("specs"), 401, {}) \/ Is(DaemonAt("specs"), 404, {}))
    BY <1>5, ServesSdk
  <2>2. Serve(d, r, caller.token) = DaemonAt(path)
    BY DEF Daemon
  <2> HIDE DEF DaemonAt, r
  <2>3. CASE path = "health"
    BY <2>1, <2>2, <2>3
  <2>4. CASE path = "workflow"
    <3>1. Serve(d, r, caller.token) = DaemonAt("workflow") /\ path # "health"
      BY <2>2, <2>4
    <3> QED BY <2>1, <3>1
  <2>5. CASE path = "nodes"
    <3>1. Serve(d, r, caller.token) = DaemonAt("nodes") /\ path # "health" /\ path # "workflow"
      BY <2>2, <2>5
    <3> QED BY <2>1, <3>1
  <2>6. CASE path = "specs"
    <3>1. Serve(d, r, caller.token) = DaemonAt("specs") /\ path # "health" /\ path # "workflow"
      BY <2>2, <2>6
    <3> QED BY <2>1, <3>1
  <2> QED BY <1>1, <2>3, <2>4, <2>5, <2>6
<1> HIDE DEF r
<1>7. PICK d \in Hosts :
           /\ Seen(d) /\ OneCallOutcome(u) = Ends1(Serve(d, r, caller.token))
           /\ Got(u, path) = Serve(d, r, caller.token)
  BY <1>2, <1>3, <1>4, SingleCall
<1>8. outcome = SdkOutcome(u) /\ u.cmd = caller.cmd
  BY OutcomeIs DEF IsUser
<1> DEFINE a == Serve(d, r, caller.token)
<1>9. /\ path = "health" => Is(a, 200, {"ok"})
      /\ path # "health" => Is(a, 401, {}) \/ Is(a, 404, {}) \/ Is(a, 410, {})
      /\ path = "workflow" => Is(a, 401, {}) \/ Is(a, 410, {})
  BY <1>6
<1> HIDE DEF a
<1>10. outcome = Ends1(a)
  <2>1. ~(u.cmd = "getWorkflow" /\ Got(u, "workflow").status = 404)
    <3> SUFFICES ASSUME u.cmd = "getWorkflow", Got(u, "workflow").status = 404 PROVE FALSE
      OBVIOUS
    <3>1. path = "workflow"
      BY <1>1, <1>8
    <3>2. a.status = 404
      BY <1>7, <3>1 DEF a
    <3>3. a.status # 401 /\ a.status # 410
      BY ONLY <3>2
    <3> QED BY <1>9, <3>1, <3>3 DEF Is
  <2> QED BY <1>7, <1>8, <2>1 DEF SdkOutcome, a
<1>11. CASE path = "health"
  <2>1. outcome = Shows({"ok"}) /\ caller.cmd = "health"
    BY <1>1, <1>9, <1>10, <1>11, Ends1Is DEF SdkMethods
  <2>2. outcome.exit = 0 /\ outcome.of = {"ok"}
    BY <2>1, ShowsIs
  <2>3. outcome.exit # 1
    <3>1. outcome.exit = 0
      BY <2>2
    <3> QED BY ONLY <3>1
  <2>4. Listed = OfKind("node", {"ok"} \cap GraphNodes) /\ Lists = {}
    BY <2>1, <2>2 DEF Listed, Lists
  <2>5. Listed = {}
    BY <2>4, NamesAre DEF OfKind
  <2> QED BY <2>1, <2>2, <2>3, <2>4, <2>5 DEF EndsTruly
<1>12. CASE path # "health"
  <2>1. outcome = GivesUp
    BY <1>9, <1>10, <1>12, Ends1Is
  <2> QED BY <1>1, <1>12, <2>1, GivesUpTruly
<1> QED BY <1>11, <1>12

\* A message, the log, and the two commands that are refused.
LEMMA OthersEndTruly ==
  ASSUME HasEnded, NEW u, IsUser(u), caller.cmd \in {"logs", "chat", "resume", "stop"}
  PROVE  EndsTruly
<1>1. caller.cmd \in Commands /\ caller.cmd # "ps" /\ caller.token \in BOOLEAN
  BY ArgIs
<1>2. outcome = OneCallOutcome(u)
  BY OutcomeIs DEF IsUser
<1>3. CASE caller.cmd = "logs"
  <2> DEFINE r == Gets(TheProject, "events", "", TRUE)
  <2>1. FirstCalls(caller) = {r}
    BY <1>1, <1>3, FirstCallsAre
  <2>2. Asks(r, TheProject, "events")
    BY DEF Asks, Gets, Request
  <2> HIDE DEF r
  <2>3. PICK d \in Hosts : Seen(d) /\ outcome = Ends1(Serve(d, r, caller.token))
    BY <1>1, <1>2, <2>1, SingleCall
  <2> DEFINE a == Serve(d, r, caller.token)
  <2>4. ReadAnswer(a, d, r, "events", caller.token)
    BY <1>1, <2>2, ServesReads
  <2> HIDE DEF a
  <2>5. /\ ~caller.token => Is(a, 401, {})
        /\ caller.token /\ TheProject \notin d.registered => Is(a, 404, {})
        /\ caller.token /\ TheProject \in d.registered => Is(a, 200, {"entry"})
    BY <2>4 DEF ReadAnswer
  <2>6. CASE caller.token /\ TheProject \in d.registered
    <3>1. outcome = Shows({"entry"})
      BY <2>3, <2>5, <2>6, Ends1Is DEF a
    <3>2. Listed = OfKind("node", {"entry"} \cap GraphNodes) /\ Lists = {}
      BY <1>3, <3>1, ShowsIs DEF Listed, Lists
    <3>3. Listed = {}
      BY <3>2, NamesAre DEF OfKind
    <3> QED BY <1>3, <2>6, <3>1, <3>2, <3>3, ShowsTruly DEF SdkMethods
  <2>7. CASE ~caller.token \/ TheProject \notin d.registered
    <3>1. outcome = GivesUp
      BY <1>1, <2>3, <2>5, <2>7, Ends1Is DEF a
    <3>2. ~caller.token \/ during.bare
      BY <2>3, <2>7, SeenIs
    <3> QED BY <1>3, <3>1, <3>2, GivesUpTruly
  <2> QED BY <1>1, <2>6, <2>7
<1>4. CASE caller.cmd = "chat"
  <2> DEFINE r == MessageAnswer
  <2>1. FirstCalls(caller) = {r}
    BY <1>1, <1>4, FirstCallsAre DEF MessageAnswer
  <2>3. PICK d \in Hosts : Seen(d) /\ outcome = Ends1(Serve(d, r, caller.token))
    BY <1>1, <1>2, <2>1, SingleCall
  <2> DEFINE a == Serve(d, r, caller.token)
  <2>2. ChatAnswer(a, d, caller.token)
    BY <1>1, ServesChat
  <2>4. /\ ~caller.token => Is(a, 401, {})
        /\ caller.token /\ Bare(d) => Is(a, 404, {})
        /\ caller.token /\ ~Bare(d) => Is(a, 200, {"entry"})
    BY <2>2 DEF ChatAnswer
  <2> HIDE DEF a
  <2>5. CASE caller.token /\ ~Bare(d)
    <3>1. outcome = Shows({"entry"})
      BY <2>3, <2>4, <2>5, Ends1Is DEF a
    <3>2. Listed = OfKind("node", {"entry"} \cap GraphNodes) /\ Lists = {}
      BY <1>4, <3>1, ShowsIs DEF Listed, Lists
    <3>3. Listed = {}
      BY <3>2, NamesAre DEF OfKind
    <3> QED BY <1>4, <2>5, <3>1, <3>2, <3>3, ShowsTruly DEF SdkMethods
  <2>6. CASE ~caller.token \/ Bare(d)
    <3>1. outcome = GivesUp
      BY <1>1, <2>3, <2>4, <2>6, Ends1Is DEF a
    <3>2. ~caller.token \/ during.bare
      BY <2>3, <2>6 DEF Seen
    <3> QED BY <1>4, <3>1, <3>2, GivesUpTruly
  <2> QED BY <2>5, <2>6
<1>5. CASE caller.cmd \in {"resume", "stop"}
  <2> DEFINE path == IF caller.cmd = "resume" THEN "workflow/resume" ELSE "workflow/stop"
             r == Bodiless(path)
  <2>1. FirstCalls(caller) = {r}
    BY <1>1, <1>5, FirstCallsAre DEF Bodiless
  <2>2. ASSUME NEW d \in Hosts
        PROVE  Is(Serve(d, r, caller.token), 401, {}) \/ Is(Serve(d, r, caller.token), 400, {})
    <3>1. path \in {"workflow/resume", "workflow/stop"}
      BY <1>5
    <3> HIDE DEF path
    <3> QED BY <1>1, <3>1, ServesBodiless
  <2> HIDE DEF r
  <2>3. PICK d \in Hosts : Seen(d) /\ outcome = Ends1(Serve(d, r, caller.token))
    BY <1>1, <1>2, <2>1, SingleCall
  <2>4. outcome = GivesUp
    BY <2>2, <2>3, Ends1Is
  <2> QED BY <1>5, <2>4, GivesUpTruly
<1> QED BY <1>3, <1>4, <1>5

\* The rows of `loomflo ps`: the projects of the list, with a word on the workflow of each.
LEMMA PsEndsTruly ==
  ASSUME HasEnded, NEW u, IsUser(u), caller.cmd = "ps"
  PROVE  EndsTruly
<1>1. caller.open = {} /\ caller.token \in BOOLEAN
  BY ArgIs DEF HasEnded, ApiInv, CallerInv
<1>2. PICK a \in caller.got :
        /\ a[1] = Gets("", "projects", "", FALSE) /\ Justified(a) /\ Got(caller, "projects") = a[2]
        /\ a[1] \in FirstCalls(caller) /\ \A b \in caller.got : b[1] = a[1] => b = a
  BY <1>1, PsIsAnswered DEF HasEnded
<1>3. u.got = caller.got /\ Got(u, "projects") = a[2]
  BY <1>2 DEF IsUser, Got
<1>4. PICK d \in Hosts : Seen(d) /\ a = <<a[1], Serve(d, a[1], caller.token)>>
  BY <1>2 DEF Justified
<1>5. (~caller.token => Is(a[2], 401, {})) /\ (caller.token => Is(a[2], 200, d.registered))
  <2> DEFINE r == Gets("", "projects", "", FALSE)
  <2>1. Daemon(d, "projects", caller.token) = Serve(d, r, caller.token)
    BY DEF Daemon
  <2>2. a[1] = r
    BY <1>2
  <2> HIDE DEF r
  <2>3. a[2] = Daemon(d, "projects", caller.token)
    BY <1>4, <2>1, <2>2
  <2>4. /\ ~caller.token => Is(Daemon(d, "projects", caller.token), 401, {})
        /\ caller.token => Is(Daemon(d, "projects", caller.token), 200, d.registered)
    BY ONLY <1>1, ServesDaemon
  <2> QED BY <2>3, <2>4
<1> DEFINE word(p) == IF \E b \in u.got : b[1].scope = p /\ b[2].status = 200 THEN "workflow" ELSE "unknown"
           rows == {<<p, word(p)>> : p \in a[2].body}
<1>6. outcome = PsOutcome(u)
  BY OutcomeIs DEF IsUser
<1>7. outcome = IF a[2].status # 200 THEN GivesUp ELSE Shows(rows)
  BY <1>3, <1>6 DEF PsOutcome
<1>8. CASE ~caller.token
  <2>1. a[2].status = 401
    BY <1>5, <1>8 DEF Is
  <2>2. a[2].status # 200
    BY ONLY <2>1
  <2> QED BY <1>7, <1>8, <2>2, GivesUpTruly
<1>9. CASE caller.token
  <2>1. outcome = Shows(rows) /\ a[2].body = d.registered /\ a[2].status = 200
    BY <1>5, <1>7, <1>9 DEF Is
  <2>2. outcome.exit = 0 /\ outcome.of = rows
    BY <2>1, ShowsIs
  <2>3. outcome.exit # 1
    <3>1. outcome.exit = 0
      BY <2>2
    <3> QED BY ONLY <3>1
  <2>4. {row[1] : row \in rows} = d.registered
    <3> HIDE DEF word
    <3>1. \A p : <<p, word(p)>>[1] = p
      OBVIOUS
    <3>2. \A p \in d.registered : <<p, word(p)>> \in rows
      BY <2>1
    <3>3. \A row \in rows : \E p \in d.registered : row = <<p, word(p)>>
      BY <2>1
    <3>4. \A row \in rows : row[1] \in d.registered
      BY <3>1, <3>3
    <3>5. ASSUME NEW p \in d.registered PROVE p \in {row[1] : row \in rows}
      BY <3>1, <3>2
    <3> HIDE DEF rows
    <3> QED BY <3>4, <3>5
  <2>5. Listed = OfKind("project", d.registered) /\ Lists = OfKind("project", ApiProjects)
    BY <2>2, <2>4 DEF Listed, Lists
  <2>6. Listed \subseteq during.ever /\ during.always \cap Lists \subseteq Listed
    <3>1. /\ \A p \in d.registered : <<"project", p>> \in during.ever
          /\ \A p : <<"project", p>> \in during.always => p \in d.registered
      BY <1>4, SeenIs
    <3> QED BY <2>5, <3>1 DEF OfKind
  <2>7. ASSUME NEW row \in rows, row = <<TheProject, "unknown">>
        PROVE  during.bare
    <3>1. PICK p \in d.registered : row = <<p, word(p)>>
      BY <2>1
    <3>2. p = TheProject /\ word(TheProject) = "unknown"
      <4> HIDE DEF word
      <4> QED BY <2>7, <3>1
    <3>3. ~\E b \in u.got : b[1].scope = TheProject /\ b[2].status = 200
      BY <3>2
    <3>4. OfWorkflow(TheProject) \in Answered
      BY <1>1, <1>2, <2>1, <3>1, <3>2 DEF HasEnded, ApiInv, CallerInv
    <3>5. PICK b \in caller.got : b[1] = OfWorkflow(TheProject)
      BY <3>4 DEF Answered
    <3>6. PICK e \in Hosts : Seen(e) /\ b = <<b[1], Serve(e, b[1], caller.token)>>
      BY <3>5 DEF HasEnded, ApiInv, CallerInv, Justified
    <3>7. Asks(OfWorkflow(TheProject), TheProject, "workflow")
      BY DEF Asks, OfWorkflow, Gets, Request
    <3>8. TheProject \in ApiProjects
      BY ApiCallsAssumption
    <3>9. WorkflowAnswer(Serve(e, OfWorkflow(TheProject), caller.token), e, TheProject, caller.token)
      BY <1>1, <3>7, <3>8, ServesWorkflow
    <3>10. b[2] = Serve(e, OfWorkflow(TheProject), caller.token)
      BY <3>5, <3>6
    <3>11. WorkflowAnswer(b[2], e, TheProject, caller.token)
      BY <3>9, <3>10
    <3>12. b[2].status # 200
      <4>1. b[1].scope = TheProject
        BY <3>5, <3>7, AskedIs
      <4> QED BY <1>3, <3>3, <3>5, <4>1
    <3>13. Bare(e)
      BY <1>9, <3>11, <3>12 DEF WorkflowAnswer, Is
    <3> QED BY <3>6, <3>13 DEF Seen
  <2>8. caller.cmd \notin SdkMethods /\ caller.cmd \notin {"inspect", "tree", "resume", "stop"} /\ caller.cmd # "nodes"
    BY DEF SdkMethods
  <2> HIDE DEF rows
  <2> QED BY <1>9, <2>2, <2>3, <2>6, <2>7, <2>8 DEF EndsTruly
<1> QED BY <1>1, <1>8, <1>9

\* `loomflo status`: the three answers are of different moments.
LEMMA StatusEndsTruly ==
  ASSUME HasEnded, NEW u, IsUser(u), caller.cmd = "status"
  PROVE  EndsTruly
<1> DEFINE Req(path) == Gets(TheProject, path, "", TRUE)
           Paths == {"workflow", "costs", "nodes"}
<1>1. caller.cmd \in Commands /\ caller.token \in BOOLEAN /\ caller.open = {}
  BY ArgIs DEF HasEnded, ApiInv, CallerInv
<1>2. Answered = {Req(p) : p \in Paths}
  <2>1. FirstCalls(caller) = {Req(p) : p \in Paths}
    BY <1>1, FirstCallsAre
  <2>2. Answered = FirstCalls(caller)
    BY <1>1 DEF HasEnded, ApiInv, CallerInv
  <2> QED BY <2>1, <2>2
<1>3. \A p : Asks(Req(p), TheProject, p) /\ Req(p).call[2] = p
  BY DEF Asks, Gets, Request
<1> HIDE DEF Req
<1>4. ASSUME NEW path \in Paths
      PROVE  \E d \in Hosts : Seen(d) /\ Got(u, path) = Serve(d, Req(path), caller.token)
  <2>1. PICK a \in caller.got : a[1] = Req(path)
    BY <1>2 DEF Answered
  <2>2. a \in u.got /\ u.got = caller.got
    BY DEF IsUser
  <2>3. \A b \in u.got : b[1].call[2] = path => b = a
    <3> TAKE b \in u.got
    <3>1. PICK p \in Paths : b[1] = Req(p)
      BY <1>2, <2>2 DEF Answered
    <3>2. b[1].call[2] = path => b[1] = a[1]
      BY <1>3, <2>1, <3>1
    <3> QED BY <2>2, <3>2 DEF HasEnded, ApiInv, CallerInv, OneAnswer
  <2>4. Got(u, path) = a[2]
    BY <1>3, <2>1, <2>2, <2>3, GotIs
  <2>5. PICK d \in Hosts : Seen(d) /\ a = <<a[1], Serve(d, a[1], caller.token)>>
    BY DEF HasEnded, ApiInv, CallerInv, Justified
  <2> QED BY <2>1, <2>4, <2>5
<1>5. PICK d \in Hosts : Seen(d) /\ Got(u, "workflow") = Serve(d, Req("workflow"), caller.token)
  BY <1>4
<1>6. PICK e \in Hosts : Seen(e) /\ Got(u, "nodes") = Serve(e, Req("nodes"), caller.token)
  BY <1>4
<1> DEFINE a == Got(u, "workflow")
           b == Got(u, "nodes")
           rows == {<<n, n \in e.finished>> : n \in e.nodes}
           shown == NodesNamed(b.body)
<1>7. WorkflowAnswer(a, d, TheProject, caller.token)
  <2>1. TheProject \in ApiProjects
    BY ApiCallsAssumption
  <2>2. WorkflowAnswer(Serve(d, Req("workflow"), caller.token), d, TheProject, caller.token)
    BY <1>1, <1>3, <2>1, ServesWorkflow
  <2> QED BY <1>5, <2>2
<1>8. ReadAnswer(b, e, Req("nodes"), "nodes", caller.token)
  BY <1>1, <1>3, <1>6, ServesReads
<1> HIDE DEF a, b
<1>9. /\ ~caller.token => Is(a, 401, {})
      /\ caller.token => IF Bare(d) THEN Is(a, 404, {}) ELSE Is(a, 200, {"workflow"})
  BY <1>7 DEF WorkflowAnswer
<1>10. /\ ~caller.token => b.body = {}
       /\ caller.token /\ (TheProject \notin e.registered \/ ~e.flow) => b.body = {}
       /\ caller.token /\ TheProject \in e.registered /\ e.flow => b.body = rows
  BY <1>8 DEF ReadAnswer, Is
<1>11. outcome = StatusOutcome(u)
  BY OutcomeIs DEF IsUser
<1>12. /\ a.status = 200 => outcome = Shows({"workflow"} \cup shown)
       /\ a.status # 200 /\ a.status = 404 => outcome = Shows({"no workflow"})
       /\ a.status # 200 /\ a.status # 404 => outcome = GivesUp
  <2>1. Got(u, "workflow").status = 200 => StatusOutcome(u) = Shows({"workflow"} \cup NodesNamed(Got(u, "nodes").body))
    BY ONLY TRUE DEF StatusOutcome
  <2>2. Got(u, "workflow").status # 200 /\ Got(u, "workflow").status = 404 => StatusOutcome(u) = Shows({"no workflow"})
    BY ONLY TRUE DEF StatusOutcome
  <2>3. Got(u, "workflow").status # 200 /\ Got(u, "workflow").status # 404 => StatusOutcome(u) = GivesUp
    BY ONLY TRUE DEF StatusOutcome
  <2> QED BY <1>11, <2>1, <2>2, <2>3 DEF a, b
<1>13. shown = IF caller.token /\ TheProject \in e.registered /\ e.flow THEN e.nodes ELSE {}
  <2>1. CASE caller.token /\ TheProject \in e.registered /\ e.flow
    <3> DEFINE row(n) == <<n, n \in e.finished>>
    <3>1. \A n : row(n)[1] = n
      OBVIOUS
    <3>2. b.body = {row(n) : n \in e.nodes}
      BY <1>10, <2>1
    <3> HIDE DEF row
    <3>3. ASSUME NEW n \in e.nodes PROVE n \in shown
      BY <3>1, <3>2 DEF NodesNamed
    <3>4. ASSUME NEW n \in shown PROVE n \in e.nodes
      BY <3>1, <3>2 DEF NodesNamed
    <3> HIDE DEF shown
    <3> QED BY <2>1, <3>3, <3>4
  <2>2. CASE ~(caller.token /\ TheProject \in e.registered /\ e.flow)
    <3>1. b.body = {}
      BY <1>1, <1>10, <2>2
    <3> QED BY <2>2, <3>1 DEF NodesNamed
  <2> QED BY <2>1, <2>2
<1> HIDE DEF shown, rows
<1>14. shown \subseteq GraphNodes
  BY <1>6, <1>13, SeenIs
<1>15. Lists = OfKind("node", GraphNodes) /\ Listed = OfKind("node", outcome.of \cap GraphNodes)
  BY DEF Lists, Listed
<1>16. caller.cmd \notin SdkMethods /\ caller.cmd \notin {"inspect", "tree", "resume", "stop"}
       /\ caller.cmd \notin {"ps", "nodes"}
  BY DEF SdkMethods
<1>17. CASE ~caller.token
  <2>1. a.status = 401
    BY <1>9, <1>17 DEF Is
  <2>2. a.status # 200 /\ a.status # 404
    BY ONLY <2>1
  <2> QED BY <1>12, <1>17, <2>2, GivesUpTruly
<1>18. CASE caller.token /\ Bare(d)
  <2>1. a.status = 404
    BY <1>9, <1>18 DEF Is
  <2>2. a.status # 200
    BY ONLY <2>1
  <2>3. outcome = Shows({"no workflow"}) /\ during.bare
    BY <1>5, <1>12, <1>18, <2>1, <2>2 DEF Seen
  <2>4. outcome.of \cap GraphNodes = {}
    BY <2>3, ShowsIs, NamesAre
  <2>5. Listed = {}
    BY <1>15, <2>4 DEF OfKind
  <2>6. \A n : <<"node", n>> \notin during.always
    BY <1>5, <1>18, SeenIs DEF Bare
  <2>7. during.always \cap Lists = {}
    BY <1>15, <2>6 DEF OfKind
  <2> QED BY <1>16, <1>18, <2>3, <2>5, <2>7, ShowsTruly
<1>19. CASE caller.token /\ ~Bare(d)
  <2>1. outcome = Shows({"workflow"} \cup shown)
    BY <1>9, <1>12, <1>19 DEF Is
  <2>2. outcome.of \cap GraphNodes = shown
    <3>1. "workflow" \notin GraphNodes
      BY NamesAre
    <3>2. outcome.of = {"workflow"} \cup shown
      BY <2>1, ShowsIs
    <3> QED BY <1>14, <3>1, <3>2
  <2>3. Listed = OfKind("node", shown)
    BY <1>15, <2>2
  <2>4. Listed \subseteq during.ever
    BY <1>6, <1>13, <2>3, SeenIs DEF OfKind
  <2>5. \A n : <<"node", n>> \in during.always => n \in shown
    BY <1>6, <1>13, <1>19, SeenIs
  <2>6. during.always \cap Lists \subseteq Listed
    BY <1>15, <2>3, <2>5 DEF OfKind
  <2>7. "no workflow" \notin {"workflow"} \cup shown
    BY <1>14, NamesAre
  <2> QED BY <1>16, <1>19, <2>1, <2>4, <2>6, <2>7, ShowsTruly
<1> QED BY <1>1, <1>17, <1>18, <1>19

\* The status of every answer.
HttpStatuses == {200, 400, 401, 404, 410}
LEMMA StatusIs ==
  ASSUME NEW a, NEW body, Is(a, 200, body) \/ Is(a, 400, body) \/ Is(a, 401, body) \/ Is(a, 404, body) \/ Is(a, 410, body)
  PROVE  a.status \in HttpStatuses
BY DEF Is, HttpStatuses

LEMMA ReadStatusIs ==
  ASSUME NEW d \in Hosts, NEW token \in BOOLEAN, NEW r,
         NEW path \in {"nodes", "nodes/:id", "nodes/:id/review", "costs", "specs", "specs/:name", "events",
                       "memory", "memory/:name"}, Asks(r, TheProject, path)
  PROVE  Serve(d, r, token).status \in HttpStatuses
<1> DEFINE a == Serve(d, r, token)
<1>1. ReadAnswer(a, d, r, path, token)
  BY ServesReads
<1>2. d.flow \in BOOLEAN
  BY DEF Hosts
<1> HIDE DEF a
<1>3. \A S : IsFound(a, r.arg, S) => Is(a, 200, {r.arg}) \/ Is(a, 404, {})
  BY DEF IsFound
<1>4. \E body : Is(a, 200, body) \/ Is(a, 401, body) \/ Is(a, 404, body)
  <2>1. CASE path \in {"nodes", "specs", "costs", "memory", "events"}
    BY <1>1, <1>2, <2>1 DEF ReadAnswer
  <2>2. CASE path \in {"nodes/:id", "nodes/:id/review", "specs/:name", "memory/:name"}
    BY <1>1, <1>2, <1>3, <2>2 DEF ReadAnswer
  <2> QED BY <2>1, <2>2
<1>5. a.status \in HttpStatuses
  BY <1>4, StatusIs
<1> QED BY <1>5 DEF a

LEMMA WorkflowStatusIs ==
  ASSUME NEW d \in Hosts, NEW p \in ApiProjects, NEW r, Asks(r, p, "workflow"), NEW token \in BOOLEAN
  PROVE  Serve(d, r, token).status \in HttpStatuses
<1> DEFINE a == Serve(d, r, token)
<1>1. WorkflowAnswer(a, d, p, token)
  BY ServesWorkflow
<1> HIDE DEF a
<1>2. \E body : Is(a, 200, body) \/ Is(a, 401, body) \/ Is(a, 404, body)
  BY <1>1 DEF WorkflowAnswer
<1>3. a.status \in HttpStatuses
  BY <1>2, StatusIs
<1> QED BY <1>3 DEF a

LEMMA PostStatusIs ==
  ASSUME NEW d \in Hosts, NEW token \in BOOLEAN
  PROVE  /\ Serve(d, MessageAnswer, token).status \in HttpStatuses
         /\ \A path \in {"workflow/resume", "workflow/stop"} : Serve(d, Bodiless(path), token).status \in HttpStatuses
<1>1. Serve(d, MessageAnswer, token).status \in HttpStatuses
  <2> DEFINE a == Serve(d, MessageAnswer, token)
  <2>1. ChatAnswer(a, d, token)
    BY ServesChat
  <2> HIDE DEF a
  <2>2. \E body : Is(a, 200, body) \/ Is(a, 401, body) \/ Is(a, 404, body)
    BY <2>1 DEF ChatAnswer
  <2>3. a.status \in HttpStatuses
    BY <2>2, StatusIs
  <2> QED BY <2>3 DEF a
<1>2. ASSUME NEW path \in {"workflow/resume", "workflow/stop"}
      PROVE  Serve(d, Bodiless(path), token).status \in HttpStatuses
  BY ServesBodiless, StatusIs
<1> QED BY <1>1, <1>2

LEMMA DaemonStatusIs ==
  ASSUME NEW d \in Hosts, NEW token \in BOOLEAN, NEW path \in {"projects", "workflow", "nodes", "specs", "health"}
  PROVE  Daemon(d, path, token).status \in HttpStatuses
<1>1. CASE path = "projects"
  <2>1. Is(Daemon(d, path, token), 401, {}) \/ Is(Daemon(d, path, token), 200, d.registered)
    BY <1>1, ServesProjects
  <2> QED BY <2>1, StatusIs
<1>2. CASE path # "projects"
  <2>1. /\ Is(Daemon(d, "health", token), 200, {"ok"})
        /\ (Is(Daemon(d, "workflow", token), 401, {}) \/ Is(Daemon(d, "workflow", token), 410, {}))
        /\ (Is(Daemon(d, "nodes", token), 401, {}) \/ Is(Daemon(d, "nodes", token), 410, {}))
        /\ (Is(Daemon(d, "specs", token), 401, {}) \/ Is(Daemon(d, "specs", token), 404, {}))
    BY ServesSdk
  <2>2. CASE path = "health"
    BY <2>1, <2>2, StatusIs
  <2>3. CASE path = "workflow"
    BY <2>1, <2>3, StatusIs
  <2>4. CASE path = "nodes"
    BY <2>1, <2>4, StatusIs
  <2>5. CASE path = "specs"
    BY <2>1, <2>5, StatusIs
  <2> QED BY <1>2, <2>2, <2>3, <2>4, <2>5
<1> QED BY <1>1, <1>2

LEMMA GotStatusIs ==
  ASSUME ApiInv, NEW a \in caller.got
  PROVE  a[2].status \in HttpStatuses
<1>1. caller.pc # "idle"
  <2>1. NoUser.got = {}
    BY DEF NoUser
  <2> QED BY <2>1 DEF ApiInv, CallerInv
<1>2. caller.cmd \in Commands /\ caller.token \in BOOLEAN
  BY <1>1 DEF ApiInv, CallerInv
<1>3. PICK d \in Hosts : a = <<a[1], Serve(d, a[1], caller.token)>>
  BY DEF ApiInv, CallerInv, Justified
<1> DEFINE r == a[1]
<1>4. a[2] = Serve(d, r, caller.token)
  BY <1>3
<1>5. r \in FirstCalls(caller) \/ r \in FollowUps
  <2>1. r \in Answered
    BY DEF Answered
  <2> HIDE DEF r
  <2> QED BY <1>1, <2>1 DEF ApiInv, CallerInv
<1> HIDE DEF r
<1>6. CASE r \in FollowUps
  <2>1. PICK p \in ApiProjects : r = OfWorkflow(p)
    BY <1>6 DEF FollowUps
  <2>2. Asks(r, p, "workflow")
    BY <2>1 DEF Asks, OfWorkflow, Gets, Request
  <2> QED BY <1>2, <1>4, <2>2, WorkflowStatusIs
<1>7. CASE r \in FirstCalls(caller) /\ caller.cmd \in Readers
  <2> DEFINE path == ReadsOf(caller.cmd)
  <2>1. Asks(r, TheProject, path)
    <3>1. \E x : r = Gets(TheProject, path, x, FALSE)
      BY <1>2, <1>7, FirstCallsAre
    <3> HIDE DEF path
    <3> QED BY <3>1 DEF Asks, Gets, Request
  <2>2. path \in {"nodes", "nodes/:id", "nodes/:id/review", "specs", "specs/:name", "memory", "memory/:name"}
        \/ path = "workflow"
    BY <1>7 DEF ReadsOf, Readers, ClientMethods
  <2>3. TheProject \in ApiProjects
    BY ApiCallsAssumption
  <2> HIDE DEF path
  <2>4. CASE path = "workflow"
    BY <1>2, <1>4, <2>1, <2>3, <2>4, WorkflowStatusIs
  <2>5. CASE path # "workflow"
    BY <1>2, <1>4, <2>1, <2>2, <2>5, ReadStatusIs
  <2> QED BY <2>4, <2>5
<1>8. CASE r \in FirstCalls(caller) /\ caller.cmd \in {"status", "logs"}
  <2> DEFINE Req(p) == Gets(TheProject, p, "", TRUE)
  <2>0. \A p : Asks(Req(p), TheProject, p)
    BY DEF Asks, Gets, Request
  <2>1. /\ caller.cmd = "status" => FirstCalls(caller) = {Req(p) : p \in {"workflow", "costs", "nodes"}}
        /\ caller.cmd = "logs" => FirstCalls(caller) = {Req("events")}
    BY <1>2, FirstCallsAre
  <2> HIDE DEF Req
  <2>2. PICK path \in {"workflow", "costs", "nodes", "events"} : Asks(r, TheProject, path)
    BY <1>8, <2>0, <2>1
  <2>3. TheProject \in ApiProjects
    BY ApiCallsAssumption
  <2>4. CASE path = "workflow"
    BY <1>2, <1>4, <2>2, <2>3, <2>4, WorkflowStatusIs
  <2>5. CASE path # "workflow"
    BY <1>2, <1>4, <2>2, <2>5, ReadStatusIs
  <2> QED BY <2>4, <2>5
<1>9. CASE r \in FirstCalls(caller) /\ caller.cmd \in {"ps"} \cup SdkMethods
  <2> DEFINE path == IF caller.cmd = "ps" THEN "projects" ELSE SdkReads(caller.cmd)
  <2>1. path \in {"projects", "workflow", "nodes", "specs", "health"}
    BY <1>9 DEF SdkMethods, SdkReads
  <2>2. r = Gets("", path, "", FALSE)
    <3> DEFINE req == Gets("", path, "", FALSE)
    <3>1. CASE caller.cmd = "ps"
      <4>1. FirstCalls(caller) = {req}
        BY <1>2, <3>1, FirstCallsAre
      <4> HIDE DEF req
      <4> QED BY <1>9, <4>1 DEF req
    <3>2. CASE caller.cmd \in SdkMethods
      <4>1. caller.cmd # "ps"
        BY <3>2 DEF SdkMethods
      <4>2. FirstCalls(caller) = {req}
        BY <1>2, <3>2, <4>1, FirstCallsAre
      <4> HIDE DEF req
      <4> QED BY <1>9, <4>2 DEF req
    <3> QED BY <1>9, <3>1, <3>2
  <2> HIDE DEF path
  <2>3. Serve(d, r, caller.token) = Daemon(d, path, caller.token)
    BY <2>2 DEF Daemon
  <2> QED BY <1>2, <1>4, <2>1, <2>3, DaemonStatusIs
<1>10. CASE r \in FirstCalls(caller) /\ caller.cmd = "chat"
  <2>1. r = MessageAnswer
    <3>1. FirstCalls(caller) = {MessageAnswer}
      BY <1>2, <1>10, FirstCallsAre DEF MessageAnswer
    <3> QED BY <1>10, <3>1
  <2> QED BY <1>2, <1>4, <2>1, PostStatusIs
<1>11. CASE r \in FirstCalls(caller) /\ caller.cmd \in {"resume", "stop"}
  <2>1. \E path \in {"workflow/resume", "workflow/stop"} : r = Bodiless(path)
    BY <1>2, <1>11, FirstCallsAre DEF Bodiless
  <2> QED BY <1>2, <1>4, <2>1, PostStatusIs
<1> QED BY <1>2, <1>5, <1>6, <1>7, <1>8, <1>9, <1>10, <1>11 DEF Commands, CliCommands, Readers

LEMMA ExitIs ==
  ASSUME NEW u, u.cmd \in Commands
  PROVE  Outcome(u).exit \in {0, 1}
<1>1. \A of : Shows(of).exit \in {0, 1}
  BY ShowsIs
<1>2. GivesUp.exit \in {0, 1}
  BY ShowsIs
<1>3. OneCallOutcome(u).exit \in {0, 1}
  BY <1>1, <1>2 DEF OneCallOutcome
<1>4. /\ StatusOutcome(u).exit \in {0, 1} /\ NodesOutcome(u).exit \in {0, 1} /\ InspectOutcome(u).exit \in {0, 1}
      /\ TreeOutcome(u).exit \in {0, 1} /\ PsOutcome(u).exit \in {0, 1} /\ SdkOutcome(u).exit \in {0, 1}
  BY <1>1, <1>2, <1>3 DEF StatusOutcome, NodesOutcome, InspectOutcome, TreeOutcome, PsOutcome, SdkOutcome
<1> QED BY <1>3, <1>4, OutcomeIs DEF Commands, CliCommands

LEMMA ApiInvImplies == ApiInv => ApiTypeOK /\ CallersAreAnswered
<1> SUFFICES ASSUME ApiInv PROVE ApiTypeOK /\ CallersAreAnswered
  OBVIOUS
<1>1. ASSUME caller.pc = "done"
      PROVE  EndsTruly
  <2>1. HasEnded /\ caller.cmd \in Commands
    BY <1>1, ArgIs DEF HasEnded
  <2>2. PICK u : IsUser(u)
    BY <1>1 DEF ApiInv, CallerInv, IsUser
  <2> QED BY <2>1, <2>2, SpecsEndTruly, MemoryEndsTruly, ReviewEndsTruly, InspectEndsTruly, NodesEndTruly,
             TreeEndsTruly, SdkEndsTruly, OthersEndTruly, PsEndsTruly, StatusEndsTruly
          DEF Commands, CliCommands, ClientMethods
<1>2. CallersAreAnswered
  <2> SUFFICES ASSUME caller.pc = "done" PROVE EndsTruly
    BY ZenonT(30) DEF CallersAreAnswered, EndsTruly
  <2> QED BY <1>1
<1>3. outcome.exit \in {0, 1}
  <2>1. CASE caller.pc = "done"
    <3>1. PICK u : u.cmd = caller.cmd /\ outcome = Outcome(u)
      BY <2>1 DEF ApiInv, CallerInv
    <3>2. caller.cmd \in Commands
      BY <2>1 DEF ApiInv, CallerInv
    <3> QED BY <3>1, <3>2, ExitIs
  <2>2. CASE caller.pc # "done"
    BY <2>2, ShowsIs DEF ApiInv, CallerInv
  <2> QED BY <2>1, <2>2
<1>4. \A a \in caller.got : a[2].status \in {200, 400, 401, 404, 410}
  BY GotStatusIs DEF HttpStatuses
<1>5. caller.cmd \in {"none"} \cup Commands
  <2>1. NoUser.cmd = "none"
    BY DEF NoUser
  <2> QED BY <2>1 DEF ApiInv, CallerInv
<1>6. ApiTypeOK
  BY <1>3, <1>4, <1>5 DEF ApiTypeOK, ApiInv, HostInv, CallerInv, Hosts, Commands
<1> QED BY <1>2, <1>6

\* Whatever changes while a command waits: what it shows was there, what it leaves out was not there
\* all the time, and it fails only for a reason (the CLI's commands, observation/api.ts, the sdk's
\* client.ts and the routes they call).
THEOREM CallersAreAnsweredHolds == ApiSpec => [](ApiTypeOK /\ CallersAreAnswered)
<1> QED BY ApiInvInit, ApiInvStep, ApiInvImplies, PTL DEF ApiSpec

=============================================================================
