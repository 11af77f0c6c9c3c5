---------------------------- MODULE WorkflowPages ----------------------------
(***************************************************************************)
(* The page of a workflow and the page of one of its nodes (WorkflowPage   *)
(* and NodeDetailPage of the dashboard): the buttons that start, pause and *)
(* resume the workflow, the live log lines of the node (useNode), and the  *)
(* drawer of events, read again 250 ms after the last event that came over *)
(* the WebSocket (useEvents). The page that is open is an instance:        *)
(* leaving it and coming back makes another. What becomes of the workflow  *)
(* itself is in WorkflowService.                                           *)
(*                                                                         *)
(* The conversation beside the workflow: useChat (dashboard/src/hooks),    *)
(* the LoomChatPanel that shows its messages, thinks while Loom does and   *)
(* types the answer out, and the daemon's history behind POST /chat and    *)
(* GET /chat/history. The panel is the one WorkflowPage makes: its         *)
(* messages are useChat's, and everything the user writes goes to the      *)
(* daemon. A message is a number. The chat_response event is left out:     *)
(* nothing in the daemon sends it.                                         *)
(***************************************************************************)
EXTENDS Naturals, Sequences, FiniteSets

LOCAL INSTANCE NodeLifecycle

CONSTANTS
  PageNodes,   \* the nodes a page can be about
  LineLimit,   \* SESSION_EVENT_LIMIT, 200 in the code
  DrawerLimit, \* the limit of the overview's call to GET /events, 200 in the code
  MaxPages,    \* bound on the pages opened
  MaxClicks,   \* bound on the buttons pressed
  MaxEmits,    \* bound on the events of runtime sessions
  MaxLogged    \* bound on the entries of the events' file

\* slice(-(LIMIT - 1)) keeps everything when LIMIT is 1.
ASSUME LimitAssumption == LineLimit \in Nat /\ LineLimit > 1

NoPage == "no page"
Overview == "workflow"
ASSUME PagesAssumption == {NoPage, Overview} \cap PageNodes = {}
ASSUME PageBounds == {DrawerLimit, MaxPages, MaxClicks, MaxEmits, MaxLogged} \subseteq Nat

Actions == {"start", "pause", "resume"}
Clicks == 1 .. MaxClicks
Emits == 1 .. MaxEmits

VARIABLES
  onPage,      \* the page that is open
  nthPage,     \* pages opened so far, the open one the last of them
  wfStatus,    \* the daemon's workflow
  seen,        \* the status useWorkflow has loaded, in a set that is empty before
  pressed,     \* each button pressed: the instance, the action and where its call is
  actionPending,
  actionError, \* WorkflowPage's message
  toasts,      \* NodeDetailPage: timers that clear the toast
  toast,       \* ... and whether it shows
  emitted,     \* the node of each event of a session, in order
  delivered,   \* events the browser has got
  lines,       \* sessionEvents of the page
  logged,      \* entries of the events' file
  due,         \* whether timerRef is set
  reads,       \* calls to GET /events on their way: what they saw, once they are answered
  drawer,      \* what the drawer shows, in a set that is empty before
  loggedThen,  \* history: entries of the file when the last event came to the page
  stalerLog    \* history: an answer came after one that had seen more

pageVars == <<onPage, nthPage, wfStatus, seen, pressed, actionPending, actionError, toasts, toast,
              emitted, delivered, lines, logged, due, reads, drawer, loggedThen, stalerLog>>

buttonVars == <<wfStatus, seen, pressed, actionPending, actionError, toasts, toast>>
eventVars == <<emitted, delivered, lines, logged, due, reads, drawer, loggedThen, stalerLog>>

Unpressed == [on |-> 0, action |-> "none", at |-> "none"]
Unread == [on |-> 0, at |-> "none", saw |-> 0]

WorkflowPagesTypeOK ==
  /\ onPage \in {NoPage, Overview} \cup PageNodes
  /\ nthPage \in 0 .. MaxPages
  /\ wfStatus \in {"building", "running", "paused"}
  /\ seen \subseteq {"building", "running", "paused"} /\ Cardinality(seen) <= 1
  /\ \A c \in Clicks : /\ pressed[c].on \in 0 .. nthPage
                       /\ pressed[c].action \in Actions \cup {"none"}
                       /\ pressed[c].at \in {"none", "asked", "done", "refused", "over"}
  /\ actionPending \in Actions \cup {"none"}
  /\ {actionError, toast, due} \subseteq BOOLEAN
  /\ toasts \in 0 .. MaxClicks
  /\ emitted \in Seq(PageNodes) /\ delivered \in 0 .. Len(emitted)
  /\ lines \in Seq(Emits) /\ Len(lines) <= LineLimit
  /\ logged \in 0 .. MaxLogged
  /\ \A r \in DOMAIN reads : reads[r].at \in {"none", "asked", "answered"} /\ reads[r].saw <= logged
  /\ drawer \subseteq 0 .. logged /\ Cardinality(drawer) <= 1
  /\ loggedThen \in 0 .. logged /\ stalerLog \in BOOLEAN

WorkflowPagesInit ==
  /\ onPage = NoPage /\ nthPage = 0
  /\ wfStatus = "building" /\ seen = {}
  /\ pressed = [c \in Clicks |-> Unpressed]
  /\ actionPending = "none" /\ actionError = FALSE /\ toasts = 0 /\ toast = FALSE
  /\ emitted = <<>> /\ delivered = 0 /\ lines = <<>>
  /\ logged = 0 /\ due = FALSE
  /\ reads = [r \in 1 .. 2 |-> Unread] /\ drawer = {}
  /\ loggedThen = 0 /\ stalerLog = FALSE

-----------------------------------------------------------------------------
(* Opening and leaving                                                     *)

\* refresh of useEvents' resource.
ReadsLog(r) == reads[r].at = "none" /\ reads' = [reads EXCEPT ![r] = [on |-> nthPage', at |-> "asked", saw |-> 0]]

\* A page mounts: useWorkflow loads the workflow, and useEvents, on the overview, the events.
OpenPage(p) ==
  /\ onPage = NoPage /\ nthPage < MaxPages
  /\ onPage' = p /\ nthPage' = nthPage + 1
  /\ seen' = {wfStatus}
  /\ IF p = Overview THEN \E r \in DOMAIN reads : ReadsLog(r) ELSE UNCHANGED reads
  /\ UNCHANGED <<wfStatus, pressed, actionPending, actionError, toasts, toast,
                 emitted, delivered, lines, logged, due, drawer, loggedThen, stalerLog>>

\* It unmounts: its state goes, its timer is cleared, its calls go on.
LeavePage ==
  /\ onPage # NoPage /\ onPage' = NoPage
  /\ seen' = {} /\ actionPending' = "none" /\ actionError' = FALSE
  /\ toasts' = 0 /\ toast' = FALSE
  /\ lines' = <<>> /\ due' = FALSE /\ drawer' = {} /\ loggedThen' = 0 /\ stalerLog' = FALSE
  /\ UNCHANGED <<nthPage, wfStatus, pressed, emitted, delivered, logged, reads>>

-----------------------------------------------------------------------------
(* The buttons                                                             *)

\* The one button of the overview, by the status it has loaded.
OverviewButton(status) ==
  CASE status = "building" -> "start"
    [] status = "paused"   -> "resume"
    [] OTHER               -> "pause"

\* toUiStatus, as the page of a node has it ...
NodeUi(s) ==
  CASE s \in {"running", "review"} -> "running"
    [] s \in {"failed", "failed_provider_exhausted"} -> "failed"
    [] s \in {"waiting", "waiting_for_provider"} -> "waiting"
    [] OTHER -> s

\* ... and as the overview has it, to which a blocked node has failed.
OverviewUi(s) == IF s = "blocked" THEN "failed" ELSE NodeUi(s)

\* The footer's button, by the status of the node, whatever the workflow does.
FooterButtons(s) ==
  CASE NodeUi(s) = "running" -> {"pause"}
    [] NodeUi(s) = "done"    -> {}
    [] OTHER                 -> {"resume"}

Enabled == actionPending = "none"

\* onStart, onPause, onResume of WorkflowPage, and onAction of NodeDetailPage.
Press(c, a) ==
  /\ Enabled
  /\ pressed[c].at = "none" /\ \A b \in 1 .. c - 1 : pressed[b].at # "none"
  /\ \/ onPage = Overview /\ \E s \in seen : a = OverviewButton(s)
     \/ onPage \in PageNodes /\ \E s \in NodeStatus : a \in FooterButtons(s)
  /\ pressed' = [pressed EXCEPT ![c] = [on |-> nthPage, action |-> a, at |-> "asked"]]
  /\ actionPending' = a
  /\ actionError' = FALSE
  /\ UNCHANGED <<onPage, nthPage, wfStatus, seen, toasts, toast, eventVars>>

\* The daemon: start leaves building, pause running, and resume takes a workflow that is paused
\* or runs already.
Accepts(a) ==
  CASE a = "start"  -> wfStatus = "building"
    [] a = "pause"  -> wfStatus = "running"
    [] a = "resume" -> wfStatus \in {"paused", "running"}

HandleAction(c) ==
  /\ pressed[c].at = "asked"
  /\ IF Accepts(pressed[c].action)
     THEN /\ pressed' = [pressed EXCEPT ![c].at = "done"]
          /\ wfStatus' = IF pressed[c].action = "pause" THEN "paused" ELSE "running"
     ELSE /\ pressed' = [pressed EXCEPT ![c].at = "refused"]
          /\ UNCHANGED wfStatus
  /\ UNCHANGED <<onPage, nthPage, seen, actionPending, actionError, toasts, toast, eventVars>>

\* The call is answered.  The overview keeps the status it has loaded, and tells of a refusal;
\* the node's page shows a toast of 2400 ms either way.
Settled(c) ==
  /\ pressed[c].at \in {"done", "refused"}
  /\ pressed' = [pressed EXCEPT ![c].at = "over"]
  /\ IF pressed[c].on = nthPage /\ onPage # NoPage
     THEN /\ actionPending' = "none"
          /\ IF onPage = Overview
             THEN actionError' = (actionError \/ pressed[c].at = "refused") /\ UNCHANGED <<toasts, toast>>
             ELSE toasts' = toasts + 1 /\ toast' = TRUE /\ UNCHANGED actionError
     ELSE UNCHANGED <<actionPending, actionError, toasts, toast>>
  /\ UNCHANGED <<onPage, nthPage, wfStatus, seen, eventVars>>

\* A timer clears the toast, whichever toast that is by now.
ToastEnds ==
  /\ toasts > 0
  /\ toasts' = toasts - 1 /\ toast' = FALSE
  /\ UNCHANGED <<onPage, nthPage, wfStatus, seen, pressed, actionPending, actionError, eventVars>>

-----------------------------------------------------------------------------
(* Events                                                                  *)

\* A runtime session emits, and the daemon tells every page.
SessionEmits(n) ==
  /\ Len(emitted) < MaxEmits
  /\ emitted' = Append(emitted, n)
  /\ UNCHANGED <<onPage, nthPage, delivered, lines, logged, due, reads, drawer, loggedThen, stalerLog, buttonVars>>

\* The engine logs an event of its own.
LogEvent ==
  /\ logged < MaxLogged
  /\ logged' = logged + 1
  /\ UNCHANGED <<onPage, nthPage, emitted, delivered, lines, due, reads, drawer, loggedThen, stalerLog, buttonVars>>

Kept(s) == SubSeq(s, IF Len(s) < LineLimit THEN 1 ELSE Len(s) - LineLimit + 2, Len(s))

\* The WebSocket's event: a line of the page of its node, and the overview's timer anew.
Deliver ==
  /\ delivered < Len(emitted)
  /\ delivered' = delivered + 1
  /\ lines' = IF onPage = emitted[delivered'] THEN Append(Kept(lines), delivered') ELSE lines
  /\ due' = (due \/ onPage = Overview)
  /\ loggedThen' = IF onPage = Overview THEN logged ELSE loggedThen
  /\ UNCHANGED <<onPage, nthPage, emitted, logged, reads, drawer, stalerLog, buttonVars>>

\* The 250 ms are over.
DebounceEnds(r) ==
  /\ due /\ due' = FALSE
  /\ nthPage' = nthPage /\ ReadsLog(r)
  /\ UNCHANGED <<onPage, emitted, delivered, lines, logged, drawer, loggedThen, stalerLog, buttonVars>>

FirstOf(n) == IF n < DrawerLimit THEN n ELSE DrawerLimit

\* GET /events, oldest first: beyond the limit the overview's answer stays the same.
LogRead(r) ==
  /\ reads[r].at = "asked"
  /\ reads' = [reads EXCEPT ![r] = [@ EXCEPT !.at = "answered", !.saw = FirstOf(logged)]]
  /\ UNCHANGED <<onPage, nthPage, emitted, delivered, lines, logged, due, drawer, loggedThen, stalerLog, buttonVars>>

\* The answer replaces the entries, unless the page is gone.
LogLoaded(r) ==
  /\ reads[r].at = "answered"
  /\ reads' = [reads EXCEPT ![r] = Unread]
  /\ drawer' = IF onPage = Overview /\ reads[r].on = nthPage THEN {reads[r].saw} ELSE drawer
  /\ stalerLog' = (stalerLog \/ \E v \in drawer', u \in drawer : v < u)
  /\ UNCHANGED <<onPage, nthPage, emitted, delivered, lines, logged, due, loggedThen, buttonVars>>

-----------------------------------------------------------------------------
(* The picture of the graph                                                *)

\* layoutGraph: the column of a node is one more than the last of its parents'.
Column(g) ==
  LET rank[n \in g.nodes] ==
        LET before == {rank[e[1]] : e \in {x \in g.edges : x[2] = n}}
        IN  IF before = {} THEN 0 ELSE 1 + CHOOSE r \in before : \A q \in before : q <= r
  IN  rank

Moves == LeavePage \/ \E p \in {Overview} \cup PageNodes : OpenPage(p)

ButtonsNext ==
  \/ Moves \/ ToastEnds
  \/ \E c \in Clicks : HandleAction(c) \/ Settled(c) \/ \E a \in Actions : Press(c, a)

EventsNext ==
  \/ Moves \/ LogEvent \/ Deliver
  \/ \E n \in PageNodes : SessionEmits(n)
  \/ \E r \in DOMAIN reads : DebounceEnds(r) \/ LogRead(r) \/ LogLoaded(r)

WorkflowPagesSpec == WorkflowPagesInit /\ [][ButtonsNext \/ EventsNext]_pageVars

-----------------------------------------------------------------------------
\* One page never has two of its calls under way, and its buttons are off exactly while it has
\* one: a double click sends nothing twice.
OneCallPerPage ==
  onPage # NoPage =>
    LET mine == {c \in Clicks : pressed[c].on = nthPage /\ pressed[c].at \in {"asked", "done", "refused"}}
    IN  Cardinality(mine) = IF actionPending = "none" THEN 0 ELSE 1

\* A toast that shows has a timer that will clear it.
ToastsEnd == toast => toasts > 0

\* The page of a node shows the last of its session's lines, in order, each once, and nothing of
\* another node's.
LinesAreTheLast ==
  onPage \in PageNodes =>
    /\ \A i \in DOMAIN lines : emitted[lines[i]] = onPage /\ lines[i] <= delivered
    /\ \A i, j \in DOMAIN lines : i < j => lines[i] < lines[j]
    /\ \A e \in 1 .. delivered :
         (emitted[e] = onPage /\ lines # <<>> /\ e > lines[1]) => \E i \in DOMAIN lines : lines[i] = e

\* Once the timer and the calls are quiet, the drawer of events shows all that was logged when
\* the last event came, as far as its limit goes, unless an older answer has overtaken a newer one.
DrawerCatchesUp ==
  (onPage = Overview /\ ~due /\ (\A r \in DOMAIN reads : reads[r].at = "none") /\ ~stalerLog)
    => \A v \in drawer : v >= FirstOf(loggedThen)

WorkflowPagesAreTrue == OneCallPerPage /\ ToastsEnd /\ LinesAreTheLast /\ DrawerCatchesUp

-----------------------------------------------------------------------------
(* The chat beside the workflow                                            *)

CONSTANT ChatActs  \* bound on the times the page is opened and the messages written, together

ASSUME PanelAssumption == ChatActs \in Nat \ {0}

Messages == 1 .. ChatActs - 1
Visits == 1 .. ChatActs - 1
Entries == [by : {"user", "loom"}, of : Messages]
User(m) == [by |-> "user", of |-> m]
Loom(m) == [by |-> "loom", of |-> m]

VARIABLES
  nthVisit,    \* times the page was opened
  here,        \* ... and it still is
  told,        \* history of the daemon's runtime state
  said,        \* messages of useChat
  post,        \* each POST /chat: where it is, and the visit that sent it
  load,        \* the GET /chat/history of each visit
  sending,     \* useChat's flag
  loomThinks,  \* "Loom réfléchit"
  typing,      \* replies with an interval that types them out
  bubble,      \* streamingId, 0 for null
  late         \* history: visits whose history was answered after the user had written

panelVars == <<nthVisit, here, told, said, post, load, sending, loomThinks, typing, bubble, late>>

Said == Cardinality({m \in Messages : post[m].at # "unsaid"})

PanelTypeOK ==
  /\ nthVisit \in 0 .. ChatActs
  /\ {here, sending, loomThinks} \subseteq BOOLEAN
  /\ told \in Seq(Entries) /\ said \in Seq(Entries)
  /\ post \in [Messages -> [at : {"unsaid", "asked", "heard", "answered", "refused", "shown"},
                            visit : 0 .. ChatActs]]
  /\ \A v \in Visits : /\ load[v].at \in {"none", "asked", "answered", "over"}
                       /\ load[v].saw \in Seq(Entries)
  /\ typing \subseteq Messages
  /\ bubble \in {0} \cup typing
  /\ late \subseteq Visits

PanelInit ==
  /\ nthVisit = 0 /\ here = FALSE
  /\ told = <<>> /\ said = <<>>
  /\ post = [m \in Messages |-> [at |-> "unsaid", visit |-> 0]]
  /\ load = [v \in Visits |-> [at |-> "none", saw |-> <<>>]]
  /\ sending = FALSE /\ loomThinks = FALSE
  /\ typing = {} /\ bubble = 0
  /\ late = {}

-----------------------------------------------------------------------------
(* The page                                                                *)

\* The page mounts: nothing said, and refresh asks for the history.
OpenChat ==
  /\ ~here /\ nthVisit + 1 \in Visits /\ nthVisit + Said < ChatActs
  /\ here' = TRUE /\ nthVisit' = nthVisit + 1
  /\ load' = [load EXCEPT ![nthVisit'].at = "asked"]
  /\ UNCHANGED <<told, said, post, sending, loomThinks, typing, bubble, late>>

\* It unmounts, and its state is gone; what it has asked is not taken back.
LeaveChat ==
  /\ here /\ here' = FALSE
  /\ said' = <<>> /\ sending' = FALSE /\ loomThinks' = FALSE
  /\ typing' = {} /\ bubble' = 0
  /\ UNCHANGED <<nthVisit, told, post, load, late>>

\* submit: nothing keeps the user from writing again before the answer.
UserWrites(m) ==
  /\ here /\ m = Said + 1 /\ nthVisit + Said < ChatActs
  /\ said' = Append(said, User(m))
  /\ post' = [post EXCEPT ![m] = [at |-> "asked", visit |-> nthVisit]]
  /\ sending' = TRUE /\ loomThinks' = TRUE
  /\ UNCHANGED <<nthVisit, here, told, load, typing, bubble, late>>

\* The promise of onSendMessage settles: the answer, or what went wrong, is typed out.  Only an
\* answer joins the messages; a page that was left shows nothing.
ReplyShown(m) ==
  /\ post[m].at \in {"answered", "refused"}
  /\ post' = [post EXCEPT ![m].at = "shown"]
  /\ IF here /\ post[m].visit = nthVisit
     THEN /\ said' = IF post[m].at = "answered" THEN Append(said, Loom(m)) ELSE said
          /\ sending' = FALSE /\ loomThinks' = FALSE
          /\ typing' = typing \cup {m} /\ bubble' = m
     ELSE UNCHANGED <<said, sending, loomThinks, typing, bubble>>
  /\ UNCHANGED <<nthVisit, here, told, load, late>>

\* The interval has typed the last character.
TypedOut(m) ==
  /\ here /\ m \in typing
  /\ typing' = typing \ {m} /\ bubble' = 0
  /\ UNCHANGED <<nthVisit, here, told, said, post, load, sending, loomThinks, late>>


\* refresh has its answer, and the messages are the daemon's.
HistoryLoaded(v) ==
  /\ load[v].at = "answered"
  /\ load' = [load EXCEPT ![v].at = "over"]
  /\ said' = IF here /\ v = nthVisit THEN load[v].saw ELSE said
  /\ late' = IF \E m \in Messages : post[m].visit = v THEN late \cup {v} ELSE late
  /\ UNCHANGED <<nthVisit, here, told, post, sending, loomThinks, typing, bubble>>

\* ... or fails, and they stay.
HistoryFails(v) ==
  /\ load[v].at = "asked"
  /\ load' = [load EXCEPT ![v].at = "over"]
  /\ late' = late \cup {v}
  /\ UNCHANGED <<nthVisit, here, told, said, post, sending, loomThinks, typing, bubble>>

-----------------------------------------------------------------------------
(* The daemon                                                              *)

\* POST /chat: the user's message joins the history at once ...
Heard(m) ==
  /\ post[m].at = "asked"
  /\ told' = Append(told, User(m))
  /\ post' = [post EXCEPT ![m].at = "heard"]
  /\ UNCHANGED <<nthVisit, here, said, load, sending, loomThinks, typing, bubble, late>>

\* ... and Loom's answer once there is one; storing the graph it changed may still fail the call.
ChatAnswered(m) ==
  /\ post[m].at = "heard"
  /\ told' = Append(told, Loom(m))
  /\ \E at \in {"answered", "refused"} : post' = [post EXCEPT ![m].at = at]
  /\ UNCHANGED <<nthVisit, here, said, load, sending, loomThinks, typing, bubble, late>>

\* The daemon is away, or Loom throws.
Unanswered(m) ==
  /\ post[m].at \in {"asked", "heard"}
  /\ post' = [post EXCEPT ![m].at = "refused"]
  /\ UNCHANGED <<nthVisit, here, told, said, load, sending, loomThinks, typing, bubble, late>>

HistoryRead(v) ==
  /\ load[v].at = "asked"
  /\ load' = [load EXCEPT ![v] = [at |-> "answered", saw |-> told]]
  /\ UNCHANGED <<nthVisit, here, told, said, post, sending, loomThinks, typing, bubble, late>>

PanelNext ==
  \/ OpenChat \/ LeaveChat
  \/ \E m \in Messages : \/ UserWrites(m) \/ ReplyShown(m) \/ TypedOut(m)
                         \/ Heard(m) \/ ChatAnswered(m) \/ Unanswered(m)
  \/ \E v \in Visits : HistoryLoaded(v) \/ HistoryFails(v) \/ HistoryRead(v)

PanelSpec == PanelInit /\ [][PanelNext]_panelVars

-----------------------------------------------------------------------------
InFlight(m) == post[m].at \in {"asked", "heard", "answered", "refused"}
Times(e, s) == Cardinality({i \in DOMAIN s : s[i] = e})

\* What is said on a page that had its history before the user wrote is on it once: the message
\* whatever became of it, the answer as soon as it is there.
ShownOnce ==
  \A m \in Messages :
    (here /\ post[m].visit = nthVisit /\ nthVisit \notin late /\ load[nthVisit].at = "over")
      => /\ Times(User(m), said) = 1
         /\ Times(Loom(m), said) <= Times(Loom(m), told)

\* What was said before a visit, and was over when its history was read, is in it once: nothing
\* is lost by going away.
EarlierIsShown ==
  \A m \in Messages :
    (/\ here /\ load[nthVisit].at = "over" /\ nthVisit \notin late /\ post[m].at = "shown"
     /\ post[m].visit \in 1 .. nthVisit - 1 /\ User(m) \in {load[nthVisit].saw[i] : i \in DOMAIN load[nthVisit].saw})
      => /\ Times(User(m), said) = 1
         /\ Times(Loom(m), said) = Times(Loom(m), load[nthVisit].saw)

\* Loom thinks for nobody: the flags are set only while a message of this visit has no answer,
\* and a bubble that is typed has an interval that ends it.
NobodyWaitsForNothing ==
  /\ here /\ (loomThinks \/ sending) => \E m \in Messages : InFlight(m) /\ post[m].visit = nthVisit
  /\ bubble # 0 => bubble \in typing

PanelIsTrue == ShownOnce /\ EarlierIsShown /\ NobodyWaitsForNothing

=============================================================================
