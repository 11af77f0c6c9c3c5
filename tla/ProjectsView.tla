---------------------------- MODULE ProjectsView ----------------------------
(***************************************************************************)
(* The page of the projects (dashboard pages/ProjectsPage.tsx) over the    *)
(* list of ProjectStoreContext.tsx: its cards, the switcher, the command   *)
(* palette and the toasts, while the list changes under them.  A choice    *)
(* leads to another page, which is loaded when first needed: until it is   *)
(* there this one stays, and may be used.  How refreshes of the list       *)
(* overlap is ProjectList's; here one is a step.                           *)
(***************************************************************************)
EXTENDS Naturals, Sequences, FiniteSets, SequencesExt

CONSTANTS
  CardIds,        \* projects there may be
  StoreModes,     \* of "daemon", with a token; "mock", fixtures; "offline", localStorage
  MaxListChanges, \* bound: changes of the list
  MaxVisits       \* bound: choices

ASSUME ViewAssumption ==
  /\ IsFiniteSet(CardIds) /\ MaxListChanges \in Nat /\ MaxVisits \in Nat
  /\ CardIds \cap {"none", "all", "nothing", "actions", "new-project", "toggle-theme",
                   "workflow", "brainstorm", "settings"} = {}

VARIABLES
  store,    \* [mode, list (in the order shown), meta (workflowStatus by project, in localStorage)]
  palette,  \* [open, query, idx (0 is none)]
  choice,   \* [active (setActiveProjectId), to (the page being loaded)]
  away,     \* the page shown instead: [page, id], ThisPage when this one is
  notice,   \* [text (0: none), timers (those pending)]
  aim,      \* history: [item (the last highlighted one the user saw), moved (the list has changed since)]
  ran,      \* history: what Enter ran last: [item, aim]
  listChanges, visits

viewVars == <<store, palette, choice, away, notice, aim, ran, listChanges, visits>>

Nobody == "none"
ThisPage == [page |-> Nobody, id |-> Nobody]
NoItem == [kind |-> Nobody, id |-> Nobody]
Item(kind, id) == [kind |-> kind, id |-> id]

-----------------------------------------------------------------------------
\* What the list is made of.  GET /projects says "idle" of every project, whose rt.status nothing
\* changes; the fixtures say nothing; the wizard leaves "init" with what it makes.
SummaryStatus(mode) == CASE mode = "daemon" -> "idle" [] OTHER -> "absent"
WorkflowStatusFromSummary(s) ==
  CASE s = "running" -> "running" [] s = "blocked" -> "paused" [] s = "failed" -> "failed"
    [] s = "completed" -> "done" [] OTHER -> "init"
SummaryToUi(st, p) ==
  IF st.meta[p] # Nobody THEN st.meta[p] ELSE WorkflowStatusFromSummary(SummaryStatus(st.mode))

\* The palette's items for a query: "all" matches everything, "nothing" nothing, "actions" the
\* actions, and a project's id its own.
Queries == {"all", "nothing", "actions"} \cup CardIds
Matches(query, item) ==
  \/ query = "all" \/ query = item.id
  \/ query = "actions" /\ item.kind = "action"
\* What filter() keeps: the elements at some places, in their order.
AtPlaces(s, places) ==
  [j \in 1 .. Cardinality(places) |-> s[CHOOSE i \in places : Cardinality({k \in places : k <= i}) = j]]
ProjectItems(st) == [i \in DOMAIN st.list |-> Item("project", st.list[i])]
ActionItems == <<Item("action", "new-project"), Item("action", "toggle-theme")>>
NavItems(active) == IF active = Nobody THEN <<>>
                    ELSE <<Item("nav", "workflow"), Item("nav", "brainstorm"), Item("nav", "settings")>>
RecentItems(st) ==
  LET running == AtPlaces(st.list, {i \in DOMAIN st.list : SummaryToUi(st, st.list[i]) = "running"}) IN
  [i \in 1 .. (IF Len(running) > 3 THEN 3 ELSE Len(running)) |-> Item("recent", running[i])]
Section(items, query) == AtPlaces(items, {i \in DOMAIN items : Matches(query, items[i])})
ItemsOf(st, active, query) ==
  Section(ProjectItems(st), query) \o Section(ActionItems, query)
    \o Section(NavItems(active), query) \o Section(RecentItems(st), query)
Items == ItemsOf(store, choice.active, palette.query)

Highlighted(p, items) == IF p.idx \in DOMAIN items THEN items[p.idx] ELSE NoItem

PaletteClosed == [open |-> FALSE, query |-> "all", idx |-> 1]  \* opened, it starts anew
NoAim == [item |-> NoItem, moved |-> FALSE]
NothingRun == [item |-> NoItem, aim |-> NoItem, moved |-> FALSE]

\* The effect: an index past the end goes back to the first.  One before the first stays.
Clamp(p, items) == IF p.idx > Len(items) THEN [p EXCEPT !.idx = 1] ELSE p

\* The items change while the index stays where it was.
ItemsShift(items) ==
  /\ palette' = Clamp(palette, items)
  /\ aim' = [aim EXCEPT !.moved = palette.open /\ (@ \/ items # Items)]
Here == away = ThisPage

-----------------------------------------------------------------------------
ViewTypeOK ==
  /\ store.mode \in StoreModes /\ store.list \in Seq(CardIds)
  /\ palette.open \in BOOLEAN /\ palette.idx \in Nat
  /\ choice.active \in CardIds \cup {Nobody}
  /\ notice.timers \in 0 .. 2 /\ notice.text \in 0 .. 2
  /\ listChanges \in 0 .. MaxListChanges /\ visits \in 0 .. MaxVisits

Mounted ==
  /\ palette = PaletteClosed
  /\ choice = [active |-> Nobody, to |-> ThisPage]
  /\ notice = [text |-> 0, timers |-> 0] /\ away = ThisPage
  /\ aim = NoAim

ViewInit ==
  /\ store \in [mode : StoreModes, list : {<<>>, SetToSeq(CardIds)}, meta : [CardIds -> {Nobody}]]
  /\ Mounted /\ ran = NothingRun
  /\ listChanges = 0 /\ visits = 0

\* A refresh brings what other clients have made, or deleted.  The index stays where it was.
ListChanges(list) ==
  /\ store.mode = "daemon" /\ listChanges < MaxListChanges /\ listChanges' = listChanges + 1
  /\ list # store.list /\ store' = [store EXCEPT !.list = list]
  /\ ItemsShift(ItemsOf(store', choice.active, palette.query))
  /\ UNCHANGED <<choice, away, notice, ran, visits>>

-----------------------------------------------------------------------------
\* The palette: the key toggles it, the button of the top bar opens it.  Opened, it starts anew.
MovesTo(p) ==
  LET items == ItemsOf(store, choice.active, p.query) IN
  /\ Here
  /\ palette' = Clamp(p, items)
  /\ aim' = [item |-> Highlighted(palette', items), moved |-> FALSE]
  /\ ran' = NothingRun
  /\ UNCHANGED <<store, choice, away, notice, listChanges, visits>>

PaletteKey ==
  IF ~palette.open THEN MovesTo([PaletteClosed EXCEPT !.open = TRUE])
  ELSE /\ Here /\ palette' = PaletteClosed /\ aim' = NoAim
       /\ UNCHANGED <<store, choice, away, notice, ran, listChanges, visits>>
TypesQuery(query) ==
  palette.open /\ query # palette.query /\ MovesTo([palette EXCEPT !.query = query])
ArrowDown ==
  /\ palette.open
  /\ MovesTo([palette EXCEPT !.idx = IF @ < Len(Items) THEN @ + 1 ELSE Len(Items)])
ArrowUp == palette.open /\ MovesTo([palette EXCEPT !.idx = IF @ > 1 THEN @ - 1 ELSE 1])
Hover(i) == palette.open /\ i \in DOMAIN Items /\ MovesTo([palette EXCEPT !.idx = i])

\* goToProject: a project that has not begun leads to its brainstorm.
Destination(p) == [page |-> IF SummaryToUi(store, p) = "init" THEN "brainstorm" ELSE "workflow", id |-> p]
Chooses == visits < MaxVisits /\ visits' = visits + 1
GoToProject(p) == choice' = [active |-> p, to |-> Destination(p)]

\* handleAction.
RunsAction(item) ==
  CASE item.kind \in {"project", "recent"} -> GoToProject(item.id)
    [] item = Item("action", "new-project") -> choice' = [choice EXCEPT !.to = [page |-> "wizard", id |-> Nobody]]
    [] item = Item("action", "toggle-theme") -> UNCHANGED choice
    [] item.kind = "nav" -> choice' = [choice EXCEPT !.to = [page |-> item.id, id |-> choice.active]]

\* Enter, and a click, which the mouse's entering precedes: the item is run, the palette closed.
EnterRuns == Highlighted(palette, Items)
Enter ==
  /\ Here /\ palette.open /\ Highlighted(palette, Items) # NoItem
  /\ Chooses /\ RunsAction(EnterRuns)
  /\ ran' = [item |-> EnterRuns, aim |-> aim.item, moved |-> aim.moved]
  /\ palette' = PaletteClosed /\ aim' = NoAim
  /\ UNCHANGED <<store, away, notice, listChanges>>

\* A card, or the switcher, which lists eight of the projects whose name contains its query.
OpensCard(p) ==
  /\ Here /\ p \in ToSet(store.list) /\ Chooses /\ GoToProject(p)
  /\ UNCHANGED <<store, palette, away, notice, aim, ran, listChanges>>
AllProjects ==
  /\ Here /\ choice.active # Nobody /\ choice' = [choice EXCEPT !.active = Nobody]
  /\ ItemsShift(ItemsOf(store, Nobody, palette.query))
  /\ UNCHANGED <<store, away, notice, ran, listChanges, visits>>

\* "Reset mock": offline the list is emptied, otherwise read again; and a toast.
ResetMock ==
  /\ Here /\ store.list # <<>> /\ notice.timers < 2
  /\ store' = [store EXCEPT !.list = IF store.mode = "offline" THEN <<>> ELSE @]
  /\ notice' = [text |-> notice.timers + 1, timers |-> notice.timers + 1]
  /\ ItemsShift(ItemsOf(store', choice.active, palette.query))
  /\ UNCHANGED <<choice, away, ran, listChanges, visits>>
\* showToast's timer takes down whichever is shown.
ToastAfter == 0
ToastTimer ==
  /\ notice.timers > 0 /\ Here
  /\ notice' = [text |-> ToastAfter, timers |-> notice.timers - 1]
  /\ UNCHANGED <<store, palette, choice, away, aim, ran, listChanges, visits>>

-----------------------------------------------------------------------------
\* The page chosen last is there.
Arrives ==
  /\ Here /\ choice.to # ThisPage
  /\ away' = choice.to
  /\ palette' = PaletteClosed /\ aim' = NoAim
  /\ UNCHANGED <<store, choice, notice, ran, listChanges, visits>>

\* create(), for the wizard: the daemon lists it last, the others first.
MadeByWizard(p) ==
  [store EXCEPT !.meta[p] = "init",
                !.list = IF store.mode = "daemon" THEN Append(@, p) ELSE <<p>> \o @]
ComesBack ==
  /\ ~Here
  /\ \/ store' = store
     \/ away.page = "wizard" /\ \E p \in CardIds \ ToSet(store.list) : store' = MadeByWizard(p)
  /\ palette' = PaletteClosed
  /\ choice' = [active |-> Nobody, to |-> ThisPage] /\ away' = ThisPage
  /\ notice' = [text |-> 0, timers |-> 0] /\ aim' = NoAim
  /\ UNCHANGED <<ran, listChanges, visits>>

ViewNext ==
  \/ PaletteKey \/ ArrowDown \/ ArrowUp \/ Enter \/ AllProjects \/ ResetMock \/ ToastTimer
  \/ Arrives \/ ComesBack
  \/ \E i \in DOMAIN store.list : ListChanges(RemoveAt(store.list, i))
  \/ \E p \in CardIds : \/ OpensCard(p)
                        \/ p \notin ToSet(store.list) /\ ListChanges(Append(store.list, p))
  \/ \E query \in Queries : TypesQuery(query)
  \/ \E i \in 1 .. Len(Items) : Hover(i)

ViewSpec == ViewInit /\ [][ViewNext]_viewVars

-----------------------------------------------------------------------------
\* What Enter runs is what the user last saw highlighted, unless the list has changed since: the
\* palette remembers a place, not an item.  While there are items one is highlighted, unless the
\* arrow was pressed when there were none.  A toast never stays.  No project is ever shown to be
\* under way, so opening one always leads to its brainstorm and the palette never offers to jump
\* to an active node, whatever the daemon is doing.
ViewIsTrue ==
  /\ ran.moved \/ ran.item = ran.aim
  /\ palette.open /\ Items # <<>> => palette.idx \in DOMAIN Items \cup {0}
  /\ notice.text # 0 => notice.timers > 0
  /\ \A p \in ToSet(store.list) : Destination(p).page = "brainstorm"
  /\ RecentItems(store) = <<>>

=============================================================================
