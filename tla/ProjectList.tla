---------------------------- MODULE ProjectList ----------------------------
(***************************************************************************)
(* The list of projects the dashboard keeps (dashboard context/            *)
(* ProjectStoreContext.tsx): refresh, on mount and on events of the        *)
(* daemon, create and remove.  The calls of one page overlap; each leaves  *)
(* with a list, and what it broadcasts replaces what is shown.  The daemon *)
(* tells nobody of the projects other clients make and delete.             *)
(***************************************************************************)
EXTENDS Naturals, FiniteSets

CONSTANTS
  ProjectIds,
  Calls,      \* refreshes that may be under way together
  MaxAsked,   \* bound on the refreshes
  MaxOthers   \* bound on what other clients change

Seed == "seed"  \* what localStorage has, shown when the daemon cannot be asked
ASSUME ListAssumption ==
  Seed \notin ProjectIds /\ Seed \notin Calls /\ MaxAsked \in Nat /\ MaxOthers \in Nat

VARIABLES
  there,     \* the projects of the daemon
  listed,    \* projects, the state of the provider
  listAge,   \* when what is listed was asked for
  refreshesAsked,     \* the refreshes so far
  refreshes, \* each refresh: its step, when it was asked for, and the daemon's answer
  making,    \* create(): [step, id, call], call the refresh it waits for
  removing,  \* remove(): [id, list, age], the list being the one its closure has
  metaOf,    \* the projects with metadata in localStorage
  others,    \* changes by other clients so far
  openable,  \* history: the projects create() has returned, and nobody has deleted since
  overtaken, \* history: an older list has replaced a newer one, or a removal ended during a refresh
  callFailed     \* history: a refresh has failed, or a change was not answered

shownVars == <<listed, listAge, overtaken>>
daemonVars == <<there, others>>
refreshVars == <<refreshesAsked, refreshes>>
listVars == <<shownVars, daemonVars, refreshVars, making, removing, metaOf, openable, callFailed>>

NoRefresh == [step |-> "none", age |-> 0, list |-> {}]
NotMaking == [step |-> "none", id |-> Seed, call |-> Seed]
NotRemoving == [id |-> Seed, list |-> {}, age |-> 0]

ListTypeOK ==
  /\ there \subseteq ProjectIds /\ openable \subseteq ProjectIds /\ metaOf \subseteq ProjectIds
  /\ listed \subseteq ProjectIds \cup {Seed}
  /\ refreshesAsked \in 0 .. MaxAsked /\ listAge \in 0 .. MaxAsked /\ others \in 0 .. MaxOthers
  /\ refreshes \in [Calls -> [step : {"none", "asked", "answered"}, age : 0 .. MaxAsked,
                              list : SUBSET ProjectIds]]
  /\ making \in [step : {"none", "posting", "listing"}, id : ProjectIds \cup {Seed},
                 call : Calls \cup {Seed}]
  /\ removing \in [id : ProjectIds \cup {Seed}, list : SUBSET (ProjectIds \cup {Seed}),
                   age : 0 .. MaxAsked]
  /\ overtaken \in BOOLEAN /\ callFailed \in BOOLEAN

ListInit ==
  /\ there = {} /\ listed = {} /\ listAge = 0 /\ refreshesAsked = 0
  /\ refreshes = [c \in Calls |-> NoRefresh]
  /\ making = NotMaking /\ removing = NotRemoving
  /\ metaOf = {} /\ others = 0 /\ openable = {}
  /\ overtaken = FALSE /\ callFailed = FALSE

\* broadcast.
Broadcast(list, age, crossing) ==
  /\ listed' = list /\ listAge' = age
  /\ overtaken' = (overtaken \/ age < listAge \/ crossing)

Begins(c) ==
  /\ refreshes[c] = NoRefresh /\ refreshesAsked < MaxAsked
  /\ refreshesAsked' = refreshesAsked + 1
  /\ refreshes' = [refreshes EXCEPT ![c].step = "asked", ![c].age = refreshesAsked + 1]

-----------------------------------------------------------------------------
\* refresh(): the mount, and graph_modified, runtime_session_started, node_status.
Refreshes(c) ==
  /\ Begins(c)
  /\ UNCHANGED <<making, removing, metaOf, openable, callFailed, shownVars, daemonVars>>

\* The daemon answers GET /projects.
DaemonAnswers(c) ==
  /\ refreshes[c].step = "asked"
  /\ refreshes' = [refreshes EXCEPT ![c].step = "answered", ![c].list = there]
  /\ UNCHANGED <<refreshesAsked, making, removing, metaOf, openable, callFailed, shownVars,
                 daemonVars>>

\* create() returns with the refresh it has waited for, whatever came of it.
Returns(c) ==
  IF making.step = "listing" /\ making.call = c
  THEN making' = NotMaking /\ openable' = openable \cup ({making.id} \cap there)
  ELSE UNCHANGED <<making, openable>>

\* The answer arrives and is shown, or the request has failed and the seeds are.
Shows(c) ==
  /\ refreshes[c].step = "answered"
  /\ Broadcast(refreshes[c].list, refreshes[c].age, FALSE)
  /\ Returns(c)
  /\ refreshes' = [refreshes EXCEPT ![c] = NoRefresh]
  /\ UNCHANGED <<refreshesAsked, removing, metaOf, callFailed, daemonVars>>

RefreshFails(c) ==
  /\ refreshes[c].step # "none"
  /\ Broadcast({Seed}, refreshes[c].age, FALSE)
  /\ Returns(c)
  /\ callFailed' = TRUE
  /\ refreshes' = [refreshes EXCEPT ![c] = NoRefresh]
  /\ UNCHANGED <<refreshesAsked, removing, metaOf, daemonVars>>

-----------------------------------------------------------------------------
\* create(): POST /projects under a new id ...
Creates(p) ==
  /\ making = NotMaking /\ p \notin there \cup listed \cup metaOf
  /\ making' = [NotMaking EXCEPT !.step = "posting", !.id = p]
  /\ UNCHANGED <<removing, metaOf, openable, callFailed, shownVars, daemonVars, refreshVars>>

\* ... and when it is acknowledged the metadata, and a refresh asked for only now.
Created(c) ==
  /\ making.step = "posting"
  /\ there' = there \cup {making.id}
  /\ metaOf' = metaOf \cup {making.id}
  /\ Begins(c)
  /\ making' = [making EXCEPT !.step = "listing", !.call = c]
  /\ UNCHANGED <<removing, others, openable, callFailed, shownVars>>

\* The daemon refuses, or its answer is lost: create() throws.
CreateFails(done) ==
  /\ making.step = "posting"
  /\ there' = IF done THEN there \cup {making.id} ELSE there
  /\ making' = NotMaking
  /\ callFailed' = (callFailed \/ done)
  /\ UNCHANGED <<removing, metaOf, others, openable, shownVars, refreshVars>>

\* remove(): DELETE /projects/:id, with the list this render has.
Removes(p) ==
  /\ removing = NotRemoving /\ p \in listed \ {Seed}
  /\ removing' = [id |-> p, list |-> listed, age |-> listAge]
  /\ UNCHANGED <<making, metaOf, openable, callFailed, shownVars, daemonVars, refreshVars>>

WithoutRemoved == removing.list \ {removing.id}

\* The answer, a 404 too, takes the project off the list remove() began with.  So does a
\* request without an answer: its error has no status.
RemoveAnswered(answered) ==
  /\ removing # NotRemoving
  /\ \E reached \in (IF answered THEN {TRUE} ELSE BOOLEAN) :
       /\ there' = IF reached THEN there \ {removing.id} ELSE there
       /\ openable' = IF reached THEN openable \ {removing.id} ELSE openable
  /\ metaOf' = metaOf \ {removing.id}
  /\ Broadcast(WithoutRemoved, removing.age, \E c \in Calls : refreshes[c] # NoRefresh)
  /\ removing' = NotRemoving
  /\ callFailed' = (callFailed \/ ~answered)
  /\ UNCHANGED <<making, others, refreshVars>>

\* Any other status is thrown, and the list is left.
RemoveFails ==
  /\ removing # NotRemoving
  /\ removing' = NotRemoving
  /\ UNCHANGED <<making, metaOf, openable, callFailed, shownVars, daemonVars, refreshVars>>

\* Another client makes, or deletes, a project.
OthersChange(p) ==
  /\ others < MaxOthers /\ others' = others + 1
  /\ p # making.id
  /\ there' = IF p \in there THEN there \ {p} ELSE there \cup {p}
  /\ openable' = openable \ {p}
  /\ UNCHANGED <<making, removing, metaOf, callFailed, shownVars, refreshVars>>

ListNext ==
  \/ \E c \in Calls : Refreshes(c) \/ DaemonAnswers(c) \/ Shows(c) \/ RefreshFails(c) \/ Created(c)
  \/ \E p \in ProjectIds : Creates(p) \/ Removes(p) \/ OthersChange(p)
  \/ \E b \in BOOLEAN : CreateFails(b) \/ RemoveAnswered(b)
  \/ RemoveFails

ListSpec == ListInit /\ [][ListNext]_listVars

-----------------------------------------------------------------------------
\* A project create() has returned, and that is still there, is in the list, so the page it
\* leads to finds it; unless an older list has replaced a newer one, or a call has failed.
CreatedIsListed == overtaken \/ callFailed \/ openable \subseteq listed

\* With nothing under way, no failure and no other client, the list is the daemon's.
QuietListAgrees ==
  /\ others = 0 /\ ~overtaken /\ ~callFailed
  /\ \A c \in Calls : refreshes[c] = NoRefresh
  /\ making = NotMaking /\ removing = NotRemoving
  => listed = there

ListIsKept == CreatedIsListed /\ QuietListAgrees

=============================================================================
