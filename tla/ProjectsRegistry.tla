-------------------------- MODULE ProjectsRegistry --------------------------
(***************************************************************************)
(* The projects a daemon serves: POST and DELETE /projects (routes/        *)
(* projects-crud.ts), registerProject and deregisterProject (daemon.ts),   *)
(* the file projects.json behind them (persistence/projects.ts), and the   *)
(* daemon that dies and loads the file when it starts again.               *)
(*                                                                         *)
(* A step lies between two awaits.  The file is replaced by a rename, so   *)
(* it is whole after a crash; temporary names are taken to be distinct.    *)
(* "Boot" is the request the daemon makes of itself, for each entry.       *)
(***************************************************************************)
EXTENDS FiniteSets, Naturals

CONSTANTS
  Projects,     \* ids
  Requests,     \* HTTP requests that may be under way together
  MaxRequests,  \* bound on the requests made
  MaxDeaths,    \* bound on the times the daemon dies
  Unloadable    \* ids whose provider profile is missing when the daemon starts again

Boot == "boot"
ASSUME RegistryAssumption ==
  /\ Boot \notin Requests \cup Projects /\ Unloadable \subseteq Projects
  /\ MaxRequests \in Nat /\ MaxDeaths \in Nat

VARIABLES
  projects,   \* the daemon's map of runtimes
  registry,   \* the ids in projects.json
  request,    \* each request, and Boot: its step, its project, and the list it has read
  toLoad,     \* entries start() has still to register; {Boot} until it has listed them
  made,       \* requests made
  deaths,
  kept,       \* history: answered 201, and not deleted since
  crossed     \* history: a list was written that another request had changed since it was read,
              \* or two requests for one project, start()'s included, overlapped

regVars == <<projects, registry, request, toLoad, made, deaths, kept, crossed>>

NoRequest == [step |-> "none", id |-> Boot, list |-> {}, stale |-> FALSE]

RegTypeOK ==
  /\ projects \subseteq Projects /\ registry \subseteq Projects /\ kept \subseteq Projects
  /\ request \in [Requests \cup {Boot} ->
       [step : {"none", "preparing", "upserting", "removing", "writingWith", "writingWithout"},
        id : Projects \cup {Boot}, list : SUBSET Projects, stale : BOOLEAN]]
  /\ toLoad \in (SUBSET Projects) \cup {{Boot}}
  /\ made \in 0 .. MaxRequests /\ deaths \in 0 .. MaxDeaths
  /\ crossed \in BOOLEAN

RegInit ==
  /\ projects = {} /\ registry = {} /\ kept = {}
  /\ request = [r \in Requests \cup {Boot} |-> NoRequest]
  /\ toLoad = {}
  /\ made = 0 /\ deaths = 0
  /\ crossed = FALSE

Busy(p) == p \in toLoad \/ \E r \in DOMAIN request : request[r].id = p

Steps(r, step) == request' = [request EXCEPT ![r].step = step]

\* POST: 409 when the project is there.
Post(r, p) ==
  /\ request[r] = NoRequest /\ made < MaxRequests
  /\ p \notin projects
  /\ request' = [request EXCEPT ![r] = [NoRequest EXCEPT !.step = "preparing", !.id = p]]
  /\ made' = made + 1
  /\ crossed' = (crossed \/ Busy(p))
  /\ UNCHANGED <<projects, registry, toLoad, deaths, kept>>

\* registerProject, after the profile and the configuration have been read: the map has the
\* project before the file does.  The read fails for a project of which the profile is gone.
Prepared(r) ==
  /\ request[r].step = "preparing"
  /\ IF r = Boot /\ request[r].id \in Unloadable
     THEN request' = [request EXCEPT ![r] = NoRequest] /\ UNCHANGED projects
     ELSE projects' = projects \cup {request[r].id} /\ Steps(r, "upserting")
  /\ UNCHANGED <<registry, toLoad, made, deaths, kept, crossed>>

\* DELETE: out of the map at once; 404 when it is not there.
Delete(r, p) ==
  /\ request[r] = NoRequest /\ made < MaxRequests
  /\ p \in projects
  /\ projects' = projects \ {p}
  /\ request' = [request EXCEPT ![r] = [NoRequest EXCEPT !.step = "removing", !.id = p]]
  /\ made' = made + 1
  /\ kept' = kept \ {p}
  /\ crossed' = (crossed \/ Busy(p))
  /\ UNCHANGED <<registry, toLoad, deaths>>

\* list() of upsert or remove.
Lists(r) ==
  /\ request[r].step \in {"upserting", "removing"}
  /\ request' = [request EXCEPT
       ![r].step = IF @ = "upserting" THEN "writingWith" ELSE "writingWithout",
       ![r].list = registry]
  /\ UNCHANGED <<projects, registry, toLoad, made, deaths, kept, crossed>>

Upserted_Faulty(list, p) == IF list = {} THEN {p} ELSE list
Upserted(list, p) == list \cup {p}

Removed(list, p) == list \ {p}

\* writeRaw: the temporary file and the rename.  Then the request is answered.
Writes(r) ==
  /\ request[r].step \in {"writingWith", "writingWithout"}
  /\ LET q == request[r] IN
     /\ registry' = IF q.step = "writingWith" THEN Upserted(q.list, q.id)
                                              ELSE Removed(q.list, q.id)
     /\ request' = [s \in DOMAIN request |->
          IF s = r THEN NoRequest
          ELSE [request[s] EXCEPT !.stale = @ \/ request[s].step \in {"writingWith", "writingWithout"}]]
     /\ kept' = IF q.step = "writingWith" /\ r # Boot /\ q.id \in projects
                THEN kept \cup {q.id} ELSE kept
     /\ crossed' = (crossed \/ q.stale)
  /\ UNCHANGED <<projects, toLoad, made, deaths>>

\* The process dies and a new one listens, and may be asked for projects before it has loaded
\* its own.
DaemonDies ==
  /\ deaths < MaxDeaths /\ deaths' = deaths + 1
  /\ projects' = {}
  /\ request' = [r \in DOMAIN request |-> NoRequest]
  /\ toLoad' = {Boot}
  /\ UNCHANGED <<registry, made, kept, crossed>>

\* start(): the persisted list ...
ListsAtStart ==
  /\ toLoad = {Boot}
  /\ toLoad' = registry
  /\ crossed' = (crossed \/ \E r \in DOMAIN request : request[r] # NoRequest)
  /\ UNCHANGED <<projects, registry, request, made, deaths, kept>>

\* ... is registered again, one by one: what is there already is made anew.
LoadsNext ==
  /\ toLoad \notin {{}, {Boot}} /\ request[Boot] = NoRequest
  /\ \E p \in toLoad :
       /\ toLoad' = toLoad \ {p}
       /\ request' = [request EXCEPT ![Boot] = [NoRequest EXCEPT !.step = "preparing", !.id = p]]
  /\ UNCHANGED <<projects, registry, made, deaths, kept, crossed>>

RegNext ==
  \/ \E r \in Requests, p \in Projects : Post(r, p) \/ Delete(r, p)
  \/ \E r \in Requests \cup {Boot} : Prepared(r) \/ Lists(r) \/ Writes(r)
  \/ DaemonDies \/ ListsAtStart \/ LoadsNext

RegSpec == RegInit /\ [][RegNext]_regVars

-----------------------------------------------------------------------------
Quiet == toLoad = {} /\ \A r \in DOMAIN request : request[r] = NoRequest

\* Unless requests have crossed: a project whose registration was answered, and that nobody
\* has deleted since, is in the file at every moment, so a daemon that dies finds it again;
\* and when no request is under way and start() is done, the daemon serves what its file
\* lists, but for the projects that could not be loaded.
RegistryIsKept ==
  ~crossed =>
    /\ kept \subseteq registry
    /\ Quiet => registry \ Unloadable = projects \ Unloadable /\ projects \subseteq registry

=============================================================================
