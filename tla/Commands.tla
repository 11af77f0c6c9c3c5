------------------------------ MODULE Commands ------------------------------
(***************************************************************************)
(* The commands that set a project up, from two shells in one directory:   *)
(* init with its wizard (cli/commands/init.ts, onboarding/index.ts), start *)
(* (commands/start.ts), which goes through init the first time, workflow   *)
(* init and its polling (workflow-init.ts), and project remove.            *)
(*                                                                         *)
(* A step lies between two awaits on a file, a prompt, the provider or the *)
(* daemon.  A project's id is the shell that made it up.                   *)
(***************************************************************************)
EXTENDS Naturals, FiniteSets

CONSTANTS
  Shells,
  Scripts,        \* those that run a script: nobody answers prompts
  WizardProfiles, \* names a provider profile may have
  MaxAttempts,    \* attempts at validating a profile
  MaxGiven     \* bound: commands given

DefaultProfile == "default"
EnvProfile == "env:ephemeral"
NoProfile == "no profile"
NoId == "none"

ASSUME CommandsAssumption ==
  /\ NoId \notin Shells /\ Scripts \subseteq Shells /\ DefaultProfile \in WizardProfiles /\ EnvProfile \notin WizardProfiles
  /\ NoProfile \notin WizardProfiles
  /\ MaxAttempts \in Nat \ {0} /\ MaxGiven \in Nat

VARIABLES
  projectJson, \* .loomflo/project.json: [id, profile]; NoProject before it is made
  configJson,  \* whether .loomflo/config.json is there
  credentials, \* the profiles in credentials.json
  runtimes,    \* the daemon's projects: id -> profile; NoProfile if it has none
  seeded,      \* their workflows: id -> "none", "spec", "building" or "failed"
  shell,       \* the command of each shell
  given,       \* commands given
  bare,        \* history: ids that start met with a project.json and no configuration
  strayed,     \* history: ids with a project.json that its runtime did not follow
  doubled,     \* history: whether two shells made an identity up
  dropped      \* history: ids that were removed

cmdVars == <<projectJson, configJson, credentials, runtimes, seeded, shell, given,
             bare, strayed, doubled, dropped>>
filesVars == <<projectJson, configJson, credentials>>
cmdHistory == <<bare, strayed, doubled, dropped>>

NoProject == [id |-> NoId, profile |-> NoProfile]
AtShell == [cmd |-> "none", pc |-> "none", id |-> NoId, profile |-> NoProfile, attempt |-> 0, onward |-> FALSE]

\* How a command may end: "ready" and "seeded" well, "recap" without having done anything.
Ends == {"none", "ready", "recap", "seeded", "cancelled", "failed"}

CmdTypeOK ==
  /\ projectJson \in [id : Shells \cup {NoId}, profile : WizardProfiles \cup {NoProfile, EnvProfile}]
  /\ configJson \in BOOLEAN /\ credentials \subseteq WizardProfiles
  /\ runtimes \in [Shells -> WizardProfiles \cup {NoProfile}]
  /\ seeded \in [Shells -> {"none", "spec", "building", "failed"}]
  /\ shell \in [Shells ->
       [cmd : {"none", "init", "start", "workflow", "watch"},
        pc : Ends \cup {"resolve", "create", "compare", "wizard", "validate", "project", "config",
                        "fetch", "post", "seed", "look", "poll"},
        id : Shells \cup {NoId}, profile : WizardProfiles \cup {NoProfile, EnvProfile},
        attempt : 0 .. MaxAttempts, onward : BOOLEAN]]
  /\ given \in 0 .. MaxGiven
  /\ {bare, strayed, dropped} \subseteq SUBSET Shells /\ doubled \in BOOLEAN

CmdInit ==
  /\ projectJson = NoProject /\ configJson = FALSE /\ credentials = {DefaultProfile}
  /\ runtimes = [i \in Shells |-> NoProfile] /\ seeded = [i \in Shells |-> "none"]
  /\ shell = [t \in Shells |-> AtShell] /\ given = 0
  /\ bare = {} /\ strayed = {} /\ doubled = FALSE /\ dropped = {}

ShellGoes(t, pc) == shell' = [shell EXCEPT ![t].pc = pc]

\* start goes on after the init it has called, if that did not fail and left a project.json.
AfterInit(t, end) ==
  IF shell[t].onward /\ end \notin {"cancelled", "failed"} /\ projectJson # NoProject
  THEN "resolve" ELSE end

\* The end of a command, or of the init within start.
Finish(t, end) ==
  LET pc == AfterInit(t, end) IN
  shell' = [shell EXCEPT ![t] = IF pc = "resolve"
              THEN [AtShell EXCEPT !.cmd = "start", !.pc = pc]
              ELSE [AtShell EXCEPT !.pc = pc, !.id = IF pc \in {"ready", "seeded"} THEN shell[t].id ELSE NoId]]

-----------------------------------------------------------------------------
\* A command is given; start begins as an init where there is no project.json.
Give(t) ==
  /\ shell[t].pc \in Ends /\ given < MaxGiven /\ given' = given + 1
  /\ \E cmd \in {"init", "start", "workflow", "watch"} :
       LET first == cmd = "start" /\ projectJson = NoProject IN
       /\ shell' = [shell EXCEPT ![t] =
            [AtShell EXCEPT !.cmd = IF first THEN "init" ELSE cmd, !.pc = "resolve",
                             !.onward = first]]
       /\ bare' = IF cmd = "start" /\ ~first /\ ~configJson
                  THEN bare \cup {projectJson.id} ELSE bare
  /\ UNCHANGED <<filesVars, runtimes, seeded, strayed, doubled, dropped>>

\* resolveProject: the identity in project.json, or one to be made; workflow init and workflow
\* watch make none.
ResolveProject(t) ==
  /\ shell[t].pc = "resolve"
  /\ IF projectJson # NoProject
     THEN shell' = [shell EXCEPT ![t].id = projectJson.id,
            ![t].pc = IF shell[t].cmd = "init" THEN "compare"
                      ELSE IF shell[t].cmd = "start" THEN "fetch"
                      ELSE IF shell[t].cmd = "workflow" THEN "seed" ELSE "look"]
     ELSE IF shell[t].cmd \in {"workflow", "watch"} THEN Finish(t, "failed") ELSE ShellGoes(t, "create")
  /\ UNCHANGED <<filesVars, runtimes, seeded, given, cmdHistory>>

\* createProjectIdentity, whatever was written since project.json was looked for.
CreateProjectIdentity(t) ==
  /\ shell[t].pc = "create"
  /\ projectJson' = [id |-> t, profile |-> DefaultProfile]
  /\ doubled' = (doubled \/ projectJson # NoProject)
  /\ shell' = [shell EXCEPT ![t].id = t,
                            ![t].pc = IF shell[t].cmd = "init" THEN "compare" ELSE "fetch"]
  /\ UNCHANGED <<configJson, credentials, runtimes, seeded, given, bare, strayed, dropped>>

\* init of a project that has a configuration: a script is told of it and that is all, even if
\* the project was never registered; a person may go through the wizard again.
Compare(t) ==
  /\ shell[t].pc = "compare"
  /\ \/ ~configJson /\ ShellGoes(t, "wizard")
     \/ configJson /\ t \notin Scripts /\ ShellGoes(t, "wizard")
     \/ configJson /\ Finish(t, "recap")
  /\ UNCHANGED <<filesVars, runtimes, seeded, given, cmdHistory>>

\* runWizard: a profile that is there, a new one, or the environment; or it is given up.
ChooseProfile(t) ==
  /\ shell[t].pc = "wizard"
  /\ \/ \E p \in WizardProfiles :
          /\ t \in Scripts => p \in credentials
          /\ shell' = [shell EXCEPT ![t].profile = p, ![t].pc = "validate", ![t].attempt = 1]
     \/ /\ t \notin Scripts
        /\ shell' = [shell EXCEPT ![t].profile = EnvProfile, ![t].pc = "project"]
     \/ t \notin Scripts /\ Finish(t, "cancelled")
     \/ t \in Scripts /\ Finish(t, "failed")
  /\ UNCHANGED <<filesVars, runtimes, seeded, given, cmdHistory>>

\* runExistingValidator: what may pass is tried again, what cannot is not; a new profile is kept
\* once it is valid.
Validate(t) ==
  /\ shell[t].pc = "validate"
  /\ \/ /\ shell' = [shell EXCEPT ![t].pc = "project", ![t].attempt = 0]
        /\ credentials' = credentials \cup {shell[t].profile}
     \/ /\ shell[t].attempt < MaxAttempts
        /\ shell' = [shell EXCEPT ![t].attempt = @ + 1] /\ UNCHANGED credentials
     \/ Finish(t, "failed") /\ UNCHANGED credentials
  /\ UNCHANGED <<projectJson, configJson, runtimes, seeded, given, cmdHistory>>

\* project.json is written again, with the identity that was resolved.
WriteProject(t) ==
  /\ shell[t].pc = "project"
  /\ projectJson' = [id |-> shell[t].id, profile |-> shell[t].profile]
  /\ strayed' = IF runtimes[shell[t].id] \in {NoProfile, shell[t].profile} THEN strayed
                ELSE strayed \cup {shell[t].id}
  /\ ShellGoes(t, "config")
  /\ UNCHANGED <<configJson, credentials, runtimes, seeded, given, bare, doubled, dropped>>

WriteConfig(t) ==
  /\ shell[t].pc = "config" /\ configJson' = TRUE /\ ShellGoes(t, "fetch")
  /\ UNCHANGED <<projectJson, credentials, runtimes, seeded, given, cmdHistory>>

-----------------------------------------------------------------------------
\* The daemon knows the project, whatever its profile: nothing is posted.
FetchProject(t) ==
  /\ shell[t].pc = "fetch"
  /\ \/ runtimes[shell[t].id] = NoProfile /\ ShellGoes(t, "post")
     \/ /\ runtimes[shell[t].id] # NoProfile
        /\ IF shell[t].cmd = "init" THEN ShellGoes(t, "seed") ELSE Finish(t, "ready")
     \/ Finish(t, "failed") \* the daemon does not start, or does not answer
  /\ UNCHANGED <<filesVars, runtimes, seeded, given, cmdHistory>>

\* start posts its option, "default" unless it is given; init what the wizard came to.
Posted(t) == IF shell[t].cmd = "start" THEN DefaultProfile ELSE shell[t].profile

\* POST /projects: refused for a project that is there, and for a profile that is not.
PostsProject(t) ==
  /\ shell[t].pc = "post"
  /\ IF runtimes[shell[t].id] # NoProfile \/ Posted(t) \notin credentials
     THEN Finish(t, "failed") /\ UNCHANGED <<runtimes, strayed>>
     ELSE /\ runtimes' = [runtimes EXCEPT ![shell[t].id] = Posted(t)]
          /\ strayed' = IF projectJson = [id |-> shell[t].id, profile |-> Posted(t)] THEN strayed
                        ELSE strayed \cup {shell[t].id}
          /\ IF shell[t].cmd = "init" THEN ShellGoes(t, "seed") ELSE Finish(t, "ready")
  /\ UNCHANGED <<filesVars, seeded, given, bare, doubled, dropped>>

\* kickoffWorkflowInit: 404 without the project, 409 if it has a workflow.  init may also seed
\* nothing; a script that says neither ends in an error, with all the rest done.
Kickoff(t) ==
  /\ shell[t].pc = "seed"
  /\ \/ /\ runtimes[shell[t].id] # NoProfile /\ seeded[shell[t].id] = "none"
        /\ seeded' = [seeded EXCEPT ![shell[t].id] = "spec"]
        /\ \/ Finish(t, "ready") \* init, or with --no-wait
           \/ shell[t].cmd = "workflow" /\ ShellGoes(t, "poll")
     \/ /\ runtimes[shell[t].id] = NoProfile \/ seeded[shell[t].id] # "none"
        /\ Finish(t, "failed") /\ UNCHANGED seeded
     \/ /\ shell[t].cmd = "init" /\ UNCHANGED seeded
        /\ Finish(t, "ready") \/ (t \in Scripts /\ Finish(t, "failed"))
  /\ UNCHANGED <<filesVars, runtimes, given, cmdHistory>>

\* workflow watch: a workflow past its spec is only reported, with no word on how the spec went.
LookAtWorkflow(t) ==
  /\ shell[t].pc = "look"
  /\ \/ seeded[shell[t].id] = "spec" /\ ShellGoes(t, "poll")
     \/ seeded[shell[t].id] \in {"building", "failed"} /\ Finish(t, "recap")
     \/ Finish(t, "failed")
  /\ UNCHANGED <<filesVars, runtimes, seeded, given, cmdHistory>>

\* pollWorkflowSpec: a workflow that is gone looks like one that is still to come.  With a
\* deadline, or when the daemon does not answer, it ends in an error.
Poll(t) ==
  /\ shell[t].pc = "poll"
  /\ Finish(t, IF seeded[shell[t].id] = "building" THEN "seeded" ELSE "failed")
  /\ UNCHANGED <<filesVars, runtimes, seeded, given, cmdHistory>>

SpecEnds(i) ==
  /\ seeded[i] = "spec"
  /\ \E s \in {"building", "failed"} : seeded' = [seeded EXCEPT ![i] = s]
  /\ UNCHANGED <<filesVars, runtimes, shell, given, cmdHistory>>

\* project remove, from anywhere: the daemon forgets the project and its workflow.
RemoveProject(i) ==
  /\ runtimes[i] # NoProfile /\ given < MaxGiven /\ given' = given + 1
  /\ runtimes' = [runtimes EXCEPT ![i] = NoProfile] /\ seeded' = [seeded EXCEPT ![i] = "none"]
  /\ dropped' = dropped \cup {i}
  /\ UNCHANGED <<filesVars, shell, bare, strayed, doubled>>

CmdNext ==
  \/ \E t \in Shells :
       \/ Give(t) \/ ResolveProject(t) \/ CreateProjectIdentity(t) \/ Compare(t)
       \/ ChooseProfile(t) \/ Validate(t) \/ WriteProject(t) \/ WriteConfig(t)
       \/ FetchProject(t) \/ PostsProject(t) \/ Kickoff(t) \/ LookAtWorkflow(t) \/ Poll(t)
  \/ \E i \in Shells : SpecEnds(i) \/ RemoveProject(i)

CmdSpec == CmdInit /\ [][CmdNext]_cmdVars

-----------------------------------------------------------------------------
\* A command that ends well has done what it says: the project it names is with the daemon and,
\* unless two shells made it up, in project.json; and a spec it waited for is there.  A project
\* goes without its configuration only if start met it half made, and under another profile than
\* project.json's only if start posted its own, the wizard was run again or two shells crossed.
CommandsTellTruth ==
  \A t \in Shells :
    /\ shell[t].pc = "ready" => runtimes[shell[t].id] # NoProfile \/ shell[t].id \in dropped
    /\ shell[t].pc = "ready" /\ ~doubled => projectJson.id = shell[t].id
    /\ shell[t].pc = "seeded" => seeded[shell[t].id] = "building" \/ shell[t].id \in dropped
    /\ runtimes[t] # NoProfile /\ ~doubled => configJson \/ t \in bare
    /\ runtimes[t] # NoProfile /\ ~doubled /\ t \notin strayed => projectJson = [id |-> t, profile |-> runtimes[t]]

=============================================================================
