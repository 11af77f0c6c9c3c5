---------------------------- MODULE DaemonControl ----------------------------
(***************************************************************************)
(* Starting and stopping the one daemon of a machine: ensureDaemonRunning  *)
(* and the commands start, stop and restart of the CLI (cli/src/           *)
(* daemon-control.ts, commands/daemon.ts), against Daemon.start, stop and  *)
(* daemon-entry.ts.  They meet in daemon.json, in the lock beside it, in   *)
(* the port and in signals.                                                *)
(*                                                                         *)
(* An action is a process' step from one system call to the next.  The     *)
(* time limits of the lock and of waitUntilStopped may strike at any       *)
(* moment; proper-lockfile's lock is a mutex.  Ports, tokens and versions  *)
(* agree and are left out.                                                 *)
(***************************************************************************)
EXTENDS Naturals, FiniteSets

CONSTANTS
  Clis,         \* terminals: each runs one command after the other
  Pids,         \* the process ids daemons get; bounds how many are spawned
  MaxCommands,  \* bound on the commands entered
  Signals,      \* the signals stop and restart send: "SIGTERM" and, with --force, "SIGKILL"
  Untimely      \* whether a command may meet a daemon that is coming up: start give up on it
                \* (STARTUP_TIMEOUT_MS), stop be entered for it, its file be read half written

NoFile == "none"
Torn == "torn"  \* daemon.json is being written
NoPid == "nobody"
ASSUME UntimelyAssumption == Untimely \in BOOLEAN
ASSUME PidsAssumption == {NoFile, Torn, NoPid} \cap Pids = {} /\ NoPid \notin Clis /\ MaxCommands \in Nat

VARIABLES
  daemon,    \* each process: how far start() is, how far stop() is, and whether it lives
  file,      \* daemon.json: absent, torn, or the pid in it
  holder,    \* who holds daemon.lock
  cli,       \* each terminal: where its command is, the pid it deals with, and its answer
  commands   \* the commands entered

ctlVars == <<daemon, file, holder, cli, commands>>

Unborn == [up |-> "none", stop |-> "no", alive |-> FALSE]
AtPrompt == [at |-> "prompt", pid |-> NoPid, restart |-> FALSE, answer |-> "none"]

Answers == {"none", "ok", "stopped", "orphan", "lockTimeout", "startTimeout", "neverAppeared",
            "stopTimeout", "noProcess"}

CtlTypeOK ==
  /\ daemon \in [Pids -> [up : {"none", "booting", "bound", "writing", "written"},
                          stop : {"no", "asked", "closed", "removed"}, alive : BOOLEAN]]
  /\ file \in Pids \cup {NoFile, Torn}
  /\ holder \in Clis \cup {NoPid}
  /\ cli \in [Clis -> [at : {"prompt", "checking", "scanning", "locking", "rechecking",
                             "waiting", "verifying", "killing", "dying"},
                       pid : Pids \cup {NoPid}, restart : BOOLEAN, answer : Answers]]
  /\ commands \in 0 .. MaxCommands

CtlInit ==
  /\ daemon = [p \in Pids |-> Unborn]
  /\ file = NoFile
  /\ holder = NoPid
  /\ cli = [c \in Clis |-> AtPrompt]
  /\ commands = 0

Alive == {p \in Pids : daemon[p].alive}

-----------------------------------------------------------------------------
(* The daemon                                                              *)

daemonOnly == UNCHANGED <<holder, cli, commands>>

Dies(p) == daemon' = [daemon EXCEPT ![p].alive = FALSE]

PortTaken(p) == \E q \in Alive \ {p} :
  daemon[q].up \notin {"none", "booting"} /\ daemon[q].stop \in {"no", "asked"}

\* listen.  It fails on a port that is taken, and on a server stop() has closed: exit(1).
Listens(p) ==
  /\ daemon[p].alive /\ daemon[p].up = "booting"
  /\ IF PortTaken(p) \/ daemon[p].stop \in {"closed", "removed"}
     THEN Dies(p)
     ELSE daemon' = [daemon EXCEPT ![p].up = "bound"]
  /\ daemonOnly /\ UNCHANGED file

\* The projects are registered, and writeDaemonFile writes the file: the end of start().
\* A reader may see it half written.
WritesFile(p) ==
  /\ daemon[p].alive /\ daemon[p].up \in {"bound", "writing"}
  /\ \E whole \in {TRUE, ~Untimely} :
       /\ daemon' = [daemon EXCEPT ![p].up = IF whole THEN "written" ELSE "writing"]
       /\ file' = IF whole THEN p ELSE Torn
  /\ daemonOnly

\* An error before that: reading the registry or the profiles fails.
StartFails(p) ==
  /\ daemon[p].alive /\ daemon[p].up \in {"booting", "bound"}
  /\ Dies(p)
  /\ daemonOnly /\ UNCHANGED file

\* stop(), after a SIGTERM, also while start() is still at work:
\* flush and close the server, remove the file, exit.
ClosesServer(p) ==
  /\ daemon[p].alive /\ daemon[p].stop = "asked"
  /\ daemon' = [daemon EXCEPT ![p].stop = "closed"]
  /\ daemonOnly /\ UNCHANGED file

RemovesFile(p) ==
  /\ daemon[p].alive /\ daemon[p].stop = "closed"
  /\ daemon' = [daemon EXCEPT ![p].stop = "removed"]
  /\ file' = NoFile
  /\ daemonOnly

Exits(p) ==
  /\ daemon[p].alive /\ daemon[p].stop = "removed"
  /\ Dies(p)
  /\ daemonOnly /\ UNCHANGED file

DaemonStep(p) ==
  Listens(p) \/ WritesFile(p) \/ ClosesServer(p) \/ RemovesFile(p) \/ Exits(p)

-----------------------------------------------------------------------------
(* The CLI                                                                 *)

cliOnly == UNCHANGED <<daemon, file, commands>>

Goes(c, at) == cli' = [cli EXCEPT ![c].at = at]
Answer(c, answer) == cli' = [cli EXCEPT ![c] = [AtPrompt EXCEPT !.answer = answer]]

\* getRunningDaemon: the file is whole, and its process lives.
Found == file \in Pids /\ daemon[file].alive

OkWith(c) ==
  cli' = [cli EXCEPT ![c] = [AtPrompt EXCEPT !.answer = "ok", !.pid = file]]

\* ensureDaemonRunning.
Start(c) ==
  /\ cli[c].at = "prompt" /\ commands < MaxCommands
  /\ commands' = commands + 1
  /\ cli' = [cli EXCEPT ![c] = [AtPrompt EXCEPT !.at = "checking"]]
  /\ UNCHANGED <<daemon, file, holder>>

Checks(c) ==
  /\ cli[c].at = "checking"
  /\ IF Found THEN OkWith(c) ELSE Goes(c, "scanning")
  /\ cliOnly /\ UNCHANGED holder

\* findOrphanDaemonPid: exactly one process runs daemon-entry.js.
ScansForOrphan(c) ==
  /\ cli[c].at = "scanning"
  /\ IF Cardinality(Alive) = 1 THEN Answer(c, "orphan") ELSE Goes(c, "locking")
  /\ cliOnly /\ UNCHANGED holder

Locks_Faulty(c) ==
  /\ cli[c].at = "locking"
  /\ holder' = c
  /\ Goes(c, "rechecking")
  /\ cliOnly

\* withFileLock.
Locks(c) ==
  /\ cli[c].at = "locking"
  /\ \/ holder = NoPid /\ holder' = c /\ Goes(c, "rechecking")
     \/ holder # NoPid /\ Answer(c, "lockTimeout") /\ UNCHANGED holder
  /\ cliOnly

\* The check inside the lock, and the spawn.
Rechecks(c) ==
  /\ cli[c].at = "rechecking"
  /\ IF Found
     THEN Goes(c, "verifying") /\ holder' = NoPid /\ UNCHANGED daemon
     ELSE \E p \in Pids :
            /\ daemon[p] = Unborn
            /\ daemon' = [daemon EXCEPT ![p] = [Unborn EXCEPT !.up = "booting", !.alive = TRUE]]
            /\ Goes(c, "waiting")
            /\ UNCHANGED holder
  /\ UNCHANGED <<file, commands>>

\* waitForDaemonFile: there is a file to read, whosever it is; or the time is up.
Waits(c) ==
  /\ cli[c].at = "waiting"
  /\ \/ file # NoFile /\ Goes(c, "verifying")
     \/ file = NoFile /\ (Untimely \/ Alive = {}) /\ Answer(c, "startTimeout")
  /\ holder' = NoPid
  /\ cliOnly

Verifies(c) ==
  /\ cli[c].at = "verifying"
  /\ IF Found THEN OkWith(c) ELSE Answer(c, "neverAppeared")
  /\ cliOnly /\ UNCHANGED holder

\* stop and restart look for the daemon, stop for an orphan too ...
Stop(c) ==
  /\ cli[c].at = "prompt" /\ commands < MaxCommands
  /\ commands' = commands + 1
  /\ \E restart \in BOOLEAN :
       \/ /\ ~Found /\ restart
          /\ cli' = [cli EXCEPT ![c] = [AtPrompt EXCEPT !.at = "checking"]]
       \/ \E p \in Pids :
            /\ IF Found THEN p = file
               ELSE ~restart /\ Alive = {p} /\ (Untimely \/ daemon[p].up = "written")
            /\ cli' = [cli EXCEPT ![c] = [at |-> "killing", pid |-> p, restart |-> restart,
                                         answer |-> "none"]]
  /\ UNCHANGED <<daemon, file, holder>>

\* ... and send it the signal: process.kill throws when its process is gone meanwhile.
\* Projects that are active would stop a plain stop, but no code ever gives a project
\* another status than idle.
Kills(c) ==
  /\ cli[c].at = "killing"
  /\ LET p == cli[c].pid IN
     IF ~daemon[p].alive
     THEN Answer(c, "noProcess") /\ UNCHANGED daemon
     ELSE /\ \E signal \in Signals :
               daemon' = IF signal = "SIGKILL"
                         THEN [daemon EXCEPT ![p].alive = FALSE]
                         ELSE [daemon EXCEPT ![p].stop = IF @ = "no" THEN "asked" ELSE @]
          /\ IF cli[c].restart THEN Goes(c, "dying") ELSE Answer(c, "stopped")
  /\ UNCHANGED <<file, holder, commands>>

\* waitUntilStopped.
Outwaits(c) ==
  /\ cli[c].at = "dying"
  /\ \/ ~daemon[cli[c].pid].alive /\ Goes(c, "checking")
     \/ daemon[cli[c].pid].alive /\ Answer(c, "stopTimeout")
  /\ cliOnly /\ UNCHANGED holder

CliStep(c) ==
  \/ Checks(c) \/ ScansForOrphan(c) \/ Locks(c) \/ Rechecks(c) \/ Waits(c) \/ Verifies(c)
  \/ Kills(c) \/ Outwaits(c)

CtlNext ==
  \/ \E p \in Pids : DaemonStep(p) \/ StartFails(p)
  \/ \E c \in Clis : Start(c) \/ Stop(c) \/ CliStep(c)

CtlSpec == CtlInit /\ [][CtlNext]_ctlVars

-----------------------------------------------------------------------------
\* A daemon that has started and was not told to stop can be found: daemon.json names it,
\* whatever other daemons were spawned, failed and stopped meanwhile.  So it is while stop
\* and restart send SIGTERM and nothing is Untimely; otherwise two daemons may overlap, and
\* stop() of the one removes the file of the other.
ServingIsFindable ==
  \A p \in Alive : daemon[p].up = "written" /\ daemon[p].stop = "no" => file = p

\* A start that answers "running" names a daemon that came up, not one that was booting
\* still or that the port would turn away.
RunningMeansStarted ==
  \A c \in Clis : cli[c].answer = "ok" => daemon[cli[c].pid].up = "written"

\* Both: commands of several terminals end in one daemon that everybody can talk to.
OneDaemonIsFound == ServingIsFindable /\ RunningMeansStarted

=============================================================================
