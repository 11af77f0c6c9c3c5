--------------------------- MODULE ConfigManager ---------------------------
(***************************************************************************)
(* The configuration in layers and the manager of it in memory (core       *)
(* config.ts): updateConfig merges an update into the project's layer and  *)
(* writes the file in the background; a watcher reloads the file 75 ms     *)
(* after the last notification, but for the first one after a write of its *)
(* own. A content of the file is the set of the changes it has. writeFile  *)
(* truncates the file and then fills it, and the system notifies of both,  *)
(* but may leave out a notification while an earlier one is unread.        *)
(*                                                                         *)
(* The command config of the CLI (cli commands/config.ts), which reads and *)
(* writes the two configuration files without the daemon, and what the     *)
(* daemon then makes of them when it registers a project, initialises a    *)
(* workflow or starts a node (loadConfig). A set reads one file, and       *)
(* truncates and fills it after; nothing locks it, nothing checks the      *)
(* value, and the command may be killed in between.                        *)
(***************************************************************************)
EXTENDS Naturals

-----------------------------------------------------------------------------
\* A layer is a function on the keys it sets; deepMerge lets the source's keys win.
DeepMerge(target, source) ==
  [k \in DOMAIN target \cup DOMAIN source |->
     IF k \in DOMAIN source THEN source[k] ELSE target[k]]

\* The first layer that sets a key, from the highest.
Effective(key, layers, default) ==
  LET setting == {i \in DOMAIN layers : key \in DOMAIN layers[i]} IN
  IF setting = {} THEN default ELSE layers[CHOOSE i \in setting : \A j \in setting : i <= j][key]

\* resolveConfig: the defaults, the preset of the level the highest layer names, and the layers.
ResolveConfig(defaults, presets, global, project, overrides) ==
  LET level == Effective("level", <<overrides, project, global>>, defaults["level"]) IN
  DeepMerge(DeepMerge(DeepMerge(DeepMerge(defaults, presets[level]), global), project), overrides)

-----------------------------------------------------------------------------
CONSTANTS
  MaxUpdates,  \* bound on the calls of updateConfig
  MaxExternal, \* bound on the edits of others
  Reloads      \* reloads that may be under way together

ASSUME ConfigAssumption == MaxUpdates \in Nat /\ MaxExternal \in Nat

VARIABLES
  layer,     \* projectFileConfig, from which the configuration in memory is resolved
  onFile,    \* the content of .loomflo/config.json
  torn,      \* the file is truncated and does not parse
  persists,  \* the writes of persistProjectConfig: [content, step]
  notices,   \* notifications unread
  skipNext,  \* skipNextReload
  debounce,  \* debounceTimer is running
  reload,    \* each reload: its step, and what it has read
  updates, externals,
  disturbed     \* history: see ConfigAgrees

cfgVars == <<layer, onFile, torn, persists, notices, skipNext, debounce, reload, updates,
             externals, disturbed>>

CfgChanges == 1 .. MaxUpdates + MaxExternal
NotReloading == [step |-> "none", read |-> {}]

CfgTypeOK ==
  /\ layer \subseteq CfgChanges /\ onFile \subseteq CfgChanges /\ torn \in BOOLEAN
  /\ persists \subseteq [content : SUBSET CfgChanges, step : {"asked", "truncated"}]
  /\ notices \in Nat /\ skipNext \in BOOLEAN /\ debounce \in BOOLEAN
  /\ reload \in [Reloads -> [step : {"none", "reading", "read", "failed"}, read : SUBSET CfgChanges]]
  /\ updates \in 0 .. MaxUpdates /\ externals \in 0 .. MaxExternal /\ disturbed \in BOOLEAN

CfgInit ==
  /\ layer = {} /\ onFile = {} /\ torn = FALSE /\ persists = {}
  /\ notices = 0 /\ skipNext = FALSE /\ debounce = FALSE
  /\ reload = [r \in Reloads |-> NotReloading]
  /\ updates = 0 /\ externals = 0 /\ disturbed = FALSE

Notify == notices' \in {notices + 1, notices} \ {0}

Idling == persists = {} /\ notices = 0 /\ ~debounce /\ \A r \in Reloads : reload[r] = NotReloading

\* updateConfig and persistProjectConfig, up to the writing.
UpdateConfig ==
  /\ updates < MaxUpdates /\ updates' = updates + 1
  /\ layer' = layer \cup {updates + 1}
  /\ skipNext' = TRUE
  /\ persists' = persists \cup {[content |-> layer', step |-> "asked"]}
  /\ disturbed' = (disturbed \/ ~Idling)
  /\ UNCHANGED <<onFile, torn, notices, debounce, reload, externals>>

Truncates(p) ==
  /\ p.step = "asked"
  /\ torn' = TRUE /\ Notify
  /\ persists' = (persists \ {p}) \cup {[p EXCEPT !.step = "truncated"]}
  /\ UNCHANGED <<layer, onFile, skipNext, debounce, reload, updates, externals, disturbed>>

Fills(p) ==
  /\ p.step = "truncated"
  /\ torn' = FALSE /\ onFile' = p.content /\ Notify
  /\ persists' = persists \ {p}
  /\ UNCHANGED <<layer, skipNext, debounce, reload, updates, externals, disturbed>>

\* A write that fails is ignored; it leaves the flag up.
PersistFails(p) ==
  /\ p.step = "asked"
  /\ persists' = persists \ {p} /\ disturbed' = TRUE
  /\ UNCHANGED <<layer, onFile, torn, notices, skipNext, debounce, reload, updates, externals>>

\* Another process replaces the file, by a rename.
OthersEdit ==
  /\ externals < MaxExternal /\ externals' = externals + 1
  /\ ~torn /\ onFile' = onFile \cup {MaxUpdates + externals + 1}
  /\ Notify
  /\ disturbed' = (disturbed \/ persists # {} \/ notices > 0)
  /\ UNCHANGED <<layer, torn, persists, skipNext, debounce, reload, updates>>

SkipsNext == skipNext /\ skipNext' = FALSE

\* handleFileChange.
HandleFileChange ==
  /\ notices > 0 /\ notices' = notices - 1
  /\ \/ SkipsNext /\ UNCHANGED debounce
     \/ ~skipNext /\ debounce' = TRUE /\ UNCHANGED skipNext
  /\ UNCHANGED <<layer, onFile, torn, persists, reload, updates, externals, disturbed>>

\* The timer fires: reload() reads the global file, then the project's.
Fires(r) ==
  /\ debounce /\ reload[r] = NotReloading
  /\ debounce' = FALSE /\ reload' = [reload EXCEPT ![r].step = "reading"]
  /\ UNCHANGED <<layer, onFile, torn, persists, notices, skipNext, updates, externals, disturbed>>

ReadsFile(r) ==
  /\ reload[r].step = "reading"
  /\ reload' = [reload EXCEPT ![r] = IF torn THEN [step |-> "failed", read |-> {}]
                                             ELSE [step |-> "read", read |-> onFile]]
  /\ UNCHANGED <<layer, onFile, torn, persists, notices, skipNext, debounce, updates, externals,
                 disturbed>>

\* The configuration is resolved anew; a file that did not parse leaves it as it was.
Reloaded(r) ==
  /\ reload[r].step \in {"read", "failed"}
  /\ layer' = IF reload[r].step = "read" THEN reload[r].read ELSE layer
  /\ reload' = [reload EXCEPT ![r] = NotReloading]
  /\ disturbed' = (disturbed \/ \E s \in Reloads \ {r} : reload[s].step = "read")
  /\ UNCHANGED <<onFile, torn, persists, notices, skipNext, debounce, updates, externals>>

CfgNext ==
  \/ UpdateConfig \/ OthersEdit \/ HandleFileChange
  \/ \E p \in persists : Truncates(p) \/ Fills(p) \/ PersistFails(p)
  \/ \E r \in Reloads : Fires(r) \/ ReadsFile(r) \/ Reloaded(r)

CfgSpec == CfgInit /\ [][CfgNext]_cfgVars

-----------------------------------------------------------------------------
\* With nothing under way the configuration in memory is the one of the file, edits of others
\* included; unless a write failed, two reloads had read at the same time, or an update or an
\* edit came before the notifications of the last one were dealt with.
ConfigAgrees == ~disturbed /\ Idling => layer = onFile

-----------------------------------------------------------------------------
(* The command that edits the configuration                                *)

CONSTANTS
  Terminals,  \* numbers: commands, and loads of the daemon, that may be under way together
  MaxUses     \* bound on them, the last a reader

ASSUME UsesAssumption == Terminals \subseteq Nat /\ MaxUses \in Nat

Scopes == {"global", "project"}
Keys == {"level", "reviewerEnabled"}
Settings == [level |-> {"1"}, reviewerEnabled |-> {"true", "false"}]  \* besides the defaults
Bad == "bad"  \* a value of another type than the key's: what parseValue makes of an argument
Absent == "absent"

VARIABLES
  configFiles, \* each file: what it sets each key to (Absent: nothing), and whether it parses
  use,         \* each command: its step, what it was given and what it has read
  uses,        \* commands so far
  lastSaid,    \* history: the value the last set that succeeded has named, of each key and scope
  tangled,     \* history: two writers of a file have overlapped, or one was killed
  learned      \* history: the last outcome of a reader that overlapped no writer, and its due

useVars == <<configFiles, use, uses, lastSaid, tangled, learned>>

NoUse == [step |-> "none", op |-> "none", scope |-> "global", key |-> "level", value |-> Absent,
          read |-> [s \in Scopes |-> [k \in Keys |-> Absent]], alone |-> TRUE]
SetsNothing == [k \in Keys |-> Absent]
Shown(config) == [status |-> "ok", config |-> config]
Corrupted == [status |-> "corrupted", config |-> SetsNothing]
Unreadable == [status |-> "unreadable", config |-> SetsNothing]
NothingLearned == [view |-> Unreadable, due |-> Unreadable]

UseTypeOK ==
  /\ configFiles \in [Scopes -> [sets : [Keys -> {"1", "true", "false", Bad, Absent}], torn : BOOLEAN]]
  /\ \A t \in Terminals : use[t].step \in {"none", "reads", "second", "writes", "fills"}
  /\ uses \in 0 .. MaxUses /\ tangled \in BOOLEAN

UseInit ==
  /\ configFiles = [s \in Scopes |-> [sets |-> SetsNothing, torn |-> FALSE]]
  /\ use = [t \in Terminals |-> NoUse] /\ uses = 0
  /\ lastSaid = [s \in Scopes |-> SetsNothing] /\ tangled = FALSE
  /\ learned = NothingLearned

-----------------------------------------------------------------------------
\* deepMerge: the project's file wins.
Over(high, low) == [k \in Keys |-> IF high[k] # Absent THEN high[k] ELSE low[k]]
Merged(layers) == Over(layers["project"], layers["global"])
ConfigDefaults == [level |-> "3", reviewerEnabled |-> "true"]
LevelPreset(level) == [SetsNothing EXCEPT !.reviewerEnabled = IF level = "1" THEN "false" ELSE "true"]

\* What `config` and `config get` show: the schema is applied to the merged files, and there is
\* no preset.
CliView(layers) ==
  LET merged == Merged(layers) IN
  IF \E k \in Keys : merged[k] = Bad THEN Corrupted ELSE Shown(Over(merged, ConfigDefaults))
\* loadConfig: the schema is applied to each file, and the level's preset lies under both.
DaemonView(layers) ==
  LET upon(low) == Over(layers["project"], Over(layers["global"], low)) IN
  IF \E s \in Scopes, k \in Keys : layers[s][k] = Bad THEN Corrupted
  ELSE Shown(upon(Over(LevelPreset(upon(ConfigDefaults).level), ConfigDefaults)))

View(op, layers) == IF op = "load" THEN DaemonView(layers) ELSE CliView(layers)
Layers == [s \in Scopes |-> configFiles[s].sets]

-----------------------------------------------------------------------------
Writing(s) == {t \in Terminals : use[t].step # "none" /\ use[t].op = "set" /\ use[t].scope = s}
UseGoes(t, step) == use' = [use EXCEPT ![t].step = step]

\* A command begins, in the first terminal that is free; those under way with a writer are not alone.
Uses(t, op, scope, key, value) ==
  LET busy == \E s \in Scopes : Writing(s) # {} IN
  /\ use[t].step = "none" /\ \A u \in Terminals : u < t => use[u].step # "none"
  /\ uses < (IF op = "set" THEN MaxUses - 1 ELSE MaxUses) /\ uses' = uses + 1
  /\ use' = [u \in Terminals |->
               IF u = t THEN [NoUse EXCEPT !.step = "reads", !.op = op, !.scope = scope, !.key = key,
                                           !.value = value, !.alone = ~busy]
               ELSE [use[u] EXCEPT !.alone = @ /\ (op # "set" \/ use[u].step = "none")]]
  /\ tangled' = (tangled \/ (op = "set" /\ Writing(scope) # {}))
  /\ learned' = NothingLearned /\ UNCHANGED <<configFiles, lastSaid>>
Sets(t, scope, key, value) == Uses(t, "set", scope, key, value)
Gets(t) == Uses(t, "get", "global", "level", Absent)
Loads(t) == Uses(t, "load", "global", "level", Absent)

\* readConfigFile, loadConfigFile: a file that does not parse ends the command.
ReadsOwn(t) ==
  LET u == use[t] IN
  /\ u.op = "set" /\ u.step = "reads"
  /\ use' = IF configFiles[u.scope].torn THEN [use EXCEPT ![t] = NoUse]
            ELSE [use EXCEPT ![t].step = "writes", ![t].read = [@ EXCEPT ![u.scope] = configFiles[u.scope].sets]]
  /\ UNCHANGED <<configFiles, uses, lastSaid, tangled, learned>>

\* A reader that no writer overlaps has learned what it shows, or runs with.
Learns(u, view) == learned' = IF u.alone /\ ~tangled THEN [view |-> view, due |-> View(u.op, lastSaid)] ELSE learned
ReadsBoth(t) ==
  LET u == use[t]
      s == IF u.step = "reads" THEN "global" ELSE "project"
      layers == [u.read EXCEPT ![s] = configFiles[s].sets] IN
  /\ u.op # "set" /\ u.step \in {"reads", "second"}
  /\ IF configFiles[s].torn      THEN Learns(u, Unreadable) /\ use' = [use EXCEPT ![t] = NoUse]
     ELSE IF s = "project" THEN Learns(u, View(u.op, layers)) /\ use' = [use EXCEPT ![t] = NoUse]
     ELSE UNCHANGED learned /\ use' = [use EXCEPT ![t].read = layers, ![t].step = "second"]
  /\ UNCHANGED <<configFiles, uses, lastSaid, tangled>>

\* writeConfigFile: the file is truncated ...
TruncatesFile(t) ==
  /\ use[t].step = "writes" /\ configFiles' = [configFiles EXCEPT ![use[t].scope].torn = TRUE]
  /\ UseGoes(t, "fills") /\ UNCHANGED <<uses, lastSaid, tangled, learned>>
\* ... and filled with what was read, and the value set; and the command says so.
SetKeyPath(u) == [u.read[u.scope] EXCEPT ![u.key] = u.value]
FillsFile(t) ==
  LET u == use[t] IN
  /\ u.step = "fills"
  /\ configFiles' = [configFiles EXCEPT ![u.scope] = [sets |-> SetKeyPath(u), torn |-> FALSE]]
  /\ lastSaid' = IF tangled THEN lastSaid ELSE [lastSaid EXCEPT ![u.scope][u.key] = u.value]
  /\ use' = [use EXCEPT ![t] = NoUse] /\ UNCHANGED <<uses, tangled, learned>>

\* Ctrl-C, or a disk that is full.
Killed(t) ==
  /\ use[t].op = "set" /\ use' = [use EXCEPT ![t] = NoUse]
  /\ tangled' = (tangled \/ use[t].step = "fills")
  /\ UNCHANGED <<configFiles, uses, lastSaid, learned>>

UseNext ==
  \E t \in Terminals :
    \/ \E s \in Scopes, k \in Keys : \E v \in Settings[k] \cup {Bad} : Sets(t, s, k, v)
    \/ Gets(t) \/ Loads(t) \/ ReadsOwn(t) \/ ReadsBoth(t)
    \/ TruncatesFile(t) \/ FillsFile(t) \/ Killed(t)

UseSpec == UseInit /\ [][UseNext]_useVars

-----------------------------------------------------------------------------
\* A set that has said so is there, until another set of the key, unless two writers crossed or
\* one was killed; a reader that no writer overlaps gets, file over file, what was said.  What
\* the command shows and what the daemon uses agree on every key a file sets, whenever the
\* daemon accepts the files; it refuses some the command still shows, for a bad value the
\* project's file hides.
SettingsAreTold ==
  /\ tangled \/ \A s \in Scopes : configFiles[s].torn => Writing(s) # {}
  /\ tangled \/ Layers = lastSaid
  /\ learned.view = learned.due
  /\ DaemonView(Layers) # Corrupted =>
       /\ CliView(Layers) # Corrupted
       /\ \A k \in Keys : (\E s \in Scopes : Layers[s][k] # Absent)
                          => CliView(Layers).config[k] = DaemonView(Layers).config[k]

=============================================================================
