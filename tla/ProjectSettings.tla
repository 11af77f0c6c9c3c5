-------------------------- MODULE ProjectSettings --------------------------
(***************************************************************************)
(* The configuration of a project: the files loadConfig merges (core       *)
(* config.ts), the copy the daemon keeps (rt.config), which PUT /config    *)
(* changes (routes/config.ts), the copy of the settings page (dashboard    *)
(* pages/SettingsPage.tsx, hooks/useConfig.ts), and `config set` of the    *)
(* CLI, which edits the files behind the daemon's back.                    *)
(*                                                                         *)
(* A section of the page is the field it edits; "files" is what the merge  *)
(* of defaults, preset, global and project configuration gives.            *)
(***************************************************************************)
EXTENDS Naturals, FiniteSets

CONSTANTS
  Fields,      \* of the configuration
  Values,      \* of a field
  Default,     \* what the page, and a project without files, begin with
  MaxOpens,   \* bound on the mounts of the page
  MaxSaves,    \* bound on the saves of the page
  MaxElsewhere   \* bound on what is changed elsewhere, restarts included

ASSUME SettingsAssumption ==
  Default \in Values /\ MaxOpens \in Nat /\ MaxSaves \in Nat /\ MaxElsewhere \in Nat

Confs == [Fields -> Values]
Defaults == [f \in Fields |-> Default]
NoField == "none"

VARIABLES
  files,     \* what loadConfig resolves
  config,    \* rt.config
  settingsOpen, settingsMount,
  local,     \* data: what the page shows
  keptConf,  \* what localStorage has of it
  fetched,   \* GET /config: "asked", "answered", "arrived" or "failed"
  answer,    \* what it answered
  section,   \* editingId
  edited,    \* draft, while a section is edited
  touched,   \* the fields set since the draft was made
  saves,     \* calls of saveEdit under way, those of a page that was left included
  savesMade, changes,
  early,     \* history: a section was opened before the configuration had come
  foreign,   \* history: the configuration has changed elsewhere since the page was opened
  refused,   \* history: the daemon has refused a save of this page
  accepted   \* history: for each field the last update answered with 200, or Unset

daemonConf == <<files, config, changes, accepted>>
pageConf == <<local, keptConf, section, edited, touched>>
visitConf == <<settingsOpen, settingsMount, fetched, answer>>
pastConf == <<early, foreign, refused>>
savesVars == <<saves, savesMade>>
setVars == <<daemonConf, pageConf, visitConf, pastConf, savesVars>>

Unset == "unset"

SetTypeOK ==
  /\ {files, config, local, keptConf, edited, answer} \subseteq Confs
  /\ fetched \in {"asked", "answered", "arrived", "failed"}
  /\ section \in Fields \cup {NoField} /\ touched \subseteq Fields
  /\ saves \subseteq [mount : 1 .. MaxOpens, draft : Confs, conf : Confs, sent : SUBSET Fields,
                      touched : SUBSET Fields, step : {"sent", "answered", "failed"}]
  /\ savesMade \in 0 .. MaxSaves /\ changes \in 0 .. MaxElsewhere
  /\ accepted \in [Fields -> Values \cup {Unset}]

SetInit ==
  /\ files = Defaults /\ config = Defaults
  /\ settingsOpen = FALSE /\ settingsMount = 0
  /\ local = Defaults /\ keptConf = Defaults /\ fetched = "asked" /\ answer = Defaults
  /\ section = NoField /\ edited = Defaults /\ touched = {}
  /\ saves = {} /\ savesMade = 0 /\ changes = 0
  /\ early = FALSE /\ foreign = FALSE /\ refused = FALSE
  /\ accepted = [f \in Fields |-> Unset]

-----------------------------------------------------------------------------
\* loadProject, and GET /config is asked for.
OpensSettings ==
  /\ ~settingsOpen /\ settingsMount < MaxOpens
  /\ settingsOpen' = TRUE /\ settingsMount' = settingsMount + 1
  /\ local' = keptConf /\ fetched' = "asked"
  /\ section' = NoField /\ edited' = Defaults /\ touched' = {}
  /\ early' = (early /\ saves # {}) /\ foreign' = (saves # {}) /\ refused' = FALSE
  /\ UNCHANGED <<keptConf, answer, daemonConf, savesVars>>

LeavesSettings ==
  /\ settingsOpen /\ settingsOpen' = FALSE
  /\ UNCHANGED <<settingsMount, fetched, answer, daemonConf, pageConf, pastConf, savesVars>>

GetConfig ==
  /\ settingsOpen /\ fetched = "asked"
  /\ fetched' \in {"answered", "failed"} /\ answer' = config
  /\ UNCHANGED <<settingsOpen, settingsMount, daemonConf, pageConf, pastConf, savesVars>>

\* The effect on the configuration merges it into what is shown, a draft excepted.
ConfigArrives ==
  /\ settingsOpen /\ fetched = "answered"
  /\ local' = answer /\ fetched' = "arrived"
  /\ UNCHANGED <<settingsOpen, settingsMount, answer, keptConf, section, edited, touched, daemonConf,
                 pastConf, savesVars>>

-----------------------------------------------------------------------------
SaveRuns == \E s \in saves : s.mount = settingsMount

\* startEdit: "Modifier" stays enabled while another section is edited, or saved.
StartEdit(f) ==
  /\ settingsOpen /\ section # f
  /\ section' = f /\ edited' = local /\ touched' = {}
  /\ early' = (early \/ fetched # "arrived")
  /\ UNCHANGED <<local, keptConf, foreign, refused, daemonConf, visitConf, savesVars>>

\* setDraft of the section shown.
SetDraft(v) ==
  /\ settingsOpen /\ section # NoField
  /\ edited' = [edited EXCEPT ![section] = v] /\ touched' = touched \cup {section}
  /\ UNCHANGED <<local, keptConf, section, daemonConf, visitConf, pastConf, savesVars>>

CancelEdit ==
  /\ settingsOpen /\ section # NoField /\ ~SaveRuns
  /\ section' = NoField /\ edited' = Defaults /\ touched' = {}
  /\ UNCHANGED <<local, keptConf, daemonConf, visitConf, pastConf, savesVars>>

DiffLocalConfig(prev, next) == {f \in Fields : prev[f] # next[f]}

\* saveEdit: with nothing to tell the daemon the page just keeps the draft.
SaveEdit ==
  /\ settingsOpen /\ section # NoField /\ ~SaveRuns
  /\ savesMade < MaxSaves /\ savesMade' = savesMade + 1
  /\ IF DiffLocalConfig(local, edited) = {}
     THEN /\ local' = edited /\ keptConf' = edited
          /\ section' = NoField /\ edited' = Defaults /\ touched' = {}
          /\ UNCHANGED saves
     ELSE /\ saves' = saves \cup
               {[mount |-> settingsMount, draft |-> edited, conf |-> local, touched |-> touched,
                 sent |-> DiffLocalConfig(local, edited), step |-> "sent"]}
          /\ UNCHANGED pageConf
  /\ UNCHANGED <<daemonConf, visitConf, pastConf>>

\* PUT /config: merged into what the daemon has in memory; the answer is all of it, and may
\* get lost.  A body the schema refuses changes nothing.
PutConfig(s, outcome) ==
  /\ s.step = "sent"
  /\ LET updated == [f \in Fields |-> IF f \in s.sent THEN s.draft[f] ELSE config[f]] IN
     /\ config' = IF outcome = "refused" THEN config ELSE updated
     /\ saves' = (saves \ {s}) \cup
          {[s EXCEPT !.conf = updated,
                     !.step = IF outcome = "answered" THEN "answered" ELSE "failed"]}
     /\ accepted' = [f \in Fields |->
          IF f \notin s.sent \/ outcome = "refused" THEN accepted[f]
          ELSE IF outcome = "answered" THEN s.draft[f] ELSE Unset]
  /\ foreign' = (foreign \/ s.mount # settingsMount)
  /\ UNCHANGED <<files, changes, savesMade, early, refused, pageConf, visitConf>>

\* The rest of saveEdit: the draft it captured is shown and kept, and what is being edited by now
\* dropped; an answer becomes the configuration, whose effect runs after.  A page that was
\* left only keeps the draft.
SaveReturns(s) ==
  /\ s.step # "sent"
  /\ saves' = saves \ {s}
  /\ keptConf' = s.draft
  /\ IF settingsOpen /\ s.mount = settingsMount
     THEN /\ local' = IF s.step = "failed" THEN s.draft ELSE s.conf
          /\ section' = NoField /\ edited' = Defaults /\ touched' = {}
          /\ refused' = (refused \/ s.step = "failed")
     ELSE UNCHANGED <<local, section, edited, touched, refused>>
  /\ UNCHANGED <<savesMade, early, foreign, daemonConf, visitConf>>

-----------------------------------------------------------------------------
\* Another page sends one field.
OtherPuts(f, v) ==
  /\ changes < MaxElsewhere /\ changes' = changes + 1
  /\ config' = [config EXCEPT ![f] = v] /\ accepted' = [accepted EXCEPT ![f] = v]
  /\ foreign' = TRUE
  /\ UNCHANGED <<files, early, refused, pageConf, visitConf, savesVars>>

\* `loomflo config set`: read, changed and written without the daemon.
ConfigSet(f, v) ==
  /\ changes < MaxElsewhere /\ changes' = changes + 1
  /\ files' = [files EXCEPT ![f] = v]
  /\ UNCHANGED <<config, accepted, pageConf, visitConf, pastConf, savesVars>>

\* The daemon starts again, and registerProject loads the files: no update has reached them.
DaemonRestarts ==
  /\ changes < MaxElsewhere /\ changes' = changes + 1
  /\ \A s \in saves : s.step # "sent"
  /\ config' = files
  /\ foreign' = TRUE
  /\ UNCHANGED <<files, early, refused, accepted, pageConf, visitConf, savesVars>>

SetNext ==
  \/ OpensSettings \/ LeavesSettings \/ GetConfig \/ ConfigArrives
  \/ CancelEdit \/ SaveEdit \/ DaemonRestarts
  \/ \E f \in Fields : StartEdit(f)
  \/ \E v \in Values : SetDraft(v) \/ \E f \in Fields : OtherPuts(f, v) \/ ConfigSet(f, v)
  \/ \E s \in saves : \/ SaveReturns(s)
                      \/ \E o \in {"answered", "lost", "refused"} : PutConfig(s, o)

SetSpec == SetInit /\ [][SetNext]_setVars

-----------------------------------------------------------------------------
\* With no save under way the page shows what the daemon has, the edits of another client left
\* out; unless a section was opened before the configuration had come, or a save was refused:
\* that one is shown, and kept, as if it had been accepted.
SettingsAreTheDaemons ==
  settingsOpen /\ fetched = "arrived" /\ ~SaveRuns /\ ~early /\ ~refused /\ ~foreign
    => local = config

\* A save tells the daemon what was edited and nothing else, so that it takes back no change of
\* another client; unless the section was opened early: the defaults of the page are sent then.
OnlyEditsAreSent == early \/ \A s \in saves : s.sent \subseteq s.touched

SettingsAreKept == SettingsAreTheDaemons /\ OnlyEditsAreSent

\* The comment above PUT /config: it "merges the update into the current config and persists the
\* change".  What was answered with 200 is there after a restart too.
UpdatePersists == \A f \in Fields : accepted[f] \in {Unset, config[f]}

=============================================================================
