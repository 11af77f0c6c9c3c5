------------------------------- MODULE Wizard -------------------------------
(***************************************************************************)
(* The page that makes a project (dashboard pages/WizardPage.tsx): six     *)
(* steps over a draft that is kept in localStorage, and finalize(), which  *)
(* pushes a credential and then creates the project at the daemon.         *)
(*                                                                         *)
(* A field has the values its validity tells apart.  An effect that runs   *)
(* in the render after an event is part of the event.  A visit is one      *)
(* mount of the page; an attempt goes on when its visit is over.           *)
(***************************************************************************)
EXTENDS Naturals, Sequences

CONSTANTS
  ApiProviders,  \* providers that need a key of this browser
  Levels,        \* "standard", the default, among them
  CliAgents,     \* providers that need a command line tool, installed and logged in
  WizActs        \* bound on the mounts of the page, a restart of the wizard included, and the
                 \* attempts to create, together

None == "none"
Providers == ApiProviders \cup CliAgents

ASSUME WizardAssumption == WizActs \in Nat /\ "standard" \in Levels /\ None \notin Providers

VARIABLES
  draft,     \* what the page shows, its step included
  saved,     \* the draft in localStorage, or NoDraft
  keys,      \* the providers this browser has a key of
  ready,     \* the CLI agents the page has been told can be used
  modal,
  page,     \* the page: "wizard", "created", or "away"
  visit,
  attempts,  \* the calls of finalize() under way
  tries,
  profiles,  \* the daemon's credentials
  madeBy,      \* the visits that made the daemon's projects, in order
  answerLost,      \* history: an answer of the daemon was lost
  outlived    \* history: an attempt has made its project after its visit was over

formVars == <<draft, saved, keys, ready, modal>>
visitVars == <<page, visit>>
tryVars == <<attempts, tries, profiles>>
madeVars == <<madeBy, answerLost, outlived>>
wizVars == <<formVars, visitVars, tryVars, madeVars>>

\* DEFAULT_DRAFT.
DefaultDraft ==
  [step |-> 1, folder |-> "", provider |-> None, level |-> "standard", delay |-> "10m", name |-> ""]

Drafts ==
  [step : 1 .. 6, folder : {"", "absolute"}, provider : Providers \cup {None},
   level : Levels, delay : {"10m", "custom0"}, name : {"", "valid"}]

NoDraft == [step |-> 0]

WizTypeOK ==
  /\ draft \in Drafts
  /\ saved \in Drafts \cup {NoDraft}
  /\ keys \subseteq ApiProviders /\ ready \subseteq CliAgents
  /\ modal \in {None, "credential", "cancel"}
  /\ page \in {"wizard", "created", "away"}
  /\ visit \in 0 .. WizActs /\ tries \in 0 .. WizActs
  /\ attempts \subseteq [visit : 1 .. WizActs, of : Drafts, phase : {"credential", "project"}]
  /\ profiles \subseteq Providers \cup {"default"}
  /\ Len(madeBy) <= tries /\ answerLost \in BOOLEAN /\ outlived \in BOOLEAN

WizInit ==
  /\ draft = DefaultDraft /\ saved = NoDraft
  /\ keys = {} /\ ready = {} /\ modal = None
  /\ page = "away" /\ visit = 0
  /\ attempts = {} /\ tries = 0
  /\ profiles = {"default"} /\ madeBy = <<>> /\ answerLost = FALSE /\ outlived = FALSE

\* setDraft.
WritesDraft(d) == draft' = d /\ saved' = d

Creating == \E a \in attempts : a.visit = visit

Stay == UNCHANGED <<keys, ready, modal, visitVars, tryVars, madeVars>>

-----------------------------------------------------------------------------
\* loadDraft, loadCreds and the answer of /runtimes/availability; the effect on the step
\* writes the draft at once.
Opens(clis) ==
  /\ page = "away" /\ visit + tries < WizActs
  /\ visit' = visit + 1 /\ page' = "wizard" /\ modal' = None /\ ready' = clis
  /\ WritesDraft(IF saved = NoDraft THEN DefaultDraft ELSE saved)
  /\ UNCHANGED <<keys, tryVars, madeVars>>

\* providerIsValid, and the memo over all the steps.
ProviderIsValid(p) == p \in keys \cup ready

Validity(step) ==
  CASE step = 1 -> draft.folder = "absolute"
    [] step = 2 -> ProviderIsValid(draft.provider)
    [] step = 4 -> draft.delay # "custom0"
    [] step = 5 -> draft.name = "valid"
    [] OTHER    -> TRUE

\* The forms of the steps.
Step1(folder) == WritesDraft([draft EXCEPT !.folder = folder]) /\ Stay
Step2(p) == p \in keys \cup ready /\ WritesDraft([draft EXCEPT !.provider = p]) /\ Stay
Step3(level) == WritesDraft([draft EXCEPT !.level = level]) /\ Stay
Step4(delay) == WritesDraft([draft EXCEPT !.delay = delay]) /\ Stay
Step5(name) == WritesDraft([draft EXCEPT !.name = name]) /\ Stay

Edits ==
  /\ page = "wizard" /\ modal = None
  /\ \/ draft.step = 1 /\ \E f \in {"", "absolute"} : Step1(f)
     \/ draft.step = 2 /\ \E p \in Providers : Step2(p)
     \/ draft.step = 3 /\ \E l \in Levels : Step3(l)
     \/ draft.step = 4 /\ \E d \in {"10m", "custom0"} : Step4(d)
     \/ draft.step = 5 /\ \E n \in {"", "valid"} : Step5(n)

\* "Suivant", or Enter, which the page listens to on the screen after the creation too.
GoNext ==
  /\ page \in {"wizard", "created"} /\ modal = None
  /\ draft.step < 6 /\ Validity(draft.step)
  /\ WritesDraft([draft EXCEPT !.step = @ + 1])
  /\ Stay

JumpsTo(s) == s < draft.step

\* "Précédent" (goPrev), the rail and the recapitulation (goTo): only backwards.
GoTo(s) ==
  /\ page = "wizard" /\ modal = None
  /\ JumpsTo(s)
  /\ WritesDraft([draft EXCEPT !.step = s])
  /\ Stay

-----------------------------------------------------------------------------
OpensCredential ==
  /\ page = "wizard" /\ modal = None /\ draft.step = 2
  /\ modal' = "credential"
  /\ UNCHANGED <<draft, saved, keys, ready, visitVars, tryVars, madeVars>>

\* CredentialModal: a key is saved, or deleted, in this browser.
SavesKey(p, has) ==
  /\ modal = "credential" /\ page = "wizard"
  /\ keys' = IF has THEN keys \cup {p} ELSE keys \ {p}
  /\ modal' = None
  /\ UNCHANGED <<draft, saved, ready, visitVars, tryVars, madeVars>>

\* Escape, "Annuler": closes what is open; leaves at the first step, asks elsewhere.
Escape ==
  /\ page \in {"wizard", "created"}
  /\ IF modal # None THEN modal' = None /\ UNCHANGED page
     ELSE IF draft.step = 1 THEN page' = "away" /\ UNCHANGED modal
     ELSE modal' = "cancel" /\ UNCHANGED page
  /\ UNCHANGED <<draft, saved, keys, ready, visit, tryVars, madeVars>>

\* ConfirmCancelModal: the draft stays.
ConfirmsCancel ==
  /\ modal = "cancel" /\ page = "wizard"
  /\ page' = "away" /\ modal' = None
  /\ UNCHANGED <<draft, saved, keys, ready, visit, tryVars, madeVars>>

-----------------------------------------------------------------------------
ProfileOf(p) == IF p \in ApiProviders \cup {"claude-code"} THEN p ELSE "default"

MayCreate == ~Creating

\* finalize() begins, with the draft as it is now.
Finalize ==
  /\ page = "wizard" /\ modal = None /\ draft.step = 6 /\ MayCreate
  /\ visit + tries < WizActs /\ tries' = tries + 1
  /\ attempts' = attempts \cup
       {[visit |-> visit, of |-> draft,
         phase |-> IF draft.provider \in keys \cup {"claude-code"} THEN "credential" ELSE "project"]}
  /\ UNCHANGED <<profiles, formVars, visitVars, madeVars>>

\* upsertCredential is done; its answer may get lost, which ends the attempt.
UpsertsCredential(a, answered) ==
  /\ a.phase = "credential"
  /\ profiles' = profiles \cup {ProfileOf(a.of.provider)}
  /\ attempts' = (attempts \ {a}) \cup (IF answered THEN {[a EXCEPT !.phase = "project"]} ELSE {})
  /\ answerLost' = (answerLost \/ ~answered)
  /\ UNCHANGED <<tries, madeBy, outlived, formVars, visitVars>>

\* store.create: the daemon makes a project under a new id each time it is asked to.  The
\* page shows it, whatever step the user is at by now, and the draft is removed.
CreatesProject(a, answered) ==
  /\ a.phase = "project" /\ ProfileOf(a.of.provider) \in profiles
  /\ madeBy' = Append(madeBy, a.visit)
  /\ attempts' = attempts \ {a}
  /\ answerLost' = (answerLost \/ ~answered)
  /\ saved' = IF answered THEN NoDraft ELSE saved
  /\ page' = IF answered /\ a.visit = visit /\ page = "wizard" THEN "created" ELSE page
  /\ outlived' = (outlived \/ a.visit # visit \/ page = "away")
  /\ UNCHANGED <<draft, keys, ready, modal, visit, tries, profiles>>

\* Either call is refused, a project without its profile in any case.
AttemptFails(a) ==
  /\ attempts' = attempts \ {a}
  /\ UNCHANGED <<tries, profiles, formVars, visitVars, madeVars>>

\* "Recommencer": the default draft, which the effect writes when the step has changed.
Again ==
  /\ page = "created" /\ visit + tries < WizActs
  /\ visit' = visit + 1 /\ page' = "wizard"
  /\ draft' = DefaultDraft
  /\ saved' = IF draft.step = 1 THEN saved ELSE DefaultDraft
  /\ UNCHANGED <<keys, ready, modal, tryVars, madeVars>>

\* "Aller au brainstorming".
LeavesWizard ==
  /\ page = "created" /\ page' = "away"
  /\ UNCHANGED <<visit, formVars, tryVars, madeVars>>

WizNext ==
  \/ \E clis \in SUBSET CliAgents : Opens(clis)
  \/ Edits \/ GoNext \/ \E s \in 1 .. 6 : GoTo(s)
  \/ OpensCredential \/ \E p \in ApiProviders, has \in BOOLEAN : SavesKey(p, has)
  \/ Escape \/ ConfirmsCancel \/ Finalize \/ Again \/ LeavesWizard
  \/ \E a \in attempts :
       \/ AttemptFails(a)
       \/ \E answered \in BOOLEAN : UpsertsCredential(a, answered) \/ CreatesProject(a, answered)

WizSpec == WizInit /\ [][WizNext]_wizVars

-----------------------------------------------------------------------------
\* What the daemon is asked for is a draft that has passed every step, although a draft is
\* restored at its step and only the step that is shown is checked.
OnlyCompleteIsSent ==
  \A d \in {a.of : a \in attempts} :
    /\ d.folder = "absolute" /\ d.name = "valid"
    /\ d.provider # None /\ d.delay # "custom0"

\* A pass through the wizard makes one project, unless an answer was lost: the next try then
\* makes a second one for the same folder.
OncePerPass ==
  answerLost \/ \A i, j \in DOMAIN madeBy : i # j => madeBy[i] # madeBy[j]

\* While the wizard is shown a reload brings back what it shows; but an attempt that makes its
\* project after the user has left removes the draft of the next visit.
DraftIsKept ==
  page = "wizard" =>
    outlived \/ saved = draft \/ (saved = NoDraft /\ draft = DefaultDraft)

WizardKeepsItsWord == OnlyCompleteIsSent /\ OncePerPass /\ DraftIsKept

=============================================================================
