----------------------------- MODULE Brainstorm -----------------------------
(***************************************************************************)
(* The conversation before the specification (dashboard pages/             *)
(* BrainstormPage.tsx): questions to Loom, whose answers are typed out by  *)
(* timers, the transcript in localStorage, the history fetched when there  *)
(* is none, a reset, and the launch with the brief made of the questions.  *)
(*                                                                         *)
(* A message is its number, an answer that of its question; 0 stands for   *)
(* the notices of the page.  A render, with its effects, is a step of its  *)
(* own only where the code leaves room before it: after the effect that    *)
(* hydrates the page.                                                      *)
(***************************************************************************)
EXTENDS Naturals, Sequences, FiniteSets

CONSTANTS
  Tokens,        \* whether the page has a token: a set of cases
  MaxQuestions,  \* bound on the questions
  MaxResets,     \* bound on the resets
  MaxMounts,     \* bound on the mounts of the page
  BriefTarget         \* the answers after which the launch is offered

ASSUME BrainstormAssumption ==
  Tokens \subseteq BOOLEAN /\ {MaxQuestions, MaxResets, MaxMounts, BriefTarget} \subseteq Nat

VARIABLES
  online,        \* the case: the page has a token
  open,          \* the page is mounted
  mounts,
  messages,      \* the transcript, persisted by an effect at each change
  questions,         \* questions so far
  waiting,       \* questions postChat has not answered
  thinking,
  streaming,     \* the answer shown as it is typed, or Nothing
  streamTimers,        \* answers of which a timer still runs
  streamTimer,         \* the one streamTimerRef names
  bootstrapped,  \* hasBootstrapped
  hydration,     \* the call of getChatHistory: "none", "asked", "cancelled", "arrived", "dropped"
  launching,     \* the briefs with which initWorkflow is under way
  brief,         \* what the daemon has been given, or NoBrief
  resets,
  firstKept,     \* history: the first question since the last reset
  resetCrossed        \* history: a reset found a question unanswered

mountVars == <<online, open, mounts>>
talkVars == <<messages, questions, waiting, thinking>>
streamVars == <<streaming, streamTimers, streamTimer>>
startVars == <<bootstrapped, hydration>>
launchVars == <<launching, brief>>
resetVars == <<resets, firstKept, resetCrossed>>
bsVars == <<mountVars, talkVars, streamVars, startVars, launchVars, resetVars>>

Nothing == MaxQuestions + 1
NoBrief == <<Nothing>>
Questions == 1 .. MaxQuestions
Message == [from : {"user", "loom"}, n : 0 .. MaxQuestions]

BsTypeOK ==
  /\ {online, open} \subseteq BOOLEAN /\ mounts \in 0 .. MaxMounts /\ resets \in 0 .. MaxResets
  /\ messages \in Seq(Message)
  /\ questions \in 0 .. MaxQuestions /\ firstKept \in 1 .. MaxQuestions + 1
  /\ waiting \subseteq Questions
  /\ thinking \in BOOLEAN /\ bootstrapped \in BOOLEAN /\ resetCrossed \in BOOLEAN
  /\ {streaming, streamTimer} \subseteq 0 .. Nothing /\ streamTimers \subseteq 0 .. MaxQuestions
  /\ hydration \in {"none", "asked", "cancelled", "arrived", "dropped"}

BsInit ==
  /\ online \in Tokens /\ open = FALSE /\ mounts = 0 /\ messages = <<>> /\ questions = 0
  /\ waiting = {} /\ thinking = FALSE
  /\ streaming = Nothing /\ streamTimers = {} /\ streamTimer = Nothing
  /\ bootstrapped = FALSE /\ hydration = "none"
  /\ launching = {} /\ brief = NoBrief
  /\ resets = 0 /\ firstKept = 1 /\ resetCrossed = FALSE

\* beginStream: the timer of an earlier stream runs on.
BeginStream(n) ==
  /\ streaming' = n /\ streamTimers' = streamTimers \cup {n} /\ streamTimer' = n

Says(from, n) == messages' = Append(messages, [from |-> from, n |-> n])

\* With a transcript the page counts as bootstrapped; what was under way when it was left is
\* nobody's any more.
Mounts ==
  /\ ~open /\ mounts < MaxMounts
  /\ open' = TRUE /\ mounts' = mounts + 1
  /\ bootstrapped' = (messages # <<>>)
  /\ waiting' = {} /\ thinking' = FALSE
  /\ streaming' = Nothing /\ streamTimers' = {} /\ streamTimer' = Nothing
  /\ hydration' = "none" /\ launching' = {}
  /\ UNCHANGED <<online, messages, questions, brief, resetVars>>

LeavesBrainstorm ==
  /\ open /\ open' = FALSE
  /\ UNCHANGED <<online, mounts, talkVars, streamVars, startVars, launchVars, resetVars>>

-----------------------------------------------------------------------------
\* The effect that hydrates: offline a notice, online the history of the daemon ...
Hydrates ==
  /\ open /\ ~bootstrapped
  /\ bootstrapped' = TRUE
  /\ IF online THEN hydration' = "asked" /\ UNCHANGED streamVars
               ELSE BeginStream(0) /\ UNCHANGED hydration
  /\ UNCHANGED <<mountVars, talkVars, launchVars, resetVars>>

\* ... and, as the effect depends on hasBootstrapped, which it has just set, the next render
\* cleans it up.
Rerenders ==
  /\ open /\ hydration = "asked"
  /\ hydration' = "cancelled"
  /\ UNCHANGED <<bootstrapped, mountVars, talkVars, streamVars, launchVars, resetVars>>

\* The history arrives, or the request fails: then, and when the daemon has none, Loom welcomes.
HistoryArrives(empty) ==
  /\ open /\ hydration \in {"asked", "cancelled"}
  /\ IF hydration = "cancelled"
     THEN hydration' = "dropped" /\ UNCHANGED <<online, messages, streamVars>>
     ELSE /\ hydration' = "arrived"
          /\ IF empty THEN BeginStream(0) /\ UNCHANGED messages
                      ELSE Says("loom", 0) /\ UNCHANGED streamVars
  /\ UNCHANGED <<questions, waiting, thinking, bootstrapped, mountVars, launchVars, resetVars>>

-----------------------------------------------------------------------------
MaySubmit_Faulty == streaming = Nothing
MaySubmit == streaming = Nothing /\ ~thinking

Submit ==
  /\ open /\ MaySubmit /\ questions < MaxQuestions
  /\ bootstrapped /\ hydration # "asked"
  /\ questions' = questions + 1
  /\ Says("user", questions + 1)
  /\ IF online
     THEN waiting' = waiting \cup {questions + 1} /\ thinking' = TRUE
          /\ UNCHANGED streamVars
     ELSE BeginStream(0) /\ UNCHANGED <<waiting, thinking>>
  /\ UNCHANGED <<mountVars, startVars, launchVars, resetVars>>

\* postChat answers, or fails, which Loom's bubble then says.
LoomAnswers(n) ==
  /\ open /\ n \in waiting
  /\ waiting' = waiting \ {n} /\ thinking' = FALSE
  /\ BeginStream(n)
  /\ UNCHANGED <<messages, questions, mountVars, startVars, launchVars, resetVars>>

\* A timer fires before the end of its text, or at it.
Ticks(n) ==
  /\ open /\ n \in streamTimers /\ streamTimer' = n
  /\ UNCHANGED <<streaming, streamTimers, mountVars, talkVars, startVars, launchVars, resetVars>>

Typed(n) ==
  /\ open /\ n \in streamTimers
  /\ streamTimers' = streamTimers \ {n}
  /\ Says("loom", n)
  /\ streaming' = Nothing
  /\ UNCHANGED <<questions, waiting, thinking, streamTimer, mountVars, startVars, launchVars,
                 resetVars>>

\* skipStream clears the timer the reference names, and shows the text that is streaming.
SkipStream ==
  /\ open /\ streaming # Nothing
  /\ streamTimers' = streamTimers \ {streamTimer}
  /\ Says("loom", streaming)
  /\ streaming' = Nothing
  /\ UNCHANGED <<questions, waiting, thinking, streamTimer, mountVars, startVars, launchVars,
                 resetVars>>

\* doReset: the daemon's history, and a question it is answering, are left alone.
DoReset ==
  /\ open /\ resets < MaxResets
  /\ resets' = resets + 1
  /\ streamTimers' = streamTimers \ {streamTimer}
  /\ messages' = <<>> /\ streaming' = Nothing /\ thinking' = FALSE /\ bootstrapped' = FALSE
  /\ firstKept' = questions + 1
  /\ resetCrossed' = (resetCrossed \/ waiting # {})
  /\ UNCHANGED <<questions, waiting, streamTimer, hydration, mountVars, launchVars>>

-----------------------------------------------------------------------------
IsQuestion(m) == m.from = "user"

\* buildDescription, the project's name when nothing has been said: the questions, in their order.
Asked == {i \in DOMAIN messages : IsQuestion(messages[i])}
Description ==
  [j \in 1 .. Cardinality(Asked) |->
     messages[CHOOSE i \in Asked : Cardinality({k \in Asked : k <= i}) = j].n]

AnswersShown == Len(messages) - Len(Description)

\* launchSpec needs enough answers and no call under way; skipBrainstorm neither.
Launch(skips) ==
  /\ open
  /\ skips \/ (/\ AnswersShown >= BriefTarget /\ streaming = Nothing /\ ~thinking
               /\ launching = {})
  /\ online
  /\ launching' = launching \cup {Description}
  /\ UNCHANGED <<brief, mountVars, talkVars, streamVars, startVars, resetVars>>

\* initWorkflow: accepted once, and the page leaves for the workflow; else it says why not.
Launched(b, ok) ==
  /\ launching' = launching \ {b}
  /\ ok => brief = NoBrief
  /\ brief' = IF ok THEN b ELSE brief
  /\ open' = (open /\ ~ok)
  /\ UNCHANGED <<online, mounts, talkVars, streamVars, startVars, resetVars>>

BsNext ==
  \/ Mounts \/ LeavesBrainstorm \/ Hydrates \/ Rerenders
  \/ Submit \/ SkipStream \/ DoReset
  \/ \E b \in BOOLEAN : HistoryArrives(b) \/ Launch(b)
  \/ \E b \in launching, ok \in BOOLEAN : Launched(b, ok)
  \/ \E n \in 0 .. MaxQuestions : LoomAnswers(n) \/ Ticks(n) \/ Typed(n)

BsSpec == BsInit /\ [][BsNext]_bsVars

-----------------------------------------------------------------------------
\* Unless a reset has left a question under way, an answer follows its question, and is shown once.
AnswersFollow ==
  \/ resetCrossed
  \/ \A i \in DOMAIN messages :
       messages[i].from = "loom" /\ messages[i].n # 0 =>
         i > 1 /\ messages[i - 1] = [from |-> "user", n |-> messages[i].n]

\* Nothing that was said since the last reset is missing from the transcript, from which the
\* brief is made, though the page has been left and come back to.
NothingIsForgotten ==
  open => Description = [i \in 1 .. questions + 1 - firstKept |-> firstKept + i - 1]

ConversationIsKept == AnswersFollow /\ NothingIsForgotten

=============================================================================
