---------------------------- MODULE ProviderCalls ----------------------------
(***************************************************************************)
(* Calls of a language model: how a provider finds its credentials         *)
(* (providers/credentials.ts), the retries of one call (anthropic.ts,      *)
(* openai.ts), what the caller makes of its error (provider-retry.ts) and  *)
(* what it costs (costs/tracker.ts).                                       *)
(*                                                                         *)
(* The calls of one provider run concurrently and share its HTTP client.   *)
(* With the login of Claude Code every call reads the token again and puts *)
(* it into the client, where each attempt of every call finds it; Claude   *)
(* Code refreshes its file meanwhile.  An action is the code between two   *)
(* awaits.                                                                 *)
(***************************************************************************)
EXTENDS Naturals, Sequences, SequencesExt, FiniteSets

CONSTANTS
  CallIds,        \* the calls of the provider
  Profiles,       \* a subset of {"anthropic-oauth", "anthropic", "openai"}
  Environments,   \* sets of the variables the daemon may have been started with
  MaxCallRetries, \* retries of one call (5 in the code)
  MaxRefreshes,   \* bound: times Claude Code refreshes its token
  Statuses,       \* what the service may answer a request with good credentials instead of a completion
  BudgetLimit     \* in calls; no limit is a limit that is never reached

ASSUME ProviderCallsAssumption ==
  /\ {MaxCallRetries, MaxRefreshes, BudgetLimit} \subseteq Nat /\ IsFiniteSet(CallIds)
  /\ Statuses \subseteq Nat \ {0, 200, 401}

Tokens == 1 .. MaxRefreshes + 1
NoToken == 0
NoError == [status |-> 0, text |-> ""]

VARIABLES
  profile, environ,
  provider,   \* what was built: "none", "failed", "apiKey", "envToken", "claude", "openai"
  loginToken, \* the token the file held when the provider was built
  claudeFile, \* ~/.claude/.credentials.json: a token, or NoToken if it cannot be used
  expired,    \* tokens past their time
  authToken,  \* of the client all calls share
  callAt, attempt,
  readToken,  \* what the call has read
  sentToken,  \* what its last attempt was sent with
  callError,  \* what the caller got
  lastStatus, \* history: what the service answered last
  offered,    \* history: the token the file had to offer when the call began
  undercut,   \* history: calls whose token another call replaced by an older one
  perAgent, totalCost

callVars == <<profile, environ, provider, loginToken, claudeFile, expired, authToken, callAt, attempt,
              readToken, sentToken, callError, lastStatus, offered, undercut, perAgent,
              totalCost>>
setupVars == <<profile, environ, provider, loginToken>>
loginVars == <<claudeFile, expired>>
costVars == <<perAgent, totalCost>>

Failures ==
  {NoError} \cup [status : Statuses \cup {0, 401}, text : {"overloaded", "credit", "other"}]

CallTypeOK ==
  /\ profile \in Profiles /\ environ \in Environments
  /\ provider \in {"none", "failed", "apiKey", "envToken", "claude", "openai"}
  /\ {loginToken, claudeFile, authToken} \subseteq Tokens \cup {NoToken} /\ expired \subseteq Tokens
  /\ callAt \in [CallIds -> {"none", "reading", "sending", "waiting", "done", "threw"}]
  /\ attempt \in [CallIds -> 0 .. MaxCallRetries]
  /\ {readToken, sentToken} \subseteq [CallIds -> Tokens \cup {NoToken}]
  /\ callError \in [CallIds -> Failures] /\ lastStatus \in [CallIds -> Statuses \cup {0, 200, 401}]
  /\ offered \in [CallIds -> Tokens \cup {NoToken}] /\ undercut \subseteq CallIds
  /\ perAgent \in [CallIds -> Nat] /\ totalCost \in Nat

CallsStart ==
  /\ provider = "none" /\ loginToken = NoToken /\ claudeFile = 1 /\ expired = {}
  /\ authToken = NoToken
  /\ callAt = [c \in CallIds |-> "none"] /\ attempt = [c \in CallIds |-> 0]
  /\ readToken = [c \in CallIds |-> NoToken] /\ sentToken = [c \in CallIds |-> NoToken]
  /\ callError = [c \in CallIds |-> NoError] /\ lastStatus = [c \in CallIds |-> 0]
  /\ offered = [c \in CallIds |-> NoToken] /\ undercut = {}
  /\ perAgent = [c \in CallIds |-> 0] /\ totalCost = 0

CallInit == profile \in Profiles /\ environ \in Environments /\ CallsStart

-----------------------------------------------------------------------------
\* readClaudeCodeCredentials: nothing if the file cannot be used or its token is past its time.
ReadClaudeCode == IF claudeFile \in expired THEN NoToken ELSE claudeFile

\* resolveCredentials: the environment comes before the login the profile asks for.
Resolved ==
  CASE "ANTHROPIC_API_KEY" \in environ -> "apiKey"
    [] "ANTHROPIC_API_KEY" \notin environ /\ "ANTHROPIC_OAUTH_TOKEN" \in environ -> "envToken"
    [] OTHER -> IF ReadClaudeCode = NoToken THEN "failed" ELSE "claude"

\* buildProviderFromProfile, when a project is registered.
BuildsProvider ==
  /\ provider = "none"
  /\ provider' = CASE profile = "anthropic-oauth" -> Resolved
                   [] profile = "anthropic" -> "apiKey"
                   [] OTHER -> "openai"
  /\ loginToken' = IF provider' = "claude" THEN ReadClaudeCode ELSE NoToken
  /\ UNCHANGED <<profile, environ, loginVars, authToken, callAt, attempt, readToken, offered, sentToken,
                 callError, lastStatus, undercut, costVars>>

\* Claude Code: a newer token, a file that cannot be used; and time passes.
Refreshed == \E t \in Tokens : t = Cardinality(expired) + 1 /\ t > claudeFile /\ claudeFile' = t
FileChanges ==
  /\ \/ Refreshed /\ UNCHANGED expired
     \/ claudeFile # NoToken /\ claudeFile' = NoToken /\ UNCHANGED expired
     \/ \E t \in Tokens : /\ t = Cardinality(expired) + 1 /\ t <= MaxRefreshes
                          /\ expired' = expired \cup {t} /\ UNCHANGED claudeFile
  /\ UNCHANGED <<setupVars, authToken, callAt, attempt, readToken, offered, sentToken, callError,
                 lastStatus, undercut, costVars>>

\* complete: the token is read again for every call, or the loginToken one is used.
TokenFor == IF ReadClaudeCode # NoToken THEN ReadClaudeCode ELSE loginToken

Calls(c) ==
  /\ callAt[c] = "none" /\ provider \notin {"none", "failed"}
  /\ callAt' = [callAt EXCEPT ![c] = IF provider = "claude" THEN "reading" ELSE "sending"]
  /\ offered' = [offered EXCEPT ![c] = ReadClaudeCode]
  /\ readToken' = [readToken EXCEPT ![c] = IF provider = "claude" THEN TokenFor ELSE NoToken]
  /\ UNCHANGED <<setupVars, loginVars, authToken, attempt, sentToken, callError, lastStatus,
                 undercut, costVars>>

\* What was read is put into the client; calls under way that had read a newer one go on with it.
PutsToken(c) ==
  /\ callAt[c] = "reading" /\ callAt' = [callAt EXCEPT ![c] = "sending"]
  /\ authToken' = readToken[c]
  /\ undercut' = undercut \cup {d \in CallIds : callAt[d] \in {"sending", "waiting"}
                                                /\ readToken[d] > readToken[c]}
  /\ UNCHANGED <<setupVars, loginVars, attempt, readToken, offered, sentToken, callError, lastStatus, costVars>>

-----------------------------------------------------------------------------
\* The statuses a provider tries again.
TriedAgain == IF provider = "openai" THEN {429, 500, 503} ELSE {429, 529}

\* What complete throws: the SDK's error with its status, "overloaded" for the Anthropic retries
\* that are used up; neither keeps the headers.
Thrown(status, text) ==
  IF status \in TriedAgain /\ provider # "openai" THEN [status |-> 0, text |-> "overloaded"]
  ELSE [status |-> status, text |-> text]

\* The service takes no token past its time.
Answers401 == provider = "claude" /\ authToken \in expired

\* CostTracker.recordCall.
RecordCall(c) == perAgent' = [perAgent EXCEPT ![c] = @ + 1] /\ totalCost' = totalCost + 1

Completes(c) ==
  /\ callAt[c] = "sending" /\ ~Answers401
  /\ callAt' = [callAt EXCEPT ![c] = "done"] /\ sentToken' = [sentToken EXCEPT ![c] = authToken]
  /\ lastStatus' = [lastStatus EXCEPT ![c] = 200]
  /\ RecordCall(c)
  /\ UNCHANGED <<setupVars, loginVars, authToken, attempt, readToken, offered, callError, undercut>>

\* An attempt fails: with a status, or, status 0, on the network or while its answer is read.
Fails(c) ==
  /\ callAt[c] = "sending" /\ sentToken' = [sentToken EXCEPT ![c] = authToken]
  /\ \E status \in (IF Answers401 THEN {401} ELSE Statuses \cup {0}), text \in {"credit", "other"} :
       /\ lastStatus' = [lastStatus EXCEPT ![c] = status]
       /\ IF status \in TriedAgain /\ attempt[c] < MaxCallRetries
          THEN callAt' = [callAt EXCEPT ![c] = "waiting"] /\ UNCHANGED callError
          ELSE /\ callAt' = [callAt EXCEPT ![c] = "threw"]
               /\ callError' = [callError EXCEPT ![c] = Thrown(status, text)]
  /\ UNCHANGED <<setupVars, loginVars, authToken, attempt, readToken, offered, undercut, costVars>>

\* The wait between two attempts is over; the token is not read again.
TriesAgain(c) ==
  /\ callAt[c] = "waiting" /\ callAt' = [callAt EXCEPT ![c] = "sending"]
  /\ attempt' = [attempt EXCEPT ![c] = @ + 1]
  /\ UNCHANGED <<setupVars, loginVars, authToken, readToken, offered, sentToken, callError, lastStatus,
                 undercut, costVars>>

CallNext == \/ BuildsProvider \/ FileChanges
            \/ \E c \in CallIds : \/ Calls(c) \/ PutsToken(c)
                                \/ Completes(c) \/ Fails(c) \/ TriesAgain(c)

CallSpec == CallInit /\ [][CallNext]_callVars

-----------------------------------------------------------------------------
\* classifyProviderError: by the status, in a field or in the text, then by the words of the text.
IsRateLimit(error) == error.status \in {429, 529} \/ error.text \in {"overloaded", "credit"}

IsBudgetExceeded == totalCost >= BudgetLimit
BudgetRemaining == IF totalCost > BudgetLimit THEN 0 ELSE BudgetLimit - totalCost

-----------------------------------------------------------------------------
\* The messages of a call: text, tool calls and their results, by id.
Text == [type |-> "text", id |-> 0]
Use(i) == [type |-> "tool_use", id |-> i]
ResultOf(i) == [type |-> "tool_result", id |-> i]

OfType(blocks, type) == SelectSeq(blocks, LAMBDA b : b.type = type)
Ids(blocks) == [i \in 1 .. Len(blocks) |-> blocks[i].id]

\* toOpenAIMessages: the texts of a message are joined; each result is a message of its own, and
\* what the user has to say comes after all of them.
ToOpenAI(message) ==
  IF message.role = "assistant"
  THEN <<[role |-> "assistant", said |-> OfType(message.blocks, "text") # <<>>,
          calls |-> Ids(OfType(message.blocks, "tool_use"))]>>
  ELSE LET results == OfType(message.blocks, "tool_result") IN
       [i \in 1 .. Len(results) |-> [role |-> "tool", said |-> TRUE, calls |-> <<results[i].id>>]]
       \o IF OfType(message.blocks, "text") = <<>> THEN <<>>
          ELSE <<[role |-> "user", said |-> TRUE, calls |-> <<>>]>>

\* fromOpenAIContent: the text, then the calls.
FromOpenAI(m) == (IF m.said THEN <<Text>> ELSE <<>>) \o [i \in 1 .. Len(m.calls) |-> Use(m.calls[i])]

\* An assistant's message and the user's answer to it, a result for every call in any order.
Exchanges ==
  {<<[role |-> "assistant", blocks |-> said], [role |-> "user", blocks |-> answer]>> :
     said \in {<<Text>>, <<Use(1)>>, <<Text, Use(1)>>, <<Use(1), Use(2)>>, <<Use(1), Text, Use(2)>>},
     answer \in {<<Text>>, <<ResultOf(1)>>, <<Text, ResultOf(1)>>, <<ResultOf(2), ResultOf(1)>>,
                 <<ResultOf(1), Text, ResultOf(2)>>}}
Asked(exchange) == ToSet(Ids(OfType(exchange[1].blocks, "tool_use")))
Told(exchange) == ToSet(Ids(OfType(exchange[2].blocks, "tool_result")))

\* What the API demands of a translated conversation survives the translation, whatever the order
\* the blocks came in: right after its message every tool call is answered, once and by a message
\* of its own, before anybody else speaks; and an answer comes back as the blocks it was made of.
ASSUME TranslationAssumption ==
  \A e \in Exchanges : Asked(e) = Told(e) =>
    LET sent == FlattenSeq(<<ToOpenAI(e[1]), ToOpenAI(e[2])>>)
        n == Len(sent[1].calls) IN
    /\ {sent[1 + i].calls[1] : i \in 1 .. n} = ToSet(sent[1].calls)
    /\ \A i \in 1 .. Len(sent) : sent[i].role = "tool" <=> i \in 2 .. n + 1
    /\ ToSet(FromOpenAI(sent[1])) = ToSet(e[1].blocks)

-----------------------------------------------------------------------------
\* A call fails for its credentials only when there were none: its token had expired since it
\* was read, or the file had no other to offer, or another call put an older one in its place;
\* a service that is busy is seen as such by the caller, after all the retries; and the
\* accounts agree, with the budget exceeded just when nothing of it remains.
CallsAreJustified ==
  /\ \A c \in CallIds : callAt[c] = "threw" =>
       /\ callError[c].status = 401 =>
            c \in undercut \/ sentToken[c] >= offered[c]
       /\ lastStatus[c] \in {429, 529} \cap TriedAgain =>
            IsRateLimit(callError[c]) /\ attempt[c] = MaxCallRetries
  /\ totalCost = Cardinality({c \in CallIds : callAt[c] = "done"})
  /\ \A c \in CallIds : perAgent[c] = (IF callAt[c] = "done" THEN 1 ELSE 0)
  /\ IsBudgetExceeded <=> BudgetRemaining = 0

=============================================================================
