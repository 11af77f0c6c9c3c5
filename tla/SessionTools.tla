---------------------------- MODULE SessionTools ----------------------------
(***************************************************************************)
(* What a session of a runtime is given and may do: the runtime of a node  *)
(* (registry.ts), its credentials and its write scope (run-node.ts), the   *)
(* one client all of copilot's sessions share (copilot.ts), the tools of a *)
(* role (mcp/loomflo-tools.ts, copilot-tools.ts, agents-config), the check *)
(* before a tool is used (can-use-tool.ts), and the scripts a mock session *)
(* replays (mock.ts). A scope is a set of areas, whatever its globs are.   *)
(*                                                                         *)
(* What becomes of one session: runNodeWithRuntime (runtimes/run-node.ts)  *)
(* over mock.ts, claude-agent.ts or copilot.ts. The session emits events;  *)
(* the subscriber adds up their costs, aborts the session once it has cost *)
(* too much, and answers with the node's result when it ends. Handlers run *)
(* inside emit, so an event and what its subscriber does are one action.   *)
(* Texts, tool calls and rate-limit notices change nothing there and are   *)
(* left out, as are events nobody is subscribed to yet.                    *)
(***************************************************************************)
EXTENDS Naturals, Sequences

CONSTANTS
  SessNodes,   \* nodes, one session each
  Areas,       \* the project's files, as far as scopes tell them apart
  SessKinds,   \* the nodes each may be: [runtime, role it is run in, own and others' scopes];
               \* the daemon runs every node as "loomi"
  MaxSessActs  \* bound: tools a session uses

ASSUME SessionToolsAssumption ==
  /\ SessKinds \in [SessNodes -> SUBSET [runtime : {"loomi-native", "claude-agent", "copilot", "mock"},
                                         role : {"loom", "loomi", "looma", "loomex"},
                                         own : SUBSET Areas, others : SUBSET Areas]]
  /\ MaxSessActs \in Nat

VARIABLES
  node,      \* of each, its kind
  keys,      \* the credentials around: "apiKey", "claudeOauth"
  sess,      \* of each: [pc, scope, acts]
  client,    \* copilot's clientPromise: "none", "starting", "ready" or "broken"
  wrote,     \* history: <<node, area, tool>> written
  did,       \* history: <<node, effect>> other than writing files
  script,    \* of a mock session: the scenario
  heard      \* of a mock session: the kinds of event its subscriber has had

sessToolVars == <<node, keys, sess, client, wrote, did, script, heard>>

-----------------------------------------------------------------------------
\* The tools a session's server or SDK is given, by role: the same in both.
ReadTools == {"read_file", "list_files", "search_files", "read_memory"}
RoleTools(role) ==
  ReadTools
  \cup CASE role = "loom"  -> {"write_memory"}
         [] role = "loomi" -> {"write_memory", "send_message", "escalate"}
         [] role = "looma" -> {"write_memory", "write_file", "edit_file", "exec_command",
                               "send_message", "report_complete"}
         [] role = "loomex" -> {}

\* copilot-tools.ts has its own copy of that selection.
CopilotTools(role) == RoleTools(role)

\* The tools a role is told it has: loom's graph tools are on no server, loomi's dispatcher and
\* its report_complete neither.
AllowedTools(role) ==
  CASE role = "loom"  -> ReadTools \cup {"write_memory", "add_node", "remove_node",
                                         "update_node_instructions", "escalate_response"}
    [] role = "loomi" -> ReadTools \cup {"write_memory", "send_message", "report_complete",
                                         "escalate", "Agent"}
    [] role = "looma" -> RoleTools("looma")
    [] role = "loomex" -> ReadTools

\* buildSdkOptions: loom and loomi have their workers and reviewers registered as subagents.
Subagents(role) == IF role \in {"loom", "loomi"} THEN {"looma", "loomex"} ELSE {}

\* What a session of claude-agent may call: a tool of a role in it, its own or a subagent's, that
\* the session's one server has.  The server is that of the session's own role.
ClaudeTools(role) ==
  RoleTools(role) \cap UNION {AllowedTools(r) : r \in {role} \cup Subagents(role)}

\* deriveFileScope: only workers write files; their own entry, or everybody's, or everything.
DeriveFileScope(n) ==
  IF node[n].role # "looma" THEN {}
  ELSE IF node[n].own # {} THEN node[n].own
  ELSE IF node[n].others # {} THEN node[n].others ELSE Areas

\* buildCanUseTool: only the two tools that write files are looked at.
CanUse(n, tool, area) == tool \in {"write_file", "edit_file"} => area \in sess[n].scope

\* buildSdkAuthEnv and buildCopilotProvider, of what resolveClaudeAgentCredentials finds: an API
\* key first.  copilot's own subscription is never found, and Claude's is nothing to copilot.
Credentials == CASE "apiKey" \in keys -> "api-key-anthropic"
                 [] keys = {"claudeOauth"} -> "oauth-claude-code"
                 [] OTHER -> "none"
Accepts(rt, creds) == rt = "mock" \/ creds = "api-key-anthropic"
                      \/ (rt = "claude-agent" /\ creds = "oauth-claude-code")

-----------------------------------------------------------------------------
\* The scenarios a mock runtime picks from, as the kinds of their steps.
TextOnly == <<"text", "text", "cost", "idle">>
ToolCall == <<"text", "call", "result", "text", "cost", "idle">>  \* reads; writes
ManyWorkers == <<"text", "call", "result", "text", "call", "result", "text", "cost", "idle">>
RateLimited == <<"text", "limited", "text", "cost", "idle">>
Scenarios == {TextOnly, ToolCall, ManyWorkers, RateLimited}

NotOpen == [pc |-> "none", scope |-> {}, acts |-> 0]

SessToolsTypeOK ==
  /\ DOMAIN node = SessNodes /\ \A n \in SessNodes : node[n] \in SessKinds[n]
  /\ keys \subseteq {"apiKey", "claudeOauth"}
  /\ sess \in [SessNodes -> [pc : {"none", "client", "create", "open", "native", "ended", "aborted", "rejected"},
                             scope : SUBSET Areas, acts : 0 .. MaxSessActs]]
  /\ client \in {"none", "starting", "ready", "broken"}
  /\ wrote \subseteq SessNodes \X Areas \X {"write_file", "edit_file", "exec_command"}
  /\ did \subseteq SessNodes \X {"write_memory", "send_message", "report_complete", "escalate"}
  /\ script \in [SessNodes -> Scenarios \cup {<<>>}]
  /\ \A n \in SessNodes : Len(heard[n]) <= Len(script[n]) + 2

SessToolsStart ==
  /\ sess = [n \in SessNodes |-> NotOpen] /\ client = "none" /\ wrote = {} /\ did = {}
  /\ script = [n \in SessNodes |-> <<>>] /\ heard = [n \in SessNodes |-> <<>>]

SessToolsInit ==
  /\ node \in {f \in [SessNodes -> UNION {SessKinds[n] : n \in SessNodes}] :
                  \A n \in SessNodes : f[n] \in SessKinds[n]}
  /\ keys \in {{}, {"claudeOauth"}, {"apiKey"}}
  /\ SessToolsStart

SessGoes(n, pc) == sess' = [sess EXCEPT ![n].pc = pc]

-----------------------------------------------------------------------------
\* runNodeWithRuntime up to startSession: the native runtime is not its business; without
\* credentials, or with those of another runtime, it rejects.
RunNode(n) ==
  /\ sess[n].pc = "none"
  /\ LET rt == node[n].runtime IN
     \/ rt = "loomi-native" /\ SessGoes(n, "native") /\ UNCHANGED <<script, client>>
     \/ /\ rt \in {"claude-agent", "copilot"} /\ Credentials = "none"
        /\ SessGoes(n, "rejected") /\ UNCHANGED <<script, client>>
     \/ /\ rt = "mock" /\ UNCHANGED client
        /\ sess' = [sess EXCEPT ![n] = [NotOpen EXCEPT !.pc = "open", !.scope = DeriveFileScope(n)]]
        /\ \E s \in Scenarios : script' = [script EXCEPT ![n] = s] \* pickScenario
     \/ /\ rt = "claude-agent" /\ Credentials # "none" /\ UNCHANGED <<script, client>>
        /\ IF Accepts(rt, Credentials)
           THEN sess' = [sess EXCEPT ![n] = [NotOpen EXCEPT !.pc = "open", !.scope = DeriveFileScope(n)]]
           ELSE SessGoes(n, "rejected")
     \/ /\ rt = "copilot" /\ Credentials # "none" /\ UNCHANGED script
        /\ SessGoes(n, "client") /\ client' = IF client = "none" THEN "starting" ELSE client
  /\ UNCHANGED <<node, keys, wrote, did, heard>>

\* getClient: client.start() resolves or rejects; the promise is kept either way.
ClientStarts ==
  /\ client = "starting" /\ client' \in {"ready", "broken"}
  /\ UNCHANGED <<node, keys, sess, wrote, did, script, heard>>

\* copilot's startSession: the provider is looked at once the client is there; then
\* createSession, which may fail.
CopilotOpens(n) ==
  /\ sess[n].pc \in {"client", "create"}
  /\ \/ /\ sess[n].pc = "client" /\ client \in {"ready", "broken"}
        /\ SessGoes(n, IF client = "ready" /\ Accepts("copilot", Credentials) THEN "create" ELSE "rejected")
     \/ sess[n].pc = "create" /\ SessGoes(n, "rejected")
     \/ /\ sess[n].pc = "create"
        /\ sess' = [sess EXCEPT ![n] = [NotOpen EXCEPT !.pc = "open", !.scope = DeriveFileScope(n)]]
  /\ UNCHANGED <<node, keys, client, wrote, did, script, heard>>

\* A session of one of the two SDKs uses a tool.  A command may write anything in the workspace.
UseTool(n) ==
  /\ sess[n].pc = "open" /\ node[n].runtime \in {"claude-agent", "copilot"}
  /\ sess[n].acts < MaxSessActs
  /\ sess' = [sess EXCEPT ![n].acts = @ + 1]
  /\ \E tool \in IF node[n].runtime = "copilot" THEN CopilotTools(node[n].role)
                 ELSE ClaudeTools(node[n].role) :
       \/ /\ tool \in {"write_file", "edit_file", "exec_command"} /\ UNCHANGED did
          /\ \E area \in Areas : CanUse(n, tool, area) /\ wrote' = wrote \cup {<<n, area, tool>>}
       \/ /\ tool \in {"write_memory", "send_message", "report_complete", "escalate"}
          /\ did' = did \cup {<<n, tool>>} /\ UNCHANGED wrote
  /\ UNCHANGED <<node, keys, client, script, heard>>

SessionOver(n) ==
  /\ sess[n].pc = "open" /\ node[n].runtime \in {"claude-agent", "copilot"} /\ SessGoes(n, "ended")
  /\ UNCHANGED <<node, keys, client, wrote, did, script, heard>>

-----------------------------------------------------------------------------
\* MockSession.replay: one tick after it was made, so that its subscriber hears it start; then a
\* step at a time, until the script is at its end.
Replay(n) ==
  /\ sess[n].pc = "open" /\ node[n].runtime = "mock"
  /\ LET told == Len(heard[n]) IN
     IF told <= Len(script[n])
     THEN /\ heard' = [heard EXCEPT ![n] = Append(@, IF told = 0 THEN "started" ELSE script[n][told])]
          /\ UNCHANGED sess
     ELSE heard' = [heard EXCEPT ![n] = Append(@, "completed")] /\ SessGoes(n, "ended")
  /\ UNCHANGED <<node, keys, client, wrote, did, script>>

\* abort(), which ends the pause between two steps as well.
ReplayAborts(n) ==
  /\ sess[n].pc = "open" /\ node[n].runtime = "mock" /\ Len(heard[n]) \in 1 .. Len(script[n])
  /\ heard' = [heard EXCEPT ![n] = Append(@, "aborted")] /\ SessGoes(n, "aborted")
  /\ UNCHANGED <<node, keys, client, wrote, did, script>>

SessToolsNext ==
  \/ ClientStarts
  \/ \E n \in SessNodes : RunNode(n) \/ CopilotOpens(n) \/ UseTool(n) \/ SessionOver(n)
                          \/ Replay(n) \/ ReplayAborts(n)

SessToolsSpec == SessToolsInit /\ [][SessToolsNext]_sessToolVars

-----------------------------------------------------------------------------
\* Files are written by workers alone, in the scope the node gives them unless it is by a command,
\* and whatever subagents a session has; reviewers change nothing, only managers escalate and only
\* workers report.  A session nobody could open has done nothing, and copilot's are opened with a
\* key, by a client that started.  A mock session that completes has told every result after its
\* call, and its cost once, before it is idle.
SessionsStayInside ==
  /\ \A w \in wrote :
       /\ node[w[1]].role = "looma"
       /\ w[3] # "exec_command" /\ node[w[1]].own # {} => w[2] \in node[w[1]].own
       /\ w[3] # "exec_command" /\ node[w[1]].own = {} /\ node[w[1]].others # {}
            => w[2] \in node[w[1]].others
  /\ \A d \in did : /\ node[d[1]].role # "loomex"
                    /\ d[2] = "escalate" => node[d[1]].role = "loomi"
                    /\ d[2] = "report_complete" => node[d[1]].role = "looma"
  /\ \A n \in SessNodes :
       /\ sess[n].pc = "rejected" => /\ \A w \in wrote : w[1] # n
                                     /\ \A d \in did : d[1] # n
       /\ node[n].runtime = "copilot" /\ sess[n].pc \in {"open", "ended"}
            => client = "ready" /\ "apiKey" \in keys
       /\ \A i \in 1 .. Len(heard[n]) : heard[n][i] = "result" => i > 1 /\ heard[n][i - 1] = "call"
       /\ heard[n] # <<>> /\ heard[n][Len(heard[n])] = "completed" =>
            \E i \in 1 .. Len(heard[n]) :
              /\ heard[n][i] = "cost" /\ heard[n][i + 1] = "idle"
              /\ \A j \in 1 .. Len(heard[n]) : heard[n][j] = "cost" => j = i

-----------------------------------------------------------------------------
(* The session of one node, from its start to its result                   *)

CONSTANTS
  MaxCost,        \* bound on what a session may cost
  CostCaps,       \* the values of deps.maxCostUsd; 0 for none
  SessionFaults   \* "throwsAtOnce": query() throws before it returns a stream;
                  \* "abortRejects": the SDK's abort() rejects

ASSUME SessionAssumption == MaxCost \in Nat /\ CostCaps \subseteq Nat /\ CostCaps # {}

VARIABLES
  runtime,    \* node.runtime
  cap,        \* deps.maxCostUsd
  session,    \* where the session is
  aborted,    \* its abort signal
  spent,      \* cumulativeCost of the session
  counted,    \* totalCostUsd, which the cost tracker is fed too
  overCap,    \* budgetExceededFlag
  disposal,   \* session.dispose(): not called, waiting for the loop to end, or settled
  nodeResult  \* what the promise of runNodeWithRuntime resolves to

sessionVars == <<runtime, cap, session, aborted, spent, counted, overCap, disposal, nodeResult>>

SessionTypeOK ==
  /\ runtime \in {"mock", "claude-agent", "copilot"}
  /\ cap \in CostCaps
  /\ session \in {"new", "streaming", "completed", "aborted", "error"}
  /\ aborted \in BOOLEAN /\ overCap \in BOOLEAN
  /\ spent \in 0 .. MaxCost /\ counted \in 0 .. MaxCost
  /\ disposal \in {"none", "waiting", "done", "rejected"}
  /\ nodeResult \in {"none", "done", "blocked", "failed"}

SessionInit ==
  /\ runtime \in {"mock", "claude-agent", "copilot"}
  /\ cap \in CostCaps
  /\ session = "new"
  /\ aborted = FALSE /\ overCap = FALSE
  /\ spent = 0 /\ counted = 0
  /\ disposal = "none"
  /\ nodeResult = "none"

\* startSession, and session.on when its await returns.  An error of query() itself is
\* emitted by the constructor, before anybody is subscribed.
StartSession ==
  /\ session = "new"
  /\ session' \in {"streaming"}
       \cup {s \in {"error"} : "throwsAtOnce" \in SessionFaults /\ runtime = "claude-agent"}
  /\ UNCHANGED <<runtime, cap, aborted, spent, counted, overCap, disposal, nodeResult>>

ReachesCap(cost) == cap # 0 /\ cost >= cap /\ ~overCap

\* cost_update in the subscriber: every one is counted, also after the cap is reached.
CountCost(usd) == counted' = counted + usd

\* Costs a message carries: the session's own count, then the subscriber's.  Reaching the
\* cap aborts the session, once; copilot's abort() only asks the SDK to.
CostUpdate(usd) ==
  /\ spent + usd <= MaxCost
  /\ spent' = spent + usd
  /\ CountCost(usd)
  /\ overCap' = (overCap \/ ReachesCap(counted + usd))
  /\ aborted' = (aborted \/ (ReachesCap(counted + usd) /\ runtime # "copilot"))

\* session_ended in the subscriber: unsubscribe, and dispose of the session.  That waits
\* for the loop of a session that did not complete, or asks copilot's SDK to abort.
Ended(reason) ==
  /\ session' = reason
  /\ \/ /\ disposal' = IF reason = "completed" THEN "done" ELSE "waiting"
     \/ /\ runtime = "copilot" /\ reason = "error" /\ "abortRejects" \in SessionFaults
        /\ disposal' = "rejected"

\* mock and claude-agent: a scripted step, or a message of the SDK's stream.  Both look
\* at the abort signal first.
SessionMessage ==
  /\ session = "streaming" /\ runtime # "copilot"
  /\ ~aborted
  /\ \E usd \in 1 .. MaxCost : CostUpdate(usd)
  /\ UNCHANGED <<runtime, cap, session, disposal, nodeResult>>

\* mock: the replay sees the signal and says so.
MockAborts ==
  /\ session = "streaming" /\ runtime = "mock"
  /\ aborted
  /\ Ended("aborted")
  /\ UNCHANGED <<runtime, cap, aborted, spent, counted, overCap, nodeResult>>

\* The script or the stream is at its end.  claude-agent's loop also breaks out of the
\* stream when it sees the signal, and goes on to the same line; in the scenarios of mock
\* a step follows the one that has costs, and sees it.
SessionCompletes ==
  /\ session = "streaming" /\ runtime # "copilot"
  /\ runtime = "mock" => ~aborted
  /\ Ended("completed")
  /\ UNCHANGED <<runtime, cap, aborted, spent, counted, overCap, nodeResult>>

\* claude-agent: the stream throws, because of the signal or for a reason of its own.
StreamThrows ==
  /\ session = "streaming" /\ runtime = "claude-agent"
  /\ Ended(IF aborted THEN "aborted" ELSE "error")
  /\ UNCHANGED <<runtime, cap, aborted, spent, counted, overCap, nodeResult>>

\* copilot: sendAndWait resolves; the usage of the whole session comes with the answer.
CopilotAnswers ==
  /\ session = "streaming" /\ runtime = "copilot"
  /\ \E usd \in 0 .. MaxCost :
       IF usd > 0 THEN CostUpdate(usd) ELSE UNCHANGED <<aborted, spent, counted, overCap>>
  /\ Ended("completed")
  /\ UNCHANGED <<runtime, cap, nodeResult>>

\* ... or rejects.
CopilotFails ==
  /\ session = "streaming" /\ runtime = "copilot"
  /\ Ended("error")
  /\ UNCHANGED <<runtime, cap, aborted, spent, counted, overCap, nodeResult>>


\* The loop has returned, or the SDK has disconnected.
DisposalSettles ==
  /\ disposal = "waiting"
  /\ disposal' = "done"
  /\ UNCHANGED <<runtime, cap, session, aborted, spent, counted, overCap, nodeResult>>

\* dispose().then: map the reason to the result of the node.
NodeAnswered ==
  /\ disposal = "done" /\ nodeResult = "none"
  /\ nodeResult' = CASE session = "completed" -> "done"
                     [] session = "aborted" -> "blocked"
                     [] session = "error" -> "failed"
  /\ UNCHANGED <<runtime, cap, session, aborted, spent, counted, overCap, disposal>>

SessionNext ==
  \/ StartSession \/ SessionMessage \/ MockAborts \/ SessionCompletes \/ StreamThrows
  \/ CopilotAnswers \/ CopilotFails \/ DisposalSettles \/ NodeAnswered

\* Streams end, SDKs answer, promises settle.
SessionFairness == WF_sessionVars(SessionNext)

SessionSpec == SessionInit /\ [][SessionNext]_sessionVars /\ SessionFairness

-----------------------------------------------------------------------------
\* The promise of runNodeWithRuntime never settles: nobody heard the session end, or the
\* rejection of dispose() is not handled.
Unanswerable == disposal = "rejected" \/ (session = "error" /\ disposal = "none")

\* The engine gets an answer for every node it hands to a runtime, but for the two faults
\* that leave it without one for good; and by then the daemon's cost tracker has been fed
\* what the session has cost, whether it went over its cap or not.
NodeIsAnswered == <>(Unanswerable \/ (nodeResult # "none" /\ counted = spent))

=============================================================================
