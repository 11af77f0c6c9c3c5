---------------------------- MODULE WorkspaceTools ----------------------------
(***************************************************************************)
(* What agents do to the files of a workspace: tools/file-write.ts and     *)
(* tools/file-edit.ts under the scopes a plan gave them, and one file of   *)
(* the shared memory - SharedMemoryManager's initialize and write, and     *)
(* tools/memory-write.ts, which appends without its mutex.                 *)
(*                                                                         *)
(* A file's content is the number of writes to it; a memory file is its    *)
(* entries, after a title or not.  Failing I/O changes nothing and is left *)
(* out, as are the checks that a path stays inside the workspace.          *)
(***************************************************************************)
EXTENDS FileScopes, FiniteSets

CONSTANTS
  MaxWrites,   \* bound on the writes to a file
  MaxEntries,  \* bound on the entries of the memory file
  MaxStarts    \* bound on the starts of the daemon

ASSUME ToolsAssumption == MaxWrites \in Nat /\ MaxEntries \in Nat /\ MaxStarts \in Nat \ {0}

VARIABLES
  writeScope,  \* the context of each agent: the scopes validateFileScopes accepted
  content,     \* the files
  editing,     \* the edit_file call each agent is in: its path, and what it has read
  memory,      \* the memory file: does it exist, has it a title, its entries
  init,        \* where initialize is
  mutex,       \* who holds the mutex of the memory file, "free" for nobody
  recorded,    \* history: the entries whose write has resolved
  starts       \* history: how often the daemon has started

toolVars == <<writeScope, content, editing, memory, init, mutex, recorded, starts>>
fileVars == <<content, editing>>
memoryVars == <<memory, init, mutex, recorded, starts>>

NotEditing == [path |-> <<>>, read |-> 0]
NoMemory == [exists |-> FALSE, titled |-> FALSE, entries |-> <<>>]

ToolsTypeOK ==
  /\ writeScope \in [Agents -> SUBSET Globs]
  /\ content \in [Files -> 0 .. MaxWrites]
  /\ editing \in [Agents -> [path : Files \cup {<<>>}, read : 0 .. MaxWrites]]
  /\ memory.exists \in BOOLEAN /\ memory.titled \in BOOLEAN
  /\ memory.entries \in Seq(1 .. MaxEntries)
  /\ init \in {"due", "checked", "writing", "done"}
  /\ mutex \in Agents \cup {"free"}
  /\ recorded \subseteq 1 .. MaxEntries
  /\ starts \in 1 .. MaxStarts

\* Plans with scopes that overlap are sent back until they do not.
ToolsInit ==
  /\ writeScope \in {f \in [Agents -> {{g} : g \in Globs}] : ValidScopes(f)}
  /\ content = [f \in Files |-> 0]
  /\ editing = [a \in Agents |-> NotEditing]
  /\ memory = NoMemory
  /\ init = "due"
  /\ mutex = "free"
  /\ recorded = {}
  /\ starts = 1

-----------------------------------------------------------------------------
(* write_file and edit_file                                                *)

MayWrite_Faulty(a, path) == InScope(UNION {writeScope[b] : b \in Agents}, path)

\* picomatch(context.writeScope)(relativePath).
MayWrite(a, path) == InScope(writeScope[a], path)

Free(a) == editing[a] = NotEditing

WriteFile(a, path) ==
  /\ Free(a) /\ MayWrite(a, path) /\ content[path] < MaxWrites
  /\ content' = [content EXCEPT ![path] = @ + 1]
  /\ UNCHANGED <<editing, writeScope, memoryVars>>

\* edit_file reads the file ...
EditReads(a, path) ==
  /\ Free(a) /\ MayWrite(a, path) /\ content[path] \in 1 .. MaxWrites - 1
  /\ editing' = [editing EXCEPT ![a] = [path |-> path, read |-> content[path]]]
  /\ UNCHANGED <<content, writeScope, memoryVars>>

\* ... and writes back what it has read with one occurrence replaced.
EditWrites(a) ==
  /\ ~Free(a)
  /\ content' = [content EXCEPT ![editing[a].path] = editing[a].read + 1]
  /\ editing' = [editing EXCEPT ![a] = NotEditing]
  /\ UNCHANGED <<writeScope, memoryVars>>

\* oldText is not in the file.
EditRefused(a) ==
  /\ ~Free(a)
  /\ editing' = [editing EXCEPT ![a] = NotEditing]
  /\ UNCHANGED <<content, writeScope, memoryVars>>

-----------------------------------------------------------------------------
(* Shared memory                                                           *)

InitChecks_Faulty ==
  /\ init = "due"
  /\ init' = "checked"
  /\ UNCHANGED <<writeScope, fileVars, memory, mutex, recorded, starts>>

\* initialize: stat the file, and write the title if there is none.
InitChecks ==
  /\ init = "due"
  /\ init' = IF memory.exists THEN "done" ELSE "checked"
  /\ UNCHANGED <<writeScope, fileVars, memory, mutex, recorded, starts>>

\* writeFile truncates first.
InitTruncates ==
  /\ init = "checked"
  /\ memory' = [NoMemory EXCEPT !.exists = TRUE]
  /\ init' = "writing"
  /\ UNCHANGED <<writeScope, fileVars, mutex, recorded, starts>>

InitTitles ==
  /\ init = "writing"
  /\ memory' = [memory EXCEPT !.titled = TRUE]
  /\ init' = "done"
  /\ UNCHANGED <<writeScope, fileVars, mutex, recorded, starts>>

\* The entry is in the file, and the call resolves.
Append1(entry) ==
  /\ entry <= MaxEntries
  /\ memory' = [memory EXCEPT !.exists = TRUE, !.entries = Append(@, entry)]
  /\ recorded' = recorded \cup {entry}
NextEntry == Cardinality(recorded) + 1

\* write: runExclusive around the append.
TakeMutex(a) ==
  /\ init = "done" /\ mutex = "free"
  /\ mutex' = a
  /\ UNCHANGED <<writeScope, fileVars, memory, init, recorded, starts>>
WriteEntry ==
  /\ mutex # "free"
  /\ Append1(NextEntry)
  /\ mutex' = "free"
  /\ UNCHANGED <<writeScope, fileVars, init, starts>>

\* The tool write_memory.
ToolEntry ==
  /\ init = "done"
  /\ Append1(NextEntry)
  /\ UNCHANGED <<writeScope, fileVars, init, mutex, starts>>

\* The daemon dies and is started again; POST /workflow/init, which nothing but a new
\* workflow follows, initializes once more before any agent runs.
Restart ==
  /\ starts < MaxStarts
  /\ starts' = starts + 1
  /\ init' = "due"
  /\ mutex' = "free"
  /\ editing' = [a \in Agents |-> NotEditing]
  /\ UNCHANGED <<writeScope, content, memory, recorded>>

ToolsNext ==
  \/ \E a \in Agents, path \in Files : WriteFile(a, path) \/ EditReads(a, path)
  \/ \E a \in Agents : EditWrites(a) \/ EditRefused(a) \/ TakeMutex(a)
  \/ InitChecks \/ InitTruncates \/ InitTitles \/ WriteEntry \/ ToolEntry \/ Restart

ToolsSpec == ToolsInit /\ [][ToolsNext]_toolVars

-----------------------------------------------------------------------------
\* edit_file takes no lock between its read and its write; that validated scopes keep
\* other writers away is what makes it safe: no edit writes over what it has not read.
EditsLoseNothing ==
  [][\A a \in Agents : EditWrites(a) => content[editing[a].path] = editing[a].read]_toolVars

\* "Existing files are not overwritten": an entry that was written stays, in order, over
\* crashes at any point of initialize and however often it runs again.
EntriesSurvive ==
  /\ recorded = Range(memory.entries)
  /\ \A i, j \in DOMAIN memory.entries : i < j => memory.entries[i] < memory.entries[j]

=============================================================================
