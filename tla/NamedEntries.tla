---------------------------- MODULE NamedEntries ----------------------------
(***************************************************************************)
(* The two files of named entries the daemon changes for the pages: the    *)
(* credentials (providers/profiles.ts, routes/credentials.ts) and the MCP  *)
(* servers of a project (persistence/mcp-config.ts, routes/mcp.ts).  Each  *)
(* request reads the file, changes what it has read and replaces the file  *)
(* by a rename, with awaits in between and no lock.  A user may edit a     *)
(* file by hand, and leave it such that it does not parse.                 *)
(*                                                                         *)
(* A step lies between two awaits; temporary names are taken to be         *)
(* distinct.  An entry is its name: a body the validation refuses is       *)
(* answered 400 before anything is read.                                   *)
(***************************************************************************)
EXTENDS Naturals, FiniteSets

CONSTANTS
  Names,        \* of entries
  Editors,      \* requests that may be under way together
  MaxEdits,     \* bound on the requests
  MaxBroken     \* bound on the files edited badly

ASSUME EntriesAssumption == MaxEdits \in Nat /\ MaxBroken \in Nat

Stores == {"credentials", "mcp"}

VARIABLES
  entries,   \* the names in each file; of one that does not parse, none
  broken,    \* the files that do not parse
  editor,    \* each request: its store, name and step, the names it has read
  edits,     \* requests so far
  breaks,    \* files broken so far
  stored,    \* history: the names whose PUT was answered 200 and that nobody has deleted since
  overlapped \* history: the stores of which two requests overlapped, or a user broke the file

entryVars == <<entries, broken, editor, edits, breaks, stored, overlapped>>

NoName == "no name"
NoEditor == [store |-> "mcp", name |-> NoName, step |-> "none", read |-> {}]

EntryTypeOK ==
  /\ entries \in [Stores -> SUBSET Names] /\ broken \subseteq Stores
  /\ editor \in [Editors ->
       [store : Stores, name : Names \cup {NoName}, read : SUBSET Names,
        step : {"none", "checking", "puts", "deletes", "quarantinesToPut", "quarantinesToDelete",
                "quarantinesToCheck", "writesWith", "writesWithout", "rereads"}]]
  /\ edits \in 0 .. MaxEdits /\ breaks \in 0 .. MaxBroken
  /\ stored \in [Stores -> SUBSET Names] /\ overlapped \subseteq Stores

EntryInit ==
  /\ entries = [s \in Stores |-> {}] /\ broken = {}
  /\ editor = [e \in Editors |-> NoEditor]
  /\ edits = 0 /\ breaks = 0
  /\ stored = [s \in Stores |-> {}] /\ overlapped = {}

At(e, step) == editor' = [editor EXCEPT ![e].step = step]
IsAnswered(e) == editor' = [editor EXCEPT ![e] = NoEditor]

\* GET, PUT or DELETE of a name: DELETE /credentials looks for the profile first.
Requested(e, s, n, step) ==
  /\ editor[e] = NoEditor /\ edits < MaxEdits /\ edits' = edits + 1
  /\ editor' = [editor EXCEPT ![e] = [NoEditor EXCEPT !.store = s, !.name = n, !.step = step]]
  /\ stored' = IF step \in {"puts", "rereads"} THEN stored ELSE [stored EXCEPT ![s] = @ \ {n}]
  /\ overlapped' = IF \E d \in Editors : editor[d] # NoEditor /\ editor[d].store = s
                   THEN overlapped \cup {s} ELSE overlapped
  /\ UNCHANGED <<entries, broken, breaks>>

Puts(e, s, n) == Requested(e, s, n, "puts")
GetProfile(e, n) == Requested(e, "credentials", n, "rereads")
DeleteProfile(e, n) == Requested(e, "credentials", n, "checking")
DeleteServer(e, n) == Requested(e, "mcp", n, "deletes")

-----------------------------------------------------------------------------
\* readMcpConfig: a file that does not parse counts as empty.
ReadMcp(e) ==
  LET r == editor[e] IN
  /\ r.store = "mcp" /\ r.step \in {"puts", "deletes"}
  /\ IF r.step = "deletes" /\ r.name \notin entries["mcp"]
     THEN IsAnswered(e)
     ELSE editor' = [editor EXCEPT ![e].read = entries["mcp"],
                       ![e].step = IF @ = "puts" THEN "writesWith" ELSE "writesWithout"]
  /\ UNCHANGED <<entries, broken, edits, breaks, stored, overlapped>>

\* read() of the profiles, in get, upsert and remove: a file that does not parse is renamed out
\* of the way first.
ReadProfiles(e) ==
  LET r == editor[e]
      there == r.name \in entries["credentials"]
      next == IF r.step = "checking" /\ there THEN "deletes"
              ELSE IF r.step = "puts" THEN "writesWith"
              ELSE IF r.step = "deletes" THEN "writesWithout"
              ELSE "none" IN
  /\ r.store = "credentials" /\ r.step \in {"checking", "puts", "deletes", "rereads"}
  /\ IF "credentials" \in broken
     THEN At(e, IF r.step = "puts" THEN "quarantinesToPut"
                ELSE IF r.step = "deletes" THEN "quarantinesToDelete"
                ELSE "quarantinesToCheck")
     ELSE IF next = "none" THEN IsAnswered(e)
     ELSE editor' = [editor EXCEPT ![e].read = entries["credentials"], ![e].step = next]
  /\ UNCHANGED <<entries, broken, edits, breaks, stored, overlapped>>

\* The file there is by now, whichever that is, is renamed and an empty one written; what read()
\* returns is empty.
Quarantines(e) ==
  /\ editor[e].step \in {"quarantinesToPut", "quarantinesToDelete", "quarantinesToCheck"}
  /\ entries' = [entries EXCEPT !["credentials"] = {}] /\ broken' = broken \ {"credentials"}
  /\ IF editor[e].step = "quarantinesToPut" THEN At(e, "writesWith")
     ELSE IF editor[e].step = "quarantinesToDelete" THEN At(e, "writesWithout")
     ELSE IsAnswered(e)
  /\ UNCHANGED <<edits, breaks, stored, overlapped>>

Written(r) == IF r.step = "writesWith" THEN r.read \cup {r.name} ELSE r.read \ {r.name}

\* writeMcpConfig, writeRaw.  PUT /credentials then reads the profile again, for its answer.
WritesEntries(e) ==
  LET r == editor[e] IN
  /\ r.step \in {"writesWith", "writesWithout"}
  /\ entries' = [entries EXCEPT ![r.store] = Written(r)] /\ broken' = broken \ {r.store}
  /\ stored' = [stored EXCEPT ![r.store] = IF r.step = "writesWith" THEN @ \cup {r.name} ELSE @]
  /\ IF r.step = "writesWith" /\ r.store = "credentials" THEN At(e, "rereads") ELSE IsAnswered(e)
  /\ UNCHANGED <<edits, breaks, overlapped>>

\* The file is edited by hand.
Breaks(s) ==
  /\ breaks < MaxBroken /\ breaks' = breaks + 1
  /\ broken' = broken \cup {s} /\ entries' = [entries EXCEPT ![s] = {}]
  /\ overlapped' = overlapped \cup {s}
  /\ UNCHANGED <<editor, edits, stored>>

EntryNext ==
  \/ \E e \in Editors :
       \/ \E n \in Names : \/ \E s \in Stores : Puts(e, s, n)
                           \/ GetProfile(e, n) \/ DeleteProfile(e, n) \/ DeleteServer(e, n)
       \/ ReadMcp(e) \/ ReadProfiles(e) \/ Quarantines(e) \/ WritesEntries(e)
  \/ \E s \in Stores : Breaks(s)

EntrySpec == EntryInit /\ [][EntryNext]_entryVars

-----------------------------------------------------------------------------
\* While the requests for a file come one after another, the file has what has been stored and
\* not been deleted since, and a request for one file leaves the other alone; a request that
\* overlaps another can take the other's entry back.
StoredIsKept == \A s \in Stores \ overlapped : stored[s] \subseteq entries[s]

=============================================================================
