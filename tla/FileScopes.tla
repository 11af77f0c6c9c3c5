------------------------------ MODULE FileScopes ------------------------------
(***************************************************************************)
(* Write scopes: globs over the paths of the workspace, and the test that  *)
(* decides whether the scopes of two agents overlap.  The agents' planner  *)
(* (loomi.ts) and the ownership manager (file-ownership.ts) share it.      *)
(*                                                                         *)
(* A path is the sequence of its segments; a segment of a glob is a name,  *)
(* "*" or "**".  Braces, "?" and names that start with a dot are left out. *)
(***************************************************************************)
EXTENDS Naturals, Sequences, SequencesExt, FiniteSets

CONSTANTS
  Agents,  \* the agents that are given scopes
  Globs,   \* the patterns a scope may hold
  Files    \* the paths agents write

ASSUME GlobsAssumption == Globs \cup Files \subseteq Seq(STRING)

\* picomatch: "*" stands for one segment, "**" for any number of them.
Matches(glob, path) ==
  LET from[i \in 1 .. Len(glob) + 1, j \in 1 .. Len(path) + 1] ==
        IF i > Len(glob) THEN j > Len(path)
        ELSE IF glob[i] = "**" THEN \E k \in j .. Len(path) + 1 : from[i + 1, k]
        ELSE j <= Len(path) /\ glob[i] \in {"*", path[j]} /\ from[i + 1, j + 1]
  IN from[1, 1]

InScope(scope, path) == \E glob \in scope : Matches(glob, path)

\* generateTestPaths, for one pattern.
TestPath(glob) == FlattenSeq([i \in DOMAIN glob |->
  CASE glob[i] = "**" -> <<"a", "b">>
    [] glob[i] = "*" -> <<"test.file">>
    [] OTHER -> <<glob[i]>>])

\* validateFileScopes: the representative path of some pattern is in both scopes.
Overlap(scope1, scope2) ==
  \E glob \in scope1 \cup scope2 :
    InScope(scope1, TestPath(glob)) /\ InScope(scope2, TestPath(glob))

ValidScopes(scopeOf) ==
  \A a, b \in DOMAIN scopeOf : a # b => ~Overlap(scopeOf[a], scopeOf[b])

\* What validateFileScopes is for: patterns it accepts side by side share none of the files.  It
\* looks at one path for each pattern, so this is a property of the patterns.
GlobsSeparate ==
  \A glob1, glob2 \in Globs : ~Overlap({glob1}, {glob2}) =>
    \A path \in Files : ~(Matches(glob1, path) /\ Matches(glob2, path))

=============================================================================
