---------------------------- MODULE FileOwnership ----------------------------
(***************************************************************************)
(* FileOwnershipManager (workflow/file-ownership.ts): permanent scopes,    *)
(* temporary locks that expire, and who may write what.  Every method runs *)
(* without an await; time passes between two of them.                      *)
(*                                                                         *)
(* A lock carries the time it has left rather than the time it expires at. *)
(* Serialising and restoring a manager gives back the same scopes and      *)
(* locks, so it is no action here.                                         *)
(***************************************************************************)
EXTENDS FileScopes

CONSTANTS
  LockIds,      \* bound on the locks that exist at a time
  MaxDuration   \* bound on the duration of a lock

ASSUME DurationAssumption == MaxDuration \in Nat

VARIABLES
  scopes,  \* agent -> its permanent patterns
  locks    \* lock id -> the lock; expired ones stay until they are pruned

ownVars == <<scopes, locks>>

Lock == [agent : Agents, glob : Globs, left : 0 .. MaxDuration]

OwnTypeOK ==
  /\ DOMAIN scopes \subseteq Agents /\ \A a \in DOMAIN scopes : scopes[a] \subseteq Globs
  /\ DOMAIN locks \subseteq LockIds /\ \A l \in DOMAIN locks : locks[l] \in Lock

OwnInit == scopes = <<>> /\ locks = <<>>

Without(f, keys) == [k \in DOMAIN f \ keys |-> f[k]]
With(f, key, value) == [k \in DOMAIN f \cup {key} |-> IF k = key THEN value ELSE f[k]]

SetScope(a, patterns) == scopes' = With(scopes, a, patterns) /\ UNCHANGED locks
RemoveScope(a) == scopes' = Without(scopes, {a}) /\ UNCHANGED locks

\* grantTemporaryLock looks neither at the scopes nor at the other locks.
GrantTemporaryLock(a, glob, duration) ==
  /\ \E l \in LockIds \ DOMAIN locks :
       locks' = With(locks, l, [agent |-> a, glob |-> glob, left |-> duration])
  /\ UNCHANGED scopes

ReleaseTemporaryLock(l) == locks' = Without(locks, {l}) /\ UNCHANGED scopes

\* expiresAt <= now.
Expired(l) == locks[l].left = 0

PruneExpiredLocks == 
  /\ locks' = Without(locks, {l \in DOMAIN locks : Expired(l)})
  /\ UNCHANGED scopes

\* A millisecond passes.
LocksAge ==
  /\ locks' = [l \in DOMAIN locks |-> [locks[l] EXCEPT !.left = IF @ = 0 THEN 0 ELSE @ - 1]]
  /\ UNCHANGED scopes

OwnNext ==
  \/ \E a \in Agents, glob \in Globs : SetScope(a, {glob})
  \/ \E a \in Agents : SetScope(a, {}) \/ RemoveScope(a)
  \/ \E a \in Agents, glob \in Globs, d \in 1 .. MaxDuration : GrantTemporaryLock(a, glob, d)
  \/ \E l \in DOMAIN locks : ReleaseTemporaryLock(l)
  \/ PruneExpiredLocks \/ LocksAge

-----------------------------------------------------------------------------
ScopeOf(a) == IF a \in DOMAIN scopes THEN scopes[a] ELSE {}

\* getActiveLocks(a): expiresAt > now.
ActiveLocks(a) == {l \in DOMAIN locks : locks[l].agent = a /\ locks[l].left > 0}

\* isWriteAllowed.
IsWriteAllowed(a, path) ==
  \/ InScope(ScopeOf(a), path)
  \/ \E l \in ActiveLocks(a) : Matches(locks[l].glob, path)

EffectiveScope_Faulty(a) ==
  ScopeOf(a) \cup {locks[l].glob : l \in {k \in DOMAIN locks : locks[k].agent = a}}

\* getEffectiveScope: what a tool is given as its write scope.
EffectiveScope(a) == ScopeOf(a) \cup {locks[l].glob : l \in ActiveLocks(a)}

\* What is allowed by either check: the manager's own, or a tool's against the effective
\* scope it is handed at that moment.
Permissions ==
  {p \in Agents \X Files :
     IsWriteAllowed(p[1], p[2]) \/ InScope(EffectiveScope(p[1]), p[2])}

-----------------------------------------------------------------------------
\* The header's rule that scopes never overlap: when validateNoOverlap accepts the
\* scopes, no file may be written by two agents unless one holds a lock for it that has
\* not expired, whichever of the two checks they go through and however the locks were
\* granted, pruned and released.  The patterns are literal paths, dir/* and dir/**.
WritersAreExclusive ==
  ValidScopes(scopes) =>
    \A a, b \in Agents, path \in Files :
      a # b /\ {<<a, path>>, <<b, path>>} \subseteq Permissions =>
        \E l \in ActiveLocks(a) \cup ActiveLocks(b) : Matches(locks[l].glob, path)

=============================================================================
