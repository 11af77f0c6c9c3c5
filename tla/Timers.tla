-------------------------------- MODULE Timers --------------------------------
(***************************************************************************)
(* What waits for the clock: the Scheduler of delayed nodes                *)
(* (workflow/scheduler.ts), the delays of provider retries                 *)
(* (workflow/provider-retry.ts) and the token bucket of the RateLimiter    *)
(* (costs/rate-limiter.ts).                                                *)
(*                                                                         *)
(* A timer is due after its delay and fires some time after; one whose     *)
(* delay does not fit setTimeout's 31 bits fires at once.  A timer and the *)
(* entry the scheduler keeps of it are two things.                         *)
(***************************************************************************)
EXTENDS Integers, FiniteSets

CONSTANTS
  TimedNodes, \* nodes with a delay
  Delays,     \* the delays, in ticks
  MaxTimeout, \* the longest delay setTimeout takes
  MaxClock,   \* bound: ticks
  BucketSize, \* calls a full bucket is good for
  CallUnits,  \* units of the bucket one call costs
  Refill      \* units that come back every tick

ASSUME TimersAssumption ==
  /\ Delays \subseteq Nat /\ {MaxTimeout, MaxClock} \subseteq Nat
  /\ {BucketSize, CallUnits, Refill} \subseteq Nat \ {0}

NoEntry == [resumeAt |-> 0, firesAt |-> 0]
NoRetry == 0
None == -1

VARIABLES
  now,
  entries,    \* the scheduler's map: node -> its entry, or NoEntry
  timers,     \* pending timers: <<node, entry>>
  resumeAt,   \* of each node, in workflow.json; None if it waits for nothing
  launched,   \* nodes whose callback has run
  cut,        \* history: nodes that were launched before their time
  tooLong,    \* history: nodes with a delay that overflows the timer
  bucket,     \* of one agent: units, and when it was refilled
  retryAt,    \* when the agent was told to try again
  granted     \* calls it made since its bucket was made

timerVars == <<now, entries, timers, resumeAt, launched, cut, tooLong, bucket, retryAt, granted>>
nodeTimerVars == <<entries, timers, resumeAt, launched, cut, tooLong>>
bucketVars == <<bucket, retryAt, granted>>

Entries == [resumeAt : Nat, firesAt : Nat]

TimerTypeOK ==
  /\ now \in 0 .. MaxClock
  /\ entries \in [TimedNodes -> Entries] /\ timers \subseteq TimedNodes \X Entries
  /\ resumeAt \in [TimedNodes -> Int] /\ {launched, cut, tooLong} \subseteq SUBSET TimedNodes
  /\ bucket \in [units : 0 .. BucketSize * CallUnits, at : 0 .. MaxClock]
  /\ retryAt \in Nat /\ granted \in Nat

TimerInit ==
  /\ now = 0 /\ entries = [n \in TimedNodes |-> NoEntry] /\ timers = {}
  /\ resumeAt = [n \in TimedNodes |-> None] /\ launched = {} /\ cut = {} /\ tooLong = {}
  /\ bucket = [units |-> BucketSize * CallUnits, at |-> 0] /\ retryAt = NoRetry /\ granted = 0

Tick == now < MaxClock /\ now' = now + 1 /\ UNCHANGED <<nodeTimerVars, bucketVars>>

-----------------------------------------------------------------------------
\* The Scheduler.
Launch(n, due) ==
  /\ launched' = launched \cup {n}
  /\ cut' = IF now < due THEN cut \cup {n} ELSE cut
  /\ resumeAt' = [resumeAt EXCEPT ![n] = None]

\* setTimeout, and the entry that goes with it.
Arms(n, due) ==
  LET ms == due - now
      entry == [resumeAt |-> due, firesAt |-> IF ms > MaxTimeout THEN now ELSE due] IN
  /\ entries' = [entries EXCEPT ![n] = entry] /\ timers' = timers \cup {<<n, entry>>}
  /\ tooLong' = IF ms > MaxTimeout THEN tooLong \cup {n} ELSE tooLong
  /\ UNCHANGED <<launched, cut>>

\* scheduleNode: a delay of zero calls back at once, a node already there is an error.
ScheduleNode(n) ==
  /\ entries[n] = NoEntry /\ n \notin launched
  /\ \E delay \in Delays :
       IF delay = 0 THEN Launch(n, now) /\ UNCHANGED <<entries, timers, tooLong>>
       ELSE Arms(n, now + delay) /\ resumeAt' = [resumeAt EXCEPT ![n] = now + delay]
  /\ UNCHANGED <<now, bucketVars>>

\* rescheduleFromPersistence: what is left of the delay, or nothing.
RescheduleFromPersistence(n) ==
  /\ entries[n] = NoEntry /\ resumeAt[n] # None
  /\ IF resumeAt[n] - now <= 0 THEN Launch(n, resumeAt[n]) /\ UNCHANGED <<entries, timers, tooLong>>
     ELSE Arms(n, resumeAt[n]) /\ UNCHANGED resumeAt
  /\ UNCHANGED <<now, bucketVars>>

\* A timer fires: whatever entry its node has is gone.
Fires(n, entry) ==
  /\ <<n, entry>> \in timers /\ now >= entry.firesAt
  /\ timers' = timers \ {<<n, entry>>} /\ entries' = [entries EXCEPT ![n] = NoEntry]
  /\ Launch(n, entry.resumeAt)
  /\ UNCHANGED <<now, tooLong, bucketVars>>

\* cancelNode, of a node that is scheduled.
CancelNode(n) ==
  /\ entries[n] # NoEntry
  /\ timers' = timers \ {<<n, entries[n]>>} /\ entries' = [entries EXCEPT ![n] = NoEntry]
  /\ resumeAt' = [resumeAt EXCEPT ![n] = None]
  /\ UNCHANGED <<now, launched, cut, tooLong, bucketVars>>

\* cancelAll, of a shutdown: what is persisted stays.
WithoutCancelled == {t \in timers : entries[t[1]] # t[2]}

CancelAll ==
  /\ timers' = WithoutCancelled /\ entries' = [n \in TimedNodes |-> NoEntry]
  /\ UNCHANGED <<now, resumeAt, launched, cut, tooLong, bucketVars>>

-----------------------------------------------------------------------------
\* The RateLimiter.
Refilled == LET units == bucket.units + (now - bucket.at) * Refill IN
            IF units > BucketSize * CallUnits THEN BucketSize * CallUnits ELSE units

\* The ticks until a bucket holds a call.
Until(units) == (CallUnits - units + Refill - 1) \div Refill

AcquireOrReject ==
  /\ IF Refilled >= CallUnits
     THEN /\ bucket' = [units |-> Refilled - CallUnits, at |-> now]
          /\ granted' = granted + 1 /\ retryAt' = NoRetry
     ELSE /\ bucket' = [units |-> Refilled, at |-> now]
          /\ retryAt' = now + Until(Refilled) /\ UNCHANGED granted
  /\ UNCHANGED <<now, nodeTimerVars>>

TimerNext ==
  \/ Tick \/ AcquireOrReject \/ CancelAll
  \/ \E n \in TimedNodes : ScheduleNode(n) \/ RescheduleFromPersistence(n) \/ CancelNode(n)
  \/ \E t \in timers : Fires(t[1], t[2])

TimerSpec == TimerInit /\ [][TimerNext]_timerVars

-----------------------------------------------------------------------------
\* parseDelay: a bare number is in milliseconds, a bare number in a string in seconds.
UnitMs == [ms |-> 1, s |-> 1000, m |-> 60000, h |-> 3600000, d |-> 86400000]
ParseDelay(delay) ==
  CASE delay.form = "absent" -> 0
    [] delay.form = "number" -> IF delay.value >= 0 THEN delay.value ELSE None
    [] delay.form = "string" /\ delay.unit = "" -> delay.value * UnitMs.s
    [] delay.form = "string" /\ delay.unit \in DOMAIN UnitMs -> delay.value * UnitMs[delay.unit]
    [] OTHER -> None

\* The delay of a provider retry, in minutes: what the service asks for, if it asks for something,
\* else the schedule; none at all when the attempts are used up.
BackoffSchedule == <<5, 10, 30, 60, 90, 120, 240, 480, 1440>>
MaxProviderRetryAttempts == 10

ProviderRetryDelay(retry, retryAfter) ==
  IF retry >= MaxProviderRetryAttempts THEN None
  ELSE IF retryAfter > 0 THEN retryAfter ELSE BackoffSchedule[retry]

\* Retry-After: a number of seconds above zero, or a date, which may have passed; None otherwise.
RetryAfter(form, value) ==
  CASE form = "seconds" /\ value > 0 -> value
    [] form = "date" -> IF value > 0 THEN value ELSE 0
    [] OTHER -> None

\* A delay that is understood is never negative, and nothing is waited for only if it says so.
ASSUME DelaysAssumption ==
  \A form \in {"absent", "number", "string"}, value \in 0 .. 2, unit \in DOMAIN UnitMs \cup {"", "w"} :
    LET ms == ParseDelay([form |-> form, value |-> value, unit |-> unit]) IN
    ms # None => ms >= 0 /\ (ms = 0 <=> form = "absent" \/ value = 0)

\* Every retry is given a wait above zero until the attempts are used up, whatever the header says.
ASSUME RetriesWaitAssumption ==
  \A retry \in 1 .. 2 * MaxProviderRetryAttempts :
    \A form \in {"seconds", "date", "absent"}, value \in -2 .. 2 :
      LET delay == ProviderRetryDelay(retry, RetryAfter(form, value)) IN
      IF retry < MaxProviderRetryAttempts THEN delay > 0 ELSE delay = None

-----------------------------------------------------------------------------
\* Nothing is launched before its time, except what waits too long for a timer; no timer outlives
\* its entry, so nothing is launched twice or after it was cancelled; and the limiter keeps
\* to its rate, and to its word when it says when to come back.
TimersAreTrue ==
  /\ cut \subseteq tooLong
  /\ \A t \in timers : entries[t[1]] = t[2]
  /\ \A n \in launched : resumeAt[n] = None
  /\ granted * CallUnits <= BucketSize * CallUnits + now * Refill
  /\ retryAt # NoRetry /\ now >= retryAt => Refilled >= CallUnits

=============================================================================
