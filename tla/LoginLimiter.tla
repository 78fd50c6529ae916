---------------------------- MODULE LoginLimiter ----------------------------
(***************************************************************************)
(* PersistentRateLimiter for one source: its cache entry, its SQLite       *)
(* bucket, the clean-up thread, restarts of routerd and a wall clock that  *)
(* may be stepped.                                                         *)
(*                                                                         *)
(* A Time made by Time::now() has a wall and a monotonic reading; one read *)
(* back from the database has the wall reading only, in whole seconds.     *)
(***************************************************************************)
EXTENDS Integers

CONSTANTS
  LIMIT, WINDOW,
  SECOND,       \* clock ticks of a second
  Offsets,      \* what a clock step makes of wall minus monotonic time
  MaxTime,      \* bound on the monotonic clock
  MaxSteps      \* bound on clock steps

ASSUME LimiterAssumption ==
  /\ LIMIT \in Nat \ {0} /\ WINDOW \in Nat /\ SECOND \in Nat \ {0}
  /\ Offsets \subseteq Int /\ 0 \in Offsets /\ MaxTime \in Nat /\ MaxSteps \in Nat

VARIABLES
  now,        \* the monotonic clock
  offset,     \* of the wall clock
  cache,      \* (attempts, first_seen); attempts 0 is no entry
  bucket,     \* the row of rate_limit_buckets; attempts 0 is no row
  janitor,
  opened,     \* history: when the window in force was opened
  granted,    \* history: attempts allowed since then
  steps,      \* history: clock steps so far
  loose,      \* history: it was not stored when it opened, or the clock was stepped
  lockedSince \* history: when the source came to be refused, -1 if it is not

clocks == <<now, offset, steps, loose>>
limiterVars == <<now, offset, cache, bucket, janitor, opened, granted, steps, loose, lockedSince>>

NoMono == -1
Time == [wall : Int, mono : Int]
NoEntry == [attempts |-> 0, first |-> [wall |-> 0, mono |-> NoMono]]
NoBucket == [attempts |-> 0, wall |-> 0]

LimiterTypeOK ==
  /\ now \in 0 .. MaxTime /\ offset \in Offsets
  /\ cache \in [attempts : 0 .. LIMIT, first : Time] /\ bucket \in [attempts : 0 .. LIMIT, wall : Int]
  /\ janitor \in {"sleep", "clean"}
  /\ opened \in 0 .. MaxTime /\ granted \in Nat /\ steps \in 0 .. MaxSteps
  /\ loose \in BOOLEAN /\ lockedSince \in -1 .. MaxTime

LimiterInit ==
  /\ now = 0 /\ offset = 0 /\ cache = NoEntry /\ bucket = NoBucket
  /\ janitor = "sleep" /\ opened = 0 /\ granted = 0 /\ steps = 0 /\ loose = TRUE
  /\ lockedSince = -1

-----------------------------------------------------------------------------
Wall == now + offset

Now == [wall |-> Wall, mono |-> now]

\* now.sub(t): by the monotonic readings when both have one.
Age(t) == IF t.mono # NoMono THEN now - t.mono ELSE Wall - t.wall

\* now.before(t)
Before(t) == IF t.mono # NoMono THEN now < t.mono ELSE Wall < t.wall

rfc3339(w) == w - (w % SECOND)

Loaded(b) == [wall |-> b.wall, mono |-> NoMono]

\* A window that starts after now was opened before the clock was stepped back.
Lapsed(t) == Age(t) > WINDOW \/ Before(t)

\* An attempt is allowed only once it is on disk.
set_rate_limit_bucket(attempts, first, before) ==
  \/ granted' = before /\ UNCHANGED bucket
  \/ granted' = before + 1 /\ bucket' = [attempts |-> attempts, wall |-> rfc3339(first.wall)]

Open ==
  /\ cache' = [attempts |-> 1, first |-> Now]
  /\ set_rate_limit_bucket(1, Now, 0)
  /\ opened' = now /\ loose' = (granted' = 0)

count_ignoring_errors(attempts, first) ==
  /\ cache' = [attempts |-> attempts + 1, first |-> first]
  /\ granted' = granted + 1
  /\ bucket' \in {bucket, [attempts |-> attempts + 1, wall |-> rfc3339(first.wall)]}
  /\ UNCHANGED <<opened, loose>>

Count(attempts, first) ==
  /\ cache' = [attempts |-> attempts + 1, first |-> first]
  /\ set_rate_limit_bucket(attempts + 1, first, granted)
  /\ UNCHANGED <<opened, loose>>

Refuse(attempts, first) ==
  /\ cache' = [attempts |-> attempts, first |-> first]
  /\ UNCHANGED <<bucket, opened, granted, loose>>

Judge(attempts, first) ==
  IF Lapsed(first) THEN Open
  ELSE IF attempts >= LIMIT THEN Refuse(attempts, first) ELSE Count(attempts, first)

\* An attempt made now would be refused for the count.
Denied ==
  LET full(attempts, first) == attempts >= LIMIT /\ ~Lapsed(first)
  IN  IF cache.attempts # 0 THEN full(cache.attempts, cache.first)
      ELSE full(bucket.attempts, Loaded(bucket))

Watch ==
  lockedSince' = IF ~Denied' THEN -1
             ELSE IF lockedSince = -1 \/ offset' # offset THEN now' ELSE lockedSince

allow_cached ==
  /\ cache.attempts # 0
  /\ Judge(cache.attempts, cache.first)
  /\ UNCHANGED <<now, offset, steps, janitor>>
  /\ Watch

\* An unreadable bucket refuses and caches nothing.
allow_loaded ==
  /\ cache.attempts = 0
  /\ \/ UNCHANGED <<cache, bucket, opened, granted, loose>>
     \/ bucket.attempts = 0 /\ Open
     \/ bucket.attempts # 0 /\ Judge(bucket.attempts, Loaded(bucket))
  /\ UNCHANGED <<now, offset, steps, janitor>>
  /\ Watch

\* The clean-up thread: the cache under its lock, then the table.
CleanCache ==
  /\ janitor = "sleep" /\ janitor' = "clean"
  /\ cache' = IF Age(cache.first) <= WINDOW THEN cache ELSE NoEntry
  /\ UNCHANGED <<clocks, bucket, opened, granted>>
  /\ Watch

clean_expired_rate_limit_buckets ==
  /\ janitor = "clean" /\ janitor' = "sleep"
  /\ \/ UNCHANGED bucket
     \/ bucket' = IF bucket.wall < rfc3339(Wall - WINDOW) THEN NoBucket ELSE bucket
  /\ UNCHANGED <<clocks, cache, opened, granted>>
  /\ Watch

Restart ==
  /\ cache' = NoEntry /\ janitor' = "sleep"
  /\ UNCHANGED <<clocks, bucket, opened, granted>>
  /\ Watch

ClockStep ==
  /\ steps < MaxSteps /\ steps' = steps + 1
  /\ offset' \in Offsets /\ loose' = TRUE
  /\ UNCHANGED <<now, cache, bucket, janitor, opened, granted>>
  /\ Watch

Tick ==
  /\ now < MaxTime /\ now' = now + 1
  /\ UNCHANGED <<offset, steps, loose, cache, bucket, janitor, opened, granted>>
  /\ Watch

LimiterNext ==
  \/ allow_cached \/ allow_loaded \/ CleanCache \/ clean_expired_rate_limit_buckets
  \/ Restart \/ ClockStep \/ Tick

LimiterSpec == LimiterInit /\ [][LimiterNext]_limiterVars

-----------------------------------------------------------------------------
(* Properties.                                                             *)

\* No window allows more than LIMIT attempts, restarts and failed writes
\* included: an attempt is allowed only after its count is in the database.
WithinLimit == granted <= LIMIT

\* A new window is opened only when the old one has run its time, less the
\* second the stored start was rounded by, unless the clock was stepped while
\* it ran or its opening could not be stored.
WindowRuns ==
  [][opened' # opened => loose \/ now - opened > WINDOW - SECOND]_limiterVars

\* Between two steps of the clock a source is never shut out for longer than
\* two windows, whatever the clock did before and however often routerd
\* restarts: one by the monotonic start in the cache, and one by the stored
\* start once the entry is gone. The code says of a start in the future that
\* "counting it as still open would lock the source out for the size of the
\* step".
LockoutEnds == lockedSince # -1 => now - lockedSince <= 2 * WINDOW

\* The limiter neither lets more attempts through than its limit, over restarts and
\* failed writes, nor locks a source out for longer than two windows.
LimiterSound ==
  /\ LimiterTypeOK /\ WithinLimit /\ LockoutEnds
=============================================================================
