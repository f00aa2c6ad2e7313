----------------------------- MODULE RateLimiter -----------------------------
(***************************************************************************)
(* The token bucket of agent/src/security/rate_limit.rs, shared by every   *)
(* WebSocket session and REST request of the agent.                        *)
(*                                                                         *)
(* check reads the clock and only then takes the lock, so a caller may     *)
(* enter with a time that is older than the bucket's.  One tick of the     *)
(* clock is the time in which rate refills one unit; a request takes Cost  *)
(* units (the code's 1.0) and a full bucket holds Burst units.             *)
(*                                                                         *)
(* A definition marked "Mutant" is a plausible mistake in the definition   *)
(* that follows it and is not part of the specification.                   *)
(***************************************************************************)
EXTENDS Integers, FiniteSets

CONSTANTS
  Keys,         \* client ids
  Threads,      \* concurrent callers of check
  Burst,        \* a full bucket
  Cost,         \* what one request takes
  Idle,         \* the 60 s after which a bucket may be dropped
  MaxBuckets,   \* the 10,000 buckets above which idle ones are dropped
  MaxTime       \* the clock stops here

\* RateLimiter::new raises burst to one request at least.  A bucket refills
\* within Idle: 2 s with the default configuration (50 a second, burst 100).
ASSUME LimiterAssumption ==
  /\ Burst \in Nat /\ Cost \in Nat /\ 0 < Cost /\ Cost <= Burst
  /\ Idle \in Nat /\ Burst <= Idle
  /\ MaxBuckets \in Nat /\ MaxTime \in Nat

VARIABLES
  now,      \* the clock
  present,  \* keys that have a bucket
  tokens,   \* Bucket.tokens of those
  last,     \* Bucket.last of those
  call,     \* per thread, the call under way: [on, key, at]
  from,     \* history: the start of the window that is looked at
  spent,    \* history: units admitted to calls made in the window
  mark,     \* history: Bucket.last, or when the bucket was dropped
  back,     \* history: by how much callers with an old time set it back
  refused   \* history: keys refused in the window

buckets == <<present, tokens, last>>
history == <<from, spent, mark, back, refused>>
limiterVars == <<now, buckets, call, history>>

NoCall(k) == [on |-> FALSE, key |-> k, at |-> 0]

LimiterInit ==
  /\ now = 0 /\ present = {}
  /\ tokens = [k \in Keys |-> 0] /\ last = [k \in Keys |-> 0]
  /\ \E k \in Keys : call = [t \in Threads |-> NoCall(k)]
  /\ from = 0 /\ spent = [k \in Keys |-> 0] /\ mark = [k \in Keys |-> 0]
  /\ back = [k \in Keys |-> 0] /\ refused = {}

\* duration_since is zero for a time in the future
Elapsed(at, since) == IF at >= since THEN at - since ELSE 0
AtMost(n, limit) == IF n <= limit THEN n ELSE limit

\* check: the clock is read before the lock is taken
ReadClock(t) ==
  /\ ~call[t].on
  /\ \E k \in Keys : call' = [call EXCEPT ![t] = [on |-> TRUE, key |-> k, at |-> now]]
  /\ UNCHANGED <<now, buckets, history>>

\* buckets.retain, when there are too many
Dropped(at) ==
  IF Cardinality(present) > MaxBuckets
    THEN {k \in present : Elapsed(at, last[k]) >= Idle}
    ELSE {}

\* Mutant: a bucket that was idle fills beyond the burst
FilledUncapped(k, at, kept) ==
  IF k \in kept THEN tokens[k] + Elapsed(at, last[k]) ELSE Burst

\* Mutant: a new bucket holds one request
FilledFromOne(k, at, kept) ==
  IF k \in kept THEN AtMost(tokens[k] + Elapsed(at, last[k]), Burst) ELSE Cost

\* or_insert and the refill
Filled(k, at, kept) ==
  IF k \in kept THEN AtMost(tokens[k] + Elapsed(at, last[k]), Burst) ELSE Burst

\* check_at, under the lock
Check(t) ==
  LET k == call[t].key
      at == call[t].at
      gone == Dropped(at)
      filled == Filled(k, at, present \ gone)
      moved(i) == IF i = k \/ i \in gone THEN at ELSE mark[i]
  IN
  /\ call[t].on
  /\ call' = [call EXCEPT ![t] = NoCall(k)]
  /\ present' = (present \ gone) \cup {k}
  /\ last' = [last EXCEPT ![k] = at]
  /\ tokens' = [tokens EXCEPT ![k] = IF filled >= Cost THEN filled - Cost ELSE filled]
  /\ spent' = [spent EXCEPT ![k] = IF filled >= Cost /\ at >= from THEN @ + Cost ELSE @]
  /\ refused' = IF filled < Cost THEN refused \cup {k} ELSE refused
  /\ mark' = [i \in Keys |-> moved(i)]
  /\ back' = [i \in Keys |-> back[i] + Elapsed(mark[i], moved(i))]
  /\ UNCHANGED <<now, from>>

Tick == now < MaxTime /\ now' = now + 1 /\ UNCHANGED <<buckets, call, history>>

\* history: look at the window that starts now
OpenWindow ==
  /\ from < now /\ from' = now
  /\ spent' = [k \in Keys |-> 0] /\ back' = [k \in Keys |-> 0] /\ refused' = {}
  /\ UNCHANGED <<now, buckets, call, mark>>

LimiterNext ==
  \/ \E t \in Threads : ReadClock(t) \/ Check(t)
  \/ Tick
  \/ OpenWindow

LimiterSpec == LimiterInit /\ [][LimiterNext]_limiterVars

-----------------------------------------------------------------------------

\* The state is well formed, and a bucket is never in debt or over-full.
LimiterTypeOK ==
  /\ now \in 0..MaxTime /\ from \in 0..now
  /\ present \subseteq Keys
  /\ tokens \in [Keys -> 0..Burst] /\ last \in [Keys -> 0..now]
  /\ call \in [Threads -> [on : BOOLEAN, key : Keys, at : 0..now]]
  /\ spent \in [Keys -> Nat] /\ mark \in [Keys -> 0..now]
  /\ back \in [Keys -> Nat] /\ refused \subseteq Keys

\* In any window a client is admitted for at most the burst and what the rate
\* refills in the window, plus the time by which callers that read the clock
\* before the lock set the bucket back (RateLimiter::check, check_at).
RateBound ==
  \A k \in Keys : spent[k] <= Burst + (now - from) + back[k]

\* From a start with full buckets, a client is refused only once it has used
\* its burst: neither the race for the lock nor the dropping of idle buckets
\* takes tokens away (check_at).
BurstIsHonoured ==
  from = 0 => \A k \in refused : spent[k] > Burst - Cost

\* Without the allowance for callers that enter the lock out of order.
RateBoundExact == \A k \in Keys : spent[k] <= Burst + (now - from)
=============================================================================
