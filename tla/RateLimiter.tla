----------------------------- MODULE RateLimiter -----------------------------
(***************************************************************************)
(* The token bucket of dd-trace-sampling (rate_limiter.rs).                *)
(*                                                                         *)
(* A request takes its timestamp before any lock, asks for a token under   *)
(* the mutex, and is counted under the mutex again: three steps, and       *)
(* requests of several threads come in any order between them.  Time is a  *)
(* clock of whole ticks; instants that are earlier than the one they are   *)
(* subtracted from give an elapsed time of zero.                           *)
(***************************************************************************)
EXTENDS Integers

CONSTANTS
  Threads,      \* threads that sample
  RateLimit,    \* rate_limit, possibly zero or negative
  Window,       \* time_window_ns, in ticks
  Never,        \* None
  MaxTime,      \* bound: ticks
  MaxRequests   \* bound: requests

ASSUME LimiterAssumption ==
  /\ RateLimit \in Int
  /\ Window \in Nat \ {0}
  /\ Never \notin Nat
  /\ MaxTime \in Nat
  /\ MaxRequests \in Nat

VARIABLES
  clock,    \* Instant::now
  limiter,  \* RateLimiterState
  request,  \* the is_allowed call of each thread
  granted,  \* history: requests allowed
  asked,    \* history: requests begun
  latest,   \* history: when a request was allowed last
  askers    \* history: threads that have asked

vars == <<clock, limiter, request, granted, asked, latest, askers>>

-----------------------------------------------------------------------------
(* Data types *)

Times == 0..MaxTime

\* A rate is the pair of the tokens allowed and the tokens asked for.
Rate == [allowed : Nat, total : Nat]

State ==
  [tokens : Nat \cup {RateLimit}, last_update : Nat, current_window_start : Nat \cup {Never},
   tokens_allowed : Nat, tokens_total : Nat, prev_window_rate : Rate \cup {Never}]

\* idle; taken: has its timestamp; decided: has its answer; counted: returns
Request == [pc : {"idle", "taken", "decided", "counted"}, now : Nat, allowed : BOOLEAN]

-----------------------------------------------------------------------------

Init ==
  /\ clock = 0
  /\ limiter = [tokens |-> RateLimit, last_update |-> 0, current_window_start |-> Never,
                tokens_allowed |-> 0, tokens_total |-> 0, prev_window_rate |-> Never]
  /\ request = [th \in Threads |-> [pc |-> "idle", now |-> 0, allowed |-> FALSE]]
  /\ granted = 0
  /\ asked = 0
  /\ latest = 0
  /\ askers = {}

Tick ==
  /\ clock < MaxTime
  /\ clock' = clock + 1
  /\ UNCHANGED <<limiter, request, granted, asked, latest, askers>>

\* is_allowed: the timestamp, before any lock
is_allowed(th) ==
  /\ request[th].pc = "idle"
  /\ asked < MaxRequests
  /\ request' = [request EXCEPT ![th] = [pc |-> "taken", now |-> clock, allowed |-> FALSE]]
  /\ asked' = asked + 1
  /\ askers' = askers \cup {th}
  /\ UNCHANGED <<clock, limiter, granted, latest>>

\* Instant::duration_since saturates.
duration_since(now, earlier) == IF now > earlier THEN now - earlier ELSE 0

\* tokens_to_add: a float that is truncated.  Where the exact product is whole
\* the float may be the next one below it.
TokensToAdd(elapsed) ==
  LET exact == (elapsed * RateLimit) \div Window
  IN {exact} \cup (IF (elapsed * RateLimit) % Window = 0 /\ elapsed % Window # 0
                   THEN {exact - 1} ELSE {})

\* Mutant: the bucket has no maximum.
ReplenishUncapped(s, now, added) ==
  [s EXCEPT !.tokens = s.tokens + added, !.last_update = now]

\* Mutant: the time of the last update stays.
ReplenishAgain(s, now, added) ==
  [s EXCEPT !.tokens = IF s.tokens + added > RateLimit THEN RateLimit ELSE s.tokens + added]

replenish(s, now, added) ==
  [s EXCEPT !.tokens = IF added > 0
                       THEN IF s.tokens + added > RateLimit THEN RateLimit ELSE s.tokens + added
                       ELSE s.tokens,
            !.last_update = now]

Decide(th, allowed) ==
  /\ request' = [request EXCEPT ![th].pc = "decided", ![th].allowed = allowed]
  /\ granted' = IF allowed THEN granted + 1 ELSE granted
  /\ latest' = IF allowed THEN request[th].now ELSE latest
  /\ UNCHANGED <<clock, asked, askers>>

Take(s) == [s EXCEPT !.tokens = @ - 1]

\* The bucket is filled only when it is empty.
is_allowed_at(th) ==
  /\ request[th].pc = "taken"
  /\ \/ RateLimit = 0 /\ Decide(th, FALSE) /\ UNCHANGED limiter
     \/ RateLimit < 0 /\ Decide(th, TRUE) /\ UNCHANGED limiter
     \/ /\ RateLimit > 0 /\ limiter.tokens >= 1
        /\ limiter' = Take(limiter) /\ Decide(th, TRUE)
     \/ /\ RateLimit > 0 /\ limiter.tokens < 1
        /\ \E added \in TokensToAdd(duration_since(request[th].now, limiter.last_update)) :
             LET s == replenish(limiter, request[th].now, added)
             IN /\ limiter' = IF s.tokens >= 1 THEN Take(s) ELSE s
                /\ Decide(th, s.tokens >= 1)

current_window_rate(s) ==
  IF s.tokens_total = 0 THEN [allowed |-> 1, total |-> 1]
  ELSE [allowed |-> s.tokens_allowed, total |-> s.tokens_total]

WindowOver(s, now) ==
  s.current_window_start # Never /\ duration_since(now, s.current_window_start) >= Window

\* Mutant: a new window forgets only what was asked for.
WindowKeepsAllowed(s, now) ==
  IF s.current_window_start = Never THEN [s EXCEPT !.current_window_start = now]
  ELSE IF WindowOver(s, now)
  THEN [s EXCEPT !.prev_window_rate = current_window_rate(s), !.tokens_total = 0,
                 !.current_window_start = now]
  ELSE s

\* The first request opens a window; one that comes a window later opens the
\* next and remembers the rate of the one before.
WindowAt(s, now) ==
  IF s.current_window_start = Never THEN [s EXCEPT !.current_window_start = now]
  ELSE IF WindowOver(s, now)
  THEN [s EXCEPT !.prev_window_rate = current_window_rate(s), !.tokens_allowed = 0,
                 !.tokens_total = 0, !.current_window_start = now]
  ELSE s

update_rate_counts(th) ==
  /\ request[th].pc = "decided"
  /\ LET s == WindowAt(limiter, request[th].now)
     IN limiter' = [s EXCEPT !.tokens_allowed = IF request[th].allowed THEN @ + 1 ELSE @,
                             !.tokens_total = @ + 1]
  /\ request' = [request EXCEPT ![th].pc = "counted"]
  /\ UNCHANGED <<clock, granted, asked, latest, askers>>

\* is_allowed returns; what the thread does next is its own affair.
Returns(th) ==
  /\ request[th].pc = "counted"
  /\ request' = [request EXCEPT ![th].pc = "idle"]
  /\ UNCHANGED <<clock, limiter, granted, asked, latest, askers>>

\* effective_rate: the rate of this window, or its mean with the last one's
effective_rate(s) ==
  LET current == current_window_rate(s)
      prev    == s.prev_window_rate
  IN IF prev = Never THEN current
     ELSE [allowed |-> current.allowed * prev.total + prev.allowed * current.total,
           total |-> 2 * current.total * prev.total]

Next ==
  \/ Tick
  \/ \E th \in Threads : \/ is_allowed(th)
                         \/ is_allowed_at(th)
                         \/ update_rate_counts(th)
                         \/ Returns(th)

Spec == Init /\ [][Next]_vars

-----------------------------------------------------------------------------
(* Properties *)

\* Every record has its type.
TypeOK ==
  /\ clock \in Times
  /\ limiter \in State
  /\ request \in [Threads -> Request]
  /\ granted \in Nat /\ asked \in Nat /\ latest \in Nat /\ askers \subseteq Threads

\* The bucket never holds more than its maximum nor less than nothing, with
\* timestamps in any order; without a positive limit it is never touched
\* (rate_limiter.rs 109-135, 168-188).
TokensInBucket ==
  IF RateLimit > 0 THEN limiter.tokens \in 0..RateLimit ELSE limiter.tokens = RateLimit

\* The counts of a window say at most that everything was allowed, so that
\* the effective rate is between 0 and 1 (rate_limiter.rs 137-166, 205-211).
EffectiveRateIsRate ==
  /\ limiter.tokens_allowed <= limiter.tokens_total
  /\ effective_rate(limiter).allowed <= effective_rate(limiter).total

\* The limiter's numbers stay what they stand for, whatever threads do.
LimiterSound == TokensInBucket /\ EffectiveRateIsRate

\* The tokens the bucket started with and what the time that has passed is worth
BucketBound ==
  RateLimit > 0 => granted * Window <= RateLimit * (Window + clock)

\* One thread asked so far, or none.
Alone == \A t, u \in askers : t = u

\* A thread that is alone with the limiter gets no more than the bucket held and
\* the time that has passed is worth, with the rounding of the float either way
\* (rate_limiter.rs 7, 69: a token bucket, so many requests per second; 168-188).
OneThreadBounded == Alone => BucketBound

\* A limit of zero has the effective rate 0 and a negative one the rate 1 from
\* the first request that was counted on, in every later window too
\* (rate_limiter.rs 68-71, 133-157, and the tests at 220-244).
ExtremeRate ==
  limiter.current_window_start # Never =>
    /\ RateLimit = 0 => effective_rate(limiter).allowed = 0
    /\ RateLimit < 0 => effective_rate(limiter).allowed = effective_rate(limiter).total

\* Tokens come back with time (rate_limiter.rs 168, and test_rate_limiter_limit_rate
\* 254-258): a request that comes a window or more after the last allowed one is
\* allowed, whatever was asked in between.
TokensComeBack ==
  \A th \in Threads :
    RateLimit > 0 /\ request[th].pc = "decided" /\ ~request[th].allowed
      => request[th].now - latest < Window

=============================================================================
