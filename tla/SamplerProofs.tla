---------------------------- MODULE SamplerProofs ----------------------------
(***************************************************************************)
(* The token bucket for every limit, every window and any number of        *)
(* threads: what it holds and what rates it reports; and for one thread    *)
(* the bound on what it allows, which two threads can exceed when the one  *)
(* with the earlier timestamp is the last to replenish.                    *)
(*                                                                         *)
(* Then the sampler around it, for every list of rules and every rate:     *)
(* what explains a decision, and that tokens are spent on kept traces.     *)
(*                                                                         *)
(* Last the rate sampler: services that decide apart from each other.      *)
(***************************************************************************)
EXTENDS Sampler, RateSampler, FiniteLemmas, FunctionTheorems

-----------------------------------------------------------------------------
(* Arithmetic *)

LEMMA Division ==
  ASSUME NEW a \in Int, NEW w \in Nat \ {0}
  PROVE  /\ a \div w \in Int
         /\ (a \div w) * w <= a
         /\ a % w = 0 => (a \div w) * w = a
  BY Z3

LEMMA ProductMonotone ==
  ASSUME NEW a \in Int, NEW b \in Int, NEW w \in Nat, a <= b
  PROVE  a * w <= b * w
  BY Z3

\* The mean of two rates that are at most 1 is at most 1.
LEMMA MeanOfRates ==
  ASSUME NEW a \in Nat, NEW b \in Nat, NEW c \in Nat, NEW d \in Nat, a <= b, c <= d
  PROVE  a * d + c * b <= 2 * b * d
<1>1. a * d <= b * d /\ c * b <= d * b
  BY ProductMonotone
<1> QED
  BY <1>1, Z3

-----------------------------------------------------------------------------
(* Types, the bucket and the counts *)

\* A request that has its answer under a limit without tokens has the one
\* answer; the counts then have one sort only.
Uniform(allowed, total) ==
  /\ allowed <= total
  /\ RateLimit = 0 => allowed = 0
  /\ RateLimit < 0 => allowed = total

Counted ==
  /\ Uniform(limiter.tokens_allowed, limiter.tokens_total)
  /\ limiter.prev_window_rate # Never =>
       /\ Uniform(limiter.prev_window_rate.allowed, limiter.prev_window_rate.total)
       /\ limiter.prev_window_rate.total > 0
  /\ limiter.current_window_start = Never => limiter.tokens_total = 0
  /\ limiter.current_window_start # Never => limiter.tokens_total > 0
  /\ \A th \in Threads : request[th].pc = "decided" =>
       /\ RateLimit = 0 => ~request[th].allowed
       /\ RateLimit < 0 => request[th].allowed

Inv == TypeOK /\ TokensInBucket /\ Counted

LEMMA InvInitially == Init => Inv
<1> SUFFICES ASSUME Init PROVE Inv
  OBVIOUS
<1>1. TypeOK
  BY LimiterAssumption DEF Init, TypeOK, Times, State, Request
<1>2. TokensInBucket
  BY LimiterAssumption DEF Init, TokensInBucket
<1>3. Counted
  BY LimiterAssumption DEF Init, Counted, Uniform
<1> QED
  BY <1>1, <1>2, <1>3 DEF Inv

LEMMA AddedTyped ==
  ASSUME NEW elapsed \in Nat, NEW added \in TokensToAdd(elapsed)
  PROVE  added \in Int /\ added * Window <= elapsed * RateLimit
<1>1. elapsed * RateLimit \in Int /\ Window \in Nat \ {0}
  BY LimiterAssumption
<1>2. /\ (elapsed * RateLimit) \div Window \in Int
      /\ ((elapsed * RateLimit) \div Window) * Window <= elapsed * RateLimit
  BY <1>1, Division
<1> DEFINE exact == (elapsed * RateLimit) \div Window
<1>3. added \in {exact, exact - 1}
  BY DEF TokensToAdd
<1>4. exact \in Int /\ exact * Window <= elapsed * RateLimit
  BY <1>2
<1> HIDE DEF exact
<1>5. (exact - 1) * Window <= exact * Window
  BY <1>1, <1>4, ProductMonotone
<1> QED
  BY <1>1, <1>3, <1>4, <1>5

\* What a request with a positive limit does to the bucket: it takes a token
\* that is there; or it refills an empty bucket, and takes a token or finds
\* none.
TakesToken(th) ==
  /\ limiter.tokens >= 1 /\ Decide(th, TRUE)
  /\ limiter' = [limiter EXCEPT !.tokens = limiter.tokens - 1]

Refills(th, added, left) ==
  /\ limiter.tokens = 0
  /\ limiter' = [limiter EXCEPT !.tokens = left, !.last_update = request[th].now]
  /\ \/ Decide(th, TRUE) /\ left + 1 <= added /\ left + 1 <= RateLimit
     \/ Decide(th, FALSE) /\ left = 0

LEMMA BucketStep ==
  ASSUME Inv, NEW th \in Threads, is_allowed_at(th), RateLimit > 0
  PROVE  \/ TakesToken(th)
         \/ \E added \in TokensToAdd(duration_since(request[th].now, limiter.last_update)),
               left \in Nat : Refills(th, added, left)
<1>a. /\ limiter \in State /\ limiter.tokens \in 0..RateLimit /\ RateLimit \in Int
      /\ limiter.last_update \in Nat /\ request[th].now \in Nat
  BY LimiterAssumption DEF Inv, TypeOK, TokensInBucket, State, Request
<1>1. CASE limiter.tokens >= 1
  <2>1. limiter' = Take(limiter) /\ Decide(th, TRUE)
    <3>1. ~(RateLimit = 0) /\ ~(RateLimit < 0) /\ ~(limiter.tokens < 1)
      BY <1>1, <1>a
    <3> QED
      BY <3>1, Zenon DEF is_allowed_at
  <2> QED
    BY <1>1, <2>1 DEF Take, TakesToken
<1>2. CASE limiter.tokens < 1
  <2>1. PICK added \in TokensToAdd(duration_since(request[th].now, limiter.last_update)) :
          LET s == replenish(limiter, request[th].now, added)
          IN /\ limiter' = IF s.tokens >= 1 THEN Take(s) ELSE s
             /\ Decide(th, s.tokens >= 1)
    <3>1. ~(RateLimit = 0) /\ ~(RateLimit < 0) /\ ~(limiter.tokens >= 1)
      BY <1>2, <1>a
    <3> QED
      BY <3>1, Zenon DEF is_allowed_at
  <2>2. duration_since(request[th].now, limiter.last_update) \in Nat
    BY <1>a DEF duration_since
  <2>3. added \in Int
    BY <2>2, AddedTyped
  <2>4. limiter.tokens = 0
    BY <1>2, <1>a
  <2> DEFINE s == replenish(limiter, request[th].now, added)
  <2> DEFINE full == IF added > 0
                     THEN IF limiter.tokens + added > RateLimit THEN RateLimit ELSE limiter.tokens + added
                     ELSE limiter.tokens
  <2>5. /\ s = [limiter EXCEPT !.tokens = full, !.last_update = request[th].now]
        /\ full \in 0..RateLimit
        /\ full = 0 \/ full <= added
    <3>1. s = [limiter EXCEPT !.tokens = full, !.last_update = request[th].now]
      BY DEF replenish
    <3>2. full \in 0..RateLimit /\ (full = 0 \/ full <= added)
      BY <1>a, <2>3, <2>4
    <3> QED
      BY <3>1, <3>2
  <2> HIDE DEF full
  <2>6. s.tokens = full
    BY <1>a, <2>5 DEF State
  <2>7. CASE full >= 1
    <3>1. limiter' = Take(s) /\ Decide(th, TRUE)
      <4>1. (s.tokens >= 1) = TRUE
        BY <2>6, <2>7
      <4> QED
        BY <2>1, <4>1, Zenon
    <3>2. limiter' = [limiter EXCEPT !.tokens = full - 1, !.last_update = request[th].now]
      BY <1>a, <2>5, <2>6, <3>1 DEF Take, State
    <3>3. full - 1 \in Nat /\ (full - 1) + 1 <= added /\ (full - 1) + 1 <= RateLimit
      BY <1>a, <2>3, <2>5, <2>7
    <3>4. Refills(th, added, full - 1)
      BY <2>4, <3>1, <3>2, <3>3, Zenon DEF Refills
    <3> QED
      BY <3>3, <3>4
  <2>8. CASE ~(full >= 1)
    <3>1. full = 0
      BY <1>a, <2>5, <2>8
    <3>2. limiter' = s /\ Decide(th, FALSE)
      <4>1. (s.tokens >= 1) = FALSE
        BY <2>6, <2>8
      <4> QED
        BY <2>1, <4>1, Zenon
    <3>3. Refills(th, added, 0)
      BY <2>4, <2>5, <3>1, <3>2, Zenon DEF Refills
    <3> QED
      BY <3>3
  <2> QED
    BY <2>7, <2>8
<1> QED
  BY <1>1, <1>2, <1>a

\* The request and the histories after a decision
LEMMA DecideTyped ==
  ASSUME TypeOK, NEW th \in Threads, NEW allowed \in BOOLEAN, Decide(th, allowed)
  PROVE  /\ clock' = clock /\ asked' = asked /\ askers' = askers
         /\ granted' = granted + (IF allowed THEN 1 ELSE 0) /\ granted' \in Nat /\ latest' \in Nat
         /\ request' \in [Threads -> Request]
         /\ request'[th].pc = "decided" /\ request'[th].allowed = allowed
         /\ request'[th].now = request[th].now
         /\ \A u \in Threads \ {th} : request'[u] = request[u]
<1>1. request \in [Threads -> Request] /\ request[th] \in Request /\ request[th].now \in Nat
  BY DEF TypeOK, Request
<1>2. [request[th] EXCEPT !.pc = "decided", !.allowed = allowed] \in Request
  BY <1>1 DEF Request
<1>3. request' = [request EXCEPT ![th] = [request[th] EXCEPT !.pc = "decided", !.allowed = allowed]]
  BY <1>1 DEF Decide
<1> QED
  BY <1>1, <1>2, <1>3 DEF TypeOK, Decide, Request

\* A decision, whatever the limit: the counts stay, the bucket keeps its bounds.
LEMMA DecisionStep ==
  ASSUME Inv, NEW th \in Threads, is_allowed_at(th)
  PROVE  Inv'
<1>a. /\ limiter \in State /\ RateLimit \in Int /\ TypeOK /\ Counted /\ TokensInBucket
      /\ request[th].now \in Nat
  BY LimiterAssumption DEF Inv, TypeOK, Request
<1>1. ASSUME NEW allowed \in BOOLEAN, Decide(th, allowed),
             NEW tokens \in Nat \cup {RateLimit}, NEW update \in Nat,
             limiter' = [limiter EXCEPT !.tokens = tokens, !.last_update = update],
             RateLimit = 0 => ~allowed, RateLimit < 0 => allowed,
             RateLimit > 0 => tokens \in 0..RateLimit,
             ~(RateLimit > 0) => tokens = RateLimit
      PROVE  Inv'
  <2>1. /\ limiter' \in State /\ limiter'.tokens = tokens
        /\ limiter'.current_window_start = limiter.current_window_start
        /\ limiter'.tokens_allowed = limiter.tokens_allowed
        /\ limiter'.tokens_total = limiter.tokens_total
        /\ limiter'.prev_window_rate = limiter.prev_window_rate
    BY <1>a, <1>1 DEF State
  <2>2. TypeOK'
    BY <1>a, <1>1, <2>1, DecideTyped DEF TypeOK
  <2>3. TokensInBucket'
    BY <1>1, <2>1 DEF TokensInBucket
  <2>4. /\ request'[th].pc = "decided" /\ request'[th].allowed = allowed
        /\ \A u \in Threads \ {th} : request'[u] = request[u]
    BY <1>a, <1>1, DecideTyped
  <2>5. Counted'
    BY <1>a, <1>1, <2>1, <2>4 DEF Counted, Uniform
  <2> QED
    BY <2>2, <2>3, <2>5 DEF Inv
<1>2. limiter = [limiter EXCEPT !.tokens = limiter.tokens, !.last_update = limiter.last_update]
      /\ limiter.tokens \in Nat \cup {RateLimit} /\ limiter.last_update \in Nat
  BY <1>a DEF State
<1>3. CASE RateLimit = 0
  <2>1. Decide(th, FALSE) /\ limiter' = limiter
    <3>1. ~(RateLimit < 0) /\ ~(RateLimit > 0)
      BY <1>3
    <3> QED
      BY <3>1, Zenon DEF is_allowed_at
  <2>2. limiter.tokens = RateLimit
    BY <1>3, <1>a DEF TokensInBucket
  <2>3. limiter' = [limiter EXCEPT !.tokens = limiter.tokens, !.last_update = limiter.last_update]
    BY <1>2, <2>1
  <2> QED
    <3>1. ~(RateLimit < 0) /\ ~(RateLimit > 0) /\ ~FALSE /\ FALSE \in BOOLEAN
      BY <1>3
    <3> QED
      BY <1>1, <1>2, <2>1, <2>2, <2>3, <3>1, Zenon
<1>4. CASE RateLimit < 0
  <2>1. Decide(th, TRUE) /\ limiter' = limiter
    <3>1. ~(RateLimit = 0) /\ ~(RateLimit > 0)
      BY <1>4, <1>a
    <3> QED
      BY <3>1, Zenon DEF is_allowed_at
  <2>2. limiter.tokens = RateLimit
    BY <1>4, <1>a DEF TokensInBucket
  <2>3. limiter' = [limiter EXCEPT !.tokens = limiter.tokens, !.last_update = limiter.last_update]
    BY <1>2, <2>1
  <2>4. RateLimit # 0 /\ ~(RateLimit > 0)
    BY <1>4, <1>a
  <2> QED
    BY <1>1, <1>2, <1>4, <2>1, <2>2, <2>3, <2>4
<1>5. CASE RateLimit > 0
  <2>1. RateLimit # 0 /\ ~(RateLimit < 0) /\ limiter.tokens \in 0..RateLimit
    BY <1>5, <1>a DEF TokensInBucket
  <2>2. CASE TakesToken(th)
    <3>1. limiter' = [limiter EXCEPT !.tokens = limiter.tokens - 1, !.last_update = limiter.last_update]
      BY <1>a, <2>2 DEF TakesToken, State
    <3>2. limiter.tokens >= 1 /\ Decide(th, TRUE)
      BY <2>2, Zenon DEF TakesToken
    <3>3. limiter.tokens - 1 \in 0..RateLimit /\ limiter.tokens - 1 \in Nat
      BY <1>a, <2>1, <3>2
    <3> QED
      BY <1>1, <1>2, <1>5, <2>1, <3>1, <3>2, <3>3
  <2>3. ASSUME NEW added \in TokensToAdd(duration_since(request[th].now, limiter.last_update)),
               NEW left \in Nat, Refills(th, added, left)
        PROVE  Inv'
    <3>1. limiter' = [limiter EXCEPT !.tokens = left, !.last_update = request[th].now]
      BY <2>3 DEF Refills
    <3>2. left \in 0..RateLimit
      <4>1. left + 1 <= RateLimit \/ left = 0
        BY <2>3, Zenon DEF Refills
      <4> QED
        BY <1>a, <1>5, <4>1
    <3>3. PICK allowed \in BOOLEAN : Decide(th, allowed)
      BY <2>3, Zenon DEF Refills
    <3> QED
      BY <1>1, <1>5, <1>a, <2>1, <3>1, <3>2, <3>3
  <2> QED
    BY <1>5, <2>2, <2>3, BucketStep
<1> QED
  BY <1>3, <1>4, <1>5, <1>a

\* The counts: a window is counted on after its request, and its rate kept.
LEMMA CountStep ==
  ASSUME Inv, NEW th \in Threads, update_rate_counts(th)
  PROVE  Inv'
<1> DEFINE now == request[th].now
           s == WindowAt(limiter, now)
<1>a. /\ limiter \in State /\ RateLimit \in Int /\ TypeOK /\ Counted /\ TokensInBucket
      /\ request \in [Threads -> Request] /\ request[th] \in Request /\ now \in Nat /\ Never \notin Nat
      /\ request[th].pc = "decided" /\ request[th].allowed \in BOOLEAN
  BY LimiterAssumption DEF Inv, TypeOK, Request, update_rate_counts
<1>b. /\ limiter.tokens_allowed \in Nat /\ limiter.tokens_total \in Nat
      /\ Uniform(limiter.tokens_allowed, limiter.tokens_total)
  BY <1>a DEF State, Counted
<1>c. /\ current_window_rate(limiter) \in Rate
      /\ limiter.tokens_total > 0 =>
           Uniform(current_window_rate(limiter).allowed, current_window_rate(limiter).total)
      /\ current_window_rate(limiter).total > 0
  BY <1>b DEF current_window_rate, Rate
<1>1. /\ s \in State /\ s.tokens = limiter.tokens
      /\ Uniform(s.tokens_allowed, s.tokens_total)
      /\ s.prev_window_rate # Never =>
           /\ Uniform(s.prev_window_rate.allowed, s.prev_window_rate.total)
           /\ s.prev_window_rate.total > 0
      /\ s.current_window_start # Never
  <2>1. CASE limiter.current_window_start = Never
    <3>1. s = [limiter EXCEPT !.current_window_start = now]
      BY <2>1 DEF WindowAt
    <3> QED
      BY <1>a, <1>b, <3>1 DEF State, Counted
  <2>2. CASE limiter.current_window_start # Never /\ WindowOver(limiter, now)
    <3>1. s = [limiter EXCEPT !.prev_window_rate = current_window_rate(limiter), !.tokens_allowed = 0,
                              !.tokens_total = 0, !.current_window_start = now]
      BY <2>2 DEF WindowAt
    <3>2. /\ s \in State /\ s.tokens = limiter.tokens /\ s.tokens_allowed = 0 /\ s.tokens_total = 0
          /\ s.prev_window_rate = current_window_rate(limiter) /\ s.current_window_start = now
      <4>1. current_window_rate(limiter) \in Rate \cup {Never} /\ now \in Nat \cup {Never} /\ 0 \in Nat
        BY <1>a, <1>c
      <4> HIDE DEF s, now
      <4> QED
        BY <1>a, <3>1, <4>1 DEF State
    <3>3. Uniform(0, 0)
      BY DEF Uniform
    <3>4. limiter.tokens_total > 0
      BY <1>a, <2>2 DEF Counted
    <3> HIDE DEF s
    <3> QED
      BY <1>a, <1>c, <3>2, <3>3, <3>4
  <2>3. CASE limiter.current_window_start # Never /\ ~WindowOver(limiter, now)
    <3>1. s = limiter
      BY <2>3 DEF WindowAt
    <3> QED
      BY <1>a, <1>b, <2>3, <3>1 DEF Counted
  <2> QED
    BY <2>1, <2>2, <2>3
<1>2. limiter' = [s EXCEPT !.tokens_allowed = IF request[th].allowed THEN @ + 1 ELSE @,
                           !.tokens_total = @ + 1]
  BY DEF update_rate_counts
<1> HIDE DEF s
<1>3. s.tokens_allowed \in Nat /\ s.tokens_total \in Nat
  BY <1>1 DEF State
<1>4. /\ limiter' \in State /\ limiter'.tokens = limiter.tokens
      /\ limiter'.tokens_allowed = IF request[th].allowed THEN s.tokens_allowed + 1 ELSE s.tokens_allowed
      /\ limiter'.tokens_total = s.tokens_total + 1
      /\ limiter'.prev_window_rate = s.prev_window_rate
      /\ limiter'.current_window_start = s.current_window_start
  <2> DEFINE n == IF request[th].allowed THEN s.tokens_allowed + 1 ELSE s.tokens_allowed
  <2>1. n \in Nat /\ s.tokens_total + 1 \in Nat
    BY <1>3
  <2>2. limiter' = [s EXCEPT !.tokens_allowed = n, !.tokens_total = s.tokens_total + 1]
    BY <1>2
  <2> HIDE DEF n
  <2>3. /\ limiter' \in State /\ limiter'.tokens = s.tokens
        /\ limiter'.tokens_allowed = n /\ limiter'.tokens_total = s.tokens_total + 1
        /\ limiter'.prev_window_rate = s.prev_window_rate
        /\ limiter'.current_window_start = s.current_window_start
    BY <1>1, <2>1, <2>2 DEF State
  <2> QED
    BY <1>1, <2>3 DEF n
<1>5. Uniform(limiter'.tokens_allowed, limiter'.tokens_total) /\ limiter'.tokens_total > 0
  BY <1>a, <1>1, <1>3, <1>4 DEF Counted, Uniform
<1>6. request' \in [Threads -> Request] /\ request'[th].pc = "counted"
      /\ \A u \in Threads \ {th} : request'[u] = request[u]
  <2>1. [request[th] EXCEPT !.pc = "counted"] \in Request
    BY <1>a DEF Request
  <2> QED
    BY <1>a, <2>1 DEF update_rate_counts, Request
<1>7. UNCHANGED <<clock, granted, asked, latest, askers>>
  BY DEF update_rate_counts
<1>8. TypeOK' /\ TokensInBucket'
  BY <1>a, <1>4, <1>6, <1>7 DEF TypeOK, TokensInBucket
<1>9. \A u \in Threads : request'[u].pc = "decided" =>
        /\ RateLimit = 0 => ~request'[u].allowed
        /\ RateLimit < 0 => request'[u].allowed
  BY <1>a, <1>6 DEF Counted
<1>10. Counted'
  BY <1>1, <1>4, <1>5, <1>9 DEF Counted, Uniform
<1> QED
  BY <1>8, <1>10 DEF Inv

LEMMA InvStep == Inv /\ [Next]_vars => Inv'
<1> SUFFICES ASSUME Inv, [Next]_vars PROVE Inv'
  OBVIOUS
<1>a. TypeOK /\ Counted /\ TokensInBucket /\ request \in [Threads -> Request]
  BY DEF Inv, TypeOK
<1>1. CASE UNCHANGED vars
  BY <1>1, <1>a DEF vars, Inv, TypeOK, TokensInBucket, Counted
<1>2. CASE Tick
  BY <1>2, <1>a, LimiterAssumption DEF Tick, Inv, TypeOK, Times, TokensInBucket, Counted
<1>3. ASSUME NEW th \in Threads, is_allowed(th) \/ Returns(th) PROVE Inv'
  <2>1. /\ request' \in [Threads -> Request] /\ request'[th].pc \in {"taken", "idle"}
        /\ \A u \in Threads \ {th} : request'[u] = request[u]
    <3>1. CASE is_allowed(th)
      <4>1. [pc |-> "taken", now |-> clock, allowed |-> FALSE] \in Request
        BY <1>a, LimiterAssumption DEF TypeOK, Times, Request
      <4> QED
        BY <1>a, <3>1, <4>1 DEF is_allowed
    <3>2. CASE Returns(th)
      <4>1. [request[th] EXCEPT !.pc = "idle"] \in Request /\ [request[th] EXCEPT !.pc = "idle"].pc = "idle"
        BY <1>a DEF Request
      <4> QED
        BY <1>a, <3>2, <4>1 DEF Returns
    <3> QED
      BY <1>3, <3>1, <3>2
  <2>2. limiter' = limiter /\ asked' \in Nat /\ askers' \subseteq Threads /\ UNCHANGED <<clock, granted, latest>>
    BY <1>3, <1>a DEF is_allowed, Returns, TypeOK
  <2> QED
    BY <1>a, <2>1, <2>2 DEF Inv, TypeOK, TokensInBucket, Counted
<1>4. ASSUME NEW th \in Threads, is_allowed_at(th) PROVE Inv'
  BY <1>4, DecisionStep
<1>5. ASSUME NEW th \in Threads, update_rate_counts(th) PROVE Inv'
  BY <1>5, CountStep
<1> QED
  BY <1>1, <1>2, <1>3, <1>4, <1>5 DEF Next

LEMMA InvAlways == Spec => []Inv
BY InvInitially, InvStep, PTL DEF Spec

\* The state of the limiter and of every request is well typed, with
\* timestamps in any order.
THEOREM TypeCorrect == Spec => []TypeOK
<1>1. Inv => TypeOK
  BY DEF Inv
<1> QED
  BY <1>1, InvAlways, PTL

\* The bucket holds between nothing and its maximum, whatever the threads do
\* (rate_limiter.rs 109-135, 168-188).
THEOREM BucketKeepsBounds == Spec => []TokensInBucket
<1>1. Inv => TokensInBucket
  BY DEF Inv
<1> QED
  BY <1>1, InvAlways, PTL

\* The rate it reports is at most 1 (rate_limiter.rs 137-166, 205-211), and the
\* one a limit of zero or a negative one stands for (68-71).
LEMMA RatesReported ==
  ASSUME Inv
  PROVE  EffectiveRateIsRate /\ ExtremeRate
<1> DEFINE current == current_window_rate(limiter)
           prev == limiter.prev_window_rate
<1>a. /\ limiter \in State /\ limiter.tokens_allowed \in Nat /\ limiter.tokens_total \in Nat
      /\ RateLimit \in Int /\ Counted
  BY LimiterAssumption DEF Inv, TypeOK, State
<1>1. /\ current.allowed \in Nat /\ current.total \in Nat /\ current.allowed <= current.total
      /\ limiter.current_window_start # Never => Uniform(current.allowed, current.total)
  BY <1>a DEF current_window_rate, Counted, Uniform
<1>2. prev # Never => /\ prev.allowed \in Nat /\ prev.total \in Nat
                      /\ Uniform(prev.allowed, prev.total)
  BY <1>a DEF State, Rate, Counted
<1>3. CASE prev = Never
  <2>1. effective_rate(limiter) = current
    BY <1>3 DEF effective_rate
  <2> HIDE DEF current, prev
  <2> QED
    BY <1>a, <1>1, <2>1 DEF EffectiveRateIsRate, ExtremeRate, Counted, Uniform
<1>4. CASE prev # Never
  <2>1. /\ effective_rate(limiter).allowed = current.allowed * prev.total + prev.allowed * current.total
        /\ effective_rate(limiter).total = 2 * current.total * prev.total
    BY <1>4 DEF effective_rate
  <2> HIDE DEF current, prev
  <2>2. prev.allowed \in Nat /\ prev.total \in Nat /\ prev.allowed <= prev.total
        /\ Uniform(prev.allowed, prev.total)
    BY <1>2, <1>4 DEF Uniform
  <2>3. current.allowed * prev.total + prev.allowed * current.total <= 2 * current.total * prev.total
    BY <1>1, <2>2, MeanOfRates
  <2>4. ASSUME limiter.current_window_start # Never, RateLimit = 0
        PROVE  effective_rate(limiter).allowed = 0
    <3>1. current.allowed = 0 /\ prev.allowed = 0
      BY <1>1, <2>2, <2>4 DEF Uniform
    <3> QED
      BY <1>1, <2>1, <2>2, <3>1
  <2>5. ASSUME limiter.current_window_start # Never, RateLimit < 0
        PROVE  effective_rate(limiter).allowed = effective_rate(limiter).total
    <3>1. current.allowed = current.total /\ prev.allowed = prev.total
      BY <1>1, <2>2, <2>5 DEF Uniform
    <3> QED
      BY <1>1, <2>1, <2>2, <3>1, Z3
  <2> QED
    BY <1>a, <2>1, <2>3, <2>4, <2>5 DEF EffectiveRateIsRate, ExtremeRate, Counted, Uniform
<1> QED
  BY <1>3, <1>4

\* The effective rate is a rate, for every limit and every window
\* (rate_limiter.rs 137-166, 205-211).
THEOREM RateIsRate == Spec => []EffectiveRateIsRate
BY RatesReported, InvAlways, PTL

\* A limit of zero reports the rate 0 and a negative one the rate 1, in every
\* window (rate_limiter.rs 68-71, 133-157).
THEOREM ExtremesReported == Spec => []ExtremeRate
BY RatesReported, InvAlways, PTL

-----------------------------------------------------------------------------
(* The bound for one thread *)

\* Tokens allowed and tokens left are paid for by the bucket's first filling
\* and by the time up to its last update, as long as no request is earlier.
Paid ==
  RateLimit > 0 =>
    /\ (granted + limiter.tokens) * Window <= RateLimit * (Window + limiter.last_update)
    /\ limiter.last_update <= clock
    /\ \A th \in Threads : request[th].pc = "taken" => limiter.last_update <= request[th].now

\* Who is in a call has asked, not later than now.
Asked == \A th \in Threads : /\ request[th].pc # "idle" => th \in askers
                             /\ request[th].now <= clock

PaidInv == Asked /\ (Alone => Paid)

\* What a refilling is worth: the time that has passed, at most.
LEMMA RefillPaid ==
  ASSUME NEW g \in Nat, NEW w \in Nat \ {0}, NEW r \in Nat, NEW u \in Nat, NEW now \in Nat,
         u <= now, g * w <= r * (w + u),
         NEW n \in Nat, NEW added \in Int,
         n = 0 \/ (n <= added /\ added * w <= (now - u) * r)
  PROVE  (g + n) * w <= r * (w + now)
<1>1. now - u \in Nat /\ (now - u) * r >= 0
  BY Z3
<1>2. n * w <= (now - u) * r
  <2>1. CASE n = 0
    BY <1>1, <2>1
  <2>2. CASE n # 0
    <3>1. n * w <= added * w
      BY <2>2, ProductMonotone
    <3> QED
      BY <2>2, <3>1, <1>1, Z3
  <2> QED
    BY <2>1, <2>2
<1>3. (g + n) * w = g * w + n * w
  BY Z3
<1>4. r * (w + now) = r * (w + u) + (now - u) * r
  BY Z3
<1>5. /\ g * w \in Int /\ n * w \in Int /\ r * (w + u) \in Int /\ (now - u) * r \in Int
  BY Z3
<1> QED
  BY <1>2, <1>3, <1>4, <1>5

LEMMA AskedStep == Inv /\ Asked /\ [Next]_vars => Asked' /\ askers \subseteq askers'
<1> SUFFICES ASSUME Inv, Asked, [Next]_vars PROVE Asked' /\ askers \subseteq askers'
  OBVIOUS
<1>a. TypeOK /\ clock \in Nat /\ request \in [Threads -> Request]
  BY LimiterAssumption DEF Inv, TypeOK, Times
<1>1. CASE UNCHANGED vars
  BY <1>1 DEF vars, Asked
<1>2. CASE Tick
  BY <1>2, <1>a DEF Tick, Asked, Request
<1>3. ASSUME NEW t \in Threads, is_allowed(t) PROVE Asked' /\ askers \subseteq askers'
  <2>1. request'[t] = [pc |-> "taken", now |-> clock, allowed |-> FALSE]
        /\ \A u \in Threads \ {t} : request'[u] = request[u]
    BY <1>3, <1>a DEF is_allowed
  <2> QED
    BY <1>3, <1>a, <2>1 DEF is_allowed, Asked
<1>4. ASSUME NEW t \in Threads, NEW pc \in {"decided", "counted", "idle"}, request[t].pc # "idle",
             \E b \in BOOLEAN : request' = [request EXCEPT ![t] = [request[t] EXCEPT !.pc = pc, !.allowed = b]],
             clock' = clock, askers' = askers
      PROVE  Asked' /\ askers \subseteq askers'
  <2>1. /\ request'[t].now = request[t].now
        /\ \A u \in Threads \ {t} : request'[u] = request[u]
    BY <1>4, <1>a DEF Request
  <2> QED
    BY <1>4, <2>1 DEF Asked
<1>5. ASSUME NEW t \in Threads, is_allowed_at(t) PROVE Asked' /\ askers \subseteq askers'
  <2>1. PICK b \in BOOLEAN : Decide(t, b)
    <3>1. RateLimit \in Int
      BY LimiterAssumption
    <3>2. CASE ~(RateLimit > 0)
      BY <1>5, <3>1, <3>2 DEF is_allowed_at
    <3>3. CASE RateLimit > 0
      <4>1. CASE TakesToken(t)
        BY <4>1, Zenon DEF TakesToken
      <4>2. CASE \E added \in TokensToAdd(duration_since(request[t].now, limiter.last_update)),
                   left \in Nat : Refills(t, added, left)
        BY <4>2, Zenon DEF Refills
      <4> QED
        BY <1>5, <3>3, <4>1, <4>2, BucketStep
    <3> QED
      BY <3>2, <3>3
  <2>2. request' = [request EXCEPT ![t] = [request[t] EXCEPT !.pc = "decided", !.allowed = b]]
    BY <1>a, <2>1 DEF Decide
  <2> QED
    BY <1>4, <1>5, <2>1, <2>2 DEF is_allowed_at, Decide
<1>6. ASSUME NEW t \in Threads, update_rate_counts(t) \/ Returns(t)
      PROVE  Asked' /\ askers \subseteq askers'
  <2>1. \A pc : [request[t] EXCEPT !.pc = pc] = [request[t] EXCEPT !.pc = pc, !.allowed = request[t].allowed]
    BY <1>a DEF Request
  <2>2. request[t].allowed \in BOOLEAN
    BY <1>a DEF Request
  <2>3. CASE update_rate_counts(t)
    BY <1>4, <2>1, <2>2, <2>3 DEF update_rate_counts
  <2>4. CASE Returns(t)
    BY <1>4, <2>1, <2>2, <2>4 DEF Returns
  <2> QED
    BY <1>6, <2>3, <2>4
<1> QED
  BY <1>1, <1>2, <1>3, <1>5, <1>6 DEF Next

\* A step of the one thread that asks
LEMMA PaidStep ==
  ASSUME Inv, PaidInv, Alone', NEW t \in Threads,
         is_allowed(t) \/ is_allowed_at(t) \/ update_rate_counts(t) \/ Returns(t)
  PROVE  Paid'
<1> SUFFICES ASSUME RateLimit > 0 PROVE Paid'
  BY DEF Paid
<1>0. Asked' /\ askers \subseteq askers' /\ Alone
  BY AskedStep DEF PaidInv, Next, Alone
<1>a. /\ TypeOK /\ TokensInBucket
      /\ RateLimit \in Nat /\ Window \in Nat \ {0} /\ clock \in Nat /\ granted \in Nat
      /\ limiter \in State /\ limiter.tokens \in 0..RateLimit /\ limiter.last_update \in Nat
      /\ request \in [Threads -> Request] /\ request[t] \in Request /\ request[t].now \in Nat
  BY LimiterAssumption DEF Inv, TypeOK, TokensInBucket, Times, State, Request
<1>b. /\ (granted + limiter.tokens) * Window <= RateLimit * (Window + limiter.last_update)
      /\ limiter.last_update <= clock /\ request[t].now <= clock
      /\ request[t].pc = "taken" => limiter.last_update <= request[t].now
  BY <1>0, <1>a DEF Paid, PaidInv, Asked
<1>c. \A u \in Threads \ {t} : request'[u].pc # "taken"
  <2>1. t \in askers'
    <3>1. CASE is_allowed(t)
      BY <3>1 DEF is_allowed
    <3>2. CASE ~is_allowed(t)
      BY <1>0, <3>2 DEF PaidInv, Asked, is_allowed_at, update_rate_counts, Returns
    <3> QED BY <3>1, <3>2
  <2> QED
    BY <1>0, <2>1 DEF Asked, Alone
<1>1. SUFFICES /\ (granted' + limiter'.tokens) * Window <= RateLimit * (Window + limiter'.last_update)
               /\ limiter'.last_update <= clock'
               /\ request'[t].pc = "taken" => limiter'.last_update <= request'[t].now
  BY <1>a, <1>c DEF Paid
<1>4. CASE is_allowed(t)
  <2>1. request'[t] = [pc |-> "taken", now |-> clock, allowed |-> FALSE]
    BY <1>4, <1>a DEF is_allowed
  <2> QED
    BY <1>4, <1>a, <1>b, <2>1 DEF is_allowed
<1>5. CASE Returns(t)
  <2>1. request'[t] = [request[t] EXCEPT !.pc = "idle"]
    BY <1>5, <1>a DEF Returns
  <2>2. request'[t].pc = "idle" /\ request'[t].now = request[t].now
    BY <1>a, <2>1 DEF Request
  <2> QED
    BY <1>5, <1>b, <2>2 DEF Returns
<1>6. CASE update_rate_counts(t)
  <2> DEFINE s == WindowAt(limiter, request[t].now)
  <2>1. s.tokens = limiter.tokens /\ s.last_update = limiter.last_update
        /\ "tokens" \in DOMAIN s /\ "last_update" \in DOMAIN s
    BY <1>a DEF WindowAt, State
  <2> HIDE DEF s
  <2>2. limiter'.tokens = limiter.tokens /\ limiter'.last_update = limiter.last_update
    BY <1>6, <2>1 DEF update_rate_counts, s
  <2>3. request'[t] = [request[t] EXCEPT !.pc = "counted"]
    BY <1>6, <1>a DEF update_rate_counts
  <2>4. request'[t].pc = "counted" /\ request'[t].now = request[t].now
    BY <1>a, <2>3 DEF Request
  <2> QED
    BY <1>6, <1>b, <2>2, <2>4 DEF update_rate_counts
<1>7. CASE is_allowed_at(t)
  <2>a. request[t].pc = "taken" /\ limiter.last_update <= request[t].now
    BY <1>7, <1>b DEF is_allowed_at
  <2>1. CASE TakesToken(t)
    <3>1. Decide(t, TRUE) /\ limiter' = [limiter EXCEPT !.tokens = limiter.tokens - 1]
      BY <2>1, Zenon DEF TakesToken
    <3>2. limiter'.tokens = limiter.tokens - 1 /\ limiter'.last_update = limiter.last_update
      BY <1>a, <3>1 DEF State
    <3>3. /\ granted' = granted + 1 /\ clock' = clock /\ request'[t].pc = "decided"
          /\ request'[t].now = request[t].now
      BY <1>a, <3>1, DecideTyped
    <3>4. granted' + limiter'.tokens = granted + limiter.tokens
      BY <1>a, <3>2, <3>3
    <3> QED
      BY <1>b, <3>2, <3>3, <3>4
  <2>2. ASSUME NEW added \in TokensToAdd(duration_since(request[t].now, limiter.last_update)),
               NEW left \in Nat, Refills(t, added, left)
        PROVE  <1>1!1
    <3> DEFINE elapsed == request[t].now - limiter.last_update
    <3>1. elapsed \in Nat /\ duration_since(request[t].now, limiter.last_update) = elapsed
      BY <1>a, <2>a DEF duration_since
    <3>2. added \in Int /\ added * Window <= elapsed * RateLimit
      BY <3>1, AddedTyped
    <3>3. PICK allowed \in BOOLEAN :
            Decide(t, allowed) /\ (IF allowed THEN left + 1 <= added ELSE left = 0)
      BY <2>2, Zenon DEF Refills
    <3>4. limiter.tokens = 0 /\ limiter' = [limiter EXCEPT !.tokens = left, !.last_update = request[t].now]
      BY <2>2 DEF Refills
    <3>5. limiter'.tokens = left /\ limiter'.last_update = request[t].now
      BY <1>a, <3>4 DEF State
    <3>6. /\ granted' = granted + (IF allowed THEN 1 ELSE 0) /\ clock' = clock
          /\ request'[t].pc = "decided" /\ request'[t].now = request[t].now
      BY <1>a, <3>3, DecideTyped
    <3> DEFINE n == IF allowed THEN left + 1 ELSE left
    <3>7. n \in Nat /\ (n = 0 \/ n <= added) /\ granted' + limiter'.tokens = granted + n
      BY <1>a, <3>3, <3>5, <3>6
    <3>8. granted * Window <= RateLimit * (Window + limiter.last_update)
      BY <1>a, <1>b, <3>4
    <3> HIDE DEF n
    <3>9. (granted + n) * Window <= RateLimit * (Window + request[t].now)
      BY <1>a, <2>a, <3>2, <3>7, <3>8, RefillPaid
    <3> QED
      BY <1>b, <3>5, <3>6, <3>7, <3>9
  <2> QED
    BY <1>7, <1>a, <2>1, <2>2, BucketStep
<1> QED
  BY <1>4, <1>5, <1>6, <1>7

\* As long as one thread only asks, it is allowed no more than the bucket's first
\* filling and the time that has passed pay for: for every limit and window, and
\* although amounts are truncated to whole tokens (rate_limiter.rs 7, 69, 168-188).
THEOREM OneThreadIsBounded == Spec => []OneThreadBounded
<1>1. Init => Inv /\ PaidInv
  <2> SUFFICES ASSUME Init PROVE PaidInv
    BY InvInitially
  <2>1. /\ granted = 0 /\ limiter.tokens = RateLimit /\ limiter.last_update = 0 /\ clock = 0
        /\ \A th \in Threads : request[th].now = 0 /\ request[th].pc = "idle"
    BY DEF Init
  <2>2. (0 + RateLimit) * Window <= RateLimit * (Window + 0)
    BY LimiterAssumption, Z3
  <2> QED
    BY <2>1, <2>2 DEF Paid, PaidInv, Asked
<1>2. (Inv /\ PaidInv) /\ [Next]_vars => (Inv /\ PaidInv)'
  <2> SUFFICES ASSUME Inv, PaidInv, [Next]_vars, Alone' PROVE Paid'
    BY InvStep, AskedStep DEF PaidInv
  <2>1. Alone /\ Paid
    BY AskedStep DEF PaidInv, Alone
  <2>2. CASE UNCHANGED vars
    BY <2>1, <2>2 DEF vars, Paid
  <2>3. CASE Tick
    BY <2>1, <2>3, LimiterAssumption DEF Tick, Paid, Inv, TypeOK, Times, State
  <2>4. CASE \E th \in Threads : is_allowed(th) \/ is_allowed_at(th) \/ update_rate_counts(th) \/ Returns(th)
    BY <2>4, PaidStep
  <2> QED BY <2>2, <2>3, <2>4 DEF Next
<1>3. Inv /\ PaidInv => OneThreadBounded
  <2> SUFFICES ASSUME Inv, Paid, RateLimit > 0 PROVE granted * Window <= RateLimit * (Window + clock)
    BY DEF PaidInv, OneThreadBounded, BucketBound
  <2>a. /\ RateLimit \in Nat /\ Window \in Nat \ {0} /\ clock \in Nat /\ granted \in Nat
        /\ limiter.tokens \in Nat /\ limiter.last_update \in Nat /\ limiter.last_update <= clock
        /\ (granted + limiter.tokens) * Window <= RateLimit * (Window + limiter.last_update)
    BY LimiterAssumption DEF Inv, Paid, TypeOK, TokensInBucket, Times, State
  <2>1. granted * Window <= (granted + limiter.tokens) * Window
    BY <2>a, ProductMonotone
  <2>2. (Window + limiter.last_update) * RateLimit <= (Window + clock) * RateLimit
    BY <2>a, ProductMonotone
  <2> QED
    BY <2>a, <2>1, <2>2, Z3
<1> QED
  BY <1>1, <1>2, <1>3, PTL DEF Spec

\* The bucket and the effective rate stay in their bounds for every limit
\* (rate_limiter.rs 109-188, 205-211).
THEOREM LimiterIsSound == Spec => []LimiterSound
<1>1. TokensInBucket /\ EffectiveRateIsRate => LimiterSound
  BY DEF LimiterSound
<1> QED
  BY <1>1, BucketKeepsBounds, RateIsRate, PTL

-----------------------------------------------------------------------------
(* Calls of sample *)

PCs == {"idle", "rules", "agent", "limiter", "limited", "decided"}
Mechanisms == {"REMOTE_USER", "REMOTE_DYNAMIC", "LOCAL_USER", "AGENT", "DEFAULT"}

Call == [pc : PCs, trace : Nat, service : Services \cup {None}, rule : SamplingRule \cup {None},
         is_keep : BOOLEAN, mechanism : Mechanisms \cup {None}, rate : Int \cup {None},
         rl : Int \cup {None}]

AllRates == AgentRates \cup {<<>>}

Seen == [rules : SUBSET RuleLists, agent : SUBSET AllRates]

SamplerTypeOK ==
  /\ rules \in RuleLists
  /\ agent \in AllRates
  /\ resource \in Services
  /\ call \in [Threads -> Call]
  /\ seen \in [Threads -> Seen]
  /\ kept \in Nat

\* What a call holds at every step is what it read: rules and rates that were
\* in force, a rule of one of those lists, and what that rule says.
RuleApplied(c) ==
  /\ c.rule # None
  /\ c.rate = c.rule.sample_rate
  /\ c.mechanism = RuleMechanism(c.rule)

RateApplied(th, c) ==
  /\ c.rule = None /\ c.rl = None
  /\ \E rates \in seen[th].agent :
       IF resource \in DOMAIN rates
       THEN /\ c.mechanism = "AGENT" /\ c.rate = Clamped(rates[resource])
            /\ c.is_keep = Sampled(rates[resource], c.trace)
       ELSE c.mechanism = "DEFAULT" /\ c.rate = Parts /\ c.is_keep = TRUE

CallOf(th, c) ==
  /\ c.pc # "idle" => /\ c.service = resource /\ c.trace \in Traces
                      /\ rules \in seen[th].rules /\ agent \in seen[th].agent
  /\ c.pc \in {"rules", "agent"} => c.rule = None /\ c.rl = None /\ c.is_keep = TRUE
  /\ c.pc \in {"agent", "limiter", "limited", "decided"} =>
       \E list \in seen[th].rules : FirstMatch(list, resource) = c.rule
  /\ c.pc \in {"limiter", "limited"} =>
       RuleApplied(c) /\ c.rl = None /\ Sampled(c.rate, c.trace)
  /\ c.pc = "limiter" => c.is_keep = TRUE
  /\ c.pc = "limited" => c.is_keep = FALSE
  /\ c.pc = "decided" =>
       \/ RuleApplied(c) /\ c.is_keep = (Sampled(c.rate, c.trace) /\ c.rl = None)
       \/ RateApplied(th, c)

\* Requests whose token is spent and whose call does not know it yet
Underway == {th \in Threads : request[th].pc \in {"decided", "counted"} /\ request[th].allowed}

Spent ==
  /\ \A th \in Threads : request[th].pc # "idle" => call[th].pc = "limiter"
  /\ IsFiniteSet(Underway)
  /\ granted = kept + Cardinality(Underway)

SamplerInv ==
  /\ Inv /\ SamplerTypeOK
  /\ \A th \in Threads : CallOf(th, call[th])
  /\ Spent

-----------------------------------------------------------------------------
(* Matching and rates *)

\* The rule that matches first is a rule of the list.
LEMMA FirstMatchType ==
  ASSUME NEW list \in RuleLists, NEW service
  PROVE  FirstMatch(list, service) \in SamplingRule \cup {None}
<1>1. list \in Seq(SamplingRule)
  BY SamplerAssumption
<1> DEFINE Matching == {i \in DOMAIN list : matches(list[i], service)}
<1>2. CASE Matching = {}
  BY <1>2 DEF FirstMatch
<1>3. CASE Matching # {}
  <2>1. Matching \subseteq Nat
    BY <1>1
  <2>2. PICK i \in Matching : \A j \in Matching : i <= j
    BY <1>3, <2>1, LeastNumber
  <2> DEFINE first == CHOOSE k \in DOMAIN list :
              /\ matches(list[k], service)
              /\ \A j \in DOMAIN list : matches(list[j], service) => k <= j
  <2>3. first \in DOMAIN list
    BY <2>2
  <2>4. FirstMatch(list, service) = list[first]
    BY <1>3 DEF FirstMatch
  <2> QED BY <1>1, <2>3, <2>4
<1> QED BY <1>2, <1>3

LEMMA RuleMechanismType ==
  ASSUME NEW rule
  PROVE  RuleMechanism(rule) \in {"REMOTE_USER", "REMOTE_DYNAMIC", "LOCAL_USER"}
BY DEF RuleMechanism

\* A clamped rate is a rate, says the same of every trace, and keeps all of
\* them when it is 1.0.
LEMMA ClampedRate ==
  ASSUME NEW rate \in Int, NEW trace \in Traces
  PROVE  /\ Clamped(rate) \in Int /\ Sampled(rate, trace) \in BOOLEAN
         /\ Sampled(Clamped(rate), trace) = Sampled(rate, trace)
         /\ Sampled(Parts, trace) = TRUE
<1>1. Parts \in Nat /\ trace \in 0..(Parts - 1)
  BY SamplerAssumption
<1> QED BY <1>1 DEF Clamped, Sampled

LEMMA AgentRate ==
  ASSUME NEW rates \in AllRates, NEW service \in DOMAIN rates
  PROVE  rates[service] \in Int
BY SamplerAssumption DEF AllRates

\* The reported rate is a number.
LEMMA ReportedRate ==
  ASSUME Inv
  PROVE  effective_rate(limiter).allowed \div effective_rate(limiter).total \in Int
<1> DEFINE current == current_window_rate(limiter)
           prev == limiter.prev_window_rate
<1>1. limiter \in State /\ limiter.tokens_allowed \in Nat /\ limiter.tokens_total \in Nat /\ Counted
  BY DEF Inv, TypeOK, State
<1>2. current.allowed \in Nat /\ current.total \in Nat \ {0}
  BY <1>1 DEF current_window_rate
<1>3. prev # Never => prev.allowed \in Nat /\ prev.total \in Nat \ {0}
  BY <1>1 DEF State, Rate, Counted
<1>4. CASE prev = Never
  <2>1. effective_rate(limiter) = current
    BY <1>4 DEF effective_rate
  <2> HIDE DEF current, prev
  <2> QED BY <1>2, <2>1
<1>5. CASE prev # Never
  <2>1. /\ effective_rate(limiter).allowed = current.allowed * prev.total + prev.allowed * current.total
        /\ effective_rate(limiter).total = 2 * current.total * prev.total
    BY <1>5 DEF effective_rate
  <2> HIDE DEF current, prev
  <2> DEFINE ca == current.allowed
             ct == current.total
             pa == prev.allowed
             pt == prev.total
  <2>2. ca \in Nat /\ ct \in Nat \ {0} /\ pa \in Nat /\ pt \in Nat \ {0}
    BY <1>2, <1>3, <1>5
  <2>3. /\ effective_rate(limiter).allowed = ca * pt + pa * ct
        /\ effective_rate(limiter).total = 2 * ct * pt
    BY <2>1
  <2> HIDE DEF ca, ct, pa, pt
  <2>4. ca * pt + pa * ct \in Int /\ 2 * ct * pt \in Nat \ {0}
    BY <2>2, Z3
  <2> QED BY <2>3, <2>4, Division
<1> QED BY <1>4, <1>5

-----------------------------------------------------------------------------
(* Steps *)

LEMMA SamplerInitially == SamplerInit => SamplerInv
<1> SUFFICES ASSUME SamplerInit PROVE SamplerInv
  OBVIOUS
<1>1. NoCall \in Call /\ NoCall.pc = "idle"
  BY DEF NoCall, Call, PCs
<1>2. Inv
  BY InvInitially DEF SamplerInit
<1>3. SamplerTypeOK
  BY <1>1 DEF SamplerInit, SamplerTypeOK, AllRates, Seen
<1>4. \A th \in Threads : CallOf(th, call[th])
  BY <1>1 DEF SamplerInit, CallOf
<1>5. Spent
  <2>1. Underway = {}
    BY DEF SamplerInit, Init, Underway
  <2> QED BY <2>1, FS_EmptySet DEF SamplerInit, Init, Spent
<1> QED BY <1>2, <1>3, <1>4, <1>5 DEF SamplerInv

\* A step of the sampler is a step of the limiter, or leaves it alone.
LEMMA LimiterStep == SamplerNext => [Next]_vars
BY DEF SamplerNext, Next, vars, limiterVars, Change, on_rules_update, on_agent_response, set_resource,
       sample_root, find_matching_rule, InLimiter, LimiterReturns, ReadEffectiveRate, UseAgentRate,
       Answer

\* A call that does not move in a step keeps what it holds.
LEMMA CallKept ==
  ASSUME NEW u \in Threads, CallOf(u, call[u]), call'[u] = call[u],
         resource' = resource \/ call[u].pc = "idle",
         seen[u].rules \subseteq seen'[u].rules, seen[u].agent \subseteq seen'[u].agent,
         call[u].pc # "idle" => rules' \in seen'[u].rules /\ agent' \in seen'[u].agent
  PROVE  CallOf(u, call[u])'
<1>1. CASE call[u].pc = "idle"
  BY <1>1 DEF CallOf
<1>2. CASE call[u].pc # "idle"
  <2>1. resource' = resource
    BY <1>2
  <2>2. RuleApplied(call[u])' <=> RuleApplied(call[u])
    BY DEF RuleApplied
  <2>3. RateApplied(u, call[u]) => RateApplied(u, call[u])'
    BY <2>1 DEF RateApplied
  <2> QED BY <1>2, <2>1, <2>2, <2>3 DEF CallOf
<1> QED BY <1>1, <1>2

\* A change of rules, rates or resource, which calls and tokens do not move in.
LEMMA ChangeStep ==
  ASSUME SamplerInv, Inv', SamplerTypeOK', Change,
         \A u \in Threads :
           /\ resource' = resource \/ call[u].pc = "idle"
           /\ seen[u].rules \subseteq seen'[u].rules /\ seen[u].agent \subseteq seen'[u].agent
           /\ call[u].pc # "idle" => rules' \in seen'[u].rules /\ agent' \in seen'[u].agent
  PROVE  SamplerInv'
<1>1. call' = call /\ kept' = kept /\ request' = request /\ granted' = granted
  BY DEF Change, limiterVars
<1>2. \A u \in Threads : CallOf(u, call[u])'
  BY <1>1, CallKept DEF SamplerInv
<1>3. Spent'
  BY <1>1 DEF SamplerInv, Spent, Underway
<1> QED BY <1>2, <1>3 DEF SamplerInv

\* A step of one call that reads its environment and changes none of it
LEMMA OwnStep ==
  ASSUME SamplerInv, Inv', Spent', NEW th \in Threads, NEW c \in Call,
         call' = [call EXCEPT ![th] = c], UNCHANGED <<environment, seen>>, kept' \in Nat,
         CallOf(th, c)
  PROVE  SamplerInv'
<1>1. /\ rules' = rules /\ agent' = agent /\ resource' = resource /\ seen' = seen
      /\ call \in [Threads -> Call]
  BY DEF environment, SamplerInv, SamplerTypeOK
<1>2. call'[th] = c /\ \A u \in Threads \ {th} : call'[u] = call[u]
  BY <1>1
<1>3. SamplerTypeOK'
  BY <1>1 DEF SamplerInv, SamplerTypeOK
<1>4. CallOf(th, call[th])'
  <2>1. RateApplied(th, c) => RateApplied(th, call[th])'
    BY <1>1, <1>2 DEF RateApplied
  <2>2. RuleApplied(c) => RuleApplied(call[th])'
    BY <1>1, <1>2 DEF RuleApplied
  <2> QED BY <1>1, <1>2, <2>1, <2>2 DEF CallOf
<1>5. \A u \in Threads \ {th} : CallOf(u, call[u])'
  <2> SUFFICES ASSUME NEW u \in Threads \ {th} PROVE CallOf(u, call[u])'
    OBVIOUS
  <2>1. CallOf(u, call[u])
    BY DEF SamplerInv
  <2>2. call[u].pc # "idle" => rules' \in seen'[u].rules /\ agent' \in seen'[u].agent
    BY <1>1, <2>1 DEF CallOf
  <2> QED BY <1>1, <1>2, <2>1, <2>2, CallKept
<1> QED BY <1>3, <1>4, <1>5 DEF SamplerInv

\* The tokens in a step that has nothing to do with the limiter
LEMMA SpentKept ==
  ASSUME SamplerInv, UNCHANGED limiterVars, kept' = kept,
         \A u \in Threads : call[u].pc = "limiter" /\ request[u].pc # "idle" => call'[u].pc = "limiter"
  PROVE  Spent'
BY DEF SamplerInv, Spent, Underway, limiterVars

LEMMA RulesUpdated ==
  ASSUME SamplerInv, Inv', NEW list \in RuleLists, on_rules_update(list)
  PROVE  SamplerInv'
<1>1. /\ Change /\ call' = call /\ kept' = kept /\ rules' = list /\ agent' = agent /\ resource' = resource
      /\ seen' = [th \in Threads |-> Sees(th, {list}, {})]
  BY DEF on_rules_update, Change
<1>2. \A u \in Threads :
        /\ seen'[u] \in Seen
        /\ seen[u].rules \subseteq seen'[u].rules /\ seen[u].agent \subseteq seen'[u].agent
        /\ call[u].pc # "idle" => rules' \in seen'[u].rules
  BY <1>1 DEF Sees, InSampleRoot, SamplerInv, SamplerTypeOK, Seen
<1>3. \A u \in Threads : call[u].pc # "idle" => agent' \in seen'[u].agent
  BY <1>1, <1>2 DEF SamplerInv, CallOf
<1>4. SamplerTypeOK'
  BY <1>1, <1>2 DEF SamplerInv, SamplerTypeOK
<1> QED BY <1>1, <1>2, <1>3, <1>4, ChangeStep

LEMMA RatesUpdated ==
  ASSUME SamplerInv, Inv', NEW rates \in AgentRates, on_agent_response(rates)
  PROVE  SamplerInv'
<1>1. /\ Change /\ call' = call /\ kept' = kept /\ rules' = rules /\ agent' = rates /\ resource' = resource
      /\ seen' = [th \in Threads |-> Sees(th, {}, {rates})]
  BY DEF on_agent_response, Change
<1>2. \A u \in Threads :
        /\ seen'[u] \in Seen
        /\ seen[u].rules \subseteq seen'[u].rules /\ seen[u].agent \subseteq seen'[u].agent
        /\ call[u].pc # "idle" => agent' \in seen'[u].agent
  BY <1>1 DEF Sees, InSampleRoot, SamplerInv, SamplerTypeOK, Seen, AllRates
<1>3. \A u \in Threads : call[u].pc # "idle" => rules' \in seen'[u].rules
  BY <1>1, <1>2 DEF SamplerInv, CallOf
<1>4. SamplerTypeOK'
  BY <1>1, <1>2 DEF SamplerInv, SamplerTypeOK, AllRates
<1> QED BY <1>1, <1>2, <1>3, <1>4, ChangeStep

LEMMA ResourceSet ==
  ASSUME SamplerInv, Inv', NEW service \in Services, set_resource(service)
  PROVE  SamplerInv'
<1>1. /\ Change /\ call' = call /\ kept' = kept /\ rules' = rules /\ agent' = agent /\ seen' = seen
      /\ resource' = service /\ \A u \in Threads : call[u].pc = "idle"
  BY DEF set_resource, Change, InSampleRoot
<1>2. SamplerTypeOK'
  BY <1>1 DEF SamplerInv, SamplerTypeOK
<1> QED BY <1>1, <1>2, ChangeStep

\* A call begins: it has seen the rules and the rates of this moment.
LEMMA CallBegins ==
  ASSUME SamplerInv, Inv', NEW th \in Threads, NEW trace \in Traces, sample_root(th, trace)
  PROVE  SamplerInv'
<1> DEFINE c == [NoCall EXCEPT !.pc = "rules", !.trace = trace, !.service = resource]
<1>1. /\ call[th].pc = "idle" /\ call' = [call EXCEPT ![th] = c] /\ kept' = kept
      /\ seen' = [seen EXCEPT ![th] = [rules |-> {rules}, agent |-> {agent}]]
      /\ rules' = rules /\ agent' = agent /\ resource' = resource /\ UNCHANGED limiterVars
  BY DEF sample_root, InSampleRoot, environment
<1>2. /\ c \in Call /\ c.pc = "rules" /\ c.trace = trace /\ c.service = resource
      /\ c.rule = None /\ c.rl = None /\ c.is_keep = TRUE
  <2>1. trace \in Nat
    BY SamplerAssumption
  <2> QED BY <2>1 DEF NoCall, Call, PCs, SamplerInv, SamplerTypeOK
<1> HIDE DEF c
<1>3. /\ call'[th] = c /\ seen'[th].rules = {rules} /\ seen'[th].agent = {agent}
      /\ seen'[th] \in Seen
      /\ \A u \in Threads \ {th} : call'[u] = call[u] /\ seen'[u] = seen[u]
  BY <1>1 DEF SamplerInv, SamplerTypeOK, Seen, AllRates
<1>4. SamplerTypeOK'
  BY <1>1, <1>2, <1>3 DEF SamplerInv, SamplerTypeOK
<1>5. CallOf(th, call[th])'
  BY <1>1, <1>2, <1>3 DEF CallOf
<1>6. ASSUME NEW u \in Threads \ {th} PROVE CallOf(u, call[u])'
  <2>1. CallOf(u, call[u])
    BY DEF SamplerInv
  <2>2. call[u].pc # "idle" => rules' \in seen'[u].rules /\ agent' \in seen'[u].agent
    BY <1>1, <1>3, <2>1 DEF CallOf
  <2> QED BY <1>1, <1>3, <2>1, <2>2, CallKept
<1>7. Spent'
  BY <1>1, <1>3, SpentKept
<1> QED BY <1>4, <1>5, <1>6, <1>7 DEF SamplerInv

\* The rule is found: the list it comes from is one that the call has seen.
LEMMA RuleFound ==
  ASSUME SamplerInv, Inv', NEW th \in Threads, find_matching_rule(th)
  PROVE  SamplerInv'
<1> DEFINE old == call[th]
           rule == FirstMatch(rules, old.service)
           sampled == Sampled(rule.sample_rate, old.trace)
           c == IF rule = None THEN [old EXCEPT !.pc = "agent"]
                ELSE [old EXCEPT !.rule = rule, !.rate = rule.sample_rate,
                                 !.mechanism = RuleMechanism(rule), !.is_keep = sampled,
                                 !.pc = IF sampled THEN "limiter" ELSE "decided"]
<1>1. /\ old.pc = "rules" /\ call' = [call EXCEPT ![th] = c]
      /\ UNCHANGED <<environment, seen>> /\ kept' = kept /\ UNCHANGED limiterVars
  BY DEF find_matching_rule
<1>2. /\ old \in Call /\ call \in [Threads -> Call] /\ CallOf(th, old) /\ rules \in RuleLists
      /\ kept \in Nat
  BY DEF SamplerInv, SamplerTypeOK
<1>3. /\ old.service = resource /\ old.trace \in Traces /\ rules \in seen[th].rules
      /\ agent \in seen[th].agent /\ old.rule = None /\ old.rl = None /\ old.is_keep = TRUE
  BY <1>1, <1>2 DEF CallOf
<1>4. rule \in SamplingRule \cup {None}
  BY <1>2, FirstMatchType
<1> HIDE DEF rule, sampled
<1>5. c \in Call /\ CallOf(th, c)
  <2>1. CASE rule = None
    <3>1. c = [old EXCEPT !.pc = "agent"]
      BY <2>1
    <3> HIDE DEF c, old
    <3>2. /\ c \in Call /\ c.pc = "agent" /\ c.service = old.service /\ c.trace = old.trace
          /\ c.rule = None /\ c.rl = None /\ c.is_keep = TRUE
      BY <1>2, <1>3, <3>1 DEF Call, PCs
    <3>3. \E list \in seen[th].rules : FirstMatch(list, resource) = c.rule
      BY <1>3, <2>1, <3>2 DEF rule
    <3> QED BY <1>3, <3>2, <3>3 DEF CallOf
  <2>2. CASE rule # None
    <3> DEFINE pc == IF sampled THEN "limiter" ELSE "decided"
    <3>1. c = [old EXCEPT !.rule = rule, !.rate = rule.sample_rate, !.mechanism = RuleMechanism(rule),
                          !.is_keep = sampled, !.pc = pc]
      BY <2>2
    <3>2. /\ rule \in SamplingRule /\ rule.sample_rate \in Int /\ sampled \in BOOLEAN
          /\ RuleMechanism(rule) \in Mechanisms /\ pc \in PCs
      BY <1>3, <1>4, <2>2, RuleMechanismType, ClampedRate
      DEF SamplingRule, sampled, Mechanisms, PCs
    <3> HIDE DEF c, old, pc
    <3>3. /\ c \in Call /\ c.pc = pc /\ c.service = old.service /\ c.trace = old.trace
          /\ c.rule = rule /\ c.rl = old.rl /\ c.rate = rule.sample_rate
          /\ c.mechanism = RuleMechanism(rule) /\ c.is_keep = sampled
      BY <1>2, <3>1, <3>2 DEF Call
    <3>4. \E list \in seen[th].rules : FirstMatch(list, resource) = c.rule
      BY <1>3, <3>3 DEF rule
    <3>5. RuleApplied(c)
      BY <2>2, <3>3 DEF RuleApplied
    <3>6. sampled = Sampled(c.rate, c.trace)
      BY <3>3 DEF sampled
    <3>7. CASE sampled
      BY <1>3, <3>2, <3>3, <3>4, <3>5, <3>6, <3>7 DEF CallOf, pc
    <3>8. CASE ~sampled
      BY <1>3, <3>2, <3>3, <3>4, <3>5, <3>6, <3>8 DEF CallOf, pc
    <3> QED BY <3>7, <3>8
  <2> QED BY <2>1, <2>2
<1>6. Spent'
  <2>1. \A u \in Threads : call[u].pc = "limiter" => call'[u].pc = "limiter"
    BY <1>1, <1>2
  <2> QED BY <1>1, <2>1, SpentKept
<1> HIDE DEF c
<1> QED BY <1>1, <1>2, <1>5, <1>6, OwnStep

LEMMA RequestDecided ==
  ASSUME Inv, NEW th \in Threads, is_allowed_at(th)
  PROVE  \E allowed \in BOOLEAN : Decide(th, allowed)
<1>1. CASE RateLimit > 0
  <2>1. Decide(th, TRUE) \/ Decide(th, FALSE)
    BY <1>1, BucketStep, Zenon DEF TakesToken, Refills
  <2> QED BY <2>1
<1>2. CASE ~(RateLimit > 0)
  <2>1. Decide(th, TRUE) \/ Decide(th, FALSE)
    BY <1>2, Zenon DEF is_allowed_at
  <2> QED BY <2>1
<1> QED BY <1>1, <1>2

\* A step inside of is_allowed: what is granted is underway.
LEMMA RequestMoves ==
  ASSUME SamplerInv, Inv', NEW th \in Threads, InLimiter(th)
  PROVE  SamplerInv'
<1>1. /\ call[th].pc = "limiter" /\ UNCHANGED samplerVars
      /\ is_allowed(th) \/ is_allowed_at(th) \/ update_rate_counts(th)
  BY DEF InLimiter
<1>2. /\ request \in [Threads -> Request] /\ TypeOK /\ granted \in Nat /\ kept \in Nat /\ Spent
  BY DEF SamplerInv, Inv, TypeOK, SamplerTypeOK
<1>3. call' = call /\ seen' = seen /\ kept' = kept /\ rules' = rules /\ agent' = agent /\ resource' = resource
  BY <1>1 DEF samplerVars
<1>4. CASE is_allowed(th)
  <2>1. /\ \A u \in Threads \ {th} : request'[u] = request[u]
        /\ request[th].pc = "idle" /\ request'[th].pc = "taken" /\ granted' = granted
    BY <1>2, <1>4 DEF is_allowed
  <2>2. Underway' = Underway
    BY <2>1 DEF Underway
  <2> QED BY <1>1, <1>2, <1>3, <2>1, <2>2 DEF Spent, SamplerInv, SamplerTypeOK, CallOf, RuleApplied, RateApplied
<1>5. CASE is_allowed_at(th)
  <2>1. PICK allowed \in BOOLEAN : Decide(th, allowed)
    BY <1>5, RequestDecided DEF SamplerInv
  <2>2. /\ granted' = granted + (IF allowed THEN 1 ELSE 0)
        /\ request'[th].pc = "decided" /\ request'[th].allowed = allowed
        /\ \A u \in Threads \ {th} : request'[u] = request[u]
    BY <1>2, <2>1, DecideTyped
  <2>3. th \notin Underway
    BY <1>5 DEF Underway, is_allowed_at
  <2>4. Underway' = IF allowed THEN Underway \cup {th} ELSE Underway
    BY <2>2, <2>3 DEF Underway
  <2>5. IsFiniteSet(Underway') /\ granted' = kept + Cardinality(Underway')
    <3>1. IsFiniteSet(Underway) /\ Cardinality(Underway) \in Nat /\ granted = kept + Cardinality(Underway)
      BY <1>2, FS_CardinalityType DEF Spent
    <3>2. CASE allowed
      <4>1. /\ IsFiniteSet(Underway \cup {th})
            /\ Cardinality(Underway \cup {th}) = Cardinality(Underway) + 1
        BY <2>3, <3>1, FS_AddElement
      <4> QED BY <1>2, <2>2, <2>4, <3>1, <3>2, <4>1
    <3>3. CASE ~allowed
      BY <1>2, <2>2, <2>4, <3>1, <3>3
    <3> QED BY <3>2, <3>3
  <2> QED BY <1>1, <1>2, <1>3, <2>2, <2>5 DEF Spent, SamplerInv, SamplerTypeOK, CallOf, RuleApplied, RateApplied
<1>6. CASE update_rate_counts(th)
  <2>1. /\ \A u \in Threads \ {th} : request'[u] = request[u]
        /\ request[th].pc = "decided" /\ request'[th].pc = "counted"
        /\ request'[th].allowed = request[th].allowed /\ granted' = granted
    BY <1>2, <1>6 DEF update_rate_counts, Request
  <2>2. Underway' = Underway
    BY <2>1 DEF Underway
  <2> QED BY <1>1, <1>2, <1>3, <2>1, <2>2 DEF Spent, SamplerInv, SamplerTypeOK, CallOf, RuleApplied, RateApplied
<1> QED BY <1>1, <1>4, <1>5, <1>6

\* The limiter answers: the trace is kept and its token no longer underway.
LEMMA RequestAnswered ==
  ASSUME SamplerInv, Inv', NEW th \in Threads, LimiterReturns(th)
  PROVE  SamplerInv'
<1> DEFINE old == call[th]
           allowed == request[th].allowed
           pc == IF allowed THEN "decided" ELSE "limited"
           c == [old EXCEPT !.is_keep = allowed, !.pc = pc]
<1>1. /\ old.pc = "limiter" /\ Returns(th) /\ UNCHANGED <<environment, seen>>
      /\ kept' = IF allowed THEN kept + 1 ELSE kept
  BY DEF LimiterReturns
<1>2. /\ old \in Call /\ call \in [Threads -> Call] /\ CallOf(th, old) /\ kept \in Nat
      /\ request \in [Threads -> Request] /\ request[th] \in Request /\ allowed \in BOOLEAN
      /\ granted \in Nat /\ Spent
  BY DEF SamplerInv, SamplerTypeOK, Inv, TypeOK, Request
<1>3. call' = [call EXCEPT ![th] = c]
  BY <1>2 DEF LimiterReturns, Call
<1>4. /\ request[th].pc = "counted" /\ request'[th].pc = "idle" /\ granted' = granted
      /\ \A u \in Threads \ {th} : request'[u] = request[u]
  BY <1>1, <1>2 DEF Returns, Request
<1>5. /\ c \in Call /\ c.pc = pc /\ c.is_keep = allowed /\ c.service = old.service
      /\ c.trace = old.trace /\ c.rule = old.rule /\ c.rate = old.rate
      /\ c.mechanism = old.mechanism /\ c.rl = old.rl
  <2>1. pc \in PCs
    BY DEF PCs
  <2> HIDE DEF old, pc, allowed
  <2> QED BY <1>2, <2>1 DEF Call
<1>6. CallOf(th, c)
  <2>1. RuleApplied(old) /\ old.rl = None /\ Sampled(old.rate, old.trace)
    BY <1>1, <1>2 DEF CallOf
  <2>2. RuleApplied(c) /\ c.rl = None /\ Sampled(c.rate, c.trace)
    BY <1>5, <2>1 DEF RuleApplied
  <2>3. /\ c.service = resource /\ c.trace \in Traces
        /\ rules \in seen[th].rules /\ agent \in seen[th].agent
        /\ \E list \in seen[th].rules : FirstMatch(list, resource) = c.rule
    BY <1>1, <1>2, <1>5 DEF CallOf
  <2>4. CASE allowed
    <3>1. c.pc = "decided" /\ c.is_keep = TRUE
      BY <1>2, <1>5, <2>4
    <3>2. Sampled(c.rate, c.trace) \in BOOLEAN
      BY DEF Sampled
    <3> HIDE DEF c
    <3> QED BY <2>2, <2>3, <3>1, <3>2 DEF CallOf
  <2>5. CASE ~allowed
    <3>1. c.pc = "limited" /\ c.is_keep = FALSE
      BY <1>2, <1>5, <2>5
    <3> HIDE DEF c
    <3> QED BY <2>2, <2>3, <3>1 DEF CallOf
  <2> QED BY <2>4, <2>5
<1>7. Spent'
  <2>1. Underway' = Underway \ {th}
    BY <1>4 DEF Underway
  <2>2. th \in Underway <=> allowed
    BY <1>4 DEF Underway
  <2>3. IsFiniteSet(Underway') /\ granted' = kept' + Cardinality(Underway')
    <3>1. IsFiniteSet(Underway) /\ Cardinality(Underway) \in Nat /\ granted = kept + Cardinality(Underway)
      BY <1>2, FS_CardinalityType DEF Spent
    <3>2. CASE allowed
      <4>1. /\ IsFiniteSet(Underway \ {th})
            /\ Cardinality(Underway \ {th}) = Cardinality(Underway) - 1
        BY <2>2, <3>1, <3>2, FS_RemoveElement
      <4> QED BY <1>1, <1>2, <1>4, <2>1, <3>1, <3>2, <4>1
    <3>3. CASE ~allowed
      <4>1. Underway' = Underway
        BY <2>1, <2>2, <3>3
      <4> QED BY <1>1, <1>2, <1>4, <3>1, <3>3, <4>1
    <3> QED BY <3>2, <3>3
  <2>4. \A u \in Threads : request'[u].pc # "idle" => call'[u].pc = "limiter"
    BY <1>2, <1>3, <1>4 DEF Spent
  <2> QED BY <2>3, <2>4 DEF Spent, Underway
<1>8. kept' \in Nat
  BY <1>1, <1>2
<1> HIDE DEF c
<1> QED BY <1>1, <1>3, <1>5, <1>6, <1>7, <1>8, OwnStep

LEMMA RateRead ==
  ASSUME SamplerInv, Inv', NEW th \in Threads, ReadEffectiveRate(th)
  PROVE  SamplerInv'
<1> DEFINE old == call[th]
           rate == effective_rate(limiter).allowed \div effective_rate(limiter).total
           c == [old EXCEPT !.rl = rate, !.pc = "decided"]
<1>1. /\ old.pc = "limited" /\ UNCHANGED <<environment, seen>> /\ kept' = kept
      /\ UNCHANGED limiterVars /\ call' = [call EXCEPT ![th] = c]
  BY DEF ReadEffectiveRate, SamplerInv, SamplerTypeOK
<1>2. /\ old \in Call /\ call \in [Threads -> Call] /\ CallOf(th, old) /\ kept \in Nat
  BY DEF SamplerInv, SamplerTypeOK
<1>3. rate \in Int /\ rate # None
  BY ReportedRate, SamplerAssumption DEF SamplerInv
<1> HIDE DEF rate
<1>4. /\ c \in Call /\ c.pc = "decided" /\ c.is_keep = old.is_keep /\ c.service = old.service
      /\ c.trace = old.trace /\ c.rule = old.rule /\ c.rate = old.rate
      /\ c.mechanism = old.mechanism /\ c.rl = rate
  <2> HIDE DEF old
  <2> QED BY <1>2, <1>3 DEF Call, PCs
<1>5. CallOf(th, c)
  <2>1. RuleApplied(c) /\ c.rl # None /\ c.is_keep = FALSE
    BY <1>1, <1>2, <1>3, <1>4 DEF CallOf, RuleApplied
  <2>2. /\ c.service = resource /\ c.trace \in Traces
        /\ rules \in seen[th].rules /\ agent \in seen[th].agent
        /\ \E list \in seen[th].rules : FirstMatch(list, resource) = c.rule
    BY <1>1, <1>2, <1>4 DEF CallOf
  <2> HIDE DEF c
  <2> QED BY <1>4, <2>1, <2>2 DEF CallOf
<1>6. Spent'
  <2>1. \A u \in Threads : call[u].pc = "limiter" => call'[u].pc = "limiter"
    BY <1>1, <1>2
  <2> QED BY <1>1, <2>1, SpentKept
<1> HIDE DEF c
<1> QED BY <1>1, <1>2, <1>4, <1>5, <1>6, OwnStep

LEMMA AgentRateUsed ==
  ASSUME SamplerInv, Inv', NEW th \in Threads, UseAgentRate(th)
  PROVE  SamplerInv'
<1> DEFINE old == call[th]
           given == agent[old.service]
           known == old.service \in DOMAIN agent
           c == IF known
                THEN [old EXCEPT !.mechanism = "AGENT", !.rate = Clamped(given),
                                 !.is_keep = Sampled(given, old.trace), !.pc = "decided"]
                ELSE [old EXCEPT !.mechanism = "DEFAULT", !.rate = Parts, !.pc = "decided"]
<1>1. /\ old.pc = "agent" /\ UNCHANGED <<environment, seen>> /\ kept' = kept
      /\ UNCHANGED limiterVars /\ call' = [call EXCEPT ![th] = c]
  BY DEF UseAgentRate
<1>2. /\ old \in Call /\ call \in [Threads -> Call] /\ CallOf(th, old) /\ kept \in Nat
      /\ agent \in AllRates
  BY DEF SamplerInv, SamplerTypeOK
<1>3. /\ old.service = resource /\ old.trace \in Traces /\ old.rule = None /\ old.rl = None
      /\ old.is_keep = TRUE /\ rules \in seen[th].rules /\ agent \in seen[th].agent
      /\ \E list \in seen[th].rules : FirstMatch(list, resource) = old.rule
  BY <1>1, <1>2 DEF CallOf
<1>4. /\ c \in Call /\ c.pc = "decided" /\ c.service = old.service /\ c.trace = old.trace
      /\ c.rule = old.rule /\ c.rl = old.rl
      /\ known => c.mechanism = "AGENT" /\ c.rate = Clamped(given) /\ c.is_keep = Sampled(given, old.trace)
      /\ ~known => c.mechanism = "DEFAULT" /\ c.rate = Parts /\ c.is_keep = old.is_keep
  <2>1. known => Clamped(given) \in Int /\ Sampled(given, old.trace) \in BOOLEAN
    BY <1>2, <1>3, AgentRate, ClampedRate
  <2>2. Parts \in Int
    BY SamplerAssumption
  <2> HIDE DEF old, given, known
  <2> QED BY <1>2, <2>1, <2>2 DEF Call, PCs, Mechanisms
<1>5. CallOf(th, c)
  <2>1. RateApplied(th, c)
    <3>1. IF resource \in DOMAIN agent
          THEN /\ c.mechanism = "AGENT" /\ c.rate = Clamped(agent[resource])
               /\ c.is_keep = Sampled(agent[resource], c.trace)
          ELSE c.mechanism = "DEFAULT" /\ c.rate = Parts /\ c.is_keep = TRUE
      BY <1>1, <1>2, <1>3, <1>4 DEF CallOf
    <3> HIDE DEF c
    <3> QED BY <1>3, <1>4, <3>1 DEF RateApplied
  <2> HIDE DEF c
  <2> QED BY <1>3, <1>4, <2>1 DEF CallOf
<1>6. Spent'
  <2>1. \A u \in Threads : call[u].pc = "limiter" => call'[u].pc = "limiter"
    BY <1>1, <1>2
  <2> QED BY <1>1, <2>1, SpentKept
<1> HIDE DEF c
<1> QED BY <1>1, <1>2, <1>4, <1>5, <1>6, OwnStep

LEMMA CallEnds ==
  ASSUME SamplerInv, Inv', NEW th \in Threads, Answer(th)
  PROVE  SamplerInv'
<1>1. /\ call[th].pc = "decided" /\ call' = [call EXCEPT ![th] = NoCall] /\ kept' = kept
      /\ seen' = [seen EXCEPT ![th] = [rules |-> {}, agent |-> {}]]
      /\ rules' = rules /\ agent' = agent /\ resource' = resource /\ UNCHANGED limiterVars
  BY DEF Answer, environment
<1>2. NoCall \in Call /\ NoCall.pc = "idle"
  BY DEF NoCall, Call, PCs
<1>3. /\ call'[th] = NoCall /\ seen'[th] \in Seen
      /\ \A u \in Threads \ {th} : call'[u] = call[u] /\ seen'[u] = seen[u]
  BY <1>1 DEF SamplerInv, SamplerTypeOK, Seen
<1>4. SamplerTypeOK'
  BY <1>1, <1>2, <1>3 DEF SamplerInv, SamplerTypeOK
<1>5. CallOf(th, call[th])'
  BY <1>2, <1>3 DEF CallOf
<1>6. ASSUME NEW u \in Threads \ {th} PROVE CallOf(u, call[u])'
  <2>1. CallOf(u, call[u])
    BY DEF SamplerInv
  <2>2. call[u].pc # "idle" => rules' \in seen'[u].rules /\ agent' \in seen'[u].agent
    BY <1>1, <1>3, <2>1 DEF CallOf
  <2> QED BY <1>1, <1>3, <2>1, <2>2, CallKept
<1>7. Spent'
  BY <1>1, <1>3, SpentKept
<1> QED BY <1>4, <1>5, <1>6, <1>7 DEF SamplerInv

\* Time that passes, or nothing
LEMMA NobodyMoves ==
  ASSUME SamplerInv, Inv', UNCHANGED <<samplerVars, request, granted>>
  PROVE  SamplerInv'
BY DEF SamplerInv, SamplerTypeOK, CallOf, RuleApplied, RateApplied, Spent, Underway, samplerVars

LEMMA SamplerStep == SamplerInv /\ [SamplerNext]_allVars => SamplerInv'
<1> SUFFICES ASSUME SamplerInv, [SamplerNext]_allVars PROVE SamplerInv'
  OBVIOUS
<1>1. Inv'
  BY LimiterStep, InvStep DEF SamplerInv, allVars, limiterVars, vars
<1>2. CASE Tick /\ UNCHANGED samplerVars
  BY <1>1, <1>2, NobodyMoves DEF Tick
<1>3. CASE UNCHANGED allVars
  BY <1>1, <1>3, NobodyMoves DEF allVars, limiterVars
<1> QED BY <1>1, <1>2, <1>3, RulesUpdated, RatesUpdated, ResourceSet, CallBegins, RuleFound, RequestMoves,
           RequestAnswered, RateRead, AgentRateUsed, CallEnds DEF SamplerNext

LEMMA SamplerAlways == SamplerSpec => []SamplerInv
BY SamplerInitially, SamplerStep, PTL DEF SamplerSpec

-----------------------------------------------------------------------------
(* Theorems of the sampler *)

LEMMA DecidedExplained ==
  ASSUME SamplerInv
  PROVE  DecisionExplained
<1>1. TokensBuyTraces
  BY DEF SamplerInv, Spent, Underway, TokensBuyTraces
<1>2. ASSUME NEW th \in Threads, call[th].pc = "decided"
      PROVE  /\ call[th] \in Call /\ call[th].service = resource /\ call[th].trace \in Traces
             /\ \E list \in seen[th].rules : FirstMatch(list, resource) = call[th].rule
             /\ \/ /\ RuleApplied(call[th])
                   /\ call[th].is_keep = (Sampled(call[th].rate, call[th].trace) /\ call[th].rl = None)
                \/ RateApplied(th, call[th])
  BY <1>2 DEF SamplerInv, SamplerTypeOK, CallOf
<1>3. DecisionOfItsTime
  BY <1>2 DEF DecisionOfItsTime, RuleApplied, RateApplied
<1>4. ASSUME NEW th \in Threads, call[th].pc = "decided"
      PROVE  LET tags == to_dd_sampling_tags(call[th])
                 rate == IF tags.agent_psr # None THEN tags.agent_psr
                         ELSE IF tags.rule_psr # None THEN tags.rule_psr ELSE Parts
                 keep == tags.sampling_priority \in {"AUTO_KEEP", "USER_KEEP"}
             IN /\ keep = call[th].is_keep
                /\ tags.agent_psr = None \/ tags.rule_psr = None
                /\ keep = (Sampled(rate, call[th].trace) /\ tags.limit_psr = None)
  <2> DEFINE c == call[th]
             tags == to_dd_sampling_tags(c)
             rate == IF tags.agent_psr # None THEN tags.agent_psr
                     ELSE IF tags.rule_psr # None THEN tags.rule_psr ELSE Parts
             keep == tags.sampling_priority \in {"AUTO_KEEP", "USER_KEEP"}
  <2>1. /\ tags.limit_psr = c.rl
        /\ tags.agent_psr = IF c.mechanism = "AGENT" THEN c.rate ELSE None
        /\ tags.rule_psr = IF c.mechanism \in {"AGENT", "DEFAULT"} THEN None ELSE c.rate
        /\ tags.sampling_priority = to_priority(c.mechanism, c.is_keep)
    BY DEF to_dd_sampling_tags
  <2>2. c.is_keep \in BOOLEAN /\ c.trace \in Traces /\ None \notin Int
    BY <1>2, <1>4, SamplerAssumption DEF Call
  <2>3. keep = c.is_keep
    <3> HIDE DEF c, tags
    <3>1. CASE c.is_keep = TRUE
      BY <2>1, <3>1 DEF to_priority
    <3>2. CASE c.is_keep = FALSE
      <4>1. tags.sampling_priority \in {"AUTO_REJECT", "USER_REJECT"}
        BY <2>1, <3>2 DEF to_priority
      <4>2. keep = FALSE
        BY <4>1
      <4> QED BY <3>2, <4>2
    <3> QED BY <2>2, <3>1, <3>2
  <2>4. tags.agent_psr = None \/ tags.rule_psr = None
    BY <2>1
  <2>5. c.is_keep = (Sampled(rate, c.trace) /\ c.rl = None)
    <3>1. CASE /\ RuleApplied(c) /\ c.is_keep = (Sampled(c.rate, c.trace) /\ c.rl = None)
      <4>1. c.rule \in SamplingRule /\ c.rate \in Int
        BY <1>2, <1>4, <3>1 DEF RuleApplied, Call, SamplingRule
      <4>2. c.mechanism \notin {"AGENT", "DEFAULT"}
        BY <3>1, RuleMechanismType DEF RuleApplied
      <4>3. rate = c.rate
        BY <2>1, <2>2, <4>1, <4>2
      <4> QED BY <3>1, <4>3
    <3>2. CASE RateApplied(th, c)
      <4>1. PICK rates \in seen[th].agent :
              IF resource \in DOMAIN rates
              THEN /\ c.mechanism = "AGENT" /\ c.rate = Clamped(rates[resource])
                   /\ c.is_keep = Sampled(rates[resource], c.trace)
              ELSE c.mechanism = "DEFAULT" /\ c.rate = Parts /\ c.is_keep = TRUE
        BY <3>2 DEF RateApplied
      <4>2. rates \in AllRates /\ c.rl = None
        BY <3>2 DEF SamplerInv, SamplerTypeOK, Seen, RateApplied
      <4>3. CASE resource \in DOMAIN rates
        <5>1. rates[resource] \in Int
          BY <4>2, <4>3, AgentRate
        <5>2. /\ Clamped(rates[resource]) \in Int /\ Sampled(rates[resource], c.trace) \in BOOLEAN
              /\ Sampled(Clamped(rates[resource]), c.trace) = Sampled(rates[resource], c.trace)
          BY <2>2, <5>1, ClampedRate
        <5>3. rate = c.rate
          BY <2>1, <2>2, <4>1, <4>3, <5>2
        <5> QED BY <4>1, <4>2, <4>3, <5>2, <5>3
      <4>4. CASE resource \notin DOMAIN rates
        <5>1. rate = Parts
          BY <2>1, <4>1, <4>4
        <5>2. Sampled(Parts, c.trace) = TRUE
          BY <2>2, SamplerAssumption DEF Sampled, Clamped
        <5> QED BY <4>1, <4>2, <4>4, <5>1, <5>2
      <4> QED BY <4>3, <4>4
    <3> QED BY <1>2, <1>4, <3>1, <3>2
  <2> QED BY <2>1, <2>3, <2>4, <2>5
<1>5. TagsExplainDecision
  BY <1>4 DEF TagsExplainDecision
<1> QED BY <1>1, <1>3, <1>5 DEF DecisionExplained

\* What a call of sample answers comes from one list of rules and one set of
\* rates that were in force during the call, its tags give the decision to who
\* reads only them, and the limiter's tokens are spent on traces that are kept:
\* for every list of rules, every rate and any number of threads, while rules,
\* rates and the resource change (datadog_sampler.rs 388-464, 484-525).
THEOREM DecisionsAreExplained == SamplerSpec => []DecisionExplained
<1>1. SamplerInv => DecisionExplained
  BY DecidedExplained
<1> QED BY <1>1, SamplerAlways, PTL

\* The calls of sample use the limiter as its specification says, so that what
\* is proved of it holds under the sampler (datadog_sampler.rs 413-426).
THEOREM SamplerUsesLimiter == SamplerSpec => Spec
<1>1. SamplerInit => Init
  BY DEF SamplerInit
<1>2. [SamplerNext]_allVars => [Next]_vars
  BY LimiterStep DEF allVars, limiterVars, vars
<1> QED BY <1>1, <1>2, PTL DEF SamplerSpec, Spec

\* Under the sampler, too, the limiter's numbers stay what they stand for,
\* whatever the calls that use it do (rate_limiter.rs 109-188, 205-211).
THEOREM LimiterSoundInSampler == SamplerSpec => []LimiterSound
BY LimiterIsSound, SamplerUsesLimiter, PTL

\* Under the sampler, too, a thread that is the only one to ask gets no more than
\* the bucket and the time that has passed (rate_limiter.rs 7, 69, 168-188).
THEOREM OneThreadBoundedInSampler == SamplerSpec => []OneThreadBounded
BY OneThreadIsBounded, SamplerUsesLimiter, PTL

-----------------------------------------------------------------------------
(* Remainders, for the rates *)

LEMMA Remainder ==
  ASSUME NEW a \in Int, NEW n \in Nat \ {0}
  PROVE  a % n \in 0..n - 1 /\ a \div n \in Int /\ a = (a \div n) * n + (a % n)
BY Z3

LEMMA RemainderIs ==
  ASSUME NEW a \in Int, NEW n \in Nat \ {0}, NEW q \in Int, NEW r \in 0..n - 1, a = q * n + r
  PROVE  a % n = r /\ a \div n = q
OBVIOUS

LEMMA NoMultiple ==
  ASSUME NEW n \in Nat \ {0}, NEW q \in Int, q * n < n, - n < q * n
  PROVE  q = 0
OBVIOUS

\* r is the remainder, p the product; a and b have the same remainder.
Rem(r, a, n) == r = a % n
Product(p, a, b) == p = a * b
Same(a, b, n) == \E q \in Int : a = b + q * n

LEMMA SameTimes ==
  ASSUME NEW n \in Nat \ {0}, NEW a \in Int, NEW b \in Int, NEW k \in Int, Same(a, b, n),
         NEW ak, NEW bk, Product(ak, a, k), Product(bk, b, k)
  PROVE  Same(ak, bk, n) /\ ak \in Int /\ bk \in Int
<1>1. PICK q \in Int : a = b + q * n
  BY DEF Same
<1>2. a * k = b * k + (q * k) * n /\ q * k \in Int
  BY <1>1
<1> QED BY <1>2 DEF Same, Product

LEMMA SameTrans ==
  ASSUME NEW n \in Nat \ {0}, NEW a \in Int, NEW b \in Int, NEW c \in Int,
         Same(a, b, n), Same(b, c, n)
  PROVE  Same(a, c, n)
<1>1. PICK q \in Int : a = b + q * n
  BY DEF Same
<1>2. PICK r \in Int : b = c + r * n
  BY DEF Same
<1>3. a = c + (q + r) * n /\ q + r \in Int
  BY <1>1, <1>2
<1> QED BY <1>3 DEF Same

LEMMA SameBack ==
  ASSUME NEW n \in Nat \ {0}, NEW a \in Int, NEW b \in Int, Same(a, b, n)
  PROVE  Same(b, a, n)
<1>1. PICK q \in Int : a = b + q * n
  BY DEF Same
<1>2. b = a + (- q) * n /\ - q \in Int
  BY <1>1
<1> QED BY <1>2 DEF Same

LEMMA SameAsRemainder ==
  ASSUME NEW n \in Nat \ {0}, NEW a \in Int, NEW r, Rem(r, a, n)
  PROVE  Same(a, r, n) /\ Same(r, a, n) /\ r \in 0..n - 1
<1>1. r \in 0..n - 1 /\ a \div n \in Int /\ a = (a \div n) * n + r
  BY Remainder DEF Rem
<1>2. a = r + (a \div n) * n
  BY <1>1
<1>3. Same(a, r, n)
  BY <1>1, <1>2 DEF Same
<1>4. r \in Int
  BY <1>1
<1> QED BY <1>1, <1>3, <1>4, SameBack

LEMMA SmallRemainder ==
  ASSUME NEW n \in Nat \ {0}, NEW a \in 0..n - 1
  PROVE  Rem(a, a, n)
<1>1. a = 0 * n + a
  OBVIOUS
<1> QED BY <1>1, RemainderIs DEF Rem

LEMMA SameIsEqual ==
  ASSUME NEW n \in Nat \ {0}, NEW a \in 0..n - 1, NEW b \in 0..n - 1, Same(a, b, n)
  PROVE  a = b
<1>1. PICK q \in Int : a = b + q * n
  BY DEF Same
<1>2. q * n \in Int /\ q * n = a - b
  BY <1>1
<1>3. q * n < n /\ - n < q * n
  BY <1>2
<1>4. q = 0
  BY <1>3, NoMultiple
<1> QED BY <1>1, <1>4

LEMMA QuotientMonotone ==
  ASSUME NEW a \in Int, NEW b \in Int, NEW n \in Nat \ {0}, a <= b
  PROVE  a \div n <= b \div n
<1> DEFINE p == a \div n
           q == b \div n
<1>1. /\ p \in Int /\ q \in Int /\ p * n <= a /\ b < q * n + n
  BY Remainder
<1> HIDE DEF p, q
<1>2. p * n < (q + 1) * n
  BY <1>1
<1>3. p < q + 1
  BY <1>1, <1>2, Z3
<1>4. p <= q
  BY <1>1, <1>3
<1> QED BY <1>4 DEF p, q

-----------------------------------------------------------------------------
(* The hash *)

LEMMA HashIs ==
  ASSUME NEW id \in Nat, NEW low, Rem(low, id, Ids),
         NEW product, Product(product, low, KNUTH_FACTOR)
  PROVE  /\ low \in 0..Ids - 1 /\ product \in Nat /\ Hash(id) \in 0..Ids - 1
         /\ Same(Hash(id), product, Ids) /\ Hash(low) = Hash(id)
<1>1. Ids \in Nat \ {0} /\ KNUTH_FACTOR \in Nat
  BY RatesAssumption
<1>2. low \in 0..Ids - 1 /\ low \in Nat
  BY <1>1, SameAsRemainder
<1>3. Rem(low, low, Ids)
  BY <1>1, <1>2, SmallRemainder
<1>4. product \in Nat
  BY <1>1, <1>2 DEF Product
<1>5. Rem(Hash(id), product, Ids) /\ Hash(low) = Hash(id)
  BY <1>3, Zenon DEF Hash, Rem, Product
<1>6. Hash(id) \in 0..Ids - 1 /\ Same(Hash(id), product, Ids)
  BY <1>1, <1>4, <1>5, SameAsRemainder
<1> QED BY <1>2, <1>4, <1>5, <1>6

LEMMA HasInverse ==
  \E inverse \in Int, one \in Int : Product(one, KNUTH_FACTOR, inverse) /\ Same(one, 1, Ids)
<1>1. Ids \in Nat \ {0} /\ KNUTH_FACTOR \in Nat
  BY RatesAssumption
<1>2. PICK inverse \in 0..Ids - 1 : (KNUTH_FACTOR * inverse) % Ids = 1 % Ids
  BY RatesAssumption
<1>3. PICK one : Product(one, KNUTH_FACTOR, inverse)
  BY DEF Product
<1>4. PICK r : Rem(r, 1, Ids)
  BY DEF Rem
<1>5. one \in Int /\ inverse \in Int /\ Rem(r, one, Ids)
  BY <1>1, <1>2, <1>3, <1>4 DEF Rem, Product
<1>6. Same(one, r, Ids) /\ Same(r, 1, Ids) /\ r \in Int
  BY <1>1, <1>4, <1>5, SameAsRemainder
<1>7. Same(one, 1, Ids)
  BY <1>1, <1>5, <1>6, SameTrans
<1> QED BY <1>3, <1>5, <1>7

\* Different halves have different hashes.
LEMMA HashInjective ==
  ASSUME NEW x \in 0..Ids - 1, NEW y \in 0..Ids - 1, Hash(x) = Hash(y)
  PROVE  x = y
<1>1. Ids \in Nat \ {0} /\ KNUTH_FACTOR \in Nat /\ KNUTH_FACTOR \in Int /\ x \in Nat /\ y \in Nat
  BY RatesAssumption
<1>2. PICK inverse \in Int, one \in Int : Product(one, KNUTH_FACTOR, inverse) /\ Same(one, 1, Ids)
  BY HasInverse
<1>3. Rem(x, x, Ids) /\ Rem(y, y, Ids)
  BY <1>1, SmallRemainder
<1>4. PICK a, b : Product(a, x, KNUTH_FACTOR) /\ Product(b, y, KNUTH_FACTOR)
  BY DEF Product
<1>5. PICK h : h = Hash(x)
  OBVIOUS
<1>6. Same(h, a, Ids) /\ Same(h, b, Ids) /\ h \in Int /\ a \in Int /\ b \in Int
  BY <1>1, <1>3, <1>4, <1>5, HashIs
<1>7. Same(a, b, Ids)
  BY <1>1, <1>6, SameBack, SameTrans
<1>8. PICK ox, oy : Product(ox, one, x) /\ Product(oy, one, y)
  BY DEF Product
<1>9. Product(ox, a, inverse) /\ Product(oy, b, inverse)
  BY <1>1, <1>2, <1>4, <1>8 DEF Product
<1>10. Same(ox, oy, Ids) /\ ox \in Int /\ oy \in Int
  BY <1>1, <1>2, <1>6, <1>7, <1>9, SameTimes
<1>11. Product(x, 1, x) /\ Product(y, 1, y)
  BY <1>1 DEF Product
<1>12. Same(ox, x, Ids) /\ Same(oy, y, Ids)
  BY <1>1, <1>2, <1>8, <1>11, SameTimes
<1>13. Same(x, ox, Ids)
  BY <1>1, <1>10, <1>12, SameBack
<1>14. Same(x, oy, Ids)
  BY <1>1, <1>10, <1>13, SameTrans
<1>15. Same(x, y, Ids)
  BY <1>1, <1>10, <1>12, <1>14, SameTrans
<1> QED BY <1>1, <1>15, SameIsEqual

\* Every value is the hash of some half.
LEMMA HashReaches ==
  ASSUME NEW y \in 0..Ids - 1
  PROVE  \E x \in 0..Ids - 1 : Hash(x) = y
<1>1. Ids \in Nat \ {0} /\ KNUTH_FACTOR \in Nat /\ KNUTH_FACTOR \in Int /\ y \in Int
  BY RatesAssumption
<1>2. PICK inverse \in Int, one \in Int : Product(one, KNUTH_FACTOR, inverse) /\ Same(one, 1, Ids)
  BY HasInverse
<1>3. PICK p \in Int : Product(p, y, inverse)
  BY <1>1 DEF Product
<1>4. PICK x : Rem(x, p, Ids)
  BY DEF Rem
<1>5. Same(x, p, Ids) /\ x \in 0..Ids - 1 /\ x \in Nat
  BY <1>1, <1>4, SameAsRemainder
<1>r. Rem(x, x, Ids)
  BY <1>1, <1>5, SmallRemainder
<1>6. PICK a, oy, h : Product(a, x, KNUTH_FACTOR) /\ Product(oy, one, y) /\ h = Hash(x)
  BY DEF Product
<1>7. h \in 0..Ids - 1 /\ h \in Int /\ Same(h, a, Ids) /\ a \in Int
  BY <1>5, <1>r, <1>6, HashIs
<1>8. Product(oy, p, KNUTH_FACTOR)
  BY <1>1, <1>2, <1>3, <1>6 DEF Product
<1>9. Same(a, oy, Ids) /\ oy \in Int
  BY <1>1, <1>5, <1>6, <1>8, SameTimes
<1>10. Product(y, 1, y)
  BY <1>1 DEF Product
<1>11. Same(oy, y, Ids)
  BY <1>1, <1>2, <1>6, <1>10, SameTimes
<1>12. Same(h, oy, Ids)
  BY <1>1, <1>7, <1>9, SameTrans
<1>13. Same(h, y, Ids)
  BY <1>1, <1>7, <1>9, <1>11, <1>12, SameTrans
<1>14. h = y
  BY <1>7, <1>1, <1>13, SameIsEqual
<1> QED BY <1>5, <1>6, <1>14

-----------------------------------------------------------------------------
(* Shares *)

\* Of the identifiers below n those that a rate keeps
KeptBelow(given, n) == {id \in 0..n - 1 : sample(given, id)}
KeptOf(given) == Cardinality(KeptBelow(given, Ids))

LEMMA KeptIsNumber ==
  ASSUME NEW given, NEW n \in Nat
  PROVE  /\ IsFiniteSet(KeptBelow(given, n)) /\ Cardinality(KeptBelow(given, n)) \in Nat
<1>1. IsFiniteSet(0..n - 1)
  BY FS_Interval
<1>2. KeptBelow(given, n) \in SUBSET (0..n - 1)
  BY DEF KeptBelow
<1>3. IsFiniteSet(KeptBelow(given, n))
  BY <1>1, <1>2, FS_Subset
<1> QED BY <1>3, FS_CardinalityType

\* One more identifier
LEMMA KeptNext ==
  ASSUME NEW given, NEW n \in Nat
  PROVE  Cardinality(KeptBelow(given, n + 1)) =
           IF sample(given, n) THEN Cardinality(KeptBelow(given, n)) + 1
           ELSE Cardinality(KeptBelow(given, n))
<1>1. CASE sample(given, n)
  <2>1. KeptBelow(given, n + 1) = KeptBelow(given, n) \cup {n}
    BY <1>1 DEF KeptBelow
  <2>2. n \notin KeptBelow(given, n)
    BY DEF KeptBelow
  <2> QED BY <1>1, <2>1, <2>2, KeptIsNumber, FS_AddElement
<1>2. CASE ~sample(given, n)
  <2>1. KeptBelow(given, n + 1) = KeptBelow(given, n)
    BY <1>2 DEF KeptBelow
  <2> QED BY <1>2, <2>1
<1> QED BY <1>1, <1>2

\* As many halves have a hash of at most t as there are numbers up to t.
LEMMA HashesUpTo ==
  ASSUME NEW t \in 0..Ids - 1
  PROVE  Cardinality({id \in 0..Ids - 1 : Hash(id) <= t}) = t + 1
<1> DEFINE S == {id \in 0..Ids - 1 : Hash(id) <= t}
           f == [id \in S |-> Hash(id)]
<1>1. Ids \in Nat \ {0}
  BY RatesAssumption
<1>2. \A id \in 0..Ids - 1 : Hash(id) \in 0..Ids - 1
  <2> TAKE id \in 0..Ids - 1
  <2>1. PICK low, product : Rem(low, id, Ids) /\ Product(product, low, KNUTH_FACTOR)
    BY DEF Rem, Product
  <2>2. id \in Nat
    BY <1>1
  <2> QED BY <2>1, <2>2, HashIs
<1>3. f \in [S -> 0..t]
  BY <1>1, <1>2
<1>4. \A a, b \in S : f[a] = f[b] => a = b
  BY HashInjective
<1>5. ASSUME NEW y \in 0..t PROVE \E a \in S : f[a] = y
  <2>1. y \in 0..Ids - 1 /\ y <= t
    BY <1>1
  <2>2. PICK id \in 0..Ids - 1 : Hash(id) = y
    BY <2>1, HashReaches
  <2> QED BY <2>1, <2>2
<1>6. S \in SUBSET (0..Ids - 1) /\ IsFiniteSet(0..Ids - 1)
  BY <1>1, FS_Interval
<1> HIDE DEF S, f
<1>7. IsFiniteSet(S)
  BY <1>6, FS_Subset
<1>8. f \in Bijection(S, 0..t)
  BY <1>3, <1>4, <1>5, Fun_IsBij
<1>9. ExistsBijection(S, 0..t)
  BY <1>8 DEF ExistsBijection
<1>10. Cardinality(0..t) = Cardinality(S)
  BY <1>7, <1>9, FS_Bijection
<1>11. Cardinality(0..t) = t + 1
  BY <1>1, FS_Interval
<1> QED BY <1>10, <1>11 DEF S

LEMMA QuotientBounds ==
  ASSUME NEW a \in Int, NEW n \in Nat \ {0}
  PROVE  a \div n \in Int /\ (a \div n) * n <= a /\ a < (a \div n) * n + n
BY Z3

\* A round of identifiers keeps the share of the rate, up to one.
LEMMA ShareOfRound ==
  ASSUME NEW given \in Int
  PROVE  /\ KeptOf(given) \in Nat /\ Clamp(given) \in Int
         /\ KeptOf(given) * Whole - Clamp(given) * Ids <= Whole
         /\ Clamp(given) * Ids - KeptOf(given) * Whole <= Whole
<1>1. Ids \in Nat \ {0} /\ Whole \in Nat \ {0}
  BY RatesAssumption
<1> DEFINE rate == Clamp(given)
<1>2. rate \in 0..Whole /\ rate \in Int
  BY <1>1 DEF Clamp
<1>3. KeptOf(given) \in Nat
  BY <1>1, KeptIsNumber DEF KeptOf
<1>4. CASE rate = 0
  <2>1. KeptBelow(given, Ids) = {}
    BY <1>4 DEF KeptBelow, sample
  <2>2. KeptOf(given) = 0
    BY <2>1, FS_EmptySet DEF KeptOf
  <2> QED BY <1>1, <1>4, <2>2
<1>5. CASE rate = Whole
  <2>1. KeptBelow(given, Ids) = 0..Ids - 1
    BY <1>1, <1>5 DEF KeptBelow, sample
  <2>2. KeptOf(given) = Ids
    BY <1>1, <2>1, FS_Interval DEF KeptOf
  <2> QED BY <1>1, <1>5, <2>2
<1>6. CASE 0 < rate /\ rate < Whole
  <2> DEFINE t == (rate * Ids) \div Whole
  <2>1. rate * Ids \in Int
    BY <1>1, <1>2
  <2>2. t \in Int /\ t * Whole <= rate * Ids /\ rate * Ids < t * Whole + Whole
    BY <1>1, <2>1, QuotientBounds
  <2>3. KeptBelow(given, Ids) = {id \in 0..Ids - 1 : Hash(id) <= t}
    BY <1>1, <1>2, <1>6 DEF KeptBelow, sample, calculate_threshold
  <2> HIDE DEF t, rate
  <2>4. t \in 0..Ids - 1
    <3>1. 0 <= rate * Ids /\ rate * Ids < Whole * Ids
      BY <1>1, <1>2, <1>6, Z3
    <3>2. t * Whole < Ids * Whole
      BY <1>1, <1>2, <2>2, <3>1, Z3
    <3>3. t < Ids
      BY <1>1, <2>2, <3>2, Z3
    <3>4. 0 < (t + 1) * Whole
      BY <1>1, <1>2, <2>2, <3>1, Z3
    <3>5. 0 <= t
      BY <1>1, <2>2, <3>4, Z3
    <3> QED BY <1>1, <2>2, <3>3, <3>5
  <2>5. KeptOf(given) = t + 1
    BY <2>3, <2>4, HashesUpTo DEF KeptOf
  <2>6. (t + 1) * Whole = t * Whole + Whole /\ t * Whole \in Int
    BY <1>1, <2>2
  <2>7. (t + 1) * Whole - rate * Ids <= Whole /\ rate * Ids - (t + 1) * Whole <= Whole
    BY <1>1, <2>1, <2>2, <2>6
  <2> QED BY <1>2, <1>3, <2>5, <2>7 DEF rate
<1> QED BY <1>1, <1>2, <1>4, <1>5, <1>6

-----------------------------------------------------------------------------
(* Two services *)

LEMMA HigherKeepsMore ==
  ASSUME NEW low \in Int, NEW high \in Int, low <= high, NEW id \in Nat,
         sample(low, id)
  PROVE  sample(high, id)
<1>1. Ids \in Nat \ {0} /\ Whole \in Nat \ {0}
  BY RatesAssumption
<1>2. PICK r, s : r = Clamp(low) /\ s = Clamp(high)
  OBVIOUS
<1>3. r \in 0..Whole /\ s \in 0..Whole /\ r <= s /\ r \in Int /\ s \in Int
  BY <1>1, <1>2 DEF Clamp
<1>4. CASE r >= Whole
  BY <1>1, <1>2, <1>3, <1>4 DEF sample
<1>5. CASE s >= Whole
  BY <1>1, <1>2, <1>3, <1>5 DEF sample
<1>6. CASE ~(r >= Whole) /\ ~(s >= Whole)
  <2>1. PICK a, b : a = r * Ids /\ b = s * Ids
    OBVIOUS
  <2>2. a \in Int /\ b \in Int /\ a <= b
    BY <1>1, <1>3, <2>1, Z3
  <2>3. a \div Whole <= b \div Whole /\ a \div Whole \in Int /\ b \div Whole \in Int
    BY <1>1, <2>2, QuotientMonotone, Remainder
  <2>4. ~(r <= 0) /\ Hash(id) <= a \div Whole
    BY <1>2, <1>6, <2>1 DEF sample, calculate_threshold
  <2>5. Hash(id) \in Int
    <3>1. PICK l, p : Rem(l, id, Ids) /\ Product(p, l, KNUTH_FACTOR)
      BY DEF Rem, Product
    <3> QED BY <1>1, <3>1, HashIs
  <2>6. ~(s <= 0) /\ Hash(id) <= b \div Whole
    BY <1>3, <2>3, <2>4, <2>5
  <2> QED BY <1>2, <1>6, <2>1, <2>6 DEF sample, calculate_threshold
<1> QED BY <1>4, <1>5, <1>6

LEMMA HalfDecides ==
  ASSUME NEW given, NEW id \in Nat
  PROVE  sample(given, id) = sample(given, id % Ids)
<1>1. Rem(id % Ids, id, Ids) /\ Product((id % Ids) * KNUTH_FACTOR, id % Ids, KNUTH_FACTOR)
  BY DEF Rem, Product
<1>2. \A low, product : Rem(low, id, Ids) /\ Product(product, low, KNUTH_FACTOR) => Hash(low) = Hash(id)
  BY HashIs
<1>3. Hash(id % Ids) = Hash(id)
  BY <1>1, <1>2, Zenon
<1> QED BY <1>3, Zenon DEF sample

-----------------------------------------------------------------------------

\* What was kept is what every full round keeps and what this one has kept so far.
RatesInv ==
  /\ up \in Int /\ down \in Int /\ trace_id \in Nat
  /\ keptUp = (trace_id \div Ids) * KeptOf(up) + Cardinality(KeptBelow(up, trace_id % Ids))

LEMMA RatesInitially == ASSUME RatesInit PROVE RatesInv
<1>1. Ids \in Nat \ {0} /\ Given \subseteq Int
  BY RatesAssumption
<1>2. 0 % Ids = 0 /\ 0 \div Ids = 0
  <2>1. 0 = 0 * Ids + 0 /\ 0 \in 0..Ids - 1
    BY <1>1
  <2> QED BY <1>1, <2>1, RemainderIs
<1>3. KeptBelow(up, 0) = {}
  BY DEF KeptBelow
<1>4. Cardinality(KeptBelow(up, 0)) = 0
  BY <1>3, FS_EmptySet
<1>5. KeptOf(up) \in Nat
  BY <1>1, KeptIsNumber DEF KeptOf
<1>6. 0 * KeptOf(up) + 0 = 0
  BY <1>5
<1> QED BY <1>1, <1>2, <1>4, <1>6, Zenon DEF RatesInv, RatesInit

LEMMA RatesStep == ASSUME RatesInv, NextTrace PROVE RatesInv'
<1>1. Ids \in Nat \ {0}
  BY RatesAssumption
<1>2. PICK q, r : q = trace_id \div Ids /\ r = trace_id % Ids
  OBVIOUS
<1>3. trace_id \in Nat /\ up \in Int /\ down \in Int
  BY DEF RatesInv
<1>4. r \in 0..Ids - 1 /\ q \in Int /\ r \in Nat /\ trace_id = q * Ids + r
  <2>1. trace_id \in Int
    BY <1>3
  <2>2. r \in 0..Ids - 1 /\ q \in Int /\ trace_id = q * Ids + r
    BY <1>1, <1>2, <2>1, Remainder
  <2> QED BY <1>1, <2>2
<1>5. trace_id' = trace_id + 1 /\ up' = up /\ down' = down
  BY DEF NextTrace
<1>6. PICK k, below, whole : /\ k = keptUp /\ whole = KeptOf(up)
                             /\ below = Cardinality(KeptBelow(up, r))
  OBVIOUS
<1>7. below \in Nat /\ whole \in Nat
  BY <1>1, <1>4, <1>6, KeptIsNumber DEF KeptOf
<1>8. k = q * whole + below
  BY <1>2, <1>6, Zenon DEF RatesInv
<1>9. PICK more : more = Cardinality(KeptBelow(up, r + 1))
  OBVIOUS
<1>10. more = IF sample(up, r) THEN below + 1 ELSE below
  BY <1>4, <1>6, <1>9, KeptNext
<1>11. sample(up, trace_id) = sample(up, r)
  BY <1>2, <1>3, HalfDecides
<1>12. keptUp' = IF sample(up, r) THEN k + 1 ELSE k
  BY <1>6, <1>11, Zenon DEF NextTrace
<1>13. PICK product : product = q * whole
  OBVIOUS
<1>14. product \in Int
  BY <1>4, <1>7, <1>13
<1>15. keptUp' = product + more
  BY <1>7, <1>8, <1>10, <1>12, <1>13, <1>14
<1>16. PICK next : next = trace_id + 1
  OBVIOUS
<1>17. next \in Nat /\ next = q * Ids + r + 1
  BY <1>1, <1>3, <1>4, <1>16
<1>18. CASE r + 1 < Ids
  <2>1. r + 1 \in 0..Ids - 1 /\ next = q * Ids + (r + 1)
    BY <1>1, <1>4, <1>17, <1>18
  <2>2. next % Ids = r + 1 /\ next \div Ids = q
    BY <1>1, <1>4, <1>17, <2>1, RemainderIs
  <2>3. keptUp' = (next \div Ids) * KeptOf(up) + Cardinality(KeptBelow(up, next % Ids))
    BY <1>6, <1>9, <1>13, <1>15, <2>2, Zenon
  <2> QED BY <1>3, <1>5, <1>16, <1>17, <2>3, Zenon DEF RatesInv, KeptOf, KeptBelow, sample
<1>19. CASE r + 1 = Ids
  <2>1. next = (q + 1) * Ids + 0 /\ 0 \in 0..Ids - 1 /\ q + 1 \in Int
    BY <1>1, <1>4, <1>17, <1>19
  <2>2. next % Ids = 0 /\ next \div Ids = q + 1
    BY <1>1, <1>17, <2>1, RemainderIs
  <2>3. more = whole
    BY <1>6, <1>9, <1>19, Zenon DEF KeptOf
  <2>4. KeptBelow(up, 0) = {}
    BY DEF KeptBelow
  <2>5. PICK none : none = Cardinality(KeptBelow(up, 0))
    OBVIOUS
  <2>6. none = 0
    BY <2>4, <2>5, FS_EmptySet
  <2>7. keptUp' = (q + 1) * whole + none
    BY <1>4, <1>7, <1>13, <1>14, <1>15, <2>3, <2>6
  <2>8. keptUp' = (next \div Ids) * KeptOf(up) + Cardinality(KeptBelow(up, next % Ids))
    BY <1>6, <2>2, <2>5, <2>7, Zenon
  <2> QED BY <1>3, <1>5, <1>16, <1>17, <2>8, Zenon DEF RatesInv, KeptOf, KeptBelow, sample
<1>20. r + 1 < Ids \/ r + 1 = Ids
  BY <1>1, <1>4
<1> QED BY <1>18, <1>19, <1>20

LEMMA RatesShare == ASSUME RatesInv PROVE ShareKept
<1> SUFFICES ASSUME trace_id % Ids = 0 PROVE ShareKept
  BY DEF ShareKept
<1>1. Ids \in Nat \ {0} /\ Whole \in Nat \ {0} /\ Whole \in Int
  BY RatesAssumption
<1>2. trace_id \in Nat /\ trace_id \in Int /\ up \in Int
  BY DEF RatesInv
<1>3. PICK rounds : rounds = trace_id \div Ids
  OBVIOUS
<1>4. rounds \in Int /\ trace_id = rounds * Ids + 0
  BY <1>1, <1>2, <1>3, Remainder
<1>5. rounds >= 0
  BY <1>1, <1>2, <1>4, Z3
<1>6. PICK whole, rate : whole = KeptOf(up) /\ rate = Clamp(up)
  OBVIOUS
<1>7. /\ whole \in Nat /\ rate \in Int
      /\ whole * Whole - rate * Ids <= Whole /\ rate * Ids - whole * Whole <= Whole
  BY <1>2, <1>6, ShareOfRound
<1>8. KeptBelow(up, 0) = {}
  BY DEF KeptBelow
<1>9. PICK none : none = Cardinality(KeptBelow(up, 0))
  OBVIOUS
<1>10. none = 0
  BY <1>8, <1>9, FS_EmptySet
<1>11. keptUp = rounds * whole + none
  BY <1>3, <1>6, <1>9, Zenon DEF RatesInv
<1>12. keptUp = rounds * whole
  BY <1>4, <1>7, <1>10, <1>11
<1>13. PICK w, s : w = whole * Whole /\ s = rate * Ids
  OBVIOUS
<1>14. w \in Int /\ s \in Int /\ w - s <= Whole /\ s - w <= Whole
  BY <1>1, <1>7, <1>13
<1>15. rounds * (w - s) <= rounds * Whole /\ rounds * (s - w) <= rounds * Whole
  BY <1>1, <1>4, <1>5, <1>14, Z3
<1>16. keptUp * Whole = rounds * w /\ rate * trace_id = rounds * s
  BY <1>1, <1>4, <1>7, <1>12, <1>13, Z3
<1>17. /\ rounds * (w - s) = rounds * w - rounds * s
       /\ rounds * (s - w) = rounds * s - rounds * w
       /\ rounds * w \in Int /\ rounds * s \in Int /\ rounds * Whole \in Int
  BY <1>1, <1>4, <1>14
<1>18. PICK rw, rs, rp : rw = rounds * w /\ rs = rounds * s /\ rp = rounds * Whole
  OBVIOUS
<1>19. rw \in (rs - rp)..(rs + rp)
  BY <1>15, <1>17, <1>18
<1>20. keptUp * Whole \in (rate * trace_id - rounds * Whole)..(rate * trace_id + rounds * Whole)
  BY <1>16, <1>18, <1>19, Zenon
<1> QED BY <1>3, <1>6, <1>20, Zenon DEF ShareKept

LEMMA RatesSound == ASSUME RatesInv PROVE RatesAgree
<1>1. trace_id \in Nat /\ up \in Int /\ down \in Int
  BY DEF RatesInv
<1>2. HigherRateKeepsMore
  BY <1>1, HigherKeepsMore DEF HigherRateKeepsMore
<1>3. LowHalfDecides
  BY <1>1, HalfDecides DEF LowHalfDecides
<1> QED BY <1>2, <1>3, RatesShare DEF RatesAgree

\* Two services that decide with rates of their own fit together, for every pair
\* of rates, every number of parts and every width of identifiers: the higher rate
\* keeps what the lower one does, the half that all headers carry decides, and a
\* rate keeps its share.  The factor of the hash needs an inverse for the last
\* (rate_sampler.rs 53-71).
THEOREM RatesAreDecided == RatesSpec => []RatesAgree
<1>1. RatesInit => RatesInv
  BY RatesInitially
<1>2. RatesInv /\ [NextTrace]_ratesVars => RatesInv'
  <2>1. CASE NextTrace
    BY <2>1, RatesStep
  <2>2. ASSUME RatesInv, UNCHANGED ratesVars PROVE RatesInv'
    BY <2>2 DEF ratesVars, RatesInv, KeptOf, KeptBelow, sample
  <2> QED BY <2>1, <2>2
<1>3. RatesInv => RatesAgree
  BY RatesSound
<1> QED BY <1>1, <1>2, <1>3, PTL DEF RatesSpec

=============================================================================
