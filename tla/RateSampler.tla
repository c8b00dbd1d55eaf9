----------------------------- MODULE RateSampler -----------------------------
(***************************************************************************)
(* The rate sampler of dd-trace-sampling (rate_sampler.rs): a trace is     *)
(* kept when the hash of its identifier is at most a threshold.            *)
(*                                                                         *)
(* Every service decides by itself, with its own rate: the properties say  *)
(* what the decisions of two services on one trace have to do with each    *)
(* other, and how many traces a rate keeps.  Rates are counted in parts,   *)
(* identifiers have two halves of which the lower one is hashed.           *)
(***************************************************************************)
EXTENDS Integers

CONSTANTS
  Ids,           \* values of the half of a trace identifier that is hashed (2^64)
  KNUTH_FACTOR,  \* the factor of the hash
  Whole,         \* parts of the rate 1.0
  Given          \* sample_rate as given, in parts: below 0 and above 1.0 too

VARIABLES
  up,        \* the rate a service upstream was given
  down,      \* the rate a service downstream was given
  trace_id,  \* the trace both look at
  keptUp     \* the traces upstream has kept of those below this one

ratesVars == <<up, down, trace_id, keptUp>>

-----------------------------------------------------------------------------

\* The factor has an inverse, as any odd one has modulo a power of two.
ASSUME RatesAssumption ==
  /\ Ids \in Nat \ {0} /\ Whole \in Nat \ {0} /\ KNUTH_FACTOR \in Nat /\ Given \subseteq Int
  /\ \E inverse \in 0..Ids - 1 : (KNUTH_FACTOR * inverse) % Ids = 1 % Ids

\* RateSampler::new: sample_rate.clamp(MIN_SAMPLE_RATE, MAX_SAMPLE_RATE)
Clamp(rate) == IF rate < 0 THEN 0 ELSE IF rate > Whole THEN Whole ELSE rate

\* A float of the range of the hash is truncated; the rate 1.0 has its own case.
calculate_threshold(rate) ==
  IF rate >= Whole THEN Ids - 1 ELSE (rate * Ids) \div Whole

\* Mutant: the whole identifier is hashed and its upper half looked at.
HashUpper(id) == ((id * KNUTH_FACTOR) \div Ids) % Ids

\* Mutant: the hash drops a bit.
HashEven(id) == (id * (KNUTH_FACTOR - 1)) % Ids

\* trace_id_u128 as u64, then wrapping_mul
Hash(id) == ((id % Ids) * KNUTH_FACTOR) % Ids

\* Mutant: the comparison is the wrong way round.
SampleAbove(given, id) == Hash(id) >= calculate_threshold(Clamp(given))

sample(given, id) ==
  LET rate == Clamp(given)
  IN IF rate <= 0 THEN FALSE
     ELSE IF rate >= Whole THEN TRUE
     ELSE Hash(id) <= calculate_threshold(rate)

-----------------------------------------------------------------------------

RatesInit ==
  /\ up \in Given
  /\ down \in Given
  /\ trace_id = 0
  /\ keptUp = 0

NextTrace ==
  /\ trace_id < Ids * Ids - 1
  /\ keptUp' = IF sample(up, trace_id) THEN keptUp + 1 ELSE keptUp
  /\ trace_id' = trace_id + 1
  /\ UNCHANGED <<up, down>>

RatesSpec == RatesInit /\ [][NextTrace]_ratesVars

-----------------------------------------------------------------------------
(* Properties *)

\* A service with the higher rate keeps whatever the other one keeps: a trace
\* that is kept at all is whole downstream of the lower rate
\* (rate_sampler.rs 53-71).
HigherRateKeepsMore ==
  up <= down /\ sample(up, trace_id) => sample(down, trace_id)

\* The decision depends on the lower half of the identifier only, the half that
\* the Datadog headers carry (rate_sampler.rs 62-66).
LowHalfDecides ==
  sample(up, trace_id) = sample(up, trace_id % Ids)

\* Of every round of identifiers exactly the share of the rate is kept, up to one
\* identifier (rate_sampler.rs 9: keeps (100 * sample_rate)% of the traces).
ShareKept ==
  trace_id % Ids = 0 =>
    LET share  == Clamp(up) * trace_id
        rounds == trace_id \div Ids
    IN keptUp * Whole \in (share - rounds * Whole)..(share + rounds * Whole)

\* What services decide apart from each other fits together.
RatesAgree == HigherRateKeepsMore /\ LowHalfDecides /\ ShareKept

=============================================================================
