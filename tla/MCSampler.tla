------------------------------ MODULE MCSampler ------------------------------
(***************************************************************************)
(* Sampling on small instances.  A behaviour is one of these settings:     *)
(*   "updates"  two threads decide while rules, rates and resource change  *)
(*   "race"     two threads compete for the tokens as time passes          *)
(*   "alone"    one thread asks for tokens, more often and for longer      *)
(*   "rates"    two services decide with rates of their own                *)
(*   "globs"    one thread matches every short pattern and subject         *)
(*   "cache"    two threads share a cache that is too small                *)
(***************************************************************************)
EXTENDS Sampler, GlobMatcher, RateSampler

LOCAL INSTANCE SequencesExt

VARIABLE setting

-----------------------------------------------------------------------------

LOCAL Rule(services, rate, provenance) ==
  [services |-> services, provenance |-> provenance, sample_rate |-> rate]

\* A rate beyond 1.0: every trace goes on to the limiter.
Everything == <<Rule({"web", "db"}, 3, "default")>>

\* Lists where the first match matters, of every provenance and with rates beyond
\* 0.0 and 1.0, and the empty one
OrderedLists ==
  {<<>>, <<Rule({"web"}, 1, "customer"), Rule({"web", "db"}, -1, "dynamic")>>, Everything}

\* Rates of the agent: none, one service, all, beyond 1.0
ServiceRates ==
  {<<>>, [s \in {"web"} |-> 1], [s \in {"web", "db"} |-> 2], [s \in {"db"} |-> 3]}

\* Rates of sixths from below 0.0 to above 1.0.  Identifiers have two times five
\* bits, and KNUTH_FACTOR of constants.rs is 199 modulo 2^8.
GivenRates == -1..7

\* Strings over an upper and a lower case letter and the wildcards
LowerCase == [c \in {"A", "a", "b", "*", "?"} |-> IF c = "A" THEN "a" ELSE c]
Utf8      == [c \in DOMAIN LowerCase |-> <<c>>]
ShortPatterns == BoundedSeq({"a", "b", "*", "?"}, 4) \cup {<<"A">>, <<"A", "*">>}
ShortSubjects == BoundedSeq({"A", "b"}, 4)
CachePatterns == {<<"*", "a", "?">>, <<"?", "*", "a">>}
CacheSubjects == {<<"a">>, <<"b", "a">>, <<"a", "b">>}

\* What the proofs about globs assume of strings
ASSUME AsciiStrings == StringsHaveBytes /\ OneByteEach

-----------------------------------------------------------------------------

MCVars == <<allVars, ratesVars, globVars, setting>>

MCInit ==
  /\ setting \in {"updates", "race", "alone", "rates", "globs", "cache"}
  /\ SamplerInit
  /\ setting # "updates" => rules = Everything /\ resource = "web"
  /\ RatesInit
  /\ setting # "rates" => up = 0 /\ down = 0
  /\ GlobInit
  /\ CASE setting = "globs" -> TRUE
       [] setting = "cache" -> pattern_lower \in CachePatterns
       [] OTHER             -> pattern_lower = <<"*">>

Sampling ==
  /\ setting \in {"updates", "race", "alone"}
  /\ SamplerNext
  /\ \/ setting = "updates" /\ clock' = 0 /\ calls' <= 3
     \/ setting = "race" /\ changes' = 0 /\ clock' <= 3 /\ calls' <= 5
     \/ setting = "alone" /\ changes' = 0 /\ ~InSampleRoot("b")'
  /\ UNCHANGED <<ratesVars, globVars, setting>>

Deciding ==
  /\ setting = "rates"
  /\ NextTrace
  /\ UNCHANGED <<allVars, globVars, setting>>

Matching ==
  /\ setting \in {"globs", "cache"}
  /\ GlobNext
  /\ \/ setting = "globs" /\ matched' <= 1 /\ matching'["b"] = matching["b"]
     \/ setting = "cache" /\ \A th \in Matchers : matching'[th].subject \in CacheSubjects \cup {<<>>}
  /\ UNCHANGED <<allVars, ratesVars, setting>>

MCSpec == MCInit /\ [][Sampling \/ Deciding \/ Matching]_MCVars

=============================================================================
