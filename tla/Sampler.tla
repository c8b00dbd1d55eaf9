------------------------------- MODULE Sampler -------------------------------
(***************************************************************************)
(* The sampler of dd-trace-sampling (datadog_sampler.rs) over its rules    *)
(* (rules_sampler.rs), the rates of the agent (agent_service_sampler.rs)   *)
(* and the token bucket (RateLimiter, whose steps are steps of a call      *)
(* here).                                                                  *)
(*                                                                         *)
(* Threads decide about root spans while remote configuration replaces the *)
(* rules, an answer of the agent replaces its rates, and a new resource    *)
(* waits for the readers of the old one.  A rule is known by the services  *)
(* it matches (RuleMatching has the cascade behind that), a trace by the   *)
(* part of the hash's range it falls into (RateSampler has the hash).      *)
(***************************************************************************)
EXTENDS RateLimiter, Sequences, FiniteSets

CONSTANTS
  Services,    \* values of service.name in the resource
  RuleLists,   \* lists of rules that configurations give, each with the set of
               \* services it matches, its provenance and its sample_rate
  AgentRates,  \* rates_by_service of the agent: partial functions of services
  Traces,      \* the parts of the hash's range
  Parts,       \* parts of the rate 1.0
  None,        \* Option::None
  MaxChanges,  \* bound: new rules, rates and resources
  MaxCalls     \* bound: calls of sample

\* A rule as the sampler sees it; its rate may lie outside of 0.0..1.0.
SamplingRule == [services : SUBSET Services, provenance : STRING, sample_rate : Int]

ASSUME SamplerAssumption ==
  /\ Parts \in Nat
  /\ Traces \subseteq 0..(Parts - 1)
  /\ None \notin Int
  /\ RuleLists \subseteq Seq(SamplingRule)
  /\ \A rates \in AgentRates : rates \in [DOMAIN rates -> Int]

VARIABLES
  rules,     \* RulesSampler
  agent,     \* ServicesSampler
  resource,  \* the shared resource, its service
  call,      \* the sample call of each thread
  seen,      \* history: rules and rates in force during the call
  kept,      \* history: traces a rule kept
  calls,     \* history: calls of sample
  changes    \* history: changes of rules, rates and resource

environment == <<rules, agent, resource, changes>>
limiterVars == <<clock, limiter, request, granted, asked, latest, askers>>
samplerVars == <<rules, agent, resource, call, seen, kept, calls, changes>>
allVars == <<limiterVars, samplerVars>>

-----------------------------------------------------------------------------
(* Data types *)

\* A matched rule is kept as a clone; rl is the effective rate as reported.
NoCall ==
  [pc |-> "idle", trace |-> 0, service |-> None, rule |-> None, is_keep |-> TRUE,
   mechanism |-> None, rate |-> None, rl |-> None]

\* The guard of the resource is held from the start of sample_root to its end.
InSampleRoot(th) == call[th].pc # "idle"

-----------------------------------------------------------------------------
(* Decisions *)

matches(rule, service) == service \in rule.services

\* find_matching_rule: the first rule that matches, or None
FirstMatch(list, service) ==
  IF \E i \in DOMAIN list : matches(list[i], service)
  THEN list[CHOOSE i \in DOMAIN list :
              /\ matches(list[i], service)
              /\ \A j \in DOMAIN list : matches(list[j], service) => i <= j]
  ELSE None

\* The rate sampler clamps its rate; the rule and its tag do not.
Clamped(rate) == IF rate < 0 THEN 0 ELSE IF rate > Parts THEN Parts ELSE rate
Sampled(rate, trace) == trace < Clamped(rate)

RuleMechanism(rule) ==
  CASE rule.provenance = "customer" -> "REMOTE_USER"
    [] rule.provenance = "dynamic"  -> "REMOTE_DYNAMIC"
    [] OTHER                        -> "LOCAL_USER"

to_priority(mechanism, is_keep) ==
  IF mechanism \in {"AGENT", "DEFAULT"}
  THEN IF is_keep THEN "AUTO_KEEP" ELSE "AUTO_REJECT"
  ELSE IF is_keep THEN "USER_KEEP" ELSE "USER_REJECT"

\* to_dd_sampling_tags of a result with root info
to_dd_sampling_tags(result) ==
  [limit_psr |-> result.rl,
   dm |-> result.mechanism,
   agent_psr |-> IF result.mechanism = "AGENT" THEN result.rate ELSE None,
   rule_psr |-> IF result.mechanism \in {"AGENT", "DEFAULT"} THEN None ELSE result.rate,
   sampling_priority |-> to_priority(result.mechanism, result.is_keep)]

-----------------------------------------------------------------------------

SamplerInit ==
  /\ Init
  /\ rules \in RuleLists
  /\ agent = <<>>
  /\ resource \in Services
  /\ call = [th \in Threads |-> NoCall]
  /\ seen = [th \in Threads |-> [rules |-> {}, agent |-> {}]]
  /\ kept = 0
  /\ calls = 0
  /\ changes = 0

Change ==
  /\ changes < MaxChanges
  /\ changes' = changes + 1
  /\ UNCHANGED <<call, kept, calls, limiterVars>>

Sees(th, lists, rates) ==
  IF InSampleRoot(th)
  THEN [rules |-> seen[th].rules \cup lists, agent |-> seen[th].agent \cup rates]
  ELSE seen[th]

\* update_rules: the whole list under the write lock
on_rules_update(list) ==
  /\ Change
  /\ rules' = list
  /\ seen' = [th \in Threads |-> Sees(th, {list}, {})]
  /\ UNCHANGED <<agent, resource>>

\* An answer without rates_by_service, or none that parses, changes nothing.
on_agent_response(rates) ==
  /\ Change
  /\ agent' = rates
  /\ seen' = [th \in Threads |-> Sees(th, {}, {rates})]
  /\ UNCHANGED <<rules, resource>>

\* Mutant: the guard is dropped when the span has been built.
ResourceUnderCall(service) ==
  /\ Change
  /\ resource' = service
  /\ UNCHANGED <<rules, agent, seen>>

\* The write lock waits for the guards of the calls.
set_resource(service) ==
  /\ \A th \in Threads : ~InSampleRoot(th)
  /\ Change
  /\ resource' = service
  /\ UNCHANGED <<rules, agent, seen>>

\* sample without a parent; with one the parent's decision is returned and
\* nothing is read or changed.
sample_root(th, trace) ==
  /\ ~InSampleRoot(th)
  /\ calls < MaxCalls
  /\ calls' = calls + 1
  /\ call' = [call EXCEPT ![th] = [NoCall EXCEPT !.pc = "rules", !.trace = trace,
                                                 !.service = resource]]
  /\ seen' = [seen EXCEPT ![th] = [rules |-> {rules}, agent |-> {agent}]]
  /\ UNCHANGED <<environment, kept, limiterVars>>

\* Under the read lock: the first rule, cloned, and what it says of the trace
find_matching_rule(th) ==
  /\ call[th].pc = "rules"
  /\ LET rule == FirstMatch(rules, call[th].service)
     IN call' = [call EXCEPT ![th] =
          IF rule = None THEN [@ EXCEPT !.pc = "agent"]
          ELSE [@ EXCEPT !.rule = rule, !.rate = rule.sample_rate,
                         !.mechanism = RuleMechanism(rule),
                         !.is_keep = Sampled(rule.sample_rate, call[th].trace),
                         !.pc = IF Sampled(rule.sample_rate, call[th].trace)
                                THEN "limiter" ELSE "decided"]]
  /\ UNCHANGED <<environment, seen, kept, calls, limiterVars>>

\* The steps of is_allowed
InLimiter(th) ==
  /\ call[th].pc = "limiter"
  /\ is_allowed(th) \/ is_allowed_at(th) \/ update_rate_counts(th)
  /\ UNCHANGED samplerVars

\* Mutant: a refused call keeps the trace.
LimiterOnlyReports(th) ==
  /\ call[th].pc = "limiter"
  /\ Returns(th)
  /\ call' = [call EXCEPT ![th].pc = IF request[th].allowed THEN "decided" ELSE "limited"]
  /\ kept' = kept + 1
  /\ UNCHANGED <<environment, seen, calls>>

LimiterReturns(th) ==
  /\ call[th].pc = "limiter"
  /\ Returns(th)
  /\ call' = [call EXCEPT ![th].is_keep = request[th].allowed,
                          ![th].pc = IF request[th].allowed THEN "decided" ELSE "limited"]
  /\ kept' = IF request[th].allowed THEN kept + 1 ELSE kept
  /\ UNCHANGED <<environment, seen, calls>>

\* effective_rate() as i32, under a lock of its own: other calls come between.
ReadEffectiveRate(th) ==
  /\ call[th].pc = "limited"
  /\ LET rate == effective_rate(limiter)
     IN call' = [call EXCEPT ![th].rl = rate.allowed \div rate.total,
                             ![th].pc = "decided"]
  /\ UNCHANGED <<environment, seen, kept, calls, limiterVars>>

\* Mutant: the agent's rate is applied and the default one reported.
ReportsDefaultRate(th) ==
  /\ call[th].pc = "agent"
  /\ call' = [call EXCEPT ![th] =
       IF call[th].service \in DOMAIN agent
       THEN [@ EXCEPT !.mechanism = "AGENT", !.rate = Parts,
                      !.is_keep = Sampled(agent[call[th].service], call[th].trace),
                      !.pc = "decided"]
       ELSE [@ EXCEPT !.mechanism = "DEFAULT", !.rate = Parts, !.pc = "decided"]]
  /\ UNCHANGED <<environment, seen, kept, calls, limiterVars>>

\* Without a rule: the rate of the agent for the service, or 1.0
UseAgentRate(th) ==
  /\ call[th].pc = "agent"
  /\ call' = [call EXCEPT ![th] =
       IF call[th].service \in DOMAIN agent
       THEN [@ EXCEPT !.mechanism = "AGENT", !.rate = Clamped(agent[call[th].service]),
                      !.is_keep = Sampled(agent[call[th].service], call[th].trace),
                      !.pc = "decided"]
       ELSE [@ EXCEPT !.mechanism = "DEFAULT", !.rate = Parts, !.pc = "decided"]]
  /\ UNCHANGED <<environment, seen, kept, calls, limiterVars>>

\* The result is returned, the guard dropped.
Answer(th) ==
  /\ call[th].pc = "decided"
  /\ call' = [call EXCEPT ![th] = NoCall]
  /\ seen' = [seen EXCEPT ![th] = [rules |-> {}, agent |-> {}]]
  /\ UNCHANGED <<environment, kept, calls, limiterVars>>

SamplerNext ==
  \/ Tick /\ UNCHANGED samplerVars
  \/ \E list \in RuleLists : on_rules_update(list)
  \/ \E rates \in AgentRates : on_agent_response(rates)
  \/ \E service \in Services : set_resource(service)
  \/ \E th \in Threads :
       \/ \E trace \in Traces : sample_root(th, trace)
       \/ find_matching_rule(th)
       \/ InLimiter(th)
       \/ LimiterReturns(th)
       \/ ReadEffectiveRate(th)
       \/ UseAgentRate(th)
       \/ Answer(th)

SamplerSpec == SamplerInit /\ [][SamplerNext]_allVars

-----------------------------------------------------------------------------
(* Properties *)

\* A decision is what the rules in force at some instant of the call say and,
\* where none of them matched, what the agent's rates at some instant say, for
\* the service of the resource, which stays the same (datadog_sampler.rs 388-464).
DecisionOfItsTime ==
  \A th \in Threads : call[th].pc = "decided" =>
    LET c == call[th]
    IN /\ c.service = resource
       /\ \E list \in seen[th].rules : FirstMatch(list, resource) = c.rule
       /\ c.rule # None =>
            /\ c.rate = c.rule.sample_rate /\ c.mechanism = RuleMechanism(c.rule)
            /\ c.is_keep => Sampled(c.rate, c.trace)
       /\ c.rule = None =>
            \E rates \in seen[th].agent :
              IF resource \in DOMAIN rates
              THEN c.mechanism = "AGENT" /\ c.is_keep = Sampled(rates[resource], c.trace)
              ELSE c.mechanism = "DEFAULT" /\ c.is_keep

\* A token is taken for a trace that is kept and for no other: the tokens
\* granted are the traces the rules kept and those on their way
\* (datadog_sampler.rs 413-426).
TokensBuyTraces ==
  LET underway == {th \in Threads : request[th].pc \in {"decided", "counted"}
                                    /\ request[th].allowed}
  IN granted = kept + Cardinality(underway)

\* The tags explain the decision to a backend that reads only them: the
\* priority has its sign, one rate at most is named, and by that rate the trace
\* is kept, unless the tag of the limiter is there (datadog_sampler.rs 484-525).
TagsExplainDecision ==
  \A th \in Threads : call[th].pc = "decided" =>
    LET tags == to_dd_sampling_tags(call[th])
        rate == IF tags.agent_psr # None THEN tags.agent_psr
                ELSE IF tags.rule_psr # None THEN tags.rule_psr ELSE Parts
        keep == tags.sampling_priority \in {"AUTO_KEEP", "USER_KEEP"}
    IN /\ keep = call[th].is_keep
       /\ tags.agent_psr = None \/ tags.rule_psr = None
       /\ keep = (Sampled(rate, call[th].trace) /\ tags.limit_psr = None)

\* What a call answers can be explained from one moment of its environment, its
\* tags say it, and a token was spent where the limiter let it through.
DecisionExplained ==
  /\ DecisionOfItsTime
  /\ TokensBuyTraces
  /\ TagsExplainDecision

=============================================================================
