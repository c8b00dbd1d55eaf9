----------------------------- MODULE RuleMatching -----------------------------
(***************************************************************************)
(* Whether a sampling rule matches a span: SamplingRule::new and matches   *)
(* of dd-trace-sampling/src/datadog_sampler.rs, on what a span has before  *)
(* it is sampled (PreSampledSpan).  The tags of a rule are a hash map: the *)
(* loop may take them in any order and returns at the first that fails.    *)
(*                                                                         *)
(* A pattern is the one text it matches or AnyText; GlobMatcher has the    *)
(* language.  A text is a tuple of parts as in OtelUtil.  The value of an  *)
(* attribute has its kind, what it is printed as, its number if that is an *)
(* i64, whether it is whole (and not beyond i64) once it is an f64, and    *)
(* what it is printed as then.                                             *)
(***************************************************************************)
EXTENDS OtelUtil

CONSTANTS
  Configs,     \* rules as configured: name, service, resource, tags
  Spans,       \* spans as OtelUtil has them
  HttpKeys     \* the keys that start with "http."

\* Attributes are a list of values of known kinds; the keys of the Datadog
\* convention that stand for attributes of HTTP start with "http.".
ASSUME MatchingAssumption ==
  /\ \A s \in Spans : \A i \in DOMAIN s.attrs :
       i \in Nat /\ s.attrs[i].kind \in {"i64", "f64", "string", "bool", "other"}
  /\ \A key \in DOMAIN http_mappings : http_mappings[key] \in HttpKeys

VARIABLES
  config, span,
  rule,        \* SamplingRule: the patterns that have a matcher
  left,        \* tags the loop has still to visit
  verdict

ruleVars == <<config, span, rule, left, verdict>>

NO_RULE == <<"">>
AnyText == <<"*">>
StatusKeys == {"http.status_code", "http.response.status_code"}

Matches(pattern, text) == pattern \in {AnyText, text}

\* matcher_from_rule: no pattern, no matcher.
Given(pattern) == pattern # NO_RULE

TagMatchers(tags) == [k \in {j \in DOMAIN tags : Given(tags[j])} |-> tags[k]]

IsFloat(value) == value.kind \in {"i64", "f64"}

\* Numbers go through f64; other values than texts and booleans match nothing.
match_attribute_value(value, pattern) ==
  IF IsFloat(value)
  THEN IF value.whole THEN Matches(pattern, <<value.float>>) ELSE pattern = AnyText
  ELSE value.kind \in {"string", "bool"} /\ Matches(pattern, <<value.str>>)

\* The code as an i64; 0 stands for none.
match_http_status_code_rule(pattern) ==
  LET code == get_otel_status_code(span)
      text == ToString(code)
  IN code # 0 /\ match_attribute_value(
       [kind |-> "i64", str |-> text, num |-> code, whole |-> TRUE, float |-> text], pattern)

\* The first attribute that has the key of the rule
DirectMatch(key, pattern) ==
  /\ has_attr(span, key)
  /\ match_attribute_value(AttrFirst(span, key), pattern)

\* Any attribute that becomes the key
MappedMatch(key, pattern) ==
  \E i \in DOMAIN span.attrs :
    /\ get_dd_key_for_otlp_attribute(span.attrs[i].key) = key
    /\ match_attribute_value(span.attrs[i], pattern)

\* Mutant: a status under its new key is an attribute like others.
OneStatusKey(key, pattern) ==
  IF key = "http.status_code" THEN match_http_status_code_rule(pattern)
  ELSE DirectMatch(key, pattern) \/ (key \in HttpKeys /\ MappedMatch(key, pattern))

TagMatches(key, pattern) ==
  IF key \in StatusKeys THEN match_http_status_code_rule(pattern)
  ELSE DirectMatch(key, pattern) \/ (key \in HttpKeys /\ MappedMatch(key, pattern))

-----------------------------------------------------------------------------
(* A rule is made and asked *)

RuleInit ==
  /\ config \in Configs /\ span \in Spans
  /\ rule = [tags |-> TagMatchers(config.tags)]
  /\ left = {} /\ verdict = "none"

NamesMatch ==
  /\ Given(config.name) => Matches(config.name, get_otel_operation_name_v2(span))
  /\ Given(config.service) => Matches(config.service, <<get_otel_service(span)>>)
  /\ Given(config.resource) => Matches(config.resource, get_otel_resource_v2(span))

matches ==
  /\ verdict = "none"
  /\ IF NamesMatch
     THEN verdict' = "tags" /\ left' = DOMAIN rule.tags
     ELSE verdict' = "no" /\ UNCHANGED left
  /\ UNCHANGED <<config, span, rule>>

\* Mutant: a rule with tags matches when its last tag does.
LastTag(key) ==
  /\ verdict \in {"tags", "no"} /\ key \in left
  /\ left' = left \ {key}
  /\ verdict' = IF TagMatches(key, rule.tags[key]) THEN "tags" ELSE "no"
  /\ UNCHANGED <<config, span, rule>>

NextTag(key) ==
  /\ verdict = "tags" /\ key \in left
  /\ left' = left \ {key}
  /\ verdict' = IF TagMatches(key, rule.tags[key]) THEN "tags" ELSE "no"
  /\ UNCHANGED <<config, span, rule>>

Matched ==
  /\ verdict = "tags" /\ left = {}
  /\ verdict' = "yes"
  /\ UNCHANGED <<config, span, rule, left>>

RuleNext == matches \/ (\E key \in left : NextTag(key)) \/ Matched

RuleSpec == RuleInit /\ [][RuleNext]_ruleVars

-----------------------------------------------------------------------------
\* The attributes a tag of a rule is about: those that become the tag, and the
\* first that has its name.
About(key) ==
  {i \in DOMAIN span.attrs : get_dd_key_for_otlp_attribute(span.attrs[i].key) = key /\ key \in HttpKeys}
    \cup {i \in Indices(span, key) : \A j \in Indices(span, key) : i <= j}

Fits(key, pattern) ==
  IF key \in StatusKeys
  THEN get_otel_status_code(span) # 0 /\ pattern \in {AnyText, <<ToString(get_otel_status_code(span))>>}
  ELSE \E i \in About(key) :
         /\ span.attrs[i].kind # "other"
         /\ \/ pattern = AnyText
            \/ /\ IsFloat(span.attrs[i]) => span.attrs[i].whole
               /\ pattern = <<IF IsFloat(span.attrs[i]) THEN span.attrs[i].float
                              ELSE span.attrs[i].str>>

\* A rule matches iff all its patterns that are not empty fit, in whatever order
\* the map gives the tags and wherever the loop returns; a fraction fits
\* wildcards only (datadog_sampler.rs 125-205).
VerdictExplained ==
  verdict \in {"yes", "no"} =>
    (verdict = "yes" <=>
       /\ NamesMatch
       /\ \A key \in DOMAIN config.tags :
            config.tags[key] = NO_RULE \/ Fits(key, config.tags[key]))

\* A rule that names an attribute by its Datadog key matches what it would
\* match by the key of OpenTelemetry, the two keys of the status included
\* (datadog_sampler.rs 165-200).
EitherKey ==
  \A key \in DOMAIN rule.tags \cap DOMAIN http_mappings :
    TagMatches(key, rule.tags[key]) => TagMatches(http_mappings[key], rule.tags[key])

\* Both, for every rule and span (datadog_sampler.rs 113-205).
RuleDecided == VerdictExplained /\ EitherKey
=============================================================================
