----------------------------- MODULE MappingProofs -----------------------------
(***************************************************************************)
(* A rule of the sampler decides by what it says of the span, for every    *)
(* rule and every span, in whatever order its tags are visited; and the    *)
(* Datadog span that is made of a span has what its places say, for every  *)
(* span, resource, scope and configuration.  The globs in those rules are  *)
(* decided by a loop that remembers one star, for every pattern, subject   *)
(* and number of threads that share the cache.                             *)
(***************************************************************************)
EXTENDS SpanMapping, RuleMatching, GlobMatcher, FiniteLemmas, SequenceTheorems

-----------------------------------------------------------------------------
(* Keys *)

\* What a key of the table stands for.
LEMMA HttpMapping ==
  \A k \in DOMAIN http_mappings :
    /\ \E p \in HttpKeyPairs : p[1] = k /\ http_mappings[k] = p[2]
    /\ get_dd_key_for_otlp_attribute(k) = http_mappings[k]
BY DEF http_mappings, get_dd_key_for_otlp_attribute

\* A key of the table that an attribute becomes stands for itself.
LEMMA MappedToMapped ==
  ASSUME NEW k, NEW key \in DOMAIN http_mappings, get_dd_key_for_otlp_attribute(k) = key
  PROVE  http_mappings[key] = key
<1>1. CASE k \in DOMAIN http_mappings
  BY <1>1, HttpMapping DEF HttpKeyPairs
<1>2. CASE k \notin DOMAIN http_mappings /\ k \in DOMAIN HeaderMapping
  <2>1. key = "http.request.headers.x"
    BY <1>2 DEF get_dd_key_for_otlp_attribute, HeaderMapping
  <2> QED BY <2>1, HttpMapping DEF HttpKeyPairs
<1>3. CASE k \notin DOMAIN http_mappings /\ k \notin DOMAIN HeaderMapping
  <2>1. key \in {k, ""}
    BY <1>3 DEF get_dd_key_for_otlp_attribute
  <2>2. key = ""
    BY <1>3, <2>1
  <2> DEFINE Keys == {"client.address", "http.response.body.size", "http.response.status_code",
                      "http.request.body.size", "http.request.header.referrer",
                      "http.request.method", "http.route", "network.protocol.version",
                      "server.address", "url.full", "user_agent.original"}
  <2>3. (\A p \in HttpKeyPairs : p[1] \in Keys) /\ \A k1 \in Keys : k1 # ""
    BY DEF HttpKeyPairs
  <2> QED BY <2>2, <2>3, HttpMapping
<1> QED BY <1>1, <1>2, <1>3

-----------------------------------------------------------------------------
(* A tag of a rule *)

\* Of the attributes with a key there is a first.
LEMMA FirstIndex ==
  ASSUME span \in Spans, NEW key, has_attr(span, key)
  PROVE  \E i \in Indices(span, key) :
           /\ \A j \in Indices(span, key) : i <= j
           /\ AttrFirst(span, key) = span.attrs[i]
<1>1. Indices(span, key) \subseteq Nat /\ Indices(span, key) # {}
  BY MatchingAssumption DEF Indices, has_attr
<1>2. \E i \in Indices(span, key) : \A j \in Indices(span, key) : i <= j
  BY <1>1, LeastNumber
<1> QED BY <1>2 DEF AttrFirst

\* A tag is compared with what fits it, and with nothing else.
LEMMA TagFits ==
  ASSUME span \in Spans, NEW key, NEW pattern
  PROVE  TagMatches(key, pattern) <=> Fits(key, pattern)
<1> DEFINE Fit(i) == /\ span.attrs[i].kind # "other"
                     /\ \/ pattern = AnyText
                        \/ /\ IsFloat(span.attrs[i]) => span.attrs[i].whole
                           /\ pattern = <<IF IsFloat(span.attrs[i]) THEN span.attrs[i].float
                                          ELSE span.attrs[i].str>>
<1>1. CASE key \in StatusKeys
  BY <1>1 DEF TagMatches, Fits, match_http_status_code_rule, match_attribute_value, IsFloat, Matches
<1>2. CASE key \notin StatusKeys
  <2>1. ASSUME NEW i \in DOMAIN span.attrs
        PROVE  match_attribute_value(span.attrs[i], pattern) <=> Fit(i)
    <3>1. span.attrs[i].kind \in {"i64", "f64", "string", "bool", "other"}
      BY MatchingAssumption
    <3> QED BY <3>1 DEF match_attribute_value, IsFloat, Matches
  <2>2. DirectMatch(key, pattern) <=>
          \E i \in Indices(span, key) : (\A j \in Indices(span, key) : i <= j) /\ Fit(i)
    <3>1. CASE has_attr(span, key)
      <4>1. PICK i \in Indices(span, key) : /\ \A j \in Indices(span, key) : i <= j
                                            /\ AttrFirst(span, key) = span.attrs[i]
        BY <3>1, FirstIndex
      <4>2. \A k \in Indices(span, key) : k \in Nat /\ k \in DOMAIN span.attrs
        BY MatchingAssumption DEF Indices
      <4>3. \A k \in Indices(span, key) : (\A j \in Indices(span, key) : k <= j) => k = i
        BY <4>1, <4>2
      <4>4. DirectMatch(key, pattern) <=> Fit(i)
        BY <2>1, <3>1, <4>1, <4>2 DEF DirectMatch
      <4> QED BY <4>1, <4>3, <4>4
    <3>2. CASE ~has_attr(span, key)
      BY <3>2 DEF DirectMatch, has_attr
    <3> QED BY <3>1, <3>2
  <2>3. (key \in HttpKeys /\ MappedMatch(key, pattern)) <=>
          \E i \in DOMAIN span.attrs :
            get_dd_key_for_otlp_attribute(span.attrs[i].key) = key /\ key \in HttpKeys /\ Fit(i)
    BY <2>1 DEF MappedMatch
  <2>4. Fits(key, pattern) <=> \E i \in About(key) : Fit(i)
    BY <1>2 DEF Fits
  <2>5. TagMatches(key, pattern) <=>
          DirectMatch(key, pattern) \/ (key \in HttpKeys /\ MappedMatch(key, pattern))
    BY <1>2 DEF TagMatches
  <2> HIDE DEF Fit
  <2> QED BY <2>2, <2>3, <2>4, <2>5 DEF About
<1> QED BY <1>1, <1>2

-----------------------------------------------------------------------------
(* The verdict *)

\* While the loop runs, what it has visited matches.
Visited ==
  /\ verdict = "tags" =>
       /\ NamesMatch /\ left \subseteq DOMAIN rule.tags
       /\ \A key \in DOMAIN rule.tags \ left : TagMatches(key, rule.tags[key])
  /\ verdict = "yes" => NamesMatch /\ \A key \in DOMAIN rule.tags : TagMatches(key, rule.tags[key])
  /\ verdict = "no" /\ NamesMatch => \E key \in DOMAIN rule.tags : ~TagMatches(key, rule.tags[key])

RuleInv ==
  /\ config \in Configs /\ span \in Spans
  /\ rule = [tags |-> TagMatchers(config.tags)]
  /\ verdict \in {"none", "tags", "yes", "no"}
  /\ Visited

\* What a rule and a span are asked for does not change on the way.
LEMMA SameQuestion ==
  ASSUME UNCHANGED <<config, span, rule>>
  PROVE  /\ NamesMatch' <=> NamesMatch
         /\ \A key, pattern : TagMatches(key, pattern)' <=> TagMatches(key, pattern)
<1>1. NamesMatch' <=> NamesMatch
  BY DEF NamesMatch
<1>2. ASSUME NEW key, NEW pattern
      PROVE  TagMatches(key, pattern)' <=> TagMatches(key, pattern)
  BY DEF TagMatches, match_http_status_code_rule, DirectMatch, MappedMatch
<1> QED BY <1>1, <1>2

LEMMA RuleStep == ASSUME RuleInv, [RuleNext]_ruleVars PROVE RuleInv'
<1> USE DEF RuleInv
<1>1. CASE matches
  BY <1>1, SameQuestion DEF matches, Visited
<1>2. ASSUME NEW key \in left, NextTag(key) PROVE RuleInv'
  BY <1>2, SameQuestion DEF NextTag, Visited
<1>3. CASE Matched
  BY <1>3, SameQuestion DEF Matched, Visited
<1>4. CASE UNCHANGED ruleVars
  BY <1>4, SameQuestion DEF ruleVars, Visited
<1> QED BY <1>1, <1>2, <1>3, <1>4 DEF RuleNext

LEMMA VerdictFollows == ASSUME RuleInv PROVE VerdictExplained
<1>1. DOMAIN rule.tags = {k \in DOMAIN config.tags : Given(config.tags[k])}
      /\ \A k \in DOMAIN rule.tags : rule.tags[k] = config.tags[k]
  BY DEF RuleInv, TagMatchers
<1>2. \A key, pattern : TagMatches(key, pattern) <=> Fits(key, pattern)
  BY TagFits DEF RuleInv
<1>3. (\A key \in DOMAIN rule.tags : TagMatches(key, rule.tags[key])) <=>
        \A key \in DOMAIN config.tags : config.tags[key] = NO_RULE \/ Fits(key, config.tags[key])
  BY <1>1, <1>2 DEF Given
<1> QED BY <1>3 DEF RuleInv, Visited, VerdictExplained

LEMMA EitherKeyFollows == ASSUME RuleInv PROVE EitherKey
<1> SUFFICES ASSUME NEW key \in DOMAIN rule.tags \cap DOMAIN http_mappings,
                    TagMatches(key, rule.tags[key])
             PROVE  TagMatches(http_mappings[key], rule.tags[key])
  BY DEF EitherKey
<1> DEFINE pattern == rule.tags[key]
           other == http_mappings[key]
<1>1. CASE key \in StatusKeys
  <2>1. key = "http.response.status_code" /\ other = "http.status_code"
    BY <1>1, HttpMapping DEF StatusKeys, HttpKeyPairs
  <2> QED BY <2>1 DEF TagMatches, StatusKeys
<1>2. CASE key \notin StatusKeys
  <2>1. other \notin StatusKeys
    BY <1>2, HttpMapping DEF StatusKeys, HttpKeyPairs
  <2>2. other \in HttpKeys
    BY MatchingAssumption
  <2>3. CASE DirectMatch(key, pattern)
    <3>1. PICK i \in Indices(span, key) : AttrFirst(span, key) = span.attrs[i]
      BY <2>3, FirstIndex DEF DirectMatch, RuleInv
    <3>2. get_dd_key_for_otlp_attribute(span.attrs[i].key) = other
      BY <3>1, HttpMapping DEF Indices
    <3>3. MappedMatch(other, pattern)
      BY <2>3, <3>1, <3>2 DEF DirectMatch, MappedMatch, Indices
    <3> QED BY <2>1, <2>2, <3>3 DEF TagMatches
  <2>4. CASE key \in HttpKeys /\ MappedMatch(key, pattern)
    <3>1. other = key
      BY <2>4, MappedToMapped DEF MappedMatch
    <3> QED BY <3>1
  <2> QED BY <1>2, <2>3, <2>4 DEF TagMatches
<1> QED BY <1>1, <1>2

\* A rule matches if and only if its names match and every tag of it that is not
\* empty fits an attribute, in whatever order the map gives the tags, and a tag
\* may be named by either key, for every rule and span
\* (datadog_sampler.rs 113-205).
THEOREM RulesAreDecided == RuleSpec => []RuleDecided
<1>1. RuleInit => RuleInv
  BY DEF RuleInit, RuleInv, Visited
<1>2. RuleInv /\ [RuleNext]_ruleVars => RuleInv'
  BY RuleStep
<1>3. RuleInv => RuleDecided
  BY VerdictFollows, EitherKeyFollows DEF RuleDecided
<1> QED BY <1>1, <1>2, <1>3, PTL DEF RuleSpec

-----------------------------------------------------------------------------
(* Tags *)

Has(tags, key, str) == key \in DOMAIN tags /\ tags[key] = str
Same(tags, more, key) ==
  (key \in DOMAIN tags <=> key \in DOMAIN more) /\ (key \in DOMAIN tags => tags[key] = more[key])

LEMMA NoTags == DOMAIN <<>> = {}
<1>1. <<>> \in Seq({}) /\ Len(<<>>) = 0
  OBVIOUS
<1> QED BY <1>1

LEMMA OverIs ==
  ASSUME NEW f, NEW g, NEW key
  PROVE  /\ key \in DOMAIN f => Has(Over(f, g), key, f[key])
         /\ key \notin DOMAIN f => Same(Over(f, g), g, key)
BY DEF Over, Has, Same

LEMMA PutIs ==
  ASSUME NEW tags, NEW key, NEW str
  PROVE  /\ Has(Put(tags, key, str), key, str)
         /\ \A other : other # key => Same(Put(tags, key, str), tags, other)
BY DEF Put, Single, Over, Has, Same

LEMMA FillIs ==
  ASSUME NEW tags, NEW key, NEW str
  PROVE  /\ IF key \in DOMAIN tags \/ str = "" THEN Same(Fill(tags, key, str), tags, key)
            ELSE Has(Fill(tags, key, str), key, str)
         /\ \A other : other # key => Same(Fill(tags, key, str), tags, other)
<1>1. Fill(tags, key, str) = IF key \in DOMAIN tags \/ str = "" THEN tags ELSE Put(tags, key, str)
  BY DEF Fill
<1>2. CASE key \in DOMAIN tags \/ str = ""
  BY <1>1, <1>2 DEF Same
<1>3. CASE ~(key \in DOMAIN tags \/ str = "")
  BY <1>1, <1>3, PutIs
<1> QED BY <1>2, <1>3

Convention == {"operation.name", "service.name", "resource.name", "span.type"}

\* No attribute becomes a tag that stands for a field of the span.
LEMMA NotConvention == ASSUME NEW k PROVE get_dd_key_for_otlp_attribute(k) \notin Convention
<1>1. CASE k \in DOMAIN http_mappings
  BY <1>1, HttpMapping DEF HttpKeyPairs, Convention
<1>2. CASE k \notin DOMAIN http_mappings /\ k \in DOMAIN HeaderMapping
  BY <1>2 DEF get_dd_key_for_otlp_attribute, HeaderMapping, Convention
<1>3. CASE k \notin DOMAIN http_mappings /\ k \notin DOMAIN HeaderMapping
  <2>1. CASE is_datadog_convention_key(k)
    <3>1. get_dd_key_for_otlp_attribute(k) = ""
      BY <1>3, <2>1 DEF get_dd_key_for_otlp_attribute
    <3> QED BY <3>1 DEF Convention
  <2>2. CASE ~is_datadog_convention_key(k)
    BY <1>3, <2>2 DEF get_dd_key_for_otlp_attribute, is_datadog_convention_key, Convention
  <2> QED BY <2>1, <2>2
<1> QED BY <1>1, <1>2, <1>3

PriorityKeys == {"sampling.priority", "_sampling_priority_v1"}

\* A priority keeps its key, and nothing else becomes one.
LEMMA PriorityKey ==
  ASSUME NEW k
  PROVE  /\ get_dd_key_for_otlp_attribute(k) \in PriorityKeys <=> k \in PriorityKeys
         /\ k \in PriorityKeys => get_dd_key_for_otlp_attribute(k) = k
<1>1. CASE k \in DOMAIN http_mappings
  BY <1>1, HttpMapping DEF HttpKeyPairs, PriorityKeys
<1>2. CASE k \notin DOMAIN http_mappings /\ k \in DOMAIN HeaderMapping
  BY <1>2 DEF get_dd_key_for_otlp_attribute, HeaderMapping, PriorityKeys
<1>3. CASE k \notin DOMAIN http_mappings /\ k \notin DOMAIN HeaderMapping
  <2>1. CASE is_datadog_convention_key(k)
    <3>1. get_dd_key_for_otlp_attribute(k) = ""
      BY <1>3, <2>1 DEF get_dd_key_for_otlp_attribute
    <3>2. k \notin PriorityKeys
      BY <2>1 DEF is_datadog_convention_key, DatadogPrefixed, PriorityKeys
    <3> QED BY <3>1, <3>2 DEF PriorityKeys
  <2>2. CASE ~is_datadog_convention_key(k)
    BY <1>3, <2>2 DEF get_dd_key_for_otlp_attribute
  <2> QED BY <2>1, <2>2
<1> QED BY <1>1, <1>2, <1>3

-----------------------------------------------------------------------------
(* Writing one attribute *)

Fields == {"service", "name", "resource", "type", "meta", "metrics", "error"}

SameBut(d, e, fields) == DOMAIN e = DOMAIN d /\ \A f \in Fields \ fields : e[f] = d[f]

\* A text becomes a tag of the text, unless one that is to be kept is there; the
\* one that does not is a number.
LEMMA TextWritten ==
  ASSUME NEW d, DOMAIN d = Fields, NEW key, NEW str, NEW e,
         e = set_meta_otlp_with_semconv_mappings(d, key, str)
  PROVE  /\ SameBut(d, e, {"meta", "metrics"})
         /\ Same(e.metrics, d.metrics, "_sampling_priority_v1")
         /\ \A tag : tag \notin {"", "analytics.event"} =>
              IF /\ get_dd_key_for_otlp_attribute(key) = tag
                 /\ ~(is_meta_key(tag) /\ Get(d.meta, tag) # "")
              THEN Has(e.meta, tag, str)
              ELSE Same(e.meta, d.meta, tag)
<1> DEFINE mapped == get_dd_key_for_otlp_attribute(key)
<1>1. CASE mapped = "" \/ (is_meta_key(mapped) /\ Get(d.meta, mapped) # "")
  <2>1. e = d
    BY <1>1 DEF set_meta_otlp_with_semconv_mappings
  <2> QED BY <1>1, <2>1 DEF SameBut, Same
<1>2. CASE ~(mapped = "" \/ (is_meta_key(mapped) /\ Get(d.meta, mapped) # ""))
  <2>1. e = set_meta_otlp(d, mapped, str)
    BY <1>2 DEF set_meta_otlp_with_semconv_mappings
  <2>2. mapped \notin Convention
    BY NotConvention
  <2> HIDE DEF mapped
  <2>3. CASE mapped = "analytics.event"
    <3>1. e = IF str \in DOMAIN Bools
              THEN [d EXCEPT !.metrics = Put(d.metrics, "_dd1.sr.eausr", Bools[str])]
              ELSE d
      BY <2>1, <2>3 DEF set_meta_otlp
    <3>2. SameBut(d, e, {"metrics"})
      BY <3>1 DEF SameBut, Fields
    <3>3. Same(e.metrics, d.metrics, "_sampling_priority_v1")
      <4>1. CASE str \in DOMAIN Bools
        <5>1. e.metrics = Put(d.metrics, "_dd1.sr.eausr", Bools[str])
          BY <3>1, <4>1 DEF Fields
        <5> QED BY <5>1, PutIs
      <4>2. CASE str \notin DOMAIN Bools
        BY <3>1, <4>2 DEF Same
      <4> QED BY <4>1, <4>2
    <3>4. \A tag : Same(e.meta, d.meta, tag)
      BY <3>2 DEF SameBut, Same, Fields
    <3> QED BY <2>3, <3>2, <3>3, <3>4 DEF SameBut, mapped
  <2>4. CASE mapped # "analytics.event"
    <3>1. e = [d EXCEPT !.meta = Put(d.meta, mapped, str)]
      BY <2>1, <2>2, <2>4 DEF set_meta_otlp, Convention
    <3>2. SameBut(d, e, {"meta"}) /\ e.meta = Put(d.meta, mapped, str)
      BY <3>1 DEF SameBut, Fields
    <3>3. /\ Has(e.meta, mapped, str)
          /\ \A tag : tag # mapped => Same(e.meta, d.meta, tag)
      BY <3>2, PutIs
    <3>4. Same(e.metrics, d.metrics, "_sampling_priority_v1")
      BY <3>2 DEF SameBut, Same, Fields
    <3> QED BY <1>2, <3>2, <3>3, <3>4 DEF SameBut, mapped
  <2> QED BY <2>3, <2>4
<1> QED BY <1>1, <1>2

\* A number becomes a metric, and the one that names a priority becomes it.
LEMMA NumberWritten ==
  ASSUME NEW d, DOMAIN d = Fields, NEW key, NEW str, NEW e,
         e = set_metric_otlp_with_semconv_mappings(d, key, str)
  PROVE  /\ SameBut(d, e, {"metrics"})
         /\ IF key \in PriorityKeys THEN Has(e.metrics, "_sampling_priority_v1", str)
            ELSE Same(e.metrics, d.metrics, "_sampling_priority_v1")
<1> DEFINE mapped == get_dd_key_for_otlp_attribute(key)
           metric == IF mapped = "sampling.priority" THEN "_sampling_priority_v1" ELSE mapped
<1>1. (mapped \in PriorityKeys <=> key \in PriorityKeys) /\ (key \in PriorityKeys => mapped = key)
  BY PriorityKey
<1>2. metric = "_sampling_priority_v1" <=> mapped \in PriorityKeys
  BY DEF PriorityKeys
<1>3. CASE mapped = "" \/ (is_meta_key(mapped) /\ mapped \in DOMAIN d.metrics)
  <2>1. e = d
    BY <1>3 DEF set_metric_otlp_with_semconv_mappings
  <2>2. mapped \notin PriorityKeys
    BY <1>3 DEF PriorityKeys, is_meta_key, MetaKeys
  <2> QED BY <1>1, <2>1, <2>2 DEF SameBut, Same
<1>4. CASE ~(mapped = "" \/ (is_meta_key(mapped) /\ mapped \in DOMAIN d.metrics))
  <2>1. e = [d EXCEPT !.metrics = Put(d.metrics, metric, str)]
    BY <1>4 DEF set_metric_otlp_with_semconv_mappings
  <2> HIDE DEF metric
  <2>2. SameBut(d, e, {"metrics"}) /\ e.metrics = Put(d.metrics, metric, str)
    BY <2>1 DEF SameBut, Fields
  <2>3. /\ Has(e.metrics, metric, str)
        /\ \A other : other # metric => Same(e.metrics, d.metrics, other)
    BY <2>2, PutIs
  <2> QED BY <1>1, <1>2, <2>2, <2>3
<1> QED BY <1>3, <1>4

-----------------------------------------------------------------------------
(* What a tag is once some of its places are read *)

\* The texts that the keys of the resource give a tag, and the attributes that do
ResourceTexts(s, tag, keys) ==
  {s.res[k].str : k \in {j \in keys : get_dd_key_for_otlp_attribute(j) = tag}}

Own(s, tag, places) ==
  {i \in places : /\ s.attrs[i].key \notin DatadogPrefixed /\ ~s.attrs[i].numeric
                  /\ get_dd_key_for_otlp_attribute(s.attrs[i].key) = tag}

Empty == ""

LEMMA GetIs ==
  ASSUME NEW tags, NEW key
  PROVE  Get(tags, key) = IF key \in DOMAIN tags THEN tags[key] ELSE Empty
BY DEF Get, Empty

\* A tag the semantics know, and any other tag: resource has the texts that were
\* read, scope the attributes of the scope, own the places that were read.
Known(s, tag, meta, resource, scope, release, own, env) ==
  LET scoped   == tag \in DOMAIN scope
      semantic == get_attr_str(s, DD_SEMANTICS_KEY_TO_META_KEY[tag])
      telling  == {i \in own : s.attrs[i].str # Empty}
  IN IF scoped /\ scope[tag] # Empty THEN Has(meta, tag, scope[tag])
     ELSE IF ~scoped /\ semantic # Empty THEN Has(meta, tag, semantic)
     ELSE IF ~scoped /\ resource \ {Empty} # {}
     THEN \E str \in resource \ {Empty} : Has(meta, tag, str)
     ELSE IF ~scoped /\ resource = {} /\ release # Empty THEN Has(meta, tag, release)
     ELSE IF telling # {}
     THEN \E i \in telling : (\A j \in telling : i <= j) /\ Has(meta, tag, s.attrs[i].str)
     ELSE IF ~scoped /\ resource = {} /\ own = {}
     THEN IF env # Empty THEN Has(meta, tag, env) ELSE tag \notin DOMAIN meta
     ELSE Has(meta, tag, Empty)

Other(s, tag, meta, resource, scope, own) ==
  IF own # {} THEN \E i \in own : (\A j \in own : j <= i) /\ Has(meta, tag, s.attrs[i].str)
  ELSE IF tag \in DOMAIN scope THEN Has(meta, tag, scope[tag])
  ELSE IF resource # {} THEN \E str \in resource : Has(meta, tag, str)
  ELSE tag \notin DOMAIN meta

LEMMA KnownSame ==
  ASSUME NEW s, NEW tag, NEW meta, NEW more, Same(more, meta, tag),
         NEW resource, NEW scope, NEW release, NEW own, NEW env,
         Known(s, tag, meta, resource, scope, release, own, env)
  PROVE  Known(s, tag, more, resource, scope, release, own, env)
<1>1. \A str : Has(meta, tag, str) => Has(more, tag, str)
  BY DEF Has, Same
<1>2. tag \notin DOMAIN meta => tag \notin DOMAIN more
  BY DEF Same
<1> QED BY <1>1, <1>2 DEF Known

LEMMA OtherSame ==
  ASSUME NEW s, NEW tag, NEW meta, NEW more, Same(more, meta, tag),
         NEW resource, NEW scope, NEW own, Other(s, tag, meta, resource, scope, own)
  PROVE  Other(s, tag, more, resource, scope, own)
<1>1. \A str : Has(meta, tag, str) => Has(more, tag, str)
  BY DEF Has, Same
<1>2. tag \notin DOMAIN meta => tag \notin DOMAIN more
  BY DEF Same
<1> QED BY <1>1, <1>2 DEF Other

Adds(wider, set, x) == wider = set \cup {x}

\* One more text of the resource
LEMMA KnownResource ==
  ASSUME NEW s, NEW tag, NEW meta, NEW more, NEW str, NEW resource, NEW wider,
         Adds(wider, resource, str),
         Known(s, tag, meta, resource, <<>>, "", {}, ""),
         IF Get(meta, tag) # "" THEN Same(more, meta, tag) ELSE Has(more, tag, str)
  PROVE  Known(s, tag, more, wider, <<>>, "", {}, "")
<1> DEFINE semantic == get_attr_str(s, DD_SEMANTICS_KEY_TO_META_KEY[tag])
<1>1. DOMAIN <<>> = {}
  BY NoTags
<1>2. IF semantic # "" THEN Has(meta, tag, semantic)
      ELSE IF resource \ {""} # {} THEN \E text \in resource \ {""} : Has(meta, tag, text)
      ELSE IF resource = {} THEN tag \notin DOMAIN meta ELSE Has(meta, tag, "")
  BY <1>1 DEF Known, Empty
<1>3. IF semantic # "" THEN Has(more, tag, semantic)
      ELSE IF wider \ {""} # {}
      THEN \E text \in wider \ {""} : Has(more, tag, text)
      ELSE Has(more, tag, "")
  <2> HIDE DEF semantic
  <2>1. CASE Get(meta, tag) # ""
    <3>1. \A text : Has(meta, tag, text) => text # "" /\ Has(more, tag, text)
      BY <2>1 DEF Get, Has, Same
    <3>2. tag \in DOMAIN meta
      BY <2>1 DEF Get
    <3> QED BY <1>2, <3>1, <3>2 DEF Adds
  <2>2. CASE Get(meta, tag) = ""
    <3>1. \A text : Has(meta, tag, text) => text = ""
      BY <2>2 DEF Get, Has
    <3>2. semantic = "" /\ resource \ {""} = {}
      BY <1>2, <3>1
    <3>3. Has(more, tag, str)
      BY <2>2
    <3> QED BY <3>2, <3>3 DEF Adds
  <2> QED BY <2>1, <2>2
<1>4. wider # {}
  BY DEF Adds
<1> QED BY <1>1, <1>3, <1>4 DEF Known, Empty

LEMMA OtherResource ==
  ASSUME NEW s, NEW tag, NEW meta, NEW more, NEW str, NEW resource, NEW wider,
         Adds(wider, resource, str),
         Other(s, tag, meta, resource, <<>>, {}), Has(more, tag, str)
  PROVE  Other(s, tag, more, wider, <<>>, {})
<1>1. str \in wider
  BY DEF Adds
<1> QED BY <1>1, NoTags DEF Other

\* The scope, and the version of the resource if nothing has set it
LEMMA KnownScope ==
  ASSUME NEW s, NEW tag, NEW meta, NEW more, NEW resource, NEW scope, NEW release,
         Known(s, tag, meta, resource, <<>>, "", {}, ""),
         IF tag \in DOMAIN scope THEN Has(more, tag, scope[tag])
         ELSE IF tag \in DOMAIN meta \/ release = "" THEN Same(more, meta, tag)
         ELSE Has(more, tag, release)
  PROVE  Known(s, tag, more, resource, scope, release, {}, "")
<1> DEFINE semantic == get_attr_str(s, DD_SEMANTICS_KEY_TO_META_KEY[tag])
<1>1. DOMAIN <<>> = {}
  BY NoTags
<1>2. IF semantic # "" THEN Has(meta, tag, semantic)
      ELSE IF resource \ {""} # {} THEN \E text \in resource \ {""} : Has(meta, tag, text)
      ELSE IF resource = {} THEN tag \notin DOMAIN meta ELSE Has(meta, tag, "")
  BY <1>1 DEF Known, Empty
<1>3. IF tag \in DOMAIN scope
      THEN Has(more, tag, scope[tag])
      ELSE IF semantic # "" THEN Has(more, tag, semantic)
      ELSE IF resource \ {""} # {} THEN \E text \in resource \ {""} : Has(more, tag, text)
      ELSE IF resource = {}
      THEN IF release # "" THEN Has(more, tag, release) ELSE tag \notin DOMAIN more
      ELSE Has(more, tag, "")
  <2> HIDE DEF semantic
  <2>1. CASE tag \in DOMAIN scope
    BY <2>1
  <2>2. CASE tag \notin DOMAIN scope /\ tag \in DOMAIN meta
    <3>1. \A text : Has(meta, tag, text) => Has(more, tag, text)
      BY <2>2 DEF Has, Same
    <3> QED BY <1>2, <2>2, <3>1
  <2>3. CASE tag \notin DOMAIN scope /\ tag \notin DOMAIN meta
    <3>1. semantic = "" /\ resource = {}
      BY <1>2, <2>3 DEF Has
    <3> QED BY <2>3, <3>1 DEF Same
  <2> QED BY <2>1, <2>2, <2>3
<1> QED BY <1>3 DEF Known, Empty

LEMMA OtherScope ==
  ASSUME NEW s, NEW tag, NEW meta, NEW more, NEW resource, NEW scope,
         Other(s, tag, meta, resource, <<>>, {}),
         IF tag \in DOMAIN scope THEN Has(more, tag, scope[tag]) ELSE Same(more, meta, tag)
  PROVE  Other(s, tag, more, resource, scope, {})
<1>1. \A str : tag \notin DOMAIN scope /\ Has(meta, tag, str) => Has(more, tag, str)
  BY DEF Has, Same
<1>2. DOMAIN <<>> = {}
  BY NoTags
<1> QED BY <1>1, <1>2 DEF Other, Same

\* One more attribute, after those that were read
LEMMA KnownOwn ==
  ASSUME NEW s, NEW tag, NEW meta, NEW more, NEW resource, NEW scope, NEW release, NEW own,
         NEW i \in Nat, \A j \in own : j \in Nat /\ j < i,
         NEW wider, Adds(wider, own, i),
         Known(s, tag, meta, resource, scope, release, own, Empty),
         IF Get(meta, tag) # Empty THEN Same(more, meta, tag) ELSE Has(more, tag, s.attrs[i].str)
  PROVE  Known(s, tag, more, resource, scope, release, wider, Empty)
<1> DEFINE scoped   == tag \in DOMAIN scope
           semantic == get_attr_str(s, DD_SEMANTICS_KEY_TO_META_KEY[tag])
           telling  == {j \in own : s.attrs[j].str # Empty}
           more_telling == {j \in wider : s.attrs[j].str # Empty}
           before == \/ scoped /\ scope[tag] # Empty
                     \/ ~scoped /\ (\/ semantic # Empty
                                    \/ resource \ {Empty} # {}
                                    \/ resource = {} /\ release # Empty)
<1>1. more_telling = IF s.attrs[i].str = Empty THEN telling ELSE telling \cup {i}
  BY DEF Adds
<1>2. CASE before
  <2>1. \A text : text # Empty /\ Has(meta, tag, text) => Has(more, tag, text)
    BY GetIs DEF Has, Same
  <2> QED BY <1>2, <2>1 DEF Known
<1>3. CASE ~before /\ telling # {}
  <2>1. PICK k \in telling : (\A j \in telling : k <= j) /\ Has(meta, tag, s.attrs[k].str)
    BY <1>3 DEF Known
  <2>2. Get(meta, tag) # Empty /\ Has(more, tag, s.attrs[k].str)
    BY <2>1, GetIs DEF Has, Same
  <2>3. k \in more_telling /\ \A j \in more_telling : k <= j
    <3>1. k \in Nat /\ k < i /\ k \in more_telling
      BY DEF Adds
    <3>2. \A j \in more_telling : j \in telling \/ j = i
      BY DEF Adds
    <3> HIDE DEF telling, more_telling
    <3>3. ASSUME NEW j \in more_telling PROVE k <= j
      <4>1. CASE j \in telling
        BY <2>1, <4>1
      <4>2. CASE j = i
        BY <3>1, <4>2
      <4> QED BY <3>2, <4>1, <4>2
    <3> QED BY <3>1, <3>3
  <2> QED BY <1>3, <2>2, <2>3 DEF Known
<1>4. CASE ~before /\ telling = {}
  <2>1. Get(meta, tag) = Empty
    BY <1>4, GetIs DEF Known, Has
  <2>2. Has(more, tag, s.attrs[i].str)
    BY <2>1
  <2>3. CASE s.attrs[i].str = Empty
    <3>1. more_telling = {} /\ wider # {}
      BY <1>1, <1>4, <2>3 DEF Adds
    <3>2. Has(more, tag, Empty)
      BY <2>2, <2>3
    <3>3. ~before
      BY <1>4
    <3>4. {j \in wider : s.attrs[j].str # Empty} = {}
      BY <3>1
    <3> HIDE DEF telling, more_telling
    <3> QED BY <3>1, <3>2, <3>3, <3>4 DEF Known
  <2>4. CASE s.attrs[i].str # Empty
    <3>1. i \in more_telling /\ \A j \in more_telling : i <= j
      <4>1. \A j \in more_telling : j \in telling \/ j = i
        BY DEF Adds
      <4>2. i <= i
        OBVIOUS
      <4>3. i \in more_telling
        BY <2>4 DEF Adds
      <4>4. telling = {}
        BY <1>4
      <4> HIDE DEF telling, more_telling
      <4> QED BY <4>1, <4>2, <4>3, <4>4
    <3> QED BY <1>4, <2>2, <3>1 DEF Known
  <2> QED BY <2>3, <2>4
<1> QED BY <1>2, <1>3, <1>4

LEMMA OtherOwn ==
  ASSUME NEW s, NEW tag, NEW meta, NEW more, NEW resource, NEW scope, NEW own,
         NEW i \in Nat, \A j \in own : j \in Nat /\ j < i,
         NEW wider, Adds(wider, own, i),
         Has(more, tag, s.attrs[i].str)
  PROVE  Other(s, tag, more, resource, scope, wider)
<1>1. i \in wider /\ \A j \in wider : j <= i
  BY DEF Adds
<1> QED BY <1>1 DEF Other

\* The environment, if nothing has set it
LEMMA KnownEnv ==
  ASSUME NEW s, NEW tag, NEW meta, NEW more, NEW resource, NEW scope, NEW own, NEW env,
         Known(s, tag, meta, resource, scope, "", own, ""),
         IF tag \in DOMAIN meta \/ env = "" THEN Same(more, meta, tag) ELSE Has(more, tag, env)
  PROVE  Known(s, tag, more, resource, scope, "", own, env)
<1>1. CASE tag \in DOMAIN meta
  <2>1. Known(s, tag, more, resource, scope, "", own, "")
    BY <1>1, KnownSame
  <2>2. tag \in DOMAIN more
    BY <1>1 DEF Same
  <2> QED BY <2>1, <2>2 DEF Known, Empty
<1>2. CASE tag \notin DOMAIN meta
  BY <1>2 DEF Known, Empty, Has, Same
<1> QED BY <1>1, <1>2


-----------------------------------------------------------------------------
(* The inductive invariant *)

Service(s) == Explicit(get_attr_str(s, "datadog.service"), get_otel_service(s), "")
Name(s) == Explicit(Word(get_attr_str(s, "datadog.name")), get_otel_operation_name_v2(s), <<>>)
Resource(s) ==
  Explicit(Word(get_attr_str(s, "datadog.resource")), get_otel_resource_v2(s), <<>>)
Type(s) == Explicit(get_attr_str(s, "datadog.type"), get_otel_span_type(s), "")

\* What the first step says of the service, the name, the resource and the type
\* stays, and the service is named after the configuration at last.
AgentInv ==
  /\ pc # "minimal" =>
       dd.name = Name(input) /\ dd.resource = Resource(input) /\ dd.type = Type(input)
  /\ pc \notin {"minimal", "done"} => dd.service = Service(input)
  /\ pc = "done" => dd.service = IF Service(input) = DEFAULT_OTLP_SERVICE_NAME
                                 THEN input.config.service ELSE Service(input)

Release(s, tag) == IF tag = "version" THEN ResStr(s, "service.version") ELSE Empty
Environment(s, tag) == IF tag = "env" THEN get_otel_env(s) ELSE Empty

MetaIs(s, meta, keys, scope, released, places, filled) ==
  /\ \A tag \in Tags : Other(s, tag, meta, ResourceTexts(s, tag, keys), scope, Own(s, tag, places))
  /\ \A tag \in {"env", "version"} :
       Known(s, tag, meta, ResourceTexts(s, tag, keys), scope,
             IF released THEN Release(s, tag) ELSE Empty, Own(s, tag, places),
             IF filled THEN Environment(s, tag) ELSE Empty)

\* The tags are what the places say that are read by then.
MetaInv ==
  /\ pc = "semantics" => \A tag \in Tags \cup {"env", "version"} : tag \notin DOMAIN dd.meta
  /\ pc = "resource" =>
       MetaIs(input, dd.meta, DOMAIN input.res \ todo, <<>>, FALSE, {}, FALSE)
  /\ pc = "attributes" =>
       MetaIs(input, dd.meta, DOMAIN input.res, input.scope, TRUE, DOMAIN input.attrs \ todo, FALSE)
  /\ pc \in {"error", "sampling", "config"} =>
       MetaIs(input, dd.meta, DOMAIN input.res, input.scope, TRUE, DOMAIN input.attrs, TRUE)
  /\ MetaTagPrecedence /\ TagPrecedence

Priorities(s, places) ==
  {i \in places : s.attrs[i].numeric /\ s.attrs[i].key \in PriorityKeys}

Priority(s, metrics, set) ==
  IF set # {}
  THEN \E i \in set : /\ \A j \in set : j <= i
                      /\ Has(metrics, "_sampling_priority_v1", s.attrs[i].str)
  ELSE "_sampling_priority_v1" \notin DOMAIN metrics

\* The priority is that of the attributes read by then, and the flag's at last.
MetricInv ==
  /\ pc \in {"semantics", "resource"} => Priority(input, dd.metrics, {})
  /\ pc = "attributes" =>
       Priority(input, dd.metrics, Priorities(input, DOMAIN input.attrs \ todo))
  /\ pc \in {"error", "sampling"} =>
       Priority(input, dd.metrics, Priorities(input, DOMAIN input.attrs))
  /\ pc \in {"config", "done"} =>
       IF Priorities(input, DOMAIN input.attrs) # {}
       THEN Priority(input, dd.metrics, Priorities(input, DOMAIN input.attrs))
       ELSE Has(dd.metrics, "_sampling_priority_v1", IF input.sampled THEN "1" ELSE "0")

Marked(s) ==
  IF get_attr_num(s, "datadog.error") # NotNum THEN get_attr_num(s, "datadog.error")
  ELSE IF s.status = "Error" THEN 1 ELSE 0

\* The mark is that of the attribute or of the status until the status is read.
ErrorInv ==
  /\ pc \in {"semantics", "resource", "attributes", "error"} => dd.error = Marked(input)
  /\ pc \in {"sampling", "config", "done"} =>
       /\ input.status = "Error" =>
            /\ dd.error = 0 =>
                 get_attr_num(input, "datadog.error") = 0 /\ ErrorTags \subseteq DOMAIN dd.meta
            /\ input.description # "" \/ Telling("error.message") # {} =>
                 "error.message" \in DOMAIN dd.meta
       /\ dd.error # 0 /\ input.status # "Error" =>
            /\ dd.error = get_attr_num(input, "datadog.error")
            /\ ErrorTags \subseteq DOMAIN dd.meta

\* Attributes are read in their order.
ReadInOrder ==
  /\ pc = "resource" => todo \subseteq DOMAIN input.res
  /\ pc = "attributes" =>
       todo \subseteq DOMAIN input.attrs /\ \A i \in DOMAIN input.attrs \ todo, j \in todo : i < j

Places == {"minimal", "semantics", "resource", "attributes", "error", "sampling", "config", "done"}

MappingInv ==
  /\ DOMAIN input.attrs \subseteq Nat /\ pc \in Places /\ DOMAIN dd = Fields
  /\ ReadInOrder /\ AgentInv /\ MetaInv /\ MetricInv /\ ErrorInv

\* A step that leaves four fields alone leaves what is said of them.
LEMMA AgentKept ==
  ASSUME AgentInv, input' = input, SameBut(dd, dd', {"meta", "metrics", "error"}),
         pc \notin {"minimal", "done"}, pc' \notin {"minimal", "done"}
  PROVE  AgentInv'
BY DEF AgentInv, SameBut, Fields

\* No text is known before the first place is read.
LEMMA NothingRead ==
  ASSUME NEW s, NEW tag
  PROVE  ResourceTexts(s, tag, {}) = {} /\ Own(s, tag, {}) = {}
BY DEF ResourceTexts, Own

-----------------------------------------------------------------------------
(* The steps *)

LEMMA MappingInit == Init => MappingInv
<1> SUFFICES ASSUME Init PROVE MappingInv
  OBVIOUS
<1>1. DOMAIN input.attrs \subseteq Nat
  BY MappingAssumption DEF Init
<1>2. DOMAIN dd = Fields
  BY DEF Init, NoSpan, Fields
<1>3. MetaTagPrecedence /\ TagPrecedence
  BY DEF Init, Done, MetaTagPrecedence, TagPrecedence
<1> QED BY <1>1, <1>2, <1>3
        DEF Init, MappingInv, Places, ReadInOrder, AgentInv, MetaInv, MetricInv, ErrorInv

LEMMA MinimalStep == ASSUME MappingInv, otel_span_to_dd_span_minimal PROVE MappingInv'
<1>1. input' = input /\ pc' = "semantics" /\ todo' = {}
  BY DEF otel_span_to_dd_span_minimal, Step
<1>2. DOMAIN dd' = Fields
  BY DEF otel_span_to_dd_span_minimal, Step, Fields
<1>3. /\ dd'.service = Service(input) /\ dd'.name = Name(input)
      /\ dd'.resource = Resource(input) /\ dd'.type = Type(input)
      /\ dd'.error = Marked(input)
  BY DEF otel_span_to_dd_span_minimal, Step, Service, Name, Resource, Type, Marked
<1>4. DOMAIN dd'.meta \subseteq {"span.kind", "http.status_code"}
  <2>1. PICK kind, code :
          dd'.meta = Over(Single("span.kind", kind),
                          IF code = 0 THEN <<>> ELSE Single("http.status_code", ToString(code)))
    BY DEF otel_span_to_dd_span_minimal, Step
  <2> QED BY <2>1, NoTags DEF Over, Single
<1>5. "_sampling_priority_v1" \notin DOMAIN dd'.metrics
  <2>1. dd'.metrics = Single("_dd.measured", "1") \/ dd'.metrics = <<>>
    BY DEF otel_span_to_dd_span_minimal, Step
  <2> QED BY <2>1, NoTags DEF Single
<1>6. AgentInv' /\ ErrorInv'
  BY <1>1, <1>3 DEF AgentInv, ErrorInv
<1>7. MetaInv'
  <2>1. \A tag \in Tags \cup {"env", "version"} : tag \notin {"span.kind", "http.status_code"}
    BY MappingAssumption
  <2> QED BY <1>1, <1>4, <2>1 DEF MetaInv, MetaTagPrecedence, TagPrecedence, Done
<1>8. MetricInv'
  BY <1>1, <1>5 DEF MetricInv, Priority
<1> QED BY <1>1, <1>2, <1>6, <1>7, <1>8 DEF MappingInv, Places, ReadInOrder

LEMMA SemanticsStep == ASSUME MappingInv, Semantics PROVE MappingInv'
<1> DEFINE own   == [k \in MetaKeys |-> get_attr_str(input, DD_SEMANTICS_KEY_TO_META_KEY[k])]
           given == [k \in {j \in MetaKeys : own[j] # ""} |-> own[k]]
<1>1. pc = "semantics" /\ input' = input /\ pc' = "resource" /\ todo' = DOMAIN input.res
  BY DEF Semantics, Step
<1>2. dd' = [dd EXCEPT !.meta = Over(given, dd.meta)]
  <2>1. DOMAIN DD_SEMANTICS_KEY_TO_META_KEY = MetaKeys
    BY DEF DD_SEMANTICS_KEY_TO_META_KEY
  <2> QED BY <2>1 DEF Semantics, Step
<1>3. dd'.meta = Over(given, dd.meta) /\ SameBut(dd, dd', {"meta"})
  BY <1>2 DEF MappingInv, SameBut, Fields
<1>4. AgentInv'
  BY <1>1, <1>3, AgentKept DEF MappingInv, SameBut
<1>5. MetricInv' /\ ErrorInv'
  BY <1>1, <1>3 DEF MappingInv, MetricInv, ErrorInv, SameBut, Fields
<1>6. MetaInv'
  <2>1. ASSUME NEW tag \in Tags
        PROVE  Other(input, tag, dd'.meta, {}, <<>>, {})
    <3>1. tag \notin MetaKeys
      BY MappingAssumption DEF MetaKeys
    <3>2. tag \notin DOMAIN given /\ tag \notin DOMAIN dd.meta
      BY <1>1, <3>1 DEF MappingInv, MetaInv
    <3> HIDE DEF given
    <3>3. tag \notin DOMAIN dd'.meta
      BY <1>3, <3>2 DEF Over
    <3> QED BY <3>3, NoTags DEF Other
  <2>2. ASSUME NEW tag \in {"env", "version"}
        PROVE  Known(input, tag, dd'.meta, {}, <<>>, Empty, {}, Empty)
    <3>1. tag \in MetaKeys /\ tag \notin DOMAIN dd.meta
      BY <1>1 DEF MappingInv, MetaInv, MetaKeys
    <3>2. own[tag] = get_attr_str(input, DD_SEMANTICS_KEY_TO_META_KEY[tag])
      BY <3>1
    <3>3. IF own[tag] # "" THEN Has(dd'.meta, tag, own[tag]) ELSE tag \notin DOMAIN dd'.meta
      <4>1. CASE own[tag] # ""
        <5>1. tag \in DOMAIN given /\ given[tag] = own[tag]
          BY <3>1, <4>1
        <5> HIDE DEF given, own
        <5> QED BY <1>3, <4>1, <5>1 DEF Over, Has
      <4>2. CASE own[tag] = ""
        <5>1. tag \notin DOMAIN given
          BY <4>2
        <5> HIDE DEF given, own
        <5> QED BY <1>3, <3>1, <4>2, <5>1 DEF Over
      <4> QED BY <4>1, <4>2
    <3> HIDE DEF own
    <3> QED BY <3>2, <3>3, NoTags DEF Known, Empty
  <2>3. MetaIs(input, dd'.meta, {}, <<>>, FALSE, {}, FALSE)
    BY <2>1, <2>2, NothingRead DEF MetaIs
  <2>4. DOMAIN input'.res \ todo' = {}
    BY <1>1
  <2> QED BY <1>1, <2>3, <2>4 DEF MetaInv, MetaTagPrecedence, TagPrecedence, Done
<1> QED BY <1>1, <1>3, <1>4, <1>5, <1>6 DEF MappingInv, Places, ReadInOrder, SameBut


\* What one more key, or one more attribute, gives to a tag.
LEMMA ResourceTextsMore ==
  ASSUME NEW s, NEW tag, NEW keys, NEW key, NEW more, Adds(more, keys, key)
  PROVE  IF get_dd_key_for_otlp_attribute(key) = tag
         THEN Adds(ResourceTexts(s, tag, more), ResourceTexts(s, tag, keys), s.res[key].str)
         ELSE ResourceTexts(s, tag, more) = ResourceTexts(s, tag, keys)
BY DEF ResourceTexts, Adds

LEMMA OwnMore ==
  ASSUME NEW s, NEW tag, NEW places, NEW i, NEW more, Adds(more, places, i)
  PROVE  IF /\ s.attrs[i].key \notin DatadogPrefixed /\ ~s.attrs[i].numeric
            /\ get_dd_key_for_otlp_attribute(s.attrs[i].key) = tag
         THEN Adds(Own(s, tag, more), Own(s, tag, places), i)
         ELSE Own(s, tag, more) = Own(s, tag, places)
BY DEF Own, Adds

LEMMA PrioritiesMore ==
  ASSUME NEW s, NEW places, NEW i, NEW more, Adds(more, places, i)
  PROVE  IF s.attrs[i].numeric /\ s.attrs[i].key \in PriorityKeys
         THEN Adds(Priorities(s, more), Priorities(s, places), i)
         ELSE Priorities(s, more) = Priorities(s, places)
BY DEF Priorities, Adds

\* Tags that are neither of those a text may not become.
LEMMA PlainTags ==
  /\ \A tag \in Tags : tag \notin {"", "analytics.event"} /\ ~is_meta_key(tag)
  /\ \A tag \in {"env", "version"} : tag \notin {"", "analytics.event"} /\ is_meta_key(tag)
BY MappingAssumption DEF is_meta_key, MetaKeys

LEMMA ResourceStep == ASSUME MappingInv, ResourceAttribute PROVE MappingInv'
<1>1. PICK key \in todo :
        Step("resource", "resource",
             set_meta_otlp_with_semconv_mappings(dd, key, input.res[key].str), todo \ {key})
  BY DEF ResourceAttribute
<1> DEFINE str  == input.res[key].str
           read == DOMAIN input.res \ todo
           more == DOMAIN input.res \ (todo \ {key})
<1>2. /\ pc = "resource" /\ input' = input /\ pc' = "resource" /\ todo' = todo \ {key}
      /\ dd' = set_meta_otlp_with_semconv_mappings(dd, key, str)
  BY <1>1 DEF Step
<1>3. key \in DOMAIN input.res /\ todo \subseteq DOMAIN input.res
  BY <1>2 DEF MappingInv, ReadInOrder
<1>4. Adds(more, read, key)
  BY <1>3 DEF Adds
<1>5. /\ SameBut(dd, dd', {"meta", "metrics"})
      /\ Same(dd'.metrics, dd.metrics, "_sampling_priority_v1")
      /\ \A tag : tag \notin {"", "analytics.event"} =>
           IF get_dd_key_for_otlp_attribute(key) = tag
              /\ ~(is_meta_key(tag) /\ Get(dd.meta, tag) # "")
           THEN Has(dd'.meta, tag, str)
           ELSE Same(dd'.meta, dd.meta, tag)
  BY <1>2, TextWritten DEF MappingInv
<1>6. AgentInv'
  BY <1>2, <1>5, AgentKept DEF MappingInv, SameBut
<1>7. MetricInv' /\ ErrorInv'
  BY <1>2, <1>5 DEF MappingInv, MetricInv, ErrorInv, SameBut, Fields, Priority, Same
<1>8. MetaInv'
  <2> HIDE DEF str, read, more
  <2>1. MetaIs(input, dd.meta, read, <<>>, FALSE, {}, FALSE)
    BY <1>2 DEF MappingInv, MetaInv, read
  <2>2. ASSUME NEW tag \in Tags
        PROVE  Other(input, tag, dd'.meta, ResourceTexts(input, tag, more), <<>>, {})
    <3>1. Other(input, tag, dd.meta, ResourceTexts(input, tag, read), <<>>, {})
      BY <2>1, NothingRead DEF MetaIs
    <3>2. CASE get_dd_key_for_otlp_attribute(key) = tag
      <4>1. Has(dd'.meta, tag, str)
        BY <1>5, <3>2, PlainTags
      <4>2. Adds(ResourceTexts(input, tag, more), ResourceTexts(input, tag, read), str)
        BY <1>4, <3>2, ResourceTextsMore DEF str
      <4> QED BY <3>1, <4>1, <4>2, OtherResource
    <3>3. CASE get_dd_key_for_otlp_attribute(key) # tag
      <4>1. Same(dd'.meta, dd.meta, tag)
        BY <1>5, <3>3, PlainTags
      <4>2. ResourceTexts(input, tag, more) = ResourceTexts(input, tag, read)
        BY <1>4, <3>3, ResourceTextsMore
      <4> QED BY <3>1, <4>1, <4>2, OtherSame
    <3> QED BY <3>2, <3>3
  <2>3. ASSUME NEW tag \in {"env", "version"}
        PROVE  Known(input, tag, dd'.meta, ResourceTexts(input, tag, more), <<>>,
                     Empty, {}, Empty)
    <3>1. Known(input, tag, dd.meta, ResourceTexts(input, tag, read), <<>>, Empty, {}, Empty)
      BY <2>1, NothingRead DEF MetaIs
    <3>2. CASE get_dd_key_for_otlp_attribute(key) = tag
      <4>1. IF Get(dd.meta, tag) # "" THEN Same(dd'.meta, dd.meta, tag) ELSE Has(dd'.meta, tag, str)
        BY <1>5, <3>2, PlainTags
      <4>2. Adds(ResourceTexts(input, tag, more), ResourceTexts(input, tag, read), str)
        BY <1>4, <3>2, ResourceTextsMore DEF str
      <4> QED BY <3>1, <4>1, <4>2, KnownResource DEF Empty
    <3>3. CASE get_dd_key_for_otlp_attribute(key) # tag
      <4>1. Same(dd'.meta, dd.meta, tag)
        BY <1>5, <3>3, PlainTags
      <4>2. ResourceTexts(input, tag, more) = ResourceTexts(input, tag, read)
        BY <1>4, <3>3, ResourceTextsMore
      <4> QED BY <3>1, <4>1, <4>2, KnownSame
    <3> QED BY <3>2, <3>3
  <2>4. MetaIs(input, dd'.meta, more, <<>>, FALSE, {}, FALSE)
    BY <2>2, <2>3, NothingRead DEF MetaIs
  <2> QED BY <1>2, <2>4 DEF MetaInv, MetaTagPrecedence, TagPrecedence, Done, more
<1> QED BY <1>2, <1>3, <1>5, <1>6, <1>7, <1>8 DEF MappingInv, Places, ReadInOrder, SameBut

LEMMA ScopeStep == ASSUME MappingInv, Scope PROVE MappingInv'
<1> DEFINE scoped  == Over(input.scope, dd.meta)
           release == ResStr(input, "service.version")
<1>1. /\ pc = "resource" /\ input' = input /\ pc' = "attributes" /\ todo' = DOMAIN input.attrs
      /\ todo = {} /\ dd' = [dd EXCEPT !.meta = Fill(scoped, "version", release)]
  BY DEF Scope, Step
<1>2. dd'.meta = Fill(scoped, "version", release) /\ SameBut(dd, dd', {"meta"})
  BY <1>1 DEF MappingInv, SameBut, Fields
<1>3. AgentInv'
  BY <1>1, <1>2, AgentKept DEF MappingInv, SameBut
<1>4. DOMAIN input'.attrs \ todo' = {}
  BY <1>1
<1>5. MetricInv' /\ ErrorInv'
  <2>1. Priorities(input, {}) = {}
    BY DEF Priorities
  <2>2. MetricInv'
    BY <1>1, <1>2, <1>4, <2>1 DEF MappingInv, MetricInv, SameBut, Fields
  <2> QED BY <1>1, <1>2, <2>2 DEF MappingInv, ErrorInv, SameBut, Fields
<1>6. MetaInv'
  <2> HIDE DEF release
  <2> DEFINE keys == DOMAIN input.res
  <2>1. MetaIs(input, dd.meta, keys, <<>>, FALSE, {}, FALSE)
    <3>1. keys \ todo = keys
      BY <1>1
    <3> QED BY <1>1, <3>1 DEF MappingInv, MetaInv
  <2> HIDE DEF keys
  <2>2. ASSUME NEW tag
        PROVE  IF tag \in DOMAIN input.scope THEN Has(scoped, tag, input.scope[tag])
               ELSE Same(scoped, dd.meta, tag)
    BY OverIs
  <2> HIDE DEF scoped
  <2>3. ASSUME NEW tag \in Tags
        PROVE  Other(input, tag, dd'.meta, ResourceTexts(input, tag, keys), input.scope, {})
    <3>1. tag # "version"
      BY MappingAssumption
    <3>2. Same(dd'.meta, scoped, tag)
      BY <1>2, <3>1, FillIs
    <3>3. Other(input, tag, dd.meta, ResourceTexts(input, tag, keys), <<>>, {})
      BY <2>1, NothingRead DEF MetaIs
    <3>4. IF tag \in DOMAIN input.scope THEN Has(dd'.meta, tag, input.scope[tag])
          ELSE Same(dd'.meta, dd.meta, tag)
      BY <2>2, <3>2 DEF Has, Same
    <3> QED BY <3>3, <3>4, OtherScope
  <2>4. ASSUME NEW tag \in {"env", "version"}
        PROVE  Known(input, tag, dd'.meta, ResourceTexts(input, tag, keys), input.scope,
                     Release(input, tag), {}, Empty)
    <3>1. Known(input, tag, dd.meta, ResourceTexts(input, tag, keys), <<>>, "", {}, "")
      BY <2>1, NothingRead DEF MetaIs, Empty
    <3>2. IF tag \in DOMAIN scoped \/ Release(input, tag) = ""
          THEN Same(dd'.meta, scoped, tag) ELSE Has(dd'.meta, tag, Release(input, tag))
      <4>1. CASE tag = "version"
        BY <1>2, <4>1, FillIs DEF Release, release
      <4>2. CASE tag = "env"
        <5>1. Release(input, tag) = "" /\ tag # "version"
          BY <4>2 DEF Release, Empty
        <5> QED BY <1>2, <5>1, FillIs
      <4> QED BY <4>1, <4>2
    <3>3. IF tag \in DOMAIN input.scope THEN Has(dd'.meta, tag, input.scope[tag])
          ELSE IF tag \in DOMAIN dd.meta \/ Release(input, tag) = "" THEN Same(dd'.meta, dd.meta, tag)
          ELSE Has(dd'.meta, tag, Release(input, tag))
      BY <2>2, <3>2 DEF Has, Same
    <3> QED BY <3>1, <3>3, KnownScope DEF Empty
  <2>5. MetaIs(input, dd'.meta, keys, input.scope, TRUE, {}, FALSE)
    BY <2>3, <2>4, NothingRead DEF MetaIs
  <2> QED BY <1>1, <1>4, <2>5 DEF MetaInv, MetaTagPrecedence, TagPrecedence, Done, keys
<1>7. ReadInOrder'
  BY <1>1 DEF ReadInOrder
<1> QED BY <1>1, <1>2, <1>3, <1>5, <1>6, <1>7 DEF MappingInv, Places, SameBut


\* The places that are read give a set of numbers below the next one.
LEMMA BelowNext ==
  ASSUME NEW attrs, attrs \subseteq Nat, NEW i \in attrs, NEW read,
         \A j \in read : j \in attrs /\ j < i, NEW places, places \subseteq read
  PROVE  i \in Nat /\ \A j \in places : j \in Nat /\ j < i
OBVIOUS

LEMMA SpanAttributeStep == ASSUME MappingInv, SpanAttribute PROVE MappingInv'
<1>1. PICK i \in todo :
        /\ \A j \in todo : i <= j
        /\ Step("attributes", "attributes",
                IF input.attrs[i].key \in DatadogPrefixed THEN dd
                ELSE IF input.attrs[i].numeric
                THEN set_metric_otlp_with_semconv_mappings(dd, input.attrs[i].key, input.attrs[i].str)
                ELSE set_meta_otlp_with_semconv_mappings(dd, input.attrs[i].key, input.attrs[i].str),
                todo \ {i})
  BY DEF SpanAttribute
<1> DEFINE key  == input.attrs[i].key
           str  == input.attrs[i].str
           read == DOMAIN input.attrs \ todo
           more == DOMAIN input.attrs \ (todo \ {i})
           text == key \notin DatadogPrefixed /\ ~input.attrs[i].numeric
           metric == key \notin DatadogPrefixed /\ input.attrs[i].numeric
<1>2. /\ pc = "attributes" /\ input' = input /\ pc' = "attributes" /\ todo' = todo \ {i}
      /\ text => dd' = set_meta_otlp_with_semconv_mappings(dd, key, str)
      /\ metric => dd' = set_metric_otlp_with_semconv_mappings(dd, key, str)
      /\ ~text /\ ~metric => dd' = dd
  BY <1>1 DEF Step
<1>3. i \in DOMAIN input.attrs /\ todo \subseteq DOMAIN input.attrs /\ DOMAIN input.attrs \subseteq Nat
  BY <1>2 DEF MappingInv, ReadInOrder
<1>4. Adds(more, read, i)
  BY <1>3 DEF Adds
<1>5. \A j \in read : j \in DOMAIN input.attrs /\ j < i
  BY <1>2 DEF MappingInv, ReadInOrder
<1>6. /\ SameBut(dd, dd', {"meta", "metrics"})
      /\ IF metric /\ key \in PriorityKeys THEN Has(dd'.metrics, "_sampling_priority_v1", str)
         ELSE Same(dd'.metrics, dd.metrics, "_sampling_priority_v1")
      /\ \A tag : tag \notin {"", "analytics.event"} =>
           IF text /\ get_dd_key_for_otlp_attribute(key) = tag
              /\ ~(is_meta_key(tag) /\ Get(dd.meta, tag) # "")
           THEN Has(dd'.meta, tag, str)
           ELSE Same(dd'.meta, dd.meta, tag)
  <2>1. CASE text
    <3>1. ~metric
      BY <2>1
    <3> HIDE DEF key, str, text, metric
    <3> QED BY <1>2, <2>1, <3>1, TextWritten DEF MappingInv
  <2>2. CASE metric
    <3>1. ~text
      BY <2>2
    <3> HIDE DEF key, str, text, metric
    <3>2. /\ SameBut(dd, dd', {"metrics"})
          /\ IF key \in PriorityKeys THEN Has(dd'.metrics, "_sampling_priority_v1", str)
             ELSE Same(dd'.metrics, dd.metrics, "_sampling_priority_v1")
      BY <1>2, <2>2, NumberWritten DEF MappingInv
    <3>3. \A tag : Same(dd'.meta, dd.meta, tag)
      BY <3>2 DEF SameBut, Same, Fields
    <3> QED BY <2>2, <3>1, <3>2, <3>3 DEF SameBut
  <2>3. CASE ~text /\ ~metric
    <3>1. dd' = dd
      BY <1>2, <2>3
    <3> HIDE DEF key, str, text, metric
    <3> QED BY <2>3, <3>1 DEF SameBut, Same
  <2> QED BY <2>1, <2>2, <2>3
<1>7. AgentInv'
  BY <1>2, <1>6, AgentKept DEF MappingInv, SameBut
<1>8. ErrorInv'
  BY <1>2, <1>6 DEF MappingInv, ErrorInv, SameBut, Fields
<1>9. MetricInv'
  <2>1. Priority(input, dd.metrics, Priorities(input, read))
    BY <1>2 DEF MappingInv, MetricInv
  <2>2. Priority(input, dd'.metrics, Priorities(input, more))
    <3>1. CASE metric /\ key \in PriorityKeys
      <4>1. Adds(Priorities(input, more), Priorities(input, read), i)
        <5> HIDE DEF more, read
        <5> QED BY <1>4, <3>1, PrioritiesMore
      <4>2. i \in Nat /\ \A j \in Priorities(input, read) : j \in Nat /\ j < i
        <5>1. Priorities(input, read) \subseteq read
          BY DEF Priorities
        <5> HIDE DEF more, read
        <5> QED BY <1>3, <1>5, <5>1, BelowNext
      <4>3. i \in Priorities(input, more) /\ \A j \in Priorities(input, more) : j <= i
        <5> HIDE DEF more, read
        <5> QED BY <4>1, <4>2 DEF Adds
      <4> HIDE DEF more, read
      <4>4. Has(dd'.metrics, "_sampling_priority_v1", input.attrs[i].str)
        BY <1>6, <3>1
      <4> QED BY <4>3, <4>4 DEF Priority
    <3>2. CASE ~(metric /\ key \in PriorityKeys)
      <4>1. Priorities(input, more) = Priorities(input, read)
        <5>1. key \in PriorityKeys => key \notin DatadogPrefixed
          BY DEF PriorityKeys, DatadogPrefixed
        <5> HIDE DEF more, read
        <5> QED BY <1>4, <3>2, <5>1, PrioritiesMore
      <4> HIDE DEF more, read, metric, key
      <4>2. Same(dd'.metrics, dd.metrics, "_sampling_priority_v1")
        BY <1>6, <3>2
      <4> QED BY <2>1, <4>1, <4>2 DEF Priority, Same, Has
    <3> QED BY <3>1, <3>2
  <2> QED BY <1>2, <2>2 DEF MetricInv
<1>10. MetaInv'
  <2> DEFINE keys == DOMAIN input.res
  <2>1. MetaIs(input, dd.meta, keys, input.scope, TRUE, read, FALSE)
    BY <1>2 DEF MappingInv, MetaInv
  <2> HIDE DEF keys, read, more
  <2>2. ASSUME NEW tag, text /\ get_dd_key_for_otlp_attribute(key) = tag
        PROVE  /\ Adds(Own(input, tag, more), Own(input, tag, read), i)
               /\ i \in Nat /\ \A j \in Own(input, tag, read) : j \in Nat /\ j < i
    <3>1. Own(input, tag, read) \subseteq read
      BY DEF Own
    <3> QED BY <1>3, <1>4, <1>5, <2>2, <3>1, OwnMore, BelowNext
  <2>3. ASSUME NEW tag, ~(text /\ get_dd_key_for_otlp_attribute(key) = tag)
        PROVE  Own(input, tag, more) = Own(input, tag, read)
    BY <1>4, <2>3, OwnMore
  <2> HIDE DEF text, key
  <2>4. ASSUME NEW tag \in Tags
        PROVE  Other(input, tag, dd'.meta, ResourceTexts(input, tag, keys), input.scope,
                     Own(input, tag, more))
    <3>1. Other(input, tag, dd.meta, ResourceTexts(input, tag, keys), input.scope,
                Own(input, tag, read))
      BY <2>1 DEF MetaIs
    <3>2. CASE text /\ get_dd_key_for_otlp_attribute(key) = tag
      <4>1. Has(dd'.meta, tag, input.attrs[i].str)
        BY <1>6, <3>2, PlainTags
      <4> QED BY <2>2, <3>2, <4>1, OtherOwn
    <3>3. CASE ~(text /\ get_dd_key_for_otlp_attribute(key) = tag)
      <4>1. Same(dd'.meta, dd.meta, tag)
        BY <1>6, <3>3, PlainTags
      <4> QED BY <2>3, <3>1, <3>3, <4>1, OtherSame
    <3> QED BY <3>2, <3>3
  <2>5. ASSUME NEW tag \in {"env", "version"}
        PROVE  Known(input, tag, dd'.meta, ResourceTexts(input, tag, keys), input.scope,
                     Release(input, tag), Own(input, tag, more), Empty)
    <3>1. Known(input, tag, dd.meta, ResourceTexts(input, tag, keys), input.scope,
                Release(input, tag), Own(input, tag, read), Empty)
      BY <2>1 DEF MetaIs
    <3>2. CASE text /\ get_dd_key_for_otlp_attribute(key) = tag
      <4>1. IF Get(dd.meta, tag) # Empty THEN Same(dd'.meta, dd.meta, tag)
            ELSE Has(dd'.meta, tag, input.attrs[i].str)
        BY <1>6, <3>2, PlainTags DEF Empty
      <4> QED BY <2>2, <3>1, <3>2, <4>1, KnownOwn
    <3>3. CASE ~(text /\ get_dd_key_for_otlp_attribute(key) = tag)
      <4>1. Same(dd'.meta, dd.meta, tag)
        BY <1>6, <3>3, PlainTags
      <4> QED BY <2>3, <3>1, <3>3, <4>1, KnownSame
    <3> QED BY <3>2, <3>3
  <2>6. MetaIs(input, dd'.meta, keys, input.scope, TRUE, more, FALSE)
    BY <2>4, <2>5 DEF MetaIs
  <2> QED BY <1>2, <2>6 DEF MetaInv, MetaTagPrecedence, TagPrecedence, Done, keys, more
<1>11. ReadInOrder'
  <2>1. \A j \in todo : j \in Nat /\ i <= j /\ i \in Nat
    BY <1>1, <1>3
  <2>2. ASSUME NEW k \in more, NEW j \in todo \ {i} PROVE k < j
    <3>1. CASE k = i
      BY <2>1, <3>1
    <3>2. CASE k # i
      BY <1>2, <3>2 DEF MappingInv, ReadInOrder
    <3> QED BY <3>1, <3>2
  <2> QED BY <1>2, <1>3, <2>2 DEF ReadInOrder
<1> QED BY <1>2, <1>3, <1>6, <1>7, <1>8, <1>9, <1>10, <1>11 DEF MappingInv, Places, SameBut


\* What the status adds to the tags is none of those that are looked at.
LEMMA StatusStep == ASSUME MappingInv, Status PROVE MappingInv'
<1> DEFINE described == input.status = "Error" /\ input.description # ""
           inner == Over(Single("otel.status_code", input.status),
                         IF described THEN Single("otel.status_description", input.description)
                         ELSE <<>>)
           own   == Over(IF Exceptions # {} THEN Single("_dd.span_events.has_exception", "true")
                         ELSE <<>>, inner)
           environment == get_otel_env(input)
           filled == Fill(dd.meta, "env", environment)
<1>1. /\ pc = "attributes" /\ input' = input /\ pc' = "error" /\ todo = {}
      /\ dd' = [dd EXCEPT !.meta = Over(own, filled)]
  BY DEF Status, Step, EnvFilled
<1>2. DOMAIN own \subseteq
        {"_dd.span_events.has_exception", "otel.status_code", "otel.status_description"}
  <2>1. DOMAIN inner \subseteq {"otel.status_code", "otel.status_description"}
    BY NoTags DEF Over, Single
  <2> HIDE DEF inner
  <2> QED BY <2>1, NoTags DEF Over, Single
<1> HIDE DEF own
<1>3. dd'.meta = Over(own, filled) /\ SameBut(dd, dd', {"meta"})
  BY <1>1 DEF MappingInv, SameBut, Fields
<1>4. AgentInv'
  BY <1>1, <1>3, AgentKept DEF MappingInv, SameBut
<1>5. DOMAIN input.attrs \ todo = DOMAIN input.attrs
  BY <1>1
<1>6. MetricInv' /\ ErrorInv'
  BY <1>1, <1>3, <1>5 DEF MappingInv, MetricInv, ErrorInv, SameBut, Fields
<1>7. MetaInv'
  <2> DEFINE keys == DOMAIN input.res
             places == DOMAIN input.attrs
  <2>1. MetaIs(input, dd.meta, keys, input.scope, TRUE, places, FALSE)
    BY <1>1, <1>5 DEF MappingInv, MetaInv
  <2> HIDE DEF keys, places, filled
  <2>2. ASSUME NEW tag \in Tags \cup {"env", "version"} PROVE Same(dd'.meta, filled, tag)
    <3>1. tag \notin DOMAIN own
      BY <1>2, MappingAssumption
    <3> QED BY <1>3, <3>1, OverIs
  <2>3. ASSUME NEW tag \in Tags
        PROVE  Other(input, tag, dd'.meta, ResourceTexts(input, tag, keys), input.scope,
                     Own(input, tag, places))
    <3>1. tag # "env"
      BY MappingAssumption
    <3>2. Same(filled, dd.meta, tag)
      BY <3>1, FillIs DEF filled
    <3>3. Same(dd'.meta, dd.meta, tag)
      BY <2>2, <3>2 DEF Same
    <3> QED BY <2>1, <3>3, OtherSame DEF MetaIs
  <2>4. ASSUME NEW tag \in {"env", "version"}
        PROVE  Known(input, tag, dd'.meta, ResourceTexts(input, tag, keys), input.scope,
                     Release(input, tag), Own(input, tag, places), Environment(input, tag))
    <3>1. Known(input, tag, dd.meta, ResourceTexts(input, tag, keys), input.scope,
                Release(input, tag), Own(input, tag, places), Empty)
      BY <2>1 DEF MetaIs
    <3>2. CASE tag = "version"
      <4>1. Same(filled, dd.meta, tag)
        BY <3>2, FillIs DEF filled
      <4>2. Same(dd'.meta, dd.meta, tag)
        BY <2>2, <4>1 DEF Same
      <4>3. Environment(input, tag) = Empty
        BY <3>2 DEF Environment
      <4> QED BY <3>1, <4>2, <4>3, KnownSame
    <3>3. CASE tag = "env"
      <4>1. Environment(input, tag) = environment /\ Release(input, tag) = ""
        BY <3>3 DEF Environment, Release, Empty
      <4>2. IF tag \in DOMAIN dd.meta \/ environment = "" THEN Same(filled, dd.meta, tag)
            ELSE Has(filled, tag, environment)
        BY <3>3, FillIs DEF filled
      <4>3. IF tag \in DOMAIN dd.meta \/ environment = "" THEN Same(dd'.meta, dd.meta, tag)
            ELSE Has(dd'.meta, tag, environment)
        BY <2>2, <4>2 DEF Same, Has
      <4> HIDE DEF environment
      <4> DEFINE resource == ResourceTexts(input, tag, keys)
                 told == Own(input, tag, places)
      <4>4. Known(input, tag, dd.meta, resource, input.scope, "", told, "")
        BY <3>1, <4>1 DEF Empty
      <4>5. Known(input, tag, dd'.meta, resource, input.scope, "", told, environment)
        <5> HIDE DEF resource, told
        <5> QED BY <4>3, <4>4, KnownEnv
      <4> QED BY <4>1, <4>5
    <3> QED BY <3>2, <3>3
  <2>5. MetaIs(input, dd'.meta, keys, input.scope, TRUE, places, TRUE)
    BY <2>3, <2>4 DEF MetaIs
  <2> QED BY <1>1, <2>5 DEF MetaInv, MetaTagPrecedence, TagPrecedence, Done, keys, places
<1> QED BY <1>1, <1>3, <1>4, <1>6, <1>7 DEF MappingInv, Places, SameBut, ReadInOrder

\* The tags of the error are none of those that are looked at.
LEMMA TagsStay ==
  ASSUME NEW s, NEW meta, NEW more, NEW keys, NEW scope, NEW released, NEW places, NEW filled,
         MetaIs(s, meta, keys, scope, released, places, filled),
         \A tag \in Tags \cup {"env", "version"} : Same(more, meta, tag)
  PROVE  MetaIs(s, more, keys, scope, released, places, filled)
<1>1. ASSUME NEW tag \in Tags
      PROVE  Other(s, tag, more, ResourceTexts(s, tag, keys), scope, Own(s, tag, places))
  <2>1. Other(s, tag, meta, ResourceTexts(s, tag, keys), scope, Own(s, tag, places))
    BY DEF MetaIs
  <2> QED BY <2>1, OtherSame
<1>2. ASSUME NEW tag \in {"env", "version"}
      PROVE  Known(s, tag, more, ResourceTexts(s, tag, keys), scope,
                   IF released THEN Release(s, tag) ELSE Empty, Own(s, tag, places),
                   IF filled THEN Environment(s, tag) ELSE Empty)
  <2> DEFINE release == IF released THEN Release(s, tag) ELSE Empty
             env == IF filled THEN Environment(s, tag) ELSE Empty
  <2>1. Known(s, tag, meta, ResourceTexts(s, tag, keys), scope, release, Own(s, tag, places), env)
    BY DEF MetaIs
  <2> HIDE DEF release, env
  <2>2. Known(s, tag, more, ResourceTexts(s, tag, keys), scope, release, Own(s, tag, places), env)
    BY <2>1, KnownSame
  <2> QED BY <2>2 DEF release, env
<1> QED BY <1>1, <1>2 DEF MetaIs

\* The message of the status keeps the tags, and is there if there is a reason.
LEMMA MessageIs ==
  ASSUME NEW meta
  PROVE  /\ DOMAIN meta \subseteq DOMAIN StatusMessage(meta)
         /\ input.description # "" \/ "error.message" \in DOMAIN meta =>
              "error.message" \in DOMAIN StatusMessage(meta)
         /\ \A tag : tag # "error.message" => Same(StatusMessage(meta), meta, tag)
<1>1. ASSUME NEW str
      PROVE  /\ DOMAIN meta \subseteq DOMAIN Put(meta, "error.message", str)
             /\ "error.message" \in DOMAIN Put(meta, "error.message", str)
             /\ \A tag : tag # "error.message" => Same(Put(meta, "error.message", str), meta, tag)
  BY PutIs DEF Put, Over, Single
<1>2. \/ StatusMessage(meta) = meta
         /\ ~(input.description # "" /\ "error.message" \notin DOMAIN meta)
      \/ \E str : StatusMessage(meta) = Put(meta, "error.message", str)
  BY DEF StatusMessage
<1> QED BY <1>1, <1>2 DEF Same

LEMMA ErrorStep == ASSUME MappingInv, status_to_error PROVE MappingInv'
<1> DEFINE told == Over(FromExceptions, dd.meta)
           message == StatusMessage(told)
<1>1. /\ pc = "error" /\ input' = input /\ pc' = "sampling" /\ todo' = {}
      /\ dd' = IF \E tag \in ErrorTags : tag \notin DOMAIN dd.meta THEN WithStatus ELSE dd
  BY DEF status_to_error, Step
<1>2. DOMAIN FromExceptions \subseteq ErrorTags
      /\ (Telling("error.message") # {} => "error.message" \in DOMAIN FromExceptions)
  BY DEF FromExceptions, ErrorTags
<1>3. /\ DOMAIN dd.meta \subseteq DOMAIN told
      /\ "error.message" \in DOMAIN FromExceptions => "error.message" \in DOMAIN told
      /\ \A tag : tag \notin ErrorTags => Same(told, dd.meta, tag)
  <2>1. DOMAIN told = DOMAIN FromExceptions \cup DOMAIN dd.meta
    BY DEF Over
  <2> QED BY <1>2, <2>1, OverIs
<1> HIDE DEF told
<1>4. /\ input.description # "" \/ "error.message" \in DOMAIN told =>
           "error.message" \in DOMAIN message
      /\ \A tag : tag # "error.message" => Same(message, told, tag)
  BY MessageIs
<1> HIDE DEF message
<1>5. dd.error = Marked(input)
  BY <1>1 DEF MappingInv, ErrorInv
<1>6. Telling("error.message")' = Telling("error.message")
  BY <1>1 DEF Telling, Exceptions
<1>7. /\ SameBut(dd, dd', {"error", "meta"})
      /\ \A tag : tag \notin ErrorTags => Same(dd'.meta, dd.meta, tag)
      /\ ErrorInv'
  <2>1. CASE (\E tag \in ErrorTags : tag \notin DOMAIN dd.meta) /\ input.status = "Error"
    <3>1. dd' = [dd EXCEPT !.error = 1, !.meta = message]
      BY <1>1, <2>1 DEF WithStatus, told, message
    <3>2. dd'.error = 1 /\ dd'.meta = message /\ SameBut(dd, dd', {"error", "meta"})
      BY <3>1 DEF MappingInv, SameBut, Fields
    <3>3. ASSUME NEW tag, tag \notin ErrorTags PROVE Same(dd'.meta, dd.meta, tag)
      <4>1. Same(message, told, tag) /\ Same(told, dd.meta, tag)
        BY <1>3, <1>4, <3>3 DEF ErrorTags
      <4> QED BY <3>2, <4>1 DEF Same
    <3>4. input.description # "" \/ Telling("error.message") # {} =>
            "error.message" \in DOMAIN dd'.meta
      BY <1>2, <1>3, <1>4, <3>2
    <3>5. dd'.error # 0
      BY <3>2
    <3>6. ErrorInv'
      BY <1>1, <1>6, <2>1, <3>4, <3>5 DEF ErrorInv
    <3> QED BY <3>2, <3>3, <3>6
  <2>2. CASE (\E tag \in ErrorTags : tag \notin DOMAIN dd.meta) /\ input.status # "Error"
    <3>1. dd' = [dd EXCEPT !.error = 0]
      BY <1>1, <2>2 DEF WithStatus
    <3>2. dd'.error = 0 /\ SameBut(dd, dd', {"error"})
      BY <3>1 DEF MappingInv, SameBut, Fields
    <3> QED BY <1>1, <2>2, <3>2 DEF ErrorInv, SameBut, Same, Fields
  <2>3. CASE ErrorTags \subseteq DOMAIN dd.meta
    <3>1. dd' = dd
      BY <1>1, <2>3
    <3>2. "error.message" \in DOMAIN dd.meta
      BY <2>3 DEF ErrorTags
    <3>3. /\ input.status = "Error" /\ dd.error = 0 => get_attr_num(input, "datadog.error") = 0
          /\ input.status # "Error" /\ dd.error # 0 =>
               dd.error = get_attr_num(input, "datadog.error")
      BY <1>5 DEF Marked
    <3> QED BY <1>1, <2>3, <3>1, <3>2, <3>3 DEF ErrorInv, SameBut, Same
  <2> QED BY <2>1, <2>2, <2>3
<1>8. AgentInv'
  BY <1>1, <1>7, AgentKept DEF MappingInv, SameBut
<1>9. MetricInv'
  BY <1>1, <1>7 DEF MappingInv, MetricInv, SameBut, Fields
<1>10. MetaInv'
  <2>1. \A tag \in Tags \cup {"env", "version"} : Same(dd'.meta, dd.meta, tag)
    <3>1. \A tag \in Tags \cup {"env", "version"} : tag \notin ErrorTags
      BY MappingAssumption DEF ErrorTags
    <3> QED BY <1>7, <3>1
  <2>2. MetaIs(input, dd.meta, DOMAIN input.res, input.scope, TRUE, DOMAIN input.attrs, TRUE)
    BY <1>1 DEF MappingInv, MetaInv
  <2>3. MetaIs(input, dd'.meta, DOMAIN input.res, input.scope, TRUE, DOMAIN input.attrs, TRUE)
    BY <2>1, <2>2, TagsStay
  <2> QED BY <1>1, <2>3 DEF MetaInv, MetaTagPrecedence, TagPrecedence, Done
<1> QED BY <1>1, <1>7, <1>8, <1>9, <1>10 DEF MappingInv, Places, SameBut, ReadInOrder

LEMMA SamplingStep == ASSUME MappingInv, otel_sampling_to_dd_sampling PROVE MappingInv'
<1> DEFINE flag == IF input.sampled THEN "1" ELSE "0"
           set == Priorities(input, DOMAIN input.attrs)
<1>1. /\ pc = "sampling" /\ input' = input /\ pc' = "config" /\ todo' = {}
      /\ dd' = [dd EXCEPT !.metrics = Fill(dd.metrics, "_sampling_priority_v1", flag)]
  BY DEF otel_sampling_to_dd_sampling, Step
<1>2. /\ SameBut(dd, dd', {"metrics"})
      /\ dd'.metrics = Fill(dd.metrics, "_sampling_priority_v1", flag)
  BY <1>1 DEF MappingInv, SameBut, Fields
<1>3. flag # ""
  OBVIOUS
<1> HIDE DEF flag
<1>4. IF "_sampling_priority_v1" \in DOMAIN dd.metrics
      THEN Same(dd'.metrics, dd.metrics, "_sampling_priority_v1")
      ELSE Has(dd'.metrics, "_sampling_priority_v1", flag)
  BY <1>2, <1>3, FillIs
<1>5. Priority(input, dd.metrics, set)
  BY <1>1 DEF MappingInv, MetricInv
<1>6. AgentInv'
  BY <1>1, <1>2, AgentKept DEF MappingInv, SameBut
<1>7. ErrorInv'
  <2>1. Telling("error.message")' = Telling("error.message")
    BY <1>1 DEF Telling, Exceptions
  <2> QED BY <1>1, <1>2, <2>1 DEF MappingInv, ErrorInv, SameBut, Fields
<1>8. MetricInv'
  <2> HIDE DEF set
  <2>1. IF set # {} THEN Priority(input, dd'.metrics, set)
        ELSE Has(dd'.metrics, "_sampling_priority_v1", flag)
    BY <1>4, <1>5 DEF Priority, Has, Same
  <2> QED BY <1>1, <2>1 DEF MetricInv, set, flag
<1>9. MetaInv'
  BY <1>1, <1>2 DEF MappingInv, MetaInv, SameBut, Fields, MetaTagPrecedence, TagPrecedence, Done
<1> QED BY <1>1, <1>2, <1>6, <1>7, <1>8, <1>9 DEF MappingInv, Places, SameBut, ReadInOrder

\* What is known of a tag once all its places are read, but the configuration
KnownFrom(s, tag, value) ==
  LET scoped   == tag \in DOMAIN s.scope
      semantic == get_attr_str(s, DD_SEMANTICS_KEY_TO_META_KEY[tag])
      resource == {s.res[k].str : k \in ResourceKeys(s, tag)}
      telling  == {i \in OwnPlaces(s, tag) : s.attrs[i].str # Empty}
  IN IF scoped /\ s.scope[tag] # Empty THEN value = s.scope[tag]
     ELSE IF ~scoped /\ semantic # Empty THEN value = semantic
     ELSE IF ~scoped /\ resource \ {Empty} # {} THEN value \in resource \ {Empty}
     ELSE IF ~scoped /\ resource = {} /\ Release(s, tag) # Empty THEN value = Release(s, tag)
     ELSE IF telling # {} THEN FirstOf(s, telling, value)
     ELSE value = IF ~scoped /\ resource = {} /\ OwnPlaces(s, tag) = {}
                  THEN Environment(s, tag) ELSE Empty

LEMMA KnownSays ==
  ASSUME NEW s, NEW tag, NEW meta,
         Known(s, tag, meta, ResourceTexts(s, tag, DOMAIN s.res), s.scope, Release(s, tag),
               Own(s, tag, DOMAIN s.attrs), Environment(s, tag))
  PROVE  KnownFrom(s, tag, Get(meta, tag))
<1> DEFINE resource == {s.res[k].str : k \in ResourceKeys(s, tag)}
           own == OwnPlaces(s, tag)
           telling == {i \in own : s.attrs[i].str # Empty}
<1>1. ResourceTexts(s, tag, DOMAIN s.res) = resource
  BY DEF ResourceTexts, ResourceKeys
<1>2. Own(s, tag, DOMAIN s.attrs) = own
  BY DEF Own, OwnPlaces
<1>3. \A str : Has(meta, tag, str) => Get(meta, tag) = str
  BY GetIs DEF Has
<1>4. tag \notin DOMAIN meta => Get(meta, tag) = Empty
  BY GetIs
<1>5. Known(s, tag, meta, resource, s.scope, Release(s, tag), own, Environment(s, tag))
  BY <1>1, <1>2
<1>6. (\E i \in telling : (\A j \in telling : i <= j) /\ Has(meta, tag, s.attrs[i].str)) =>
        FirstOf(s, telling, Get(meta, tag))
  <2> HIDE DEF telling
  <2> QED BY <1>3 DEF FirstOf
<1> HIDE DEF resource, own
<1>7. {i \in own : s.attrs[i].str # Empty} = telling
  OBVIOUS
<1> HIDE DEF telling
<1>8. LET scoped   == tag \in DOMAIN s.scope
          semantic == get_attr_str(s, DD_SEMANTICS_KEY_TO_META_KEY[tag])
          value    == Get(meta, tag)
      IN IF scoped /\ s.scope[tag] # Empty THEN value = s.scope[tag]
         ELSE IF ~scoped /\ semantic # Empty THEN value = semantic
         ELSE IF ~scoped /\ resource \ {Empty} # {} THEN value \in resource \ {Empty}
         ELSE IF ~scoped /\ resource = {} /\ Release(s, tag) # Empty THEN value = Release(s, tag)
         ELSE IF telling # {} THEN FirstOf(s, telling, value)
         ELSE value = IF ~scoped /\ resource = {} /\ own = {} THEN Environment(s, tag) ELSE Empty
  BY <1>3, <1>4, <1>5, <1>6, <1>7 DEF Known
<1> QED BY <1>8 DEF KnownFrom, resource, own, telling

LEMMA KnownIsFrom ==
  ASSUME NEW s, NEW tag \in {"env", "version"}, NEW value, KnownFrom(s, tag, value)
  PROVE  MetaTagFrom(s, tag, value)
<1>1. CASE tag = "version"
  BY <1>1 DEF KnownFrom, MetaTagFrom, Release, Environment, Empty
<1>2. CASE tag = "env"
  BY <1>2 DEF KnownFrom, MetaTagFrom, Release, Environment, Empty
<1> QED BY <1>1, <1>2

LEMMA OtherSays ==
  ASSUME NEW s, NEW tag, NEW meta,
         Other(s, tag, meta, ResourceTexts(s, tag, DOMAIN s.res), s.scope,
               Own(s, tag, DOMAIN s.attrs))
  PROVE  OtherTagFrom(s, tag, meta)
<1>1. ResourceTexts(s, tag, DOMAIN s.res) = {s.res[k].str : k \in ResourceKeys(s, tag)}
  BY DEF ResourceTexts, ResourceKeys
<1>2. Own(s, tag, DOMAIN s.attrs) = OwnPlaces(s, tag)
  BY DEF Own, OwnPlaces
<1>3. \A str : Has(meta, tag, str) => Get(meta, tag) = str
  BY GetIs DEF Has
<1> QED BY <1>1, <1>2, <1>3 DEF Other, OtherTagFrom, LastOf

LEMMA ConfigStep == ASSUME MappingInv, add_config_metadata PROVE MappingInv'
<1> DEFINE given   == input.config
           service == IF dd.service = DEFAULT_OTLP_SERVICE_NAME THEN given.service ELSE dd.service
           named   == "service.name" \in DOMAIN input.res /\ service = ResStr(input, "service.name")
           global  == Over(given.global_tags, dd.meta)
           versioned == given.version # "" /\ named
<1>1. /\ pc = "config" /\ input' = input /\ pc' = "done" /\ todo' = {}
      /\ dd' = [dd EXCEPT !.service = service,
                          !.meta = IF versioned THEN Put(global, "version", given.version) ELSE global]
  BY DEF add_config_metadata, Step
<1>2. /\ SameBut(dd, dd', {"service", "meta"}) /\ dd'.service = service
      /\ dd'.meta = IF versioned THEN Put(global, "version", given.version) ELSE global
  BY <1>1 DEF MappingInv, SameBut, Fields
<1>3. AgentInv'
  BY <1>1, <1>2 DEF MappingInv, AgentInv, SameBut, Fields
<1>4. MetricInv'
  BY <1>1, <1>2 DEF MappingInv, MetricInv, SameBut, Fields
<1>5. DOMAIN dd.meta \subseteq DOMAIN dd'.meta
  BY <1>2 DEF Over, Put, Single
<1>6. ErrorInv'
  <2>1. Telling("error.message")' = Telling("error.message")
    BY <1>1 DEF Telling, Exceptions
  <2> QED BY <1>1, <1>2, <1>5, <2>1 DEF MappingInv, ErrorInv, SameBut, Fields
<1>7. ASSUME NEW tag
      PROVE  /\ tag \in DOMAIN given.global_tags => Get(global, tag) = given.global_tags[tag]
             /\ tag \notin DOMAIN given.global_tags => Same(global, dd.meta, tag)
  BY OverIs DEF Has, Get
<1>8. ASSUME NEW tag, tag # "version"
      PROVE  /\ tag \in DOMAIN given.global_tags => Get(dd'.meta, tag) = given.global_tags[tag]
             /\ tag \notin DOMAIN given.global_tags => Same(dd'.meta, dd.meta, tag)
  <2> HIDE DEF global, versioned, service
  <2>1. Same(dd'.meta, global, tag)
    <3>1. CASE versioned
      BY <1>2, <1>8, <3>1, PutIs
    <3>2. CASE ~versioned
      BY <1>2, <3>2 DEF Same
    <3> QED BY <3>1, <3>2
  <2> QED BY <1>7, <2>1 DEF Same, Get
<1>9. /\ versioned => Get(dd'.meta, "version") = given.version
      /\ ~versioned /\ "version" \in DOMAIN given.global_tags =>
           Get(dd'.meta, "version") = given.global_tags["version"]
      /\ ~versioned /\ "version" \notin DOMAIN given.global_tags =>
           Same(dd'.meta, dd.meta, "version")
  <2> HIDE DEF global, versioned, service
  <2>1. CASE versioned
    <3>1. Has(dd'.meta, "version", given.version)
      BY <1>2, <2>1, PutIs
    <3>2. Get(dd'.meta, "version") = given.version
      BY <3>1, GetIs DEF Has
    <3> HIDE DEF given
    <3> QED BY <2>1, <3>2
  <2>2. CASE ~versioned
    <3>1. dd'.meta = global
      BY <1>2, <2>2
    <3>2. /\ "version" \in DOMAIN given.global_tags =>
               Get(dd'.meta, "version") = given.global_tags["version"]
          /\ "version" \notin DOMAIN given.global_tags => Same(dd'.meta, dd.meta, "version")
      <4>1. /\ "version" \in DOMAIN given.global_tags =>
                 Get(global, "version") = given.global_tags["version"]
            /\ "version" \notin DOMAIN given.global_tags => Same(global, dd.meta, "version")
        BY <1>7
      <4> QED BY <3>1, <4>1, Zenon
    <3> HIDE DEF given
    <3> QED BY <2>2, <3>2
  <2> QED BY <2>1, <2>2
<1>10. MetaIs(input, dd.meta, DOMAIN input.res, input.scope, TRUE, DOMAIN input.attrs, TRUE)
  BY <1>1 DEF MappingInv, MetaInv
<1>11. TagPrecedence'
  <2>1. ASSUME NEW tag \in Tags
        PROVE  IF tag \in DOMAIN input.config.global_tags
               THEN Get(dd'.meta, tag) = input.config.global_tags[tag]
               ELSE OtherTagFrom(input, tag, dd'.meta)
    <3>1. tag # "version"
      BY MappingAssumption
    <3>2. OtherTagFrom(input, tag, dd.meta)
      BY <1>10, OtherSays DEF MetaIs
    <3>3. Same(dd'.meta, dd.meta, tag) => OtherTagFrom(input, tag, dd'.meta)
      BY <3>2 DEF OtherTagFrom, Same, Get
    <3> QED BY <1>8, <3>1, <3>3
  <2> QED BY <1>1, <2>1 DEF TagPrecedence
<1>12. ASSUME NEW tag \in {"env", "version"}, Same(dd'.meta, dd.meta, tag)
       PROVE  MetaTagFrom(input, tag, Get(dd'.meta, tag))
  <2>1. MetaTagFrom(input, tag, Get(dd.meta, tag))
    BY <1>10, KnownSays, KnownIsFrom DEF MetaIs
  <2>2. Get(dd'.meta, tag) = Get(dd.meta, tag)
    BY <1>12 DEF Same, Get
  <2> QED BY <2>1, <2>2
<1>13. MetaTagPrecedence'
  <2> HIDE DEF global
  <2>1. versioned <=> /\ input.config.version # ""
                      /\ "service.name" \in DOMAIN input.res
                      /\ dd'.service = ResStr(input, "service.name")
    BY <1>2
  <2> HIDE DEF versioned, service
  <2>2. ASSUME NEW tag \in {"env", "version"}
        PROVE  IF tag = "version" /\ versioned THEN Get(dd'.meta, tag) = input.config.version
               ELSE IF tag \in DOMAIN input.config.global_tags
               THEN Get(dd'.meta, tag) = input.config.global_tags[tag]
               ELSE MetaTagFrom(input, tag, Get(dd'.meta, tag))
    <3>1. CASE tag = "version"
      BY <1>9, <1>12, <3>1
    <3>2. CASE tag = "env"
      BY <1>8, <1>12, <3>2
    <3> QED BY <3>1, <3>2
  <2> QED BY <1>1, <2>1, <2>2 DEF MetaTagPrecedence
<1>14. MetaInv'
  BY <1>1, <1>11, <1>13 DEF MetaInv
<1> QED BY <1>1, <1>2, <1>3, <1>4, <1>6, <1>14 DEF MappingInv, Places, SameBut, ReadInOrder

LEMMA MappingStep == ASSUME MappingInv, [Next]_vars PROVE MappingInv'
<1>1. CASE UNCHANGED vars
  <2>1. Telling("error.message")' = Telling("error.message")
    BY <1>1 DEF vars, Telling, Exceptions
  <2>2. (MetaTagPrecedence /\ TagPrecedence)'
    BY <1>1 DEF vars, MappingInv, MetaInv, MetaTagPrecedence, TagPrecedence, Done
  <2>3. MetaInv'
    BY <1>1, <2>2 DEF vars, MappingInv, MetaInv
  <2>4. ErrorInv'
    BY <1>1, <2>1 DEF vars, MappingInv, ErrorInv
  <2> QED BY <1>1, <2>3, <2>4 DEF vars, MappingInv, ReadInOrder, AgentInv, MetricInv
<1>2. CASE Next
  BY <1>2, MinimalStep, SemanticsStep, ResourceStep, ScopeStep, SpanAttributeStep, StatusStep,
     ErrorStep, SamplingStep, ConfigStep DEF Next
<1> QED BY <1>1, <1>2

\* The priority is the last that the span has, or the flag's.
LEMMA PriorityFollows == ASSUME MappingInv PROVE PriorityOfSampler
<1> DEFINE set == Priorities(input, DOMAIN input.attrs)
           flag == IF input.sampled THEN "1" ELSE "0"
           priority == Get(dd.metrics, "_sampling_priority_v1")
<1> SUFFICES ASSUME Done
             PROVE  IF set # {} THEN LastOf(input, set, priority) ELSE priority = flag
  BY DEF PriorityOfSampler, Priorities, PriorityKeys
<1>1. IF set # {} THEN Priority(input, dd.metrics, set)
      ELSE Has(dd.metrics, "_sampling_priority_v1", flag)
  BY DEF MappingInv, MetricInv, Done
<1>2. \A str : Has(dd.metrics, "_sampling_priority_v1", str) => priority = str
  BY GetIs DEF Has
<1> HIDE DEF set, flag, priority
<1> QED BY <1>1, <1>2 DEF Priority, LastOf

\* What the agent gets of a span is what its places say, in the order in which
\* they count, for every span, resource, scope and configuration
\* (mod.rs, ddtrace_transform.rs).
THEOREM SpansAreConverted == Spec => []SpanConverted
<1>1. Init => MappingInv
  BY MappingInit
<1>2. MappingInv /\ [Next]_vars => MappingInv'
  BY MappingStep
<1>3. ASSUME MappingInv PROVE SpanConverted
  <2>1. AgentSeesWhatSamplerSaw
    BY <1>3 DEF MappingInv, AgentInv, AgentSeesWhatSamplerSaw, Done, Service, Name, Resource, Type
  <2>2. MetaTagPrecedence /\ TagPrecedence
    BY <1>3 DEF MappingInv, MetaInv
  <2>3. PriorityOfSampler
    BY <1>3, PriorityFollows
  <2>4. ErrorExplained
    BY <1>3 DEF MappingInv, ErrorInv, ErrorExplained, Done
  <2> QED BY <2>1, <2>2, <2>3, <2>4 DEF SpanConverted
<1> QED BY <1>1, <1>2, <1>3, PTL DEF Spec

-----------------------------------------------------------------------------
(* The language of globs *)

Agree(m, more, p, s, i, j) ==
  \A k \in 1..Len(p) + 1, l \in 1..Len(s) + 1 : k + l > i + j => more[<<k, l>>] = m[<<k, l>>]

Obeys(m, p, s, k) ==
  \A i \in 1..Len(p) + 1, j \in 1..Len(s) + 1 : i + j > k => m[<<i, j>>] = RestMatches(m, p, s, i, j)

\* The rule looks at places after i and j only.
LEMMA RuleLooksAhead ==
  ASSUME NEW p, NEW s, Len(p) \in Nat, Len(s) \in Nat, NEW m, NEW more,
         NEW i \in 1..Len(p) + 1, NEW j \in 1..Len(s) + 1, Agree(m, more, p, s, i, j)
  PROVE  RestMatches(more, p, s, i, j) = RestMatches(m, p, s, i, j)
<1> USE DEF Agree
<1>1. i <= Len(p) => more[<<i + 1, j>>] = m[<<i + 1, j>>]
  OBVIOUS
<1>2. j <= Len(s) => more[<<i, j + 1>>] = m[<<i, j + 1>>]
  OBVIOUS
<1>3. i <= Len(p) /\ j <= Len(s) => more[<<i + 1, j + 1>>] = m[<<i + 1, j + 1>>]
  OBVIOUS
<1>4. CASE i > Len(p)
  BY <1>4 DEF RestMatches
<1>5. CASE i <= Len(p) /\ j <= Len(s)
  <2>1. /\ more[<<i + 1, j>>] = m[<<i + 1, j>>] /\ more[<<i, j + 1>>] = m[<<i, j + 1>>]
        /\ more[<<i + 1, j + 1>>] = m[<<i + 1, j + 1>>]
    BY <1>1, <1>2, <1>3, <1>5
  <2> QED BY <2>1, Zenon DEF RestMatches
<1>6. CASE i <= Len(p) /\ ~(j <= Len(s))
  <2>1. more[<<i + 1, j>>] = m[<<i + 1, j>>] /\ ~(j <= Len(s))
    BY <1>1, <1>6
  <2> QED BY <2>1, Zenon DEF RestMatches
<1> QED BY <1>4, <1>5, <1>6

\* A function that obeys the rule after some places can be made to obey it one
\* earlier.
LEMMA OneEarlier ==
  ASSUME NEW p, NEW s, Len(p) \in Nat, Len(s) \in Nat, NEW m, NEW k \in Int, Obeys(m, p, s, k)
  PROVE  \E more : Obeys(more, p, s, k - 1)
<1> DEFINE more == [places \in (1..Len(p) + 1) \X (1..Len(s) + 1) |->
                      IF places[1] + places[2] > k THEN m[places]
                      ELSE RestMatches(m, p, s, places[1], places[2])]
<1>1. ASSUME NEW i \in 1..Len(p) + 1, NEW j \in 1..Len(s) + 1
      PROVE  more[<<i, j>>] = IF i + j > k THEN m[<<i, j>>] ELSE RestMatches(m, p, s, i, j)
  OBVIOUS
<1> HIDE DEF more
<1>2. ASSUME NEW i \in 1..Len(p) + 1, NEW j \in 1..Len(s) + 1, i + j > k - 1
      PROVE  more[<<i, j>>] = RestMatches(more, p, s, i, j)
  <2>1. Agree(m, more, p, s, i, j)
    BY <1>1, <1>2 DEF Agree
  <2>2. RestMatches(more, p, s, i, j) = RestMatches(m, p, s, i, j)
    BY <2>1, RuleLooksAhead
  <2>3. i + j > k => m[<<i, j>>] = RestMatches(m, p, s, i, j)
    BY DEF Obeys
  <2> QED BY <1>1, <2>2, <2>3
<1> QED BY <1>2 DEF Obeys

\* There is a function that says of every pair of places what the rule says of
\* it: it is built from the last places to the first.
LEMMA RestExists ==
  ASSUME NEW p, NEW s, Len(p) \in Nat, Len(s) \in Nat
  PROVE  \E m : m = [places \in (1..Len(p) + 1) \X (1..Len(s) + 1) |->
                       RestMatches(m, p, s, places[1], places[2])]
<1> DEFINE last == Len(p) + Len(s) + 2
           Good == {d \in Nat : \E m : Obeys(m, p, s, last - d)}
<1>1. 0 \in Good
  <2>1. Obeys(<<>>, p, s, last - 0)
    BY DEF Obeys
  <2> QED BY <2>1
<1>2. ASSUME NEW d \in Nat, d \in Good PROVE d + 1 \in Good
  <2>1. PICK m : Obeys(m, p, s, last - d)
    BY <1>2
  <2>2. last - d \in Int /\ (last - d) - 1 = last - (d + 1)
    OBVIOUS
  <2>3. \E more : Obeys(more, p, s, (last - d) - 1)
    BY <2>1, <2>2, OneEarlier
  <2> QED BY <2>2, <2>3
<1>3. last \in Good
  <2> HIDE DEF Good
  <2>1. \A d \in Nat : d \in Good => d + 1 \in Good
    BY <1>2
  <2>2. Nat \subseteq Good
    BY <1>1, <2>1, NumberInduction
  <2> QED BY <2>2
<1>4. PICK m : Obeys(m, p, s, 0)
  BY <1>3
<1> DEFINE all == [places \in (1..Len(p) + 1) \X (1..Len(s) + 1) |->
                     RestMatches(m, p, s, places[1], places[2])]
<1>5. ASSUME NEW i \in 1..Len(p) + 1, NEW j \in 1..Len(s) + 1 PROVE all[<<i, j>>] = m[<<i, j>>]
  BY <1>4 DEF Obeys
<1>6. \A i \in 1..Len(p) + 1, j \in 1..Len(s) + 1 : Agree(m, all, p, s, i, j)
  BY <1>5 DEF Agree
<1>7. ASSUME NEW i \in 1..Len(p) + 1, NEW j \in 1..Len(s) + 1
      PROVE  RestMatches(all, p, s, i, j) = RestMatches(m, p, s, i, j)
  <2> HIDE DEF all
  <2> QED BY <1>6, RuleLooksAhead
<1>8. all = [places \in (1..Len(p) + 1) \X (1..Len(s) + 1) |->
               RestMatches(all, p, s, places[1], places[2])]
  BY <1>7
<1> QED BY <1>8

\* What the rule says of two places is what GlobRest has there.
LEMMA GlobRestIs ==
  ASSUME NEW p, NEW s, Len(p) \in Nat, Len(s) \in Nat,
         NEW i \in 1..Len(p) + 1, NEW j \in 1..Len(s) + 1
  PROVE  GlobRest(p, s)[<<i, j>>] = RestMatches(GlobRest(p, s), p, s, i, j)
<1> DEFINE m == GlobRest(p, s)
<1>1. m = CHOOSE f : f = [places \in (1..Len(p) + 1) \X (1..Len(s) + 1) |->
                            RestMatches(f, p, s, places[1], places[2])]
  BY DEF GlobRest
<1>2. m = [places \in (1..Len(p) + 1) \X (1..Len(s) + 1) |->
                            RestMatches(m, p, s, places[1], places[2])]
  <2> HIDE DEF m
  <2> QED BY <1>1, RestExists
<1> HIDE DEF m
<1>3. m[<<i, j>>] = RestMatches(m, p, s, i, j)
  BY <1>2
<1> QED BY <1>3 DEF m

-----------------------------------------------------------------------------
(* Stars *)

IsStar(p, i) == p[i] = "*"
Suits(p, s, i, j) == p[i] # "*" /\ p[i] \in {"?", s[j]}
Rest(p, s, i, j) == GlobRest(p, s)[<<i, j>>]

\* What the rule says, of the rest from every two places
LEMMA RestIs ==
  ASSUME NEW p, NEW s, Len(p) \in Nat, Len(s) \in Nat,
         NEW i \in 1..Len(p) + 1, NEW j \in 1..Len(s) + 1
  PROVE  /\ i = Len(p) + 1 => (Rest(p, s, i, j) <=> j = Len(s) + 1)
         /\ i <= Len(p) /\ IsStar(p, i) =>
              (Rest(p, s, i, j) <=> Rest(p, s, i + 1, j) \/ (j <= Len(s) /\ Rest(p, s, i, j + 1)))
         /\ i <= Len(p) /\ ~IsStar(p, i) =>
              (Rest(p, s, i, j) <=> j <= Len(s) /\ Suits(p, s, i, j) /\ Rest(p, s, i + 1, j + 1))
         /\ Rest(p, s, i, j) \in BOOLEAN
<1>1. Rest(p, s, i, j) = RestMatches(GlobRest(p, s), p, s, i, j)
  BY GlobRestIs DEF Rest
<1>2. CASE i = Len(p) + 1
  <2>1. i > Len(p) /\ (j > Len(s) <=> j = Len(s) + 1) /\ ~(i <= Len(p))
    BY <1>2
  <2>2. Rest(p, s, i, j) = (j > Len(s))
    BY <1>1, <2>1, Zenon DEF RestMatches
  <2>3. (j > Len(s)) \in BOOLEAN
    OBVIOUS
  <2> QED BY <1>2, <2>1, <2>2, <2>3, Zenon
<1>3. CASE i <= Len(p)
  <2>1. ~(i > Len(p)) /\ i # Len(p) + 1
    BY <1>3
  <2> QED BY <1>1, <1>3, <2>1, Zenon DEF RestMatches, IsStar, Suits, Rest
<1> QED BY <1>2, <1>3

\* A star that matches the rest from a later place does so from here.
LEMMA StarLater ==
  ASSUME NEW p, NEW s, Len(p) \in Nat, Len(s) \in Nat, NEW i \in 1..Len(p), IsStar(p, i),
         NEW j \in 1..Len(s) + 1, NEW k \in j..Len(s) + 1, Rest(p, s, i, k)
  PROVE  Rest(p, s, i, j)
<1> DEFINE Good == {d \in Nat : k - d \in 1..Len(s) + 1 => Rest(p, s, i, k - d)}
<1>1. 0 \in Good
  OBVIOUS
<1>2. ASSUME NEW d \in Nat, d \in Good PROVE d + 1 \in Good
  <2> SUFFICES ASSUME k - (d + 1) \in 1..Len(s) + 1 PROVE Rest(p, s, i, k - (d + 1))
    OBVIOUS
  <2> DEFINE l == k - (d + 1)
  <2>1. l \in 1..Len(s) + 1 /\ l <= Len(s) /\ k - d = l + 1 /\ l + 1 \in 1..Len(s) + 1
    OBVIOUS
  <2>2. Rest(p, s, i, l + 1)
    BY <1>2, <2>1
  <2> HIDE DEF l
  <2>3. i \in 1..Len(p) + 1 /\ i <= Len(p)
    OBVIOUS
  <2>4. Rest(p, s, i, l)
    BY <2>1, <2>2, <2>3, RestIs
  <2> QED BY <2>4 DEF l
<1> HIDE DEF Good
<1>3. k - j \in Good
  <2>1. \A d \in Nat : d \in Good => d + 1 \in Good
    BY <1>2
  <2>2. Nat \subseteq Good
    BY <1>1, <2>1, NumberInduction
  <2> QED BY <2>2
<1>4. k - j \in Nat /\ k - (k - j) = j
  OBVIOUS
<1> QED BY <1>3, <1>4 DEF Good

\* What follows a star matches from some place on.
LEMMA StarChoice ==
  ASSUME NEW p, NEW s, Len(p) \in Nat, Len(s) \in Nat, NEW i \in 1..Len(p), IsStar(p, i),
         NEW j \in 1..Len(s) + 1, Rest(p, s, i, j)
  PROVE  \E k \in j..Len(s) + 1 : Rest(p, s, i + 1, k)
<1> DEFINE Good == {d \in Nat : \A l \in 1..Len(s) + 1 :
                      l + d = Len(s) + 1 /\ Rest(p, s, i, l) =>
                        \E k \in l..Len(s) + 1 : Rest(p, s, i + 1, k)}
<1>1. 0 \in Good
  <2> SUFFICES ASSUME Rest(p, s, i, Len(s) + 1)
               PROVE  \E k \in Len(s) + 1..Len(s) + 1 : Rest(p, s, i + 1, k)
    OBVIOUS
  <2>1. Len(s) + 1 \in 1..Len(s) + 1 /\ ~(Len(s) + 1 <= Len(s)) /\ i \in 1..Len(p) + 1 /\ i <= Len(p)
    OBVIOUS
  <2>2. Rest(p, s, i + 1, Len(s) + 1)
    BY <2>1, RestIs
  <2> QED BY <2>2
<1>2. ASSUME NEW d \in Nat, d \in Good PROVE d + 1 \in Good
  <2> SUFFICES ASSUME NEW l \in 1..Len(s) + 1, l + (d + 1) = Len(s) + 1, Rest(p, s, i, l)
               PROVE  \E k \in l..Len(s) + 1 : Rest(p, s, i + 1, k)
    OBVIOUS
  <2>1. l <= Len(s) /\ l + 1 \in 1..Len(s) + 1 /\ (l + 1) + d = Len(s) + 1 /\ l \in l..Len(s) + 1
    OBVIOUS
  <2>2. Rest(p, s, i + 1, l) \/ Rest(p, s, i, l + 1)
    BY RestIs
  <2>3. Rest(p, s, i, l + 1) => \E k \in l + 1..Len(s) + 1 : Rest(p, s, i + 1, k)
    BY <1>2, <2>1
  <2> QED BY <2>1, <2>2, <2>3
<1> HIDE DEF Good
<1>3. Len(s) + 1 - j \in Good
  <2>1. \A d \in Nat : d \in Good => d + 1 \in Good
    BY <1>2
  <2> QED BY <1>1, <2>1, NumberInduction, SMTT(30)
<1> QED BY <1>3 DEF Good

\* Without stars as many places of the subject are matched as of the pattern.
LEMMA NoStars ==
  ASSUME NEW p, NEW s, Len(p) \in Nat, Len(s) \in Nat, NEW i \in 1..Len(p) + 1,
         NEW j \in 1..Len(s) + 1, Rest(p, s, i, j), NEW n \in Nat, i + n <= Len(p) + 1,
         \A l \in i..i + n - 1 : ~IsStar(p, l)
  PROVE  j + n <= Len(s) + 1 /\ Rest(p, s, i + n, j + n)
<1> DEFINE Good == {d \in Nat : d <= n => j + d <= Len(s) + 1 /\ Rest(p, s, i + d, j + d)}
<1>1. 0 \in Good
  OBVIOUS
<1>2. ASSUME NEW d \in Nat, d \in Good PROVE d + 1 \in Good
  <2> SUFFICES ASSUME d + 1 <= n PROVE j + (d + 1) <= Len(s) + 1 /\ Rest(p, s, i + (d + 1), j + (d + 1))
    OBVIOUS
  <2> DEFINE k == i + d
             l == j + d
  <2>1. k \in 1..Len(p) + 1 /\ k <= Len(p) /\ ~IsStar(p, k) /\ l \in 1..Len(s) + 1 /\ Rest(p, s, k, l)
    BY <1>2
  <2>2. i + (d + 1) = k + 1 /\ j + (d + 1) = l + 1
    OBVIOUS
  <2> HIDE DEF k, l
  <2>3. l <= Len(s) /\ Rest(p, s, k + 1, l + 1)
    BY <2>1, RestIs
  <2> QED BY <2>1, <2>2, <2>3
<1> HIDE DEF Good
<1>3. n \in Good
  <2>1. \A d \in Nat : d \in Good => d + 1 \in Good
    BY <1>2
  <2> QED BY <1>1, <2>1, NumberInduction
<1> QED BY <1>3 DEF Good

-----------------------------------------------------------------------------
(* The loop *)

\* Where the loop is: since the last star, if there was one, pattern and subject
\* went on together, without a star; and the whole matches if the rest does, or
\* the rest that the loop would come back to.
LoopInv(p, s, px, sx, npx, nsx) ==
  /\ px \in 0..Len(p) /\ sx \in 0..Len(s) /\ npx \in Nat /\ nsx \in Nat
  /\ nsx # 0 =>
       /\ npx < Len(p) /\ nsx <= Len(s) + 1 /\ IsStar(p, npx + 1)
       /\ \/ px = npx /\ sx = nsx
          \/ npx < px /\ nsx + px = sx + npx + 2 /\ \A i \in npx + 2..px : ~IsStar(p, i)
  /\ Rest(p, s, 1, 1) <=>
       Rest(p, s, px + 1, sx + 1) \/ (nsx \in 1..Len(s) /\ Rest(p, s, npx + 1, nsx + 1))

LEMMA LoopStarts ==
  ASSUME NEW p, NEW s, Len(p) \in Nat, Len(s) \in Nat
  PROVE  LoopInv(p, s, 0, 0, 0, 0)
BY DEF LoopInv

\* A later star takes the place of an earlier one: what the earlier one could
\* still match the later one can.
LEMMA LoopStar ==
  ASSUME NEW p, NEW s, Len(p) \in Nat, Len(s) \in Nat, NEW px, NEW sx, NEW npx, NEW nsx,
         LoopInv(p, s, px, sx, npx, nsx), px < Len(p), IsStar(p, px + 1)
  PROVE  LoopInv(p, s, px + 1, sx, px, sx + 1)
<1> USE DEF LoopInv
<1>1. /\ px \in 0..Len(p) /\ px + 1 \in 1..Len(p) /\ px + 1 \in 1..Len(p) + 1
      /\ sx \in 0..Len(s) /\ sx + 1 \in 1..Len(s) + 1
  OBVIOUS
<1>2. ASSUME nsx \in 1..Len(s), Rest(p, s, npx + 1, nsx + 1), npx < px
      PROVE  Rest(p, s, px + 1, sx + 1)
  <2> DEFINE n == px - npx - 1
  <2>1. /\ npx + 1 \in 1..Len(p) /\ nsx + 1 \in 1..Len(s) + 1 /\ IsStar(p, npx + 1)
        /\ nsx + px = sx + npx + 2 /\ \A i \in npx + 2..px : ~IsStar(p, i)
        /\ npx \in Nat /\ nsx \in Nat
    BY <1>1, <1>2
  <2>2. PICK k \in nsx + 1..Len(s) + 1 : Rest(p, s, (npx + 1) + 1, k)
    BY <1>2, <2>1, StarChoice
  <2>3. /\ n \in Nat /\ npx + 2 \in 1..Len(p) + 1 /\ k \in 1..Len(s) + 1 /\ (npx + 1) + 1 = npx + 2
        /\ (npx + 2) + n <= Len(p) + 1 /\ (npx + 2) + n = px + 1 /\ (npx + 2) + n - 1 = px
        /\ k + n \in Int /\ sx + 1 <= k + n
    BY <1>1, <1>2, <2>1
  <2> HIDE DEF n
  <2>4. k + n <= Len(s) + 1 /\ Rest(p, s, (npx + 2) + n, k + n)
    BY <2>1, <2>2, <2>3, NoStars
  <2>5. k + n \in sx + 1..Len(s) + 1 /\ Rest(p, s, px + 1, k + n)
    BY <1>1, <2>3, <2>4, SMTT(30)
  <2> QED BY <1>1, <2>5, StarLater
<1>3. nsx \in 1..Len(s) /\ Rest(p, s, npx + 1, nsx + 1) => Rest(p, s, px + 1, sx + 1)
  <2>1. nsx \in 1..Len(s) => npx < px \/ (px = npx /\ sx = nsx)
    OBVIOUS
  <2> QED BY <1>2, <2>1
<1>4. Rest(p, s, 1, 1) <=> Rest(p, s, px + 1, sx + 1)
  BY <1>3
<1>5. Rest(p, s, px + 1, sx + 1) <=>
        Rest(p, s, (px + 1) + 1, sx + 1) \/ (sx + 1 <= Len(s) /\ Rest(p, s, px + 1, (sx + 1) + 1))
  BY <1>1, RestIs, SMTT(30)
<1>6. sx + 1 \in 1..Len(s) <=> sx + 1 <= Len(s)
  BY <1>1
<1>7. \A i \in px + 2..px + 1 : ~IsStar(p, i)
  BY <1>1
<1> QED BY <1>1, <1>4, <1>5, <1>6, <1>7

LEMMA LoopConsumes ==
  ASSUME NEW p, NEW s, Len(p) \in Nat, Len(s) \in Nat, NEW px, NEW sx, NEW npx, NEW nsx,
         LoopInv(p, s, px, sx, npx, nsx), px < Len(p), sx < Len(s),
         ~IsStar(p, px + 1), Suits(p, s, px + 1, sx + 1)
  PROVE  LoopInv(p, s, px + 1, sx + 1, npx, nsx)
<1> USE DEF LoopInv
<1>1. /\ px + 1 \in 1..Len(p) + 1 /\ px + 1 <= Len(p)
      /\ sx + 1 \in 1..Len(s) + 1 /\ sx + 1 <= Len(s) /\ npx \in Nat /\ nsx \in Nat
  OBVIOUS
<1>2. Rest(p, s, px + 1, sx + 1) <=> Rest(p, s, (px + 1) + 1, (sx + 1) + 1)
  BY <1>1, RestIs
<1>3. nsx # 0 => /\ npx < px /\ nsx + px = sx + npx + 2
                 /\ \A i \in npx + 2..px + 1 : ~IsStar(p, i)
  OBVIOUS
<1> QED BY <1>1, <1>2, <1>3

\* Where the loop can neither pass a star nor go on, the rest does not match.
LEMMA Stuck ==
  ASSUME NEW p, NEW s, Len(p) \in Nat, Len(s) \in Nat, NEW px, NEW sx, NEW npx, NEW nsx,
         LoopInv(p, s, px, sx, npx, nsx), px < Len(p) \/ sx < Len(s),
         px < Len(p) => ~IsStar(p, px + 1),
         ~ (px < Len(p) /\ sx < Len(s) /\ Suits(p, s, px + 1, sx + 1))
  PROVE  ~Rest(p, s, px + 1, sx + 1)
<1>1. /\ px \in 0..Len(p) /\ sx \in 0..Len(s)
      /\ px + 1 \in 1..Len(p) + 1 /\ sx + 1 \in 1..Len(s) + 1
  BY DEF LoopInv
<1>2. CASE px < Len(p)
  BY <1>1, <1>2, RestIs
<1>3. CASE ~ (px < Len(p))
  <2>1. px + 1 = Len(p) + 1 /\ sx + 1 # Len(s) + 1
    BY <1>1, <1>3
  <2> QED BY <1>1, <2>1, RestIs
<1> QED BY <1>2, <1>3

LEMMA LoopBack ==
  ASSUME NEW p, NEW s, Len(p) \in Nat, Len(s) \in Nat, NEW px, NEW sx, NEW npx, NEW nsx,
         LoopInv(p, s, px, sx, npx, nsx), ~Rest(p, s, px + 1, sx + 1), nsx \in 1..Len(s)
  PROVE  LoopInv(p, s, npx, nsx, npx, nsx)
BY DEF LoopInv

LEMMA LoopEnds ==
  ASSUME NEW p, NEW s, Len(p) \in Nat, Len(s) \in Nat, NEW px, NEW sx, NEW npx, NEW nsx,
         LoopInv(p, s, px, sx, npx, nsx), px >= Len(p), sx >= Len(s)
  PROVE  Rest(p, s, 1, 1)
<1>1. /\ px + 1 = Len(p) + 1 /\ sx + 1 = Len(s) + 1
      /\ px + 1 \in 1..Len(p) + 1 /\ sx + 1 \in 1..Len(s) + 1
  BY DEF LoopInv
<1>2. Rest(p, s, px + 1, sx + 1)
  BY <1>1, RestIs
<1> QED BY <1>2 DEF LoopInv

-----------------------------------------------------------------------------
(* The bytes of a string *)

\* FlattenSeq goes from the first sequence to the last.
Flattened(f, seqs, i) == IF i = 1 THEN seqs[i] ELSE f[i - 1] \o seqs[i]

LEMMA FlattenExists ==
  ASSUME NEW seqs, Len(seqs) \in Nat
  PROVE  \E f : f = [i \in 1..Len(seqs) |-> Flattened(f, seqs, i)]
<1> DEFINE Good == {d \in Nat : \E f : \A i \in 1..d : f[i] = Flattened(f, seqs, i)}
<1>1. 0 \in Good
  OBVIOUS
<1>2. ASSUME NEW d \in Nat, d \in Good PROVE d + 1 \in Good
  <2>1. PICK f : \A i \in 1..d : f[i] = Flattened(f, seqs, i)
    BY <1>2
  <2> DEFINE g == [i \in 1..d + 1 |-> IF i <= d THEN f[i] ELSE Flattened(f, seqs, i)]
  <2>2. ASSUME NEW i \in 1..d + 1 PROVE g[i] = Flattened(g, seqs, i)
    <3>1. g[i] = IF i <= d THEN f[i] ELSE Flattened(f, seqs, i)
      OBVIOUS
    <3>2. i # 1 => g[i - 1] = f[i - 1]
      OBVIOUS
    <3> HIDE DEF g
    <3>3. Flattened(g, seqs, i) = Flattened(f, seqs, i)
      BY <3>2, Zenon DEF Flattened
    <3> QED BY <2>1, <3>1, <3>3
  <2> HIDE DEF g
  <2> QED BY <2>2
<1>3. Len(seqs) \in Good
  <2> HIDE DEF Good
  <2>1. \A d \in Nat : d \in Good => d + 1 \in Good
    BY <1>2
  <2> QED BY <1>1, <2>1, NumberInduction
<1>4. PICK f : \A i \in 1..Len(seqs) : f[i] = Flattened(f, seqs, i)
  BY <1>3
<1> DEFINE g == [i \in 1..Len(seqs) |-> Flattened(f, seqs, i)]
<1>5. \A i \in 1..Len(seqs) : g[i] = f[i]
  BY <1>4
<1>6. ASSUME NEW i \in 1..Len(seqs) PROVE Flattened(g, seqs, i) = Flattened(f, seqs, i)
  <2>1. i # 1 => g[i - 1] = f[i - 1]
    BY <1>5
  <2> HIDE DEF g
  <2> QED BY <2>1, Zenon DEF Flattened
<1>7. g = [i \in 1..Len(seqs) |-> Flattened(g, seqs, i)]
  BY <1>6
<1> QED BY <1>7

\* The function FlattenSeq is defined by
LEMMA FlattenIs ==
  ASSUME NEW seqs, Len(seqs) \in Nat \ {0}
  PROVE  \E f : /\ \A i \in 1..Len(seqs) : f[i] = Flattened(f, seqs, i)
                /\ Seqs!FlattenSeq(seqs) = f[Len(seqs)]
<1> DEFINE f == CHOOSE g : g = [i \in 1..Len(seqs) |-> Flattened(g, seqs, i)]
<1>1. Seqs!FlattenSeq(seqs) = f[Len(seqs)]
  BY DEF Seqs!FlattenSeq, Flattened
<1>2. f = [i \in 1..Len(seqs) |-> Flattened(f, seqs, i)]
  <2>1. \E g : g = [i \in 1..Len(seqs) |-> Flattened(g, seqs, i)]
    BY FlattenExists
  <2> QED BY <2>1
<1> HIDE DEF f
<1>3. \A i \in 1..Len(seqs) : f[i] = Flattened(f, seqs, i)
  BY <1>2
<1> QED BY <1>1, <1>3

LEMMA FlattenTyped ==
  ASSUME NEW B, NEW seqs \in Seq(Seq(B))
  PROVE  Seqs!FlattenSeq(seqs) \in Seq(B)
<1>1. CASE Len(seqs) = 0
  <2>1. seqs = <<>>
    BY <1>1
  <2> QED BY <1>1, <2>1 DEF Seqs!FlattenSeq
<1>2. CASE Len(seqs) # 0
  <2>1. Len(seqs) \in Nat \ {0}
    BY <1>2
  <2>2. PICK f : /\ \A i \in 1..Len(seqs) : f[i] = Flattened(f, seqs, i)
                 /\ Seqs!FlattenSeq(seqs) = f[Len(seqs)]
    BY <2>1, FlattenIs
  <2> DEFINE Good == {d \in Nat : d + 1 \in 1..Len(seqs) => f[d + 1] \in Seq(B)}
  <2>3. 0 \in Good
    BY <2>2 DEF Flattened
  <2>4. ASSUME NEW d \in Nat, d \in Good PROVE d + 1 \in Good
    <3> SUFFICES ASSUME (d + 1) + 1 \in 1..Len(seqs) PROVE f[(d + 1) + 1] \in Seq(B)
      OBVIOUS
    <3> DEFINE i == (d + 1) + 1
    <3>1. i \in 1..Len(seqs) /\ i # 1 /\ i - 1 = d + 1 /\ d + 1 \in 1..Len(seqs)
      OBVIOUS
    <3>2. f[d + 1] \in Seq(B) /\ seqs[i] \in Seq(B)
      BY <2>4, <3>1
    <3> HIDE DEF i
    <3>3. f[i] = f[d + 1] \o seqs[i]
      BY <2>2, <3>1 DEF Flattened
    <3>4. f[i] \in Seq(B)
      BY <3>2, <3>3
    <3> QED BY <3>4 DEF i
  <2> HIDE DEF Good
  <2>5. \A d \in Nat : d \in Good => d + 1 \in Good
    BY <2>4
  <2>n. Nat \subseteq Good
    BY <2>3, <2>5, NumberInduction
  <2>6. Len(seqs) - 1 \in Good
    BY <2>1, <2>n
  <2>7. (Len(seqs) - 1) + 1 = Len(seqs) /\ Len(seqs) \in 1..Len(seqs)
    BY <2>1
  <2> QED BY <2>2, <2>6, <2>7 DEF Good
<1> QED BY <1>1, <1>2

\* Where every sequence has one element they are put after each other.
LEMMA FlattenOnes ==
  ASSUME NEW C, NEW s \in Seq(C)
  PROVE  Seqs!FlattenSeq([i \in DOMAIN s |-> <<s[i]>>]) = s
<1> DEFINE seqs == [i \in DOMAIN s |-> <<s[i]>>]
<1>0. /\ Len(s) \in Nat /\ DOMAIN s = 1..Len(s) /\ Len(seqs) = Len(s)
      /\ \A i \in 1..Len(s) : seqs[i] = <<s[i]>> /\ s[i] \in C
  OBVIOUS
<1>e. Len(s) = 0 => seqs = s
  OBVIOUS
<1> HIDE DEF seqs
<1>1. CASE Len(s) = 0
  <2>1. Seqs!FlattenSeq(seqs) = seqs
    BY <1>0, <1>1 DEF Seqs!FlattenSeq
  <2> QED BY <1>1, <1>e, <2>1 DEF seqs
<1>2. CASE Len(s) # 0
  <2>1. Len(seqs) \in Nat \ {0}
    BY <1>0, <1>2
  <2>2. PICK f : /\ \A i \in 1..Len(seqs) : f[i] = Flattened(f, seqs, i)
                 /\ Seqs!FlattenSeq(seqs) = f[Len(seqs)]
    BY <2>1, FlattenIs
  <2> DEFINE Good == {d \in Nat : d + 1 \in 1..Len(s) => f[d + 1] = SubSeq(s, 1, d + 1)}
  <2>3. 0 \in Good
    <3>1. 1 \in 1..Len(s) => f[1] = <<s[1]>>
      BY <1>0, <2>2 DEF Flattened
    <3>2. ASSUME 1 \in 1..Len(s) PROVE SubSeq(s, 1, 1) = <<s[1]>>
      <4>1. SubSeq(s, 1, 1) \in Seq(C) /\ Len(SubSeq(s, 1, 1)) = 1 /\ SubSeq(s, 1, 1)[1] = s[1]
        BY <3>2
      <4>2. <<s[1]>> \in Seq(C) /\ Len(<<s[1]>>) = 1 /\ <<s[1]>>[1] = s[1]
        BY <3>2
      <4>3. \A i \in 1..1 : SubSeq(s, 1, 1)[i] = <<s[1]>>[i]
        BY <4>1, <4>2
      <4> QED BY <4>1, <4>2, <4>3, SeqEqual, Zenon
    <3> QED BY <3>1, <3>2
  <2>4. ASSUME NEW d \in Nat, d \in Good PROVE d + 1 \in Good
    <3> SUFFICES ASSUME (d + 1) + 1 \in 1..Len(s) PROVE f[(d + 1) + 1] = SubSeq(s, 1, (d + 1) + 1)
      OBVIOUS
    <3> DEFINE i == (d + 1) + 1
    <3>1. i \in 1..Len(s) /\ i # 1 /\ i - 1 = d + 1 /\ d + 1 \in 1..Len(s) /\ i \in Nat
      OBVIOUS
    <3>2. f[d + 1] = SubSeq(s, 1, d + 1) /\ seqs[i] = <<s[i]>>
      BY <1>0, <2>4, <3>1
    <3> HIDE DEF i
    <3>3. f[i] = SubSeq(s, 1, i - 1) \o <<s[i]>>
      BY <1>0, <2>2, <3>1, <3>2 DEF Flattened
    <3>4. SubSeq(s, 1, i - 1) \o <<s[i]>> = SubSeq(s, 1, i)
      BY <3>1
    <3> QED BY <3>3, <3>4 DEF i
  <2> HIDE DEF Good
  <2>5. \A d \in Nat : d \in Good => d + 1 \in Good
    BY <2>4
  <2>6. Len(s) - 1 \in Good
    BY <1>0, <1>2, <2>3, <2>5, NumberInduction
  <2>7. (Len(s) - 1) + 1 = Len(s) /\ Len(s) \in 1..Len(s)
    BY <1>0, <1>2
  <2>8. SubSeq(s, 1, Len(s)) = s
    OBVIOUS
  <2>9. Seqs!FlattenSeq(seqs) = s
    BY <1>0, <2>2, <2>6, <2>7, <2>8 DEF Good
  <2> QED BY <2>9 DEF seqs
<1> QED BY <1>1, <1>2

-----------------------------------------------------------------------------
(* Strings *)

LowerCase == {Lower[c] : c \in DOMAIN Lower}
AnyByte == UNION {{Bytes[c][i] : i \in DOMAIN Bytes[c]} : c \in DOMAIN Lower}
IsMatch(p, s) == Rest(p, s, 1, 1)

LEMMA LowerTyped ==
  ASSUME StringsHaveBytes, NEW str \in Seq(DOMAIN Lower)
  PROVE  to_lowercase(str) \in Seq(LowerCase)
<1>1. \A i \in DOMAIN str : Lower[str[i]] \in LowerCase
  BY DEF LowerCase
<1>2. DOMAIN str = 1..Len(str) /\ Len(str) \in Nat
  OBVIOUS
<1> QED BY <1>1, <1>2 DEF to_lowercase

LEMMA BytesTyped ==
  ASSUME StringsHaveBytes, NEW str \in Seq(LowerCase)
  PROVE  as_bytes(str) \in Seq(AnyByte) /\ Len(as_bytes(str)) \in Nat
<1> DEFINE seqs == [i \in DOMAIN str |-> Bytes[str[i]]]
<1>1. DOMAIN str = 1..Len(str) /\ Len(str) \in Nat /\ \A i \in 1..Len(str) : str[i] \in LowerCase
  OBVIOUS
<1>2. \A c \in LowerCase : c \in DOMAIN Lower
  BY DEF StringsHaveBytes, LowerCase
<1>3. \A c \in DOMAIN Lower : Bytes[c] \in Seq(AnyByte)
  <2>1. Bytes \in [DOMAIN Lower -> Seq(AnyByte)]
    BY Zenon DEF StringsHaveBytes, AnyByte
  <2> QED BY <2>1
<1>4. seqs \in Seq(Seq(AnyByte))
  BY <1>1, <1>2, <1>3
<1> HIDE DEF seqs
<1>5. Seqs!FlattenSeq(seqs) \in Seq(AnyByte)
  BY <1>4, FlattenTyped
<1>6. as_bytes(str) \in Seq(AnyByte)
  BY <1>5 DEF as_bytes, seqs
<1> QED BY <1>6

LEMMA OneByte ==
  ASSUME OneByteEach, NEW str \in Seq(LowerCase)
  PROVE  as_bytes(str) = str
<1>1. DOMAIN str = 1..Len(str) /\ \A i \in DOMAIN str : str[i] \in LowerCase
  OBVIOUS
<1>2. \A i \in DOMAIN str : Bytes[str[i]] = <<str[i]>>
  BY <1>1 DEF OneByteEach, LowerCase
<1>3. [i \in DOMAIN str |-> Bytes[str[i]]] = [i \in DOMAIN str |-> <<str[i]>>]
  BY <1>2, Zenon
<1> QED BY <1>3, FlattenOnes DEF as_bytes

LEMMA MatchIs ==
  ASSUME NEW p, NEW s, Len(p) \in Nat, Len(s) \in Nat
  PROVE  GlobMatch(p, s) = IsMatch(p, s) /\ GlobMatch(p, s) \in BOOLEAN
<1>1. 1 \in 1..Len(p) + 1 /\ 1 \in 1..Len(s) + 1
  OBVIOUS
<1>2. Rest(p, s, 1, 1) \in BOOLEAN
  BY <1>1, RestIs
<1> QED BY <1>2 DEF GlobMatch, IsMatch, Rest

-----------------------------------------------------------------------------
(* Short cuts *)

\* A star alone matches everything.
LEMMA StarMatchesAll ==
  ASSUME NEW s, Len(s) \in Nat
  PROVE  GlobMatch(<<"*">>, s)
<1> DEFINE p == <<"*">>
<1>1. Len(p) = 1 /\ IsStar(p, 1)
  BY DEF IsStar
<1> HIDE DEF p
<1>2. /\ Len(p) \in Nat /\ 1 \in 1..Len(p) /\ 1 \in 1..Len(p) + 1 /\ 1 <= Len(p) /\ 1 + 1 = Len(p) + 1
      /\ 1 + 1 \in 1..Len(p) + 1
      /\ 1 \in 1..Len(s) + 1 /\ Len(s) + 1 \in 1..Len(s) + 1
  BY <1>1
<1>3. Rest(p, s, 1 + 1, Len(s) + 1)
  BY <1>2, RestIs
<1>4. Rest(p, s, 1, Len(s) + 1)
  BY <1>1, <1>2, <1>3, RestIs
<1>5. Rest(p, s, 1, 1)
  BY <1>1, <1>2, <1>4, StarLater
<1> QED BY <1>5 DEF GlobMatch, Rest, p

\* Whatever it is, a text matches itself.
LEMMA MatchesItself ==
  ASSUME NEW p, Len(p) \in Nat
  PROVE  GlobMatch(p, p)
<1> DEFINE Good == {d \in Nat : \A i \in 1..Len(p) + 1 : i + d = Len(p) + 1 => Rest(p, p, i, i)}
<1>1. 0 \in Good
  <2>1. Len(p) + 1 \in 1..Len(p) + 1
    OBVIOUS
  <2>2. Rest(p, p, Len(p) + 1, Len(p) + 1)
    BY <2>1, RestIs
  <2> QED BY <2>2
<1>2. ASSUME NEW d \in Nat, d \in Good PROVE d + 1 \in Good
  <2> SUFFICES ASSUME NEW i \in 1..Len(p) + 1, i + (d + 1) = Len(p) + 1 PROVE Rest(p, p, i, i)
    OBVIOUS
  <2>1. i <= Len(p) /\ i + 1 \in 1..Len(p) + 1 /\ (i + 1) + d = Len(p) + 1 /\ i \in 1..Len(p)
    OBVIOUS
  <2>2. Rest(p, p, i + 1, i + 1)
    BY <1>2, <2>1
  <2>3. CASE IsStar(p, i)
    <3>1. Rest(p, p, i, i + 1)
      BY <2>1, <2>2, <2>3, RestIs
    <3>2. i + 1 \in i..Len(p) + 1
      BY <2>1
    <3> QED BY <2>1, <2>3, <3>1, <3>2, StarLater
  <2>4. CASE ~IsStar(p, i)
    <3>1. Suits(p, p, i, i)
      BY <2>4 DEF Suits, IsStar
    <3> QED BY <2>1, <2>2, <2>4, <3>1, RestIs
  <2> QED BY <2>3, <2>4
<1> HIDE DEF Good
<1>3. \A d \in Nat : d \in Good => d + 1 \in Good
  BY <1>2
<1>4. Nat \subseteq Good
  BY <1>1, <1>3, NumberInduction
<1>5. Len(p) \in Good
  BY <1>4
<1>6. Rest(p, p, 1, 1)
  BY <1>5 DEF Good
<1> QED BY <1>6 DEF GlobMatch, Rest

\* Without wildcards nothing else does.
LEMMA OnlyItself ==
  ASSUME NEW C, NEW p \in Seq(C), NEW s \in Seq(C),
         \A i \in 1..Len(p) : p[i] # "*" /\ p[i] # "?", GlobMatch(p, s)
  PROVE  p = s
<1>0. Len(p) \in Nat /\ Len(s) \in Nat /\ 1 \in 1..Len(p) + 1 /\ 1 \in 1..Len(s) + 1
  OBVIOUS
<1>1. Rest(p, s, 1, 1) /\ \A i \in 1..Len(p) : ~IsStar(p, i)
  BY DEF GlobMatch, Rest, IsStar
<1>2. ASSUME NEW n \in Nat, n <= Len(p)
      PROVE  1 + n \in 1..Len(p) + 1 /\ 1 + n \in 1..Len(s) + 1 /\ Rest(p, s, 1 + n, 1 + n)
  <2>1. 1 + n <= Len(p) + 1 /\ \A l \in 1..1 + n - 1 : ~IsStar(p, l)
    BY <1>0, <1>1, <1>2
  <2>2. 1 + n <= Len(s) + 1 /\ Rest(p, s, 1 + n, 1 + n)
    BY <1>0, <1>1, <2>1, NoStars
  <2> QED BY <1>0, <2>1, <2>2
<1>3. Len(s) = Len(p)
  <2>1. /\ Len(p) + 1 \in 1..Len(p) + 1 /\ Len(p) + 1 \in 1..Len(s) + 1 /\ 1 + Len(p) = Len(p) + 1
        /\ Rest(p, s, Len(p) + 1, Len(p) + 1)
    BY <1>0, <1>2
  <2>2. Len(p) + 1 = Len(s) + 1
    BY <1>0, <2>1, RestIs
  <2> QED BY <1>0, <2>2
<1>4. ASSUME NEW i \in 1..Len(p) PROVE p[i] = s[i]
  <2>1. i - 1 \in Nat /\ i - 1 <= Len(p) /\ 1 + (i - 1) = i /\ i <= Len(p)
    BY <1>0
  <2>2. i \in 1..Len(p) + 1 /\ i \in 1..Len(s) + 1 /\ Rest(p, s, i, i)
    BY <1>2, <2>1
  <2>3. Suits(p, s, i, i)
    BY <1>0, <1>1, <2>1, <2>2, RestIs
  <2> QED BY <2>3 DEF Suits
<1> QED BY <1>3, <1>4, SeqEqual

-----------------------------------------------------------------------------
(* Calls and cache *)

Calls ==
  [pc : {"idle", "cache", "loop", "returns"}, subject : Seq(LowerCase), px : Nat, sx : Nat,
   next_px : Nat, next_sx : Nat, result : BOOLEAN]

\* Before and in the loop its invariant holds, an answer is the language of globs.
RightCalls(pattern) ==
  {c \in Calls :
     /\ c.pc \in {"cache", "loop"} =>
          LoopInv(as_bytes(pattern), as_bytes(c.subject), c.px, c.sx, c.next_px, c.next_sx)
     /\ OneByteEach /\ c.pc = "returns" => c.result = GlobMatch(pattern, c.subject)}

RightEntries(pattern) ==
  {e \in [subject : Seq(LowerCase), result : BOOLEAN] :
     e.result = GlobMatch(as_bytes(pattern), as_bytes(e.subject))}

GlobInv ==
  /\ pattern_lower \in Seq(LowerCase)
  /\ matching \in [Matchers -> RightCalls(pattern_lower)]
  /\ cache \in Seq(RightEntries(pattern_lower))

LEMMA IdleIsRight == ASSUME NEW pattern PROVE Idle \in RightCalls(pattern)
<1>1. <<>> \in Seq(LowerCase)
  OBVIOUS
<1> QED BY <1>1 DEF Idle, RightCalls, Calls

LEMMA GlobInitially == ASSUME StringsHaveBytes PROVE GlobInit => GlobInv
<1> SUFFICES ASSUME GlobInit PROVE GlobInv
  OBVIOUS
<1>1. PICK pattern \in Patterns : pattern_lower = to_lowercase(pattern)
  BY DEF GlobInit
<1>2. pattern_lower \in Seq(LowerCase)
  BY <1>1, LowerTyped DEF StringsHaveBytes
<1>3. matching \in [Matchers -> RightCalls(pattern_lower)]
  BY IdleIsRight DEF GlobInit
<1>4. cache \in Seq(RightEntries(pattern_lower))
  BY DEF GlobInit
<1> QED BY <1>2, <1>3, <1>4 DEF GlobInv

\* What answers for the bytes answers for the characters, where they are the same.
LEMMA AnswerIsRight ==
  ASSUME StringsHaveBytes, NEW pattern \in Seq(LowerCase), NEW c \in Calls, NEW result \in BOOLEAN,
         result = GlobMatch(as_bytes(pattern), as_bytes(c.subject))
  PROVE  [c EXCEPT !.pc = "returns", !.result = result] \in RightCalls(pattern)
<1>1. c.subject \in Seq(LowerCase)
  BY DEF Calls
<1>2. OneByteEach => result = GlobMatch(pattern, c.subject)
  BY <1>1, OneByte
<1> DEFINE d == [c EXCEPT !.pc = "returns", !.result = result]
<1>3. d \in Calls /\ d.pc = "returns" /\ d.result = result /\ d.subject = c.subject
  BY DEF Calls
<1> HIDE DEF d
<1>4. d \in RightCalls(pattern)
  BY <1>2, <1>3 DEF RightCalls
<1> QED BY <1>4 DEF d

LEMMA GotoKeeps ==
  ASSUME GlobInv, NEW th \in Matchers, NEW next \in RightCalls(pattern_lower), Goto(th, next)
  PROVE  matching' \in [Matchers -> RightCalls(pattern_lower)]
BY DEF Goto, GlobInv

\* Entries are only moved and thrown out.
LEMMA TouchedTyped ==
  ASSUME GlobInv, NEW e \in RightEntries(pattern_lower)
  PROVE  Touched(e) \in Seq(RightEntries(pattern_lower))
<1> DEFINE E == RightEntries(pattern_lower)
<1>1. cache \in Seq(E) /\ e \in E
  BY DEF GlobInv
<1> HIDE DEF E
<1>2. Others(e.subject) \in Seq(E)
  <2>1. CASE Cached(e.subject) = {}
    BY <1>1, <2>1 DEF Others
  <2>2. CASE Cached(e.subject) # {}
    <3> DEFINE i == CHOOSE k \in Cached(e.subject) : TRUE
    <3>1. i \in DOMAIN cache
      BY <2>2 DEF Cached
    <3> HIDE DEF i
    <3>2. SubSeq(cache, 1, i - 1) \in Seq(E) /\ SubSeq(cache, i + 1, Len(cache)) \in Seq(E)
      BY <1>1, <3>1
    <3>3. Seqs!RemoveAt(cache, i) \in Seq(E)
      BY <3>2 DEF Seqs!RemoveAt
    <3> QED BY <2>2, <3>3 DEF Others, i
  <2> QED BY <2>1, <2>2
<1>3. <<e>> \in Seq(E)
  BY <1>1
<1>4. Touched(e) \in Seq(E)
  BY <1>2, <1>3 DEF Touched
<1> QED BY <1>4 DEF E

LEMMA PutKeeps ==
  ASSUME StringsHaveBytes, GlobInv, NEW th \in Matchers, NEW result \in BOOLEAN, CachePut(th, result),
         result = GlobMatch(as_bytes(pattern_lower), as_bytes(matching[th].subject))
  PROVE  cache' \in Seq(RightEntries(pattern_lower))
<1> DEFINE e == [subject |-> matching[th].subject, result |-> result]
           E == RightEntries(pattern_lower)
<1>1. e \in RightEntries(pattern_lower)
  BY DEF RightEntries, GlobInv, RightCalls, Calls
<1>2. Touched(e) \in Seq(E)
  BY <1>1, TouchedTyped
<1>3. CacheSize \in Nat
  BY DEF StringsHaveBytes
<1> HIDE DEF E
<1>4. SubSeq(Touched(e), 1, IF Len(Touched(e)) < CacheSize THEN Len(Touched(e)) ELSE CacheSize) \in Seq(E)
  <2> HIDE DEF e
  <2> QED BY <1>2, <1>3
<1> QED BY <1>4 DEF CachePut, E

-----------------------------------------------------------------------------
(* Steps *)

LEMMA MatchesKeeps ==
  ASSUME StringsHaveBytes, GlobInv, NEW th \in Matchers, NEW subject \in Subjects,
         glob_matches(th, subject)
  PROVE  GlobInv'
<1> DEFINE lower == to_lowercase(subject)
           p == pattern_lower
           next == [Idle EXCEPT !.subject = lower, !.pc = "returns"]
           wild == Seqs!Contains(p, "*") \/ Seqs!Contains(p, "?")
<1>1. lower \in Seq(LowerCase) /\ p \in Seq(LowerCase)
  BY LowerTyped DEF StringsHaveBytes, GlobInv
<1>2. Len(lower) \in Nat /\ Len(p) \in Nat
  BY <1>1
<1>3. p = <<"*">> => GlobMatch(p, lower)
  BY <1>2, StarMatchesAll
<1>4. p = lower => GlobMatch(p, lower)
  BY <1>2, MatchesItself
<1>5. p # lower /\ ~wild => GlobMatch(p, lower) = FALSE
  <2>1. ~wild => \A i \in 1..Len(p) : p[i] # "*" /\ p[i] # "?"
    BY DEF Seqs!Contains
  <2> QED BY <1>1, <1>2, <2>1, OnlyItself, MatchIs
<1>6. [next EXCEPT !.result = TRUE] \in Calls /\ next \in Calls /\ [next EXCEPT !.pc = "cache"] \in Calls
  BY <1>1 DEF Idle, Calls
<1>7. GlobMatch(p, lower) => [next EXCEPT !.result = TRUE] \in RightCalls(p)
  BY <1>2, <1>6, MatchIs DEF RightCalls, Idle
<1>8. GlobMatch(p, lower) = FALSE => next \in RightCalls(p)
  BY <1>6 DEF RightCalls, Idle
<1>9. [next EXCEPT !.pc = "cache"] \in RightCalls(p)
  <2>1. LoopInv(as_bytes(p), as_bytes(lower), 0, 0, 0, 0)
    BY <1>1, BytesTyped, LoopStarts
  <2> QED BY <1>6, <2>1 DEF RightCalls, Idle
<1>10. \E c \in RightCalls(p) : Goto(th, c)
  <2>1. \/ p = <<"*">> /\ Goto(th, [next EXCEPT !.result = TRUE])
        \/ p = lower /\ Goto(th, [next EXCEPT !.result = TRUE])
        \/ p # lower /\ ~wild /\ Goto(th, next)
        \/ Goto(th, [next EXCEPT !.pc = "cache"])
    BY Zenon DEF glob_matches
  <2> HIDE DEF next, wild, lower, p
  <2> QED BY <1>3, <1>4, <1>5, <1>7, <1>8, <1>9, <2>1
<1>11. matching' \in [Matchers -> RightCalls(p)] /\ UNCHANGED <<pattern_lower, cache>>
  BY <1>10, GotoKeeps DEF glob_matches
<1> QED BY <1>11 DEF GlobInv

LEMMA LookUpKeeps ==
  ASSUME StringsHaveBytes, GlobInv, NEW th \in Matchers, LookUp(th)
  PROVE  GlobInv'
<1> DEFINE p == pattern_lower
           c == matching[th]
<1>1. p \in Seq(LowerCase) /\ c \in Calls /\ c \in RightCalls(p) /\ c.subject \in Seq(LowerCase)
  BY DEF GlobInv, RightCalls, Calls
<1>2. UNCHANGED pattern_lower
  BY DEF LookUp
<1>3. CASE CacheHit(th)
  <2>1. PICK i \in Cached(c.subject) : /\ cache' = Touched(cache[i])
                                        /\ AnswerMatch(th, cache[i].result)
    BY <1>3 DEF CacheHit
  <2>2. cache[i] \in RightEntries(p) /\ cache[i].subject = c.subject
    BY DEF GlobInv, Cached
  <2>3. cache' \in Seq(RightEntries(p))
    BY <2>1, <2>2, TouchedTyped
  <2>4. /\ cache[i].result \in BOOLEAN
        /\ cache[i].result = GlobMatch(as_bytes(p), as_bytes(c.subject))
    BY <2>2 DEF RightEntries
  <2> DEFINE d == [c EXCEPT !.pc = "returns", !.result = cache[i].result]
  <2>5. d \in RightCalls(p)
    <3> HIDE DEF c, p
    <3> QED BY <1>1, <2>4, AnswerIsRight
  <2>6. Goto(th, d)
    BY <2>1 DEF AnswerMatch
  <2> HIDE DEF d
  <2>7. matching' \in [Matchers -> RightCalls(p)]
    BY <2>5, <2>6, GotoKeeps
  <2> QED BY <1>1, <1>2, <2>3, <2>7 DEF GlobInv
<1>4. CASE c.pc = "cache" /\ Goto(th, [c EXCEPT !.pc = "loop"]) /\ UNCHANGED cache
  <2> DEFINE d == [c EXCEPT !.pc = "loop"]
  <2>1. d \in Calls /\ d.pc = "loop" /\ d.subject = c.subject
    BY <1>1 DEF Calls
  <2>2. /\ d.px = c.px /\ d.sx = c.sx /\ d.next_px = c.next_px /\ d.next_sx = c.next_sx
    BY <1>1 DEF Calls
  <2>3. LoopInv(as_bytes(p), as_bytes(c.subject), c.px, c.sx, c.next_px, c.next_sx)
    BY <1>1, <1>4 DEF RightCalls
  <2>4. Goto(th, d)
    BY <1>4
  <2> HIDE DEF d, c, p
  <2>5. d \in RightCalls(p)
    BY <2>1, <2>2, <2>3 DEF RightCalls
  <2>6. matching' \in [Matchers -> RightCalls(p)]
    BY <2>4, <2>5, GotoKeeps DEF p
  <2> QED BY <1>1, <1>2, <1>4, <2>6 DEF GlobInv, p
<1> QED BY <1>3, <1>4 DEF LookUp

\* In the loop: where a call is and what it may still match
LEMMA LoopIs ==
  ASSUME StringsHaveBytes, GlobInv, NEW th \in Matchers, matching[th].pc = "loop"
  PROVE  LET c == matching[th]
         IN /\ c \in Calls /\ c \in RightCalls(pattern_lower) /\ pattern_lower \in Seq(LowerCase)
            /\ LoopInv(Pattern, Subject(th), c.px, c.sx, c.next_px, c.next_sx)
            /\ Len(Pattern) \in Nat /\ Len(Subject(th)) \in Nat
            /\ GlobMatch(Pattern, Subject(th)) = IsMatch(Pattern, Subject(th))
            /\ GlobMatch(Pattern, Subject(th)) \in BOOLEAN
<1> DEFINE c == matching[th]
<1>1. c \in Calls /\ c \in RightCalls(pattern_lower) /\ pattern_lower \in Seq(LowerCase)
  BY DEF GlobInv, RightCalls
<1>2. LoopInv(Pattern, Subject(th), c.px, c.sx, c.next_px, c.next_sx)
  BY <1>1 DEF RightCalls, Pattern, Subject
<1>3. Len(Pattern) \in Nat /\ Len(Subject(th)) \in Nat
  <2>1. c.subject \in Seq(LowerCase)
    BY <1>1 DEF Calls
  <2> QED BY <1>1, <2>1, BytesTyped DEF Pattern, Subject
<1> QED BY <1>1, <1>2, <1>3, MatchIs

\* An answer of the loop: what it says is stored and returned.
LEMMA AnswerKeeps ==
  ASSUME StringsHaveBytes, GlobInv, NEW th \in Matchers, NEW result \in BOOLEAN,
         matching[th].pc = "loop", result = GlobMatch(Pattern, Subject(th)),
         CachePut(th, result), AnswerMatch(th, result), UNCHANGED pattern_lower
  PROVE  GlobInv'
<1> DEFINE c == matching[th]
           d == [c EXCEPT !.pc = "returns", !.result = result]
<1>1. result = GlobMatch(as_bytes(pattern_lower), as_bytes(c.subject))
  BY DEF Pattern, Subject
<1>2. c \in Calls /\ pattern_lower \in Seq(LowerCase)
  BY LoopIs
<1>3. cache' \in Seq(RightEntries(pattern_lower))
  BY <1>1, PutKeeps
<1>4. d \in RightCalls(pattern_lower)
  <2> HIDE DEF c
  <2> QED BY <1>1, <1>2, AnswerIsRight
<1>5. Goto(th, d)
  BY DEF AnswerMatch
<1> HIDE DEF d
<1>6. matching' \in [Matchers -> RightCalls(pattern_lower)]
  BY <1>4, <1>5, GotoKeeps
<1> QED BY <1>2, <1>3, <1>6 DEF GlobInv

\* A call that goes on in the loop
LEMMA StaysKeeps ==
  ASSUME GlobInv, NEW th \in Matchers, matching[th].pc = "loop", NEW d \in Calls,
         d.pc = "loop", d.subject = matching[th].subject,
         LoopInv(Pattern, Subject(th), d.px, d.sx, d.next_px, d.next_sx),
         Goto(th, d), UNCHANGED <<pattern_lower, cache>>
  PROVE  GlobInv'
<1>1. d \in RightCalls(pattern_lower)
  BY DEF RightCalls, Pattern, Subject
<1>2. matching' \in [Matchers -> RightCalls(pattern_lower)]
  BY <1>1, GotoKeeps
<1> QED BY <1>2 DEF GlobInv

\* What the steps of the loop make of a call
LEMMA StarStays ==
  ASSUME NEW c \in Calls
  PROVE  LET d == Star(c)
         IN /\ d \in Calls /\ d.pc = c.pc /\ d.subject = c.subject
            /\ d.px = c.px + 1 /\ d.sx = c.sx /\ d.next_px = c.px /\ d.next_sx = c.sx + 1
<1>1. c.px + 1 \in Nat /\ c.sx + 1 \in Nat /\ c.px \in Nat
  BY DEF Calls
<1>3. PICK i \in Nat, j \in Nat, k \in Nat : i = c.px /\ j = c.sx + 1 /\ k = c.px + 1
  BY <1>1
<1>4. Star(c) = [c EXCEPT !.next_px = i, !.next_sx = j, !.px = k]
  BY <1>3 DEF Star
<1>5. /\ Star(c) \in Calls /\ Star(c).pc = c.pc /\ Star(c).subject = c.subject
      /\ Star(c).px = k /\ Star(c).sx = c.sx /\ Star(c).next_px = i /\ Star(c).next_sx = j
  BY <1>4 DEF Calls
<1> QED BY <1>3, <1>5

LEMMA StepStays ==
  ASSUME NEW c \in Calls
  PROVE  LET d == [c EXCEPT !.px = c.px + 1, !.sx = c.sx + 1]
         IN /\ d \in Calls /\ d.pc = c.pc /\ d.subject = c.subject
            /\ d.px = c.px + 1 /\ d.sx = c.sx + 1
            /\ d.next_px = c.next_px /\ d.next_sx = c.next_sx
<1>1. c.px + 1 \in Nat /\ c.sx + 1 \in Nat
  BY DEF Calls
<1>2. ASSUME NEW i \in Nat, NEW j \in Nat
      PROVE  LET d == [c EXCEPT !.px = i, !.sx = j]
             IN /\ d \in Calls /\ d.pc = c.pc /\ d.subject = c.subject
                /\ d.px = i /\ d.sx = j /\ d.next_px = c.next_px /\ d.next_sx = c.next_sx
  BY DEF Calls
<1> QED BY <1>1, <1>2, Zenon

LEMMA BackStays ==
  ASSUME NEW c \in Calls
  PROVE  LET d == Backtrack(c)
         IN /\ d \in Calls /\ d.pc = c.pc /\ d.subject = c.subject
            /\ d.px = c.next_px /\ d.sx = c.next_sx
            /\ d.next_px = c.next_px /\ d.next_sx = c.next_sx
BY DEF Backtrack, Calls

LEMMA RoundKeeps ==
  ASSUME StringsHaveBytes, GlobInv, NEW th \in Matchers, Round(th)
  PROVE  GlobInv'
<1> DEFINE c        == matching[th]
           p        == Pattern
           s        == Subject(th)
           moreP    == c.px < Len(p)
           moreS    == c.sx < Len(s)
           star     == moreP /\ p[c.px + 1] = "*"
           consumes == moreP /\ moreS /\ ~star /\ p[c.px + 1] \in {"?", s[c.sx + 1]}
           back     == 0 < c.next_sx /\ c.next_sx <= Len(s)
<1>1. /\ c.pc = "loop" /\ (moreP \/ moreS)
      /\ \/ star /\ Goto(th, Star(c)) /\ UNCHANGED cache
         \/ /\ consumes /\ Goto(th, [c EXCEPT !.px = c.px + 1, !.sx = c.sx + 1])
            /\ UNCHANGED cache
         \/ ~star /\ ~consumes /\ back /\ Goto(th, Backtrack(c)) /\ UNCHANGED cache
         \/ ~star /\ ~consumes /\ ~back /\ CachePut(th, FALSE) /\ AnswerMatch(th, FALSE)
      /\ UNCHANGED pattern_lower
  BY Zenon DEF Round
<1>0. c.pc = "loop" /\ UNCHANGED pattern_lower
  BY <1>1
<1>2. /\ c \in Calls /\ LoopInv(p, s, c.px, c.sx, c.next_px, c.next_sx)
      /\ Len(p) \in Nat /\ Len(s) \in Nat
      /\ GlobMatch(p, s) = IsMatch(p, s) /\ GlobMatch(p, s) \in BOOLEAN
  BY <1>1, LoopIs
<1>3. c.px \in Nat /\ c.sx \in Nat /\ c.next_px \in Nat /\ c.next_sx \in Nat
  BY <1>2 DEF Calls
<1>4. CASE star /\ Goto(th, Star(c)) /\ UNCHANGED cache
  <2>1. IsStar(p, c.px + 1) /\ c.px < Len(p)
    BY <1>4 DEF IsStar
  <2> DEFINE d == Star(c)
  <2>2. /\ d \in Calls /\ d.pc = "loop" /\ d.subject = c.subject
        /\ d.px = c.px + 1 /\ d.sx = c.sx /\ d.next_px = c.px /\ d.next_sx = c.sx + 1
    BY <1>0, <1>2, <1>3, StarStays
  <2> HIDE DEF d, p, s
  <2>3. LoopInv(p, s, d.px, d.sx, d.next_px, d.next_sx)
    BY <1>2, <2>1, <2>2, LoopStar
  <2>4. Goto(th, d)
    BY <1>4 DEF d
  <2>5. UNCHANGED <<pattern_lower, cache>>
    BY <1>0, <1>4
  <2> HIDE DEF c
  <2> QED BY <1>0, <2>2, <2>3, <2>4, <2>5, StaysKeeps DEF p, s, c
<1>5. CASE consumes /\ Goto(th, [c EXCEPT !.px = c.px + 1, !.sx = c.sx + 1]) /\ UNCHANGED cache
  <2>1. ~IsStar(p, c.px + 1) /\ c.px < Len(p) /\ c.sx < Len(s) /\ Suits(p, s, c.px + 1, c.sx + 1)
    BY <1>5 DEF IsStar, Suits
  <2> DEFINE d == [c EXCEPT !.px = c.px + 1, !.sx = c.sx + 1]
  <2>2. /\ d \in Calls /\ d.pc = "loop" /\ d.subject = c.subject
        /\ d.px = c.px + 1 /\ d.sx = c.sx + 1 /\ d.next_px = c.next_px /\ d.next_sx = c.next_sx
    BY <1>0, <1>2, <1>3, StepStays
  <2>4. Goto(th, d)
    BY <1>5
  <2> HIDE DEF d, p, s
  <2>3. LoopInv(p, s, d.px, d.sx, d.next_px, d.next_sx)
    BY <1>2, <2>1, <2>2, LoopConsumes
  <2>5. UNCHANGED <<pattern_lower, cache>>
    BY <1>0, <1>5
  <2> HIDE DEF c
  <2> QED BY <1>0, <2>2, <2>3, <2>4, <2>5, StaysKeeps DEF p, s, c
<1>6. ASSUME ~star, ~consumes PROVE ~Rest(p, s, c.px + 1, c.sx + 1)
  <2>1. moreP => ~IsStar(p, c.px + 1)
    BY <1>6 DEF IsStar
  <2>2. ~ (moreP /\ moreS /\ Suits(p, s, c.px + 1, c.sx + 1))
    BY <1>6 DEF Suits
  <2>3. moreP \/ moreS
    BY <1>1
  <2> HIDE DEF p, s
  <2> QED BY <1>2, <2>1, <2>2, <2>3, Stuck
<1>7. CASE ~star /\ ~consumes /\ back /\ Goto(th, Backtrack(c)) /\ UNCHANGED cache
  <2> DEFINE d == Backtrack(c)
  <2>1. c.next_sx \in 1..Len(s) /\ ~Rest(p, s, c.px + 1, c.sx + 1)
    BY <1>2, <1>3, <1>6, <1>7
  <2>2. /\ d \in Calls /\ d.pc = "loop" /\ d.subject = c.subject
        /\ d.px = c.next_px /\ d.sx = c.next_sx /\ d.next_px = c.next_px /\ d.next_sx = c.next_sx
    BY <1>0, <1>2, <1>3, BackStays
  <2>4. Goto(th, d)
    BY <1>7
  <2> HIDE DEF d, p, s
  <2>3. LoopInv(p, s, d.px, d.sx, d.next_px, d.next_sx)
    BY <1>2, <2>1, <2>2, LoopBack
  <2>5. UNCHANGED <<pattern_lower, cache>>
    BY <1>0, <1>7
  <2> HIDE DEF c
  <2> QED BY <1>0, <2>2, <2>3, <2>4, <2>5, StaysKeeps DEF p, s, c
<1>8. CASE ~star /\ ~consumes /\ ~back /\ CachePut(th, FALSE) /\ AnswerMatch(th, FALSE)
  <2>1. ~ (c.next_sx \in 1..Len(s)) /\ ~Rest(p, s, c.px + 1, c.sx + 1)
    BY <1>3, <1>6, <1>8
  <2>2. ~IsMatch(p, s)
    <3> HIDE DEF p, s
    <3> QED BY <1>2, <2>1 DEF LoopInv, IsMatch
  <2>3. FALSE = GlobMatch(p, s)
    BY <1>2, <2>2
  <2>4. CachePut(th, FALSE) /\ AnswerMatch(th, FALSE)
    BY <1>8
  <2> QED BY <1>0, <2>3, <2>4, AnswerKeeps
<1> QED BY <1>1, <1>4, <1>5, <1>7, <1>8

LEMMA ConsumedKeeps ==
  ASSUME StringsHaveBytes, GlobInv, NEW th \in Matchers, Consumed(th)
  PROVE  GlobInv'
<1> DEFINE c == matching[th]
           p == Pattern
           s == Subject(th)
<1>1. /\ c.pc = "loop" /\ c.px >= Len(p) /\ c.sx >= Len(s)
      /\ CachePut(th, TRUE) /\ AnswerMatch(th, TRUE) /\ UNCHANGED pattern_lower
  BY DEF Consumed
<1>2. /\ LoopInv(p, s, c.px, c.sx, c.next_px, c.next_sx)
      /\ Len(p) \in Nat /\ Len(s) \in Nat
      /\ GlobMatch(p, s) = IsMatch(p, s) /\ GlobMatch(p, s) \in BOOLEAN
  BY <1>1, LoopIs
<1>3. IsMatch(p, s)
  <2> HIDE DEF p, s
  <2> QED BY <1>1, <1>2, LoopEnds DEF IsMatch
<1>4. TRUE = GlobMatch(p, s)
  BY <1>2, <1>3
<1> QED BY <1>1, <1>4, AnswerKeeps

LEMMA GlobInvHolds == ASSUME StringsHaveBytes PROVE GlobSpec => []GlobInv
<1>1. GlobInit => GlobInv
  BY GlobInitially
<1>2. GlobInv /\ [GlobNext]_globVars => GlobInv'
  <2> SUFFICES ASSUME GlobInv, [GlobNext]_globVars PROVE GlobInv'
    OBVIOUS
  <2>1. CASE UNCHANGED globVars
    BY <2>1 DEF globVars, GlobInv
  <2>2. ASSUME NEW th \in Matchers, Return(th) PROVE GlobInv'
    <3>1. matching' \in [Matchers -> RightCalls(pattern_lower)]
      BY <2>2, IdleIsRight, GotoKeeps DEF Return
    <3> QED BY <2>2, <3>1 DEF Return, GlobInv
  <2>3. CASE GlobNext
    BY <2>2, <2>3, MatchesKeeps, LookUpKeeps, RoundKeeps, ConsumedKeeps DEF GlobNext, Runs
  <2> QED BY <2>1, <2>3
<1> QED BY <1>1, <1>2, PTL DEF GlobSpec

-----------------------------------------------------------------------------

LEMMA GlobInvSays ==
  ASSUME StringsHaveBytes, GlobInv
  PROVE  LastStarSuffices /\ CacheAgrees /\ (OneByteEach => MatchesGlob)
<1>1. ASSUME NEW th \in Matchers, matching[th].pc = "loop"
      PROVE  LET c    == matching[th]
                 rest == GlobRest(Pattern, Subject(th))
             IN rest[<<1, 1>>] = \/ rest[<<c.px + 1, c.sx + 1>>]
                                 \/ /\ c.next_sx \in 1..Len(Subject(th))
                                    /\ rest[<<c.next_px + 1, c.next_sx + 1>>]
  <2> DEFINE c == matching[th]
             p == Pattern
             s == Subject(th)
  <2>1. /\ LoopInv(p, s, c.px, c.sx, c.next_px, c.next_sx)
        /\ Len(p) \in Nat /\ Len(s) \in Nat
    BY <1>1, LoopIs
  <2> HIDE DEF p, s
  <2>2. Rest(p, s, 1, 1) <=>
          Rest(p, s, c.px + 1, c.sx + 1)
            \/ (c.next_sx \in 1..Len(s) /\ Rest(p, s, c.next_px + 1, c.next_sx + 1))
    BY <2>1 DEF LoopInv
  <2>3. Rest(p, s, 1, 1) \in BOOLEAN
    <3>1. 1 \in 1..Len(p) + 1 /\ 1 \in 1..Len(s) + 1
      BY <2>1
    <3> QED BY <2>1, <3>1, RestIs
  <2>4. Rest(p, s, c.px + 1, c.sx + 1)
            \/ (c.next_sx \in 1..Len(s) /\ Rest(p, s, c.next_px + 1, c.next_sx + 1)) \in BOOLEAN
    OBVIOUS
  <2>5. Rest(p, s, 1, 1) =
            \/ Rest(p, s, c.px + 1, c.sx + 1)
            \/ (c.next_sx \in 1..Len(s) /\ Rest(p, s, c.next_px + 1, c.next_sx + 1))
    BY <2>2, <2>3
  <2>6. Rest(Pattern, Subject(th), 1, 1) =
            \/ Rest(Pattern, Subject(th), matching[th].px + 1, matching[th].sx + 1)
            \/ /\ matching[th].next_sx \in 1..Len(Subject(th))
               /\ Rest(Pattern, Subject(th), matching[th].next_px + 1, matching[th].next_sx + 1)
    BY <2>5, Zenon DEF p, s
  <2> QED BY <2>6, Zenon DEF Rest
<1>2. CacheAgrees
  <2>1. \A i \in DOMAIN cache : cache[i] \in RightEntries(pattern_lower)
    BY DEF GlobInv
  <2> QED BY <2>1 DEF CacheAgrees, RightEntries, Pattern
<1>3. OneByteEach => MatchesGlob
  <2>1. \A th \in Matchers : matching[th] \in RightCalls(pattern_lower)
    BY DEF GlobInv
  <2> QED BY <2>1 DEF MatchesGlob, RightCalls
<1> QED BY <1>1, <1>2, <1>3 DEF LastStarSuffices

\* However many threads match, and whatever the bytes of characters are: the
\* last star is all that the loop must remember, and what the cache answers is
\* what the loop would (glob_matcher.rs 75-139).
THEOREM LoopAndCacheAgree ==
  ASSUME StringsHaveBytes
  PROVE  GlobSpec => [](LastStarSuffices /\ CacheAgrees)
<1>1. GlobInv => LastStarSuffices /\ CacheAgrees
  BY GlobInvSays
<1> QED BY <1>1, GlobInvHolds, PTL

\* Where every character is one byte, short cuts, cache and loop decide the
\* language of globs, for every pattern and subject (glob_matcher.rs 51-139).
THEOREM GlobsAreDecided ==
  ASSUME StringsHaveBytes, OneByteEach
  PROVE  GlobSpec => []GlobsDecided
<1>1. GlobInv => GlobsDecided
  BY GlobInvSays DEF GlobsDecided
<1> QED BY <1>1, GlobInvHolds, PTL

=============================================================================
