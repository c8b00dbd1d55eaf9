-------------------------- MODULE PropagationProofs --------------------------
(***************************************************************************)
(* What goes on along the path of a request, for any number of services    *)
(* and for all configurations.                                             *)
(***************************************************************************)
EXTENDS Propagation, FiniteLemmas, TLAPS

-----------------------------------------------------------------------------
(* The invariant *)

ContextFields ==
  {"trace", "span", "priority", "mechanism", "origin", "tags", "links", "tracestate"}

Clean(state) == state.members \in MemberLists /\ parses(state)

\* A context that was extracted
IsContext(c) ==
  /\ DOMAIN c = ContextFields
  /\ IsTrace(c.trace) /\ c.span \notin {None, Bad} /\ IsFiniteSet(DOMAIN c.tags)
  /\ c.priority \in Int \cup {None}
  /\ c.priority # None => c.mechanism = mechanism_of(c.tags)
  /\ c.tracestate # None => Clean(c.tracestate)

\* A context that is injected
IsInjected(c) ==
  /\ DOMAIN c = {"trace", "span", "priority", "mechanism", "origin", "tags", "members", "is_remote"}
  /\ IsTrace(c.trace) /\ c.span \notin {None, Bad} /\ IsFiniteSet(DOMAIN c.tags)
  /\ c.priority \in Int /\ c.mechanism = mechanism_of(c.tags)
  /\ c.members \in MemberLists /\ \A i \in DOMAIN c.members : c.members[i] # "bad"
  /\ c.is_remote \in BOOLEAN

IsStory(told) ==
  /\ DOMAIN told = {"trace", "priority", "mechanism", "origin", "keep", "last", "flipped",
                    "bare", "split", "torn", "cut"}
  /\ {told.keep, told.flipped, told.bare, told.split, told.torn, told.cut} \subseteq BOOLEAN

Typed ==
  /\ hops \in Nat /\ WellFormed(carrier)
  /\ at \in {"wire", "extracted", "started", "injecting"}
  /\ story # None => IsStory(story)
  /\ at # "wire" => cfg \in Configs
  /\ at = "extracted" /\ found # None => IsContext(found)
  /\ at \in {"started", "injecting"} => IsInjected(inject)

-----------------------------------------------------------------------------

\* What a service may find of what the first one of the trace decided
SameTrace(told, trace) == trace[2] = told.trace[2] /\ (~told.cut => trace = told.trace)

SameDecision(told, priority, mechanism) ==
  /\ priority \in Int
  /\ ~told.torn =>
       /\ is_keep(priority) = told.keep
       /\ ~told.flipped /\ ~told.bare => priority = told.priority
       /\ ~told.flipped /\ ~told.bare /\ ~told.cut => mechanism = told.mechanism

SameOrigin(told, origin) == Arrives(told.origin, origin)

LastIn(told, span, tags) ==
  /\ span = told.last \/ parent_id \in DOMAIN tags \/ CrowdsParent(told.origin)
  /\ parent_id \in DOMAIN tags => tags[parent_id] = told.last

\* The headers of Datadog tell it.
DatadogTells(told, headers) ==
  headers.tid # None =>
    /\ headers.tid # Bad
    /\ SameTrace(told, combine_trace_id(headers.tid, headers.tags))
    /\ SameDecision(told, headers.priority, mechanism_of(headers.tags))
    /\ ~told.bare => /\ SameOrigin(told, headers.origin)
                     /\ headers.parent = told.last /\ told.last \notin {None, Bad}

Decoded(origin) == IF origin = None THEN None ELSE Convert(decode_tag_value, origin)

\* The W3C headers tell it.
TracestateTells(told, state) ==
  /\ parses(state)
  /\ told.last \notin {None, Bad}
  /\ state.p = told.last \/ (state.p = None /\ CrowdsParent(told.origin))
  /\ SameOrigin(told, Decoded(state.o))
  /\ ~told.flipped => SameDecision(told, state.s, mechanism_of(state.t))

TraceparentTells(told, headers) ==
  headers.traceparent # None =>
    /\ SameTrace(told, headers.traceparent.trace)
    /\ ~told.torn => (headers.traceparent.flags % 2 = 1) = told.keep
    /\ ~told.bare => TracestateTells(told, headers.tracestate)

ContextTells(told, c) ==
  /\ SameTrace(told, c.trace) /\ SameDecision(told, c.priority, c.mechanism)
  /\ ~told.bare => SameOrigin(told, c.origin) /\ LastIn(told, c.span, c.tags)

InjectTells(told, c) ==
  /\ SameTrace(told, c.trace) /\ SameDecision(told, c.priority, c.mechanism)
  /\ ~told.bare => SameOrigin(told, c.origin) /\ ~c.is_remote

ToldInv ==
  story # None /\ ~story.split =>
    /\ at \in {"wire", "injecting"} => DatadogTells(story, carrier) /\ TraceparentTells(story, carrier)
    /\ at = "extracted" /\ found # None => ContextTells(story, found)
    /\ at \in {"started", "injecting"} => InjectTells(story, inject)
    /\ at = "started" /\ found # None /\ ~story.bare /\ story.last # NoSpan =>
         LastIn(story, found.span, inject.tags)
    /\ at = "injecting" /\ ~story.bare => story.last = inject.span

-----------------------------------------------------------------------------

\* A tracestate says of a context as much as there is room for.
StateFits(state, context, told) ==
  /\ parses(state) /\ state.s = context.priority
  /\ Arrives(context.origin, Decoded(state.o))
  /\ mechanism_of(state.t) \in {None, context.mechanism}
  /\ told # None /\ ~told.cut => mechanism_of(state.t) = context.mechanism

\* While a service injects, the headers it has made are about its context.
StylesInv ==
  at = "injecting" =>
    /\ carrier.tid # None =>
         /\ carrier.tid = inject.trace[2] /\ carrier.parent = inject.span
         /\ carrier.priority = inject.priority /\ carrier.origin = inject.origin
         /\ error \notin DOMAIN inject.tags =>
              /\ carrier.tags = Propagated(inject.tags)
              /\ IF inject.trace[1] = "" THEN tid \notin DOMAIN inject.tags
                 ELSE tid \in DOMAIN inject.tags /\ inject.tags[tid] = inject.trace[1]
    /\ carrier.traceparent # None =>
         /\ carrier.traceparent = inject_traceparent /\ StateFits(carrier.tracestate, inject, story)

\* The mechanism and the priority of a context
Explained(headers, priority, mechanism) ==
  mechanism # None => MadeBy(mechanism, priority) \/ SaysTogether(headers, priority, mechanism)

\* What was found is what the headers say, and what goes on of it is explained.
FoundInv ==
  /\ at = "extracted" => found = resolve_contexts(extract_available_contexts(carrier, cfg))
  /\ at = "started" => Explained(carrier, inject.priority, inject.mechanism)

PropagationInv == Typed /\ ToldInv /\ StylesInv /\ FoundInv

-----------------------------------------------------------------------------
(* Tags *)

\* The keys that the code knows are different.
LEMMA KeysDiffer ==
  /\ tid # dm /\ tid # parent_id /\ tid # error
  /\ dm # parent_id /\ dm # error /\ parent_id # error
BY DEF tid, dm, parent_id, error

\* What stands for no value or for an unreadable one is no value.
LEMMA NotNames ==
  /\ None # Bad /\ None \notin Int /\ Bad \notin Int /\ None \notin Mechanisms
  /\ \A who \in {"s", "t", "v"}, n \in Nat : <<who, n>> \notin {None, Bad}
  /\ NoSpan \notin {None, Bad}
<1>1. None # Bad /\ None \notin Int /\ Bad \notin Int /\ None \notin Mechanisms
  BY PropagationAssumption
<1>2. {None, Bad} \cap ({"0", "s", "t", "v"} \X Nat) = {}
  BY PropagationAssumption
<1>3. \A who \in {"0", "s", "t", "v"}, n \in Nat : <<who, n>> \notin {None, Bad}
  BY <1>2
<1> QED BY <1>1, <1>3 DEF NoSpan

\* What Put, Only, Without and Propagated make of tags
LEMMA PutFinite ==
  ASSUME NEW tags, IsFiniteSet(DOMAIN tags), NEW key, NEW text
  PROVE  IsFiniteSet(DOMAIN Put(tags, key, text))
<1>1. IsFiniteSet(DOMAIN tags \cup {key})
  BY FS_AddElement
<1> QED BY <1>1 DEF Put

LEMMA OnlyIs ==
  ASSUME NEW tags, NEW keys
  PROVE  /\ DOMAIN Only(tags, keys) = DOMAIN tags \cap keys
         /\ \A k \in DOMAIN tags \cap keys : Only(tags, keys)[k] = tags[k]
         /\ IsFiniteSet(DOMAIN tags) => IsFiniteSet(DOMAIN Only(tags, keys))
<1>1. IsFiniteSet(DOMAIN tags) => IsFiniteSet(DOMAIN tags \cap keys)
  BY FS_Intersection
<1> QED BY <1>1 DEF Only

LEMMA WithoutIs ==
  ASSUME NEW tags, NEW key
  PROVE  /\ DOMAIN Without(tags, key) = DOMAIN tags \ {key}
         /\ \A k \in DOMAIN tags \ {key} : Without(tags, key)[k] = tags[k]
         /\ IsFiniteSet(DOMAIN tags) => IsFiniteSet(DOMAIN Without(tags, key))
<1>1. DOMAIN tags \cap (DOMAIN tags \ {key}) = DOMAIN tags \ {key}
  OBVIOUS
<1> QED BY <1>1, OnlyIs DEF Without

LEMMA PropagatedIs ==
  ASSUME NEW tags
  PROVE  /\ DOMAIN Propagated(tags) = DOMAIN tags \ {parent_id, error}
         /\ \A k \in DOMAIN tags \ {parent_id, error} : Propagated(tags)[k] = tags[k]
         /\ IsFiniteSet(DOMAIN tags) => HeaderTags(Propagated(tags))
<1>1. DOMAIN tags \cap (DOMAIN tags \ {parent_id, error}) = DOMAIN tags \ {parent_id, error}
  OBVIOUS
<1> QED BY <1>1, OnlyIs DEF Propagated, HeaderTags

\* Two collections of tags with the same mechanism text, or without one
LEMMA SameMechanism ==
  ASSUME NEW a, NEW b, dm \in DOMAIN a <=> dm \in DOMAIN b, dm \in DOMAIN a => a[dm] = b[dm]
  PROVE  mechanism_of(a) = mechanism_of(b)
BY DEF mechanism_of

\* The mechanism depends on its own tag only, which is propagated, and is no text
\* that changes on the way into a dd member or out of it.
LEMMA MechanismPut ==
  ASSUME NEW tags, NEW key, NEW text, key # dm
  PROVE  mechanism_of(Put(tags, key, text)) = mechanism_of(tags)
<1>1. PICK put : put = Put(tags, key, text)
  OBVIOUS
<1>2. /\ dm \in DOMAIN put <=> dm \in DOMAIN tags
      /\ dm \in DOMAIN tags => put[dm] = tags[dm]
  BY <1>1 DEF Put
<1>3. mechanism_of(put) = mechanism_of(tags)
  BY <1>2, SameMechanism
<1> QED BY <1>1, <1>3

LEMMA MechanismPropagated ==
  ASSUME NEW tags PROVE mechanism_of(Propagated(tags)) = mechanism_of(tags)
BY PropagatedIs, KeysDiffer, SameMechanism

\* No mechanism is changed on the way into a tracestate or out of it, and no other
\* text becomes one.
LEMMA MechanismsKept ==
  ASSUME NEW text
  PROVE  /\ text \in Mechanisms => /\ Convert(encode_tag_value, text) = text
                                  /\ Convert(decode_tag_value, text) = text
         /\ Convert(encode_tag_value, text) \in Mechanisms => text \in Mechanisms
         /\ Convert(decode_tag_value, text) \in Mechanisms => text \in Mechanisms
BY DEF Convert, encode_tag_value, decode_tag_value, Mechanisms

LEMMA MechanismRecoded ==
  ASSUME NEW a, NEW b, NEW table \in {encode_tag_value, decode_tag_value},
         dm \in DOMAIN a <=> dm \in DOMAIN b, dm \in DOMAIN a => b[dm] = Convert(table, a[dm])
  PROVE  mechanism_of(b) = mechanism_of(a)
<1>1. CASE dm \in DOMAIN a
  <2>1. b[dm] = Convert(table, a[dm]) /\ dm \in DOMAIN b
    BY <1>1
  <2>2. a[dm] \in Mechanisms => b[dm] = a[dm]
    BY <2>1, MechanismsKept
  <2>3. b[dm] \in Mechanisms => a[dm] \in Mechanisms
    BY <2>1, MechanismsKept
  <2> QED BY <1>1, <2>1, <2>2, <2>3 DEF mechanism_of
<1>2. CASE dm \notin DOMAIN a
  BY <1>2 DEF mechanism_of
<1> QED BY <1>1, <1>2

\* The dd member keeps the mechanism, and names the last span beside the tags.
LEMMA MechanismOfState ==
  ASSUME NEW state, HeaderTags(state.t)
  PROVE  /\ mechanism_of(state_tags(state)) = mechanism_of(state.t)
         /\ IsFiniteSet(DOMAIN state_tags(state)) /\ error \notin DOMAIN state_tags(state)
         /\ parent_id \in DOMAIN state_tags(state) <=> state.p # None
         /\ parent_id \in DOMAIN state_tags(state) => state_tags(state)[parent_id] = state.p
<1> DEFINE tags == [k \in DOMAIN state.t |-> Convert(decode_tag_value, state.t[k])]
<1>1. DOMAIN tags = DOMAIN state.t /\ (dm \in DOMAIN tags => tags[dm] = Convert(decode_tag_value, state.t[dm]))
  OBVIOUS
<1>2. mechanism_of(tags) = mechanism_of(state.t)
  BY <1>1, MechanismRecoded
<1>3. state_tags(state) = IF state.p = None THEN tags ELSE Put(tags, parent_id, state.p)
  BY DEF state_tags
<1>4. IsFiniteSet(DOMAIN state.t) /\ error \notin DOMAIN state.t /\ parent_id \notin DOMAIN state.t
  BY DEF HeaderTags
<1> HIDE DEF tags
<1>5. CASE state.p = None
  BY <1>1, <1>2, <1>3, <1>4, <1>5
<1>6. CASE state.p # None
  <2>1. state_tags(state) = Put(tags, parent_id, state.p)
    BY <1>3, <1>6
  <2>2. mechanism_of(state_tags(state)) = mechanism_of(state.t)
    BY <1>2, <2>1, MechanismPut, KeysDiffer
  <2>3. /\ DOMAIN state_tags(state) = DOMAIN tags \cup {parent_id}
        /\ state_tags(state)[parent_id] = state.p
        /\ IsFiniteSet(DOMAIN tags) => IsFiniteSet(DOMAIN state_tags(state))
    BY <2>1, PutFinite DEF Put
  <2> QED BY <1>1, <1>4, <1>6, <2>2, <2>3, KeysDiffer
<1> QED BY <1>5, <1>6

-----------------------------------------------------------------------------
(* Extraction *)

\* The tags that are left are finite, name the same mechanism or none, and are all of
\* them if there is no error.
LEMMA ExtractTags ==
  ASSUME NEW tags, HeaderTags(tags), NEW max \in Nat
  PROVE  /\ IsFiniteSet(DOMAIN extract_tags(tags, max))
         /\ mechanism_of(extract_tags(tags, max)) \in {None, mechanism_of(tags)}
         /\ error \notin DOMAIN extract_tags(tags, max) => extract_tags(tags, max) = tags
         /\ parent_id \notin DOMAIN extract_tags(tags, max)
<1> DEFINE result == extract_tags(tags, max)
           halves == IF tid \in DOMAIN tags /\ tags[tid] \in Malformed
                     THEN Put(Without(tags, tid), error, "malformed_tid") ELSE tags
           last == IF dm \in DOMAIN halves /\ halves[dm] \notin Mechanisms
                   THEN Put(Without(halves, dm), error, "decoding_error") ELSE halves
<1>1. IsFiniteSet(DOMAIN tags) /\ parent_id \notin DOMAIN tags
  BY DEF HeaderTags
<1>2. CASE HeaderLength(tags) > max
  <2>1. PICK text : result = Put(<<>>, error, text)
    BY <1>2 DEF extract_tags
  <2>2. IsFiniteSet({error})
    BY FS_Singleton
  <2>3. DOMAIN result = {error}
    BY <2>1 DEF Put
  <2>4. mechanism_of(result) = None
    BY <2>3, KeysDiffer DEF mechanism_of
  <2> QED BY <2>2, <2>3, <2>4, KeysDiffer
<1>3. CASE ~(HeaderLength(tags) > max)
  <2>1. result = last
    BY <1>3 DEF extract_tags
  <2>2. /\ IsFiniteSet(DOMAIN halves) /\ mechanism_of(halves) = mechanism_of(tags)
        /\ error \notin DOMAIN halves => halves = tags
        /\ parent_id \notin DOMAIN halves
    <3>1. CASE tid \in DOMAIN tags /\ tags[tid] \in Malformed
      <4>1. PICK less : less = Without(tags, tid)
        OBVIOUS
      <4>2. IsFiniteSet(DOMAIN less) /\ parent_id \notin DOMAIN less
        BY <1>1, <4>1, WithoutIs
      <4>3. mechanism_of(less) = mechanism_of(tags)
        BY <4>1, KeysDiffer DEF Without, Only, mechanism_of
      <4>4. halves = Put(less, error, "malformed_tid")
        BY <3>1, <4>1
      <4>5. IsFiniteSet(DOMAIN halves)
        BY <4>2, <4>4, PutFinite
      <4>6. mechanism_of(halves) = mechanism_of(less)
        BY <4>4, MechanismPut, KeysDiffer
      <4>7. error \in DOMAIN halves /\ parent_id \notin DOMAIN halves
        BY <4>2, <4>4, KeysDiffer DEF Put
      <4> QED BY <4>3, <4>5, <4>6, <4>7
    <3>2. CASE ~(tid \in DOMAIN tags /\ tags[tid] \in Malformed)
      BY <1>1, <3>2
    <3> QED BY <3>1, <3>2
  <2> HIDE DEF halves
  <2>3. /\ IsFiniteSet(DOMAIN last) /\ mechanism_of(last) \in {None, mechanism_of(halves)}
        /\ error \notin DOMAIN last => last = halves
        /\ parent_id \notin DOMAIN last
    <3>1. CASE dm \in DOMAIN halves /\ halves[dm] \notin Mechanisms
      <4>1. PICK less : less = Without(halves, dm)
        OBVIOUS
      <4>2. IsFiniteSet(DOMAIN less) /\ parent_id \notin DOMAIN less
        BY <2>2, <4>1, WithoutIs
      <4>3. mechanism_of(less) = None
        BY <4>1 DEF Without, Only, mechanism_of
      <4>4. last = Put(less, error, "decoding_error")
        BY <3>1, <4>1
      <4>5. IsFiniteSet(DOMAIN last)
        BY <4>2, <4>4, PutFinite
      <4>6. mechanism_of(last) = mechanism_of(less)
        BY <4>4, MechanismPut, KeysDiffer
      <4>7. error \in DOMAIN last /\ parent_id \notin DOMAIN last
        BY <4>2, <4>4, KeysDiffer DEF Put
      <4> QED BY <4>3, <4>5, <4>6, <4>7
    <3>2. CASE ~(dm \in DOMAIN halves /\ halves[dm] \notin Mechanisms)
      BY <2>2, <3>2
    <3> QED BY <3>1, <3>2
  <2> HIDE DEF last
  <2> QED BY <2>1, <2>2, <2>3
<1> QED BY <1>2, <1>3

\* The trace has the lower half of the header.
LEMMA Combined ==
  ASSUME NEW low, NEW tags, low \notin {None, Bad}
  PROVE  /\ IsTrace(combine_trace_id(low, tags))
         /\ combine_trace_id(low, tags)[2] = low
BY DEF combine_trace_id, IsTrace

\* What the headers of Datadog give
LEMMA DatadogContext ==
  ASSUME NEW headers, WellFormed(headers), NEW max \in Nat, NEW c, c = datadog_extract(headers, max),
         headers.tid \notin {None, Bad}
  PROVE  /\ IsContext(c) /\ c.links = {} /\ c.trace[2] = headers.tid
         /\ headers.parent \notin {None, Bad} => c.span = headers.parent
         /\ headers.priority # Bad => c.priority = headers.priority
         /\ c.origin = headers.origin /\ c.tracestate = None /\ parent_id \notin DOMAIN c.tags
         /\ Explained(headers, c.priority, c.mechanism)
         /\ error \notin DOMAIN c.tags => /\ c.tags = headers.tags
                                         /\ c.trace = combine_trace_id(headers.tid, headers.tags)
<1> DEFINE tags == extract_tags(headers.tags, max)
           priority == IF headers.priority = Bad THEN None ELSE headers.priority
           mechanism == IF priority = None THEN None ELSE mechanism_of(tags)
           span == IF headers.parent \in {None, Bad} THEN NoSpan ELSE headers.parent
<1>1. c = [trace |-> combine_trace_id(headers.tid, tags), span |-> span, priority |-> priority,
           mechanism |-> mechanism, origin |-> headers.origin, tags |-> tags, links |-> {},
           tracestate |-> None]
  BY DEF datadog_extract
<1>2. /\ IsFiniteSet(DOMAIN tags) /\ mechanism_of(tags) \in {None, mechanism_of(headers.tags)}
      /\ error \notin DOMAIN tags => tags = headers.tags
      /\ parent_id \notin DOMAIN tags
  BY ExtractTags DEF WellFormed
<1>3. IsTrace(combine_trace_id(headers.tid, tags)) /\ combine_trace_id(headers.tid, tags)[2] = headers.tid
  BY Combined
<1>4. span \notin {None, Bad}
  BY NotNames
<1>5. priority \in Int \cup {None}
  BY DEF WellFormed
<1>6. Explained(headers, priority, mechanism)
  BY <1>2 DEF Explained, SaysTogether
<1> HIDE DEF tags, priority, mechanism, span
<1>7. IsContext(c)
  BY <1>1, <1>2, <1>3, <1>4, <1>5 DEF IsContext, ContextFields, mechanism
<1> QED BY <1>1, <1>2, <1>3, <1>6, <1>7 DEF span, priority

\* The tags name no mechanism or one that makes the priority.
TagsExplain(tags, priority) ==
  mechanism_of(tags) # None => MadeBy(mechanism_of(tags), priority)

\* The priority that the flag and the tracestate make, and the tags that go with it
LEMMA DefinedPriority ==
  ASSUME NEW sampled \in {AUTO_REJECT, AUTO_KEEP}, NEW state, state \in Int \cup {None}, NEW tags,
         IsFiniteSet(DOMAIN tags), error \notin DOMAIN tags,
         NEW defined, defined = define_sampling_priority(sampled, state, tags)
  PROVE  /\ defined.priority \in Int /\ is_keep(defined.priority) = is_keep(sampled)
         /\ IsFiniteSet(DOMAIN defined.tags) /\ error \notin DOMAIN defined.tags
         /\ DOMAIN defined.tags \cup {dm} = DOMAIN tags \cup {dm}
         /\ parent_id \in DOMAIN tags => defined.tags[parent_id] = tags[parent_id]
         /\ \/ defined.priority = state /\ defined.tags = tags
            \/ /\ ~(state # None /\ is_keep(state) = is_keep(sampled))
               /\ TagsExplain(defined.tags, defined.priority)
<1>1. CASE state # None /\ is_keep(state) = is_keep(sampled)
  <2>1. defined.priority = state /\ defined.tags = tags
    BY <1>1 DEF define_sampling_priority
  <2> QED BY <1>1, <2>1
<1>2. CASE ~(state # None /\ is_keep(state) = is_keep(sampled))
  <2>1. defined.priority = sampled /\ sampled \in Int
    BY <1>2 DEF define_sampling_priority, AUTO_KEEP, AUTO_REJECT
  <2>2. CASE sampled = AUTO_KEEP
    <3>1. defined.tags = Put(tags, dm, "-0")
      BY <1>2, <2>2 DEF define_sampling_priority
    <3>2. /\ DOMAIN defined.tags = DOMAIN tags \cup {dm} /\ defined.tags[dm] = "-0"
          /\ parent_id \in DOMAIN tags => defined.tags[parent_id] = tags[parent_id]
      BY <3>1, KeysDiffer DEF Put
    <3>3. IsFiniteSet(DOMAIN defined.tags)
      BY <3>1, PutFinite
    <3>4. mechanism_of(defined.tags) = "-0"
      BY <3>2 DEF mechanism_of, Mechanisms
    <3>5. TagsExplain(defined.tags, sampled)
      BY <2>2, <3>4 DEF TagsExplain, MadeBy, UserMechanisms, AUTO_KEEP, USER_KEEP
    <3> QED BY <1>2, <2>1, <3>2, <3>3, <3>5, KeysDiffer
  <2>3. CASE sampled # AUTO_KEEP
    <3>1. defined.tags = Without(tags, dm)
      BY <1>2, <2>3 DEF define_sampling_priority
    <3>2. /\ DOMAIN defined.tags = DOMAIN tags \ {dm}
          /\ parent_id \in DOMAIN tags => defined.tags[parent_id] = tags[parent_id]
      BY <3>1, KeysDiffer DEF Without, Only
    <3>3. IsFiniteSet(DOMAIN defined.tags)
      BY <3>1, WithoutIs
    <3>4. TagsExplain(defined.tags, sampled)
      BY <3>2 DEF TagsExplain, mechanism_of
    <3> QED BY <1>2, <2>1, <3>2, <3>3, <3>4, KeysDiffer
  <2> QED BY <2>2, <2>3
<1> QED BY <1>1, <1>2

\* What the W3C headers give
LEMMA TracecontextContext ==
  ASSUME NEW headers, WellFormed(headers), NEW c, c = tracecontext_extract(headers),
         valid_traceparent(headers.traceparent)
  PROVE  /\ IsContext(c) /\ c.links = {} /\ error \notin DOMAIN c.tags
         /\ c.trace = headers.traceparent.trace /\ c.span = headers.traceparent.span
         /\ c.priority \in Int /\ is_keep(c.priority) = (headers.traceparent.flags % 2 = 1)
         /\ Explained(headers, c.priority, c.mechanism)
         /\ parses(headers.tracestate) =>
              /\ c.origin = Decoded(headers.tracestate.o)
              /\ parent_id \in DOMAIN c.tags <=> headers.tracestate.p # None
              /\ parent_id \in DOMAIN c.tags => c.tags[parent_id] = headers.tracestate.p
              /\ is_keep(headers.tracestate.s) = is_keep(c.priority) /\ headers.tracestate.s # None =>
                   /\ c.priority = headers.tracestate.s
                   /\ c.mechanism = mechanism_of(headers.tracestate.t)
<1> DEFINE parent  == headers.traceparent
           state   == headers.tracestate
           sampled == IF parent.flags % 2 = 1 THEN AUTO_KEEP ELSE AUTO_REJECT
           defined == define_sampling_priority(sampled, state.s, state_tags(state))
           bare    == [trace |-> parent.trace, span |-> parent.span, priority |-> sampled,
                       mechanism |-> None, origin |-> None, tags |-> <<>>, links |-> {},
                       tracestate |-> None]
<1>1. IsTraceparent(parent) /\ IsTracestate(state)
  BY DEF WellFormed, valid_traceparent
<1>2. /\ sampled \in {AUTO_REJECT, AUTO_KEEP} /\ sampled \in Int
      /\ is_keep(sampled) = (parent.flags % 2 = 1)
  BY DEF AUTO_KEEP, AUTO_REJECT, is_keep
<1>3. /\ c = IF ~parses(state) THEN bare
             ELSE [bare EXCEPT
                     !.priority = defined.priority, !.tags = defined.tags, !.tracestate = state,
                     !.mechanism = mechanism_of(defined.tags),
                     !.origin = IF state.o = None THEN None ELSE Convert(decode_tag_value, state.o)]
  BY DEF tracecontext_extract
<1>4. IsTrace(parent.trace) /\ parent.span \notin {None, Bad}
  BY <1>1 DEF IsTraceparent
<1>5. CASE ~parses(state)
  <2>1. c = bare
    BY <1>3, <1>5
  <2>2. mechanism_of(<<>>) = None /\ IsFiniteSet(DOMAIN <<>>) /\ error \notin DOMAIN <<>>
    <3>1. DOMAIN <<>> = {}
      OBVIOUS
    <3> QED BY <3>1, FS_EmptySet DEF mechanism_of
  <2> HIDE DEF sampled, state, parent
  <2>3. IsContext(c)
    BY <1>2, <1>4, <2>1, <2>2 DEF IsContext, ContextFields
  <2>4. Explained(headers, c.priority, c.mechanism)
    BY <2>1 DEF Explained
  <2> QED BY <1>2, <1>5, <2>1, <2>2, <2>3, <2>4 DEF sampled, state, parent
<1>6. CASE parses(state)
  <2>1. /\ mechanism_of(state_tags(state)) = mechanism_of(state.t)
        /\ IsFiniteSet(DOMAIN state_tags(state)) /\ error \notin DOMAIN state_tags(state)
        /\ parent_id \in DOMAIN state_tags(state) <=> state.p # None
        /\ parent_id \in DOMAIN state_tags(state) => state_tags(state)[parent_id] = state.p
    BY <1>1, MechanismOfState DEF IsTracestate
  <2>2. state.s \in Int \cup {None} /\ state.members \in MemberLists
    BY <1>1 DEF IsTracestate
  <2> DEFINE tags == state_tags(state)
  <2>3. PICK d : d = define_sampling_priority(sampled, state.s, tags)
    OBVIOUS
  <2>4. /\ c.trace = parent.trace /\ c.span = parent.span /\ c.priority = d.priority
        /\ c.tags = d.tags /\ c.mechanism = mechanism_of(d.tags) /\ c.links = {}
        /\ c.tracestate = state /\ c.origin = Decoded(state.o)
        /\ DOMAIN c = ContextFields
    BY <1>3, <1>6, <2>3 DEF Decoded, ContextFields
  <2> HIDE DEF sampled, state, parent, tags
  <2>5. /\ d.priority \in Int /\ is_keep(d.priority) = is_keep(sampled)
        /\ IsFiniteSet(DOMAIN d.tags) /\ error \notin DOMAIN d.tags
        /\ parent_id \in DOMAIN d.tags <=> parent_id \in DOMAIN tags
        /\ parent_id \in DOMAIN tags => d.tags[parent_id] = tags[parent_id]
        /\ \/ d.priority = state.s /\ d.tags = tags
           \/ /\ ~(state.s # None /\ is_keep(state.s) = is_keep(sampled))
              /\ TagsExplain(d.tags, d.priority)
    <3>1. PICK s : s = state.s
      OBVIOUS
    <3>2. /\ s \in Int \cup {None} /\ IsFiniteSet(DOMAIN tags) /\ error \notin DOMAIN tags
      BY <2>1, <2>2, <3>1 DEF tags
    <3>3. d = define_sampling_priority(sampled, s, tags)
      BY <2>3, <3>1
    <3>4. /\ d.priority \in Int /\ is_keep(d.priority) = is_keep(sampled)
          /\ IsFiniteSet(DOMAIN d.tags) /\ error \notin DOMAIN d.tags
          /\ DOMAIN d.tags \cup {dm} = DOMAIN tags \cup {dm}
          /\ parent_id \in DOMAIN tags => d.tags[parent_id] = tags[parent_id]
          /\ \/ d.priority = s /\ d.tags = tags
             \/ /\ ~(s # None /\ is_keep(s) = is_keep(sampled))
                /\ TagsExplain(d.tags, d.priority)
      <4>1. PICK text : text = tags
        OBVIOUS
      <4>2. PICK flag \in {AUTO_REJECT, AUTO_KEEP} : flag = sampled
        BY <1>2
      <4>3. s \in Int \cup {None} /\ IsFiniteSet(DOMAIN text) /\ error \notin DOMAIN text
        BY <3>2, <4>1
      <4>4. d = define_sampling_priority(flag, s, text)
        BY <3>3, <4>1, <4>2
      <4> HIDE DEF defined
      <4> QED BY <4>1, <4>2, <4>3, <4>4, DefinedPriority
    <3> QED BY <3>1, <3>4, KeysDiffer
  <2>6. IsContext(c)
    BY <1>4, <1>6, <2>2, <2>4, <2>5 DEF IsContext, Clean
  <2>7. /\ parent_id \in DOMAIN c.tags <=> state.p # None
        /\ parent_id \in DOMAIN c.tags => c.tags[parent_id] = state.p
        /\ is_keep(state.s) = is_keep(c.priority) /\ state.s # None =>
             c.priority = state.s /\ c.mechanism = mechanism_of(state.t)
    BY <2>1, <2>4, <2>5 DEF tags
  <2>8. Explained(headers, c.priority, c.mechanism)
    <3>1. CASE d.priority = state.s /\ d.tags = tags
      <4>1. c.priority = state.s /\ c.mechanism = mechanism_of(state.t)
        BY <2>1, <2>4, <2>5, <3>1 DEF tags
      <4> QED BY <4>1 DEF Explained, SaysTogether, state
    <3>2. CASE TagsExplain(d.tags, d.priority)
      BY <2>4, <3>2 DEF Explained, TagsExplain
    <3> QED BY <2>5, <3>1, <3>2
  <2> QED BY <1>2, <2>4, <2>5, <2>6, <2>7, <2>8 DEF state, parent
<1> QED BY <1>5, <1>6

-----------------------------------------------------------------------------
(* The contexts of one request *)

\* The styles that are read, and a place for the context of each
LEMMA ExtractorsAre ==
  ASSUME NEW config \in Configs
  PROVE  Extractors(config) \in Seq({"datadog", "tracecontext", "none"})
<1> DEFINE Styles == {"datadog", "tracecontext", "none"}
<1>1. PICK styles : styles = config.extract
  OBVIOUS
<1>2. styles \in Seq(Styles)
  BY <1>1, PropagationAssumption
<1> HIDE DEF Styles
<1>3. styles # <<>> => <<styles[1]>> \in Seq(Styles)
  BY <1>2
<1>4. Extractors(config) = IF config.extract_first /\ styles # <<>> THEN <<styles[1]>> ELSE styles
  BY <1>1 DEF Extractors
<1>5. Extractors(config) \in Seq(Styles)
  BY <1>2, <1>3, <1>4
<1> QED BY <1>5 DEF Styles

LEMMA ContextPlaces ==
  ASSUME NEW headers, NEW config \in Configs,
         NEW contexts, contexts = extract_available_contexts(headers, config)
  PROVE  /\ Len(contexts) \in Nat /\ DOMAIN contexts = 1..Len(contexts)
         /\ \A i \in DOMAIN contexts :
              /\ contexts[i].style \in {"datadog", "tracecontext", "none"}
              /\ contexts[i].context = extract(contexts[i].style, headers, config.max_length)
<1> DEFINE styles == Extractors(config)
<1>1. styles \in Seq({"datadog", "tracecontext", "none"})
  BY ExtractorsAre
<1>2. contexts = [i \in DOMAIN styles |->
                    [style |-> styles[i], context |-> extract(styles[i], headers, config.max_length)]]
  BY DEF extract_available_contexts
<1> HIDE DEF styles
<1>3. PICK n \in Nat : DOMAIN styles = 1..n
  BY <1>1
<1>4. contexts = [i \in 1..n |->
                    [style |-> styles[i], context |-> extract(styles[i], headers, config.max_length)]]
  BY <1>2, <1>3
<1>5. Len(contexts) = n /\ DOMAIN contexts = 1..n
  BY <1>4
<1>6. ASSUME NEW i \in 1..n
      PROVE  /\ contexts[i].style = styles[i] /\ styles[i] \in {"datadog", "tracecontext", "none"}
             /\ contexts[i].context = extract(styles[i], headers, config.max_length)
  <2>1. styles[i] \in {"datadog", "tracecontext", "none"}
    BY <1>1, <1>3
  <2> QED BY <1>4, <2>1
<1> QED BY <1>5, <1>6

\* A context is of one of the two styles, and its headers were there and parsed.
LEMMA ContextStyles ==
  ASSUME NEW headers, NEW config \in Configs,
         NEW contexts, contexts = extract_available_contexts(headers, config),
         NEW i \in Available(contexts)
  PROVE  \/ /\ contexts[i].style = "datadog" /\ headers.tid \notin {None, Bad}
            /\ contexts[i].context = datadog_extract(headers, config.max_length)
         \/ /\ contexts[i].style = "tracecontext" /\ valid_traceparent(headers.traceparent)
            /\ contexts[i].context = tracecontext_extract(headers)
<1>1. PICK c : c = contexts[i]
  OBVIOUS
<1>2. /\ i \in DOMAIN contexts /\ c.context # None
  BY <1>1 DEF Available
<1>3. /\ c.style \in {"datadog", "tracecontext", "none"}
      /\ c.context = extract(c.style, headers, config.max_length)
  BY <1>1, <1>2, ContextPlaces
<1>4. c.style # "none"
  BY <1>2, <1>3 DEF extract
<1>5. CASE c.style = "datadog"
  <2>1. c.context = datadog_extract(headers, config.max_length)
    BY <1>3, <1>5 DEF extract
  <2>2. headers.tid \notin {None, Bad}
    BY <1>2, <2>1 DEF datadog_extract
  <2> QED BY <1>1, <1>5, <2>1, <2>2
<1>6. CASE c.style = "tracecontext"
  <2>1. c.context = tracecontext_extract(headers)
    BY <1>3, <1>6 DEF extract
  <2>2. valid_traceparent(headers.traceparent)
    BY <1>2, <2>1 DEF tracecontext_extract
  <2> QED BY <1>1, <1>6, <2>1, <2>2
<1> QED BY <1>3, <1>4, <1>5, <1>6

\* Everything that is available is a context without links.
LEMMA ContextsAre ==
  ASSUME NEW headers, WellFormed(headers), NEW config \in Configs,
         NEW contexts, contexts = extract_available_contexts(headers, config),
         NEW i \in Available(contexts)
  PROVE  /\ IsContext(contexts[i].context) /\ contexts[i].context.links = {}
         /\ Explained(headers, contexts[i].context.priority, contexts[i].context.mechanism)
<1>1. PICK c : c = contexts[i].context
  OBVIOUS
<1>2. config.max_length \in Nat
  BY PropagationAssumption
<1>3. CASE headers.tid \notin {None, Bad} /\ c = datadog_extract(headers, config.max_length)
  BY <1>1, <1>2, <1>3, DatadogContext
<1>4. CASE valid_traceparent(headers.traceparent) /\ c = tracecontext_extract(headers)
  BY <1>1, <1>4, TracecontextContext
<1> QED BY <1>1, <1>3, <1>4, ContextStyles

-----------------------------------------------------------------------------
(* What the story says, when headers are read *)

\* The story goes on unchanged, or some tags got lost.
Continues(told, later) == later = told \/ later = [told EXCEPT !.cut = TRUE]

\* A story in which tags may have been lost since is the same story otherwise.
LEMMA ContinuedStory ==
  ASSUME NEW told, IsStory(told), NEW later, Continues(told, later)
  PROVE  /\ IsStory(later)
         /\ later.trace = told.trace /\ later.priority = told.priority
         /\ later.mechanism = told.mechanism /\ later.origin = told.origin
         /\ later.keep = told.keep /\ later.last = told.last /\ later.flipped = told.flipped
         /\ later.bare = told.bare /\ later.split = told.split /\ later.torn = told.torn
         /\ told.cut => later.cut
BY DEF Continues, IsStory

\* Headers that tell the story give contexts that tell it, if tags that were lost
\* on the way are owned up to.
LEMMA DatadogContextTells ==
  ASSUME NEW told, IsStory(told), NEW later, Continues(told, later),
         NEW headers, WellFormed(headers), DatadogTells(told, headers),
         NEW max \in Nat, NEW c, c = datadog_extract(headers, max),
         headers.tid \notin {None, Bad}, error \in DOMAIN c.tags => later.cut
  PROVE  ContextTells(later, c) /\ (~later.bare => c.span = later.last)
<1>1. /\ IsContext(c) /\ c.trace[2] = headers.tid /\ parent_id \notin DOMAIN c.tags
      /\ headers.parent \notin {None, Bad} => c.span = headers.parent
      /\ headers.priority # Bad => c.priority = headers.priority
      /\ c.origin = headers.origin
      /\ error \notin DOMAIN c.tags => /\ c.tags = headers.tags
                                      /\ c.trace = combine_trace_id(headers.tid, headers.tags)
  BY DatadogContext
<1>2. /\ SameTrace(told, combine_trace_id(headers.tid, headers.tags))
      /\ SameDecision(told, headers.priority, mechanism_of(headers.tags))
      /\ ~told.bare => /\ SameOrigin(told, headers.origin)
                       /\ headers.parent = told.last /\ told.last \notin {None, Bad}
  BY DEF DatadogTells
<1>3. combine_trace_id(headers.tid, headers.tags)[2] = headers.tid
  BY Combined
<1>4. c.priority = headers.priority /\ c.priority \in Int /\ c.priority # None
  BY <1>1, <1>2, PropagationAssumption DEF SameDecision
<1>5. c.mechanism = mechanism_of(c.tags)
  BY <1>1, <1>4 DEF IsContext
<1>6. SameTrace(later, c.trace)
  <2>1. PICK whole : whole = combine_trace_id(headers.tid, headers.tags)
    OBVIOUS
  <2>2. /\ whole[2] = headers.tid /\ whole[2] = told.trace[2] /\ (~told.cut => whole = told.trace)
        /\ error \notin DOMAIN c.tags => c.trace = whole
    BY <1>1, <1>2, <1>3, <2>1 DEF SameTrace
  <2>3. later.trace = told.trace /\ (told.cut => later.cut)
    BY ContinuedStory
  <2> QED BY <1>1, <2>2, <2>3 DEF SameTrace
<1>7. SameDecision(later, c.priority, c.mechanism)
  BY <1>1, <1>2, <1>4, <1>5, ContinuedStory DEF SameDecision
<1>8. ~later.bare => /\ SameOrigin(later, c.origin) /\ LastIn(later, c.span, c.tags)
                     /\ c.span = later.last
  BY <1>1, <1>2, ContinuedStory DEF SameOrigin, LastIn
<1> QED BY <1>6, <1>7, <1>8 DEF ContextTells

LEMMA TracecontextContextTells ==
  ASSUME NEW told, IsStory(told), NEW later, Continues(told, later),
         NEW headers, WellFormed(headers), TraceparentTells(told, headers),
         NEW c, c = tracecontext_extract(headers), valid_traceparent(headers.traceparent)
  PROVE  ContextTells(later, c)
<1>1. headers.traceparent # None
  BY DEF valid_traceparent
<1>2. /\ SameTrace(told, headers.traceparent.trace)
      /\ ~told.torn => (headers.traceparent.flags % 2 = 1) = told.keep
      /\ ~told.bare => TracestateTells(told, headers.tracestate)
  BY <1>1 DEF TraceparentTells
<1>3. /\ c.trace = headers.traceparent.trace
      /\ c.priority \in Int /\ is_keep(c.priority) = (headers.traceparent.flags % 2 = 1)
  BY TracecontextContext
<1>4. parses(headers.tracestate) =>
        /\ c.origin = Decoded(headers.tracestate.o)
        /\ parent_id \in DOMAIN c.tags <=> headers.tracestate.p # None
        /\ parent_id \in DOMAIN c.tags => c.tags[parent_id] = headers.tracestate.p
        /\ is_keep(headers.tracestate.s) = is_keep(c.priority) /\ headers.tracestate.s # None =>
             /\ c.priority = headers.tracestate.s
             /\ c.mechanism = mechanism_of(headers.tracestate.t)
  BY TracecontextContext
<1>5. SameTrace(later, c.trace)
  BY <1>2, <1>3, ContinuedStory DEF SameTrace
<1>6. ~later.torn => is_keep(c.priority) = later.keep
  BY <1>2, <1>3, ContinuedStory
<1>7. CASE told.bare
  <2>1. later.bare
    BY <1>7, ContinuedStory
  <2> QED BY <1>3, <1>5, <1>6, <2>1 DEF ContextTells, SameDecision
<1>8. CASE ~told.bare
  <2>1. TracestateTells(told, headers.tracestate)
    BY <1>2, <1>8
  <2>2. /\ parses(headers.tracestate) /\ SameOrigin(told, Decoded(headers.tracestate.o))
        /\ told.last \notin {None, Bad}
        /\ headers.tracestate.p = told.last \/ (headers.tracestate.p = None /\ CrowdsParent(told.origin))
        /\ ~told.flipped => SameDecision(told, headers.tracestate.s, mechanism_of(headers.tracestate.t))
    BY <2>1 DEF TracestateTells
  <2>3. SameOrigin(later, c.origin)
    BY <1>4, <2>2, ContinuedStory DEF SameOrigin
  <2>4. LastIn(later, c.span, c.tags)
    BY <1>4, <2>2, ContinuedStory DEF LastIn
  <2>5. SameDecision(later, c.priority, c.mechanism)
    <3>1. CASE told.flipped \/ told.torn
      BY <1>3, <1>6, <3>1, ContinuedStory DEF SameDecision
    <3>2. CASE ~told.flipped /\ ~told.torn
      <4>1. /\ headers.tracestate.s \in Int /\ is_keep(headers.tracestate.s) = told.keep
            /\ headers.tracestate.s = told.priority
            /\ ~told.cut => mechanism_of(headers.tracestate.t) = told.mechanism
        BY <1>8, <2>2, <3>2 DEF SameDecision
      <4>2. c.priority = headers.tracestate.s /\ c.mechanism = mechanism_of(headers.tracestate.t)
        BY <1>2, <1>3, <1>4, <2>2, <3>2, <4>1, PropagationAssumption
      <4> QED BY <1>3, <1>6, <4>1, <4>2, ContinuedStory DEF SameDecision
    <3> QED BY <3>1, <3>2
  <2> QED BY <1>5, <2>3, <2>4, <2>5 DEF ContextTells
<1> QED BY <1>7, <1>8

LEMMA ContextsTell ==
  ASSUME NEW told, IsStory(told), NEW later, Continues(told, later),
         NEW headers, WellFormed(headers), DatadogTells(told, headers), TraceparentTells(told, headers),
         NEW config \in Configs,
         NEW contexts, contexts = extract_available_contexts(headers, config),
         NEW i \in Available(contexts), error \in DOMAIN contexts[i].context.tags => later.cut
  PROVE  /\ ContextTells(later, contexts[i].context)
         /\ ~later.bare /\ contexts[i].style = "datadog" => contexts[i].context.span = later.last
<1>1. PICK c : c = contexts[i].context
  OBVIOUS
<1>2. PICK style : style = contexts[i].style
  OBVIOUS
<1>3. PICK max \in Nat : max = config.max_length
  BY PropagationAssumption
<1>4. CASE headers.tid \notin {None, Bad} /\ c = datadog_extract(headers, max)
  <2>1. ContextTells(later, c) /\ (~later.bare => c.span = later.last)
    BY <1>1, <1>4, DatadogContextTells
  <2> QED BY <1>1, <2>1
<1>5. CASE style = "tracecontext" /\ valid_traceparent(headers.traceparent) /\ c = tracecontext_extract(headers)
  <2>1. ContextTells(later, c)
    BY <1>5, TracecontextContextTells
  <2> QED BY <1>1, <1>2, <1>5, <2>1
<1> QED BY <1>1, <1>2, <1>3, <1>4, <1>5, ContextStyles

-----------------------------------------------------------------------------
(* How contexts are resolved *)

\* What resolve_contexts says of the i-th place
ResolvedAt(f, contexts, i) ==
  IF i \notin Available(contexts) THEN IF i = 0 THEN None ELSE f[i - 1]
  ELSE IF \A j \in Available(contexts) : i <= j THEN contexts[i].context
  ELSE Resolve(contexts, f[i - 1], contexts[i])

\* Resolved is a recursive function of the places: there is such a function, built
\* from the first place to the last, and it obeys its rule.
LEMMA ResolvedLooksBack ==
  ASSUME NEW f, NEW g, NEW contexts, 0 \notin Available(contexts), NEW i \in Nat,
         i # 0 => f[i - 1] = g[i - 1]
  PROVE  ResolvedAt(f, contexts, i) = ResolvedAt(g, contexts, i)
<1>1. CASE i = 0
  BY <1>1 DEF ResolvedAt
<1>2. CASE i # 0
  <2>1. PICK before : before = f[i - 1] /\ before = g[i - 1]
    BY <1>2
  <2> QED BY <1>2, <2>1 DEF ResolvedAt
<1> QED BY <1>1, <1>2

LEMMA ResolvedExists ==
  ASSUME NEW contexts, Len(contexts) \in Nat, 0 \notin Available(contexts)
  PROVE  \E f : f = [i \in 0..Len(contexts) |-> ResolvedAt(f, contexts, i)]
<1> DEFINE Good == {n \in Nat : \E f : \A i \in 0..n : f[i] = ResolvedAt(f, contexts, i)}
<1>1. 0 \in Good
  <2> DEFINE f == [i \in {0} |-> ResolvedAt(<<>>, contexts, 0)]
  <2>1. f[0] = ResolvedAt(<<>>, contexts, 0)
    OBVIOUS
  <2> HIDE DEF f
  <2>2. f[0] = ResolvedAt(f, contexts, 0)
    BY <2>1 DEF ResolvedAt
  <2>3. \A i \in 0..0 : f[i] = ResolvedAt(f, contexts, i)
    BY <2>2
  <2> QED BY <2>3
<1>2. ASSUME NEW n \in Nat, n \in Good PROVE n + 1 \in Good
  <2>1. PICK f : \A i \in 0..n : f[i] = ResolvedAt(f, contexts, i)
    BY <1>2
  <2> DEFINE g == [i \in 0..n + 1 |-> IF i <= n THEN f[i] ELSE ResolvedAt(f, contexts, n + 1)]
  <2>2. ASSUME NEW i \in 0..n + 1 PROVE g[i] = ResolvedAt(g, contexts, i)
    <3>1. i \in Nat /\ (i # 0 => i - 1 \in 0..n)
      OBVIOUS
    <3>2. i # 0 => f[i - 1] = g[i - 1]
      BY <3>1
    <3>3. g[i] = ResolvedAt(f, contexts, i)
      BY <2>1
    <3> HIDE DEF g
    <3>4. ResolvedAt(f, contexts, i) = ResolvedAt(g, contexts, i)
      BY <3>1, <3>2, ResolvedLooksBack
    <3> QED BY <3>3, <3>4
  <2>3. \E h : \A i \in 0..n + 1 : h[i] = ResolvedAt(h, contexts, i)
    <3> HIDE DEF g
    <3> QED BY <2>2
  <2> QED BY <2>3
<1>3. Len(contexts) \in Good
  <2> HIDE DEF Good
  <2>1. \A n \in Nat : n \in Good => n + 1 \in Good
    BY <1>2
  <2>2. Nat \subseteq Good
    BY <1>1, <2>1, NumberInduction
  <2> QED BY <2>2
<1>4. PICK f : \A i \in 0..Len(contexts) : f[i] = ResolvedAt(f, contexts, i)
  BY <1>3
<1> DEFINE all == [i \in 0..Len(contexts) |-> ResolvedAt(f, contexts, i)]
<1>5. \A i \in 0..Len(contexts) : all[i] = f[i]
  BY <1>4
<1>6. ASSUME NEW i \in 0..Len(contexts)
      PROVE  ResolvedAt(all, contexts, i) = ResolvedAt(f, contexts, i)
  <2> HIDE DEF all
  <2>1. i \in Nat /\ (i # 0 => i - 1 \in 0..Len(contexts))
    OBVIOUS
  <2>2. i # 0 => f[i - 1] = all[i - 1]
    BY <1>5, <2>1
  <2> QED BY <2>1, <2>2, ResolvedLooksBack
<1>7. all = [i \in 0..Len(contexts) |-> ResolvedAt(all, contexts, i)]
  BY <1>6
<1> QED BY <1>7

LEMMA ResolvedIs ==
  ASSUME NEW contexts, Len(contexts) \in Nat, 0 \notin Available(contexts),
         NEW i \in 0..Len(contexts)
  PROVE  Resolved(contexts)[i] = ResolvedAt(Resolved(contexts), contexts, i)
<1> DEFINE r == Resolved(contexts)
<1>1. r = CHOOSE f : f = [k \in 0..Len(contexts) |-> ResolvedAt(f, contexts, k)]
  BY DEF Resolved, ResolvedAt
<1>2. r = [k \in 0..Len(contexts) |-> ResolvedAt(r, contexts, k)]
  <2> HIDE DEF r
  <2> QED BY <1>1, ResolvedExists
<1> HIDE DEF r
<1>3. r[i] = ResolvedAt(r, contexts, i)
  BY <1>2
<1> QED BY <1>3 DEF r

\* What one context keeps of another when it is resolved with a third
Keeps(later, primary) ==
  /\ IsContext(later) /\ later.trace = primary.trace /\ later.priority = primary.priority
  /\ later.mechanism = primary.mechanism /\ later.origin = primary.origin

TellsLast(told, context) == LastIn(told, context.span, context.tags)

\* All contexts tell the last span, those of Datadog as their own.
AllTellLast(told, contexts) ==
  \A i \in Available(contexts) :
    /\ TellsLast(told, contexts[i].context)
    /\ contexts[i].style = "datadog" => contexts[i].context.span = told.last

\* The last span of Datadog beside another parent changes nothing else.
LEMMA ParentPut ==
  ASSUME NEW primary, IsContext(primary), NEW tags, NEW text, tags = Put(primary.tags, parent_id, text)
  PROVE  /\ IsFiniteSet(DOMAIN tags) /\ mechanism_of(tags) = mechanism_of(primary.tags)
         /\ parent_id \in DOMAIN tags /\ tags[parent_id] = text
<1>1. PICK old : old = primary.tags
  OBVIOUS
<1>2. IsFiniteSet(DOMAIN old)
  BY <1>1 DEF IsContext
<1>3. IsFiniteSet(DOMAIN tags)
  BY <1>1, <1>2, PutFinite
<1>4. mechanism_of(tags) = mechanism_of(old)
  BY <1>1, KeysDiffer, MechanismPut
<1>5. parent_id \in DOMAIN tags /\ tags[parent_id] = text
  BY <1>1 DEF Put
<1> QED BY <1>1, <1>3, <1>4, <1>5

\* A span of the same trace that takes the place of the primary one keeps what the
\* primary context says, and the last span is still known.
LEMMA WithSpanIs ==
  ASSUME NEW contexts, NEW primary, IsContext(primary), NEW context, IsContext(context),
         NEW p, p = WithSpan(contexts, primary, context)
  PROVE  /\ Keeps(p, primary) /\ p.links = primary.links
         /\ \A told : AllTellLast(told, contexts) /\ TellsLast(told, primary) /\ TellsLast(told, context) =>
              TellsLast(told, p)
<1> DEFINE dd == {i \in Available(contexts) : contexts[i].style = "datadog"}
           tags == IF parent_id \in DOMAIN context.tags
                   THEN Put(primary.tags, parent_id, context.tags[parent_id])
                   ELSE IF dd # {}
                   THEN Put(primary.tags, parent_id, contexts[CHOOSE i \in dd : TRUE].context.span)
                   ELSE primary.tags
<1>1. CASE primary.trace # context.trace \/ primary.span = context.span
  <2>1. p = primary
    BY <1>1 DEF WithSpan
  <2> QED BY <2>1 DEF Keeps
<1>2. CASE ~(primary.trace # context.trace \/ primary.span = context.span)
  <2>1. p = [primary EXCEPT !.span = context.span, !.tags = tags]
    BY <1>2 DEF WithSpan
  <2>2. \/ tags = primary.tags /\ parent_id \notin DOMAIN context.tags
        \/ \E text : /\ tags = Put(primary.tags, parent_id, text)
                     /\ \/ parent_id \in DOMAIN context.tags /\ text = context.tags[parent_id]
                        \/ \E i \in dd : text = contexts[i].context.span
    <3>1. CASE parent_id \in DOMAIN context.tags
      BY <3>1
    <3>2. CASE parent_id \notin DOMAIN context.tags /\ dd # {}
      <4>1. PICK i : i = CHOOSE k \in dd : TRUE
        OBVIOUS
      <4>2. i \in dd /\ tags = Put(primary.tags, parent_id, contexts[i].context.span)
        BY <3>2, <4>1
      <4> HIDE DEF tags, dd
      <4> QED BY <4>2
    <3>3. CASE parent_id \notin DOMAIN context.tags /\ dd = {}
      BY <3>3
    <3> QED BY <3>1, <3>2, <3>3
  <2> HIDE DEF tags
  <2>3. /\ p.trace = primary.trace /\ p.priority = primary.priority /\ p.links = primary.links
        /\ p.mechanism = primary.mechanism /\ p.origin = primary.origin
        /\ p.tracestate = primary.tracestate /\ p.span = context.span /\ p.tags = tags
        /\ DOMAIN p = ContextFields
    BY <2>1 DEF IsContext, ContextFields
  <2>4. CASE tags = primary.tags /\ parent_id \notin DOMAIN context.tags
    <3>1. IsContext(p)
      BY <2>3, <2>4 DEF IsContext
    <3>2. ASSUME NEW told, TellsLast(told, primary), TellsLast(told, context) PROVE TellsLast(told, p)
      BY <2>3, <2>4, <3>2 DEF TellsLast, LastIn
    <3> QED BY <2>3, <3>1, <3>2 DEF Keeps
  <2>5. ASSUME NEW text, tags = Put(primary.tags, parent_id, text),
               \/ parent_id \in DOMAIN context.tags /\ text = context.tags[parent_id]
               \/ \E i \in dd : text = contexts[i].context.span
        PROVE  /\ Keeps(p, primary) /\ p.links = primary.links
               /\ \A told : AllTellLast(told, contexts) /\ TellsLast(told, primary)
                              /\ TellsLast(told, context) => TellsLast(told, p)
    <3>1. /\ IsFiniteSet(DOMAIN tags) /\ mechanism_of(tags) = mechanism_of(primary.tags)
          /\ parent_id \in DOMAIN tags /\ tags[parent_id] = text
      BY <2>5, ParentPut
    <3>2. IsContext(p)
      BY <2>3, <3>1 DEF IsContext
    <3>3. ASSUME NEW told, AllTellLast(told, contexts), TellsLast(told, context) PROVE TellsLast(told, p)
      <4>1. text = told.last
        BY <2>5, <3>3 DEF AllTellLast, TellsLast, LastIn
      <4> QED BY <2>3, <3>1, <4>1 DEF TellsLast, LastIn
    <3> QED BY <2>3, <3>2, <3>3 DEF Keeps
  <2> QED BY <2>2, <2>4, <2>5
<1> QED BY <1>1, <1>2

\* What is linked of a context
IsLinked(context, links) ==
  \E link \in links : link.trace = context.trace /\ link.span = context.span

\* Every context that is resolved leaves what the primary one says, and is of its
\* trace or linked.
LEMMA ResolveIs ==
  ASSUME NEW contexts, NEW primary, IsContext(primary), NEW c, NEW context, context = c.context,
         IsContext(context), NEW p, p = Resolve(contexts, primary, c)
  PROVE  /\ Keeps(p, primary) /\ primary.links \subseteq p.links
         /\ context.trace # primary.trace /\ context.span # NoSpan => IsLinked(context, p.links)
         /\ \A link \in p.links : link \in primary.links \/ link.trace # primary.trace
         /\ \A told : AllTellLast(told, contexts) /\ TellsLast(told, primary) /\ TellsLast(told, context) =>
              TellsLast(told, p)
<1>1. CASE OtherTrace(primary, c)
  <2>1. PICK link : link = terminated_context(c)
    OBVIOUS
  <2>2. link.trace = context.trace /\ link.span = context.span
    BY <2>1 DEF terminated_context
  <2>3. p = [primary EXCEPT !.links = primary.links \cup {link}]
    BY <1>1, <2>1 DEF Resolve
  <2>4. /\ p.trace = primary.trace /\ p.priority = primary.priority /\ p.tags = primary.tags
        /\ p.mechanism = primary.mechanism /\ p.origin = primary.origin
        /\ p.tracestate = primary.tracestate /\ p.span = primary.span
        /\ p.links = primary.links \cup {link} /\ DOMAIN p = ContextFields
    BY <2>3 DEF IsContext, ContextFields
  <2>5. IsContext(p)
    BY <2>4 DEF IsContext
  <2>6. context.trace # primary.trace
    BY <1>1 DEF OtherTrace
  <2> QED BY <2>2, <2>4, <2>5, <2>6 DEF Keeps, IsLinked, TellsLast
<1>2. CASE ~OtherTrace(primary, c) /\ c.style = "tracecontext"
  <2> DEFINE stated == IF context.tracestate # None
                       THEN [primary EXCEPT !.tracestate = context.tracestate] ELSE primary
  <2>1. p = WithSpan(contexts, stated, context)
    BY <1>2 DEF Resolve
  <2>2. /\ stated.trace = primary.trace /\ stated.priority = primary.priority
        /\ stated.tags = primary.tags
        /\ stated.mechanism = primary.mechanism /\ stated.origin = primary.origin
        /\ stated.tracestate \in {primary.tracestate, context.tracestate}
        /\ stated.span = primary.span
        /\ stated.links = primary.links /\ DOMAIN stated = ContextFields
    BY DEF IsContext, ContextFields
  <2> HIDE DEF stated
  <2>3. IsContext(stated)
    BY <2>2 DEF IsContext
  <2>4. /\ Keeps(p, stated) /\ p.links = stated.links
        /\ \A told : AllTellLast(told, contexts) /\ TellsLast(told, stated) /\ TellsLast(told, context) =>
             TellsLast(told, p)
    BY <2>1, <2>3, WithSpanIs
  <2>5. ~(context.trace # primary.trace /\ context.span # NoSpan)
    BY <1>2 DEF OtherTrace
  <2> QED BY <2>2, <2>4, <2>5 DEF Keeps, TellsLast
<1>3. CASE ~OtherTrace(primary, c) /\ c.style # "tracecontext"
  <2>1. p = primary
    BY <1>3 DEF Resolve
  <2>2. ~(context.trace # primary.trace /\ context.span # NoSpan)
    BY <1>3 DEF OtherTrace
  <2> QED BY <2>1, <2>2 DEF Keeps
<1> QED BY <1>1, <1>2, <1>3

Reached(contexts, n) == {i \in Available(contexts) : i <= n}

\* What the first n places have made of f
ResolvedSoFar(contexts, n, f) ==
  /\ \E first \in Reached(contexts, n) : Keeps(f, contexts[first].context)
  /\ \A i \in Reached(contexts, n) :
       contexts[i].context.trace # f.trace /\ contexts[i].context.span # NoSpan =>
         IsLinked(contexts[i].context, f.links)
  /\ \A link \in f.links : link.trace # f.trace
  /\ \A told : AllTellLast(told, contexts) => TellsLast(told, f)

AreContexts(contexts) ==
  /\ Len(contexts) \in Nat /\ DOMAIN contexts = 1..Len(contexts)
  /\ \A i \in Available(contexts) : IsContext(contexts[i].context) /\ contexts[i].context.links = {}

\* From place to place: what is resolved so far has the trace of the first context
\* and links to all others, and tells the last span if all contexts do.
LEMMA FirstResolved ==
  ASSUME NEW contexts, AreContexts(contexts), NEW n \in Available(contexts),
         \A j \in Available(contexts) : n <= j
  PROVE  ResolvedSoFar(contexts, n, contexts[n].context)
<1>1. PICK c : c = contexts[n].context
  OBVIOUS
<1>2. IsContext(c) /\ c.links = {}
  BY <1>1 DEF AreContexts
<1>3. Available(contexts) \subseteq Int
  BY DEF AreContexts, Available
<1>4. Reached(contexts, n) = {n}
  BY <1>3 DEF Reached
<1>5. Keeps(c, c)
  BY <1>2 DEF Keeps
<1>6. \A told : AllTellLast(told, contexts) => TellsLast(told, c)
  BY <1>1 DEF AllTellLast
<1> QED BY <1>1, <1>2, <1>4, <1>5, <1>6 DEF ResolvedSoFar

LEMMA NextResolved ==
  ASSUME NEW contexts, AreContexts(contexts), NEW n \in Nat, n + 1 \in Available(contexts),
         NEW f, ResolvedSoFar(contexts, n, f),
         NEW g, g = Resolve(contexts, f, contexts[n + 1])
  PROVE  ResolvedSoFar(contexts, n + 1, g)
<1>1. PICK c : c = contexts[n + 1]
  OBVIOUS
<1>2. PICK context : context = c.context
  OBVIOUS
<1>3. IsContext(context)
  BY <1>1, <1>2 DEF AreContexts
<1>4. PICK first \in Reached(contexts, n) : Keeps(f, contexts[first].context)
  BY DEF ResolvedSoFar
<1>5. IsContext(f)
  BY <1>4 DEF Keeps
<1>6. /\ Keeps(g, f) /\ f.links \subseteq g.links
      /\ context.trace # f.trace /\ context.span # NoSpan => IsLinked(context, g.links)
      /\ \A link \in g.links : link \in f.links \/ link.trace # f.trace
      /\ \A told : AllTellLast(told, contexts) /\ TellsLast(told, f) /\ TellsLast(told, context) =>
           TellsLast(told, g)
  <2>1. g = Resolve(contexts, f, c)
    BY <1>1
  <2> QED BY <1>2, <1>3, <1>5, <2>1, ResolveIs
<1>7. Available(contexts) \subseteq Int
  BY DEF AreContexts, Available
<1>8. Reached(contexts, n + 1) = Reached(contexts, n) \cup {n + 1}
  BY <1>7 DEF Reached
<1>9. \E k \in Reached(contexts, n + 1) : Keeps(g, contexts[k].context)
  <2>1. Keeps(g, contexts[first].context)
    BY <1>4, <1>6 DEF Keeps
  <2> QED BY <1>8, <2>1
<1>10. g.trace = f.trace
  BY <1>6 DEF Keeps
<1>11. ASSUME NEW i \in Reached(contexts, n + 1),
              contexts[i].context.trace # g.trace, contexts[i].context.span # NoSpan
       PROVE  IsLinked(contexts[i].context, g.links)
  <2>1. CASE i \in Reached(contexts, n)
    <3>1. PICK d : d = contexts[i].context
      OBVIOUS
    <3>2. IsLinked(d, f.links)
      BY <1>10, <1>11, <2>1, <3>1 DEF ResolvedSoFar
    <3>3. IsLinked(d, g.links)
      BY <1>6, <3>2 DEF IsLinked
    <3> QED BY <3>1, <3>3
  <2>2. CASE i = n + 1
    <3>1. context = contexts[i].context
      BY <1>1, <1>2, <2>2
    <3>2. IsLinked(context, g.links)
      BY <1>6, <1>10, <1>11, <3>1
    <3> QED BY <3>1, <3>2
  <2> QED BY <1>8, <2>1, <2>2
<1>12. \A link \in g.links : link.trace # g.trace
  BY <1>6, <1>10 DEF ResolvedSoFar
<1>13. ASSUME NEW told, AllTellLast(told, contexts) PROVE TellsLast(told, g)
  <2>1. TellsLast(told, f)
    BY <1>13 DEF ResolvedSoFar
  <2>2. TellsLast(told, context)
    BY <1>1, <1>2, <1>13 DEF AllTellLast
  <2> QED BY <1>6, <1>13, <2>1, <2>2
<1> QED BY <1>9, <1>11, <1>12, <1>13 DEF ResolvedSoFar

LEMMA ResolvedContexts ==
  ASSUME NEW contexts, AreContexts(contexts),
         NEW context, context = resolve_contexts(contexts), context # None
  PROVE  ResolvedSoFar(contexts, Len(contexts), context)
<1> DEFINE r == Resolved(contexts)
           n == Len(contexts)
           Good == {k \in Nat : k <= n => IF Reached(contexts, k) = {} THEN r[k] = None
                                          ELSE ResolvedSoFar(contexts, k, r[k])}
<1>1. n \in Nat /\ Available(contexts) \subseteq 1..n /\ 0 \notin Available(contexts)
  BY DEF AreContexts, Available
<1>2. \A k \in 0..n : r[k] = ResolvedAt(r, contexts, k)
  BY <1>1, ResolvedIs
<1> HIDE DEF r
<1>3. 0 \in Good
  <2>1. Reached(contexts, 0) = {}
    BY <1>1 DEF Reached
  <2>2. r[0] = None
    BY <1>1, <1>2 DEF ResolvedAt
  <2> QED BY <2>1, <2>2
<1>4. ASSUME NEW k \in Nat, k \in Good PROVE k + 1 \in Good
  <2> SUFFICES ASSUME k + 1 <= n
               PROVE  IF Reached(contexts, k + 1) = {} THEN r[k + 1] = None
                      ELSE ResolvedSoFar(contexts, k + 1, r[k + 1])
    OBVIOUS
  <2>1. /\ k <= n /\ k + 1 \in 0..n /\ (k + 1) - 1 = k /\ k + 1 # 0
    BY <1>1
  <2>2. IF Reached(contexts, k) = {} THEN r[k] = None ELSE ResolvedSoFar(contexts, k, r[k])
    BY <1>4, <2>1
  <2>3. r[k + 1] = ResolvedAt(r, contexts, k + 1)
    BY <1>2, <2>1
  <2>4. CASE k + 1 \notin Available(contexts)
    <3>1. r[k + 1] = r[k]
      BY <2>1, <2>3, <2>4 DEF ResolvedAt
    <3>2. Reached(contexts, k + 1) = Reached(contexts, k)
      BY <1>1, <2>4 DEF Reached
    <3> QED BY <2>2, <3>1, <3>2 DEF ResolvedSoFar
  <2>5. CASE k + 1 \in Available(contexts) /\ \A j \in Available(contexts) : k + 1 <= j
    <3>1. r[k + 1] = contexts[k + 1].context
      BY <2>3, <2>5 DEF ResolvedAt
    <3>2. ResolvedSoFar(contexts, k + 1, contexts[k + 1].context)
      BY <2>5, FirstResolved
    <3>3. k + 1 \in Reached(contexts, k + 1)
      BY <2>5 DEF Reached
    <3> QED BY <3>1, <3>2, <3>3
  <2>6. CASE k + 1 \in Available(contexts) /\ \E j \in Available(contexts) : ~(k + 1 <= j)
    <3>1. r[k + 1] = Resolve(contexts, r[k], contexts[k + 1])
      BY <2>1, <2>3, <2>6 DEF ResolvedAt
    <3>2. Reached(contexts, k) # {}
      BY <1>1, <2>6 DEF Reached
    <3>3. ResolvedSoFar(contexts, k, r[k])
      BY <2>2, <3>2
    <3>4. ResolvedSoFar(contexts, k + 1, r[k + 1])
      BY <2>6, <3>1, <3>3, NextResolved
    <3>5. k + 1 \in Reached(contexts, k + 1)
      BY <2>6 DEF Reached
    <3> QED BY <3>4, <3>5
  <2> QED BY <2>4, <2>5, <2>6
<1>5. n \in Good
  <2> HIDE DEF Good
  <2>1. \A k \in Nat : k \in Good => k + 1 \in Good
    BY <1>4
  <2>2. Nat \subseteq Good
    BY <1>3, <2>1, NumberInduction
  <2> QED BY <1>1, <2>2
<1>6. r[n] = context
  BY DEF resolve_contexts, r
<1> QED BY <1>1, <1>5, <1>6

\* What a service finds, of what its headers give
LEMMA FoundIs ==
  ASSUME NEW headers, WellFormed(headers), NEW config \in Configs,
         NEW contexts, contexts = extract_available_contexts(headers, config),
         NEW context, context = resolve_contexts(contexts), context # None
  PROVE  /\ AreContexts(contexts) /\ IsContext(context)
         /\ ResolvedSoFar(contexts, Len(contexts), context)
         /\ Explained(headers, context.priority, context.mechanism)
<1>1. AreContexts(contexts)
  BY ContextPlaces, ContextsAre DEF AreContexts
<1>2. ResolvedSoFar(contexts, Len(contexts), context)
  BY <1>1, ResolvedContexts
<1>3. PICK first \in Available(contexts) : Keeps(context, contexts[first].context)
  BY <1>2 DEF ResolvedSoFar, Reached
<1>4. Explained(headers, contexts[first].context.priority, contexts[first].context.mechanism)
  BY ContextsAre
<1>5. IsContext(context) /\ Explained(headers, context.priority, context.mechanism)
  BY <1>3, <1>4 DEF Keeps
<1> QED BY <1>1, <1>2, <1>5

\* The context a service finds tells what the headers told.
LEMMA FoundTells ==
  ASSUME NEW told, IsStory(told), NEW later, Continues(told, later),
         NEW headers, WellFormed(headers), DatadogTells(told, headers), TraceparentTells(told, headers),
         NEW config \in Configs,
         NEW contexts, contexts = extract_available_contexts(headers, config),
         NEW context, context = resolve_contexts(contexts), context # None,
         \A i \in Available(contexts) : error \in DOMAIN contexts[i].context.tags => later.cut
  PROVE  ContextTells(later, context)
<1>1. AreContexts(contexts) /\ ResolvedSoFar(contexts, Len(contexts), context)
  BY FoundIs
<1>2. Reached(contexts, Len(contexts)) = Available(contexts)
  BY <1>1 DEF AreContexts, Reached, Available
<1>3. \A i \in Available(contexts) :
        /\ ContextTells(later, contexts[i].context)
        /\ ~later.bare /\ contexts[i].style = "datadog" => contexts[i].context.span = later.last
  BY ContextsTell
<1>4. PICK first \in Available(contexts) : Keeps(context, contexts[first].context)
  BY <1>1, <1>2 DEF ResolvedSoFar
<1>5. ContextTells(later, contexts[first].context)
  BY <1>3
<1>6. ~later.bare => TellsLast(later, context)
  <2>1. ~later.bare => AllTellLast(later, contexts)
    BY <1>3 DEF AllTellLast, ContextTells, TellsLast
  <2> QED BY <1>1, <1>2, <2>1 DEF ResolvedSoFar
<1> QED BY <1>4, <1>5, <1>6 DEF ContextTells, Keeps, TellsLast

-----------------------------------------------------------------------------
(* The invariant holds in the initial states and every action keeps it. *)

\* Before the first request there is no story to tell.
LEMMA InitInv == Init => PropagationInv
<1> SUFFICES ASSUME Init PROVE PropagationInv
  OBVIOUS
<1>1. WellFormed(carrier) /\ hops = 0 /\ at = "wire" /\ story = None
  BY PropagationAssumption DEF Init
<1> QED BY <1>1 DEF PropagationInv, Typed, ToldInv, StylesInv, FoundInv

\* Extraction keeps the invariant.
LEMMA ReceiveKeeps ==
  ASSUME PropagationInv, Receive PROVE PropagationInv'
<1>1. /\ at = "wire" /\ at' = "extracted" /\ hops' = hops + 1 /\ hops \in Nat
      /\ carrier' = carrier /\ inject' = inject /\ WellFormed(carrier)
      /\ story # None => IsStory(story)
      /\ story # None /\ ~story.split => DatadogTells(story, carrier) /\ TraceparentTells(story, carrier)
  BY DEF Receive, PropagationInv, Typed, ToldInv
<1>2. PICK config \in Configs :
        LET contexts == extract_available_contexts(carrier, config)
        IN /\ cfg' = config
           /\ found' = resolve_contexts(contexts)
           /\ story' = IF \E i \in Available(contexts) : error \in DOMAIN contexts[i].context.tags
                       THEN Told("cut") ELSE story
  BY DEF Receive
<1>3. PICK contexts : contexts = extract_available_contexts(carrier, config)
  OBVIOUS
<1>4. /\ cfg' = config /\ found' = resolve_contexts(contexts)
      /\ story' = IF \E i \in Available(contexts) : error \in DOMAIN contexts[i].context.tags
                  THEN Told("cut") ELSE story
  BY <1>2, <1>3
<1>5. PICK context : context = found'
  OBVIOUS
<1>6. context # None => IsContext(context)
  BY <1>1, <1>3, <1>4, <1>5, FoundIs
<1>7. PICK later : later = story'
  OBVIOUS
<1>8. IF story = None THEN later = None
      ELSE /\ Continues(story, later)
           /\ \A i \in Available(contexts) : error \in DOMAIN contexts[i].context.tags => later.cut
  <2>1. CASE story = None
    BY <1>4, <1>7, <2>1 DEF Told
  <2>2. CASE story # None /\ \E i \in Available(contexts) : error \in DOMAIN contexts[i].context.tags
    <3>1. later = [story EXCEPT !.cut = TRUE]
      BY <1>4, <1>7, <2>2 DEF Told
    <3>2. later.cut
      BY <1>1, <2>2, <3>1 DEF IsStory
    <3> QED BY <2>2, <3>1, <3>2 DEF Continues
  <2>3. CASE story # None /\ ~(\E i \in Available(contexts) : error \in DOMAIN contexts[i].context.tags)
    BY <1>4, <1>7, <2>3 DEF Continues
  <2> QED BY <2>1, <2>2, <2>3
<1>9. later # None => story # None /\ IsStory(later) /\ later.split = story.split
  BY <1>1, <1>8, ContinuedStory
<1>10. later # None /\ ~later.split /\ context # None => ContextTells(later, context)
  BY <1>1, <1>3, <1>4, <1>5, <1>8, <1>9, FoundTells
<1>11. Typed'
  BY <1>1, <1>4, <1>5, <1>6, <1>7, <1>9 DEF Typed
<1>12. ToldInv'
  BY <1>1, <1>5, <1>7, <1>10 DEF ToldInv
<1>13. StylesInv' /\ FoundInv'
  BY <1>1, <1>3, <1>4 DEF StylesInv, FoundInv
<1> QED BY <1>11, <1>12, <1>13 DEF PropagationInv

\* Names that a service makes are names.
LEMMA OwnSpanIs == hops \in Nat => OwnSpan \notin {None, Bad} /\ IsTrace(OwnTrace)
<1> SUFFICES ASSUME hops \in Nat PROVE OwnSpan \notin {None, Bad} /\ IsTrace(OwnTrace)
  OBVIOUS
<1>1. /\ <<"s", hops>> \in {"0", "s", "t", "v"} \X Nat
      /\ <<"t", hops>> \in {"0", "s", "t", "v"} \X Nat
  OBVIOUS
<1>2. <<"s", hops>> \notin {None, Bad} /\ <<"t", hops>> \notin {None, Bad}
  BY <1>1, PropagationAssumption
<1> QED BY <1>2 DEF OwnSpan, OwnTrace, IsTrace

\* The members that are passed on were read, so none of them is bad.
LEMMA MembersAre ==
  ASSUME NEW c, IsContext(c)
  PROVE  members(c) \in MemberLists /\ \A i \in DOMAIN members(c) : members(c)[i] # "bad"
<1>1. CASE c.tracestate = None
  <2>1. members(c) = <<>>
    BY <1>1 DEF members
  <2>2. <<>> \in MemberLists
    BY DEF MemberLists
  <2> QED BY <2>1, <2>2
<1>2. CASE c.tracestate # None
  <2>1. members(c) = c.tracestate.members
    BY <1>2 DEF members
  <2> QED BY <1>2, <2>1 DEF IsContext, Clean, parses
<1> QED BY <1>1, <1>2

\* The tags of a decision name its mechanism.
LEMMA DecisionTags ==
  ASSUME NEW d \in Decisions, NEW tags, IsFiniteSet(DOMAIN tags),
         NEW more, more = Put(tags, dm, d.mechanism)
  PROVE  IsFiniteSet(DOMAIN more) /\ mechanism_of(more) = d.mechanism
<1>1. d.mechanism \in Mechanisms
  BY PropagationAssumption
<1>2. PICK text : text = d.mechanism
  OBVIOUS
<1>3. IsFiniteSet(DOMAIN more)
  BY PutFinite
<1>4. dm \in DOMAIN more /\ more[dm] = text
  BY <1>2 DEF Put
<1>5. mechanism_of(more) = text
  BY <1>1, <1>2, <1>4 DEF mechanism_of
<1> QED BY <1>2, <1>3, <1>5

\* A local root keeps what the context decided, and decides what it did not.
LEMMA RootIs ==
  ASSUME hops \in Nat, found # None => IsContext(found), NEW d \in Decisions,
         NEW root, root = LocalRoot(d)
  PROVE  /\ IsInjected(root) /\ ~root.is_remote
         /\ found # None => root.trace = found.trace /\ root.origin = found.origin
         /\ found # None /\ found.priority # None =>
              /\ root.priority = found.priority /\ root.mechanism = found.mechanism
              /\ root.tags = found.tags
         /\ ~(found # None /\ found.priority # None) => MadeBy(root.mechanism, root.priority)
<1>1. /\ OwnSpan \notin {None, Bad} /\ IsTrace(OwnTrace) /\ d.priority \in Int
      /\ MadeBy(d.mechanism, d.priority)
  BY OwnSpanIs, PropagationAssumption
<1>2. CASE found = None
  <2>1. PICK tags : tags = Put(<<>>, dm, d.mechanism)
    OBVIOUS
  <2>2. IsFiniteSet(DOMAIN <<>>)
    <3>1. DOMAIN <<>> = {}
      OBVIOUS
    <3> QED BY <3>1, FS_EmptySet
  <2>3. IsFiniteSet(DOMAIN tags) /\ mechanism_of(tags) = d.mechanism
    BY <2>1, <2>2, DecisionTags
  <2>4. root = [trace |-> OwnTrace, span |-> OwnSpan,
                priority |-> d.priority, mechanism |-> d.mechanism, origin |-> None,
                tags |-> tags, members |-> <<>>, is_remote |-> FALSE]
    BY <1>2, <2>1 DEF LocalRoot
  <2>5. <<>> \in MemberLists
    BY DEF MemberLists
  <2>6. IsInjected(root) /\ ~root.is_remote
    BY <1>1, <2>3, <2>4, <2>5 DEF IsInjected
  <2> QED BY <1>1, <1>2, <2>4, <2>6
<1>3. CASE found # None /\ found.priority = None
  <2>1. PICK tags : tags = Put(found.tags, dm, d.mechanism)
    OBVIOUS
  <2>2. IsContext(found)
    BY <1>3
  <2>3. IsFiniteSet(DOMAIN tags) /\ mechanism_of(tags) = d.mechanism
    <3>1. PICK old : old = found.tags
      OBVIOUS
    <3> QED BY <2>1, <2>2, <3>1, DecisionTags DEF IsContext
  <2>4. PICK list : list = members(found)
    OBVIOUS
  <2>5. root = [trace |-> found.trace, span |-> OwnSpan,
                priority |-> d.priority, mechanism |-> d.mechanism, origin |-> found.origin,
                tags |-> tags, members |-> list, is_remote |-> FALSE]
    BY <1>3, <2>1, <2>4 DEF LocalRoot
  <2>6. list \in MemberLists /\ \A i \in DOMAIN list : list[i] # "bad"
    BY <2>2, <2>4, MembersAre
  <2>7. IsInjected(root) /\ ~root.is_remote
    BY <1>1, <2>2, <2>3, <2>5, <2>6 DEF IsInjected, IsContext
  <2> QED BY <1>1, <1>3, <2>5, <2>7
<1>4. CASE found # None /\ found.priority # None
  <2>1. IsContext(found)
    BY <1>4
  <2>2. PICK list : list = members(found)
    OBVIOUS
  <2>3. root = [trace |-> found.trace, span |-> OwnSpan,
                priority |-> found.priority, mechanism |-> found.mechanism, origin |-> found.origin,
                tags |-> found.tags, members |-> list, is_remote |-> FALSE]
    BY <1>4, <2>2 DEF LocalRoot
  <2>4. list \in MemberLists /\ \A i \in DOMAIN list : list[i] # "bad"
    BY <2>1, <2>2, MembersAre
  <2>5. IsInjected(root) /\ ~root.is_remote
    BY <1>1, <1>4, <2>1, <2>3, <2>4 DEF IsInjected, IsContext
  <2> QED BY <1>4, <2>3, <2>5
<1> QED BY <1>2, <1>3, <1>4

\* The local root keeps the invariant, whether it continues a story or begins one.
LEMMA StartKeeps ==
  ASSUME PropagationInv, StartLocalRoot PROVE PropagationInv'
<1>1. /\ at = "extracted" /\ at' = "started" /\ hops' = hops /\ hops \in Nat
      /\ carrier' = carrier /\ cfg' = cfg /\ found' = found /\ WellFormed(carrier)
      /\ cfg \in Configs /\ (story # None => IsStory(story))
      /\ found # None => IsContext(found)
      /\ story # None /\ ~story.split /\ found # None => ContextTells(story, found)
  BY DEF StartLocalRoot, PropagationInv, Typed, ToldInv
<1>2. PICK d \in Decisions :
        /\ inject' = LocalRoot(d)
        /\ story' = IF story # None /\ found # None THEN story
                    ELSE [trace |-> LocalRoot(d).trace, priority |-> LocalRoot(d).priority,
                          mechanism |-> LocalRoot(d).mechanism, origin |-> LocalRoot(d).origin,
                          keep |-> is_keep(LocalRoot(d).priority), last |-> NoSpan, flipped |-> FALSE,
                          bare |-> FALSE, split |-> FALSE, torn |-> FALSE, cut |-> FALSE]
  BY DEF StartLocalRoot
<1>3. PICK root : root = LocalRoot(d)
  OBVIOUS
<1>4. /\ IsInjected(root) /\ ~root.is_remote
      /\ found # None => root.trace = found.trace /\ root.origin = found.origin
      /\ found # None /\ found.priority # None =>
           /\ root.priority = found.priority /\ root.mechanism = found.mechanism
           /\ root.tags = found.tags
      /\ ~(found # None /\ found.priority # None) => MadeBy(root.mechanism, root.priority)
  BY <1>1, <1>3, RootIs
<1>5. PICK later : later = story'
  OBVIOUS
<1>6. IsTrace(root.trace) /\ root.priority \in Int
  BY <1>4 DEF IsInjected
<1>7. FoundInv'
  <2>1. PICK contexts : contexts = extract_available_contexts(carrier, cfg)
    OBVIOUS
  <2>2. found = resolve_contexts(contexts)
    BY <1>1, <2>1 DEF PropagationInv, FoundInv
  <2>3. found # None => Explained(carrier, found.priority, found.mechanism)
    BY <1>1, <2>1, <2>2, FoundIs
  <2>4. Explained(carrier, root.priority, root.mechanism)
    BY <1>4, <2>3 DEF Explained
  <2>5. inject' = root
    BY <1>2, <1>3
  <2> QED BY <1>1, <2>4, <2>5 DEF FoundInv
<1>8. CASE story # None /\ found # None
  <2>1. later = story
    BY <1>2, <1>5, <1>8
  <2>2. ~story.split =>
          /\ InjectTells(story, root)
          /\ ~story.bare => LastIn(story, found.span, root.tags)
    <3>1. SUFFICES ASSUME ~story.split
                   PROVE  /\ InjectTells(story, root)
                          /\ ~story.bare => LastIn(story, found.span, root.tags)
      OBVIOUS
    <3>2. ContextTells(story, found)
      BY <1>1, <1>8, <3>1
    <3>3. found.priority # None
      BY <3>2, PropagationAssumption DEF ContextTells, SameDecision
    <3> QED BY <1>4, <1>8, <3>2, <3>3 DEF ContextTells, InjectTells
  <2>3. Typed'
    BY <1>1, <1>2, <1>3, <1>4, <1>5, <1>8, <2>1 DEF Typed
  <2>4. ToldInv'
    BY <1>1, <1>2, <1>3, <1>5, <1>8, <2>1, <2>2 DEF ToldInv
  <2> QED BY <1>1, <1>7, <2>3, <2>4 DEF PropagationInv, StylesInv
<1>9. CASE ~(story # None /\ found # None)
  <2>1. later = [trace |-> root.trace, priority |-> root.priority,
                 mechanism |-> root.mechanism, origin |-> root.origin,
                 keep |-> is_keep(root.priority), last |-> NoSpan, flipped |-> FALSE,
                 bare |-> FALSE, split |-> FALSE, torn |-> FALSE, cut |-> FALSE]
    BY <1>2, <1>3, <1>5, <1>9
  <2>2. IsStory(later)
    BY <1>6, <2>1 DEF IsStory, is_keep
  <2>3. InjectTells(later, root) /\ later.last = NoSpan
    BY <1>4, <1>6, <2>1 DEF InjectTells, SameTrace, SameDecision, SameOrigin, Arrives
  <2>4. Typed'
    BY <1>1, <1>2, <1>3, <1>4, <1>5, <2>2 DEF Typed
  <2>5. ToldInv'
    BY <1>1, <1>2, <1>3, <1>5, <2>3 DEF ToldInv
  <2> QED BY <1>1, <1>7, <2>4, <2>5 DEF PropagationInv, StylesInv
<1> QED BY <1>8, <1>9

\* No tags name no mechanism.
LEMMA NoTags ==
  IsFiniteSet(DOMAIN <<>>) /\ mechanism_of(<<>>) = None /\ HeaderTags(<<>>)
<1>1. DOMAIN <<>> = {}
  OBVIOUS
<1>2. IsFiniteSet(DOMAIN <<>>) /\ mechanism_of(<<>>) = None
  BY <1>1, FS_EmptySet DEF mechanism_of
<1> QED BY <1>1, <1>2 DEF HeaderTags

\* A service without a span keeps the invariant.
LEMMA PassOnKeeps ==
  ASSUME PropagationInv, PassOn PROVE PropagationInv'
<1>1. /\ at = "extracted" /\ at' = "started" /\ hops' = hops /\ hops \in Nat /\ found # None
      /\ carrier' = carrier /\ cfg' = cfg /\ found' = found /\ WellFormed(carrier)
      /\ cfg \in Configs /\ (story # None => IsStory(story)) /\ IsContext(found)
      /\ story' = Told("bare")
      /\ story # None /\ ~story.split => ContextTells(story, found)
  BY DEF PassOn, PropagationInv, Typed, ToldInv
<1>2. PICK list : list = members(found)
  OBVIOUS
<1>3. PICK priority : priority = IF found.priority # None /\ is_keep(found.priority)
                                 THEN AUTO_KEEP ELSE AUTO_REJECT
  OBVIOUS
<1>4. PICK passed : passed = inject'
  OBVIOUS
<1>5. passed = [trace |-> found.trace, span |-> found.span, priority |-> priority,
                mechanism |-> None, origin |-> None, tags |-> <<>>,
                members |-> list, is_remote |-> TRUE]
  BY <1>2, <1>3, <1>4 DEF PassOn
<1>6. list \in MemberLists /\ \A i \in DOMAIN list : list[i] # "bad"
  BY <1>1, <1>2, MembersAre
<1>7. priority \in Int
  BY <1>3 DEF AUTO_KEEP, AUTO_REJECT
<1>8. IsInjected(passed)
  BY <1>1, <1>5, <1>6, <1>7, NoTags DEF IsInjected, IsContext
<1>9. PICK later : later = story'
  OBVIOUS
<1>10. IF story = None THEN later = None
       ELSE /\ IsStory(later) /\ later.trace = story.trace /\ later.keep = story.keep
            /\ later.bare = TRUE /\ later.split = story.split /\ later.cut = story.cut
            /\ later.flipped = story.flipped /\ later.torn = story.torn
  BY <1>1, <1>9 DEF Told, IsStory
<1>11. story # None /\ ~story.split => InjectTells(later, passed)
  <2> SUFFICES ASSUME story # None, ~story.split PROVE InjectTells(later, passed)
    OBVIOUS
  <2>1. /\ SameTrace(story, found.trace) /\ found.priority \in Int
        /\ ~story.torn => is_keep(found.priority) = story.keep
    BY <1>1 DEF ContextTells, SameDecision
  <2>2. found.priority # None
    BY <2>1, PropagationAssumption
  <2>3. ~story.torn => is_keep(priority) = story.keep
    BY <1>3, <2>1, <2>2 DEF is_keep, AUTO_KEEP, AUTO_REJECT
  <2> QED BY <1>5, <1>7, <1>10, <2>1, <2>3 DEF InjectTells, SameTrace, SameDecision
<1>12. Typed'
  BY <1>1, <1>4, <1>8, <1>9, <1>10 DEF Typed
<1>13. ToldInv'
  BY <1>1, <1>4, <1>9, <1>10, <1>11 DEF ToldInv
<1>14. FoundInv'
  BY <1>1, <1>4, <1>5 DEF FoundInv, Explained
<1> QED BY <1>1, <1>12, <1>13, <1>14 DEF PropagationInv, StylesInv

\* Injection starts from headers that say nothing.
LEMMA NoHeadersAre ==
  WellFormed(NoHeaders) /\ NoHeaders.tid = None /\ NoHeaders.traceparent = None
<1>1. <<"bad">> \in MemberLists
  BY DEF MemberLists
<1>2. IsTracestate(NoTracestate)
  BY <1>1, NoTags DEF IsTracestate, NoTracestate
<1> QED BY <1>2, NoTags DEF WellFormed, NoHeaders

\* The begin and the end of the injection keep the invariant.
LEMMA CallKeeps ==
  ASSUME PropagationInv, Call PROVE PropagationInv'
<1>1. /\ at = "started" /\ at' = "injecting" /\ hops' = hops /\ hops \in Nat
      /\ carrier' = NoHeaders /\ cfg' = cfg /\ inject' = inject
      /\ cfg \in Configs /\ (story # None => IsStory(story)) /\ IsInjected(inject)
      /\ story # None /\ ~story.split => InjectTells(story, inject)
  BY DEF Call, PropagationInv, Typed, ToldInv
<1>2. PICK later : later = story'
  OBVIOUS
<1>3. IF story = None THEN later = None
      ELSE /\ IsStory(later) /\ later.trace = story.trace /\ later.keep = story.keep
           /\ later.bare = story.bare /\ later.split = story.split /\ later.cut = story.cut
           /\ later.flipped = story.flipped /\ later.priority = story.priority /\ later.torn = story.torn
           /\ later.mechanism = story.mechanism /\ later.origin = story.origin
           /\ ~inject.is_remote => later.last = inject.span
  <2>1. later = IF story = None \/ inject.is_remote THEN story ELSE [story EXCEPT !.last = inject.span]
    BY <1>2 DEF Call
  <2> QED BY <1>1, <2>1 DEF IsStory
<1>4. story # None /\ ~story.split => InjectTells(later, inject)
  BY <1>1, <1>3 DEF InjectTells, SameTrace, SameDecision, SameOrigin
<1>5. story # None /\ ~story.split /\ ~later.bare => later.last = inject.span
  BY <1>1, <1>3 DEF InjectTells
<1>6. DatadogTells(later, NoHeaders) /\ TraceparentTells(later, NoHeaders)
  BY NoHeadersAre DEF DatadogTells, TraceparentTells
<1>7. Typed'
  BY <1>1, <1>2, <1>3, NoHeadersAre DEF Typed
<1>8. ToldInv'
  BY <1>1, <1>2, <1>3, <1>4, <1>5, <1>6 DEF ToldInv
<1>9. StylesInv'
  BY <1>1, NoHeadersAre DEF StylesInv
<1> QED BY <1>1, <1>7, <1>8, <1>9 DEF PropagationInv, FoundInv

LEMMA SendKeeps ==
  ASSUME PropagationInv, Send PROVE PropagationInv'
<1>1. /\ at = "injecting" /\ at' = "wire" /\ hops' = hops /\ carrier' = carrier /\ story' = story
  BY DEF Send
<1>2. Typed' /\ ToldInv'
  BY <1>1 DEF PropagationInv, Typed, ToldInv
<1> QED BY <1>1, <1>2 DEF PropagationInv, StylesInv, FoundInv

\* The tracestate with one more member
LEMMA MoreMembers ==
  ASSUME NEW old, IsTracestate(old), NEW member \in Members,
         NEW new, new = [old EXCEPT !.members = <<member>> \o old.members]
  PROVE  /\ IsTracestate(new) /\ (parses(old) /\ member # "bad" => parses(new))
         /\ new.s = old.s /\ new.p = old.p /\ new.o = old.o /\ new.t = old.t
<1>1. PICK list : list = old.members
  OBVIOUS
<1>2. PICK more : more = <<member>> \o list
  OBVIOUS
<1>3. list \in MemberLists /\ more \in MemberLists
  BY <1>1, <1>2 DEF MemberLists, IsTracestate
<1>4. /\ new.s = old.s /\ new.p = old.p /\ new.o = old.o /\ new.t = old.t /\ new.members = more
      /\ DOMAIN new = DOMAIN old
  BY <1>1, <1>2 DEF IsTracestate
<1>5. IsTracestate(new)
  BY <1>3, <1>4 DEF IsTracestate
<1>6. ASSUME parses(old), member # "bad" PROVE parses(new)
  <2>1. \A i \in DOMAIN list : list[i] # "bad"
    BY <1>1, <1>6 DEF parses
  <2>2. ASSUME NEW i \in DOMAIN more PROVE more[i] # "bad"
    <3>1. more[i] = IF i = 1 THEN member ELSE list[i - 1]
      BY <1>2, <1>3 DEF MemberLists
    <3>2. i # 1 => i - 1 \in DOMAIN list
      BY <1>2, <1>3 DEF MemberLists
    <3> QED BY <1>6, <2>1, <3>1, <3>2
  <2> QED BY <1>4, <2>2 DEF parses
<1> QED BY <1>4, <1>5, <1>6

\* A service of another vendor keeps the invariant: headers of Datadog go as they
\* came or not at all, and the story knows what happened to the others.
LEMMA VendorKeeps ==
  ASSUME PropagationInv, Vendor PROVE PropagationInv'
<1>1. /\ at = "wire" /\ at' = at /\ hops' = hops /\ hops \in Nat /\ story # None
      /\ WellFormed(carrier) /\ IsStory(story)
      /\ ~story.split => DatadogTells(story, carrier) /\ TraceparentTells(story, carrier)
  BY DEF Vendor, PropagationInv, Typed, ToldInv
<1>2. PICK forwards \in BOOLEAN, flips \in BOOLEAN, member \in Members \cup {None} :
        LET parent == carrier.traceparent
            base   == IF forwards THEN carrier ELSE NoHeaders
        IN /\ parent # None => parent.span # VendorSpan
           /\ flips => parent # None
           /\ member # None => carrier.tracestate # NoTracestate
           /\ carrier' = [base EXCEPT !.traceparent = VendorTraceparent(flips),
                                      !.tracestate = WithMember(carrier.tracestate, member)]
           /\ story' = [story EXCEPT
                          !.flipped = @ \/ flips, !.keep = (@ # flips), !.bare = @ \/ member = "bad",
                          !.split = @ \/ parent = None,
                          !.torn = @ \/ (flips /\ forwards /\ carrier.tid # None)]
  BY DEF Vendor
<1> DEFINE parent  == carrier.traceparent
           sampled == parent.flags % 2
<1>3. PICK tp : tp = VendorTraceparent(flips)
  OBVIOUS
<1>4. PICK basis : basis = IF forwards THEN carrier ELSE NoHeaders
  OBVIOUS
<1>5. PICK old : old = carrier.tracestate
  OBVIOUS
<1>6. PICK ts : ts = WithMember(old, member)
  OBVIOUS
<1>7. /\ WellFormed(basis)
      /\ IF forwards THEN basis = carrier ELSE basis.tid = None
  BY <1>1, <1>4, NoHeadersAre
<1>8. PICK headers : headers = carrier'
  OBVIOUS
<1>9. headers = [basis EXCEPT !.traceparent = tp, !.tracestate = ts]
  BY <1>2, <1>3, <1>4, <1>5, <1>6, <1>8
<1>10. IsTracestate(old) /\ (parent # None => IsTraceparent(parent))
  BY <1>1, <1>5 DEF WellFormed
<1>11. /\ IsTracestate(ts) /\ (parses(old) /\ member # "bad" => parses(ts))
       /\ ts.s = old.s /\ ts.p = old.p /\ ts.o = old.o /\ ts.t = old.t
  <2>1. CASE member = None
    BY <1>6, <1>10, <2>1 DEF WithMember
  <2>2. CASE member # None
    BY <1>2, <1>6, <1>10, <2>2, MoreMembers DEF WithMember
  <2> QED BY <2>1, <2>2
<1>12. VendorSpan \notin {None, Bad}
  <2>1. <<"v", hops>> \in {"0", "s", "t", "v"} \X Nat
    BY <1>1
  <2> QED BY <2>1, PropagationAssumption DEF VendorSpan
<1>13. parent # None => sampled \in {0, 1}
  <2> SUFFICES ASSUME parent # None PROVE sampled \in {0, 1}
    OBVIOUS
  <2>1. parent.flags \in Nat
    BY <1>10 DEF IsTraceparent
  <2> QED BY <2>1
<1>14. /\ IsTraceparent(tp) /\ (parent # None => tp.trace = parent.trace)
       /\ parent # None => (tp.flags % 2 = 1) = ((sampled = 1) # flips)
  <2>1. CASE parent = None
    <3>1. tp = [version |-> "00", tail |-> "", span |-> VendorSpan,
                trace |-> <<"b2", VendorSpan>>, flags |-> 1]
      BY <1>3, <2>1 DEF VendorTraceparent
    <3>2. IsTrace(<<"b2", VendorSpan>>)
      BY <1>12 DEF IsTrace
    <3> QED BY <1>12, <2>1, <3>1, <3>2 DEF IsTraceparent
  <2>2. CASE parent # None
    <3>1. PICK flags : flags = IF flips THEN 1 - sampled ELSE sampled
      OBVIOUS
    <3>2. tp = [version |-> "00", tail |-> "", span |-> VendorSpan,
                trace |-> parent.trace, flags |-> flags]
      BY <1>3, <2>2, <3>1 DEF VendorTraceparent
    <3>3. flags \in {0, 1} /\ (flags % 2 = 1) = ((sampled = 1) # flips)
      <4> HIDE DEF sampled
      <4> QED BY <1>2, <1>13, <2>2, <3>1
    <3>4. IsTrace(parent.trace)
      BY <1>10, <2>2 DEF IsTraceparent
    <3>5. /\ DOMAIN tp = {"version", "trace", "span", "tail", "flags"}
          /\ tp.trace = parent.trace /\ tp.span = VendorSpan /\ tp.flags = flags
      BY <3>2
    <3>6. flags \in Nat
      BY <3>3
    <3> HIDE DEF sampled, parent
    <3>7. IsTraceparent(tp)
      BY <1>12, <3>4, <3>5, <3>6 DEF IsTraceparent
    <3> QED BY <3>3, <3>5, <3>7
  <2> QED BY <2>1, <2>2
<1>15. /\ WellFormed(headers) /\ headers.traceparent = tp /\ headers.tracestate = ts
       /\ headers.tid = basis.tid /\ headers.tags = basis.tags /\ headers.parent = basis.parent
       /\ headers.priority = basis.priority /\ headers.origin = basis.origin
  BY <1>7, <1>9, <1>11, <1>14 DEF WellFormed, NoHeaders
<1>16. PICK later : later = story'
  OBVIOUS
<1>17. /\ IsStory(later) /\ later.trace = story.trace /\ later.cut = story.cut
       /\ later.priority = story.priority /\ later.mechanism = story.mechanism
       /\ later.origin = story.origin /\ later.last = story.last
       /\ later.keep = (story.keep # flips) /\ (~later.flipped => ~story.flipped /\ ~flips)
       /\ ~later.bare => ~story.bare /\ member # "bad"
       /\ ~later.split => ~story.split /\ parent # None
       /\ ~later.torn => ~story.torn /\ ~(flips /\ forwards /\ carrier.tid # None)
       /\ story.keep \in BOOLEAN
  <2>1. PICK flipped : flipped = (story.flipped \/ flips)
    OBVIOUS
  <2>2. PICK keep : keep = (story.keep # flips)
    OBVIOUS
  <2>3. PICK isBare : isBare = (story.bare \/ member = "bad")
    OBVIOUS
  <2>4. PICK isSplit : isSplit = (story.split \/ parent = None)
    OBVIOUS
  <2>5. PICK isTorn : isTorn = (story.torn \/ (flips /\ forwards /\ carrier.tid # None))
    OBVIOUS
  <2>6. later = [story EXCEPT !.flipped = flipped, !.keep = keep, !.bare = isBare, !.split = isSplit,
                              !.torn = isTorn]
    BY <1>2, <1>16, <2>1, <2>2, <2>3, <2>4, <2>5
  <2>7. /\ story.keep \in BOOLEAN /\ story.flipped \in BOOLEAN /\ story.bare \in BOOLEAN
        /\ story.split \in BOOLEAN /\ story.torn \in BOOLEAN /\ story.cut \in BOOLEAN
    BY <1>1 DEF IsStory
  <2>8. /\ flipped \in BOOLEAN /\ keep \in BOOLEAN /\ isBare \in BOOLEAN /\ isSplit \in BOOLEAN
        /\ isTorn \in BOOLEAN
    BY <2>1, <2>2, <2>3, <2>4, <2>5
  <2>9. /\ later.trace = story.trace /\ later.cut = story.cut
        /\ later.priority = story.priority /\ later.mechanism = story.mechanism
        /\ later.origin = story.origin /\ later.last = story.last
        /\ later.keep = keep /\ later.flipped = flipped /\ later.bare = isBare
        /\ later.split = isSplit /\ later.torn = isTorn /\ DOMAIN later = DOMAIN story
    BY <1>1, <2>6 DEF IsStory
  <2>10. IsStory(later)
    BY <1>1, <2>7, <2>8, <2>9 DEF IsStory
  <2> QED BY <2>1, <2>2, <2>3, <2>4, <2>7, <2>5, <2>9, <2>10
<1>18. ASSUME ~later.split PROVE DatadogTells(later, headers)
  <2>1. CASE ~forwards
    BY <1>7, <1>15, <2>1 DEF DatadogTells
  <2>2. CASE forwards
    <3>1. basis = carrier
      BY <1>7, <2>2
    <3>2. DatadogTells(story, carrier)
      BY <1>1, <1>17, <1>18
    <3>3. CASE headers.tid # None
      <4>1. PICK trace : trace = combine_trace_id(headers.tid, headers.tags)
        OBVIOUS
      <4>2. PICK mechanism : mechanism = mechanism_of(headers.tags)
        OBVIOUS
      <4>3. /\ headers.tid # Bad /\ SameTrace(story, trace)
            /\ SameDecision(story, headers.priority, mechanism)
            /\ ~story.bare => /\ SameOrigin(story, headers.origin)
                              /\ headers.parent = story.last /\ story.last \notin {None, Bad}
        BY <1>15, <3>1, <3>2, <3>3, <4>1, <4>2 DEF DatadogTells
      <4>4. SameTrace(later, trace) /\ SameDecision(later, headers.priority, mechanism)
        <5>1. ~later.torn => ~flips /\ later.keep = story.keep /\ ~story.torn
          BY <1>15, <1>17, <2>2, <3>1, <3>3
        <5> QED BY <1>17, <4>3, <5>1 DEF SameTrace, SameDecision
      <4>5. ~later.bare => /\ SameOrigin(later, headers.origin)
                           /\ headers.parent = later.last /\ later.last \notin {None, Bad}
        BY <1>17, <4>3 DEF SameOrigin
      <4> QED BY <4>1, <4>2, <4>3, <4>4, <4>5 DEF DatadogTells
    <3> QED BY <3>3 DEF DatadogTells
  <2> QED BY <2>1, <2>2
<1>19. ASSUME ~later.split PROVE TraceparentTells(later, headers)
  <2>1. parent # None /\ TraceparentTells(story, carrier)
    BY <1>1, <1>17, <1>19
  <2>2. /\ SameTrace(story, parent.trace) /\ (~story.torn => (sampled = 1) = story.keep)
        /\ ~story.bare => TracestateTells(story, old)
    BY <1>5, <2>1 DEF TraceparentTells
  <2> HIDE DEF sampled, parent
  <2>3. SameTrace(later, tp.trace)
    BY <1>14, <1>17, <2>1, <2>2 DEF SameTrace
  <2>4. ~later.torn => (tp.flags % 2 = 1) = later.keep
    BY <1>14, <1>17, <2>1, <2>2
  <2>5. ASSUME ~later.bare PROVE TracestateTells(later, ts)
    <3>1. TracestateTells(story, old) /\ member # "bad"
      BY <1>17, <2>2, <2>5
    <3>2. /\ parses(ts) /\ later.last \notin {None, Bad}
          /\ ts.p = later.last \/ (ts.p = None /\ CrowdsParent(later.origin))
      BY <1>11, <1>17, <3>1 DEF TracestateTells
    <3>3. SameOrigin(later, Decoded(ts.o))
      BY <1>11, <1>17, <3>1 DEF TracestateTells, SameOrigin
    <3>4. ASSUME ~later.flipped PROVE SameDecision(later, ts.s, mechanism_of(ts.t))
      <4>1. later.keep = story.keep /\ ~story.flipped /\ ~story.bare
        BY <1>17, <2>5, <3>4
      <4>2. SameDecision(story, old.s, mechanism_of(old.t))
        BY <3>1, <4>1 DEF TracestateTells
      <4>3. PICK mechanism : mechanism = mechanism_of(ts.t)
        OBVIOUS
      <4>4. SameDecision(later, ts.s, mechanism)
        BY <1>11, <1>17, <4>1, <4>2, <4>3 DEF SameDecision
      <4> QED BY <4>3, <4>4
    <3> QED BY <3>2, <3>3, <3>4 DEF TracestateTells
  <2> QED BY <1>15, <2>3, <2>4, <2>5 DEF TraceparentTells
<1>20. Typed'
  BY <1>1, <1>8, <1>15, <1>16, <1>17 DEF Typed
<1>21. ToldInv'
  BY <1>1, <1>8, <1>16, <1>18, <1>19 DEF ToldInv
<1> QED BY <1>1, <1>20, <1>21 DEF PropagationInv, StylesInv, FoundInv

-----------------------------------------------------------------------------
(* Injection *)

\* The tags that a service sends with its context
LEMMA SentTags ==
  ASSUME IsInjected(inject), NEW tags, tags = inject_sampling(inject_trace_id(inject.tags))
  PROVE  /\ IsFiniteSet(DOMAIN tags) /\ mechanism_of(tags) = inject.mechanism
         /\ IF inject.trace[1] = "" THEN tid \notin DOMAIN tags
            ELSE tid \in DOMAIN tags /\ tags[tid] = inject.trace[1]
<1>1. PICK old : old = inject.tags
  OBVIOUS
<1>2. PICK half : half = inject.trace[1]
  OBVIOUS
<1>3. PICK mechanism : mechanism = inject.mechanism
  OBVIOUS
<1>4. IsFiniteSet(DOMAIN old) /\ mechanism = mechanism_of(old)
  BY <1>1, <1>3 DEF IsInjected
<1>5. PICK some : some = IF half # "" THEN Put(old, tid, half) ELSE Without(old, tid)
  OBVIOUS
<1>6. tags = IF mechanism # None THEN Put(some, dm, mechanism) ELSE some
  BY <1>1, <1>2, <1>3, <1>5 DEF inject_sampling, inject_trace_id
<1>7. /\ IsFiniteSet(DOMAIN some) /\ mechanism_of(some) = mechanism
      /\ IF half = "" THEN tid \notin DOMAIN some ELSE tid \in DOMAIN some /\ some[tid] = half
  <2>1. CASE half # ""
    <3>1. some = Put(old, tid, half)
      BY <1>5, <2>1
    <3>2. mechanism_of(some) = mechanism_of(old)
      BY <3>1, KeysDiffer, MechanismPut
    <3>3. IsFiniteSet(DOMAIN some)
      BY <1>4, <3>1, PutFinite
    <3>4. tid \in DOMAIN some /\ some[tid] = half
      BY <3>1 DEF Put
    <3> QED BY <1>4, <2>1, <3>2, <3>3, <3>4
  <2>2. CASE half = ""
    <3>1. some = Without(old, tid)
      BY <1>5, <2>2
    <3>2. mechanism_of(some) = mechanism_of(old)
      BY <3>1, KeysDiffer DEF Without, Only, mechanism_of
    <3>3. IsFiniteSet(DOMAIN some)
      BY <1>4, <3>1, WithoutIs
    <3>4. DOMAIN some = DOMAIN old \ {tid}
      BY <3>1 DEF Without, Only
    <3> QED BY <1>4, <2>2, <3>2, <3>3, <3>4
  <2> QED BY <2>1, <2>2
<1>8. CASE mechanism = None
  <2>1. tags = some
    BY <1>6, <1>8
  <2> QED BY <1>1, <1>2, <1>3, <1>7, <2>1
<1>9. CASE mechanism # None
  <2>1. tags = Put(some, dm, mechanism)
    BY <1>6, <1>9
  <2>2. mechanism \in Mechanisms
    BY <1>4, <1>9 DEF mechanism_of
  <2>3. dm \in DOMAIN tags /\ tags[dm] = mechanism
    BY <2>1 DEF Put
  <2>4. mechanism_of(tags) = mechanism
    BY <2>2, <2>3 DEF mechanism_of
  <2>5. IsFiniteSet(DOMAIN tags)
    BY <1>7, <2>1, PutFinite
  <2>6. /\ tid \in DOMAIN tags <=> tid \in DOMAIN some
        /\ tid \in DOMAIN some => tags[tid] = some[tid]
    BY <2>1, KeysDiffer DEF Put
  <2> QED BY <1>1, <1>2, <1>3, <1>7, <2>4, <2>5, <2>6
<1> QED BY <1>8, <1>9

\* The trace is found again in its halves.
LEMMA TraceOfHalves ==
  ASSUME NEW trace, IsTrace(trace), NEW tags,
         IF trace[1] = "" THEN tid \notin DOMAIN tags
         ELSE tid \in DOMAIN tags /\ tags[tid] = trace[1]
  PROVE  combine_trace_id(trace[2], Propagated(tags)) = trace
<1>1. PICK sent : sent = Propagated(tags)
  OBVIOUS
<1>2. /\ tid \in DOMAIN sent <=> tid \in DOMAIN tags
      /\ tid \in DOMAIN tags => sent[tid] = tags[tid]
  BY <1>1, KeysDiffer DEF Propagated, Only
<1>3. trace = <<trace[1], trace[2]>> /\ trace[1] # "0"
  BY DEF IsTrace
<1>4. CASE trace[1] = ""
  BY <1>1, <1>2, <1>3, <1>4 DEF combine_trace_id
<1>5. CASE trace[1] # ""
  BY <1>1, <1>2, <1>3, <1>5 DEF combine_trace_id
<1> QED BY <1>4, <1>5

\* Headers tell the story still when it goes on.
LEMMA DatadogTellsOn ==
  ASSUME NEW told, IsStory(told), NEW later, Continues(told, later), NEW headers, DatadogTells(told, headers),
         NEW same, same.tid = headers.tid, same.parent = headers.parent, same.tags = headers.tags,
         same.origin = headers.origin, same.priority = headers.priority
  PROVE  DatadogTells(later, same)
<1> SUFFICES ASSUME headers.tid # None
             PROVE  /\ same.tid # Bad
                    /\ SameTrace(later, combine_trace_id(same.tid, same.tags))
                    /\ SameDecision(later, same.priority, mechanism_of(same.tags))
                    /\ ~later.bare => /\ SameOrigin(later, same.origin)
                                      /\ same.parent = later.last /\ later.last \notin {None, Bad}
  BY DEF DatadogTells
<1>1. PICK trace : trace = combine_trace_id(headers.tid, headers.tags)
  OBVIOUS
<1>2. PICK mechanism : mechanism = mechanism_of(headers.tags)
  OBVIOUS
<1>3. /\ headers.tid # Bad /\ SameTrace(told, trace) /\ SameDecision(told, headers.priority, mechanism)
      /\ ~told.bare => /\ SameOrigin(told, headers.origin)
                       /\ headers.parent = told.last /\ told.last \notin {None, Bad}
  BY <1>1, <1>2 DEF DatadogTells
<1>4. SameTrace(later, trace)
  BY <1>3, ContinuedStory DEF SameTrace
<1>5. SameDecision(later, headers.priority, mechanism)
  BY <1>3, ContinuedStory DEF SameDecision
<1>6. ~later.bare => SameOrigin(later, headers.origin)
  BY <1>3, ContinuedStory DEF SameOrigin
<1>7. later.bare = told.bare /\ later.last = told.last
  BY ContinuedStory
<1> QED BY <1>1, <1>2, <1>3, <1>4, <1>5, <1>6, <1>7

\* Headers and contexts go on telling a story in which tags were lost.
LEMMA TraceparentTellsOn ==
  ASSUME NEW told, IsStory(told), NEW later, Continues(told, later),
         NEW headers, TraceparentTells(told, headers),
         NEW same, same.traceparent = headers.traceparent, same.tracestate = headers.tracestate
  PROVE  TraceparentTells(later, same)
<1>1. PICK parent : parent = headers.traceparent
  OBVIOUS
<1>2. PICK state : state = headers.tracestate
  OBVIOUS
<1> SUFFICES ASSUME parent # None
             PROVE  /\ SameTrace(later, parent.trace)
                    /\ ~later.torn => (parent.flags % 2 = 1) = later.keep
                    /\ ~later.bare => TracestateTells(later, state)
  BY <1>1, <1>2 DEF TraceparentTells
<1>3. /\ SameTrace(told, parent.trace) /\ (~told.torn => (parent.flags % 2 = 1) = told.keep)
      /\ ~told.bare => TracestateTells(told, state)
  BY <1>1, <1>2 DEF TraceparentTells
<1>4. SameTrace(later, parent.trace) /\ later.keep = told.keep /\ later.torn = told.torn
  BY <1>3, ContinuedStory DEF SameTrace
<1>5. ASSUME ~later.bare PROVE TracestateTells(later, state)
  <2>1. TracestateTells(told, state)
    BY <1>3, <1>5, ContinuedStory
  <2>2. PICK origin : origin = Decoded(state.o)
    OBVIOUS
  <2>3. PICK mechanism : mechanism = mechanism_of(state.t)
    OBVIOUS
  <2>4. /\ parses(state) /\ told.last \notin {None, Bad} /\ SameOrigin(told, origin)
        /\ state.p = told.last \/ (state.p = None /\ CrowdsParent(told.origin))
        /\ ~told.flipped => SameDecision(told, state.s, mechanism)
    BY <2>1, <2>2, <2>3 DEF TracestateTells
  <2>5. SameOrigin(later, origin) /\ later.last = told.last /\ later.origin = told.origin
    BY <2>4, ContinuedStory DEF SameOrigin
  <2>6. ~later.flipped => SameDecision(later, state.s, mechanism)
    BY <2>4, ContinuedStory DEF SameDecision
  <2> QED BY <2>2, <2>3, <2>4, <2>5, <2>6 DEF TracestateTells
<1> QED BY <1>3, <1>4, <1>5

LEMMA InjectTellsOn ==
  ASSUME NEW told, IsStory(told), NEW later, Continues(told, later), NEW c, InjectTells(told, c),
         NEW same, same.trace = c.trace, same.priority = c.priority, same.mechanism = c.mechanism,
         same.origin = c.origin, same.is_remote = c.is_remote
  PROVE  InjectTells(later, same)
<1>1. /\ SameTrace(told, c.trace) /\ SameDecision(told, c.priority, c.mechanism)
      /\ ~told.bare => SameOrigin(told, c.origin) /\ ~c.is_remote
  BY DEF InjectTells
<1>2. SameTrace(later, same.trace)
  BY <1>1, ContinuedStory DEF SameTrace
<1>3. SameDecision(later, same.priority, same.mechanism)
  BY <1>1, ContinuedStory DEF SameDecision
<1>4. ASSUME ~later.bare PROVE SameOrigin(later, same.origin) /\ ~same.is_remote
  <2>1. later.bare = told.bare /\ later.origin = told.origin
    BY ContinuedStory
  <2>2. SameOrigin(told, c.origin) /\ ~c.is_remote
    BY <1>1, <1>4, <2>1
  <2>3. SameOrigin(told, same.origin) /\ ~same.is_remote
    BY <2>2
  <2> QED BY <2>1, <2>3 DEF SameOrigin
<1> QED BY <1>2, <1>3, <1>4 DEF InjectTells

\* The headers of Datadog that a service makes
LEMMA DatadogInjectKeeps ==
  ASSUME PropagationInv, datadog_inject PROVE PropagationInv'
<1>1. /\ at = "injecting" /\ at' = at /\ hops' = hops /\ hops \in Nat /\ cfg' = cfg /\ cfg \in Configs
      /\ WellFormed(carrier) /\ IsInjected(inject) /\ (story # None => IsStory(story))
      /\ story # None /\ ~story.split =>
           /\ DatadogTells(story, carrier) /\ TraceparentTells(story, carrier) /\ InjectTells(story, inject)
           /\ ~story.bare => story.last = inject.span
  BY DEF datadog_inject, NextStyle, PropagationInv, Typed, ToldInv
<1>2. PICK tags : tags = inject_sampling(inject_trace_id(inject.tags))
  OBVIOUS
<1>3. PICK problem : problem = propagation_error(tags, cfg.max_length)
  OBVIOUS
<1>4. PICK sent : sent = IF problem = "" THEN Propagated(tags) ELSE <<>>
  OBVIOUS
<1>5. PICK kept : kept = IF problem = "" THEN tags ELSE Put(tags, error, problem)
  OBVIOUS
<1>6. PICK headers : headers = carrier'
  OBVIOUS
<1>7. PICK context : context = inject'
  OBVIOUS
<1>8. PICK later : later = story'
  OBVIOUS
<1>9. PICK fits \in BOOLEAN : fits = (problem = "")
  OBVIOUS
<1>10. /\ headers = [carrier EXCEPT !.tid = inject.trace[2], !.parent = inject.span,
                       !.origin = inject.origin, !.priority = inject.priority, !.tags = sent]
       /\ context = [inject EXCEPT !.tags = kept]
       /\ later = IF fits THEN story ELSE Told("cut")
  BY <1>2, <1>3, <1>4, <1>5, <1>6, <1>7, <1>8, <1>9 DEF datadog_inject
<1>11. /\ IsFiniteSet(DOMAIN tags) /\ mechanism_of(tags) = inject.mechanism
       /\ IF inject.trace[1] = "" THEN tid \notin DOMAIN tags
          ELSE tid \in DOMAIN tags /\ tags[tid] = inject.trace[1]
  BY <1>1, <1>2, SentTags
<1>12. /\ HeaderTags(sent) /\ (fits => sent = Propagated(tags))
       /\ mechanism_of(sent) \in {None, inject.mechanism} /\ (fits => mechanism_of(sent) = inject.mechanism)
  <2>1. CASE fits
    BY <1>4, <1>9, <1>11, <2>1, PropagatedIs, MechanismPropagated
  <2>2. CASE ~fits
    BY <1>4, <1>9, <2>2, NoTags
  <2> QED BY <2>1, <2>2
<1>13. /\ IsFiniteSet(DOMAIN kept) /\ mechanism_of(kept) = inject.mechanism
       /\ IF fits THEN kept = tags ELSE error \in DOMAIN kept
  <2>1. CASE fits
    BY <1>5, <1>9, <1>11, <2>1
  <2>2. CASE ~fits
    <3>1. kept = Put(tags, error, problem)
      BY <1>5, <1>9, <2>2
    <3>2. mechanism_of(kept) = mechanism_of(tags)
      BY <3>1, KeysDiffer, MechanismPut
    <3>3. IsFiniteSet(DOMAIN kept)
      BY <1>11, <3>1, PutFinite
    <3>4. error \in DOMAIN kept
      BY <3>1 DEF Put
    <3> QED BY <1>11, <2>2, <3>2, <3>3, <3>4
  <2> QED BY <2>1, <2>2
<1>14. /\ IsTrace(inject.trace) /\ inject.span \notin {None, Bad} /\ inject.priority \in Int
       /\ inject.mechanism = mechanism_of(inject.tags) /\ IsFiniteSet(DOMAIN inject.tags)
  BY <1>1 DEF IsInjected
<1>15. /\ headers.tid = inject.trace[2] /\ headers.parent = inject.span
       /\ headers.origin = inject.origin /\ headers.priority = inject.priority /\ headers.tags = sent
       /\ headers.traceparent = carrier.traceparent /\ headers.tracestate = carrier.tracestate
       /\ DOMAIN headers = DOMAIN NoHeaders
  BY <1>1, <1>10 DEF WellFormed, NoHeaders
<1>16. WellFormed(headers)
  BY <1>1, <1>12, <1>14, <1>15 DEF WellFormed
<1>17. /\ context.tags = kept /\ context.trace = inject.trace /\ context.span = inject.span
       /\ context.priority = inject.priority /\ context.mechanism = inject.mechanism
       /\ context.origin = inject.origin /\ context.is_remote = inject.is_remote
       /\ context.members = inject.members /\ DOMAIN context = DOMAIN inject
  BY <1>1, <1>10 DEF IsInjected
<1>18. IsInjected(context)
  BY <1>1, <1>13, <1>14, <1>17 DEF IsInjected
<1>19. IF story = None THEN later = None ELSE Continues(story, later) /\ (~fits => later.cut)
  <2>1. CASE story = None
    BY <1>10, <2>1 DEF Told
  <2>2. CASE story # None /\ fits
    BY <1>10, <2>2 DEF Continues
  <2>3. CASE story # None /\ ~fits
    <3>1. later = [story EXCEPT !.cut = TRUE]
      BY <1>10, <2>3 DEF Told
    <3> QED BY <1>1, <2>3, <3>1 DEF Continues, IsStory
  <2> QED BY <2>1, <2>2, <2>3
<1>20. later # None => /\ story # None /\ IsStory(later) /\ later.split = story.split
                       /\ later.bare = story.bare /\ later.last = story.last
  BY <1>1, <1>19, ContinuedStory
<1>21. ASSUME later # None, ~later.split
       PROVE  InjectTells(later, context) /\ TraceparentTells(later, headers)
  <2>1. /\ IsStory(story) /\ Continues(story, later)
        /\ InjectTells(story, inject) /\ TraceparentTells(story, carrier)
    BY <1>1, <1>19, <1>20, <1>21
  <2> QED BY <1>15, <1>17, <2>1, InjectTellsOn, TraceparentTellsOn
<1>22. ASSUME later # None, ~later.split PROVE DatadogTells(later, headers)
  <2>1. InjectTells(later, context)
    BY <1>21, <1>22
  <2>2. PICK trace : trace = combine_trace_id(headers.tid, headers.tags)
    OBVIOUS
  <2>3. trace[2] = inject.trace[2] /\ (fits => trace = inject.trace)
    <3>1. headers.tid \notin {None, Bad}
      BY <1>14, <1>15 DEF IsTrace
    <3>2. trace[2] = inject.trace[2]
      BY <1>15, <2>2, <3>1, Combined
    <3>3. fits => trace = inject.trace
      BY <1>11, <1>12, <1>14, <1>15, <2>2, TraceOfHalves
    <3> QED BY <3>2, <3>3
  <2>4. SameTrace(later, trace)
    BY <1>17, <1>19, <1>20, <1>22, <2>1, <2>3 DEF InjectTells, SameTrace
  <2>5. PICK mechanism : mechanism = mechanism_of(headers.tags)
    OBVIOUS
  <2>6. fits => mechanism = inject.mechanism
    BY <1>12, <1>15, <2>5
  <2>7. SameDecision(later, headers.priority, mechanism)
    BY <1>15, <1>17, <1>19, <1>20, <1>22, <2>1, <2>6 DEF InjectTells, SameDecision
  <2>8. ~later.bare => /\ SameOrigin(later, headers.origin)
                       /\ headers.parent = later.last /\ later.last \notin {None, Bad}
    BY <1>1, <1>14, <1>15, <1>17, <1>20, <1>22, <2>1 DEF InjectTells
  <2>9. headers.tid # Bad
    BY <1>14, <1>15 DEF IsTrace
  <2> QED BY <2>2, <2>4, <2>5, <2>7, <2>8, <2>9 DEF DatadogTells
<1>23. Typed'
  BY <1>1, <1>6, <1>7, <1>8, <1>16, <1>18, <1>20 DEF Typed
<1>24. ToldInv'
  BY <1>1, <1>6, <1>7, <1>8, <1>17, <1>20, <1>21, <1>22 DEF ToldInv
<1>25. StylesInv'
  <2>1. /\ headers.tid = context.trace[2] /\ headers.parent = context.span
        /\ headers.priority = context.priority /\ headers.origin = context.origin
        /\ error \notin DOMAIN context.tags =>
             /\ headers.tags = Propagated(context.tags)
             /\ IF context.trace[1] = "" THEN tid \notin DOMAIN context.tags
                ELSE tid \in DOMAIN context.tags /\ context.tags[tid] = context.trace[1]
    BY <1>11, <1>12, <1>13, <1>15, <1>17
  <2>2. ASSUME headers.traceparent # None
        PROVE  headers.traceparent = inject_traceparent' /\ StateFits(headers.tracestate, context, later)
    <3>1. carrier.traceparent = inject_traceparent /\ StateFits(carrier.tracestate, inject, story)
      BY <1>1, <1>15, <2>2 DEF PropagationInv, StylesInv
    <3>2. inject_traceparent' = inject_traceparent
      BY <1>7, <1>17 DEF inject_traceparent
    <3>3. later # None /\ ~later.cut => story # None /\ ~story.cut
      BY <1>1, <1>19, ContinuedStory
    <3>4. PICK state : state = carrier.tracestate
      OBVIOUS
    <3>5. StateFits(state, context, later)
      BY <1>17, <3>1, <3>3, <3>4 DEF StateFits
    <3> QED BY <1>15, <3>1, <3>2, <3>4, <3>5
  <2> QED BY <1>6, <1>7, <1>8, <2>1, <2>2 DEF StylesInv
<1>26. FoundInv'
  BY <1>1 DEF FoundInv
<1> QED BY <1>23, <1>24, <1>25, <1>26 DEF PropagationInv

\* Texts have lengths, also the origins that a tracestate holds.
LEMMA LengthsAre ==
  /\ \A text : Length(text) \in Nat
  /\ \A origin : OriginLength(origin) \in Nat
  /\ \A priority : Digits(priority) \in 1..4
  /\ MaxLength \in Nat
<1>1. \A text : Length(text) \in Nat
  BY PropagationAssumption DEF Length
<1>2. \A origin : OriginLength(origin) \in Nat
  BY <1>1 DEF OriginLength
<1>3. \A priority : Digits(priority) \in 1..4
  BY DEF Digits
<1> QED BY <1>1, <1>2, <1>3, PropagationAssumption

\* The origins that lose a character take the same room.
LEMMA SameRoom ==
  ASSUME NEW origin \in {"a;b", "a~b"}
  PROVE  origin # None /\ OriginLength(origin) = OriginLength("a_b")
<1>1. origin # None /\ "a_b" # None
  BY PropagationAssumption
<1>2. Convert(encode_tag_value, origin) = "a_b" /\ Convert(encode_tag_value, "a_b") = "a_b"
  BY DEF Convert, encode_tag_value
<1> QED BY <1>1, <1>2 DEF OriginLength

\* What the origin that arrived leaves no room for, that of the trace leaves none for.
LEMMA CrowdedBefore ==
  ASSUME NEW told, NEW origin, SameOrigin(told, origin)
  PROVE  /\ LongOrigin(origin) => LongOrigin(told.origin)
         /\ CrowdsParent(origin) => CrowdsParent(told.origin)
<1>1. PICK first : first = told.origin
  OBVIOUS
<1>2. CASE origin = first
  BY <1>1, <1>2
<1>3. CASE first \in {"a;b", "a~b"} /\ origin = "a_b"
  <2>1. first # None /\ OriginLength(first) = OriginLength(origin)
    BY <1>3, SameRoom
  <2> QED BY <1>1, <2>1 DEF LongOrigin, CrowdsParent
<1>4. CASE origin = None /\ LongOrigin(first)
  <2>1. CrowdsParent(first)
    BY <1>4, LengthsAre DEF LongOrigin, CrowdsParent
  <2> QED BY <1>1, <1>4, <2>1
<1> QED BY <1>1, <1>2, <1>3, <1>4 DEF SameOrigin, Arrives

\* An origin arrives through a tracestate, but for what it cannot hold.
LEMMA OriginRecoded ==
  ASSUME NEW told, NEW origin, SameOrigin(told, origin),
         NEW sent, \/ sent = None /\ (origin = None \/ LongOrigin(origin))
                   \/ sent = Convert(encode_tag_value, origin) /\ origin # None
  PROVE  SameOrigin(told, Decoded(sent))
<1>1. PICK first : first = told.origin
  OBVIOUS
<1>2. CASE sent = None /\ origin = None
  BY <1>2 DEF Decoded
<1>3. CASE sent = None /\ LongOrigin(origin)
  <2>1. LongOrigin(first) /\ Decoded(sent) = None
    BY <1>1, <1>3, CrowdedBefore DEF Decoded
  <2> QED BY <1>1, <2>1 DEF SameOrigin, Arrives
<1>4. CASE origin = "a=b" /\ sent = Convert(encode_tag_value, origin)
  <2>1. sent = "a~b" /\ sent # None
    BY <1>4, PropagationAssumption DEF Convert, encode_tag_value
  <2>2. Decoded(sent) = "a=b"
    BY <2>1 DEF Decoded, Convert, decode_tag_value
  <2> QED BY <1>4, <2>2
<1>5. CASE origin \in {"a~b", "a;b"} /\ sent = Convert(encode_tag_value, origin)
  <2>1. sent = "a_b"
    BY <1>5 DEF Convert, encode_tag_value
  <2>2. Decoded(sent) = "a_b"
    BY <2>1 DEF Decoded, Convert, decode_tag_value
  <2>3. first \in {"a;b", "a~b"}
    <3>1. origin # None /\ origin # "a_b"
      BY <1>5, PropagationAssumption
    <3> QED BY <1>1, <1>5, <3>1 DEF SameOrigin, Arrives
  <2> QED BY <1>1, <2>2, <2>3 DEF SameOrigin, Arrives
<1>6. CASE origin \notin {None, "a=b", "a~b", "a;b"} /\ sent = Convert(encode_tag_value, origin)
  <2>1. sent = origin
    BY <1>6 DEF Convert, encode_tag_value
  <2>2. Decoded(sent) = origin
    BY <1>6, <2>1 DEF Decoded, Convert, decode_tag_value
  <2> QED BY <2>2
<1> QED BY <1>2, <1>3, <1>4, <1>5, <1>6

\* The dd member says the priority, and the origin and the last parent if they fit.
LEMMA PartsAre ==
  ASSUME IsInjected(inject), NEW last, last = last_parent,
         NEW part, part = last_parent_part
  PROVE  /\ part = [s |-> inject.priority, o |-> part.o, p |-> part.p,
                    members |-> inject.members, t |-> <<>>]
         /\ \/ part.o = None /\ (inject.origin = None \/ LongOrigin(inject.origin))
            \/ part.o = Convert(encode_tag_value, inject.origin) /\ inject.origin # None
         /\ part.p = last \/ (part.p = None /\ CrowdsParent(inject.origin))
<1>1. PICK origin : origin = inject.origin
  OBVIOUS
<1>2. PICK coded : coded = Convert(encode_tag_value, origin)
  OBVIOUS
<1>3. PICK priority : priority = inject.priority
  OBVIOUS
<1>4. PICK before : before = inject.members
  OBVIOUS
<1>5. priority # None
  BY <1>3, PropagationAssumption DEF IsInjected
<1>6. sampling_part = [s |-> priority, o |-> None, p |-> None, members |-> before, t |-> <<>>]
  BY <1>3, <1>4, <1>5 DEF sampling_part
<1>7. origin # None => coded # None
  BY <1>2, PropagationAssumption DEF Convert, encode_tag_value
<1>8. PICK o : o = IF /\ origin # None
                      /\ 2 + Digits(priority) + 3 + Length(coded) < MaxLength THEN coded ELSE None
  OBVIOUS
<1>9. origin_part = [s |-> priority, o |-> o, p |-> None, members |-> before, t |-> <<>>]
  <2>1. PICK more : more = [sampling_part EXCEPT !.o = Convert(encode_tag_value, inject.origin)]
    OBVIOUS
  <2>2. more = [s |-> priority, o |-> coded, p |-> None, members |-> before, t |-> <<>>]
    BY <1>1, <1>2, <1>6, <2>1
  <2>3. coded # None => dd_length(more) = 2 + Digits(priority) + (3 + Length(coded)) + 0
    BY <2>2 DEF dd_length
  <2>4. coded # None => dd_length(more) = 2 + Digits(priority) + 3 + Length(coded)
    BY <2>3, LengthsAre
  <2>5. origin_part = IF origin # None /\ dd_length(more) < MaxLength THEN more ELSE sampling_part
    BY <1>1, <2>1 DEF origin_part
  <2> QED BY <1>6, <1>7, <1>8, <2>2, <2>4, <2>5
<1>10. \/ o = None /\ (origin = None \/ LongOrigin(origin))
       \/ o = coded /\ origin # None
  <2>1. OriginLength(origin) = IF origin = None THEN 0 ELSE 3 + Length(coded)
    BY <1>2 DEF OriginLength
  <2>2. /\ Digits(priority) \in 1..4 /\ Length(coded) \in Nat /\ MaxLength \in Nat
    BY LengthsAre
  <2> QED BY <1>8, <2>1, <2>2 DEF LongOrigin
<1>11. PICK more : more = [origin_part EXCEPT !.p = last]
  OBVIOUS
<1>12. more = [s |-> priority, o |-> o, p |-> last, members |-> before, t |-> <<>>]
  BY <1>9, <1>11
<1>13. part = IF dd_length(more) < MaxLength THEN more ELSE origin_part
  BY <1>11 DEF last_parent_part
<1>14. dd_length(more) >= MaxLength /\ last # None => CrowdsParent(origin)
  <2>1. PICK room : room = IF o = None THEN 0 ELSE 3 + Length(o)
    OBVIOUS
  <2>2. last # None => dd_length(more) = 2 + Digits(priority) + room + (3 + 16)
    BY <1>12, <2>1 DEF dd_length
  <2>3. room \in Nat /\ room <= OriginLength(origin)
    BY <1>2, <1>10, <2>1, LengthsAre DEF OriginLength
  <2>4. Digits(priority) \in 1..4 /\ OriginLength(origin) \in Nat /\ MaxLength \in Nat
    BY LengthsAre
  <2> QED BY <2>2, <2>3, <2>4 DEF CrowdsParent
<1>15. dd_length(more) \in Nat
  BY <1>12, LengthsAre DEF dd_length
<1>16. CASE dd_length(more) < MaxLength
  BY <1>1, <1>2, <1>3, <1>4, <1>10, <1>12, <1>13, <1>16
<1>17. CASE ~(dd_length(more) < MaxLength)
  <2>1. last = None \/ CrowdsParent(origin)
    BY <1>14, <1>15, <1>17, LengthsAre
  <2>2. part = origin_part
    BY <1>13, <1>17
  <2> QED BY <1>1, <1>2, <1>3, <1>4, <1>9, <1>10, <2>1, <2>2
<1> QED BY <1>16, <1>17

\* Tags that all fit are all taken.
LEMMA AllTaken ==
  ASSUME NEW tags, IsFiniteSet(DOMAIN tags), NEW keys \in SUBSET DOMAIN tags, Taken(tags, keys),
         Taken(tags, DOMAIN tags)
  PROVE  keys = DOMAIN tags
<1>1. PICK all : all = DOMAIN tags
  OBVIOUS
<1>2. PICK f : f = entry_length(tags)
  OBVIOUS
<1>3. PICK half : half = MaxLength \div 2
  OBVIOUS
<1>4. half \in Nat
  BY <1>3, LengthsAre
<1>5. \A k \in all : f[k] \in Nat
  BY <1>1, <1>2, LengthsAre DEF entry_length
<1>6. SumOf(f, all) <= half
  BY <1>1, <1>2, <1>3 DEF Taken
<1>7. ASSUME NEW k \in all, SumOf(f, keys \cup {k}) > half PROVE FALSE
  <2>1. PICK some \in SUBSET all : some = keys \cup {k}
    BY <1>1, <1>7
  <2>2. IsFiniteSet(all) /\ IsFiniteSet(some)
    BY <1>1, <2>1, FS_Subset
  <2>3. SumOf(f, some) <= SumOf(f, all)
    BY <1>5, <2>2, SumOfFewer
  <2>4. SumOf(f, some) \in Nat /\ SumOf(f, all) \in Nat
    <3>1. \A k_1 \in some : f[k_1] \in Nat
      BY <1>5, <2>1
    <3> QED BY <1>5, <2>2, <3>1, SumIsNumber
  <2> QED BY <1>4, <1>6, <1>7, <2>1, <2>3, <2>4
<1>8. keys = all \/ \E k \in all \ keys : SumOf(f, keys \cup {k}) > half
  BY <1>1, <1>2, <1>3 DEF Taken
<1> QED BY <1>1, <1>7, <1>8

\* The tags that are taken keep the mechanism if it is among them.
LEMMA StateTags ==
  ASSUME NEW tags, HeaderTags(tags), NEW keys \in SUBSET DOMAIN tags, Taken(tags, keys),
         NEW sent \in append_dd_propagation_tags(tags, keys)
  PROVE  /\ HeaderTags(sent) /\ mechanism_of(sent) \in {None, mechanism_of(tags)}
         /\ Taken(tags, DOMAIN tags) => mechanism_of(sent) = mechanism_of(tags)
<1>1. IsFiniteSet(DOMAIN tags) /\ IsFiniteSet(keys)
  BY FS_Subset DEF HeaderTags
<1>2. PICK names : names = {Convert(encode_tag_key, k) : k \in keys}
  OBVIOUS
<1>3. PICK of \in [names -> keys] :
        /\ \A name \in names : Convert(encode_tag_key, of[name]) = name
        /\ sent = [name \in names |-> Convert(encode_tag_value, tags[of[name]])]
  BY <1>2 DEF append_dd_propagation_tags
<1>4. \A k : Convert(encode_tag_key, k) = IF k = OddKey THEN "_dd.p.odd_key" ELSE k
  BY DEF Convert, encode_tag_key
<1>5. names \in SUBSET (keys \cup {"_dd.p.odd_key"})
  BY <1>2, <1>4
<1>6. IsFiniteSet(names)
  <2>1. IsFiniteSet(keys \cup {"_dd.p.odd_key"})
    BY <1>1, FS_AddElement
  <2> QED BY <1>5, <2>1, FS_Subset
<1>7. {parent_id, error} \cap names = {}
  <2>1. {parent_id, error} \cap keys = {}
    BY DEF HeaderTags
  <2>2. "_dd.p.odd_key" \notin {parent_id, error}
    BY DEF parent_id, error
  <2> QED BY <1>5, <2>1, <2>2
<1>8. HeaderTags(sent)
  BY <1>3, <1>6, <1>7 DEF HeaderTags
<1>9. dm # OddKey /\ dm # "_dd.p.odd_key"
  BY DEF dm, OddKey
<1>10. dm \in names <=> dm \in keys
  BY <1>2, <1>4, <1>9
<1>11. dm \in names => sent[dm] = Convert(encode_tag_value, tags[dm])
  <2>1. dm \in names => of[dm] = dm
    BY <1>3, <1>4, <1>9
  <2> QED BY <1>3, <2>1
<1>12. CASE dm \in keys \/ dm \notin DOMAIN tags
  <2>1. dm \in DOMAIN tags <=> dm \in DOMAIN sent
    BY <1>3, <1>10, <1>12
  <2>2. dm \in DOMAIN tags => sent[dm] = Convert(encode_tag_value, tags[dm])
    BY <1>10, <1>11, <1>12
  <2>3. mechanism_of(sent) = mechanism_of(tags)
    BY <2>1, <2>2, MechanismRecoded
  <2> QED BY <1>8, <2>3
<1>13. CASE dm \notin keys /\ dm \in DOMAIN tags
  <2>1. mechanism_of(sent) = None
    BY <1>3, <1>10, <1>13 DEF mechanism_of
  <2>2. ~Taken(tags, DOMAIN tags)
    BY <1>1, <1>13, AllTaken
  <2> QED BY <1>8, <2>1, <2>2
<1> QED BY <1>12, <1>13

\* The W3C headers that a service makes
LEMMA TracecontextInjectKeeps ==
  ASSUME PropagationInv, tracecontext_inject PROVE PropagationInv'
<1>1. /\ at = "injecting" /\ at' = at /\ hops' = hops /\ hops \in Nat /\ cfg' = cfg /\ cfg \in Configs
      /\ inject' = inject
      /\ WellFormed(carrier) /\ IsInjected(inject) /\ (story # None => IsStory(story))
      /\ story # None /\ ~story.split =>
           /\ DatadogTells(story, carrier) /\ TraceparentTells(story, carrier) /\ InjectTells(story, inject)
           /\ ~story.bare => story.last = inject.span
  BY DEF tracecontext_inject, NextStyle, PropagationInv, Typed, ToldInv
<1>2. PICK tags : tags = Propagated(inject.tags)
  OBVIOUS
<1>3. PICK all : all = DOMAIN tags
  OBVIOUS
<1>4. PICK keys \in SUBSET all :
        /\ Taken(tags, keys)
        /\ \E sent \in append_dd_propagation_tags(tags, keys) :
             carrier' = [carrier EXCEPT !.traceparent = inject_traceparent,
                                        !.tracestate = inject_tracestate(tags, keys, sent)]
  BY <1>2, <1>3 DEF tracecontext_inject
<1>5. PICK sent \in append_dd_propagation_tags(tags, keys) :
        carrier' = [carrier EXCEPT !.traceparent = inject_traceparent,
                                   !.tracestate = inject_tracestate(tags, keys, sent)]
  BY <1>4
<1>6. PICK part : part = last_parent_part
  OBVIOUS
<1>7. PICK parent : parent = inject_traceparent
  OBVIOUS
<1>8. PICK last : last = last_parent
  OBVIOUS
<1>9. PICK headers : headers = carrier'
  OBVIOUS
<1>10. PICK later : later = story'
  OBVIOUS
<1>11. PICK fits \in BOOLEAN : fits <=> Taken(tags, all) /\ HaveRoom(tags, all)
  <2>1. CASE Taken(tags, all) /\ HaveRoom(tags, all)
    BY <2>1
  <2>2. CASE ~(Taken(tags, all) /\ HaveRoom(tags, all))
    BY <2>2
  <2> QED BY <2>1, <2>2
<1>12. /\ IsTrace(inject.trace) /\ inject.span \notin {None, Bad} /\ inject.priority \in Int
       /\ inject.mechanism = mechanism_of(inject.tags) /\ IsFiniteSet(DOMAIN inject.tags)
       /\ inject.members \in MemberLists /\ \A i \in DOMAIN inject.members : inject.members[i] # "bad"
       /\ inject.is_remote \in BOOLEAN
  BY <1>1 DEF IsInjected
<1>13. inject.priority # None
  BY <1>12, PropagationAssumption
<1>14. PICK state : state = inject_tracestate(tags, keys, sent)
  OBVIOUS
<1>15. headers = [carrier EXCEPT !.traceparent = parent, !.tracestate = state]
  BY <1>5, <1>7, <1>9, <1>14
<1>16. later = IF fits THEN story ELSE Told("cut")
  <2>1. later = IF Taken(tags, all) /\ HaveRoom(tags, all) THEN story ELSE Told("cut")
    BY <1>2, <1>3, <1>10 DEF tracecontext_inject
  <2> QED BY <1>11, <2>1
<1>17. PICK t : t = IF HaveRoom(tags, keys) THEN sent ELSE <<>>
  OBVIOUS
<1>18. /\ HeaderTags(t) /\ mechanism_of(t) \in {None, inject.mechanism}
       /\ fits => mechanism_of(t) = inject.mechanism
  <2>1. PICK own : own = inject.tags
    OBVIOUS
  <2>2. HeaderTags(tags) /\ mechanism_of(tags) = inject.mechanism
    BY <1>2, <1>12, <2>1, PropagatedIs, MechanismPropagated
  <2>3. keys \in SUBSET DOMAIN tags
    BY <1>3, <1>4
  <2>4. /\ HeaderTags(sent) /\ mechanism_of(sent) \in {None, mechanism_of(tags)}
        /\ Taken(tags, DOMAIN tags) => mechanism_of(sent) = mechanism_of(tags)
    BY <1>4, <1>5, <2>2, <2>3, StateTags
  <2>5. CASE HaveRoom(tags, keys)
    BY <1>3, <1>11, <1>17, <2>2, <2>4, <2>5
  <2>6. CASE ~HaveRoom(tags, keys)
    <3>1. t = <<>>
      BY <1>17, <2>6
    <3>2. HeaderTags(t) /\ mechanism_of(t) = None
      BY <3>1, NoTags
    <3>3. ~fits
      <4>1. IsFiniteSet(DOMAIN tags)
        BY <2>2 DEF HeaderTags
      <4>2. Taken(tags, DOMAIN tags) => keys = DOMAIN tags
        BY <1>4, <2>3, <4>1, AllTaken
      <4> QED BY <1>3, <1>11, <2>6, <4>2
    <3> QED BY <3>2, <3>3
  <2> QED BY <2>5, <2>6
<1>19. /\ IsTracestate(state) /\ parses(state) /\ state.s = inject.priority /\ state.t = t
       /\ \/ state.o = None /\ (inject.origin = None \/ LongOrigin(inject.origin))
          \/ state.o = Convert(encode_tag_value, inject.origin) /\ inject.origin # None
       /\ state.p = last \/ (state.p = None /\ CrowdsParent(inject.origin))
  <2>1. state = IF HaveRoom(tags, keys) THEN [part EXCEPT !.t = sent] ELSE part
    BY <1>6, <1>14 DEF inject_tracestate
  <2>2. /\ part = [s |-> inject.priority, o |-> part.o, p |-> part.p,
                   members |-> inject.members, t |-> <<>>]
        /\ \/ part.o = None /\ (inject.origin = None \/ LongOrigin(inject.origin))
           \/ part.o = Convert(encode_tag_value, inject.origin) /\ inject.origin # None
        /\ part.p = last \/ (part.p = None /\ CrowdsParent(inject.origin))
    BY <1>1, <1>6, <1>8, PartsAre
  <2>3. state = [s |-> inject.priority, o |-> part.o, p |-> part.p, members |-> inject.members, t |-> t]
    BY <1>17, <2>1, <2>2
  <2> QED BY <1>12, <1>18, <2>2, <2>3 DEF IsTracestate, parses
<1>20. /\ IsTraceparent(parent) /\ parent.trace = inject.trace /\ parent.span = inject.span
       /\ (parent.flags % 2 = 1) = is_keep(inject.priority)
  <2>1. PICK flags : flags = IF inject.priority # None /\ is_keep(inject.priority) THEN 1 ELSE 0
    OBVIOUS
  <2>2. parent = [version |-> "00", trace |-> inject.trace, span |-> inject.span, tail |-> "",
                  flags |-> flags]
    BY <1>7, <2>1 DEF inject_traceparent
  <2>3. flags \in Nat /\ (flags % 2 = 1) = is_keep(inject.priority)
    BY <1>13, <2>1 DEF is_keep
  <2>4. /\ DOMAIN parent = {"version", "trace", "span", "tail", "flags"}
        /\ parent.trace = inject.trace /\ parent.span = inject.span /\ parent.flags = flags
    BY <2>2
  <2> QED BY <1>12, <2>3, <2>4 DEF IsTraceparent
<1>21. /\ headers.tid = carrier.tid /\ headers.parent = carrier.parent
       /\ headers.origin = carrier.origin /\ headers.priority = carrier.priority
       /\ headers.tags = carrier.tags
       /\ headers.traceparent = parent /\ headers.tracestate = state
       /\ DOMAIN headers = DOMAIN NoHeaders
  BY <1>1, <1>15 DEF WellFormed, NoHeaders
<1>22. WellFormed(headers)
  BY <1>1, <1>19, <1>20, <1>21 DEF WellFormed
<1>23. IF story = None THEN later = None ELSE Continues(story, later) /\ (~fits => later.cut)
  <2>1. CASE story = None
    BY <1>16, <2>1 DEF Told
  <2>2. CASE story # None /\ fits
    BY <1>16, <2>2 DEF Continues
  <2>3. CASE story # None /\ ~fits
    <3>1. later = [story EXCEPT !.cut = TRUE]
      BY <1>16, <2>3 DEF Told
    <3> QED BY <1>1, <2>3, <3>1 DEF Continues, IsStory
  <2> QED BY <2>1, <2>2, <2>3
<1>24. later # None => /\ story # None /\ IsStory(later) /\ later.split = story.split
                       /\ later.bare = story.bare /\ later.last = story.last
  BY <1>1, <1>23, ContinuedStory
<1>25. ASSUME later # None, ~later.split
       PROVE  InjectTells(later, inject) /\ DatadogTells(later, headers)
  <2>1. /\ IsStory(story) /\ Continues(story, later)
        /\ InjectTells(story, inject) /\ DatadogTells(story, carrier)
    BY <1>1, <1>23, <1>24, <1>25
  <2> QED BY <1>21, <2>1, InjectTellsOn, DatadogTellsOn
<1>26. ASSUME later # None, ~later.split PROVE TraceparentTells(later, headers)
  <2>1. /\ SameTrace(later, inject.trace) /\ SameDecision(later, inject.priority, inject.mechanism)
        /\ ~later.bare => SameOrigin(later, inject.origin) /\ ~inject.is_remote
    BY <1>25, <1>26 DEF InjectTells
  <2>2. SameTrace(later, parent.trace)
    BY <1>20, <2>1
  <2>3. ~later.torn => (parent.flags % 2 = 1) = later.keep
    BY <1>20, <2>1 DEF SameDecision
  <2>4. ASSUME ~later.bare PROVE TracestateTells(later, state)
    <3>1. PICK origin : origin = inject.origin
      OBVIOUS
    <3>2. SameOrigin(later, origin)
      BY <2>1, <2>4, <3>1
    <3>3. last = later.last /\ later.last \notin {None, Bad}
      <4>1. last = inject.span
        BY <1>8, <2>1, <2>4 DEF last_parent
      <4> QED BY <1>1, <1>12, <1>24, <1>26, <2>4, <4>1
    <3>4. state.p = later.last \/ (state.p = None /\ CrowdsParent(later.origin))
      <4>1. CrowdsParent(origin) => CrowdsParent(later.origin)
        BY <3>2, CrowdedBefore
      <4> QED BY <1>19, <3>1, <3>3, <4>1
    <3>5. SameOrigin(later, Decoded(state.o))
      <4>1. PICK sent_origin : sent_origin = state.o
        OBVIOUS
      <4>2. \/ sent_origin = None /\ (origin = None \/ LongOrigin(origin))
            \/ sent_origin = Convert(encode_tag_value, origin) /\ origin # None
        BY <1>19, <3>1, <4>1
      <4>3. SameOrigin(later, Decoded(sent_origin))
        BY <3>2, <4>2, OriginRecoded
      <4> QED BY <4>1, <4>3
    <3>6. SameDecision(later, inject.priority, mechanism_of(t))
      <4>1. PICK mechanism : mechanism = mechanism_of(t)
        OBVIOUS
      <4>2. ~later.cut => mechanism = inject.mechanism
        BY <1>18, <1>23, <1>24, <1>26, <4>1
      <4>3. SameDecision(later, inject.priority, mechanism)
        BY <2>1, <4>2 DEF SameDecision
      <4> QED BY <4>1, <4>3
    <3> QED BY <1>19, <3>3, <3>4, <3>5, <3>6 DEF TracestateTells
  <2> QED BY <1>21, <2>2, <2>3, <2>4 DEF TraceparentTells
<1>27. Typed'
  BY <1>1, <1>9, <1>10, <1>22, <1>24 DEF Typed
<1>28. ToldInv'
  BY <1>1, <1>9, <1>10, <1>24, <1>25, <1>26 DEF ToldInv
<1>29. StylesInv'
  <2>1. ASSUME headers.tid # None
        PROVE  /\ headers.tid = inject.trace[2] /\ headers.parent = inject.span
               /\ headers.priority = inject.priority /\ headers.origin = inject.origin
               /\ error \notin DOMAIN inject.tags =>
                    /\ headers.tags = Propagated(inject.tags)
                    /\ IF inject.trace[1] = "" THEN tid \notin DOMAIN inject.tags
                       ELSE tid \in DOMAIN inject.tags /\ inject.tags[tid] = inject.trace[1]
    BY <1>1, <1>21, <2>1 DEF PropagationInv, StylesInv
  <2>2. headers.traceparent = inject_traceparent'
    <3>1. inject_traceparent' = inject_traceparent
      BY <1>1 DEF inject_traceparent
    <3> QED BY <1>7, <1>21, <3>1
  <2>3. StateFits(state, inject, later)
    <3>1. PICK context : context = inject
      OBVIOUS
    <3>2. PICK origin : origin = context.origin
      OBVIOUS
    <3>3. PICK sent_origin : sent_origin = state.o
      OBVIOUS
    <3>4. SameOrigin(context, origin)
      BY <3>2 DEF SameOrigin, Arrives
    <3>5. \/ sent_origin = None /\ (origin = None \/ LongOrigin(origin))
          \/ sent_origin = Convert(encode_tag_value, origin) /\ origin # None
      BY <1>19, <3>1, <3>2, <3>3
    <3>6. SameOrigin(context, Decoded(sent_origin))
      BY <3>4, <3>5, OriginRecoded
    <3>7. Arrives(context.origin, Decoded(state.o))
      BY <3>3, <3>6 DEF SameOrigin
    <3>8. later # None /\ ~later.cut => fits
      BY <1>23, <1>24
    <3> QED BY <1>18, <1>19, <3>1, <3>7, <3>8 DEF StateFits
  <2> QED BY <1>1, <1>9, <1>10, <1>21, <2>1, <2>2, <2>3 DEF StylesInv
<1>30. FoundInv'
  BY <1>1 DEF FoundInv
<1> QED BY <1>27, <1>28, <1>29, <1>30 DEF PropagationInv

\* Nothing happens.
LEMMA StutterKeeps ==
  ASSUME PropagationInv, UNCHANGED vars PROVE PropagationInv'
<1>1. /\ carrier' = carrier /\ at' = at /\ cfg' = cfg /\ found' = found /\ inject' = inject
      /\ hops' = hops /\ story' = story
  BY DEF vars
<1>2. Typed'
  BY <1>1 DEF PropagationInv, Typed
<1>3. ToldInv'
  BY <1>1 DEF PropagationInv, ToldInv
<1>4. inject_traceparent' = inject_traceparent
  BY <1>1 DEF inject_traceparent
<1>5. StylesInv'
  BY <1>1, <1>4 DEF PropagationInv, StylesInv
<1>6. FoundInv'
  BY <1>1 DEF PropagationInv, FoundInv
<1> QED BY <1>2, <1>3, <1>5, <1>6 DEF PropagationInv

\* What headers and contexts are, what they say of the story, that the styles
\* of a service and what it found fit its headers: all of it holds at every
\* point of the path of a request, for any number of services.
THEOREM PropagationHolds == Spec => []PropagationInv
<1>1. Init => PropagationInv
  BY InitInv
<1>2. PropagationInv /\ [Next]_vars => PropagationInv'
  <2> SUFFICES ASSUME PropagationInv, [Next]_vars PROVE PropagationInv'
    OBVIOUS
  <2>1. CASE Receive
    BY <2>1, ReceiveKeeps
  <2>2. CASE StartLocalRoot
    BY <2>2, StartKeeps
  <2>3. CASE PassOn
    BY <2>3, PassOnKeeps
  <2>4. CASE Call
    BY <2>4, CallKeeps
  <2>5. CASE datadog_inject
    BY <2>5, DatadogInjectKeeps
  <2>6. CASE tracecontext_inject
    BY <2>6, TracecontextInjectKeeps
  <2>7. CASE Send
    BY <2>7, SendKeeps
  <2>8. CASE Vendor
    BY <2>8, VendorKeeps
  <2>9. CASE UNCHANGED vars
    BY <2>9, StutterKeeps
  <2> QED BY <2>1, <2>2, <2>3, <2>4, <2>5, <2>6, <2>7, <2>8, <2>9 DEF Next
<1> QED BY <1>1, <1>2, PTL DEF Spec

-----------------------------------------------------------------------------
(* The properties *)

\* The invariant gives each part of the two properties.
LEMMA TracePropagatedHolds == ASSUME PropagationInv PROVE TracePropagated
<1> SUFFICES ASSUME Continued PROVE TracePropagated
  BY DEF TracePropagated, OneTrace, DecisionKept, OriginKept, LastParentKnown
<1>1. /\ at = "started" /\ story # None /\ story.last # NoSpan /\ ~story.split
      /\ found # None /\ ~inject.is_remote
  BY DEF Continued
<1>2. /\ InjectTells(story, inject)
      /\ ~story.bare => LastIn(story, found.span, inject.tags)
  BY <1>1 DEF PropagationInv, ToldInv
<1>3. SameTrace(story, inject.trace) /\ SameDecision(story, inject.priority, inject.mechanism)
  BY <1>2 DEF InjectTells
<1>4. OneTrace /\ DecisionKept
  BY <1>3 DEF OneTrace, DecisionKept, SameTrace, SameDecision
<1>5. OriginKept
  BY <1>2 DEF OriginKept, InjectTells, SameOrigin
<1>6. LastParentKnown
  BY <1>2 DEF LastParentKnown, LastIn
<1> QED BY <1>4, <1>5, <1>6 DEF TracePropagated

LEMMA MechanismHolds == ASSUME PropagationInv PROVE MechanismMakesPriority
<1> SUFFICES ASSUME at = "started", inject.mechanism # None
             PROVE  /\ inject.tags[dm] = inject.mechanism
                    /\ \/ MadeBy(inject.mechanism, inject.priority)
                       \/ SaysTogether(carrier, inject.priority, inject.mechanism)
  BY DEF MechanismMakesPriority
<1>1. /\ inject.mechanism = mechanism_of(inject.tags)
      /\ Explained(carrier, inject.priority, inject.mechanism)
  BY DEF PropagationInv, Typed, IsInjected, FoundInv
<1>2. inject.tags[dm] = inject.mechanism
  BY <1>1 DEF mechanism_of
<1> QED BY <1>1, <1>2 DEF Explained

LEMMA LinksHold == ASSUME PropagationInv PROVE ContextsLinked
<1> SUFFICES ASSUME at = "extracted", found # None PROVE ContextsLinked
  BY DEF ContextsLinked
<1>1. PICK contexts : contexts = extract_available_contexts(carrier, cfg)
  OBVIOUS
<1>2. found = resolve_contexts(contexts) /\ WellFormed(carrier) /\ cfg \in Configs
  BY <1>1 DEF PropagationInv, Typed, FoundInv
<1>3. AreContexts(contexts) /\ ResolvedSoFar(contexts, Len(contexts), found)
  BY <1>1, <1>2, FoundIs
<1>4. Reached(contexts, Len(contexts)) = Available(contexts)
  BY <1>3 DEF AreContexts, Reached, Available
<1>5. PICK links : links = found.links
  OBVIOUS
<1>6. \A i \in Available(contexts) :
        contexts[i].context.trace # found.trace /\ contexts[i].context.span # NoSpan =>
          IsLinked(contexts[i].context, links)
  BY <1>3, <1>4, <1>5 DEF ResolvedSoFar
<1>7. \A link \in links : link.trace # found.trace
  BY <1>3, <1>5 DEF ResolvedSoFar
<1> DEFINE linked == {<<link.trace, link.span>> : link \in found.links}
<1>8. ASSUME NEW i \in Available(contexts),
             contexts[i].context.trace # found.trace, contexts[i].context.span # NoSpan
      PROVE  <<contexts[i].context.trace, contexts[i].context.span>> \in linked
  <2>1. PICK c : c = contexts[i].context
    OBVIOUS
  <2>2. IsLinked(c, links)
    BY <1>6, <1>8, <2>1
  <2>3. PICK link \in links : link.trace = c.trace /\ link.span = c.span
    BY <2>2 DEF IsLinked
  <2> QED BY <1>5, <2>1, <2>3
<1>9. \A link \in linked : link[1] # found.trace
  BY <1>5, <1>7
<1> HIDE DEF linked
<1>10. /\ \A i \in Available(contexts) :
            LET c == contexts[i].context
            IN c.trace # found.trace /\ c.span # NoSpan => <<c.trace, c.span>> \in linked
       /\ \A link \in linked : link[1] # found.trace
  BY <1>8, <1>9
<1> QED BY <1>1, <1>10 DEF ContextsLinked, linked

LEMMA StylesHold == ASSUME PropagationInv PROVE StylesAgree
<1> SUFFICES ASSUME at = "injecting", todo = <<>>, carrier.tid # None, carrier.traceparent # None
             PROVE  StylesAgree
  BY DEF StylesAgree
<1>1. WellFormed(carrier) /\ IsInjected(inject) /\ cfg \in Configs
  BY DEF PropagationInv, Typed
<1>2. /\ IsTrace(inject.trace) /\ inject.span \notin {None, Bad} /\ inject.priority \in Int
      /\ inject.mechanism = mechanism_of(inject.tags) /\ IsFiniteSet(DOMAIN inject.tags)
      /\ inject.trace[2] \notin {None, Bad}
  BY <1>1 DEF IsInjected, IsTrace
<1>3. /\ carrier.tid = inject.trace[2] /\ carrier.parent = inject.span
      /\ carrier.priority = inject.priority /\ carrier.origin = inject.origin
      /\ error \notin DOMAIN inject.tags =>
           /\ carrier.tags = Propagated(inject.tags)
           /\ IF inject.trace[1] = "" THEN tid \notin DOMAIN inject.tags
              ELSE tid \in DOMAIN inject.tags /\ inject.tags[tid] = inject.trace[1]
      /\ carrier.traceparent = inject_traceparent
      /\ StateFits(carrier.tracestate, inject, story)
  BY DEF PropagationInv, StylesInv
<1>4. cfg.max_length \in Nat
  BY <1>1, PropagationAssumption
<1>5. PICK dd : dd = datadog_extract(carrier, cfg.max_length)
  OBVIOUS
<1>6. PICK tc : tc = tracecontext_extract(carrier)
  OBVIOUS
<1>7. inject.priority # Bad /\ inject.priority # None
  BY <1>2, PropagationAssumption
<1>8. /\ IsContext(dd) /\ dd.trace[2] = inject.trace[2] /\ dd.span = inject.span
      /\ dd.priority = inject.priority /\ dd.origin = inject.origin
      /\ error \notin DOMAIN dd.tags => /\ dd.tags = carrier.tags
                                       /\ dd.trace = combine_trace_id(carrier.tid, carrier.tags)
  <2>1. PICK max : max = cfg.max_length
    OBVIOUS
  <2>2. max \in Nat /\ dd = datadog_extract(carrier, max) /\ carrier.tid \notin {None, Bad}
    BY <1>2, <1>3, <1>4, <1>5, <2>1
  <2>3. /\ IsContext(dd) /\ dd.trace[2] = carrier.tid
        /\ carrier.parent \notin {None, Bad} => dd.span = carrier.parent
        /\ carrier.priority # Bad => dd.priority = carrier.priority
        /\ dd.origin = carrier.origin
        /\ error \notin DOMAIN dd.tags => /\ dd.tags = carrier.tags
                                         /\ dd.trace = combine_trace_id(carrier.tid, carrier.tags)
    BY <1>1, <2>2, DatadogContext
  <2> QED BY <1>2, <1>3, <1>7, <2>3
<1>9. PICK parent : parent = inject_traceparent
  OBVIOUS
<1>10. /\ parent.trace = inject.trace /\ parent.span = inject.span
       /\ (parent.flags % 2 = 1) = is_keep(inject.priority)
       /\ parent.version = "00" /\ parent.tail = "" /\ parent.flags <= 2
  <2>1. PICK flags : flags = IF inject.priority # None /\ is_keep(inject.priority) THEN 1 ELSE 0
    OBVIOUS
  <2>2. parent = [version |-> "00", trace |-> inject.trace, span |-> inject.span, tail |-> "",
                  flags |-> flags]
    BY <1>9, <2>1 DEF inject_traceparent
  <2>3. flags <= 2 /\ (flags % 2 = 1) = is_keep(inject.priority)
    BY <1>7, <2>1 DEF is_keep
  <2> QED BY <2>2, <2>3
<1>11. valid_traceparent(carrier.traceparent)
  BY <1>3, <1>9, <1>10 DEF valid_traceparent
<1>12. PICK state : state = carrier.tracestate
  OBVIOUS
<1>13. /\ parses(state) /\ state.s = inject.priority /\ Arrives(inject.origin, Decoded(state.o))
       /\ mechanism_of(state.t) \in {None, inject.mechanism}
       /\ story # None /\ ~story.cut => mechanism_of(state.t) = inject.mechanism
  BY <1>3, <1>12 DEF StateFits
<1>14. /\ tc.trace = inject.trace /\ tc.span = inject.span /\ tc.priority = inject.priority
       /\ tc.mechanism = mechanism_of(state.t) /\ tc.origin = Decoded(state.o)
  <2>1. /\ tc.trace = carrier.traceparent.trace /\ tc.span = carrier.traceparent.span
        /\ is_keep(tc.priority) = (carrier.traceparent.flags % 2 = 1)
        /\ parses(carrier.tracestate) =>
             /\ tc.origin = Decoded(carrier.tracestate.o)
             /\ is_keep(carrier.tracestate.s) = is_keep(tc.priority) /\ carrier.tracestate.s # None =>
                  /\ tc.priority = carrier.tracestate.s
                  /\ tc.mechanism = mechanism_of(carrier.tracestate.t)
    BY <1>1, <1>6, <1>11, TracecontextContext
  <2>2. tc.trace = inject.trace /\ tc.span = inject.span /\ is_keep(tc.priority) = is_keep(inject.priority)
    BY <1>3, <1>9, <1>10, <2>1
  <2> QED BY <1>7, <1>12, <1>13, <2>1, <2>2
<1>15. ASSUME error \notin DOMAIN inject.tags, error \notin DOMAIN dd.tags
       PROVE  dd.trace = inject.trace /\ dd.mechanism = inject.mechanism
  <2>1. PICK own : own = inject.tags
    OBVIOUS
  <2>2. carrier.tags = Propagated(own) /\ dd.tags = carrier.tags
    BY <1>3, <1>8, <1>15, <2>1
  <2>3. combine_trace_id(inject.trace[2], Propagated(own)) = inject.trace
    BY <1>2, <1>3, <1>15, <2>1, TraceOfHalves
  <2>4. dd.trace = inject.trace
    BY <1>3, <1>8, <1>15, <2>2, <2>3
  <2>5. dd.mechanism = mechanism_of(dd.tags)
    BY <1>7, <1>8 DEF IsContext
  <2>6. mechanism_of(Propagated(own)) = mechanism_of(own)
    BY MechanismPropagated
  <2> QED BY <1>2, <2>1, <2>2, <2>4, <2>5, <2>6
<1>16. /\ dd.span = tc.span /\ dd.trace[2] = tc.trace[2] /\ dd.priority = tc.priority
       /\ Arrives(dd.origin, tc.origin)
       /\ error \notin DOMAIN inject.tags /\ error \notin DOMAIN dd.tags =>
            /\ dd.trace = tc.trace
            /\ tc.mechanism \in {dd.mechanism, None}
            /\ story # None /\ ~story.cut => tc.mechanism = dd.mechanism
  BY <1>8, <1>13, <1>14, <1>15
<1> QED BY <1>5, <1>6, <1>16 DEF StylesAgree

\* What goes on along the path of a request is the trace of its first service, its
\* decision, its origin unless that is too long for a tracestate, and its last span
\* unless the origin leaves no room for it: through any number of services with any
\* configurations and other vendors' between them (lib.rs 96-176, datadog.rs 42-97,
\* tracecontext.rs 137-264, 345-374).
THEOREM TraceIsPropagated == Spec => []TracePropagated
<1>1. PropagationInv => TracePropagated
  BY TracePropagatedHolds
<1> QED BY <1>1, PropagationHolds, PTL

\* The mechanism that is propagated makes the priority or arrived together with it,
\* no context that arrived with a span is lost, and the two styles say the same but
\* for what a tracestate has no room for (tracecontext.rs 79-264, lib.rs 125-138,
\* sampling.rs 62-94).
THEOREM StylesFitTogether == Spec => []HeadersAgree
<1>1. PropagationInv => HeadersAgree
  BY MechanismHolds, LinksHold, StylesHold DEF HeadersAgree
<1> QED BY <1>1, PropagationHolds, PTL
=============================================================================
