----------------------------- MODULE Propagation -----------------------------
(***************************************************************************)
(* A request passes through services that run this tracer and services     *)
(* that do not.  Each service with this tracer extracts a context from the *)
(* headers (dd-trace-propagation: datadog.rs, tracecontext.rs and the      *)
(* composition in lib.rs), starts its local root span with what it found   *)
(* (datadog-opentelemetry: text_map_propagator.rs, sampler.rs) and injects *)
(* headers into the next request.                                          *)
(*                                                                         *)
(* A trace identifier is a pair of halves, the high one "" when it is      *)
(* zero.  Spans and low halves are named by who made them and when.  Texts *)
(* are strings; a header that does not parse is Bad and one that is        *)
(* missing is None, but for the W3C headers: a traceparent that does not   *)
(* parse has a version or a tail that is refused, and a missing tracestate *)
(* is one that is not valid, because it is read as if it were.  Spans are  *)
(* 16 characters long.  The members of a tracestate are few: the 32nd and  *)
(* the later ones, which are cut off, are left out.                        *)
(***************************************************************************)
EXTENDS Integers, Sequences, FiniteSets, Sums

CONSTANTS
  None,      \* no value
  Bad,       \* a header whose text does not parse
  Incoming,  \* the headers the first service may receive
  Configs,   \* the configurations a service may have
  Decisions, \* what a sampler may decide
  Members,   \* what a service of another vendor may add to the tracestate
  Chars,     \* how long texts are, keys without their prefix; others are 16 digits
  MaxLength, \* what the dd member of a tracestate must stay below
  MaxHops

VARIABLES
  carrier,  \* the headers of the request under way
  at,       \* "wire", "extracted", "started" or "injecting"
  cfg,      \* the configuration of the service that has the request
  found,    \* the context that service extracted, or None
  inject,   \* the context it injects
  todo,     \* the styles that it still injects
  hops,     \* how many services the request has passed
  story     \* what the first service of the trace decided and what happened since

vars == <<carrier, at, cfg, found, inject, todo, hops, story>>

-----------------------------------------------------------------------------
(* Data types *)

NoSpan == <<"0", 0>>

AUTO_REJECT == 0
AUTO_KEEP == 1
USER_KEEP == 2
is_keep(priority) == priority > 0

tid == "_dd.p.tid"
dm == "_dd.p.dm"
parent_id == "_dd.parent_id"
error == "_dd.propagation_error"

Mechanisms ==
  {"-0", "-1", "-2", "-3", "-4", "-5", "-6", "-7", "-8", "-9", "-10", "-11", "-12"}

\* Mechanisms that make the priorities of users, the others make those of the tracer.
UserMechanisms == {"-3", "-4", "-5", "-8", "-10", "-11", "-12"}
MadeBy(mechanism, priority) == mechanism \in UserMechanisms <=> priority \in {-1, USER_KEEP}

Put(tags, key, text) ==
  [k \in DOMAIN tags \cup {key} |-> IF k = key THEN text ELSE tags[k]]
Only(tags, keys) == [k \in DOMAIN tags \cap keys |-> tags[k]]
Without(tags, key) == Only(tags, DOMAIN tags \ {key})
Propagated(tags) == Only(tags, DOMAIN tags \ {parent_id, error})

\* What is left of an identifier or a tag that is no 16 hexadecimal digits
Malformed == {"xyz"}

\* A key that a tracestate may hold and that the datadog header may not
OddKey == "_dd.p.odd key"

Length(text) == IF text \in DOMAIN Chars THEN Chars[text] ELSE 16

\* How long the tags of keys are when each has so many characters around it
TagsLength(tags, keys, around) ==
  SumOf([k \in keys |-> around + Length(k) + Length(tags[k])], keys)

\* In a header of Datadog: "_dd.p.", "=" and a comma, of which there is one less
HeaderLength(tags) == TagsLength(tags, DOMAIN tags, 8) - 1

MemberLists == Seq(Members \cup {"bad"})
NoTracestate == [s |-> None, p |-> None, o |-> None, members |-> <<"bad">>, t |-> <<>>]

NoHeaders ==
  [tid |-> None, parent |-> None, origin |-> None, priority |-> None, tags |-> <<>>,
   traceparent |-> None, tracestate |-> NoTracestate]

-----------------------------------------------------------------------------
(* Extraction *)

mechanism_of(tags) ==
  IF dm \in DOMAIN tags /\ tags[dm] \in Mechanisms THEN tags[dm] ELSE None

extract_tags(tags, max_length) ==
  IF HeaderLength(tags) > max_length
  THEN Put(<<>>, error, IF max_length = 0 THEN "disabled" ELSE "extract_max_size")
  ELSE LET halves == IF tid \in DOMAIN tags /\ tags[tid] \in Malformed
                     THEN Put(Without(tags, tid), error, "malformed_tid") ELSE tags
       IN IF dm \in DOMAIN halves /\ halves[dm] \notin Mechanisms
          THEN Put(Without(halves, dm), error, "decoding_error") ELSE halves

\* Mutant: the high half is not read.
LowHalf(low, tags) == <<"", low>>

combine_trace_id(low, tags) ==
  <<IF tid \in DOMAIN tags /\ tags[tid] # "0" THEN tags[tid] ELSE "", low>>

datadog_extract(headers, max_length) ==
  LET tags     == extract_tags(headers.tags, max_length)
      priority == IF headers.priority = Bad THEN None ELSE headers.priority
  IN IF headers.tid \in {None, Bad} THEN None
     ELSE [trace |-> combine_trace_id(headers.tid, tags),
           span |-> IF headers.parent \in {None, Bad} THEN NoSpan ELSE headers.parent,
           priority |-> priority,
           mechanism |-> IF priority = None THEN None ELSE mechanism_of(tags),
           origin |-> headers.origin, tags |-> tags, links |-> {}, tracestate |-> None]

valid_traceparent(header) ==
  /\ header # None
  /\ header.version # "ff"
  /\ header.version = "00" => header.tail = "" /\ header.flags <= 2

\* The texts that change on the way into a dd member and out of it: of the
\* others the characters that the member cannot hold become underscores.
encode_tag_value ==
  [text \in {"a=b", "a~b", "a;b"} |-> IF text = "a=b" THEN "a~b" ELSE "a_b"]

\* What replaces the character that a key cannot have
encode_tag_key == [key \in {OddKey} |-> "_dd.p.odd_key"]

\* Mutant: the character is left as it was encoded.
NotDecoded == [text \in {""} |-> ""]

decode_tag_value == [text \in {"a~b"} |-> "a=b"]
Convert(table, text) == IF text \in DOMAIN table THEN table[text] ELSE text

\* One member that is not valid spoils the tracestate.
parses(tracestate) == \A i \in DOMAIN tracestate.members : tracestate.members[i] # "bad"

\* Mutant: the tracestate is believed when the flag says otherwise.
StateWins(sampled, state, tags) ==
  IF state # None THEN [priority |-> state, tags |-> tags]
  ELSE [priority |-> sampled,
        tags |-> IF sampled = AUTO_KEEP THEN Put(tags, dm, "-0") ELSE Without(tags, dm)]

\* Mutant: the mechanism of the tracestate stays when its priority does not count.
KeepsMechanism(sampled, state, tags) ==
  [priority |-> IF state # None /\ is_keep(state) = is_keep(sampled) THEN state ELSE sampled,
   tags |-> tags]

\* The priority of the tracestate counts if the flag agrees with it.
define_sampling_priority(sampled, state, tags) ==
  IF state # None /\ is_keep(state) = is_keep(sampled)
  THEN [priority |-> state, tags |-> tags]
  ELSE [priority |-> sampled,
        tags |-> IF sampled = AUTO_KEEP THEN Put(tags, dm, "-0") ELSE Without(tags, dm)]

\* What the dd member holds of tags, and the last span of Datadog beside them
state_tags(state) ==
  LET tags == [k \in DOMAIN state.t |-> Convert(decode_tag_value, state.t[k])]
  IN IF state.p = None THEN tags ELSE Put(tags, parent_id, state.p)

tracecontext_extract(headers) ==
  LET parent  == headers.traceparent
      state   == headers.tracestate
      sampled == IF parent.flags % 2 = 1 THEN AUTO_KEEP ELSE AUTO_REJECT
      defined == define_sampling_priority(sampled, state.s, state_tags(state))
      bare    == [trace |-> parent.trace, span |-> parent.span, priority |-> sampled,
                  mechanism |-> None, origin |-> None, tags |-> <<>>, links |-> {},
                  tracestate |-> None]
  IN IF ~valid_traceparent(parent) THEN None
     ELSE IF ~parses(state) THEN bare
     ELSE [bare EXCEPT
             !.priority = defined.priority, !.tags = defined.tags, !.tracestate = state,
             !.mechanism = mechanism_of(defined.tags),
             !.origin = IF state.o = None THEN None ELSE Convert(decode_tag_value, state.o)]

\* The style "none" has no propagator.
extract(style, headers, max_length) ==
  CASE style = "datadog"      -> datadog_extract(headers, max_length)
    [] style = "tracecontext" -> tracecontext_extract(headers)
    [] OTHER                  -> None

\* The styles that DatadogCompositePropagator::new takes
Extractors(config) ==
  IF config.extract_first /\ config.extract # <<>>
  THEN <<config.extract[1]>> ELSE config.extract

\* A place for each style, which is empty where nothing was extracted
extract_available_contexts(headers, config) ==
  [i \in DOMAIN Extractors(config) |->
     [style |-> Extractors(config)[i],
      context |-> extract(Extractors(config)[i], headers, config.max_length)]]

Available(contexts) == {i \in DOMAIN contexts : contexts[i].context # None}

terminated_context(c) ==
  [trace |-> c.context.trace, span |-> c.context.span, style |-> c.style,
   flags |-> IF c.context.priority = None THEN None
             ELSE IF is_keep(c.context.priority) THEN 1 ELSE 0]

OtherTrace(primary, c) == c.context.span # NoSpan /\ c.context.trace # primary.trace

\* Mutant: the span of Datadog is forgotten when another one takes its place.
ForgetsParent(contexts, primary, c) ==
  IF OtherTrace(primary, c)
  THEN [primary EXCEPT !.links = @ \cup {terminated_context(c)}]
  ELSE IF c.style = "tracecontext" THEN [primary EXCEPT !.span = c.context.span]
  ELSE primary

\* Mutant: a context of another trace is dropped.
NoLinks(contexts, primary, c) == primary

\* Another span of the trace takes the place of the primary one, and the last span
\* of Datadog is remembered (the contexts of one style are all the same).
WithSpan(contexts, primary, context) ==
  LET dd == {i \in Available(contexts) : contexts[i].style = "datadog"}
  IN IF primary.trace # context.trace \/ primary.span = context.span THEN primary
     ELSE [primary EXCEPT
             !.span = context.span,
             !.tags = IF parent_id \in DOMAIN context.tags
                      THEN Put(@, parent_id, context.tags[parent_id])
                      ELSE IF dd # {}
                      THEN Put(@, parent_id, contexts[CHOOSE i \in dd : TRUE].context.span)
                      ELSE @]

\* A context of the same trace gives the primary one its tracestate and its span;
\* one of another trace becomes a link.
Resolve(contexts, primary, c) ==
  IF OtherTrace(primary, c)
  THEN [primary EXCEPT !.links = @ \cup {terminated_context(c)}]
  ELSE IF c.style = "tracecontext"
  THEN WithSpan(contexts,
                IF c.context.tracestate # None
                THEN [primary EXCEPT !.tracestate = c.context.tracestate] ELSE primary,
                c.context)
  ELSE primary

\* The first context counts, each later one is resolved with it.
Resolved(contexts) ==
  LET resolved[i \in 0..Len(contexts)] ==
        IF i \notin Available(contexts) THEN IF i = 0 THEN None ELSE resolved[i - 1]
        ELSE IF \A j \in Available(contexts) : i <= j THEN contexts[i].context
        ELSE Resolve(contexts, resolved[i - 1], contexts[i])
  IN resolved

resolve_contexts(contexts) == Resolved(contexts)[Len(contexts)]

-----------------------------------------------------------------------------
(* What the services upstream and the samplers may say *)

HeaderTags(tags) == IsFiniteSet(DOMAIN tags) /\ {parent_id, error} \cap DOMAIN tags = {}

IsTrace(trace) ==
  trace = <<trace[1], trace[2]>> /\ trace[1] # "0" /\ trace[2] \notin {None, Bad}

IsTraceparent(parent) ==
  /\ DOMAIN parent = {"version", "trace", "span", "tail", "flags"}
  /\ IsTrace(parent.trace) /\ parent.span \notin {None, Bad} /\ parent.flags \in Nat

IsTracestate(state) ==
  /\ DOMAIN state = {"s", "o", "p", "members", "t"}
  /\ state.s \in Int \cup {None} /\ state.members \in MemberLists /\ HeaderTags(state.t)

WellFormed(headers) ==
  /\ DOMAIN headers = DOMAIN NoHeaders
  /\ headers.priority \in Int \cup {None, Bad} /\ HeaderTags(headers.tags)
  /\ headers.traceparent # None => IsTraceparent(headers.traceparent)
  /\ IsTracestate(headers.tracestate)

ASSUME PropagationAssumption ==
  /\ None # Bad
  /\ {None, Bad} \cap (Int \cup Mechanisms) = {} /\ None \notin {"a~b", "a;b", "a_b"}
  /\ {None, Bad} \cap ({"0", "s", "t", "v"} \X Nat) = {}
  /\ \A headers \in Incoming : WellFormed(headers)
  /\ \A config \in Configs : config.max_length \in Nat
                             /\ config.extract \in Seq({"datadog", "tracecontext", "none"})
  /\ \A d \in Decisions : /\ d.priority \in Int /\ d.mechanism \in Mechanisms
                           /\ MadeBy(d.mechanism, d.priority)
  /\ None \notin Members
  /\ Chars \in [DOMAIN Chars -> Nat] /\ MaxLength \in Nat /\ MaxHops \in Nat

-----------------------------------------------------------------------------
(* The service *)

OwnSpan == <<"s", hops>>
OwnTrace == <<"a1", <<"t", hops>>>>

\* Something happens to the trace.
Told(what) == IF story = None THEN None ELSE [story EXCEPT ![what] = TRUE]

Init ==
  /\ carrier \in Incoming
  /\ at = "wire"
  /\ cfg = None /\ found = None /\ inject = None /\ todo = <<>>
  /\ hops = 0
  /\ story = None

Receive ==
  /\ at = "wire" /\ hops < MaxHops
  /\ \E config \in Configs :
       LET contexts == extract_available_contexts(carrier, config)
       IN /\ cfg' = config
          /\ found' = resolve_contexts(contexts)
          /\ story' = IF \E i \in Available(contexts) : error \in DOMAIN contexts[i].context.tags
                      THEN Told("cut") ELSE story
  /\ at' = "extracted"
  /\ hops' = hops + 1
  /\ UNCHANGED <<carrier, inject, todo>>

members(context) == IF context.tracestate = None THEN <<>> ELSE context.tracestate.members

\* The sampler decides if no context says how; what the context says else is
\* kept.  The tags of a decision and of a context are registered for the trace.
LocalRoot(d) ==
  LET fresh == [trace |-> OwnTrace, span |-> OwnSpan,
                priority |-> d.priority, mechanism |-> d.mechanism, origin |-> None,
                tags |-> Put(<<>>, dm, d.mechanism), members |-> <<>>, is_remote |-> FALSE]
  IN IF found = None THEN fresh
     ELSE IF found.priority = None
     THEN [fresh EXCEPT !.trace = found.trace, !.origin = found.origin,
                        !.tags = Put(found.tags, dm, d.mechanism), !.members = members(found)]
     ELSE [fresh EXCEPT !.trace = found.trace, !.origin = found.origin,
                        !.tags = found.tags, !.members = members(found),
                        !.priority = found.priority, !.mechanism = found.mechanism]

StartLocalRoot ==
  /\ at = "extracted"
  /\ \E d \in Decisions :
       LET root == LocalRoot(d)
       IN /\ inject' = root
          /\ story' = IF story # None /\ found # None THEN story
                      ELSE [trace |-> root.trace, priority |-> root.priority,
                            mechanism |-> root.mechanism, origin |-> root.origin,
                            keep |-> is_keep(root.priority), last |-> NoSpan, flipped |-> FALSE,
                            bare |-> FALSE, split |-> FALSE, torn |-> FALSE, cut |-> FALSE]
  /\ at' = "started"
  /\ UNCHANGED <<carrier, cfg, found, todo, hops>>

\* A service that passes the request on and starts no span: the registry knows
\* nothing of the trace, and the flag is all that is left of the decision.
PassOn ==
  /\ at = "extracted" /\ found # None /\ found.span # NoSpan
  /\ inject' = [trace |-> found.trace, span |-> found.span,
                priority |-> IF found.priority # None /\ is_keep(found.priority)
                             THEN AUTO_KEEP ELSE AUTO_REJECT,
                mechanism |-> None, origin |-> None, tags |-> <<>>,
                members |-> members(found), is_remote |-> TRUE]
  /\ story' = Told("bare")
  /\ at' = "started"
  /\ UNCHANGED <<carrier, cfg, found, todo, hops>>

-----------------------------------------------------------------------------
(* Injection *)

Injectors(config) == SelectSeq(config.inject, LAMBDA style : style # "none")

Call ==
  /\ at = "started"
  /\ carrier' = NoHeaders
  /\ at' = "injecting"
  /\ todo' = Injectors(cfg)
  /\ story' = IF story = None \/ inject.is_remote THEN story ELSE [story EXCEPT !.last = inject.span]
  /\ UNCHANGED <<cfg, found, inject, hops>>

inject_trace_id(tags) ==
  IF inject.trace[1] # "" THEN Put(tags, tid, inject.trace[1]) ELSE Without(tags, tid)

inject_sampling(tags) ==
  IF inject.mechanism # None THEN Put(tags, dm, inject.mechanism) ELSE tags

\* Why the tags cannot be sent, or "" if they can
propagation_error(tags, max_length) ==
  IF max_length = 0 THEN "disabled"
  ELSE IF HeaderLength(Propagated(tags)) > max_length THEN "inject_max_size"
  ELSE IF OddKey \in DOMAIN tags THEN "encoding_error"
  ELSE ""

NextStyle(style) ==
  /\ at = "injecting" /\ todo # <<>> /\ Head(todo) = style
  /\ todo' = Tail(todo)

datadog_inject ==
  LET tags    == inject_sampling(inject_trace_id(inject.tags))
      problem == propagation_error(tags, cfg.max_length)
  IN /\ NextStyle("datadog")
     /\ carrier' = [carrier EXCEPT
                      !.tid = inject.trace[2], !.parent = inject.span,
                      !.origin = inject.origin, !.priority = inject.priority,
                      !.tags = IF problem = "" THEN Propagated(tags) ELSE <<>>]
     /\ inject' = [inject EXCEPT !.tags = IF problem = "" THEN tags ELSE Put(tags, error, problem)]
     /\ story' = IF problem = "" THEN story ELSE Told("cut")
     /\ UNCHANGED <<at, cfg, found, hops>>

\* Mutant: the flag is set whatever the decision.
AlwaysSampled ==
  [version |-> "00", trace |-> inject.trace, span |-> inject.span, tail |-> "", flags |-> 1]

inject_traceparent ==
  [version |-> "00", trace |-> inject.trace, span |-> inject.span, tail |-> "",
   flags |-> IF inject.priority # None /\ is_keep(inject.priority) THEN 1 ELSE 0]

last_parent ==
  IF inject.is_remote /\ parent_id \in DOMAIN inject.tags
  THEN inject.tags[parent_id] ELSE inject.span

\* How many characters the decimals of a priority have
Digits(priority) ==
  IF priority \in 0..9 THEN 1
  ELSE IF priority \in (-9 .. -1) \cup (10..99) THEN 2
  ELSE IF priority \in (-99 .. -10) \cup (100..127) THEN 3 ELSE 4

\* The dd member without its tags: "s:", ";o:" and ";p:" with what follows each
dd_length(state) ==
  2 + Digits(state.s) + (IF state.o = None THEN 0 ELSE 3 + Length(state.o))
                      + (IF state.p = None THEN 0 ELSE 3 + 16)

sampling_part ==
  [s |-> IF inject.priority = None THEN USER_KEEP ELSE inject.priority,
   o |-> None, p |-> None, members |-> inject.members, t |-> <<>>]

\* Mutant: the origin is left out if there is no room for the last parent too.
KeepsRoom ==
  LET more == [sampling_part EXCEPT !.o = Convert(encode_tag_value, inject.origin)]
  IN IF inject.origin # None /\ dd_length(more) + 19 < MaxLength THEN more ELSE sampling_part

\* The origin and then the last parent are left out if there is no room for them.
origin_part ==
  LET more == [sampling_part EXCEPT !.o = Convert(encode_tag_value, inject.origin)]
  IN IF inject.origin # None /\ dd_length(more) < MaxLength THEN more ELSE sampling_part

last_parent_part ==
  LET more == [origin_part EXCEPT !.p = last_parent]
  IN IF dd_length(more) < MaxLength THEN more ELSE origin_part

\* How much room each tag takes in the dd member: ";t.", the key, ":" and the value
entry_length(tags) ==
  [k \in DOMAIN tags |-> 4 + Length(Convert(encode_tag_key, k))
                          + Length(Convert(encode_tag_value, tags[k]))]

\* The tags are taken in the order of their map until one does not fit into half
\* of the member.
Taken(tags, keys) ==
  LET half == MaxLength \div 2
  IN /\ SumOf(entry_length(tags), keys) <= half
     /\ \/ keys = DOMAIN tags
        \/ \E k \in DOMAIN tags \ keys : SumOf(entry_length(tags), keys \cup {k}) > half

\* What is read of them: of two keys that become the same one counts.
append_dd_propagation_tags(tags, keys) ==
  LET names == {Convert(encode_tag_key, k) : k \in keys}
  IN {[name \in names |-> Convert(encode_tag_value, tags[of[name]])] :
        of \in {f \in [names -> keys] : \A name \in names : Convert(encode_tag_key, f[name]) = name}}

\* All tags are left out if they make the member too long.
HaveRoom(tags, keys) == dd_length(last_parent_part) + SumOf(entry_length(tags), keys) < MaxLength

inject_tracestate(tags, keys, sent) ==
  IF HaveRoom(tags, keys) THEN [last_parent_part EXCEPT !.t = sent] ELSE last_parent_part

tracecontext_inject ==
  LET tags == Propagated(inject.tags)
      all  == DOMAIN tags
  IN /\ NextStyle("tracecontext")
     /\ \E keys \in SUBSET all :
          /\ Taken(tags, keys)
          /\ \E sent \in append_dd_propagation_tags(tags, keys) :
               carrier' = [carrier EXCEPT !.traceparent = inject_traceparent,
                                          !.tracestate = inject_tracestate(tags, keys, sent)]
     /\ story' = IF Taken(tags, all) /\ HaveRoom(tags, all) THEN story ELSE Told("cut")
     /\ UNCHANGED <<at, cfg, found, inject, hops>>

Send ==
  /\ at = "injecting" /\ todo = <<>>
  /\ at' = "wire"
  /\ cfg' = None /\ found' = None /\ inject' = None
  /\ UNCHANGED <<carrier, todo, hops, story>>

-----------------------------------------------------------------------------
(* A service of another vendor that knows the W3C headers *)

VendorSpan == <<"v", hops>>

VendorTraceparent(flips) ==
  LET parent  == carrier.traceparent
      sampled == parent.flags % 2
  IN [version |-> "00", tail |-> "", span |-> VendorSpan,
      trace |-> IF parent = None THEN <<"b2", VendorSpan>> ELSE parent.trace,
      flags |-> IF parent = None THEN 1 ELSE IF flips THEN 1 - sampled ELSE sampled]

WithMember(tracestate, member) ==
  IF member = None THEN tracestate
  ELSE [tracestate EXCEPT !.members = <<member>> \o tracestate.members]

\* It may forward the headers that it does not know, change the flag and put a
\* member of its own in front of the others.
Vendor ==
  /\ at = "wire" /\ story # None /\ hops < MaxHops
  /\ \E forwards \in BOOLEAN, flips \in BOOLEAN, member \in Members \cup {None} :
       LET parent == carrier.traceparent
           base   == IF forwards THEN carrier ELSE NoHeaders
       IN /\ parent # None => parent.span # VendorSpan
          /\ flips => parent # None
          /\ member # None => carrier.tracestate # NoTracestate
          /\ carrier' = [base EXCEPT !.traceparent = VendorTraceparent(flips),
                                     !.tracestate = WithMember(carrier.tracestate, member)]
          /\ story' = [story EXCEPT
                         !.flipped = @ \/ flips, !.keep = (@ # flips), !.bare = @ \/ member = "bad",
                         !.split = @ \/ parent = None,
                         !.torn = @ \/ (flips /\ forwards /\ carrier.tid # None)]
  /\ UNCHANGED <<at, cfg, found, inject, todo, hops>>

Next ==
  \/ Receive
  \/ StartLocalRoot
  \/ PassOn
  \/ Call
  \/ datadog_inject
  \/ tracecontext_inject
  \/ Send
  \/ Vendor

Spec == Init /\ [][Next]_vars

-----------------------------------------------------------------------------
(* Properties *)

\* A local root that continues the trace of an earlier service
Continued ==
  /\ at = "started" /\ story # None /\ story.last # NoSpan /\ ~story.split
  /\ found # None /\ ~inject.is_remote

\* Services along the path work on one trace, whatever styles they are
\* configured with; where tags did not fit into a header or could not be read,
\* the lower half is the same (datadog.rs 61-76, context.rs 308-330).
OneTrace ==
  Continued => /\ inject.trace[2] = story.trace[2]
               /\ ~story.cut => inject.trace = story.trace

\* Every service keeps what the first one kept, unless a service of another
\* vendor changed the flag since, but not in the headers of Datadog that it passed
\* on; while the headers that say so are passed on, it is the same priority, and
\* while the tags are too, the same mechanism (tracecontext.rs 345-374,
\* text_map_propagator.rs 91-110).
DecisionKept ==
  Continued /\ ~story.torn =>
    /\ is_keep(inject.priority) = story.keep
    /\ ~story.flipped /\ ~story.bare => inject.priority = story.priority
    /\ ~story.flipped /\ ~story.bare /\ ~story.cut => inject.mechanism = story.mechanism

SaysTogether(headers, priority, mechanism) ==
  \/ headers.priority = priority /\ mechanism_of(headers.tags) = mechanism
  \/ headers.tracestate.s = priority /\ mechanism_of(headers.tracestate.t) = mechanism

\* No service makes a mechanism go with a priority that it does not make, also when
\* the flag overrules the tracestate: the two that it propagates fit together or
\* arrived together, in the headers of one style (sampling.rs 62-94, datadog.rs
\* 197-219, tracecontext.rs 345-374).
MechanismMakesPriority ==
  at = "started" /\ inject.mechanism # None =>
    /\ inject.tags[dm] = inject.mechanism
    /\ \/ MadeBy(inject.mechanism, inject.priority)
       \/ SaysTogether(carrier, inject.priority, inject.mechanism)

OriginLength(origin) ==
  IF origin = None THEN 0 ELSE 3 + Length(Convert(encode_tag_value, origin))

\* There is no room for the origin, or for the last parent behind it, beside a
\* priority of four characters.
LongOrigin(origin) == origin # None /\ 6 + OriginLength(origin) >= MaxLength
CrowdsParent(origin) == 6 + OriginLength(origin) + 19 >= MaxLength

\* An origin arrives as it is or without the characters that a tracestate cannot
\* hold, and only one that is too long for a tracestate gets lost.
Arrives(origin, arrived) ==
  \/ arrived = origin
  \/ origin \in {"a;b", "a~b"} /\ arrived = "a_b"
  \/ arrived = None /\ LongOrigin(origin)

\* The origin of the trace arrives (tracecontext.rs 190-214).
OriginKept == Continued /\ ~story.bare => Arrives(story.origin, inject.origin)

\* The last span of Datadog is the parent of the next one, or it is named beside
\* a parent of another vendor unless the origin left no room for it; no other span
\* is ever named as the last one (lib.rs 139-176, tracecontext.rs 217-236).
LastParentKnown ==
  Continued /\ ~story.bare =>
    /\ \/ found.span = story.last
       \/ parent_id \in DOMAIN inject.tags
       \/ CrowdsParent(story.origin)
    /\ parent_id \in DOMAIN inject.tags => inject.tags[parent_id] = story.last

\* No context with a span that arrived is lost: it is of the trace that goes on or
\* there is a link to it, and links lead to other traces (lib.rs 125-138).
ContextsLinked ==
  at = "extracted" /\ found # None =>
    LET contexts == extract_available_contexts(carrier, cfg)
        linked   == {<<link.trace, link.span>> : link \in found.links}
    IN /\ \A i \in Available(contexts) :
            LET c == contexts[i].context
            IN c.trace # found.trace /\ c.span # NoSpan => <<c.trace, c.span>> \in linked
       /\ \A link \in linked : link[1] # found.trace

\* A service that injects both styles says the same with both: the span, the
\* priority, the origin if it fits into a tracestate, and, where no tags are lost,
\* the trace and the mechanism; a tracestate never says another mechanism than the
\* header of Datadog (datadog.rs 42-97, tracecontext.rs 79-264).
StylesAgree ==
  at = "injecting" /\ todo = <<>> /\ carrier.tid # None /\ carrier.traceparent # None =>
    LET dd == datadog_extract(carrier, cfg.max_length)
        tc == tracecontext_extract(carrier)
    IN /\ dd.span = tc.span /\ dd.trace[2] = tc.trace[2] /\ dd.priority = tc.priority
       /\ Arrives(dd.origin, tc.origin)
       /\ error \notin DOMAIN inject.tags /\ error \notin DOMAIN dd.tags =>
            /\ dd.trace = tc.trace
            /\ tc.mechanism \in {dd.mechanism, None}
            /\ story # None /\ ~story.cut => tc.mechanism = dd.mechanism

\* What goes on along the path of a request is the trace of its first service,
\* its decision, its origin and its last span (lib.rs 96-176, datadog.rs 42-97).
TracePropagated == OneTrace /\ DecisionKept /\ OriginKept /\ LastParentKnown

\* What a service reads and writes fits together (tracecontext.rs 79-264).
HeadersAgree == MechanismMakesPriority /\ ContextsLinked /\ StylesAgree
=============================================================================
