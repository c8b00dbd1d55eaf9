----------------------------- MODULE SpanMapping -----------------------------
(***************************************************************************)
(* The conversion of a finished OpenTelemetry span into a Datadog span     *)
(* (datadog-opentelemetry-mappings/transform/mod.rs) and what the tracer   *)
(* adds to it (datadog-opentelemetry/ddtrace_transform.rs).                *)
(*                                                                         *)
(* Tags come from six places and are written one after the other into the  *)
(* same two maps, by insertions that overwrite, insertions that only fill  *)
(* a gap and insertions that look for a non-empty value first.  Each place *)
(* is a step here; the resource is a hash map whose order is not known.    *)
(* Identifiers, times, links and the contents of events are copied and not *)
(* modelled.                                                               *)
(***************************************************************************)
EXTENDS OtelUtil

CONSTANTS
  Inputs,  \* families of spans with their resource and configuration
  Tags     \* tags that the conversion does not know

\* Attributes are a list.
ASSUME MappingAssumption ==
  /\ \A family \in Inputs : \A s \in family : DOMAIN s.attrs \subseteq Nat
  /\ Tags \cap {"", "env", "version", "http.status_code", "error.message", "error.type",
              "error.stack", "span.kind", "analytics.event", "_dd.span_events.has_exception",
              "otel.status_code", "otel.status_description"} = {}

VARIABLES
  input,  \* the span, its resource, and the configuration
  dd,     \* the Datadog span
  pc,     \* the place that is read next
  todo    \* attributes of that place that are still to be read

vars == <<input, dd, pc, todo>>

-----------------------------------------------------------------------------
(* Data types *)

NoSpan == [service |-> "", name |-> <<>>, resource |-> <<>>, type |-> "",
           meta |-> <<>>, metrics |-> <<>>, error |-> 0]

Single(key, str) == [k \in {key} |-> str]
Over(f, g) == [k \in DOMAIN f \cup DOMAIN g |-> IF k \in DOMAIN f THEN f[k] ELSE g[k]]
Put(tags, key, str) == Over(Single(key, str), tags)
Fill(tags, key, str) == IF key \in DOMAIN tags \/ str = "" THEN tags ELSE Put(tags, key, str)
Get(tags, key) == IF key \in DOMAIN tags THEN tags[key] ELSE ""

MetaKeys == {"env", "version", "http.status_code", "error.message", "error.type", "error.stack"}
is_meta_key(key) == key \in MetaKeys

Init ==
  /\ \E family \in Inputs : input \in family
  /\ dd = NoSpan
  /\ pc = "minimal"
  /\ todo = {}

-----------------------------------------------------------------------------
(* Writing one attribute *)

Bools == [str \in {"true", "True", "false"} |-> IF str = "false" THEN "0" ELSE "1"]

set_meta_otlp(span, key, str) ==
  CASE key = "operation.name" -> [span EXCEPT !.name = Word(str)]
    [] key = "service.name"   -> [span EXCEPT !.service = str]
    [] key = "resource.name"  -> [span EXCEPT !.resource = Word(str)]
    [] key = "span.type"      -> [span EXCEPT !.type = str]
    [] key = "analytics.event" ->
         IF str \in DOMAIN Bools
         THEN [span EXCEPT !.metrics = Put(@, "_dd1.sr.eausr", Bools[str])]
         ELSE span
    [] OTHER -> [span EXCEPT !.meta = Put(@, key, str)]

\* Mutant: the last value counts for every tag.
MetaOverwrites(span, key, str) ==
  LET mapped == get_dd_key_for_otlp_attribute(key)
  IN IF mapped = "" THEN span ELSE set_meta_otlp(span, mapped, str)

\* Mutant: the first value counts for every tag.
MetaKept(span, key, str) ==
  LET mapped == get_dd_key_for_otlp_attribute(key)
  IN IF mapped = "" \/ Get(span.meta, mapped) # "" THEN span
     ELSE set_meta_otlp(span, mapped, str)

\* A tag that the Datadog semantics know is kept once it is not empty.
set_meta_otlp_with_semconv_mappings(span, key, str) ==
  LET mapped == get_dd_key_for_otlp_attribute(key)
  IN IF mapped = "" \/ (is_meta_key(mapped) /\ Get(span.meta, mapped) # "") THEN span
     ELSE set_meta_otlp(span, mapped, str)

set_metric_otlp_with_semconv_mappings(span, key, str) ==
  LET mapped == get_dd_key_for_otlp_attribute(key)
      metric == IF mapped = "sampling.priority" THEN "_sampling_priority_v1" ELSE mapped
  IN IF mapped = "" \/ (is_meta_key(mapped) /\ mapped \in DOMAIN span.metrics) THEN span
     ELSE [span EXCEPT !.metrics = Put(@, metric, str)]

-----------------------------------------------------------------------------
(* otel_span_to_dd_span *)

Step(from, to, span, next) ==
  /\ pc = from /\ pc' = to /\ dd' = span /\ todo' = next /\ UNCHANGED input

\* What datadog.* says, or what the other attributes say
Explicit(own, derived, none) == IF own # none THEN own ELSE derived

otel_span_to_dd_span_minimal ==
  LET str(key) == get_attr_str(input, key)
      num(key) == get_attr_num(input, key)
      own      == Code(num("datadog.http_status_code"))
      code     == IF own # NotNum THEN own ELSE get_otel_status_code(input)
      kind     == IF has_attr(input, "datadog.span.kind") THEN str("datadog.span.kind")
                  ELSE input.kind
      measured == num("_dd.measured") = 1 \/ input.kind \in {"client", "producer"}
  IN Step("minimal", "semantics",
          [service  |-> Explicit(str("datadog.service"), get_otel_service(input), ""),
           name     |-> Explicit(Word(str("datadog.name")),
                                 get_otel_operation_name_v2(input), <<>>),
           resource |-> Explicit(Word(str("datadog.resource")),
                                 get_otel_resource_v2(input), <<>>),
           type     |-> Explicit(str("datadog.type"), get_otel_span_type(input), ""),
           meta     |-> Over(Single("span.kind", kind),
                             IF code = 0 THEN <<>> ELSE Single("http.status_code", ToString(code))),
           metrics  |-> IF measured THEN Single("_dd.measured", "1") ELSE <<>>,
           error    |-> IF num("datadog.error") # NotNum THEN num("datadog.error")
                        ELSE IF input.status = "Error" THEN 1 ELSE 0],
          {})

DD_SEMANTICS_KEY_TO_META_KEY ==
  [tag \in MetaKeys |->
     CASE tag = "env"              -> "datadog.env"
       [] tag = "version"          -> "datadog.version"
       [] tag = "http.status_code" -> "datadog.http_status_code"
       [] tag = "error.message"    -> "datadog.error.msg"
       [] tag = "error.type"       -> "datadog.error.type"
       [] tag = "error.stack"      -> "datadog.error.stack"]

Semantics ==
  LET own  == [k \in DOMAIN DD_SEMANTICS_KEY_TO_META_KEY |->
                 get_attr_str(input, DD_SEMANTICS_KEY_TO_META_KEY[k])]
      given == [k \in {j \in DOMAIN own : own[j] # ""} |-> own[k]]
  IN Step("semantics", "resource", [dd EXCEPT !.meta = Over(given, @)], DOMAIN input.res)

\* The attributes of the resource, in any order
ResourceAttribute ==
  /\ pc = "resource"
  /\ \E key \in todo :
       Step("resource", "resource",
            set_meta_otlp_with_semconv_mappings(dd, key, input.res[key].str), todo \ {key})

\* Attributes of the instrumentation scope overwrite; the version is filled.
Scope ==
  LET meta == Over(input.scope, dd.meta)
  IN /\ todo = {}
     /\ Step("resource", "attributes",
             [dd EXCEPT !.meta = Fill(meta, "version", ResStr(input, "service.version"))],
             DOMAIN input.attrs)

\* The attributes of the span, in their order; those of datadog.* are done.
SpanAttribute ==
  /\ pc = "attributes"
  /\ \E i \in todo :
       LET attr == input.attrs[i]
       IN /\ \A j \in todo : i <= j
          /\ Step("attributes", "attributes",
                  IF attr.key \in DatadogPrefixed THEN dd
                  ELSE IF attr.numeric
                  THEN set_metric_otlp_with_semconv_mappings(dd, attr.key, attr.str)
                  ELSE set_meta_otlp_with_semconv_mappings(dd, attr.key, attr.str),
                  todo \ {i})

Exceptions == {i \in DOMAIN input.events : input.events[i].exception}

EnvFilled(meta) == Fill(meta, "env", get_otel_env(input))

\* The environment is filled; then what the span knows of itself overwrites.
Status ==
  LET described == input.status = "Error" /\ input.description # ""
      own == Over(IF Exceptions # {} THEN Single("_dd.span_events.has_exception", "true") ELSE <<>>,
                  Over(Single("otel.status_code", input.status),
                       IF described THEN Single("otel.status_description", input.description)
                       ELSE <<>>))
  IN /\ todo = {}
     /\ Step("attributes", "error",
             [dd EXCEPT !.meta = Over(own, EnvFilled(@))], {})

ErrorTags == {"error.message", "error.type", "error.stack"}

ExceptionKey ==
  [tag \in ErrorTags |-> CASE tag = "error.message" -> "exception.message"
                          [] tag = "error.type"    -> "exception.type"
                          [] tag = "error.stack"   -> "exception.stacktrace"]

\* Of several exceptions the last one that has the attribute counts.
Telling(tag) == {i \in Exceptions : ExceptionKey[tag] \in DOMAIN input.events[i].attrs}

FromExceptions ==
  [tag \in {t \in ErrorTags : Telling(t) # {}} |->
     LET last == CHOOSE i \in Telling(tag) : \A j \in Telling(tag) : j <= i
     IN input.events[last].attrs[ExceptionKey[tag]]]

\* Without a description the code of the status is the message (with its text,
\* which is left out).
StatusMessage(meta) ==
  LET message(str) == Put(meta, "error.message", str)
  IN IF "error.message" \in DOMAIN meta THEN meta
     ELSE IF input.description # "" THEN message(input.description)
     ELSE IF "http.response.status_code" \in DOMAIN meta
     THEN message(meta["http.response.status_code"])
     ELSE IF "http.status_code" \in DOMAIN meta THEN message(meta["http.status_code"])
     ELSE meta

WithStatus ==
  IF input.status # "Error" THEN [dd EXCEPT !.error = 0]
  ELSE [dd EXCEPT !.error = 1, !.meta = StatusMessage(Over(FromExceptions, @))]

\* Mutant: the status is looked at only if no tag of the error is there.
StatusOnlyForBareSpans ==
  IF \A tag \in ErrorTags : tag \notin DOMAIN dd.meta
  THEN Step("error", "sampling", WithStatus, {})
  ELSE Step("error", "sampling", dd, {})

\* The status decides, unless all three tags of the error are there.
status_to_error ==
  IF \E tag \in ErrorTags : tag \notin DOMAIN dd.meta
  THEN Step("error", "sampling", WithStatus, {})
  ELSE Step("error", "sampling", dd, {})

-----------------------------------------------------------------------------
(* otel_trace_chunk_to_dd_trace_chunk *)

\* Mutant: the flag overwrites the priority of the sampler.
FlagWins ==
  Step("sampling", "config",
       [dd EXCEPT !.metrics = Put(@, "_sampling_priority_v1",
                                  IF input.sampled THEN "1" ELSE "0")], {})

otel_sampling_to_dd_sampling ==
  Step("sampling", "config",
       [dd EXCEPT !.metrics = Fill(@, "_sampling_priority_v1",
                                   IF input.sampled THEN "1" ELSE "0")], {})

add_config_metadata ==
  LET config  == input.config
      service == IF dd.service = DEFAULT_OTLP_SERVICE_NAME THEN config.service ELSE dd.service
      named   == "service.name" \in DOMAIN input.res /\ service = ResStr(input, "service.name")
      meta    == Over(config.global_tags, dd.meta)
  IN Step("config", "done",
          [dd EXCEPT !.service = service,
                     !.meta = IF config.version # "" /\ named
                              THEN Put(meta, "version", config.version) ELSE meta], {})

Next ==
  \/ otel_span_to_dd_span_minimal
  \/ Semantics
  \/ ResourceAttribute
  \/ Scope
  \/ SpanAttribute
  \/ Status
  \/ status_to_error
  \/ otel_sampling_to_dd_sampling
  \/ add_config_metadata

Spec == Init /\ [][Next]_vars

-----------------------------------------------------------------------------
(* Properties *)

Done == pc = "done"

\* What datadog.* says of the service, the name, the resource and the type is
\* what the agent gets, whatever else the span, its resource and the scope say;
\* where it says nothing the agent gets what the rules of the sampler were
\* matched with (mod.rs 142-232, datadog_sampler.rs 113-143).
AgentSeesWhatSamplerSaw ==
  Done =>
    LET str(key) == get_attr_str(input, key)
        service  == Explicit(str("datadog.service"), get_otel_service(input), "")
    IN /\ dd.service = IF service = DEFAULT_OTLP_SERVICE_NAME
                       THEN input.config.service ELSE service
       /\ dd.name = Explicit(Word(str("datadog.name")), get_otel_operation_name_v2(input), <<>>)
       /\ dd.resource = Explicit(Word(str("datadog.resource")), get_otel_resource_v2(input), <<>>)
       /\ dd.type = Explicit(str("datadog.type"), get_otel_span_type(input), "")

\* The attributes that become a tag, by their places
ResourceKeys(span, tag) ==
  {key \in DOMAIN span.res : get_dd_key_for_otlp_attribute(key) = tag}

OwnPlaces(span, tag) ==
  {i \in DOMAIN span.attrs : /\ span.attrs[i].key \notin DatadogPrefixed /\ ~span.attrs[i].numeric
                             /\ get_dd_key_for_otlp_attribute(span.attrs[i].key) = tag}

\* The text of the first, or of the last, of several attributes
FirstOf(span, places, str) ==
  \E i \in places : (\A j \in places : i <= j) /\ str = span.attrs[i].str
LastOf(span, places, str) ==
  \E i \in places : (\A j \in places : j <= i) /\ str = span.attrs[i].str

\* What the conversion makes of a tag the Datadog semantics know, the strongest
\* place first: scope, datadog.*, resource, for the version what the resource
\* calls service.version, span, for env the deployment, where nothing has set the
\* tag before, not even to the empty text.  An empty text in the scope hides what
\* came before it, but not what the span says.
MetaTagFrom(span, tag, value) ==
  LET scoped   == tag \in DOMAIN span.scope
      semantic == get_attr_str(span, DD_SEMANTICS_KEY_TO_META_KEY[tag])
      resource == {span.res[k].str : k \in ResourceKeys(span, tag)}
      release  == IF tag = "version" THEN ResStr(span, "service.version") ELSE ""
      telling  == {i \in OwnPlaces(span, tag) : span.attrs[i].str # ""}
  IN IF scoped /\ span.scope[tag] # "" THEN value = span.scope[tag]
     ELSE IF ~scoped /\ semantic # "" THEN value = semantic
     ELSE IF ~scoped /\ resource \ {""} # {} THEN value \in resource \ {""}
     ELSE IF ~scoped /\ resource = {} /\ release # "" THEN value = release
     ELSE IF telling # {} THEN FirstOf(span, telling, value)
     ELSE value = IF tag = "env" /\ ~scoped /\ resource = {} /\ OwnPlaces(span, tag) = {}
                  THEN get_otel_env(span) ELSE ""

\* What it makes of any other tag: span (the last of its attributes), scope, and
\* the resource, where the order of its map decides between two attributes that
\* become the same tag.
OtherTagFrom(span, tag, meta) ==
  IF OwnPlaces(span, tag) # {} THEN LastOf(span, OwnPlaces(span, tag), Get(meta, tag))
  ELSE IF tag \in DOMAIN span.scope THEN Get(meta, tag) = span.scope[tag]
  ELSE IF ResourceKeys(span, tag) # {}
  THEN Get(meta, tag) \in {span.res[k].str : k \in ResourceKeys(span, tag)}
  ELSE tag \notin DOMAIN meta

\* A configured version counts for a service that the resource names; then a global
\* tag, or what the environment or the configuration says beside it (which of the
\* two is left open: ddtrace_transform.rs 71-75 takes the global tag,
\* configuration.rs 778 the other); then the places of the span (mod.rs 73-98,
\* 554-634; ddtrace_transform.rs 61-85).
MetaTagPrecedence ==
  Done =>
    LET named == "service.name" \in DOMAIN input.res /\ dd.service = ResStr(input, "service.name")
        beside(tag) == IF tag = "env" THEN get_otel_env(input) ELSE input.config.version
    IN \A tag \in {"env", "version"} :
         IF tag = "version" /\ input.config.version # "" /\ named
         THEN Get(dd.meta, tag) = input.config.version
         ELSE IF tag \in DOMAIN input.config.global_tags
         THEN Get(dd.meta, tag) \in {input.config.global_tags[tag]} \cup ({beside(tag)} \ {""})
         ELSE MetaTagFrom(input, tag, Get(dd.meta, tag))

\* For any other tag the global tags, then the places of the span
\* (mod.rs 73-98, 564-617).
TagPrecedence ==
  Done =>
    \A tag \in Tags :
      IF tag \in DOMAIN input.config.global_tags
      THEN Get(dd.meta, tag) = input.config.global_tags[tag]
      ELSE OtherTagFrom(input, tag, dd.meta)

\* A span is sent with a priority, the sampler's if it set one on the span and
\* else that of the sampled flag (ddtrace_transform.rs 17-36).
PriorityOfSampler ==
  Done =>
    LET set == {i \in DOMAIN input.attrs :
                  /\ input.attrs[i].numeric
                  /\ input.attrs[i].key \in {"sampling.priority", "_sampling_priority_v1"}}
        priority == Get(dd.metrics, "_sampling_priority_v1")
    IN IF set # {} THEN LastOf(input, set, priority)
       ELSE priority = IF input.sampled THEN "1" ELSE "0"

\* A failed span is marked and says why if anything does; a span that is marked
\* has failed or was declared to have, with all there is to say
\* (mod.rs 254-307, 706-711).
ErrorExplained ==
  Done =>
    LET declared == get_attr_num(input, "datadog.error")
    IN /\ input.status = "Error" =>
            /\ dd.error = 0 => declared = 0 /\ ErrorTags \subseteq DOMAIN dd.meta
            /\ input.description # "" \/ Telling("error.message") # {} =>
                 "error.message" \in DOMAIN dd.meta
       /\ dd.error # 0 /\ input.status # "Error" =>
            dd.error = declared /\ ErrorTags \subseteq DOMAIN dd.meta

\* What the agent gets of a span, from all its places (mod.rs, ddtrace_transform.rs).
SpanConverted ==
  AgentSeesWhatSamplerSaw /\ MetaTagPrecedence /\ TagPrecedence /\ PriorityOfSampler /\ ErrorExplained

=============================================================================
