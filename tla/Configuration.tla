---------------------------- MODULE Configuration ----------------------------
(***************************************************************************)
(* The tracer's configuration (src/dd-trace/src/configuration):            *)
(* the sources and what their texts parse to (sources.rs,                  *)
(* supported_configurations.rs), the items that keep one value per origin, *)
(* the builder (configuration.rs) and the service name, which is resolved  *)
(* together with OpenTelemetry's resource when a tracer is assembled       *)
(* (src/datadog-opentelemetry/src/lib.rs, set_resource of                  *)
(* span_processor.rs).                                                     *)
(*                                                                         *)
(* A text is a sequence of comma-separated parts; a part is a word with    *)
(* spaces around it or not, in upper case or not.  Numbers are counted in  *)
(* halves, so that 15 is the text 7.5.  What remote configuration does to  *)
(* the sampling rules is in RemoteConfig.                                  *)
(***************************************************************************)
EXTENDS Integers, Sequences, FiniteSets

CONSTANTS
  Words,         \* the words that texts are made of
  Environments,  \* functions from the names of the set variables to their texts
  Calls,         \* calls of the builder: [setting, value]
  Resources,     \* resources given to DatadogTracingBuilder::with_resource
  NumberOf,      \* words that are numbers, to halves
  PairOf,        \* words that are "key:value", to <<key, value>>
  RulesOf,       \* words that are a JSON list of sampling rules, to the list
  MaxI32, MaxU32,\* bounds: the largest values of i32 and u32, in halves
  MaxCodeCalls,  \* bound: calls of the builder
  MaxBuilds,     \* bound: configurations built from the builder
  Unset          \* Option::None, and what a text that does not parse yields

Word(w) == [word |-> w, spaced |-> FALSE, upper |-> FALSE]
Text(w) == <<Word(w)>>
EmptyText == Text("")

-----------------------------------------------------------------------------
(* The settings *)

\* The type each variable is parsed to, or the wrapper it is read through.
KindOf ==
  [DD_SERVICE |-> "service", DD_ENV |-> "text", DD_VERSION |-> "text", DD_TAGS |-> "tags",
   DD_AGENT_HOST |-> "text", DD_TRACE_AGENT_PORT |-> "u32", DD_TRACE_AGENT_URL |-> "text",
   DD_DOGSTATSD_HOST |-> "text", DD_DOGSTATSD_PORT |-> "u32", DD_DOGSTATSD_URL |-> "text",
   DD_TRACE_PARTIAL_FLUSH_ENABLED |-> "bool", DD_TRACE_PARTIAL_FLUSH_MIN_SPANS |-> "usize",
   DD_TRACE_SAMPLING_RULES |-> "rules", DD_TRACE_RATE_LIMIT |-> "i32",
   DD_TRACE_ENABLED |-> "bool", DD_LOG_LEVEL |-> "level",
   DD_TRACE_STATS_COMPUTATION_ENABLED |-> "bool",
   DD_INSTRUMENTATION_TELEMETRY_ENABLED |-> "bool",
   DD_TELEMETRY_LOG_COLLECTION_ENABLED |-> "bool",
   DD_TELEMETRY_HEARTBEAT_INTERVAL |-> "f64",
   DD_TRACE_PROPAGATION_STYLE |-> "styles", DD_TRACE_PROPAGATION_STYLE_EXTRACT |-> "styles",
   DD_TRACE_PROPAGATION_STYLE_INJECT |-> "styles", DD_TRACE_PROPAGATION_EXTRACT_FIRST |-> "bool",
   DD_REMOTE_CONFIGURATION_ENABLED |-> "bool", DD_REMOTE_CONFIG_POLL_INTERVAL_SECONDS |-> "f64",
   DD_TRACE_X_DATADOG_TAGS_MAX_LENGTH |-> "usize"]

SupportedConfigurations == DOMAIN KindOf

aliases(s) ==
  IF s = "DD_REMOTE_CONFIGURATION_ENABLED" THEN <<"DD_REMOTE_CONFIG_ENABLED">> ELSE <<>>

DATADOG_TAGS_MAX_LENGTH == 1024
RC_DEFAULT_POLL_INTERVAL == 10
DefaultServiceName == Text("unnamed-rust-service")

default_config ==
  [s \in SupportedConfigurations |->
     CASE s \in {"DD_ENV", "DD_VERSION", "DD_TRACE_PROPAGATION_STYLE_EXTRACT",
                 "DD_TRACE_PROPAGATION_STYLE_INJECT"} -> Unset
       [] s \in {"DD_TAGS", "DD_TRACE_SAMPLING_RULES"} -> <<>>
       [] s \in {"DD_TRACE_AGENT_URL", "DD_DOGSTATSD_URL"} -> EmptyText
       [] s \in {"DD_AGENT_HOST", "DD_DOGSTATSD_HOST"} -> Text("localhost")
       [] s \in {"DD_TRACE_PARTIAL_FLUSH_ENABLED", "DD_TRACE_PROPAGATION_EXTRACT_FIRST"} -> FALSE
       [] s = "DD_SERVICE" -> DefaultServiceName
       [] s = "DD_TRACE_AGENT_PORT" -> 2 * 8126
       [] s = "DD_DOGSTATSD_PORT" -> 2 * 8125
       [] s = "DD_TRACE_RATE_LIMIT" -> 2 * 100
       [] s = "DD_LOG_LEVEL" -> "error"
       [] s = "DD_TELEMETRY_HEARTBEAT_INTERVAL" -> 2 * 60
       [] s = "DD_TRACE_PARTIAL_FLUSH_MIN_SPANS" -> 2 * 300
       [] s = "DD_TRACE_PROPAGATION_STYLE" -> <<"datadog", "tracecontext">>
       [] s = "DD_REMOTE_CONFIG_POLL_INTERVAL_SECONDS" -> RC_DEFAULT_POLL_INTERVAL
       [] s = "DD_TRACE_X_DATADOG_TAGS_MAX_LENGTH" -> DATADOG_TAGS_MAX_LENGTH
       [] OTHER -> TRUE]

\* The settings whose item remote configuration, or code at run time, may override.
override_origin(s) ==
  CASE s = "DD_SERVICE" -> "Code"
    [] s = "DD_TRACE_SAMPLING_RULES" -> "RemoteConfig"
    [] OTHER -> Unset

Origins == {"Default", "EnvVar", "Code", "RemoteConfig"}
Part == [word : Words, spaced : BOOLEAN, upper : BOOLEAN]
Texts == Seq(Part)
Numbers == {s \in SupportedConfigurations : KindOf[s] \in {"u32", "i32", "usize", "f64"}}

ASSUME ConfigAssumption ==
  /\ {"", "http://", ":", "localhost", "unnamed-rust-service"} \subseteq Words
  /\ Unset \notin Origins /\ Unset \notin Int /\ Unset \notin Seq(Part \cup [port : Int])
  /\ NumberOf \in [DOMAIN NumberOf -> Int]
  /\ \A e \in Environments : \A n \in DOMAIN e : e[n] \in Texts
  /\ \A call \in Calls :
       /\ call.setting \in SupportedConfigurations /\ call.value # Unset
       /\ KindOf[call.setting] \in {"text", "service"} => call.value \in Texts
       /\ call.setting \in Numbers => call.value \in Int
       /\ KindOf[call.setting] = "usize" => call.value >= 0

-----------------------------------------------------------------------------
(* Parsing *)

LevelFilter == <<"off", "error", "warn", "info", "debug">>
LevelOf(name) == CHOOSE i \in DOMAIN LevelFilter : LevelFilter[i] = name

TracePropagationStyle == {"datadog", "tracecontext", "none"}

\* Whether text t is one word, and nothing around it.
IsWord(t) == Len(t) = 1 /\ ~t[1].spaced

IsNumber(t) == IsWord(t) /\ ~t[1].upper /\ t[1].word \in DOMAIN NumberOf

ParseNumber(kind, t) ==
  IF ~IsNumber(t) THEN Unset
  ELSE LET n == NumberOf[t[1].word] IN
       IF \/ kind = "f64"
          \/ n % 2 = 0 /\ kind = "usize" /\ n >= 0
          \/ n % 2 = 0 /\ kind = "u32" /\ n \in 0..MaxU32
          \/ n % 2 = 0 /\ kind = "i32" /\ n \in (-MaxI32 - 2)..MaxI32
       THEN n
       ELSE Unset

\* Levels are compared without case but not trimmed.
ParseLevel(t) ==
  IF IsWord(t) /\ \E i \in DOMAIN LevelFilter : LevelFilter[i] = t[1].word
  THEN t[1].word
  ELSE Unset

\* Unknown styles are dropped; a list of unknown styles only is a list of none.
from_tags(t) ==
  LET known == SelectSeq(t, LAMBDA p : p.word \in TracePropagationStyle)
  IN  IF t = <<>> THEN Unset ELSE [i \in DOMAIN known |-> known[i].word]

\* Tags without ":" are dropped.
DdKeyValueTags(t) ==
  LET pairs == SelectSeq(t, LAMBDA p : p.word \in DOMAIN PairOf)
  IN  [i \in DOMAIN pairs |-> PairOf[pairs[i].word]]

ParsedSamplingRules(t) ==
  CASE Len(t) = 1 /\ t[1].word = "" -> <<>>
    [] Len(t) = 1 /\ t[1].word \in DOMAIN RulesOf -> RulesOf[t[1].word]
    [] OTHER -> Unset

Parse(kind, t) ==
  CASE kind \in {"text", "service"} -> t
    [] kind \in {"f64", "usize", "u32", "i32"} -> ParseNumber(kind, t)
    [] kind = "bool" -> IF t \in {Text("true"), Text("false")} THEN t = Text("true") ELSE Unset
    [] kind = "level" -> ParseLevel(t)
    [] kind = "styles" -> from_tags(t)
    [] kind = "tags" -> DdKeyValueTags(t)
    [] kind = "rules" -> ParsedSamplingRules(t)

-----------------------------------------------------------------------------
(* Sources: the process environment is the only one *)

\* The text a variable has under its name or, when it is not set, under the
\* first of its aliases that is.
TextOf(e, s) ==
  LET others == {i \in DOMAIN aliases(s) : aliases(s)[i] \in DOMAIN e}
      first  == CHOOSE i \in others : \A j \in others : i <= j
  IN  CASE s \in DOMAIN e                      -> e[s]
        [] s \notin DOMAIN e /\ others # {}   -> e[aliases(s)[first]]
        [] OTHER                              -> Unset

\* Mutant: only the text of the variable's own name is an error.
get_parse_own(e, s) ==
  LET t == TextOf(e, s)
      v == IF t = Unset THEN Unset ELSE Parse(KindOf[s], t)
  IN  [value |-> v, failed |-> s \in DOMAIN e /\ v = Unset]

\* A text that does not parse is an error and sets nothing: its alias is not
\* asked either.
get_parse(e, s) ==
  LET t == TextOf(e, s)
      v == IF t = Unset THEN Unset ELSE Parse(KindOf[s], t)
  IN  [value |-> v, failed |-> t # Unset /\ v = Unset]

-----------------------------------------------------------------------------
(* ConfigItem and ConfigItemWithOverride *)

NewItem(s) ==
  [default |-> default_config[s], env |-> Unset, code |-> Unset, override |-> Unset]

\* What an item in s takes from origin goes to its override when the override
\* has that origin.
set_value_source(item, s, v, origin) ==
  IF origin = override_origin(s) THEN [item EXCEPT !.override = v]
  ELSE IF origin = "Code" THEN [item EXCEPT !.code = v]
  ELSE [item EXCEPT !.env = v]

\* Mutant: the environment is asked before the code.
value_env_first(item) ==
  CASE item.override # Unset -> item.override
    [] item.override = Unset /\ item.env # Unset -> item.env
    [] item.override = Unset /\ item.env = Unset /\ item.code # Unset -> item.code
    [] OTHER -> item.default

value(item) ==
  CASE item.override # Unset -> item.override
    [] item.override = Unset /\ item.code # Unset -> item.code
    [] item.override = Unset /\ item.code = Unset /\ item.env # Unset -> item.env
    [] OTHER -> item.default

source(item, s) ==
  CASE item.override # Unset -> override_origin(s)
    [] item.override = Unset /\ item.code # Unset -> "Code"
    [] item.override = Unset /\ item.code = Unset /\ item.env # Unset -> "EnvVar"
    [] OTHER -> "Default"

service_is_default(config) == source(config.DD_SERVICE, "DD_SERVICE") = "Default"

\* The limits a text or a number of the program is brought within.
abs(n) == IF n < 0 THEN -n ELSE n
min(m, n) == IF m < n THEN m ELSE n

Within(s, v) ==
  CASE s = "DD_TELEMETRY_HEARTBEAT_INTERVAL" -> abs(v)
    [] s = "DD_REMOTE_CONFIG_POLL_INTERVAL_SECONDS" -> min(abs(v), RC_DEFAULT_POLL_INTERVAL)
    [] s = "DD_TRACE_X_DATADOG_TAGS_MAX_LENGTH" -> min(v, DATADOG_TAGS_MAX_LENGTH)
    [] OTHER -> v

-----------------------------------------------------------------------------
VARIABLES
  env,         \* the process environment
  max_level,   \* MAX_LOG_LEVEL, one per process
  builder,     \* the builder's items, <<>> before Config::builder
  coded,       \* history: what the calls of the builder asked for
  configs,     \* the configurations built: their items, and coded at that time
  reported,    \* the settings whose text an error was logged for
  resource_of, \* of each configuration: the resource of its tracer, or <<>>
  calls        \* calls of the builder so far

configVars == <<env, max_level, builder, coded, configs, reported, resource_of, calls>>

NoResource == [service |-> Unset, env |-> Unset]

ConfigInit ==
  /\ env \in Environments
  /\ max_level = LevelOf("error")
  /\ builder = <<>>
  /\ coded = [s \in SupportedConfigurations |-> Unset]
  /\ configs = <<>>
  /\ reported = {}
  /\ resource_of = <<>>
  /\ calls = 0

\* Mutant: the limit holds for the environment only.
code_value_unlimited(s, v) == v

\* set_heartbeat_interval, set_poll_interval and set_tags_max_length limit
\* what they are given; the other setters store it.
code_value(s, v) == Within(s, v)

from_sources(e) ==
  [s \in SupportedConfigurations |->
     IF get_parse(e, s).value = Unset THEN NewItem(s)
     ELSE set_value_source(NewItem(s), s, Within(s, get_parse(e, s).value), "EnvVar")]

\* Config::builder.  The errors of the sampling rules are the ones nobody logs.
Builder ==
  /\ builder = <<>>
  /\ builder' = from_sources(env)
  /\ reported' = IF LevelOf("error") <= max_level
                 THEN {s \in SupportedConfigurations \ {"DD_TRACE_SAMPLING_RULES"} :
                         get_parse(env, s).failed}
                 ELSE {}
  /\ UNCHANGED <<env, max_level, coded, configs, resource_of, calls>>

\* ConfigBuilder::set_*; the dogstatsd url has no setter.
SetCode(call) ==
  /\ builder # <<>>
  /\ calls < MaxCodeCalls
  /\ calls' = calls + 1
  /\ builder' = [builder EXCEPT ![call.setting] =
                   set_value_source(@, call.setting, code_value(call.setting, call.value), "Code")]
  /\ coded' = [coded EXCEPT ![call.setting] = call.value]
  /\ UNCHANGED <<env, max_level, configs, reported, resource_of>>

\* ConfigBuilder::add_global_tag.
AddGlobalTag(tag) ==
  /\ builder # <<>>
  /\ calls < MaxCodeCalls
  /\ calls' = calls + 1
  /\ LET tags == Append(value(builder.DD_TAGS), tag) IN
     /\ builder' = [builder EXCEPT !.DD_TAGS = set_value_source(@, "DD_TAGS", tags, "Code")]
     /\ coded' = [coded EXCEPT !.DD_TAGS = tags]
  /\ UNCHANGED <<env, max_level, configs, reported, resource_of>>

Url(host, port) == Text("http://") \o host \o Text(":") \o <<[port |-> port]>>

ResolveUrl(items, url, host, port) ==
  IF value(items[url]) = EmptyText
  THEN [items EXCEPT ![url] =
          set_value_source(@, url, Url(value(items[host]), value(items[port])), "Code")]
  ELSE items

Resolved(items) ==
  ResolveUrl(ResolveUrl(items, "DD_TRACE_AGENT_URL", "DD_AGENT_HOST", "DD_TRACE_AGENT_PORT"),
             "DD_DOGSTATSD_URL", "DD_DOGSTATSD_HOST", "DD_DOGSTATSD_PORT")

\* Mutant: the urls are resolved in the builder, and stay.
build_in_place ==
  /\ builder # <<>>
  /\ Len(configs) < MaxBuilds
  /\ max_level' = LevelOf(value(builder.DD_LOG_LEVEL))
  /\ builder' = Resolved(builder)
  /\ configs' = Append(configs, [items |-> builder', coded |-> coded])
  /\ resource_of' = Append(resource_of, <<>>)
  /\ UNCHANGED <<env, coded, reported, calls>>

\* ConfigBuilder::build: the builder is cloned and goes on.
build ==
  /\ builder # <<>>
  /\ Len(configs) < MaxBuilds
  /\ max_level' = LevelOf(value(builder.DD_LOG_LEVEL))
  /\ configs' = Append(configs, [items |-> Resolved(builder), coded |-> coded])
  /\ resource_of' = Append(resource_of, <<>>)
  /\ UNCHANGED <<env, builder, coded, reported, calls>>

-----------------------------------------------------------------------------
(* The service name, and the resource of a tracer *)

UnknownService == Text("unknown_service")

\* Mutant: OpenTelemetry's name is kept whatever the configuration says.
create_dd_resource_keeping(resource, config) ==
  [service |-> IF resource.service \in {Unset, UnknownService}
               THEN value(config.DD_SERVICE) ELSE resource.service,
   env |-> IF resource.env = Unset THEN value(config.DD_ENV) ELSE resource.env]

create_dd_resource(resource, config) ==
  [service |-> IF resource.service \in {Unset, UnknownService} \/ ~service_is_default(config)
               THEN value(config.DD_SERVICE)
               ELSE resource.service,
   env |-> IF resource.env = Unset THEN value(config.DD_ENV) ELSE resource.env]

\* make_tracer: the resource given to the provider's builder.
make_tracer(c, resource) ==
  /\ resource_of[c] = <<>>
  /\ resource_of' = [resource_of EXCEPT ![c] =
                  [given |-> resource, set |-> FALSE,
                   resource |-> create_dd_resource(resource, configs[c].items)]]
  /\ UNCHANGED <<env, max_level, builder, coded, configs, reported, calls>>

\* DatadogSpanProcessor::set_resource, called by the provider's build; a
\* disabled tracer has no processor.
resolve_service(c) ==
  /\ resource_of[c] # <<>>
  /\ ~resource_of[c].set
  /\ value(configs[c].items.DD_TRACE_ENABLED)
  /\ LET dd_resource == create_dd_resource(resource_of[c].resource, configs[c].items) IN
     /\ resource_of' = [resource_of EXCEPT ![c].set = TRUE, ![c].resource = dd_resource]
     /\ configs' = [configs EXCEPT ![c].items.DD_SERVICE =
                      set_value_source(configs[c].items.DD_SERVICE, "DD_SERVICE",
                                       dd_resource.service, "Code")]
  /\ UNCHANGED <<env, max_level, builder, coded, reported, calls>>

ConfigNext ==
  \/ Builder
  \/ \E call \in Calls : SetCode(call)
  \/ \E word \in DOMAIN PairOf : AddGlobalTag(PairOf[word])
  \/ build
  \/ \E c \in DOMAIN configs :
       \/ \E resource \in Resources : make_tracer(c, resource)
       \/ resolve_service(c)

ConfigSpec == ConfigInit /\ [][ConfigNext]_configVars

-----------------------------------------------------------------------------
(* Properties *)

\* What is asked of a setting: by the code, else by the environment, else the
\* default.
InEnvironment(e, s) == get_parse(e, s).value # Unset
Asked(e, s, cd) ==
  CASE cd[s] # Unset -> Within(s, cd[s])
    [] cd[s] = Unset /\ InEnvironment(e, s) -> Within(s, get_parse(e, s).value)
    [] OTHER -> default_config[s]

\* Whatever the order of the calls, a setting of the builder has the value the
\* code asked for last, or else the environment's, or else the default
\* (configuration.rs 285-304), also where the code's value is kept in the
\* override of the item (configuration.rs 437-449).
SourcesInOrder ==
  builder # <<>> => \A s \in SupportedConfigurations : value(builder[s]) = Asked(env, s, coded)

Urls == {"DD_TRACE_AGENT_URL", "DD_DOGSTATSD_URL"}

\* A configuration keeps what the builder was asked for when it was built; an
\* url nobody gave is made of the host and the port of the same configuration,
\* not of one built before or asked for after (configuration.rs 1469-1492).
BuildsAsConfigured ==
  \A c \in DOMAIN configs :
    LET cd == configs[c].coded
        items == configs[c].items
    IN /\ \A s \in SupportedConfigurations \ (Urls \cup {"DD_SERVICE"}) :
            value(items[s]) = Asked(env, s, cd)
       /\ value(items.DD_TRACE_AGENT_URL) =
            IF Asked(env, "DD_TRACE_AGENT_URL", cd) # EmptyText THEN Asked(env, "DD_TRACE_AGENT_URL", cd)
            ELSE Url(Asked(env, "DD_AGENT_HOST", cd), Asked(env, "DD_TRACE_AGENT_PORT", cd))
       /\ value(items.DD_DOGSTATSD_URL) =
            IF Asked(env, "DD_DOGSTATSD_URL", cd) # EmptyText THEN Asked(env, "DD_DOGSTATSD_URL", cd)
            ELSE Url(Asked(env, "DD_DOGSTATSD_HOST", cd), Asked(env, "DD_DOGSTATSD_PORT", cd))

\* No source gets past the limits: "5 seconds is the highest interval allowed
\* by the spec" (configuration.rs 835-837), tags of 0 to 512 bytes
\* (configuration.rs 848-850), and no negative interval, which
\* Duration::from_secs_f64 would panic on.
WithinLimits ==
  \A c \in DOMAIN configs :
    LET items == configs[c].items
    IN /\ value(items.DD_REMOTE_CONFIG_POLL_INTERVAL_SECONDS) \in 0..10
       /\ value(items.DD_TRACE_X_DATADOG_TAGS_MAX_LENGTH) \in 0..1024
       /\ value(items.DD_TELEMETRY_HEARTBEAT_INTERVAL) >= 0

\* The resource of a tracer and, once the processor has it, the configuration
\* name the same service: Datadog's when it was configured, else
\* OpenTelemetry's when it was given, else the default, although the name is
\* resolved twice and the first resolution hides where it came from; and the
\* environment OpenTelemetry gives wins over DD_ENV (lib.rs 437-477,
\* span_processor.rs 766-783).
OneServiceName ==
  \A c \in DOMAIN configs :
    resource_of[c] # <<>> =>
      LET given == resource_of[c].given
          configured == configs[c].coded.DD_SERVICE # Unset \/ InEnvironment(env, "DD_SERVICE")
          name == IF configured \/ given.service \in {Unset, UnknownService}
                  THEN Asked(env, "DD_SERVICE", configs[c].coded)
                  ELSE given.service
      IN /\ resource_of[c].resource.service = name
         /\ resource_of[c].set => value(configs[c].items.DD_SERVICE) = name
         /\ resource_of[c].resource.env =
              IF given.env # Unset THEN given.env ELSE Asked(env, "DD_ENV", configs[c].coded)

\* A variable that is set and not in force is reported as an error, under
\* whichever of its names it was set, the sampling rules excepted: their
\* errors are read (configuration.rs 889-902) and not logged.
RejectedIsReported ==
  builder # <<>> =>
    \A s \in SupportedConfigurations \ {"DD_TRACE_SAMPLING_RULES"} :
      (\E n \in {s} \cup {aliases(s)[i] : i \in DOMAIN aliases(s)} : n \in DOMAIN env)
        /\ source(builder[s], s) = "Default"
        => s \in reported

\* Every source has its place and its limits, what it cannot set is reported,
\* and a configuration is what was asked of its builder when it was built, under
\* one service name (configuration.rs 285-304, 437-449, 835-850, 1469-1492;
\* lib.rs 437-477).
ConfiguredAsAsked ==
  SourcesInOrder /\ BuildsAsConfigured /\ WithinLimits /\ OneServiceName /\ RejectedIsReported
=============================================================================
