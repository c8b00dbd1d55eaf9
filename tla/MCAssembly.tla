------------------------------ MODULE MCAssembly ------------------------------
(***************************************************************************)
(* From the configuration to the running tracer, on small instances.  A    *)
(* behaviour is one of these settings:                                     *)
(*   "sources"    one variable in the environment, and a call of the       *)
(*                builder                                                  *)
(*   "builds"     a few variables, calls between two builds, resources     *)
(*   "tracers"    two tracers are assembled while their clients run        *)
(*   "telemetry"  three threads start telemetry, log and report            *)
(***************************************************************************)
EXTENDS Integers, TracerAssembly, Telemetry, Configuration

VARIABLE setting

-----------------------------------------------------------------------------

TelemetryConfigs ==
  {[enabled |-> TRUE, level |-> Error, logs |-> TRUE], [enabled |-> TRUE, level |-> Off, logs |-> FALSE],
   [enabled |-> FALSE, level |-> Warn, logs |-> TRUE]}

Halves ==
  [w \in {"5", "7.5", "-3", "600", "-0.5", "2147483648"} |->
     CASE w = "5" -> 10 [] w = "7.5" -> 15 [] w = "-3" -> -6 [] w = "600" -> 1200
       [] w = "-0.5" -> -1 [] w = "2147483648" -> 20000]

Pairs == [w \in {"team:core"} |-> <<"team", "core">>]
RuleTexts == [w \in {"[]", "[rule]"} |-> IF w = "[]" THEN <<>> ELSE <<"rule">>]

ParsedWords == DOMAIN Halves \cup DOMAIN Pairs \cup DOMAIN RuleTexts
           \cup {"", "true", "false", "debug", "off", "datadog", "none", "billing"}

AnyWord == STRING

SomeTexts ==
  {Text(w) : w \in ParsedWords}
    \cup {<<[word |-> "true", spaced |-> TRUE, upper |-> FALSE]>>,
          <<[word |-> "debug", spaced |-> FALSE, upper |-> TRUE]>>,
          <<[word |-> "none", spaced |-> TRUE, upper |-> TRUE], Word("b3")>>,
          <<Word("b3"), Word("baggage")>>,
          <<Word("team:core"), Word("datadog"), Word("tracecontext")>>}

One(n, t) == [m \in {n} |-> t]

OneVariable ==
  {One(s, t) : s \in SupportedConfigurations, t \in SomeTexts}
    \cup {One("DD_REMOTE_CONFIG_ENABLED", Text(w)) : w \in {"true", "false", "5"}}
    \cup {[DD_REMOTE_CONFIG_ENABLED |-> Text(v), DD_REMOTE_CONFIGURATION_ENABLED |-> Text(w)] :
            v, w \in {"true", "false", "5"}}

SomeVariables ==
  {[n \in {} |-> Text("")],
   [DD_SERVICE |-> Text("billing"), DD_ENV |-> Text("prod")],
   [DD_AGENT_HOST |-> Text("agent"), DD_TRACE_AGENT_PORT |-> Text("5"), DD_TAGS |-> Text("team:core")],
   [DD_TRACE_AGENT_URL |-> Text("http://a"), DD_TRACE_SAMPLING_RULES |-> Text("[rule]")],
   [DD_TRACE_ENABLED |-> Text("false"), DD_LOG_LEVEL |-> Text("debug")]}

BothEnvironments == OneVariable \cup SomeVariables

Ask(s, v) == [setting |-> s, value |-> v]

SomeCalls ==
  {Ask("DD_SERVICE", Text("shop")), Ask("DD_AGENT_HOST", Text("h")),
   Ask("DD_TRACE_AGENT_URL", Text("")), Ask("DD_TRACE_AGENT_URL", Text("http://b")),
   Ask("DD_DOGSTATSD_PORT", 10), Ask("DD_LOG_LEVEL", "off"),
   Ask("DD_TRACE_ENABLED", TRUE), Ask("DD_TRACE_SAMPLING_RULES", <<"other">>),
   Ask("DD_TELEMETRY_HEARTBEAT_INTERVAL", -15), Ask("DD_TRACE_X_DATADOG_TAGS_MAX_LENGTH", 4000)}

EveryCall ==
  SomeCalls \cup
  {Ask("DD_ENV", Text("dev")), Ask("DD_VERSION", Text("2")), Ask("DD_TAGS", <<>>),
   Ask("DD_TRACE_AGENT_PORT", 10), Ask("DD_DOGSTATSD_HOST", Text("d")),
   Ask("DD_TRACE_PARTIAL_FLUSH_ENABLED", TRUE), Ask("DD_TRACE_PARTIAL_FLUSH_MIN_SPANS", 2),
   Ask("DD_TRACE_RATE_LIMIT", -2), Ask("DD_TRACE_STATS_COMPUTATION_ENABLED", FALSE),
   Ask("DD_INSTRUMENTATION_TELEMETRY_ENABLED", FALSE),
   Ask("DD_TELEMETRY_LOG_COLLECTION_ENABLED", FALSE),
   Ask("DD_TRACE_PROPAGATION_STYLE", <<>>),
   Ask("DD_TRACE_PROPAGATION_STYLE_EXTRACT", <<"none">>),
   Ask("DD_TRACE_PROPAGATION_STYLE_INJECT", <<"datadog">>),
   Ask("DD_TRACE_PROPAGATION_EXTRACT_FIRST", TRUE),
   Ask("DD_REMOTE_CONFIGURATION_ENABLED", FALSE),
   Ask("DD_REMOTE_CONFIG_POLL_INTERVAL_SECONDS", -60)}

SomeResources ==
  {NoResource, [service |-> Text("unknown_service"), env |-> Unset],
   [service |-> Text("otel"), env |-> Text("test")],
   [service |-> DefaultServiceName, env |-> Unset]}

\* In "sources" one configuration is built after one call, and its tracer is
\* given no resource; in "builds" only some of the calls are made.
InSources == calls <= 1 /\ Len(configs) <= 1
             /\ \A c \in DOMAIN resource_of : resource_of[c] # <<>> => resource_of[c].given = NoResource
InBuilds  == \A s \in SupportedConfigurations \ {"DD_TAGS"} :
               coded[s] # Unset => Ask(s, coded[s]) \in SomeCalls

-----------------------------------------------------------------------------

MCVars == <<vars, telemetryVars, configVars, setting>>

\* A tracer is assembled in every configuration, its flags included.
MCInit ==
  /\ setting \in {"sources", "builds", "tracers", "telemetry"}
  /\ Init
  /\ setting # "tracers" => \A t \in Tracers : ~config[t].enabled /\ ~config[t].remote
  /\ TelemetryInit
  /\ ConfigInit
  /\ env \in IF setting = "sources" THEN OneVariable ELSE SomeVariables
  /\ setting \in {"tracers", "telemetry"} => env = <<>>

MCNext ==
  \/ setting = "sources" /\ ConfigNext /\ InSources' /\ UNCHANGED <<vars, telemetryVars, setting>>
  \/ setting = "builds" /\ ConfigNext /\ InBuilds' /\ UNCHANGED <<vars, telemetryVars, setting>>
  \/ setting = "tracers" /\ Next /\ UNCHANGED <<telemetryVars, configVars, setting>>
  \/ setting = "telemetry" /\ TelemetryNext /\ UNCHANGED <<vars, configVars, setting>>

MCSpec == MCInit /\ [][MCNext]_MCVars

=============================================================================
