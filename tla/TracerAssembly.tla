---------------------------- MODULE TracerAssembly ----------------------------
(***************************************************************************)
(* How a tracer is put together: make_tracer of                            *)
(* src/datadog-opentelemetry/src/lib.rs with Sampler::new,                 *)
(* DatadogSpanProcessor::new and set_resource, DatadogExporter::new and    *)
(* the callbacks of the configuration.  The threads it starts on the way   *)
(* run before it is complete: remote configuration updates the rules, the  *)
(* exporter's worker reads the configuration.  Every tracer has a          *)
(* configuration of its own; what configurations made by one builder share *)
(* is their slot for the callback.                                         *)
(***************************************************************************)
EXTENDS Naturals, FiniteSets

CONSTANTS
  Tracers,
  OneBuilder,  \* whether the configurations come from one builder
  Rules,       \* lists of rules that remote configuration sends
  LocalRules,  \* the rules of every configuration at first
  Updates,     \* bound: updates for each tracer
  None

ASSUME TracerAssemblyAssumption ==
  OneBuilder \in BOOLEAN /\ LocalRules \notin Rules /\ Updates \in Nat /\ None \notin Tracers

VARIABLES
  config,      \* of each tracer: its flags, the rules in force, how its service is known
  tracer,      \* of each tracer: its step, its sampler's rules, the exporter's service
  callback,    \* of each slot: the tracer whose sampler is called, or None
  remote,      \* of each tracer: its remote configuration client, updates left
  cached,      \* of each tracer: the service in CachedConfig, or None
  started_for  \* the service telemetry was started for, or None

vars == <<config, tracer, callback, remote, cached, started_for>>

Slot(t) == IF OneBuilder THEN None ELSE t

Init ==
  /\ config \in [Tracers -> [enabled : BOOLEAN, remote : BOOLEAN, rules : {LocalRules}, service : {"configured"}]]
  /\ tracer = [t \in Tracers |-> [step |-> "sampler", rules |-> None, service |-> None]]
  /\ callback = [slot \in {Slot(t) : t \in Tracers} |-> None]
  /\ remote = [t \in Tracers |-> [step |-> "off", left |-> Updates]]
  /\ cached = [t \in Tracers |-> None]
  /\ started_for = None

At(t, step) == tracer[t].step = step
Goto(t, step) == tracer' = [tracer EXCEPT ![t].step = step]

\* Sampler::new
NewSampler(t) ==
  /\ At(t, "sampler")
  /\ tracer' = [tracer EXCEPT ![t] = [@ EXCEPT !.step = "callback", !.rules = config[t].rules]]
  /\ UNCHANGED <<config, callback, remote, cached, started_for>>

\* The callback is set before the client can call it.
SetCallback(t) ==
  /\ At(t, "callback")
  /\ callback' = IF config[t].remote THEN [callback EXCEPT ![Slot(t)] = t] ELSE callback
  /\ Goto(t, IF config[t].enabled THEN "client" ELSE "done")
  /\ UNCHANGED <<config, remote, cached, started_for>>

\* Mutant: the client starts with the sampler.
ClientFirst(t) ==
  /\ tracer[t].step \in {"callback", "client"} /\ remote[t].step = "off" /\ config[t].enabled
  /\ remote' = IF config[t].remote THEN [remote EXCEPT ![t].step = "polls"] ELSE remote
  /\ IF At(t, "client") THEN Goto(t, "exporter") ELSE UNCHANGED tracer
  /\ UNCHANGED <<config, callback, cached, started_for>>

\* DatadogSpanProcessor::new; the client may fail to start.
StartClient(t) ==
  /\ At(t, "client")
  /\ \/ config[t].remote /\ remote' = [remote EXCEPT ![t].step = "polls"]
     \/ UNCHANGED remote
  /\ Goto(t, "exporter")
  /\ UNCHANGED <<config, callback, cached, started_for>>

\* DatadogExporter::new takes the service for its client and starts the worker.
NewExporter(t) ==
  /\ At(t, "exporter")
  /\ tracer' = [tracer EXCEPT ![t] = [@ EXCEPT !.step = "resource", !.service = config[t].service]]
  /\ UNCHANGED <<config, callback, remote, cached, started_for>>

\* CachedConfig::new in the worker
CacheConfig(t) ==
  /\ tracer[t].service # None /\ cached[t] = None
  /\ cached' = [cached EXCEPT ![t] = config[t].service]
  /\ UNCHANGED <<config, tracer, callback, remote, started_for>>

\* Mutant: telemetry is started before the service is known.
ResourceLast(t) ==
  /\ At(t, "resource")
  /\ started_for' = IF started_for = None THEN config[t].service ELSE started_for
  /\ config' = [config EXCEPT ![t].service = "resolved"]
  /\ Goto(t, "done")
  /\ UNCHANGED <<callback, remote, cached>>

\* set_resource up to the name of the service
set_resource(t) ==
  /\ At(t, "resource")
  /\ config' = [config EXCEPT ![t].service = "resolved"]
  /\ Goto(t, "telemetry")
  /\ UNCHANGED <<callback, remote, cached, started_for>>

\* init_telemetry: the first tracer of the process
init_telemetry(t) ==
  /\ At(t, "telemetry")
  /\ started_for' = IF started_for = None THEN config[t].service ELSE started_for
  /\ Goto(t, "done")
  /\ UNCHANGED <<config, callback, remote, cached>>

\* update_sampling_rules_from_remote and clear_remote_sampling_rules: the rules,
\* then the callback.
Update(t, rules) ==
  /\ remote[t].step = "polls" /\ remote[t].left > 0
  /\ config' = [config EXCEPT ![t].rules = rules]
  /\ remote' = [remote EXCEPT ![t] = [step |-> "notifies", left |-> @.left - 1]]
  /\ UNCHANGED <<tracer, callback, cached, started_for>>

notify_update(t) ==
  /\ remote[t].step = "notifies"
  /\ LET called == callback[Slot(t)] IN
     tracer' = IF called = None THEN tracer ELSE [tracer EXCEPT ![called].rules = config[t].rules]
  /\ remote' = [remote EXCEPT ![t].step = "polls"]
  /\ UNCHANGED <<config, callback, cached, started_for>>

Assemble(t) ==
  \/ NewSampler(t) \/ SetCallback(t) \/ StartClient(t) \/ NewExporter(t)
  \/ set_resource(t) \/ init_telemetry(t)

Next == \E t \in Tracers :
  \/ Assemble(t) \/ CacheConfig(t) \/ notify_update(t)
  \/ \E rules \in Rules \cup {LocalRules} : Update(t, rules)

Spec == Init /\ [][Next]_vars

-----------------------------------------------------------------------------
\* "This allows components like DatadogSampler to be updated" (configuration.rs
\* 1249): no update falls between the rules a sampler starts with and its
\* callback, and each one reaches the sampler of its own tracer.
SamplerFollowsUpdates ==
  \A t \in Tracers : tracer[t].rules # None /\ remote[t].step # "notifies" =>
    tracer[t].rules = config[t].rules

\* Telemetry names the service the resource decides, whichever tracer starts
\* it and however their assemblies interleave (span_processor.rs 772-781).
TelemetryNamesService == started_for \in {None, "resolved"}

\* Both, at any point of the assembly (lib.rs make_tracer).
AssembledInOrder == SamplerFollowsUpdates /\ TelemetryNamesService
=============================================================================
