# A TLA+ verification of dd-trace-rs

dd-trace-rs is a Datadog tracing library for Rust programs that use
OpenTelemetry. It sits between the OpenTelemetry SDK and the Datadog agent: it
decides which traces are kept, assembles the spans of a trace into one chunk,
buffers the chunks, sends them to the agent from a background thread, and takes
configuration updates from the agent while the program runs.

This directory holds models of its parts, the model-checking runs and the
proofs. Paths below are relative to the root of the repository; `PROJECT.json`
maps every definition to the lines it models, and lists the hazards of the code
with the properties that are about them.

    tlasany M.tla                     parse
    tlc -config X.cfg M               check a run (PROJECT.json names module and cfg)
    tlapm M.tla                       check the proofs of a module

## 1. Inventory

### Components, their state and their operations

| Component | Source | State | Operations |
| --- | --- | --- | --- |
| Trace registry | `datadog-opentelemetry/src/span_processor.rs` 40-490 | 64 shards, each a map *trace id -> Trace* and a counter record, one lock per shard | registration of propagation data, roots and spans; `set_active_span_metadata`, `finish_span`, `get_metrics` |
| Span processor | same file, 490-800 | handles of the workers | `new`, `on_start`, `on_end`, `force_flush`, `shutdown_with_timeout`, `set_resource` |
| Sampler and propagator of the tracer | `sampler.rs`, `text_map_propagator.rs` | none of their own | `should_sample`, `inject_context`, `extract_with_context` |
| Span exporter | `span_exporter.rs` | `SharedState` behind a mutex and a condition variable; worker thread; join handle | `add_trace_chunk`, `trigger_flush`, `set_resource`, shutdown, join, drop; the worker's `receive` and `run` |
| Telemetry metrics collector | `spans_metrics.rs` | a thread with a shutdown channel | every ten seconds reads the counters and sends points |
| Worker handles | `dd-trace/src/utils.rs` | a join handle and a shutdown signal per worker | `trigger_shutdown`, `wait_for_shutdown` |
| Remote configuration client | `configuration/remote_config.rs` | client state, cached target files | poll loop, processing of a response file by file |
| Configuration | `configuration/*.rs` | items with a value per origin, the callback, extra services | sources, builder, remote update of the rules, tracker of services |
| Datadog sampler and rules | `dd-trace-sampling/src/*.rs` | rules, agent rates, resource, each behind a lock | `sample`, updates of rules, rates and resource |
| Rate limiter | `rate_limiter.rs` | token bucket and counts of two windows, one mutex | `is_allowed`, `effective_rate` |
| Glob matcher | `glob_matcher.rs` | a cache shared by threads | `matches` |
| Propagation | `dd-trace-propagation/src/*.rs` | none | `extract` and `inject` over several styles of headers |
| Span mappings | `datadog-opentelemetry-mappings/src/` | none | conversion of an OpenTelemetry span |
| Context labels | `context_labels/*.rs` | labels of each thread in two formats | observer on attach and detach |
| Telemetry client, logging | `telemetry.rs`, `log.rs` | one cell per process, set once; the log level | `init_telemetry`, logs, points, configuration reports |
| Tracer assembly | `datadog-opentelemetry/src/lib.rs` | none | `make_tracer`, `create_dd_resource` |

### How they interact

    configuration --builds--> tracer assembly --starts--> remote config client, exporter, collector
                                                                |
    application threads                                         |
      |  span starts                 span ends                  |      request leaves
      v                                   |                     |            |
    should_sample --> registry <-- on_start                     |            v
      | (decides)  (a lock per shard) <-- on_end                |     inject_context
      |                  |    |             | full trace chunk  |     (reads registry,
      |           labels-+    |             v                   |      writes headers)
      |                 collector      span exporter --converts-+--> agent
      |                       |       (mutex + condvar)         |      |
      |                       +--------> telemetry client       |      | rates, remote config
      +--- sampler: rules, limiter, rates <-- callback <-- configuration <--+

A span takes several locked steps of the registry, from whatever thread it runs
on. `on_end` hands finished chunks to the exporter. A chunk that the exporter
refuses (full, or shut down) is dropped by `on_end`; the registry does not learn
of it, so the two components meet in one call that returns nothing. They are
modelled separately: the registry ends at `exported`, the exporter starts with
arbitrary chunks. The other seams are modelled where they interleave: the
limiter inside the sampler's call, the labels over the registry, the rules and
the telemetry's report in the remote configuration client, the three workers in
the shutdown, the starting threads in the assembly.

### What is hard

* Every span makes up to four separate registry steps and the spans of one trace
  do so concurrently. The open span count is raised *before* the root exists.
  Two local roots of this process can share the trace id of one remote parent.
* The exporter sets a flag under its mutex, releases the mutex, then notifies.
  Waits expire and wake spuriously; the worker can fail to start or panic; callers
  time out while others are blocked joining the thread.
* A shutdown with a deadline waits for three workers in turn, which may be slow,
  fail or panic; it races with new chunks, flushes, the drop of the exporter and
  the collector's rounds.
* The remote configuration client applies a response file by file and can fail
  between two files; a shutdown drops a poll at any of its awaits; the sampler and
  telemetry read the configuration while it changes; threads that start during
  the assembly use a tracer that is not complete.
* A sampling decision reads rules, limiter, rates and resource under separate
  locks; the rate limiter takes its time stamp before its lock; the matcher's
  cache is shared.
* A trace passes services that read and write different headers with different
  limits, some of them of other vendors.
* A tag of a span can come from six places, one of them a hash map.

### What makes each component correct

* **Registry**: a span that ended is exported exactly once or still waits for a
  span of its trace; the local root comes first in its chunk; a decision once
  registered is never changed and agrees with the flag and with what is injected;
  no point of telemetry is lost or counted twice; the labels of a thread are those
  of its current span.
* **Exporter**: accepted chunks reach the agent client once and in order; what was
  accepted before a shutdown request is sent before the end; the buffer is bounded;
  no wakeup is lost and no caller is left waiting.
* **Shutdown**: Ok means that every worker ended; the call returns; every worker
  ends; a round of the collector is reported whole.
* **Remote configuration**: the sampler has the rules in force; what the next
  request reports is what was done with the response; the tracker of services is
  exact up to its limit.
* **Sampler**: a decision follows from rules and rates that were in force at one
  time of the call, and its tags explain it; the bucket is not exceeded; services
  that decide apart agree; globs mean what their comment says.
* **Configuration, assembly, telemetry**: code before environment before default,
  within the limits; one service name; no update missed by a sampler; one
  telemetry worker, with the flags of the first tracer.
* **Mappings**: the agent sees the names the sampler decided on, and each tag from
  the strongest place that has it.
* **Propagation**: trace, decision, origin and last span survive the path, as far as
  headers have room for them.

## 2. State of the plan

Everything the first plan listed is built, except the composition of registry
and exporter (section 1 says why they meet in one call only). In order of
importance: registry; exporter with the abstract queue; shutdown; remote
configuration with the tracker; sampler with limiter, rates, globs and rules;
propagation; configuration, assembly and telemetry; mappings; labels. What could
be added is in section 8.

## 3. The modules and the code

Methods keep their names. A body that runs under one lock, or between two
awaits, is one step, cut where other threads can see a write. Variables called
history in a module are read by properties and bounds only.

| Module | Models | State and steps |
| --- | --- | --- |
| `TraceRegistry` | registry, `should_sample`, `on_start`, `on_end`, what `inject_context` reads, the collector's walk | `registry` is the union of the shards' maps, `metrics` the counters per shard; a span's `stage` says which of its calls were made: `should_sample_root/foreign/child`, `on_start_register`, `on_start_metadata`, `on_end` with the four outcomes of `finish_span`, `get_metrics_shard` |
| `ContextLabels` | observer and both writers of labels | per thread: the stack of contexts, the observer's step, labelset `v1` and record `v2`; `Attach`, `Detach`, `ReadRoot`, `write_labels`, while spans start and end |
| `SpanExporter` | sender, receiver, waiter, batch, worker, join and drop | `state` (the fields of `SharedState`), `threads`, `worker`, `exporter` (join handle and drop); `notify_all` is a step after the release of the mutex; timeouts and spurious wakeups are steps |
| `ExportQueue` | the promise of the exporter: a queue that accepts while open, delivers the oldest first, and closes for good | `pending`, `delivered`, `open` |
| `Shutdown` | `shutdown_with_timeout`, worker handles, the collector's loop | the caller's place in the order of workers and whether its time is over; per worker its stage, outcome, handle; the collector's channel and the points it moves |
| `RemoteConfig` | poll loop, `process_response`, the product handler, the override with its callback, telemetry's start | client state and cache, the worker's place in response and file, the item of the rules, what sampler and telemetry were told |
| `ExtraServices` | the tracker of services | four mutexes' contents and holders; adds by exporter threads, drain by the poll |
| `Sampler` | `sample_root` with rule, limiter and rates; updates of rules, rates, resource | a call's place and locals per thread; extends `RateLimiter`, whose steps are steps of the call |
| `RateLimiter` | token bucket and window counts | `limiter` is `RateLimiterState`; a request takes its time stamp, asks, is counted |
| `RateSampler` | hash and threshold of a rate | two services look at one trace after the other, of all identifiers |
| `GlobMatcher` | the byte loop and the cache | a call's four indices per thread, the cache in the order of use |
| `RuleMatching` | matchers of a rule and the loop over its tags | the tags left in any order, the verdict |
| `OtelUtil`, `SpanMapping` | the conversion of a span, with what the tracer adds | each place tags come from is a step; the resource's attributes come in any order |
| `Propagation` | extraction, styles, local root, injection with its lengths, services of other vendors | the headers under way, the service that has them, what it found and injects |
| `Configuration` | sources, items, builder, `build`, resource and service name | environment, the builder's items, built configurations, reported errors |
| `TracerAssembly` | `make_tracer` and what the threads it starts do meanwhile | each tracer's step, its client, the callback's slot, the service telemetry was started for |
| `Telemetry` | the cell, its mutex, flags, logs, points, reports | cell, mutex, each thread's call, the messages the worker took |
| `Sums` | the sum of a function over a set, as the number of its units, without recursion | used by the counters' properties |

Abstracted: the contents of spans in the registry and the exporter; in the
registry the local decision is any member of `Priorities`; texts are members of
small sets and tuples of parts, a header that does not parse is one value (of the
W3C headers one with a part that is refused), `Chars` says how long a text is and texts
change on the way into a tracestate by a table; span links are a set; rules
are known by the services they match where the cascade behind that is not the
question (`RuleMatching` has it); trace identifiers by the part of the hash's
range they fall in (`RateSampler` has the hash); rates, intervals and halves of
numbers are integers; the rounding of the limiter's division is either way
(`TokensToAdd`). The agent, its client library and the telemetry worker are
external and modelled by how the code uses them: they answer anything, refuse,
fail to build, panic, or do not answer.

Assumed: tracing is enabled in `TraceRegistry`; a span that `on_start` skips never
reaches `on_end`; a mutex is never poisoned; trace flags set by the SDK are the
sampled flag or none.

`MC` modules give the constants their values. Five of them run several modules in
one model: a variable (`part` or `setting`) chosen in the initial state says
which part moves in a behaviour, the rest stays still, and the properties of a
part are about its own variables.

## 4. The runs

| Run | Module | What it checks | Instance |
| --- | --- | --- | --- |
| `registry` | `MCTraceRegistry` | counts, order, export once, decisions, counters; labels | *registry*: up to three spans of announced roots in two traces and shards with a round of the collector, or four spans of one trace with two roots of any kind, partial flush from three; *labels*: two threads, five spans, three attaches |
| `exporter_safety` | `MCSpanExporter` | conservation, drain, bound, counters, resource, refinement | two threads, chunks of one, two, three spans, two resources, both failures |
| `exporter_liveness` | `MCSpanExporter` | shutdown completes, flushes are served, calls return | two threads, two chunks, both failures |
| `remote_config` | `MCRemoteConfig` | sampler and telemetry follow, the report is true, the worker ends; tracker | *client*: two polls of up to two of seven files; *tracker*: two exporters, a poll, limit 2 |
| `shutdown` | `Shutdown` | the answer is true, points are conserved, everything ends | three workers that may panic, two points |
| `sampling` | `MCSampler` | decisions, limiter, rates, globs | *updates*: two threads, two changes; *race* and *alone*: limit 2 in a window of 3; *rates*: 2^10 identifiers and nine rates each; *globs*: patterns and subjects of up to four characters; *cache*: two threads, two entries |
| `assembly` | `MCAssembly` | configuration, assembly, telemetry | *sources*: each variable with each text and each call; *builds*: two builds, two calls; *tracers*: two, with two updates; *telemetry*: three threads |
| `mapping` | `MCSpanMapping` | conversion, rules | *spans*: three families of spans (names, tags, errors); *rules*: spans of up to three attributes |
| `propagation` | `MCPropagation` | trace, decision, origin, parent; styles agree | 26 headers, eleven configurations, three hops, a `dd` member of less than 256 characters |
| `registry_shared_chunk` | `MCTraceRegistry` | a disagreement, section 7 | one trace, three spans |
| `exporter_join` | `MCSpanExporter` | a disagreement, section 7 | two threads |
| `limiter_starves` | `RateLimiter` | a disagreement, section 7 | one thread, limit 1 |

**What the passing runs show.**

* `registry`: a span that ended is in exactly one place (`ExactlyOnce`), the root
  first (`RootFirst`); the count never exceeds the spans still to end, finished
  spans wait only while a span is awaited, and with one announced root it is exact
  (`OpenCountExact`), as is the metadata (`ActiveMetadataExact`); flag, injected
  priority and exported decision agree (`DecisionsAgree`), and no race replaces a
  decision (`DecisionPinned`). The collector's walk keeps all sums
  (`MetricsConserved`). A thread publishes its current span or none, in both
  formats (`LabelsDescribeCurrent`).
* `exporter_safety`, `exporter_liveness`: nothing is lost, repeated or reordered;
  the exporter implements `ExportQueue`; no interleaving of flags, notifications,
  timeouts and failures leaves a caller or a flush waiting.
* `remote_config`: wherever files are rejected and the poll is dropped, the
  sampler has the rules in force (`SamplerFollowsConfig`); telemetry was told of
  them unless the update came while it was starting (`TelemetryFollowsConfig`); the
  next request reports what the response did (`ResponseRecorded`); a cancelled
  worker ends (`CancelEnds`); a service is queued once and never again, and the
  limit is kept (`TrackerExact`).
* `shutdown`: `AnswerIsTrue`, `PointsConserved`, `ShutdownEnds`, for workers that
  end, fail, panic or are slow, and whatever the call has given up on.
* `sampling`: a decision can be explained from one moment of rules and rates and
  by its tags, and tokens are spent for kept traces (`DecisionExplained`); the
  state of the limiter stays sound with two threads (`LimiterSound`), one thread
  gets no more than the bucket (`OneThreadBounded`); the higher rate keeps what
  the lower keeps, and its share (`RatesAgree`); loop and cache decide the
  language of globs (`GlobsDecided`).
* `assembly`: `ConfiguredAsAsked` (precedence, limits, errors, builds, one service
  name), `AssembledInOrder`, `FirstTracerOwns`, `ErrorsReported`.
* `mapping`: `SpanConverted` and `RuleDecided`, in every order of the maps.
* `propagation`: `TracePropagated` and `HeadersAgree`, from headers that are contradictory
  or malformed too, along paths with services of other vendors, lost headers, and
  origins, last spans and tags that do not fit. An origin is lost only if it is too
  long for a tracestate, a last span only behind an origin that leaves it no room. A
  vendor that changes the flag may forward the headers of Datadog (`torn`): the two
  styles then say different things, and no claim is made about the decision.

**Bounds.** Four spans of one trace give two roots each ending first with a child
open on either side, and a partial flush of three that is or is not the end of
the trace; two shards are the least for the walk to be split, and shards share
nothing. For the exporter `FlushThreshold = 1` and `MaxBufferedSpans = 2` replace
3000 and 10 000: chunks of one, two and three spans are below, at and over both
limits; two threads let one caller block while another sets a flag, joins or
times out. Two files are the least for one to be applied and the next to fail,
two polls for what one left to be reported by the next. Two points put one in
the collector's hands while another is counted. The limiter's two tokens in
three ticks make the division round and six ticks roll the window twice.
Patterns of four characters hold two stars with something between; the matcher
looks at one star at a time. Two updates for each of two tracers meet each step
of the assembly. Three hops are the least for what the first service decided to
be read by one that did not get it from the first. The lengths of texts (`TextLengths`)
are the real ones but for four that stand for longer texts: beside them there is no
room in 256 characters for the origin, the last span, the tags or one of two tags. `MaxCalls`, `MaxMatches`, `MaxChanges`,
`MaxAttaches`, `MaxCodeCalls`, `MaxBuilds`, `MaxCollections`, `MaxResources`,
`MaxAdds`, `MaxRounds`, `Updates` bound calls; `Bounded` in two MC modules bounds the instances explored.

**Symmetry** of threads is used in `exporter_safety` and of spans in
`registry_shared_chunk`; in no run with liveness.

**Deadlock** is not checked: an application may stop creating spans or calling
anything, calls are bounded, and a conversion ends, so every instance ends in
states without a successor. `CallsReturn`, `ShutdownCompletes`, `CancelEnds` and
`ShutdownEnds` say what must not get stuck.

**Fairness.** Stated where liveness is claimed, and nowhere else.

* `SpanExporter!FairSpec`: the worker thread, a thread inside a call and the end of
  a drop continue when they can. These are OS threads that no lock keeps out for
  ever: critical sections are finite, and the agent client's calls return (they
  carry timeouts). Nothing is assumed of timeouts or spurious wakeups, so a lost
  wakeup shows instead of being repaired by a timer.
* `RemoteConfig!FairSpec`: the thread runs (`Synchronous`), its timer fires
  (`build_request`), a connection stands or fails (it has a timeout), and the
  cancellation is seen: strongly fair, because the `select` looks at the token
  whenever the task is polled, at each of the awaits the loop keeps coming to.
  Nothing is assumed of the agent's answer.
* `Shutdown!FairSpec`: the caller, the clock and the collector go on, and a worker
  that was told stops, which is what the two component models show of theirs.
  Nobody is assumed to call shutdown.

Every property of a passing run has at least one mutant in `PROJECT.json`: a
plausible bug in one definition under which TLC finds the property violated.
They are kept next to the definition they change and are not used by the
specification.

## 5. What is not in the properties

Two behaviours are in the models without a claim of their own. A foreign root
makes `register_local_root_span` create the entry without counting a segment or
a span, so the balance in `MetricsConserved` is stated for announced roots. A
child that starts after its trace was exported opens a new entry without a
decision; its chunk is exported without priority, which is why `DecisionsAgree`
speaks of local roots there.

## 6. What is proved

All theorems hold for every value of the constants that satisfies the module's
assumption (types, ranges of bounds, sentinels that are no values): any number
of threads, spans, chunks, files, tracers.

**TraceRegistryProofs.** `TypeCorrect`, `EndedSpansExactlyOnce`, `LocalRootFirst`,
`DecisionNeverChanges`. The invariant is `Located`: `TypeOK`, `ExactlyOnce` and
`RootFirst` together. None is inductive alone: that an ended span is new to the
vector it enters needs `ExactlyOnce` (the stages), and the swap that brings the root
to the front keeps it there only because the vector holds it at most once. One
lemma on `PushFinished`, one for each of the four outcomes of `finish_span`, one
step per action.

`CountIsExact`, `MetadataIsExact`, `OneDecision`, `OneRootChunksComplete` and
`PointsAreConserved` rest on two more invariants. `AccountInv` adds to `Located`, for
each trace, what its entry says of the spans that are still to end: `Counted`
(the count never exceeds them, is exact with one announced root, and finished
spans wait only while one is awaited), `Observed` (metadata) and `Decided` (flags,
priority and origin); and the decision on every chunk exported. The parts need
each other: an entry is removed at count 0, so what the metadata and the
injected priority are after the last end follows from the count. Each action is
shown to touch one span and one entry (`Touches`, `Keeps`, `Stays`, `Goes`), and the
lemmas about awaited spans do the rest. `OneRootChunksComplete` is the part of
the comment refuted by `registry_shared_chunk` that is true: with one announced
root, and without partial flushes, a chunk is complete.
`MeterInv` adds to `AccountInv` the sums of `MetricsConserved`: every step has an
`Effect`, one record of increments by which the points, the ended spans, the chunks
and the entries change alike.

Its last part is about `ContextLabels`: `LabelsAreCurrent`. A thread reads the root, and later the route,
of a span that other threads may end meanwhile. `LabelsInv` says, of the spans, that
the registry has exactly the open ones (`OpenRegistered`); of each thread, that a
root it has read is that of the trace as long as the span is open, that a switch
under way is to a span that is shown, and that there is no record before the first
labelset (`Follows`); and of each thread between two switches what the property
claims (`Described`). Starts and ends preserve it because a trace that has an open
span keeps its root (`RootsStay`).

**FiniteLemmas** has what these and the exporter's counters rest on: induction
over finite sets, stated with a set of good sets in place of a predicate, and
how `SumOf` changes when an element is added or its value changes.

**SpanExporterProofs.** `ExporterInv` is `TypeOK`, `FifoConserved`, `BufferBounded`,
`ShutdownMeansEnded` and three parts no run names: `HandsEmpty` (the worker holds
chunks only between `Grab` and `run`, or after a panic), `OutcomeAtEnd` (the outcome
changes only on the way out) and `OwedInHand` (once a shutdown was received, the
chunks accepted before the request are handled or in the worker's hands).
`ShutdownSendsWhatIsOwed` is `OwedInHand` at the end of the worker.
`ExporterImplementsQueue` shows `Spec => Queue!Spec`: accepting appends, `Grab` is a
stutter, `run` is `Deliver` of the length of the worker's data, `shutdown_done` is
`Close`, everything else stutters. `FlushUsesResource` needs `LatestOnItsWay`: the
latest resource waits in the shared state, is in the worker's message, or is the
one the worker maps with; a worker with such a message holds no chunks.
`EverySpanIsCounted` (`CounterInv`) follows the spans of a chunk into the batch or the
refused, and the counters through the collector's reads.

**RemoteConfigProofs.** `SamplerIsUpToDate`, `TelemetryIsUpToDate`, `OnlyListed`,
`ResponsesRecorded`, and for the tracker `TrackerIsExact`. The
invariants say, stage by stage of an update, which of override, sampler and
telemetry have the new rules (`SamplerInv`, `TelemetryInv`); a drop of the poll is
harmless because no await lies between those stages. `ListedInv` keeps the worker
at a file its response lists while it is applied. `RecordInv` says it of the
recorded state: at every stage of a response `StatesKept` and `CacheKept` give the
states and the cache as functions of the files handled so far, and `Progress`
keeps the worker's index within the response. In the tracker,
`Locked`: the thread about to queue a name
holds the mutex of the names sent, and its name is new; with it `EachOnce` is
inductive. `Counted` bounds the services, which needs that one is removed for
each that is added at the limit.

**SamplerProofs.** For the limiter `LimiterIsSound`, from the sum's and the counts'
bounds (`Counted`, with `Uniform` for the limits where all answers are the same), and
`OneThreadIsBounded`, from `Paid`: while one thread only has asked, tokens granted
and held, in ticks, never exceed the bucket and the time until the last update
(`Asked` ties the threads that are anywhere in a call to those that ever asked).
`SamplerUsesLimiter` shows that the sampler implements the limiter, which gives
`LimiterSoundInSampler` and `OneThreadBoundedInSampler`.
`DecisionsAreExplained`: `CallOf` says, at each place of a call, that the rule it
found was the first match of rules in force since it began, that rate and
mechanism come from that rule or from rates in force, and what the limiter
answered; `Spent` ties the limiter's tokens to the calls that took one. The
module assumes of rules and rates that they have the types of `SamplingRule` and
of a map to rates.
`RatesAreDecided` is about `RateSampler`, for identifiers of any width. `RatesAssumption`
says that the factor of the hash has an inverse, as an odd number has modulo a
power of two (`KNUTH_FACTOR` is odd). With it the hash is injective
(`HashInjective`) and reaches every value (`HashReaches`), so that as many halves are
at or below a threshold as there are numbers up to it (`HashesUpTo`), and a round of
identifiers keeps the share of the rate, up to one (`ShareOfRound`). `RatesInv` counts
what was kept in full rounds and in the one under way. The threshold grows with the
rate (`QuotientMonotone`), so the higher rate keeps more.

**AssemblyProofs.** `AssemblyIsOrdered`, for configurations with builders of
their own (`~OneBuilder`). `ResourceBefore`: a tracer that starts telemetry has its
resource; `Follows`: a client that runs has the callback of its own tracer, and
outside of an update the sampler has the rules of its configuration. For
telemetry `WorkerIsTheFirsts`: `OneInitialiser`: one thread at most runs
the initialiser, while the cell is `running`; `Started`: the worker has heard
nothing, or the configuration, the start and then only what the flags of that
configuration allow. `ErrorsAreReported` adds `Reported`: the logs sent, refused and
under way (`Reporting`, the threads between the check of the flag and the send)
bound those logged from both sides.
`ConfigurationIsAsAsked` is `ConfiguredAsAsked` for every environment, every call of
the setters and any number of builds and resources. `ConfigInv`: the items of the
builder are those its history `coded` gives (`ItemOf`), those of a configuration are
the ones of `coded` when it was built, except for its urls and its service
(`BuiltAs`), and the service is untouched until `set_resource`, and after it what
the first resolution named (`NamedAs`). `ResolvedTwice` is the lemma on
`create_dd_resource`: the second resolution, which is given the result of the first
and not OpenTelemetry's resource, finds the same names, because a service that no
one configured is the default and the default is not `unknown_service`. The types
that `ConfigAssumption` gives to texts and numbers are needed for the limits and for
an url that was made not to be taken for one that is not set.
`AnswersAreTrue`, `PointsAreConserved` are about `Shutdown`. `Waited`: the workers the
caller is past have ended without an error; `AnswerInv` ties result, deadline and
outcomes; `CollectorInv` says at which stages the collector holds points and that
the sum of all places is bounded.

**MappingProofs.** `RulesAreDecided`: `RuleInv` says of a rule under way which of its
tags were visited (`Visited`), that all of them but a last one that failed fit, and
that no other was; with `TagFits`, what one tag is compared with, the verdict is the
conjunction over all tags whatever their order. `EitherKey` needs of the table of
keys that what an attribute becomes stands for itself (`MappedToMapped`).
`SpansAreConverted`: `MappingInv` says after each of the nine steps what every tag has
from the places read so far, one definition for the tags that the semantics know
(`Known`, where the first value that is not empty stays) and one for any other
(`Other`, where the last stays). Both take what was read as parameters: sets of keys
of the resource, whose order then does not matter, and a prefix of the attributes
(`ReadInOrder`). A lemma per kind of step says how they grow. `AgentInv`, `MetricInv` and
`ErrorInv` do the same for names, priority and error; that the resource and the
scope cannot rename a span rests on `NotConvention`. `MappingAssumption` says that
attributes are a list and which keys `Tags` leaves out because other parts of the
conversion write them, `MatchingAssumption` that the keys of HTTP have their prefix.

Its last part is about `GlobMatcher`: `LoopAndCacheAgree` for any encoding of
characters, `GlobsAreDecided` where every character is one byte (with more bytes `?`
is not one character, section 7). `GlobRest` is a recursive function of two places; that there is such a function
(`RestExists`) is shown from the last places to the first, and `RestIs` is the rule
it obeys. `LoopInv` is the invariant of the loop: since the last star pattern and
subject went on in step and met no other, and the whole matches iff the rest does
or the rest the loop would come back to. Only a later star is hard (`LoopStar`):
whatever the earlier star could still take, the later one can take instead, as
what lies between the two has a fixed length (`NoStars`). The short cuts are
`StarMatchesAll`, `MatchesItself` and `OnlyItself`; the cache holds right entries only,
because entries are only moved and thrown out. The same induction over numbers
(`NumberInduction`) gives what `FlattenSeq` makes of the bytes (`FlattenTyped`,
`FlattenOnes`). `StringsHaveBytes` and `OneByteEach` are hypotheses of the theorems, which
`MCSampler` assumes of its strings.

**PropagationProofs.** `TraceIsPropagated` and `StylesFitTogether`, for any number of
services, configurations and tags, from `PropagationInv`. `ToldInv` is the story of
the trace wherever it is: what the headers of Datadog tell (`DatadogTells`), the
traceparent and the tracestate (`TraceparentTells`), the context found (`ContextTells`),
the one injected (`InjectTells`). Each tells the trace, the decision and, unless a
member of the tracestate is bad, origin and last span, weakened by what was lost:
tags cut off, an origin or a last span without room in the tracestate (`LongOrigin`,
`CrowdsParent`), a flag changed. `StylesInv` ties the headers made so far to the context
they are made from (`StateFits` for the tracestate), and `FoundInv` the context to the
headers, for the links and the mechanism (`Explained`). What
`resolve_contexts` computes is a recursive function of the places (`ResolvedIs`);
`ResolvedSoFar` is its invariant from place to place. The theorems rest on what
`PropagationAssumption` says of the first headers, the configurations and the
decisions: headers are records of the model's form, whatever they say, and a sampler's
mechanism makes its priority (`MadeBy`, as in `sampling.rs`). A sender whose mechanism
contradicts its priority is passed on as it is, as in the code, with one exception: the
flag overrules the tracestate and replaces its mechanism. So `MechanismMakesPriority`
says that the two fit, or arrived together in the headers of one style.

**Only model-checked.**

* Liveness and everything about fairness (`ShutdownCompletes`, `FlushServed`,
  `CallsReturn`, `CancelEnds`, `ShutdownEnds`): the provers have no rule for ENABLED.

Every other property of a passing run has a theorem. For two of them it has a
hypothesis the run does not need: `AssemblyIsOrdered` is for configurations with a builder
each, `GlobsAreDecided` for characters of one byte; section 7 has the cases beyond.

## 7. Where code and comments disagree

Three have a run in which TLC finds the comment refuted:

| Run | What TLC shows |
| --- | --- |
| `registry_shared_chunk` | A second local root with the same trace id is not counted (`span_processor.rs` 98): the end of the first exports the chunk while the second is open |
| `exporter_join` | The errors of an expired wait and of a poisoned mutex are exchanged (`span_exporter.rs` 476), so a timed-out shutdown joins the worker without a bound |
| `limiter_starves` | `last_update` moves although no token was added (`rate_limiter.rs` 178): requests that come faster than tokens keep the bucket empty for ever |

The others are behaviours of the models, without a run of their own; the
properties are stated so as not to claim what they refute.

* A last span that triggers a partial flush leaves an entry with count 0 that
  nothing removes (`span_processor.rs` 227; line 310 speaks of running traces).
* The expired wait of the worker flushes without looking at `set_resource`
  (`span_exporter.rs` 534): chunks accepted after it are mapped with the old one.
* A chunk accepted between the worker's last batch and its end is answered Ok and
  never sent (`span_exporter.rs` 417; 150-153 say it is buffered until a shutdown).
* `shutdown_with_timeout` returns at the first worker that fails, with time left,
  and does not wait for the others (`span_processor.rs` 719).
* An error of `update_sampling_rules_from_remote` is logged and the file is reported
  as applied (`remote_config.rs` 805, 689, 699).
* The client's timeout is for the connection only (`remote_config.rs` 468): an agent
  that does not answer stops the polls until the shutdown.
* `get_configuration` loads the override twice (`configuration.rs` 429): a report of
  telemetry may name the local rules with the origin of remote configuration.
* Configurations of one builder share the slot of the callback
  (`configuration.rs` 846): the tracer made last gets the updates of the other.
* A thread whose time stamp is earlier may replenish last (`rate_limiter.rs` 97):
  together two threads can be granted more than the rate.
* The effective rate is cast to an integer (`datadog_sampler.rs` 425), so that
  `_dd.limit_psr` is 0 below 1; a rule's rate beyond 0 and 1 is reported as
  configured (417); integers beyond 2^53 are matched by the text of a neighbour
  (`dd-trace-sampling/src/utils.rs` 23).
* A question mark stands for one byte (`glob_matcher.rs` 88).
* An extracted context with a deferred decision that is injected without a local
  span is passed on as rejected (`text_map_propagator.rs` 98).
* The labelset keeps the route of an earlier span (`custom_labels_writer.rs` 75); a
  remote context that is attached is published as a local root (`observer.rs` 51).
* Telemetry that is disabled is started, and told its configuration
  (`telemetry.rs` 193).
* `configuration.rs` 777-778 says that `DD_ENV` and `DD_VERSION` override `env` and
  `version` of `DD_TAGS`. `DD_ENV` is put into the resource as
  `deployment.environment.name` (`lib.rs` 460-467), the tags into the configuration, and
  `ddtrace_transform.rs` 71-75 writes the tags of the configuration over those of the
  resource: `env` of `DD_TAGS` wins. A `version` of `DD_TAGS` stays on the spans of other
  services than the configured one. `MetaTagPrecedence` allows either value for these two tags.
* Of two attributes of the resource that become one tag, the order of a hash map
  decides which counts (`ddtrace_transform.rs`); the properties allow either.
* An origin that does not fit into the tracestate is left out while the header of
  Datadog keeps it, and so is the last span behind it (`tracecontext.rs` 201-222, as the
  tests at 755-786 and 828-854 want it).

## 8. Not modelled

* The agent, its client library, the telemetry worker and OpenTelemetry's SDK,
  except as section 3 says.
* Installation of the global provider and propagator, publication of the process
  context, the generator of random trace identifiers: one call each, without
  state of this code. `LoggingContextWriter` only prints. `HashMapSource` is used by
  tests only. `stop_telemetry` has no caller. Benches, tests and examples.
* The limit of 31 members of a tracestate. Texts of headers
  that the tables and `Chars` do not name are 16 digits.
* Identifiers, times, links and events of a converted span are copied by the code;
  the tables of semantic conventions are modelled by the keys the properties tell
  apart.
* Intervals that are NaN or infinite. Signatures and hashes of remote
  configuration, which the code does not check either.
* Liveness of the tracker, the assembly, telemetry and the glob loop. Poisoned
  mutexes. Registry and exporter in one model.
