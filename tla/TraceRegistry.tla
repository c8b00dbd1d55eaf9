---------------------------- MODULE TraceRegistry ----------------------------
(***************************************************************************)
(* The registry of running traces of datadog-opentelemetry                 *)
(* (src/datadog-opentelemetry/src/span_processor.rs) together with its     *)
(* three callers: the sampler (should_sample), the span processor          *)
(* (on_start, on_end) and the telemetry collector (get_metrics).           *)
(*                                                                         *)
(* Every registry method takes the lock of one shard for its whole body,   *)
(* so each method is one atomic step.  A span goes through several such    *)
(* steps, and the steps of different spans (application threads)           *)
(* interleave freely between them:                                         *)
(*                                                                         *)
(*   unborn --should_sample--> sampled --on_start (register)--> registered *)
(*          --on_start (metadata)--> started --on_end--> ended             *)
(***************************************************************************)
EXTENDS Integers, Sequences, FiniteSets, Sums

CONSTANTS
  Traces,                 \* trace ids
  Spans,                  \* span ids; each is used for at most one span
  NoSpan,                 \* the all-zero span id [0; 8]
  NoTrace,                \* trace id of a span that does not exist yet
  NoPriority,             \* sampling priority None
  Priorities,             \* the sampling priorities a decision may carry
  ParentKinds,            \* the kinds of parent context local roots have here
  MaxRoots,               \* bound: local roots that may share one trace id
  NumShards, ShardOf,     \* number of shards; the shard each trace hashes to
  PartialFlushEnabled,    \* config.trace_partial_flush_enabled()
  PartialFlushMinSpans,   \* config.trace_partial_flush_min_spans()
  MaxCollections          \* bound: rounds of the telemetry collector

\* What the parent context of a local root span can be: absent, a remote one
\* with an extracted sampling priority, a remote one whose decision is
\* deferred, or a remote one that no Datadog extractor produced.
RootParents == {"none", "remote", "deferred", "foreign"}

ASSUME RegistryAssumption ==
  /\ NoSpan \notin Spans
  /\ NoTrace \notin Traces
  /\ Priorities \subseteq Int
  /\ NoPriority \notin Int
  /\ ParentKinds \subseteq RootParents
  /\ MaxRoots \in Nat
  /\ NumShards \in Nat \ {0}
  /\ ShardOf \in [Traces -> 1..NumShards]
  /\ PartialFlushEnabled \in BOOLEAN
  /\ PartialFlushMinSpans \in Nat
  /\ MaxCollections \in Nat

VARIABLES
  registry,   \* the hash maps of all shards: trace id -> Trace
  metrics,    \* shard -> TraceRegistryMetrics
  spans,      \* span id -> what the OpenTelemetry SDK knows of the span
  exported,   \* trace chunks handed to the span exporter by on_end
  collector   \* the telemetry collector's walk over the shards

vars == <<registry, metrics, spans, exported, collector>>

Shards == 1..NumShards

-----------------------------------------------------------------------------
(* Data types *)

PropagationData == [priority : Priorities \cup {NoPriority}, origin : BOOLEAN]

\* No decision, no origin, no tags.
EMPTY_PROPAGATION_DATA == [priority |-> NoPriority, origin |-> FALSE]

Trace == [local_root_span_id : Spans \cup {NoSpan},
          finished_spans     : Seq(Spans),
          open_span_count    : Nat,
          propagation_data   : PropagationData,
          active_spans       : SUBSET Spans]

\* A chunk as on_end exports it: the finished spans of a Trace and the data
\* that add_trace_propagation_data stamps on them.
Chunk == [trace              : Traces,
          local_root_span_id : Spans \cup {NoSpan},
          finished_spans     : Seq(Spans),
          propagation_data   : PropagationData]

Metrics == [spans_created : Nat, spans_finished : Nat,
            trace_segments_created : Nat, trace_segments_closed : Nat,
            trace_partial_flush_count : Nat]

NoMetrics == [spans_created |-> 0, spans_finished |-> 0,
              trace_segments_created |-> 0, trace_segments_closed |-> 0,
              trace_partial_flush_count |-> 0]

AddMetrics(m, n) ==
  [spans_created             |-> m.spans_created + n.spans_created,
   spans_finished            |-> m.spans_finished + n.spans_finished,
   trace_segments_created    |-> m.trace_segments_created + n.trace_segments_created,
   trace_segments_closed     |-> m.trace_segments_closed + n.trace_segments_closed,
   trace_partial_flush_count |-> m.trace_partial_flush_count + n.trace_partial_flush_count]

Stages == {"unborn", "sampled", "registered", "started", "ended"}

\* stage, the trace it belongs to, the kind of its parent context ("local"
\* when the parent is a span of this process) and its sampled flag.
Span == [stage : Stages, trace : Traces \cup {NoTrace},
         parent : RootParents \cup {"local"}, sampled : BOOLEAN]

Collector == [shard : 1..NumShards, stats : Metrics, emitted : Metrics, rounds : Nat]

is_keep(priority) == priority > 0

-----------------------------------------------------------------------------
(* The hash map *)

Registered(t) == t \in DOMAIN registry

\* registry with t bound to trace (an occupied entry is overwritten).
Insert(t, trace) == [u \in DOMAIN registry \cup {t} |-> IF u = t THEN trace ELSE registry[u]]

Remove(t) == [u \in DOMAIN registry \ {t} |-> registry[u]]

NewTrace(root, open, prop) ==
  [local_root_span_id |-> root, finished_spans |-> <<>>, open_span_count |-> open,
   propagation_data |-> prop, active_spans |-> {}]

Count(t, delta) == metrics' = [metrics EXCEPT ![ShardOf[t]] = AddMetrics(@, delta)]

-----------------------------------------------------------------------------
(* Sampling: Sampler::should_sample and its registry call *)

\* Mutant: the decision that comes last wins.
DecisionOverwritten(t, prop) ==
  \/ /\ Registered(t)
     /\ registry' = [registry EXCEPT ![t].propagation_data = prop]
     /\ UNCHANGED metrics
  \/ /\ ~Registered(t)
     /\ registry' = Insert(t, NewTrace(NoSpan, 1, prop))
     /\ Count(t, [NoMetrics EXCEPT !.trace_segments_created = 1, !.spans_created = 1])

\* The registry keeps a decision it already has; it replaces the data of an
\* entry that has none; a vacant entry starts with the local root counted as
\* open although that span has not started.
register_local_root_trace_propagation_data(t, prop) ==
  \/ /\ Registered(t)
     /\ registry[t].propagation_data.priority # NoPriority
     /\ UNCHANGED <<registry, metrics>>
  \/ /\ Registered(t)
     /\ registry[t].propagation_data.priority = NoPriority
     /\ registry' = [registry EXCEPT ![t].propagation_data = prop]
     /\ UNCHANGED metrics
  \/ /\ ~Registered(t)
     /\ registry' = Insert(t, NewTrace(NoSpan, 1, prop))
     /\ Count(t, [NoMetrics EXCEPT !.trace_segments_created = 1, !.spans_created = 1])

\* The decision the registration answers with: the existing one, else the new one.
RegisteredPriority(t, prop) ==
  IF Registered(t) /\ registry[t].propagation_data.priority # NoPriority
    THEN registry[t].propagation_data.priority
    ELSE prop.priority

Born(s, t, parent, sampled) ==
  spans' = [spans EXCEPT ![s] =
              [stage |-> "sampled", trace |-> t, parent |-> parent, sampled |-> sampled]]

LocalRoots(t) == {s \in Spans : spans[s].trace = t /\ spans[s].parent # "local"}

\* A trace id generated for a span without parent is new; a trace id that
\* comes in with a remote parent may already be in use in this process.
RootTraceId(t, parent) ==
  Cardinality(LocalRoots(t)) < (IF parent = "none" THEN 1 ELSE MaxRoots)

\* should_sample for a span without local parent.  The priority is the local
\* sampler's (no parent, or a deferred decision) or the extracted one
\* (remote); origin and tags are kept only from an extracted context.
should_sample_root(s, t, parent, priority) ==
  LET prop == [priority |-> priority, origin |-> parent # "none"]
  IN /\ spans[s].stage = "unborn"
     /\ parent # "foreign"
     /\ RootTraceId(t, parent)
     /\ register_local_root_trace_propagation_data(t, prop)
     /\ Born(s, t, parent, is_keep(RegisteredPriority(t, prop)))
     /\ UNCHANGED <<exported, collector>>

\* A remote parent without DatadogExtractData: the flag is inherited and
\* nothing is registered.
should_sample_foreign(s, t, sampled) ==
  /\ spans[s].stage = "unborn"
  /\ "foreign" \in ParentKinds
  /\ RootTraceId(t, "foreign")
  /\ Born(s, t, "foreign", sampled)
  /\ UNCHANGED <<registry, metrics, exported, collector>>

\* A local parent p, possibly one that has not started yet (the tracing
\* bridge starts spans when they close) or has already ended.
should_sample_child(s, p) ==
  /\ spans[s].stage = "unborn"
  /\ spans[p].stage # "unborn"
  /\ Born(s, spans[p].trace, "local", spans[p].sampled)
  /\ UNCHANGED <<registry, metrics, exported, collector>>

-----------------------------------------------------------------------------
(* DatadogSpanProcessor::on_start: two acquisitions of the shard's lock *)

\* Mutant: starting the local root counts it a second time.
RootCountedTwice(s, t) ==
  LET trace == IF Registered(t) THEN registry[t] ELSE NewTrace(NoSpan, 0, EMPTY_PROPAGATION_DATA)
  IN /\ registry' = Insert(t, [trace EXCEPT !.local_root_span_id = IF @ = NoSpan THEN s ELSE @,
                                            !.open_span_count = @ + 1])
     /\ UNCHANGED metrics

\* Mutant: starting the local root replaces the entry the sampler made.
RootReplacesEntry(s, t) ==
  /\ registry' = Insert(t, NewTrace(s, 1, EMPTY_PROPAGATION_DATA))
  /\ UNCHANGED metrics

register_local_root_span(s, t) ==
  LET trace == IF Registered(t) THEN registry[t] ELSE NewTrace(NoSpan, 1, EMPTY_PROPAGATION_DATA)
  IN /\ registry' = Insert(t, IF trace.local_root_span_id = NoSpan
                                THEN [trace EXCEPT !.local_root_span_id = s]
                                ELSE trace)
     /\ UNCHANGED metrics

\* Mutant: a span of a trace that already runs is not counted.
OnlyFirstSpanCounted(s, t) ==
  /\ registry' = IF Registered(t) THEN registry ELSE Insert(t, NewTrace(s, 1, EMPTY_PROPAGATION_DATA))
  /\ Count(t, [NoMetrics EXCEPT !.spans_created = 1,
                                !.trace_segments_created = IF Registered(t) THEN 0 ELSE 1])

register_span(s, t) ==
  LET trace == IF Registered(t) THEN registry[t] ELSE NewTrace(s, 0, EMPTY_PROPAGATION_DATA)
  IN /\ registry' = Insert(t, [trace EXCEPT !.open_span_count = @ + 1])
     /\ Count(t, [NoMetrics EXCEPT !.spans_created = 1,
                                   !.trace_segments_created = IF Registered(t) THEN 0 ELSE 1])

on_start_register(s) ==
  /\ spans[s].stage = "sampled"
  /\ IF spans[s].parent = "local"
       THEN register_span(s, spans[s].trace)
       ELSE register_local_root_span(s, spans[s].trace)
  /\ spans' = [spans EXCEPT ![s].stage = "registered"]
  /\ UNCHANGED <<exported, collector>>

\* The metadata is dropped when the trace is gone by now.
set_active_span_metadata(s, t) ==
  registry' = IF Registered(t)
                THEN [registry EXCEPT ![t].active_spans = @ \cup {s}]
                ELSE registry

on_start_metadata(s) ==
  /\ spans[s].stage = "registered"
  /\ set_active_span_metadata(s, spans[s].trace)
  /\ spans' = [spans EXCEPT ![s].stage = "started"]
  /\ UNCHANGED <<metrics, exported, collector>>

-----------------------------------------------------------------------------
(* DatadogSpanProcessor::on_end and InnerTraceRegistry::finish_span *)

\* Mutant: the local root stays where it finished.
RootAppended(finished, root, s) == Append(finished, s)

\* Mutant: the local root replaces the first span, which is lost.
FirstSpanLost(finished, root, s) ==
  IF finished # <<>> /\ s = root THEN [finished EXCEPT ![1] = s] ELSE Append(finished, s)

\* The local root takes the first place of a non-empty vector and the span
\* that was there moves to the end.
PushFinished(finished, root, s) ==
  IF finished # <<>> /\ s = root
    THEN Append([finished EXCEPT ![1] = s], finished[1])
    ELSE Append(finished, s)

\* Mutant: the count goes below zero.
PlainPred(n) == n - 1

SaturatingPred(n) == IF n > 0 THEN n - 1 ELSE 0

\* Mutant: the metadata of a finished span is kept.
MetadataKept(trace, s) ==
  [trace EXCEPT !.finished_spans = PushFinished(@, trace.local_root_span_id, s),
                !.open_span_count = SaturatingPred(@)]

\* The entry once the span is recorded, before any flush.
FinishedTrace(trace, s) ==
  [trace EXCEPT !.active_spans = @ \ {s},
                !.finished_spans = PushFinished(@, trace.local_root_span_id, s),
                !.open_span_count = SaturatingPred(@)]

ChunkOf(t, trace) ==
  [trace |-> t, local_root_span_id |-> trace.local_root_span_id,
   finished_spans |-> trace.finished_spans, propagation_data |-> trace.propagation_data]

PartialFlush(trace) ==
  PartialFlushEnabled /\ Len(trace.finished_spans) >= PartialFlushMinSpans

\* Mutant: the flushed spans stay in the entry.
FlushedSpansKept(s, t) ==
  LET trace == FinishedTrace(registry[t], s)
  IN /\ Registered(t)
     /\ PartialFlush(trace)
     /\ registry' = [registry EXCEPT ![t] = trace]
     /\ Count(t, [NoMetrics EXCEPT !.spans_finished = 1, !.trace_partial_flush_count = 1])
     /\ exported' = exported \cup {ChunkOf(t, trace)}

finish_span_partial_flush(s, t) ==
  LET trace == FinishedTrace(registry[t], s)
  IN /\ Registered(t)
     /\ PartialFlush(trace)
     /\ registry' = [registry EXCEPT ![t] = [trace EXCEPT !.finished_spans = <<>>]]
     /\ Count(t, [NoMetrics EXCEPT !.spans_finished = 1, !.trace_partial_flush_count = 1])
     /\ exported' = exported \cup {ChunkOf(t, trace)}

finish_span_last(s, t) ==
  LET trace == FinishedTrace(registry[t], s)
  IN /\ Registered(t)
     /\ ~PartialFlush(trace)
     /\ trace.open_span_count = 0
     /\ registry' = Remove(t)
     /\ Count(t, [NoMetrics EXCEPT !.spans_finished = 1, !.trace_segments_closed = 1])
     /\ exported' = exported \cup {ChunkOf(t, trace)}

finish_span_keep(s, t) ==
  LET trace == FinishedTrace(registry[t], s)
  IN /\ Registered(t)
     /\ ~PartialFlush(trace)
     /\ trace.open_span_count # 0
     /\ registry' = [registry EXCEPT ![t] = trace]
     /\ Count(t, [NoMetrics EXCEPT !.spans_finished = 1])
     /\ UNCHANGED exported

\* "if we somehow don't have the trace registered, we just flush the span"
finish_span_orphan(s, t) ==
  /\ ~Registered(t)
  /\ Count(t, [NoMetrics EXCEPT !.spans_finished = 1, !.trace_segments_created = 1,
                                !.trace_segments_closed = 1])
  /\ exported' = exported \cup
       {[trace |-> t, local_root_span_id |-> s, finished_spans |-> <<s>>,
         propagation_data |-> EMPTY_PROPAGATION_DATA]}
  /\ UNCHANGED registry

finish_span(s, t) ==
  \/ finish_span_partial_flush(s, t)
  \/ finish_span_last(s, t)
  \/ finish_span_keep(s, t)
  \/ finish_span_orphan(s, t)

on_end(s) ==
  /\ spans[s].stage = "started"
  /\ finish_span(s, spans[s].trace)
  /\ spans' = [spans EXCEPT ![s].stage = "ended"]
  /\ UNCHANGED collector

-----------------------------------------------------------------------------
(* TraceRegistry::get_metrics, called by the telemetry collector: the shards *)
(* are locked one after the other, each one's counters are taken.            *)

\* Mutant: the total of a round is taken from the last shard alone.
LastShardOnly ==
  LET i == collector.shard
  IN /\ collector.rounds < MaxCollections
     /\ metrics' = [metrics EXCEPT ![i] = NoMetrics]
     /\ collector' =
          IF i < NumShards
            THEN [collector EXCEPT !.shard = i + 1, !.stats = metrics[i]]
            ELSE [shard |-> 1, stats |-> NoMetrics, rounds |-> collector.rounds + 1,
                  emitted |-> AddMetrics(collector.emitted, metrics[i])]
     /\ UNCHANGED <<registry, spans, exported>>

get_metrics_shard ==
  LET i     == collector.shard
      stats == AddMetrics(collector.stats, metrics[i])
  IN /\ collector.rounds < MaxCollections
     /\ metrics' = [metrics EXCEPT ![i] = NoMetrics]
     /\ collector' =
          IF i < NumShards
            THEN [collector EXCEPT !.shard = i + 1, !.stats = stats]
            ELSE [shard |-> 1, stats |-> NoMetrics, rounds |-> collector.rounds + 1,
                  emitted |-> AddMetrics(collector.emitted, stats)]
     /\ UNCHANGED <<registry, spans, exported>>

-----------------------------------------------------------------------------
(* DatadogPropagator::inject_context: what an outgoing request is told *)

get_trace_propagation_data(t) ==
  IF Registered(t) THEN registry[t].propagation_data ELSE EMPTY_PROPAGATION_DATA

\* Mutant: a trace without decision is always propagated as kept.
InjectAlwaysKeeps(s) ==
  LET decided == get_trace_propagation_data(spans[s].trace).priority
  IN IF decided # NoPriority THEN decided ELSE 1

\* The decision of the trace, or AUTO_KEEP (1) / AUTO_REJECT (0) from the
\* flag of the active span when the trace has none.
InjectedPriority(s) ==
  LET decided == get_trace_propagation_data(spans[s].trace).priority
  IN IF decided # NoPriority THEN decided ELSE IF spans[s].sampled THEN 1 ELSE 0

-----------------------------------------------------------------------------

Init ==
  /\ registry = [t \in {} |-> NewTrace(NoSpan, 0, EMPTY_PROPAGATION_DATA)]
  /\ metrics = [i \in Shards |-> NoMetrics]
  /\ spans = [s \in Spans |-> [stage |-> "unborn", trace |-> NoTrace,
                               parent |-> "none", sampled |-> FALSE]]
  /\ exported = {}
  /\ collector = [shard |-> 1, stats |-> NoMetrics, emitted |-> NoMetrics, rounds |-> 0]

Next ==
  \/ \E s \in Spans, t \in Traces :
       \/ \E parent \in ParentKinds, p \in Priorities : should_sample_root(s, t, parent, p)
       \/ \E sampled \in BOOLEAN : should_sample_foreign(s, t, sampled)
  \/ \E s \in Spans, p \in Spans : should_sample_child(s, p)
  \/ \E s \in Spans : on_start_register(s) \/ on_start_metadata(s) \/ on_end(s)
  \/ get_metrics_shard

Spec == Init /\ [][Next]_vars

-----------------------------------------------------------------------------
(* Properties of every instance *)

TypeOK ==
  /\ DOMAIN registry \subseteq Traces
  /\ registry \in [DOMAIN registry -> Trace]
  /\ metrics \in [Shards -> Metrics]
  /\ spans \in [Spans -> Span]
  /\ \A s \in Spans : spans[s].stage # "unborn" => spans[s].trace \in Traces
  /\ exported \subseteq Chunk
  /\ collector \in Collector

\* The spans in a finished-spans vector.
InVector(vector) == {vector[i] : i \in DOMAIN vector}

Distinct(vector) == \A i, j \in DOMAIN vector : vector[i] = vector[j] => i = j

\* "Root span will always be the first span in this vector if it is present":
\* in the entry of a running trace and in every exported chunk, whatever order
\* the spans of the trace ended in (the swap in finish_span).
RootFirst ==
  /\ \A t \in DOMAIN registry :
       registry[t].local_root_span_id \in InVector(registry[t].finished_spans)
         => registry[t].finished_spans[1] = registry[t].local_root_span_id
  /\ \A c \in exported :
       c.local_root_span_id \in InVector(c.finished_spans)
         => c.finished_spans[1] = c.local_root_span_id

\* Only ended spans of the trace are in its vector, each one once.
VectorOf(t, vector) ==
  /\ Distinct(vector)
  /\ \A s \in InVector(vector) : spans[s].stage = "ended" /\ spans[s].trace = t

\* A span that ended is in exactly one place, once: waiting in the entry of
\* its trace, or in one exported chunk.  No path of finish_span loses a span
\* (the displaced first span, a flush, a trace that is not registered) or
\* exports it twice.
ExactlyOnce ==
  /\ \A t \in DOMAIN registry : VectorOf(t, registry[t].finished_spans)
  /\ \A c \in exported : VectorOf(c.trace, c.finished_spans)
  /\ \A t \in DOMAIN registry, c \in exported :
       InVector(registry[t].finished_spans) \cap InVector(c.finished_spans) = {}
  /\ \A c, d \in exported :
       c # d => InVector(c.finished_spans) \cap InVector(d.finished_spans) = {}
  /\ \A s \in Spans : spans[s].stage = "ended" =>
       \/ \E t \in DOMAIN registry : s \in InVector(registry[t].finished_spans)
       \/ \E c \in exported : s \in InVector(c.finished_spans)

\* The spans a trace waits for: the ones registered and not ended, and the
\* local roots the sampler announced.
Awaited(t) ==
  {s \in Spans : /\ spans[s].trace = t
                 /\ \/ spans[s].stage \in {"registered", "started"}
                    \/ spans[s].stage = "sampled" /\ spans[s].parent \notin {"local", "foreign"}}

\* The trace has at most one local root, which should_sample announced.
AnnouncedOnce(t) ==
  LET roots == {s \in Spans : spans[s].trace = t /\ spans[s].parent # "local"}
  IN Cardinality(roots) <= 1 /\ \A s \in roots : spans[s].parent # "foreign"

\* Finished spans wait in the registry only while a span of their trace is
\* awaited: the count never exceeds the spans that are still to end, even when
\* several local roots share the trace id or no sampler call announced one.
\* With one announced root the count is the number of spans the trace waits
\* for, and a trace that is waited for is registered.
OpenCountExact ==
  /\ \A t \in DOMAIN registry :
       /\ registry[t].open_span_count <= Cardinality(Awaited(t))
       /\ registry[t].finished_spans # <<>> => Awaited(t) # {}
  /\ \A t \in Traces : AnnouncedOnce(t) =>
       Cardinality(Awaited(t)) = IF Registered(t) THEN registry[t].open_span_count ELSE 0

\* Metadata of active spans is kept only for spans of the trace that started
\* and have not ended; with one announced root every such span has it, so that
\* an observer finds it from start to end.
ActiveMetadataExact ==
  /\ \A t \in DOMAIN registry : \A s \in registry[t].active_spans :
       spans[s].trace = t /\ spans[s].stage = "started"
  /\ \A s \in Spans : spans[s].stage = "started" /\ AnnouncedOnce(spans[s].trace) =>
       Registered(spans[s].trace) /\ s \in registry[spans[s].trace].active_spans

\* The step keeps what is decided about the entries that survive it.
KeepsDecisions ==
  \A t \in DOMAIN registry : t \in DOMAIN registry' =>
    /\ registry[t].propagation_data.priority # NoPriority
         => registry'[t].propagation_data = registry[t].propagation_data
    /\ registry[t].local_root_span_id # NoSpan
         => registry'[t].local_root_span_id = registry[t].local_root_span_id

\* While a trace stays registered, a sampling decision it has is never changed
\* and a local root it has is never replaced, whichever sampler calls and span
\* starts race for the entry.
DecisionPinned == [][KeepsDecisions]_vars

\* With one announced root, flag, propagation and export carry one decision: a
\* span that has not ended tells downstream services what its flag says, whether
\* the entry is still there or inject_context falls back to the flag, and the
\* local root is exported with that decision and the origin it came with.
DecisionsAgree ==
  /\ \A s \in Spans : spans[s].stage \in {"sampled", "registered", "started"}
         /\ AnnouncedOnce(spans[s].trace) =>
       is_keep(InjectedPriority(s)) = spans[s].sampled
  /\ \A c \in exported : AnnouncedOnce(c.trace) =>
       \A s \in InVector(c.finished_spans) : spans[s].parent # "local" =>
         /\ c.propagation_data.priority # NoPriority
         /\ is_keep(c.propagation_data.priority) = spans[s].sampled
         /\ c.propagation_data.origin = (spans[s].parent # "none")

\* The points counted so far under one name: emitted by the collector, in the
\* round it is working on, or still in a shard.
Points(name) ==
  collector.emitted[name] + collector.stats[name]
    + SumOf([i \in Shards |-> metrics[i][name]], Shards)

OpenSpans == SumOf([t \in DOMAIN registry |-> registry[t].open_span_count], DOMAIN registry)

Ended == {s \in Spans : spans[s].stage = "ended"}

\* No point is lost or counted twice while the collector walks the shards and
\* spans end in the ones it has and has not visited: finished spans are the
\* spans that ended, closed segments and partial flushes are the chunks
\* exported.  With traces of one announced root the counters balance: spans
\* created and not finished are the open ones, segments created and not closed
\* the registered ones.
MetricsConserved ==
  /\ Points("spans_finished") = Cardinality(Ended)
  /\ Points("trace_segments_closed") + Points("trace_partial_flush_count")
       = Cardinality(exported)
  /\ (\A t \in Traces : AnnouncedOnce(t)) =>
       /\ Points("spans_created") - Points("spans_finished") = OpenSpans
       /\ Points("trace_segments_created") - Points("trace_segments_closed")
            = Cardinality(DOMAIN registry)

\* "If the trace is finished (i.e., all spans are finished), return the full
\* trace chunk. Otherwise, return None": without partial flushing, a step that
\* exports a chunk leaves no span of the trace awaited.  It holds with one
\* announced root only.
ChunkComplete ==
  [][\A c \in exported' \ exported :
       \A s \in Spans : spans[s].trace = c.trace
         /\ \/ spans[s].stage \in {"registered", "started"}
            \/ spans[s].stage = "sampled" /\ spans[s].parent # "local"
         => s \in InVector(c.finished_spans)]_vars

=============================================================================
