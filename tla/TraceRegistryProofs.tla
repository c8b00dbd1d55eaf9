------------------------ MODULE TraceRegistryProofs ------------------------
(***************************************************************************)
(* Theorems about TraceRegistry, for every set of traces and spans, every  *)
(* number of local roots per trace, every sharding and every configuration *)
(* of partial flushing: types, where the spans are and how they are        *)
(* ordered; what the registry knows of a trace (how many spans it waits    *)
(* for, which are active, what was decided); the telemetry counters.  The  *)
(* last part is about ContextLabels: what threads publish of their spans.  *)
(***************************************************************************)
EXTENDS TraceRegistry, ContextLabels, FiniteLemmas, SequenceTheorems, TLAPS

-----------------------------------------------------------------------------
(* Type correctness *)

\* Adding counters gives counters.
LEMMA AddMetricsType ==
  ASSUME NEW m \in Metrics, NEW n \in Metrics
  PROVE  AddMetrics(m, n) \in Metrics
BY DEF AddMetrics, Metrics

\* Count keeps the counters of every shard well typed.
LEMMA CountType ==
  ASSUME NEW t \in Traces, NEW delta \in Metrics,
         metrics \in [Shards -> Metrics], Count(t, delta)
  PROVE  metrics' \in [Shards -> Metrics]
<1>1. ShardOf[t] \in Shards
  BY RegistryAssumption DEF Shards
<1>2. AddMetrics(metrics[ShardOf[t]], delta) \in Metrics
  BY <1>1, AddMetricsType
<1> QED BY <1>1, <1>2 DEF Count

\* Overwriting or adding an entry keeps the map well typed.
LEMMA InsertType ==
  ASSUME NEW t \in Traces, NEW trace \in Trace,
         DOMAIN registry \subseteq Traces, registry \in [DOMAIN registry -> Trace]
  PROVE  /\ DOMAIN Insert(t, trace) = DOMAIN registry \cup {t}
         /\ Insert(t, trace) \in [DOMAIN registry \cup {t} -> Trace]
         /\ Insert(t, trace)[t] = trace
         /\ \A u \in DOMAIN registry \ {t} : Insert(t, trace)[u] = registry[u]
BY DEF Insert

\* A new entry is a Trace.
LEMMA NewTraceType ==
  ASSUME NEW root \in Spans \cup {NoSpan}, NEW open \in Nat, NEW prop \in PropagationData
  PROVE  NewTrace(root, open, prop) \in Trace
BY DEF NewTrace, Trace

LEMMA EmptyPropagationType == EMPTY_PROPAGATION_DATA \in PropagationData
BY DEF EMPTY_PROPAGATION_DATA, PropagationData

\* Recording a finished span keeps the vector well typed.
LEMMA PushFinishedType ==
  ASSUME NEW f \in Seq(Spans), NEW root, NEW s \in Spans
  PROVE  PushFinished(f, root, s) \in Seq(Spans)
BY DEF PushFinished

LEMMA FinishedTraceType ==
  ASSUME NEW trace \in Trace, NEW s \in Spans
  PROVE  FinishedTrace(trace, s) \in Trace
<1>1. PushFinished(trace.finished_spans, trace.local_root_span_id, s) \in Seq(Spans)
  BY PushFinishedType DEF Trace
<1>2. SaturatingPred(trace.open_span_count) \in Nat
  BY DEF SaturatingPred, Trace
<1> QED BY <1>1, <1>2 DEF FinishedTrace, Trace

\* The initial state is well typed.
LEMMA InitType == Init => TypeOK
<1> SUFFICES ASSUME Init PROVE TypeOK
  OBVIOUS
<1>1. NoMetrics \in Metrics
  BY DEF NoMetrics, Metrics
<1>2. DOMAIN registry = {} /\ registry \in [DOMAIN registry -> Trace]
  BY DEF Init
<1>3. spans \in [Spans -> Span]
  BY DEF Init, Span, Stages, RootParents
<1>4. collector \in Collector
  BY <1>1, RegistryAssumption DEF Init, Collector
<1> QED BY <1>1, <1>2, <1>3, <1>4 DEF Init, TypeOK

\* The values Count is called with.
LEMMA DeltaType ==
  /\ NoMetrics \in Metrics
  /\ [NoMetrics EXCEPT !.trace_segments_created = 1, !.spans_created = 1] \in Metrics
  /\ \A n \in {0, 1} :
       [NoMetrics EXCEPT !.spans_created = 1, !.trace_segments_created = n] \in Metrics
  /\ [NoMetrics EXCEPT !.spans_finished = 1, !.trace_partial_flush_count = 1] \in Metrics
  /\ [NoMetrics EXCEPT !.spans_finished = 1, !.trace_segments_closed = 1] \in Metrics
  /\ [NoMetrics EXCEPT !.spans_finished = 1] \in Metrics
  /\ [NoMetrics EXCEPT !.spans_finished = 1, !.trace_segments_created = 1,
                       !.trace_segments_closed = 1] \in Metrics
<1>1. \A n \in {0, 1} :
        [NoMetrics EXCEPT !.spans_created = 1, !.trace_segments_created = n] \in Metrics
  <2> SUFFICES ASSUME NEW n \in Nat
               PROVE  [NoMetrics EXCEPT !.spans_created = 1, !.trace_segments_created = n]
                        \in Metrics
    OBVIOUS
  <2> QED BY DEF NoMetrics, Metrics
<1>2. /\ NoMetrics \in Metrics
      /\ [NoMetrics EXCEPT !.trace_segments_created = 1, !.spans_created = 1] \in Metrics
  BY DEF NoMetrics, Metrics
<1>3. /\ [NoMetrics EXCEPT !.spans_finished = 1, !.trace_partial_flush_count = 1] \in Metrics
      /\ [NoMetrics EXCEPT !.spans_finished = 1, !.trace_segments_closed = 1] \in Metrics
  BY DEF NoMetrics, Metrics
<1>4. /\ [NoMetrics EXCEPT !.spans_finished = 1] \in Metrics
      /\ [NoMetrics EXCEPT !.spans_finished = 1, !.trace_segments_created = 1,
                           !.trace_segments_closed = 1] \in Metrics
  BY DEF NoMetrics, Metrics
<1> QED BY <1>1, <1>2, <1>3, <1>4

\* The part of TypeOK about the registry and its counters.
TypeRegistry ==
  /\ DOMAIN registry \subseteq Traces
  /\ registry \in [DOMAIN registry -> Trace]
  /\ metrics \in [Shards -> Metrics]

\* A step that overwrites or adds one entry keeps the registry well typed.
LEMMA InsertTypeRegistry ==
  ASSUME TypeRegistry, NEW t \in Traces, NEW trace \in Trace,
         registry' = Insert(t, trace), metrics' \in [Shards -> Metrics]
  PROVE  TypeRegistry'
<1>1. /\ DOMAIN Insert(t, trace) = DOMAIN registry \cup {t}
      /\ Insert(t, trace) \in [DOMAIN registry \cup {t} -> Trace]
  BY InsertType DEF TypeRegistry
<1> QED BY <1>1 DEF TypeRegistry

\* The sampler's registration keeps the registry well typed.
LEMMA RegisterPropagationType ==
  ASSUME TypeRegistry, NEW t \in Traces, NEW prop \in PropagationData,
         register_local_root_trace_propagation_data(t, prop)
  PROVE  TypeRegistry'
<1> DEFINE created == [NoMetrics EXCEPT !.trace_segments_created = 1, !.spans_created = 1]
<1>1. CASE /\ Registered(t)
           /\ registry[t].propagation_data.priority # NoPriority
           /\ UNCHANGED <<registry, metrics>>
  BY <1>1 DEF TypeRegistry
<1>2. CASE /\ Registered(t)
           /\ registry' = [registry EXCEPT ![t].propagation_data = prop]
           /\ UNCHANGED metrics
  <2>1. [registry[t] EXCEPT !.propagation_data = prop] \in Trace
    BY <1>2 DEF TypeRegistry, Registered, Trace
  <2> QED BY <1>2, <2>1 DEF TypeRegistry, Registered
<1>3. CASE /\ registry' = Insert(t, NewTrace(NoSpan, 1, prop))
           /\ Count(t, created)
  <2>1. NewTrace(NoSpan, 1, prop) \in Trace
    BY NewTraceType
  <2>2. metrics' \in [Shards -> Metrics]
    BY <1>3, CountType, DeltaType DEF TypeRegistry
  <2> QED BY <1>3, <2>1, <2>2, InsertTypeRegistry
<1> QED BY <1>1, <1>2, <1>3 DEF register_local_root_trace_propagation_data

\* Starting a local root keeps the registry well typed.
LEMMA RegisterRootType ==
  ASSUME TypeRegistry, NEW t \in Traces, NEW s \in Spans, register_local_root_span(s, t)
  PROVE  TypeRegistry'
<1> DEFINE trace == IF Registered(t) THEN registry[t] ELSE NewTrace(NoSpan, 1, EMPTY_PROPAGATION_DATA)
           rooted == IF trace.local_root_span_id = NoSpan
                       THEN [trace EXCEPT !.local_root_span_id = s] ELSE trace
<1>1. trace \in Trace
  BY NewTraceType, EmptyPropagationType DEF TypeRegistry, Registered
<1>2. rooted \in Trace
  BY <1>1 DEF Trace
<1>3. registry' = Insert(t, rooted) /\ metrics' = metrics
  BY DEF register_local_root_span
<1>4. metrics' \in [Shards -> Metrics]
  BY <1>3 DEF TypeRegistry
<1> HIDE DEF trace, rooted
<1> QED BY <1>2, <1>3, <1>4, InsertTypeRegistry

\* Starting any other span keeps the registry well typed.
LEMMA RegisterSpanType ==
  ASSUME TypeRegistry, NEW t \in Traces, NEW s \in Spans, register_span(s, t)
  PROVE  TypeRegistry'
<1> DEFINE trace == IF Registered(t) THEN registry[t] ELSE NewTrace(s, 0, EMPTY_PROPAGATION_DATA)
           n == IF Registered(t) THEN 0 ELSE 1
<1>1. trace \in Trace
  BY NewTraceType, EmptyPropagationType DEF TypeRegistry, Registered
<1>2. [trace EXCEPT !.open_span_count = @ + 1] \in Trace
  BY <1>1 DEF Trace
<1>3. /\ registry' = Insert(t, [trace EXCEPT !.open_span_count = @ + 1])
      /\ Count(t, [NoMetrics EXCEPT !.spans_created = 1, !.trace_segments_created = n])
  BY DEF register_span
<1>4. metrics' \in [Shards -> Metrics]
  BY <1>3, CountType, DeltaType DEF TypeRegistry
<1> HIDE DEF trace, n
<1> QED BY <1>2, <1>3, <1>4, InsertTypeRegistry

\* The chunk of a Trace is a Chunk.
LEMMA ChunkType ==
  ASSUME NEW t \in Traces, NEW trace \in Trace
  PROVE  ChunkOf(t, trace) \in Chunk
BY DEF ChunkOf, Chunk, Trace

\* Finishing a span keeps the registry and the exported chunks well typed.
LEMMA FinishSpanType ==
  ASSUME TypeRegistry, exported \subseteq Chunk,
         NEW t \in Traces, NEW s \in Spans, finish_span(s, t)
  PROVE  TypeRegistry' /\ (exported \subseteq Chunk)'
<1> DEFINE trace == FinishedTrace(registry[t], s)
<1>0. ASSUME Registered(t) PROVE trace \in Trace /\ ChunkOf(t, trace) \in Chunk
  BY <1>0, FinishedTraceType, ChunkType DEF Registered, TypeRegistry
<1>1. CASE finish_span_partial_flush(s, t)
  <2>1. Registered(t)
    BY <1>1 DEF finish_span_partial_flush
  <2>2. [trace EXCEPT !.finished_spans = <<>>] \in Trace
    <3>1. trace \in Trace /\ <<>> \in Seq(Spans)
      BY <1>0, <2>1
    <3> HIDE DEF trace
    <3> QED BY <3>1 DEF Trace
  <2>3. metrics' \in [Shards -> Metrics]
    BY <1>1, CountType, DeltaType DEF TypeRegistry, finish_span_partial_flush
  <2>4. registry' = [registry EXCEPT ![t] = [trace EXCEPT !.finished_spans = <<>>]]
    BY <1>1 DEF finish_span_partial_flush
  <2>5. exported' = exported \cup {ChunkOf(t, trace)}
    BY <1>1 DEF finish_span_partial_flush
  <2> QED BY <1>0, <2>1, <2>2, <2>3, <2>4, <2>5 DEF TypeRegistry, Registered
<1>2. CASE finish_span_last(s, t)
  <2>1. Registered(t)
    BY <1>2 DEF finish_span_last
  <2>2. metrics' \in [Shards -> Metrics]
    BY <1>2, CountType, DeltaType DEF TypeRegistry, finish_span_last
  <2>3. registry' = Remove(t) /\ exported' = exported \cup {ChunkOf(t, trace)}
    BY <1>2 DEF finish_span_last
  <2> QED BY <1>0, <2>1, <2>2, <2>3 DEF TypeRegistry, Remove
<1>3. CASE finish_span_keep(s, t)
  <2>1. Registered(t) /\ registry' = [registry EXCEPT ![t] = trace] /\ exported' = exported
    BY <1>3 DEF finish_span_keep
  <2>2. metrics' \in [Shards -> Metrics]
    BY <1>3, CountType, DeltaType DEF TypeRegistry, finish_span_keep
  <2> QED BY <1>0, <2>1, <2>2 DEF TypeRegistry, Registered
<1>4. CASE finish_span_orphan(s, t)
  <2>1. metrics' \in [Shards -> Metrics]
    BY <1>4, CountType, DeltaType DEF TypeRegistry, finish_span_orphan
  <2>2. [trace |-> t, local_root_span_id |-> s, finished_spans |-> <<s>>,
         propagation_data |-> EMPTY_PROPAGATION_DATA] \in Chunk
    BY EmptyPropagationType DEF Chunk
  <2> QED BY <1>4, <2>1, <2>2 DEF TypeRegistry, finish_span_orphan
<1> QED BY <1>1, <1>2, <1>3, <1>4 DEF finish_span

\* The part of TypeOK about the spans.
TypeSpans ==
  /\ spans \in [Spans -> Span]
  /\ \A s \in Spans : spans[s].stage # "unborn" => spans[s].trace \in Traces

\* A new span is well typed.
LEMMA BornType ==
  ASSUME TypeSpans, NEW s \in Spans, NEW t \in Traces, NEW parent \in RootParents \cup {"local"},
         NEW sampled \in BOOLEAN, Born(s, t, parent, sampled)
  PROVE  TypeSpans'
<1> DEFINE span == [stage |-> "sampled", trace |-> t, parent |-> parent, sampled |-> sampled]
<1>1. span \in Span /\ span.stage = "sampled" /\ span.trace = t
  BY DEF Span, Stages
<1>2. spans' = [spans EXCEPT ![s] = span]
  BY DEF Born
<1> HIDE DEF span
<1> QED BY <1>1, <1>2 DEF TypeSpans

\* A span that enters its next stage stays well typed.
LEMMA StageType ==
  ASSUME TypeSpans, NEW s \in Spans, NEW next \in Stages, spans[s].stage # "unborn",
         spans' = [spans EXCEPT ![s].stage = next]
  PROVE  TypeSpans'
<1>1. [spans[s] EXCEPT !.stage = next] \in Span
  BY DEF TypeSpans, Span
<1>2. spans' = [spans EXCEPT ![s] = [spans[s] EXCEPT !.stage = next]]
  OBVIOUS
<1>3. [spans[s] EXCEPT !.stage = next].trace = spans[s].trace /\ spans[s].trace \in Traces
  BY DEF TypeSpans, Span
<1> QED BY <1>1, <1>2, <1>3 DEF TypeSpans

LEMMA TypeParts ==
  TypeOK <=> TypeRegistry /\ TypeSpans /\ exported \subseteq Chunk /\ collector \in Collector
BY DEF TypeOK, TypeRegistry, TypeSpans

\* The collector's walk stays well typed.
LEMMA CollectType ==
  ASSUME metrics \in [Shards -> Metrics], collector \in Collector, get_metrics_shard
  PROVE  metrics' \in [Shards -> Metrics] /\ collector' \in Collector
<1> DEFINE i == collector.shard
           stats == AddMetrics(collector.stats, metrics[i])
<1>1. i \in Shards /\ i \in 1..NumShards /\ collector.rounds \in Nat /\ NumShards \in Nat \ {0}
  BY RegistryAssumption DEF Collector, Shards
<1>2. stats \in Metrics /\ AddMetrics(collector.emitted, stats) \in Metrics
  BY <1>1, AddMetricsType DEF Collector
<1>3. NoMetrics \in Metrics
  BY DeltaType
<1>4. metrics' = [metrics EXCEPT ![i] = NoMetrics]
  BY DEF get_metrics_shard
<1>5. collector' =
        IF i < NumShards
          THEN [collector EXCEPT !.shard = i + 1, !.stats = stats]
          ELSE [shard |-> 1, stats |-> NoMetrics, rounds |-> collector.rounds + 1,
                emitted |-> AddMetrics(collector.emitted, stats)]
  BY DEF get_metrics_shard
<1> HIDE DEF stats
<1>6. CASE i < NumShards
  <2>1. i + 1 \in 1..NumShards
    BY <1>1, <1>6
  <2>2. collector' = [collector EXCEPT !.shard = i + 1, !.stats = stats]
    BY <1>5, <1>6
  <2>3. collector' \in Collector
    BY <1>2, <2>1, <2>2 DEF Collector
  <2> QED BY <1>1, <1>3, <1>4, <2>3
<1>7. CASE ~(i < NumShards)
  <2>1. 1 \in 1..NumShards /\ collector.rounds + 1 \in Nat
    BY <1>1
  <2> QED BY <2>1, <1>1, <1>2, <1>3, <1>4, <1>5, <1>7 DEF Collector
<1> QED BY <1>6, <1>7

\* Every step keeps the state well typed.
LEMMA NextType == TypeOK /\ [Next]_vars => TypeOK'
<1> SUFFICES ASSUME TypeOK, [Next]_vars PROVE TypeOK'
  OBVIOUS
<1>0. TypeRegistry /\ TypeSpans /\ exported \subseteq Chunk /\ collector \in Collector
  BY TypeParts
<1>p. SUFFICES TypeRegistry' /\ TypeSpans' /\ (exported \subseteq Chunk)' /\ (collector \in Collector)'
  BY TypeParts DEF TypeOK, TypeRegistry, TypeSpans
<1>1. ASSUME NEW s \in Spans, NEW t \in Traces, NEW parent \in ParentKinds, NEW p \in Priorities,
             should_sample_root(s, t, parent, p)
      PROVE  TypeRegistry' /\ TypeSpans' /\ (exported \subseteq Chunk)' /\ (collector \in Collector)'
  <2> DEFINE prop == [priority |-> p, origin |-> parent # "none"]
             keep == is_keep(RegisteredPriority(t, prop))
  <2>1. prop \in PropagationData
    BY DEF PropagationData
  <2>2. TypeRegistry'
    BY <1>0, <1>1, <2>1, RegisterPropagationType DEF should_sample_root
  <2>3. RegisteredPriority(t, prop) \in Int
    BY <1>0, RegistryAssumption
    DEF RegisteredPriority, Registered, TypeRegistry, Trace, PropagationData
  <2>4. keep \in BOOLEAN
    BY <2>3 DEF is_keep
  <2>5. Born(s, t, parent, keep)
    BY <1>1 DEF should_sample_root
  <2>6. parent \in RootParents \cup {"local"}
    BY RegistryAssumption
  <2> HIDE DEF keep
  <2>7. TypeSpans'
    BY <1>0, <2>4, <2>5, <2>6, BornType
  <2> QED BY <1>0, <1>1, <2>2, <2>7 DEF should_sample_root
<1>2. ASSUME NEW s \in Spans, NEW t \in Traces, NEW sampled \in BOOLEAN,
             should_sample_foreign(s, t, sampled)
      PROVE  TypeRegistry' /\ TypeSpans' /\ (exported \subseteq Chunk)' /\ (collector \in Collector)'
  <2>1. TypeSpans'
    BY <1>0, <1>2, BornType DEF should_sample_foreign, RootParents
  <2> QED BY <1>0, <1>2, <2>1 DEF should_sample_foreign, TypeRegistry
<1>3. ASSUME NEW s \in Spans, NEW p \in Spans, should_sample_child(s, p)
      PROVE  TypeRegistry' /\ TypeSpans' /\ (exported \subseteq Chunk)' /\ (collector \in Collector)'
  <2>1. spans[p].trace \in Traces /\ spans[p].sampled \in BOOLEAN
    BY <1>0, <1>3 DEF TypeSpans, Span, should_sample_child
  <2>2. TypeSpans'
    BY <1>0, <1>3, <2>1, BornType DEF should_sample_child
  <2> QED BY <1>0, <1>3, <2>2 DEF should_sample_child, TypeRegistry
<1>4. ASSUME NEW s \in Spans, on_start_register(s)
      PROVE  TypeRegistry' /\ TypeSpans' /\ (exported \subseteq Chunk)' /\ (collector \in Collector)'
  <2>1. spans[s].trace \in Traces /\ spans[s].stage # "unborn"
    BY <1>0, <1>4 DEF TypeSpans, on_start_register
  <2>2. TypeRegistry'
    BY <1>0, <1>4, <2>1, RegisterRootType, RegisterSpanType DEF on_start_register
  <2>3. TypeSpans'
    BY <1>0, <1>4, <2>1, StageType DEF on_start_register, Stages
  <2> QED BY <1>0, <1>4, <2>2, <2>3 DEF on_start_register
<1>5. ASSUME NEW s \in Spans, on_start_metadata(s)
      PROVE  TypeRegistry' /\ TypeSpans' /\ (exported \subseteq Chunk)' /\ (collector \in Collector)'
  <2> DEFINE t == spans[s].trace
  <2>1. spans[s].stage # "unborn"
    BY <1>5 DEF on_start_metadata
  <2>2. TypeSpans'
    BY <1>0, <1>5, <2>1, StageType DEF on_start_metadata, Stages
  <2>3. TypeRegistry'
    <3>1. CASE Registered(t)
      <4>1. [registry[t] EXCEPT !.active_spans = @ \cup {s}] \in Trace
        BY <1>0, <3>1 DEF TypeRegistry, Registered, Trace
      <4>2. registry' = [registry EXCEPT ![t] = [registry[t] EXCEPT !.active_spans = @ \cup {s}]]
        BY <1>5, <3>1 DEF on_start_metadata, set_active_span_metadata
      <4> QED BY <1>0, <1>5, <3>1, <4>1, <4>2 DEF TypeRegistry, Registered, on_start_metadata
    <3>2. CASE ~Registered(t)
      BY <1>0, <1>5, <3>2 DEF TypeRegistry, on_start_metadata, set_active_span_metadata
    <3> QED BY <3>1, <3>2
  <2> QED BY <1>0, <1>5, <2>2, <2>3 DEF on_start_metadata
<1>6. ASSUME NEW s \in Spans, on_end(s)
      PROVE  TypeRegistry' /\ TypeSpans' /\ (exported \subseteq Chunk)' /\ (collector \in Collector)'
  <2>1. spans[s].trace \in Traces /\ spans[s].stage # "unborn"
    BY <1>0, <1>6 DEF TypeSpans, on_end
  <2>2. TypeRegistry' /\ (exported \subseteq Chunk)'
    BY <1>0, <1>6, <2>1, FinishSpanType DEF on_end
  <2>3. TypeSpans'
    BY <1>0, <1>6, <2>1, StageType DEF on_end, Stages
  <2> QED BY <1>0, <1>6, <2>2, <2>3 DEF on_end
<1>7. CASE get_metrics_shard
  BY <1>0, <1>7, CollectType DEF get_metrics_shard, TypeRegistry, TypeSpans
<1>8. CASE UNCHANGED vars
  BY <1>0, <1>8 DEF vars, TypeRegistry, TypeSpans
<1> QED BY <1>1, <1>2, <1>3, <1>4, <1>5, <1>6, <1>7, <1>8 DEF Next

\* The state of the registry, its callers and its collector is always well
\* typed.  In particular open_span_count never goes below zero, whatever spans
\* end that were not counted.
THEOREM TypeCorrect == Spec => []TypeOK
BY InitType, NextType, PTL DEF Spec

-----------------------------------------------------------------------------
(* Every ended span is in one place, and the local root is first.           *)
(*                                                                         *)
(* ExactlyOnce is inductive together with TypeOK.  RootFirst needs          *)
(* ExactlyOnce: a local root that starts, or that ends, is not yet in a     *)
(* vector because vectors hold ended spans only.                            *)

Located == TypeOK /\ ExactlyOnce /\ RootFirst

\* What recording a span does to a vector: the span is added, the vector stays
\* free of duplicates, and the local root stays or comes first.
LEMMA PushFinishedFacts ==
  ASSUME NEW f \in Seq(Spans), NEW root, NEW s \in Spans,
         Distinct(f), s \notin InVector(f),
         root \in InVector(f) => f[1] = root
  PROVE  LET g == PushFinished(f, root, s)
         IN /\ InVector(g) = InVector(f) \cup {s}
            /\ Distinct(g)
            /\ root \in InVector(g) => g[1] = root
<1> DEFINE g == PushFinished(f, root, s)
           n == Len(f)
<1>0. n \in Nat /\ DOMAIN f = 1..n /\ \A i \in 1..n : f[i] \in Spans
  OBVIOUS
<1>1. CASE f # <<>> /\ s = root
  <2>1. n > 0
    BY <1>0, <1>1
  <2>2. g = Append([f EXCEPT ![1] = s], f[1])
    BY <1>1 DEF PushFinished
  <2>3. [f EXCEPT ![1] = s] \in Seq(Spans) /\ Len([f EXCEPT ![1] = s]) = n
    <3>1. 1 \in 1..Len(f)
      BY <2>1
    <3> QED BY <3>1, ExceptSeq
  <2>4. /\ DOMAIN g = 1..(n + 1)
        /\ g[1] = s
        /\ g[n + 1] = f[1]
        /\ \A i \in 2..n : g[i] = f[i]
    BY <1>0, <2>1, <2>2, <2>3
  <2> HIDE DEF g, n
  <2>5. InVector(g) = InVector(f) \cup {s}
    <3>1. ASSUME NEW x \in InVector(g) PROVE x \in InVector(f) \cup {s}
      <4>1. PICK i \in DOMAIN g : g[i] = x
        BY DEF InVector
      <4> QED BY <1>0, <2>1, <2>4, <4>1 DEF InVector
    <3>2. ASSUME NEW x \in InVector(f) PROVE x \in InVector(g)
      <4>1. PICK i \in DOMAIN f : f[i] = x
        BY DEF InVector
      <4>2. CASE i = 1
        BY <1>0, <2>4, <4>1, <4>2 DEF InVector
      <4>3. CASE i # 1
        <5>1. i \in 2..n /\ i \in DOMAIN g
          BY <1>0, <2>4, <4>1, <4>3
        <5> QED BY <2>4, <4>1, <5>1 DEF InVector
      <4> QED BY <4>2, <4>3
    <3>3. s \in InVector(g)
      BY <1>0, <2>1, <2>4 DEF InVector
    <3> QED BY <3>1, <3>2, <3>3
  <2>6. Distinct(g)
    <3>1. \A i \in 1..n : f[i] # s
      BY <1>0 DEF InVector
    <3>2. ASSUME NEW i \in DOMAIN g, NEW j \in DOMAIN g, g[i] = g[j] PROVE i = j
      BY <1>0, <2>1, <2>4, <3>1, <3>2 DEF Distinct
    <3> QED BY <3>2 DEF Distinct
  <2>7. root \in InVector(g) => g[1] = root
    BY <1>1, <2>4
  <2> QED BY <2>5, <2>6, <2>7 DEF g
<1>2. CASE ~(f # <<>> /\ s = root)
  <2>1. g = Append(f, s)
    BY <1>2 DEF PushFinished
  <2>2. /\ DOMAIN g = 1..(n + 1)
        /\ g[n + 1] = s
        /\ \A i \in 1..n : g[i] = f[i]
    BY <1>0, <2>1
  <2>3. s = root => n = 0
    BY <1>0, <1>2
  <2> HIDE DEF g, n
  <2>4. InVector(g) = InVector(f) \cup {s}
    <3>1. ASSUME NEW x \in InVector(g) PROVE x \in InVector(f) \cup {s}
      <4>1. PICK i \in DOMAIN g : g[i] = x
        BY DEF InVector
      <4> QED BY <1>0, <2>2, <4>1 DEF InVector
    <3>2. ASSUME NEW x \in InVector(f) PROVE x \in InVector(g)
      <4>1. PICK i \in DOMAIN f : f[i] = x
        BY DEF InVector
      <4>2. i \in DOMAIN g /\ g[i] = x
        BY <1>0, <2>2, <4>1
      <4> QED BY <4>2 DEF InVector
    <3>3. s \in InVector(g)
      BY <1>0, <2>2 DEF InVector
    <3> QED BY <3>1, <3>2, <3>3
  <2>5. Distinct(g)
    <3>1. \A i \in 1..n : f[i] # s
      BY <1>0 DEF InVector
    <3>2. ASSUME NEW i \in DOMAIN g, NEW j \in DOMAIN g, g[i] = g[j] PROVE i = j
      BY <1>0, <2>2, <3>1, <3>2 DEF Distinct
    <3> QED BY <3>2 DEF Distinct
  <2>6. ASSUME root \in InVector(g) PROVE g[1] = root
    <3>1. CASE s = root
      BY <2>2, <2>3, <3>1
    <3>2. CASE s # root
      <4>1. root \in InVector(f)
        BY <2>4, <2>6, <3>2
      <4>2. 1 \in 1..n
        BY <1>0, <4>1 DEF InVector
      <4> QED BY <2>2, <4>1, <4>2
    <3> QED BY <3>1, <3>2
  <2> QED BY <2>4, <2>5, <2>6 DEF g
<1> QED BY <1>1, <1>2

\* No span is in the empty vector.
LEMMA EmptyVector == InVector(<<>>) = {} /\ Distinct(<<>>)
BY DEF InVector, Distinct

\* Steps that finish no span: vectors and chunks stay, a new entry starts
\* empty, and a local root that is new in an entry has not ended.
LEMMA QuietLocated ==
  ASSUME ExactlyOnce, RootFirst,
         exported' = exported,
         DOMAIN registry \subseteq DOMAIN registry',
         \A t \in DOMAIN registry :
           registry'[t].finished_spans = registry[t].finished_spans,
         \A t \in DOMAIN registry' \ DOMAIN registry : registry'[t].finished_spans = <<>>,
         \A t \in DOMAIN registry :
           \/ registry'[t].local_root_span_id = registry[t].local_root_span_id
           \/ registry'[t].local_root_span_id \notin InVector(registry[t].finished_spans),
         \A s \in Spans : /\ spans[s].stage = "ended" => spans'[s] = spans[s]
                          /\ spans'[s].stage = "ended" => spans[s].stage = "ended",
         TypeOK
  PROVE  ExactlyOnce' /\ RootFirst'
<1>1. \A t \in DOMAIN registry' : 
        \/ t \in DOMAIN registry
        \/ InVector(registry'[t].finished_spans) = {} /\ Distinct(registry'[t].finished_spans)
  BY EmptyVector
<1>2. \A t \in DOMAIN registry : registry[t].finished_spans \in Seq(Spans)
  BY DEF TypeOK, Trace
<1>3. \A c \in exported : c.finished_spans \in Seq(Spans)
  BY DEF TypeOK, Chunk
<1>4. \A f \in Seq(Spans) : \A s \in InVector(f) : s \in Spans
  BY DEF InVector
<1>5. \A t \in Traces, f \in Seq(Spans) : VectorOf(t, f) => VectorOf(t, f)'
  BY <1>4 DEF VectorOf, InVector, Distinct
<1>6. \A c \in exported : c.trace \in Traces
  BY DEF TypeOK, Chunk
<1>7. DOMAIN registry \subseteq Traces
  BY DEF TypeOK
<1>8. ExactlyOnce'
  <2>1. (\A t \in DOMAIN registry : VectorOf(t, registry[t].finished_spans))'
    BY <1>1, <1>2, <1>5, <1>7 DEF ExactlyOnce, VectorOf, InVector, Distinct
  <2>2. (\A c \in exported : VectorOf(c.trace, c.finished_spans))'
    BY <1>3, <1>5, <1>6 DEF ExactlyOnce
  <2>3. \A t \in DOMAIN registry', c \in exported :
          InVector(registry'[t].finished_spans) \cap InVector(c.finished_spans) = {}
    BY <1>1 DEF ExactlyOnce
  <2>4. \A s \in Spans : spans'[s].stage = "ended" =>
          \/ \E t \in DOMAIN registry' : s \in InVector(registry'[t].finished_spans)
          \/ \E c \in exported : s \in InVector(c.finished_spans)
    BY DEF ExactlyOnce
  <2> QED BY <2>1, <2>2, <2>3, <2>4 DEF ExactlyOnce, InVector
<1>9. RootFirst'
  <2>1. ASSUME NEW t \in DOMAIN registry',
               registry'[t].local_root_span_id \in InVector(registry'[t].finished_spans)
        PROVE  registry'[t].finished_spans[1] = registry'[t].local_root_span_id
    BY <1>1, <2>1 DEF RootFirst
  <2>2. \A c \in exported' : c.local_root_span_id \in InVector(c.finished_spans)
          => c.finished_spans[1] = c.local_root_span_id
    BY DEF RootFirst
  <2> QED BY <2>1, <2>2 DEF RootFirst, InVector
<1> QED BY <1>8, <1>9

\* The spans that wait in the entry of t.
Waiting(t) == IF Registered(t) THEN InVector(registry[t].finished_spans) ELSE {}

\* A started span s of trace t ends.
Ends(s, t) ==
  /\ spans[s].stage = "started"
  /\ spans[s].trace = t
  /\ spans' = [spans EXCEPT ![s].stage = "ended"]

\* What holds of vectors when s ends: s is in none of them, and the ones that
\* hold ended spans still do.
LEMMA EndsFacts ==
  ASSUME Located, NEW s \in Spans, NEW t \in Traces, Ends(s, t)
  PROVE  /\ \A u \in DOMAIN registry : s \notin InVector(registry[u].finished_spans)
         /\ \A c \in exported : s \notin InVector(c.finished_spans)
         /\ \A r \in Spans \ {s} : spans'[r] = spans[r]
         /\ spans'[s].stage = "ended" /\ spans'[s].trace = t
         /\ \A u \in DOMAIN registry :
              \A r \in InVector(registry[u].finished_spans) :
                r \in Spans /\ spans'[r].stage = "ended" /\ spans'[r].trace = u
         /\ \A c \in exported :
              \A r \in InVector(c.finished_spans) :
                r \in Spans /\ spans'[r].stage = "ended" /\ spans'[r].trace = c.trace
<1>1. spans \in [Spans -> Span]
  BY DEF Located, TypeOK
<1>2. spans'[s].stage = "ended" /\ spans'[s].trace = t /\ \A r \in Spans \ {s} : spans'[r] = spans[r]
  BY <1>1 DEF Ends, Span
<1>3. \A f \in Seq(Spans) : \A r \in InVector(f) : r \in Spans
  BY DEF InVector
<1>4. \A u \in DOMAIN registry : registry[u].finished_spans \in Seq(Spans)
  BY DEF Located, TypeOK, Trace
<1>5. \A c \in exported : c.finished_spans \in Seq(Spans)
  BY DEF Located, TypeOK, Chunk
<1>6. \A u \in DOMAIN registry : \A r \in InVector(registry[u].finished_spans) :
        r \in Spans /\ spans[r].stage = "ended" /\ spans[r].trace = u
  BY <1>3, <1>4 DEF Located, ExactlyOnce, VectorOf
<1>7. \A c \in exported : \A r \in InVector(c.finished_spans) :
        r \in Spans /\ spans[r].stage = "ended" /\ spans[r].trace = c.trace
  BY <1>3, <1>5 DEF Located, ExactlyOnce, VectorOf
<1> QED BY <1>2, <1>6, <1>7 DEF Ends

\* The span waits with the others of its trace: finish_span_keep.
LEMMA KeepLocated ==
  ASSUME Located, NEW s \in Spans, NEW t \in Traces, Ends(s, t),
         exported' = exported, DOMAIN registry' = DOMAIN registry, Registered(t),
         \A u \in DOMAIN registry \ {t} : registry'[u] = registry[u],
         Distinct(registry'[t].finished_spans),
         InVector(registry'[t].finished_spans) = Waiting(t) \cup {s},
         registry'[t].local_root_span_id \in InVector(registry'[t].finished_spans)
           => registry'[t].finished_spans[1] = registry'[t].local_root_span_id
  PROVE  ExactlyOnce' /\ RootFirst'
<1>a. /\ \A u \in DOMAIN registry : s \notin InVector(registry[u].finished_spans)
      /\ \A d \in exported : s \notin InVector(d.finished_spans)
      /\ \A r \in Spans \ {s} : spans'[r] = spans[r]
      /\ spans'[s].stage = "ended" /\ spans'[s].trace = t
  BY EndsFacts
<1>b. \A u \in DOMAIN registry : \A r \in InVector(registry[u].finished_spans) :
        r \in Spans /\ spans'[r].stage = "ended" /\ spans'[r].trace = u
  BY EndsFacts
<1>c. \A d \in exported : \A r \in InVector(d.finished_spans) :
        r \in Spans /\ spans'[r].stage = "ended" /\ spans'[r].trace = d.trace
  BY EndsFacts
<1>d. /\ \A u \in DOMAIN registry : Distinct(registry[u].finished_spans)
      /\ \A d \in exported : Distinct(d.finished_spans)
  BY DEF Located, ExactlyOnce, VectorOf
<1>e. /\ \A u \in DOMAIN registry, d \in exported :
           InVector(registry[u].finished_spans) \cap InVector(d.finished_spans) = {}
      /\ \A d, e \in exported :
           d # e => InVector(d.finished_spans) \cap InVector(e.finished_spans) = {}
      /\ \A r \in Spans : spans[r].stage = "ended" =>
           \/ \E u \in DOMAIN registry : r \in InVector(registry[u].finished_spans)
           \/ \E d \in exported : r \in InVector(d.finished_spans)
  BY DEF Located, ExactlyOnce
<1>1. Waiting(t) = InVector(registry[t].finished_spans) /\ t \in DOMAIN registry
  BY DEF Waiting, Registered
<1>2. ASSUME NEW u \in DOMAIN registry'
      PROVE  /\ Distinct(registry'[u].finished_spans)
             /\ \A r \in InVector(registry'[u].finished_spans) :
                  spans'[r].stage = "ended" /\ spans'[r].trace = u
  <2>1. CASE u = t
    BY <1>a, <1>b, <1>1, <2>1
  <2>2. CASE u # t
    BY <1>b, <1>d, <2>2
  <2> QED BY <2>1, <2>2
<1>3. (\A u \in DOMAIN registry : VectorOf(u, registry[u].finished_spans))'
  BY <1>2 DEF VectorOf, InVector, Distinct
<1>4. (\A d \in exported : VectorOf(d.trace, d.finished_spans))'
  BY <1>c, <1>d DEF VectorOf, InVector, Distinct
<1>5. ASSUME NEW u \in DOMAIN registry', NEW d \in exported
      PROVE  InVector(registry'[u].finished_spans) \cap InVector(d.finished_spans) = {}
  <2>1. CASE u = t
    BY <1>a, <1>e, <1>1, <2>1
  <2>2. CASE u # t
    BY <1>e, <2>2
  <2> QED BY <2>1, <2>2
<1>6. ASSUME NEW r \in Spans, spans'[r].stage = "ended"
      PROVE  \/ \E u \in DOMAIN registry' : r \in InVector(registry'[u].finished_spans)
             \/ \E d \in exported : r \in InVector(d.finished_spans)
  <2>1. CASE r = s
    BY <1>1, <2>1
  <2>2. ASSUME r # s, NEW u \in DOMAIN registry, r \in InVector(registry[u].finished_spans)
        PROVE  r \in InVector(registry'[u].finished_spans)
    BY <1>1, <2>2
  <2> QED BY <1>a, <1>e, <1>6, <2>1, <2>2
<1>7. ExactlyOnce'
  BY <1>e, <1>3, <1>4, <1>5, <1>6 DEF ExactlyOnce, InVector
<1>8. RootFirst'
  BY DEF Located, RootFirst, InVector
<1> QED BY <1>7, <1>8

\* The span leaves with the ones that waited: the other exits of finish_span.
LEMMA FlushLocated ==
  ASSUME Located, NEW s \in Spans, NEW t \in Traces, Ends(s, t),
         NEW c \in Chunk, exported' = exported \cup {c}, c.trace = t,
         DOMAIN registry' \subseteq DOMAIN registry,
         DOMAIN registry \ {t} \subseteq DOMAIN registry',
         \A u \in DOMAIN registry' \ {t} : registry'[u] = registry[u],
         t \in DOMAIN registry' => registry'[t].finished_spans = <<>>,
         Distinct(c.finished_spans),
         InVector(c.finished_spans) = Waiting(t) \cup {s},
         c.local_root_span_id \in InVector(c.finished_spans)
           => c.finished_spans[1] = c.local_root_span_id
  PROVE  ExactlyOnce' /\ RootFirst'
<1>a. /\ \A u \in DOMAIN registry : s \notin InVector(registry[u].finished_spans)
      /\ \A d \in exported : s \notin InVector(d.finished_spans)
      /\ \A r \in Spans \ {s} : spans'[r] = spans[r]
      /\ spans'[s].stage = "ended" /\ spans'[s].trace = t
  BY EndsFacts
<1>b. \A u \in DOMAIN registry : \A r \in InVector(registry[u].finished_spans) :
        r \in Spans /\ spans'[r].stage = "ended" /\ spans'[r].trace = u
  BY EndsFacts
<1>c. \A d \in exported : \A r \in InVector(d.finished_spans) :
        r \in Spans /\ spans'[r].stage = "ended" /\ spans'[r].trace = d.trace
  BY EndsFacts
<1>d. /\ \A u \in DOMAIN registry : Distinct(registry[u].finished_spans)
      /\ \A d \in exported : Distinct(d.finished_spans)
  BY DEF Located, ExactlyOnce, VectorOf
<1>e. /\ \A u \in DOMAIN registry, d \in exported :
           InVector(registry[u].finished_spans) \cap InVector(d.finished_spans) = {}
      /\ \A d, e \in exported :
           d # e => InVector(d.finished_spans) \cap InVector(e.finished_spans) = {}
      /\ \A r \in Spans : spans[r].stage = "ended" =>
           \/ \E u \in DOMAIN registry : r \in InVector(registry[u].finished_spans)
           \/ \E d \in exported : r \in InVector(d.finished_spans)
  BY DEF Located, ExactlyOnce
<1>1. \A u \in DOMAIN registry' :
        \/ registry'[u].finished_spans = <<>>
        \/ u # t /\ u \in DOMAIN registry /\ registry'[u] = registry[u]
  OBVIOUS
<1>2. ASSUME NEW u \in DOMAIN registry'
      PROVE  /\ Distinct(registry'[u].finished_spans)
             /\ \A r \in InVector(registry'[u].finished_spans) :
                  /\ spans'[r].stage = "ended" /\ spans'[r].trace = u
                  /\ r # s /\ u # t /\ u \in DOMAIN registry
                  /\ r \in InVector(registry[u].finished_spans)
  <2>1. CASE registry'[u].finished_spans = <<>>
    BY <2>1, EmptyVector
  <2>2. CASE u # t /\ u \in DOMAIN registry /\ registry'[u] = registry[u]
    BY <1>a, <1>b, <1>d, <2>2
  <2> QED BY <1>1, <2>1, <2>2
<1>3. (\A u \in DOMAIN registry : VectorOf(u, registry[u].finished_spans))'
  BY <1>2 DEF VectorOf, InVector, Distinct
<1>w. \A r \in Waiting(t) : /\ Registered(t) /\ r \in InVector(registry[t].finished_spans)
                            /\ spans'[r].stage = "ended" /\ spans'[r].trace = t
  BY <1>b DEF Waiting, Registered
<1>4. (\A d \in exported : VectorOf(d.trace, d.finished_spans))'
  <2>1. \A d \in exported' :
          /\ Distinct(d.finished_spans)
          /\ \A r \in InVector(d.finished_spans) :
               spans'[r].stage = "ended" /\ spans'[r].trace = d.trace
    BY <1>a, <1>c, <1>d, <1>w
  <2> QED BY <2>1 DEF VectorOf, InVector, Distinct
<1>5. ASSUME NEW u \in DOMAIN registry \ {t}, NEW r \in InVector(registry[u].finished_spans)
      PROVE  r \notin Waiting(t)
  BY <1>b, <1>w, <1>5
<1>6. ASSUME NEW u \in DOMAIN registry', NEW d \in exported',
             NEW r \in InVector(registry'[u].finished_spans)
      PROVE  r \notin InVector(d.finished_spans)
  BY <1>2, <1>5, <1>e
<1>7. \A d \in exported : InVector(c.finished_spans) \cap InVector(d.finished_spans) = {}
  <2>1. ASSUME NEW d \in exported, NEW r \in InVector(d.finished_spans)
        PROVE  r # s /\ r \notin Waiting(t)
    <3>1. r # s
      BY <1>a
    <3>2. ASSUME r \in Waiting(t) PROVE FALSE
      <4>1. t \in DOMAIN registry /\ r \in InVector(registry[t].finished_spans)
        BY <1>w, <3>2 DEF Registered
      <4> QED BY <1>e, <4>1
    <3> QED BY <3>1, <3>2
  <2> QED BY <2>1
<1>8. \A d, e \in exported' :
        d # e => InVector(d.finished_spans) \cap InVector(e.finished_spans) = {}
  BY <1>7, <1>e
<1>9. ASSUME NEW r \in Spans, spans'[r].stage = "ended"
      PROVE  \/ \E u \in DOMAIN registry' : r \in InVector(registry'[u].finished_spans)
             \/ \E d \in exported' : r \in InVector(d.finished_spans)
  <2>1. CASE r \in Waiting(t) \cup {s}
    BY <2>1
  <2>2. CASE r \notin Waiting(t) \cup {s}
    <3>1. spans[r].stage = "ended"
      BY <1>9, <2>2, <1>a
    <3>2. \/ \E u \in DOMAIN registry \ {t} : r \in InVector(registry[u].finished_spans)
          \/ \E d \in exported : r \in InVector(d.finished_spans)
      BY <2>2, <3>1, <1>e DEF Waiting, Registered
    <3> QED BY <3>2
  <2> QED BY <2>1, <2>2
<1>10. ExactlyOnce'
  BY <1>3, <1>4, <1>6, <1>8, <1>9 DEF ExactlyOnce, InVector
<1>11. RootFirst'
  BY <1>2 DEF Located, RootFirst, InVector
<1> QED BY <1>10, <1>11

\* Every way a span can end keeps the spans located.
LEMMA OnEndLocated ==
  ASSUME Located, NEW s \in Spans, on_end(s)
  PROVE  ExactlyOnce' /\ RootFirst'
<1> DEFINE t == spans[s].trace
           old == registry[t]
           trace == FinishedTrace(registry[t], s)
           g == PushFinished(old.finished_spans, old.local_root_span_id, s)
<1>1. t \in Traces /\ Ends(s, t) /\ finish_span(s, t)
  BY DEF Located, TypeOK, on_end, Ends
<1>2. registry \in [DOMAIN registry -> Trace] /\ exported \subseteq Chunk
  BY DEF Located, TypeOK
<1>3. ASSUME Registered(t)
      PROVE  /\ trace \in Trace
             /\ trace.finished_spans = g
             /\ trace.local_root_span_id = old.local_root_span_id
             /\ InVector(g) = Waiting(t) \cup {s}
             /\ Distinct(g)
             /\ trace.local_root_span_id \in InVector(g) => g[1] = trace.local_root_span_id
  <2>1. old \in Trace /\ old.finished_spans \in Seq(Spans) /\ trace \in Trace
    BY <1>2, <1>3, FinishedTraceType DEF Registered, Trace
  <2>2. trace.finished_spans = g /\ trace.local_root_span_id = old.local_root_span_id
    BY <2>1 DEF FinishedTrace, Trace
  <2>3. /\ Distinct(old.finished_spans)
        /\ s \notin InVector(old.finished_spans)
        /\ old.local_root_span_id \in InVector(old.finished_spans)
             => old.finished_spans[1] = old.local_root_span_id
        /\ Waiting(t) = InVector(old.finished_spans)
    BY <1>1, <1>3, EndsFacts DEF Located, ExactlyOnce, RootFirst, VectorOf, Registered, Waiting
  <2> HIDE DEF t, old, trace
  <2> QED BY <2>1, <2>2, <2>3, PushFinishedFacts
<1> DEFINE chunk == ChunkOf(t, trace)
<1>4. ASSUME Registered(t)
      PROVE  /\ chunk \in Chunk /\ chunk.trace = t /\ chunk.finished_spans = g
             /\ chunk.local_root_span_id = trace.local_root_span_id
  BY <1>1, <1>3, <1>4, ChunkType DEF ChunkOf
<1>5. CASE finish_span_partial_flush(s, t)
  <2>1. /\ Registered(t)
        /\ registry' = [registry EXCEPT ![t] = [trace EXCEPT !.finished_spans = <<>>]]
        /\ exported' = exported \cup {chunk}
    BY <1>5 DEF finish_span_partial_flush
  <2>2. [trace EXCEPT !.finished_spans = <<>>].finished_spans = <<>>
    BY <1>3, <2>1 DEF Trace
  <2>3. /\ DOMAIN registry' = DOMAIN registry
        /\ registry'[t].finished_spans = <<>>
        /\ \A u \in DOMAIN registry' \ {t} : registry'[u] = registry[u]
    BY <1>2, <2>1, <2>2 DEF Registered
  <2> HIDE DEF t, trace, g, chunk
  <2> QED BY <1>1, <1>3, <1>4, <2>1, <2>3, FlushLocated
<1>6. CASE finish_span_last(s, t)
  <2>1. Registered(t) /\ registry' = Remove(t) /\ exported' = exported \cup {chunk}
    BY <1>6 DEF finish_span_last
  <2>2. /\ DOMAIN registry' = DOMAIN registry \ {t}
        /\ \A u \in DOMAIN registry' \ {t} : registry'[u] = registry[u]
    BY <2>1 DEF Remove
  <2> HIDE DEF t, trace, g, chunk
  <2> QED BY <1>1, <1>3, <1>4, <2>1, <2>2, FlushLocated
<1>7. CASE finish_span_keep(s, t)
  <2>1. Registered(t) /\ registry' = [registry EXCEPT ![t] = trace] /\ exported' = exported
    BY <1>7 DEF finish_span_keep
  <2>2. /\ DOMAIN registry' = DOMAIN registry
        /\ registry'[t] = trace
        /\ \A u \in DOMAIN registry \ {t} : registry'[u] = registry[u]
    BY <1>2, <2>1 DEF Registered
  <2> HIDE DEF t, trace, g
  <2> QED BY <1>1, <1>3, <2>1, <2>2, KeepLocated
<1>8. CASE finish_span_orphan(s, t)
  <2> DEFINE orphan == [trace |-> t, local_root_span_id |-> s, finished_spans |-> <<s>>,
                        propagation_data |-> EMPTY_PROPAGATION_DATA]
  <2>1. ~Registered(t) /\ registry' = registry /\ exported' = exported \cup {orphan}
    BY <1>8 DEF finish_span_orphan
  <2>2. /\ orphan \in Chunk /\ orphan.trace = t /\ orphan.local_root_span_id = s
        /\ orphan.finished_spans = <<s>>
    BY <1>1, EmptyPropagationType DEF Chunk
  <2>3. InVector(<<s>>) = {s} /\ Distinct(<<s>>) /\ <<s>>[1] = s
    BY DEF InVector, Distinct
  <2>4. Waiting(t) = {} /\ t \notin DOMAIN registry
    BY <2>1 DEF Waiting, Registered
  <2> HIDE DEF t, orphan
  <2> QED BY <1>1, <2>1, <2>2, <2>3, <2>4, FlushLocated
<1> QED BY <1>1, <1>5, <1>6, <1>7, <1>8 DEF finish_span

\* What the steps that finish no span do to the entries.
QuietEntries(s) ==
  /\ DOMAIN registry \subseteq DOMAIN registry'
  /\ \A t \in DOMAIN registry :
       /\ registry'[t].finished_spans = registry[t].finished_spans
       /\ registry'[t].local_root_span_id \in {registry[t].local_root_span_id, s}
       /\ registry[t].local_root_span_id # NoSpan
            => registry'[t].local_root_span_id = registry[t].local_root_span_id
       /\ registry[t].propagation_data.priority # NoPriority
            => registry'[t].propagation_data = registry[t].propagation_data
  /\ \A t \in DOMAIN registry' \ DOMAIN registry : registry'[t].finished_spans = <<>>

\* A step that overwrites one entry, quietly, or adds an empty one.
LEMMA InsertQuiet ==
  ASSUME TypeOK, NEW s \in Spans, NEW t \in Traces, NEW trace \in Trace,
         registry' = Insert(t, trace),
         ~Registered(t) => trace.finished_spans = <<>>,
         Registered(t) =>
           /\ trace.finished_spans = registry[t].finished_spans
           /\ trace.local_root_span_id \in {registry[t].local_root_span_id, s}
           /\ registry[t].local_root_span_id # NoSpan
                => trace.local_root_span_id = registry[t].local_root_span_id
           /\ registry[t].propagation_data.priority # NoPriority
                => trace.propagation_data = registry[t].propagation_data
  PROVE  QuietEntries(s)
<1>1. /\ DOMAIN registry' = DOMAIN registry \cup {t}
      /\ registry'[t] = trace
      /\ \A u \in DOMAIN registry \ {t} : registry'[u] = registry[u]
  BY InsertType DEF TypeOK
<1> QED BY <1>1 DEF QuietEntries, Registered

LEMMA SampleQuiet ==
  ASSUME TypeOK, NEW s \in Spans, NEW t \in Traces, NEW prop \in PropagationData,
         register_local_root_trace_propagation_data(t, prop)
  PROVE  QuietEntries(s)
<1>1. CASE registry' = registry
  BY <1>1 DEF QuietEntries
<1>2. CASE /\ Registered(t)
           /\ registry[t].propagation_data.priority = NoPriority
           /\ registry' = [registry EXCEPT ![t].propagation_data = prop]
  <2>1. /\ DOMAIN registry' = DOMAIN registry
        /\ registry'[t] = [registry[t] EXCEPT !.propagation_data = prop]
        /\ \A u \in DOMAIN registry \ {t} : registry'[u] = registry[u]
    BY <1>2 DEF TypeOK, Registered
  <2>2. /\ registry'[t].finished_spans = registry[t].finished_spans
        /\ registry'[t].local_root_span_id = registry[t].local_root_span_id
    BY <1>2, <2>1 DEF TypeOK, Registered, Trace
  <2> QED BY <1>2, <2>1, <2>2 DEF QuietEntries, Registered
<1>3. CASE ~Registered(t) /\ registry' = Insert(t, NewTrace(NoSpan, 1, prop))
  <2>1. NewTrace(NoSpan, 1, prop) \in Trace /\ NewTrace(NoSpan, 1, prop).finished_spans = <<>>
    BY NewTraceType DEF NewTrace
  <2> QED BY <1>3, <2>1, InsertQuiet
<1> QED BY <1>1, <1>2, <1>3 DEF register_local_root_trace_propagation_data

LEMMA StartQuiet ==
  ASSUME TypeOK, NEW s \in Spans, NEW t \in Traces,
         register_local_root_span(s, t) \/ register_span(s, t)
  PROVE  QuietEntries(s)
<1>1. CASE register_local_root_span(s, t)
  <2> DEFINE trace == IF Registered(t) THEN registry[t] ELSE NewTrace(NoSpan, 1, EMPTY_PROPAGATION_DATA)
             rooted == IF trace.local_root_span_id = NoSpan
                         THEN [trace EXCEPT !.local_root_span_id = s] ELSE trace
  <2>1. trace \in Trace /\ (~Registered(t) => trace.finished_spans = <<>>)
    BY NewTraceType, EmptyPropagationType DEF TypeOK, Registered, NewTrace
  <2>2. Registered(t) => trace = registry[t]
    OBVIOUS
  <2>3. registry' = Insert(t, rooted)
    BY <1>1 DEF register_local_root_span
  <2> HIDE DEF trace
  <2>4. /\ rooted \in Trace
        /\ rooted.finished_spans = trace.finished_spans
        /\ rooted.propagation_data = trace.propagation_data
        /\ rooted.local_root_span_id \in {trace.local_root_span_id, s}
        /\ trace.local_root_span_id # NoSpan => rooted.local_root_span_id = trace.local_root_span_id
    BY <2>1 DEF Trace
  <2> HIDE DEF rooted
  <2> QED BY <2>1, <2>2, <2>3, <2>4, InsertQuiet
<1>2. CASE register_span(s, t)
  <2> DEFINE trace == IF Registered(t) THEN registry[t] ELSE NewTrace(s, 0, EMPTY_PROPAGATION_DATA)
             counted == [trace EXCEPT !.open_span_count = @ + 1]
  <2>1. trace \in Trace /\ (~Registered(t) => trace.finished_spans = <<>>)
    BY NewTraceType, EmptyPropagationType DEF TypeOK, Registered, NewTrace
  <2>2. Registered(t) => trace = registry[t]
    OBVIOUS
  <2>3. registry' = Insert(t, counted)
    BY <1>2 DEF register_span
  <2> HIDE DEF trace
  <2>4. /\ counted \in Trace
        /\ counted.finished_spans = trace.finished_spans
        /\ counted.propagation_data = trace.propagation_data
        /\ counted.local_root_span_id = trace.local_root_span_id
    BY <2>1 DEF Trace
  <2> HIDE DEF counted
  <2> QED BY <2>1, <2>2, <2>3, <2>4, InsertQuiet
<1> QED BY <1>1, <1>2

LEMMA MetadataQuiet ==
  ASSUME TypeOK, NEW s \in Spans, NEW t \in Traces, set_active_span_metadata(s, t)
  PROVE  QuietEntries(s)
<1>1. CASE Registered(t)
  <2>1. /\ DOMAIN registry' = DOMAIN registry
        /\ registry'[t] = [registry[t] EXCEPT !.active_spans = @ \cup {s}]
        /\ \A u \in DOMAIN registry \ {t} : registry'[u] = registry[u]
    BY <1>1 DEF TypeOK, Registered, set_active_span_metadata
  <2>2. /\ registry'[t].finished_spans = registry[t].finished_spans
        /\ registry'[t].local_root_span_id = registry[t].local_root_span_id
        /\ registry'[t].propagation_data = registry[t].propagation_data
    BY <1>1, <2>1 DEF TypeOK, Registered, Trace
  <2> QED BY <2>1, <2>2 DEF QuietEntries
<1>2. CASE ~Registered(t)
  BY <1>2 DEF set_active_span_metadata, QuietEntries
<1> QED BY <1>1, <1>2

\* Every step but on_end is quiet: its entries, its chunks, and its spans, one
\* of which may enter a stage before "ended".
Quiet(s) ==
  /\ QuietEntries(s)
  /\ exported' = exported
  /\ spans[s].stage # "ended" \/ registry' = registry
  /\ \A r \in Spans : /\ spans[r].stage = "ended" => spans'[r] = spans[r]
                      /\ spans'[r].stage = "ended" => spans[r].stage = "ended"

LEMMA BornQuiet ==
  ASSUME TypeOK, NEW s \in Spans, NEW t, NEW parent, NEW sampled,
         spans[s].stage = "unborn", Born(s, t, parent, sampled)
  PROVE  \A r \in Spans : /\ spans[r].stage = "ended" => spans'[r] = spans[r]
                          /\ spans'[r].stage = "ended" => spans[r].stage = "ended"
<1> DEFINE span == [stage |-> "sampled", trace |-> t, parent |-> parent, sampled |-> sampled]
<1>1. span.stage = "sampled"
  OBVIOUS
<1>2. spans' = [spans EXCEPT ![s] = span] /\ spans \in [Spans -> Span]
  BY DEF Born, TypeOK
<1> HIDE DEF span
<1> QED BY <1>1, <1>2

LEMMA StepQuiet ==
  ASSUME TypeOK, [Next]_vars
  PROVE  \/ \E s \in Spans : Quiet(s)
         \/ \E s \in Spans : on_end(s)
         \/ registry' = registry /\ exported' = exported /\ spans' = spans
<1>1. ASSUME NEW s \in Spans, NEW t \in Traces, NEW parent \in ParentKinds, NEW p \in Priorities,
             should_sample_root(s, t, parent, p)
      PROVE  Quiet(s)
  <2>1. [priority |-> p, origin |-> parent # "none"] \in PropagationData
    BY DEF PropagationData
  <2>2. QuietEntries(s)
    BY <1>1, <2>1, SampleQuiet DEF should_sample_root
  <2>3. \A r \in Spans : /\ spans[r].stage = "ended" => spans'[r] = spans[r]
                         /\ spans'[r].stage = "ended" => spans[r].stage = "ended"
    BY <1>1, BornQuiet DEF should_sample_root
  <2> QED BY <1>1, <2>2, <2>3 DEF should_sample_root, Quiet
<1>2. ASSUME NEW s \in Spans, NEW t \in Traces, NEW sampled \in BOOLEAN,
             should_sample_foreign(s, t, sampled)
      PROVE  Quiet(s)
  <2>1. \A r \in Spans : /\ spans[r].stage = "ended" => spans'[r] = spans[r]
                         /\ spans'[r].stage = "ended" => spans[r].stage = "ended"
    BY <1>2, BornQuiet DEF should_sample_foreign
  <2> QED BY <1>2, <2>1 DEF should_sample_foreign, Quiet, QuietEntries
<1>3. ASSUME NEW s \in Spans, NEW p \in Spans, should_sample_child(s, p)
      PROVE  Quiet(s)
  <2>1. \A r \in Spans : /\ spans[r].stage = "ended" => spans'[r] = spans[r]
                         /\ spans'[r].stage = "ended" => spans[r].stage = "ended"
    BY <1>3, BornQuiet DEF should_sample_child
  <2> QED BY <1>3, <2>1 DEF should_sample_child, Quiet, QuietEntries
<1>4. ASSUME NEW s \in Spans, on_start_register(s)
      PROVE  Quiet(s)
  <2>1. spans[s].trace \in Traces /\ spans[s].stage = "sampled" /\ spans \in [Spans -> Span]
    BY <1>4 DEF TypeOK, on_start_register
  <2>2. QuietEntries(s)
    BY <1>4, <2>1, StartQuiet DEF on_start_register
  <2>3. \A r \in Spans : /\ spans[r].stage = "ended" => spans'[r] = spans[r]
                         /\ spans'[r].stage = "ended" => spans[r].stage = "ended"
    BY <1>4, <2>1 DEF on_start_register, Span
  <2> QED BY <1>4, <2>1, <2>2, <2>3 DEF on_start_register, Quiet
<1>5. ASSUME NEW s \in Spans, on_start_metadata(s)
      PROVE  Quiet(s)
  <2>1. spans[s].trace \in Traces /\ spans[s].stage = "registered" /\ spans \in [Spans -> Span]
    BY <1>5 DEF TypeOK, on_start_metadata
  <2>2. QuietEntries(s)
    BY <1>5, <2>1, MetadataQuiet DEF on_start_metadata
  <2>3. \A r \in Spans : /\ spans[r].stage = "ended" => spans'[r] = spans[r]
                         /\ spans'[r].stage = "ended" => spans[r].stage = "ended"
    BY <1>5, <2>1 DEF on_start_metadata, Span
  <2> QED BY <1>5, <2>1, <2>2, <2>3 DEF on_start_metadata, Quiet
<1> QED BY <1>1, <1>2, <1>3, <1>4, <1>5 DEF Next, vars, get_metrics_shard

\* The three parts together are inductive.
LEMMA LocatedInductive == Located /\ [Next]_vars => Located'
<1> SUFFICES ASSUME Located, [Next]_vars PROVE Located'
  OBVIOUS
<1>1. TypeOK /\ ExactlyOnce /\ RootFirst /\ TypeOK'
  BY NextType DEF Located
<1>2. ASSUME NEW s \in Spans, Quiet(s) PROVE ExactlyOnce' /\ RootFirst'
  <2>1. \A t \in DOMAIN registry :
          spans[s].stage # "ended" => s \notin InVector(registry[t].finished_spans)
    BY <1>1 DEF ExactlyOnce, VectorOf
  <2>2. \A t \in DOMAIN registry :
          \/ registry'[t].local_root_span_id = registry[t].local_root_span_id
          \/ registry'[t].local_root_span_id \notin InVector(registry[t].finished_spans)
    BY <1>2, <2>1 DEF Quiet, QuietEntries
  <2>3. /\ exported' = exported
        /\ DOMAIN registry \subseteq DOMAIN registry'
        /\ \A t \in DOMAIN registry : registry'[t].finished_spans = registry[t].finished_spans
        /\ \A t \in DOMAIN registry' \ DOMAIN registry : registry'[t].finished_spans = <<>>
        /\ \A r \in Spans : /\ spans[r].stage = "ended" => spans'[r] = spans[r]
                            /\ spans'[r].stage = "ended" => spans[r].stage = "ended"
    BY <1>2 DEF Quiet, QuietEntries
  <2> QED BY <1>1, <2>2, <2>3, QuietLocated
<1>3. ASSUME NEW s \in Spans, on_end(s) PROVE ExactlyOnce' /\ RootFirst'
  BY <1>3, OnEndLocated
<1>4. ASSUME registry' = registry, exported' = exported, spans' = spans
      PROVE  ExactlyOnce' /\ RootFirst'
  <2>1. DOMAIN registry \subseteq DOMAIN registry'
    BY <1>4
  <2> QED BY <1>1, <1>4, <2>1, QuietLocated
<1>5. ExactlyOnce' /\ RootFirst'
  BY <1>1, <1>2, <1>3, <1>4, StepQuiet
<1> QED BY <1>1, <1>5 DEF Located

LEMMA LocatedInit == Init => Located
<1> SUFFICES ASSUME Init PROVE Located
  OBVIOUS
<1>1. DOMAIN registry = {} /\ exported = {} /\ \A s \in Spans : spans[s].stage = "unborn"
  BY DEF Init
<1> QED BY <1>1, InitType DEF Located, ExactlyOnce, RootFirst

\* A span that ended is in exactly one place, once, on every path through
\* finish_span: no interleaving of the threads that start and end spans loses
\* one or exports one twice, with or without partial flushing, and whether or
\* not its trace is registered.
THEOREM EndedSpansExactlyOnce == Spec => []ExactlyOnce
BY LocatedInit, LocatedInductive, PTL DEF Spec, Located

\* The comment on finished_spans holds: the local root is the first span of
\* every vector and of every exported chunk it is in.
THEOREM LocalRootFirst == Spec => []RootFirst
BY LocatedInit, LocatedInductive, PTL DEF Spec, Located

-----------------------------------------------------------------------------
(* The sampling decision *)

\* The entry of a trace that survives the end of a span keeps its decision and
\* its local root.
LEMMA OnEndPinned ==
  ASSUME TypeOK, NEW s \in Spans, on_end(s), NEW u \in DOMAIN registry, u \in DOMAIN registry'
  PROVE  /\ registry'[u].propagation_data = registry[u].propagation_data
         /\ registry'[u].local_root_span_id = registry[u].local_root_span_id
<1> DEFINE t == spans[s].trace
           trace == FinishedTrace(registry[t], s)
<1>1. ASSUME Registered(t)
      PROVE  /\ trace \in Trace
             /\ trace.propagation_data = registry[t].propagation_data
             /\ trace.local_root_span_id = registry[t].local_root_span_id
  <2>1. registry[t] \in Trace
    BY <1>1 DEF TypeOK, Registered
  <2>2. trace \in Trace
    BY <2>1, FinishedTraceType
  <2> QED BY <2>1, <2>2 DEF FinishedTrace, Trace
<1>2. CASE finish_span_partial_flush(s, t)
  <2>1. Registered(t) /\ registry' = [registry EXCEPT ![t] = [trace EXCEPT !.finished_spans = <<>>]]
    BY <1>2 DEF finish_span_partial_flush
  <2>2. /\ [trace EXCEPT !.finished_spans = <<>>].propagation_data = trace.propagation_data
        /\ [trace EXCEPT !.finished_spans = <<>>].local_root_span_id = trace.local_root_span_id
    BY <1>1, <2>1 DEF Trace
  <2> HIDE DEF trace
  <2> QED BY <1>1, <2>1, <2>2 DEF TypeOK, Registered
<1>3. CASE finish_span_last(s, t)
  BY <1>3 DEF finish_span_last, Remove
<1>4. CASE finish_span_keep(s, t)
  <2>1. Registered(t) /\ registry' = [registry EXCEPT ![t] = trace]
    BY <1>4 DEF finish_span_keep
  <2> HIDE DEF trace
  <2> QED BY <1>1, <2>1 DEF TypeOK, Registered
<1>5. CASE finish_span_orphan(s, t)
  BY <1>5 DEF finish_span_orphan
<1> QED BY <1>2, <1>3, <1>4, <1>5 DEF on_end, finish_span

\* No step changes the decision, or the local root, of an entry that has one.
LEMMA StepPinned == TypeOK /\ [Next]_vars => KeepsDecisions
<1> SUFFICES ASSUME TypeOK, [Next]_vars PROVE KeepsDecisions
  OBVIOUS
<1>1. ASSUME NEW s \in Spans, Quiet(s) PROVE KeepsDecisions
  BY <1>1 DEF Quiet, QuietEntries, KeepsDecisions
<1>2. ASSUME NEW s \in Spans, on_end(s) PROVE KeepsDecisions
  BY <1>2, OnEndPinned DEF KeepsDecisions
<1>3. CASE registry' = registry
  BY <1>3 DEF KeepsDecisions
<1> QED BY <1>1, <1>2, <1>3, StepQuiet

\* Racing sampler calls and span starts never change the sampling decision of
\* a registered trace, nor its local root: every span of the trace and every
\* request it sends see one decision while the entry lives.
THEOREM DecisionNeverChanges == Spec => DecisionPinned
<1>1. TypeOK /\ [Next]_vars => [KeepsDecisions]_vars
  BY StepPinned
<1> QED BY <1>1, TypeCorrect, PTL DEF Spec, DecisionPinned

-----------------------------------------------------------------------------
(* Spans and roots of a trace *)

Known == {s \in Spans : spans[s].stage # "unborn"}

OfTrace(t) == {s \in Spans : spans[s].trace = t}

\* Finitely many spans exist, and a span has a trace once it exists.
Grown ==
  /\ IsFiniteSet(Known)
  /\ \A s \in Spans : spans[s].stage = "unborn" => spans[s].trace = NoTrace

\* AnnouncedOnce without a cardinality
OneRoot(t) == \A q, r \in LocalRoots(t) : q = r /\ spans[r].parent # "foreign"

LEMMA AtMostOne ==
  ASSUME NEW S, IsFiniteSet(S)
  PROVE  Cardinality(S) <= 1 <=> \A x, y \in S : x = y
<1>1. ASSUME Cardinality(S) <= 1, NEW x \in S, NEW y \in S, x # y PROVE FALSE
  <2>1. IsFiniteSet({x}) /\ Cardinality({x}) = 1
    BY FS_Singleton
  <2>2. Cardinality({x} \cup {y}) = 2
    BY <1>1, <2>1, FS_AddElement
  <2>3. {x} \cup {y} \in SUBSET S
    BY <1>1
  <2>4. Cardinality({x} \cup {y}) <= Cardinality(S) /\ Cardinality(S) \in Nat
    BY <2>3, FS_Subset, FS_CardinalityType
  <2> QED BY <1>1, <2>2, <2>4
<1>2. ASSUME \A x, y \in S : x = y PROVE Cardinality(S) <= 1
  <2>1. CASE S = {}
    BY <2>1, FS_EmptySet
  <2>2. CASE S # {}
    <3>1. PICK x \in S : TRUE
      BY <2>2
    <3>2. S = {x}
      BY <1>2, <3>1
    <3> QED BY <3>2, FS_Singleton
  <2> QED BY <2>1, <2>2
<1> QED BY <1>1, <1>2

\* The sets that are counted are finite.
LEMMA PartsFinite ==
  ASSUME Grown, NEW t \in Traces
  PROVE  /\ IsFiniteSet(Awaited(t)) /\ IsFiniteSet(LocalRoots(t))
         /\ Cardinality(Awaited(t)) \in Nat
         /\ Cardinality(Awaited(t)) = 0 <=> Awaited(t) = {}
<1>1. Awaited(t) \in SUBSET Known
  BY DEF Awaited, Known
<1>2. LocalRoots(t) \in SUBSET Known
  BY RegistryAssumption DEF LocalRoots, Known, Grown
<1>3. IsFiniteSet(Awaited(t)) /\ IsFiniteSet(LocalRoots(t))
  BY <1>1, <1>2, FS_Subset DEF Grown
<1> QED BY <1>3, FS_CardinalityType, FS_EmptySet

LEMMA AnnouncedOneRoot ==
  ASSUME Grown, NEW t \in Traces
  PROVE  AnnouncedOnce(t) <=> OneRoot(t)
<1>1. IsFiniteSet(LocalRoots(t))
  BY PartsFinite
<1>2. AnnouncedOnce(t)
        <=> Cardinality(LocalRoots(t)) <= 1 /\ \A r \in LocalRoots(t) : spans[r].parent # "foreign"
  BY DEF AnnouncedOnce, LocalRoots
<1>3. Cardinality(LocalRoots(t)) <= 1 <=> \A q, r \in LocalRoots(t) : q = r
  BY <1>1, AtMostOne
<1> QED BY <1>2, <1>3 DEF OneRoot

-----------------------------------------------------------------------------
(* What is known of one trace *)

\* The count is right: OpenCountExact, for a trace that has a local root.
Counted(t) ==
  /\ Registered(t) \/ OfTrace(t) # {} => LocalRoots(t) # {}
  /\ Registered(t) =>
       /\ registry[t].open_span_count <= Cardinality(Awaited(t))
       /\ registry[t].finished_spans # <<>> => Awaited(t) # {}
  /\ OneRoot(t) =>
       Cardinality(Awaited(t)) = IF Registered(t) THEN registry[t].open_span_count ELSE 0

\* The metadata is that of the started spans: ActiveMetadataExact.
Observed(t) ==
  /\ Registered(t) => \A s \in registry[t].active_spans :
       spans[s].trace = t /\ spans[s].stage = "started"
  /\ OneRoot(t) => \A s \in OfTrace(t) : spans[s].stage = "started" =>
       Registered(t) /\ s \in registry[t].active_spans

\* One decision: the flags of all spans agree with each other and with the
\* entry, which has the decision and the origin of its root from the moment
\* the root is announced until it has been exported.
Decided(t) ==
  OneRoot(t) =>
    /\ \A q, r \in OfTrace(t) : spans[q].sampled = spans[r].sampled
    /\ Registered(t) /\ registry[t].propagation_data.priority # NoPriority =>
         \A s \in OfTrace(t) : spans[s].sampled = is_keep(registry[t].propagation_data.priority)
    /\ \A r \in LocalRoots(t) : spans[r].stage # "ended" \/ r \in Waiting(t) =>
         /\ Registered(t)
         /\ registry[t].propagation_data.priority # NoPriority
         /\ registry[t].propagation_data.origin = (spans[r].parent # "none")

\* Chunks with their root carry the decision.
ChunksDecided(chunks) ==
  \A c \in chunks : OneRoot(c.trace) =>
    \A s \in InVector(c.finished_spans) : spans[s].parent # "local" =>
      /\ c.propagation_data.priority # NoPriority
      /\ is_keep(c.propagation_data.priority) = spans[s].sampled
      /\ c.propagation_data.origin = (spans[s].parent # "none")

Accounted(t) == Counted(t) /\ Observed(t) /\ Decided(t)

AccountInv ==
  /\ Located /\ Grown
  /\ \A t \in Traces : Accounted(t)
  /\ ChunksDecided(exported)

LEMMA AccountInitially == Init => AccountInv
<1> SUFFICES ASSUME Init PROVE AccountInv
  OBVIOUS
<1>1. Located
  BY LocatedInit
<1>2. Known = {} /\ Grown
  BY FS_EmptySet DEF Init, Known, Grown
<1>3. ASSUME NEW t \in Traces PROVE Accounted(t)
  <2>1. ~Registered(t) /\ OfTrace(t) = {} /\ Awaited(t) = {} /\ LocalRoots(t) = {}
    BY RegistryAssumption DEF Init, Registered, OfTrace, Awaited, LocalRoots
  <2> QED BY <2>1, FS_EmptySet DEF Accounted, Counted, Observed, Decided
<1> QED BY <1>1, <1>2, <1>3 DEF AccountInv, ChunksDecided, Init

-----------------------------------------------------------------------------
(* A step of span s in trace t leaves the other traces alone *)

Touches(s, t) ==
  /\ \A r \in Spans \ {s} : spans'[r] = spans[r]
  /\ spans'[s].trace = t
  /\ spans[s].trace \in {t, NoTrace}
  /\ \A u \in Traces \ {t} :
       /\ u \in DOMAIN registry' <=> u \in DOMAIN registry
       /\ u \in DOMAIN registry => registry'[u] = registry[u]

\* A span that exists keeps its parent and its flag.
Keeps(s) ==
  spans[s].stage # "unborn" =>
    /\ spans'[s].stage # "unborn"
    /\ spans'[s].trace = spans[s].trace
    /\ spans'[s].parent = spans[s].parent /\ spans'[s].sampled = spans[s].sampled

LEMMA OthersAccounted ==
  ASSUME AccountInv, NEW s \in Spans, NEW t \in Traces, Touches(s, t),
         NEW u \in Traces \ {t}
  PROVE  Accounted(u)'
<1>1. /\ Awaited(u)' = Awaited(u) /\ LocalRoots(u)' = LocalRoots(u)
      /\ OfTrace(u)' = OfTrace(u) /\ s \notin OfTrace(u)
  BY RegistryAssumption DEF Touches, Awaited, LocalRoots, OfTrace
<1>2. OneRoot(u)' <=> OneRoot(u)
  BY <1>1 DEF OneRoot, Touches, LocalRoots, OfTrace
<1>3. /\ Registered(u)' <=> Registered(u)
      /\ Registered(u) => registry'[u] = registry[u]
      /\ Waiting(u)' = Waiting(u)
  BY DEF Touches, Registered, Waiting, InVector
<1>4. \A r \in OfTrace(u) : spans'[r] = spans[r]
  BY <1>1 DEF Touches, OfTrace
<1>5. Accounted(u)
  BY DEF AccountInv
<1>6. Counted(u)'
  BY <1>1, <1>2, <1>3, <1>5 DEF Accounted, Counted
<1>7. Observed(u)'
  <2>1. Registered(u) => registry[u].active_spans \subseteq Spans
    BY DEF AccountInv, Located, TypeOK, Trace, Registered
  <2>2. Registered(u) => \A r \in registry[u].active_spans : r \in OfTrace(u)
    BY <1>5, <2>1 DEF Accounted, Observed, OfTrace
  <2> QED BY <1>1, <1>2, <1>3, <1>4, <1>5, <2>2 DEF Accounted, Observed
<1>8. Decided(u)'
  <2>1. LocalRoots(u) \subseteq OfTrace(u)
    BY DEF LocalRoots, OfTrace
  <2> QED BY <1>1, <1>2, <1>3, <1>4, <1>5, <2>1 DEF Accounted, Decided
<1> QED BY <1>6, <1>7, <1>8 DEF Accounted

\* A trace with one root after a step had at most one before it.
LEMMA OneRootBefore ==
  ASSUME AccountInv, NEW s \in Spans, Keeps(s), NEW u \in Traces,
         \A r \in Spans \ {s} : spans'[r] = spans[r], OneRoot(u)'
  PROVE  OneRoot(u) /\ LocalRoots(u) \subseteq LocalRoots(u)'
<1>1. \A r \in LocalRoots(u) : spans'[r].trace = u /\ spans'[r].parent = spans[r].parent
  BY RegistryAssumption DEF LocalRoots, Keeps, AccountInv, Grown
<1>2. LocalRoots(u) \subseteq LocalRoots(u)'
  BY <1>1 DEF LocalRoots
<1> QED BY <1>1, <1>2 DEF OneRoot

\* Chunks that were exported keep their decision.
LEMMA ChunksStayDecided ==
  ASSUME AccountInv, NEW s \in Spans, Keeps(s),
         \A r \in Spans \ {s} : spans'[r] = spans[r]
  PROVE  \A c \in exported : OneRoot(c.trace)' =>
           \A r \in InVector(c.finished_spans) : spans'[r].parent # "local" =>
             /\ c.propagation_data.priority # NoPriority
             /\ is_keep(c.propagation_data.priority) = spans'[r].sampled
             /\ c.propagation_data.origin = (spans'[r].parent # "none")
<1> SUFFICES ASSUME NEW c \in exported, OneRoot(c.trace)',
                    NEW r \in InVector(c.finished_spans), spans'[r].parent # "local"
             PROVE  /\ c.propagation_data.priority # NoPriority
                    /\ is_keep(c.propagation_data.priority) = spans'[r].sampled
                    /\ c.propagation_data.origin = (spans'[r].parent # "none")
  OBVIOUS
<1>1. c.trace \in Traces /\ c.finished_spans \in Seq(Spans)
  BY DEF AccountInv, Located, TypeOK, Chunk
<1>2. OneRoot(c.trace)
  BY <1>1, OneRootBefore
<1>3. r \in Spans /\ spans[r].stage = "ended"
  BY <1>1 DEF InVector, AccountInv, Located, ExactlyOnce, VectorOf
<1>4. spans'[r].parent = spans[r].parent /\ spans'[r].sampled = spans[r].sampled
  BY <1>3 DEF Keeps
<1> QED BY <1>2, <1>4 DEF AccountInv, ChunksDecided

\* What is left to show of a step, besides ExactlyOnce and RootFirst: what is
\* known of its own trace, and the decision in the chunks it exports.
LEMMA StepAccounted ==
  ASSUME AccountInv, Located', NEW s \in Spans, NEW t \in Traces, Touches(s, t), Keeps(s),
         spans'[s].stage # "unborn",
         Accounted(t)',
         \A c \in exported' \ exported : OneRoot(c.trace)' =>
           \A r \in InVector(c.finished_spans) : spans'[r].parent # "local" =>
             /\ c.propagation_data.priority # NoPriority
             /\ is_keep(c.propagation_data.priority) = spans'[r].sampled
             /\ c.propagation_data.origin = (spans'[r].parent # "none")
  PROVE  AccountInv'
<1>1. \A r \in Spans \ {s} : spans'[r] = spans[r]
  BY DEF Touches
<1>2. Grown'
  <2>1. Known' = Known \cup {s}
    BY <1>1 DEF Known
  <2>2. IsFiniteSet(Known \cup {s})
    BY FS_AddElement DEF AccountInv, Grown
  <2> QED BY <1>1, <2>1, <2>2 DEF AccountInv, Grown
<1>3. \A u \in Traces : Accounted(u)'
  BY OthersAccounted
<1>4. ChunksDecided(exported)'
  BY <1>1, ChunksStayDecided DEF ChunksDecided, InVector
<1> QED BY <1>2, <1>3, <1>4 DEF AccountInv

LEMMA BornEffect ==
  ASSUME AccountInv, NEW s \in Spans, NEW t \in Traces, NEW parent, NEW sampled,
         spans[s].stage = "unborn", Born(s, t, parent, sampled)
  PROVE  /\ spans'[s].stage = "sampled" /\ spans'[s].trace = t
         /\ spans'[s].parent = parent /\ spans'[s].sampled = sampled
         /\ \A r \in Spans \ {s} : spans'[r] = spans[r]
         /\ spans[s].trace = NoTrace /\ NoTrace # t
         /\ Keeps(s)
<1> DEFINE span == [stage |-> "sampled", trace |-> t, parent |-> parent, sampled |-> sampled]
<1>1. spans' = [spans EXCEPT ![s] = span] /\ spans \in [Spans -> Span]
  BY DEF Born, AccountInv, Located, TypeOK
<1>2. span.stage = "sampled" /\ span.trace = t /\ span.parent = parent /\ span.sampled = sampled
  OBVIOUS
<1> HIDE DEF span
<1> QED BY <1>1, <1>2, RegistryAssumption DEF AccountInv, Grown, Keeps

LEMMA StageEffect ==
  ASSUME AccountInv, NEW s \in Spans, NEW next \in Stages, next # "unborn",
         spans[s].stage # "unborn", spans' = [spans EXCEPT ![s].stage = next]
  PROVE  /\ spans'[s].stage = next /\ spans'[s].trace = spans[s].trace
         /\ spans[s].trace \in Traces
         /\ spans'[s].parent = spans[s].parent /\ spans'[s].sampled = spans[s].sampled
         /\ \A r \in Spans \ {s} : spans'[r] = spans[r]
         /\ Keeps(s)
<1>1. spans \in [Spans -> Span] /\ spans[s].trace \in Traces
  BY DEF AccountInv, Located, TypeOK
<1> QED BY <1>1 DEF Span, Keeps

-----------------------------------------------------------------------------
(* The sampler *)

LEMMA AnnouncedEntry ==
  ASSUME AccountInv, NEW t \in Traces, NEW prop \in PropagationData, prop.priority # NoPriority,
         register_local_root_trace_propagation_data(t, prop)
  PROVE  /\ DOMAIN registry' = DOMAIN registry \cup {t}
         /\ \A u \in DOMAIN registry \ {t} : registry'[u] = registry[u]
         /\ Registered(t) =>
              /\ registry'[t].open_span_count = registry[t].open_span_count
              /\ registry'[t].finished_spans = registry[t].finished_spans
              /\ registry'[t].active_spans = registry[t].active_spans
         /\ ~Registered(t) =>
              /\ registry'[t].open_span_count = 1 /\ registry'[t].finished_spans = <<>>
              /\ registry'[t].active_spans = {} /\ registry'[t].propagation_data = prop
              /\ RegisteredPriority(t, prop) = prop.priority
<1>1. registry \in [DOMAIN registry -> Trace] /\ DOMAIN registry \subseteq Traces
  BY DEF AccountInv, Located, TypeOK
<1>2. CASE registry' = registry /\ Registered(t)
  BY <1>2 DEF Registered
<1>3. CASE Registered(t) /\ registry' = [registry EXCEPT ![t].propagation_data = prop]
  <2>1. registry[t] \in Trace
    BY <1>1, <1>3 DEF Registered
  <2>2. registry'[t] = [registry[t] EXCEPT !.propagation_data = prop]
    BY <1>1, <1>3 DEF Registered
  <2> QED BY <1>1, <1>3, <2>1, <2>2 DEF Trace, Registered
<1>4. CASE ~Registered(t) /\ registry' = Insert(t, NewTrace(NoSpan, 1, prop))
  <2>1. NewTrace(NoSpan, 1, prop) \in Trace
    BY NewTraceType
  <2> DEFINE new == NewTrace(NoSpan, 1, prop)
  <2>2. new \in Trace /\ registry' = Insert(t, new)
    BY <1>4, <2>1
  <2> HIDE DEF new
  <2>3. /\ DOMAIN registry' = DOMAIN registry \cup {t}
        /\ registry'[t] = new
        /\ \A u \in DOMAIN registry \ {t} : registry'[u] = registry[u]
    <3>1. /\ DOMAIN Insert(t, new) = DOMAIN registry \cup {t}
          /\ Insert(t, new)[t] = new
          /\ \A u \in DOMAIN registry \ {t} : Insert(t, new)[u] = registry[u]
      BY <1>1, <2>2, InsertType
    <3> QED BY <2>2, <3>1
  <2>4. registry'[t] = NewTrace(NoSpan, 1, prop)
    BY <2>3 DEF new
  <2>5. /\ registry'[t].open_span_count = 1 /\ registry'[t].finished_spans = <<>>
        /\ registry'[t].active_spans = {} /\ registry'[t].propagation_data = prop
    BY <2>4 DEF NewTrace
  <2>6. RegisteredPriority(t, prop) = prop.priority
    BY <1>4 DEF RegisteredPriority
  <2> QED BY <1>4, <2>5, <2>6, <2>3
<1> QED BY <1>2, <1>3, <1>4 DEF register_local_root_trace_propagation_data

\* A local root is announced: it is waited for, and when it is the only one
\* the entry is new and has its decision.
LEMMA RootAccounted ==
  ASSUME AccountInv, Located', NEW s \in Spans, NEW t \in Traces, NEW parent \in ParentKinds,
         NEW p \in Priorities, should_sample_root(s, t, parent, p)
  PROVE  AccountInv'
<1> DEFINE prop == [priority |-> p, origin |-> parent # "none"]
           keep == is_keep(RegisteredPriority(t, prop))
<1>1. /\ prop \in PropagationData /\ prop.priority = p /\ prop.origin = (parent # "none")
      /\ p # NoPriority /\ parent # "local" /\ parent # "foreign"
  BY RegistryAssumption DEF PropagationData, should_sample_root, RootParents
<1>2. /\ spans[s].stage = "unborn" /\ Born(s, t, parent, keep) /\ exported' = exported
      /\ register_local_root_trace_propagation_data(t, prop)
  BY DEF should_sample_root
<1> HIDE DEF prop, keep
<1>3. /\ spans'[s].stage = "sampled" /\ spans'[s].trace = t
      /\ spans'[s].parent = parent /\ spans'[s].sampled = keep
      /\ \A r \in Spans \ {s} : spans'[r] = spans[r]
      /\ spans[s].trace = NoTrace /\ NoTrace # t
      /\ Keeps(s)
  BY <1>2, BornEffect
<1>4. /\ DOMAIN registry' = DOMAIN registry \cup {t}
      /\ \A u \in DOMAIN registry \ {t} : registry'[u] = registry[u]
      /\ Registered(t) =>
           /\ registry'[t].open_span_count = registry[t].open_span_count
           /\ registry'[t].finished_spans = registry[t].finished_spans
           /\ registry'[t].active_spans = registry[t].active_spans
      /\ ~Registered(t) =>
           /\ registry'[t].open_span_count = 1 /\ registry'[t].finished_spans = <<>>
           /\ registry'[t].active_spans = {} /\ registry'[t].propagation_data = prop
           /\ keep = is_keep(p)
  BY <1>1, <1>2, AnnouncedEntry DEF keep
<1>5. Touches(s, t)
  BY <1>3, <1>4 DEF Touches
<1>6. /\ LocalRoots(t)' = LocalRoots(t) \cup {s} /\ s \notin LocalRoots(t)
      /\ Awaited(t)' = Awaited(t) \cup {s} /\ s \notin Awaited(t)
      /\ OfTrace(t)' = OfTrace(t) \cup {s}
      /\ Awaited(t) \subseteq OfTrace(t) /\ LocalRoots(t) \subseteq OfTrace(t)
  BY <1>1, <1>3 DEF LocalRoots, Awaited, OfTrace
<1>7. /\ IsFiniteSet(Awaited(t)) /\ Cardinality(Awaited(t)) \in Nat
      /\ Cardinality(Awaited(t)') = Cardinality(Awaited(t)) + 1
  BY <1>6, PartsFinite, FS_AddElement DEF AccountInv
<1>8. ASSUME OneRoot(t)'
      PROVE  LocalRoots(t) = {} /\ ~Registered(t) /\ OfTrace(t) = {}
  <2>1. LocalRoots(t) = {}
    BY <1>6, <1>8 DEF OneRoot
  <2> QED BY <2>1 DEF AccountInv, Accounted, Counted
<1>9. Registered(t)' /\ (~Registered(t) => Waiting(t)' = {})
  BY <1>4, EmptyVector DEF Registered, Waiting, InVector
<1>10. Counted(t)'
  <2>1. registry'[t].open_span_count <= Cardinality(Awaited(t)')
    <3>1. CASE Registered(t)
      <4>1. registry[t].open_span_count \in Nat
        BY <3>1 DEF AccountInv, Located, TypeOK, Trace, Registered
      <4> QED BY <1>4, <1>7, <3>1, <4>1 DEF AccountInv, Accounted, Counted
    <3>2. CASE ~Registered(t)
      BY <1>4, <1>7, <3>2
    <3> QED BY <3>1, <3>2
  <2>2. OneRoot(t)' => Cardinality(Awaited(t)') = registry'[t].open_span_count
    <3> SUFFICES ASSUME OneRoot(t)' PROVE Cardinality(Awaited(t)') = registry'[t].open_span_count
      OBVIOUS
    <3>1. Awaited(t)' = {s}
      BY <1>6, <1>8
    <3> QED BY <1>4, <1>8, <3>1, FS_Singleton
  <2> QED BY <1>6, <1>9, <2>1, <2>2 DEF Counted
<1>11. Observed(t)'
  <2>1. \A r \in registry'[t].active_spans : spans'[r].trace = t /\ spans'[r].stage = "started"
    <3>1. CASE Registered(t)
      <4>1. registry[t].active_spans \subseteq Spans
        BY <3>1 DEF AccountInv, Located, TypeOK, Trace, Registered
      <4> QED BY <1>2, <1>3, <1>4, <3>1, <4>1 DEF AccountInv, Accounted, Observed
    <3> QED BY <1>4, <3>1
  <2>2. OneRoot(t)' => \A r \in OfTrace(t)' : spans'[r].stage # "started"
    BY <1>3, <1>6, <1>8
  <2> QED BY <2>1, <2>2 DEF Observed
<1>12. Decided(t)'
  <2> SUFFICES ASSUME OneRoot(t)'
               PROVE  /\ \A q, r \in OfTrace(t)' : spans'[q].sampled = spans'[r].sampled
                      /\ \A r \in OfTrace(t)' :
                           spans'[r].sampled = is_keep(registry'[t].propagation_data.priority)
                      /\ \A r \in LocalRoots(t)' :
                           /\ registry'[t].propagation_data.priority # NoPriority
                           /\ registry'[t].propagation_data.origin = (spans'[r].parent # "none")
    BY <1>9 DEF Decided
  <2>1. OfTrace(t)' = {s} /\ LocalRoots(t)' = {s}
    BY <1>6, <1>8
  <2> QED BY <1>1, <1>3, <1>4, <1>8, <2>1
<1> QED BY <1>2, <1>3, <1>5, <1>10, <1>11, <1>12, StepAccounted DEF Accounted

\* A local root that nobody announced: its trace has not one announced root.
LEMMA ForeignAccounted ==
  ASSUME AccountInv, Located', NEW s \in Spans, NEW t \in Traces, NEW sampled \in BOOLEAN,
         should_sample_foreign(s, t, sampled)
  PROVE  AccountInv'
<1>1. /\ spans[s].stage = "unborn" /\ Born(s, t, "foreign", sampled)
      /\ registry' = registry /\ exported' = exported
  BY DEF should_sample_foreign
<1>2. /\ spans'[s].stage = "sampled" /\ spans'[s].trace = t /\ spans'[s].parent = "foreign"
      /\ \A r \in Spans \ {s} : spans'[r] = spans[r]
      /\ spans[s].trace = NoTrace /\ NoTrace # t
      /\ Keeps(s)
  BY <1>1, BornEffect
<1>3. /\ LocalRoots(t)' = LocalRoots(t) \cup {s} /\ Awaited(t)' = Awaited(t) /\ ~OneRoot(t)'
  <2>1. LocalRoots(t)' = LocalRoots(t) \cup {s} /\ Awaited(t)' = Awaited(t)
    BY <1>2 DEF LocalRoots, Awaited
  <2> QED BY <1>2, <2>1 DEF OneRoot
<1>4. Registered(t)' <=> Registered(t)
  BY <1>1 DEF Registered
<1>5. Counted(t)'
  BY <1>1, <1>3, <1>4 DEF AccountInv, Accounted, Counted
<1>6. Observed(t)'
  <2>1. Registered(t) => registry[t].active_spans \subseteq Spans
    BY DEF AccountInv, Located, TypeOK, Trace, Registered
  <2> QED BY <1>1, <1>2, <1>3, <1>4, <2>1 DEF AccountInv, Accounted, Observed
<1>7. Decided(t)'
  BY <1>3 DEF Decided
<1>8. Touches(s, t)
  BY <1>1, <1>2 DEF Touches
<1> QED BY <1>1, <1>2, <1>5, <1>6, <1>7, <1>8, StepAccounted DEF Accounted

\* A child takes the flag of its parent and is not waited for yet.
LEMMA ChildAccounted ==
  ASSUME AccountInv, Located', NEW s \in Spans, NEW p \in Spans, should_sample_child(s, p),
         NEW t \in Traces, spans[p].trace = t
  PROVE  AccountInv'
<1>1. /\ spans[s].stage = "unborn" /\ Born(s, t, "local", spans[p].sampled)
      /\ registry' = registry /\ exported' = exported /\ p \in OfTrace(t)
  BY DEF should_sample_child, OfTrace
<1>p. \A u \in Traces : Accounted(u)
  BY DEF AccountInv
<1>2. /\ spans'[s].stage = "sampled" /\ spans'[s].trace = t
      /\ spans'[s].parent = "local" /\ spans'[s].sampled = spans[p].sampled
      /\ \A r \in Spans \ {s} : spans'[r] = spans[r]
      /\ spans[s].trace = NoTrace /\ NoTrace # t
      /\ Keeps(s)
  BY <1>1, BornEffect
<1>3. /\ LocalRoots(t)' = LocalRoots(t) /\ s \notin LocalRoots(t)
      /\ Awaited(t)' = Awaited(t)
      /\ OfTrace(t)' = OfTrace(t) \cup {s} /\ LocalRoots(t) \subseteq OfTrace(t)
      /\ s \notin OfTrace(t)
  BY <1>2 DEF LocalRoots, Awaited, OfTrace
<1>4. OneRoot(t)' <=> OneRoot(t)
  BY <1>2, <1>3 DEF OneRoot, LocalRoots
<1>5. /\ Registered(t)' <=> Registered(t)
      /\ Waiting(t)' = Waiting(t)
  BY <1>1 DEF Registered, Waiting, InVector
<1>6. Counted(t)'
  BY <1>1, <1>3, <1>4, <1>5, <1>p DEF Accounted, Counted
<1>7. Observed(t)'
  <2>1. Registered(t) => registry[t].active_spans \subseteq Spans
    BY DEF AccountInv, Located, TypeOK, Trace, Registered
  <2>2. Registered(t) => \A r \in registry[t].active_spans :
                           spans'[r].trace = t /\ spans'[r].stage = "started"
    BY <1>1, <1>2, <1>p, <2>1 DEF Accounted, Observed
  <2>3. \A r \in OfTrace(t)' : spans'[r].stage = "started" =>
          r \in OfTrace(t) /\ spans[r].stage = "started"
    BY <1>2, <1>3 DEF OfTrace
  <2> QED BY <1>1, <1>4, <1>5, <1>p, <2>2, <2>3 DEF Accounted, Observed
<1>8. Decided(t)'
  <2>1. \A r \in OfTrace(t) : spans'[r] = spans[r]
    BY <1>2, <1>3 DEF OfTrace
  <2>2. OneRoot(t) => \A q, r \in OfTrace(t)' : spans'[q].sampled = spans'[r].sampled
    BY <1>1, <1>2, <1>3, <1>p, <2>1 DEF Accounted, Decided
  <2>3. OneRoot(t) /\ Registered(t) /\ registry[t].propagation_data.priority # NoPriority =>
          \A r \in OfTrace(t)' : spans'[r].sampled = is_keep(registry[t].propagation_data.priority)
    BY <1>1, <1>2, <1>3, <1>p, <2>1 DEF Accounted, Decided
  <2> QED BY <1>1, <1>3, <1>4, <1>5, <1>p, <2>1, <2>2, <2>3 DEF Accounted, Decided
<1>9. Touches(s, t)
  BY <1>1, <1>2 DEF Touches
<1> QED BY <1>1, <1>2, <1>6, <1>7, <1>8, <1>9, StepAccounted DEF Accounted

-----------------------------------------------------------------------------
(* Starting a span *)

LEMMA StartedEntry ==
  ASSUME AccountInv, NEW s \in Spans, NEW t \in Traces, NEW new \in {0, 1},
         IF new = 1 THEN register_span(s, t) ELSE register_local_root_span(s, t)
  PROVE  /\ DOMAIN registry' = DOMAIN registry \cup {t}
         /\ \A u \in DOMAIN registry \ {t} : registry'[u] = registry[u]
         /\ Registered(t) =>
              /\ registry'[t].open_span_count = registry[t].open_span_count + new
              /\ registry'[t].finished_spans = registry[t].finished_spans
              /\ registry'[t].active_spans = registry[t].active_spans
              /\ registry'[t].propagation_data = registry[t].propagation_data
         /\ ~Registered(t) =>
              /\ registry'[t].open_span_count = 1 /\ registry'[t].finished_spans = <<>>
              /\ registry'[t].active_spans = {}
              /\ registry'[t].propagation_data.priority = NoPriority
<1>1. registry \in [DOMAIN registry -> Trace] /\ DOMAIN registry \subseteq Traces
  BY DEF AccountInv, Located, TypeOK
<1>2. EMPTY_PROPAGATION_DATA.priority = NoPriority
  BY DEF EMPTY_PROPAGATION_DATA
<1>3. CASE new = 0
  <2> DEFINE trace == IF Registered(t) THEN registry[t] ELSE NewTrace(NoSpan, 1, EMPTY_PROPAGATION_DATA)
             rooted == IF trace.local_root_span_id = NoSpan
                         THEN [trace EXCEPT !.local_root_span_id = s] ELSE trace
  <2>1. trace \in Trace
    BY <1>1, NewTraceType, EmptyPropagationType DEF Registered
  <2>2. ~Registered(t) =>
          /\ trace.open_span_count = 1 /\ trace.finished_spans = <<>>
          /\ trace.active_spans = {} /\ trace.propagation_data = EMPTY_PROPAGATION_DATA
    BY DEF NewTrace
  <2>3. registry' = Insert(t, rooted)
    BY <1>3 DEF register_local_root_span
  <2>4. Registered(t) => trace = registry[t]
    OBVIOUS
  <2> HIDE DEF trace
  <2>5. /\ rooted \in Trace
        /\ rooted.open_span_count = trace.open_span_count
        /\ rooted.finished_spans = trace.finished_spans
        /\ rooted.active_spans = trace.active_spans
        /\ rooted.propagation_data = trace.propagation_data
    BY <2>1 DEF Trace
  <2> HIDE DEF rooted
  <2>6. /\ DOMAIN registry' = DOMAIN registry \cup {t} /\ registry'[t] = rooted
        /\ \A u \in DOMAIN registry \ {t} : registry'[u] = registry[u]
    BY <1>1, <2>3, <2>5, InsertType
  <2>7. trace.open_span_count \in Nat
    BY <2>1 DEF Trace
  <2> QED BY <1>2, <1>3, <2>2, <2>4, <2>5, <2>6, <2>7
<1>4. CASE new = 1
  <2> DEFINE trace == IF Registered(t) THEN registry[t] ELSE NewTrace(s, 0, EMPTY_PROPAGATION_DATA)
             counted == [trace EXCEPT !.open_span_count = @ + 1]
  <2>1. trace \in Trace
    BY <1>1, NewTraceType, EmptyPropagationType DEF Registered
  <2>2. ~Registered(t) =>
          /\ trace.open_span_count = 0 /\ trace.finished_spans = <<>>
          /\ trace.active_spans = {} /\ trace.propagation_data = EMPTY_PROPAGATION_DATA
    BY DEF NewTrace
  <2>3. registry' = Insert(t, counted)
    BY <1>4 DEF register_span
  <2>4. Registered(t) => trace = registry[t]
    OBVIOUS
  <2> HIDE DEF trace
  <2>5. /\ counted \in Trace
        /\ counted.open_span_count = trace.open_span_count + 1
        /\ counted.finished_spans = trace.finished_spans
        /\ counted.active_spans = trace.active_spans
        /\ counted.propagation_data = trace.propagation_data
    BY <2>1 DEF Trace
  <2> HIDE DEF counted
  <2>6. /\ DOMAIN registry' = DOMAIN registry \cup {t} /\ registry'[t] = counted
        /\ \A u \in DOMAIN registry \ {t} : registry'[u] = registry[u]
    BY <1>1, <2>3, <2>5, InsertType
  <2> QED BY <1>2, <1>4, <2>2, <2>4, <2>5, <2>6
<1> QED BY <1>3, <1>4

\* A span is registered: a child is waited for from now on, a local root was
\* already, unless nobody announced it.
LEMMA RegisterAccounted ==
  ASSUME AccountInv, Located', NEW s \in Spans, on_start_register(s),
         NEW t \in Traces, spans[s].trace = t
  PROVE  AccountInv'
<1> DEFINE new == IF spans[s].parent = "local" THEN 1 ELSE 0
<1>0. /\ spans[s].stage = "sampled" /\ spans' = [spans EXCEPT ![s].stage = "registered"]
      /\ exported' = exported
      /\ IF new = 1 THEN register_span(s, t) ELSE register_local_root_span(s, t)
  BY DEF on_start_register
<1>1. /\ spans'[s].stage = "registered" /\ spans'[s].trace = t /\ t \in Traces
      /\ spans'[s].parent = spans[s].parent /\ spans'[s].sampled = spans[s].sampled
      /\ \A r \in Spans \ {s} : spans'[r] = spans[r]
      /\ Keeps(s)
  BY <1>0, StageEffect DEF Stages
<1>t. spans[s].trace = t /\ new \in {0, 1} /\ (new = 1 <=> spans[s].parent = "local")
  OBVIOUS
<1> HIDE DEF new
<1>2. /\ DOMAIN registry' = DOMAIN registry \cup {t}
      /\ \A u \in DOMAIN registry \ {t} : registry'[u] = registry[u]
      /\ Registered(t) =>
           /\ registry'[t].open_span_count = registry[t].open_span_count + new
           /\ registry'[t].finished_spans = registry[t].finished_spans
           /\ registry'[t].active_spans = registry[t].active_spans
           /\ registry'[t].propagation_data = registry[t].propagation_data
      /\ ~Registered(t) =>
           /\ registry'[t].open_span_count = 1 /\ registry'[t].finished_spans = <<>>
           /\ registry'[t].active_spans = {}
           /\ registry'[t].propagation_data.priority = NoPriority
  BY <1>0, <1>1, <1>t, StartedEntry
<1>3. Touches(s, t)
  BY <1>1, <1>2, <1>t DEF Touches
<1>4. Accounted(t)
  BY <1>1 DEF AccountInv
<1>5. /\ LocalRoots(t)' = LocalRoots(t) /\ OfTrace(t)' = OfTrace(t) /\ s \in OfTrace(t)
      /\ LocalRoots(t) \subseteq OfTrace(t) /\ Awaited(t) \subseteq Spans
      /\ \A r \in OfTrace(t) : /\ spans'[r].sampled = spans[r].sampled
                               /\ spans'[r].parent = spans[r].parent
                               /\ spans'[r].stage = "ended" <=> spans[r].stage = "ended"
                               /\ spans'[r].stage = "started" <=> spans[r].stage = "started"
  BY <1>0, <1>1, <1>t DEF LocalRoots, OfTrace, Awaited
<1>6. OneRoot(t)' <=> OneRoot(t)
  BY <1>5 DEF OneRoot
<1>7. /\ Awaited(t)' = Awaited(t) \cup {s}
      /\ s \in Awaited(t) <=> spans[s].parent \notin {"local", "foreign"}
  BY <1>0, <1>1, <1>t DEF Awaited
<1>8. /\ Cardinality(Awaited(t)) \in Nat /\ (Cardinality(Awaited(t)) = 0 <=> Awaited(t) = {})
      /\ Cardinality(Awaited(t)') =
           IF s \in Awaited(t) THEN Cardinality(Awaited(t)) ELSE Cardinality(Awaited(t)) + 1
  BY <1>1, <1>7, PartsFinite, FS_AddElement DEF AccountInv
<1>9. OneRoot(t) => (spans[s].parent # "foreign" /\ (s \in Awaited(t) <=> new = 0))
  <2>1. spans[s].parent # "local" => s \in LocalRoots(t)
    BY <1>t DEF LocalRoots
  <2> QED BY <1>7, <1>t, <2>1 DEF OneRoot
<1>10. OneRoot(t) /\ ~Registered(t) => Awaited(t) = {} /\ new = 1
  BY <1>4, <1>8, <1>9, <1>t DEF Accounted, Counted
<1>11. Registered(t)' /\ (Registered(t) => Waiting(t)' = Waiting(t))
       /\ (~Registered(t) => Waiting(t)' = {})
  BY <1>2, EmptyVector DEF Registered, Waiting, InVector
<1>12. Counted(t)'
  <2>1. Registered(t) => registry[t].open_span_count \in Nat
    BY DEF AccountInv, Located, TypeOK, Trace, Registered
  <2>2. registry'[t].open_span_count <= Cardinality(Awaited(t)')
    <3>1. CASE Registered(t)
      <4>1. new = 1 => s \notin Awaited(t)
        BY <1>7, <1>t
      <4> QED BY <1>2, <1>4, <1>8, <1>t, <2>1, <3>1, <4>1 DEF Accounted, Counted
    <3>2. CASE ~Registered(t)
      <4>1. Cardinality(Awaited(t)') # 0
        BY <1>7, <1>8
      <4> QED BY <1>2, <1>8, <3>2, <4>1
    <3> QED BY <3>1, <3>2
  <2>3. OneRoot(t) => Cardinality(Awaited(t)') = registry'[t].open_span_count
    <3>1. CASE Registered(t)
      BY <1>2, <1>4, <1>8, <1>9, <1>t, <2>1, <3>1 DEF Accounted, Counted
    <3>2. CASE ~Registered(t)
      BY <1>2, <1>8, <1>10, <3>2
    <3> QED BY <3>1, <3>2
  <2>4. LocalRoots(t) # {}
    BY <1>4, <1>5 DEF Accounted, Counted
  <2> QED BY <1>5, <1>6, <1>7, <1>11, <2>2, <2>3, <2>4 DEF Counted
<1>13. Observed(t)'
  <2>1. Registered(t) => registry[t].active_spans \subseteq Spans
    BY DEF AccountInv, Located, TypeOK, Trace, Registered
  <2>2. \A r \in registry'[t].active_spans : spans'[r].trace = t /\ spans'[r].stage = "started"
    BY <1>0, <1>1, <1>2, <1>4, <2>1 DEF Accounted, Observed
  <2>3. OneRoot(t) => \A r \in OfTrace(t) : spans'[r].stage = "started" =>
                        r \in registry'[t].active_spans
    BY <1>2, <1>4, <1>5 DEF Accounted, Observed
  <2> QED BY <1>5, <1>6, <1>11, <2>2, <2>3 DEF Observed
<1>14. Decided(t)'
  <2> SUFFICES ASSUME OneRoot(t)
               PROVE  /\ \A q, r \in OfTrace(t) : spans'[q].sampled = spans'[r].sampled
                      /\ registry'[t].propagation_data.priority # NoPriority =>
                           \A r \in OfTrace(t) :
                             spans'[r].sampled = is_keep(registry'[t].propagation_data.priority)
                      /\ \A r \in LocalRoots(t) :
                           spans'[r].stage # "ended" \/ r \in Waiting(t)' =>
                             /\ registry'[t].propagation_data.priority # NoPriority
                             /\ registry'[t].propagation_data.origin = (spans'[r].parent # "none")
    BY <1>5, <1>6, <1>11 DEF Decided
  <2>1. CASE Registered(t)
    BY <1>2, <1>4, <1>5, <1>11, <2>1 DEF Accounted, Decided
  <2>2. CASE ~Registered(t)
    BY <1>2, <1>4, <1>5, <1>11, <2>2 DEF Accounted, Decided
  <2> QED BY <2>1, <2>2
<1> QED BY <1>0, <1>1, <1>3, <1>12, <1>13, <1>14, StepAccounted DEF Accounted

\* The metadata of a span is recorded: a trace that is counted right still has
\* its entry, because the span itself is waited for.
LEMMA MetadataAccounted ==
  ASSUME AccountInv, Located', NEW s \in Spans, on_start_metadata(s),
         NEW t \in Traces, spans[s].trace = t
  PROVE  AccountInv'
<1>0. /\ spans[s].stage = "registered" /\ spans' = [spans EXCEPT ![s].stage = "started"]
      /\ exported' = exported /\ set_active_span_metadata(s, t)
  BY DEF on_start_metadata
<1>1. /\ spans'[s].stage = "started" /\ spans'[s].trace = t
      /\ spans'[s].parent = spans[s].parent /\ spans'[s].sampled = spans[s].sampled
      /\ \A r \in Spans \ {s} : spans'[r] = spans[r]
      /\ Keeps(s)
  BY <1>0, StageEffect DEF Stages
<1>2. /\ DOMAIN registry' = DOMAIN registry
      /\ \A u \in DOMAIN registry \ {t} : registry'[u] = registry[u]
      /\ Registered(t) =>
           /\ registry'[t].active_spans = registry[t].active_spans \cup {s}
           /\ registry'[t].open_span_count = registry[t].open_span_count
           /\ registry'[t].finished_spans = registry[t].finished_spans
           /\ registry'[t].propagation_data = registry[t].propagation_data
  <2>1. CASE Registered(t)
    <3>1. registry[t] \in Trace
      BY <2>1 DEF AccountInv, Located, TypeOK, Registered
    <3>2. /\ DOMAIN registry' = DOMAIN registry
          /\ registry'[t] = [registry[t] EXCEPT !.active_spans = @ \cup {s}]
          /\ \A u \in DOMAIN registry \ {t} : registry'[u] = registry[u]
      BY <1>0, <2>1 DEF AccountInv, Located, TypeOK, Registered, set_active_span_metadata
    <3> QED BY <3>1, <3>2 DEF Trace
  <2>2. CASE ~Registered(t)
    BY <1>0, <2>2 DEF set_active_span_metadata
  <2> QED BY <2>1, <2>2
<1>3. Touches(s, t)
  BY <1>1, <1>2 DEF Touches
<1>4. Accounted(t)
  BY DEF AccountInv
<1>5. /\ LocalRoots(t)' = LocalRoots(t) /\ OfTrace(t)' = OfTrace(t)
      /\ LocalRoots(t) \subseteq OfTrace(t)
      /\ \A r \in OfTrace(t) : /\ spans'[r].sampled = spans[r].sampled
                               /\ spans'[r].parent = spans[r].parent
                               /\ spans'[r].stage = "ended" <=> spans[r].stage = "ended"
                               /\ spans'[r].stage = "started" <=> spans[r].stage = "started" \/ r = s
  BY <1>0, <1>1 DEF LocalRoots, OfTrace
<1>6. OneRoot(t)' <=> OneRoot(t)
  BY <1>5 DEF OneRoot
<1>7. Awaited(t)' = Awaited(t) /\ s \in Awaited(t)
  BY <1>0, <1>1 DEF Awaited
<1>8. /\ Registered(t)' <=> Registered(t)
      /\ Waiting(t)' = Waiting(t)
  BY <1>2 DEF Registered, Waiting, InVector
<1>9. OneRoot(t) => Registered(t)
  BY <1>4, <1>7, PartsFinite DEF Accounted, Counted, AccountInv
<1>10. Counted(t)'
  BY <1>2, <1>4, <1>5, <1>6, <1>7, <1>8 DEF Accounted, Counted
<1>11. Observed(t)'
  <2>1. Registered(t) => registry[t].active_spans \subseteq Spans
    BY DEF AccountInv, Located, TypeOK, Trace, Registered
  <2>2. Registered(t) => \A r \in registry'[t].active_spans :
                           spans'[r].trace = t /\ spans'[r].stage = "started"
    BY <1>0, <1>1, <1>2, <1>4, <2>1 DEF Accounted, Observed
  <2>3. OneRoot(t) => \A r \in OfTrace(t) : spans'[r].stage = "started" =>
                        r \in registry'[t].active_spans
    BY <1>2, <1>4, <1>5, <1>9 DEF Accounted, Observed
  <2> QED BY <1>5, <1>6, <1>8, <1>9, <2>2, <2>3 DEF Observed
<1>12. Decided(t)'
  BY <1>2, <1>4, <1>5, <1>6, <1>8 DEF Accounted, Decided
<1> QED BY <1>0, <1>1, <1>3, <1>10, <1>11, <1>12, StepAccounted DEF Accounted

-----------------------------------------------------------------------------
(* Ending a span *)

\* What finish_span leaves of the entry of its trace.
Stays(s, t) ==
  /\ Registered(t) /\ Registered(t)'
  /\ registry'[t].open_span_count = SaturatingPred(registry[t].open_span_count)
  /\ registry'[t].active_spans = registry[t].active_spans \ {s}
  /\ registry'[t].propagation_data = registry[t].propagation_data
  /\ Waiting(t)' \subseteq Waiting(t) \cup {s}
  /\ registry'[t].finished_spans # <<>> => registry'[t].open_span_count # 0

Goes(t) ==
  /\ ~Registered(t)'
  /\ Registered(t) => SaturatingPred(registry[t].open_span_count) = 0

\* The entry as finish_span leaves it before any flush.
LEMMA EndedTrace ==
  ASSUME AccountInv, NEW s \in Spans, NEW t \in Traces, spans[s].trace = t, on_end(s),
         Registered(t)
  PROVE  LET old   == registry[t]
             trace == FinishedTrace(old, s)
             chunk == ChunkOf(t, trace)
         IN  /\ trace \in Trace
             /\ InVector(trace.finished_spans) = Waiting(t) \cup {s}
             /\ trace.open_span_count = SaturatingPred(old.open_span_count)
             /\ trace.active_spans = old.active_spans \ {s}
             /\ trace.propagation_data = old.propagation_data
             /\ chunk.trace = t /\ chunk.propagation_data = old.propagation_data
             /\ chunk.finished_spans = trace.finished_spans
<1> DEFINE old == registry[t]
           trace == FinishedTrace(old, s)
           chunk == ChunkOf(t, trace)
<1>1. finish_span(s, t) /\ Ends(s, t)
  BY DEF on_end, Ends, AccountInv, Located, TypeOK
<1>2. registry \in [DOMAIN registry -> Trace]
  BY DEF AccountInv, Located, TypeOK
<1>3. old \in Trace /\ old.finished_spans \in Seq(Spans) /\ trace \in Trace
  BY <1>2, FinishedTraceType DEF Registered, Trace
<1>4. /\ trace.finished_spans = PushFinished(old.finished_spans, old.local_root_span_id, s)
      /\ trace.open_span_count = SaturatingPred(old.open_span_count)
      /\ trace.active_spans = old.active_spans \ {s}
      /\ trace.propagation_data = old.propagation_data
  BY <1>3 DEF FinishedTrace, Trace
<1>5. /\ chunk.trace = t /\ chunk.propagation_data = trace.propagation_data
      /\ chunk.finished_spans = trace.finished_spans
  BY DEF ChunkOf
<1>6. /\ Distinct(old.finished_spans)
      /\ s \notin InVector(old.finished_spans)
      /\ old.local_root_span_id \in InVector(old.finished_spans)
           => old.finished_spans[1] = old.local_root_span_id
      /\ Waiting(t) = InVector(old.finished_spans)
  BY <1>1, EndsFacts
  DEF AccountInv, Located, ExactlyOnce, RootFirst, VectorOf, Registered, Waiting
<1> HIDE DEF old, trace, chunk
<1>7. InVector(trace.finished_spans) = Waiting(t) \cup {s}
  BY <1>3, <1>4, <1>6, PushFinishedFacts
<1> QED BY <1>3, <1>4, <1>5, <1>7 DEF old, trace, chunk

LEMMA EndedEntry ==
  ASSUME AccountInv, NEW s \in Spans, NEW t \in Traces, spans[s].trace = t, on_end(s)
  PROVE  /\ \A u \in Traces \ {t} : /\ u \in DOMAIN registry' <=> u \in DOMAIN registry
                                    /\ u \in DOMAIN registry => registry'[u] = registry[u]
         /\ Stays(s, t) \/ Goes(t)
         /\ \A c \in exported' \ exported :
              /\ c.trace = t
              /\ Registered(t) => /\ c.propagation_data = registry[t].propagation_data
                                  /\ InVector(c.finished_spans) = Waiting(t) \cup {s}
              /\ PartialFlushEnabled \/ Goes(t)
<1> DEFINE old == registry[t]
           trace == FinishedTrace(old, s)
           chunk == ChunkOf(t, trace)
<1>1. finish_span(s, t) /\ Ends(s, t)
  BY DEF on_end, Ends, AccountInv, Located, TypeOK
<1>2. registry \in [DOMAIN registry -> Trace]
  BY DEF AccountInv, Located, TypeOK
<1>3. ASSUME Registered(t)
      PROVE  /\ trace \in Trace
             /\ InVector(trace.finished_spans) = Waiting(t) \cup {s}
             /\ trace.open_span_count = SaturatingPred(old.open_span_count)
             /\ trace.active_spans = old.active_spans \ {s}
             /\ trace.propagation_data = old.propagation_data
             /\ chunk.trace = t /\ chunk.propagation_data = old.propagation_data
             /\ chunk.finished_spans = trace.finished_spans
  BY <1>3, EndedTrace
<1>4. CASE finish_span_partial_flush(s, t)
  <2>1. /\ Registered(t)
        /\ registry' = [registry EXCEPT ![t] = [trace EXCEPT !.finished_spans = <<>>]]
        /\ exported' = exported \cup {chunk}
        /\ PartialFlushEnabled
    BY <1>4 DEF finish_span_partial_flush, PartialFlush
  <2> DEFINE left == [trace EXCEPT !.finished_spans = <<>>]
  <2>2. /\ left.open_span_count = trace.open_span_count
        /\ left.active_spans = trace.active_spans
        /\ left.propagation_data = trace.propagation_data
        /\ left.finished_spans = <<>>
    <3>1. trace \in Trace
      BY <1>3, <2>1
    <3> HIDE DEF trace
    <3> QED BY <3>1 DEF Trace
  <2> HIDE DEF left, trace, chunk
  <2>3. /\ DOMAIN registry' = DOMAIN registry
        /\ registry'[t] = left
        /\ \A u \in DOMAIN registry \ {t} : registry'[u] = registry[u]
    BY <1>2, <2>1 DEF Registered, left
  <2>4. Registered(t)' /\ Waiting(t)' = {}
    BY <2>1, <2>2, <2>3, EmptyVector DEF Registered, Waiting, InVector
  <2>5. Stays(s, t)
    BY <1>3, <2>1, <2>2, <2>3, <2>4 DEF Stays
  <2> QED BY <1>3, <2>1, <2>3, <2>5
<1>5. CASE finish_span_last(s, t)
  <2>1. /\ Registered(t) /\ registry' = Remove(t) /\ exported' = exported \cup {chunk}
        /\ trace.open_span_count = 0
    BY <1>5 DEF finish_span_last
  <2> HIDE DEF trace, chunk
  <2>2. /\ DOMAIN registry' = DOMAIN registry \ {t}
        /\ \A u \in DOMAIN registry \ {t} : registry'[u] = registry[u]
    BY <2>1 DEF Remove
  <2>3. Goes(t)
    BY <1>3, <2>1, <2>2 DEF Goes, Registered
  <2> QED BY <1>3, <2>1, <2>2, <2>3
<1>6. CASE finish_span_keep(s, t)
  <2>1. /\ Registered(t) /\ registry' = [registry EXCEPT ![t] = trace] /\ exported' = exported
        /\ trace.open_span_count # 0
    BY <1>6 DEF finish_span_keep
  <2> HIDE DEF trace, chunk
  <2>2. /\ DOMAIN registry' = DOMAIN registry /\ registry'[t] = trace
        /\ \A u \in DOMAIN registry \ {t} : registry'[u] = registry[u]
    BY <1>2, <2>1 DEF Registered
  <2>3. Registered(t)' /\ Waiting(t)' = InVector(trace.finished_spans)
    BY <2>1, <2>2 DEF Registered, Waiting, InVector
  <2>4. Stays(s, t)
    BY <1>3, <2>1, <2>2, <2>3 DEF Stays
  <2> QED BY <2>1, <2>2, <2>4
<1>7. CASE finish_span_orphan(s, t)
  <2> DEFINE orphan == [trace |-> t, local_root_span_id |-> s, finished_spans |-> <<s>>,
                        propagation_data |-> EMPTY_PROPAGATION_DATA]
  <2>1. ~Registered(t) /\ registry' = registry /\ exported' = exported \cup {orphan}
    BY <1>7 DEF finish_span_orphan
  <2>2. orphan.trace = t
    OBVIOUS
  <2> HIDE DEF orphan
  <2> QED BY <2>1, <2>2 DEF Goes, Registered
<1> QED BY <1>1, <1>4, <1>5, <1>6, <1>7 DEF finish_span

\* A span ends: the trace waits for one span less, and its entry goes with the
\* last one.
LEMMA EndAccounted ==
  ASSUME AccountInv, Located', NEW s \in Spans, on_end(s),
         NEW t \in Traces, spans[s].trace = t
  PROVE  AccountInv'
<1>0. spans[s].stage = "started" /\ spans' = [spans EXCEPT ![s].stage = "ended"]
  BY DEF on_end
<1>1. /\ spans'[s].stage = "ended" /\ spans'[s].trace = t
      /\ spans'[s].parent = spans[s].parent /\ spans'[s].sampled = spans[s].sampled
      /\ \A r \in Spans \ {s} : spans'[r] = spans[r]
      /\ Keeps(s)
  BY <1>0, StageEffect DEF Stages
<1>2. /\ \A u \in Traces \ {t} : /\ u \in DOMAIN registry' <=> u \in DOMAIN registry
                                 /\ u \in DOMAIN registry => registry'[u] = registry[u]
      /\ Stays(s, t) \/ Goes(t)
      /\ \A c \in exported' \ exported :
           /\ c.trace = t
           /\ Registered(t) => /\ c.propagation_data = registry[t].propagation_data
                               /\ InVector(c.finished_spans) = Waiting(t) \cup {s}
  BY EndedEntry
<1>3. Touches(s, t)
  BY <1>1, <1>2 DEF Touches
<1>4. Accounted(t)
  BY DEF AccountInv
<1>5. /\ LocalRoots(t)' = LocalRoots(t) /\ OfTrace(t)' = OfTrace(t) /\ s \in OfTrace(t)
      /\ LocalRoots(t) \subseteq OfTrace(t)
      /\ \A r \in OfTrace(t) : /\ spans'[r].sampled = spans[r].sampled
                               /\ spans'[r].parent = spans[r].parent
                               /\ spans'[r].stage = "ended" <=> spans[r].stage = "ended" \/ r = s
                               /\ spans'[r].stage = "started" <=> spans[r].stage = "started" /\ r # s
  BY <1>0, <1>1 DEF LocalRoots, OfTrace
<1>6. OneRoot(t)' <=> OneRoot(t)
  BY <1>5 DEF OneRoot
<1>7. Awaited(t)' = Awaited(t) \ {s} /\ s \in Awaited(t)
  BY <1>0, <1>1 DEF Awaited
<1>8. /\ Cardinality(Awaited(t)) \in Nat \ {0}
      /\ Cardinality(Awaited(t)') = Cardinality(Awaited(t)) - 1
      /\ Cardinality(Awaited(t)') = 0 <=> Awaited(t)' = {}
  <2>1. IsFiniteSet(Awaited(t)) /\ Cardinality(Awaited(t)) \in Nat
    BY PartsFinite DEF AccountInv
  <2>2. IsFiniteSet(Awaited(t) \ {s})
        /\ Cardinality(Awaited(t) \ {s}) = Cardinality(Awaited(t)) - 1
    BY <1>7, <2>1, FS_RemoveElement
  <2> QED BY <1>7, <2>1, <2>2, FS_CardinalityType, FS_EmptySet
<1>9. Registered(t) => registry[t].open_span_count \in Nat
  BY DEF AccountInv, Located, TypeOK, Trace, Registered
<1>10. OneRoot(t) => Registered(t) /\ registry[t].open_span_count = Cardinality(Awaited(t))
  BY <1>4, <1>8 DEF Accounted, Counted
<1>11. OneRoot(t) /\ Goes(t) => Awaited(t)' = {}
  BY <1>8, <1>9, <1>10 DEF Goes, SaturatingPred
<1>12. Counted(t)'
  <2>1. LocalRoots(t) # {}
    BY <1>4, <1>5 DEF Accounted, Counted
  <2>2. Registered(t)' =>
          /\ registry'[t].open_span_count <= Cardinality(Awaited(t)')
          /\ registry'[t].finished_spans # <<>> => Awaited(t)' # {}
    <3> SUFFICES ASSUME Registered(t)'
                 PROVE  /\ registry'[t].open_span_count <= Cardinality(Awaited(t)')
                        /\ registry'[t].finished_spans # <<>> => Awaited(t)' # {}
      OBVIOUS
    <3>1. Stays(s, t)
      BY <1>2 DEF Goes
    <3>2. /\ registry'[t].open_span_count = SaturatingPred(registry[t].open_span_count)
          /\ registry[t].open_span_count \in Nat
          /\ registry[t].open_span_count <= Cardinality(Awaited(t))
          /\ registry'[t].finished_spans # <<>> => registry'[t].open_span_count # 0
      BY <1>4, <1>9, <3>1 DEF Stays, Accounted, Counted
    <3> QED BY <1>8, <3>2 DEF SaturatingPred
  <2>3. OneRoot(t) =>
          Cardinality(Awaited(t)') = IF Registered(t)' THEN registry'[t].open_span_count ELSE 0
    <3>1. CASE Stays(s, t)
      BY <1>8, <1>9, <1>10, <3>1 DEF Stays, SaturatingPred
    <3>2. CASE Goes(t)
      BY <1>8, <1>11, <3>2 DEF Goes
    <3> QED BY <1>2, <3>1, <3>2
  <2> QED BY <1>5, <1>6, <2>1, <2>2, <2>3 DEF Counted
<1>13. Observed(t)'
  <2>1. Registered(t) => registry[t].active_spans \subseteq Spans
    BY DEF AccountInv, Located, TypeOK, Trace, Registered
  <2>2. Registered(t)' => \A r \in registry'[t].active_spans :
                            spans'[r].trace = t /\ spans'[r].stage = "started"
    BY <1>1, <1>2, <1>4, <2>1 DEF Stays, Goes, Accounted, Observed
  <2>3. OneRoot(t) => \A r \in OfTrace(t) : spans'[r].stage = "started" =>
                        Registered(t)' /\ r \in registry'[t].active_spans
    <3>1. CASE Stays(s, t)
      BY <1>4, <1>5, <3>1 DEF Stays, Accounted, Observed
    <3>2. CASE Goes(t)
      <4>1. \A r \in OfTrace(t) : spans'[r].stage = "started" => r \in Awaited(t)'
        BY <1>5 DEF Awaited, OfTrace
      <4> QED BY <1>11, <3>2, <4>1
    <3> QED BY <1>2, <3>1, <3>2
  <2> QED BY <1>5, <1>6, <2>2, <2>3 DEF Observed
<1>14. OneRoot(t) => \A r \in LocalRoots(t) : spans[r].stage # "ended" \/ r \in Waiting(t) =>
         /\ registry[t].propagation_data.priority # NoPriority
         /\ registry[t].propagation_data.origin = (spans[r].parent # "none")
         /\ spans[r].sampled = is_keep(registry[t].propagation_data.priority)
  BY <1>4, <1>5, <1>10 DEF Accounted, Decided
<1>15. Decided(t)'
  <2> SUFFICES ASSUME OneRoot(t)
               PROVE  /\ \A q, r \in OfTrace(t) : spans'[q].sampled = spans'[r].sampled
                      /\ Registered(t)' /\ registry'[t].propagation_data.priority # NoPriority =>
                           \A r \in OfTrace(t) :
                             spans'[r].sampled = is_keep(registry'[t].propagation_data.priority)
                      /\ \A r \in LocalRoots(t) :
                           spans'[r].stage # "ended" \/ r \in Waiting(t)' =>
                             /\ Registered(t)'
                             /\ registry'[t].propagation_data.priority # NoPriority
                             /\ registry'[t].propagation_data.origin = (spans'[r].parent # "none")
    BY <1>5, <1>6 DEF Decided
  <2>1. \A q, r \in OfTrace(t) : spans'[q].sampled = spans'[r].sampled
    BY <1>4, <1>5 DEF Accounted, Decided
  <2>2. CASE Stays(s, t)
    BY <1>0, <1>4, <1>5, <1>14, <2>1, <2>2 DEF Stays, Accounted, Decided
  <2>3. CASE Goes(t)
    <3>1. Waiting(t)' = {} /\ ~Registered(t)'
      BY <2>3 DEF Goes, Waiting, Registered
    <3>2. \A r \in LocalRoots(t) : spans'[r].stage # "ended" => r \in Awaited(t)'
      <4> SUFFICES ASSUME NEW r \in LocalRoots(t), spans'[r].stage # "ended"
                   PROVE  r \in Awaited(t)'
        OBVIOUS
      <4>1. /\ r \in Spans /\ spans'[r].trace = t /\ spans'[r].parent \notin {"local", "foreign"}
        BY <1>5 DEF LocalRoots, OneRoot
      <4>2. r # s /\ spans'[r] = spans[r] /\ spans[r].stage # "unborn"
        BY <1>1, <4>1, RegistryAssumption DEF AccountInv, Grown
      <4>3. spans[r].stage \in Stages
        BY <4>1 DEF AccountInv, Located, TypeOK, Span
      <4> QED BY <4>1, <4>2, <4>3 DEF Awaited, Stages
    <3> QED BY <1>11, <2>1, <2>3, <3>1, <3>2
  <2> QED BY <1>2, <2>2, <2>3
<1>16. \A c \in exported' \ exported : OneRoot(c.trace)' =>
         \A r \in InVector(c.finished_spans) : spans'[r].parent # "local" =>
           /\ c.propagation_data.priority # NoPriority
           /\ is_keep(c.propagation_data.priority) = spans'[r].sampled
           /\ c.propagation_data.origin = (spans'[r].parent # "none")
  <2> SUFFICES ASSUME NEW c \in exported' \ exported, OneRoot(t),
                      NEW r \in InVector(c.finished_spans), spans'[r].parent # "local"
               PROVE  /\ c.propagation_data.priority # NoPriority
                      /\ is_keep(c.propagation_data.priority) = spans'[r].sampled
                      /\ c.propagation_data.origin = (spans'[r].parent # "none")
    BY <1>2, <1>6
  <2>1. r \in Waiting(t) \cup {s} /\ c.propagation_data = registry[t].propagation_data
    BY <1>2, <1>10
  <2>2. r \in OfTrace(t)
    <3>1. ASSUME r \in Waiting(t) PROVE r \in Spans /\ spans[r].trace = t
      <4>1. Registered(t) /\ r \in InVector(registry[t].finished_spans)
        BY <1>10, <3>1 DEF Waiting
      <4>2. registry[t].finished_spans \in Seq(Spans)
        BY <4>1 DEF AccountInv, Located, TypeOK, Trace, Registered
      <4>3. r \in Spans
        BY <4>1, <4>2 DEF InVector
      <4> QED BY <4>1, <4>3 DEF AccountInv, Located, ExactlyOnce, VectorOf, Registered
    <3> QED BY <1>5, <2>1, <3>1 DEF OfTrace
  <2>3. r \in LocalRoots(t) /\ (spans[r].stage # "ended" \/ r \in Waiting(t))
    BY <1>0, <1>5, <2>1, <2>2 DEF LocalRoots, OfTrace
  <2> QED BY <1>5, <1>14, <2>1, <2>2, <2>3
<1> QED BY <1>1, <1>3, <1>12, <1>13, <1>15, <1>16, StepAccounted DEF Accounted

-----------------------------------------------------------------------------
(* The theorems *)

LEMMA AccountStep == AccountInv /\ [Next]_vars => AccountInv'
<1> SUFFICES ASSUME AccountInv, [Next]_vars PROVE AccountInv'
  OBVIOUS
<1>1. Located'
  BY LocatedInductive DEF AccountInv
<1>2. \A s \in Spans : spans[s].stage # "unborn" => \E t \in Traces : spans[s].trace = t
  BY DEF AccountInv, Located, TypeOK
<1>3. ASSUME NEW s \in Spans, NEW t \in Traces, NEW parent \in ParentKinds, NEW p \in Priorities,
             should_sample_root(s, t, parent, p)
      PROVE  AccountInv'
  BY <1>1, <1>3, RootAccounted
<1>4. ASSUME NEW s \in Spans, NEW t \in Traces, NEW sampled \in BOOLEAN,
             should_sample_foreign(s, t, sampled)
      PROVE  AccountInv'
  BY <1>1, <1>4, ForeignAccounted
<1>5. ASSUME NEW s \in Spans, NEW p \in Spans, should_sample_child(s, p)
      PROVE  AccountInv'
  <2>1. PICK t \in Traces : spans[p].trace = t
    BY <1>2, <1>5 DEF should_sample_child
  <2> QED BY <1>1, <1>5, <2>1, ChildAccounted
<1>6. ASSUME NEW s \in Spans, on_start_register(s) \/ on_start_metadata(s) \/ on_end(s)
      PROVE  AccountInv'
  <2>1. PICK t \in Traces : spans[s].trace = t
    BY <1>2, <1>6 DEF on_start_register, on_start_metadata, on_end
  <2> QED BY <1>1, <1>6, <2>1, RegisterAccounted, MetadataAccounted, EndAccounted
<1>7. CASE registry' = registry /\ spans' = spans /\ exported' = exported
  <2>1. Grown'
    BY <1>7 DEF AccountInv, Grown, Known
  <2>2. ASSUME NEW t \in Traces PROVE Accounted(t)'
    <3>1. /\ LocalRoots(t)' = LocalRoots(t) /\ OfTrace(t)' = OfTrace(t)
          /\ Awaited(t)' = Awaited(t) /\ Waiting(t)' = Waiting(t)
          /\ (Registered(t)' <=> Registered(t))
      BY <1>7 DEF LocalRoots, OfTrace, Awaited, Waiting, Registered, InVector
    <3>2. OneRoot(t)' <=> OneRoot(t)
      BY <1>7, <3>1 DEF OneRoot
    <3>3. Accounted(t)
      BY DEF AccountInv
    <3> QED BY <1>7, <3>1, <3>2, <3>3 DEF Accounted, Counted, Observed, Decided
  <2>3. ChunksDecided(exported)'
    BY <1>7 DEF AccountInv, ChunksDecided, OneRoot, LocalRoots, InVector
  <2> QED BY <1>1, <2>1, <2>2, <2>3 DEF AccountInv
<1> QED BY <1>3, <1>4, <1>5, <1>6, <1>7 DEF Next, vars, get_metrics_shard

LEMMA AccountImplies ==
  ASSUME AccountInv
  PROVE  OpenCountExact /\ ActiveMetadataExact /\ DecisionsAgree
<1>1. \A t \in Traces : AnnouncedOnce(t) <=> OneRoot(t)
  BY AnnouncedOneRoot DEF AccountInv
<1>2. \A t \in Traces : Accounted(t)
  BY DEF AccountInv
<1>3. DOMAIN registry \subseteq Traces
  BY DEF AccountInv, Located, TypeOK
<1>4. OpenCountExact
  BY <1>1, <1>2, <1>3 DEF OpenCountExact, Accounted, Counted, Registered
<1>5. \A s \in Spans : spans[s].stage # "unborn" => spans[s].trace \in Traces
  BY DEF AccountInv, Located, TypeOK
<1>6. ActiveMetadataExact
  <2>1. \A s \in Spans : s \in OfTrace(spans[s].trace)
    BY DEF OfTrace
  <2> QED BY <1>1, <1>2, <1>3, <1>5, <2>1 DEF ActiveMetadataExact, Accounted, Observed, Registered
<1>7. ASSUME NEW s \in Spans, spans[s].stage \in {"sampled", "registered", "started"},
             AnnouncedOnce(spans[s].trace)
      PROVE  is_keep(InjectedPriority(s)) = spans[s].sampled
  <2>1. PICK t \in Traces : spans[s].trace = t
    BY <1>5, <1>7
  <2>2. OneRoot(t) /\ Decided(t) /\ s \in OfTrace(t)
    BY <1>1, <1>2, <1>7, <2>1 DEF Accounted, OfTrace
  <2>3. spans[s].sampled \in BOOLEAN
    BY DEF AccountInv, Located, TypeOK, Span
  <2>4. CASE get_trace_propagation_data(t).priority = NoPriority
    <3>1. InjectedPriority(s) = IF spans[s].sampled THEN 1 ELSE 0
      BY <2>1, <2>4 DEF InjectedPriority
    <3> QED BY <2>3, <3>1 DEF is_keep
  <2>5. CASE get_trace_propagation_data(t).priority # NoPriority
    <3>1. Registered(t)
      BY <2>5 DEF get_trace_propagation_data, EMPTY_PROPAGATION_DATA
    <3>2. InjectedPriority(s) = registry[t].propagation_data.priority
      BY <2>1, <2>5, <3>1 DEF InjectedPriority, get_trace_propagation_data
    <3> QED BY <2>2, <2>5, <3>1, <3>2 DEF Decided, get_trace_propagation_data
  <2> QED BY <2>4, <2>5
<1>8. \A c \in exported : c.trace \in Traces
  BY DEF AccountInv, Located, TypeOK, Chunk
<1>9. DecisionsAgree
  BY <1>1, <1>7, <1>8 DEF DecisionsAgree, AccountInv, ChunksDecided
<1> QED BY <1>4, <1>6, <1>9

LEMMA Accounts == Spec => []AccountInv
BY AccountInitially, AccountStep, PTL DEF Spec

\* A trace waits in the registry for exactly the spans that are to end: with
\* one announced root open_span_count is their number through every race of
\* the sampler with the threads that start and end spans, and with any mix of
\* local roots it never exceeds it, so that a trace with finished spans is
\* always closed by a span that is still to end.
THEOREM CountIsExact == Spec => []OpenCountExact
<1>1. AccountInv => OpenCountExact
  BY AccountImplies
<1> QED BY <1>1, Accounts, PTL

\* The registry keeps the metadata of exactly the active spans: never that of
\* a span that ended or of another trace, and, with one announced root, that
\* of every span between on_start and on_end.
THEOREM MetadataIsExact == Spec => []ActiveMetadataExact
<1>1. AccountInv => ActiveMetadataExact
  BY AccountImplies
<1> QED BY <1>1, Accounts, PTL

\* With one announced root a trace has one decision: the flag of every span,
\* the priority that inject_context sends and the data stamped on the exported
\* root agree, whether the registry still has the trace or not.
THEOREM OneDecision == Spec => []DecisionsAgree
<1>1. AccountInv => DecisionsAgree
  BY AccountImplies
<1> QED BY <1>1, Accounts, PTL

-----------------------------------------------------------------------------
(* Complete chunks *)

\* A chunk of a trace with one announced root has every span that the trace
\* waited for.
CompleteChunks ==
  \A c \in exported' \ exported :
    AnnouncedOnce(c.trace) => Awaited(c.trace) \subseteq InVector(c.finished_spans)

LEMMA EndCompletes ==
  ASSUME AccountInv, NEW s \in Spans, on_end(s), NEW t \in Traces, spans[s].trace = t,
         ~PartialFlushEnabled
  PROVE  CompleteChunks
<1> SUFFICES ASSUME NEW c \in exported' \ exported, AnnouncedOnce(c.trace)
             PROVE  Awaited(c.trace) \subseteq InVector(c.finished_spans)
  BY DEF CompleteChunks
<1>1. /\ c.trace = t /\ Goes(t)
      /\ Registered(t) => InVector(c.finished_spans) = Waiting(t) \cup {s}
  BY EndedEntry
<1>2. OneRoot(t) /\ Accounted(t)
  BY <1>1, AnnouncedOneRoot DEF AccountInv
<1>3. s \in Awaited(t)
  BY DEF Awaited, on_end
<1>4. /\ IsFiniteSet(Awaited(t)) /\ Cardinality(Awaited(t)) \in Nat
      /\ Cardinality(Awaited(t)) = 0 <=> Awaited(t) = {}
  BY PartsFinite DEF AccountInv
<1>5. Registered(t) /\ registry[t].open_span_count = Cardinality(Awaited(t))
  BY <1>2, <1>3, <1>4 DEF Accounted, Counted
<1>6. Cardinality(Awaited(t)) = 1
  BY <1>1, <1>3, <1>4, <1>5 DEF Goes, SaturatingPred
<1>7. Awaited(t) = {s}
  BY <1>3, <1>4, <1>6, AtMostOne
<1> QED BY <1>1, <1>5, <1>7

\* "If the trace is finished, return the full trace chunk": without partial
\* flushing, a trace with one announced root is exported only when the span
\* that ends is the last one it waits for, and that span is in the chunk.
\* Several roots under one trace id break this.
THEOREM OneRootChunksComplete ==
  ASSUME ~PartialFlushEnabled
  PROVE  Spec => [][CompleteChunks]_vars
<1>1. AccountInv /\ [Next]_vars => CompleteChunks
  <2> SUFFICES ASSUME AccountInv, [Next]_vars PROVE CompleteChunks
    OBVIOUS
  <2>1. ASSUME NEW s \in Spans, on_end(s) PROVE CompleteChunks
    <3>1. PICK t \in Traces : spans[s].trace = t
      BY <2>1 DEF on_end, AccountInv, Located, TypeOK
    <3> QED BY <2>1, <3>1, EndCompletes
  <2>2. CASE exported' = exported
    BY <2>2 DEF CompleteChunks
  <2> QED BY <2>1, <2>2, StepQuiet DEF AccountInv, Located, Quiet
<1> QED BY <1>1, Accounts, PTL DEF Spec

-----------------------------------------------------------------------------
(* Telemetry counters                                                      *)

CounterNames ==
  {"spans_created", "spans_finished", "trace_segments_created", "trace_segments_closed",
   "trace_partial_flush_count"}

LEMMA CounterValues ==
  ASSUME NEW m \in Metrics, NEW n \in Metrics, NEW name \in CounterNames
  PROVE  m[name] \in Nat /\ AddMetrics(m, n)[name] = m[name] + n[name]
BY DEF CounterNames, Metrics, AddMetrics

LEMMA NoCounterValues ==
  ASSUME NEW name \in CounterNames
  PROVE  NoMetrics \in Metrics /\ NoMetrics[name] = 0
BY DEF CounterNames, NoMetrics, Metrics

\* The points that are in the shards.
LEMMA ShardPoints ==
  ASSUME NEW m \in [Shards -> Metrics], NEW name \in CounterNames
  PROVE  /\ IsFiniteSet(Shards)
         /\ \A i \in Shards : [j \in Shards |-> m[j][name]][i] = m[i][name] /\ m[i][name] \in Nat
         /\ SumOf([j \in Shards |-> m[j][name]], Shards) \in Nat
<1> DEFINE f == [j \in Shards |-> m[j][name]]
<1>1. IsFiniteSet(Shards)
  BY RegistryAssumption, FS_Interval DEF Shards
<1>2. \A i \in Shards : f[i] = m[i][name] /\ m[i][name] \in Nat
  BY CounterValues
<1> HIDE DEF f
<1>3. SumOf(f, Shards) \in Nat
  BY <1>1, <1>2, SumIsNumber
<1> QED BY <1>1, <1>2, <1>3 DEF f

\* A shard whose counter goes from a to b changes the points in the shards by
\* as much.
LEMMA ShardChanged ==
  ASSUME NEW m \in [Shards -> Metrics], NEW n \in [Shards -> Metrics], NEW i \in Shards,
         \A j \in Shards \ {i} : n[j] = m[j], NEW name \in CounterNames
  PROVE  SumOf([j \in Shards |-> n[j][name]], Shards) + m[i][name]
           = SumOf([j \in Shards |-> m[j][name]], Shards) + n[i][name]
<1> DEFINE f == [j \in Shards |-> m[j][name]]
           g == [j \in Shards |-> n[j][name]]
<1>1. IsFiniteSet(Shards)
  BY ShardPoints
<1>2. /\ \A j \in Shards : f[j] = m[j][name] /\ f[j] \in Nat
      /\ \A j \in Shards : g[j] = n[j][name] /\ g[j] \in Nat
  BY ShardPoints
<1>3. \A j \in Shards \ {i} : f[j] = g[j]
  BY <1>2
<1> HIDE DEF f, g
<1>4. SumOf(g, Shards) + f[i] = SumOf(f, Shards) + g[i]
  BY <1>1, <1>2, <1>3, SumWithOneChanged
<1> QED BY <1>2, <1>4 DEF f, g

LEMMA PointsAreNumbers ==
  ASSUME TypeOK, NEW name \in CounterNames
  PROVE  /\ collector.emitted[name] \in Nat /\ collector.stats[name] \in Nat
         /\ SumOf([i \in Shards |-> metrics[i][name]], Shards) \in Nat
         /\ Points(name) \in Nat
<1>1. collector.emitted[name] \in Nat /\ collector.stats[name] \in Nat
  BY CounterValues DEF TypeOK, Collector
<1>2. SumOf([i \in Shards |-> metrics[i][name]], Shards) \in Nat
  BY ShardPoints DEF TypeOK
<1> QED BY <1>1, <1>2 DEF Points

\* What is counted in the shard of a trace is counted once.
LEMMA CountPoints ==
  ASSUME TypeOK, NEW t \in Traces, NEW delta \in Metrics, Count(t, delta),
         collector' = collector, NEW name \in CounterNames
  PROVE  Points(name)' = Points(name) + delta[name]
<1> DEFINE i == ShardOf[t]
<1>1. i \in Shards /\ metrics \in [Shards -> Metrics]
  BY RegistryAssumption DEF Shards, TypeOK
<1>2. metrics' = [metrics EXCEPT ![i] = AddMetrics(metrics[i], delta)]
  BY DEF Count
<1>3. metrics' \in [Shards -> Metrics]
  BY <1>1, CountType
<1> HIDE DEF i
<1>4. /\ \A j \in Shards \ {i} : metrics'[j] = metrics[j]
      /\ metrics'[i] = AddMetrics(metrics[i], delta)
  BY <1>1, <1>2
<1>5. /\ metrics'[i][name] = metrics[i][name] + delta[name]
      /\ metrics[i][name] \in Nat /\ delta[name] \in Nat
  BY <1>1, <1>4, CounterValues
<1> DEFINE before == SumOf([j \in Shards |-> metrics[j][name]], Shards)
           after == SumOf([j \in Shards |-> metrics'[j][name]], Shards)
<1>6. after + metrics[i][name] = before + metrics'[i][name]
  BY <1>1, <1>3, <1>4, ShardChanged
<1>7. before \in Nat /\ after \in Nat
  BY <1>1, <1>3, ShardPoints
<1>8. /\ Points(name) = collector.emitted[name] + collector.stats[name] + before
      /\ Points(name)' = collector.emitted[name] + collector.stats[name] + after
      /\ collector.emitted[name] \in Nat /\ collector.stats[name] \in Nat
  BY PointsAreNumbers DEF Points
<1> HIDE DEF before, after
<1> QED BY <1>5, <1>6, <1>7, <1>8

\* The collector moves points and loses none.
LEMMA CollectPoints ==
  ASSUME TypeOK, get_metrics_shard, NEW name \in CounterNames
  PROVE  Points(name)' = Points(name)
<1> DEFINE i == collector.shard
           stats == AddMetrics(collector.stats, metrics[i])
<1>1. /\ i \in Shards /\ metrics \in [Shards -> Metrics] /\ metrics[i] \in Metrics
      /\ collector.stats \in Metrics /\ collector.emitted \in Metrics /\ NoMetrics \in Metrics
  BY DeltaType DEF Shards, TypeOK, Collector
<1>2. metrics' = [metrics EXCEPT ![i] = NoMetrics]
  BY DEF get_metrics_shard
<1>3. /\ metrics' \in [Shards -> Metrics] /\ metrics'[i] = NoMetrics
      /\ \A j \in Shards \ {i} : metrics'[j] = metrics[j]
  BY <1>1, <1>2
<1>4. stats \in Metrics /\ stats[name] = collector.stats[name] + metrics[i][name]
  BY <1>1, AddMetricsType, CounterValues
<1>5. collector'.emitted[name] + collector'.stats[name] = collector.emitted[name] + stats[name]
  <2>1. CASE i < NumShards
    <3>1. collector' = [collector EXCEPT !.shard = i + 1, !.stats = stats]
      BY <2>1 DEF get_metrics_shard
    <3> HIDE DEF stats
    <3>2. collector'.emitted = collector.emitted /\ collector'.stats = stats
      BY <3>1 DEF TypeOK, Collector
    <3> QED BY <3>2
  <2>2. CASE ~(i < NumShards)
    <3>1. collector' = [shard |-> 1, stats |-> NoMetrics, rounds |-> collector.rounds + 1,
                        emitted |-> AddMetrics(collector.emitted, stats)]
      BY <2>2 DEF get_metrics_shard
    <3> HIDE DEF stats
    <3>2. collector'.emitted = AddMetrics(collector.emitted, stats) /\ collector'.stats = NoMetrics
      BY <3>1
    <3>3. /\ AddMetrics(collector.emitted, stats)[name] = collector.emitted[name] + stats[name]
          /\ collector.emitted[name] \in Nat /\ stats[name] \in Nat /\ NoMetrics[name] = 0
      BY <1>1, <1>4, CounterValues, NoCounterValues
    <3> QED BY <3>2, <3>3
  <2> QED BY <2>1, <2>2
<1> DEFINE before == SumOf([j \in Shards |-> metrics[j][name]], Shards)
           after == SumOf([j \in Shards |-> metrics'[j][name]], Shards)
<1> HIDE DEF i, stats
<1>6. after + metrics[i][name] = before + metrics'[i][name]
  BY <1>1, <1>3, ShardChanged
<1>7. before \in Nat /\ after \in Nat
  BY <1>1, <1>3, ShardPoints
<1>8. /\ Points(name) = collector.emitted[name] + collector.stats[name] + before
      /\ Points(name)' = collector'.emitted[name] + collector'.stats[name] + after
      /\ collector.emitted[name] \in Nat /\ collector.stats[name] \in Nat
      /\ metrics[i][name] \in Nat /\ metrics'[i][name] = 0
  BY <1>1, <1>3, PointsAreNumbers, CounterValues, NoCounterValues DEF Points
<1> HIDE DEF before, after
<1> QED BY <1>4, <1>5, <1>6, <1>7, <1>8

\* The open spans of a registry.
OpenIn(reg) == SumOf([t \in DOMAIN reg |-> reg[t].open_span_count], DOMAIN reg)

LEMMA OpenIsNumber ==
  ASSUME NEW reg, IsFiniteSet(DOMAIN reg), \A t \in DOMAIN reg : reg[t].open_span_count \in Nat
  PROVE  OpenIn(reg) \in Nat
<1> DEFINE f == [t \in DOMAIN reg |-> reg[t].open_span_count]
<1>1. \A t \in DOMAIN reg : f[t] \in Nat
  OBVIOUS
<1> HIDE DEF f
<1>2. SumOf(f, DOMAIN reg) \in Nat
  BY <1>1, SumIsNumber
<1> QED BY <1>2 DEF OpenIn, f

\* A new entry adds its count.
LEMMA OpenWithEntry ==
  ASSUME NEW old, NEW new, NEW t, t \notin DOMAIN old, IsFiniteSet(DOMAIN old),
         DOMAIN new = DOMAIN old \cup {t},
         \A u \in DOMAIN old : new[u] = old[u],
         \A u \in DOMAIN new : new[u].open_span_count \in Nat
  PROVE  /\ IsFiniteSet(DOMAIN new)
         /\ Cardinality(DOMAIN new) = Cardinality(DOMAIN old) + 1
         /\ OpenIn(new) = OpenIn(old) + new[t].open_span_count
<1> DEFINE f == [u \in DOMAIN old |-> old[u].open_span_count]
           g == [u \in DOMAIN new |-> new[u].open_span_count]
<1>1. IsFiniteSet(DOMAIN new) /\ Cardinality(DOMAIN new) = Cardinality(DOMAIN old) + 1
  BY FS_AddElement
<1>2. /\ \A u \in DOMAIN old \cup {t} : g[u] \in Nat
      /\ \A u \in DOMAIN old : f[u] = g[u]
      /\ g[t] = new[t].open_span_count
  OBVIOUS
<1> HIDE DEF f, g
<1>3. SumOf(g, DOMAIN old \cup {t}) = SumOf(g, DOMAIN old) + g[t]
  BY <1>2, SumWithOneMore
<1>4. SumOf(f, DOMAIN old) = SumOf(g, DOMAIN old)
  BY <1>2, SumOfSame
<1>5. OpenIn(new) = SumOf(g, DOMAIN old \cup {t}) /\ OpenIn(old) = SumOf(f, DOMAIN old)
  BY DEF OpenIn, f, g
<1>6. OpenIn(new) = OpenIn(old) + new[t].open_span_count
  BY <1>2, <1>3, <1>4, <1>5
<1> QED BY <1>1, <1>6

\* An entry that changes adds what its count gains.
LEMMA OpenWithChange ==
  ASSUME NEW old, NEW new, NEW t \in DOMAIN old, IsFiniteSet(DOMAIN old),
         DOMAIN new = DOMAIN old,
         \A u \in DOMAIN old \ {t} : new[u] = old[u],
         \A u \in DOMAIN old : old[u].open_span_count \in Nat,
         new[t].open_span_count \in Nat
  PROVE  OpenIn(new) + old[t].open_span_count = OpenIn(old) + new[t].open_span_count
<1> DEFINE f == [u \in DOMAIN old |-> old[u].open_span_count]
           g == [u \in DOMAIN new |-> new[u].open_span_count]
           S == DOMAIN old
<1>1. /\ \A u \in S : f[u] = old[u].open_span_count /\ g[u] = new[u].open_span_count
      /\ \A u \in S : f[u] \in Nat /\ g[u] \in Nat
      /\ \A u \in S \ {t} : f[u] = g[u]
      /\ IsFiniteSet(S) /\ t \in S
  OBVIOUS
<1>3. OpenIn(new) = SumOf(g, S) /\ OpenIn(old) = SumOf(f, S)
  BY DEF OpenIn, f, g
<1> HIDE DEF f, g, S
<1>2. SumOf(g, S) + f[t] = SumOf(f, S) + g[t]
  BY <1>1, SumWithOneChanged
<1> QED BY <1>1, <1>2, <1>3

\* What MetricsConserved needs to be inductive: AccountInv, from which a trace
\* with one announced root is registered while a span of it is to end.
OneRootEach == \A t \in Traces : OneRoot(t)

Balanced ==
  /\ Points("spans_finished") = Cardinality(Ended)
  /\ Points("trace_segments_closed") + Points("trace_partial_flush_count")
       = Cardinality(exported)
  /\ OneRootEach =>
       /\ Points("spans_created") = Points("spans_finished") + OpenIn(registry)
       /\ Points("trace_segments_created")
            = Points("trace_segments_closed") + Cardinality(DOMAIN registry)

MeterInv ==
  /\ AccountInv
  /\ IsFiniteSet(exported) /\ IsFiniteSet(DOMAIN registry)
  /\ Balanced

\* A step that counts delta does to the spans, the chunks and the registry
\* what delta says.
Effect(delta) ==
  /\ \A name \in CounterNames : Points(name)' = Points(name) + delta[name]
  /\ IsFiniteSet(exported') /\ IsFiniteSet(DOMAIN registry')
  /\ Cardinality(Ended)' = Cardinality(Ended) + delta["spans_finished"]
  /\ Cardinality(exported)'
       = Cardinality(exported) + delta["trace_segments_closed"] + delta["trace_partial_flush_count"]
  /\ OneRootEach' =>
       /\ OneRootEach
       /\ OpenIn(registry') + delta["spans_finished"] = OpenIn(registry) + delta["spans_created"]
       /\ Cardinality(DOMAIN registry') + delta["trace_segments_closed"]
            = Cardinality(DOMAIN registry) + delta["trace_segments_created"]

LEMMA EffectBalanced ==
  ASSUME MeterInv, AccountInv', NEW delta \in Metrics, Effect(delta)
  PROVE  MeterInv'
<1>1. \A name \in CounterNames : delta[name] \in Nat /\ Points(name) \in Nat
  BY CounterValues, PointsAreNumbers DEF MeterInv, AccountInv, Located
<1>2. /\ "spans_created" \in CounterNames /\ "spans_finished" \in CounterNames
      /\ "trace_segments_created" \in CounterNames /\ "trace_segments_closed" \in CounterNames
      /\ "trace_partial_flush_count" \in CounterNames
  BY DEF CounterNames
<1> DEFINE sc == Points("spans_created")
           sf == Points("spans_finished")
           tc == Points("trace_segments_created")
           tl == Points("trace_segments_closed")
           tp == Points("trace_partial_flush_count")
<1>3. /\ sc' = sc + delta["spans_created"] /\ sf' = sf + delta["spans_finished"]
      /\ tc' = tc + delta["trace_segments_created"] /\ tl' = tl + delta["trace_segments_closed"]
      /\ tp' = tp + delta["trace_partial_flush_count"]
  BY <1>2 DEF Effect
<1>4. /\ sc \in Nat /\ sf \in Nat /\ tc \in Nat /\ tl \in Nat /\ tp \in Nat
      /\ delta["spans_created"] \in Nat /\ delta["spans_finished"] \in Nat
      /\ delta["trace_segments_created"] \in Nat /\ delta["trace_segments_closed"] \in Nat
      /\ delta["trace_partial_flush_count"] \in Nat
  BY <1>1, <1>2
<1>5. sf' = Cardinality(Ended)' /\ tl' + tp' = Cardinality(exported)'
  <2>1. sf = Cardinality(Ended) /\ tl + tp = Cardinality(exported)
    BY DEF MeterInv, Balanced
  <2>2. /\ Cardinality(Ended)' = sf + delta["spans_finished"]
        /\ Cardinality(exported)'
             = (tl + tp) + delta["trace_segments_closed"] + delta["trace_partial_flush_count"]
    BY <2>1 DEF Effect
  <2> HIDE DEF sc, sf, tc, tl, tp
  <2> QED BY <1>3, <1>4, <2>2
<1>6. ASSUME OneRootEach'
      PROVE  /\ sc' = sf' + OpenIn(registry')
             /\ tc' = tl' + Cardinality(DOMAIN registry')
  <2>1. /\ sc = sf + OpenIn(registry) /\ tc = tl + Cardinality(DOMAIN registry)
        /\ OpenIn(registry') + delta["spans_finished"] = OpenIn(registry) + delta["spans_created"]
        /\ Cardinality(DOMAIN registry') + delta["trace_segments_closed"]
             = Cardinality(DOMAIN registry) + delta["trace_segments_created"]
    BY <1>6 DEF MeterInv, Balanced, Effect
  <2>2. /\ IsFiniteSet(DOMAIN registry) /\ IsFiniteSet(DOMAIN registry')
        /\ Cardinality(DOMAIN registry) \in Nat /\ Cardinality(DOMAIN registry') \in Nat
    BY FS_CardinalityType DEF MeterInv, Effect
  <2>3. OpenIn(registry) \in Nat /\ OpenIn(registry') \in Nat
    <3>1. \A t \in DOMAIN registry : registry[t].open_span_count \in Nat
      BY DEF MeterInv, AccountInv, Located, TypeOK, Trace
    <3>2. \A t \in DOMAIN registry' : registry'[t].open_span_count \in Nat
      BY DEF AccountInv, Located, TypeOK, Trace
    <3> QED BY <2>2, <3>1, <3>2, OpenIsNumber
  <2> HIDE DEF sc, sf, tc, tl, tp
  <2>4. sc' = sf' + OpenIn(registry')
    BY <1>3, <1>4, <2>1, <2>3
  <2>5. tc' = tl' + Cardinality(DOMAIN registry')
    <3> DEFINE before == Cardinality(DOMAIN registry)
               after == Cardinality(DOMAIN registry')
    <3>1. /\ before \in Nat /\ after \in Nat /\ tc = tl + before
          /\ after + delta["trace_segments_closed"] = before + delta["trace_segments_created"]
      BY <2>1, <2>2
    <3> HIDE DEF before, after
    <3>2. tc' = tl' + after
      BY <1>3, <1>4, <3>1
    <3> QED BY <3>2 DEF after
  <2> QED BY <2>4, <2>5
<1>7. Balanced'
  BY <1>5, <1>6 DEF Balanced, OpenIn
<1> QED BY <1>7 DEF MeterInv, Effect

\* A step that neither ends a span nor exports a chunk.
LEMMA QuietEffect ==
  ASSUME MeterInv, NEW s \in Spans, Keeps(s), \A r \in Spans \ {s} : spans'[r] = spans[r],
         spans[s].stage # "ended", spans'[s].stage # "ended", exported' = exported
  PROVE  /\ IsFiniteSet(exported') /\ Cardinality(exported') = Cardinality(exported)
         /\ Cardinality(exported) \in Nat /\ Cardinality(Ended) \in Nat
         /\ Cardinality(Ended)' = Cardinality(Ended)
         /\ OneRootEach' => OneRootEach
<1>1. Ended' = Ended
  BY DEF Ended
<1>2. IsFiniteSet(Ended)
  <2>1. Ended \in SUBSET Known
    BY DEF Ended, Known
  <2> QED BY <2>1, FS_Subset DEF MeterInv, AccountInv, Grown
<1>3. OneRootEach' => OneRootEach
  BY OneRootBefore DEF OneRootEach, MeterInv
<1> QED BY <1>1, <1>2, <1>3, FS_CardinalityType DEF MeterInv

\* A step that writes the entry of one trace.
LEMMA EntryWritten ==
  ASSUME MeterInv, AccountInv', NEW t \in Traces,
         DOMAIN registry' = DOMAIN registry \cup {t},
         \A u \in DOMAIN registry \ {t} : registry'[u] = registry[u]
  PROVE  /\ IsFiniteSet(DOMAIN registry')
         /\ OpenIn(registry) \in Nat /\ OpenIn(registry') \in Nat
         /\ Cardinality(DOMAIN registry) \in Nat
         /\ registry'[t].open_span_count \in Nat
         /\ Registered(t) =>
              /\ registry[t].open_span_count \in Nat
              /\ Cardinality(DOMAIN registry') = Cardinality(DOMAIN registry)
              /\ OpenIn(registry') + registry[t].open_span_count
                   = OpenIn(registry) + registry'[t].open_span_count
         /\ ~Registered(t) =>
              /\ Cardinality(DOMAIN registry') = Cardinality(DOMAIN registry) + 1
              /\ OpenIn(registry') = OpenIn(registry) + registry'[t].open_span_count
<1>1. /\ \A u \in DOMAIN registry : registry[u].open_span_count \in Nat
      /\ \A u \in DOMAIN registry' : registry'[u].open_span_count \in Nat
      /\ IsFiniteSet(DOMAIN registry)
  BY DEF MeterInv, AccountInv, Located, TypeOK, Trace
<1>2. IsFiniteSet(DOMAIN registry') /\ Cardinality(DOMAIN registry) \in Nat
  BY <1>1, FS_AddElement, FS_CardinalityType
<1>3. OpenIn(registry) \in Nat /\ OpenIn(registry') \in Nat
  BY <1>1, <1>2, OpenIsNumber
<1>4. ASSUME Registered(t)
      PROVE  /\ Cardinality(DOMAIN registry') = Cardinality(DOMAIN registry)
             /\ OpenIn(registry') + registry[t].open_span_count
                  = OpenIn(registry) + registry'[t].open_span_count
  <2>1. t \in DOMAIN registry /\ DOMAIN registry' = DOMAIN registry
    BY <1>4 DEF Registered
  <2> QED BY <1>1, <2>1, OpenWithChange
<1>5. ASSUME ~Registered(t)
      PROVE  /\ Cardinality(DOMAIN registry') = Cardinality(DOMAIN registry) + 1
             /\ OpenIn(registry') = OpenIn(registry) + registry'[t].open_span_count
  <2>1. t \notin DOMAIN registry /\ \A u \in DOMAIN registry : registry'[u] = registry[u]
    BY <1>5 DEF Registered
  <2> QED BY <1>1, <2>1, OpenWithEntry
<1> QED BY <1>1, <1>2, <1>3, <1>4, <1>5 DEF Registered

\* Points stay, or are counted in the shard of a trace.
LEMMA PointsEffect ==
  ASSUME MeterInv, NEW delta \in Metrics,
         \/ delta = NoMetrics /\ UNCHANGED <<metrics, collector>>
         \/ delta = NoMetrics /\ get_metrics_shard
         \/ collector' = collector /\ \E t \in Traces : Count(t, delta)
  PROVE  \A name \in CounterNames : Points(name)' = Points(name) + delta[name]
<1> TAKE name \in CounterNames
<1>1. TypeOK /\ Points(name) \in Nat /\ NoMetrics[name] = 0
  BY PointsAreNumbers, NoCounterValues DEF MeterInv, AccountInv, Located
<1>2. CASE delta = NoMetrics /\ UNCHANGED <<metrics, collector>>
  <2>1. Points(name)' = Points(name)
    BY <1>2 DEF Points
  <2> QED BY <1>1, <1>2, <2>1
<1>3. CASE delta = NoMetrics /\ get_metrics_shard
  BY <1>1, <1>3, CollectPoints
<1>4. CASE collector' = collector /\ \E t \in Traces : Count(t, delta)
  BY <1>1, <1>4, CountPoints
<1> QED BY <1>2, <1>3, <1>4

\* What the registry methods count.
LEMMA StartDeltaValues ==
  ASSUME NEW n \in {0, 1}
  PROVE  LET delta == [NoMetrics EXCEPT !.spans_created = 1, !.trace_segments_created = n]
         IN  /\ delta \in Metrics
             /\ delta["spans_created"] = 1 /\ delta["trace_segments_created"] = n
             /\ delta["spans_finished"] = 0 /\ delta["trace_segments_closed"] = 0
             /\ delta["trace_partial_flush_count"] = 0
<1> n \in Nat
  OBVIOUS
<1> QED BY DEF NoMetrics, Metrics

LEMMA NoDeltaValues ==
  /\ NoMetrics \in Metrics
  /\ NoMetrics["spans_created"] = 0 /\ NoMetrics["trace_segments_created"] = 0
  /\ NoMetrics["spans_finished"] = 0 /\ NoMetrics["trace_segments_closed"] = 0
  /\ NoMetrics["trace_partial_flush_count"] = 0
BY NoCounterValues DEF CounterNames

EndDelta(a, b, c) ==
  [spans_created |-> 0, spans_finished |-> 1, trace_segments_created |-> a,
   trace_segments_closed |-> b, trace_partial_flush_count |-> c]

LEMMA EndDeltaValues ==
  ASSUME NEW a \in {0, 1}, NEW b \in {0, 1}, NEW c \in {0, 1}
  PROVE  /\ EndDelta(a, b, c) \in Metrics
         /\ EndDelta(a, b, c)["spans_created"] = 0
         /\ EndDelta(a, b, c)["trace_segments_created"] = a
         /\ EndDelta(a, b, c)["spans_finished"] = 1
         /\ EndDelta(a, b, c)["trace_segments_closed"] = b
         /\ EndDelta(a, b, c)["trace_partial_flush_count"] = c
<1> a \in Nat /\ b \in Nat /\ c \in Nat
  OBVIOUS
<1> QED BY DEF EndDelta, NoMetrics, Metrics

LEMMA EndDeltaIs ==
  ASSUME NEW d \in Metrics, NEW a, NEW b, NEW c,
         d.spans_created = 0, d.spans_finished = 1, d.trace_segments_created = a,
         d.trace_segments_closed = b, d.trace_partial_flush_count = c
  PROVE  d = EndDelta(a, b, c)
BY DEF EndDelta, Metrics

LEMMA EndDeltas ==
  /\ [NoMetrics EXCEPT !.spans_finished = 1, !.trace_partial_flush_count = 1] = EndDelta(0, 0, 1)
  /\ [NoMetrics EXCEPT !.spans_finished = 1, !.trace_segments_closed = 1] = EndDelta(0, 1, 0)
  /\ [NoMetrics EXCEPT !.spans_finished = 1] = EndDelta(0, 0, 0)
  /\ [NoMetrics EXCEPT !.spans_finished = 1, !.trace_segments_created = 1,
                       !.trace_segments_closed = 1] = EndDelta(1, 1, 0)
<1>1. [NoMetrics EXCEPT !.spans_finished = 1, !.trace_partial_flush_count = 1] = EndDelta(0, 0, 1)
  <2> DEFINE d == [NoMetrics EXCEPT !.spans_finished = 1, !.trace_partial_flush_count = 1]
  <2>1. /\ d \in Metrics
        /\ d.spans_created = 0 /\ d.spans_finished = 1 /\ d.trace_segments_created = 0
        /\ d.trace_segments_closed = 0 /\ d.trace_partial_flush_count = 1
    BY DEF NoMetrics, Metrics
  <2> HIDE DEF d
  <2>2. d = EndDelta(0, 0, 1)
    BY <2>1, EndDeltaIs
  <2> QED BY <2>2 DEF d
<1>2. [NoMetrics EXCEPT !.spans_finished = 1, !.trace_segments_closed = 1] = EndDelta(0, 1, 0)
  <2> DEFINE d == [NoMetrics EXCEPT !.spans_finished = 1, !.trace_segments_closed = 1]
  <2>1. /\ d \in Metrics
        /\ d.spans_created = 0 /\ d.spans_finished = 1 /\ d.trace_segments_created = 0
        /\ d.trace_segments_closed = 1 /\ d.trace_partial_flush_count = 0
    BY DEF NoMetrics, Metrics
  <2> HIDE DEF d
  <2>2. d = EndDelta(0, 1, 0)
    BY <2>1, EndDeltaIs
  <2> QED BY <2>2 DEF d
<1>3. [NoMetrics EXCEPT !.spans_finished = 1] = EndDelta(0, 0, 0)
  <2> DEFINE d == [NoMetrics EXCEPT !.spans_finished = 1]
  <2>1. /\ d \in Metrics
        /\ d.spans_created = 0 /\ d.spans_finished = 1 /\ d.trace_segments_created = 0
        /\ d.trace_segments_closed = 0 /\ d.trace_partial_flush_count = 0
    BY DEF NoMetrics, Metrics
  <2> HIDE DEF d
  <2>2. d = EndDelta(0, 0, 0)
    BY <2>1, EndDeltaIs
  <2> QED BY <2>2 DEF d
<1>4. [NoMetrics EXCEPT !.spans_finished = 1, !.trace_segments_created = 1,
                        !.trace_segments_closed = 1] = EndDelta(1, 1, 0)
  <2> DEFINE d == [NoMetrics EXCEPT !.spans_finished = 1, !.trace_segments_created = 1,
                                      !.trace_segments_closed = 1]
  <2>1. /\ d \in Metrics
        /\ d.spans_created = 0 /\ d.spans_finished = 1 /\ d.trace_segments_created = 1
        /\ d.trace_segments_closed = 1 /\ d.trace_partial_flush_count = 0
    BY DEF NoMetrics, Metrics
  <2> HIDE DEF d
  <2>2. d = EndDelta(1, 1, 0)
    BY <2>1, EndDeltaIs
  <2> QED BY <2>2 DEF d
<1> QED BY <1>1, <1>2, <1>3, <1>4

\* A root is announced: a new entry counts it and the segment.
LEMMA RootEffect ==
  ASSUME MeterInv, AccountInv', NEW s \in Spans, NEW t \in Traces, NEW parent \in ParentKinds,
         NEW p \in Priorities, should_sample_root(s, t, parent, p)
  PROVE  \E delta \in Metrics : Effect(delta)
<1> DEFINE prop == [priority |-> p, origin |-> parent # "none"]
           keep == is_keep(RegisteredPriority(t, prop))
           one == [NoMetrics EXCEPT !.spans_created = 1, !.trace_segments_created = 1]
<1>0. AccountInv
  BY DEF MeterInv
<1>1. prop \in PropagationData /\ prop.priority # NoPriority
  BY RegistryAssumption DEF PropagationData
<1>2. /\ spans[s].stage = "unborn" /\ Born(s, t, parent, keep) /\ exported' = exported
      /\ register_local_root_trace_propagation_data(t, prop) /\ collector' = collector
  BY DEF should_sample_root
<1> HIDE DEF prop, keep
<1>3. /\ spans'[s].stage = "sampled" /\ Keeps(s)
      /\ \A r \in Spans \ {s} : spans'[r] = spans[r]
  BY <1>0, <1>2, BornEffect
<1>4. /\ IsFiniteSet(exported') /\ Cardinality(exported') = Cardinality(exported)
      /\ Cardinality(exported) \in Nat /\ Cardinality(Ended) \in Nat
      /\ Cardinality(Ended)' = Cardinality(Ended)
      /\ OneRootEach' => OneRootEach
  BY <1>2, <1>3, QuietEffect
<1>5. /\ DOMAIN registry' = DOMAIN registry \cup {t}
      /\ \A u \in DOMAIN registry \ {t} : registry'[u] = registry[u]
      /\ Registered(t) => registry'[t].open_span_count = registry[t].open_span_count
      /\ ~Registered(t) => registry'[t].open_span_count = 1
  BY <1>0, <1>1, <1>2, AnnouncedEntry
<1>6. /\ IsFiniteSet(DOMAIN registry') /\ Cardinality(DOMAIN registry) \in Nat
      /\ OpenIn(registry) \in Nat /\ OpenIn(registry') \in Nat
  BY <1>5, EntryWritten
<1>7. CASE Registered(t)
  <2>1. UNCHANGED <<metrics, collector>>
    BY <1>2, <1>7 DEF register_local_root_trace_propagation_data
  <2>2. /\ Cardinality(DOMAIN registry') = Cardinality(DOMAIN registry)
        /\ OpenIn(registry') = OpenIn(registry)
    <3>1. /\ registry[t].open_span_count \in Nat
          /\ Cardinality(DOMAIN registry') = Cardinality(DOMAIN registry)
          /\ OpenIn(registry') + registry[t].open_span_count
               = OpenIn(registry) + registry'[t].open_span_count
      BY <1>5, <1>7, EntryWritten
    <3> QED BY <1>5, <1>6, <1>7, <3>1
  <2>3. \A name \in CounterNames : Points(name)' = Points(name) + NoMetrics[name]
    BY <2>1, NoDeltaValues, PointsEffect
  <2>4. Effect(NoMetrics)
    BY <1>4, <1>6, <2>2, <2>3, NoDeltaValues DEF Effect
  <2> QED BY <2>4, NoDeltaValues
<1>8. CASE ~Registered(t)
  <2>1. Count(t, one)
    <3>1. one = [NoMetrics EXCEPT !.trace_segments_created = 1, !.spans_created = 1]
      BY DEF NoMetrics
    <3> HIDE DEF one
    <3> QED BY <1>2, <1>8, <3>1 DEF register_local_root_trace_propagation_data
  <2>2. /\ Cardinality(DOMAIN registry') = Cardinality(DOMAIN registry) + 1
        /\ OpenIn(registry') = OpenIn(registry) + 1
    BY <1>5, <1>8, EntryWritten
  <2>3. /\ one \in Metrics
        /\ one["spans_created"] = 1 /\ one["trace_segments_created"] = 1
        /\ one["spans_finished"] = 0 /\ one["trace_segments_closed"] = 0
        /\ one["trace_partial_flush_count"] = 0
    BY StartDeltaValues
  <2> HIDE DEF one
  <2>4. \A name \in CounterNames : Points(name)' = Points(name) + one[name]
    BY <1>2, <2>1, <2>3, PointsEffect
  <2>5. Effect(one)
    BY <1>4, <1>6, <2>2, <2>3, <2>4 DEF Effect
  <2> QED BY <2>3, <2>5
<1> QED BY <1>7, <1>8

\* A step that counts nothing and keeps the number of open spans.
LEMMA SilentEffect ==
  ASSUME MeterInv, NEW s \in Spans, Keeps(s), \A r \in Spans \ {s} : spans'[r] = spans[r],
         spans[s].stage # "ended", spans'[s].stage # "ended",
         UNCHANGED <<exported, metrics, collector>>,
         DOMAIN registry' = DOMAIN registry, OpenIn(registry') = OpenIn(registry)
  PROVE  Effect(NoMetrics)
<1>1. /\ IsFiniteSet(exported') /\ Cardinality(exported') = Cardinality(exported)
      /\ Cardinality(exported) \in Nat /\ Cardinality(Ended) \in Nat
      /\ Cardinality(Ended)' = Cardinality(Ended)
      /\ OneRootEach' => OneRootEach
  BY QuietEffect
<1>2. \A name \in CounterNames : Points(name)' = Points(name) + NoMetrics[name]
  BY NoDeltaValues, PointsEffect
<1>3. /\ IsFiniteSet(DOMAIN registry') /\ Cardinality(DOMAIN registry) \in Nat
      /\ Cardinality(DOMAIN registry') = Cardinality(DOMAIN registry)
  BY FS_CardinalityType DEF MeterInv
<1>4. OpenIn(registry) \in Nat
  <2>1. \A t \in DOMAIN registry : registry[t].open_span_count \in Nat
    BY DEF MeterInv, AccountInv, Located, TypeOK, Trace
  <2> QED BY <2>1, OpenIsNumber DEF MeterInv
<1> QED BY <1>1, <1>2, <1>3, <1>4, NoDeltaValues DEF Effect

\* A span that nobody announces counts when it starts.
LEMMA UnannouncedEffect ==
  ASSUME MeterInv, NEW s \in Spans, NEW t \in Traces,
         \/ \E sampled \in BOOLEAN : should_sample_foreign(s, t, sampled)
         \/ \E p \in Spans : spans[p].trace = t /\ should_sample_child(s, p)
  PROVE  \E delta \in Metrics : Effect(delta)
<1>1. PICK parent, sampled : spans[s].stage = "unborn" /\ Born(s, t, parent, sampled)
  BY DEF should_sample_foreign, should_sample_child
<1>2. UNCHANGED <<registry, metrics, exported, collector>>
  BY DEF should_sample_foreign, should_sample_child
<1>3. /\ spans'[s].stage = "sampled" /\ Keeps(s)
      /\ \A r \in Spans \ {s} : spans'[r] = spans[r]
  BY <1>1, BornEffect DEF MeterInv
<1>4. Effect(NoMetrics)
  BY <1>1, <1>2, <1>3, SilentEffect
<1> QED BY <1>4, NoDeltaValues

\* A child is counted when it starts, a local root was when it was announced.
LEMMA RegisterEffect ==
  ASSUME MeterInv, AccountInv', NEW s \in Spans, on_start_register(s),
         NEW t \in Traces, spans[s].trace = t
  PROVE  \E delta \in Metrics : Effect(delta)
<1> DEFINE new == IF spans[s].parent = "local" THEN 1 ELSE 0
<1>0. AccountInv
  BY DEF MeterInv
<1>1. /\ spans[s].stage = "sampled" /\ spans' = [spans EXCEPT ![s].stage = "registered"]
      /\ exported' = exported /\ collector' = collector
      /\ IF new = 1 THEN register_span(s, t) ELSE register_local_root_span(s, t)
  BY DEF on_start_register
<1>2. new \in {0, 1} /\ (new = 1 <=> spans[s].parent = "local")
  OBVIOUS
<1> HIDE DEF new
<1>3. /\ spans'[s].stage = "registered" /\ Keeps(s)
      /\ \A r \in Spans \ {s} : spans'[r] = spans[r]
  BY <1>0, <1>1, StageEffect DEF Stages
<1>4. /\ IsFiniteSet(exported') /\ Cardinality(exported') = Cardinality(exported)
      /\ Cardinality(exported) \in Nat /\ Cardinality(Ended) \in Nat
      /\ Cardinality(Ended)' = Cardinality(Ended)
      /\ OneRootEach' => OneRootEach
  BY <1>1, <1>3, QuietEffect
<1>5. /\ DOMAIN registry' = DOMAIN registry \cup {t}
      /\ \A u \in DOMAIN registry \ {t} : registry'[u] = registry[u]
      /\ Registered(t) => registry'[t].open_span_count = registry[t].open_span_count + new
      /\ ~Registered(t) => registry'[t].open_span_count = 1
  BY <1>0, <1>1, <1>2, StartedEntry
<1>6. /\ IsFiniteSet(DOMAIN registry') /\ Cardinality(DOMAIN registry) \in Nat
      /\ OpenIn(registry) \in Nat /\ OpenIn(registry') \in Nat
  BY <1>5, EntryWritten
<1>7. ASSUME Registered(t)
      PROVE  /\ Cardinality(DOMAIN registry') = Cardinality(DOMAIN registry)
             /\ OpenIn(registry') = OpenIn(registry) + new
  <2>1. /\ registry[t].open_span_count \in Nat
        /\ Cardinality(DOMAIN registry') = Cardinality(DOMAIN registry)
        /\ OpenIn(registry') + registry[t].open_span_count
             = OpenIn(registry) + registry'[t].open_span_count
    BY <1>5, <1>7, EntryWritten
  <2> QED BY <1>2, <1>5, <1>6, <1>7, <2>1
<1>8. ASSUME ~Registered(t)
      PROVE  /\ Cardinality(DOMAIN registry') = Cardinality(DOMAIN registry) + 1
             /\ OpenIn(registry') = OpenIn(registry) + 1
  BY <1>5, <1>8, EntryWritten
<1>9. CASE new = 1
  <2> DEFINE n == IF Registered(t) THEN 0 ELSE 1
             one == [NoMetrics EXCEPT !.spans_created = 1, !.trace_segments_created = n]
  <2>1. Count(t, one)
    BY <1>1, <1>9 DEF register_span
  <2>2. n \in {0, 1} /\ (Registered(t) => n = 0) /\ (~Registered(t) => n = 1)
    OBVIOUS
  <2> HIDE DEF n
  <2>3. /\ one \in Metrics
        /\ one["spans_created"] = 1 /\ one["trace_segments_created"] = n
        /\ one["spans_finished"] = 0 /\ one["trace_segments_closed"] = 0
        /\ one["trace_partial_flush_count"] = 0
    BY <2>2, StartDeltaValues
  <2> HIDE DEF one
  <2>4. \A name \in CounterNames : Points(name)' = Points(name) + one[name]
    BY <1>1, <2>1, <2>3, PointsEffect
  <2>5. /\ Cardinality(DOMAIN registry') = Cardinality(DOMAIN registry) + n
        /\ OpenIn(registry') = OpenIn(registry) + 1
    BY <1>6, <1>7, <1>8, <1>9, <2>2
  <2>6. Effect(one)
    BY <1>4, <1>6, <2>2, <2>3, <2>4, <2>5 DEF Effect
  <2> QED BY <2>3, <2>6
<1>10. CASE new = 0
  <2>1. UNCHANGED <<metrics, collector>>
    BY <1>1, <1>10 DEF register_local_root_span
  <2>2. \A name \in CounterNames : Points(name)' = Points(name) + NoMetrics[name]
    BY <2>1, NoDeltaValues, PointsEffect
  <2>3. ASSUME OneRootEach' PROVE Registered(t)
    <3>1. OneRoot(t) /\ Accounted(t)
      BY <1>0, <1>4, <2>3 DEF OneRootEach, AccountInv
    <3>2. s \in LocalRoots(t)
      BY <1>2, <1>10 DEF LocalRoots
    <3>3. s \in Awaited(t)
      BY <1>1, <1>2, <1>10, <3>1, <3>2 DEF OneRoot, Awaited
    <3>4. Cardinality(Awaited(t)) # 0
      BY <1>0, <3>3, PartsFinite DEF AccountInv
    <3> QED BY <3>1, <3>4 DEF Accounted, Counted
  <2>4. Effect(NoMetrics)
    BY <1>4, <1>6, <1>7, <1>10, <2>2, <2>3, NoDeltaValues DEF Effect
  <2> QED BY <2>4, NoDeltaValues
<1> QED BY <1>2, <1>9, <1>10

LEMMA MetadataEffect ==
  ASSUME MeterInv, AccountInv', NEW s \in Spans, on_start_metadata(s),
         NEW t \in Traces, spans[s].trace = t
  PROVE  \E delta \in Metrics : Effect(delta)
<1>0. AccountInv
  BY DEF MeterInv
<1>1. /\ spans[s].stage = "registered" /\ spans' = [spans EXCEPT ![s].stage = "started"]
      /\ UNCHANGED <<exported, metrics, collector>> /\ set_active_span_metadata(s, t)
  BY DEF on_start_metadata
<1>2. /\ spans'[s].stage = "started" /\ Keeps(s)
      /\ \A r \in Spans \ {s} : spans'[r] = spans[r]
  BY <1>0, <1>1, StageEffect DEF Stages
<1>3. DOMAIN registry' = DOMAIN registry /\ OpenIn(registry') = OpenIn(registry)
  <2>1. CASE ~Registered(t)
    BY <1>1, <2>1 DEF set_active_span_metadata
  <2>2. CASE Registered(t)
    <3>1. registry' = [registry EXCEPT ![t].active_spans = @ \cup {s}]
      BY <1>1, <2>2 DEF set_active_span_metadata
    <3>2. /\ t \in DOMAIN registry /\ registry[t] \in Trace
          /\ registry \in [DOMAIN registry -> Trace]
      BY <1>0, <2>2 DEF Registered, AccountInv, Located, TypeOK
    <3>3. /\ DOMAIN registry' = DOMAIN registry
          /\ \A u \in DOMAIN registry \ {t} : registry'[u] = registry[u]
          /\ registry'[t].open_span_count = registry[t].open_span_count
      BY <3>1, <3>2 DEF Trace
    <3>4. DOMAIN registry' = DOMAIN registry \cup {t}
      BY <3>2, <3>3
    <3>5. /\ OpenIn(registry) \in Nat /\ OpenIn(registry') \in Nat
          /\ registry[t].open_span_count \in Nat
          /\ OpenIn(registry') + registry[t].open_span_count
               = OpenIn(registry) + registry'[t].open_span_count
      BY <2>2, <3>3, <3>4, EntryWritten
    <3> QED BY <3>3, <3>5
  <2> QED BY <2>1, <2>2
<1>4. Effect(NoMetrics)
  BY <1>1, <1>2, <1>3, SilentEffect
<1> QED BY <1>4, NoDeltaValues

\* A chunk with a span that has just ended is one more chunk.
LEMMA ChunkIsNew ==
  ASSUME MeterInv, NEW s \in Spans, spans[s].stage = "started",
         NEW c, s \in InVector(c.finished_spans)
  PROVE  /\ IsFiniteSet(exported \cup {c})
         /\ Cardinality(exported \cup {c}) = Cardinality(exported) + 1
<1>1. c \notin exported
  BY DEF MeterInv, AccountInv, Located, ExactlyOnce, VectorOf
<1> QED BY <1>1, FS_AddElement DEF MeterInv

\* A span ends: it is counted once, and with it the chunk it closes or flushes.
LEMMA EndEffect ==
  ASSUME MeterInv, AccountInv', NEW s \in Spans, on_end(s),
         NEW t \in Traces, spans[s].trace = t
  PROVE  \E delta \in Metrics : Effect(delta)
<1> DEFINE old == registry[t]
           trace == FinishedTrace(old, s)
           chunk == ChunkOf(t, trace)
           orphan == [trace |-> t, local_root_span_id |-> s, finished_spans |-> <<s>>,
                      propagation_data |-> EMPTY_PROPAGATION_DATA]
<1>0. AccountInv /\ registry \in [DOMAIN registry -> Trace]
  BY DEF MeterInv, AccountInv, Located, TypeOK
<1>1. /\ spans[s].stage = "started" /\ spans' = [spans EXCEPT ![s].stage = "ended"]
      /\ finish_span(s, t) /\ collector' = collector
  BY DEF on_end
<1>2. /\ spans'[s].stage = "ended" /\ Keeps(s)
      /\ \A r \in Spans \ {s} : spans'[r] = spans[r]
  BY <1>0, <1>1, StageEffect DEF Stages
<1>3. OneRootEach' => OneRootEach
  BY <1>0, <1>2, OneRootBefore DEF OneRootEach
<1>4. Cardinality(Ended)' = Cardinality(Ended) + 1
  <2>1. Ended' = Ended \cup {s} /\ s \notin Ended /\ Ended \in SUBSET Known
    BY <1>1, <1>2 DEF Ended, Known
  <2>2. IsFiniteSet(Ended)
    BY <1>0, <2>1, FS_Subset DEF AccountInv, Grown
  <2> QED BY <2>1, <2>2, FS_AddElement
<1>5. /\ IsFiniteSet(exported) /\ IsFiniteSet(DOMAIN registry)
      /\ Cardinality(exported) \in Nat /\ Cardinality(DOMAIN registry) \in Nat
  BY FS_CardinalityType DEF MeterInv
<1>6. ASSUME OneRootEach PROVE Registered(t) /\ old.open_span_count \in Nat \ {0}
  <2>1. OneRoot(t) /\ Accounted(t) /\ s \in Awaited(t)
    BY <1>0, <1>1, <1>6 DEF OneRootEach, AccountInv, Awaited
  <2>2. Cardinality(Awaited(t)) \in Nat \ {0}
    BY <1>0, <2>1, PartsFinite DEF AccountInv
  <2> QED BY <2>1, <2>2 DEF Accounted, Counted
<1>7. ASSUME Registered(t)
      PROVE  /\ trace \in Trace /\ s \in InVector(chunk.finished_spans)
             /\ trace.open_span_count = SaturatingPred(old.open_span_count)
  <2>1. /\ trace \in Trace
        /\ InVector(trace.finished_spans) = Waiting(t) \cup {s}
        /\ trace.open_span_count = SaturatingPred(old.open_span_count)
        /\ chunk.finished_spans = trace.finished_spans
    BY <1>0, <1>7, EndedTrace
  <2> HIDE DEF trace, chunk
  <2> QED BY <2>1
<1> HIDE DEF old, trace, chunk
<1>8. ASSUME NEW a \in {0, 1}, NEW b \in {0, 1}, NEW c \in {0, 1}, Count(t, EndDelta(a, b, c)),
              IsFiniteSet(exported'), IsFiniteSet(DOMAIN registry'),
              Cardinality(exported') = Cardinality(exported) + b + c,
              OneRootEach => /\ OpenIn(registry') + 1 = OpenIn(registry)
                             /\ Cardinality(DOMAIN registry') + b = Cardinality(DOMAIN registry) + a
       PROVE  \E d \in Metrics : Effect(d)
  <2>1. \A name \in CounterNames : Points(name)' = Points(name) + EndDelta(a, b, c)[name]
    BY <1>1, <1>8, PointsEffect, EndDeltaValues
  <2>2. Cardinality(Ended)' = Cardinality(Ended) + EndDelta(a, b, c)["spans_finished"]
    BY <1>4, EndDeltaValues
  <2>3. Cardinality(exported)' = Cardinality(exported) + EndDelta(a, b, c)["trace_segments_closed"]
                                   + EndDelta(a, b, c)["trace_partial_flush_count"]
    BY <1>8, EndDeltaValues
  <2>4. OneRootEach' =>
          /\ OneRootEach
          /\ OpenIn(registry') + EndDelta(a, b, c)["spans_finished"]
               = OpenIn(registry) + EndDelta(a, b, c)["spans_created"]
          /\ Cardinality(DOMAIN registry') + EndDelta(a, b, c)["trace_segments_closed"]
               = Cardinality(DOMAIN registry) + EndDelta(a, b, c)["trace_segments_created"]
    <3>1. OpenIn(registry) \in Nat
      <4>1. \A u \in DOMAIN registry : registry[u].open_span_count \in Nat
        BY <1>0 DEF Trace
      <4> QED BY <1>5, <4>1, OpenIsNumber
    <3> QED BY <1>3, <1>8, <3>1, EndDeltaValues
  <2> QED BY <1>8, <2>1, <2>2, <2>3, <2>4, EndDeltaValues DEF Effect
<1>9. ASSUME Registered(t), DOMAIN registry' = DOMAIN registry,
              registry'[t].open_span_count = trace.open_span_count,
              \A u \in DOMAIN registry \ {t} : registry'[u] = registry[u]
       PROVE  /\ IsFiniteSet(DOMAIN registry')
              /\ OneRootEach => OpenIn(registry') + 1 = OpenIn(registry)
  <2>1. DOMAIN registry' = DOMAIN registry \cup {t}
    BY <1>9 DEF Registered
  <2>2. /\ OpenIn(registry) \in Nat /\ OpenIn(registry') \in Nat
        /\ OpenIn(registry') + old.open_span_count
             = OpenIn(registry) + registry'[t].open_span_count
    BY <1>9, <2>1, EntryWritten DEF old
  <2> QED BY <1>5, <1>6, <1>7, <1>9, <2>2 DEF SaturatingPred
<1>10. CASE finish_span_partial_flush(s, t)
  <2> DEFINE left == [trace EXCEPT !.finished_spans = <<>>]
  <2>1. /\ Registered(t) /\ registry' = [registry EXCEPT ![t] = left]
        /\ exported' = exported \cup {chunk} /\ Count(t, EndDelta(0, 0, 1))
    BY <1>10, EndDeltas DEF finish_span_partial_flush, old, trace, chunk
  <2>2. left.open_span_count = trace.open_span_count
    BY <1>7, <2>1 DEF Trace
  <2> HIDE DEF left
  <2>3. /\ DOMAIN registry' = DOMAIN registry
        /\ registry'[t].open_span_count = trace.open_span_count
        /\ \A u \in DOMAIN registry \ {t} : registry'[u] = registry[u]
    BY <1>0, <2>1, <2>2 DEF Registered
  <2>4. IsFiniteSet(exported') /\ Cardinality(exported') = Cardinality(exported) + 0 + 1
    BY <1>1, <1>5, <1>7, <2>1, ChunkIsNew
  <2> QED BY <1>5, <1>8, <1>9, <2>1, <2>3, <2>4
<1>11. CASE finish_span_last(s, t)
  <2>1. /\ Registered(t) /\ registry' = Remove(t)
        /\ exported' = exported \cup {chunk} /\ Count(t, EndDelta(0, 1, 0))
        /\ trace.open_span_count = 0
    BY <1>11, EndDeltas DEF finish_span_last, old, trace, chunk
  <2>2. /\ DOMAIN registry = DOMAIN registry' \cup {t} /\ t \notin DOMAIN registry'
        /\ DOMAIN registry' \in SUBSET DOMAIN registry
        /\ \A u \in DOMAIN registry' : registry[u] = registry'[u]
        /\ \A u \in DOMAIN registry : registry[u].open_span_count \in Nat
    BY <1>0, <2>1 DEF Remove, Registered, Trace
  <2>3. IsFiniteSet(DOMAIN registry')
    BY <1>5, <2>2, FS_Subset
  <2>4. /\ Cardinality(DOMAIN registry) = Cardinality(DOMAIN registry') + 1
        /\ OpenIn(registry) = OpenIn(registry') + old.open_span_count
    BY <2>2, <2>3, OpenWithEntry DEF old
  <2>5. OneRootEach => old.open_span_count = 1
    BY <1>6, <1>7, <2>1 DEF SaturatingPred
  <2>6. IsFiniteSet(exported') /\ Cardinality(exported') = Cardinality(exported) + 1 + 0
    BY <1>1, <1>5, <1>7, <2>1, ChunkIsNew
  <2>7. OneRootEach => /\ OpenIn(registry') + 1 = OpenIn(registry)
                       /\ Cardinality(DOMAIN registry') + 1 = Cardinality(DOMAIN registry) + 0
    BY <1>5, <2>4, <2>5
  <2> QED BY <1>8, <2>1, <2>3, <2>6, <2>7
<1>12. CASE finish_span_keep(s, t)
  <2>1. /\ Registered(t) /\ registry' = [registry EXCEPT ![t] = trace]
        /\ exported' = exported /\ Count(t, EndDelta(0, 0, 0))
    BY <1>12, EndDeltas DEF finish_span_keep, old, trace
  <2>2. /\ DOMAIN registry' = DOMAIN registry
        /\ registry'[t].open_span_count = trace.open_span_count
        /\ \A u \in DOMAIN registry \ {t} : registry'[u] = registry[u]
    BY <1>0, <2>1 DEF Registered
  <2>3. IsFiniteSet(exported') /\ Cardinality(exported') = Cardinality(exported) + 0 + 0
    BY <1>5, <2>1
  <2> QED BY <1>5, <1>8, <1>9, <2>1, <2>2, <2>3
<1>13. CASE finish_span_orphan(s, t)
  <2>1. /\ ~Registered(t) /\ registry' = registry /\ exported' = exported \cup {orphan}
        /\ Count(t, EndDelta(1, 1, 0))
    BY <1>13, EndDeltas DEF finish_span_orphan
  <2>2. s \in InVector(orphan.finished_spans)
    <3>1. orphan.finished_spans = <<s>> /\ 1 \in DOMAIN <<s>> /\ <<s>>[1] = s
      OBVIOUS
    <3> HIDE DEF orphan
    <3> QED BY <3>1 DEF InVector
  <2> HIDE DEF orphan
  <2>3. IsFiniteSet(exported') /\ Cardinality(exported') = Cardinality(exported) + 1 + 0
    BY <1>1, <1>5, <2>1, <2>2, ChunkIsNew
  <2> QED BY <1>5, <1>6, <1>8, <2>1, <2>3
<1> QED BY <1>1, <1>10, <1>11, <1>12, <1>13 DEF finish_span

\* The collector and a stuttering step count nothing.
LEMMA IdleEffect ==
  ASSUME MeterInv, UNCHANGED <<registry, spans, exported>>,
         get_metrics_shard \/ UNCHANGED vars
  PROVE  Effect(NoMetrics)
<1>1. \A name \in CounterNames : Points(name)' = Points(name) + NoMetrics[name]
  BY NoDeltaValues, PointsEffect DEF vars
<1>2. /\ Ended' = Ended /\ Ended \in SUBSET Known
      /\ OneRootEach' <=> OneRootEach
      /\ OpenIn(registry') = OpenIn(registry)
  BY DEF Ended, Known, OneRootEach, OneRoot, LocalRoots
<1>3. /\ IsFiniteSet(exported) /\ IsFiniteSet(DOMAIN registry) /\ IsFiniteSet(Ended)
      /\ Cardinality(exported) \in Nat /\ Cardinality(DOMAIN registry) \in Nat
      /\ Cardinality(Ended) \in Nat
  BY <1>2, FS_Subset, FS_CardinalityType DEF MeterInv, AccountInv, Grown
<1>4. OpenIn(registry) \in Nat
  <2>1. \A t \in DOMAIN registry : registry[t].open_span_count \in Nat
    BY DEF MeterInv, AccountInv, Located, TypeOK, Trace
  <2> QED BY <1>3, <2>1, OpenIsNumber
<1> QED BY <1>1, <1>2, <1>3, <1>4, NoDeltaValues DEF Effect

LEMMA MeterStep == MeterInv /\ [Next]_vars => MeterInv'
<1> SUFFICES ASSUME MeterInv, [Next]_vars PROVE MeterInv'
  OBVIOUS
<1>0. AccountInv'
  BY AccountStep DEF MeterInv
<1>1. \A s \in Spans : spans[s].stage # "unborn" => \E t \in Traces : spans[s].trace = t
  BY DEF MeterInv, AccountInv, Located, TypeOK
<1>2. ASSUME NEW s \in Spans, NEW t \in Traces, NEW parent \in ParentKinds, NEW p \in Priorities,
             should_sample_root(s, t, parent, p)
      PROVE  \E delta \in Metrics : Effect(delta)
  BY <1>0, <1>2, RootEffect
<1>3. ASSUME NEW s \in Spans, NEW t \in Traces, NEW sampled \in BOOLEAN,
             should_sample_foreign(s, t, sampled)
      PROVE  \E delta \in Metrics : Effect(delta)
  BY <1>3, UnannouncedEffect
<1>4. ASSUME NEW s \in Spans, NEW p \in Spans, should_sample_child(s, p)
      PROVE  \E delta \in Metrics : Effect(delta)
  <2>1. PICK t \in Traces : spans[p].trace = t
    BY <1>1, <1>4 DEF should_sample_child
  <2> QED BY <1>4, <2>1, UnannouncedEffect
<1>5. ASSUME NEW s \in Spans, on_start_register(s) \/ on_start_metadata(s) \/ on_end(s)
      PROVE  \E delta \in Metrics : Effect(delta)
  <2>1. PICK t \in Traces : spans[s].trace = t
    BY <1>1, <1>5 DEF on_start_register, on_start_metadata, on_end
  <2> QED BY <1>0, <1>5, <2>1, RegisterEffect, MetadataEffect, EndEffect
<1>6. ASSUME get_metrics_shard \/ UNCHANGED vars
      PROVE  \E delta \in Metrics : Effect(delta)
  <2>1. UNCHANGED <<registry, spans, exported>>
    BY <1>6 DEF get_metrics_shard, vars
  <2> QED BY <1>6, <2>1, IdleEffect, NoDeltaValues
<1>7. \E delta \in Metrics : Effect(delta)
  BY <1>2, <1>3, <1>4, <1>5, <1>6 DEF Next
<1> QED BY <1>0, <1>7, EffectBalanced

LEMMA MeterInitially == Init => MeterInv
<1> SUFFICES ASSUME Init PROVE MeterInv
  OBVIOUS
<1>1. AccountInv
  BY AccountInitially
<1>2. exported = {} /\ DOMAIN registry = {} /\ Ended = {}
  BY DEF Init, Ended
<1>3. IsFiniteSet({}) /\ Cardinality({}) = 0
  BY FS_EmptySet
<1>4. ASSUME NEW name \in CounterNames PROVE Points(name) = 0
  <2> DEFINE f == [i \in Shards |-> metrics[i][name]]
  <2>1. /\ collector.emitted[name] = 0 /\ collector.stats[name] = 0
        /\ metrics = [i \in Shards |-> NoMetrics] /\ NoMetrics[name] = 0
    BY NoCounterValues DEF Init
  <2>2. \A i \in Shards : f[i] = 0
    BY <2>1
  <2> HIDE DEF f
  <2>3. UnitsOf(f, Shards) = {}
    BY <2>2 DEF UnitsOf
  <2>4. SumOf(f, Shards) = 0
    BY <1>3, <2>3 DEF SumOf
  <2> QED BY <2>1, <2>4 DEF Points, f
<1>5. OpenIn(registry) = 0
  BY <1>2, SumOfNone DEF OpenIn
<1>6. Balanced
  BY <1>2, <1>3, <1>4, <1>5 DEF Balanced, CounterNames
<1> QED BY <1>1, <1>2, <1>3, <1>6 DEF MeterInv

\* No point is lost or counted twice, whenever the collector takes the counters
\* of a shard between the steps of the spans: finished spans are those that
\* ended, closed segments and partial flushes the chunks exported, and when
\* each trace has one announced root the spans and segments created and not
\* finished are those that the registry has.
THEOREM PointsAreConserved == Spec => []MetricsConserved
<1>1. MeterInv => MetricsConserved
  <2> SUFFICES ASSUME MeterInv PROVE MetricsConserved
    OBVIOUS
  <2>1. (\A t \in Traces : AnnouncedOnce(t)) => OneRootEach
    BY AnnouncedOneRoot DEF MeterInv, AccountInv, OneRootEach
  <2>2. /\ \A name \in CounterNames : Points(name) \in Nat
        /\ "spans_finished" \in CounterNames /\ "trace_segments_closed" \in CounterNames
    BY PointsAreNumbers DEF MeterInv, AccountInv, Located, CounterNames
  <2>3. OpenIn(registry) = OpenSpans /\ OpenIn(registry) \in Nat
    <3>1. \A t \in DOMAIN registry : registry[t].open_span_count \in Nat
      BY DEF MeterInv, AccountInv, Located, TypeOK, Trace
    <3> QED BY <3>1, OpenIsNumber DEF OpenIn, OpenSpans, MeterInv
  <2>4. Cardinality(DOMAIN registry) \in Nat
    BY FS_CardinalityType DEF MeterInv
  <2> QED BY <2>1, <2>2, <2>3, <2>4 DEF MeterInv, Balanced, MetricsConserved
<1>2. Spec => []MeterInv
  BY MeterInitially, MeterStep, PTL DEF Spec
<1> QED BY <1>1, <1>2, PTL

-----------------------------------------------------------------------------
(* The labels of every thread describe its current span, for any number of *)
(* threads, spans and traces and any nesting of their contexts.  Spans     *)
(* start and end in other threads between the two reads of the registry    *)
(* that a switch of context makes.                                         *)

Contexts == LabelSpans \cup {None}
Routes == {RouteOf[s] : s \in LabelSpans} \cup {None}
Record == [span_id : Contexts, local_root_span_id : Contexts, http_route : Routes]

LabelsTypeOK ==
  /\ stage \in [LabelSpans -> {"elsewhere", "unborn", "open", "ended"}]
  /\ stack \in [Threads -> Seq(Contexts)]
  /\ observer \in [Threads -> [step : {"rest", "root", "labels"}, root : Contexts]]
  /\ v1 \in [Threads -> Record \cup {None}]
  /\ v2 \in [Threads -> Record \cup {None}]
  /\ \A u \in DOMAIN open_traces : open_traces[u] \in [root : LabelSpans, open : SUBSET LabelSpans]

\* The registry has an entry for each open span, which is open there.
OpenRegistered ==
  \A s \in LabelSpans : stage[s] = "open" <=> HasEntry(s) /\ s \in Entry(s).open

\* Only spans that started are attached; a thread looks for labels of a span
\* that is shown; the root it read is still that of an open span.
Follows(t) ==
  /\ \A i \in 1..Len(stack[t]) : stack[t][i] # None => stage[stack[t][i]] # "unborn"
  /\ observer[t].step # "rest" => Current(t) \in Shown
  /\ observer[t].step = "labels" /\ Open(Current(t)) =>
       observer[t].root = Entry(Current(t)).root
  /\ v1[t] = None => v2[t] = None

Described(t) == AtRest(t) => LabelsNameCurrent(t) /\ RootLabelled(t) /\ RecordHasRoute(t)

LabelsInv ==
  /\ LabelsTypeOK /\ OpenRegistered
  /\ \A t \in Threads : Follows(t) /\ Described(t)

LEMMA LabelsInitially == ASSUME WellFormed PROVE LabelsInit => LabelsInv
<1> SUFFICES ASSUME LabelsInit PROVE LabelsInv
  OBVIOUS
<1>1. DOMAIN open_traces = {}
  BY DEF LabelsInit
<1>2. \A t \in Threads : stack[t] = <<>> /\ Len(stack[t]) = 0
  BY DEF LabelsInit
<1>3. LabelsTypeOK
  BY <1>1 DEF LabelsInit, LabelsTypeOK, Contexts
<1>4. OpenRegistered
  BY <1>1 DEF LabelsInit, OpenRegistered, HasEntry
<1>5. ASSUME NEW t \in Threads PROVE Follows(t) /\ Described(t)
  BY <1>2, <1>5 DEF LabelsInit, Follows, Described, LabelsNameCurrent, RootLabelled, RecordHasRoute
<1> QED BY <1>3, <1>4, <1>5 DEF LabelsInv

\* The context that a thread has attached is a span that started, or none.
LEMMA CurrentStarted ==
  ASSUME WellFormed, LabelsTypeOK, NEW t \in Threads, Follows(t)
  PROVE  /\ Current(t) \in Contexts /\ Published(t) \in Contexts
         /\ Current(t) # None => Current(t) \in LabelSpans /\ stage[Current(t)] # "unborn"
         /\ Published(t) # None => Published(t) = Current(t)
<1>1. stack[t] \in Seq(Contexts)
  BY DEF LabelsTypeOK
<1>2. CASE stack[t] = <<>>
  BY <1>2 DEF Current, Published, Contexts, WellFormed
<1>3. CASE stack[t] # <<>>
  <2>1. /\ Len(stack[t]) \in 1..Len(stack[t]) /\ stack[t][Len(stack[t])] \in Contexts
    BY <1>1, <1>3
  <2>2. Current(t) = stack[t][Len(stack[t])]
    BY <1>3 DEF Current, Seqs!Last
  <2> QED BY <2>1, <2>2 DEF Published, Contexts, WellFormed, Follows
<1> QED BY <1>2, <1>3

-----------------------------------------------------------------------------
(* Spans start and end *)

\* A span that was open, or elsewhere, is not opened by another one's start or
\* end, and while it is open its trace keeps its root.
RootsStay ==
  \A r \in LabelSpans : stage[r] # "unborn" /\ stage'[r] = "open" =>
    /\ stage[r] = "open" /\ HasEntry(r) /\ HasEntry(r)'
    /\ Entry(r)'.root = Entry(r).root

LEMMA SpansMove ==
  ASSUME WellFormed, LabelsTypeOK, LabelsTypeOK', RootsStay, NEW t \in Threads, Follows(t), Described(t),
         \A r \in LabelSpans : stage'[r] = "unborn" => stage[r] = "unborn",
         UNCHANGED <<stack, observer, v1, v2>>
  PROVE  Follows(t)' /\ Described(t)'
<1>1. /\ Current(t) \in Contexts /\ Published(t) \in Contexts
      /\ Current(t) # None => Current(t) \in LabelSpans /\ stage[Current(t)] # "unborn"
      /\ Published(t) # None => Published(t) = Current(t)
  BY CurrentStarted
<1>2. Current(t)' = Current(t) /\ Published(t)' = Published(t)
  BY DEF Current, Published
<1>3. Follows(t)'
  <2>1. ASSUME NEW i \in 1..Len(stack[t]), stack[t][i] # None PROVE stage'[stack[t][i]] # "unborn"
    <3>1. stack[t][i] \in LabelSpans
      BY <2>1 DEF LabelsTypeOK, Contexts
    <3> QED BY <2>1, <3>1 DEF Follows
  <2>2. ASSUME observer[t].step = "labels", Open(Current(t))'
        PROVE  observer[t].root = Entry(Current(t))'.root
    <3> DEFINE c == Current(t)
    <3>1. c \in LabelSpans /\ stage'[c] = "open" /\ stage[c] # "unborn" /\ c # None
      BY <1>1, <1>2, <2>2 DEF Open
    <3>2. observer[t].step = "labels" /\ stage[c] = "open" => observer[t].root = open_traces[TraceOf[c]].root
      BY <3>1 DEF Follows, Open, Entry
    <3>3. open_traces'[TraceOf[Current(t)']] = open_traces'[TraceOf[c]]
      BY <1>2
    <3> HIDE DEF c
    <3>4. stage[c] = "open" /\ open_traces'[TraceOf[c]].root = open_traces[TraceOf[c]].root
      BY <3>1 DEF RootsStay, Entry
    <3> QED BY <2>2, <3>2, <3>3, <3>4 DEF Entry
  <2> QED BY <1>2, <2>1, <2>2 DEF Follows
<1>4. Described(t)'
  <2> SUFFICES ASSUME AtRest(t) PROVE LabelsNameCurrent(t)' /\ RootLabelled(t)' /\ RecordHasRoute(t)'
    BY DEF Described, AtRest
  <2>1. LabelsNameCurrent(t) /\ RootLabelled(t) /\ RecordHasRoute(t)
    BY DEF Described
  <2>2. LabelsNameCurrent(t)'
    BY <1>2, <2>1 DEF LabelsNameCurrent
  <2>3. ASSUME Open(Published(t))'
        PROVE  /\ Open(Published(t)) /\ HasEntry(Published(t))'
               /\ Entry(Published(t))'.root = Entry(Published(t)).root
    <3>1. Published(t) \in LabelSpans /\ stage'[Published(t)] = "open" /\ stage[Published(t)] # "unborn"
      BY <1>1, <1>2, <2>3 DEF Open
    <3> QED BY <1>2, <3>1 DEF RootsStay, Open, Entry, HasEntry, WellFormed
  <2>4. RootLabelled(t)'
    BY <1>2, <2>1, <2>3 DEF RootLabelled
  <2>5. RecordHasRoute(t)'
    BY <1>2, <2>1, <2>3 DEF RecordHasRoute
  <2> QED BY <2>2, <2>4, <2>5
<1> QED BY <1>3, <1>4

LEMMA SpanStep ==
  ASSUME WellFormed, LabelsInv, NEW s \in LabelSpans, on_start_span(s) \/ on_end_span(s)
  PROVE  LabelsInv'
<1> USE DEF LabelsInv
<1>1. UNCHANGED <<stack, observer, v1, v2>>
  BY DEF on_start_span, on_end_span
<1>2. /\ LabelsTypeOK' /\ OpenRegistered' /\ RootsStay
      /\ \A r \in LabelSpans : stage'[r] = "unborn" => stage[r] = "unborn"
  <2>1. CASE on_start_span(s)
    <3> DEFINE entry == IF HasEntry(s) THEN Entry(s) ELSE [root |-> s, open |-> {}]
    <3>1. /\ stage[s] = "unborn" /\ stage' = [stage EXCEPT ![s] = "open"]
          /\ open_traces' = [u \in DOMAIN open_traces \cup {TraceOf[s]} |->
                            IF u = TraceOf[s] THEN [entry EXCEPT !.open = @ \cup {s}] ELSE open_traces[u]]
      BY <2>1 DEF on_start_span
    <3>2. entry \in [root : LabelSpans, open : SUBSET LabelSpans]
      BY DEF LabelsTypeOK, HasEntry, Entry
    <3>3. HasEntry(s) => entry = Entry(s)
      OBVIOUS
    <3> ~HasEntry(s) => entry.open = {}
      OBVIOUS
    <3> HIDE DEF entry
    <3>4. [entry EXCEPT !.open = @ \cup {s}] \in [root : LabelSpans, open : SUBSET LabelSpans]
      BY <3>2
    <3>4a. /\ [entry EXCEPT !.open = @ \cup {s}].root = entry.root
           /\ [entry EXCEPT !.open = @ \cup {s}].open = entry.open \cup {s}
      BY <3>2
    <3>5. LabelsTypeOK'
      BY <1>1, <3>1, <3>4 DEF LabelsTypeOK
    <3>6. \A r \in LabelSpans \ {s} : stage'[r] = stage[r]
      BY <3>1 DEF LabelsTypeOK
    <3>7. stage'[s] = "open"
      BY <3>1 DEF LabelsTypeOK
    <3>8. ASSUME NEW r \in LabelSpans
          PROVE  /\ stage'[r] = "open" <=> HasEntry(r)' /\ r \in Entry(r)'.open
                 /\ stage[r] # "unborn" /\ stage'[r] = "open" =>
                      /\ stage[r] = "open" /\ HasEntry(r) /\ HasEntry(r)'
                      /\ Entry(r)'.root = Entry(r).root
      <4>1. stage[r] = "open" <=> HasEntry(r) /\ r \in Entry(r).open
        BY DEF OpenRegistered
      <4>2. CASE TraceOf[r] = TraceOf[s]
        <5>1. HasEntry(r)' /\ Entry(r)' = [entry EXCEPT !.open = @ \cup {s}]
          BY <3>1, <4>2 DEF HasEntry, Entry
        <5>2. HasEntry(r) <=> HasEntry(s)
          BY <4>2 DEF HasEntry
        <5>3. HasEntry(s) => entry = Entry(r)
          BY <3>3, <4>2 DEF Entry
        <5>4. Entry(r)'.root = entry.root /\ Entry(r)'.open = entry.open \cup {s}
          BY <5>1, <3>4a
        <5> QED BY <3>1, <3>6, <3>7, <4>1, <5>1, <5>2, <5>3, <5>4
      <4>3. CASE TraceOf[r] # TraceOf[s]
        <5>1. (HasEntry(r)' <=> HasEntry(r)) /\ (HasEntry(r) => Entry(r)' = Entry(r))
          BY <3>1, <4>3 DEF HasEntry, Entry
        <5> QED BY <3>1, <3>6, <3>7, <4>1, <4>3, <5>1
      <4> QED BY <4>2, <4>3
    <3> QED BY <3>5, <3>6, <3>7, <3>8 DEF OpenRegistered, RootsStay
  <2>2. CASE on_end_span(s)
    <3>1. /\ stage[s] = "open" /\ stage' = [stage EXCEPT ![s] = "ended"]
          /\ HasEntry(s) /\ s \in Entry(s).open
      BY <2>2 DEF on_end_span, OpenRegistered
    <3>2. /\ Entry(s).open = {s} =>
               open_traces' = [u \in DOMAIN open_traces \ {TraceOf[s]} |-> open_traces[u]]
          /\ Entry(s).open # {s} =>
               open_traces' = [open_traces EXCEPT ![TraceOf[s]].open = @ \ {s}]
      BY <2>2 DEF on_end_span
    <3>3. open_traces[TraceOf[s]] \in [root : LabelSpans, open : SUBSET LabelSpans]
      BY <3>1 DEF LabelsTypeOK, HasEntry
    <3>4. /\ \A u \in DOMAIN open_traces' : u \in DOMAIN open_traces
          /\ \A u \in DOMAIN open_traces : u # TraceOf[s] =>
               u \in DOMAIN open_traces' /\ open_traces'[u] = open_traces[u]
          /\ TraceOf[s] \in DOMAIN open_traces' =>
               /\ open_traces'[TraceOf[s]] \in [root : LabelSpans, open : SUBSET LabelSpans]
               /\ open_traces'[TraceOf[s]].root = open_traces[TraceOf[s]].root
               /\ open_traces'[TraceOf[s]].open = open_traces[TraceOf[s]].open \ {s}
          /\ TraceOf[s] \notin DOMAIN open_traces' => open_traces[TraceOf[s]].open = {s}
      <4>1. CASE Entry(s).open = {s}
        BY <3>2, <4>1 DEF Entry
      <4>2. CASE Entry(s).open # {s}
        <5>1. open_traces' = [open_traces EXCEPT ![TraceOf[s]] =
                             [open_traces[TraceOf[s]] EXCEPT !.open = open_traces[TraceOf[s]].open \ {s}]]
          BY <3>2, <4>2
        <5>2. TraceOf[s] \in DOMAIN open_traces
          BY <3>1 DEF HasEntry
        <5>3. open_traces'[TraceOf[s]] = [open_traces[TraceOf[s]] EXCEPT !.open = open_traces[TraceOf[s]].open \ {s}]
          BY <5>1, <5>2
        <5>4. /\ open_traces'[TraceOf[s]] \in [root : LabelSpans, open : SUBSET LabelSpans]
              /\ open_traces'[TraceOf[s]].root = open_traces[TraceOf[s]].root
              /\ open_traces'[TraceOf[s]].open = open_traces[TraceOf[s]].open \ {s}
          BY <3>3, <5>3
        <5> QED BY <5>1, <5>2, <5>4
      <4> QED BY <4>1, <4>2
    <3>5. LabelsTypeOK'
      <4>1. \A u \in DOMAIN open_traces' : open_traces'[u] \in [root : LabelSpans, open : SUBSET LabelSpans]
        BY <3>4 DEF LabelsTypeOK
      <4> QED BY <1>1, <3>1, <4>1 DEF LabelsTypeOK
    <3>6. stage'[s] = "ended" /\ \A r \in LabelSpans \ {s} : stage'[r] = stage[r]
      BY <3>1 DEF LabelsTypeOK
    <3>7. ASSUME NEW r \in LabelSpans
          PROVE  /\ stage'[r] = "open" <=> HasEntry(r)' /\ r \in Entry(r)'.open
                 /\ stage[r] # "unborn" /\ stage'[r] = "open" =>
                      /\ stage[r] = "open" /\ HasEntry(r) /\ HasEntry(r)'
                      /\ Entry(r)'.root = Entry(r).root
      <4>1. stage[r] = "open" <=> HasEntry(r) /\ r \in Entry(r).open
        BY DEF OpenRegistered
      <4>2. CASE TraceOf[r] = TraceOf[s]
        BY <3>1, <3>4, <3>6, <4>1, <4>2 DEF HasEntry, Entry
      <4>3. CASE TraceOf[r] # TraceOf[s]
        BY <3>4, <3>6, <4>1, <4>3 DEF HasEntry, Entry
      <4> QED BY <4>2, <4>3
    <3> QED BY <3>5, <3>6, <3>7 DEF OpenRegistered, RootsStay
  <2> QED BY <2>1, <2>2
<1>3. \A t \in Threads : Follows(t)' /\ Described(t)'
  BY <1>1, <1>2, SpansMove
<1> QED BY <1>2, <1>3

-----------------------------------------------------------------------------
(* Threads attach and detach contexts *)

\* What an action of another thread leaves alone.
OthersStay(t) ==
  /\ UNCHANGED <<open_traces, stage>>
  /\ \A u \in Threads \ {t} : /\ stack'[u] = stack[u] /\ observer'[u] = observer[u]
                              /\ v1'[u] = v1[u] /\ v2'[u] = v2[u]

LEMMA OneThreadMoves ==
  ASSUME WellFormed, LabelsInv, NEW t \in Threads, LabelsTypeOK', OthersStay(t),
         Follows(t)' /\ Described(t)'
  PROVE  LabelsInv'
<1>1. OpenRegistered'
  BY DEF LabelsInv, OpenRegistered, OthersStay, HasEntry, Entry
<1>2. ASSUME NEW u \in Threads PROVE Follows(u)' /\ Described(u)'
  <2>1. CASE u = t
    BY <2>1
  <2>2. CASE u # t
    <3>1. /\ open_traces' = open_traces /\ stage' = stage
          /\ stack'[u] = stack[u] /\ observer'[u] = observer[u] /\ v1'[u] = v1[u] /\ v2'[u] = v2[u]
      BY <2>2 DEF OthersStay
    <3>2. Current(u)' = Current(u) /\ Published(u)' = Published(u)
      BY <3>1 DEF Current, Published
    <3>3. Follows(u) /\ Described(u)
      BY DEF LabelsInv
    <3>4. Follows(u)'
      BY <3>1, <3>2, <3>3 DEF Follows, Open, Entry
    <3>5. Described(u)'
      BY <3>1, <3>2, <3>3
         DEF Described, AtRest, LabelsNameCurrent, RootLabelled, RecordHasRoute, Open, Entry, HasEntry
    <3> QED BY <3>4, <3>5
  <2> QED BY <2>1, <2>2
<1> QED BY <1>1, <1>2 DEF LabelsInv

\* After a switch of its context a thread has cleared its labels, or is to
\* look for those of a span that is shown.
LEMMA Switched ==
  ASSUME WellFormed, LabelsInv, NEW t \in Threads, NEW s \in Contexts, AtRest(t),
         NEW q \in Seq(Contexts), stack' = [stack EXCEPT ![t] = q],
         IF q = <<>> THEN s = None ELSE s = Seqs!Last(q),
         \A i \in 1..Len(q) : q[i] # None => stage[q[i]] # "unborn",
         Observe(t, s), UNCHANGED <<open_traces, stage>>
  PROVE  LabelsInv'
<1> USE DEF LabelsInv
<1>1. stack'[t] = q /\ Current(t)' = s
  BY DEF LabelsTypeOK, Current
<1>2. CASE s \in Shown
  <2>1. observer' = [observer EXCEPT ![t] = [step |-> "root", root |-> None]] /\ UNCHANGED <<v1, v2>>
    BY <1>2 DEF Observe
  <2>2. observer'[t].step = "root"
    BY <2>1 DEF LabelsTypeOK
  <2>3. LabelsTypeOK'
    BY <2>1 DEF LabelsTypeOK, Contexts
  <2>4. OthersStay(t)
    BY <2>1 DEF LabelsTypeOK, OthersStay
  <2>5. Follows(t)'
    BY <1>1, <1>2, <2>1, <2>2 DEF Follows
  <2>6. Described(t)'
    BY <2>2 DEF Described, AtRest
  <2> QED BY <2>3, <2>4, <2>5, <2>6, OneThreadMoves
<1>3. CASE s \notin Shown
  <2>1. clear_labels(t) /\ UNCHANGED observer
    BY <1>3 DEF Observe
  <2>2. /\ v1'[t] = (IF v1[t] = None THEN None ELSE NoLabels) /\ v2'[t] = None
        /\ \A u \in Threads \ {t} : v1'[u] = v1[u] /\ v2'[u] = v2[u]
    BY <2>1 DEF clear_labels, LabelsTypeOK
  <2>3. NoLabels \in Record /\ NoLabels.span_id = None
    BY DEF NoLabels, Record, Contexts, Routes
  <2>4. NoLabels # None
    BY <2>3 DEF WellFormed, Record, Contexts, Routes
  <2>5. LabelsTypeOK'
    BY <2>1, <2>3 DEF clear_labels, LabelsTypeOK
  <2>6. OthersStay(t)
    BY <2>1, <2>2 DEF LabelsTypeOK, OthersStay
  <2>7. Published(t)' = None
    BY <1>1, <1>3 DEF Published
  <2>8. Follows(t)'
    BY <1>1, <2>1, <2>2 DEF Follows, AtRest
  <2>9. Described(t)'
    BY <2>2, <2>3, <2>4, <2>7 DEF Described, LabelsNameCurrent, RootLabelled, RecordHasRoute
  <2> QED BY <2>5, <2>6, <2>8, <2>9, OneThreadMoves
<1> QED BY <1>2, <1>3

LEMMA AttachStep ==
  ASSUME WellFormed, LabelsInv, NEW t \in Threads, NEW s \in Contexts, Attach(t, s)
  PROVE  LabelsInv'
<1> DEFINE q == Append(stack[t], s)
<1>1. stack[t] \in Seq(Contexts)
  BY DEF LabelsInv, LabelsTypeOK
<1>2. /\ q \in Seq(Contexts) /\ Len(q) = Len(stack[t]) + 1 /\ q # <<>> /\ Seqs!Last(q) = s
      /\ \A i \in 1..Len(stack[t]) : q[i] = stack[t][i]
      /\ \A i \in 1..Len(q) : i = Len(q) \/ i \in 1..Len(stack[t])
  <2>1. /\ q \in Seq(Contexts) /\ Len(q) = Len(stack[t]) + 1 /\ Len(stack[t]) \in Nat
        /\ q[Len(q)] = s /\ \A i \in 1..Len(stack[t]) : q[i] = stack[t][i]
    BY <1>1, AppendProperties
  <2> HIDE DEF q
  <2> QED BY <2>1 DEF Seqs!Last
<1>3. /\ AtRest(t) /\ stack' = [stack EXCEPT ![t] = q] /\ Observe(t, s)
      /\ UNCHANGED <<open_traces, stage>> /\ (s # None => stage[s] # "unborn")
  BY DEF Attach, AtRest
<1>4. Follows(t)
  BY DEF LabelsInv
<1> HIDE DEF q
<1>5. \A i \in 1..Len(q) : q[i] # None => stage[q[i]] # "unborn"
  BY <1>2, <1>3, <1>4 DEF Follows, Seqs!Last
<1> QED BY <1>2, <1>3, <1>5, Switched

\* What is left of a stack when one of its contexts is taken out.
LEMMA RemovedProperties ==
  ASSUME NEW S, NEW q \in Seq(S), NEW i \in 1..Len(q)
  PROVE  LET r == Seqs!RemoveAt(q, i)
         IN  /\ r \in Seq(S) /\ Len(r) = Len(q) - 1
             /\ \A j \in 1..Len(r) : r[j] = q[IF j < i THEN j ELSE j + 1]
<1> DEFINE a == SubSeq(q, 1, i - 1)
           b == SubSeq(q, i + 1, Len(q))
<1>0. Len(q) \in Nat /\ i \in Int /\ 1 <= i /\ i <= Len(q)
  OBVIOUS
<1>1. a \in Seq(S) /\ Len(a) = i - 1 /\ \A j \in 1..(i - 1) : a[j] = q[j]
  BY <1>0
<1>2. b \in Seq(S) /\ Len(b) = Len(q) - i /\ \A j \in 1..(Len(q) - i) : b[j] = q[i + j]
  BY <1>0
<1>3. Seqs!RemoveAt(q, i) = a \o b
  BY DEF Seqs!RemoveAt
<1> HIDE DEF a, b
<1>4. /\ a \o b \in Seq(S) /\ Len(a \o b) = Len(a) + Len(b)
      /\ \A j \in 1..(Len(a) + Len(b)) :
           (a \o b)[j] = IF j <= Len(a) THEN a[j] ELSE b[j - Len(a)]
  BY <1>1, <1>2, ConcatProperties
<1>5. ASSUME NEW j \in 1..(Len(q) - 1) PROVE (a \o b)[j] = q[IF j < i THEN j ELSE j + 1]
  <2>1. CASE j < i
    BY <1>0, <1>1, <1>2, <1>4, <2>1
  <2>2. CASE ~(j < i)
    <3>1. j - (i - 1) \in 1..(Len(q) - i) /\ i + (j - (i - 1)) = j + 1
      BY <1>0, <2>2
    <3>2. (a \o b)[j] = b[j - (i - 1)]
      BY <1>0, <1>1, <1>2, <1>4, <2>2
    <3> QED BY <1>2, <2>2, <3>1, <3>2
  <2> QED BY <2>1, <2>2
<1>6. Len(a \o b) = Len(q) - 1
  BY <1>0, <1>1, <1>2, <1>4
<1> QED BY <1>3, <1>4, <1>5, <1>6

LEMMA DetachStep ==
  ASSUME WellFormed, LabelsInv, NEW t \in Threads, NEW i, Detach(t, i)
  PROVE  LabelsInv'
<1> DEFINE q == Seqs!RemoveAt(stack[t], i)
<1>1. stack[t] \in Seq(Contexts) /\ i \in 1..Len(stack[t]) /\ Len(stack[t]) \in Nat
  BY DEF LabelsInv, LabelsTypeOK, Detach
<1>2. /\ q \in Seq(Contexts) /\ Len(q) = Len(stack[t]) - 1
      /\ \A j \in 1..Len(q) : q[j] = stack[t][IF j < i THEN j ELSE j + 1]
  BY <1>1, RemovedProperties
<1>3. /\ AtRest(t) /\ stack' = [stack EXCEPT ![t] = q] /\ UNCHANGED <<open_traces, stage>>
  BY DEF Detach, AtRest
<1>4. Follows(t) /\ Described(t) /\ LabelsTypeOK
  BY DEF LabelsInv
<1> HIDE DEF q
<1>5. ASSUME NEW j \in 1..Len(q), q[j] # None PROVE stage[q[j]] # "unborn"
  <2> DEFINE k == IF j < i THEN j ELSE j + 1
             n == Len(stack[t])
  <2>1. \A m \in 1..n : stack[t][m] # None => stage[stack[t][m]] # "unborn"
    BY <1>4 DEF Follows
  <2>2. n \in Nat /\ i \in 1..n /\ Len(q) = n - 1 /\ q[j] = stack[t][k]
    BY <1>1, <1>2
  <2> HIDE DEF n
  <2>3. k \in 1..n
    BY <2>2
  <2> HIDE DEF k
  <2> QED BY <1>5, <2>1, <2>2, <2>3
<1>6. CASE i = Len(stack[t])
  <2> DEFINE s == IF i = 1 THEN None ELSE stack[t][i - 1]
  <2>1. Observe(t, s)
    BY <1>6 DEF Detach
  <2>2. s \in Contexts
    BY <1>1 DEF Contexts
  <2>3. CASE i = 1
    <3>1. q = <<>>
      BY <1>2, <1>6, <2>3
    <3> QED BY <1>2, <1>3, <1>5, <2>1, <2>2, <2>3, <3>1, Switched
  <2>4. CASE i # 1
    <3>1. q # <<>> /\ Seqs!Last(q) = s
      <4>1. Len(q) = i - 1 /\ Len(q) \in 1..Len(q) /\ Len(q) < i
        <5> DEFINE n == Len(stack[t])
        <5>1. n \in Nat /\ i = n /\ 1 <= n /\ Len(q) = n - 1 /\ i # 1
          BY <1>1, <1>2, <1>6, <2>4
        <5> HIDE DEF n
        <5> QED BY <5>1
      <4>2. q[Len(q)] = stack[t][Len(q)]
        BY <1>2, <4>1
      <4>3. q # <<>>
        BY <4>1
      <4> QED BY <2>4, <4>1, <4>2, <4>3 DEF Seqs!Last
    <3> HIDE DEF s
    <3> QED BY <1>2, <1>3, <1>5, <2>1, <2>2, <3>1, Switched
  <2> QED BY <2>3, <2>4
<1>7. CASE i # Len(stack[t])
  <2>1. UNCHANGED <<observer, v1, v2>>
    BY <1>7 DEF Detach
  <2>2. q # <<>> /\ stack[t] # <<>> /\ q[Len(q)] = stack[t][Len(stack[t])]
    BY <1>1, <1>2, <1>7
  <2>3. stack'[t] = q /\ \A u \in Threads \ {t} : stack'[u] = stack[u]
    BY <1>3, <1>4 DEF LabelsTypeOK
  <2>4. Current(t)' = Current(t) /\ Published(t)' = Published(t)
    BY <2>2, <2>3 DEF Current, Published, Seqs!Last
  <2>5. LabelsTypeOK'
    BY <1>2, <1>3, <1>4, <2>1 DEF LabelsTypeOK
  <2>6. OthersStay(t)
    BY <1>3, <2>1, <2>3 DEF OthersStay
  <2>7. Follows(t)'
    BY <1>3, <1>4, <1>5, <2>1, <2>3 DEF Follows, AtRest
  <2>8. Described(t)'
    BY <1>3, <1>4, <2>1, <2>4
       DEF Described, AtRest, LabelsNameCurrent, RootLabelled, RecordHasRoute, Open, Entry, HasEntry
  <2> QED BY <2>5, <2>6, <2>7, <2>8, OneThreadMoves
<1> QED BY <1>6, <1>7

\* The root is read while the span may end: if it is still open, its trace has
\* the root that was read.
LEMMA ReadRootStep ==
  ASSUME WellFormed, LabelsInv, NEW t \in Threads, ReadRoot(t)
  PROVE  LabelsInv'
<1> DEFINE s == Current(t)
           r == IF HasEntry(s) THEN Entry(s).root ELSE s
<1>1. Follows(t) /\ LabelsTypeOK /\ OpenRegistered
  BY DEF LabelsInv
<1>2. s \in Shown /\ s \in LabelSpans /\ UNCHANGED <<open_traces, stage, stack, v1, v2>>
  BY <1>1 DEF ReadRoot, Follows, WellFormed
<1>3. observer' = [observer EXCEPT ![t] = [step |-> "labels", root |-> r]]
  BY DEF ReadRoot
<1>4. r \in Contexts
  BY <1>1, <1>2 DEF Contexts, LabelsTypeOK, HasEntry, Entry
<1>5. stage[s] = "open" => r = open_traces[TraceOf[s]].root
  BY <1>1, <1>2 DEF OpenRegistered, Entry
<1> HIDE DEF r
<1>6. observer'[t] = [step |-> "labels", root |-> r] /\ Current(t)' = s
  BY <1>1, <1>2, <1>3 DEF LabelsTypeOK, Current
<1>7. LabelsTypeOK'
  BY <1>1, <1>2, <1>3, <1>4 DEF LabelsTypeOK
<1>8. OthersStay(t)
  BY <1>1, <1>2, <1>3 DEF LabelsTypeOK, OthersStay
<1>9. Follows(t)'
  <2>1. \A i \in 1..Len(stack[t]) : stack[t][i] # None => stage[stack[t][i]] # "unborn"
    BY <1>1 DEF Follows
  <2>2. observer'[t].step = "labels" /\ observer'[t].root = r
    BY <1>6
  <2>3. Open(Current(t))' => r = Entry(Current(t))'.root
    BY <1>2, <1>5, <1>6 DEF Open, Entry
  <2>4. v1'[t] = None => v2'[t] = None
    BY <1>1, <1>2 DEF Follows
  <2> QED BY <1>2, <1>6, <2>1, <2>2, <2>3, <2>4 DEF Follows
<1>10. Described(t)'
  BY <1>6 DEF Described, AtRest
<1> QED BY <1>7, <1>8, <1>9, <1>10, OneThreadMoves

LEMMA WriteStep ==
  ASSUME WellFormed, LabelsInv, NEW t \in Threads, write_labels(t)
  PROVE  LabelsInv'
<1> DEFINE s == Current(t)
           labels == [span_id |-> s, local_root_span_id |-> observer[t].root,
                      http_route |-> RouteOfActive(s)]
           kept == IF v1[t] = None THEN None ELSE v1[t].http_route
           set == [labels EXCEPT !.http_route = IF @ = None THEN kept ELSE @]
<1>1. Follows(t) /\ Described(t) /\ LabelsTypeOK /\ OpenRegistered
  BY DEF LabelsInv
<1>2. /\ observer[t].step = "labels" /\ UNCHANGED <<open_traces, stage, stack>>
      /\ observer' = [observer EXCEPT ![t] = [step |-> "rest", root |-> None]]
  BY DEF write_labels
<1>3. /\ s \in Shown /\ s \in LabelSpans /\ s # None /\ Current(t)' = s /\ Published(t)' = s
      /\ stage'[s] = stage[s] /\ open_traces' = open_traces
  BY <1>1, <1>2 DEF Follows, WellFormed, Current, Published
<1>4. v1[t] \in Record \cup {None}
  BY <1>1 DEF LabelsTypeOK
<1>5. /\ RouteOfActive(s) \in {None, RouteOf[s]} /\ RouteOfActive(s) \in Routes
      /\ stage[s] = "open" => /\ RouteOfActive(s) = RouteOf[s] /\ HasEntry(s)
                              /\ observer[t].root = Entry(s).root
  BY <1>1, <1>2, <1>3 DEF RouteOfActive, Routes, OpenRegistered, Follows, Open
<1>6. observer[t].root \in Contexts /\ kept \in Routes
  BY <1>1, <1>4 DEF LabelsTypeOK, Record, Routes
<1>7. /\ labels \in Record /\ labels.span_id = s /\ labels.http_route = RouteOfActive(s)
      /\ labels.local_root_span_id = observer[t].root
  BY <1>3, <1>5, <1>6 DEF Record, Contexts
<1>8. /\ set \in Record /\ set.span_id = s /\ set.local_root_span_id = observer[t].root
  BY <1>3, <1>5, <1>6 DEF Record, Contexts
<1>9. \/ v1[t] = None /\ UNCHANGED <<v1, v2>>
      \/ v1' = [v1 EXCEPT ![t] = set] /\ v2' = [v2 EXCEPT ![t] = labels]
  BY DEF write_labels, RecordOf
<1>10. \A r \in Record : r # None
  BY DEF WellFormed, Record, Contexts, Routes
<1> HIDE DEF s, labels, set, kept
<1>11. LabelsTypeOK'
  BY <1>1, <1>2, <1>7, <1>8, <1>9 DEF LabelsTypeOK, Contexts
<1>12. OthersStay(t)
  BY <1>1, <1>2, <1>9 DEF LabelsTypeOK, OthersStay
<1>13. observer'[t].step = "rest"
  BY <1>1, <1>2 DEF LabelsTypeOK
<1>14. Follows(t)'
  <2>1. \A i \in 1..Len(stack[t]) : stack[t][i] # None => stage[stack[t][i]] # "unborn"
    BY <1>1 DEF Follows
  <2>2. v1'[t] = None => v2'[t] = None
    BY <1>1, <1>8, <1>9, <1>10 DEF Follows, LabelsTypeOK
  <2> QED BY <1>2, <1>13, <2>1, <2>2 DEF Follows
<1>15. CASE v1[t] = None /\ UNCHANGED <<v1, v2>>
  <2>1. v1'[t] = None /\ v2'[t] = None
    BY <1>1, <1>15 DEF Follows
  <2>2. Described(t)'
    BY <2>1 DEF Described, LabelsNameCurrent, RootLabelled, RecordHasRoute
  <2> QED BY <1>11, <1>12, <1>14, <2>2, OneThreadMoves
<1>16. CASE v1' = [v1 EXCEPT ![t] = set] /\ v2' = [v2 EXCEPT ![t] = labels]
  <2>1. v1'[t] = set /\ v2'[t] = labels /\ set # None /\ labels # None
    BY <1>1, <1>7, <1>8, <1>10, <1>16 DEF LabelsTypeOK
  <2>2. LabelsNameCurrent(t)'
    BY <1>3, <1>7, <1>8, <2>1 DEF LabelsNameCurrent
  <2>3. Open(Published(t))' => stage[s] = "open"
    BY <1>3 DEF Open
  <2>4. RootLabelled(t)'
    BY <1>3, <1>5, <1>7, <1>8, <2>1, <2>3 DEF RootLabelled, HasEntry, Entry, Open
  <2>5. RecordHasRoute(t)'
    BY <1>3, <1>5, <1>7, <2>1, <2>3 DEF RecordHasRoute, Open
  <2>6. Described(t)'
    BY <2>2, <2>4, <2>5 DEF Described
  <2> QED BY <1>11, <1>12, <1>14, <2>6, OneThreadMoves
<1> QED BY <1>9, <1>15, <1>16

-----------------------------------------------------------------------------

LEMMA LabelsStep == ASSUME WellFormed PROVE LabelsInv /\ [LabelsNext]_labelVars => LabelsInv'
<1> SUFFICES ASSUME LabelsInv, [LabelsNext]_labelVars PROVE LabelsInv'
  OBVIOUS
<1>1. ASSUME NEW s \in LabelSpans, on_start_span(s) \/ on_end_span(s) PROVE LabelsInv'
  BY <1>1, SpanStep
<1>2. ASSUME NEW t \in Threads, NEW s \in LabelSpans \cup {None}, Attach(t, s) PROVE LabelsInv'
  BY <1>2, AttachStep DEF Contexts
<1>3. ASSUME NEW t \in Threads, NEW i \in 1..MaxDepth, Detach(t, i) PROVE LabelsInv'
  BY <1>3, DetachStep
<1>4. ASSUME NEW t \in Threads, ReadRoot(t) PROVE LabelsInv'
  BY <1>4, ReadRootStep
<1>5. ASSUME NEW t \in Threads, write_labels(t) PROVE LabelsInv'
  BY <1>5, WriteStep
<1>6. CASE UNCHANGED labelVars
  <2> USE <1>6 DEF labelVars, LabelsInv
  <2>1. LabelsTypeOK' /\ OpenRegistered'
    BY DEF LabelsTypeOK, OpenRegistered, HasEntry, Entry
  <2>2. ASSUME NEW t \in Threads PROVE Follows(t)' /\ Described(t)'
    <3>1. \A r \in LabelSpans : stage'[r] = stage[r]
      OBVIOUS
    <3> QED
      BY <2>2 DEF Follows, Described, AtRest, LabelsNameCurrent, RootLabelled, RecordHasRoute,
                  Current, Published, Open, Entry, HasEntry
  <2> QED BY <2>1, <2>2
<1> QED BY <1>1, <1>2, <1>3, <1>4, <1>5, <1>6 DEF LabelsNext

\* Whatever threads start and end spans meanwhile, between two switches of its
\* context a thread publishes its current span or none, in both formats alike:
\* an open span with the root of its trace and its own route (observer.rs
\* 37-102, custom_labels_writer.rs 39-128).
THEOREM LabelsAreCurrent == LabelsSpec => []LabelsDescribeCurrent
<1>1. LabelsInit => LabelsInv
  BY LabelsInitially, LabelsAssumption
<1>2. LabelsInv /\ [LabelsNext]_labelVars => LabelsInv'
  BY LabelsStep, LabelsAssumption
<1>3. LabelsInv => LabelsDescribeCurrent
  BY DEF LabelsInv, Described, LabelsDescribeCurrent
<1> QED BY <1>1, <1>2, <1>3, PTL DEF LabelsSpec

=============================================================================
