------------------------- MODULE SpanExporterProofs -------------------------
(***************************************************************************)
(* Theorems about SpanExporter, for every number of threads, every set of  *)
(* chunks, every limit of the buffer and every way the worker may fail.    *)
(***************************************************************************)
EXTENDS SpanExporter, FiniteLemmas, SequenceTheorems, TLAPS

-----------------------------------------------------------------------------
(* Type correctness *)

\* Adding to a counter gives counters.
LEMMA QueueMetricsType ==
  ASSUME NEW m \in QueueMetrics, NEW n \in Nat
  PROVE  AddQueued(m, n) \in QueueMetrics /\ AddDropped(m, n) \in QueueMetrics
BY DEF AddQueued, AddDropped, QueueMetrics

\* Waking the threads or the worker keeps them well typed.
LEMMA WokenType ==
  /\ \A ths \in [Threads -> Thread] : Woken(ths) \in [Threads -> Thread]
  /\ worker \in Worker => WokenWorker(worker) \in Worker
<1>1. ASSUME NEW ths \in [Threads -> Thread]
      PROVE  Woken(ths) \in [Threads -> Thread]
  <2>1. ASSUME NEW u \in Threads
        PROVE  [ths[u] EXCEPT !.pc = "wait"] \in Thread
    BY DEF Thread, ThreadStages
  <2> QED BY <2>1 DEF Woken
<1>2. ASSUME worker \in Worker PROVE WokenWorker(worker) \in Worker
  BY <1>2 DEF WokenWorker, Worker, WorkerStages
<1> QED BY <1>1, <1>2

\* A thread that enters another stage of its call stays well typed.
LEMMA ThreadType ==
  ASSUME threads \in [Threads -> Thread], NEW th \in Threads, NEW pc \in ThreadStages
  PROVE  /\ [threads EXCEPT ![th].pc = pc] \in [Threads -> Thread]
         /\ \A after \in {"idle", "call"} :
              [threads EXCEPT ![th] = [pc |-> pc, after |-> after]] \in [Threads -> Thread]
<1>1. [threads[th] EXCEPT !.pc = pc] \in Thread
  BY DEF Thread
<1>2. \A after \in {"idle", "call"} : [pc |-> pc, after |-> after] \in Thread
  BY DEF Thread
<1>3. [threads EXCEPT ![th].pc = pc] = [threads EXCEPT ![th] = [threads[th] EXCEPT !.pc = pc]]
  OBVIOUS
<1> QED BY <1>1, <1>2, <1>3

\* A worker that enters another stage stays well typed.
LEMMA WorkerType ==
  ASSUME worker \in Worker, NEW pc \in WorkerStages
  PROVE  /\ [worker EXCEPT !.pc = pc] \in Worker
         /\ \A outcome \in {"running", "ok", "failed", "panicked"} :
              [worker EXCEPT !.pc = pc, !.outcome = outcome] \in Worker
         /\ \A message \in Messages, data \in Seq(Chunks) :
              [worker EXCEPT !.pc = pc, !.message = message, !.data = data] \in Worker
<1>1. [worker EXCEPT !.pc = pc] \in Worker
  BY DEF Worker
<1>2. \A outcome \in {"running", "ok", "failed", "panicked"} :
        [worker EXCEPT !.pc = pc, !.outcome = outcome] \in Worker
  BY DEF Worker
<1>3. \A message \in Messages, data \in Seq(Chunks) :
        [worker EXCEPT !.pc = pc, !.message = message, !.data = data] \in Worker
  BY DEF Worker
<1> QED BY <1>1, <1>2, <1>3

\* The state after a step on it, with one or more fields changed.
LEMMA StateType ==
  ASSUME state \in SharedState
  PROVE  /\ \A b \in BOOLEAN :
              /\ [state EXCEPT !.flush_needed = b] \in SharedState
              /\ [state EXCEPT !.shutdown_needed = b] \in SharedState
              /\ [state EXCEPT !.has_shutdown = b] \in SharedState
         /\ \A m \in QueueMetrics : [state EXCEPT !.metrics = m] \in SharedState
         /\ \A r \in Resources \cup {NoResource} : [state EXCEPT !.set_resource = r] \in SharedState
         /\ state.metrics \in QueueMetrics /\ state.span_count \in Nat
         /\ state.batch \in Seq(Chunks) /\ state.flush_needed \in BOOLEAN
BY DEF SharedState

\* Batch::export leaves an empty batch.
LEMMA GrabType ==
  ASSUME TypeOK, NEW message \in Messages, NEW st \in SharedState, Grab(message, st)
  PROVE  TypeOK'
<1>1. worker' \in Worker
  BY WorkerType, StateType DEF TypeOK, Grab, WorkerStages
<1>2. state' \in SharedState
  <2>1. <<>> \in Seq(Chunks)
    OBVIOUS
  <2> QED BY <2>1 DEF Grab, SharedState
<1> QED BY <1>1, <1>2 DEF TypeOK, Grab, history

\* The calls of the application keep the state well typed.
LEMMA CallType ==
  ASSUME TypeOK, NEW th \in Threads, CallStep(th)
  PROVE  TypeOK'
<1>0. /\ state \in SharedState /\ threads \in [Threads -> Thread] /\ worker \in Worker
      /\ accepted \in Seq(Chunks) /\ owed \in Nat
      /\ resources \in [latest : Resources, wanted : [Chunks -> Resources]]
  BY DEF TypeOK
<1>1. ASSUME NEW c \in Chunks, add_trace_chunk(th, c) PROVE TypeOK'
  <2> DEFINE count == state.span_count + ChunkLen[c]
             over  == count > FlushThreshold
             st == [state EXCEPT !.batch = Append(@, c), !.span_count = count,
                                 !.metrics = AddQueued(@, ChunkLen[c]),
                                 !.flush_needed = @ \/ over]
  <2>1. ChunkLen[c] \in Nat /\ count \in Nat
    BY <1>0, StateType, ExporterAssumption
  <2>2. AddQueued(state.metrics, ChunkLen[c]) \in QueueMetrics
    BY <1>0, <2>1, StateType, QueueMetricsType
  <2>3. (state.flush_needed \/ over) \in BOOLEAN
    OBVIOUS
  <2>4. Append(state.batch, c) \in Seq(Chunks) /\ Append(accepted, c) \in Seq(Chunks)
    BY <1>0, StateType
  <2>5. st \in SharedState
    BY <1>0, <2>1, <2>2, <2>3, <2>4 DEF SharedState
  <2>6. threads' \in [Threads -> Thread]
    BY <1>0, <1>1, ThreadType DEF add_trace_chunk, ThreadStages
  <2>7. resources' \in [latest : Resources, wanted : [Chunks -> Resources]]
    BY <1>0, <1>1 DEF add_trace_chunk
  <2>8. state' = st /\ accepted' = Append(accepted, c)
    BY <1>1 DEF add_trace_chunk
  <2> HIDE DEF st
  <2> QED BY <1>1, <2>4, <2>5, <2>6, <2>7, <2>8 DEF add_trace_chunk, TypeOK
<1>2. ASSUME NEW c \in Chunks, add_trace_chunk_full(th, c) PROVE TypeOK'
  <2>1. ChunkLen[c] \in Nat
    BY ExporterAssumption
  <2>2. state' \in SharedState
    BY <1>0, <1>2, <2>1, StateType, QueueMetricsType DEF add_trace_chunk_full
  <2> QED BY <1>2, <2>2 DEF add_trace_chunk_full, TypeOK
<1>3. ASSUME NEW c \in Chunks, add_trace_chunk_shutdown(th, c) PROVE TypeOK'
  <2>1. threads' \in [Threads -> Thread]
    BY <1>0, <1>3, ThreadType DEF add_trace_chunk_shutdown, ThreadStages
  <2> QED BY <1>3, <2>1 DEF add_trace_chunk_shutdown, TypeOK
<1>4. ASSUME NEW after \in {"idle", "call"}, Notifies(th, after)
      PROVE  threads' \in [Threads -> Thread]
  BY <1>0, <1>4, ThreadType DEF Notifies, ThreadStages
<1>5. CASE set_resource(th)
  <2>1. resources.latest + 1 \in Resources
    BY <1>0, <1>5, ExporterAssumption DEF set_resource, Resources
  <2>2. state' \in SharedState
    BY <1>0, <1>5, <2>1, StateType DEF set_resource
  <2>3. resources' \in [latest : Resources, wanted : [Chunks -> Resources]]
    BY <1>0, <1>5, <2>1 DEF set_resource
  <2> QED BY <1>4, <1>5, <2>2, <2>3 DEF set_resource, TypeOK
<1>6. CASE trigger_flush(th)
  <2>1. state' \in SharedState
    BY <1>0, <1>6, StateType DEF trigger_flush
  <2> QED BY <1>4, <1>6, <2>1 DEF trigger_flush, TypeOK, history
<1>7. CASE already_shutdown(th)
  <2>1. threads' \in [Threads -> Thread]
    BY <1>0, <1>7, ThreadType DEF already_shutdown, ThreadStages
  <2> QED BY <1>7, <2>1 DEF already_shutdown, TypeOK, history
<1>8. CASE trigger_shutdown(th)
  <2>1. threads' \in [Threads -> Thread]
    <3>1. CASE Notifies(th, "call")
      BY <1>4, <3>1
    <3>2. CASE threads' = [threads EXCEPT ![th].pc = "call"]
      BY <1>0, <3>2, ThreadType DEF ThreadStages
    <3> QED BY <1>8, <3>1, <3>2 DEF trigger_shutdown
  <2>2. state' \in SharedState
    BY <1>0, <1>8, StateType DEF trigger_shutdown, RequestShutdown
  <2>3. owed' \in Nat
    BY <1>0, <1>8 DEF trigger_shutdown, RequestShutdown
  <2> QED BY <1>8, <2>1, <2>2, <2>3 DEF trigger_shutdown, TypeOK
<1> QED BY <1>1, <1>2, <1>3, <1>5, <1>6, <1>7, <1>8 DEF CallStep

\* What a thread does inside a call keeps the state well typed.
LEMMA ThreadStepType ==
  ASSUME TypeOK, NEW th \in Threads,
         \/ ThreadStep(th) \/ wait_shutdown_zero(th)
         \/ wait_shutdown_expired(th) \/ wait_shutdown_spurious(th)
  PROVE  TypeOK'
<1>0. threads \in [Threads -> Thread] /\ worker \in Worker /\ exporter \in Exporter
  BY DEF TypeOK
<1>1. CASE notify_all(th)
  <2>1. threads[th].after \in ThreadStages
    BY <1>0 DEF Thread, ThreadStages
  <2>2. threads' \in [Threads -> Thread] /\ worker' \in Worker
    BY <1>0, <1>1, <2>1, ThreadType, WokenType DEF notify_all
  <2> QED BY <1>1, <2>2 DEF notify_all, TypeOK, history
<1>2. CASE wait_shutdown_done(th)
  <2> DEFINE pc == IF state.has_shutdown THEN "join" ELSE "blocked"
  <2>0. pc \in ThreadStages /\ threads' = [threads EXCEPT ![th].pc = pc]
    BY <1>2 DEF wait_shutdown_done, ThreadStages
  <2> HIDE DEF pc
  <2>1. threads' \in [Threads -> Thread]
    BY <1>0, <2>0, ThreadType
  <2> QED BY <1>2, <2>1 DEF wait_shutdown_done, TypeOK, history
<1>3. CASE join(th)
  <2>1. threads' \in [Threads -> Thread]
    <3>1. CASE threads' = [threads EXCEPT ![th].pc = "joining"]
      BY <1>0, <3>1, ThreadType DEF ThreadStages
    <3>2. CASE threads' = [threads EXCEPT ![th].pc = "idle"]
      BY <1>0, <3>2, ThreadType DEF ThreadStages
    <3> QED BY <1>3, <3>1, <3>2 DEF join
  <2>2. exporter' \in Exporter
    BY <1>0, <1>3 DEF join, Exporter
  <2> QED BY <1>3, <2>1, <2>2 DEF join, TypeOK, history
<1>4. CASE joined(th)
  <2>1. threads' \in [Threads -> Thread]
    BY <1>0, <1>4, ThreadType DEF joined, ThreadStages
  <2>2. exporter' \in Exporter
    BY <1>0, <1>4 DEF joined, Exporter
  <2> QED BY <1>4, <2>1, <2>2 DEF joined, TypeOK, history
<1>5. CASE wait_shutdown_expired(th)
  <2>1. threads' \in [Threads -> Thread]
    BY <1>0, <1>5, ThreadType DEF wait_shutdown_expired, ThreadStages
  <2> QED BY <1>5, <2>1 DEF wait_shutdown_expired, TypeOK, history
<1>6. CASE wait_shutdown_spurious(th)
  <2>1. threads' \in [Threads -> Thread]
    BY <1>0, <1>6, ThreadType DEF wait_shutdown_spurious, ThreadStages
  <2> QED BY <1>6, <2>1 DEF wait_shutdown_spurious, TypeOK, history
<1>7. CASE wait_shutdown_zero(th)
  <2>1. threads' \in [Threads -> Thread]
    BY <1>0, <1>7, ThreadType DEF wait_shutdown_zero, ThreadStages
  <2> QED BY <1>7, <2>1 DEF wait_shutdown_zero, TypeOK, history
<1> QED BY <1>1, <1>2, <1>3, <1>4, <1>5, <1>6, <1>7 DEF ThreadStep

\* What the worker does keeps the state well typed.
LEMMA WorkerStepType ==
  ASSUME TypeOK,
         \/ WorkerStep \/ receive_deadline \/ receive_spurious \/ receive_timeout
         \/ build_fails \/ run_panics
  PROVE  TypeOK'
<1>0. /\ state \in SharedState /\ threads \in [Threads -> Thread] /\ worker \in Worker
      /\ handled \in Seq(Chunks)
      /\ resources \in [latest : Resources, wanted : [Chunks -> Resources]]
  BY DEF TypeOK
<1>1. Messages = {"FlushTraceChunks", "FlushTraceChunksWithTimeout", "SetResource", "Shutdown"}
  BY DEF Messages
<1>2. CASE build
  <2>1. worker' \in Worker
    BY <1>0, <1>2, WorkerType DEF build, WorkerStages
  <2> QED BY <1>2, <2>1 DEF build, TypeOK, history
<1>3. CASE receive_resource
  <2>1. state.set_resource \in Resources /\ <<>> \in Seq(Chunks)
    BY <1>0, <1>3 DEF receive_resource, SharedState
  <2>2. worker' \in Worker
    BY <1>0, <1>1, <1>3, <2>1 DEF receive_resource, Worker, WorkerStages
  <2>3. state' \in SharedState
    BY <1>0, <1>3, StateType DEF receive_resource
  <2> QED BY <1>3, <2>2, <2>3 DEF receive_resource, TypeOK, history
<1>4. CASE receive_shutdown \/ receive_deadline \/ receive_expired
  BY <1>0, <1>1, <1>4, GrabType DEF receive_shutdown, receive_deadline, receive_expired
<1>5. CASE receive_flush
  <2>1. [state EXCEPT !.flush_needed = FALSE] \in SharedState
    BY <1>0, StateType
  <2> QED BY <1>1, <1>5, <2>1, GrabType DEF receive_flush
<1>6. CASE receive_wait
  <2>1. worker' \in Worker
    BY <1>0, <1>6, WorkerType DEF receive_wait, WorkerStages
  <2> QED BY <1>6, <2>1 DEF receive_wait, TypeOK, history
<1>7. CASE run
  <2> DEFINE pc == IF worker.message = "Shutdown" THEN "stopping" ELSE "receive"
             resource == IF worker.message = "SetResource"
                           THEN worker.next_resource ELSE worker.otel_resource
  <2>1. pc \in WorkerStages /\ resource \in Resources /\ <<>> \in Seq(Chunks)
    BY <1>0 DEF Worker, WorkerStages
  <2>2. worker' = [worker EXCEPT !.pc = pc, !.data = <<>>, !.otel_resource = resource]
    BY <1>7 DEF run
  <2> HIDE DEF pc, resource
  <2>3. worker' \in Worker
    BY <1>0, <2>1, <2>2 DEF Worker
  <2>4. worker.data \in Seq(Chunks)
    BY <1>0 DEF Worker
  <2>5. handled' \in Seq(Chunks)
    BY <1>0, <1>7, <2>4, ConcatProperties DEF run
  <2> QED BY <1>7, <2>3, <2>5 DEF run, TypeOK
<1>8. CASE stop
  <2>1. worker' \in Worker
    <3>1. PICK outcome \in {"ok", "failed"} :
            worker' = [worker EXCEPT !.pc = "drop", !.outcome = outcome]
      BY <1>8 DEF stop
    <3>2. "drop" \in WorkerStages /\ outcome \in {"running", "ok", "failed", "panicked"}
      BY DEF WorkerStages
    <3> QED BY <1>0, <3>1, <3>2, WorkerType
  <2> QED BY <1>8, <2>1 DEF stop, TypeOK, history
<1>9. CASE shutdown_done
  <2>1. worker' \in Worker
    BY <1>0, <1>9, WorkerType DEF shutdown_done, WorkerStages
  <2>2. state' \in SharedState
    BY <1>0, <1>9, StateType DEF shutdown_done
  <2> QED BY <1>9, <2>1, <2>2 DEF shutdown_done, TypeOK, history
<1>10. CASE shutdown_done_notify
  <2>1. worker' \in Worker
    BY <1>0, <1>10, WorkerType DEF shutdown_done_notify, WorkerStages
  <2>2. threads' \in [Threads -> Thread]
    BY <1>0, <1>10, WokenType DEF shutdown_done_notify
  <2> QED BY <1>10, <2>1, <2>2 DEF shutdown_done_notify, TypeOK, history
<1>11. CASE receive_spurious
  <2>1. worker' \in Worker
    BY <1>0, <1>11, WorkerType DEF receive_spurious, WorkerStages
  <2> QED BY <1>11, <2>1 DEF receive_spurious, TypeOK, history
<1>12. CASE receive_timeout
  <2>1. worker' \in Worker
    BY <1>0, <1>12, WorkerType DEF receive_timeout, WorkerStages
  <2> QED BY <1>12, <2>1 DEF receive_timeout, TypeOK, history
<1>13. CASE build_fails
  <2>1. worker' \in Worker
    BY <1>0, <1>13, WorkerType DEF build_fails, WorkerStages
  <2> QED BY <1>13, <2>1 DEF build_fails, TypeOK, history
<1>14. CASE run_panics
  <2>1. worker' \in Worker
    BY <1>0, <1>14, WorkerType DEF run_panics, WorkerStages
  <2> QED BY <1>14, <2>1 DEF run_panics, TypeOK, history
<1> QED BY <1>2, <1>3, <1>4, <1>5, <1>6, <1>7, <1>8, <1>9, <1>10, <1>11, <1>12, <1>13, <1>14 DEF WorkerStep

\* Dropping the exporter and taking its counters keep the state well typed.
LEMMA OwnerStepType ==
  ASSUME TypeOK, drop_sender \/ drop_sender_notify \/ get_metrics
  PROVE  TypeOK'
<1>0. /\ state \in SharedState /\ worker \in Worker /\ exporter \in Exporter
      /\ fetched \in QueueMetrics /\ accepted \in Seq(Chunks) /\ owed \in Nat
  BY DEF TypeOK
<1>1. CASE drop_sender
  <2>1. state' \in SharedState
    BY <1>0, <1>1, StateType DEF drop_sender, RequestShutdown
  <2>2. owed' \in Nat
    BY <1>0, <1>1 DEF drop_sender, RequestShutdown
  <2>3. exporter' \in Exporter
    BY <1>0, <1>1 DEF drop_sender, Exporter
  <2> QED BY <1>1, <2>1, <2>2, <2>3 DEF drop_sender, TypeOK
<1>2. CASE drop_sender_notify
  <2>1. worker' \in Worker
    BY <1>0, <1>2, WokenType DEF drop_sender_notify
  <2>2. exporter' \in Exporter
    BY <1>0, <1>2 DEF drop_sender_notify, Exporter
  <2> QED BY <1>2, <2>1, <2>2 DEF drop_sender_notify, TypeOK, history
<1>3. CASE get_metrics
  <2>1. /\ state.metrics.spans_queued \in Nat /\ state.metrics.spans_dropped_full_buffer \in Nat
        /\ NoQueueMetrics \in QueueMetrics
    BY <1>0 DEF SharedState, QueueMetrics, NoQueueMetrics
  <2>2. fetched' \in QueueMetrics
    BY <1>0, <1>3, <2>1, QueueMetricsType DEF get_metrics
  <2>3. state' \in SharedState
    BY <1>0, <1>3, <2>1, StateType DEF get_metrics
  <2> QED BY <1>3, <2>2, <2>3 DEF get_metrics, TypeOK, history
<1> QED BY <1>1, <1>2, <1>3

LEMMA InitType == Init => TypeOK
<1> SUFFICES ASSUME Init PROVE TypeOK
  OBVIOUS
<1>1. NoQueueMetrics \in QueueMetrics /\ <<>> \in Seq(Chunks) /\ 0 \in Resources
  BY ExporterAssumption DEF NoQueueMetrics, QueueMetrics, Resources
<1>2. state \in SharedState
  BY <1>1 DEF Init, SharedState
<1>3. threads \in [Threads -> Thread]
  BY DEF Init, Thread, ThreadStages
<1>4. worker \in Worker
  BY <1>1 DEF Init, Worker, WorkerStages
<1>5. exporter \in Exporter
  BY DEF Init, Exporter
<1>6. resources \in [latest : Resources, wanted : [Chunks -> Resources]]
  BY <1>1 DEF Init
<1> QED BY <1>1, <1>2, <1>3, <1>4, <1>5, <1>6 DEF Init, TypeOK

LEMMA NextType == TypeOK /\ [Next]_vars => TypeOK'
<1> SUFFICES ASSUME TypeOK, [Next]_vars PROVE TypeOK'
  OBVIOUS
<1>1. CASE UNCHANGED vars
  BY <1>1 DEF vars, TypeOK
<1> QED BY <1>1, CallType, ThreadStepType, WorkerStepType, OwnerStepType DEF Next

\* The shared state, the threads, the worker and the counters are always well
\* typed.
THEOREM TypeCorrect == Spec => []TypeOK
BY InitType, NextType, PTL DEF Spec

-----------------------------------------------------------------------------
(* The inductive invariant                                                 *)
(*                                                                         *)
(* FifoConserved says where the accepted chunks are and nothing about when  *)
(* the worker's hands are full: receive would then overwrite data.  The     *)
(* invariant adds what connects the worker's stage to its data, its outcome *)
(* and the shutdown request.                                                *)

\* The worker has data in its hands only between receive and the end of run,
\* or when it panicked with it.
HandsEmpty ==
  worker.pc # "run" /\ worker.outcome # "panicked" => worker.data = <<>>

\* Before the end of the worker's loop there is no outcome.
OutcomeAtEnd ==
  worker.pc \in {"building", "receive", "waiting", "expired", "run", "stopping"}
    => worker.outcome = "running"

\* Once the worker has the shutdown message, what was owed is sent or in hand.
OwedInHand ==
  /\ owed <= Len(accepted)
  /\ worker.message = "Shutdown" =>
       state.shutdown_needed /\ owed <= Len(handled) + Len(worker.data)

ExporterInv ==
  /\ TypeOK
  /\ FifoConserved
  /\ BufferBounded
  /\ ShutdownMeansEnded
  /\ HandsEmpty
  /\ OutcomeAtEnd
  /\ OwedInHand

\* What a step that leaves the queue alone keeps.
QueueUntouched ==
  /\ UNCHANGED <<accepted, handled, owed>>
  /\ state'.batch = state.batch
  /\ state'.span_count = state.span_count
  /\ state'.has_shutdown = state.has_shutdown
  /\ state.shutdown_needed => state'.shutdown_needed
  /\ worker'.data = worker.data
  /\ worker'.message = worker.message
  /\ worker'.outcome = worker.outcome
  /\ \/ worker'.pc = worker.pc
     \/ {worker.pc, worker'.pc} \subseteq {"building", "receive", "waiting", "expired"}

\* Such a step keeps the invariant and is invisible in the abstract queue.
LEMMA UntouchedStep ==
  ASSUME ExporterInv, TypeOK', QueueUntouched
  PROVE  ExporterInv' /\ UNCHANGED Queue!vars
<1>1. FifoConserved' /\ BufferBounded' /\ OwedInHand'
  BY DEF ExporterInv, QueueUntouched, FifoConserved, BufferBounded, OwedInHand
<1>2. ShutdownMeansEnded' /\ HandsEmpty' /\ OutcomeAtEnd'
  BY DEF ExporterInv, QueueUntouched, ShutdownMeansEnded, HandsEmpty, OutcomeAtEnd
<1>3. UNCHANGED Queue!vars
  BY DEF QueueUntouched, Queue!vars
<1> QED BY <1>1, <1>2, <1>3 DEF ExporterInv

LEMMA WokenUntouched ==
  ASSUME worker \in Worker
  PROVE  LET w == WokenWorker(worker)
         IN /\ w.data = worker.data /\ w.message = worker.message /\ w.outcome = worker.outcome
            /\ \/ w.pc = worker.pc
               \/ {worker.pc, w.pc} \subseteq {"building", "receive", "waiting", "expired"}
BY DEF WokenWorker, Worker

\* Asking for the shutdown fixes what is owed, before the worker can know.
LEMMA RequestStep ==
  ASSUME ExporterInv, TypeOK', RequestShutdown, UNCHANGED <<accepted, handled, worker>>
  PROVE  ExporterInv' /\ UNCHANGED Queue!vars
<1>0. state \in SharedState /\ accepted \in Seq(Chunks)
  BY DEF ExporterInv, TypeOK
<1>1. /\ state'.batch = state.batch /\ state'.span_count = state.span_count
      /\ state'.has_shutdown = state.has_shutdown /\ state'.shutdown_needed
  BY <1>0 DEF RequestShutdown, SharedState
<1>2. OwedInHand'
  BY <1>0, <1>1 DEF ExporterInv, OwedInHand, RequestShutdown
<1>3. FifoConserved' /\ BufferBounded' /\ ShutdownMeansEnded' /\ HandsEmpty' /\ OutcomeAtEnd'
  BY <1>1 DEF ExporterInv, FifoConserved, BufferBounded, ShutdownMeansEnded, HandsEmpty, OutcomeAtEnd
<1>4. UNCHANGED Queue!vars
  BY <1>1 DEF Queue!vars
<1> QED BY <1>2, <1>3, <1>4 DEF ExporterInv

\* Appending to the second of two sequences appends to their concatenation.
LEMMA AppendToConcat ==
  \A s, t \in Seq(Chunks), c \in Chunks : s \o Append(t, c) = Append(s \o t, c)
OBVIOUS

\* The first Len(s) elements of s \o t, and the others.
LEMMA SplitConcat ==
  \A s, t \in Seq(Chunks) :
    s # <<>> => /\ Len(s) \in 1..Len(s \o t)
                /\ SubSeq(s \o t, 1, Len(s)) = s
                /\ SubSeq(s \o t, Len(s) + 1, Len(s \o t)) = t
<1> SUFFICES ASSUME NEW s \in Seq(Chunks), NEW t \in Seq(Chunks), s # <<>>
             PROVE  /\ Len(s) \in 1..Len(s \o t)
                    /\ SubSeq(s \o t, 1, Len(s)) = s
                    /\ SubSeq(s \o t, Len(s) + 1, Len(s \o t)) = t
  OBVIOUS
<1>1. Len(s) \in Nat \ {0} /\ Len(t) \in Nat /\ Len(s \o t) = Len(s) + Len(t)
  OBVIOUS
<1>2. SubSeq(s \o t, 1, Len(s)) = SubSeq(s, 1, Len(s))
  BY <1>1, SubSeqOfConcat1
<1>3. SubSeq(s, 1, Len(s)) = s
  BY SubSeqFull
<1>4. SubSeq(s \o t, Len(s) + 1, Len(s \o t)) = t
  OBVIOUS
<1> QED BY <1>1, <1>2, <1>3, <1>4

\* An accepted chunk goes behind all others.
LEMMA AcceptStep ==
  ASSUME ExporterInv, TypeOK', NEW th \in Threads, NEW c \in Chunks, add_trace_chunk(th, c)
  PROVE  ExporterInv' /\ Queue!Accept(c)
<1>0. /\ state \in SharedState /\ worker \in Worker /\ accepted \in Seq(Chunks)
      /\ handled \in Seq(Chunks) /\ worker.data \in Seq(Chunks) /\ state.batch \in Seq(Chunks)
      /\ state.span_count \in Nat
  BY DEF ExporterInv, TypeOK, SharedState, Worker
<1>1. /\ state'.batch = Append(state.batch, c)
      /\ state'.span_count = state.span_count + ChunkLen[c]
      /\ state'.has_shutdown = state.has_shutdown
      /\ state'.shutdown_needed = state.shutdown_needed
      /\ state.span_count <= MaxBufferedSpans /\ ~state.has_shutdown
      /\ accepted' = Append(accepted, c)
      /\ UNCHANGED <<worker, handled, owed>>
  BY <1>0 DEF add_trace_chunk, SharedState
<1>2. accepted = (handled \o worker.data) \o state.batch
  BY DEF ExporterInv, FifoConserved
<1>3. FifoConserved'
  <2>1. handled \o worker.data \in Seq(Chunks)
    BY <1>0
  <2>2. (handled \o worker.data) \o Append(state.batch, c)
          = Append((handled \o worker.data) \o state.batch, c)
    <3>1. state.batch \in Seq(Chunks)
      BY <1>0
    <3> QED BY <2>1, <3>1, AppendToConcat, Zenon
  <2> QED BY <1>1, <1>2, <2>2 DEF FifoConserved
<1>4. BufferBounded'
  <2>1. ChunkLen[c] \in 1..MaxChunkLen /\ MaxChunkLen \in Nat /\ MaxBufferedSpans \in Nat
    BY ExporterAssumption
  <2>2. Len(Append(state.batch, c)) = Len(state.batch) + 1 /\ Len(state.batch) \in Nat
    BY <1>0
  <2> QED BY <1>0, <1>1, <2>1, <2>2 DEF BufferBounded, ExporterInv
<1>5. OwedInHand'
  <2>1. Len(Append(accepted, c)) = Len(accepted) + 1 /\ Len(accepted) \in Nat /\ owed \in Nat
    BY <1>0 DEF ExporterInv, TypeOK
  <2> QED BY <1>1, <2>1 DEF OwedInHand, ExporterInv
<1>6. ShutdownMeansEnded' /\ HandsEmpty' /\ OutcomeAtEnd'
  BY <1>1 DEF ExporterInv, ShutdownMeansEnded, HandsEmpty, OutcomeAtEnd
<1>7. Queue!Accept(c)
  <2>1. worker.data \o Append(state.batch, c) = Append(worker.data \o state.batch, c)
    <3>1. worker.data \in Seq(Chunks) /\ state.batch \in Seq(Chunks)
      BY <1>0
    <3> QED BY <3>1, AppendToConcat, Zenon
  <2> QED BY <1>1, <2>1 DEF Queue!Accept
<1> QED BY <1>3, <1>4, <1>5, <1>6, <1>7 DEF ExporterInv

\* Batch::export moves the whole batch into the worker's hands, which the
\* abstract queue does not see.
LEMMA GrabStep ==
  ASSUME ExporterInv, TypeOK', NEW message \in Messages, NEW st \in SharedState, Grab(message, st),
         worker.pc \in {"receive", "expired"},
         st.has_shutdown = state.has_shutdown, st.shutdown_needed = state.shutdown_needed,
         message = "Shutdown" => state.shutdown_needed
  PROVE  ExporterInv' /\ UNCHANGED Queue!vars
<1>0. /\ worker \in Worker /\ handled \in Seq(Chunks) /\ state.batch \in Seq(Chunks)
      /\ accepted \in Seq(Chunks) /\ worker.outcome = "running" /\ worker.data = <<>>
  BY DEF ExporterInv, TypeOK, SharedState, HandsEmpty, OutcomeAtEnd
<1>1. /\ worker'.pc = "run" /\ worker'.message = message /\ worker'.data = state.batch
      /\ worker'.outcome = "running"
      /\ state'.batch = <<>> /\ state'.span_count = 0
      /\ state'.has_shutdown = state.has_shutdown
      /\ state'.shutdown_needed = state.shutdown_needed
      /\ UNCHANGED <<accepted, handled, owed>>
  BY <1>0 DEF Grab, Worker, SharedState, history
<1>2. accepted = handled \o state.batch
  BY <1>0 DEF ExporterInv, FifoConserved
<1>3. FifoConserved'
  BY <1>0, <1>1, <1>2 DEF FifoConserved
<1>4. BufferBounded'
  BY <1>1, ExporterAssumption DEF BufferBounded
<1>5. OwedInHand'
  <2>1. Len(accepted) = Len(handled) + Len(state.batch)
    BY <1>0, <1>2
  <2> QED BY <1>1, <2>1 DEF ExporterInv, OwedInHand
<1>6. ShutdownMeansEnded' /\ HandsEmpty' /\ OutcomeAtEnd'
  BY <1>1 DEF ExporterInv, ShutdownMeansEnded, HandsEmpty, OutcomeAtEnd
<1>7. UNCHANGED Queue!vars
  BY <1>0, <1>1 DEF Queue!vars
<1> QED BY <1>3, <1>4, <1>5, <1>6, <1>7 DEF ExporterInv

\* Taking a new resource overwrites hands that are empty.
LEMMA ResourceStep ==
  ASSUME ExporterInv, TypeOK', receive_resource
  PROVE  ExporterInv' /\ UNCHANGED Queue!vars
<1>0. worker \in Worker /\ state \in SharedState /\ worker.outcome = "running" /\ worker.data = <<>>
  BY DEF receive_resource, ExporterInv, TypeOK, HandsEmpty, OutcomeAtEnd
<1>1. /\ worker'.pc = "run" /\ worker'.message = "SetResource" /\ worker'.data = <<>>
      /\ worker'.outcome = "running"
      /\ state'.batch = state.batch /\ state'.span_count = state.span_count
      /\ state'.has_shutdown = state.has_shutdown
      /\ UNCHANGED <<accepted, handled, owed>>
  BY <1>0 DEF receive_resource, Worker, SharedState, history
<1>2. FifoConserved' /\ BufferBounded' /\ OwedInHand'
  BY <1>0, <1>1 DEF ExporterInv, FifoConserved, BufferBounded, OwedInHand
<1>3. ShutdownMeansEnded' /\ HandsEmpty' /\ OutcomeAtEnd'
  BY <1>1 DEF receive_resource, ExporterInv, ShutdownMeansEnded, HandsEmpty, OutcomeAtEnd
<1>4. UNCHANGED Queue!vars
  BY <1>0, <1>1 DEF Queue!vars
<1> QED BY <1>2, <1>3, <1>4 DEF ExporterInv

\* The data in hand are the oldest pending chunks of the abstract queue.
LEMMA RunStep ==
  ASSUME ExporterInv, TypeOK', run
  PROVE  /\ ExporterInv'
         /\ UNCHANGED Queue!vars \/ \E n \in 1..Len(worker.data \o state.batch) : Queue!Deliver(n)
<1>0. /\ worker \in Worker /\ handled \in Seq(Chunks) /\ state.batch \in Seq(Chunks)
      /\ worker.data \in Seq(Chunks) /\ worker.outcome = "running" /\ ~state.has_shutdown
  BY DEF run, ExporterInv, TypeOK, SharedState, Worker, OutcomeAtEnd, ShutdownMeansEnded
<1>1. /\ worker'.pc \in {"stopping", "receive"} /\ worker'.message = worker.message
      /\ worker'.data = <<>> /\ worker'.outcome = "running"
      /\ handled' = handled \o worker.data
      /\ UNCHANGED <<state, accepted, owed>>
  BY <1>0 DEF run, Worker
<1>2. FifoConserved'
  <2>1. handled \o worker.data \in Seq(Chunks)
    BY <1>0
  <2>2. (handled \o worker.data) \o <<>> = handled \o worker.data
    BY <2>1
  <2> QED BY <1>1, <2>2 DEF ExporterInv, FifoConserved
<1>3. OwedInHand'
  <2>1. Len(handled \o worker.data) = Len(handled) + Len(worker.data) /\ Len(<<>>) = 0
    BY <1>0
  <2>2. Len(handled \o worker.data) \in Nat
    BY <1>0, <2>1
  <2> QED BY <1>1, <2>1, <2>2 DEF ExporterInv, OwedInHand
<1>4. BufferBounded'
  BY <1>1 DEF ExporterInv, BufferBounded
<1>5. ShutdownMeansEnded' /\ HandsEmpty' /\ OutcomeAtEnd'
  BY <1>0, <1>1 DEF ExporterInv, ShutdownMeansEnded, HandsEmpty, OutcomeAtEnd
<1>6. CASE worker.data = <<>>
  <2>1. UNCHANGED Queue!vars
    BY <1>0, <1>1, <1>6 DEF Queue!vars
  <2> QED BY <1>2, <1>3, <1>4, <1>5, <2>1 DEF ExporterInv
<1>7. CASE worker.data # <<>>
  <2> DEFINE n == Len(worker.data)
             pending == worker.data \o state.batch
  <2>1. /\ n \in 1..Len(pending)
        /\ SubSeq(pending, 1, n) = worker.data
        /\ SubSeq(pending, n + 1, Len(pending)) = state.batch
    <3>1. worker.data \in Seq(Chunks) /\ state.batch \in Seq(Chunks)
      BY <1>0
    <3> QED BY <1>7, <3>1, SplitConcat, Zenon
  <2>2. (worker.data \o state.batch)' = state.batch
    BY <1>0, <1>1
  <2>3. Queue!Deliver(n)
    BY <1>0, <1>1, <2>1, <2>2 DEF Queue!Deliver
  <2> QED BY <1>2, <1>3, <1>4, <1>5, <2>1, <2>3 DEF ExporterInv
<1> QED BY <1>6, <1>7

\* What one step does to the invariant and to the abstract queue.
Simulated == ExporterInv' /\ [Queue!Next]_(Queue!vars)

LEMMA CallInv ==
  ASSUME ExporterInv, TypeOK', NEW th \in Threads, CallStep(th)
  PROVE  Simulated
<1>0. state \in SharedState
  BY DEF ExporterInv, TypeOK
<1>1. ASSUME NEW c \in Chunks, add_trace_chunk(th, c) PROVE Simulated
  BY <1>1, AcceptStep DEF Simulated, Queue!Next
<1>2. ASSUME NEW c \in Chunks, add_trace_chunk_full(th, c) PROVE Simulated
  <2>1. QueueUntouched
    BY <1>0, <1>2 DEF add_trace_chunk_full, QueueUntouched, SharedState
  <2> QED BY <2>1, UntouchedStep DEF Simulated
<1>3. ASSUME NEW c \in Chunks, add_trace_chunk_shutdown(th, c) PROVE Simulated
  <2>1. QueueUntouched
    BY <1>3 DEF add_trace_chunk_shutdown, QueueUntouched
  <2> QED BY <2>1, UntouchedStep DEF Simulated
<1>4. CASE set_resource(th)
  <2>1. QueueUntouched
    BY <1>0, <1>4 DEF set_resource, QueueUntouched, SharedState
  <2> QED BY <2>1, UntouchedStep DEF Simulated
<1>5. CASE trigger_flush(th)
  <2>1. QueueUntouched
    BY <1>0, <1>5 DEF trigger_flush, QueueUntouched, SharedState, history
  <2> QED BY <2>1, UntouchedStep DEF Simulated
<1>6. CASE already_shutdown(th)
  <2>1. QueueUntouched
    BY <1>6 DEF already_shutdown, QueueUntouched, history
  <2> QED BY <2>1, UntouchedStep DEF Simulated
<1>7. CASE trigger_shutdown(th)
  <2>1. CASE state.has_shutdown
    <3>1. QueueUntouched
      BY <1>7, <2>1 DEF trigger_shutdown, QueueUntouched
    <3> QED BY <3>1, UntouchedStep DEF Simulated
  <2>2. CASE ~state.has_shutdown
    <3>1. RequestShutdown /\ UNCHANGED <<accepted, handled, worker>>
      BY <1>7, <2>2 DEF trigger_shutdown
    <3> QED BY <3>1, RequestStep DEF Simulated
  <2> QED BY <2>1, <2>2
<1> QED BY <1>1, <1>2, <1>3, <1>4, <1>5, <1>6, <1>7 DEF CallStep

LEMMA ThreadStepInv ==
  ASSUME ExporterInv, TypeOK', NEW th \in Threads,
         \/ ThreadStep(th) \/ wait_shutdown_zero(th)
         \/ wait_shutdown_expired(th) \/ wait_shutdown_spurious(th)
  PROVE  Simulated
<1>1. CASE notify_all(th)
  <2>1. worker \in Worker
    BY DEF ExporterInv, TypeOK
  <2>2. worker' = WokenWorker(worker)
    BY <1>1 DEF notify_all
  <2>3. UNCHANGED <<state, accepted, handled, owed>>
    BY <1>1 DEF notify_all, history
  <2>4. QueueUntouched
    BY <2>1, <2>2, <2>3, WokenUntouched DEF QueueUntouched
  <2> QED BY <2>4, UntouchedStep DEF Simulated
<1>2. CASE ~notify_all(th)
  <2>1. QueueUntouched
    BY <1>2 DEF ThreadStep, wait_shutdown_zero, wait_shutdown_done, join, joined, wait_shutdown_expired,
                wait_shutdown_spurious, QueueUntouched, history
  <2> QED BY <2>1, UntouchedStep DEF Simulated
<1> QED BY <1>1, <1>2

\* Leaving the loop: the end of the thread is announced once, by has_shutdown.
LEMMA EndStep ==
  ASSUME ExporterInv, TypeOK', stop \/ shutdown_done \/ shutdown_done_notify \/ build_fails \/ run_panics
  PROVE  Simulated
<1>0. /\ worker \in Worker /\ state \in SharedState
      /\ FifoConserved /\ BufferBounded /\ ShutdownMeansEnded /\ HandsEmpty /\ OutcomeAtEnd /\ OwedInHand
  BY DEF ExporterInv, TypeOK
<1>1. /\ UNCHANGED <<accepted, handled, owed>>
      /\ worker'.data = worker.data /\ worker'.message = worker.message
      /\ state'.batch = state.batch /\ state'.span_count = state.span_count
      /\ state'.shutdown_needed = state.shutdown_needed
  BY <1>0 DEF stop, shutdown_done, shutdown_done_notify, build_fails, run_panics, Worker, SharedState, history
<1>2. FifoConserved' /\ BufferBounded' /\ OwedInHand'
  BY <1>0, <1>1 DEF FifoConserved, BufferBounded, OwedInHand
<1>3. ASSUME worker'.pc = "drop" \/ worker'.pc = "done", UNCHANGED state,
             worker'.pc = "drop" => worker.pc \in {"stopping", "building", "run"},
             worker'.pc = "done" => worker.pc = "dropped",
             \/ worker'.outcome \in {"ok", "failed"} /\ worker.data = <<>>
             \/ worker'.outcome = "panicked"
             \/ worker'.outcome = worker.outcome /\ worker.pc # "run"
      PROVE  Simulated
  <2>1. ShutdownMeansEnded'
    BY <1>0, <1>3 DEF ShutdownMeansEnded
  <2>2. HandsEmpty' /\ OutcomeAtEnd'
    BY <1>0, <1>1, <1>3 DEF HandsEmpty, OutcomeAtEnd
  <2>3. UNCHANGED Queue!vars
    BY <1>1, <1>3 DEF Queue!vars
  <2> QED BY <1>2, <2>1, <2>2, <2>3 DEF Simulated, ExporterInv
<1>4. CASE stop
  <2>1. /\ worker.pc = "stopping" /\ worker'.pc = "drop" /\ worker'.outcome \in {"ok", "failed"}
        /\ UNCHANGED state
    BY <1>0, <1>4 DEF stop, Worker
  <2>2. worker.data = <<>>
    BY <1>0, <2>1 DEF HandsEmpty, OutcomeAtEnd
  <2> QED BY <1>3, <2>1, <2>2
<1>5. CASE build_fails
  <2>1. /\ worker.pc = "building" /\ worker'.pc = "drop" /\ worker'.outcome = "failed"
        /\ UNCHANGED state
    BY <1>0, <1>5 DEF build_fails, Worker
  <2>2. worker.data = <<>>
    BY <1>0, <2>1 DEF HandsEmpty, OutcomeAtEnd
  <2> QED BY <1>3, <2>1, <2>2
<1>6. CASE run_panics
  <2>1. /\ worker.pc = "run" /\ worker'.pc = "drop" /\ worker'.outcome = "panicked"
        /\ UNCHANGED state
    BY <1>0, <1>6 DEF run_panics, Worker
  <2> QED BY <1>3, <2>1
<1>7. CASE shutdown_done_notify
  <2>1. /\ worker.pc = "dropped" /\ worker'.pc = "done" /\ worker'.outcome = worker.outcome
        /\ UNCHANGED state
    BY <1>0, <1>7 DEF shutdown_done_notify, Worker
  <2> QED BY <1>3, <2>1
<1>8. CASE shutdown_done
  <2>1. /\ worker.pc = "drop" /\ worker'.pc = "dropped" /\ worker'.outcome = worker.outcome
        /\ state'.has_shutdown = TRUE
    BY <1>0, <1>8 DEF shutdown_done, Worker, SharedState
  <2>2. ShutdownMeansEnded' /\ HandsEmpty' /\ OutcomeAtEnd'
    BY <1>0, <1>1, <2>1 DEF ShutdownMeansEnded, HandsEmpty, OutcomeAtEnd
  <2>3. ~state.has_shutdown
    BY <1>0, <2>1 DEF ShutdownMeansEnded
  <2>4. Queue!Close
    <3>1. (worker.data \o state.batch)' = worker.data \o state.batch
      BY <1>1
    <3> QED BY <1>1, <2>1, <2>3, <3>1 DEF Queue!Close
  <2>5. ExporterInv'
    BY <1>2, <2>2 DEF ExporterInv
  <2> QED BY <2>4, <2>5 DEF Simulated, Queue!Next
<1> QED BY <1>4, <1>5, <1>6, <1>7, <1>8

LEMMA WorkerInv ==
  ASSUME ExporterInv, TypeOK',
         WorkerStep \/ receive_deadline \/ receive_spurious \/ receive_timeout \/ build_fails \/ run_panics
  PROVE  Simulated
<1>0. worker \in Worker /\ state \in SharedState
  BY DEF ExporterInv, TypeOK
<1>1. CASE build \/ receive_wait \/ receive_spurious \/ receive_timeout
  <2>1. QueueUntouched
    BY <1>0, <1>1 DEF build, receive_wait, receive_spurious, receive_timeout, QueueUntouched, Worker, history
  <2> QED BY <2>1, UntouchedStep DEF Simulated
<1>2. CASE receive_resource
  BY <1>2, ResourceStep DEF Simulated
<1>3. CASE receive_shutdown
  <2>1. Grab("Shutdown", state) /\ worker.pc = "receive" /\ state.shutdown_needed
    BY <1>3 DEF receive_shutdown
  <2>2. "Shutdown" \in Messages
    BY DEF Messages
  <2> QED BY <1>0, <2>1, <2>2, GrabStep DEF Simulated
<1>4. CASE receive_flush
  <2> DEFINE st == [state EXCEPT !.flush_needed = FALSE]
  <2>1. Grab("FlushTraceChunks", st) /\ worker.pc = "receive"
    BY <1>4 DEF receive_flush
  <2>2. /\ st \in SharedState /\ st.has_shutdown = state.has_shutdown
        /\ st.shutdown_needed = state.shutdown_needed
    BY <1>0 DEF SharedState
  <2>3. "FlushTraceChunks" \in Messages
    BY DEF Messages
  <2> HIDE DEF st
  <2> QED BY <2>1, <2>2, <2>3, GrabStep DEF Simulated
<1>5. CASE receive_deadline \/ receive_expired
  <2>1. Grab("FlushTraceChunksWithTimeout", state) /\ worker.pc \in {"receive", "expired"}
    BY <1>5 DEF receive_deadline, receive_expired
  <2>2. "FlushTraceChunksWithTimeout" \in Messages
    BY DEF Messages
  <2> QED BY <1>0, <2>1, <2>2, GrabStep DEF Simulated
<1>6. CASE run
  BY <1>6, RunStep DEF Simulated, Queue!Next
<1>7. CASE stop \/ shutdown_done \/ shutdown_done_notify \/ build_fails \/ run_panics
  BY <1>7, EndStep
<1> QED BY <1>1, <1>2, <1>3, <1>4, <1>5, <1>6, <1>7 DEF WorkerStep

LEMMA OwnerInv ==
  ASSUME ExporterInv, TypeOK', drop_sender \/ drop_sender_notify \/ get_metrics
  PROVE  Simulated
<1>0. worker \in Worker /\ state \in SharedState
  BY DEF ExporterInv, TypeOK
<1>1. CASE drop_sender
  <2>1. CASE state.has_shutdown
    <3>1. QueueUntouched
      BY <1>1, <2>1 DEF drop_sender, QueueUntouched
    <3> QED BY <3>1, UntouchedStep DEF Simulated
  <2>2. CASE ~state.has_shutdown
    <3>1. RequestShutdown /\ UNCHANGED <<accepted, handled, worker>>
      BY <1>1, <2>2 DEF drop_sender
    <3> QED BY <3>1, RequestStep DEF Simulated
  <2> QED BY <2>1, <2>2
<1>2. CASE drop_sender_notify
  <2>1. worker' = WokenWorker(worker) /\ UNCHANGED <<state, accepted, handled, owed>>
    BY <1>2 DEF drop_sender_notify, history
  <2>2. QueueUntouched
    BY <1>0, <2>1, WokenUntouched DEF QueueUntouched
  <2> QED BY <2>2, UntouchedStep DEF Simulated
<1>3. CASE get_metrics
  <2>1. QueueUntouched
    BY <1>0, <1>3 DEF get_metrics, QueueUntouched, SharedState, history
  <2> QED BY <2>1, UntouchedStep DEF Simulated
<1> QED BY <1>1, <1>2, <1>3

LEMMA InitInv == Init => ExporterInv /\ Queue!Init
<1> SUFFICES ASSUME Init PROVE ExporterInv /\ Queue!Init
  OBVIOUS
<1>1. TypeOK
  BY InitType
<1>2. FifoConserved /\ Queue!Init
  BY DEF Init, FifoConserved, Queue!Init
<1>3. BufferBounded
  BY ExporterAssumption DEF Init, BufferBounded
<1>4. ShutdownMeansEnded /\ HandsEmpty /\ OutcomeAtEnd /\ OwedInHand
  BY DEF Init, ShutdownMeansEnded, HandsEmpty, OutcomeAtEnd, OwedInHand
<1> QED BY <1>1, <1>2, <1>3, <1>4 DEF ExporterInv

LEMMA NextInv == ExporterInv /\ [Next]_vars => Simulated
<1> SUFFICES ASSUME ExporterInv, [Next]_vars PROVE Simulated
  OBVIOUS
<1>1. TypeOK'
  BY NextType DEF ExporterInv
<1>2. CASE UNCHANGED vars
  <2>1. QueueUntouched
    BY <1>2 DEF vars, QueueUntouched
  <2> QED BY <1>1, <2>1, UntouchedStep DEF Simulated
<1>3. CASE \E th \in Threads : CallStep(th)
  BY <1>1, <1>3, CallInv
<1>4. CASE \E th \in Threads :
             \/ ThreadStep(th) \/ wait_shutdown_zero(th)
         \/ wait_shutdown_expired(th) \/ wait_shutdown_spurious(th)
  BY <1>1, <1>4, ThreadStepInv
<1> QED BY <1>1, <1>2, <1>3, <1>4, WorkerInv, OwnerInv DEF Next

LEMMA Invariance == Spec => []ExporterInv
<1>1. Init => ExporterInv
  BY InitInv
<1>2. ExporterInv /\ [Next]_vars => ExporterInv'
  BY NextInv DEF Simulated
<1> QED BY <1>1, <1>2, PTL DEF Spec

\* No flush, timeout, shutdown or drop loses, duplicates or reorders a chunk
\* that add_trace_chunk answered Ok for.
THEOREM ChunksConserved == Spec => []FifoConserved
<1>1. ExporterInv => FifoConserved
  BY DEF ExporterInv
<1> QED BY <1>1, Invariance, PTL

\* The buffer never exceeds its maximum by a whole chunk or more.
THEOREM BufferIsBounded == Spec => []BufferBounded
<1>1. ExporterInv => BufferBounded
  BY DEF ExporterInv
<1> QED BY <1>1, Invariance, PTL

\* has_shutdown is set exactly while the worker is past its last use of the
\* queue.
THEOREM ShutdownIsFinal == Spec => []ShutdownMeansEnded
<1>1. ExporterInv => ShutdownMeansEnded
  BY DEF ExporterInv
<1> QED BY <1>1, Invariance, PTL

\* A worker that obeyed the shutdown request has sent what was accepted before
\* the request.
THEOREM ShutdownSendsWhatIsOwed == Spec => []ShutdownDrains
<1>1. ExporterInv => ShutdownDrains
  <2> SUFFICES ASSUME ExporterInv,
                      worker.pc \in {"stopping", "drop", "dropped", "done"},
                      worker.message = "Shutdown", worker.outcome # "panicked"
               PROVE  Len(handled) >= owed
    BY DEF ShutdownDrains
  <2>1. worker.data = <<>> /\ owed <= Len(handled) + Len(worker.data)
    BY DEF ExporterInv, HandsEmpty, OwedInHand
  <2>2. Len(handled) \in Nat /\ owed \in Nat
    BY DEF ExporterInv, TypeOK
  <2> QED BY <2>1, <2>2
<1> QED BY <1>1, Invariance, PTL

\* The exporter, its threads, flags, timeouts and failures included, implements
\* the abstract queue: what is pending there is in the worker's hands or in the
\* batch.
THEOREM ExporterImplementsQueue == Spec => ImplementsQueue
<1>1. Init => Queue!Init
  BY InitInv
<1>2. ExporterInv /\ [Next]_vars => [Queue!Next]_(Queue!vars)
  BY NextInv DEF Simulated
<1> QED BY <1>1, <1>2, Invariance, PTL DEF Spec, ImplementsQueue, Queue!Spec

-----------------------------------------------------------------------------
(* Resources                                                               *)
(*                                                                         *)
(* Of ResourceAppliedOnFlush, the worker's resource is the latest one as    *)
(* soon as none waits: then a flush or the shutdown, which receive answers  *)
(* only when none waits, has chunks that wanted it or an older one.         *)

\* The latest resource waits to be received, is being applied, or is in use;
\* no chunk wants one that was not set yet.
LatestOnItsWay ==
  /\ \A c \in Chunks : resources.wanted[c] <= resources.latest
  /\ state.set_resource # NoResource => state.set_resource = resources.latest
  /\ state.set_resource = NoResource =>
       IF worker.pc = "run" /\ worker.message = "SetResource"
         THEN worker.next_resource = resources.latest
         ELSE worker.otel_resource = resources.latest
  /\ worker.pc = "run" /\ worker.message = "SetResource" => worker.data = <<>>

ResourceInv == ExporterInv /\ LatestOnItsWay /\ ResourceAppliedOnFlush

\* What a step that leaves the resources alone keeps.
ResourceUntouched ==
  /\ resources' = resources
  /\ state'.set_resource = state.set_resource
  /\ worker'.data = worker.data
  /\ worker'.message = worker.message
  /\ worker'.next_resource = worker.next_resource
  /\ worker'.otel_resource = worker.otel_resource
  /\ worker'.pc = worker.pc \/ "run" \notin {worker.pc, worker'.pc}

LEMMA ResourceUntouchedStep ==
  ASSUME ResourceInv, ResourceUntouched
  PROVE  LatestOnItsWay' /\ ResourceAppliedOnFlush'
<1>1. LatestOnItsWay'
  BY DEF ResourceInv, LatestOnItsWay, ResourceUntouched
<1>2. ResourceAppliedOnFlush'
  BY DEF ResourceInv, ResourceAppliedOnFlush, ResourceUntouched
<1> QED BY <1>1, <1>2

LEMMA CallResource ==
  ASSUME ResourceInv, NEW th \in Threads, CallStep(th)
  PROVE  LatestOnItsWay' /\ ResourceAppliedOnFlush'
<1>0. /\ state \in SharedState /\ worker \in Worker /\ worker.data \in Seq(Chunks)
      /\ resources \in [latest : Resources, wanted : [Chunks -> Resources]]
      /\ LatestOnItsWay /\ ResourceAppliedOnFlush
  BY DEF ResourceInv, ExporterInv, TypeOK, Worker
<1>1. ASSUME NEW c \in Chunks, add_trace_chunk(th, c)
      PROVE  LatestOnItsWay' /\ ResourceAppliedOnFlush'
  <2>1. /\ resources' = [resources EXCEPT !.wanted[c] = resources.latest]
        /\ state'.set_resource = state.set_resource
        /\ worker' = worker
    BY <1>0, <1>1 DEF add_trace_chunk, SharedState
  <2>2. /\ resources'.latest = resources.latest
        /\ resources'.wanted[c] = resources.latest
        /\ \A d \in Chunks \ {c} : resources'.wanted[d] = resources.wanted[d]
        /\ resources.latest \in Nat
    BY <1>0, <2>1, ExporterAssumption DEF Resources
  <2>3. LatestOnItsWay'
    BY <1>0, <2>1, <2>2 DEF LatestOnItsWay
  <2>4. ASSUME NEW i \in DOMAIN worker.data PROVE worker.data[i] \in Chunks \ {c}
    <3>1. /\ handled \in Seq(Chunks) /\ state.batch \in Seq(Chunks)
          /\ i \in 1..Len(worker.data) /\ Len(handled) \in Nat
      BY <1>0 DEF ResourceInv, ExporterInv, TypeOK, SharedState
    <3>2. accepted = (handled \o worker.data) \o state.batch
      BY DEF ResourceInv, ExporterInv, FifoConserved
    <3>3. Len(handled) + i \in DOMAIN accepted /\ accepted[Len(handled) + i] = worker.data[i]
      <4>1. /\ handled \o worker.data \in Seq(Chunks)
            /\ Len(handled) + i \in 1..Len(handled \o worker.data)
            /\ (handled \o worker.data)[Len(handled) + i] = worker.data[i]
        BY <1>0, <3>1
      <4> DEFINE front == handled \o worker.data
      <4>2. /\ front \in Seq(Chunks) /\ Len(handled) + i \in 1..Len(front)
            /\ front[Len(handled) + i] = worker.data[i] /\ accepted = front \o state.batch
        BY <3>2, <4>1
      <4> HIDE DEF front
      <4>3. /\ Len(handled) + i \in 1..Len(front \o state.batch)
            /\ (front \o state.batch)[Len(handled) + i] = front[Len(handled) + i]
        BY <3>1, <4>2
      <4>4. front \o state.batch \in Seq(Chunks)
        BY <3>1, <4>2
      <4> QED BY <4>2, <4>3, <4>4
    <3> QED BY <1>0, <1>1, <3>3 DEF add_trace_chunk, NewChunk
  <2>5. ResourceAppliedOnFlush'
    BY <1>0, <2>1, <2>2, <2>4 DEF ResourceAppliedOnFlush
  <2> QED BY <2>3, <2>5
<1>2. ASSUME set_resource(th) PROVE LatestOnItsWay' /\ ResourceAppliedOnFlush'
  <2>1. /\ resources'.latest = resources.latest + 1 /\ resources'.wanted = resources.wanted
        /\ state'.set_resource = resources.latest + 1 /\ worker' = worker
    BY <1>0, <1>2 DEF set_resource, SharedState
  <2>2. /\ resources.latest \in Nat /\ \A c \in Chunks : resources.wanted[c] \in Nat
        /\ NoResource \notin Nat
    BY <1>0, ExporterAssumption DEF Resources
  <2>3. LatestOnItsWay'
    BY <1>0, <2>1, <2>2 DEF LatestOnItsWay
  <2>4. ResourceAppliedOnFlush'
    BY <1>0, <2>1 DEF ResourceAppliedOnFlush
  <2> QED BY <2>3, <2>4
<1>3. ASSUME ~ \E c \in Chunks : add_trace_chunk(th, c), ~set_resource(th)
      PROVE  ResourceUntouched
  <2>1. resources' = resources /\ worker' = worker /\ state'.set_resource = state.set_resource
    BY <1>0, <1>3 DEF CallStep, add_trace_chunk_full, add_trace_chunk_shutdown, trigger_flush,
         already_shutdown, trigger_shutdown, RequestShutdown, SharedState, history
  <2> QED BY <2>1 DEF ResourceUntouched
<1> QED BY <1>1, <1>2, <1>3, ResourceUntouchedStep

LEMMA WorkerResource ==
  ASSUME ResourceInv,
         WorkerStep \/ receive_deadline \/ receive_spurious \/ receive_timeout
           \/ build_fails \/ run_panics
  PROVE  LatestOnItsWay' /\ ResourceAppliedOnFlush'
<1>0. /\ state \in SharedState /\ worker \in Worker /\ worker.data \in Seq(Chunks)
      /\ resources \in [latest : Resources, wanted : [Chunks -> Resources]]
      /\ LatestOnItsWay /\ ResourceAppliedOnFlush
  BY DEF ResourceInv, ExporterInv, TypeOK, Worker
<1>1. resources' = resources
  BY DEF WorkerStep, build, receive_resource, receive_shutdown, receive_flush, receive_wait,
         receive_expired, run, stop, shutdown_done, shutdown_done_notify, receive_deadline,
         receive_spurious, receive_timeout, build_fails, run_panics, Grab, history
<1>2. ASSUME receive_resource PROVE LatestOnItsWay' /\ ResourceAppliedOnFlush'
  <2>1. /\ worker'.pc = "run" /\ worker'.message = "SetResource" /\ worker'.data = <<>>
        /\ worker'.next_resource = state.set_resource
        /\ state.set_resource # NoResource /\ state'.set_resource = NoResource
    BY <1>0, <1>2 DEF receive_resource, Worker, SharedState
  <2> QED BY <1>0, <1>1, <2>1 DEF LatestOnItsWay, ResourceAppliedOnFlush
<1>3. ASSUME NEW message \in Messages, NEW st \in SharedState, Grab(message, st),
             worker.pc \in {"receive", "expired"}, st.set_resource = state.set_resource,
             message # "SetResource",
             state.set_resource = NoResource \/ message = "FlushTraceChunksWithTimeout"
      PROVE  LatestOnItsWay' /\ ResourceAppliedOnFlush'
  <2>1. /\ worker'.pc = "run" /\ worker'.message = message /\ worker'.data = state.batch
        /\ worker'.otel_resource = worker.otel_resource
        /\ state'.set_resource = state.set_resource
    BY <1>0, <1>3 DEF Grab, Worker, SharedState
  <2>2. LatestOnItsWay'
    BY <1>0, <1>1, <1>3, <2>1 DEF LatestOnItsWay
  <2>3. ASSUME NEW i \in DOMAIN state.batch, state.set_resource = NoResource
        PROVE  worker.otel_resource >= resources.wanted[state.batch[i]]
    <3>1. state.batch[i] \in Chunks
      BY <1>0, <2>3 DEF SharedState
    <3>2. worker.otel_resource = resources.latest
      BY <1>0, <1>3, <2>3 DEF LatestOnItsWay
    <3>3. resources.latest \in Int /\ resources.wanted[state.batch[i]] \in Int
      BY <1>0, <3>1, ExporterAssumption DEF Resources
    <3> QED BY <1>0, <3>1, <3>2, <3>3 DEF LatestOnItsWay
  <2>4. ResourceAppliedOnFlush'
    BY <1>1, <1>3, <2>1, <2>3 DEF ResourceAppliedOnFlush
  <2> QED BY <2>2, <2>4
<1>4. ASSUME receive_shutdown \/ receive_flush \/ receive_deadline \/ receive_expired
      PROVE  LatestOnItsWay' /\ ResourceAppliedOnFlush'
  <2>1. /\ [state EXCEPT !.flush_needed = FALSE] \in SharedState
        /\ [state EXCEPT !.flush_needed = FALSE].set_resource = state.set_resource
    BY <1>0 DEF SharedState
  <2>2. CASE receive_shutdown
    BY <1>0, <1>3, <2>2 DEF receive_shutdown, Messages
  <2>3. CASE receive_flush
    <3>1. "FlushTraceChunks" \in Messages /\ "FlushTraceChunks" # "SetResource"
      BY DEF Messages
    <3> QED BY <1>3, <2>1, <2>3, <3>1 DEF receive_flush
  <2>4. CASE receive_deadline
    BY <1>0, <1>3, <2>4 DEF receive_deadline, Messages
  <2>5. CASE receive_expired
    BY <1>0, <1>3, <2>5 DEF receive_expired, Messages
  <2> QED BY <1>4, <2>2, <2>3, <2>4, <2>5
<1>5. ASSUME run PROVE LatestOnItsWay' /\ ResourceAppliedOnFlush'
  <2>1. /\ worker.pc = "run" /\ worker'.pc # "run" /\ state' = state
        /\ worker.message = "SetResource" => worker'.otel_resource = worker.next_resource
        /\ worker.message # "SetResource" => worker'.otel_resource = worker.otel_resource
    <3>1. CASE worker.message = "SetResource"
      BY <1>0, <1>5, <3>1 DEF run, Worker
    <3>2. CASE worker.message # "SetResource"
      BY <1>0, <1>5, <3>2 DEF run, Worker
    <3> QED BY <3>1, <3>2
  <2>2. ASSUME state.set_resource = NoResource PROVE worker'.otel_resource = resources.latest
    BY <1>0, <2>1, <2>2 DEF LatestOnItsWay
  <2> QED BY <1>0, <1>1, <2>1, <2>2 DEF LatestOnItsWay, ResourceAppliedOnFlush
<1>6. ASSUME run_panics PROVE LatestOnItsWay' /\ ResourceAppliedOnFlush'
  <2>1. /\ worker.pc = "run" /\ worker'.pc # "run" /\ state' = state /\ worker.data # <<>>
        /\ worker'.otel_resource = worker.otel_resource
    BY <1>0, <1>6 DEF run_panics, Worker
  <2> QED BY <1>0, <1>1, <2>1 DEF LatestOnItsWay, ResourceAppliedOnFlush
<1>7. ASSUME build \/ build_fails \/ receive_wait \/ receive_spurious \/ receive_timeout
               \/ stop \/ shutdown_done \/ shutdown_done_notify
      PROVE  ResourceUntouched
  <2>1. state'.set_resource = state.set_resource
    BY <1>0, <1>7 DEF build, build_fails, receive_wait, receive_spurious, receive_timeout, stop,
         shutdown_done, shutdown_done_notify, SharedState
  <2>2. /\ worker'.data = worker.data /\ worker'.message = worker.message
        /\ worker'.next_resource = worker.next_resource
        /\ worker'.otel_resource = worker.otel_resource
        /\ "run" \notin {worker.pc, worker'.pc}
    BY <1>0, <1>7 DEF build, build_fails, receive_wait, receive_spurious, receive_timeout, stop,
         shutdown_done, shutdown_done_notify, Worker
  <2> QED BY <1>1, <2>1, <2>2 DEF ResourceUntouched
<1> QED BY <1>2, <1>4, <1>5, <1>6, <1>7, ResourceUntouchedStep DEF WorkerStep

LEMMA ResourceInvariance == Spec => []ResourceInv
<1>1. Init => ResourceInv
  <2> SUFFICES ASSUME Init PROVE ResourceInv
    OBVIOUS
  <2>1. LatestOnItsWay /\ ResourceAppliedOnFlush
    BY DEF Init, LatestOnItsWay, ResourceAppliedOnFlush
  <2> QED BY <2>1, InitInv DEF ResourceInv
<1>2. ResourceInv /\ [Next]_vars => ResourceInv'
  <2> SUFFICES ASSUME ResourceInv, [Next]_vars PROVE ResourceInv'
    OBVIOUS
  <2>1. ExporterInv'
    BY NextInv DEF ResourceInv, Simulated
  <2>a. state \in SharedState /\ worker \in Worker
    BY DEF ResourceInv, ExporterInv, TypeOK
  <2>w. /\ WokenWorker(worker).data = worker.data
        /\ WokenWorker(worker).message = worker.message
        /\ WokenWorker(worker).next_resource = worker.next_resource
        /\ WokenWorker(worker).otel_resource = worker.otel_resource
        /\ \/ WokenWorker(worker).pc = worker.pc
           \/ "run" \notin {worker.pc, WokenWorker(worker).pc}
    BY <2>a DEF WokenWorker, Worker
  <2>2. CASE UNCHANGED vars
    <3>1. ResourceUntouched
      BY <2>2 DEF vars, ResourceUntouched
    <3> QED BY <2>1, <3>1, ResourceUntouchedStep DEF ResourceInv
  <2>3. CASE \E th \in Threads : CallStep(th)
    BY <2>1, <2>3, CallResource DEF ResourceInv
  <2>4. CASE \E th \in Threads :
               \/ ThreadStep(th) \/ wait_shutdown_zero(th)
               \/ wait_shutdown_expired(th) \/ wait_shutdown_spurious(th)
    <3>1. /\ resources' = resources /\ state' = state
          /\ worker' = worker \/ worker' = WokenWorker(worker)
      BY <2>4 DEF ThreadStep, notify_all, wait_shutdown_done, join, joined, wait_shutdown_zero,
           wait_shutdown_expired, wait_shutdown_spurious, history
    <3>2. ResourceUntouched
      BY <2>w, <3>1 DEF ResourceUntouched
    <3> QED BY <2>1, <3>2, ResourceUntouchedStep DEF ResourceInv
  <2>5. CASE drop_sender \/ drop_sender_notify \/ get_metrics
    <3>1. /\ resources' = resources
          /\ state'.set_resource = state.set_resource
          /\ worker' = worker \/ worker' = WokenWorker(worker)
      BY <2>5, <2>a DEF drop_sender, drop_sender_notify, get_metrics, RequestShutdown,
           SharedState, history
    <3>2. ResourceUntouched
      BY <2>w, <3>1 DEF ResourceUntouched
    <3> QED BY <2>1, <3>2, ResourceUntouchedStep DEF ResourceInv
  <2> QED BY <2>1, <2>2, <2>3, <2>4, <2>5, WorkerResource DEF Next, ResourceInv
<1> QED BY <1>1, <1>2, PTL DEF Spec

\* A requested flush and the shutdown map their chunks with the resource that
\* was set before each was accepted, or with a later one (span_exporter.rs
\* receive).
THEOREM FlushUsesResource == Spec => []ResourceAppliedOnFlush
<1>1. ResourceInv => ResourceAppliedOnFlush
  BY DEF ResourceInv
<1> QED BY <1>1, ResourceInvariance, PTL

-----------------------------------------------------------------------------
(* Counters                                                                *)

LEMMA SpansOfNone == Spans(<<>>) = 0
<1>1. DOMAIN <<>> = {}
  OBVIOUS
<1> QED BY <1>1, SumOfNone DEF Spans

\* A chunk that is appended adds its spans.
LEMMA SpansOfAppend ==
  ASSUME NEW s \in Seq(Chunks), NEW c \in Chunks
  PROVE  Spans(Append(s, c)) = Spans(s) + ChunkLen[c]
<1> DEFINE t == Append(s, c)
           n == Len(s) + 1
           f == [i \in DOMAIN s |-> ChunkLen[s[i]]]
           g == [i \in DOMAIN t |-> ChunkLen[t[i]]]
<1>1. /\ DOMAIN s = 1..Len(s) /\ DOMAIN t = 1..n /\ Len(s) \in Nat
      /\ t[n] = c /\ \A i \in 1..Len(s) : t[i] = s[i] /\ s[i] \in Chunks
  OBVIOUS
<1>2. DOMAIN t = DOMAIN s \cup {n} /\ n \notin DOMAIN s /\ IsFiniteSet(DOMAIN s)
  <2>1. IsFiniteSet(1..Len(s))
    BY <1>1, FS_Interval
  <2> QED BY <1>1, <2>1
<1>3. \A d \in Chunks : ChunkLen[d] \in Nat
  BY ExporterAssumption
<1>4. \A i \in DOMAIN s : f[i] = g[i]
  BY <1>1
<1>5. \A i \in DOMAIN s \cup {n} : g[i] \in Nat
  BY <1>1, <1>2, <1>3
<1>6. g[n] = ChunkLen[c]
  BY <1>1
<1> HIDE DEF t, n, f, g
<1>7. SumOf(g, DOMAIN s \cup {n}) = SumOf(g, DOMAIN s) + g[n]
  BY <1>2, <1>5, SumWithOneMore
<1>8. SumOf(f, DOMAIN s) = SumOf(g, DOMAIN s)
  BY <1>4, SumOfSame
<1>9. Spans(t) = SumOf(g, DOMAIN t) /\ Spans(s) = SumOf(f, DOMAIN s)
  BY DEF Spans, f, g
<1>10. Spans(t) = Spans(s) + ChunkLen[c]
  BY <1>2, <1>6, <1>7, <1>8, <1>9
<1> QED BY <1>10 DEF t

\* CountersExact, and the chunks refused so far are finitely many.
CounterInv == ExporterInv /\ IsFiniteSet(refused) /\ CountersExact

\* What a step that counts nothing keeps.
CountersUntouched ==
  /\ UNCHANGED <<fetched, accepted, refused>>
  /\ state'.batch = state.batch
  /\ state'.span_count = state.span_count
  /\ state'.metrics = state.metrics
  /\ state.has_shutdown => state'.has_shutdown

LEMMA CountersUntouchedStep ==
  ASSUME CounterInv, CountersUntouched
  PROVE  IsFiniteSet(refused)' /\ CountersExact'
<1>1. IsFiniteSet(refused)'
  BY DEF CounterInv, CountersUntouched
<1>2. CountersExact'
  BY DEF CounterInv, CountersUntouched, CountersExact, Spans
<1> QED BY <1>1, <1>2

LEMMA CallCounters ==
  ASSUME CounterInv, NEW th \in Threads, CallStep(th)
  PROVE  IsFiniteSet(refused)' /\ CountersExact'
<1>0. /\ state \in SharedState /\ fetched \in QueueMetrics /\ accepted \in Seq(Chunks)
      /\ refused \subseteq Chunks /\ IsFiniteSet(refused) /\ CountersExact
      /\ state.batch \in Seq(Chunks) /\ state.metrics \in QueueMetrics
      /\ \A c \in Chunks : ChunkLen[c] \in Nat
  BY ExporterAssumption DEF CounterInv, ExporterInv, TypeOK, SharedState
<1>1. /\ fetched.spans_queued \in Nat /\ fetched.spans_dropped_full_buffer \in Nat
      /\ state.metrics.spans_queued \in Nat /\ state.metrics.spans_dropped_full_buffer \in Nat
      /\ state.span_count \in Nat
  BY <1>0 DEF QueueMetrics, SharedState
<1>2. ASSUME NEW c \in Chunks, add_trace_chunk(th, c)
      PROVE  IsFiniteSet(refused)' /\ CountersExact'
  <2>1. /\ fetched' = fetched /\ refused' = refused /\ accepted' = Append(accepted, c)
        /\ state'.batch = Append(state.batch, c)
        /\ state'.span_count = state.span_count + ChunkLen[c]
        /\ state'.metrics = AddQueued(state.metrics, ChunkLen[c])
        /\ state'.has_shutdown = state.has_shutdown
    BY <1>0, <1>2 DEF add_trace_chunk, SharedState
  <2>2. /\ state'.metrics.spans_queued = state.metrics.spans_queued + ChunkLen[c]
        /\ state'.metrics.spans_dropped_full_buffer = state.metrics.spans_dropped_full_buffer
    BY <1>0, <2>1 DEF AddQueued, QueueMetrics
  <2>3. /\ Spans(state'.batch) = Spans(state.batch) + ChunkLen[c]
        /\ Spans(accepted') = Spans(accepted) + ChunkLen[c]
    BY <1>0, <2>1, SpansOfAppend
  <2>4. /\ state'.span_count = Spans(state'.batch)
        /\ fetched'.spans_queued + state'.metrics.spans_queued = Spans(accepted')
    <3>1. /\ state.span_count = Spans(state.batch)
          /\ fetched.spans_queued + state.metrics.spans_queued = Spans(accepted)
      BY <1>0 DEF CountersExact
    <3> QED BY <1>0, <1>1, <2>1, <2>2, <2>3, <3>1
  <2>5. ASSUME ~state'.has_shutdown
        PROVE  fetched'.spans_dropped_full_buffer + state'.metrics.spans_dropped_full_buffer
                 = SumOf(ChunkLen, refused')
    BY <1>0, <2>1, <2>2, <2>5 DEF CountersExact
  <2>6. CountersExact'
    BY <2>4, <2>5 DEF CountersExact, Spans
  <2> QED BY <1>0, <2>1, <2>6
<1>3. ASSUME NEW c \in Chunks, add_trace_chunk_full(th, c)
      PROVE  IsFiniteSet(refused)' /\ CountersExact'
  <2>1. /\ fetched' = fetched /\ accepted' = accepted /\ refused' = refused \cup {c}
        /\ state'.batch = state.batch /\ state'.span_count = state.span_count
        /\ state'.metrics = AddDropped(state.metrics, ChunkLen[c])
        /\ state'.has_shutdown = state.has_shutdown /\ c \notin refused
    BY <1>0, <1>3 DEF add_trace_chunk_full, NewChunk, SharedState
  <2>2. /\ state'.metrics.spans_queued = state.metrics.spans_queued
        /\ state'.metrics.spans_dropped_full_buffer
             = state.metrics.spans_dropped_full_buffer + ChunkLen[c]
    BY <1>0, <2>1 DEF AddDropped, QueueMetrics
  <2>3. SumOf(ChunkLen, refused \cup {c}) = SumOf(ChunkLen, refused) + ChunkLen[c]
    <3>1. \A d \in refused \cup {c} : ChunkLen[d] \in Nat
      BY <1>0
    <3> QED BY <1>0, <2>1, <3>1, SumWithOneMore
  <2>4. /\ state'.span_count = Spans(state'.batch)
        /\ fetched'.spans_queued + state'.metrics.spans_queued = Spans(accepted')
    BY <1>0, <2>1, <2>2 DEF CountersExact
  <2>5. ASSUME ~state'.has_shutdown
        PROVE  fetched'.spans_dropped_full_buffer + state'.metrics.spans_dropped_full_buffer
                 = SumOf(ChunkLen, refused')
    <3>1. fetched.spans_dropped_full_buffer + state.metrics.spans_dropped_full_buffer
            = SumOf(ChunkLen, refused)
      BY <1>0, <2>1, <2>5 DEF CountersExact
    <3>2. SumOf(ChunkLen, refused') = SumOf(ChunkLen, refused) + ChunkLen[c]
      BY <2>1, <2>3
    <3>3. ChunkLen[c] \in Nat
      BY <1>0
    <3> QED BY <1>1, <2>1, <2>2, <3>1, <3>2, <3>3
  <2>6. CountersExact'
    BY <2>4, <2>5 DEF CountersExact, Spans
  <2>7. IsFiniteSet(refused \cup {c})
    BY <1>0, FS_AddElement
  <2> QED BY <2>1, <2>6, <2>7
<1>4. ASSUME NEW c \in Chunks, add_trace_chunk_shutdown(th, c)
      PROVE  IsFiniteSet(refused)' /\ CountersExact'
  <2>1. /\ state' = state /\ fetched' = fetched /\ accepted' = accepted
        /\ refused' = refused \cup {c} /\ state.has_shutdown
    BY <1>4 DEF add_trace_chunk_shutdown
  <2>2. CountersExact'
    BY <1>0, <2>1 DEF CountersExact, Spans
  <2>3. IsFiniteSet(refused \cup {c})
    BY <1>0, FS_AddElement
  <2> QED BY <2>1, <2>2, <2>3
<1>5. ASSUME set_resource(th) \/ trigger_flush(th) \/ already_shutdown(th) \/ trigger_shutdown(th)
      PROVE  CountersUntouched
  BY <1>0, <1>5 DEF set_resource, trigger_flush, already_shutdown, trigger_shutdown,
       RequestShutdown, CountersUntouched, SharedState, history
<1> QED BY <1>2, <1>3, <1>4, <1>5, CountersUntouchedStep DEF CallStep

LEMMA WorkerCounters ==
  ASSUME CounterInv,
         WorkerStep \/ receive_deadline \/ receive_spurious \/ receive_timeout
           \/ build_fails \/ run_panics
  PROVE  IsFiniteSet(refused)' /\ CountersExact'
<1>0. state \in SharedState /\ IsFiniteSet(refused) /\ CountersExact
  BY DEF CounterInv, ExporterInv, TypeOK
<1>1. ASSUME NEW message \in Messages, NEW st \in SharedState, Grab(message, st),
             st.metrics = state.metrics, st.has_shutdown = state.has_shutdown
      PROVE  IsFiniteSet(refused)' /\ CountersExact'
  <2>1. /\ UNCHANGED <<fetched, accepted, refused>>
        /\ state'.batch = <<>> /\ state'.span_count = 0
        /\ state'.metrics = state.metrics /\ state'.has_shutdown = state.has_shutdown
    BY <1>1 DEF Grab, SharedState, history
  <2>2. state'.span_count = Spans(state'.batch)
    BY <2>1, SpansOfNone
  <2>3. CountersExact'
    BY <1>0, <2>1, <2>2 DEF CountersExact, Spans
  <2> QED BY <1>0, <2>1, <2>3
<1>2. ASSUME receive_shutdown \/ receive_flush \/ receive_deadline \/ receive_expired
      PROVE  IsFiniteSet(refused)' /\ CountersExact'
  <2> DEFINE st == [state EXCEPT !.flush_needed = FALSE]
  <2>1. st \in SharedState /\ st.metrics = state.metrics /\ st.has_shutdown = state.has_shutdown
    BY <1>0 DEF SharedState
  <2>2. PICK message \in Messages : Grab(message, state) \/ Grab(message, st)
    BY <1>2 DEF receive_shutdown, receive_flush, receive_deadline, receive_expired, Messages
  <2> HIDE DEF st
  <2> QED BY <1>0, <1>1, <2>1, <2>2
<1>3. ASSUME build \/ build_fails \/ receive_resource \/ receive_wait \/ receive_spurious
               \/ receive_timeout \/ run \/ run_panics \/ stop \/ shutdown_done
               \/ shutdown_done_notify
      PROVE  CountersUntouched
  BY <1>0, <1>3 DEF build, build_fails, receive_resource, receive_wait, receive_spurious,
       receive_timeout, run, run_panics, stop, shutdown_done, shutdown_done_notify,
       CountersUntouched, SharedState, history
<1> QED BY <1>2, <1>3, CountersUntouchedStep DEF WorkerStep

\* Taking the counters moves them to the collector.
LEMMA FetchCounters ==
  ASSUME CounterInv, get_metrics
  PROVE  IsFiniteSet(refused)' /\ CountersExact'
<1>0. /\ state \in SharedState /\ fetched \in QueueMetrics
      /\ IsFiniteSet(refused) /\ CountersExact /\ state.metrics \in QueueMetrics
  BY DEF CounterInv, ExporterInv, TypeOK, SharedState
<1>1. /\ UNCHANGED <<accepted, refused>>
      /\ state'.batch = state.batch /\ state'.span_count = state.span_count
      /\ state'.has_shutdown = state.has_shutdown
      /\ state'.metrics.spans_queued = 0 /\ state'.metrics.spans_dropped_full_buffer = 0
      /\ fetched'.spans_queued = fetched.spans_queued + state.metrics.spans_queued
      /\ fetched'.spans_dropped_full_buffer
           = fetched.spans_dropped_full_buffer + state.metrics.spans_dropped_full_buffer
      /\ fetched.spans_queued + state.metrics.spans_queued \in Nat
      /\ fetched.spans_dropped_full_buffer + state.metrics.spans_dropped_full_buffer \in Nat
  BY <1>0 DEF get_metrics, SharedState, QueueMetrics, NoQueueMetrics, AddDropped, AddQueued,
       history
<1>2. CountersExact'
  BY <1>0, <1>1 DEF CountersExact, Spans
<1> QED BY <1>0, <1>1, <1>2

LEMMA CounterInvariance == Spec => []CounterInv
<1>1. Init => CounterInv
  <2> SUFFICES ASSUME Init PROVE CounterInv
    OBVIOUS
  <2>1. IsFiniteSet({}) /\ SumOf(ChunkLen, {}) = 0 /\ Spans(<<>>) = 0
    BY FS_EmptySet, SumOfNone, SpansOfNone
  <2>2. IsFiniteSet(refused) /\ CountersExact
    BY <2>1 DEF Init, CountersExact, NoQueueMetrics
  <2> QED BY <2>2, InitInv DEF CounterInv
<1>2. CounterInv /\ [Next]_vars => CounterInv'
  <2> SUFFICES ASSUME CounterInv, [Next]_vars PROVE CounterInv'
    OBVIOUS
  <2>1. ExporterInv'
    BY NextInv DEF CounterInv, Simulated
  <2>2. CASE UNCHANGED vars
    <3>1. CountersUntouched
      BY <2>2 DEF vars, CountersUntouched
    <3> QED BY <2>1, <3>1, CountersUntouchedStep DEF CounterInv
  <2>3. CASE \E th \in Threads : CallStep(th)
    BY <2>1, <2>3, CallCounters DEF CounterInv
  <2>4. CASE \E th \in Threads :
               \/ ThreadStep(th) \/ wait_shutdown_zero(th)
               \/ wait_shutdown_expired(th) \/ wait_shutdown_spurious(th)
    <3>1. CountersUntouched
      BY <2>4 DEF ThreadStep, notify_all, wait_shutdown_done, join, joined, wait_shutdown_zero,
           wait_shutdown_expired, wait_shutdown_spurious, CountersUntouched, history
    <3> QED BY <2>1, <3>1, CountersUntouchedStep DEF CounterInv
  <2>5. CASE drop_sender \/ drop_sender_notify
    <3>0. state \in SharedState
      BY DEF CounterInv, ExporterInv, TypeOK
    <3>1. CountersUntouched
      BY <2>5, <3>0 DEF drop_sender, drop_sender_notify, RequestShutdown, CountersUntouched,
           SharedState, history
    <3> QED BY <2>1, <3>1, CountersUntouchedStep DEF CounterInv
  <2> QED BY <2>1, <2>2, <2>3, <2>4, <2>5, WorkerCounters, FetchCounters DEF Next, CounterInv
<1> QED BY <1>1, <1>2, PTL DEF Spec

\* The cached span count is the number of spans in the batch, and every span
\* offered to a running exporter is counted once, as queued or as dropped,
\* whenever the collector takes the counters (span_exporter.rs Batch, get_metrics).
THEOREM EverySpanIsCounted == Spec => []CountersExact
<1>1. CounterInv => CountersExact
  BY DEF CounterInv
<1> QED BY <1>1, CounterInvariance, PTL

=============================================================================
