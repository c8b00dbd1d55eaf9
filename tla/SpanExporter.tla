---------------------------- MODULE SpanExporter ----------------------------
(***************************************************************************)
(* DatadogExporter (src/datadog-opentelemetry/src/span_exporter.rs): a     *)
(* SharedState behind a mutex and one condition variable, written by the   *)
(* application threads through Sender and emptied by one worker thread     *)
(* through Receiver.                                                       *)
(*                                                                         *)
(* A critical section of the mutex is one step.  notify_all runs after the *)
(* mutex is released, so it is a step of its own; a thread that waits on   *)
(* the condition variable is woken by it, by nothing (a spurious wakeup),  *)
(* or by its timeout, and then has to take the mutex again.                *)
(***************************************************************************)
EXTENDS Integers, Sequences, FiniteSets, Sums

CONSTANTS
  Threads,           \* application threads calling the exporter
  NoThread,          \* nobody holds the mutex of the join handle
  Chunks,            \* trace chunks; each is given to the exporter once
  ChunkLen,          \* number of spans of each chunk
  MaxChunkLen,       \* bound: no chunk has more spans
  FlushThreshold,    \* SPAN_FLUSH_THRESHOLD
  MaxBufferedSpans,  \* MAX_BUFFERED_SPANS
  MaxResources,      \* bound: calls of set_resource
  NoResource,        \* set_resource = None
  Failures           \* how the worker may fail: subset of {"build", "panic"}

ASSUME ExporterAssumption ==
  /\ NoThread \notin Threads
  /\ MaxChunkLen \in Nat
  /\ ChunkLen \in [Chunks -> 1..MaxChunkLen]
  /\ FlushThreshold \in Nat
  /\ MaxBufferedSpans \in Nat
  /\ MaxResources \in Nat
  /\ NoResource \notin Nat
  /\ Failures \subseteq {"build", "panic"}

VARIABLES
  state,      \* SharedState
  threads,    \* application threads: where in a call, where after a notify_all
  worker,     \* TraceExporterWorker and its thread
  exporter,   \* DatadogExporter: the join handle and its mutex, its drop
  fetched,    \* QueueMetrics the telemetry collector has taken so far
  \* History, read by properties only:
  accepted,   \* chunks add_trace_chunk answered Ok for, in order
  refused,    \* chunks it answered an error for
  handled,    \* chunks given to the agent client, in order
  owed,       \* Len(accepted) when shutdown was first requested
  resources   \* latest resource set; per chunk: the latest when it was accepted

vars == <<state, threads, worker, exporter, fetched, accepted, refused, handled, owed, resources>>
history == <<accepted, refused, handled, owed, resources>>

-----------------------------------------------------------------------------
(* Data types *)

Resources == 0..MaxResources

QueueMetrics == [spans_queued : Nat, spans_dropped_full_buffer : Nat]

NoQueueMetrics == [spans_queued |-> 0, spans_dropped_full_buffer |-> 0]

SharedState ==
  [flush_needed : BOOLEAN, shutdown_needed : BOOLEAN, has_shutdown : BOOLEAN,
   batch : Seq(Chunks), span_count : Nat,
   set_resource : Resources \cup {NoResource}, metrics : QueueMetrics]

\* idle     not in a call
\* notify   has changed the state and released the mutex; notify_all is next
\* call     about to call wait_shutdown_done
\* wait     in wait_shutdown_done, woken, about to test has_shutdown again
\* blocked  in wait_shutdown_done, on the condition variable
\* join     about to lock the join handle
\* joining  holds the join handle's mutex until the worker thread ends
ThreadStages == {"idle", "notify", "call", "wait", "blocked", "join", "joining"}

Thread == [pc : ThreadStages, after : {"idle", "call"}]

\* building  TraceExporterBuilder::build
\* receive   in Receiver::receive, about to test the flags
\* waiting   in Receiver::receive, on the condition variable
\* expired   its wait timed out, the mutex is not yet taken again
\* run       has received message and data
\* stopping  TraceExporter::shutdown
\* drop      leaves its thread; Receiver::drop is next
\* dropped   has set has_shutdown; notify_all is next
\* done      the thread has ended
WorkerStages == {"building", "receive", "waiting", "expired", "run",
                 "stopping", "drop", "dropped", "done"}

Messages == {"FlushTraceChunks", "FlushTraceChunksWithTimeout", "SetResource", "Shutdown"}

Worker == [pc : WorkerStages, message : Messages \cup {"none"}, data : Seq(Chunks),
           next_resource : Resources, otel_resource : Resources,
           outcome : {"running", "ok", "failed", "panicked"}]

Exporter == [handle : {"some", "none"}, holder : Threads \cup {NoThread},
             life : {"alive", "dropping", "dropped"}]

-----------------------------------------------------------------------------
(* Waiter::notify_all *)

Woken(ths) ==
  [u \in Threads |-> IF ths[u].pc = "blocked" THEN [ths[u] EXCEPT !.pc = "wait"] ELSE ths[u]]

WokenWorker(w) == IF w.pc = "waiting" THEN [w EXCEPT !.pc = "receive"] ELSE w

notify_all(th) ==
  /\ threads[th].pc = "notify"
  /\ threads' = Woken([threads EXCEPT ![th].pc = threads[th].after])
  /\ worker' = WokenWorker(worker)
  /\ UNCHANGED <<state, exporter, fetched, history>>

-----------------------------------------------------------------------------
(* Sender, through DatadogExporter.  A call on a state that has_shutdown    *)
(* goes on to join the worker.                                              *)

Calls(th) == exporter.life = "alive" /\ threads[th].pc = "idle"

NewChunk(c) == c \notin refused /\ \A i \in DOMAIN accepted : accepted[i] # c

AddQueued(m, n) == [m EXCEPT !.spans_queued = @ + n]

AddDropped(m, n) == [m EXCEPT !.spans_dropped_full_buffer = @ + n]

\* Mutant: a batch over the maximum still takes chunks.
AddWithoutLimit(th, c) ==
  LET count == state.span_count + ChunkLen[c]
      over  == count > FlushThreshold
  IN /\ Calls(th) /\ NewChunk(c)
     /\ ~state.has_shutdown
     /\ state' = [state EXCEPT !.batch = Append(@, c), !.span_count = count,
                               !.metrics = AddQueued(@, ChunkLen[c]),
                               !.flush_needed = @ \/ over]
     /\ threads' = [threads EXCEPT ![th] =
                      [pc |-> IF over THEN "notify" ELSE "idle", after |-> "idle"]]
     /\ accepted' = Append(accepted, c)
     /\ UNCHANGED <<worker, exporter, fetched, refused, handled, owed, resources>>

\* Mutant: chunks are accepted whether or not the worker has gone.
AddAfterShutdown(th, c) ==
  LET count == state.span_count + ChunkLen[c]
      over  == count > FlushThreshold
  IN /\ Calls(th) /\ NewChunk(c)
     /\ state.span_count <= MaxBufferedSpans
     /\ state' = [state EXCEPT !.batch = Append(@, c), !.span_count = count,
                               !.metrics = AddQueued(@, ChunkLen[c]),
                               !.flush_needed = @ \/ over]
     /\ threads' = [threads EXCEPT ![th] =
                      [pc |-> IF over THEN "notify" ELSE "idle", after |-> "idle"]]
     /\ accepted' = Append(accepted, c)
     /\ UNCHANGED <<worker, exporter, fetched, refused, handled, owed, resources>>

\* Batch::add_trace_chunk succeeded: the chunk is counted, and the worker is
\* asked to flush when the batch has grown over the threshold.
add_trace_chunk(th, c) ==
  LET count == state.span_count + ChunkLen[c]
      over  == count > FlushThreshold
  IN /\ Calls(th) /\ NewChunk(c)
     /\ ~state.has_shutdown
     /\ state.span_count <= MaxBufferedSpans
     /\ state' = [state EXCEPT !.batch = Append(@, c), !.span_count = count,
                               !.metrics = AddQueued(@, ChunkLen[c]),
                               !.flush_needed = @ \/ over]
     /\ threads' = [threads EXCEPT ![th] =
                      [pc |-> IF over THEN "notify" ELSE "idle", after |-> "idle"]]
     /\ accepted' = Append(accepted, c)
     /\ resources' = [resources EXCEPT !.wanted[c] = resources.latest]
     /\ UNCHANGED <<worker, exporter, fetched, refused, handled, owed>>

\* Err(BatchFull)
add_trace_chunk_full(th, c) ==
  /\ Calls(th) /\ NewChunk(c)
  /\ ~state.has_shutdown
  /\ state.span_count > MaxBufferedSpans
  /\ state' = [state EXCEPT !.metrics = AddDropped(@, ChunkLen[c])]
  /\ refused' = refused \cup {c}
  /\ UNCHANGED <<threads, worker, exporter, fetched, accepted, handled, owed, resources>>

\* Err(AlreadyShutdown)
add_trace_chunk_shutdown(th, c) ==
  /\ Calls(th) /\ NewChunk(c)
  /\ state.has_shutdown
  /\ threads' = [threads EXCEPT ![th].pc = "join"]
  /\ refused' = refused \cup {c}
  /\ UNCHANGED <<state, worker, exporter, fetched, accepted, handled, owed, resources>>

Notifies(th, after) == threads' = [threads EXCEPT ![th] = [pc |-> "notify", after |-> after]]

set_resource(th) ==
  /\ Calls(th)
  /\ resources.latest < MaxResources
  /\ ~state.has_shutdown
  /\ state' = [state EXCEPT !.set_resource = resources.latest + 1]
  /\ resources' = [resources EXCEPT !.latest = @ + 1]
  /\ Notifies(th, "idle")
  /\ UNCHANGED <<worker, exporter, fetched, accepted, refused, handled, owed>>

\* Mutant: the flag is set and the worker is not woken.
FlushUnannounced(th) ==
  /\ Calls(th)
  /\ ~state.has_shutdown
  /\ state' = [state EXCEPT !.flush_needed = TRUE]
  /\ UNCHANGED <<threads, worker, exporter, fetched, history>>

trigger_flush(th) ==
  /\ Calls(th)
  /\ ~state.has_shutdown
  /\ state' = [state EXCEPT !.flush_needed = TRUE]
  /\ Notifies(th, "idle")
  /\ UNCHANGED <<worker, exporter, fetched, history>>

\* set_resource or force_flush on an exporter that has shut down.
already_shutdown(th) ==
  /\ Calls(th)
  /\ state.has_shutdown
  /\ threads' = [threads EXCEPT ![th].pc = "join"]
  /\ UNCHANGED <<state, worker, exporter, fetched, history>>

RequestShutdown ==
  /\ state' = [state EXCEPT !.shutdown_needed = TRUE]
  /\ owed' = IF state.shutdown_needed THEN owed ELSE Len(accepted)

\* DatadogSpanProcessor::shutdown_with_timeout: trigger_shutdown, whose error
\* is ignored, and then wait_for_shutdown.
trigger_shutdown(th) ==
  /\ Calls(th)
  /\ IF state.has_shutdown
       THEN /\ threads' = [threads EXCEPT ![th].pc = "call"]
            /\ UNCHANGED <<state, owed>>
       ELSE RequestShutdown /\ Notifies(th, "call")
  /\ UNCHANGED <<worker, exporter, fetched, accepted, refused, handled, resources>>

\* No time is left for wait_shutdown_done: Err(TimedOut), reported as Timeout.
wait_shutdown_zero(th) ==
  /\ threads[th].pc = "call"
  /\ threads' = [threads EXCEPT ![th].pc = "idle"]
  /\ UNCHANGED <<state, worker, exporter, fetched, history>>

\* The worker has shut down (Ok, then join), or the thread waits.
wait_shutdown_done(th) ==
  /\ threads[th].pc \in {"call", "wait"}
  /\ threads' = [threads EXCEPT ![th].pc = IF state.has_shutdown THEN "join" ELSE "blocked"]
  /\ UNCHANGED <<state, worker, exporter, fetched, history>>

\* wait_timeout expired: Err(MutexPoisoned), which wait_for_shutdown answers
\* with join.
wait_shutdown_expired(th) ==
  /\ threads[th].pc = "blocked"
  /\ threads' = [threads EXCEPT ![th].pc = "join"]
  /\ UNCHANGED <<state, worker, exporter, fetched, history>>

wait_shutdown_spurious(th) ==
  /\ threads[th].pc = "blocked"
  /\ threads' = [threads EXCEPT ![th].pc = "wait"]
  /\ UNCHANGED <<state, worker, exporter, fetched, history>>

\* DatadogExporter::join: the handle can be taken once; its mutex is held
\* until the worker thread has ended.
join(th) ==
  /\ threads[th].pc = "join"
  /\ exporter.holder = NoThread
  /\ IF exporter.handle = "some"
       THEN /\ exporter' = [exporter EXCEPT !.handle = "none", !.holder = th]
            /\ threads' = [threads EXCEPT ![th].pc = "joining"]
       ELSE /\ threads' = [threads EXCEPT ![th].pc = "idle"]
            /\ UNCHANGED exporter
  /\ UNCHANGED <<state, worker, fetched, history>>

joined(th) ==
  /\ threads[th].pc = "joining"
  /\ worker.pc = "done"
  /\ exporter' = [exporter EXCEPT !.holder = NoThread]
  /\ threads' = [threads EXCEPT ![th].pc = "idle"]
  /\ UNCHANGED <<state, worker, fetched, history>>

\* Drop of the exporter, and of its Sender, once no call is running.
drop_sender ==
  /\ exporter.life = "alive"
  /\ \A th \in Threads : threads[th].pc = "idle"
  /\ IF state.has_shutdown
       THEN /\ exporter' = [exporter EXCEPT !.life = "dropped"]
            /\ UNCHANGED <<state, owed>>
       ELSE /\ RequestShutdown
            /\ exporter' = [exporter EXCEPT !.life = "dropping"]
  /\ UNCHANGED <<threads, worker, fetched, accepted, refused, handled, resources>>

drop_sender_notify ==
  /\ exporter.life = "dropping"
  /\ exporter' = [exporter EXCEPT !.life = "dropped"]
  /\ worker' = WokenWorker(worker)
  /\ UNCHANGED <<state, threads, fetched, history>>

\* Mutant: the counters are read and not reset.
ReadWithoutReset ==
  /\ state.metrics # NoQueueMetrics
  /\ fetched.spans_queued = 0
  /\ fetched' = AddDropped(AddQueued(fetched, state.metrics.spans_queued),
                           state.metrics.spans_dropped_full_buffer)
  /\ UNCHANGED <<state, threads, worker, exporter, history>>

\* QueueMetricsFetcher::get_metrics, called by the telemetry collector.
get_metrics ==
  /\ state.metrics # NoQueueMetrics
  /\ fetched' = AddDropped(AddQueued(fetched, state.metrics.spans_queued),
                           state.metrics.spans_dropped_full_buffer)
  /\ state' = [state EXCEPT !.metrics = NoQueueMetrics]
  /\ UNCHANGED <<threads, worker, exporter, history>>

-----------------------------------------------------------------------------
(* TraceExporterWorker::spawn *)

build ==
  /\ worker.pc = "building"
  /\ worker' = [worker EXCEPT !.pc = "receive"]
  /\ UNCHANGED <<state, threads, exporter, fetched, history>>

\* The closure returns the error and drops the Receiver.
build_fails ==
  /\ "build" \in Failures
  /\ worker.pc = "building"
  /\ worker' = [worker EXCEPT !.pc = "drop", !.outcome = "failed"]
  /\ UNCHANGED <<state, threads, exporter, fetched, history>>

-----------------------------------------------------------------------------
(* Receiver::receive *)

\* Mutant: the chunks are sent and stay in the batch.
BatchCopied(message, st) ==
  /\ worker' = [worker EXCEPT !.pc = "run", !.message = message, !.data = state.batch]
  /\ state' = st
  /\ UNCHANGED <<threads, exporter, fetched, history>>

\* Mutant: the span count survives the export.
CountKept(message, st) ==
  /\ worker' = [worker EXCEPT !.pc = "run", !.message = message, !.data = state.batch]
  /\ state' = [st EXCEPT !.batch = <<>>]
  /\ UNCHANGED <<threads, exporter, fetched, history>>

\* Mutant: the span count is reduced by the threshold instead of reset.
CountReduced(message, st) ==
  /\ worker' = [worker EXCEPT !.pc = "run", !.message = message, !.data = state.batch]
  /\ state' = [st EXCEPT !.batch = <<>>, !.span_count = @ - FlushThreshold]
  /\ UNCHANGED <<threads, exporter, fetched, history>>

\* Batch::export, under the mutex, with the flags that go with the message.
Grab(message, st) ==
  /\ worker' = [worker EXCEPT !.pc = "run", !.message = message, !.data = state.batch]
  /\ state' = [st EXCEPT !.batch = <<>>, !.span_count = 0]
  /\ UNCHANGED <<threads, exporter, fetched, history>>

Quiet == state.set_resource = NoResource /\ ~state.shutdown_needed /\ ~state.flush_needed

receive_resource ==
  /\ worker.pc = "receive"
  /\ state.set_resource # NoResource
  /\ worker' = [worker EXCEPT !.pc = "run", !.message = "SetResource", !.data = <<>>,
                              !.next_resource = state.set_resource]
  /\ state' = [state EXCEPT !.set_resource = NoResource]
  /\ UNCHANGED <<threads, exporter, fetched, history>>

\* Mutant: the worker stops without taking the last batch.
StopWithoutBatch ==
  /\ worker.pc = "receive"
  /\ state.set_resource = NoResource
  /\ state.shutdown_needed
  /\ worker' = [worker EXCEPT !.pc = "run", !.message = "Shutdown", !.data = <<>>]
  /\ UNCHANGED <<state, threads, exporter, fetched, history>>

receive_shutdown ==
  /\ worker.pc = "receive"
  /\ state.set_resource = NoResource
  /\ state.shutdown_needed
  /\ Grab("Shutdown", state)

\* Mutant: a requested flush goes before a new resource.
FlushBeforeResource ==
  /\ worker.pc = "receive"
  /\ ~state.shutdown_needed
  /\ state.flush_needed
  /\ Grab("FlushTraceChunks", [state EXCEPT !.flush_needed = FALSE])

receive_flush ==
  /\ worker.pc = "receive"
  /\ state.set_resource = NoResource
  /\ ~state.shutdown_needed
  /\ state.flush_needed
  /\ Grab("FlushTraceChunks", [state EXCEPT !.flush_needed = FALSE])

\* The deadline had already passed when the worker looked.
receive_deadline ==
  /\ worker.pc = "receive"
  /\ Quiet
  /\ Grab("FlushTraceChunksWithTimeout", state)

\* Mutant: the worker waits whenever the batch is empty, whatever the flags.
WaitWhenEmpty ==
  /\ worker.pc = "receive"
  /\ state.set_resource = NoResource
  /\ state.batch = <<>>
  /\ worker' = [worker EXCEPT !.pc = "waiting"]
  /\ UNCHANGED <<state, threads, exporter, fetched, history>>

receive_wait ==
  /\ worker.pc = "receive"
  /\ Quiet
  /\ worker' = [worker EXCEPT !.pc = "waiting"]
  /\ UNCHANGED <<state, threads, exporter, fetched, history>>

receive_spurious ==
  /\ worker.pc = "waiting"
  /\ worker' = [worker EXCEPT !.pc = "receive"]
  /\ UNCHANGED <<state, threads, exporter, fetched, history>>

receive_timeout ==
  /\ worker.pc = "waiting"
  /\ worker' = [worker EXCEPT !.pc = "expired"]
  /\ UNCHANGED <<state, threads, exporter, fetched, history>>

\* wait_timeout has the mutex again and answers timed_out: the batch is
\* flushed without another look at the flags.
receive_expired ==
  /\ worker.pc = "expired"
  /\ Grab("FlushTraceChunksWithTimeout", state)

-----------------------------------------------------------------------------
(* TraceExporterWorker::run *)

\* The data, if any, is mapped with the current resource and sent; an error of
\* the agent client is only logged.  Then the message is obeyed.
run ==
  /\ worker.pc = "run"
  /\ worker' = [worker EXCEPT
                  !.pc = IF worker.message = "Shutdown" THEN "stopping" ELSE "receive",
                  !.data = <<>>,
                  !.otel_resource = IF worker.message = "SetResource"
                                      THEN worker.next_resource ELSE @]
  /\ handled' = handled \o worker.data
  /\ UNCHANGED <<state, threads, exporter, fetched, accepted, refused, owed, resources>>

\* The mapping, the client or the agent response handler panics; unwinding
\* drops the Receiver.
run_panics ==
  /\ "panic" \in Failures
  /\ worker.pc = "run"
  /\ worker.data # <<>>
  /\ worker' = [worker EXCEPT !.pc = "drop", !.outcome = "panicked"]
  /\ UNCHANGED <<state, threads, exporter, fetched, history>>

\* TraceExporter::shutdown, which may time out.
stop ==
  /\ worker.pc = "stopping"
  /\ \E outcome \in {"ok", "failed"} :
       worker' = [worker EXCEPT !.pc = "drop", !.outcome = outcome]
  /\ UNCHANGED <<state, threads, exporter, fetched, history>>

\* Mutant: the Receiver is gone and nobody is told.
DropSilently ==
  /\ worker.pc = "drop"
  /\ worker' = [worker EXCEPT !.pc = "done"]
  /\ UNCHANGED <<state, threads, exporter, fetched, history>>

\* Receiver::drop
shutdown_done ==
  /\ worker.pc = "drop"
  /\ worker' = [worker EXCEPT !.pc = "dropped"]
  /\ state' = [state EXCEPT !.has_shutdown = TRUE]
  /\ UNCHANGED <<threads, exporter, fetched, history>>

shutdown_done_notify ==
  /\ worker.pc = "dropped"
  /\ worker' = [worker EXCEPT !.pc = "done"]
  /\ threads' = Woken(threads)
  /\ UNCHANGED <<state, exporter, fetched, history>>

-----------------------------------------------------------------------------

Init ==
  /\ state = [flush_needed |-> FALSE, shutdown_needed |-> FALSE, has_shutdown |-> FALSE,
              batch |-> <<>>, span_count |-> 0, set_resource |-> NoResource,
              metrics |-> NoQueueMetrics]
  /\ threads = [th \in Threads |-> [pc |-> "idle", after |-> "idle"]]
  /\ worker = [pc |-> "building", message |-> "none", data |-> <<>>, next_resource |-> 0,
               otel_resource |-> 0, outcome |-> "running"]
  /\ exporter = [handle |-> "some", holder |-> NoThread, life |-> "alive"]
  /\ fetched = NoQueueMetrics
  /\ accepted = <<>>
  /\ refused = {}
  /\ handled = <<>>
  /\ owed = 0
  /\ resources = [latest |-> 0, wanted |-> [c \in Chunks |-> 0]]

\* A thread that is in a call goes on with it.
ThreadStep(th) ==
  notify_all(th) \/ wait_shutdown_done(th) \/ join(th) \/ joined(th)

CallStep(th) ==
  \/ \E c \in Chunks :
       add_trace_chunk(th, c) \/ add_trace_chunk_full(th, c) \/ add_trace_chunk_shutdown(th, c)
  \/ set_resource(th) \/ trigger_flush(th) \/ already_shutdown(th) \/ trigger_shutdown(th)

\* What the worker does without failures, timeouts and spurious wakeups.
WorkerStep ==
  \/ build
  \/ receive_resource \/ receive_shutdown \/ receive_flush \/ receive_wait \/ receive_expired
  \/ run \/ stop \/ shutdown_done \/ shutdown_done_notify

Next ==
  \/ \E th \in Threads : \/ CallStep(th) \/ ThreadStep(th) \/ wait_shutdown_zero(th)
                         \/ wait_shutdown_expired(th) \/ wait_shutdown_spurious(th)
  \/ WorkerStep
  \/ receive_deadline \/ receive_spurious \/ receive_timeout
  \/ build_fails \/ run_panics
  \/ drop_sender \/ drop_sender_notify
  \/ get_metrics

Spec == Init /\ [][Next]_vars

\* Threads that can run do run, and the agent client returns; nothing relies
\* on a timeout or a spurious wakeup.
FairSpec ==
  /\ Spec
  /\ WF_vars(WorkerStep)
  /\ WF_vars(drop_sender_notify)
  /\ \A th \in Threads : WF_vars(ThreadStep(th))

-----------------------------------------------------------------------------
(* Safety *)

TypeOK ==
  /\ state \in SharedState
  /\ threads \in [Threads -> Thread]
  /\ worker \in Worker
  /\ exporter \in Exporter
  /\ fetched \in QueueMetrics
  /\ accepted \in Seq(Chunks)
  /\ refused \subseteq Chunks
  /\ handled \in Seq(Chunks)
  /\ owed \in Nat
  /\ resources \in [latest : Resources, wanted : [Chunks -> Resources]]

\* Every chunk add_trace_chunk answered Ok for is in exactly one place, in the
\* order of acceptance: given to the agent client, in the hands of the worker,
\* or in the batch.  No flush, timeout, shutdown or drop loses, duplicates or
\* reorders one; what a failing worker leaves behind stays accounted for.
FifoConserved == accepted = handled \o worker.data \o state.batch

\* A worker that obeyed the shutdown request has given everything to the agent
\* client that was accepted before the request, whatever races with it.
ShutdownDrains ==
  worker.pc \in {"stopping", "drop", "dropped", "done"} /\ worker.message = "Shutdown"
    /\ worker.outcome # "panicked"
    => Len(handled) >= owed

\* "the batch can be over the maximum size after this call", by at most one
\* chunk: the memory of the queue is bounded.
BufferBounded ==
  /\ state.span_count <= MaxBufferedSpans + MaxChunkLen
  /\ Len(state.batch) <= state.span_count

\* The number of spans of the chunks of a sequence.
Spans(chunks) == SumOf([i \in DOMAIN chunks |-> ChunkLen[chunks[i]]], DOMAIN chunks)

\* The cached span_count, which decides on flushing and dropping, is the
\* number of spans in the batch; and whenever the telemetry collector takes
\* the counters, every span offered to a running exporter was counted once, as
\* queued or as dropped.
CountersExact ==
  /\ state.span_count = Spans(state.batch)
  /\ fetched.spans_queued + state.metrics.spans_queued = Spans(accepted)
  /\ ~state.has_shutdown =>
       fetched.spans_dropped_full_buffer + state.metrics.spans_dropped_full_buffer
         = SumOf(ChunkLen, refused)

\* has_shutdown is only seen when the worker will not touch the queue again:
\* the callers that go on to join wait for a thread that is about to end.
ShutdownMeansEnded ==
  state.has_shutdown <=> worker.pc \in {"dropped", "done"}

\* A requested flush and the shutdown are preceded by any new resource: their
\* chunks are mapped with the resource that was set before they were accepted,
\* or with a later one.
ResourceAppliedOnFlush ==
  worker.pc = "run" /\ worker.message \in {"FlushTraceChunks", "Shutdown"} =>
    \A i \in DOMAIN worker.data : worker.otel_resource >= resources.wanted[worker.data[i]]

\* "Wait fot all tasks to finish, keeping in mind how much time is left": a
\* caller of shutdown_with_timeout blocks on the worker thread itself only
\* when that thread is ending.
JoinsOnlyEndedWorker ==
  \A th \in Threads : threads[th].pc = "joining" => state.has_shutdown

-----------------------------------------------------------------------------
(* Refinement *)

Queue == INSTANCE ExportQueue WITH
  pending <- worker.data \o state.batch,
  delivered <- handled,
  open <- ~state.has_shutdown

\* The exporter implements the abstract queue.
ImplementsQueue == Queue!Spec

-----------------------------------------------------------------------------
(* Liveness, under FairSpec *)

\* No wakeup of the shutdown request is lost: the worker ends, also when the
\* request comes from dropping the exporter.
ShutdownCompletes == state.shutdown_needed ~> state.has_shutdown

InBatch(c) == \E i \in DOMAIN state.batch : state.batch[i] = c
InHandled(c) == \E i \in DOMAIN handled : handled[i] = c

Stopping == worker.message = "Shutdown" \/ worker.outcome # "running"

\* A chunk that is buffered when a flush or the shutdown is requested reaches
\* the agent client without waiting for MAX_BATCH_TIME, unless the worker
\* fails.
FlushServed ==
  \A c \in Chunks :
    InBatch(c) /\ (state.flush_needed \/ state.shutdown_needed) /\ ~Stopping
      ~> InHandled(c) \/ worker.outcome \in {"failed", "panicked"}

\* Every call returns: nobody is left on the condition variable or on the
\* join handle, even the callers that time out or find the exporter shut down.
CallsReturn == \A th \in Threads : threads[th].pc # "idle" ~> threads[th].pc = "idle"

=============================================================================
