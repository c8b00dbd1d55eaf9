------------------------------- MODULE Shutdown -------------------------------
(***************************************************************************)
(* DatadogSpanProcessor::shutdown_with_timeout over the processor's three  *)
(* background workers: the trace exporter, the remote configuration client *)
(* and the telemetry metrics collector (span_processor.rs, utils.rs,       *)
(* spans_metrics.rs, the handle of remote_config.rs).                      *)
(*                                                                         *)
(* All workers are told first; then the caller waits for one after the     *)
(* other with what is left of its timeout, and joins it.  SpanExporter     *)
(* and RemoteConfig hold the detail of the first two workers, which are a  *)
(* few steps here; the collector's loop is modelled here.                  *)
(***************************************************************************)
EXTENDS Naturals, Sequences

CONSTANTS
  MaxPoints,  \* bound: points counted in the registry and the queue
  Panics      \* workers that may panic

Order == <<"exporter", "rc", "telemetry">>

Workers == {"exporter", "rc", "telemetry"}

ASSUME ShutdownAssumption == MaxPoints \in Nat /\ Panics \subseteq Workers

VARIABLES
  shutdown,  \* the call of shutdown_with_timeout, and then the processor's drop
  workers,   \* each worker's thread, its shutdown signal and its join handle
  collector, \* the collector's channel and loop, and the points it moves
  ready      \* telemetry is started (set_resource)

shutdownVars == <<shutdown, workers, collector, ready>>

-----------------------------------------------------------------------------
(* Data types *)

\* trigger, enter, waiting, joining: at worker number `at` of Order
Stages == {"none", "trigger", "enter", "waiting", "joining", "returned", "dropped"}

ShutdownCall ==
  [stage : Stages, at : 1..3, expired : BOOLEAN,
   result : {"none", "ok", "timeout", "failure"}]

\* running; signalled, in or after the drop that tells the signaler (has_shutdown
\* of the exporter); ended, the thread has returned
Worker ==
  [stage : {"absent", "running", "signalled", "ended"}, told : BOOLEAN,
   outcome : {"ok", "failed", "panicked"}, handle : BOOLEAN]

\* counted: points in the registry and in the queue, in that order, not yet
\* taken; taken: by get_metrics, not yet handed to telemetry
Collector ==
  [stage : {"recv", "registry", "queue", "send"}, message : BOOLEAN, connected : BOOLEAN,
   counted : [{"registry", "queue"} -> Nat], taken : Nat, reported : Nat, lost : Nat]

Points == {"registry", "queue"}

Present(w) == workers[w].stage # "absent"

Gone(w) == workers[w].stage \in {"signalled", "ended"}

-----------------------------------------------------------------------------
(* The workers *)

\* DatadogSpanProcessor::new: remote configuration and telemetry are optional.
ShutdownInit ==
  /\ shutdown = [stage |-> "none", at |-> 1, expired |-> FALSE, result |-> "none"]
  /\ \E optional \in SUBSET {"rc", "telemetry"} :
       workers = [w \in Workers |->
                    [stage |-> IF w = "exporter" \/ w \in optional THEN "running" ELSE "absent",
                     told |-> FALSE, outcome |-> "ok", handle |-> TRUE]]
  /\ collector = [stage |-> "recv", message |-> FALSE, connected |-> TRUE,
                  counted |-> [p \in Points |-> 0], taken |-> 0, reported |-> 0, lost |-> 0]
  /\ ready = FALSE

Signal(w, outcome) ==
  workers' = [workers EXCEPT ![w].stage = "signalled", ![w].outcome = outcome]

\* The exporter and the remote configuration client stop when they are told.
\* The exporter's own shutdown may fail.
Stops(w) ==
  /\ w \in {"exporter", "rc"}
  /\ workers[w].stage = "running"
  /\ workers[w].told
  /\ \E outcome \in {"ok"} \cup (IF w = "exporter" THEN {"failed"} ELSE {}) : Signal(w, outcome)
  /\ UNCHANGED <<shutdown, collector, ready>>

\* A client that cannot be built, a runtime that cannot be built, a panic.
\* The drop of the worker signals its end all the same.
Fails(w) ==
  /\ workers[w].stage = "running"
  /\ \/ w = "exporter" /\ Signal(w, "failed")
     \/ w = "rc" /\ Signal(w, "ok")
     \/ w \in Panics /\ Signal(w, "panicked")
  /\ UNCHANGED <<shutdown, collector, ready>>

Ends(w) ==
  /\ workers[w].stage = "signalled"
  /\ workers' = [workers EXCEPT ![w].stage = "ended"]
  /\ UNCHANGED <<shutdown, collector, ready>>

\* A call of the application that finds the exporter shut down joins it and
\* takes its handle.
ExporterJoined ==
  /\ workers["exporter"].stage = "ended"
  /\ workers["exporter"].handle
  /\ workers' = [workers EXCEPT !["exporter"].handle = FALSE]
  /\ UNCHANGED <<shutdown, collector, ready>>

-----------------------------------------------------------------------------
(* TelemetryMetricsCollector::run *)

Collecting(stage) == workers["telemetry"].stage = "running" /\ collector.stage = stage

\* The application's spans are counted.
Counts(p) ==
  /\ Present("telemetry")
  /\ collector.counted["registry"] + collector.counted["queue"] + collector.taken
       + collector.reported + collector.lost < MaxPoints
  /\ collector' = [collector EXCEPT !.counted[p] = @ + 1]
  /\ UNCHANGED <<shutdown, workers, ready>>

\* set_resource starts telemetry once.
TelemetryStarts ==
  /\ ~ready
  /\ ready' = TRUE
  /\ UNCHANGED <<shutdown, workers, collector>>

\* A message or a dropped sender: the collector returns at once.
CollectorStops ==
  /\ Collecting("recv")
  /\ collector.message \/ ~collector.connected
  /\ Signal("telemetry", "ok")
  /\ collector' = [collector EXCEPT !.message = FALSE]
  /\ UNCHANGED <<shutdown, ready>>

\* recv_timeout expires: the ten seconds are over and nothing came.
CollectorTimeout ==
  /\ Collecting("recv")
  /\ ~collector.message /\ collector.connected
  /\ collector' = [collector EXCEPT !.stage = "registry"]
  /\ UNCHANGED <<shutdown, workers, ready>>

\* Mutant: the counters are read and not reset.
CountersKept ==
  /\ Collecting("registry") \/ Collecting("queue")
  /\ collector' = [collector EXCEPT !.taken = @ + collector.counted[collector.stage],
                                    !.stage = IF @ = "registry" THEN "queue" ELSE "send"]
  /\ UNCHANGED <<shutdown, workers, ready>>

\* Mutant: the queue's counters are not taken.
RegistryOnly ==
  /\ Collecting("registry")
  /\ collector' = [collector EXCEPT !.taken = @ + collector.counted["registry"],
                                    !.counted["registry"] = 0, !.stage = "send"]
  /\ UNCHANGED <<shutdown, workers, ready>>

\* get_metrics of the registry, then of the exporter's queue
get_metrics ==
  /\ Collecting("registry") \/ Collecting("queue")
  /\ collector' = [collector EXCEPT !.taken = @ + collector.counted[collector.stage],
                                    !.counted[collector.stage] = 0,
                                    !.stage = IF @ = "registry" THEN "queue" ELSE "send"]
  /\ UNCHANGED <<shutdown, workers, ready>>

\* Mutant: a collector that was told to stop does not hand over what it took.
StopsBeforeSending ==
  /\ Collecting("send")
  /\ collector.message \/ ~collector.connected
  /\ Signal("telemetry", "ok")
  /\ UNCHANGED <<shutdown, collector, ready>>

\* add_points: lost while telemetry is not started.
add_points ==
  /\ Collecting("send")
  /\ collector' = [collector EXCEPT !.stage = "recv", !.taken = 0,
                                    !.reported = IF ready THEN @ + collector.taken ELSE @,
                                    !.lost = IF ready THEN @ ELSE @ + collector.taken]
  /\ UNCHANGED <<shutdown, workers, ready>>

-----------------------------------------------------------------------------
(* shutdown_with_timeout; the SDK calls it once *)

Shut(stage) == shutdown.stage = stage

current == Order[shutdown.at]

shutdown_with_timeout ==
  /\ shutdown.stage = "none"
  /\ shutdown' = [shutdown EXCEPT !.stage = "trigger"]
  /\ UNCHANGED <<workers, collector, ready>>

\* The deadline passes.
Expires ==
  /\ shutdown.stage \notin {"none", "returned", "dropped"}
  /\ ~shutdown.expired
  /\ shutdown' = [shutdown EXCEPT !.expired = TRUE]
  /\ UNCHANGED <<workers, collector, ready>>

Tell(w) ==
  /\ workers' = [workers EXCEPT ![w].told = TRUE]
  /\ collector' = IF w = "telemetry" THEN [collector EXCEPT !.message = TRUE] ELSE collector

Past(stage) == IF shutdown.at = 3 THEN [shutdown EXCEPT !.at = 1, !.stage = "enter"]
               ELSE [shutdown EXCEPT !.at = @ + 1, !.stage = stage]

Answer(result) == shutdown' = [shutdown EXCEPT !.stage = "returned", !.result = result]

\* Mutant: an exporter that has already gone ends the call.
TriggerGivesUp ==
  /\ Shut("trigger")
  /\ IF current = "exporter" /\ Gone("exporter")
     THEN Answer("failure") /\ UNCHANGED <<workers, collector>>
     ELSE Tell(current) /\ shutdown' = Past("trigger")
  /\ UNCHANGED ready

\* trigger_shutdown: a flag, a cancelled token, a message in a channel of one.
trigger_shutdown ==
  /\ Shut("trigger")
  /\ IF Present(current) THEN Tell(current) ELSE UNCHANGED <<workers, collector>>
  /\ shutdown' = Past("trigger")
  /\ UNCHANGED ready

Onward ==
  IF shutdown.at = 3 THEN Answer("ok")
  ELSE shutdown' = [shutdown EXCEPT !.at = @ + 1, !.stage = "enter"]

\* The exporter with no time left is not waited for; a WorkerHandle gives up
\* its join handle before it waits.
EnterWait ==
  /\ Shut("enter")
  /\ \/ ~Present(current) /\ Onward /\ UNCHANGED workers
     \/ current = "exporter" /\ shutdown.expired /\ Answer("timeout") /\ UNCHANGED workers
     \/ /\ Present(current)
        /\ ~(current = "exporter" /\ shutdown.expired)
        /\ shutdown' = [shutdown EXCEPT !.stage = "waiting"]
        /\ workers' = IF current = "exporter" THEN workers
                      ELSE [workers EXCEPT ![current].handle = FALSE]
  /\ UNCHANGED <<collector, ready>>

\* Mutant: an expired wait goes on to the join, for every worker.
WaitIgnoresTimeout ==
  /\ Shut("waiting")
  /\ Gone(current) \/ shutdown.expired
  /\ shutdown' = [shutdown EXCEPT !.stage = "joining"]
  /\ UNCHANGED <<workers, collector, ready>>

\* Mutant: a spurious wakeup is taken for the deadline.
WaitOnce ==
  /\ Shut("waiting")
  /\ IF Gone(current) \/ (current = "exporter" /\ shutdown.expired)
     THEN shutdown' = [shutdown EXCEPT !.stage = "joining"] ELSE Answer("timeout")
  /\ UNCHANGED <<workers, collector, ready>>

\* Mutant: an expired wait starts again.
WaitForEver ==
  /\ Shut("waiting")
  /\ Gone(current)
  /\ current = "exporter" \/ ~shutdown.expired
  /\ shutdown' = [shutdown EXCEPT !.stage = "joining"]
  /\ UNCHANGED <<workers, collector, ready>>

\* The wait ends with the signal, or without it at the deadline: the exporter
\* is then joined nevertheless, the others are left.
WaitEnds ==
  /\ Shut("waiting")
  /\ \/ Gone(current) /\ shutdown' = [shutdown EXCEPT !.stage = "joining"]
     \/ /\ shutdown.expired /\ ~Gone(current)
        /\ IF current = "exporter" THEN shutdown' = [shutdown EXCEPT !.stage = "joining"]
           ELSE Answer("timeout")
  /\ UNCHANGED <<workers, collector, ready>>

\* Mutant: a handle that is gone counts as a worker that ended well.
JoinsAnyHow ==
  /\ Shut("joining")
  /\ workers[current].stage = "ended" \/ (current = "exporter" /\ ~workers[current].handle)
  /\ Onward
  /\ UNCHANGED <<workers, collector, ready>>

\* join: the first worker that failed ends the call.
Joins ==
  /\ Shut("joining")
  /\ workers[current].stage = "ended"
  /\ LET taken == current = "exporter" /\ ~workers[current].handle
         outcome == workers[current].outcome
     IN \/ outcome = "ok" /\ ~taken /\ Onward
        \/ (taken \/ outcome # "ok") /\ Answer("failure")
        \/ outcome = "failed" /\ ~taken /\ Answer("timeout")
  /\ workers' = [workers EXCEPT ![current].handle = FALSE]
  /\ UNCHANGED <<collector, ready>>

\* The processor is dropped: the sender of the exporter and the handle of
\* remote configuration tell their worker once more, the collector's channel
\* is disconnected.
Drops ==
  /\ shutdown.stage = "returned"
  /\ shutdown' = [shutdown EXCEPT !.stage = "dropped"]
  /\ workers' = [w \in Workers |-> [workers[w] EXCEPT !.told = TRUE]]
  /\ collector' = [collector EXCEPT !.connected = FALSE]
  /\ UNCHANGED ready

CollectorRuns == CollectorStops \/ CollectorTimeout \/ get_metrics \/ add_points

CallerRuns == trigger_shutdown \/ EnterWait \/ WaitEnds \/ Joins

ShutdownNext ==
  \/ shutdown_with_timeout
  \/ Expires
  \/ CallerRuns
  \/ Drops
  \/ CollectorRuns
  \/ TelemetryStarts
  \/ ExporterJoined
  \/ \E w \in Workers : Stops(w) \/ Fails(w) \/ Ends(w)
  \/ \E p \in Points : Counts(p)

ShutdownSpec == ShutdownInit /\ [][ShutdownNext]_shutdownVars

\* Threads run and time passes; SpanExporter and RemoteConfig show that their
\* worker ends once it is told.  Nothing makes the application call shutdown
\* or drop the provider.
FairSpec ==
  /\ ShutdownSpec
  /\ WF_shutdownVars(CallerRuns)
  /\ WF_shutdownVars(Expires)
  /\ WF_shutdownVars(CollectorRuns)
  /\ \A w \in Workers : WF_shutdownVars(Stops(w)) /\ WF_shutdownVars(Ends(w))

-----------------------------------------------------------------------------
(* Properties *)

\* Every record has its type.
TypeOK ==
  /\ shutdown \in ShutdownCall
  /\ workers \in [Workers -> Worker]
  /\ collector \in Collector
  /\ ready \in BOOLEAN

\* shutdown_with_timeout answers Ok only when every worker has ended, and none
\* of them with an error (span_processor.rs 701-764).
OkMeansAllEnded ==
  shutdown.result = "ok" =>
    \A w \in Workers :
      Present(w) => workers[w].stage = "ended" /\ workers[w].outcome = "ok"

\* The join of a worker behind a WorkerHandle is a short one: its end has been
\* signalled (utils.rs 24-36).
JoinsOnlySignalled ==
  shutdown.stage = "joining" /\ current # "exporter" => Gone(current)

\* Until the deadline has passed the caller hears of a timeout only from the
\* exporter's own shutdown (span_processor.rs 716-764).
NoEarlyTimeout ==
  shutdown.result = "timeout" => shutdown.expired \/ workers["exporter"].outcome = "failed"

\* What the caller is told is so: Ok, a timeout and a join mean what they say,
\* in whatever state the workers are and whoever panicked.
AnswerIsTrue ==
  /\ OkMeansAllEnded
  /\ JoinsOnlySignalled
  /\ NoEarlyTimeout

\* No worker outlives the shutdown for good: also those the call did not wait
\* for, because its time was over or an earlier worker had failed, and those
\* whose thread it detached, end (span_processor.rs 707-714, utils.rs 25-34).
EveryWorkerEnds ==
  (shutdown.stage = "trigger") ~> \A w \in Workers : Present(w) => workers[w].stage = "ended"

\* The call returns, whatever the workers do.
CallReturns == (shutdown.stage = "trigger") ~> (shutdown.stage \in {"returned", "dropped"})

\* A point that was counted is handed to telemetry in a later round unless the
\* collector is told to stop first or panics (spans_metrics.rs 55-97).
PointsCollected ==
  (Collecting("recv") /\ collector.counted["queue"] > 0)
    ~> (collector.counted["queue"] = 0 \/ Gone("telemetry"))

\* A round that was begun is finished: the collector never ends with points it
\* took and did not hand over, unless it panics (spans_metrics.rs 55-66).
RoundsAreWhole ==
  Gone("telemetry") /\ workers["telemetry"].outcome = "ok" => collector.taken = 0

\* No round reports a point twice (spans_metrics.rs 68-70).
PointsCountedOnce ==
  collector.counted["registry"] + collector.counted["queue"] + collector.taken
    + collector.reported + collector.lost <= MaxPoints

\* No point is reported twice, and none is lost between taking and sending it.
PointsConserved == RoundsAreWhole /\ PointsCountedOnce

\* Whatever ends early, fails or is slow, the shutdown comes to its end: the
\* call, the workers and the rounds of the collector.
ShutdownEnds == EveryWorkerEnds /\ CallReturns /\ PointsCollected

=============================================================================
