---------------------------- MODULE ContextLabels ----------------------------
(***************************************************************************)
(* The labels of the running span that each thread publishes for external  *)
(* profilers: src/datadog-opentelemetry/src/context_labels, fed by         *)
(* on_start and on_end of the span processor through the trace registry.   *)
(* OpenTelemetry calls the observer when a thread attaches a context and   *)
(* when it detaches the topmost one; spans start and end in any thread     *)
(* meanwhile.  A trace has one local root here, sampled and started by the *)
(* thread that attaches it; TraceRegistry has the other cases.             *)
(***************************************************************************)
EXTENDS Naturals, Sequences, FiniteSets

CONSTANTS
  Threads, LabelSpans,
  TraceOf,     \* [LabelSpans -> traces]
  RouteOf,     \* [LabelSpans -> routes or None]: http.route or http.target at the start
  Remote,      \* spans of other services, known from their headers
  Shown,       \* spans whose context is sampled and valid
  MaxDepth, MaxAttaches,   \* bounds: contexts attached at a time, in all
  None

\* A span, a labelset and a record are told from None.
WellFormed ==
  /\ None \notin LabelSpans /\ Shown \subseteq LabelSpans
  /\ None \notin [span_id : LabelSpans \cup {None}, local_root_span_id : LabelSpans \cup {None},
                  http_route : {RouteOf[s] : s \in LabelSpans} \cup {None}]

ASSUME LabelsAssumption == WellFormed

VARIABLES
  open_traces, \* traces with an open span: their root and their open spans
  stage,       \* of each span
  stack,       \* of each thread: the spans of its attached contexts, or None
  observer,    \* of each thread: its step in the observer, and the root it read
  v1,          \* of each thread: its labelset, or None when there is none yet
  v2,          \* of each thread: its record, or None
  attaches

Seqs == INSTANCE SequencesExt

labelVars == <<open_traces, stage, stack, observer, v1, v2, attaches>>

NoLabels == [span_id |-> None, local_root_span_id |-> None, http_route |-> None]

LabelsInit ==
  /\ open_traces = <<>> /\ stage = [s \in LabelSpans |-> IF s \in Remote THEN "elsewhere" ELSE "unborn"]
  /\ stack = [t \in Threads |-> <<>>]
  /\ observer = [t \in Threads |-> [step |-> "rest", root |-> None]]
  /\ v1 = [t \in Threads |-> None] /\ v2 = [t \in Threads |-> None]
  /\ attaches = 0

Current(t) == IF stack[t] = <<>> THEN None ELSE Seqs!Last(stack[t])
Entry(s) == open_traces[TraceOf[s]]
HasEntry(s) == TraceOf[s] \in DOMAIN open_traces

\* on_start: the first span of the trace is its root; the metadata is that of
\* the span while it is open.
on_start_span(s) ==
  /\ stage[s] = "unborn"
  /\ LET entry == IF HasEntry(s) THEN Entry(s) ELSE [root |-> s, open |-> {}]
     IN open_traces' = [u \in DOMAIN open_traces \cup {TraceOf[s]} |->
                       IF u = TraceOf[s] THEN [entry EXCEPT !.open = @ \cup {s}] ELSE open_traces[u]]
  /\ stage' = [stage EXCEPT ![s] = "open"]
  /\ UNCHANGED <<stack, observer, v1, v2, attaches>>

\* Mutant: the trace is closed by its root.
ClosedByRoot(s) ==
  /\ stage[s] = "open"
  /\ open_traces' = IF HasEntry(s) /\ Entry(s).root = s
                 THEN [u \in DOMAIN open_traces \ {TraceOf[s]} |-> open_traces[u]]
                 ELSE open_traces
  /\ stage' = [stage EXCEPT ![s] = "ended"]
  /\ UNCHANGED <<stack, observer, v1, v2, attaches>>

\* on_end: finish_span forgets the metadata, and the trace with its last span.
on_end_span(s) ==
  /\ stage[s] = "open"
  /\ open_traces' = IF Entry(s).open = {s}
                 THEN [u \in DOMAIN open_traces \ {TraceOf[s]} |-> open_traces[u]]
                 ELSE [open_traces EXCEPT ![TraceOf[s]].open = @ \ {s}]
  /\ stage' = [stage EXCEPT ![s] = "ended"]
  /\ UNCHANGED <<stack, observer, v1, v2, attaches>>

\* Mutant: the record of the last span stays.
V1Cleared(t) ==
  /\ v1' = [v1 EXCEPT ![t] = IF @ = None THEN None ELSE NoLabels]
  /\ UNCHANGED v2

clear_labels(t) ==
  /\ v1' = [v1 EXCEPT ![t] = IF @ = None THEN None ELSE NoLabels]
  /\ v2' = [v2 EXCEPT ![t] = None]

\* on_context_enter and on_context_exit: write_trace_context up to the reads
\* of the registry, which a thread makes only for a span that is shown.
Observe(t, s) ==
  IF s \in Shown
  THEN observer' = [observer EXCEPT ![t] = [step |-> "root", root |-> None]] /\ UNCHANGED <<v1, v2>>
  ELSE clear_labels(t) /\ UNCHANGED observer

\* A thread attaches the context of a span that has started or of another
\* service, or a context without span.
Attach(t, s) ==
  /\ observer[t].step = "rest" /\ Len(stack[t]) < MaxDepth /\ attaches < MaxAttaches
  /\ s # None => stage[s] # "unborn"
  /\ stack' = [stack EXCEPT ![t] = Append(@, s)]
  /\ attaches' = attaches + 1
  /\ Observe(t, s)
  /\ UNCHANGED <<open_traces, stage>>

\* A guard is dropped; only the topmost one changes the current context.
Detach(t, i) ==
  /\ observer[t].step = "rest" /\ i \in DOMAIN stack[t]
  /\ stack' = [stack EXCEPT ![t] = Seqs!RemoveAt(@, i)]
  /\ IF i = Len(stack[t])
     THEN Observe(t, IF i = 1 THEN None ELSE stack[t][i - 1])
     ELSE UNCHANGED <<observer, v1, v2>>
  /\ UNCHANGED <<open_traces, stage, attaches>>

\* get_local_root_span_id, or the span itself.
ReadRoot(t) ==
  /\ observer[t].step = "root"
  /\ LET s == Current(t) IN
     observer' = [observer EXCEPT ![t] = [step |-> "labels",
                                          root |-> IF HasEntry(s) THEN Entry(s).root ELSE s]]
  /\ UNCHANGED <<open_traces, stage, stack, v1, v2, attaches>>

\* get_active_span_metadata
RouteOfActive(s) == IF HasEntry(s) /\ s \in Entry(s).open THEN RouteOf[s] ELSE None

\* Mutant: the record is changed in place too.
RecordInPlace(labels, old) == [labels EXCEPT !.http_route = IF @ = None /\ old # None THEN old.http_route ELSE @]

\* The record is built anew from the labels (its constant field is left out).
RecordOf(labels, old) == labels

\* with_extracted_span_data and write_labels, under the lock of the shard.
\* Without memory for the first labelset of the thread nothing is written.
write_labels(t) ==
  /\ observer[t].step = "labels"
  /\ \/ v1[t] = None /\ UNCHANGED <<v1, v2>>
     \/ LET s == Current(t)
            labels == [span_id |-> s, local_root_span_id |-> observer[t].root,
                       http_route |-> RouteOfActive(s)]
            kept == IF v1[t] = None THEN None ELSE v1[t].http_route
        IN /\ v1' = [v1 EXCEPT ![t] = [labels EXCEPT !.http_route = IF @ = None THEN kept ELSE @]]
           /\ v2' = [v2 EXCEPT ![t] = RecordOf(labels, @)]
  /\ observer' = [observer EXCEPT ![t] = [step |-> "rest", root |-> None]]
  /\ UNCHANGED <<open_traces, stage, stack, attaches>>

LabelsNext ==
  \/ \E s \in LabelSpans : on_start_span(s) \/ on_end_span(s)
  \/ \E t \in Threads :
       \/ \E s \in LabelSpans \cup {None} : Attach(t, s)
       \/ \E i \in 1..MaxDepth : Detach(t, i)
       \/ ReadRoot(t) \/ write_labels(t)

LabelsSpec == LabelsInit /\ [][LabelsNext]_labelVars

-----------------------------------------------------------------------------
AtRest(t) == observer[t].step = "rest"
Published(t) == IF Current(t) \in Shown THEN Current(t) ELSE None
Open(s) == s # None /\ stage[s] = "open"

\* Between two switches of its context a thread publishes the current span in
\* both formats, or no span, however its guards were nested and dropped; a
\* failed first allocation leaves both empty, never one of them stale
\* (custom_labels_writer.rs 39-128, observer.rs 89-102).
LabelsNameCurrent(t) ==
  \/ v1[t] = None /\ v2[t] = None
  \/ /\ v1[t] # None /\ v1[t].span_id = Published(t)
     /\ v2[t] = None <=> Published(t) = None
     /\ v2[t] # None => v2[t].span_id = Published(t)

\* A span that is open is labelled with the root of its trace, the same in
\* every thread, even when the root ended before (observer.rs 47-51).
RootLabelled(t) ==
  v2[t] # None /\ Open(Published(t)) =>
    /\ HasEntry(Published(t)) /\ v2[t].local_root_span_id = Entry(Published(t)).root
    /\ v1[t].local_root_span_id = v2[t].local_root_span_id

\* A record has the route of its own span, and has it as long as that is open
\* (custom_labels_writer.rs 82-93).
RecordHasRoute(t) ==
  v2[t] # None =>
    /\ v2[t].http_route \in {None, RouteOf[Published(t)]}
    /\ Open(Published(t)) => v2[t].http_route = RouteOf[Published(t)]

\* Between two switches of its context a thread publishes its current span or
\* none, in both formats alike; an open span with the root of its trace, the
\* same in every thread, and in the record with its own route.
LabelsDescribeCurrent ==
  \A t \in Threads : AtRest(t) => LabelsNameCurrent(t) /\ RootLabelled(t) /\ RecordHasRoute(t)
=============================================================================
