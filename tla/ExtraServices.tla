---------------------------- MODULE ExtraServices ----------------------------
(***************************************************************************)
(* The services that spans name besides the main one, gathered for the     *)
(* requests of remote configuration: ExtraServicesTracker of               *)
(* src/dd-trace/src/configuration/configuration.rs, fed by the batches of  *)
(* the exporter and read by each poll.  Three mutexes guard its parts; a   *)
(* poll drains the queue while it holds two of them.                       *)
(***************************************************************************)
EXTENDS Naturals, Sequences, FiniteSets, Functions

CONSTANTS
  Names,       \* services that spans name, the main one and the ignored ones included
  Main,        \* Config::service
  Ignored,     \* the empty name and "otlpresourcenoservicename"
  Exporters,   \* threads that add chunks to a batch
  Poller,      \* the thread of remote configuration
  Limit,       \* 64
  MaxAdds, MaxRounds,  \* bounds: spans per exporter thread, polls
  Free         \* an unlocked mutex

ASSUME ExtraServicesAssumption ==
  /\ Main \in Names /\ Ignored \subseteq Names /\ Limit \in Nat \ {0}
  /\ MaxAdds \in Nat /\ MaxRounds \in Nat
  /\ Poller \notin Exporters /\ Free \notin Exporters \cup {Poller}

VARIABLES
  services, sent, queue,   \* what each mutex guards
  lock,                    \* who holds each mutex
  thread,                  \* what each thread does: its step, its name, calls left
  evicted, answer          \* history: services removed at the limit; the last answer

trackerVars == <<services, sent, queue, lock, thread, evicted, answer>>

Threads == Exporters \cup {Poller}

TrackerInit ==
  /\ services = {} /\ sent = {} /\ queue = <<>>
  /\ lock = [m \in {"sent", "queue", "services"} |-> Free]
  /\ thread = [t \in Threads |-> [step |-> "out", name |-> Main,
                                  left |-> IF t = Poller THEN MaxRounds ELSE MaxAdds]]
  /\ evicted = {} /\ answer = {}

Doing(t, step) == thread[t].step = step
Move(t, step) == thread' = [thread EXCEPT ![t].step = step]
Takes(t, m) == lock[m] = Free /\ lock' = [lock EXCEPT ![m] = t]
Gives(t) == lock' = [m \in DOMAIN lock |-> IF lock[m] = t THEN Free ELSE lock[m]]

\* extract_and_add_service_from_span, Config::add_extra_service.
Add(t, name) ==
  /\ Doing(t, "out") /\ thread[t].left > 0
  /\ name \notin Ignored \cup {Main}
  /\ thread' = [thread EXCEPT ![t] = [step |-> "sent", name |-> name, left |-> @.left - 1]]
  /\ UNCHANGED <<services, sent, queue, lock, evicted, answer>>

\* Mutant: the name is looked up, and the mutex released until it is queued.
CheckSent_unlocked(t) ==
  /\ Doing(t, "sent") /\ lock["sent"] = Free
  /\ Move(t, IF thread[t].name \in sent THEN "out" ELSE "queue")
  /\ UNCHANGED <<services, sent, queue, lock, evicted, answer>>

CheckSent(t) ==
  /\ Doing(t, "sent") /\ lock["sent"] = Free
  /\ IF thread[t].name \in sent
     THEN Move(t, "out") /\ UNCHANGED lock
     ELSE Move(t, "queue") /\ Takes(t, "sent")
  /\ UNCHANGED <<services, sent, queue, evicted, answer>>

Enqueue(t) ==
  /\ Doing(t, "queue") /\ lock["queue"] = Free
  /\ queue' = Append(queue, thread[t].name)
  /\ sent' = sent \cup {thread[t].name}
  /\ Move(t, "out") /\ Gives(t)
  /\ UNCHANGED <<services, evicted, answer>>

\* get_extra_services: the queue, then the services.
Poll ==
  /\ Doing(Poller, "out") /\ thread[Poller].left > 0
  /\ Takes(Poller, "queue")
  /\ thread' = [thread EXCEPT ![Poller].step = "services", ![Poller].left = @ - 1]
  /\ UNCHANGED <<services, sent, queue, evicted, answer>>

LockServices ==
  /\ Doing(Poller, "services") /\ Takes(Poller, "services") /\ Move(Poller, "drain")
  /\ UNCHANGED <<services, sent, queue, evicted, answer>>

\* Mutant: one service is removed when the queue is empty.
Drain_late ==
  /\ Doing(Poller, "drain") /\ queue # <<>>
  /\ queue' = Tail(queue)
  /\ services' = services \cup {Head(queue)}
  /\ UNCHANGED <<sent, lock, thread, evicted, answer>>

\* One service of the queue; over the limit any service goes.
Drain ==
  /\ Doing(Poller, "drain") /\ queue # <<>>
  /\ queue' = Tail(queue)
  /\ LET all == services \cup {Head(queue)} IN
     IF Cardinality(all) > Limit
     THEN \E gone \in all : services' = all \ {gone} /\ evicted' = evicted \cup {gone}
     ELSE services' = all /\ UNCHANGED evicted
  /\ UNCHANGED <<sent, lock, thread, answer>>

Answers ==
  /\ Doing(Poller, "drain") /\ queue = <<>>
  /\ answer' = services
  /\ Move(Poller, "out") /\ Gives(Poller)
  /\ UNCHANGED <<services, sent, queue, evicted>>

Export(t) == (\E name \in Names : Add(t, name)) \/ CheckSent(t) \/ Enqueue(t)
Polls == Poll \/ LockServices \/ Drain \/ Answers

TrackerNext == (\E t \in Exporters : Export(t)) \/ Polls

TrackerSpec == TrackerInit /\ [][TrackerNext]_trackerVars

-----------------------------------------------------------------------------
\* A service is in one place only, the queue, the services or those removed at
\* the limit, however adds and polls interleave: it is queued once and a poll
\* never brings a removed one back (configuration.rs 583-608).
EachOnce ==
  /\ IsInjective(queue)
  /\ Range(queue) \cap services = {} /\ Range(queue) \cap evicted = {} /\ services \cap evicted = {}
  /\ sent = Range(queue) \cup services \cup evicted

\* A request names at most Limit services, and as many as there are when
\* nothing was removed (configuration.rs 625-633).
LimitKept ==
  /\ Cardinality(answer) <= Limit
  /\ evicted # {} => Cardinality(services) = Limit

\* Both at once: what remote configuration reports of other services is
\* complete up to the limit, and never said twice.
TrackerExact == EachOnce /\ LimitKept
=============================================================================
