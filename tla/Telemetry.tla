------------------------------ MODULE Telemetry ------------------------------
(***************************************************************************)
(* The process-wide client of telemetry and the log that feeds it:         *)
(* src/dd-trace/src/telemetry.rs and log.rs.  Each tracer initialises the  *)
(* cell when its resource is set; the first one wins.  Every thread may    *)
(* log, the metrics collector adds points, remote configuration reports    *)
(* updates.  The worker is external: it takes messages or refuses them.    *)
(***************************************************************************)
EXTENDS Naturals, Sequences, FiniteSets

CONSTANTS
  Threads,
  Configs,     \* configurations of tracers: records enabled, logs, level
  MaxCalls,    \* bound: calls of each thread
  Absent

ASSUME TelemetryAssumption ==
  /\ Configs \subseteq [enabled : BOOLEAN, logs : BOOLEAN, level : 0..4]
  /\ MaxCalls \in Nat /\ Absent \notin Threads

VARIABLES
  cell,        \* TELEMETRY: "empty", "running" (its initialiser) or "set"
  telemetry,   \* what the cell holds
  guard,       \* the thread that holds its mutex, or Absent
  level,       \* MAX_LOG_LEVEL
  call,        \* of each thread: what it calls, its step, calls left
  worker,      \* messages the worker took
  logged       \* history: errors logged before and after the cell was set; refused ones

telemetryVars == <<cell, telemetry, guard, level, call, worker, logged>>

\* LevelFilter
Off == 0
Error == 1
Warn == 2
Debug == 4

NoTelemetry == [handle |-> FALSE, enabled |-> FALSE, logs |-> FALSE]
Idle == [op |-> Absent, step |-> "out", with |-> Absent]

TelemetryInit ==
  /\ cell = "empty" /\ telemetry = NoTelemetry /\ guard = Absent /\ level = Error
  /\ call = [t \in Threads |-> [doing |-> Idle, left |-> MaxCalls]]
  /\ worker = <<>> /\ logged = [early |-> 0, late |-> 0, refused |-> 0]

In(t, step) == call[t].doing.step = step
Op(t) == call[t].doing.op
Move(t, step) == call' = [call EXCEPT ![t].doing.step = step]
Return(t) == call' = [call EXCEPT ![t].doing = Idle]
Call(t, op, step, with) ==
  /\ In(t, "out") /\ call[t].left > 0
  /\ call' = [call EXCEPT ![t] = [doing |-> [op |-> op, step |-> step, with |-> with], left |-> @.left - 1]]

\* A configuration is read, which sets the level, and a tracer made from it.
set_max_level(t, c) ==
  /\ Call(t, "init", "init", c)
  /\ level' = c.level
  /\ UNCHANGED <<cell, telemetry, guard, worker, logged>>

\* dd_log leaves a message out above the level of the process; print_log hands
\* errors on and only prints the others.
print_log(lvl) == lvl <= level /\ lvl = Error

dd_log(t, lvl) ==
  /\ print_log(lvl)
  /\ Call(t, "log", "lock", Absent)
  /\ logged' = IF cell = "set" THEN [logged EXCEPT !.late = @ + 1] ELSE [logged EXCEPT !.early = @ + 1]
  /\ UNCHANGED <<cell, telemetry, guard, level, worker>>

\* add_points and notify_configuration_update (stop_telemetry has no caller).
Use(t, op) ==
  /\ Call(t, op, "lock", Absent)
  /\ UNCHANGED <<cell, telemetry, guard, level, worker, logged>>

\* Mutant: each tracer sets the client up for itself.
InitAnew(t) ==
  /\ In(t, "init") /\ cell # "running"
  /\ Move(t, "make") /\ cell' = "running"
  /\ UNCHANGED <<telemetry, guard, level, worker, logged>>

\* get_or_init: a thread that finds the initialiser running waits for it.
get_or_init(t) ==
  /\ In(t, "init") /\ cell # "running"
  /\ IF cell = "set" THEN Return(t) /\ UNCHANGED cell
                     ELSE Move(t, "make") /\ cell' = "running"
  /\ UNCHANGED <<telemetry, guard, level, worker, logged>>

\* send_start: the configuration, then the start of the application.
send_start(c) == <<[kind |-> "configuration", of |-> c], [kind |-> "start", of |-> c]>>

\* make_telemetry_worker and send_start, before any thread can use the handle.
make_telemetry_worker(t) ==
  /\ In(t, "make")
  /\ LET c == call[t].doing.with IN
     \/ /\ worker' = worker \o send_start(c)
        /\ telemetry' = [handle |-> TRUE, enabled |-> c.enabled, logs |-> c.logs]
        /\ UNCHANGED logged
     \/ \* the error is logged, and finds the cell without a value
        /\ telemetry' = NoTelemetry
        /\ logged' = IF print_log(Error) THEN [logged EXCEPT !.early = @ + 1] ELSE logged
        /\ UNCHANGED worker
  /\ cell' = "set"
  /\ Return(t)
  /\ UNCHANGED <<guard, level>>

\* Mutant: a mutex in use is not waited for.
Lock_try(t) ==
  /\ In(t, "lock")
  /\ IF cell # "set" \/ guard # Absent THEN Return(t) /\ UNCHANGED guard
                                     ELSE guard' = t /\ Move(t, "use")
  /\ UNCHANGED <<cell, telemetry, level, worker, logged>>

\* with_telemetry_handle: the value and its mutex.
Lock(t) ==
  /\ In(t, "lock")
  /\ IF cell # "set" THEN Return(t) /\ UNCHANGED guard
                     ELSE guard = Absent /\ guard' = t /\ Move(t, "use")
  /\ UNCHANGED <<cell, telemetry, level, worker, logged>>

\* Mutant: the flag is not looked at.
Usable_always == telemetry.handle

Usable == telemetry.enabled /\ telemetry.handle

\* add_log_error_inner asks once more.
Sends(t) == Usable /\ (Op(t) = "log" => telemetry.logs)

\* A refused configuration is a warning.
RefusalLevel == Warn

\* The call under the mutex.  A refusal of a configuration is logged while the
\* mutex is held; the others are ignored.
Send(t) ==
  /\ In(t, "use")
  /\ \/ /\ Sends(t)
        /\ worker' = Append(worker, [kind |-> Op(t), of |-> Absent])
        /\ UNCHANGED logged
     \/ /\ ~Sends(t) \/ Op(t) # "configuration"
        /\ logged' = IF Sends(t) /\ Op(t) = "log" THEN [logged EXCEPT !.refused = @ + 1] ELSE logged
        /\ UNCHANGED worker
  /\ guard' = Absent /\ Return(t)
  /\ UNCHANGED <<cell, telemetry, level>>

RefusedConfiguration(t) ==
  /\ In(t, "use") /\ Sends(t) /\ Op(t) = "configuration"
  /\ IF print_log(RefusalLevel)
     THEN Move(t, "lock") /\ UNCHANGED guard
     ELSE Return(t) /\ guard' = Absent
  /\ UNCHANGED <<cell, telemetry, level, worker, logged>>

Steps(t) ==
  get_or_init(t) \/ make_telemetry_worker(t) \/ Lock(t) \/ Send(t) \/ RefusedConfiguration(t)

TelemetryNext == \E t \in Threads :
  \/ \E c \in Configs : set_max_level(t, c)
  \/ \E lvl \in Error..Debug : dd_log(t, lvl)
  \/ \E op \in {"points", "configuration"} : Use(t, op)
  \/ Steps(t)

TelemetrySpec == TelemetryInit /\ [][TelemetryNext]_telemetryVars

-----------------------------------------------------------------------------
Starts == {i \in DOMAIN worker : worker[i].kind = "start"}
Sent(kind) == Cardinality({i \in DOMAIN worker : worker[i].kind = kind})

\* The worker starts once whatever number of tracers there are, and hears of
\* nothing but the configuration before (telemetry.rs 193-205).
StartsOnce ==
  /\ Starts \subseteq {2}
  /\ worker # <<>> => Starts = {2} /\ worker[1].kind = "configuration"

\* After the start the flags of the first tracer hold for every thread: no
\* message when it disabled telemetry, no log when it disabled those, although
\* other tracers asked for them (telemetry.rs 29-33 and 276-280).
FirstTracerDecides ==
  worker # <<>> =>
    /\ ~worker[1].of.enabled => Len(worker) = 2
    /\ ~worker[1].of.logs => Sent("log") = 0

\* Both: the worker belongs to the first tracer (telemetry.rs init_telemetry).
FirstTracerOwns == StartsOnce /\ FirstTracerDecides

\* An error that a thread logs once telemetry is on is sent, unless the worker
\* refuses it, and none is sent twice (log.rs 138-147).
ErrorsReported ==
  (\A t \in Threads : In(t, "out")) /\ worker # <<>> /\ worker[1].of.enabled /\ worker[1].of.logs =>
    /\ Sent("log") + logged.refused >= logged.late
    /\ Sent("log") + logged.refused <= logged.late + logged.early
=============================================================================
