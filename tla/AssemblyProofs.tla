---------------------------- MODULE AssemblyProofs ----------------------------
(***************************************************************************)
(* How tracers are assembled, how they share telemetry, and what their     *)
(* configurations hold.                                                    *)
(*                                                                         *)
(* Telemetry is named after the resource in every case.  A sampler follows *)
(* the updates of its configuration when each configuration has a builder  *)
(* of its own: those of one builder share the callback.  The telemetry     *)
(* worker is started once, with the configuration of one tracer, which     *)
(* decides for all threads, and is told of every error it has to know.  A  *)
(* configuration is what its builder was asked for, within the limits and  *)
(* under one service name.  The answer of a shutdown is true, and it loses *)
(* no points of a round it finished, whichever worker fails or panics.     *)
(* All for every number of tracers and threads, every set of environments  *)
(* and configurations and any number of calls, builds, updates and points. *)
(***************************************************************************)
EXTENDS Integers, Sequences, TracerAssembly, Telemetry, Configuration, Shutdown,
        FiniteLemmas, FiniteSetTheorems, TLAPS

-----------------------------------------------------------------------------
(* Assembly *)

AllRules == Rules \cup {LocalRules}

AssemblySteps == {"sampler", "callback", "client", "exporter", "resource", "telemetry", "done"}

Config ==
  [enabled : BOOLEAN, remote : BOOLEAN, rules : AllRules, service : {"configured", "resolved"}]

Tracer ==
  [step : AssemblySteps, rules : AllRules \cup {None}, service : {"configured", "resolved", None}]

Client == [step : {"off", "polls", "notifies"}, left : Nat]

\* Types of the parts that the two invariants speak of
AssemblyTyped ==
  /\ config \in [Tracers -> Config]
  /\ tracer \in [Tracers -> Tracer]
  /\ remote \in [Tracers -> Client]
  /\ callback \in [{Slot(t) : t \in Tracers} -> Tracers \cup {None}]

\* The resource comes before telemetry.
ResourceBefore ==
  /\ \A t \in Tracers : At(t, "telemetry") => config[t].service = "resolved"
  /\ TelemetryNamesService

\* Before its first step a sampler has no rules; a client that runs has a
\* callback, and it is the one of its own tracer; outside of an update the
\* sampler has the rules of its configuration.
Follows ==
  \A t \in Tracers :
    /\ At(t, "sampler") => tracer[t].rules = None
    /\ tracer[t].step \in {"sampler", "callback", "client"} => remote[t].step = "off"
    /\ config[t].remote /\ tracer[t].step \notin {"sampler", "callback"} => callback[t] = t
    /\ remote[t].step # "off" => config[t].remote
    /\ ~At(t, "sampler") /\ remote[t].step # "notifies" => tracer[t].rules = config[t].rules

-----------------------------------------------------------------------------

LEMMA AssemblyTypedInitially == Init => AssemblyTyped
  BY TracerAssemblyAssumption
     DEF Init, AssemblyTyped, Config, Tracer, Client, AssemblySteps, AllRules

\* A change of one part keeps the types.
LEMMA ChangesTyped ==
  ASSUME AssemblyTyped, NEW t \in Tracers
  PROVE  /\ \A s \in AssemblySteps : [tracer EXCEPT ![t].step = s] \in [Tracers -> Tracer]
         /\ \A r \in AllRules : [tracer EXCEPT ![t].rules = r] \in [Tracers -> Tracer]
         /\ \A r \in AllRules : [config EXCEPT ![t].rules = r] \in [Tracers -> Config]
         /\ [config EXCEPT ![t].service = "resolved"] \in [Tracers -> Config]
         /\ \A s \in {"polls", "notifies"} : [remote EXCEPT ![t].step = s] \in [Tracers -> Client]
<1>1. tracer[t] \in Tracer /\ config[t] \in Config /\ remote[t] \in Client
  BY DEF AssemblyTyped
<1>2. ASSUME NEW s \in AssemblySteps PROVE [tracer EXCEPT ![t].step = s] \in [Tracers -> Tracer]
  <2>1. [tracer[t] EXCEPT !.step = s] \in Tracer
    BY <1>1 DEF Tracer
  <2>2. QED
    BY <2>1 DEF AssemblyTyped
<1>3. ASSUME NEW r \in AllRules PROVE [tracer EXCEPT ![t].rules = r] \in [Tracers -> Tracer]
  <2>1. [tracer[t] EXCEPT !.rules = r] \in Tracer
    BY <1>1 DEF Tracer
  <2>2. QED
    BY <2>1 DEF AssemblyTyped
<1>4. ASSUME NEW r \in AllRules PROVE [config EXCEPT ![t].rules = r] \in [Tracers -> Config]
  <2>1. [config[t] EXCEPT !.rules = r] \in Config
    BY <1>1 DEF Config
  <2>2. QED
    BY <2>1 DEF AssemblyTyped
<1>5. [config EXCEPT ![t].service = "resolved"] \in [Tracers -> Config]
  <2>1. [config[t] EXCEPT !.service = "resolved"] \in Config
    BY <1>1 DEF Config
  <2>2. QED
    BY <2>1 DEF AssemblyTyped
<1>6. ASSUME NEW s \in {"polls", "notifies"}
      PROVE  [remote EXCEPT ![t].step = s] \in [Tracers -> Client]
  <2>1. [remote[t] EXCEPT !.step = s] \in Client
    BY <1>1 DEF Client
  <2>2. QED
    BY <2>1 DEF AssemblyTyped
<1>7. QED
  BY <1>2, <1>3, <1>4, <1>5, <1>6

LEMMA AssemblyTypedStep == AssemblyTyped /\ [Next]_vars => AssemblyTyped'
<1>1. SUFFICES ASSUME AssemblyTyped, [Next]_vars PROVE AssemblyTyped'
  OBVIOUS
<1>s. {"callback", "client", "exporter", "resource", "telemetry", "done"} \subseteq AssemblySteps
  BY DEF AssemblySteps
<1>2. CASE UNCHANGED vars
  BY <1>1, <1>2 DEF AssemblyTyped, vars
<1>3. ASSUME NEW t \in Tracers, NewSampler(t) PROVE AssemblyTyped'
  <2>1. tracer[t] \in Tracer /\ config[t].rules \in AllRules
    BY <1>1 DEF AssemblyTyped, Config
  <2>2. [tracer[t] EXCEPT !.step = "callback", !.rules = config[t].rules] \in Tracer
    BY <1>s, <2>1 DEF Tracer
  <2>3. QED
    BY <1>1, <1>3, <2>2 DEF AssemblyTyped, NewSampler
<1>4. ASSUME NEW t \in Tracers, SetCallback(t) PROVE AssemblyTyped'
  <2>1. callback' \in [{Slot(u) : u \in Tracers} -> Tracers \cup {None}]
    BY <1>1, <1>4 DEF AssemblyTyped, SetCallback
  <2>2. tracer' \in [Tracers -> Tracer]
    BY <1>1, <1>4, <1>s, ChangesTyped DEF SetCallback, Goto
  <2>3. QED
    BY <1>1, <1>4, <2>1, <2>2 DEF AssemblyTyped, SetCallback
<1>5. ASSUME NEW t \in Tracers, StartClient(t) PROVE AssemblyTyped'
  <2>1. tracer' \in [Tracers -> Tracer]
    BY <1>1, <1>5, <1>s, ChangesTyped DEF StartClient, Goto
  <2>2. remote' \in [Tracers -> Client]
    BY <1>1, <1>5, ChangesTyped DEF AssemblyTyped, StartClient
  <2>3. QED
    BY <1>1, <1>5, <2>1, <2>2 DEF AssemblyTyped, StartClient
<1>6. ASSUME NEW t \in Tracers, NewExporter(t) PROVE AssemblyTyped'
  <2>1. tracer[t] \in Tracer /\ config[t].service \in {"configured", "resolved"}
    BY <1>1 DEF AssemblyTyped, Config
  <2>2. [tracer[t] EXCEPT !.step = "resource", !.service = config[t].service] \in Tracer
    BY <1>s, <2>1 DEF Tracer
  <2>3. QED
    BY <1>1, <1>6, <2>2 DEF AssemblyTyped, NewExporter
<1>7. ASSUME NEW t \in Tracers, set_resource(t) PROVE AssemblyTyped'
  <2>1. tracer' \in [Tracers -> Tracer] /\ config' \in [Tracers -> Config]
    BY <1>1, <1>7, <1>s, ChangesTyped DEF set_resource, Goto
  <2>2. QED
    BY <1>1, <1>7, <2>1 DEF AssemblyTyped, set_resource
<1>8. ASSUME NEW t \in Tracers, init_telemetry(t) PROVE AssemblyTyped'
  <2>1. tracer' \in [Tracers -> Tracer]
    BY <1>1, <1>8, <1>s, ChangesTyped DEF init_telemetry, Goto
  <2>2. QED
    BY <1>1, <1>8, <2>1 DEF AssemblyTyped, init_telemetry
<1>9. ASSUME NEW t \in Tracers, CacheConfig(t) PROVE AssemblyTyped'
  BY <1>1, <1>9 DEF AssemblyTyped, CacheConfig
<1>10. ASSUME NEW t \in Tracers, notify_update(t) PROVE AssemblyTyped'
  <2>1. config[t].rules \in AllRules
    BY <1>1 DEF AssemblyTyped, Config
  <2>2. callback[Slot(t)] \in Tracers \cup {None}
    BY <1>1 DEF AssemblyTyped
  <2>3. tracer' \in [Tracers -> Tracer]
    <3>1. CASE callback[Slot(t)] = None
      BY <1>1, <1>10, <3>1 DEF AssemblyTyped, notify_update
    <3>2. CASE callback[Slot(t)] # None
      BY <1>1, <1>10, <2>1, <2>2, <3>2, ChangesTyped DEF notify_update
    <3>3. QED
      BY <3>1, <3>2
  <2>4. remote' \in [Tracers -> Client]
    BY <1>1, <1>10, ChangesTyped DEF notify_update
  <2>5. QED
    BY <1>1, <1>10, <2>3, <2>4 DEF AssemblyTyped, notify_update
<1>11. ASSUME NEW t \in Tracers, NEW rules \in AllRules, Update(t, rules) PROVE AssemblyTyped'
  <2>1. remote[t] \in Client /\ remote[t].left > 0
    BY <1>1, <1>11 DEF AssemblyTyped, Update
  <2>2. [step |-> "notifies", left |-> remote[t].left - 1] \in Client
    BY <2>1 DEF Client
  <2>3. remote' \in [Tracers -> Client]
    BY <1>1, <1>11, <2>2 DEF AssemblyTyped, Update
  <2>4. config' \in [Tracers -> Config]
    BY <1>1, <1>11, ChangesTyped DEF Update
  <2>5. QED
    BY <1>1, <1>11, <2>3, <2>4 DEF AssemblyTyped, Update
<1>12. QED
  BY <1>1, <1>2, <1>3, <1>4, <1>5, <1>6, <1>7, <1>8, <1>9, <1>10, <1>11
     DEF Next, Assemble, AllRules

LEMMA ResourceStep == AssemblyTyped /\ ResourceBefore /\ [Next]_vars => ResourceBefore'
<1>1. SUFFICES ASSUME AssemblyTyped, ResourceBefore, [Next]_vars PROVE ResourceBefore'
  OBVIOUS
<1>2. CASE UNCHANGED vars
  BY <1>1, <1>2 DEF ResourceBefore, TelemetryNamesService, At, vars
<1>3. ASSUME NEW t \in Tracers, Assemble(t) PROVE ResourceBefore'
  <2>1. CASE NewSampler(t)
    BY <1>1, <2>1 DEF AssemblyTyped, ResourceBefore, TelemetryNamesService, NewSampler, At
  <2>2. CASE SetCallback(t)
    BY <1>1, <2>2 DEF AssemblyTyped, ResourceBefore, TelemetryNamesService, SetCallback, At, Goto
  <2>3. CASE StartClient(t)
    BY <1>1, <2>3 DEF AssemblyTyped, ResourceBefore, TelemetryNamesService, StartClient, At, Goto
  <2>4. CASE NewExporter(t)
    BY <1>1, <2>4 DEF AssemblyTyped, ResourceBefore, TelemetryNamesService, NewExporter, At
  <2>5. CASE set_resource(t)
    BY <1>1, <2>5 DEF AssemblyTyped, Config, ResourceBefore, TelemetryNamesService, set_resource, At, Goto
  <2>6. CASE init_telemetry(t)
    BY <1>1, <2>6 DEF AssemblyTyped, ResourceBefore, TelemetryNamesService, init_telemetry, At, Goto
  <2>7. QED
    BY <1>3, <2>1, <2>2, <2>3, <2>4, <2>5, <2>6 DEF Assemble
<1>4. ASSUME NEW t \in Tracers, CacheConfig(t) PROVE ResourceBefore'
  BY <1>1, <1>4 DEF ResourceBefore, TelemetryNamesService, CacheConfig, At
<1>5. ASSUME NEW t \in Tracers, notify_update(t) PROVE ResourceBefore'
  BY <1>1, <1>5 DEF AssemblyTyped, ResourceBefore, TelemetryNamesService, notify_update, At
<1>6. ASSUME NEW t \in Tracers, NEW rules \in AllRules, Update(t, rules) PROVE ResourceBefore'
  BY <1>1, <1>6 DEF AssemblyTyped, ResourceBefore, TelemetryNamesService, Update, At
<1>7. QED
  BY <1>1, <1>2, <1>3, <1>4, <1>5, <1>6 DEF Next, AllRules

\* Whichever tracer starts telemetry, it names the service that was resolved
\* from the resource (span_processor.rs 766-781).
THEOREM TelemetryNamesResource == Spec => []TelemetryNamesService
<1>1. Init => AssemblyTyped /\ ResourceBefore
  BY AssemblyTypedInitially DEF Init, ResourceBefore, TelemetryNamesService, At
<1>2. (AssemblyTyped /\ ResourceBefore) /\ [Next]_vars => (AssemblyTyped /\ ResourceBefore)'
  BY AssemblyTypedStep, ResourceStep
<1>3. AssemblyTyped /\ ResourceBefore => TelemetryNamesService
  BY DEF ResourceBefore
<1>4. QED
  BY <1>1, <1>2, <1>3, PTL DEF Spec

-----------------------------------------------------------------------------

LEMMA FollowsInitially == Init => Follows
  BY DEF Init, Follows, At

LEMMA FollowsStep ==
  ASSUME ~OneBuilder
  PROVE  AssemblyTyped /\ Follows /\ [Next]_vars => Follows'
<1>1. SUFFICES ASSUME AssemblyTyped, Follows, [Next]_vars, NEW u \in Tracers
      PROVE  Follows!(u)'
  BY DEF Follows
<1>a. \A t \in Tracers : Slot(t) = t
  BY DEF Slot
<1>b. callback \in [Tracers -> Tracers \cup {None}]
  BY <1>1, <1>a DEF AssemblyTyped
<1>c. None \notin Tracers
  BY TracerAssemblyAssumption
<1>2. CASE UNCHANGED vars
  BY <1>1, <1>2 DEF Follows, At, vars
<1>3. ASSUME NEW t \in Tracers, NewSampler(t) PROVE Follows!(u)'
  BY <1>1, <1>3 DEF AssemblyTyped, Follows, NewSampler, At
<1>4. ASSUME NEW t \in Tracers, SetCallback(t) PROVE Follows!(u)'
  BY <1>1, <1>4, <1>a, <1>b DEF AssemblyTyped, Follows, SetCallback, At, Goto
<1>5. ASSUME NEW t \in Tracers, StartClient(t) PROVE Follows!(u)'
  <2>1. CASE u = t
    <3>1. tracer'[t].step = "exporter" /\ tracer'[t].rules = tracer[t].rules
      BY <1>1, <1>5 DEF AssemblyTyped, Tracer, StartClient, Goto
    <3>2. /\ tracer[t].rules = config[t].rules
          /\ config[t].remote => callback[t] = t
      <4>1. tracer[t].step = "client"
        BY <1>5 DEF StartClient, At
      <4>2. remote[t].step \in {"off", "polls", "notifies"}
        BY <1>1 DEF AssemblyTyped, Client
      <4>3. QED
        BY <1>1, <1>5, <4>1, <4>2 DEF Follows, At
    <3>3. remote'[t].step # "off" => config[t].remote
      BY <1>1, <1>5 DEF AssemblyTyped, Follows, StartClient
    <3>4. config' = config /\ callback' = callback
      BY <1>5 DEF StartClient
    <3>5. QED
      BY <2>1, <3>1, <3>2, <3>3, <3>4 DEF At
  <2>2. CASE u # t
    BY <1>1, <1>5, <2>2 DEF AssemblyTyped, Follows, StartClient, At, Goto
  <2>3. QED
    BY <2>1, <2>2
<1>6. ASSUME NEW t \in Tracers, NewExporter(t) PROVE Follows!(u)'
  BY <1>1, <1>6 DEF AssemblyTyped, Follows, NewExporter, At
<1>7. ASSUME NEW t \in Tracers, set_resource(t) PROVE Follows!(u)'
  BY <1>1, <1>7 DEF AssemblyTyped, Follows, set_resource, At, Goto
<1>8. ASSUME NEW t \in Tracers, init_telemetry(t) PROVE Follows!(u)'
  BY <1>1, <1>8 DEF AssemblyTyped, Follows, init_telemetry, At, Goto
<1>9. ASSUME NEW t \in Tracers, CacheConfig(t) PROVE Follows!(u)'
  BY <1>1, <1>9 DEF Follows, CacheConfig, At
<1>10. ASSUME NEW t \in Tracers, notify_update(t) PROVE Follows!(u)'
  <2>1. callback[t] = t
    BY <1>1, <1>10 DEF AssemblyTyped, Follows, notify_update
  <2>2. tracer' = [tracer EXCEPT ![t].rules = config[t].rules]
    BY <1>10, <1>a, <1>c, <2>1 DEF notify_update
  <2>3. remote'[t].step = "polls" /\ \A v \in Tracers \ {t} : remote'[v] = remote[v]
    BY <1>1, <1>10 DEF AssemblyTyped, notify_update
  <2>4. /\ tracer'[t].step = tracer[t].step /\ tracer'[t].rules = config[t].rules
        /\ \A v \in Tracers \ {t} : tracer'[v] = tracer[v]
    BY <1>1, <2>2 DEF AssemblyTyped, Tracer
  <2>5. config' = config /\ callback' = callback
    BY <1>10 DEF notify_update
  <2>6. remote[t].step = "notifies"
    BY <1>10 DEF notify_update
  <2>7. tracer[t].step \notin {"sampler", "callback", "client"} /\ config[t].remote
    BY <1>1, <2>6 DEF Follows
  <2>8. CASE u = t
    BY <1>1, <2>3, <2>4, <2>5, <2>7, <2>8, <2>1 DEF At
  <2>9. CASE u # t
    BY <1>1, <2>3, <2>4, <2>5, <2>9 DEF Follows, At
  <2>10. QED
    BY <2>8, <2>9
<1>11. ASSUME NEW t \in Tracers, NEW rules \in AllRules, Update(t, rules) PROVE Follows!(u)'
  BY <1>1, <1>11 DEF AssemblyTyped, Follows, Update, At
<1>12. QED
  BY <1>1, <1>2, <1>3, <1>4, <1>5, <1>6, <1>7, <1>8, <1>9, <1>10, <1>11
     DEF Next, Assemble, AllRules

\* A sampler has the rules of its configuration outside of an update, from its
\* first step on, when each configuration has a builder of its own
\* (configuration.rs 1198-1249, lib.rs make_tracer).
THEOREM SamplersFollow ==
  ASSUME ~OneBuilder
  PROVE  Spec => []SamplerFollowsUpdates
<1>1. Init => AssemblyTyped /\ Follows
  BY AssemblyTypedInitially, FollowsInitially
<1>2. (AssemblyTyped /\ Follows) /\ [Next]_vars => (AssemblyTyped /\ Follows)'
  BY AssemblyTypedStep, FollowsStep
<1>3. Follows => SamplerFollowsUpdates
  BY DEF Follows, SamplerFollowsUpdates
<1>4. QED
  BY <1>1, <1>2, <1>3, PTL DEF Spec

\* Both hold together at any point of any number of assemblies (lib.rs
\* make_tracer).
THEOREM AssemblyIsOrdered ==
  ASSUME ~OneBuilder
  PROVE  Spec => []AssembledInOrder
<1>1. SamplerFollowsUpdates /\ TelemetryNamesService => AssembledInOrder
  BY DEF AssembledInOrder
<1>2. QED
  BY <1>1, SamplersFollow, TelemetryNamesResource, PTL

-----------------------------------------------------------------------------
(* Telemetry *)

Ops == {"log", "points", "configuration"}

Doing ==
  [op : {Absent, "init"} \cup Ops, step : {"out", "init", "make", "lock", "use"},
   with : Configs \cup {Absent}]

\* A message of the worker; the configuration is named in the first two only.
Message == [kind : Ops \cup {"start"}, of : Configs \cup {Absent}]

Typed ==
  /\ cell \in {"empty", "running", "set"}
  /\ telemetry \in [handle : BOOLEAN, enabled : BOOLEAN, logs : BOOLEAN]
  /\ level \in 0..4
  /\ call \in [Threads -> [doing : Doing, left : Nat]]
  /\ worker \in Seq(Message)

\* One thread runs the initialiser, with a configuration; a thread that uses
\* the handle has something to send.
OneInitialiser ==
  \A t \in Threads :
    /\ In(t, "init") \/ In(t, "make") => call[t].doing.with \in Configs
    /\ In(t, "make") => cell = "running" /\ \A u \in Threads : In(u, "make") => u = t
    /\ In(t, "lock") \/ In(t, "use") => Op(t) \in Ops

\* The worker has heard nothing, or first the configuration and the start and
\* then what its flags allow; the handle has the flags of that configuration.
Started ==
  /\ cell # "set" => worker = <<>>
  /\ worker = <<>> => ~telemetry.handle
  /\ worker # <<>> =>
       /\ Len(worker) >= 2
       /\ worker[1].kind = "configuration" /\ worker[2].kind = "start"
       /\ worker[1].of \in Configs
       /\ telemetry.handle
       /\ telemetry.enabled = worker[1].of.enabled /\ telemetry.logs = worker[1].of.logs
       /\ \A i \in 3..Len(worker) :
            /\ worker[i].kind \in Ops
            /\ telemetry.enabled
            /\ worker[i].kind = "log" => telemetry.logs

Inv == Typed /\ OneInitialiser /\ Started

LEMMA InvInitially == TelemetryInit => Inv
<1> SUFFICES ASSUME TelemetryInit PROVE Inv
  OBVIOUS
<1>1. Idle \in Doing
  BY DEF Idle, Doing
<1>2. Typed
  BY <1>1, TelemetryAssumption DEF TelemetryInit, Typed, NoTelemetry, Error
<1>3. OneInitialiser
  BY DEF TelemetryInit, OneInitialiser, In, Idle
<1>4. Started
  BY DEF TelemetryInit, Started, NoTelemetry
<1> QED
  BY <1>2, <1>3, <1>4 DEF Inv

\* What a step may do to the call of one thread
LEMMA CallsTyped ==
  ASSUME Typed, NEW t \in Threads
  PROVE  /\ \A s \in {"out", "init", "make", "lock", "use"} :
              [call EXCEPT ![t].doing.step = s] \in [Threads -> [doing : Doing, left : Nat]]
         /\ [call EXCEPT ![t].doing = Idle] \in [Threads -> [doing : Doing, left : Nat]]
         /\ \A d \in Doing : call[t].left > 0 =>
              [call EXCEPT ![t] = [doing |-> d, left |-> @.left - 1]]
                \in [Threads -> [doing : Doing, left : Nat]]
<1>1. /\ call \in [Threads -> [doing : Doing, left : Nat]]
      /\ call[t] \in [doing : Doing, left : Nat] /\ call[t].doing \in Doing /\ call[t].left \in Nat
  BY DEF Typed
<1>2. ASSUME NEW s \in {"out", "init", "make", "lock", "use"}
      PROVE  [call EXCEPT ![t].doing.step = s] \in [Threads -> [doing : Doing, left : Nat]]
  <2>1. [call[t].doing EXCEPT !.step = s] \in Doing
    BY <1>1 DEF Doing
  <2>2. [call[t] EXCEPT !.doing = [call[t].doing EXCEPT !.step = s]] \in [doing : Doing, left : Nat]
    BY <1>1, <2>1
  <2> QED
    BY <1>1, <2>2
<1>3. [call EXCEPT ![t].doing = Idle] \in [Threads -> [doing : Doing, left : Nat]]
  <2>1. Idle \in Doing
    BY DEF Idle, Doing
  <2>2. [call[t] EXCEPT !.doing = Idle] \in [doing : Doing, left : Nat]
    BY <1>1, <2>1
  <2> QED
    BY <1>1, <2>2
<1>4. ASSUME NEW d \in Doing, call[t].left > 0
      PROVE  [call EXCEPT ![t] = [doing |-> d, left |-> @.left - 1]]
               \in [Threads -> [doing : Doing, left : Nat]]
  <2>1. [doing |-> d, left |-> call[t].left - 1] \in [doing : Doing, left : Nat]
    BY <1>1, <1>4
  <2> QED
    BY <1>1, <2>1
<1> QED
  BY <1>2, <1>3, <1>4

\* What the call of a thread is after a step of it, and that of the others
LEMMA CallsMade ==
  ASSUME Typed, NEW t \in Threads
  PROVE  /\ \A s : Move(t, s) =>
              /\ call'[t].doing = [call[t].doing EXCEPT !.step = s]
              /\ call'[t].doing.step = s
              /\ call'[t].doing.op = call[t].doing.op
              /\ call'[t].doing.with = call[t].doing.with
              /\ \A u \in Threads \ {t} : call'[u] = call[u]
         /\ Return(t) => call'[t].doing = Idle /\ \A u \in Threads \ {t} : call'[u] = call[u]
         /\ \A op, s, with : Call(t, op, s, with) =>
              /\ call'[t].doing = [op |-> op, step |-> s, with |-> with]
              /\ \A u \in Threads \ {t} : call'[u] = call[u]
<1>1. call[t] \in [doing : Doing, left : Nat] /\ call[t].doing \in Doing
  BY DEF Typed
<1> QED
  BY <1>1 DEF Typed, Doing, Move, Return, Call

\* A step of a thread that does not start the initialiser
LEMMA NoOtherInitialiser ==
  ASSUME OneInitialiser, NEW t \in Threads,
         \A u \in Threads \ {t} : call'[u] = call[u],
         call'[t].doing.step # "make",
         call'[t].doing.step = "init" => call'[t].doing.with \in Configs,
         call'[t].doing.step \in {"lock", "use"} => call'[t].doing.op \in Ops,
         cell' = cell
  PROVE  OneInitialiser'
BY DEF OneInitialiser, In, Op

-----------------------------------------------------------------------------

\* A thread that enters a call, waits for the cell or leaves.
LEMMA CallStep ==
  ASSUME Inv, NEW t \in Threads,
         \/ \E c \in Configs : set_max_level(t, c)
         \/ \E lvl \in Error..Debug : dd_log(t, lvl)
         \/ \E op \in {"points", "configuration"} : Use(t, op)
         \/ get_or_init(t) \/ Lock(t) \/ RefusedConfiguration(t)
  PROVE  Inv'
<1>a. Typed /\ OneInitialiser /\ Started
  BY DEF Inv
<1>b. worker' = worker /\ telemetry' = telemetry
  BY DEF set_max_level, dd_log, Use, get_or_init, Lock, RefusedConfiguration
<1>1. ASSUME cell' = cell \/ (cell # "set" /\ cell' = "running") PROVE Started'
  BY <1>a, <1>b, <1>1 DEF Started
<1>2. ASSUME NEW c \in Configs, set_max_level(t, c) PROVE Inv'
  <2>1. [op |-> "init", step |-> "init", with |-> c] \in Doing
    BY DEF Doing
  <2>2. call' \in [Threads -> [doing : Doing, left : Nat]]
    BY <1>a, <1>2, <2>1, CallsTyped DEF set_max_level, Call
  <2>3. level' \in 0..4
    BY <1>2, TelemetryAssumption DEF set_max_level
  <2>4. Typed'
    BY <1>a, <1>b, <1>2, <2>2, <2>3 DEF Typed, set_max_level
  <2>5. /\ call'[t].doing = [op |-> "init", step |-> "init", with |-> c]
        /\ \A u \in Threads \ {t} : call'[u] = call[u]
    BY <1>a, <1>2, CallsMade DEF set_max_level
  <2>6. OneInitialiser'
    BY <1>a, <1>2, <2>5, NoOtherInitialiser DEF set_max_level
  <2> QED
    BY <1>1, <1>2, <2>4, <2>6 DEF set_max_level, Inv
<1>3. ASSUME NEW op \in Ops, Call(t, op, "lock", Absent), cell' = cell, level' = level PROVE Inv'
  <2>1. [op |-> op, step |-> "lock", with |-> Absent] \in Doing
    BY DEF Doing
  <2>2. call' \in [Threads -> [doing : Doing, left : Nat]]
    BY <1>a, <1>3, <2>1, CallsTyped DEF Call
  <2>3. Typed'
    BY <1>a, <1>b, <1>3, <2>2 DEF Typed
  <2>4. /\ call'[t].doing = [op |-> op, step |-> "lock", with |-> Absent]
        /\ \A u \in Threads \ {t} : call'[u] = call[u]
    BY <1>a, <1>3, CallsMade
  <2>5. OneInitialiser'
    BY <1>a, <1>3, <2>4, NoOtherInitialiser
  <2> QED
    BY <1>1, <1>3, <2>3, <2>5 DEF Inv
<1>4. ASSUME NEW lvl \in Error..Debug, dd_log(t, lvl) PROVE Inv'
  BY <1>3, <1>4 DEF dd_log, Ops
<1>5. ASSUME NEW op \in {"points", "configuration"}, Use(t, op) PROVE Inv'
  BY <1>3, <1>5 DEF Use, Ops
<1>6. CASE get_or_init(t)
  <2>1. call' \in [Threads -> [doing : Doing, left : Nat]]
    <3>1. CASE Return(t)
      BY <1>a, <3>1, CallsTyped DEF Return
    <3>2. CASE Move(t, "make")
      BY <1>a, <3>2, CallsTyped DEF Move
    <3> QED
      BY <1>6, <3>1, <3>2 DEF get_or_init
  <2>2. Typed'
    BY <1>a, <1>b, <1>6, <2>1 DEF Typed, get_or_init
  <2>3. OneInitialiser'
    <3>1. CASE Return(t) /\ cell' = cell
      BY <1>a, <3>1, CallsMade DEF OneInitialiser, In, Op, Idle
    <3>2. CASE Move(t, "make") /\ cell' = "running" /\ In(t, "init") /\ cell # "running"
      <4>1. /\ call'[t].doing.step = "make" /\ call'[t].doing.with = call[t].doing.with
            /\ \A u \in Threads \ {t} : call'[u] = call[u]
        BY <1>a, <3>2, CallsMade
      <4>2. call[t].doing.with \in Configs /\ \A u \in Threads : ~In(u, "make")
        BY <1>a, <3>2 DEF OneInitialiser
      <4> QED
        BY <1>a, <3>2, <4>1, <4>2 DEF OneInitialiser, In, Op
    <3> QED
      BY <1>6, <3>1, <3>2 DEF get_or_init
  <2> QED
    BY <1>1, <1>6, <2>2, <2>3 DEF get_or_init, Inv
<1>7. ASSUME cell' = cell, level' = level,
             \/ Return(t)
             \/ In(t, "lock") /\ Move(t, "use")
             \/ In(t, "use") /\ Move(t, "lock")
      PROVE  Inv'
  <2>1. call' \in [Threads -> [doing : Doing, left : Nat]]
    <3>1. CASE Return(t)
      BY <1>a, <3>1, CallsTyped DEF Return
    <3>2. CASE Move(t, "use")
      BY <1>a, <3>2, CallsTyped DEF Move
    <3>3. CASE Move(t, "lock")
      BY <1>a, <3>3, CallsTyped DEF Move
    <3> QED
      BY <1>7, <3>1, <3>2, <3>3
  <2>2. Typed'
    BY <1>a, <1>b, <1>7, <2>1 DEF Typed
  <2>3. OneInitialiser'
    <3>1. CASE Return(t)
      BY <1>a, <1>7, <3>1, CallsMade, NoOtherInitialiser DEF Idle
    <3>2. ASSUME NEW s \in {"lock", "use"}, Move(t, s), In(t, "lock") \/ In(t, "use")
          PROVE  OneInitialiser'
      <4>1. /\ call'[t].doing.step = s /\ call'[t].doing.op = call[t].doing.op
            /\ \A u \in Threads \ {t} : call'[u] = call[u]
        BY <1>a, <3>2, CallsMade
      <4>2. call[t].doing.op \in Ops
        BY <1>a, <3>2 DEF OneInitialiser, Op
      <4> QED
        BY <1>a, <1>7, <4>1, <4>2, NoOtherInitialiser
    <3> QED
      BY <1>7, <3>1, <3>2
  <2> QED
    BY <1>1, <1>7, <2>2, <2>3 DEF Inv
<1>8. CASE Lock(t)
  BY <1>7, <1>8 DEF Lock
<1>9. CASE RefusedConfiguration(t)
  BY <1>7, <1>9 DEF RefusedConfiguration
<1> QED
  BY <1>2, <1>4, <1>5, <1>6, <1>8, <1>9

\* The initialiser: only one thread runs it, and the worker has heard nothing.
LEMMA MakeStep ==
  ASSUME Inv, NEW t \in Threads, make_telemetry_worker(t)
  PROVE  Inv'
<1> DEFINE c == call[t].doing.with
<1>a. Typed /\ OneInitialiser /\ Started /\ In(t, "make")
  BY DEF Inv, make_telemetry_worker
<1>b. c \in Configs /\ worker = <<>> /\ cell' = "set" /\ level' = level /\ Return(t)
  BY <1>a DEF OneInitialiser, Started, make_telemetry_worker
<1>c. c.enabled \in BOOLEAN /\ c.logs \in BOOLEAN
  BY <1>b, TelemetryAssumption
<1> HIDE DEF c
<1>1. call' \in [Threads -> [doing : Doing, left : Nat]]
  BY <1>a, <1>b, CallsTyped DEF Return
<1>2. OneInitialiser'
  BY <1>a, <1>b, CallsMade DEF OneInitialiser, In, Op, Idle
<1>3. CASE worker' = worker \o send_start(c)
           /\ telemetry' = [handle |-> TRUE, enabled |-> c.enabled, logs |-> c.logs]
  <2>1. worker' = <<[kind |-> "configuration", of |-> c], [kind |-> "start", of |-> c]>>
    BY <1>b, <1>3 DEF send_start
  <2>2. worker' \in Seq(Message)
    BY <1>b, <2>1 DEF Message, Ops
  <2>3. Typed'
    BY <1>a, <1>b, <1>c, <1>1, <1>3, <2>2 DEF Typed
  <2>4. Started'
    <3>1. /\ Len(worker') = 2 /\ worker' # <<>>
          /\ worker'[1] = [kind |-> "configuration", of |-> c]
          /\ worker'[2] = [kind |-> "start", of |-> c]
      BY <2>1
    <3>2. telemetry'.handle /\ telemetry'.enabled = c.enabled /\ telemetry'.logs = c.logs
      BY <1>3
    <3> QED
      BY <1>b, <3>1, <3>2 DEF Started
  <2> QED
    BY <1>2, <2>3, <2>4 DEF Inv
<1>4. CASE worker' = worker /\ telemetry' = NoTelemetry
  <2>1. Typed'
    BY <1>a, <1>b, <1>1, <1>4 DEF Typed, NoTelemetry
  <2>2. Started'
    BY <1>b, <1>4 DEF Started, NoTelemetry
  <2> QED
    BY <1>2, <2>1, <2>2 DEF Inv
<1> QED
  BY <1>3, <1>4 DEF make_telemetry_worker, c

\* A message is sent only when the flags allow it.
LEMMA SendStep ==
  ASSUME Inv, NEW t \in Threads, Send(t)
  PROVE  Inv'
<1>a. Typed /\ OneInitialiser /\ Started /\ In(t, "use")
  BY DEF Inv, Send
<1>b. Return(t) /\ cell' = cell /\ telemetry' = telemetry /\ level' = level /\ Op(t) \in Ops
  BY <1>a DEF Send, OneInitialiser
<1>1. call' \in [Threads -> [doing : Doing, left : Nat]]
  BY <1>a, <1>b, CallsTyped DEF Return
<1>2. OneInitialiser'
  BY <1>a, <1>b, CallsMade DEF OneInitialiser, In, Op, Idle
<1>3. CASE Sends(t) /\ worker' = Append(worker, [kind |-> Op(t), of |-> Absent])
  <2>1. [kind |-> Op(t), of |-> Absent] \in Message
    BY <1>b DEF Message
  <2>2. Typed'
    BY <1>a, <1>b, <1>1, <1>3, <2>1 DEF Typed
  <2>3. worker \in Seq(Message) /\ Len(worker) \in Nat
    BY <1>a DEF Typed
  <2>4. telemetry.handle /\ telemetry.enabled /\ (Op(t) = "log" => telemetry.logs)
    BY <1>3 DEF Sends, Usable
  <2>5. worker # <<>> /\ Len(worker) >= 2 /\ cell = "set"
    BY <1>a, <2>4 DEF Started
  <2>6. /\ Len(worker') = Len(worker) + 1
        /\ \A i \in 1..Len(worker) : worker'[i] = worker[i]
        /\ worker'[Len(worker) + 1] = [kind |-> Op(t), of |-> Absent]
    BY <1>3, <2>1, <2>3
  <2>7. worker' # <<>> /\ Len(worker') >= 2 /\ worker'[1] = worker[1] /\ worker'[2] = worker[2]
    BY <2>3, <2>5, <2>6
  <2>8. ASSUME NEW i \in 3..Len(worker')
        PROVE  /\ worker'[i].kind \in Ops
               /\ telemetry.enabled
               /\ worker'[i].kind = "log" => telemetry.logs
    <3>1. CASE i = Len(worker) + 1
      BY <1>b, <2>4, <2>6, <3>1
    <3>2. CASE i # Len(worker) + 1
      <4>1. i \in 3..Len(worker) /\ i \in 1..Len(worker)
        BY <2>3, <2>6, <3>2
      <4> QED
        BY <1>a, <2>5, <2>6, <4>1 DEF Started
    <3> QED
      BY <3>1, <3>2
  <2>9. Started'
    BY <1>a, <1>b, <2>5, <2>7, <2>8 DEF Started
  <2> QED
    BY <1>2, <2>2, <2>9 DEF Inv
<1>4. CASE worker' = worker
  BY <1>a, <1>b, <1>1, <1>2, <1>4 DEF Typed, Started, Inv
<1> QED
  BY <1>3, <1>4 DEF Send

LEMMA InvStep == Inv /\ [TelemetryNext]_telemetryVars => Inv'
<1> SUFFICES ASSUME Inv, [TelemetryNext]_telemetryVars PROVE Inv'
  OBVIOUS
<1>1. CASE UNCHANGED telemetryVars
  BY <1>1 DEF telemetryVars, Inv, Typed, OneInitialiser, Started, In, Op
<1>2. CASE TelemetryNext
  BY <1>2, CallStep, MakeStep, SendStep DEF TelemetryNext, Steps
<1> QED
  BY <1>1, <1>2

LEMMA InvAlways == TelemetrySpec => []Inv
  BY InvInitially, InvStep, PTL DEF TelemetrySpec

\* The worker is started once, after its configuration, however many tracers
\* initialise it at the same time (telemetry.rs 193-205).
THEOREM WorkerStartsOnce == TelemetrySpec => []StartsOnce
<1>1. Inv => StartsOnce
  <2> SUFFICES ASSUME Inv PROVE StartsOnce
    OBVIOUS
  <2>1. CASE worker = <<>>
    BY <2>1 DEF StartsOnce, Starts
  <2>2. CASE worker # <<>>
    <3>1. worker \in Seq(Message) /\ Len(worker) >= 2
      BY <2>2 DEF Inv, Typed, Started
    <3>2. worker[1].kind = "configuration" /\ worker[2].kind = "start"
      BY <2>2 DEF Inv, Started
    <3>3. ASSUME NEW i \in DOMAIN worker, worker[i].kind = "start" PROVE i = 2
      <4>1. i \in 1..Len(worker) /\ Len(worker) \in Nat
        BY <3>1
      <4>2. i \in 3..Len(worker) => worker[i].kind \in Ops
        BY <2>2 DEF Inv, Started
      <4>3. i # 1
        BY <3>2, <3>3
      <4> QED
        BY <3>3, <4>1, <4>2, <4>3 DEF Ops
    <3>4. 2 \in DOMAIN worker
      BY <3>1
    <3> QED
      BY <3>2, <3>3, <3>4 DEF StartsOnce, Starts
  <2> QED
    BY <2>1, <2>2
<1> QED
  BY <1>1, InvAlways, PTL

\* The flags of the configuration it was started with hold for every thread and
\* for every later tracer (telemetry.rs 29-33 and 276-280).
THEOREM FirstDecides == TelemetrySpec => []FirstTracerDecides
<1>1. Inv => FirstTracerDecides
  <2> SUFFICES ASSUME Inv, worker # <<>>
               PROVE  /\ ~worker[1].of.enabled => Len(worker) = 2
                      /\ ~worker[1].of.logs => Sent("log") = 0
    BY DEF FirstTracerDecides
  <2>1. worker \in Seq(Message) /\ Len(worker) \in Nat /\ Len(worker) >= 2
    BY DEF Inv, Typed, Started
  <2>2. ASSUME ~worker[1].of.enabled PROVE Len(worker) = 2
    <3>1. ~(3 \in 3..Len(worker))
      BY <2>2 DEF Inv, Started
    <3> QED
      BY <2>1, <3>1
  <2>3. ASSUME ~worker[1].of.logs PROVE Sent("log") = 0
    <3>1. ASSUME NEW i \in DOMAIN worker PROVE worker[i].kind # "log"
      <4>1. i \in 1..Len(worker)
        BY <2>1
      <4>2. worker[1].kind = "configuration" /\ worker[2].kind = "start"
        BY DEF Inv, Started
      <4>3. i \in 3..Len(worker) => worker[i].kind # "log"
        BY <2>3 DEF Inv, Started
      <4> QED
        BY <2>1, <4>1, <4>2, <4>3
    <3>2. {i \in DOMAIN worker : worker[i].kind = "log"} = {}
      BY <3>1
    <3> QED
      BY <3>2, FS_EmptySet DEF Sent
  <2> QED
    BY <2>2, <2>3
<1> QED
  BY <1>1, InvAlways, PTL

\* Both hold for any number of tracers and threads (telemetry.rs
\* init_telemetry).
THEOREM WorkerIsTheFirsts == TelemetrySpec => []FirstTracerOwns
<1>1. StartsOnce /\ FirstTracerDecides => FirstTracerOwns
  BY DEF FirstTracerOwns
<1> QED
  BY <1>1, WorkerStartsOnce, FirstDecides, PTL
-----------------------------------------------------------------------------
\* The threads with an error to hand on
Reporting == {t \in Threads : (In(t, "lock") \/ In(t, "use")) /\ Op(t) = "log"}

\* Every error that was logged is sent, refused, still with its thread, or was
\* dropped because the cell had no value; with the flags set, those logged
\* afterwards are never dropped.
Reported ==
  /\ logged \in [early : Nat, late : Nat, refused : Nat]
  /\ IsFiniteSet(Reporting)
  /\ cell # "set" => logged.late = 0
  /\ Sent("log") + logged.refused + Cardinality(Reporting) <= logged.late + logged.early
  /\ worker # <<>> /\ telemetry.enabled /\ telemetry.logs =>
       Sent("log") + logged.refused + Cardinality(Reporting) >= logged.late

ReportInv == Inv /\ Reported

\* A count of messages is a number, and one more message counts when it is of
\* that kind.
LEMMA SentIsNumber ==
  ASSUME Typed, NEW kind
  PROVE  Sent(kind) \in Nat
<1>1. IsFiniteSet(DOMAIN worker)
  BY FS_Interval DEF Typed
<1>2. IsFiniteSet({i \in DOMAIN worker : worker[i].kind = kind})
  BY <1>1, FS_Subset
<1> QED
  BY <1>2, FS_CardinalityType DEF Sent

LEMMA SentGrows ==
  ASSUME Typed, NEW k \in Ops, worker' = Append(worker, [kind |-> k, of |-> Absent])
  PROVE  /\ k = "log" => Sent("log")' = Sent("log") + 1
         /\ k # "log" => Sent("log")' = Sent("log")
<1> DEFINE n == Len(worker)
           Is == {i \in DOMAIN worker : worker[i].kind = "log"}
           After == {i \in DOMAIN worker' : worker'[i].kind = "log"}
<1>1. /\ n \in Nat /\ DOMAIN worker = 1..n
      /\ DOMAIN worker' = 1..(n + 1)
      /\ \A i \in 1..n : worker'[i] = worker[i]
      /\ worker'[n + 1].kind = k
  <2>1. worker \in Seq(Message) /\ [kind |-> k, of |-> Absent] \in Message
    BY DEF Typed, Message
  <2> QED
    BY <2>1
<1>2. IsFiniteSet(Is)
  <2>1. n \in Int /\ Is \subseteq 1..n
    BY <1>1
  <2>2. IsFiniteSet(1..n)
    BY <2>1, FS_Interval
  <2> QED
    BY <2>1, <2>2, FS_Subset
<1>3. k = "log" => After = Is \cup {n + 1} /\ n + 1 \notin Is
  BY <1>1
<1>4. k # "log" => After = Is
  BY <1>1
<1>5. k = "log" => Cardinality(After) = Cardinality(Is) + 1
  BY <1>2, <1>3, FS_AddElement
<1> QED
  BY <1>4, <1>5 DEF Sent

\* A step of a thread brings it among those that report, or takes it away.
LEMMA ReportingStep ==
  ASSUME NEW t \in Threads, IsFiniteSet(Reporting),
         \A u \in Threads \ {t} : call'[u] = call[u]
  PROVE  /\ IsFiniteSet(Reporting')
         /\ Cardinality(Reporting) \in Nat /\ Cardinality(Reporting') \in Nat
         /\ (t \in Reporting <=> t \in Reporting') =>
              Cardinality(Reporting') = Cardinality(Reporting)
         /\ t \notin Reporting /\ t \in Reporting' =>
              Cardinality(Reporting') = Cardinality(Reporting) + 1
         /\ t \in Reporting /\ t \notin Reporting' =>
              Cardinality(Reporting') = Cardinality(Reporting) - 1
<1>1. \A u \in Threads \ {t} : u \in Reporting <=> u \in Reporting'
  BY DEF Reporting, In, Op
<1>2. Reporting \subseteq Threads /\ Reporting' \subseteq Threads
  BY DEF Reporting
<1>3. CASE t \in Reporting <=> t \in Reporting'
  <2>1. Reporting' = Reporting
    BY <1>1, <1>2, <1>3
  <2> QED
    BY <1>3, <2>1, FS_CardinalityType
<1>4. CASE t \notin Reporting /\ t \in Reporting'
  <2>1. Reporting' = Reporting \cup {t}
    BY <1>1, <1>2, <1>4
  <2> QED
    BY <1>4, <2>1, FS_AddElement, FS_CardinalityType
<1>5. CASE t \in Reporting /\ t \notin Reporting'
  <2>1. Reporting' = Reporting \ {t}
    BY <1>1, <1>2, <1>5
  <2> QED
    BY <1>5, <2>1, FS_RemoveElement, FS_CardinalityType
<1> QED
  BY <1>3, <1>4, <1>5

LEMMA ReportedInitially == TelemetryInit => Reported
<1> SUFFICES ASSUME TelemetryInit PROVE Reported
  OBVIOUS
<1>1. Reporting = {}
  BY DEF TelemetryInit, Reporting, In, Idle
<1>2. {i \in DOMAIN worker : worker[i].kind = "log"} = {}
  BY DEF TelemetryInit
<1>3. Sent("log") = 0 /\ IsFiniteSet(Reporting) /\ Cardinality(Reporting) = 0
  BY <1>1, <1>2, FS_EmptySet DEF Sent
<1> QED
  BY <1>3 DEF TelemetryInit, Reported

LEMMA ReportedStep == ReportInv /\ [TelemetryNext]_telemetryVars => Reported'
<1> SUFFICES ASSUME ReportInv, [TelemetryNext]_telemetryVars PROVE Reported'
  OBVIOUS
<1>a. Typed /\ OneInitialiser /\ Started /\ Reported
  BY DEF ReportInv, Inv
<1>b. Sent("log") \in Nat /\ IsFiniteSet(Reporting) /\ Cardinality(Reporting) \in Nat
  BY <1>a, SentIsNumber, FS_CardinalityType DEF Reported
<1>c. logged.early \in Nat /\ logged.late \in Nat /\ logged.refused \in Nat
  BY <1>a DEF Reported
<1>w. worker' = worker => Sent("log")' = Sent("log")
  BY DEF Sent
\* A thread that is not among those that report before or after
<1>1. ASSUME NEW t \in Threads, \A u \in Threads \ {t} : call'[u] = call[u],
             t \in Reporting <=> t \in Reporting',
             worker' = worker, telemetry' = telemetry, logged' = logged,
             cell # "set" \/ cell' = "set"
      PROVE  Reported'
  <2>1. IsFiniteSet(Reporting') /\ Cardinality(Reporting') = Cardinality(Reporting)
    BY <1>1, <1>b, ReportingStep
  <2> QED
    BY <1>1, <1>a, <1>w, <2>1 DEF Reported
<1>2. CASE UNCHANGED telemetryVars
  <2>1. Reporting' = Reporting
    BY <1>2 DEF Reporting, In, Op, telemetryVars
  <2> QED
    BY <1>2, <1>a, <1>w, <2>1 DEF Reported, telemetryVars
<1>3. ASSUME NEW t \in Threads, NEW c \in Configs, set_max_level(t, c) PROVE Reported'
  <2>1. /\ call'[t].doing.step = "init" /\ call[t].doing.step = "out"
        /\ \A u \in Threads \ {t} : call'[u] = call[u]
    <3>1. In(t, "out") /\ Call(t, "init", "init", c)
      BY <1>3 DEF set_max_level, Call
    <3>2. /\ call'[t].doing = [op |-> "init", step |-> "init", with |-> c]
          /\ \A u \in Threads \ {t} : call'[u] = call[u]
      BY <3>1, <1>a, CallsMade
    <3> QED
      BY <3>1, <3>2 DEF In
  <2> QED
    BY <1>1, <1>3, <2>1 DEF set_max_level, Reporting, In, Op
<1>4. ASSUME NEW t \in Threads, NEW lvl \in Error..Debug, dd_log(t, lvl) PROVE Reported'
  <2>1. /\ call'[t].doing.step = "lock" /\ call'[t].doing.op = "log" /\ call[t].doing.step = "out"
        /\ \A u \in Threads \ {t} : call'[u] = call[u]
    <3>1. In(t, "out") /\ Call(t, "log", "lock", Absent)
      BY <1>4 DEF dd_log, Call
    <3>2. /\ call'[t].doing = [op |-> "log", step |-> "lock", with |-> Absent]
          /\ \A u \in Threads \ {t} : call'[u] = call[u]
      BY <3>1, <1>a, CallsMade
    <3> QED
      BY <3>1, <3>2 DEF In
  <2>2. t \notin Reporting /\ t \in Reporting'
    BY <2>1 DEF Reporting, In, Op
  <2>3. IsFiniteSet(Reporting') /\ Cardinality(Reporting') = Cardinality(Reporting) + 1
    BY <1>b, <2>1, <2>2, ReportingStep
  <2>4. /\ worker' = worker /\ telemetry' = telemetry /\ cell' = cell
        /\ Sent("log")' = Sent("log")
    BY <1>4, <1>w DEF dd_log
  <2>5. CASE cell = "set"
    <3>1. /\ logged' \in [early : Nat, late : Nat, refused : Nat]
          /\ logged'.late = logged.late + 1 /\ logged'.early = logged.early
          /\ logged'.refused = logged.refused
      BY <1>4, <1>a, <2>5 DEF dd_log, Reported
    <3> QED
      BY <1>a, <1>b, <1>c, <2>3, <2>4, <2>5, <3>1 DEF Reported
  <2>6. CASE cell # "set"
    <3>1. /\ logged' \in [early : Nat, late : Nat, refused : Nat]
          /\ logged'.late = logged.late /\ logged'.early = logged.early + 1
          /\ logged'.refused = logged.refused
      BY <1>4, <1>a, <2>6 DEF dd_log, Reported
    <3> QED
      BY <1>a, <1>b, <1>c, <2>3, <2>4, <2>6, <3>1 DEF Reported
  <2> QED
    BY <2>5, <2>6
<1>5. ASSUME NEW t \in Threads, NEW op \in {"points", "configuration"}, Use(t, op) PROVE Reported'
  <2>1. /\ call'[t].doing.op = op /\ call[t].doing.step = "out"
        /\ \A u \in Threads \ {t} : call'[u] = call[u]
    <3>1. In(t, "out") /\ Call(t, op, "lock", Absent)
      BY <1>5 DEF Use, Call
    <3>2. /\ call'[t].doing = [op |-> op, step |-> "lock", with |-> Absent]
          /\ \A u \in Threads \ {t} : call'[u] = call[u]
      BY <3>1, <1>a, CallsMade
    <3> QED
      BY <3>1, <3>2 DEF In
  <2> QED
    BY <1>1, <1>5, <2>1 DEF Use, Reporting, In, Op
<1>6. ASSUME NEW t \in Threads, get_or_init(t) PROVE Reported'
  <2>1. /\ call[t].doing.step = "init" /\ call'[t].doing.step \in {"out", "make"}
        /\ \A u \in Threads \ {t} : call'[u] = call[u]
    <3>1. In(t, "init") /\ (Return(t) \/ Move(t, "make"))
      BY <1>6 DEF get_or_init
    <3>2. \A u \in Threads \ {t} : call'[u] = call[u]
      BY <3>1, <1>a, CallsMade
    <3>3. call'[t].doing = Idle \/ call'[t].doing.step = "make"
      BY <3>1, <1>a, CallsMade
    <3> QED
      BY <3>1, <3>2, <3>3 DEF In, Idle
  <2>2. cell # "set" \/ cell' = "set"
    BY <1>6 DEF get_or_init
  <2> QED
    BY <1>1, <1>6, <2>1, <2>2 DEF get_or_init, Reporting, In, Op
<1>7. ASSUME NEW t \in Threads, make_telemetry_worker(t) PROVE Reported'
  <2>1. /\ call[t].doing.step = "make" /\ call'[t].doing.step = "out"
        /\ \A u \in Threads \ {t} : call'[u] = call[u]
    BY <1>7, <1>a, CallsMade DEF make_telemetry_worker, In, Idle
  <2>2. IsFiniteSet(Reporting') /\ Cardinality(Reporting') = Cardinality(Reporting)
    BY <1>b, <2>1, ReportingStep DEF Reporting, In
  <2>3. worker = <<>> /\ logged.late = 0 /\ cell' = "set"
    <3>1. cell = "running" /\ cell' = "set"
      BY <1>7, <1>a DEF make_telemetry_worker, OneInitialiser
    <3> QED
      BY <1>a, <3>1 DEF Started, Reported
  <2>4. Sent("log") = 0
    <3>1. {i \in DOMAIN worker : worker[i].kind = "log"} = {}
      BY <2>3
    <3> QED
      BY <3>1, FS_EmptySet DEF Sent
  <2>5. worker' # <<>> => logged' = logged
    BY <1>7, <2>3 DEF make_telemetry_worker
  <2>6. Sent("log")' = 0
    <3>1. CASE worker' = worker
      BY <1>w, <2>4, <3>1
    <3>2. CASE worker' = worker \o send_start(call[t].doing.with)
      <4>1. /\ DOMAIN worker' = {1, 2}
            /\ worker'[1].kind = "configuration" /\ worker'[2].kind = "start"
        BY <2>3, <3>2 DEF send_start
      <4>2. {i \in DOMAIN worker' : worker'[i].kind = "log"} = {}
        BY <4>1
      <4> QED
        BY <4>2, FS_EmptySet DEF Sent
    <3> QED
      BY <1>7, <3>1, <3>2 DEF make_telemetry_worker
  <2>7. /\ logged' \in [early : Nat, late : Nat, refused : Nat]
        /\ logged'.late = 0 /\ logged'.refused = logged.refused
        /\ logged'.early \in Nat /\ logged'.early >= logged.early
    <3>1. logged \in [early : Nat, late : Nat, refused : Nat]
      BY <1>a DEF Reported
    <3>2. logged' = logged \/ logged' = [logged EXCEPT !.early = @ + 1]
      BY <1>7 DEF make_telemetry_worker
    <3> QED
      BY <2>3, <3>1, <3>2
  <2> QED
    BY <1>a, <1>b, <1>c, <2>2, <2>3, <2>4, <2>6, <2>7 DEF Reported
<1>8. ASSUME NEW t \in Threads, Lock(t) PROVE Reported'
  <2>1. call[t].doing.step = "lock" /\ \A u \in Threads \ {t} : call'[u] = call[u]
    BY <1>8, <1>a, CallsMade DEF Lock, In
  <2>2. CASE cell = "set"
    <3>1. call'[t].doing.step = "use" /\ call'[t].doing.op = call[t].doing.op
      BY <1>8, <1>a, <2>2, CallsMade DEF Lock
    <3> QED
      BY <1>1, <1>8, <2>1, <2>2, <3>1 DEF Lock, Reporting, In, Op
  <2>3. CASE cell # "set"
    <3>1. call'[t].doing.step = "out"
      BY <1>8, <1>a, <2>3, CallsMade DEF Lock, Idle
    <3>2. t \notin Reporting'
      BY <3>1 DEF Reporting, In
    <3>3. /\ IsFiniteSet(Reporting') /\ Cardinality(Reporting') \in Nat
          /\ Cardinality(Reporting') <= Cardinality(Reporting)
      BY <1>b, <2>1, <3>2, ReportingStep
    <3>4. /\ worker' = worker /\ telemetry' = telemetry /\ logged' = logged /\ cell' = cell
          /\ Sent("log")' = Sent("log")
      BY <1>8, <1>w DEF Lock
    <3>5. worker = <<>>
      BY <1>a, <2>3 DEF Started
    <3> QED
      BY <1>a, <1>b, <1>c, <3>3, <3>4, <3>5 DEF Reported
  <2> QED
    BY <2>2, <2>3
<1>9. ASSUME NEW t \in Threads, Send(t) PROVE Reported'
  <2>1. /\ call[t].doing.step = "use" /\ call'[t].doing.step = "out"
        /\ \A u \in Threads \ {t} : call'[u] = call[u]
    BY <1>9, <1>a, CallsMade DEF Send, In, Idle
  <2>2. Op(t) \in Ops
    BY <1>9, <1>a DEF Send, OneInitialiser
  <2>3. t \notin Reporting' /\ (t \in Reporting <=> Op(t) = "log")
    BY <2>1 DEF Reporting, In
  <2>4. cell' = cell /\ telemetry' = telemetry
    BY <1>9 DEF Send
  <2>5. /\ IsFiniteSet(Reporting') /\ Cardinality(Reporting') \in Nat
        /\ Op(t) = "log" => Cardinality(Reporting') = Cardinality(Reporting) - 1
        /\ Op(t) # "log" => Cardinality(Reporting') = Cardinality(Reporting)
    BY <1>b, <2>1, <2>3, ReportingStep
  <2>6. CASE worker' = Append(worker, [kind |-> Op(t), of |-> Absent]) /\ logged' = logged /\ Sends(t)
    <3>1. /\ Op(t) = "log" => Sent("log")' = Sent("log") + 1
          /\ Op(t) # "log" => Sent("log")' = Sent("log")
      BY <1>a, <2>2, <2>6, SentGrows
    <3>2. cell = "set" /\ worker # <<>>
      BY <1>a, <2>6 DEF Started, Sends, Usable
    <3>3. /\ Sent("log")' \in Nat
          /\ Sent("log")' + logged.refused + Cardinality(Reporting')
               = Sent("log") + logged.refused + Cardinality(Reporting)
      BY <1>b, <1>c, <2>5, <3>1
    <3> QED
      BY <1>a, <2>4, <2>5, <2>6, <3>2, <3>3 DEF Reported
  <2>7. CASE worker' = worker /\ Sends(t) /\ Op(t) = "log"
    <3>1. /\ logged' \in [early : Nat, late : Nat, refused : Nat]
          /\ logged'.late = logged.late /\ logged'.early = logged.early
          /\ logged'.refused = logged.refused + 1
      BY <1>9, <1>a, <2>7 DEF Send, Reported
    <3>2. worker' = worker /\ Sent("log")' = Sent("log")
      BY <1>w, <2>7
    <3> QED
      BY <1>a, <1>b, <1>c, <2>4, <2>5, <2>7, <3>1, <3>2 DEF Reported
  <2>8. CASE worker' = worker /\ ~(Sends(t) /\ Op(t) = "log") /\ logged' = logged
    <3>1. worker # <<>> /\ telemetry.enabled /\ telemetry.logs => Op(t) # "log"
      BY <1>a, <2>8 DEF Started, Sends, Usable
    <3>2. Sent("log")' = Sent("log")
      BY <1>w, <2>8
    <3> QED
      BY <1>a, <1>b, <1>c, <2>4, <2>5, <2>8, <3>1, <3>2 DEF Reported
  <2> QED
    BY <1>9, <2>6, <2>7, <2>8 DEF Send
<1>10. ASSUME NEW t \in Threads, RefusedConfiguration(t) PROVE Reported'
  <2>1. /\ Op(t) = "configuration"
        /\ call'[t].doing.op = Op(t) \/ call'[t].doing.step = "out"
        /\ \A u \in Threads \ {t} : call'[u] = call[u]
    <3>1. Op(t) = "configuration" /\ (Return(t) \/ Move(t, "lock"))
      BY <1>10 DEF RefusedConfiguration
    <3>2. \A u \in Threads \ {t} : call'[u] = call[u]
      BY <3>1, <1>a, CallsMade
    <3>3. call'[t].doing = Idle \/ call'[t].doing.op = call[t].doing.op
      BY <3>1, <1>a, CallsMade
    <3> QED
      BY <3>1, <3>2, <3>3 DEF Op, Idle
  <2> QED
    BY <1>1, <1>10, <2>1 DEF RefusedConfiguration, Reporting, In, Op
<1> QED
  BY <1>2, <1>3, <1>4, <1>5, <1>6, <1>7, <1>8, <1>9, <1>10 DEF TelemetryNext, Steps

\* An error logged once telemetry is on is sent unless the worker refuses it,
\* and none is sent twice, whatever the number of threads and of tracers (log.rs
\* 138-147).
THEOREM ErrorsAreReported == TelemetrySpec => []ErrorsReported
<1>1. TelemetryInit => ReportInv
  BY InvInitially, ReportedInitially DEF ReportInv
<1>2. ReportInv /\ [TelemetryNext]_telemetryVars => ReportInv'
  <2>1. Inv /\ [TelemetryNext]_telemetryVars => Inv'
    BY InvStep
  <2> QED
    BY <2>1, ReportedStep DEF ReportInv
<1>3. ReportInv => ErrorsReported
  <2> SUFFICES ASSUME ReportInv, \A t \in Threads : In(t, "out"),
                      worker # <<>>, worker[1].of.enabled, worker[1].of.logs
               PROVE  /\ Sent("log") + logged.refused >= logged.late
                      /\ Sent("log") + logged.refused <= logged.late + logged.early
    BY DEF ErrorsReported
  <2>1. Reporting = {}
    BY DEF Reporting, In
  <2>2. Cardinality(Reporting) = 0
    BY <2>1, FS_EmptySet
  <2>3. telemetry.enabled /\ telemetry.logs
    BY DEF ReportInv, Inv, Started
  <2>4. Sent("log") \in Nat /\ logged.refused \in Nat
    BY SentIsNumber DEF ReportInv, Inv, Reported
  <2> QED
    BY <2>2, <2>3, <2>4 DEF ReportInv, Reported
<1> QED
  BY <1>1, <1>2, <1>3, PTL DEF TelemetrySpec

-----------------------------------------------------------------------------
(* Configuration: what is known of settings and texts *)

Limited ==
  {"DD_TELEMETRY_HEARTBEAT_INTERVAL", "DD_REMOTE_CONFIG_POLL_INTERVAL_SECONDS",
   "DD_TRACE_X_DATADOG_TAGS_MAX_LENGTH"}
Hosts == {"DD_AGENT_HOST", "DD_DOGSTATSD_HOST"}
Ports == {"DD_TRACE_AGENT_PORT", "DD_DOGSTATSD_PORT"}

\* What a setting holds after the environment was read and code asked for cd
ItemOf(e, s, cd) ==
  LET parsed == get_parse(e, s).value
      given  == IF cd[s] = Unset THEN Unset ELSE Within(s, cd[s])
  IN  [default  |-> default_config[s],
       env      |-> IF parsed = Unset THEN Unset ELSE Within(s, parsed),
       code     |-> IF s = "DD_SERVICE" THEN Unset ELSE given,
       override |-> IF s = "DD_SERVICE" THEN given ELSE Unset]

\* Texts and numbers are asked for where a text or a number is expected.
CodedTyped(cd) ==
  /\ cd = [s \in SupportedConfigurations |-> cd[s]]
  /\ \A s \in Numbers : cd[s] \in Int \cup {Unset}
  /\ cd.DD_TRACE_X_DATADOG_TAGS_MAX_LENGTH \in Nat \cup {Unset}
  /\ \A s \in Hosts \cup Urls \cup {"DD_SERVICE"} : cd[s] \in Texts \cup {Unset}

-----------------------------------------------------------------------------

LEMMA SettingsKnown ==
  /\ Limited \cup Hosts \cup Ports \cup Urls \cup {"DD_SERVICE", "DD_ENV", "DD_TAGS"}
       \subseteq SupportedConfigurations
  /\ Limited \cup Ports \subseteq Numbers
  BY SMTT(60) DEF KindOf, SupportedConfigurations, Limited, Hosts, Ports, Urls, Numbers

LEMMA KindsKnown ==
  /\ \A s \in Hosts \cup Urls \cup {"DD_SERVICE"} : KindOf[s] \in {"text", "service"}
  /\ KindOf["DD_TRACE_X_DATADOG_TAGS_MAX_LENGTH"] = "usize"
  /\ \A s \in Numbers : KindOf[s] \in {"f64", "usize", "u32", "i32"}
  BY SMTT(60) DEF KindOf, SupportedConfigurations, Hosts, Urls, Numbers

LEMMA MoreSequences ==
  ASSUME NEW S, NEW T, NEW q \in Seq(S)
  PROVE  q \in Seq(S \cup T)
  OBVIOUS

LEMMA WordsAreTexts ==
  ASSUME NEW w \in Words
  PROVE  Text(w) \in Texts /\ Text(w)[1].word = w
  <1>1. Word(w) \in Part /\ Word(w).word = w
    BY DEF Word, Part
  <1> QED BY <1>1 DEF Text, Texts

LEMMA TextsAreTexts ==
  /\ Unset \notin Texts
  /\ EmptyText \in Texts /\ DefaultServiceName \in Texts /\ Text("localhost") \in Texts
  /\ Text("http://") \in Texts /\ Text(":") \in Texts
  /\ DefaultServiceName # UnknownService
  <1>1. Unset \notin Texts
    <2>1. Texts \subseteq Seq(Part \cup [port : Int])
      BY MoreSequences DEF Texts
    <2> QED BY <2>1, ConfigAssumption
  <1>2. {"", "http://", ":", "localhost", "unnamed-rust-service"} \subseteq Words
    BY ConfigAssumption
  <1>3. /\ EmptyText \in Texts /\ Text("localhost") \in Texts
        /\ Text("http://") \in Texts /\ Text(":") \in Texts
        /\ DefaultServiceName \in Texts
    BY <1>2, WordsAreTexts DEF EmptyText, DefaultServiceName
  <1>4. DefaultServiceName # UnknownService
    <2>1. DefaultServiceName[1].word = "unnamed-rust-service"
      BY <1>2, WordsAreTexts DEF DefaultServiceName
    <2>2. UnknownService[1].word = "unknown_service"
      BY DEF UnknownService, Text, Word
    <2> QED BY <2>1, <2>2
  <1> QED BY <1>1, <1>3, <1>4

LEMMA DefaultsTyped ==
  /\ \A s \in Hosts \cup Urls \cup {"DD_SERVICE"} : default_config[s] \in Texts
  /\ \A s \in Ports : default_config[s] \in Int
  /\ default_config["DD_TELEMETRY_HEARTBEAT_INTERVAL"] = 120
  /\ default_config["DD_REMOTE_CONFIG_POLL_INTERVAL_SECONDS"] = 10
  /\ default_config["DD_TRACE_X_DATADOG_TAGS_MAX_LENGTH"] = 1024
  /\ default_config["DD_SERVICE"] = DefaultServiceName
  BY SettingsKnown, TextsAreTexts, SMTT(60)
     DEF default_config, Hosts, Urls, Ports, Limited, RC_DEFAULT_POLL_INTERVAL, DATADOG_TAGS_MAX_LENGTH

\* What the environment gives
LEMMA TextOfTyped ==
  ASSUME NEW e \in Environments, NEW s
  PROVE  /\ TextOf(e, s) \in Texts \cup {Unset}
         /\ (\E n \in {s} \cup {aliases(s)[i] : i \in DOMAIN aliases(s)} : n \in DOMAIN e)
              => TextOf(e, s) # Unset
  <1> DEFINE others == {i \in DOMAIN aliases(s) : aliases(s)[i] \in DOMAIN e}
             first  == CHOOSE i \in others : \A j \in others : i <= j
  <1>1. others \subseteq Nat
    BY DEF aliases
  <1>2. others # {} => first \in others
    <2> SUFFICES ASSUME others # {} PROVE first \in others
      OBVIOUS
    <2>1. \E i \in others : \A j \in others : i <= j
      BY <1>1, LeastNumber
    <2> QED BY <2>1
  <1>3. \A n \in DOMAIN e : e[n] \in Texts
    BY ConfigAssumption
  <1>4. TextOf(e, s) = CASE s \in DOMAIN e                     -> e[s]
                         [] s \notin DOMAIN e /\ others # {}  -> e[aliases(s)[first]]
                         [] OTHER                             -> Unset
    BY DEF TextOf
  <1>5. (\E n \in {s} \cup {aliases(s)[i] : i \in DOMAIN aliases(s)} : n \in DOMAIN e)
          => s \in DOMAIN e \/ others # {}
    OBVIOUS
  <1> HIDE DEF first
  <1>6. others # {} => aliases(s)[first] \in DOMAIN e
    BY <1>2
  <1> HIDE DEF others
  <1> QED BY <1>3, <1>4, <1>5, <1>6, TextsAreTexts

LEMMA ParsedTyped ==
  ASSUME NEW e \in Environments, NEW s \in SupportedConfigurations
  PROVE  LET v == get_parse(e, s).value IN
         /\ s \in Hosts \cup Urls \cup {"DD_SERVICE"} => v \in Texts \cup {Unset}
         /\ s \in Numbers => v \in Int \cup {Unset}
         /\ s = "DD_TRACE_X_DATADOG_TAGS_MAX_LENGTH" => v \in Nat \cup {Unset}
         /\ get_parse(e, s).failed <=> TextOf(e, s) # Unset /\ v = Unset
  <1> DEFINE t == TextOf(e, s)
  <1>1. t \in Texts \cup {Unset}
    BY TextOfTyped
  <1>2. /\ get_parse(e, s).value = IF t = Unset THEN Unset ELSE Parse(KindOf[s], t)
        /\ get_parse(e, s).failed = (t # Unset /\ get_parse(e, s).value = Unset)
    BY DEF get_parse
  <1>3. s \in Hosts \cup Urls \cup {"DD_SERVICE"} => Parse(KindOf[s], t) = t
    BY KindsKnown DEF Parse
  <1>4. \A kind : /\ ParseNumber(kind, t) \in Int \cup {Unset}
                  /\ kind = "usize" => ParseNumber(kind, t) \in Nat \cup {Unset}
    <2>1. ASSUME IsNumber(t) PROVE NumberOf[t[1].word] \in Int
      <3>1. t[1].word \in DOMAIN NumberOf
        BY <2>1 DEF IsNumber
      <3> QED BY <3>1, ConfigAssumption
    <2> DEFINE n == NumberOf[t[1].word]
    <2>2. \A kind : \/ ParseNumber(kind, t) = Unset
                    \/ /\ IsNumber(t) /\ ParseNumber(kind, t) = n
                       /\ kind = "usize" => n >= 0
      BY DEF ParseNumber
    <2> HIDE DEF n
    <2> QED BY <2>1, <2>2 DEF n
  <1>5. s \in Numbers => Parse(KindOf[s], t) = ParseNumber(KindOf[s], t)
    BY KindsKnown DEF Parse
  <1>6. s \in Numbers => get_parse(e, s).value \in Int \cup {Unset}
    BY <1>2, <1>4, <1>5
  <1>7. s \in Hosts \cup Urls \cup {"DD_SERVICE"} => get_parse(e, s).value \in Texts \cup {Unset}
    BY <1>1, <1>2, <1>3
  <1>8. s = "DD_TRACE_X_DATADOG_TAGS_MAX_LENGTH" => get_parse(e, s).value \in Nat \cup {Unset}
    <2> SUFFICES ASSUME s = "DD_TRACE_X_DATADOG_TAGS_MAX_LENGTH"
                 PROVE  get_parse(e, s).value \in Nat \cup {Unset}
      OBVIOUS
    <2>1. s \in Numbers /\ KindOf[s] = "usize"
      BY SettingsKnown, KindsKnown DEF Limited
    <2> QED BY <1>2, <1>4, <1>5, <2>1
  <1> QED BY <1>2, <1>6, <1>7, <1>8

\* The limits
LEMMA WithinTyped ==
  ASSUME NEW s, NEW v, s \in Numbers => v \in Int, v # Unset
  PROVE  /\ Within(s, v) # Unset
         /\ s \notin Limited => Within(s, v) = v
         /\ s = "DD_TELEMETRY_HEARTBEAT_INTERVAL" => Within(s, v) \in Nat
         /\ s = "DD_REMOTE_CONFIG_POLL_INTERVAL_SECONDS" => Within(s, v) \in 0..10
         /\ s = "DD_TRACE_X_DATADOG_TAGS_MAX_LENGTH" /\ v >= 0 => Within(s, v) \in 0..1024
  <1>1. CASE s \in Limited
    <2>1. v \in Int
      BY <1>1, SettingsKnown
    <2>2. s \in Limited => Within(s, v) \in Int
      BY <2>1 DEF Within, Limited, abs, min, RC_DEFAULT_POLL_INTERVAL, DATADOG_TAGS_MAX_LENGTH
    <2>3. Unset \notin Int
      BY ConfigAssumption
    <2> QED BY <1>1, <2>1, <2>2, <2>3
            DEF Within, Limited, abs, min, RC_DEFAULT_POLL_INTERVAL, DATADOG_TAGS_MAX_LENGTH
  <1>2. CASE s \notin Limited
    BY <1>2 DEF Within, Limited
  <1> QED BY <1>1, <1>2

\* What is asked of a setting, and what an item with it holds
LEMMA AskedTyped ==
  ASSUME NEW e \in Environments, NEW cd, CodedTyped(cd)
  PROVE  /\ \A s \in Hosts \cup Urls \cup {"DD_SERVICE"} : Asked(e, s, cd) \in Texts
         /\ \A s \in Ports : Asked(e, s, cd) \in Int
         /\ Asked(e, "DD_TELEMETRY_HEARTBEAT_INTERVAL", cd) \in Nat
         /\ Asked(e, "DD_REMOTE_CONFIG_POLL_INTERVAL_SECONDS", cd) \in 0..10
         /\ Asked(e, "DD_TRACE_X_DATADOG_TAGS_MAX_LENGTH", cd) \in 0..1024
  <1> DEFINE parsed(s) == get_parse(e, s).value
  <1>1. \A s : Asked(e, s, cd) = IF cd[s] # Unset THEN Within(s, cd[s])
                              ELSE IF parsed(s) # Unset THEN Within(s, parsed(s))
                              ELSE default_config[s]
    BY DEF Asked, InEnvironment
  <1>2. ASSUME NEW s \in Hosts \cup Urls \cup {"DD_SERVICE"} PROVE Asked(e, s, cd) \in Texts
    <2>1. s \notin Limited /\ s \in SupportedConfigurations
      BY SettingsKnown DEF Hosts, Urls, Limited
    <2>2. s \notin Numbers
      BY KindsKnown DEF Numbers
    <2>3. parsed(s) \in Texts \cup {Unset} /\ cd[s] \in Texts \cup {Unset}
      BY <2>1, ParsedTyped DEF CodedTyped
    <2>4. \A v : v # Unset => Within(s, v) = v
      BY <2>1, <2>2, WithinTyped
    <2> HIDE DEF parsed
    <2> QED BY <1>1, <2>3, <2>4, DefaultsTyped
  <1>3. ASSUME NEW s \in Ports PROVE Asked(e, s, cd) \in Int
    <2>1. s \notin Limited /\ s \in SupportedConfigurations /\ s \in Numbers
      BY SettingsKnown DEF Ports, Limited
    <2>2. parsed(s) \in Int \cup {Unset} /\ cd[s] \in Int \cup {Unset}
      BY <2>1, ParsedTyped DEF CodedTyped
    <2>3. \A v \in Int : v # Unset => Within(s, v) = v
      BY <2>1, WithinTyped
    <2> HIDE DEF parsed
    <2> QED BY <1>1, <2>2, <2>3, DefaultsTyped
  <1>4. \A s \in Limited : /\ parsed(s) \in Int \cup {Unset} /\ cd[s] \in Int \cup {Unset}
                           /\ s = "DD_TRACE_X_DATADOG_TAGS_MAX_LENGTH"
                                => parsed(s) \in Nat \cup {Unset} /\ cd[s] \in Nat \cup {Unset}
    BY SettingsKnown, ParsedTyped DEF CodedTyped
  <1> HIDE DEF parsed
  <1>5. Asked(e, "DD_TELEMETRY_HEARTBEAT_INTERVAL", cd) \in Nat
    BY <1>1, <1>4, WithinTyped, DefaultsTyped DEF Limited
  <1>6. Asked(e, "DD_REMOTE_CONFIG_POLL_INTERVAL_SECONDS", cd) \in 0..10
    BY <1>1, <1>4, WithinTyped, DefaultsTyped DEF Limited
  <1>7. Asked(e, "DD_TRACE_X_DATADOG_TAGS_MAX_LENGTH", cd) \in 0..1024
    BY <1>1, <1>4, WithinTyped, DefaultsTyped DEF Limited
  <1> QED BY <1>2, <1>3, <1>5, <1>6, <1>7

LEMMA ItemHoldsAsked ==
  ASSUME NEW e \in Environments, NEW cd, CodedTyped(cd), NEW s \in SupportedConfigurations
  PROVE  /\ value(ItemOf(e, s, cd)) = Asked(e, s, cd)
         /\ source(ItemOf(e, s, cd), s) = "Default" <=> cd[s] = Unset /\ ~InEnvironment(e, s)
  <1> DEFINE parsed == get_parse(e, s).value
             item == ItemOf(e, s, cd)
  <1>1. parsed # Unset => Within(s, parsed) # Unset
    BY ParsedTyped, WithinTyped
  <1>2. cd[s] # Unset => Within(s, cd[s]) # Unset
    BY WithinTyped DEF CodedTyped
  <1>3. /\ item.default = default_config[s]
        /\ item.env = IF parsed = Unset THEN Unset ELSE Within(s, parsed)
        /\ s = "DD_SERVICE" => /\ item.code = Unset
                               /\ item.override = IF cd[s] = Unset THEN Unset ELSE Within(s, cd[s])
        /\ s # "DD_SERVICE" => /\ item.override = Unset
                               /\ item.code = IF cd[s] = Unset THEN Unset ELSE Within(s, cd[s])
    BY DEF ItemOf
  <1>4. Asked(e, s, cd) = IF cd[s] # Unset THEN Within(s, cd[s])
                       ELSE IF parsed # Unset THEN Within(s, parsed) ELSE default_config[s]
    BY DEF Asked, InEnvironment
  <1>5. InEnvironment(e, s) <=> parsed # Unset
    BY DEF InEnvironment
  <1>6. s = "DD_SERVICE" => override_origin(s) # "Default"
    BY DEF override_origin
  <1> HIDE DEF item, parsed
  <1>7. value(item) = Asked(e, s, cd)
    BY <1>1, <1>2, <1>3, <1>4 DEF value
  <1>8. source(item, s) = "Default" <=> cd[s] = Unset /\ ~InEnvironment(e, s)
    BY <1>1, <1>2, <1>3, <1>5, <1>6 DEF source
  <1> QED BY <1>7, <1>8 DEF item

-----------------------------------------------------------------------------
(* Items *)

NothingCoded == [s \in SupportedConfigurations |-> Unset]

LEMMA SourcesGiveItems ==
  ASSUME NEW e \in Environments
  PROVE  from_sources(e) = [s \in SupportedConfigurations |-> ItemOf(e, s, NothingCoded)]
  <1> SUFFICES ASSUME NEW s \in SupportedConfigurations
               PROVE  from_sources(e)[s] = ItemOf(e, s, NothingCoded)
    BY DEF from_sources
  <1> DEFINE parsed == get_parse(e, s).value
  <1>1. from_sources(e)[s] = IF parsed = Unset THEN NewItem(s)
                             ELSE set_value_source(NewItem(s), s, Within(s, parsed), "EnvVar")
    BY DEF from_sources
  <1>2. NothingCoded[s] = Unset
    BY DEF NothingCoded
  <1>3. ItemOf(e, s, NothingCoded) =
          [default |-> default_config[s], env |-> IF parsed = Unset THEN Unset ELSE Within(s, parsed),
           code |-> Unset, override |-> Unset]
    BY <1>2 DEF ItemOf
  <1>4. override_origin(s) # "EnvVar"
    BY ConfigAssumption DEF override_origin, Origins
  <1> HIDE DEF parsed
  <1> QED BY <1>1, <1>3, <1>4 DEF set_value_source, NewItem

LEMMA CodeChangesItem ==
  ASSUME NEW e, NEW cd, cd = [s \in SupportedConfigurations |-> cd[s]],
         NEW s \in SupportedConfigurations, NEW v, NEW w,
         w = IF v = Unset THEN Unset ELSE Within(s, v)
  PROVE  set_value_source(ItemOf(e, s, cd), s, w, "Code") = ItemOf(e, s, [cd EXCEPT ![s] = v])
  <1>1. [cd EXCEPT ![s] = v][s] = v
    OBVIOUS
  <1>2. override_origin(s) = "Code" <=> s = "DD_SERVICE"
    BY ConfigAssumption DEF override_origin, Origins
  <1> QED BY <1>1, <1>2 DEF ItemOf, set_value_source

LEMMA OtherItemsStay ==
  ASSUME NEW e, NEW cd, cd = [s \in SupportedConfigurations |-> cd[s]], NEW v,
         NEW s \in SupportedConfigurations, NEW r \in SupportedConfigurations, r # s
  PROVE  ItemOf(e, r, [cd EXCEPT ![s] = v]) = ItemOf(e, r, cd)
  <1>1. [cd EXCEPT ![s] = v][r] = cd[r]
    OBVIOUS
  <1> QED BY <1>1 DEF ItemOf

\* The items of a builder that was asked for cd
HoldsAsked(e, items, cd) == items = [s \in SupportedConfigurations |-> ItemOf(e, s, cd)]

\* What a setter stores when it is given v
Stored(s, v) == IF v = Unset THEN Unset ELSE Within(s, v)

\* A call of the builder changes the item of its setting as it changes what was asked.
LEMMA CodeChangesBuilder ==
  ASSUME NEW e, NEW cd, CodedTyped(cd), NEW s \in SupportedConfigurations, NEW v,
         NEW items, HoldsAsked(e, items, cd)
  PROVE  HoldsAsked(e, [items EXCEPT ![s] = set_value_source(items[s], s, Stored(s, v), "Code")],
                    [cd EXCEPT ![s] = v])
  <1> DEFINE item == set_value_source(items[s], s, Stored(s, v), "Code")
  <1>0. /\ cd = [r \in SupportedConfigurations |-> cd[r]]
        /\ items = [r \in SupportedConfigurations |-> ItemOf(e, r, cd)]
    BY DEF CodedTyped, HoldsAsked
  <1>1. item = ItemOf(e, s, [cd EXCEPT ![s] = v])
    BY <1>0, CodeChangesItem DEF Stored
  <1>2. \A r \in SupportedConfigurations : r # s => items[r] = ItemOf(e, r, [cd EXCEPT ![s] = v])
    BY <1>0, OtherItemsStay
  <1> DEFINE changed == [items EXCEPT ![s] = item]
             after(r) == ItemOf(e, r, [cd EXCEPT ![s] = v])
  <1>3. changed = [r \in SupportedConfigurations |-> IF r = s THEN item ELSE items[r]]
    <2> HIDE DEF item
    <2> QED BY <1>0
  <1>4. \A r \in SupportedConfigurations : (IF r = s THEN item ELSE items[r]) = after(r)
    BY <1>1, <1>2
  <1> HIDE DEF item, after
  <1>5. changed = [r \in SupportedConfigurations |-> after(r)]
    BY <1>3, <1>4
  <1> QED BY <1>5 DEF item, after, HoldsAsked

LEMMA CodeKeepsTyped ==
  ASSUME NEW cd, CodedTyped(cd), NEW s \in SupportedConfigurations, NEW v,
         s \in Numbers => v \in Int,
         s = "DD_TRACE_X_DATADOG_TAGS_MAX_LENGTH" => v \in Nat,
         s \in Hosts \cup Urls \cup {"DD_SERVICE"} => v \in Texts
  PROVE  CodedTyped([cd EXCEPT ![s] = v])
  <1>1. /\ "DD_TRACE_X_DATADOG_TAGS_MAX_LENGTH" \in SupportedConfigurations
        /\ Hosts \cup Urls \cup {"DD_SERVICE"} \subseteq SupportedConfigurations
    BY SettingsKnown DEF Limited
  <1>2. Numbers \subseteq SupportedConfigurations
    BY DEF Numbers
  <1> QED BY <1>1, <1>2 DEF CodedTyped

LEMMA NothingCodedTyped == CodedTyped(NothingCoded)
  BY SettingsKnown DEF CodedTyped, NothingCoded, Numbers, Limited

UrlOf(e, url, host, port, cd) ==
  IF Asked(e, url, cd) # EmptyText THEN Asked(e, url, cd)
  ELSE Url(Asked(e, host, cd), Asked(e, port, cd))

LEMMA UrlIsSet ==
  ASSUME NEW host \in Texts, NEW port \in Int
  PROVE  Url(host, port) # Unset
  <1> DEFINE Any == Part \cup [port : Int]
  <1>1. \A t \in Texts : t \in Seq(Any)
    BY MoreSequences DEF Texts
  <1>2. <<[port |-> port]>> \in Seq(Any)
    <2>1. [port |-> port] \in Any
      OBVIOUS
    <2> HIDE DEF Any
    <2> QED BY <2>1
  <1>3. Text("http://") \in Seq(Any) /\ Text(":") \in Seq(Any) /\ host \in Seq(Any)
    BY <1>1, TextsAreTexts
  <1>4. Unset \notin Seq(Any)
    BY ConfigAssumption
  <1> HIDE DEF Any
  <1>5. \A p, q \in Seq(Any) : p \o q \in Seq(Any)
    OBVIOUS
  <1>6. Url(host, port) \in Seq(Any)
    BY <1>2, <1>3, <1>5 DEF Url
  <1> QED BY <1>4, <1>6

LEMMA UrlResolved ==
  ASSUME NEW e \in Environments, NEW cd, CodedTyped(cd),
         NEW url \in Urls, NEW host \in Hosts, NEW port \in Ports,
         NEW items, items = [s \in SupportedConfigurations |-> items[s]],
         \A s \in {url, host, port} : items[s] = ItemOf(e, s, cd)
  PROVE  LET resolved == ResolveUrl(items, url, host, port) IN
         /\ resolved = [s \in SupportedConfigurations |-> resolved[s]]
         /\ \A s \in SupportedConfigurations \ {url} : resolved[s] = items[s]
         /\ value(resolved[url]) = UrlOf(e, url, host, port, cd)
  <1>1. {url, host, port} \subseteq SupportedConfigurations
    BY SettingsKnown
  <1>2. \A s \in {url, host, port} : value(items[s]) = Asked(e, s, cd)
    BY <1>1, ItemHoldsAsked
  <1> DEFINE u == Url(value(items[host]), value(items[port]))
  <1>3. u # Unset /\ u = Url(Asked(e, host, cd), Asked(e, port, cd))
    BY <1>2, AskedTyped, UrlIsSet
  <1>4. url # "DD_SERVICE" /\ override_origin(url) # "Code"
    BY ConfigAssumption DEF Urls, override_origin, Origins
  <1>5. CASE value(items[url]) = EmptyText
    <2> DEFINE item == [items[url] EXCEPT !.code = u]
    <2>1. ResolveUrl(items, url, host, port) = [items EXCEPT ![url] = item]
      BY <1>4, <1>5 DEF ResolveUrl, set_value_source
    <2>2. item.override = Unset /\ item.code = u
      BY <1>4 DEF ItemOf
    <2> HIDE DEF u, item
    <2>3. value(item) = u
      BY <1>3, <2>2 DEF value
    <2>4. UrlOf(e, url, host, port, cd) = u
      BY <1>2, <1>3, <1>5 DEF UrlOf
    <2>5. [items EXCEPT ![url] = item][url] = item
      BY <1>1
    <2> QED BY <1>1, <2>1, <2>3, <2>4, <2>5
  <1>6. CASE value(items[url]) # EmptyText
    <2>1. ResolveUrl(items, url, host, port) = items
      BY <1>6 DEF ResolveUrl
    <2>2. UrlOf(e, url, host, port, cd) = value(items[url])
      BY <1>2, <1>6 DEF UrlOf
    <2> QED BY <2>1, <2>2
  <1> QED BY <1>5, <1>6

\* A configuration as it is built
BuiltAs(e, items, cd) ==
  /\ CodedTyped(cd)
  /\ items = [s \in SupportedConfigurations |-> items[s]]
  /\ \A s \in SupportedConfigurations \ (Urls \cup {"DD_SERVICE"}) : items[s] = ItemOf(e, s, cd)
  /\ value(items.DD_TRACE_AGENT_URL) =
       UrlOf(e, "DD_TRACE_AGENT_URL", "DD_AGENT_HOST", "DD_TRACE_AGENT_PORT", cd)
  /\ value(items.DD_DOGSTATSD_URL) =
       UrlOf(e, "DD_DOGSTATSD_URL", "DD_DOGSTATSD_HOST", "DD_DOGSTATSD_PORT", cd)

LEMMA ResolvedAsBuilt ==
  ASSUME NEW e \in Environments, NEW cd, CodedTyped(cd),
         NEW items, items = [s \in SupportedConfigurations |-> ItemOf(e, s, cd)]
  PROVE  /\ BuiltAs(e, Resolved(items), cd)
         /\ Resolved(items).DD_SERVICE = ItemOf(e, "DD_SERVICE", cd)
  <1> DEFINE first  == ResolveUrl(items, "DD_TRACE_AGENT_URL", "DD_AGENT_HOST", "DD_TRACE_AGENT_PORT")
             second == ResolveUrl(first, "DD_DOGSTATSD_URL", "DD_DOGSTATSD_HOST", "DD_DOGSTATSD_PORT")
  <1>1. Hosts \cup Ports \cup Urls \cup {"DD_SERVICE"} \subseteq SupportedConfigurations
    BY SettingsKnown
  <1>2. \A s \in SupportedConfigurations : items[s] = ItemOf(e, s, cd)
    OBVIOUS
  <1>3. items = [s \in SupportedConfigurations |-> items[s]]
    OBVIOUS
  <1>4. /\ first = [s \in SupportedConfigurations |-> first[s]]
        /\ \A s \in SupportedConfigurations \ {"DD_TRACE_AGENT_URL"} : first[s] = items[s]
        /\ value(first["DD_TRACE_AGENT_URL"]) =
             UrlOf(e, "DD_TRACE_AGENT_URL", "DD_AGENT_HOST", "DD_TRACE_AGENT_PORT", cd)
    <2>1. /\ "DD_TRACE_AGENT_URL" \in Urls /\ "DD_AGENT_HOST" \in Hosts
          /\ "DD_TRACE_AGENT_PORT" \in Ports
      BY DEF Urls, Hosts, Ports
    <2>2. \A s \in {"DD_TRACE_AGENT_URL", "DD_AGENT_HOST", "DD_TRACE_AGENT_PORT"} :
             items[s] = ItemOf(e, s, cd)
      BY <1>1, <1>2, <2>1
    <2> QED BY <1>3, <2>1, <2>2, UrlResolved
  <1> HIDE DEF first
  <1>5. /\ second = [s \in SupportedConfigurations |-> second[s]]
        /\ \A s \in SupportedConfigurations \ {"DD_DOGSTATSD_URL"} : second[s] = first[s]
        /\ value(second["DD_DOGSTATSD_URL"]) =
             UrlOf(e, "DD_DOGSTATSD_URL", "DD_DOGSTATSD_HOST", "DD_DOGSTATSD_PORT", cd)
    <2>1. /\ "DD_DOGSTATSD_URL" \in Urls /\ "DD_DOGSTATSD_HOST" \in Hosts
          /\ "DD_DOGSTATSD_PORT" \in Ports
      BY DEF Urls, Hosts, Ports
    <2>2. \A s \in {"DD_DOGSTATSD_URL", "DD_DOGSTATSD_HOST", "DD_DOGSTATSD_PORT"} :
             s # "DD_TRACE_AGENT_URL" /\ s \in SupportedConfigurations
      BY <1>1, <2>1
    <2>3. \A s \in {"DD_DOGSTATSD_URL", "DD_DOGSTATSD_HOST", "DD_DOGSTATSD_PORT"} :
             first[s] = ItemOf(e, s, cd)
      BY <1>2, <1>4, <2>2
    <2> QED BY <1>4, <2>1, <2>3, UrlResolved
  <1>6. Resolved(items) = second
    BY DEF Resolved, first
  <1> HIDE DEF second
  <1>7. \A s \in SupportedConfigurations \ Urls : second[s] = ItemOf(e, s, cd)
    BY <1>2, <1>4, <1>5 DEF Urls
  <1>8. second["DD_SERVICE"] = ItemOf(e, "DD_SERVICE", cd)
    BY <1>1, <1>7 DEF Urls
  <1>9. value(second["DD_TRACE_AGENT_URL"]) = value(first["DD_TRACE_AGENT_URL"])
    BY <1>1, <1>5 DEF Urls
  <1> QED BY <1>4, <1>5, <1>6, <1>7, <1>8, <1>9 DEF BuiltAs

-----------------------------------------------------------------------------
(* The resource and the service name *)

ServiceOf(e, cd, given) ==
  IF \/ cd.DD_SERVICE # Unset \/ InEnvironment(e, "DD_SERVICE")
     \/ given.service \in {Unset, UnknownService}
  THEN Asked(e, "DD_SERVICE", cd)
  ELSE given.service

EnvOf(e, cd, given) == IF given.env # Unset THEN given.env ELSE Asked(e, "DD_ENV", cd)

ResourceFor(e, cd, given) == [service |-> ServiceOf(e, cd, given), env |-> EnvOf(e, cd, given)]

LEMMA ServiceIsSet ==
  ASSUME NEW e \in Environments, NEW cd, CodedTyped(cd), NEW given
  PROVE  ServiceOf(e, cd, given) # Unset
  BY AskedTyped, TextsAreTexts DEF ServiceOf

\* The first resolution, in make_tracer, and the second, in set_resource, which
\* sees only the result of the first, find the same names.
LEMMA ResolvedTwice ==
  ASSUME NEW e \in Environments, NEW cd, NEW items, BuiltAs(e, items, cd),
         items.DD_SERVICE = ItemOf(e, "DD_SERVICE", cd), NEW given
  PROVE  /\ create_dd_resource(given, items) = ResourceFor(e, cd, given)
         /\ create_dd_resource(ResourceFor(e, cd, given), items) = ResourceFor(e, cd, given)
  <1>1. "DD_SERVICE" \in SupportedConfigurations /\ "DD_ENV" \in SupportedConfigurations
    BY SettingsKnown
  <1>2. /\ value(items.DD_SERVICE) = Asked(e, "DD_SERVICE", cd)
        /\ service_is_default(items) <=> cd.DD_SERVICE = Unset /\ ~InEnvironment(e, "DD_SERVICE")
    BY <1>1, ItemHoldsAsked DEF BuiltAs, service_is_default
  <1>3. value(items.DD_ENV) = Asked(e, "DD_ENV", cd)
    <2>1. items.DD_ENV = ItemOf(e, "DD_ENV", cd)
      BY <1>1 DEF BuiltAs, Urls
    <2> QED BY <1>1, <2>1, ItemHoldsAsked DEF BuiltAs
  <1>4. create_dd_resource(given, items) = ResourceFor(e, cd, given)
    BY <1>2, <1>3 DEF create_dd_resource, ResourceFor, ServiceOf, EnvOf
  <1>5. Asked(e, "DD_SERVICE", cd) # Unset
    BY AskedTyped, TextsAreTexts DEF BuiltAs
  <1>6. cd.DD_SERVICE = Unset /\ ~InEnvironment(e, "DD_SERVICE")
          => Asked(e, "DD_SERVICE", cd) # UnknownService
    <2>1. cd.DD_SERVICE = Unset /\ ~InEnvironment(e, "DD_SERVICE")
            => Asked(e, "DD_SERVICE", cd) = DefaultServiceName
      BY DefaultsTyped DEF Asked
    <2> QED BY <2>1, TextsAreTexts
  <1>7. create_dd_resource(ResourceFor(e, cd, given), items).service = ServiceOf(e, cd, given)
    BY <1>2, <1>5, <1>6 DEF create_dd_resource, ResourceFor, ServiceOf
  <1>8. create_dd_resource(ResourceFor(e, cd, given), items).env = EnvOf(e, cd, given)
    BY <1>3 DEF create_dd_resource, ResourceFor, EnvOf
  <1>9. create_dd_resource(ResourceFor(e, cd, given), items) = ResourceFor(e, cd, given)
    BY <1>7, <1>8 DEF create_dd_resource, ResourceFor
  <1> QED BY <1>4, <1>9

\* A configuration whose tracer has resource res, or none yet
NamedAs(e, items, cd, res) ==
  /\ res = <<>> => items.DD_SERVICE = ItemOf(e, "DD_SERVICE", cd)
  /\ res # <<>> =>
       /\ res = [part \in {"given", "set", "resource"} |-> res[part]]
       /\ res.set \in BOOLEAN
       /\ res.resource = ResourceFor(e, cd, res.given)
       /\ ~res.set => items.DD_SERVICE = ItemOf(e, "DD_SERVICE", cd)
       /\ res.set => value(items.DD_SERVICE) = ServiceOf(e, cd, res.given)

LEMMA TracerMade ==
  ASSUME NEW e \in Environments, NEW cd, NEW items, BuiltAs(e, items, cd),
         NamedAs(e, items, cd, <<>>), NEW given
  PROVE  LET res == [given |-> given, set |-> FALSE, resource |-> create_dd_resource(given, items)]
         IN  res # <<>> /\ NamedAs(e, items, cd, res)
  <1> DEFINE resource == create_dd_resource(given, items)
             res == [given |-> given, set |-> FALSE, resource |-> resource]
  <1>1. items.DD_SERVICE = ItemOf(e, "DD_SERVICE", cd)
    BY DEF NamedAs
  <1>2. resource = ResourceFor(e, cd, given)
    BY <1>1, ResolvedTwice
  <1> HIDE DEF resource
  <1>3. res # <<>>
    <2>1. DOMAIN res # DOMAIN <<>>
      OBVIOUS
    <2> QED BY <2>1
  <1>4. res = [part \in {"given", "set", "resource"} |-> res[part]]
    OBVIOUS
  <1>5. res.given = given /\ res.set = FALSE /\ res.resource = ResourceFor(e, cd, given)
    BY <1>2
  <1> HIDE DEF res
  <1>6. NamedAs(e, items, cd, res)
    BY <1>1, <1>3, <1>4, <1>5 DEF NamedAs
  <1> QED BY <1>3, <1>6 DEF res, resource

LEMMA ServiceResolved ==
  ASSUME NEW e \in Environments, NEW cd, NEW items, BuiltAs(e, items, cd), NEW res,
         res # <<>>, ~res.set, NamedAs(e, items, cd, res)
  PROVE  LET dd_resource == create_dd_resource(res.resource, items)
             after == [items EXCEPT !.DD_SERVICE =
                         set_value_source(items.DD_SERVICE, "DD_SERVICE", dd_resource.service, "Code")]
             named == [res EXCEPT !.set = TRUE, !.resource = dd_resource]
         IN  BuiltAs(e, after, cd) /\ NamedAs(e, after, cd, named)
  <1> DEFINE dd_resource == create_dd_resource(res.resource, items)
             item  == set_value_source(items.DD_SERVICE, "DD_SERVICE", dd_resource.service, "Code")
             after == [items EXCEPT !.DD_SERVICE = item]
             named == [res EXCEPT !.set = TRUE, !.resource = dd_resource]
             given == res.given
  <1>1. /\ items.DD_SERVICE = ItemOf(e, "DD_SERVICE", cd)
        /\ res.resource = ResourceFor(e, cd, given)
        /\ res = [part \in {"given", "set", "resource"} |-> res[part]]
    BY DEF NamedAs
  <1>2. dd_resource = ResourceFor(e, cd, given)
    BY <1>1, ResolvedTwice
  <1>3. dd_resource.service = ServiceOf(e, cd, given) /\ ServiceOf(e, cd, given) # Unset
    BY <1>2, ServiceIsSet DEF ResourceFor, BuiltAs
  <1>4. item = [ItemOf(e, "DD_SERVICE", cd) EXCEPT !.override = dd_resource.service]
    BY <1>1 DEF set_value_source, override_origin
  <1> HIDE DEF dd_resource
  <1>5. item.override = dd_resource.service
    BY <1>4 DEF ItemOf
  <1> HIDE DEF item
  <1>6. value(item) = ServiceOf(e, cd, given)
    BY <1>3, <1>5 DEF value
  <1>7. /\ after = [s \in SupportedConfigurations |-> after[s]]
        /\ after["DD_SERVICE"] = item
        /\ \A s \in SupportedConfigurations \ {"DD_SERVICE"} : after[s] = items[s]
    BY SettingsKnown DEF BuiltAs
  <1>8. Urls \subseteq SupportedConfigurations \ {"DD_SERVICE"}
    BY SettingsKnown DEF Urls
  <1> HIDE DEF after
  <1>9. BuiltAs(e, after, cd)
    BY <1>7, <1>8 DEF BuiltAs, Urls
  <1>10. /\ named = [part \in {"given", "set", "resource"} |-> named[part]]
         /\ named.given = given /\ named.set = TRUE /\ named.resource = dd_resource
    BY <1>1
  <1> HIDE DEF named
  <1>11. NamedAs(e, after, cd, named)
    <2>1. named # <<>>
      <3>1. DOMAIN named # DOMAIN <<>>
        BY <1>10
      <3> QED BY <3>1
    <2>2. value(after.DD_SERVICE) = ServiceOf(e, cd, named.given)
      BY <1>6, <1>7, <1>10
    <2> QED BY <1>2, <1>10, <2>1, <2>2, Zenon DEF NamedAs
  <1> QED BY <1>9, <1>11 DEF after, named, item, dd_resource

-----------------------------------------------------------------------------
(* The invariant *)

IsSequence(q) == q \in Seq({q[i] : i \in DOMAIN q})

LEMMA AppendIsSequence ==
  ASSUME NEW q, IsSequence(q), NEW x
  PROVE  LET p == Append(q, x) IN
         /\ IsSequence(p)
         /\ Len(q) \in Nat /\ DOMAIN q = 1..Len(q) /\ DOMAIN p = 1..Len(q) + 1
         /\ p[Len(q) + 1] = x
         /\ \A i \in 1..Len(q) : p[i] = q[i]
  <1> DEFINE S == {q[i] : i \in DOMAIN q}
             p == Append(q, x)
  <1>1. q \in Seq(S)
    BY DEF IsSequence
  <1> HIDE DEF S
  <1>2. /\ Len(q) \in Nat /\ DOMAIN q = 1..Len(q) /\ DOMAIN p = 1..Len(q) + 1 /\ Len(p) = Len(q) + 1
        /\ p[Len(q) + 1] = x
        /\ \A i \in 1..Len(q) : p[i] = q[i]
    BY <1>1
  <1>3. p \in Seq(S \cup {x})
    BY <1>1
  <1> HIDE DEF p
  <1>4. IsSequence(p)
    BY <1>2, <1>3 DEF IsSequence
  <1> QED BY <1>2, <1>4 DEF p

LEMMA ReplaceIsSequence ==
  ASSUME NEW q, IsSequence(q), NEW c \in DOMAIN q, NEW x
  PROVE  LET p == [q EXCEPT ![c] = x] IN
         /\ IsSequence(p) /\ DOMAIN p = DOMAIN q /\ Len(p) = Len(q)
         /\ p[c] = x
         /\ \A i \in DOMAIN q \ {c} : p[i] = q[i]
  <1> DEFINE S == {q[i] : i \in DOMAIN q}
             p == [q EXCEPT ![c] = x]
  <1>1. q \in Seq(S)
    BY DEF IsSequence
  <1> HIDE DEF S
  <1>2. /\ DOMAIN p = DOMAIN q /\ p[c] = x
        /\ \A i \in DOMAIN q \ {c} : p[i] = q[i]
    BY <1>1
  <1>3. p \in Seq(S \cup {x}) /\ Len(p) = Len(q)
    BY <1>1
  <1> HIDE DEF p
  <1>4. IsSequence(p)
    BY <1>2, <1>3 DEF IsSequence
  <1> QED BY <1>2, <1>3, <1>4 DEF p

\* A builder holds what was asked of it, and the errors of the environment it
\* was made from are reported.
BuilderKept ==
  /\ CodedTyped(coded)
  /\ builder = <<>> => max_level = LevelOf("error") /\ coded = NothingCoded
  /\ builder # <<>> =>
       /\ HoldsAsked(env, builder, coded)
       /\ reported = {s \in SupportedConfigurations \ {"DD_TRACE_SAMPLING_RULES"} :
                        get_parse(env, s).failed}

BuiltAndNamed(c) ==
  /\ configs[c] = [part \in {"items", "coded"} |-> configs[c][part]]
  /\ BuiltAs(env, configs[c].items, configs[c].coded)
  /\ NamedAs(env, configs[c].items, configs[c].coded, resource_of[c])

ConfigInv ==
  /\ env \in Environments
  /\ BuilderKept
  /\ IsSequence(configs) /\ IsSequence(resource_of) /\ Len(resource_of) = Len(configs)
  /\ \A c \in DOMAIN configs : BuiltAndNamed(c)

LEMMA ItemsAreSome ==
  ASSUME NEW e, NEW items, NEW cd, HoldsAsked(e, items, cd)
  PROVE  items # <<>>
  <1>1. "DD_SERVICE" \in DOMAIN items
    BY SettingsKnown DEF HoldsAsked
  <1>2. DOMAIN <<>> = {}
    OBVIOUS
  <1> QED BY <1>1, <1>2

LEMMA ConfigInvInitially == ConfigInit => ConfigInv
  <1> SUFFICES ASSUME ConfigInit PROVE ConfigInv
    OBVIOUS
  <1>1. IsSequence(<<>>)
    BY DEF IsSequence
  <1>2. coded = NothingCoded
    BY DEF ConfigInit, NothingCoded
  <1> QED BY <1>1, <1>2, NothingCodedTyped DEF ConfigInit, ConfigInv, BuilderKept

\* Nothing of the configurations already built changes.
ConfigsStay == UNCHANGED <<env, configs, resource_of>>

LEMMA BuiltStay ==
  ASSUME ConfigInv, ConfigsStay, BuilderKept'
  PROVE  ConfigInv'
  BY DEF ConfigInv, ConfigsStay, BuiltAndNamed

LEMMA BuilderStep ==
  ASSUME ConfigInv, Builder
  PROVE  ConfigInv'
  <1>1. HoldsAsked(env, builder', NothingCoded)
    BY SourcesGiveItems DEF Builder, ConfigInv, HoldsAsked
  <1>2. coded = NothingCoded /\ max_level = LevelOf("error")
    BY DEF Builder, ConfigInv, BuilderKept
  <1>3. builder' # <<>>
    BY <1>1, ItemsAreSome
  <1>4. LevelOf("error") <= LevelOf("error")
    <2>1. LevelFilter[2] = "error" /\ 2 \in DOMAIN LevelFilter
      BY DEF LevelFilter
    <2>2. LevelOf("error") \in DOMAIN LevelFilter
      BY <2>1 DEF LevelOf
    <2>3. DOMAIN LevelFilter \subseteq Int
      BY DEF LevelFilter
    <2> QED BY <2>2, <2>3
  <1>5. reported' = {s \in SupportedConfigurations \ {"DD_TRACE_SAMPLING_RULES"} :
                      get_parse(env, s).failed}
    BY <1>2, <1>4 DEF Builder
  <1>6. env' = env /\ coded' = coded
    BY DEF Builder
  <1>7. BuilderKept'
    BY <1>1, <1>2, <1>3, <1>5, <1>6, NothingCodedTyped DEF BuilderKept
  <1>8. ConfigsStay
    BY DEF Builder, ConfigsStay
  <1> QED BY <1>7, <1>8, BuiltStay

\* What the setters have in common
LEMMA CodeStep ==
  ASSUME ConfigInv, NEW s \in SupportedConfigurations, NEW v,
         CodedTyped([coded EXCEPT ![s] = v]), builder # <<>>,
         builder' = [builder EXCEPT ![s] = set_value_source(builder[s], s, Stored(s, v), "Code")],
         coded' = [coded EXCEPT ![s] = v],
         UNCHANGED <<env, configs, reported, resource_of>>
  PROVE  ConfigInv'
  <1>1. CodedTyped(coded) /\ HoldsAsked(env, builder, coded)
    BY DEF ConfigInv, BuilderKept
  <1>2. HoldsAsked(env, builder', coded')
    BY <1>1, CodeChangesBuilder
  <1>3. builder' # <<>>
    BY <1>2, ItemsAreSome
  <1>4. BuilderKept'
    BY <1>2, <1>3 DEF ConfigInv, BuilderKept
  <1> QED BY <1>4, BuiltStay DEF ConfigsStay

LEMMA SetCodeStep ==
  ASSUME ConfigInv, NEW setter \in Calls, SetCode(setter)
  PROVE  ConfigInv'
  <1> DEFINE s == setter.setting
             v == setter.value
  <1>1. /\ s \in SupportedConfigurations /\ v # Unset
        /\ KindOf[s] \in {"text", "service"} => v \in Texts
        /\ s \in Numbers => v \in Int
        /\ KindOf[s] = "usize" => v >= 0
    BY ConfigAssumption
  <1>2. s \in Hosts \cup Urls \cup {"DD_SERVICE"} => v \in Texts
    BY <1>1, KindsKnown
  <1>3. s = "DD_TRACE_X_DATADOG_TAGS_MAX_LENGTH" => v \in Nat
    BY <1>1, KindsKnown, SettingsKnown DEF Limited
  <1>4. /\ builder # <<>>
        /\ builder' = [builder EXCEPT ![s] = set_value_source(builder[s], s, Stored(s, v), "Code")]
        /\ coded' = [coded EXCEPT ![s] = v]
        /\ UNCHANGED <<env, configs, reported, resource_of>>
    BY <1>1 DEF SetCode, code_value, Stored
  <1> HIDE DEF s, v
  <1>5. CodedTyped([coded EXCEPT ![s] = v])
    BY <1>1, <1>2, <1>3, CodeKeepsTyped DEF ConfigInv, BuilderKept
  <1> QED BY <1>1, <1>4, <1>5, CodeStep

LEMMA AddGlobalTagStep ==
  ASSUME ConfigInv, NEW tag, AddGlobalTag(tag)
  PROVE  ConfigInv'
  <1> DEFINE s == "DD_TAGS"
             v == Append(value(builder.DD_TAGS), tag)
  <1>1. s \in SupportedConfigurations /\ s \notin Numbers
    BY SettingsKnown, SMTT(60) DEF Numbers, KindOf
  <1>2. \A t : Within(s, t) = t
    BY DEF Within
  <1>3. /\ builder # <<>>
        /\ builder' = [builder EXCEPT ![s] = set_value_source(builder[s], s, v, "Code")]
        /\ coded' = [coded EXCEPT ![s] = v]
        /\ UNCHANGED <<env, configs, reported, resource_of>>
    BY DEF AddGlobalTag
  <1>4. s \notin Hosts \cup Urls \cup {"DD_SERVICE"} /\ s # "DD_TRACE_X_DATADOG_TAGS_MAX_LENGTH"
    BY DEF Hosts, Urls
  <1> HIDE DEF s, v
  <1>5. CodedTyped([coded EXCEPT ![s] = v])
    BY <1>1, <1>4, CodeKeepsTyped DEF ConfigInv, BuilderKept
  <1>6. v = Stored(s, v)
    BY <1>2 DEF Stored
  <1> QED BY <1>1, <1>3, <1>5, <1>6, CodeStep

LEMMA BuildStep ==
  ASSUME ConfigInv, build
  PROVE  ConfigInv'
  <1> DEFINE n == Len(configs) + 1
             new == [items |-> Resolved(builder), coded |-> coded]
  <1>1. /\ UNCHANGED <<env, builder, coded, reported>> /\ builder # <<>>
        /\ configs' = Append(configs, new)
        /\ resource_of' = Append(resource_of, <<>>)
    BY DEF build
  <1>2. BuilderKept'
    BY <1>1 DEF ConfigInv, BuilderKept
  <1>3. /\ BuiltAs(env, new.items, new.coded)
        /\ NamedAs(env, new.items, new.coded, <<>>)
        /\ new = [part \in {"items", "coded"} |-> new[part]]
    <2>1. builder = [s \in SupportedConfigurations |-> ItemOf(env, s, coded)]
      BY <1>1 DEF ConfigInv, BuilderKept, HoldsAsked
    <2>2. /\ BuiltAs(env, Resolved(builder), coded)
          /\ Resolved(builder).DD_SERVICE = ItemOf(env, "DD_SERVICE", coded)
      BY <2>1, ResolvedAsBuilt DEF ConfigInv, BuilderKept
    <2> QED BY <2>2 DEF NamedAs
  <1> HIDE DEF new
  <1>4. /\ IsSequence(configs') /\ DOMAIN configs' = 1..n /\ configs'[n] = new
        /\ \A i \in 1..Len(configs) : configs'[i] = configs[i]
        /\ DOMAIN configs = 1..Len(configs) /\ Len(configs) \in Nat
    BY <1>1, AppendIsSequence DEF ConfigInv
  <1>5. /\ IsSequence(resource_of') /\ DOMAIN resource_of' = 1..n /\ resource_of'[n] = <<>>
        /\ \A i \in 1..Len(configs) : resource_of'[i] = resource_of[i]
    BY <1>1, AppendIsSequence DEF ConfigInv
  <1>6. Len(resource_of') = Len(configs')
    <2>1. configs' \in Seq({configs'[i] : i \in DOMAIN configs'})
      BY <1>4 DEF IsSequence
    <2>2. resource_of' \in Seq({resource_of'[i] : i \in DOMAIN resource_of'})
      BY <1>5 DEF IsSequence
    <2>3. \A S, q : q \in Seq(S) => Len(q) \in Nat /\ DOMAIN q = 1..Len(q)
      OBVIOUS
    <2>4. Len(configs') \in Nat /\ 1..Len(configs') = 1..n
      BY <1>4, <2>1, <2>3
    <2>5. Len(resource_of') \in Nat /\ 1..Len(resource_of') = 1..n
      BY <1>5, <2>2, <2>3
    <2>6. \A k, m \in Nat : 1..k = 1..m => k = m
      OBVIOUS
    <2> QED BY <2>4, <2>5, <2>6
  <1>7. ASSUME NEW c \in DOMAIN configs' PROVE BuiltAndNamed(c)'
    <2>1. CASE c = n
      BY <1>1, <1>3, <1>4, <1>5, <2>1 DEF BuiltAndNamed
    <2>2. CASE c # n
      <3>1. c \in 1..Len(configs)
        BY <1>4, <2>2
      <3>2. configs'[c] = configs[c] /\ resource_of'[c] = resource_of[c] /\ env' = env
        BY <1>1, <1>4, <1>5, <3>1
      <3>3. BuiltAndNamed(c)
        BY <1>4, <3>1 DEF ConfigInv
      <3> QED BY <3>2, <3>3 DEF BuiltAndNamed
    <2> QED BY <2>1, <2>2
  <1>8. env' \in Environments
    BY <1>1 DEF ConfigInv
  <1> QED BY <1>2, <1>4, <1>5, <1>6, <1>7, <1>8 DEF ConfigInv

LEMMA MakeTracerStep ==
  ASSUME ConfigInv, NEW c \in DOMAIN configs, NEW resource, make_tracer(c, resource)
  PROVE  ConfigInv'
  <1> DEFINE items == configs[c].items
             made == [given |-> resource, set |-> FALSE,
                      resource |-> create_dd_resource(resource, items)]
  <1>1. /\ UNCHANGED <<env, max_level, builder, coded, configs, reported>>
        /\ resource_of[c] = <<>> /\ resource_of' = [resource_of EXCEPT ![c] = made]
    BY DEF make_tracer
  <1>2. BuiltAndNamed(c)
    BY DEF ConfigInv
  <1>3. NamedAs(env, items, configs[c].coded, made)
    BY <1>1, <1>2, TracerMade DEF ConfigInv, BuiltAndNamed
  <1> HIDE DEF made
  <1>4. c \in DOMAIN resource_of
    <2>1. \A S, q : q \in Seq(S) => DOMAIN q = 1..Len(q)
      OBVIOUS
    <2> QED BY <2>1 DEF ConfigInv, IsSequence
  <1>5. /\ IsSequence(resource_of') /\ Len(resource_of') = Len(resource_of)
        /\ resource_of'[c] = made
        /\ \A i \in DOMAIN resource_of \ {c} : resource_of'[i] = resource_of[i]
    BY <1>1, <1>4, ReplaceIsSequence DEF ConfigInv
  <1>6. DOMAIN resource_of = DOMAIN configs
    <2>1. \A S, q : q \in Seq(S) => DOMAIN q = 1..Len(q)
      OBVIOUS
    <2> QED BY <2>1 DEF ConfigInv, IsSequence
  <1>7. ASSUME NEW i \in DOMAIN configs' PROVE BuiltAndNamed(i)'
    <2>1. BuiltAndNamed(i)
      BY <1>1 DEF ConfigInv
    <2>2. CASE i = c
      BY <1>1, <1>3, <1>5, <2>1, <2>2 DEF BuiltAndNamed
    <2>3. CASE i # c
      <3>1. resource_of'[i] = resource_of[i]
        BY <1>1, <1>5, <1>6, <2>3
      <3> QED BY <1>1, <2>1, <3>1 DEF BuiltAndNamed
    <2> QED BY <2>2, <2>3
  <1>8. BuilderKept'
    BY <1>1 DEF ConfigInv, BuilderKept
  <1> QED BY <1>1, <1>5, <1>7, <1>8 DEF ConfigInv

LEMMA ResolveServiceStep ==
  ASSUME ConfigInv, NEW c \in DOMAIN configs, resolve_service(c)
  PROVE  ConfigInv'
  <1> DEFINE items == configs[c].items
             res == resource_of[c]
             dd_resource == create_dd_resource(res.resource, items)
             after == [items EXCEPT !.DD_SERVICE =
                         set_value_source(items.DD_SERVICE, "DD_SERVICE", dd_resource.service, "Code")]
             named == [res EXCEPT !.set = TRUE, !.resource = dd_resource]
             built == [configs[c] EXCEPT !.items = after]
  <1>1. UNCHANGED <<env, max_level, builder, coded, reported>> /\ res # <<>> /\ ~res.set
    BY DEF resolve_service
  <1>2. resource_of' = [resource_of EXCEPT ![c] = named]
    BY DEF resolve_service
  <1>3. configs' = [configs EXCEPT ![c] = built]
    BY DEF resolve_service
  <1>4. BuiltAndNamed(c)
    BY DEF ConfigInv
  <1>5. BuiltAs(env, after, configs[c].coded) /\ NamedAs(env, after, configs[c].coded, named)
    BY <1>1, <1>4, ServiceResolved DEF ConfigInv, BuiltAndNamed
  <1> HIDE DEF after, named
  <1>6. /\ built = [part \in {"items", "coded"} |-> built[part]]
        /\ built.items = after /\ built.coded = configs[c].coded
    BY <1>4 DEF BuiltAndNamed
  <1> HIDE DEF built
  <1>7. DOMAIN resource_of = DOMAIN configs
    <2>1. \A S, q : q \in Seq(S) => DOMAIN q = 1..Len(q)
      OBVIOUS
    <2> QED BY <2>1 DEF ConfigInv, IsSequence
  <1>8. /\ IsSequence(resource_of') /\ Len(resource_of') = Len(resource_of)
        /\ resource_of'[c] = named
        /\ \A i \in DOMAIN resource_of \ {c} : resource_of'[i] = resource_of[i]
    BY <1>2, <1>7, ReplaceIsSequence DEF ConfigInv
  <1>9. /\ IsSequence(configs') /\ Len(configs') = Len(configs) /\ DOMAIN configs' = DOMAIN configs
        /\ configs'[c] = built
        /\ \A i \in DOMAIN configs \ {c} : configs'[i] = configs[i]
    BY <1>3, ReplaceIsSequence DEF ConfigInv
  <1>10. ASSUME NEW i \in DOMAIN configs' PROVE BuiltAndNamed(i)'
    <2>1. BuiltAndNamed(i)
      BY <1>9 DEF ConfigInv
    <2>2. CASE i = c
      BY <1>1, <1>5, <1>6, <1>8, <1>9, <2>2 DEF BuiltAndNamed
    <2>3. CASE i # c
      <3>1. resource_of'[i] = resource_of[i] /\ configs'[i] = configs[i]
        BY <1>7, <1>8, <1>9, <2>3
      <3> QED BY <1>1, <2>1, <3>1 DEF BuiltAndNamed
    <2> QED BY <2>2, <2>3
  <1>11. BuilderKept'
    BY <1>1 DEF ConfigInv, BuilderKept
  <1>12. env' \in Environments
    BY <1>1 DEF ConfigInv
  <1>13. Len(resource_of') = Len(configs')
    BY <1>8, <1>9 DEF ConfigInv
  <1> QED BY <1>8, <1>9, <1>10, <1>11, <1>12, <1>13 DEF ConfigInv

LEMMA ConfigInvStep == ConfigInv /\ [ConfigNext]_configVars => ConfigInv'
  <1> SUFFICES ASSUME ConfigInv, [ConfigNext]_configVars PROVE ConfigInv'
    OBVIOUS
  <1>1. CASE Builder
    BY <1>1, BuilderStep
  <1>2. ASSUME NEW setter \in Calls, SetCode(setter) PROVE ConfigInv'
    BY <1>2, SetCodeStep
  <1>3. ASSUME NEW word \in DOMAIN PairOf, AddGlobalTag(PairOf[word]) PROVE ConfigInv'
    BY <1>3, AddGlobalTagStep
  <1>4. CASE build
    BY <1>4, BuildStep
  <1>5. ASSUME NEW c \in DOMAIN configs, NEW resource \in Resources, make_tracer(c, resource)
        PROVE  ConfigInv'
    BY <1>5, MakeTracerStep
  <1>6. ASSUME NEW c \in DOMAIN configs, resolve_service(c) PROVE ConfigInv'
    BY <1>6, ResolveServiceStep
  <1>7. CASE UNCHANGED configVars
    BY <1>7 DEF configVars, ConfigInv, BuilderKept, BuiltAndNamed
  <1> QED BY <1>1, <1>2, <1>3, <1>4, <1>5, <1>6, <1>7 DEF ConfigNext

-----------------------------------------------------------------------------
(* What the invariant says of the properties *)

LEMMA BuilderInOrder == ConfigInv => SourcesInOrder
  BY ItemHoldsAsked DEF ConfigInv, BuilderKept, HoldsAsked, SourcesInOrder

LEMMA ErrorsReportedAreAll == ConfigInv => RejectedIsReported
  <1> SUFFICES ASSUME ConfigInv, builder # <<>>,
                      NEW s \in SupportedConfigurations \ {"DD_TRACE_SAMPLING_RULES"},
                      \E n \in {s} \cup {aliases(s)[i] : i \in DOMAIN aliases(s)} : n \in DOMAIN env,
                      source(builder[s], s) = "Default"
               PROVE  s \in reported
    BY DEF RejectedIsReported
  <1>1. builder[s] = ItemOf(env, s, coded)
    BY DEF ConfigInv, BuilderKept, HoldsAsked
  <1>2. ~InEnvironment(env, s)
    BY <1>1, ItemHoldsAsked DEF ConfigInv, BuilderKept
  <1>3. TextOf(env, s) # Unset
    BY TextOfTyped DEF ConfigInv
  <1>4. get_parse(env, s).failed
    BY <1>2, <1>3, ParsedTyped DEF ConfigInv, InEnvironment
  <1> QED BY <1>4 DEF ConfigInv, BuilderKept

LEMMA BuiltHolds ==
  ASSUME ConfigInv, NEW c \in DOMAIN configs,
         NEW s \in SupportedConfigurations \ (Urls \cup {"DD_SERVICE"})
  PROVE  value(configs[c].items[s]) = Asked(env, s, configs[c].coded)
  <1>1. BuiltAs(env, configs[c].items, configs[c].coded)
    BY DEF ConfigInv, BuiltAndNamed
  <1>2. configs[c].items[s] = ItemOf(env, s, configs[c].coded) /\ CodedTyped(configs[c].coded)
    BY <1>1 DEF BuiltAs
  <1> QED BY <1>2, ItemHoldsAsked DEF ConfigInv

LEMMA BuiltAsAsked == ConfigInv => BuildsAsConfigured
  <1> SUFFICES ASSUME ConfigInv, NEW c \in DOMAIN configs
               PROVE  /\ value(configs[c].items.DD_TRACE_AGENT_URL) =
                           UrlOf(env, "DD_TRACE_AGENT_URL", "DD_AGENT_HOST", "DD_TRACE_AGENT_PORT",
                                 configs[c].coded)
                      /\ value(configs[c].items.DD_DOGSTATSD_URL) =
                           UrlOf(env, "DD_DOGSTATSD_URL", "DD_DOGSTATSD_HOST", "DD_DOGSTATSD_PORT",
                                 configs[c].coded)
    BY BuiltHolds DEF BuildsAsConfigured, UrlOf
  <1> QED BY DEF ConfigInv, BuiltAndNamed, BuiltAs

LEMMA LimitsKept == ConfigInv => WithinLimits
  <1> SUFFICES ASSUME ConfigInv, NEW c \in DOMAIN configs
               PROVE  /\ value(configs[c].items.DD_REMOTE_CONFIG_POLL_INTERVAL_SECONDS) \in 0..10
                      /\ value(configs[c].items.DD_TRACE_X_DATADOG_TAGS_MAX_LENGTH) \in 0..1024
                      /\ value(configs[c].items.DD_TELEMETRY_HEARTBEAT_INTERVAL) >= 0
    BY DEF WithinLimits
  <1>1. Limited \subseteq SupportedConfigurations \ (Urls \cup {"DD_SERVICE"})
    BY SettingsKnown DEF Limited, Urls
  <1>2. \A s \in Limited : value(configs[c].items[s]) = Asked(env, s, configs[c].coded)
    BY <1>1, BuiltHolds
  <1>3. CodedTyped(configs[c].coded) /\ env \in Environments
    BY DEF ConfigInv, BuiltAndNamed, BuiltAs
  <1> QED BY <1>2, <1>3, AskedTyped DEF Limited

LEMMA NamedOnce == ConfigInv => OneServiceName
  <1> SUFFICES ASSUME ConfigInv, NEW c \in DOMAIN configs, resource_of[c] # <<>>
               PROVE  LET given == resource_of[c].given IN
                      /\ resource_of[c].resource.service = ServiceOf(env, configs[c].coded, given)
                      /\ resource_of[c].set
                           => value(configs[c].items.DD_SERVICE) = ServiceOf(env, configs[c].coded, given)
                      /\ resource_of[c].resource.env = EnvOf(env, configs[c].coded, given)
    BY DEF OneServiceName, ServiceOf, EnvOf
  <1>1. NamedAs(env, configs[c].items, configs[c].coded, resource_of[c])
    BY DEF ConfigInv, BuiltAndNamed
  <1>2. /\ resource_of[c].resource = ResourceFor(env, configs[c].coded, resource_of[c].given)
        /\ resource_of[c].set => value(configs[c].items.DD_SERVICE)
                                   = ServiceOf(env, configs[c].coded, resource_of[c].given)
    BY <1>1 DEF NamedAs
  <1> QED BY <1>2 DEF ResourceFor

\* For every environment, every calls of the builder between any number of builds,
\* and every resource given to the tracers: a setting comes from the code, else
\* from the environment, else from its default, within its limits; what the
\* environment could not set is reported; and tracer, configuration and resource
\* name one service (configuration.rs 285-304, 437-449, 1469-1492; lib.rs 437-477).
THEOREM ConfigurationIsAsAsked == ConfigSpec => []ConfiguredAsAsked
  <1>1. ConfigInv => ConfiguredAsAsked
    BY BuilderInOrder, BuiltAsAsked, LimitsKept, NamedOnce, ErrorsReportedAreAll
       DEF ConfiguredAsAsked
  <1> QED BY <1>1, ConfigInvInitially, ConfigInvStep, PTL DEF ConfigSpec

-----------------------------------------------------------------------------
(* The shutdown *)

\* The worker the caller is at is one of the three.
LEMMA CurrentIsWorker ==
  ASSUME NEW at \in 1..3
  PROVE  Order[at] \in Workers
BY DEF Order, Workers

\* A worker that is told, signals or ends stays well typed.
LEMMA WorkerChangesTyped ==
  ASSUME workers \in [Workers -> Worker], NEW w \in Workers
  PROVE  /\ \A s \in {"signalled", "ended"} : [workers EXCEPT ![w].stage = s] \in [Workers -> Worker]
         /\ [workers EXCEPT ![w].told = TRUE] \in [Workers -> Worker]
         /\ [workers EXCEPT ![w].handle = FALSE] \in [Workers -> Worker]
         /\ \A outcome \in {"ok", "failed", "panicked"} :
              [workers EXCEPT ![w].stage = "signalled", ![w].outcome = outcome] \in [Workers -> Worker]
<1>1. workers[w] \in Worker
  OBVIOUS
<1>2. \A s \in {"signalled", "ended"} : [workers[w] EXCEPT !.stage = s] \in Worker
  BY <1>1 DEF Worker
<1>3. [workers[w] EXCEPT !.told = TRUE] \in Worker
  BY <1>1 DEF Worker
<1>4. [workers[w] EXCEPT !.handle = FALSE] \in Worker
  BY <1>1 DEF Worker
<1>5. \A outcome \in {"ok", "failed", "panicked"} :
        [workers[w] EXCEPT !.stage = "signalled", !.outcome = outcome] \in Worker
  BY <1>1 DEF Worker
<1> QED
  BY <1>2, <1>3, <1>4, <1>5

\* What the records of a call and of the collector may change
LEMMA CallChangesTyped ==
  ASSUME shutdown \in ShutdownCall
  PROVE  /\ \A s \in Stages : [shutdown EXCEPT !.stage = s] \in ShutdownCall
         /\ [shutdown EXCEPT !.expired = TRUE] \in ShutdownCall
         /\ \A r \in {"ok", "timeout", "failure"} :
              [shutdown EXCEPT !.stage = "returned", !.result = r] \in ShutdownCall
         /\ \A s \in Stages : shutdown.at # 3 => [shutdown EXCEPT !.at = @ + 1, !.stage = s] \in ShutdownCall
         /\ [shutdown EXCEPT !.at = 1, !.stage = "enter"] \in ShutdownCall
<1>1. \A s \in Stages : [shutdown EXCEPT !.stage = s] \in ShutdownCall
  BY DEF ShutdownCall
<1>2. [shutdown EXCEPT !.expired = TRUE] \in ShutdownCall
  BY DEF ShutdownCall
<1>3. \A r \in {"ok", "timeout", "failure"} : [shutdown EXCEPT !.stage = "returned", !.result = r] \in ShutdownCall
  BY DEF ShutdownCall, Stages
<1>4. ASSUME NEW s \in Stages, shutdown.at # 3 PROVE [shutdown EXCEPT !.at = @ + 1, !.stage = s] \in ShutdownCall
  <2>1. shutdown.at + 1 \in 1..3
    BY <1>4 DEF ShutdownCall
  <2> QED
    BY <2>1 DEF ShutdownCall
<1>5. [shutdown EXCEPT !.at = 1, !.stage = "enter"] \in ShutdownCall
  <2>1. 1 \in 1..3 /\ "enter" \in Stages
    BY DEF Stages
  <2> QED
    BY <2>1 DEF ShutdownCall
<1> QED
  BY <1>1, <1>2, <1>3, <1>4, <1>5

LEMMA TypedInitially == ShutdownInit => TypeOK
<1> SUFFICES ASSUME ShutdownInit PROVE TypeOK
  OBVIOUS
<1>1. shutdown \in ShutdownCall
  BY DEF ShutdownInit, ShutdownCall, Stages
<1>2. workers \in [Workers -> Worker]
  BY DEF ShutdownInit, Workers, Worker
<1>3. collector \in Collector
  BY DEF ShutdownInit, Collector, Points
<1> QED
  BY <1>1, <1>2, <1>3 DEF ShutdownInit, TypeOK

LEMMA TypedStep == TypeOK /\ [ShutdownNext]_shutdownVars => TypeOK'
<1> SUFFICES ASSUME TypeOK, [ShutdownNext]_shutdownVars PROVE TypeOK'
  OBVIOUS
<1>a. /\ shutdown \in ShutdownCall /\ workers \in [Workers -> Worker] /\ collector \in Collector
      /\ ready \in BOOLEAN
  BY DEF TypeOK
<1>b. current \in Workers
  BY <1>a, CurrentIsWorker DEF current, ShutdownCall
<1>c. shutdown.at \in 1..3
  BY <1>a DEF ShutdownCall
<1>1. CASE UNCHANGED shutdownVars
  BY <1>1, <1>a DEF TypeOK, shutdownVars
<1>2. CASE shutdown_with_timeout
  BY <1>2, <1>a, CallChangesTyped DEF TypeOK, shutdown_with_timeout, Stages
<1>3. CASE Expires
  BY <1>3, <1>a, CallChangesTyped DEF TypeOK, Expires
<1>4. CASE trigger_shutdown
  <2>1. workers' \in [Workers -> Worker]
    <3>1. \/ workers' = workers
          \/ workers' = [workers EXCEPT ![current].told = TRUE]
      BY <1>4 DEF trigger_shutdown, Tell
    <3>2. [workers EXCEPT ![current].told = TRUE] \in [Workers -> Worker]
      BY <1>a, <1>b, WorkerChangesTyped
    <3> QED
      BY <3>1, <3>2, <1>a
  <2>2. collector' \in Collector
    BY <1>4, <1>a DEF trigger_shutdown, Tell, Collector
  <2>3. shutdown' \in ShutdownCall
    BY <1>4, <1>a, <1>c, CallChangesTyped DEF trigger_shutdown, Past, Stages
  <2> QED
    BY <1>4, <1>a, <2>1, <2>2, <2>3 DEF TypeOK, trigger_shutdown
<1>5. CASE EnterWait
  <2>1. shutdown' \in ShutdownCall
    BY <1>5, <1>a, <1>c, CallChangesTyped DEF EnterWait, Onward, Answer, Stages
  <2>2. workers' \in [Workers -> Worker]
    <3>1. \/ workers' = workers
          \/ workers' = [workers EXCEPT ![current].handle = FALSE]
      BY <1>5 DEF EnterWait
    <3>2. [workers EXCEPT ![current].handle = FALSE] \in [Workers -> Worker]
      BY <1>a, <1>b, WorkerChangesTyped
    <3> QED
      BY <3>1, <3>2, <1>a
  <2> QED
    BY <1>5, <1>a, <2>1, <2>2 DEF TypeOK, EnterWait
<1>6. CASE WaitEnds
  BY <1>6, <1>a, CallChangesTyped DEF TypeOK, WaitEnds, Answer, Stages
<1>7. CASE Joins
  <2>1. shutdown' \in ShutdownCall
    BY <1>7, <1>a, <1>c, CallChangesTyped DEF Joins, Onward, Answer, Stages
  <2>2. workers' \in [Workers -> Worker]
    BY <1>7, <1>a, <1>b, WorkerChangesTyped DEF Joins
  <2> QED
    BY <1>7, <1>a, <2>1, <2>2 DEF TypeOK, Joins
<1>8. CASE Drops
  <2>1. workers' \in [Workers -> Worker]
    <3>1. ASSUME NEW w \in Workers PROVE [workers[w] EXCEPT !.told = TRUE] \in Worker
      BY <1>a DEF Worker
    <3> QED
      BY <1>8, <3>1 DEF Drops
  <2>2. collector' \in Collector
    BY <1>8, <1>a DEF Drops, Collector
  <2>3. shutdown' \in ShutdownCall
    BY <1>8, <1>a, CallChangesTyped DEF Drops, Stages
  <2> QED
    BY <1>8, <1>a, <2>1, <2>2, <2>3 DEF TypeOK, Drops
<1>9. CASE CollectorStops
  <2>1. workers' \in [Workers -> Worker]
    BY <1>9, <1>a, WorkerChangesTyped DEF CollectorStops, Signal, Workers
  <2>2. collector' \in Collector
    BY <1>9, <1>a DEF CollectorStops, Collector
  <2> QED
    BY <1>9, <1>a, <2>1, <2>2 DEF TypeOK, CollectorStops
<1>10. CASE CollectorTimeout
  <2>1. collector' \in Collector
    BY <1>10, <1>a DEF CollectorTimeout, Collector
  <2> QED
    BY <1>10, <1>a, <2>1 DEF TypeOK, CollectorTimeout
<1>11. CASE get_metrics
  <2>1. collector.stage \in Points /\ collector.counted \in [Points -> Nat]
    BY <1>11, <1>a DEF get_metrics, Collecting, Collector, Points
  <2>2. [collector.counted EXCEPT ![collector.stage] = 0] \in [Points -> Nat]
    BY <2>1
  <2>3. collector.taken + collector.counted[collector.stage] \in Nat
    BY <1>a, <2>1 DEF Collector
  <2>4. collector' = [collector EXCEPT !.taken = collector.taken + collector.counted[collector.stage],
                                       !.counted = [collector.counted EXCEPT ![collector.stage] = 0],
                                       !.stage = IF collector.stage = "registry" THEN "queue" ELSE "send"]
    BY <1>11 DEF get_metrics
  <2>5. collector' \in Collector
    BY <1>a, <2>2, <2>3, <2>4 DEF Collector, Points
  <2> QED
    BY <1>11, <1>a, <2>5 DEF TypeOK, get_metrics
<1>12. CASE add_points
  <2>1. collector' \in Collector
    <3>1. /\ collector.reported + collector.taken \in Nat
          /\ collector.lost + collector.taken \in Nat
      BY <1>a DEF Collector
    <3> QED
      BY <1>12, <1>a, <3>1 DEF add_points, Collector
  <2> QED
    BY <1>12, <1>a, <2>1 DEF TypeOK, add_points
<1>13. CASE TelemetryStarts
  BY <1>13, <1>a DEF TypeOK, TelemetryStarts
<1>14. CASE ExporterJoined
  <2>1. workers' \in [Workers -> Worker]
    BY <1>14, <1>a, WorkerChangesTyped DEF ExporterJoined, Workers
  <2> QED
    BY <1>14, <1>a, <2>1 DEF TypeOK, ExporterJoined
<1>15. ASSUME NEW w \in Workers, Stops(w) \/ Fails(w) \/ Ends(w) PROVE TypeOK'
  <2>1. workers' \in [Workers -> Worker]
    <3>1. \/ workers' = [workers EXCEPT ![w].stage = "ended"]
          \/ \E outcome \in {"ok", "failed", "panicked"} :
               workers' = [workers EXCEPT ![w].stage = "signalled", ![w].outcome = outcome]
      BY <1>15 DEF Stops, Fails, Ends, Signal
    <3>2. CASE workers' = [workers EXCEPT ![w].stage = "ended"]
      BY <3>2, <1>a, WorkerChangesTyped
    <3>3. ASSUME NEW outcome \in {"ok", "failed", "panicked"},
                 workers' = [workers EXCEPT ![w].stage = "signalled", ![w].outcome = outcome]
          PROVE  workers' \in [Workers -> Worker]
      BY <3>3, <1>a, WorkerChangesTyped
    <3> QED
      BY <3>1, <3>2, <3>3
  <2> QED
    BY <1>15, <1>a, <2>1 DEF TypeOK, Stops, Fails, Ends
<1>16. ASSUME NEW p \in Points, Counts(p) PROVE TypeOK'
  <2>1. collector.counted \in [Points -> Nat] /\ collector.counted[p] + 1 \in Nat
    BY <1>16, <1>a DEF Collector, Points
  <2>2. collector' = [collector EXCEPT !.counted = [collector.counted EXCEPT ![p] = collector.counted[p] + 1]]
    BY <1>16 DEF Counts
  <2>3. [collector.counted EXCEPT ![p] = collector.counted[p] + 1] \in [Points -> Nat]
    BY <2>1
  <2>4. collector' \in Collector
    BY <1>a, <2>2, <2>3 DEF Collector, Points
  <2> QED
    BY <1>16, <1>a, <2>4 DEF TypeOK, Counts
<1> QED
  BY <1>1, <1>2, <1>3, <1>4, <1>5, <1>6, <1>7, <1>8, <1>9, <1>10, <1>11, <1>12, <1>13, <1>14,
     <1>15, <1>16 DEF ShutdownNext, CallerRuns, CollectorRuns

\* The call, the workers, the collector and their records are always well
\* typed: the caller never looks past the last worker.
THEOREM TypeCorrect == ShutdownSpec => []TypeOK
BY TypedInitially, TypedStep, PTL DEF ShutdownSpec

-----------------------------------------------------------------------------
(* The answer of the call *)

EndedWell(w) == Present(w) => workers[w].stage = "ended" /\ workers[w].outcome = "ok"

\* The workers the caller is past have ended well; only the exporter fails, and
\* only a worker that is gone can have.
Waited ==
  /\ shutdown.stage \in {"enter", "waiting", "joining"} =>
       \A k \in 1..3 : k < shutdown.at => EndedWell(Order[k])
  /\ \A w \in Workers :
       /\ workers[w].outcome = "failed" => w = "exporter"
       /\ workers[w].outcome # "ok" => Gone(w)

AnswerInv == Waited /\ OkMeansAllEnded /\ JoinsOnlySignalled /\ NoEarlyTimeout

LEMMA AnswerInitially == ShutdownInit => AnswerInv
BY DEF ShutdownInit, AnswerInv, Waited, OkMeansAllEnded, JoinsOnlySignalled, NoEarlyTimeout

\* A step of a worker: it is gone for good, with the outcome it went with.
WorkersOnward ==
  \A w \in Workers :
    /\ Present(w)' => Present(w)
    /\ workers[w].stage = "ended" => workers'[w].stage = "ended"
    /\ Gone(w) => Gone(w)' /\ workers'[w].outcome = workers[w].outcome
    /\ workers'[w].outcome # workers[w].outcome =>
         Gone(w)' /\ (workers'[w].outcome = "failed" => w = "exporter")

LEMMA WorkersGoOnward == TypeOK /\ [ShutdownNext]_shutdownVars => WorkersOnward
<1> SUFFICES ASSUME TypeOK, [ShutdownNext]_shutdownVars, NEW w \in Workers
             PROVE  WorkersOnward!(w)
  BY DEF WorkersOnward
<1>a. workers \in [Workers -> Worker]
  BY DEF TypeOK
<1>1. CASE workers' = workers
  BY <1>1 DEF Present, Gone
<1>2. ASSUME NEW v \in Workers, NEW s \in {"signalled", "ended"}, NEW o \in {"ok", "failed", "panicked"},
             workers' = [workers EXCEPT ![v].stage = s, ![v].outcome = o],
             \/ workers[v].stage = "running" /\ s = "signalled" /\ (o = "failed" => v = "exporter")
             \/ workers[v].stage = "signalled" /\ s = "ended" /\ o = workers[v].outcome
      PROVE  WorkersOnward!(w)
  <2>1. workers'[v].stage = s /\ workers'[v].outcome = o
    BY <1>2, <1>a DEF Worker
  <2>2. w # v => workers'[w] = workers[w]
    BY <1>2, <1>a
  <2> QED
    BY <1>2, <2>1, <2>2 DEF Present, Gone
<1>3. ASSUME \A v \in Workers : workers'[v].stage = workers[v].stage /\ workers'[v].outcome = workers[v].outcome
      PROVE  WorkersOnward!(w)
  BY <1>3 DEF Present, Gone
<1>4. ASSUME NEW v \in Workers, NEW o \in {"ok", "failed", "panicked"}, Signal(v, o),
             workers[v].stage = "running", o = "failed" => v = "exporter"
      PROVE  WorkersOnward!(w)
  BY <1>2, <1>4 DEF Signal
<1>5. ASSUME NEW v \in Workers, Ends(v) PROVE WorkersOnward!(w)
  <2>1. workers[v] \in Worker
    BY <1>a
  <2>2. workers' = [workers EXCEPT ![v] = [workers[v] EXCEPT !.stage = "ended"]]
    BY <1>5 DEF Ends
  <2>3. workers'[v].stage = "ended" /\ workers'[v].outcome = workers[v].outcome
    BY <2>1, <2>2, <1>a DEF Worker
  <2>4. w # v => workers'[w] = workers[w]
    BY <2>2, <1>a
  <2> QED
    BY <1>5, <2>3, <2>4 DEF Ends, Present, Gone
<1>6. ASSUME NEW v \in Workers, Stops(v) \/ Fails(v) PROVE WorkersOnward!(w)
  <2>1. PICK o \in {"ok", "failed", "panicked"} :
          workers[v].stage = "running" /\ Signal(v, o) /\ (o = "failed" => v = "exporter")
    BY <1>6 DEF Stops, Fails
  <2> QED
    BY <1>4, <2>1
<1>7. CASE CollectorStops
  <2>1. "telemetry" \in Workers /\ workers["telemetry"].stage = "running" /\ Signal("telemetry", "ok")
    BY <1>7 DEF CollectorStops, Collecting, Workers
  <2> QED
    BY <1>4, <2>1
<1>8. CASE trigger_shutdown \/ Drops \/ EnterWait \/ Joins \/ ExporterJoined
  <2>1. \A v \in Workers :
          workers'[v] \in {workers[v], [workers[v] EXCEPT !.told = TRUE], [workers[v] EXCEPT !.handle = FALSE]}
    <3>1. CASE trigger_shutdown
      BY <3>1, <1>a DEF trigger_shutdown, Tell
    <3>2. CASE Drops
      BY <3>2, <1>a DEF Drops
    <3>3. CASE EnterWait
      BY <3>3, <1>a DEF EnterWait
    <3>4. CASE Joins
      BY <3>4, <1>a DEF Joins
    <3>5. CASE ExporterJoined
      BY <3>5, <1>a DEF ExporterJoined
    <3> QED
      BY <1>8, <3>1, <3>2, <3>3, <3>4, <3>5
  <2>2. ASSUME NEW v \in Workers
        PROVE  workers'[v].stage = workers[v].stage /\ workers'[v].outcome = workers[v].outcome
    <3>1. workers[v] \in Worker
      BY <1>a
    <3> QED
      BY <2>1, <3>1 DEF Worker
  <2> QED
    BY <1>3, <2>2
<1>9. CASE shutdown_with_timeout \/ Expires \/ WaitEnds \/ CollectorTimeout \/ get_metrics
           \/ add_points \/ TelemetryStarts \/ UNCHANGED shutdownVars
  BY <1>1, <1>9 DEF shutdown_with_timeout, Expires, WaitEnds, CollectorTimeout, get_metrics,
                    add_points, TelemetryStarts, shutdownVars
<1>10. ASSUME NEW p \in Points, Counts(p) PROVE WorkersOnward!(w)
  BY <1>1, <1>10 DEF Counts
<1> QED
  BY <1>5, <1>6, <1>7, <1>8, <1>9, <1>10 DEF ShutdownNext, CallerRuns, CollectorRuns

\* How a step may change the call: what is said of the workers is said of them
\* before the step.
CallOnward ==
  \/ shutdown' = shutdown
  \/ shutdown'.stage \in {"trigger", "dropped"} /\ shutdown'.result = shutdown.result /\ (shutdown.expired => shutdown'.expired)
  \/ shutdown' = [shutdown EXCEPT !.expired = TRUE]
  \/ shutdown'.stage = "enter" /\ shutdown'.at = 1 /\ shutdown'.result = shutdown.result /\ shutdown'.expired = shutdown.expired
  \/ /\ shutdown.stage \in {"enter", "waiting", "joining"} /\ shutdown'.expired = shutdown.expired
     /\ \/ EndedWell(current) /\ shutdown.at # 3 /\ shutdown' = [shutdown EXCEPT !.at = @ + 1, !.stage = "enter"]
        \/ EndedWell(current) /\ shutdown.at = 3 /\ shutdown'.stage = "returned" /\ shutdown'.result = "ok"
        \/ shutdown' = [shutdown EXCEPT !.stage = "waiting"]
        \/ current = "exporter" /\ shutdown' = [shutdown EXCEPT !.stage = "joining"]
        \/ Gone(current) /\ shutdown' = [shutdown EXCEPT !.stage = "joining"]
        \/ shutdown'.stage = "returned" /\ shutdown'.result = "failure"
        \/ shutdown.expired /\ shutdown'.stage = "returned" /\ shutdown'.result = "timeout"
        \/ workers[current].outcome = "failed" /\ shutdown'.stage = "returned" /\ shutdown'.result = "timeout"

LEMMA CallGoesOnward == TypeOK /\ [ShutdownNext]_shutdownVars => CallOnward
<1> SUFFICES ASSUME TypeOK, [ShutdownNext]_shutdownVars PROVE CallOnward
  OBVIOUS
<1>a. shutdown \in ShutdownCall
  BY DEF TypeOK
<1>1. CASE shutdown_with_timeout \/ Expires \/ Drops
  BY <1>1, <1>a DEF shutdown_with_timeout, Expires, Drops, CallOnward, ShutdownCall
<1>2. CASE trigger_shutdown
  BY <1>2, <1>a DEF trigger_shutdown, Past, CallOnward, ShutdownCall
<1>3. CASE EnterWait
  <2>1. CASE ~Present(current)
    BY <1>3, <1>a, <2>1 DEF EnterWait, Shut, Onward, Answer, EndedWell, CallOnward, ShutdownCall
  <2>2. CASE current = "exporter" /\ shutdown.expired /\ Answer("timeout")
    BY <1>3, <1>a, <2>2 DEF EnterWait, Shut, Answer, CallOnward, ShutdownCall
  <2>3. CASE shutdown' = [shutdown EXCEPT !.stage = "waiting"]
    BY <1>3, <1>a, <2>3 DEF EnterWait, Shut, CallOnward, ShutdownCall
  <2> QED
    BY <1>3, <2>1, <2>2, <2>3 DEF EnterWait
<1>4. CASE WaitEnds
  BY <1>4, <1>a DEF WaitEnds, Shut, Answer, CallOnward, ShutdownCall
<1>5. CASE Joins
  <2>1. shutdown.stage = "joining" /\ workers[current].stage = "ended"
    BY <1>5 DEF Joins, Shut
  <2>2. CASE workers[current].outcome = "ok" /\ Onward
    <3>1. EndedWell(current)
      BY <2>1, <2>2 DEF EndedWell
    <3> QED
      BY <1>a, <2>1, <2>2, <3>1 DEF Onward, Answer, CallOnward, ShutdownCall
  <2>3. CASE Answer("failure")
    BY <1>a, <2>1, <2>3 DEF Answer, CallOnward, ShutdownCall
  <2>4. CASE workers[current].outcome = "failed" /\ Answer("timeout")
    BY <1>a, <2>1, <2>4 DEF Answer, CallOnward, ShutdownCall
  <2> QED
    BY <1>5, <2>2, <2>3, <2>4 DEF Joins
<1>6. CASE CollectorRuns \/ TelemetryStarts \/ ExporterJoined \/ UNCHANGED shutdownVars
  BY <1>6 DEF CollectorRuns, CollectorStops, CollectorTimeout, get_metrics, add_points,
              TelemetryStarts, ExporterJoined, shutdownVars, CallOnward
<1>7. ASSUME NEW w \in Workers, Stops(w) \/ Fails(w) \/ Ends(w) PROVE CallOnward
  BY <1>7 DEF Stops, Fails, Ends, CallOnward
<1>8. ASSUME NEW p \in Points, Counts(p) PROVE CallOnward
  BY <1>8 DEF Counts, CallOnward
<1> QED
  BY <1>1, <1>2, <1>3, <1>4, <1>5, <1>6, <1>7, <1>8 DEF ShutdownNext, CallerRuns


LEMMA AnswerStep == TypeOK /\ AnswerInv /\ [ShutdownNext]_shutdownVars => AnswerInv'
<1> SUFFICES ASSUME TypeOK, AnswerInv, [ShutdownNext]_shutdownVars PROVE AnswerInv'
  OBVIOUS
<1>a. shutdown \in ShutdownCall /\ shutdown' \in ShutdownCall /\ workers \in [Workers -> Worker]
  BY TypedStep DEF TypeOK
<1>b. WorkersOnward /\ CallOnward
  BY WorkersGoOnward, CallGoesOnward
<1>c. \A k \in 1..3 : Order[k] \in Workers
  BY CurrentIsWorker
<1>d. current \in Workers
  BY <1>a, <1>c DEF current, ShutdownCall
<1>e. \A w \in Workers : EndedWell(w) => EndedWell(w)'
  BY <1>a, <1>b DEF WorkersOnward, EndedWell, Gone, Present
<1>f. shutdown.at \in 1..3 /\ shutdown'.at \in 1..3
  BY <1>a DEF ShutdownCall
<1>1. Waited'
  <2>1. ASSUME NEW w \in Workers
        PROVE  /\ workers'[w].outcome = "failed" => w = "exporter"
               /\ workers'[w].outcome # "ok" => Gone(w)'
    BY <1>b DEF WorkersOnward, AnswerInv, Waited
  <2>2. ASSUME shutdown'.stage \in {"enter", "waiting", "joining"}, NEW k \in 1..3, k < shutdown'.at
        PROVE  EndedWell(Order[k])'
    <3>1. CASE shutdown.stage \in {"enter", "waiting", "joining"} /\ shutdown'.at = shutdown.at
      BY <1>c, <1>e, <2>2, <3>1 DEF AnswerInv, Waited
    <3>2. CASE shutdown'.at = 1
      BY <2>2, <3>2
    <3>3. CASE EndedWell(current) /\ shutdown.stage \in {"enter", "waiting", "joining"}
               /\ shutdown' = [shutdown EXCEPT !.at = @ + 1, !.stage = "enter"]
      <4>1. shutdown'.at = shutdown.at + 1
        BY <1>a, <3>3 DEF ShutdownCall
      <4>2. CASE k = shutdown.at
        BY <1>d, <1>e, <3>3, <4>2 DEF current
      <4>3. CASE k # shutdown.at
        <5>1. k < shutdown.at
          BY <1>f, <2>2, <4>1, <4>3
        <5> QED
          BY <1>c, <1>e, <3>3, <5>1 DEF AnswerInv, Waited
      <4> QED
        BY <4>2, <4>3
    <3> QED
      BY <1>a, <1>b, <2>2, <3>1, <3>2, <3>3 DEF CallOnward, ShutdownCall
  <2> QED
    BY <2>1, <2>2 DEF Waited
<1>2. OkMeansAllEnded'
  <2>1. SUFFICES ASSUME shutdown'.result = "ok", NEW w \in Workers PROVE EndedWell(w)'
    BY DEF OkMeansAllEnded, EndedWell
  <2>2. CASE shutdown.result = "ok"
    BY <1>e, <2>2 DEF AnswerInv, OkMeansAllEnded, EndedWell
  <2>3. CASE EndedWell(current) /\ shutdown.at = 3 /\ shutdown.stage \in {"enter", "waiting", "joining"}
    <3>1. PICK k \in 1..3 : w = Order[k]
      BY DEF Order, Workers
    <3>2. CASE k = shutdown.at
      BY <1>d, <1>e, <2>3, <3>1, <3>2 DEF current
    <3>3. CASE k # shutdown.at
      <4>1. k < shutdown.at
        BY <2>3, <3>3
      <4> QED
        BY <1>c, <1>e, <2>3, <3>1, <4>1 DEF AnswerInv, Waited
    <3> QED
      BY <3>2, <3>3
  <2> QED
    BY <1>a, <1>b, <2>1, <2>2, <2>3 DEF CallOnward, ShutdownCall
<1>3. JoinsOnlySignalled'
  <2>1. SUFFICES ASSUME shutdown'.stage = "joining", current' # "exporter" PROVE Gone(current)'
    BY DEF JoinsOnlySignalled
  <2>2. shutdown'.at = shutdown.at /\ Gone(current)
    BY <1>a, <1>b, <2>1 DEF CallOnward, ShutdownCall, AnswerInv, JoinsOnlySignalled, current
  <2>3. current' = current
    BY <2>2 DEF current
  <2>4. Gone(current) => (Gone(current))'
    BY <1>b, <1>d, <2>3 DEF WorkersOnward, Gone
  <2> QED
    BY <2>2, <2>4
<1>4. NoEarlyTimeout'
  <2>1. SUFFICES ASSUME shutdown'.result = "timeout"
                 PROVE  shutdown'.expired \/ workers'["exporter"].outcome = "failed"
    BY DEF NoEarlyTimeout
  <2>2. "exporter" \in Workers
    BY DEF Workers
  <2>3. workers["exporter"].outcome = "failed" => workers'["exporter"].outcome = "failed"
    BY <1>b, <2>2 DEF WorkersOnward, AnswerInv, Waited
  <2>4. workers[current].outcome = "failed" => current = "exporter"
    BY <1>d DEF AnswerInv, Waited
  <2>5. shutdown.result = "timeout" => shutdown.expired \/ workers["exporter"].outcome = "failed"
    BY DEF AnswerInv, NoEarlyTimeout
  <2> QED
    BY <1>a, <1>b, <2>1, <2>3, <2>4, <2>5 DEF CallOnward, ShutdownCall
<1> QED
  BY <1>1, <1>2, <1>3, <1>4 DEF AnswerInv

LEMMA Answered == ShutdownSpec => []AnswerInv
<1>1. ShutdownInit => TypeOK /\ AnswerInv
  BY TypedInitially, AnswerInitially
<1>2. (TypeOK /\ AnswerInv) /\ [ShutdownNext]_shutdownVars => (TypeOK /\ AnswerInv)'
  BY TypedStep, AnswerStep
<1> QED
  BY <1>1, <1>2, PTL DEF ShutdownSpec

\* An answer of Ok means that every worker has ended, and ended well, whatever
\* they did and however late (span_processor.rs 701-764).
THEOREM OkIsTheTruth == ShutdownSpec => []OkMeansAllEnded
BY Answered, PTL DEF AnswerInv

\* A worker behind a WorkerHandle is joined only when its end is signalled, so
\* that the join is short (utils.rs 24-36).
THEOREM JoinIsShort == ShutdownSpec => []JoinsOnlySignalled
BY Answered, PTL DEF AnswerInv

\* The caller hears of a timeout before its deadline only when the exporter's
\* own shutdown failed (span_processor.rs 716-764).
THEOREM TimeoutIsLate == ShutdownSpec => []NoEarlyTimeout
BY Answered, PTL DEF AnswerInv

-----------------------------------------------------------------------------
(* The collector's points *)

\* Between two rounds nothing is in the collector's hands.
CollectorInv ==
  /\ collector.stage = "recv" => collector.taken = 0
  /\ RoundsAreWhole
  /\ PointsCountedOnce

LEMMA CollectorStep == TypeOK /\ CollectorInv /\ [ShutdownNext]_shutdownVars => CollectorInv'
<1> SUFFICES ASSUME TypeOK, CollectorInv, [ShutdownNext]_shutdownVars PROVE CollectorInv'
  OBVIOUS
<1>a. collector \in Collector /\ workers \in [Workers -> Worker] /\ "telemetry" \in Workers
  BY DEF TypeOK, Workers
<1>b. /\ collector.counted["registry"] \in Nat /\ collector.counted["queue"] \in Nat
      /\ collector.taken \in Nat /\ collector.reported \in Nat /\ collector.lost \in Nat
      /\ collector.counted \in [{"registry", "queue"} -> Nat]
  BY <1>a DEF Collector
<1>c. MaxPoints \in Nat
  BY ShutdownAssumption
<1>d. WorkersOnward
  BY WorkersGoOnward
<1>1. ASSUME collector'.stage = collector.stage, collector'.taken = collector.taken,
             collector'.counted = collector.counted, collector'.reported = collector.reported,
             collector'.lost = collector.lost,
             Gone("telemetry")' /\ workers'["telemetry"].outcome = "ok" =>
               \/ Gone("telemetry") /\ workers["telemetry"].outcome = "ok"
               \/ collector.stage = "recv"
      PROVE  CollectorInv'
  BY <1>1 DEF CollectorInv, RoundsAreWhole, PointsCountedOnce
<1>2. ASSUME Collecting("recv") \/ Collecting("registry") \/ Collecting("queue") \/ Collecting("send"),
             workers' = workers
      PROVE  ~Gone("telemetry")'
  BY <1>2 DEF Collecting, Gone
<1>3. CASE CollectorTimeout
  BY <1>2, <1>3, <1>a, <1>b DEF CollectorTimeout, CollectorInv, RoundsAreWhole, PointsCountedOnce, Collector
<1>4. CASE get_metrics
  <2>1. /\ collector'.stage # "recv"
        /\ collector'.reported = collector.reported /\ collector'.lost = collector.lost
    BY <1>4, <1>a DEF get_metrics, Collector
  <2>2. collector.stage \in {"registry", "queue"}
    BY <1>4 DEF get_metrics, Collecting
  <2>3. /\ collector'.taken = collector.taken + collector.counted[collector.stage]
        /\ collector'.counted = [collector.counted EXCEPT ![collector.stage] = 0]
    BY <1>4, <1>a DEF get_metrics, Collector
  <2>4. PointsCountedOnce'
    BY <1>b, <1>c, <2>1, <2>2, <2>3 DEF CollectorInv, PointsCountedOnce
  <2> QED
    BY <1>2, <1>4, <2>1, <2>4 DEF get_metrics, CollectorInv, RoundsAreWhole
<1>5. CASE add_points
  <2>1. /\ collector'.stage = "recv" /\ collector'.taken = 0 /\ collector'.counted = collector.counted
        /\ collector'.reported + collector'.lost = collector.reported + collector.lost + collector.taken
        /\ collector'.reported \in Nat /\ collector'.lost \in Nat
    BY <1>5, <1>a, <1>b DEF add_points, Collector
  <2> QED
    BY <1>b, <1>c, <2>1 DEF CollectorInv, RoundsAreWhole, PointsCountedOnce
<1>6. CASE CollectorStops
  <2>1. /\ collector'.stage = collector.stage /\ collector'.taken = collector.taken
        /\ collector'.counted = collector.counted /\ collector'.reported = collector.reported
        /\ collector'.lost = collector.lost /\ collector.stage = "recv"
    BY <1>6, <1>a DEF CollectorStops, Collecting, Collector
  <2> QED
    BY <1>1, <2>1
<1>7. ASSUME NEW p \in Points, Counts(p) PROVE CollectorInv'
  <2>1. /\ collector'.stage = collector.stage /\ collector'.taken = collector.taken
        /\ collector'.reported = collector.reported /\ collector'.lost = collector.lost
        /\ collector'.counted = [collector.counted EXCEPT ![p] = @ + 1]
    BY <1>7, <1>a DEF Counts, Collector
  <2>2. PointsCountedOnce'
    BY <1>7, <1>b, <1>c, <2>1 DEF Counts, Points, PointsCountedOnce
  <2> QED
    BY <1>7, <2>1, <2>2 DEF Counts, CollectorInv, RoundsAreWhole, Gone
<1>8. ASSUME workers' = workers, collector' = collector PROVE CollectorInv'
  BY <1>1, <1>8 DEF Gone
<1>9. CASE shutdown_with_timeout \/ Expires \/ WaitEnds \/ TelemetryStarts \/ UNCHANGED shutdownVars
  BY <1>8, <1>9 DEF shutdown_with_timeout, Expires, WaitEnds, TelemetryStarts, shutdownVars
<1>10. CASE trigger_shutdown \/ Drops \/ EnterWait \/ Joins \/ ExporterJoined
  <2>1. /\ collector'.stage = collector.stage /\ collector'.taken = collector.taken
        /\ collector'.counted = collector.counted /\ collector'.reported = collector.reported
        /\ collector'.lost = collector.lost
    BY <1>10, <1>a DEF trigger_shutdown, Tell, Drops, EnterWait, Joins, ExporterJoined, Collector
  <2>2. workers'["telemetry"].stage = workers["telemetry"].stage
        /\ workers'["telemetry"].outcome = workers["telemetry"].outcome
    <3>1. workers["telemetry"] \in Worker
      BY <1>a
    <3>2. workers'["telemetry"] \in {workers["telemetry"], [workers["telemetry"] EXCEPT !.told = TRUE],
                                     [workers["telemetry"] EXCEPT !.handle = FALSE]}
      BY <1>10, <1>a DEF trigger_shutdown, Tell, Drops, EnterWait, Joins, ExporterJoined
    <3> QED
      BY <3>1, <3>2 DEF Worker
  <2> QED
    BY <1>1, <2>1, <2>2 DEF Gone
<1>11. ASSUME NEW w \in Workers, Stops(w) \/ Fails(w) \/ Ends(w) PROVE CollectorInv'
  <2>1. collector' = collector
    BY <1>11 DEF Stops, Fails, Ends
  <2>2. Gone("telemetry")' /\ workers'["telemetry"].outcome = "ok" =>
          Gone("telemetry") /\ workers["telemetry"].outcome = "ok"
    <3>1. CASE Stops(w)
      BY <3>1, <1>a DEF Stops, Signal, Gone
    <3>2. CASE Fails(w)
      <4>1. PICK o \in {"ok", "failed", "panicked"} :
              Signal(w, o) /\ (w = "telemetry" => o = "panicked")
        BY <3>2 DEF Fails
      <4> QED
        BY <4>1, <1>a DEF Signal, Gone, Worker
    <3>3. CASE Ends(w)
      BY <3>3, <1>a DEF Ends, Gone, Worker
    <3> QED
      BY <1>11, <3>1, <3>2, <3>3
  <2> QED
    BY <1>1, <2>1, <2>2
<1> QED
  BY <1>3, <1>4, <1>5, <1>6, <1>7, <1>9, <1>10, <1>11 DEF ShutdownNext, CallerRuns, CollectorRuns

LEMMA Collected == ShutdownSpec => []CollectorInv
<1>1. ShutdownInit => TypeOK /\ CollectorInv
  <2> SUFFICES ASSUME ShutdownInit PROVE CollectorInv
    BY TypedInitially
  <2>1. collector.taken = 0 /\ collector.reported = 0 /\ collector.lost = 0
    BY DEF ShutdownInit
  <2>2. collector.counted["registry"] = 0 /\ collector.counted["queue"] = 0
    BY DEF ShutdownInit, Points
  <2> QED
    BY <2>1, <2>2, ShutdownAssumption DEF CollectorInv, RoundsAreWhole, PointsCountedOnce
<1>2. (TypeOK /\ CollectorInv) /\ [ShutdownNext]_shutdownVars => (TypeOK /\ CollectorInv)'
  BY TypedStep, CollectorStep
<1> QED
  BY <1>1, <1>2, PTL DEF ShutdownSpec

\* A collector that ends without a panic has handed over what it took
\* (spans_metrics.rs 55-66).
THEOREM RoundsAreFinished == ShutdownSpec => []RoundsAreWhole
BY Collected, PTL DEF CollectorInv

\* No point is taken twice, for any number of points (spans_metrics.rs 68-70).
THEOREM NoPointTwice == ShutdownSpec => []PointsCountedOnce
BY Collected, PTL DEF CollectorInv

\* Ok, a timeout and a join mean what they say (span_processor.rs 701-764).
THEOREM AnswersAreTrue == ShutdownSpec => []AnswerIsTrue
<1>1. OkMeansAllEnded /\ JoinsOnlySignalled /\ NoEarlyTimeout => AnswerIsTrue
  BY DEF AnswerIsTrue
<1> QED
  BY <1>1, OkIsTheTruth, JoinIsShort, TimeoutIsLate, PTL

\* No point is reported twice, and none is lost between taking and sending it
\* (spans_metrics.rs 55-97).
THEOREM PointsAreConserved == ShutdownSpec => []PointsConserved
<1>1. RoundsAreWhole /\ PointsCountedOnce => PointsConserved
  BY DEF PointsConserved
<1> QED
  BY <1>1, RoundsAreFinished, NoPointTwice, PTL
=============================================================================
