----------------------------- MODULE RemoteConfig -----------------------------
(***************************************************************************)
(* The remote configuration client                                         *)
(* (src/dd-trace/src/configuration/remote_config.rs), the configuration    *)
(* item of the sampling rules it overrides (configuration.rs), the         *)
(* callback that hands the rules to the sampler and the telemetry cell     *)
(* that reports them (telemetry.rs).                                       *)
(*                                                                         *)
(* One worker thread polls the agent.  Its awaits are the only points      *)
(* where a shutdown can drop it; what it does between them is cut into the *)
(* writes other threads can see.  Another thread starts telemetry once,    *)
(* reading the item field by field.                                        *)
(***************************************************************************)
EXTENDS Naturals, Sequences, FiniteSets

CONSTANTS
  Ids,         \* ids of configurations, in paths and in the files' JSON
  RuleSets,    \* non-empty lists of sampling rules a file can carry
  LocalRules,  \* the rules of the environment, the code or the default
  None,        \* Option::None
  Files,       \* the target files the agent may send
  TargetsKinds,\* the targets metadata the agent may send
  MaxFiles,    \* bound: files in one response
  MaxPolls     \* bound: polls

\* What a file's raw field holds: not base64 of UTF-8, not an ApmTracingConfig,
\* no sampling rules, null, an empty list, a value that is not a list of
\* rules, or rules.
Contents ==
  {"undecodable", "malformed", "absent", "null", "empty", "unknown"} \cup RuleSets

\* product is "none" when the path has not the form of
\* extract_product_and_id_from_path; listed says where the response names the
\* path: in its signed targets, in client_configs or nowhere.
File ==
  [product : {"APM_TRACING", "other", "none"}, id : Ids, config : Ids,
   content : Contents, listed : {"signed", "client", "no"}]

AllTargets == {"none", "undecodable", "plain", "with_state"}

ASSUME RemoteConfigAssumption ==
  /\ LocalRules \notin RuleSets
  /\ None \notin RuleSets \cup Ids \cup {LocalRules}
  /\ Files \subseteq File
  /\ TargetsKinds \subseteq AllTargets
  /\ MaxFiles \in Nat
  /\ MaxPolls \in Nat

VARIABLES
  client,     \* ClientState, and cached_target_files
  worker,     \* where RemoteConfigClientWorker::run is, and its locals
  cancelled,  \* the cancellation token
  item,       \* Config::trace_sampling_rules: override_value and config_id
  sampler,    \* the rules the callback gave the sampler last
  telemetry,  \* TELEMETRY, the read of send_start, what telemetry was told last
  polls,      \* requests built so far
  missed      \* history: an update was notified while telemetry was starting

vars == <<client, worker, cancelled, item, sampler, telemetry, polls, missed>>

-----------------------------------------------------------------------------
(* Data types *)

CachedFile == [id : Ids, content : Contents]

ConfigState == [id : Ids, version : Nat, apply_state : {2, 3}]

Client ==
  [targets_version : Nat, backend_client_state : Nat \cup {None},
   config_states : Seq(ConfigState), has_error : BOOLEAN,
   cached_target_files : Seq(CachedFile)]

Response == [targets : AllTargets, files : Seq(Files), present : BOOLEAN]

NoResponse == [targets |-> "none", files |-> <<>>, present |-> FALSE]

\* start       run, before the runtime is built
\* connecting  the request is built; connecting to the agent
\* waiting     the request is sent; its answer or its body is awaited
\* files       in the loop over target_files, before file number next
\* override, config_id, callback, notify
\*             in update_sampling_rules_from_remote or
\*             clear_remote_sampling_rules, before that write
\* applied     before the state of the file is recorded
\* failed      fetch_and_apply_config has returned an error
\* succeeded   it has returned Ok
\* sleeping    until the next poll
\* ended       the shutdown receiver was dropped: the end is signalled
Updating == {"override", "config_id", "callback", "notify"}
Awaits == {"connecting", "waiting", "sleeping"}
Stages == Updating \cup Awaits \cup {"start", "files", "applied", "failed", "succeeded", "ended"}

Worker ==
  [stage : Stages, response : Response, next : Nat \ {0}, new_cache : Seq(CachedFile),
   any_failure : BOOLEAN, config_states_cleared : BOOLEAN,
   requested_cache : Seq(CachedFile)]

Idle == worker.stage \notin Updating

-----------------------------------------------------------------------------
(* ConfigItemWithOverride: an override before the local value *)

Item == [override : RuleSets \cup {None}, config_id : Ids \cup {None}]

value(i) == IF i.override # None THEN i.override ELSE LocalRules

source(i) == IF i.override # None THEN "RemoteConfig" ELSE "Local"

get_configuration(i) ==
  [value |-> value(i), origin |-> source(i), config_id |-> i.config_id]

Configuration ==
  [value : RuleSets \cup {LocalRules}, origin : {"RemoteConfig", "Local"},
   config_id : Ids \cup {None}]

NoConfiguration ==
  [value |-> LocalRules, origin |-> "Local", config_id |-> None]

-----------------------------------------------------------------------------
(* Telemetry: the cell is set once, after send_start *)

\* unset, off (the worker could not be built), the reads of send_start
\* (config_id, value, origin: the next one), started, set
TelemetryStages == {"unset", "off", "config_id", "value", "origin", "started", "set"}

Telemetry == [cell : TelemetryStages, read : Configuration, told : Configuration]

init_telemetry ==
  /\ telemetry.cell = "unset"
  /\ \E cell \in {"config_id", "off"} : telemetry' = [telemetry EXCEPT !.cell = cell]
  /\ UNCHANGED <<client, worker, cancelled, item, sampler, polls, missed>>

\* get_configuration of send_start, one load at a time.
send_start ==
  /\ \/ /\ telemetry.cell = "config_id"
        /\ telemetry' = [telemetry EXCEPT !.cell = "value", !.read.config_id = item.config_id]
     \/ /\ telemetry.cell = "value"
        /\ telemetry' = [telemetry EXCEPT !.cell = "origin", !.read.value = value(item)]
     \/ /\ telemetry.cell = "origin"
        /\ telemetry' = [telemetry EXCEPT !.cell = "started",
                                          !.told = [telemetry.read EXCEPT !.origin = source(item)],
                                          !.read = NoConfiguration]
     \/ /\ telemetry.cell = "started"
        /\ telemetry' = [telemetry EXCEPT !.cell = "set"]
  /\ UNCHANGED <<client, worker, cancelled, item, sampler, polls, missed>>

-----------------------------------------------------------------------------
(* The poll: request and answer *)

Init ==
  /\ client = [targets_version |-> 0, backend_client_state |-> None,
               config_states |-> <<>>, has_error |-> FALSE, cached_target_files |-> <<>>]
  /\ worker = [stage |-> "start", response |-> NoResponse, next |-> 1, new_cache |-> <<>>,
               any_failure |-> FALSE, config_states_cleared |-> FALSE, requested_cache |-> <<>>]
  /\ cancelled = FALSE
  /\ item = [override |-> None, config_id |-> None]
  /\ sampler = LocalRules
  /\ telemetry = [cell |-> "unset", read |-> NoConfiguration, told |-> NoConfiguration]
  /\ polls = 0
  /\ missed = FALSE

Goto(stage) == worker' = [worker EXCEPT !.stage = stage]

\* The runtime is built, or it is not and the thread returns.
StartsRuntime ==
  /\ worker.stage = "start"
  /\ \E stage \in {"sleeping", "ended"} : Goto(stage)
  /\ UNCHANGED <<client, cancelled, item, sampler, telemetry, polls, missed>>

\* The interval is over: fetch_and_apply_config builds the next request.
build_request ==
  /\ worker.stage = "sleeping"
  /\ polls < MaxPolls
  /\ polls' = polls + 1
  /\ worker' = [stage |-> "connecting", response |-> NoResponse, next |-> 1,
                new_cache |-> <<>>, any_failure |-> FALSE, config_states_cleared |-> FALSE,
                requested_cache |-> client.cached_target_files]
  /\ UNCHANGED <<client, cancelled, item, sampler, telemetry, missed>>

Connected ==
  /\ worker.stage = "connecting"
  /\ Goto("waiting")
  /\ UNCHANGED <<client, cancelled, item, sampler, telemetry, polls, missed>>

\* The connect timeout, the only one there is.
ConnectFails ==
  /\ worker.stage = "connecting"
  /\ Goto("failed")
  /\ UNCHANGED <<client, cancelled, item, sampler, telemetry, polls, missed>>

\* An error status, a broken body or a body that is not a ConfigResponse.
BadAnswer ==
  /\ worker.stage = "waiting"
  /\ Goto("failed")
  /\ UNCHANGED <<client, cancelled, item, sampler, telemetry, polls, missed>>

HasTargets(r) == r.targets \in {"plain", "with_state"}

\* Mutant: files that are listed nowhere are taken.
AnyFile(r) == TRUE

validate_signed_target_files(r) ==
  \A k \in DOMAIN r.files :
    \/ HasTargets(r) /\ r.files[k].listed = "signed"
    \/ r.files[k].listed = "client"

\* process_response up to its loop over the files: the targets' version and
\* backend state are stored before the files are validated.
Answer(r) ==
  /\ worker.stage = "waiting"
  /\ client' = IF HasTargets(r)
               THEN [client EXCEPT !.targets_version = polls,
                                   !.backend_client_state = IF r.targets = "with_state"
                                                            THEN polls ELSE @]
               ELSE client
  /\ worker' = [worker EXCEPT
                  !.response = r,
                  !.stage = CASE r.targets = "undecodable" -> "failed"
                              [] r.targets # "undecodable" /\ ~validate_signed_target_files(r) -> "failed"
                              [] OTHER -> IF r.present THEN "files" ELSE "succeeded"]
  /\ UNCHANGED <<cancelled, item, sampler, telemetry, polls, missed>>

FileSeqs == UNION {[1..n -> Files] : n \in 0..MaxFiles}

\* target_files may be absent, whatever the response says of the targets.
Responses ==
  {NoResponse} \cup [targets : TargetsKinds, files : FileSeqs, present : {TRUE}]
               \cup [targets : TargetsKinds, files : {<<>>}, present : {FALSE}]

-----------------------------------------------------------------------------
(* The loop over target_files *)

InFiles == worker.stage = "files" /\ worker.next <= Len(worker.response.files)

file == worker.response.files[worker.next]

\* No handler for the product, or no product in the path: the file is skipped.
SkipFile ==
  /\ InFiles
  /\ file.product # "APM_TRACING"
  /\ worker' = [worker EXCEPT !.next = @ + 1]
  /\ UNCHANGED <<client, cancelled, item, sampler, telemetry, polls, missed>>

\* The raw content cannot be decoded: the rest of the response is given up.
UndecodableFile ==
  /\ InFiles
  /\ file.product = "APM_TRACING"
  /\ file.content = "undecodable"
  /\ Goto("failed")
  /\ UNCHANGED <<client, cancelled, item, sampler, telemetry, polls, missed>>

\* ApmTracingHandler::process_config: rules, an empty list or null update the
\* item; no rules, and rules the configuration cannot parse, change nothing
\* and are answered with Ok all the same.
process_config ==
  /\ InFiles
  /\ file.product = "APM_TRACING"
  /\ file.content # "undecodable"
  /\ Goto(IF file.content \in RuleSets \cup {"empty", "null"} THEN "override" ELSE "applied")
  /\ UNCHANGED <<client, cancelled, item, sampler, telemetry, polls, missed>>

NewOverride == IF file.content \in RuleSets THEN file.content ELSE None

\* set_override_value or unset_override_value
set_override_value ==
  /\ worker.stage = "override"
  /\ item' = [item EXCEPT !.override = NewOverride]
  /\ Goto("config_id")
  /\ UNCHANGED <<client, cancelled, sampler, telemetry, polls, missed>>

set_config_id ==
  /\ worker.stage = "config_id"
  /\ item' = [item EXCEPT !.config_id = file.config]
  /\ Goto("callback")
  /\ UNCHANGED <<client, cancelled, sampler, telemetry, polls, missed>>

\* Mutant: a clear does not notify the callback.
NotifyRulesOnly ==
  /\ worker.stage = "callback"
  /\ sampler' = IF item.override # None THEN value(item) ELSE sampler
  /\ Goto("notify")
  /\ UNCHANGED <<client, cancelled, item, telemetry, polls, missed>>

\* RemoteConfigCallbacks::notify_update with the rules now in force
notify_update ==
  /\ worker.stage = "callback"
  /\ sampler' = value(item)
  /\ Goto("notify")
  /\ UNCHANGED <<client, cancelled, item, telemetry, polls, missed>>

\* Mutant: telemetry is told only of rules.
NotifyOverrides ==
  /\ worker.stage = "notify"
  /\ telemetry' = IF telemetry.cell = "set" /\ item.override # None
                  THEN [telemetry EXCEPT !.told = get_configuration(item)]
                  ELSE telemetry
  /\ missed' = (telemetry.cell \in {"config_id", "value", "origin", "started"})
  /\ Goto("applied")
  /\ UNCHANGED <<client, cancelled, item, sampler, polls>>

\* Nothing is sent while the cell is not set.
notify_configuration_update ==
  /\ worker.stage = "notify"
  /\ telemetry' = IF telemetry.cell = "set"
                  THEN [telemetry EXCEPT !.told = get_configuration(item)]
                  ELSE telemetry
  /\ missed' = (telemetry.cell \in {"config_id", "value", "origin", "started"})
  /\ Goto("applied")
  /\ UNCHANGED <<client, cancelled, item, sampler, polls>>

\* custom.v of the signed target, 1 when the path is not among them
config_version ==
  IF HasTargets(worker.response) /\ file.listed = "signed" THEN polls ELSE 1

Outcome(f) == IF f.content = "malformed" THEN 3 ELSE 2

\* Mutant: the states of earlier responses stay.
RecordAppended ==
  /\ worker.stage = "applied"
  /\ client' = [client EXCEPT
                  !.config_states = Append(@, [id |-> file.id, version |-> config_version,
                                               apply_state |-> Outcome(file)])]
  /\ worker' = [worker EXCEPT
                  !.stage = "files", !.next = @ + 1, !.config_states_cleared = TRUE,
                  !.any_failure = @ \/ Outcome(file) = 3,
                  !.new_cache = IF Outcome(file) = 2
                                THEN Append(@, [id |-> file.id, content |-> file.content])
                                ELSE @]
  /\ UNCHANGED <<cancelled, item, sampler, telemetry, polls, missed>>

\* The states of the earlier response are dropped with the first state of
\* this one; only applied files go to the new cache.
record_config_state ==
  /\ worker.stage = "applied"
  /\ client' = [client EXCEPT
                  !.config_states = Append(IF worker.config_states_cleared THEN @ ELSE <<>>,
                                           [id |-> file.id, version |-> config_version,
                                            apply_state |-> Outcome(file)])]
  /\ worker' = [worker EXCEPT
                  !.stage = "files", !.next = @ + 1, !.config_states_cleared = TRUE,
                  !.any_failure = @ \/ Outcome(file) = 3,
                  !.new_cache = IF Outcome(file) = 2
                                THEN Append(@, [id |-> file.id, content |-> file.content])
                                ELSE @]
  /\ UNCHANGED <<cancelled, item, sampler, telemetry, polls, missed>>

\* Mutant: the cache is replaced whatever failed.
CacheReplaced ==
  /\ worker.stage = "files"
  /\ worker.next > Len(worker.response.files)
  /\ client' = [client EXCEPT !.cached_target_files = worker.new_cache]
  /\ Goto("succeeded")
  /\ UNCHANGED <<cancelled, item, sampler, telemetry, polls, missed>>

FinishFiles ==
  /\ worker.stage = "files"
  /\ worker.next > Len(worker.response.files)
  /\ client' = [client EXCEPT !.cached_target_files =
                  IF worker.any_failure THEN @ ELSE worker.new_cache]
  /\ Goto("succeeded")
  /\ UNCHANGED <<cancelled, item, sampler, telemetry, polls, missed>>

\* Mutant: an error is not recorded in the state.
ErrorForgotten ==
  /\ worker.stage \in {"succeeded", "failed"}
  /\ client' = [client EXCEPT !.has_error = FALSE]
  /\ Goto("sleeping")
  /\ UNCHANGED <<cancelled, item, sampler, telemetry, polls, missed>>

\* The run loop records whether the poll failed.
RecordPoll ==
  /\ worker.stage \in {"succeeded", "failed"}
  /\ client' = [client EXCEPT !.has_error = (worker.stage = "failed")]
  /\ Goto("sleeping")
  /\ UNCHANGED <<cancelled, item, sampler, telemetry, polls, missed>>

-----------------------------------------------------------------------------
(* Shutdown: the select drops the run loop at an await *)

\* RemoteConfigClientHandle::trigger_shutdown, or the drop of the handle
trigger_shutdown ==
  /\ ~cancelled
  /\ cancelled' = TRUE
  /\ UNCHANGED <<client, worker, item, sampler, telemetry, polls, missed>>

\* Mutant: the worker can be dropped in the middle of an update.
AbortAnywhere ==
  /\ cancelled
  /\ worker.stage # "ended"
  /\ Goto("ended")
  /\ UNCHANGED <<client, cancelled, item, sampler, telemetry, polls, missed>>

\* Mutant: the token is looked at between two polls only.
CancelledAsleep ==
  /\ cancelled
  /\ worker.stage = "sleeping"
  /\ Goto("ended")
  /\ UNCHANGED <<client, cancelled, item, sampler, telemetry, polls, missed>>

DropsRunLoop ==
  /\ cancelled
  /\ worker.stage \in Awaits
  /\ Goto("ended")
  /\ UNCHANGED <<client, cancelled, item, sampler, telemetry, polls, missed>>

\* What the worker does between two awaits.
Synchronous ==
  \/ StartsRuntime
  \/ SkipFile
  \/ UndecodableFile
  \/ process_config
  \/ set_override_value
  \/ set_config_id
  \/ notify_update
  \/ notify_configuration_update
  \/ record_config_state
  \/ FinishFiles
  \/ RecordPoll

Next ==
  \/ Synchronous
  \/ build_request
  \/ Connected
  \/ ConnectFails
  \/ BadAnswer
  \/ \E r \in Responses : Answer(r)
  \/ DropsRunLoop
  \/ trigger_shutdown
  \/ init_telemetry
  \/ send_start

Spec == Init /\ [][Next]_vars

\* The worker thread runs, its timer and its connect timeout fire; a cancelled
\* token is seen by the select whenever the task is polled, that is at each
\* await it comes to.  Nothing says the agent answers.
FairSpec ==
  /\ Spec
  /\ WF_vars(Synchronous)
  /\ WF_vars(build_request)
  /\ WF_vars(Connected \/ ConnectFails)
  /\ SF_vars(DropsRunLoop)

-----------------------------------------------------------------------------
(* Properties *)

\* Every record has its type, and the loop stays within its response.
TypeOK ==
  /\ client \in Client
  /\ worker \in Worker
  /\ worker.stage \in Updating \cup {"applied"} => worker.next \in DOMAIN worker.response.files
  /\ cancelled \in BOOLEAN
  /\ item \in Item
  /\ sampler \in RuleSets \cup {LocalRules}
  /\ telemetry \in Telemetry
  /\ polls \in 0..MaxPolls
  /\ missed \in BOOLEAN

\* Outside of an update the sampler works with the rules the configuration
\* has in force, whatever files were applied, rejected or cleared before, and
\* also after a shutdown has dropped the worker (configuration.rs 1198-1246).
SamplerFollowsConfig == Idle => sampler = value(item)

\* Once telemetry has started it is told of every change of the rules, except
\* of one that was notified while it was starting (telemetry.rs 184-207,
\* 291-310): nobody is told of that one until the next change.
TelemetryFollowsConfig ==
  telemetry.cell = "set" /\ worker.stage \notin Updating /\ ~missed
    => telemetry.told = get_configuration(item)

\* The files the client handled of those it has been at, and the place of one
\* of them among the others
HandledOf(files, n) == {k \in 1..n : files[k].product = "APM_TRACING"}
Handled == HandledOf(worker.response.files, worker.next - 1)
Place(handled, k) == Cardinality({j \in handled : j <= k})

\* The states are those of the handled files, each at its place.
StatesOf(states, handled, files, versions) ==
  /\ Len(states) = Cardinality(handled)
  /\ \A k \in handled :
       LET s == states[Place(handled, k)]
       IN /\ s.id = files[k].id
          /\ s.apply_state = Outcome(files[k])
          /\ s.version \in versions

\* So are the files of a cache.
CacheOf(cache, handled, files) ==
  /\ Len(cache) = Cardinality(handled)
  /\ \A k \in handled :
       cache[Place(handled, k)] = [id |-> files[k].id, content |-> files[k].content]

\* The states the next request reports are those of the files the response
\* was processed up to, in their order, with the version of their own target
\* and error for exactly the files that could not be parsed; states of an
\* earlier response are kept only when this one had no file to report
\* (remote_config.rs 671-726, test_config_states_cleared_between_processing_cycles).
StatesDescribeResponse ==
  worker.stage = "sleeping" /\ Handled # {} =>
    StatesOf(client.config_states, Handled, worker.response.files, {1, client.targets_version})

PollFailed == client.has_error \/ worker.any_failure

\* After a poll with an error the cache is what the agent was told when it was
\* asked; after one without, exactly the files it applied
\* (remote_config.rs 732-736).
CacheDescribesResponse ==
  worker.stage = "sleeping" /\ worker.response.present =>
    IF PollFailed THEN client.cached_target_files = worker.requested_cache
                  ELSE CacheOf(client.cached_target_files, Handled, worker.response.files)

\* Rules come into force only from a file its response lists
\* (remote_config.rs 743-769).
OnlyListedFilesApplied ==
  worker.stage \in Updating =>
    file.listed = "client" \/ (file.listed = "signed" /\ HasTargets(worker.response))

\* A response of which a file was given up, or refused as a whole after its
\* version was stored, is not reported as a success by the next request
\* (remote_config.rs 604, 656).
FailureReported ==
  worker.stage = "sleeping" /\ worker.response.present
    /\ (worker.next <= Len(worker.response.files)
          \/ \E k \in Handled : worker.response.files[k].content = "malformed")
    => client.has_error \/ \E k \in DOMAIN client.config_states :
                             client.config_states[k].apply_state = 3

\* What is recorded of a response, and reported by the next request, is what
\* the client did with it.
ResponseRecorded ==
  /\ StatesDescribeResponse
  /\ CacheDescribesResponse
  /\ OnlyListedFilesApplied
  /\ FailureReported

\* A cancelled worker ends, also one that waits for an answer that never comes
\* (remote_config.rs 390-396).
CancelEnds == cancelled ~> worker.stage = "ended"

=============================================================================
