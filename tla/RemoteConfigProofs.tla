-------------------------- MODULE RemoteConfigProofs --------------------------
(***************************************************************************)
(* Theorems about RemoteConfig, for every set of files, rules and          *)
(* metadata, responses of any length and any number of polls; and about    *)
(* ExtraServices, for every set of names, every number of exporting        *)
(* threads and every limit.                                                *)
(***************************************************************************)
EXTENDS RemoteConfig, ExtraServices, FiniteSetTheorems, TLAPS

-----------------------------------------------------------------------------
(* Type correctness *)

\* Lengths of a response are those of its files.
LEMMA ResponsesTyped == ASSUME NEW r \in Responses PROVE r \in Response
<1>1. CASE r = NoResponse
  BY <1>1 DEF NoResponse, Response, AllTargets
<1>2. CASE r \in [targets : TargetsKinds, files : FileSeqs, present : {TRUE}]
  <2>1. r.files \in Seq(Files)
    <3>1. PICK n \in 0..MaxFiles : r.files \in [1..n -> Files]
      BY <1>2 DEF FileSeqs
    <3> QED
      BY <3>1
  <2> QED
    BY <1>2, <2>1, RemoteConfigAssumption DEF Response
<1>3. CASE r \in [targets : TargetsKinds, files : {<<>>}, present : {FALSE}]
  <2>1. <<>> \in Seq(Files)
    OBVIOUS
  <2> QED
    BY <1>3, <2>1, RemoteConfigAssumption DEF Response
<1> QED
  BY <1>1, <1>2, <1>3 DEF Responses

\* A worker at another stage stays well typed, and in the same response.
LEMMA GotoTyped ==
  ASSUME worker \in Worker, NEW s \in Stages, Goto(s)
  PROVE  /\ worker' \in Worker
         /\ worker'.stage = s
         /\ worker'.response = worker.response /\ worker'.next = worker.next
BY DEF Worker, Goto

\* The file the worker is at is one of the agent's.
LEMMA FileTyped ==
  ASSUME worker \in Worker, worker.next \in DOMAIN worker.response.files
  PROVE  file \in Files /\ file \in File
<1>1. worker.response.files \in Seq(Files)
  BY DEF Worker, Response
<1> QED
  BY <1>1, RemoteConfigAssumption DEF file

WithinResponse ==
  worker.stage \in Updating \cup {"applied"} => worker.next \in DOMAIN worker.response.files

\* A worker that goes from file to file stays within the response.
LEMMA InFilesWithin == ASSUME worker \in Worker, InFiles PROVE worker.next \in DOMAIN worker.response.files
<1>1. worker.response.files \in Seq(Files) /\ worker.next \in Nat \ {0}
  BY DEF Worker, Response
<1>2. worker.next <= Len(worker.response.files)
  BY DEF InFiles
<1> QED
  BY <1>1, <1>2

LEMMA ConfigurationTyped ==
  ASSUME item \in Item
  PROVE  /\ value(item) \in RuleSets \cup {LocalRules}
         /\ source(item) \in {"RemoteConfig", "Local"}
         /\ item.config_id \in Ids \cup {None}
         /\ get_configuration(item) \in Configuration
BY DEF Item, value, source, get_configuration, Configuration

LEMMA TypedInitially == Init => TypeOK
<1> SUFFICES ASSUME Init PROVE TypeOK
  OBVIOUS
<1>1. client \in Client
  BY DEF Init, Client
<1>2. worker \in Worker
  BY DEF Init, Worker, Stages, Response, NoResponse, AllTargets
<1>3. telemetry \in Telemetry
  BY DEF Init, Telemetry, TelemetryStages, NoConfiguration, Configuration
<1>4. item \in Item
  BY DEF Init, Item
<1>5. polls \in 0..MaxPolls
  BY RemoteConfigAssumption DEF Init
<1>6. worker.stage \notin Updating \cup {"applied"}
  BY DEF Init, Updating
<1> QED
  BY <1>1, <1>2, <1>3, <1>4, <1>5, <1>6 DEF Init, TypeOK

\* Steps of the worker that change its stage only, or the item or the sampler
LEMMA GotoKeepsTypes ==
  ASSUME TypeOK, NEW s \in Stages, Goto(s), s \in Updating \cup {"applied"} => WithinResponse',
         UNCHANGED <<client, cancelled, polls>>,
         item' \in Item, sampler' \in RuleSets \cup {LocalRules}, telemetry' \in Telemetry,
         missed' \in BOOLEAN
  PROVE  TypeOK'
BY GotoTyped DEF TypeOK, WithinResponse

LEMMA TypedStep == TypeOK /\ [Next]_vars => TypeOK'
<1> SUFFICES ASSUME TypeOK, [Next]_vars PROVE TypeOK'
  OBVIOUS
<1>a. /\ client \in Client /\ worker \in Worker /\ cancelled \in BOOLEAN /\ item \in Item
      /\ sampler \in RuleSets \cup {LocalRules} /\ telemetry \in Telemetry
      /\ polls \in 0..MaxPolls /\ missed \in BOOLEAN /\ WithinResponse
  BY DEF TypeOK, WithinResponse
<1>b. worker.next \in Nat \ {0} /\ worker.response \in Response /\ worker.response.files \in Seq(Files)
  BY <1>a DEF Worker, Response
<1>1. CASE StartsRuntime
  <2>1. PICK s \in {"sleeping", "ended"} : Goto(s)
    BY <1>1 DEF StartsRuntime
  <2> QED
    BY <1>1, <1>a, <2>1, GotoKeepsTypes DEF StartsRuntime, Stages, Updating, Awaits
<1>2. CASE build_request
  <2>1. worker' \in Worker
    BY <1>2, <1>a DEF build_request, Worker, Stages, Awaits, Response, NoResponse, AllTargets, Client
  <2>2. polls' \in 0..MaxPolls
    BY <1>2, <1>a, RemoteConfigAssumption DEF build_request
  <2>3. WithinResponse'
    BY <1>2 DEF build_request, WithinResponse, Updating
  <2> QED
    BY <1>2, <1>a, <2>1, <2>2, <2>3 DEF build_request, TypeOK, WithinResponse
<1>3. CASE Connected \/ ConnectFails \/ BadAnswer \/ UndecodableFile
  <2>1. PICK s \in {"waiting", "failed"} : Goto(s)
    BY <1>3 DEF Connected, ConnectFails, BadAnswer, UndecodableFile
  <2> QED
    BY <1>3, <1>a, <2>1, GotoKeepsTypes
       DEF Connected, ConnectFails, BadAnswer, UndecodableFile, Stages, Updating, Awaits
<1>4. ASSUME NEW r \in Responses, Answer(r) PROVE TypeOK'
  <2>1. PICK s \in {"failed", "files", "succeeded"} : worker' = [worker EXCEPT !.response = r, !.stage = s]
    BY <1>4, Zenon DEF Answer
  <2>2. r \in Response
    BY ResponsesTyped
  <2>3. worker' \in Worker /\ worker'.stage = s
    BY <1>a, <2>1, <2>2 DEF Worker, Stages
  <2>4. client' \in Client
    <3>1. polls \in Nat
      BY <1>a, RemoteConfigAssumption
    <3>2. CASE client' = client
      BY <1>a, <3>2
    <3>3. ASSUME NEW state \in Nat \cup {None},
                 client' = [client EXCEPT !.targets_version = polls, !.backend_client_state = state]
          PROVE  client' \in Client
      BY <1>a, <3>1, <3>3 DEF Client
    <3>4. client.backend_client_state \in Nat \cup {None}
      BY <1>a DEF Client
    <3>5. CASE HasTargets(r)
      BY <1>4, <3>1, <3>3, <3>4, <3>5, Zenon DEF Answer
    <3> QED
      BY <1>4, <3>2, <3>5 DEF Answer
  <2> QED
    BY <1>4, <1>a, <2>3, <2>4 DEF Answer, TypeOK, Updating
<1>5. CASE SkipFile
  <2>1. worker' \in Worker /\ worker'.stage = "files"
    BY <1>5, <1>a, <1>b DEF SkipFile, InFiles, Worker
  <2> QED
    BY <1>5, <1>a, <2>1 DEF SkipFile, TypeOK, Updating
<1>6. CASE process_config
  <2>1. PICK s \in {"override", "applied"} : Goto(s)
    BY <1>6 DEF process_config
  <2>2. worker.next \in DOMAIN worker.response.files
    BY <1>6, <1>a, InFilesWithin DEF process_config
  <2>3. s \in Stages
    BY DEF Stages, Updating
  <2>4. WithinResponse'
    BY <1>a, <2>1, <2>2, <2>3, GotoTyped DEF WithinResponse
  <2> QED
    BY <1>6, <1>a, <2>1, <2>3, <2>4, GotoKeepsTypes DEF process_config
<1>7. ASSUME NEW s \in {"config_id", "callback", "notify", "applied"}, Goto(s),
             worker.stage \in Updating,
             UNCHANGED <<client, cancelled, polls>>,
             item' \in Item, sampler' \in RuleSets \cup {LocalRules}, telemetry' \in Telemetry,
             missed' \in BOOLEAN
      PROVE  TypeOK'
  <2>1. s \in Stages
    BY DEF Stages, Updating
  <2>2. WithinResponse'
    BY <1>a, <1>7, <2>1, GotoTyped DEF WithinResponse
  <2> QED
    BY <1>7, <2>1, <2>2, GotoKeepsTypes
<1>8. CASE set_override_value
  <2>1. item' \in Item
    BY <1>8, <1>a DEF set_override_value, NewOverride, Item
  <2> QED
    BY <1>8, <1>a, <1>7, <2>1 DEF set_override_value, Updating
<1>9. CASE set_config_id
  <2>1. worker.next \in DOMAIN worker.response.files
    BY <1>9, <1>a DEF set_config_id, WithinResponse, Updating
  <2>2. file.config \in Ids
    BY <1>a, <2>1, FileTyped DEF File
  <2>3. item' \in Item
    BY <1>9, <1>a, <2>2 DEF set_config_id, Item
  <2> QED
    BY <1>9, <1>a, <1>7, <2>3 DEF set_config_id, Updating
<1>10. CASE notify_update
  BY <1>10, <1>a, <1>7, ConfigurationTyped DEF notify_update, Updating
<1>11. CASE notify_configuration_update
  <2>1. telemetry' \in Telemetry
    BY <1>11, <1>a, ConfigurationTyped DEF notify_configuration_update, Telemetry
  <2>2. missed' \in BOOLEAN
    BY <1>11 DEF notify_configuration_update
  <2> QED
    BY <1>11, <1>a, <1>7, <2>1, <2>2 DEF notify_configuration_update, Updating
<1>12. CASE record_config_state
  <2>1. worker.next \in DOMAIN worker.response.files
    BY <1>12, <1>a DEF record_config_state, WithinResponse, Updating
  <2>2. file.id \in Ids /\ file.content \in Contents
    BY <1>a, <2>1, FileTyped DEF File
  <2>3. config_version \in Nat /\ Outcome(file) \in {2, 3}
    BY <1>a, RemoteConfigAssumption DEF config_version, Outcome
  <2>4. /\ [id |-> file.id, version |-> config_version, apply_state |-> Outcome(file)] \in ConfigState
        /\ [id |-> file.id, content |-> file.content] \in CachedFile
    BY <2>2, <2>3 DEF ConfigState, CachedFile
  <2>5. client' \in Client
    <3>1. PICK before \in {<<>>, client.config_states} :
            client' = [client EXCEPT !.config_states =
                         Append(before, [id |-> file.id, version |-> config_version,
                                         apply_state |-> Outcome(file)])]
      BY <1>12 DEF record_config_state
    <3>2. before \in Seq(ConfigState)
      <4>1. client.config_states \in Seq(ConfigState)
        BY <1>a DEF Client
      <4>2. <<>> \in Seq(ConfigState)
        OBVIOUS
      <4> QED
        BY <4>1, <4>2
    <3>3. Append(before, [id |-> file.id, version |-> config_version, apply_state |-> Outcome(file)])
            \in Seq(ConfigState)
      BY <2>4, <3>2
    <3> QED
      BY <1>a, <3>1, <3>3 DEF Client
  <2>6. worker' \in Worker /\ worker'.stage = "files"
    <3>1. PICK cache \in {worker.new_cache,
                          Append(worker.new_cache, [id |-> file.id, content |-> file.content])} :
            worker' = [worker EXCEPT
                         !.stage = "files", !.next = @ + 1, !.config_states_cleared = TRUE,
                         !.any_failure = @ \/ Outcome(file) = 3, !.new_cache = cache]
      BY <1>12 DEF record_config_state
    <3>2. worker.new_cache \in Seq(CachedFile) /\ worker.any_failure \in BOOLEAN
      BY <1>a DEF Worker
    <3>3. cache \in Seq(CachedFile)
      BY <2>4, <3>1, <3>2
    <3>4. (worker.any_failure \/ Outcome(file) = 3) \in BOOLEAN
      OBVIOUS
    <3>5. worker.next + 1 \in Nat \ {0} /\ "files" \in Stages
      BY <1>b DEF Stages
    <3> QED
      BY <1>a, <3>1, <3>3, <3>4, <3>5 DEF Worker
  <2> QED
    BY <1>12, <1>a, <2>5, <2>6 DEF record_config_state, TypeOK, Updating
<1>13. CASE FinishFiles
  <2>1. client' \in Client
    BY <1>13, <1>a DEF FinishFiles, Client, Worker
  <2>2. worker' \in Worker /\ worker'.stage = "succeeded"
    BY <1>13, <1>a, GotoTyped DEF FinishFiles, Stages
  <2> QED
    BY <1>13, <1>a, <2>1, <2>2 DEF FinishFiles, TypeOK, Updating
<1>14. CASE RecordPoll
  <2>1. client' \in Client
    BY <1>14, <1>a DEF RecordPoll, Client
  <2>2. worker' \in Worker /\ worker'.stage = "sleeping"
    BY <1>14, <1>a, GotoTyped DEF RecordPoll, Stages, Awaits
  <2> QED
    BY <1>14, <1>a, <2>1, <2>2 DEF RecordPoll, TypeOK, Updating
<1>15. CASE DropsRunLoop
  <2>1. worker' \in Worker /\ worker'.stage = "ended"
    BY <1>15, <1>a, GotoTyped DEF DropsRunLoop, Stages
  <2> QED
    BY <1>15, <1>a, <2>1 DEF DropsRunLoop, TypeOK, Updating
<1>16. CASE trigger_shutdown
  BY <1>16, <1>a DEF trigger_shutdown, TypeOK, WithinResponse
<1>17. CASE init_telemetry
  <2>1. telemetry' \in Telemetry
    BY <1>17, <1>a DEF init_telemetry, Telemetry, TelemetryStages
  <2> QED
    BY <1>17, <1>a, <2>1 DEF init_telemetry, TypeOK, WithinResponse
<1>18. CASE send_start
  <2>1. telemetry.read \in Configuration
    BY <1>a DEF Telemetry
  <2>2. /\ [telemetry.read EXCEPT !.config_id = item.config_id] \in Configuration
        /\ [telemetry.read EXCEPT !.value = value(item)] \in Configuration
        /\ [telemetry.read EXCEPT !.origin = source(item)] \in Configuration
        /\ NoConfiguration \in Configuration
    BY <1>a, <2>1, ConfigurationTyped DEF Configuration, NoConfiguration
  <2>3. telemetry' \in Telemetry
    <3>1. CASE telemetry' = [telemetry EXCEPT !.cell = "value",
                                              !.read = [telemetry.read EXCEPT !.config_id = item.config_id]]
      BY <1>a, <2>2, <3>1 DEF Telemetry, TelemetryStages
    <3>2. CASE telemetry' = [telemetry EXCEPT !.cell = "origin",
                                              !.read = [telemetry.read EXCEPT !.value = value(item)]]
      BY <1>a, <2>2, <3>2 DEF Telemetry, TelemetryStages
    <3>3. CASE telemetry' = [telemetry EXCEPT !.cell = "started",
                                              !.told = [telemetry.read EXCEPT !.origin = source(item)],
                                              !.read = NoConfiguration]
      BY <1>a, <2>2, <3>3 DEF Telemetry, TelemetryStages
    <3>4. CASE telemetry' = [telemetry EXCEPT !.cell = "set"]
      BY <1>a, <3>4 DEF Telemetry, TelemetryStages
    <3> QED
      BY <1>18, <3>1, <3>2, <3>3, <3>4 DEF send_start
  <2> QED
    BY <1>18, <1>a, <2>3 DEF send_start, TypeOK, WithinResponse
<1>19. CASE UNCHANGED vars
  BY <1>19, <1>a DEF vars, TypeOK, WithinResponse
<1> QED
  BY <1>1, <1>2, <1>3, <1>4, <1>5, <1>6, <1>8, <1>9, <1>10, <1>11, <1>12, <1>13, <1>14, <1>15,
     <1>16, <1>17, <1>18, <1>19 DEF Next, Synchronous

\* The client, the worker and its place in the response, the item, the sampler
\* and telemetry are always well typed.
THEOREM TypeCorrect == Spec => []TypeOK
BY TypedInitially, TypedStep, PTL DEF Spec

-----------------------------------------------------------------------------
(* The sampler, telemetry and the configuration *)

\* The sampler lags behind between the write of the item and the callback only.
SamplerInv == worker.stage \notin {"config_id", "callback"} => sampler = value(item)

\* Whatever send_start has read outside of an update is what the item still
\* holds, unless an update was notified meanwhile.
TelemetryInv ==
  worker.stage \notin Updating /\ ~missed =>
    /\ telemetry.cell \in {"value", "origin"} => telemetry.read.config_id = item.config_id
    /\ telemetry.cell = "origin" => telemetry.read.value = value(item)
    /\ telemetry.cell \in {"started", "set"} => telemetry.told = get_configuration(item)

\* A response whose files are looked at has been validated.
ListedInv ==
  worker.stage \in Updating \cup {"files", "applied"} => validate_signed_target_files(worker.response)

Inv == SamplerInv /\ TelemetryInv /\ ListedInv

LEMMA InvInitially == Init => Inv
BY DEF Init, Inv, SamplerInv, TelemetryInv, ListedInv, value, Updating

\* Steps of the worker outside of an update leave the item alone.
LEMMA QuietStep ==
  ASSUME TypeOK, Inv, UNCHANGED <<item, sampler, telemetry, missed>>,
         \/ worker'.stage = worker.stage
         \/ worker.stage \notin Updating /\ worker'.stage \notin {"config_id", "callback", "notify"}
  PROVE  SamplerInv' /\ TelemetryInv'
<1>1. value(item)' = value(item) /\ get_configuration(item)' = get_configuration(item)
  BY DEF value, get_configuration, source
<1> QED
  BY <1>1 DEF Inv, SamplerInv, TelemetryInv, Updating


LEMMA ListedStep == TypeOK /\ ListedInv /\ [Next]_vars => ListedInv'
<1> SUFFICES ASSUME TypeOK, ListedInv, [Next]_vars PROVE ListedInv'
  OBVIOUS
<1>a. worker \in Worker
  BY DEF TypeOK
<1>1. CASE UNCHANGED worker
  BY <1>1 DEF ListedInv, validate_signed_target_files
<1>2. ASSUME worker.stage \in Updating \cup {"files", "applied"}, worker'.response = worker.response
      PROVE  ListedInv'
  BY <1>2 DEF ListedInv, validate_signed_target_files
<1>3. ASSUME worker'.stage \notin Updating \cup {"files", "applied"} PROVE ListedInv'
  BY <1>3 DEF ListedInv
<1>4. CASE StartsRuntime \/ build_request \/ Connected \/ ConnectFails \/ BadAnswer
           \/ UndecodableFile \/ RecordPoll \/ DropsRunLoop \/ FinishFiles
  BY <1>3, <1>4, <1>a DEF StartsRuntime, build_request, Connected, ConnectFails, BadAnswer,
     UndecodableFile, RecordPoll, DropsRunLoop, FinishFiles, Goto, Worker, Updating
<1>5. ASSUME NEW r \in Responses, Answer(r) PROVE ListedInv'
  <2>1. CASE validate_signed_target_files(r)
    <3>1. worker'.response = r
      BY <1>5, <1>a, Zenon DEF Answer, Worker
    <3> QED
      BY <2>1, <3>1 DEF ListedInv, validate_signed_target_files
  <2>2. CASE ~validate_signed_target_files(r)
    <3>1. worker' = [worker EXCEPT !.response = r, !.stage = "failed"]
      BY <1>5, <2>2, Zenon DEF Answer
    <3>2. worker'.stage = "failed"
      BY <1>a, <3>1 DEF Worker
    <3> QED
      BY <1>3, <3>2 DEF Updating
  <2> QED
    BY <2>1, <2>2
<1>6. CASE SkipFile \/ process_config
  BY <1>2, <1>6, <1>a DEF SkipFile, process_config, InFiles, Goto, Worker
<1>7. CASE set_override_value \/ set_config_id \/ notify_update \/ notify_configuration_update
  BY <1>2, <1>7, <1>a DEF set_override_value, set_config_id, notify_update,
     notify_configuration_update, Goto, Worker, Updating
<1>8. CASE record_config_state
  BY <1>2, <1>8, <1>a DEF record_config_state, Worker
<1>9. CASE trigger_shutdown \/ init_telemetry \/ send_start \/ UNCHANGED vars
  BY <1>1, <1>9 DEF trigger_shutdown, init_telemetry, send_start, vars
<1> QED
  BY <1>4, <1>5, <1>6, <1>7, <1>8, <1>9 DEF Next, Synchronous

LEMMA InvStep == TypeOK /\ Inv /\ [Next]_vars => Inv'
<1> SUFFICES ASSUME TypeOK, Inv, [Next]_vars PROVE SamplerInv' /\ TelemetryInv'
  BY ListedStep DEF Inv
<1>a. worker \in Worker /\ item \in Item /\ telemetry \in Telemetry
  BY DEF TypeOK
<1>1. CASE StartsRuntime \/ Connected \/ ConnectFails \/ BadAnswer \/ UndecodableFile
           \/ process_config \/ RecordPoll \/ DropsRunLoop \/ FinishFiles
  <2>1. UNCHANGED <<item, sampler, telemetry, missed>>
    BY <1>1 DEF StartsRuntime, Connected, ConnectFails, BadAnswer, UndecodableFile,
       process_config, RecordPoll, DropsRunLoop, FinishFiles
  <2>2. worker.stage \notin Updating /\ worker'.stage \notin {"config_id", "callback", "notify"}
    BY <1>1, <1>a DEF StartsRuntime, Connected, ConnectFails, BadAnswer, UndecodableFile,
       process_config, RecordPoll, DropsRunLoop, FinishFiles, InFiles, Goto, Worker, Updating, Awaits
  <2> QED
    BY <2>1, <2>2, QuietStep
<1>2. CASE build_request \/ SkipFile \/ record_config_state
  <2>1. UNCHANGED <<item, sampler, telemetry, missed>>
    BY <1>2 DEF build_request, SkipFile, record_config_state
  <2>2. worker.stage \notin Updating /\ worker'.stage \in {"connecting", "files"}
    <3>1. CASE build_request
      BY <3>1 DEF build_request, Updating
    <3>2. CASE SkipFile
      BY <3>2, <1>a DEF SkipFile, InFiles, Worker, Updating
    <3>3. CASE record_config_state
      BY <3>3, <1>a DEF record_config_state, Worker, Updating
    <3> QED
      BY <1>2, <3>1, <3>2, <3>3
  <2> QED
    BY <2>1, <2>2, QuietStep
<1>3. ASSUME NEW r \in Responses, Answer(r) PROVE SamplerInv' /\ TelemetryInv'
  <2>1. PICK s \in {"failed", "files", "succeeded"} : worker' = [worker EXCEPT !.response = r, !.stage = s]
    BY <1>3, Zenon DEF Answer
  <2>2. worker'.stage = s
    BY <1>a, <2>1 DEF Worker
  <2>3. UNCHANGED <<item, sampler, telemetry, missed>> /\ worker.stage = "waiting"
    BY <1>3 DEF Answer
  <2> QED
    BY <2>2, <2>3, QuietStep DEF Updating
<1>4. CASE set_override_value
  <2>1. worker'.stage = "config_id"
    BY <1>4, <1>a DEF set_override_value, Goto, Worker
  <2> QED
    BY <2>1 DEF SamplerInv, TelemetryInv, Updating
<1>5. CASE set_config_id
  <2>1. worker'.stage = "callback"
    BY <1>5, <1>a DEF set_config_id, Goto, Worker
  <2> QED
    BY <2>1 DEF SamplerInv, TelemetryInv, Updating
<1>6. CASE notify_update
  <2>1. worker'.stage = "notify"
    BY <1>6, <1>a DEF notify_update, Goto, Worker
  <2>2. sampler' = value(item)'
    BY <1>6 DEF notify_update, value
  <2> QED
    BY <2>1, <2>2 DEF SamplerInv, TelemetryInv, Updating
<1>7. CASE notify_configuration_update
  <2>1. worker'.stage = "applied" /\ worker.stage = "notify"
    BY <1>7, <1>a DEF notify_configuration_update, Goto, Worker
  <2>2. UNCHANGED <<item, sampler>>
    BY <1>7 DEF notify_configuration_update
  <2>3. SamplerInv'
    BY <2>1, <2>2 DEF Inv, SamplerInv, value
  <2>4. CASE telemetry.cell = "set"
    <3>1. telemetry'.told = get_configuration(item) /\ telemetry'.cell = "set"
      BY <1>7, <1>a, <2>4 DEF notify_configuration_update, Telemetry
    <3>2. telemetry'.told = get_configuration(item)'
      BY <2>2, <3>1 DEF get_configuration, value, source
    <3> QED
      BY <2>3, <3>1, <3>2 DEF TelemetryInv
  <2>5. CASE telemetry.cell # "set"
    <3>1. telemetry' = telemetry
      BY <1>7, <2>5 DEF notify_configuration_update
    <3>2. telemetry.cell \in {"config_id", "value", "origin", "started"} => missed'
      BY <1>7 DEF notify_configuration_update
    <3> QED
      BY <2>3, <2>5, <3>1, <3>2 DEF TelemetryInv
  <2> QED
    BY <2>4, <2>5
<1>8. CASE trigger_shutdown \/ UNCHANGED vars
  BY <1>8, QuietStep DEF trigger_shutdown, vars
<1>9. CASE init_telemetry
  <2>1. telemetry'.cell \in {"config_id", "off"}
    BY <1>9, <1>a DEF init_telemetry, Telemetry
  <2>2. UNCHANGED <<worker, item, sampler>>
    BY <1>9 DEF init_telemetry
  <2> QED
    BY <2>1, <2>2 DEF Inv, SamplerInv, TelemetryInv, value
<1>10. CASE send_start
  <2>1. UNCHANGED <<worker, item, sampler, missed>>
    BY <1>10 DEF send_start
  <2>2. value(item)' = value(item) /\ get_configuration(item)' = get_configuration(item)
    BY <2>1 DEF value, get_configuration, source
  <2>3. telemetry.read \in Configuration
    BY <1>a DEF Telemetry
  <2>4. SamplerInv'
    BY <2>1, <2>2 DEF Inv, SamplerInv
  <2>5. CASE /\ telemetry.cell = "config_id"
             /\ telemetry' = [telemetry EXCEPT !.cell = "value", !.read.config_id = item.config_id]
    <3>1. telemetry'.cell = "value" /\ telemetry'.read.config_id = item.config_id
      BY <1>a, <2>3, <2>5 DEF Telemetry, Configuration
    <3> QED
      BY <2>1, <2>4, <3>1 DEF TelemetryInv
  <2>6. CASE /\ telemetry.cell = "value"
             /\ telemetry' = [telemetry EXCEPT !.cell = "origin", !.read.value = value(item)]
    <3>1. /\ telemetry'.cell = "origin" /\ telemetry'.read.value = value(item)
          /\ telemetry'.read.config_id = telemetry.read.config_id
      BY <1>a, <2>3, <2>6 DEF Telemetry, Configuration
    <3> QED
      BY <2>1, <2>2, <2>4, <2>6, <3>1 DEF Inv, TelemetryInv
  <2>7. CASE /\ telemetry.cell = "origin"
             /\ telemetry' = [telemetry EXCEPT !.cell = "started",
                                               !.told = [telemetry.read EXCEPT !.origin = source(item)],
                                               !.read = NoConfiguration]
    <3>1. /\ telemetry'.cell = "started"
          /\ telemetry'.told = [telemetry.read EXCEPT !.origin = source(item)]
      BY <1>a, <2>7 DEF Telemetry
    <3>2. telemetry'.told = [value |-> telemetry.read.value, origin |-> source(item),
                             config_id |-> telemetry.read.config_id]
      BY <2>3, <3>1 DEF Configuration
    <3> QED
      BY <2>1, <2>2, <2>4, <2>7, <3>1, <3>2 DEF Inv, TelemetryInv, get_configuration
  <2>8. CASE telemetry.cell = "started" /\ telemetry' = [telemetry EXCEPT !.cell = "set"]
    <3>1. telemetry'.cell = "set" /\ telemetry'.told = telemetry.told
      BY <1>a, <2>8 DEF Telemetry
    <3> QED
      BY <2>1, <2>2, <2>4, <2>8, <3>1 DEF Inv, TelemetryInv
  <2> QED
    BY <1>10, <2>5, <2>6, <2>7, <2>8 DEF send_start
<1> QED
  BY <1>1, <1>2, <1>3, <1>4, <1>5, <1>6, <1>7, <1>8, <1>9, <1>10 DEF Next, Synchronous

LEMMA InvAlways == Spec => []Inv
<1>1. Init => TypeOK /\ Inv
  BY TypedInitially, InvInitially
<1>2. (TypeOK /\ Inv) /\ [Next]_vars => (TypeOK /\ Inv)'
  BY TypedStep, InvStep
<1> QED
  BY <1>1, <1>2, PTL DEF Spec

\* Outside of an update the sampler has the rules that are in force
\* (configuration.rs 1198-1246).
THEOREM SamplerIsUpToDate == Spec => []SamplerFollowsConfig
<1>1. Inv => SamplerFollowsConfig
  BY DEF Inv, SamplerInv, SamplerFollowsConfig, Idle, Updating
<1> QED
  BY <1>1, InvAlways, PTL

\* Telemetry is told of every change of the rules but one that was notified
\* while it was starting (telemetry.rs 184-207, 291-310).
THEOREM TelemetryIsUpToDate == Spec => []TelemetryFollowsConfig
<1>1. Inv => TelemetryFollowsConfig
  BY DEF Inv, TelemetryInv, TelemetryFollowsConfig
<1> QED
  BY <1>1, InvAlways, PTL

\* Rules come into force only from a file that its response lists
\* (remote_config.rs 743-769).
THEOREM OnlyListed == Spec => []OnlyListedFilesApplied
<1>1. TypeOK /\ Inv => OnlyListedFilesApplied
  BY DEF TypeOK, Inv, ListedInv, OnlyListedFilesApplied, validate_signed_target_files, file
<1> QED
  BY <1>1, TypeCorrect, InvAlways, PTL

-----------------------------------------------------------------------------
(* What is recorded of a response                                          *)
(*                                                                         *)
(* The properties speak of the time between two polls.  The invariant says *)
(* at each stage what the states, the new cache and the cache in force are *)
(* of the files handled so far, and that the loop changes the cache only   *)
(* when it has come to its end.                                            *)

\* One more handled file comes behind the others.
LEMMA PlaceLast ==
  ASSUME NEW n \in Nat, NEW H \in SUBSET (1..n)
  PROVE  /\ Cardinality(H) \in Nat
         /\ \A k \in H : Place(H, k) \in 1..Cardinality(H)
         /\ Cardinality(H \cup {n + 1}) = Cardinality(H) + 1
         /\ Place(H \cup {n + 1}, n + 1) = Cardinality(H) + 1
         /\ \A k \in H : Place(H \cup {n + 1}, k) = Place(H, k)
<1>1. IsFiniteSet(H) /\ Cardinality(H) \in Nat
  <2>1. IsFiniteSet(1..n) /\ H \subseteq 1..n
    BY FS_Interval
  <2> QED
    BY <2>1, FS_Subset, FS_CardinalityType
<1>2. ASSUME NEW k \in H PROVE Place(H, k) \in 1..Cardinality(H)
  <2>1. {j \in H : j <= k} \subseteq H /\ k \in {j \in H : j <= k}
    OBVIOUS
  <2>2. IsFiniteSet({j \in H : j <= k}) /\ Cardinality({j \in H : j <= k}) <= Cardinality(H)
    BY <1>1, <2>1, FS_Subset
  <2>3. Cardinality({j \in H : j <= k}) # 0 /\ Cardinality({j \in H : j <= k}) \in Nat
    BY <2>1, <2>2, FS_EmptySet, FS_CardinalityType
  <2> QED
    BY <1>1, <2>2, <2>3 DEF Place
<1>3. n + 1 \notin H /\ Cardinality(H \cup {n + 1}) = Cardinality(H) + 1
  BY <1>1, FS_AddElement
<1>4. {j \in H \cup {n + 1} : j <= n + 1} = H \cup {n + 1}
  <2>1. \A j \in H \cup {n + 1} : j <= n + 1
    OBVIOUS
  <2> QED
    BY <2>1
<1>5. ASSUME NEW k \in H PROVE {j \in H \cup {n + 1} : j <= k} = {j \in H : j <= k}
  OBVIOUS
<1> QED
  BY <1>1, <1>2, <1>3, <1>4, <1>5 DEF Place

LEMMA HandledGrows ==
  ASSUME NEW files, NEW n \in Nat
  PROVE  /\ HandledOf(files, 0) = {}
         /\ HandledOf(files, n) \in SUBSET (1..n)
         /\ files[n + 1].product = "APM_TRACING" =>
              HandledOf(files, n + 1) = HandledOf(files, n) \cup {n + 1}
         /\ files[n + 1].product # "APM_TRACING" => HandledOf(files, n + 1) = HandledOf(files, n)
<1>1. 1..(n + 1) = (1..n) \cup {n + 1} /\ 1..0 = {}
  OBVIOUS
<1> QED
  BY <1>1 DEF HandledOf

\* A state, or a file of the cache, appended for the next handled file
LEMMA StateAppended ==
  ASSUME NEW n \in Nat, NEW H \in SUBSET (1..n), NEW files, NEW versions,
         NEW S, NEW states \in Seq(S), NEW s \in S, StatesOf(states, H, files, versions),
         s.id = files[n + 1].id, s.apply_state = Outcome(files[n + 1]), s.version \in versions
  PROVE  StatesOf(Append(states, s), H \cup {n + 1}, files, versions)
<1>1. /\ Len(states) = Cardinality(H) /\ Len(Append(states, s)) = Cardinality(H) + 1
      /\ \A i \in 1..Cardinality(H) : Append(states, s)[i] = states[i]
      /\ Append(states, s)[Cardinality(H) + 1] = s
  BY DEF StatesOf
<1> QED
  BY <1>1, PlaceLast DEF StatesOf

LEMMA CacheAppended ==
  ASSUME NEW n \in Nat, NEW H \in SUBSET (1..n), NEW files,
         NEW S, NEW cache \in Seq(S), NEW c \in S, CacheOf(cache, H, files),
         c = [id |-> files[n + 1].id, content |-> files[n + 1].content]
  PROVE  CacheOf(Append(cache, c), H \cup {n + 1}, files)
<1>1. /\ Len(cache) = Cardinality(H) /\ Len(Append(cache, c)) = Cardinality(H) + 1
      /\ \A i \in 1..Cardinality(H) : Append(cache, c)[i] = cache[i]
      /\ Append(cache, c)[Cardinality(H) + 1] = c
  BY DEF CacheOf
<1> QED
  BY <1>1, PlaceLast DEF CacheOf

LEMMA NothingHandled ==
  ASSUME NEW files, NEW versions
  PROVE  StatesOf(<<>>, {}, files, versions) /\ CacheOf(<<>>, {}, files)
BY FS_EmptySet DEF StatesOf, CacheOf

\* Where the loop is in the response it works on
Progress ==
  /\ worker.stage = "start" => ~worker.response.present
  /\ worker.stage \in {"connecting", "waiting"} => worker.next = 1 /\ ~worker.config_states_cleared
  /\ worker.stage \in Updating \cup {"applied"} => file.product = "APM_TRACING"
  /\ HasTargets(worker.response) => client.targets_version = polls
  /\ worker.stage = "succeeded" /\ worker.response.present =>
       worker.next > Len(worker.response.files)
  /\ worker.stage = "sleeping" /\ worker.response.present =>
       client.has_error \/ worker.next > Len(worker.response.files)

\* The states are kept until the first one of this response.
StatesKept ==
  IF worker.config_states_cleared
  THEN StatesOf(client.config_states, Handled, worker.response.files, {1, client.targets_version})
  ELSE Handled = {}

CacheKept ==
  /\ worker.any_failure <=>
       \E k \in Handled : worker.response.files[k].content = "malformed"
  /\ ~worker.any_failure => CacheOf(worker.new_cache, Handled, worker.response.files)
  /\ worker.stage \notin {"start", "succeeded", "sleeping", "ended"} =>
       client.cached_target_files = worker.requested_cache
  /\ worker.stage = "succeeded" /\ worker.response.present =>
       client.cached_target_files =
         IF worker.any_failure THEN worker.requested_cache ELSE worker.new_cache
  /\ worker.stage = "sleeping" /\ worker.response.present =>
       client.cached_target_files = IF PollFailed THEN worker.requested_cache ELSE worker.new_cache

RecordInv == TypeOK /\ ListedInv /\ Progress /\ StatesKept /\ CacheKept

LEMMA RecordInitially == Init => RecordInv
<1> SUFFICES ASSUME Init PROVE RecordInv
  OBVIOUS
<1>1. worker.next - 1 = 0 /\ worker.response = NoResponse /\ worker.stage = "start"
      /\ ~worker.config_states_cleared /\ ~worker.any_failure /\ worker.new_cache = <<>>
  BY DEF Init
<1>2. Handled = {}
  BY <1>1, HandledGrows DEF Handled
<1>3. Progress
  BY <1>1 DEF Progress, NoResponse, HasTargets, Updating
<1>4. StatesKept
  BY <1>1, <1>2 DEF StatesKept
<1>5. CacheKept
  BY <1>1, <1>2, NothingHandled DEF CacheKept
<1>6. ListedInv
  BY <1>1 DEF ListedInv, Updating
<1> QED
  BY <1>3, <1>4, <1>5, <1>6, TypedInitially DEF RecordInv

\* What a step leaves alone that records nothing
NothingRecorded ==
  /\ worker'.response = worker.response /\ worker'.next = worker.next
  /\ worker'.new_cache = worker.new_cache /\ worker'.any_failure = worker.any_failure
  /\ worker'.config_states_cleared = worker.config_states_cleared
  /\ worker'.requested_cache = worker.requested_cache
  /\ client' = client /\ polls' = polls

\* The stages a worker goes between without recording anything
LEMMA NothingRecordedStep ==
  ASSUME RecordInv, NothingRecorded,
         \/ worker'.stage = worker.stage
         \/ worker.stage = "start" /\ worker'.stage = "sleeping"
         \/ worker'.stage = "ended"
         \/ worker.stage = "connecting" /\ worker'.stage = "waiting"
         \/ worker.stage \in {"connecting", "waiting", "files"} /\ worker'.stage = "failed"
         \/ /\ worker.stage \in Updating \cup {"files"} /\ file.product = "APM_TRACING"
            /\ worker'.stage \in Updating \cup {"applied"}
  PROVE  Progress' /\ StatesKept' /\ CacheKept'
<1>a. Progress /\ StatesKept /\ CacheKept
  BY DEF RecordInv
<1>1. Handled' = Handled /\ file' = file /\ (PollFailed' <=> PollFailed)
  BY DEF NothingRecorded, Handled, file, PollFailed
<1>2. Progress'
  BY <1>a, <1>1 DEF NothingRecorded, Progress, Updating, HasTargets
<1>3. StatesKept'
  BY <1>a, <1>1 DEF NothingRecorded, StatesKept
<1>4. CacheKept'
  <2>1. ~(worker.stage = "start" /\ worker.response.present)
    BY <1>a DEF Progress
  <2>2. worker'.stage = "succeeded" => worker.stage = "succeeded"
    BY DEF Updating
  <2>3. worker'.stage = "sleeping" => worker.stage \in {"start", "sleeping"}
    BY DEF Updating
  <2>4. worker'.stage \notin {"start", "succeeded", "sleeping", "ended"} =>
          worker.stage \notin {"start", "succeeded", "sleeping", "ended"}
    BY DEF Updating
  <2> QED
    BY <1>a, <1>1, <2>1, <2>2, <2>3, <2>4 DEF NothingRecorded, CacheKept
<1> QED
  BY <1>2, <1>3, <1>4

LEMMA GotoRecordsNothing ==
  ASSUME worker \in Worker, NEW s, Goto(s), client' = client, polls' = polls
  PROVE  NothingRecorded /\ worker'.stage = s
BY DEF Goto, Worker, NothingRecorded

LEMMA SkipRecorded ==
  ASSUME RecordInv, SkipFile
  PROVE  Progress' /\ StatesKept' /\ CacheKept'
<1>a. Progress /\ StatesKept /\ CacheKept /\ worker \in Worker /\ worker.next \in Nat \ {0}
  BY DEF RecordInv, TypeOK, Worker
<1>1. /\ worker.stage = "files" /\ worker'.stage = "files" /\ worker'.next = worker.next + 1
      /\ worker'.response = worker.response /\ worker'.new_cache = worker.new_cache
      /\ worker'.any_failure = worker.any_failure
      /\ worker'.config_states_cleared = worker.config_states_cleared
      /\ worker'.requested_cache = worker.requested_cache
      /\ client' = client /\ polls' = polls
  BY <1>a DEF SkipFile, InFiles, Worker
<1>2. Handled' = Handled
  <2> DEFINE n == worker.next - 1
  <2>1. n \in Nat /\ n + 1 = worker.next /\ worker'.next - 1 = n + 1
    BY <1>a, <1>1
  <2>2. worker.response.files[n + 1].product # "APM_TRACING"
    BY <2>1 DEF SkipFile, file
  <2>3. HandledOf(worker.response.files, n + 1) = HandledOf(worker.response.files, n)
    BY <2>1, <2>2, HandledGrows
  <2> QED
    BY <1>1, <2>1, <2>3 DEF Handled
<1>3. Progress'
  BY <1>a, <1>1 DEF Progress, Updating, HasTargets
<1>4. StatesKept'
  BY <1>a, <1>1, <1>2 DEF StatesKept
<1>5. CacheKept'
  BY <1>a, <1>1, <1>2 DEF CacheKept
<1> QED
  BY <1>3, <1>4, <1>5

LEMMA StateRecorded ==
  ASSUME RecordInv, record_config_state
  PROVE  Progress' /\ StatesKept' /\ CacheKept'
<1> DEFINE n == worker.next - 1
           files == worker.response.files
           state == [id |-> file.id, version |-> config_version, apply_state |-> Outcome(file)]
           entry == [id |-> file.id, content |-> file.content]
           before == IF worker.config_states_cleared THEN client.config_states ELSE <<>>
           versions == {1, client.targets_version}
<1>a. /\ Progress /\ StatesKept /\ CacheKept /\ worker \in Worker /\ client \in Client
      /\ worker.next \in Nat \ {0} /\ worker.stage = "applied"
      /\ worker.any_failure \in BOOLEAN /\ polls \in Nat
  BY RemoteConfigAssumption DEF RecordInv, TypeOK, Worker, record_config_state
<1>b. n \in Nat /\ n + 1 = worker.next /\ file = files[n + 1]
  BY <1>a DEF file
<1>c. worker.next \in DOMAIN worker.response.files
  BY <1>a DEF RecordInv, TypeOK
<1>d. file \in File /\ file.product = "APM_TRACING"
  BY <1>a, <1>c, FileTyped DEF Progress
<1>1. /\ worker'.stage = "files" /\ worker'.next = worker.next + 1
      /\ worker'.response = worker.response
      /\ worker'.any_failure = (worker.any_failure \/ Outcome(file) = 3)
      /\ worker'.config_states_cleared = TRUE
      /\ worker'.requested_cache = worker.requested_cache
      /\ polls' = polls
  BY <1>a DEF record_config_state, Worker
<1>2. worker'.new_cache = IF Outcome(file) = 2 THEN Append(worker.new_cache, entry)
                                               ELSE worker.new_cache
  BY <1>a DEF record_config_state, Worker
<1>3. /\ client'.config_states = Append(before, state)
      /\ client'.targets_version = client.targets_version
      /\ client'.cached_target_files = client.cached_target_files
  BY <1>a DEF record_config_state, Client
<1>4. /\ Handled = HandledOf(files, n) /\ Handled \in SUBSET (1..n)
      /\ Handled' = Handled \cup {n + 1}
  <2>1. worker'.next - 1 = n + 1
    BY <1>b, <1>1
  <2>2. /\ HandledOf(files, n) \in SUBSET (1..n)
        /\ HandledOf(files, n + 1) = HandledOf(files, n) \cup {n + 1}
    BY <1>b, <1>d, HandledGrows
  <2> QED
    BY <1>1, <2>1, <2>2 DEF Handled
<1>5. before \in Seq(ConfigState) /\ StatesOf(before, Handled, files, versions)
  <2>1. CASE worker.config_states_cleared
    BY <1>a, <2>1 DEF StatesKept, Client
  <2>2. CASE ~worker.config_states_cleared
    <3>1. before = <<>> /\ Handled = {}
      BY <1>a, <2>2 DEF StatesKept
    <3>2. StatesOf(<<>>, {}, files, versions) /\ <<>> \in Seq(ConfigState)
      BY NothingHandled
    <3> QED
      BY <3>1, <3>2
  <2> QED
    BY <2>1, <2>2
<1>6. /\ state \in ConfigState /\ entry \in CachedFile /\ config_version \in versions
      /\ Outcome(file) \in {2, 3} /\ (Outcome(file) = 3 <=> file.content = "malformed")
  <2>1. config_version \in versions /\ config_version \in Nat
    BY <1>a DEF config_version, Progress
  <2>2. Outcome(file) \in {2, 3} /\ (Outcome(file) = 3 <=> file.content = "malformed")
    BY DEF Outcome
  <2> QED
    BY <1>d, <2>1, <2>2 DEF ConfigState, CachedFile, File
<1>7. StatesKept'
  <2>1. StatesOf(Append(before, state), Handled \cup {n + 1}, files, versions)
    <3>1. state.id = files[n + 1].id /\ state.apply_state = Outcome(files[n + 1])
          /\ state.version \in versions
      BY <1>b, <1>6
    <3> HIDE DEF state, before, versions, files, n
    <3> QED
      BY <1>b, <1>4, <1>5, <1>6, <3>1, StateAppended
  <2> QED
    BY <1>1, <1>3, <1>4, <2>1 DEF StatesKept
<1>8. CacheKept'
  <2>1. worker'.any_failure <=>
          \E k \in Handled' : worker'.response.files[k].content = "malformed"
    <3>1. worker.any_failure <=> \E k \in Handled : files[k].content = "malformed"
      BY <1>a DEF CacheKept
    <3> QED
      BY <1>b, <1>1, <1>4, <1>6, <3>1
  <2>2. ASSUME ~worker'.any_failure PROVE CacheOf(worker'.new_cache, Handled', files)
    <3>1. Outcome(file) = 2 /\ ~worker.any_failure
      BY <1>1, <1>6, <2>2
    <3>2. CacheOf(worker.new_cache, Handled, files) /\ worker.new_cache \in Seq(CachedFile)
      BY <1>a, <3>1 DEF CacheKept, Worker
    <3>3. entry = [id |-> files[n + 1].id, content |-> files[n + 1].content]
      BY <1>b
    <3>4. CacheOf(Append(worker.new_cache, entry), Handled \cup {n + 1}, files)
      <4> HIDE DEF entry, files, n
      <4> QED
        BY <1>b, <1>4, <1>6, <3>2, <3>3, CacheAppended
    <3> QED
      BY <1>2, <1>4, <3>1, <3>4
  <2>3. client'.cached_target_files = worker'.requested_cache
    BY <1>a, <1>1, <1>3 DEF CacheKept
  <2> QED
    BY <1>1, <2>1, <2>2, <2>3 DEF CacheKept
<1>9. Progress'
  BY <1>a, <1>1, <1>3 DEF Progress, Updating, HasTargets
<1> QED
  BY <1>7, <1>8, <1>9

LEMMA RecordStep == RecordInv /\ [Next]_vars => RecordInv'
<1> SUFFICES ASSUME RecordInv, [Next]_vars PROVE Progress' /\ StatesKept' /\ CacheKept'
  BY TypedStep, ListedStep DEF RecordInv
<1>a. /\ Progress /\ StatesKept /\ CacheKept /\ worker \in Worker /\ client \in Client
      /\ worker.response \in Response /\ worker.any_failure \in BOOLEAN
  BY DEF RecordInv, TypeOK, Worker
<1>1. CASE StartsRuntime \/ Connected \/ ConnectFails \/ BadAnswer \/ UndecodableFile \/ DropsRunLoop
  <2>1. PICK s : /\ Goto(s)
                 /\ \/ worker.stage = "start" /\ s = "sleeping"
                    \/ s = "ended"
                    \/ worker.stage = "connecting" /\ s = "waiting"
                    \/ worker.stage \in {"connecting", "waiting", "files"} /\ s = "failed"
    BY <1>1 DEF StartsRuntime, Connected, ConnectFails, BadAnswer, UndecodableFile, InFiles,
       DropsRunLoop
  <2>2. client' = client /\ polls' = polls
    BY <1>1 DEF StartsRuntime, Connected, ConnectFails, BadAnswer, UndecodableFile, DropsRunLoop
  <2> QED
    BY <1>a, <2>1, <2>2, GotoRecordsNothing, NothingRecordedStep
<1>2. CASE process_config \/ set_override_value \/ set_config_id \/ notify_update
           \/ notify_configuration_update
  <2>1. PICK s \in Updating \cup {"applied"} : Goto(s)
    BY <1>2 DEF process_config, set_override_value, set_config_id, notify_update,
       notify_configuration_update, Updating
  <2>2. client' = client /\ polls' = polls
    BY <1>2 DEF process_config, set_override_value, set_config_id, notify_update,
       notify_configuration_update
  <2>3. worker.stage \in Updating \cup {"files"}
    BY <1>2 DEF process_config, set_override_value, set_config_id, notify_update,
       notify_configuration_update, Updating, InFiles
  <2>4. file.product = "APM_TRACING"
    <3>1. CASE process_config
      BY <3>1 DEF process_config
    <3>2. CASE ~process_config
      BY <1>a, <1>2, <3>2 DEF Progress, set_override_value, set_config_id, notify_update,
         notify_configuration_update, Updating
    <3> QED
      BY <3>1, <3>2
  <2> QED
    BY <1>a, <2>1, <2>2, <2>3, <2>4, GotoRecordsNothing, NothingRecordedStep
<1>3. CASE trigger_shutdown \/ init_telemetry \/ send_start \/ UNCHANGED vars
  <2>1. NothingRecorded /\ worker'.stage = worker.stage
    BY <1>3 DEF trigger_shutdown, init_telemetry, send_start, vars, NothingRecorded
  <2> QED
    BY <2>1, NothingRecordedStep
<1>4. CASE build_request
  <2>1. /\ worker'.stage = "connecting" /\ worker'.response = NoResponse /\ worker'.next - 1 = 0
        /\ worker'.next = 1
        /\ worker'.new_cache = <<>> /\ worker'.any_failure = FALSE
        /\ worker'.config_states_cleared = FALSE
        /\ worker'.requested_cache = client.cached_target_files /\ client' = client
    BY <1>4 DEF build_request
  <2>2. Handled' = {}
    BY <2>1, HandledGrows DEF Handled
  <2>3. Progress'
    BY <2>1 DEF Progress, NoResponse, HasTargets, Updating
  <2>4. StatesKept'
    BY <2>1, <2>2 DEF StatesKept
  <2>5. CacheKept'
    BY <2>1, <2>2, NothingHandled DEF CacheKept
  <2> QED
    BY <2>3, <2>4, <2>5
<1>5. ASSUME NEW r \in Responses, Answer(r) PROVE Progress' /\ StatesKept' /\ CacheKept'
  <2>1. PICK s \in {"failed", "files", "succeeded"} :
          /\ worker' = [worker EXCEPT !.response = r, !.stage = s]
          /\ s = "succeeded" => ~r.present
    BY <1>5, Zenon DEF Answer
  <2>2. /\ worker'.stage = s /\ worker'.response = r /\ worker'.next = worker.next
        /\ worker'.new_cache = worker.new_cache /\ worker'.any_failure = worker.any_failure
        /\ worker'.config_states_cleared = worker.config_states_cleared
        /\ worker'.requested_cache = worker.requested_cache
    BY <1>a, <2>1 DEF Worker
  <2>3. /\ client'.config_states = client.config_states
        /\ client'.cached_target_files = client.cached_target_files
        /\ HasTargets(r) => client'.targets_version = polls
        /\ polls' = polls
    <3>1. CASE HasTargets(r)
      BY <1>5, <1>a, <3>1 DEF Answer, Client
    <3>2. CASE ~HasTargets(r)
      BY <1>5, <3>2 DEF Answer
    <3> QED
      BY <3>1, <3>2
  <2>4. worker.stage = "waiting" /\ worker.next = 1 /\ ~worker.config_states_cleared
    BY <1>5, <1>a DEF Answer, Progress
  <2>5. Handled = {} /\ Handled' = {}
    <3>1. worker.next - 1 = 0 /\ worker'.next - 1 = 0
      BY <2>2, <2>4
    <3> QED
      BY <3>1, HandledGrows DEF Handled
  <2>6. Progress'
    BY <2>1, <2>2, <2>3, <2>4 DEF Progress, HasTargets, Updating
  <2>7. StatesKept'
    BY <2>2, <2>4, <2>5 DEF StatesKept
  <2>8. CacheKept'
    <3>1. ~worker.any_failure
      BY <1>a, <2>5 DEF CacheKept
    <3>2. CacheOf(worker.new_cache, {}, r.files)
      BY <1>a, <2>5, <3>1 DEF CacheKept, CacheOf
    <3>3. client.cached_target_files = worker.requested_cache
      BY <1>a, <2>4 DEF CacheKept
    <3> QED
      BY <2>1, <2>2, <2>3, <2>5, <3>1, <3>2, <3>3 DEF CacheKept
  <2> QED
    BY <2>6, <2>7, <2>8
<1>6. CASE FinishFiles
  <2>1. /\ worker.stage = "files" /\ worker'.stage = "succeeded"
        /\ worker.next > Len(worker.response.files)
        /\ worker'.response = worker.response /\ worker'.next = worker.next
        /\ worker'.new_cache = worker.new_cache /\ worker'.any_failure = worker.any_failure
        /\ worker'.config_states_cleared = worker.config_states_cleared
        /\ worker'.requested_cache = worker.requested_cache /\ polls' = polls
    BY <1>6, <1>a DEF FinishFiles, Goto, Worker
  <2>2. /\ client'.config_states = client.config_states
        /\ client'.targets_version = client.targets_version
        /\ client'.cached_target_files = IF worker.any_failure THEN client.cached_target_files
                                                               ELSE worker.new_cache
    BY <1>6, <1>a DEF FinishFiles, Client
  <2>3. Handled' = Handled
    BY <2>1 DEF Handled
  <2>4. Progress'
    BY <1>a, <2>1, <2>2 DEF Progress, Updating, HasTargets
  <2>5. StatesKept'
    BY <1>a, <2>1, <2>2, <2>3 DEF StatesKept
  <2>6. CacheKept'
    BY <1>a, <2>1, <2>2, <2>3 DEF CacheKept
  <2> QED
    BY <2>4, <2>5, <2>6
<1>7. CASE RecordPoll
  <2>1. /\ worker.stage \in {"succeeded", "failed"} /\ worker'.stage = "sleeping"
        /\ worker'.response = worker.response /\ worker'.next = worker.next
        /\ worker'.new_cache = worker.new_cache /\ worker'.any_failure = worker.any_failure
        /\ worker'.config_states_cleared = worker.config_states_cleared
        /\ worker'.requested_cache = worker.requested_cache /\ polls' = polls
    BY <1>7, <1>a DEF RecordPoll, Goto, Worker
  <2>2. /\ client'.config_states = client.config_states
        /\ client'.targets_version = client.targets_version
        /\ client'.cached_target_files = client.cached_target_files
        /\ client'.has_error <=> worker.stage = "failed"
    BY <1>7, <1>a DEF RecordPoll, Client
  <2>3. Handled' = Handled
    BY <2>1 DEF Handled
  <2>4. Progress'
    BY <1>a, <2>1, <2>2 DEF Progress, Updating, HasTargets
  <2>5. StatesKept'
    BY <1>a, <2>1, <2>2, <2>3 DEF StatesKept
  <2>6. CacheKept'
    BY <1>a, <2>1, <2>2, <2>3 DEF CacheKept, PollFailed
  <2> QED
    BY <2>4, <2>5, <2>6
<1> QED
  BY <1>1, <1>2, <1>3, <1>4, <1>5, <1>6, <1>7, SkipRecorded, StateRecorded DEF Next, Synchronous

\* What the client reports of a response is what it did with it: the states
\* of the handled files in their order, the cache it works with, and every
\* failure (remote_config.rs 671-736, 604, 656).
THEOREM ResponsesRecorded == Spec => []ResponseRecorded
<1>1. Spec => []RecordInv
  BY RecordInitially, RecordStep, PTL DEF Spec
<1>2. RecordInv => StatesDescribeResponse
  BY DEF RecordInv, StatesKept, StatesDescribeResponse
<1>3. RecordInv => CacheDescribesResponse
  BY DEF RecordInv, CacheKept, CacheDescribesResponse, PollFailed
<1>4. RecordInv => OnlyListedFilesApplied
  BY DEF RecordInv, TypeOK, ListedInv, OnlyListedFilesApplied, validate_signed_target_files, file
<1>5. RecordInv => FailureReported
  <2> SUFFICES ASSUME RecordInv, worker.stage = "sleeping", worker.response.present,
                      ~client.has_error,
                      \/ worker.next <= Len(worker.response.files)
                      \/ \E k \in Handled : worker.response.files[k].content = "malformed"
               PROVE  \E k \in DOMAIN client.config_states :
                        client.config_states[k].apply_state = 3
    BY DEF FailureReported
  <2>1. /\ worker.next \in Nat \ {0} /\ worker.response.files \in Seq(Files)
        /\ client.config_states \in Seq(ConfigState)
    BY DEF RecordInv, TypeOK, Worker, Response, Client
  <2>2. worker.next > Len(worker.response.files)
    BY DEF RecordInv, Progress
  <2>3. PICK k \in Handled : worker.response.files[k].content = "malformed"
    BY <2>1, <2>2
  <2>4. /\ worker.config_states_cleared
        /\ Len(client.config_states) = Cardinality(Handled)
        /\ client.config_states[Place(Handled, k)].apply_state = 3
    BY <2>3 DEF RecordInv, StatesKept, StatesOf, Outcome
  <2>5. Place(Handled, k) \in 1..Cardinality(Handled)
    <3>1. worker.next - 1 \in Nat
      BY <2>1
    <3>2. Handled \in SUBSET (1..(worker.next - 1))
      BY <3>1, HandledGrows DEF Handled
    <3> QED
      BY <3>1, <3>2, PlaceLast
  <2> QED
    BY <2>1, <2>4, <2>5
<1> QED
  BY <1>1, <1>2, <1>3, <1>4, <1>5, PTL DEF ResponseRecorded

-----------------------------------------------------------------------------
(* The tracker of extra services queues each name once and keeps to its    *)
(* limit.  What carries the argument is the mutex of the names sent: the   *)
(* thread that is about to queue a name still holds it.                    *)

ThreadState == [step : {"out", "sent", "queue", "services", "drain"}, name : Names, left : Nat]

TrackerTyped ==
  /\ queue \in Seq(Names) /\ sent \subseteq Names
  /\ lock \in [{"sent", "queue", "services"} -> Threads \cup {Free}]
  /\ thread \in [Threads -> ThreadState]

\* Who holds which mutex, and that the name of its holder is new
Locked ==
  /\ \A t \in Exporters : Doing(t, "queue") => lock["sent"] = t /\ thread[t].name \notin sent
  /\ \A t \in Exporters : thread[t].step \in {"out", "sent", "queue"}
  /\ thread[Poller].step \in {"out", "services", "drain"}

Counted ==
  /\ IsFiniteSet(services)
  /\ Cardinality(services) <= Limit
  /\ LimitKept

TrackerInv == TrackerTyped /\ Locked /\ EachOnce

LEMMA QueueAppended ==
  ASSUME NEW q \in Seq(Names), NEW name \in Names
  PROVE  /\ Append(q, name) \in Seq(Names)
         /\ Range(Append(q, name)) = Range(q) \cup {name}
         /\ IsInjective(q) /\ name \notin Range(q) => IsInjective(Append(q, name))
<1>1. /\ Append(q, name) \in Seq(Names)
      /\ DOMAIN Append(q, name) = 1..(Len(q) + 1) /\ DOMAIN q = 1..Len(q) /\ Len(q) \in Nat
      /\ \A i \in 1..Len(q) : Append(q, name)[i] = q[i]
      /\ Append(q, name)[Len(q) + 1] = name
  OBVIOUS
<1>2. 1..(Len(q) + 1) = (1..Len(q)) \cup {Len(q) + 1}
  BY <1>1
<1>3. Range(Append(q, name)) = Range(q) \cup {name}
  BY <1>1, <1>2 DEF Range
<1>4. ASSUME IsInjective(q), name \notin Range(q) PROVE IsInjective(Append(q, name))
  BY <1>1, <1>2, <1>4 DEF Range, IsInjective
<1> QED
  BY <1>1, <1>3, <1>4

LEMMA QueueDrained ==
  ASSUME NEW q \in Seq(Names), q # <<>>
  PROVE  /\ Tail(q) \in Seq(Names) /\ Head(q) \in Names
         /\ Range(q) = Range(Tail(q)) \cup {Head(q)}
         /\ IsInjective(q) => IsInjective(Tail(q)) /\ Head(q) \notin Range(Tail(q))
<1>1. /\ Tail(q) \in Seq(Names) /\ Head(q) \in Names /\ Head(q) = q[1]
      /\ Len(q) \in Nat /\ Len(q) >= 1
      /\ DOMAIN q = 1..Len(q) /\ DOMAIN Tail(q) = 1..(Len(q) - 1)
      /\ \A i \in 1..(Len(q) - 1) : Tail(q)[i] = q[i + 1]
  OBVIOUS
<1>2. \A j \in 2..Len(q) : j - 1 \in 1..(Len(q) - 1) /\ Tail(q)[j - 1] = q[j]
  BY <1>1
<1>3. Range(q) = Range(Tail(q)) \cup {Head(q)}
  <2>1. Range(q) \subseteq Range(Tail(q)) \cup {Head(q)}
    <3> SUFFICES ASSUME NEW j \in 1..Len(q) PROVE q[j] \in Range(Tail(q)) \cup {Head(q)}
      BY <1>1 DEF Range
    <3>1. CASE j = 1
      BY <1>1, <3>1
    <3>2. CASE j # 1
      <4>1. j \in 2..Len(q)
        BY <1>1, <3>2
      <4> QED
        BY <1>1, <1>2, <4>1 DEF Range
    <3> QED
      BY <3>1, <3>2
  <2>2. Range(Tail(q)) \cup {Head(q)} \subseteq Range(q)
    <3>1. Head(q) \in Range(q)
      BY <1>1 DEF Range
    <3>2. ASSUME NEW i \in 1..(Len(q) - 1) PROVE Tail(q)[i] \in Range(q)
      <4>1. i + 1 \in 1..Len(q)
        BY <1>1
      <4> QED
        BY <1>1, <4>1 DEF Range
    <3> QED
      BY <1>1, <3>1, <3>2 DEF Range
  <2> QED
    BY <2>1, <2>2
<1>4. ASSUME IsInjective(q) PROVE IsInjective(Tail(q)) /\ Head(q) \notin Range(Tail(q))
  <2>1. ASSUME NEW i \in 1..(Len(q) - 1), NEW j \in 1..(Len(q) - 1), Tail(q)[i] = Tail(q)[j]
        PROVE  i = j
    <3>1. i + 1 \in DOMAIN q /\ j + 1 \in DOMAIN q /\ q[i + 1] = q[j + 1]
      BY <1>1, <2>1
    <3>2. i + 1 = j + 1
      BY <1>4, <3>1 DEF IsInjective
    <3> QED
      BY <1>1, <3>2
  <2>2. ASSUME NEW i \in 1..(Len(q) - 1) PROVE Tail(q)[i] # Head(q)
    <3>1. i + 1 \in DOMAIN q /\ 1 \in DOMAIN q /\ i + 1 # 1
      BY <1>1
    <3>2. q[i + 1] # q[1]
      BY <1>4, <3>1 DEF IsInjective
    <3> QED
      BY <1>1, <3>2
  <2> QED
    BY <1>1, <2>1, <2>2 DEF IsInjective, Range
<1> QED
  BY <1>1, <1>3, <1>4

-----------------------------------------------------------------------------

LEMMA TrackerInitially == TrackerInit => TrackerInv
<1> SUFFICES ASSUME TrackerInit PROVE TrackerInv
  OBVIOUS
<1>1. TrackerTyped
  BY ExtraServicesAssumption DEF TrackerInit, TrackerTyped, ThreadState, Threads
<1>2. Locked
  BY DEF TrackerInit, Locked, Doing, Threads
<1>3. EachOnce
  BY DEF TrackerInit, EachOnce, IsInjective, Range
<1> QED
  BY <1>1, <1>2, <1>3 DEF TrackerInv

LEMMA ThreadChangesTyped ==
  ASSUME TrackerTyped, NEW t \in Threads
  PROVE  /\ \A s \in {"out", "sent", "queue", "services", "drain"} :
              [thread EXCEPT ![t].step = s] \in [Threads -> ThreadState]
         /\ \A m \in {"sent", "queue", "services"} :
              [lock EXCEPT ![m] = t] \in [{"sent", "queue", "services"} -> Threads \cup {Free}]
         /\ [m \in DOMAIN lock |-> IF lock[m] = t THEN Free ELSE lock[m]]
              \in [{"sent", "queue", "services"} -> Threads \cup {Free}]
<1>1. thread[t] \in ThreadState
  BY DEF TrackerTyped
<1>2. ASSUME NEW s \in {"out", "sent", "queue", "services", "drain"}
      PROVE  [thread EXCEPT ![t].step = s] \in [Threads -> ThreadState]
  <2>1. [thread[t] EXCEPT !.step = s] \in ThreadState
    BY <1>1 DEF ThreadState
  <2> QED
    BY <2>1 DEF TrackerTyped
<1> QED
  BY <1>2 DEF TrackerTyped

LEMMA TrackerStep == TrackerInv /\ [TrackerNext]_trackerVars => TrackerInv'
<1> SUFFICES ASSUME TrackerInv, [TrackerNext]_trackerVars PROVE TrackerInv'
  OBVIOUS
<1>a. TrackerTyped /\ Locked /\ EachOnce
  BY DEF TrackerInv
<1>b. Poller \in Threads /\ Exporters \subseteq Threads /\ Poller \notin Exporters /\ Free \notin Exporters
  BY ExtraServicesAssumption DEF Threads
<1>c. \A t \in Threads : thread[t] \in ThreadState
  BY <1>a DEF TrackerTyped
<1>1. ASSUME NEW t \in Exporters, NEW name \in Names, Add(t, name) PROVE TrackerInv'
  <2>1. [step |-> "sent", name |-> name, left |-> thread[t].left - 1] \in ThreadState
    BY <1>1, <1>b, <1>c DEF Add, ThreadState
  <2>2. TrackerTyped'
    BY <1>1, <1>a, <1>b, <2>1 DEF Add, TrackerTyped
  <2>3. thread'[t].step = "sent" /\ \A u \in Threads \ {t} : thread'[u] = thread[u]
    BY <1>1, <1>a, <1>b DEF Add, TrackerTyped
  <2>4. Locked'
    BY <1>1, <1>a, <1>b, <2>3 DEF Add, Locked, Doing
  <2>5. EachOnce'
    BY <1>1, <1>a DEF Add, EachOnce
  <2> QED
    BY <2>2, <2>4, <2>5 DEF TrackerInv
<1>2. ASSUME NEW t \in Exporters, CheckSent(t) PROVE TrackerInv'
  <2>1. TrackerTyped'
    <3>1. CASE Move(t, "out") /\ lock' = lock
      BY <1>2, <1>a, <1>b, <3>1, ThreadChangesTyped DEF CheckSent, Move, TrackerTyped
    <3>2. CASE Move(t, "queue") /\ Takes(t, "sent")
      BY <1>2, <1>a, <1>b, <3>2, ThreadChangesTyped DEF CheckSent, Move, Takes, TrackerTyped
    <3> QED
      BY <1>2, <3>1, <3>2 DEF CheckSent
  <2>2. \A u \in Exporters : ~Doing(u, "queue")
    BY <1>2, <1>a, <1>b DEF CheckSent, Locked
  <2>3. /\ thread'[t].step \in {"out", "queue"} /\ thread'[t].name = thread[t].name
        /\ \A u \in Threads \ {t} : thread'[u] = thread[u]
    BY <1>2, <1>a, <1>b, <1>c DEF CheckSent, Move, TrackerTyped, ThreadState
  <2>4. thread'[t].step = "queue" => lock'["sent"] = t /\ thread[t].name \notin sent'
    BY <1>2, <1>a, <1>b, <1>c DEF CheckSent, Move, Takes, TrackerTyped, ThreadState
  <2>5. Locked'
    BY <1>a, <1>b, <2>2, <2>3, <2>4 DEF Locked, Doing
  <2>6. EachOnce'
    BY <1>2, <1>a DEF CheckSent, EachOnce
  <2> QED
    BY <2>1, <2>5, <2>6 DEF TrackerInv
<1>3. ASSUME NEW t \in Exporters, Enqueue(t) PROVE TrackerInv'
  <2>1. thread[t].name \in Names /\ queue \in Seq(Names)
    BY <1>a, <1>b, <1>c DEF TrackerTyped, ThreadState
  <2>2. thread[t].name \notin sent /\ lock["sent"] = t
    BY <1>3, <1>a DEF Enqueue, Locked
  <2>3. TrackerTyped'
    BY <1>3, <1>a, <1>b, <2>1, QueueAppended, ThreadChangesTyped DEF Enqueue, Move, Gives, TrackerTyped
  <2>4. thread'[t].step = "out" /\ \A u \in Threads \ {t} : thread'[u] = thread[u]
    BY <1>3, <1>a, <1>b, <1>c DEF Enqueue, Move, TrackerTyped, ThreadState
  <2>5. \A u \in Exporters : u # t => ~Doing(u, "queue")
    BY <1>a, <2>2 DEF Locked
  <2>6. Locked'
    BY <1>a, <1>b, <2>4, <2>5 DEF Locked, Doing
  <2>7. EachOnce'
    <3>1. thread[t].name \notin Range(queue) \cup services \cup evicted
      BY <1>a, <2>2 DEF EachOnce
    <3>2. /\ queue' = Append(queue, thread[t].name) /\ sent' = sent \cup {thread[t].name}
          /\ UNCHANGED <<services, evicted>>
      BY <1>3 DEF Enqueue
    <3>3. IsInjective(queue') /\ Range(queue') = Range(queue) \cup {thread[t].name}
      BY <1>a, <2>1, <3>1, <3>2, QueueAppended DEF EachOnce
    <3> QED
      BY <1>a, <3>1, <3>2, <3>3 DEF EachOnce
  <2> QED
    BY <2>3, <2>6, <2>7 DEF TrackerInv
<1>4. ASSUME NEW s \in {"out", "services", "drain"}, thread'[Poller].step = s,
             \A u \in Exporters : thread'[u] = thread[u],
             sent' = sent, lock'["sent"] = lock["sent"]
      PROVE  Locked'
  BY <1>a, <1>4 DEF Locked, Doing
<1>5. CASE Poll
  <2>1. [thread[Poller] EXCEPT !.step = "services", !.left = @ - 1] \in ThreadState
    <3>1. thread[Poller] \in ThreadState /\ thread[Poller].left - 1 \in Nat
      BY <1>5, <1>b, <1>c DEF Poll, ThreadState
    <3> QED
      BY <3>1 DEF ThreadState
  <2>2. thread' = [thread EXCEPT ![Poller] = [thread[Poller] EXCEPT !.step = "services", !.left = @ - 1]]
    BY <1>5, <1>a, <1>b DEF Poll, TrackerTyped
  <2>3. TrackerTyped'
    <3>1. thread' \in [Threads -> ThreadState]
      BY <1>a, <1>b, <2>1, <2>2 DEF TrackerTyped
    <3>2. lock' \in [{"sent", "queue", "services"} -> Threads \cup {Free}]
      BY <1>5, <1>a, <1>b, ThreadChangesTyped DEF Poll, Takes
    <3> QED
      BY <1>5, <1>a, <3>1, <3>2 DEF Poll, TrackerTyped
  <2>4. thread'[Poller].step = "services" /\ \A u \in Exporters : thread'[u] = thread[u]
    BY <1>a, <1>b, <1>c, <2>2 DEF TrackerTyped, ThreadState
  <2>5. Locked'
    BY <1>5, <1>a, <1>4, <2>4 DEF Poll, Takes, TrackerTyped
  <2>6. EachOnce'
    BY <1>5, <1>a DEF Poll, EachOnce
  <2> QED
    BY <2>3, <2>5, <2>6 DEF TrackerInv
<1>6. CASE LockServices
  <2>1. TrackerTyped'
    BY <1>6, <1>a, <1>b, ThreadChangesTyped DEF LockServices, Move, Takes, TrackerTyped
  <2>2. thread'[Poller].step = "drain" /\ \A u \in Exporters : thread'[u] = thread[u]
    BY <1>6, <1>a, <1>b, <1>c DEF LockServices, Move, TrackerTyped, ThreadState
  <2>3. Locked'
    BY <1>6, <1>a, <1>4, <2>2 DEF LockServices, Takes, TrackerTyped
  <2>4. EachOnce'
    BY <1>6, <1>a DEF LockServices, EachOnce
  <2> QED
    BY <2>1, <2>3, <2>4 DEF TrackerInv
<1>7. CASE Drain
  <2> DEFINE head == Head(queue)
             all == services \cup {head}
  <2>1. queue \in Seq(Names) /\ queue # <<>> /\ queue' = Tail(queue)
    BY <1>7, <1>a DEF Drain, TrackerTyped
  <2>2. TrackerTyped' /\ Locked'
    BY <1>7, <1>a, <2>1, QueueDrained DEF Drain, TrackerTyped, Locked, Doing
  <2>3. /\ IsInjective(queue') /\ Range(queue) = Range(queue') \cup {head}
        /\ head \notin Range(queue') /\ head \notin services /\ head \notin evicted
    BY <1>a, <2>1, QueueDrained DEF EachOnce
  <2>4. \/ services' = all /\ evicted' = evicted
        \/ \E gone \in all : services' = all \ {gone} /\ evicted' = evicted \cup {gone}
    BY <1>7 DEF Drain
  <2>5. sent' = sent
    BY <1>7 DEF Drain
  <2>6. EachOnce'
    BY <1>a, <2>3, <2>4, <2>5 DEF EachOnce
  <2> QED
    BY <2>2, <2>6 DEF TrackerInv
<1>8. CASE Answers
  <2>1. TrackerTyped'
    BY <1>8, <1>a, <1>b, ThreadChangesTyped DEF Answers, Move, Gives, TrackerTyped
  <2>2. thread'[Poller].step = "out" /\ \A u \in Exporters : thread'[u] = thread[u]
    BY <1>8, <1>a, <1>b, <1>c DEF Answers, Move, TrackerTyped, ThreadState
  <2>3. \A u \in Exporters : lock["sent"] = u => lock'["sent"] = u
    BY <1>8, <1>a, <1>b DEF Answers, Gives, TrackerTyped
  <2>4. Locked'
    BY <1>8, <1>a, <2>2, <2>3 DEF Answers, Locked, Doing
  <2>5. EachOnce'
    BY <1>8, <1>a DEF Answers, EachOnce
  <2> QED
    BY <2>1, <2>4, <2>5 DEF TrackerInv
<1>9. CASE UNCHANGED trackerVars
  BY <1>9, <1>a DEF trackerVars, TrackerTyped, Locked, Doing, EachOnce, TrackerInv
<1> QED
  BY <1>1, <1>2, <1>3, <1>5, <1>6, <1>7, <1>8, <1>9 DEF TrackerNext, Export, Polls

\* A service is in one place only, and a poll never brings a removed one back
\* (configuration.rs 583-608).
THEOREM QueuedOnce == TrackerSpec => []EachOnce
<1>1. TrackerInit => TrackerInv
  BY TrackerInitially
<1>2. TrackerInv => EachOnce
  BY DEF TrackerInv
<1> QED
  BY <1>1, <1>2, TrackerStep, PTL DEF TrackerSpec

-----------------------------------------------------------------------------

LEMMA CountedStep == Counted /\ [TrackerNext]_trackerVars => Counted'
<1> SUFFICES ASSUME Counted, [TrackerNext]_trackerVars PROVE Counted'
  OBVIOUS
<1>a. /\ IsFiniteSet(services) /\ Cardinality(services) \in Nat /\ Limit \in Nat \ {0}
      /\ Cardinality(services) <= Limit /\ Cardinality(answer) <= Limit
      /\ evicted # {} => Cardinality(services) = Limit
  BY ExtraServicesAssumption, FS_CardinalityType DEF Counted, LimitKept
<1>1. CASE UNCHANGED <<services, evicted, answer>>
  BY <1>1, <1>a DEF Counted, LimitKept
<1>2. CASE Answers
  BY <1>2, <1>a DEF Answers, Counted, LimitKept
<1>3. CASE Drain
  <2> DEFINE all == services \cup {Head(queue)}
  <2>1. IsFiniteSet(all) /\ Cardinality(all) \in {Cardinality(services), Cardinality(services) + 1}
    BY <1>a, FS_AddElement
  <2>2. answer' = answer
    BY <1>3 DEF Drain
  <2>3. CASE Cardinality(all) > Limit
    <3>1. PICK gone \in all : services' = all \ {gone}
      BY <1>3, <2>3 DEF Drain
    <3>2. IsFiniteSet(services') /\ Cardinality(services') = Cardinality(all) - 1
      BY <2>1, <3>1, FS_RemoveElement
    <3>3. Cardinality(services') = Limit
      BY <1>a, <2>1, <2>3, <3>2
    <3> QED
      BY <1>a, <2>2, <3>2, <3>3 DEF Counted, LimitKept
  <2>4. CASE ~(Cardinality(all) > Limit)
    <3>1. services' = all /\ evicted' = evicted
      BY <1>3, <2>4 DEF Drain
    <3>2. Cardinality(all) <= Limit
      BY <1>a, <2>1, <2>4
    <3>3. Cardinality(services) = Limit => Cardinality(all) = Limit
      BY <1>a, <2>1, <3>2
    <3> QED
      BY <1>a, <2>1, <2>2, <3>1, <3>2, <3>3 DEF Counted, LimitKept
  <2> QED
    BY <2>3, <2>4
<1>4. ASSUME NEW t \in Exporters, Export(t) PROVE UNCHANGED <<services, evicted, answer>>
  BY <1>4 DEF Export, Add, CheckSent, Enqueue
<1>5. CASE Poll \/ LockServices \/ UNCHANGED trackerVars
  BY <1>1, <1>5 DEF Poll, LockServices, trackerVars
<1> QED
  BY <1>1, <1>2, <1>3, <1>4, <1>5 DEF TrackerNext, Polls

\* No request names more services than the limit, and none goes before the
\* limit is reached (configuration.rs 625-633).
THEOREM LimitHolds == TrackerSpec => []LimitKept
<1>1. TrackerInit => Counted
  BY ExtraServicesAssumption, FS_EmptySet DEF TrackerInit, Counted, LimitKept
<1>2. Counted => LimitKept
  BY DEF Counted
<1> QED
  BY <1>1, <1>2, CountedStep, PTL DEF TrackerSpec

\* What remote configuration reports of other services is complete up to the
\* limit, and queued once (configuration.rs 583-633).
THEOREM TrackerIsExact == TrackerSpec => []TrackerExact
<1>1. EachOnce /\ LimitKept => TrackerExact
  BY DEF TrackerExact
<1> QED
  BY <1>1, QueuedOnce, LimitHolds, PTL
=============================================================================
