---------------------------- MODULE MCSpanMapping ----------------------------
(***************************************************************************)
(* Spans on small instances: "spans" are converted for the agent, and      *)
(* "rules" of the sampler are matched with them before.  The inputs vary   *)
(* the places that one question is about and keep the others fixed.        *)
(***************************************************************************)
EXTENDS SpanMapping, RuleMatching, FiniteSets

LOCAL SE == INSTANCE SequencesExt

VARIABLE part

LOCAL Text(key, str)  == [key |-> key, str |-> str, numeric |-> FALSE, num |-> NotNum]
LOCAL Number(key, n)  == [key |-> key, str |-> ToString(n), numeric |-> TRUE, num |-> n]
LOCAL Subfunctions(f) == {[k \in keys |-> f[k]] : keys \in SUBSET DOMAIN f}

LOCAL NoConfig == [service |-> "unnamed", global_tags |-> <<>>, version |-> ""]

LOCAL Plain ==
  [name |-> "span", kind |-> "server", attrs |-> <<>>, res |-> <<>>, scope |-> <<>>,
   status |-> "Unset", description |-> "", events |-> <<>>, sampled |-> TRUE,
   config |-> NoConfig]

LOCAL Resource(f) == [k \in DOMAIN f |-> [str |-> f[k], num |-> NotNum]]

-----------------------------------------------------------------------------

\* Inputs about service, name, resource and type
NamingAttributes ==
  {Text("datadog.service", "dd"), Text("datadog.name", "dd"), Text("datadog.resource", "dd"),
   Text("service.name", "own"), Text("service.name", ""), Text("operation.name", "op"),
   Text("resource.name", "res"), Text("span.type", "typ"), Text("http.request.method", "GET"),
   Text("http.route", "/a"), Text("db.system", "mysql"), Text("rpc.system", "aws-api"),
   Text("rpc.service", "s3"), Text("rpc.method", "put"), Text("messaging.system", "kafka"),
   Text("messaging.operation", "send"), Text("graphql.operation.type", "query"),
   Text("db.statement", "SELECT"), Text("faas.trigger", "timer")}

Naming ==
  {[Plain EXCEPT !.attrs = attrs, !.kind = kind, !.res = res] :
     attrs \in SE!BoundedSeq(NamingAttributes, 2), kind \in {"client", "server", "internal"},
     res \in {Resource(f) : f \in Subfunctions("service.name" :> "shop" @@
                                               "resource.name" :> "page" @@
                                               "datadog.service" :> "no")}}

\* Inputs about tags
TagAttributes ==
  {Text("env", "own"), Text("env", ""), Text("version", "1"), Text("datadog.env", "dd"),
   Text("datadog.version", "2"), Text("http.method", "GET"),
   Text("http.request.method", "POST"), Text("team", "a"), Number("team", 1)}

TagResources ==
  Subfunctions("env" :> "res" @@ "service.name" :> "shop" @@ "service.version" :> "3" @@
               "http.method" :> "PUT" @@ "http.request.method" :> "HEAD")
    \cup Subfunctions("deployment.environment" :> "prod" @@ "env" :> "" @@ "version" :> "" @@
                      "service.version" :> "3")

Tagging ==
  {[Plain EXCEPT !.attrs = attrs, !.res = Resource(res), !.scope = scope, !.config = configured] :
     attrs \in SE!BoundedSeq(TagAttributes, 2), res \in TagResources,
     scope \in {<<>>, "env" :> "scope" @@ "team" :> "s", "env" :> "" @@ "version" :> ""},
     configured \in {NoConfig, [NoConfig EXCEPT !.version = "4"],
                 [NoConfig EXCEPT !.global_tags = "env" :> "global" @@ "http.method" :> "any"]}}

\* Inputs about priority and error
ErrorAttributes ==
  {Number("datadog.error", 0), Number("datadog.error", 1), Text("datadog.error.msg", "m"),
   Text("error.type", "t"), Text("error.stack", "s"), Number("http.status_code", 500),
   Number("_sampling_priority_v1", -1), Number("sampling.priority", 2)}

LOCAL Exception(attrs) == [exception |-> TRUE, attrs |-> attrs]

Failing ==
  {[Plain EXCEPT !.attrs = attrs, !.status = status, !.sampled = sampled, !.events = events,
                 !.description = IF status = "Error" THEN description ELSE ""] :
     attrs \in SE!BoundedSeq(ErrorAttributes, 3), status \in {"Unset", "Ok", "Error"},
     sampled \in BOOLEAN, description \in {"", "broken"},
     events \in {<<>>, <<Exception("exception.message" :> "e1"),
                        [exception |-> FALSE, attrs |-> "exception.type" :> "no"],
                        Exception("exception.message" :> "e2" @@ "exception.type" :> "t2")>>}}

AllTags == {"http.method", "http.url", "team"}

AllInputs == {Naming, Tagging, Failing}

-----------------------------------------------------------------------------
\* Rules with one name pattern or up to two tags; spans with up to three
\* attributes

LOCAL Of(key, kind, str, num, float) ==
  [key |-> key, kind |-> kind, str |-> str, num |-> num, whole |-> float # "", float |-> float]
LOCAL Str(key, str) == Of(key, "string", str, NotNum, "")

RuleHttpKeys == {http_mappings[key] : key \in DOMAIN http_mappings}
                  \cup {"http.request.method", "http.response.status_code"}

Attributes ==
  {Str("http.method", "GET"), Str("http.request.method", "GET"), Str("http.request.method", "PUT"),
   Str("http.response.status_code", "404"), Of("http.status_code", "i64", "404", 404, "404"),
   Of("http.response.status_code", "f64", "404", 404, "404"),
   Str("size", "7"), Of("size", "i64", "7", 7, "7"), Of("size", "f64", "7.5", NotNum, ""),
   Of("size", "i64", "9007199254740993", NotNum, "9007199254740992"),
   Of("size", "other", "[7]", NotNum, "")}

RuleSpans ==
  {[name |-> "GET", kind |-> kind, attrs |-> attrs, res |-> res] :
     kind \in {"server", "internal"}, attrs \in SE!BoundedSeq(Attributes, 3),
     res \in {<<>>, "service.name" :> [str |-> "shop", num |-> NotNum]}}

LOCAL AnyRule == [name |-> <<"">>, service |-> <<"">>, resource |-> <<"">>, tags |-> <<>>]

LOCAL TagPatterns ==
  [{"http.method"} -> {<<"">>, <<"GET">>}] \cup [{"http.request.method"} -> {<<"GET">>, <<"PUT">>}]
    \cup [{"http.status_code"} -> {<<"*">>, <<"404">>}]
    \cup [{"http.response.status_code"} -> {<<"404">>}]
    \cup [{"size"} -> {<<"*">>, <<"7">>, <<"9007199254740992">>}]
    \cup [{"http.method", "size"} -> {<<"GET">>, <<"*">>, <<"">>}]

RuleConfigs ==
  {[AnyRule EXCEPT !.tags = tags] : tags \in TagPatterns}
    \cup {[AnyRule EXCEPT !.name = <<"http.server.request">>], [AnyRule EXCEPT !.service = <<"shop">>],
          [AnyRule EXCEPT !.resource = <<"GET">>, !.tags = "size" :> <<"*">>]}

-----------------------------------------------------------------------------

MCVars == <<vars, ruleVars, part>>

MCInit ==
  \/ part = "spans" /\ Init
     /\ config = {} /\ span = {} /\ rule = [tags |-> <<>>] /\ left = {} /\ verdict = "none"
  \/ part = "rules" /\ RuleInit
     /\ input = Plain /\ dd = NoSpan /\ pc = "minimal" /\ todo = {}

MCNext ==
  \/ part = "spans" /\ Next /\ UNCHANGED <<ruleVars, part>>
  \/ part = "rules" /\ RuleNext /\ UNCHANGED <<vars, part>>

MCSpec == MCInit /\ [][MCNext]_MCVars

=============================================================================
