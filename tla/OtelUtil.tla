------------------------------- MODULE OtelUtil -------------------------------
(***************************************************************************)
(* The functions of datadog-opentelemetry-mappings/transform/otel_util.rs  *)
(* that the sampler and the exporter share: they derive what Datadog calls *)
(* operation name, resource, type, service, env and status code from the   *)
(* attributes of an OpenTelemetry span and its resource.                   *)
(*                                                                         *)
(* A span has a name, a kind, a sequence of attributes and a resource,     *)
(* which is a function of keys.  The value of an attribute has the text it *)
(* is printed as (str) and the number it is (num).  A text that the code   *)
(* puts together from parts is the tuple of the parts; lower case is left  *)
(* out.                                                                    *)
(***************************************************************************)
EXTENDS Integers, Sequences, TLC

CONSTANT NotNum  \* the num of a value that is no whole number

-----------------------------------------------------------------------------
(* Attributes *)

Indices(span, key) == {i \in DOMAIN span.attrs : span.attrs[i].key = key}
has_attr(span, key) == Indices(span, key) # {}

\* The first of two attributes with the same key counts where a rule looks.
AttrFirst(span, key) ==
  span.attrs[CHOOSE i \in Indices(span, key) : \A j \in Indices(span, key) : i <= j]

\* AttributeIndices: the last of two attributes with the same key counts.
Attr(span, key) ==
  span.attrs[CHOOSE i \in Indices(span, key) : \A j \in Indices(span, key) : j <= i]

get_attr_str(span, key) == IF has_attr(span, key) THEN Attr(span, key).str ELSE ""
get_attr_num(span, key) == IF has_attr(span, key) THEN Attr(span, key).num ELSE NotNum

ResStr(span, key) == IF key \in DOMAIN span.res THEN span.res[key].str ELSE ""

\* The first element of a sequence that satisfies Test, or the default
First(seq, Test(_), default) ==
  IF \E i \in DOMAIN seq : Test(seq[i])
  THEN seq[CHOOSE i \in DOMAIN seq : Test(seq[i]) /\ \A j \in 1..i - 1 : ~Test(seq[j])]
  ELSE default

\* Key by key: what the resource has, if that is not empty, then what the span
\* has, also if that is empty
get_res_span_attributes(span, keys) ==
  LET key == First(keys, LAMBDA k : ResStr(span, k) # "" \/ has_attr(span, k), "")
  IN IF ResStr(span, key) # "" THEN ResStr(span, key) ELSE get_attr_str(span, key)

get_span_attributes(span, keys) ==
  get_attr_str(span, First(keys, LAMBDA k : get_attr_str(span, k) # "", ""))

get_res_attributes(span, keys) ==
  ResStr(span, First(keys, LAMBDA k : ResStr(span, k) # "", ""))

-----------------------------------------------------------------------------
(* Names *)

Word(str) == IF str = "" THEN <<>> ELSE <<str>>

\* A cascade is a sequence of conditions and results; the first one that holds
\* gives the result.
Cascade(cases) == First(cases, LAMBDA c : c.if, [then |-> <<>>]).then
Case(condition, result) == [if |-> condition, then |-> result]

get_otel_operation_name_v2(span) ==
  LET str(key)   == get_attr_str(span, key)
      client     == span.kind = "client"
      server     == span.kind = "server"
      http       == has_attr(span, "http.method") \/ has_attr(span, "http.request.method")
      db         == get_span_attributes(span, <<"db.system", "db.system.name">>)
      messaging  == str("messaging.system")
      operation  == get_span_attributes(span,
                      <<"messaging.operation", "messaging.operation.type">>)
      rpc        == str("rpc.system")
      rpcService == str("rpc.service")
      provider   == str("faas.invoked_provider")
      invoked    == str("faas.invoked_name")
      trigger    == str("faas.trigger")
      graphql    == str("graphql.operation.type")
      protocol   == str("network.protocol.name")
  IN Cascade(<<
       Case(has_attr(span, "operation.name"), Word(str("operation.name"))),
       Case(http /\ client, <<"http.client.request">>),
       Case(http /\ server, <<"http.server.request">>),
       Case(db # "" /\ client, <<db, ".query">>),
       Case(messaging # "" /\ operation # "" /\ span.kind # "internal",
            <<messaging, operation>>),
       Case(client /\ rpc = "aws-api" /\ rpcService # "", <<"aws", rpcService, ".request">>),
       Case(client /\ rpc = "aws-api", <<"aws.client.request">>),
       Case(client /\ rpc # "", <<rpc, ".client.request">>),
       Case(server /\ rpc # "", <<rpc, ".server.request">>),
       Case(client /\ provider # "" /\ invoked # "", <<provider, invoked, ".invoke">>),
       Case(server /\ trigger # "", <<trigger, ".invoke">>),
       Case(graphql # "", <<"graphql.server.request">>),
       Case(server /\ protocol # "", <<protocol, ".server.request">>),
       Case(server, <<"server.request">>),
       Case(client /\ protocol # "", <<protocol, ".client.request">>),
       Case(client, <<"client.request">>),
       Case(TRUE, <<span.kind>>)>>)

get_otel_resource_v2(span) ==
  LET str(keys)  == get_res_span_attributes(span, keys)
      method     == str(<<"http.request.method", "http.method">>)
      Method     == IF method = "_OTHER" THEN "HTTP" ELSE method
      route      == str(<<"http.route">>)
      operation  == str(<<"messaging.operation.type", "messaging.operation">>)
      to         == str(<<"messaging.destination", "messaging.destination.name">>)
      rpc        == str(<<"rpc.method">>)
      rpcService == str(<<"rpc.service">>)
      graphql    == str(<<"graphql.operation.type">>)
      graphqlOp  == str(<<"graphql.operation.name">>)
      db         == str(<<"db.system.name", "db.system">>)
      statement  == str(<<"db.statement">>)
      query      == str(<<"db.query.text">>)
  IN Cascade(<<
       Case(str(<<"resource.name">>) # "", Word(str(<<"resource.name">>))),
       Case(method # "" /\ span.kind = "server" /\ route # "", <<Method, route>>),
       Case(method # "", <<Method>>),
       Case(operation # "", <<operation>> \o Word(to)),
       Case(rpc # "", <<rpc>> \o Word(rpcService)),
       Case(graphql # "", <<graphql>> \o Word(graphqlOp)),
       Case(db # "" /\ statement # "", <<statement>>),
       Case(db # "" /\ query # "", <<query>>),
       Case(TRUE, Word(span.name))>>)

\* A code is an unsigned number; 0 stands for none.
Code(num) == IF num = NotNum \/ num < 0 THEN NotNum ELSE num

get_otel_status_code(span) ==
  LET key == First(<<"http.response.status_code", "http.status_code">>,
                   LAMBDA k : Code(get_attr_num(span, k)) # NotNum, "")
  IN IF key = "" THEN 0 ELSE get_attr_num(span, key)

SqlSystems ==
  {"other_sql", "mssql", "mysql", "oracle", "db2", "postgresql", "redshift", "cloudscape",
   "hsqldb", "maxdb", "ingres", "firstsql", "edb", "cache", "firebird", "derby", "informix",
   "mariadb", "sqlite", "sybase", "teradata", "vertica", "h2", "coldfusion", "cockroachdb",
   "progress", "hanadb", "adabas", "filemaker", "instantdb", "interbase", "netezza",
   "pervasive", "pointbase", "clickhouse"}

check_db_type(db) ==
  IF db \in SqlSystems THEN "sql"
  ELSE IF db \in {"cassandra", "redis", "memcached", "mongodb", "elasticsearch", "opensearch"}
  THEN db ELSE "db"

get_otel_span_type(span) ==
  LET type == get_res_span_attributes(span, <<"span.type">>)
      db   == get_res_span_attributes(span, <<"db.system.name", "db.system">>)
  IN IF type # "" THEN type
     ELSE CASE span.kind = "server" -> "web"
            [] span.kind = "client" -> IF db = "" THEN "http" ELSE check_db_type(db)
            [] OTHER                -> "custom"

get_otel_env(span) ==
  LET env == get_res_span_attributes(span, <<"datadog.env">>)
  IN IF env # "" THEN env
     ELSE get_res_attributes(span, <<"deployment.environment.name", "deployment.environment">>)

DEFAULT_OTLP_SERVICE_NAME == "otlpresourcenoservicename"

get_otel_service(span) ==
  LET own == get_attr_str(span, "service.name")
      res == ResStr(span, "service.name")
  IN IF own # "" THEN own ELSE IF res # "" THEN res ELSE DEFAULT_OTLP_SERVICE_NAME

-----------------------------------------------------------------------------
(* Keys *)

HttpKeyPairs ==
  {<<"client.address", "http.client_ip">>,
   <<"http.response.body.size", "http.response.content_length">>,
   <<"http.response.status_code", "http.status_code">>,
   <<"http.request.body.size", "http.request.content_length">>,
   <<"http.request.header.referrer", "http.referrer">>,
   <<"http.request.method", "http.method">>,
   <<"http.route", "http.route">>,
   <<"network.protocol.version", "http.version">>,
   <<"server.address", "http.server_name">>,
   <<"url.full", "http.url">>,
   <<"user_agent.original", "http.useragent">>}

http_mappings ==
  [key \in {p[1] : p \in HttpKeyPairs} |-> (CHOOSE p \in HttpKeyPairs : p[1] = key)[2]]

\* Of the keys with the prefix http.request.header. one stands for all.
HeaderMapping == [key \in {"http.request.header.x"} |-> "http.request.headers.x"]

DatadogPrefixed ==
  {"datadog.service", "datadog.name", "datadog.env", "datadog.resource", "datadog.type",
   "datadog.version", "datadog.http_status_code", "datadog.span.kind", "datadog.error",
   "datadog.error.msg", "datadog.error.type", "datadog.error.stack"}

is_datadog_convention_key(key) ==
  key \in {"service.name", "operation.name", "resource.name", "span.type"} \cup DatadogPrefixed

\* Mutant: the keys of the Datadog convention are tags like others.
ConventionKeysKept(key) ==
  IF key \in DOMAIN http_mappings THEN http_mappings[key]
  ELSE IF key \in DOMAIN HeaderMapping THEN HeaderMapping[key]
  ELSE key

\* The tag an attribute becomes, or "" for none
get_dd_key_for_otlp_attribute(key) ==
  IF key \in DOMAIN http_mappings THEN http_mappings[key]
  ELSE IF key \in DOMAIN HeaderMapping THEN HeaderMapping[key]
  ELSE IF is_datadog_convention_key(key) THEN ""
  ELSE key

=============================================================================
