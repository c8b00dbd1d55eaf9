---------------------------- MODULE MCPropagation ----------------------------
(***************************************************************************)
(* Instances of Propagation for TLC.                                       *)
(***************************************************************************)
EXTENDS Propagation, TLC

Both == <<"datadog", "tracecontext">>
Reversed == <<"tracecontext", "datadog">>

LOCAL Service(extracted, injected, max) ==
  [extract |-> extracted, inject |-> injected, extract_first |-> FALSE, max_length |-> max]

\* Services of one team, with all their tags
AllStyles ==
  {Service(Both, Both, 512), Service(Reversed, Reversed, 512), Service(Both, <<"tracecontext">>, 512),
   Service(<<"tracecontext", "none">>, Both, 512), Service(<<"datadog">>, Both, 512),
   [Service(Both, Both, 512) EXCEPT !.extract_first = TRUE]}

\* Services that do not pass on all tags
SmallHeaders ==
  {Service(Both, Both, 512), Service(Reversed, Reversed, 40), Service(Both, <<"datadog">>, 40),
   Service(<<"datadog">>, Both, 0), Service(<<"tracecontext">>, <<"tracecontext">>, 512)}

\* "_dd.p." is left out of the keys, "wide" leaves no room for tags, "broad" none
\* for the last parent, "long" is too long itself, and "big" takes half a member.
LOCAL Texts == Mechanisms \cup {"a=b", "a~b", "a;b", "a_b", "0", "5", "x", "xyz"}

TextLengths ==
  [key \in {tid, dm, OddKey, "_dd.p.odd_key", "_dd.p.x"} |-> Len(key) - 6]
    @@ [text \in Texts |-> Len(text)]
    @@ "wide" :> 226 @@ "broad" :> 240 @@ "long" :> 300 @@ "big" :> 115

UserAndAuto ==
  {[priority |-> USER_KEEP, mechanism |-> "-3"], [priority |-> AUTO_REJECT, mechanism |-> "-1"],
   [priority |-> -1, mechanism |-> "-3"]}

LOCAL Datadog ==
  [NoHeaders EXCEPT !.tid = <<"up", 0>>, !.parent = <<"u", 0>>, !.priority = AUTO_KEEP, !.origin = "a=b",
                    !.tags = tid :> "c3" @@ dm :> "-1"]

LOCAL TraceContext ==
  [NoHeaders EXCEPT
     !.traceparent = [version |-> "00", trace |-> <<"", <<"up", 0>>>>, span |-> <<"w", 0>>, tail |-> "",
                      flags |-> 1],
     !.tracestate = [s |-> USER_KEEP, o |-> "a~b", p |-> <<"u", 0>>, members |-> <<>>,
                     t |-> dm :> "-4" @@ tid :> "xyz"]]

LOCAL TP == TraceContext.traceparent
LOCAL TS == TraceContext.tracestate

\* Upstream says nothing, defers, decides, or does so in the other style.
Upstream ==
  {NoHeaders, Datadog, [Datadog EXCEPT !.priority = None], TraceContext,
   [Datadog EXCEPT !.origin = "a;b", !.priority = None], [Datadog EXCEPT !.origin = "wide"],
   [Datadog EXCEPT !.origin = "broad"], [Datadog EXCEPT !.origin = "long"]}

\* Upstream says things that do not fit together, or not in the right form.
OddUpstream ==
  {[Datadog EXCEPT !.tags = tid :> "c3" @@ dm :> "-1" @@ OddKey :> "x"],
   [Datadog EXCEPT !.tags = tid :> "c3" @@ dm :> "-1" @@ "_dd.p.x" :> "big"],
   [Datadog EXCEPT !.tags = tid :> "c3" @@ dm :> "-4"],
   [Datadog EXCEPT !.tags = OddKey :> "x" @@ "_dd.p.odd_key" :> "5", !.origin = None],
   [Datadog EXCEPT !.tags = tid :> "xyz"], [Datadog EXCEPT !.tags = tid :> "0" @@ dm :> "5"],
   [Datadog EXCEPT !.priority = Bad, !.parent = Bad], [Datadog EXCEPT !.tid = Bad],
   [TraceContext EXCEPT !.traceparent = [TP EXCEPT !.version = "ff"]],
   [TraceContext EXCEPT !.traceparent = [TP EXCEPT !.tail = "x"]],
   [TraceContext EXCEPT !.traceparent = [TP EXCEPT !.version = "01", !.tail = "x", !.flags = 3]],
   [TraceContext EXCEPT !.tracestate = [TS EXCEPT !.members = <<"bad">>]],
   [TraceContext EXCEPT !.tracestate = [TS EXCEPT !.s = -1]],
   [TraceContext EXCEPT !.tracestate = [TS EXCEPT !.s = AUTO_KEEP]],
   [TraceContext EXCEPT !.tracestate = [TS EXCEPT !.t = OddKey :> "x"]],
   [TraceContext EXCEPT !.tracestate = [TS EXCEPT !.s = None, !.o = None, !.p = None, !.t = <<>>]],
   [Datadog EXCEPT !.traceparent = TP, !.tracestate = TS],
   [Datadog EXCEPT !.traceparent = [TP EXCEPT !.trace = <<"c3", <<"up", 0>>>>], !.tracestate = NoTracestate]}

AllIncoming == Upstream \cup OddUpstream
AllConfigs == AllStyles \cup SmallHeaders

=============================================================================
