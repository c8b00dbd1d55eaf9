-------------------------- MODULE MCTraceRegistry --------------------------
(***************************************************************************)
(* The trace registry on small instances, and the context labels that      *)
(* threads publish from it.  A behaviour is one of either part.            *)
(***************************************************************************)
EXTENDS TraceRegistry, ContextLabels, TLC

CONSTANTS s1, s2, s3, s4, t1, t2

ThreeSpans == {s1, s2, s3}
FourSpans == {s1, s2, s3, s4}
SpanSymmetry == Permutations(Spans)

\* Span ids are used in this order, which loses nothing: a new span may take
\* any id that is free.
InOrder == \A i \in 2..4 :
  LET order == <<s1, s2, s3, s4>>
  IN order[i] \in Spans /\ spans[order[i]].stage # "unborn" => spans[order[i - 1]].stage # "unborn"

OneShard == [t \in Traces |-> 1]
ShardEach == t1 :> 1 @@ t2 :> 2

KeepAndReject == {0, 2}

-----------------------------------------------------------------------------
(* Two threads publish the labels of two traces: one with a route on its   *)
(* root, a child without one and the span of another service; one whose     *)
(* remote parent was not sampled.                                          *)

CONSTANTS root, child, other, remote, dropped

VARIABLE part

TwoThreads == {t1, t2}
FiveSpans == {root, child, other, remote, dropped}
TwoTraces == [s \in FiveSpans |-> IF s \in {root, child, remote} THEN 1 ELSE 2]
RootRoutes == [s \in FiveSpans |-> CASE s = root -> "/a" [] s = other -> "/b" [] OTHER -> None]
OthersSpans == {remote, dropped}
AllButDropped == FiveSpans \ {dropped}

AllVars == <<vars, part, labelVars>>

MCInit == Init /\ LabelsInit /\ part \in {"registry", "labels"}

MCNext ==
  \/ part = "registry" /\ Next /\ UNCHANGED <<part, labelVars>>
  \/ part = "labels" /\ LabelsNext /\ UNCHANGED <<part, vars>>

MCSpec == MCInit /\ [][MCNext]_AllVars

\* The instances explored: up to three spans in two traces that the sampler
\* announced, with the collector; four spans of one trace with roots of every
\* kind, announced or not.
Bounded ==
  LET born   == {s \in Spans : spans[s].stage # "unborn"}
      traces == {spans[s].trace : s \in born}
      collecting == collector.shard # 1 \/ collector.rounds # 0
  IN /\ InOrder
     /\ \/ Cardinality(born) <= 3 /\ \A t \in traces : AnnouncedOnce(t)
        \/ traces \subseteq {t1} /\ ~collecting

=============================================================================
