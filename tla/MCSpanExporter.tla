--------------------------- MODULE MCSpanExporter ---------------------------
(***************************************************************************)
(* SpanExporter on small instances.                                        *)
(***************************************************************************)
EXTENDS SpanExporter, TLC

CONSTANTS a, b, c1, c2, c3

\* The application threads are interchangeable.
ThreadSymmetry == Permutations(Threads)

\* A chunk of one span, one of two and one of three: with FlushThreshold = 1
\* and MaxBufferedSpans = 2 the batch is below and over both limits.
Lengths == c1 :> 1 @@ c2 :> 2 @@ c3 :> 3

Lengths2 == c1 :> 1 @@ c2 :> 2

Offered == {accepted[i] : i \in DOMAIN accepted} \cup refused

\* The instances explored: three chunks with the resource of the builder and a
\* worker that may fail; two chunks with resources set between them.
Bounded ==
  resources.latest > 0 => Offered \subseteq {c1, c2} /\ worker.outcome \notin {"failed", "panicked"}

=============================================================================
