---------------------------- MODULE ExportQueue ----------------------------
(***************************************************************************)
(* What DatadogExporter promises its callers, without threads, flags or    *)
(* batches: a queue that hands the chunks it accepted to the agent client  *)
(* in the order it accepted them, each one once, accepts nothing once it   *)
(* has closed, and hands nothing over after that.                          *)
(***************************************************************************)
EXTENDS Naturals, Sequences

CONSTANTS Chunks

VARIABLES
  pending,    \* accepted, not yet handed over
  delivered,  \* handed over
  open        \* FALSE once the exporter has shut down

vars == <<pending, delivered, open>>

Init == pending = <<>> /\ delivered = <<>> /\ open = TRUE

Accept(c) ==
  /\ open
  /\ pending' = Append(pending, c)
  /\ UNCHANGED <<delivered, open>>

\* The oldest n chunks are handed over together.
Deliver(n) ==
  /\ open
  /\ delivered' = delivered \o SubSeq(pending, 1, n)
  /\ pending' = SubSeq(pending, n + 1, Len(pending))
  /\ UNCHANGED open

Close ==
  /\ open
  /\ open' = FALSE
  /\ UNCHANGED <<pending, delivered>>

Next ==
  \/ \E c \in Chunks : Accept(c)
  \/ \E n \in 1..Len(pending) : Deliver(n)
  \/ Close

Spec == Init /\ [][Next]_vars

=============================================================================
