---------------------------- MODULE MCRemoteConfig ----------------------------
(***************************************************************************)
(* Remote configuration on small instances: the client with the files the  *)
(* agent may send, and the tracker of the services its requests name.  A   *)
(* behaviour is one of either part.                                        *)
(***************************************************************************)
EXTENDS RemoteConfig, ExtraServices

CONSTANTS i1, i2, r1, r2

VARIABLE part

Tracing(id, content, listed) ==
  [product |-> "APM_TRACING", id |-> id, config |-> id, content |-> content, listed |-> listed]

\* Files that set, replace, clear and reject rules, listed in every way, and
\* one of another product.
AllFiles ==
  {Tracing(i1, c, "signed") : c \in {r1, "malformed", "undecodable"}}
    \cup {Tracing(i2, "null", "client"),
          [Tracing(i1, r2, "signed") EXCEPT !.config = i2],
          Tracing(i2, r1, "no"),
          [Tracing(i1, r1, "client") EXCEPT !.product = "other"]}

-----------------------------------------------------------------------------

AllVars == <<vars, trackerVars, part>>

MCInit == Init /\ TrackerInit /\ part \in {"client", "tracker"}

ClientPart == part = "client" /\ UNCHANGED <<trackerVars, part>>

MCNext ==
  \/ ClientPart /\ Next
  \/ part = "tracker" /\ TrackerNext /\ UNCHANGED <<vars, part>>

\* The fairness of RemoteConfig, for the behaviours of the client.
MCSpec ==
  /\ MCInit /\ [][MCNext]_AllVars
  /\ WF_vars(ClientPart /\ Synchronous)
  /\ WF_vars(ClientPart /\ build_request)
  /\ WF_vars(ClientPart /\ (Connected \/ ConnectFails))
  /\ SF_vars(ClientPart /\ DropsRunLoop)

=============================================================================
