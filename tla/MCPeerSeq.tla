------------------------------ MODULE MCPeerSeq ------------------------------
(***************************************************************************)
(* A small instance of PeerSeq: the origin writes to a local port, the     *)
(* viewer only fills queues.  Two payloads are sent in a life, the second  *)
(* by either.  When the viewer sends one, no connection is lost under both,*)
(* no send is cancelled and there is no fourth connection; a behaviour     *)
(* that would need one is then not a fair one.                             *)
(***************************************************************************)
EXTENDS PeerSeq

CONSTANTS origin, viewer

Each(i, j) == [m \in Nodes |-> IF m = origin THEN i ELSE j]

Payloads == Each(2, 1)
OriginRestarts == Each(1, 0)

Bounded == \/ made'[viewer] = 0
           \/ made'[origin] <= 1 /\ lost' + cut' = 0 /\ born'[MaxConns] = <<>>

MCSpec == Init /\ [][Next /\ Bounded]_vars /\ Fairness
=============================================================================
