------------------------------ MODULE MCPeers ------------------------------
(***************************************************************************)
(* The link of two servers in one run: Init picks what a behaviour is      *)
(* about, the streams a user of one server has to two ports of the other,  *)
(* or the paths to a peer.  Each is fair in its own behaviours.            *)
(***************************************************************************)
EXTENDS FedStreams

CONSTANTS viewer, origin, alice, console1, console2,    \* of FedStreams
          Out, In, MaxAge, MaxInstance                  \* MuxLinks

VARIABLES which,
          opt, task, conn, net, gen, rx, group, primary, changed, closing, tail,
          live, due, pinged, swept, instance, going

pathVars == <<opt, task, conn, net, gen, rx, group, primary, changed, closing, tail,
              live, due, pinged, swept, instance, going>>

Links == INSTANCE MuxLinks WITH wire <- net, asked <- pinged, leaving <- going

AtViewer == [u \in Users |-> viewer]
OriginOnly == [n \in Nodes |-> IF n = origin THEN {console1, console2} ELSE {}]
ViewerOnce == [n \in Nodes |-> IF n = viewer THEN 1 ELSE 0]

MCInit == /\ which \in {"streams", "links"}
          /\ Init /\ Links!Init
          /\ which # "links" => opt = CHOOSE o \in Links!Options : TRUE

MCNext == /\ UNCHANGED which
          /\ \/ which = "streams" /\ Next /\ UNCHANGED pathVars
             \/ which = "links" /\ Links!Next /\ UNCHANGED vars

MCSpec ==
    /\ MCInit /\ [][MCNext]_<<which, vars, pathVars>>
    /\ SF_vars(which = "streams" /\ Dial)
    /\ \A n \in Nodes, c \in Conns : WF_vars(which = "streams" /\ Loop(n, c))
    /\ \A u \in Users : WF_vars(which = "streams" /\ Handler(u))
    /\ \A p \in Links!Paths : WF_pathVars(which = "links" /\ Links!Loop(p))
    /\ WF_pathVars(which = "links" /\ Links!StopsWaiting)
    /\ WF_pathVars(which = "links" /\ Links!Heartbeat)
    /\ WF_pathVars(which = "links" /\ ~swept /\ Links!Sweep)
    /\ WF_pathVars(which = "links" /\ Links!Tick)
-----------------------------------------------------------------------------
(* _mpath_failover_loop: while some path stays good, the primary is, again *)
(* and again, one that works.                                              *)
FailsOver == Links!FailsOver

(* _mfl_prune_one_idle: a path that went silent is dropped in the end.     *)
SilentIsDropped == Links!SilentIsDropped
=============================================================================
