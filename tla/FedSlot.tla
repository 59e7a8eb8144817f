------------------------------ MODULE FedSlot ------------------------------
(***************************************************************************)
(* The write slot of a port shared over MuxCon links.  The port's own      *)
(* server, the origin, arbitrates: a client of a peer server is a stream   *)
(* of its RemotePortProxy, mirrored on the origin as the pseudo-client     *)
(* "fed:<peer>:<stream id>", and asks with FEDRW frames that the origin    *)
(* answers with FEDRWACK.  An ack nobody waits for is the relay of a       *)
(* demotion the origin decided.                                            *)
(*                                                                         *)
(* Each peer has one path to the origin, a FIFO each way, and one read     *)
(* loop at each end that handles a frame to its end, sends included, before *)
(* it reads the next.  A stream's OPEN precedes its FEDRW frames on that    *)
(* path, so the origin always knows the stream a request names.             *)
(***************************************************************************)
EXTENDS Naturals, Sequences

CONSTANTS Locals,      \* the origin's own clients
          Streams,     \* the peers' clients, one stream each
          Peers,
          PeerOf,      \* PeerOf[s]: the peer whose client s is
          NoClient,    \* no named target, nobody
          Capacity,    \* the port's max_read_write_users
          MaxFlight    \* bound: frames on a path when a client asks

Clients == Locals \cup Streams

ASSUME FedSlotAssumption ==
         /\ Locals \cap Streams = {} /\ NoClient \notin Clients
         /\ PeerOf \in [Streams -> Peers]
         /\ Capacity \in {"none", "one", "multiple"}
         /\ MaxFlight \in Nat

VARIABLES seat,       \* seat[c]: c's record on the origin's port
          mode,       \* mode[s]: s's record on its peer's proxy
          pc,         \* pc[s]: the request s's handler waits in
          reply,      \* reply[s]: its future in _fedrw_pending
          up, down,   \* frames from a peer to the origin, and back
          loop,       \* loop[p]: the take the origin's read loop is inside
          notifying,  \* notifying[p]: whom p's read loop is demoting
          ltake       \* ltake[l]: the takeover of l's handler

originVars == <<seat, loop, ltake>>
peerVars == <<mode, pc, reply, notifying>>
vars == <<originVars, peerVars, up, down>>

Origin == INSTANCE PortSeats

Modes == Origin!Attached
NoTake == [taker |-> NoClient, victim |-> NoClient]
NoLocalTake == [step |-> "idle", victim |-> NoClient]

Frames == [kind : {"open", "close", "request", "release", "take"},
           s : Streams, target : Clients \cup {NoClient}]
Acks == [s : Streams, mode : Modes]

TypeOK ==
    /\ seat \in [Clients -> Origin!Seats]
    /\ mode \in [Streams -> Origin!Seats]
    /\ pc \in [Streams -> {"idle", "request", "release", "take", "mirror"}]
    /\ reply \in [Streams -> Modes \cup {"none", "pending"}]
    /\ up \in [Peers -> Seq(Frames)]
    /\ down \in [Peers -> Seq(Acks)]
    /\ loop \in [Peers -> [taker : Streams, victim : Clients] \cup {NoTake}]
    /\ notifying \in [Peers -> Streams \cup {NoClient}]
    /\ ltake \in [Locals -> [step : {"demoted", "promoted"}, victim : Clients]
                              \cup {NoLocalTake}]

Init == /\ Origin!Init
        /\ mode = [s \in Streams |-> "absent"]
        /\ pc = [s \in Streams |-> "idle"]
        /\ reply = [s \in Streams |-> "none"]
        /\ up = [p \in Peers |-> <<>>]
        /\ down = [p \in Peers |-> <<>>]
        /\ loop = [p \in Peers |-> NoTake]
        /\ notifying = [p \in Peers |-> NoClient]
        /\ ltake = [l \in Locals |-> NoLocalTake]

-----------------------------------------------------------------------------
(* The peer: one handler per client, over the proxy's own records *)

Frame(kind, s, t) == [kind |-> kind, s |-> s, target |-> t]

Send(s, frames) == up' = [up EXCEPT ![PeerOf[s]] = @ \o frames]

(* _request_fedrw: register the future, send, wait.                         *)
Await(s, step) == /\ pc' = [pc EXCEPT ![s] = step]
                  /\ reply' = [reply EXCEPT ![s] = "pending"]

Calm(s) == Len(up[PeerOf[s]]) + Len(down[PeerOf[s]]) < MaxFlight

CanAsk(s) == pc[s] = "idle" /\ mode[s] # "absent" /\ Calm(s)

(* A stream id is drawn afresh for every attach, so nothing of an earlier   *)
(* stream of that id is left anywhere.                                      *)
Fresh(s) ==
    /\ mode[s] = "absent" /\ seat[s] = "absent" /\ pc[s] = "idle"
    /\ \A i \in 1..Len(up[PeerOf[s]]) : up[PeerOf[s]][i].s # s
    /\ \A p \in Peers : \A i \in 1..Len(up[p]) : up[p][i].target # s
    /\ \A i \in 1..Len(down[PeerOf[s]]) : down[PeerOf[s]][i].s # s
    /\ \A p \in Peers : s \notin {loop[p].taker, loop[p].victim, notifying[p]}
    /\ \A l \in Locals : ltake[l].victim # s

(* connect_client_to_port on a proxy: the record is read-only, the stream   *)
(* opens, and a client entitled to drive asks the origin.                   *)
Attach(s, wants) ==
    /\ Fresh(s) /\ Calm(s)
    /\ mode' = [mode EXCEPT ![s] = "read-only"]
    /\ IF wants
       THEN /\ Send(s, <<Frame("open", s, NoClient), Frame("request", s, NoClient)>>)
            /\ Await(s, "request")
       ELSE /\ Send(s, <<Frame("open", s, NoClient)>>)
            /\ UNCHANGED <<pc, reply>>
    /\ UNCHANGED <<originVars, down, notifying>>

Request(s) == /\ CanAsk(s)
              /\ Send(s, <<Frame("request", s, NoClient)>>)
              /\ Await(s, "request")
              /\ UNCHANGED <<originVars, down, mode, notifying>>

(* demote_client_to_read_only: the local record first, then the origin.     *)
Release(s) == /\ CanAsk(s)
              /\ mode' = [mode EXCEPT ![s] = "read-only"]
              /\ Send(s, <<Frame("release", s, NoClient)>>)
              /\ Await(s, "release")
              /\ UNCHANGED <<originVars, down, notifying>>

(* take_write_slot_for_client: a target this proxy does not list (a holder  *)
(* of another server, one who has left) becomes "latest".                   *)
TargetSpec(s, t) ==
    IF t \in Streams /\ PeerOf[t] = PeerOf[s] /\ mode[t] # "absent"
    THEN t ELSE NoClient

Take(s, t) == /\ CanAsk(s)
              /\ Send(s, <<Frame("take", s, TargetSpec(s, t))>>)
              /\ Await(s, "take")
              /\ UNCHANGED <<originVars, down, mode, notifying>>

(* promote_client on the proxy counts the proxy's own clients only.         *)
Drivers(p) == {s \in Streams : PeerOf[s] = p /\ mode[s] = "read-write"}
CanMirror(s) == /\ mode[s] # "absent"
                /\ mode[s] = "read-write" \/ Origin!HasRoom(Drivers(PeerOf[s]))

Answered(s) == reply[s] \in Modes

(* The handler goes on; finally, the future is popped.                      *)
Rest(s) == /\ pc' = [pc EXCEPT ![s] = "idle"]
           /\ reply' = [reply EXCEPT ![s] = "none"]

FinishRequest(s) ==
    /\ pc[s] \in {"request", "mirror"} /\ Answered(s)
    /\ mode' = [mode EXCEPT ![s] = IF reply[s] = "read-write" /\ CanMirror(s)
                                   THEN "read-write" ELSE @]
    /\ Rest(s)
    /\ UNCHANGED <<originVars, up, down, notifying>>

FinishRelease(s) == /\ pc[s] = "release" /\ Answered(s)
                    /\ Rest(s)
                    /\ UNCHANGED <<originVars, up, down, mode, notifying>>

(* A granted take is mirrored by promote_client_to_read_write, which asks   *)
(* the origin once more.                                                    *)
FinishTake(s) ==
    /\ pc[s] = "take" /\ Answered(s)
    /\ IF reply[s] = "read-write" /\ mode[s] # "absent"
       THEN Send(s, <<Frame("request", s, NoClient)>>) /\ Await(s, "mirror")
       ELSE Rest(s) /\ UNCHANGED up
    /\ UNCHANGED <<originVars, down, mode, notifying>>

(* No answer within 3 s counts as read-only.                                *)
Timeout(s) == /\ pc[s] # "idle" /\ reply[s] = "pending"
              /\ Rest(s)
              /\ UNCHANGED <<originVars, up, down, mode, notifying>>

(* A variant for comparison: the CLOSE is left to the waiting handler.      *)
DetachQuietly(s) == /\ mode[s] # "absent"
                    /\ mode' = [mode EXCEPT ![s] = "absent"]
                    /\ IF pc[s] = "idle" THEN Send(s, <<Frame("close", s, NoClient)>>)
                       ELSE UNCHANGED up
                    /\ UNCHANGED <<originVars, down, pc, reply, notifying>>

(* disconnect_client_from_port, by the session or by a listener's stop()    *)
(* while a request is still waiting.                                        *)
Detach(s) == /\ mode[s] # "absent"
             /\ mode' = [mode EXCEPT ![s] = "absent"]
             /\ Send(s, <<Frame("close", s, NoClient)>>)
             /\ UNCHANGED <<originVars, down, pc, reply, notifying>>

-----------------------------------------------------------------------------
(* The peer's read loop: FEDRWACK *)

Heard(p) == /\ notifying[p] = NoClient
            /\ down[p] # <<>>
            /\ down' = [down EXCEPT ![p] = Tail(@)]

(* A pending future takes the ack, whatever request it belongs to.          *)
AckAnswers(p) == /\ Heard(p)
                 /\ LET f == Head(down[p])
                    IN  /\ reply[f.s] = "pending"
                        /\ reply' = [reply EXCEPT ![f.s] = f.mode]
                 /\ UNCHANGED <<originVars, up, mode, pc, notifying>>

(* A variant for comparison: an unsolicited demotion is a demotion like any. *)
NotifyOriginToo == TRUE

(* notify_origin=False: the demotion an unsolicited ack makes does not ask  *)
(* the origin to release, which would wait for this very read loop.         *)
NotifyOrigin == FALSE

AckDemotes(p) ==
    /\ Heard(p)
    /\ LET f == Head(down[p])
       IN  /\ reply[f.s] # "pending"
           /\ f.mode = "read-only" /\ mode[f.s] # "absent"
           /\ mode' = [mode EXCEPT ![f.s] = "read-only"]
           /\ notifying' = [notifying EXCEPT ![p] = f.s]
           /\ IF NotifyOrigin
              THEN /\ Send(f.s, <<Frame("release", f.s, NoClient)>>)
                   /\ reply' = [reply EXCEPT ![f.s] = "pending"]
              ELSE UNCHANGED <<up, reply>>
    /\ UNCHANGED <<originVars, pc>>

AckIgnored(p) == /\ Heard(p)
                 /\ LET f == Head(down[p])
                    IN  /\ reply[f.s] # "pending"
                        /\ f.mode = "read-write" \/ mode[f.s] = "absent"
                 /\ UNCHANGED <<originVars, peerVars, up>>

(* The demotion's presence broadcast and notice are out.                    *)
Notified(p) == /\ notifying[p] # NoClient
               /\ NotifyOrigin => reply[notifying[p]] # "pending"
               /\ notifying' = [notifying EXCEPT ![p] = NoClient]
               /\ UNCHANGED <<originVars, up, down, mode, pc, reply>>

-----------------------------------------------------------------------------
(* The origin's read loops: OPEN, CLOSE and FEDRW *)

Writers == Origin!Writers
CanPromote(c) == /\ seat[c] # "absent"
                 /\ seat[c] = "read-write" \/ Origin!HasRoom(Writers)

SetSeat(c, m) == seat' = [seat EXCEPT ![c] = m]

(* p's read loop is free and the frame at the head of its path is a kind.   *)
Gets(p, kind) == /\ loop[p] = NoTake
                 /\ up[p] # <<>>
                 /\ Head(up[p]).kind = kind
                 /\ up' = [up EXCEPT ![p] = Tail(@)]

(* _connected_client_mode: read-only stands for no record as well.          *)
Told(m) == IF m = "absent" THEN "read-only" ELSE m
Ack(s, m) ==
    down' = [down EXCEPT ![PeerOf[s]] = Append(@, [s |-> s, mode |-> Told(m)])]

(* FEDRWACK relays a demotion to the peer of a stream; an origin client is  *)
(* told over its own channel.                                               *)
Relay(v) == IF v \in Streams /\ seat[v] # "absent"
            THEN Ack(v, "read-only") ELSE UNCHANGED down

OriginOpen(p) == /\ Gets(p, "open")
                 /\ SetSeat(Head(up[p]).s, "read-only")
                 /\ UNCHANGED <<peerVars, down, loop, ltake>>

(* A variant for comparison: a CLOSE only stops the pump.                   *)
OriginClosePumpOnly(p) == /\ Gets(p, "close")
                          /\ UNCHANGED <<originVars, peerVars, down>>

OriginClose(p) == /\ Gets(p, "close")
                  /\ SetSeat(Head(up[p]).s, "absent")
                  /\ UNCHANGED <<peerVars, down, loop, ltake>>

(* A REQUEST, or a take of a slot nobody else holds: the ack says what the  *)
(* mirror holds afterwards.                                                 *)
Arbitrate(s) ==
    LET m == IF CanPromote(s) THEN "read-write" ELSE seat[s]
    IN  SetSeat(s, m) /\ Ack(s, m)

OriginRequest(p) == /\ Gets(p, "request")
                    /\ Arbitrate(Head(up[p]).s)
                    /\ UNCHANGED <<peerVars, loop, ltake>>

OriginRelease(p) == /\ Gets(p, "release")
                    /\ LET s == Head(up[p]).s
                       IN  /\ SetSeat(s, IF seat[s] = "absent" THEN "absent"
                                         ELSE "read-only")
                           /\ Ack(s, "read-only")
                    /\ UNCHANGED <<peerVars, loop, ltake>>

(* _resolve_fedrw_take_target.                                              *)
Candidates(f) == {v \in Writers \ {f.s} : f.target \in {NoClient, v}}

OriginTakeNobody(p) ==
    /\ Gets(p, "take")
    /\ LET f == Head(up[p])
       IN  /\ Candidates(f) = {}
           /\ IF f.target = NoClient THEN Arbitrate(f.s)
              ELSE Ack(f.s, seat[f.s]) /\ UNCHANGED seat
    /\ UNCHANGED <<peerVars, loop, ltake>>

(* The victim is demoted and told, then the loop suspends in those sends.   *)
OriginTakeDemote(p) ==
    /\ Gets(p, "take")
    /\ \E v \in Candidates(Head(up[p])) :
         /\ SetSeat(v, "read-only")
         /\ Relay(v)
         /\ loop' = [loop EXCEPT ![p] = [taker |-> Head(up[p]).s, victim |-> v]]
    /\ UNCHANGED <<peerVars, ltake>>

(* A variant for comparison: the victim is put back without asking whether  *)
(* it may be.                                                               *)
RestoredBlindly(v) == "read-write"
RestoredSeat(v) == IF CanPromote(v) THEN "read-write" ELSE seat[v]

OriginTakeFinish(p) ==
    /\ loop[p] # NoTake
    /\ LET s == loop[p].taker
           v == loop[p].victim
       IN  IF CanPromote(s)
           THEN SetSeat(s, "read-write") /\ Ack(s, "read-write")
           ELSE SetSeat(v, RestoredSeat(v)) /\ Ack(s, seat[s])
    /\ loop' = [loop EXCEPT ![p] = NoTake]
    /\ UNCHANGED <<peerVars, up, ltake>>

-----------------------------------------------------------------------------
(* The origin's own clients (WriteSlot, less what the peers cannot see) *)

localVars == <<peerVars, up, loop>>
Idle(l) == ltake[l] = NoLocalTake

LocalJoin(l, m) == /\ seat[l] = "absent"
                   /\ m = "read-write" => Origin!HasRoom(Writers)
                   /\ SetSeat(l, m)
                   /\ UNCHANGED <<localVars, down, ltake>>

LocalRequest(l) == /\ Idle(l) /\ CanPromote(l)
                   /\ SetSeat(l, "read-write")
                   /\ UNCHANGED <<localVars, down, ltake>>

LocalRelease(l) == /\ Idle(l) /\ seat[l] = "read-write"
                   /\ SetSeat(l, "read-only")
                   /\ UNCHANGED <<localVars, down, ltake>>

LocalLeave(l) == /\ Idle(l) /\ seat[l] # "absent"
                 /\ SetSeat(l, "absent")
                 /\ UNCHANGED <<localVars, down, ltake>>

LocalTakeDemote(l, v) ==
    /\ Idle(l) /\ seat[l] # "absent" /\ Capacity = "one"
    /\ v \in Writers \ {l}
    /\ SetSeat(v, "read-only")
    /\ ltake' = [ltake EXCEPT ![l] = [step |-> "demoted", victim |-> v]]
    /\ UNCHANGED <<localVars, down>>

LocalTakePromote(l) ==
    /\ ltake[l].step = "demoted"
    /\ IF CanPromote(l)
       THEN /\ SetSeat(l, "read-write")
            /\ ltake' = [ltake EXCEPT ![l].step = "promoted"]
       ELSE /\ SetSeat(ltake[l].victim, RestoredSeat(ltake[l].victim))
            /\ ltake' = [ltake EXCEPT ![l] = NoLocalTake]
    /\ UNCHANGED <<localVars, down>>

LocalTakeNotify(l) == /\ ltake[l].step = "promoted"
                      /\ Relay(ltake[l].victim)
                      /\ ltake' = [ltake EXCEPT ![l] = NoLocalTake]
                      /\ UNCHANGED <<localVars, seat>>

-----------------------------------------------------------------------------
ClientStep(s) == FinishRequest(s) \/ FinishRelease(s) \/ FinishTake(s)

PeerLoop(p) == AckAnswers(p) \/ AckDemotes(p) \/ AckIgnored(p) \/ Notified(p)

OriginLoop(p) == \/ OriginOpen(p) \/ OriginClose(p)
                 \/ OriginRequest(p) \/ OriginRelease(p)
                 \/ OriginTakeNobody(p) \/ OriginTakeDemote(p) \/ OriginTakeFinish(p)

LocalTake(l) == \/ \E v \in Clients : LocalTakeDemote(l, v)
                \/ LocalTakePromote(l)
                \/ LocalTakeNotify(l)

Next == \/ \E s \in Streams : \/ \E wants \in BOOLEAN : Attach(s, wants)
                              \/ Request(s) \/ Release(s)
                              \/ \E t \in Clients \cup {NoClient} : Take(s, t)
                              \/ ClientStep(s) \/ Timeout(s) \/ Detach(s)
        \/ \E p \in Peers : PeerLoop(p) \/ OriginLoop(p)
        \/ \E l \in Locals : \/ \E m \in Modes : LocalJoin(l, m)
                             \/ LocalRequest(l) \/ LocalRelease(l) \/ LocalLeave(l)
                             \/ LocalTake(l)

Spec == Init /\ [][Next]_vars

(* The event loop runs every ready task; nobody has to ask, leave or let a  *)
(* timer expire.                                                            *)
Fairness == /\ \A s \in Streams : WF_vars(ClientStep(s))
            /\ \A p \in Peers : WF_vars(PeerLoop(p)) /\ WF_vars(OriginLoop(p))

FairSpec == Spec /\ Fairness

-----------------------------------------------------------------------------
(* Properties *)

(* A handler that is not waiting has left no future behind to swallow the   *)
(* relay of a later demotion (inductive; see FedSlotProofs).                *)
NoForgottenFuture == \A s \in Streams : pc[s] = "idle" <=> reply[s] = "none"

IndInv == TypeOK /\ NoForgottenFuture

(* The origin is the sole arbiter: whatever the peers, their timeouts and   *)
(* the origin's own clients do, its seats change one at a time and nobody   *)
(* is made a driver where there is no room (promote_client, _handle_fedrw). *)
OriginSeats == Origin!Spec

(* A peer's client that has gone, once its CLOSE is handled, and only then, *)
(* leaves no mirror behind: it would hold the slot for good (issue #52).    *)
NoOrphanMirror ==
    \A s \in Streams : up[PeerOf[s]] = <<>> =>
                         (mode[s] = "absent" <=> seat[s] = "absent")

(* Every request is answered without any timer having to expire: no read    *)
(* loop ever waits for a frame it has to read itself.                       *)
RequestsAnswered == \A s \in Streams : pc[s] # "idle" ~> pc[s] = "idle"

(* The slot of a client that leaves is freed.                               *)
SlotsFreed == \A s \in Streams : mode[s] = "absent" ~> seat[s] = "absent"

(* Nothing about s is under way anywhere.                                   *)
Settled(s) == /\ up[PeerOf[s]] = <<>> /\ down[PeerOf[s]] = <<>>
              /\ pc[s] = "idle"
              /\ \A p \in Peers : s \notin {loop[p].taker, loop[p].victim, notifying[p]}
              /\ \A l \in Locals : ltake[l].victim # s

(* A seat the origin keeps for a stream is known to the stream's peer: a    *)
(* request that failed closed does not go on holding the shared slot.       *)
NoLeakedSlot == \A s \in Streams :
                  Settled(s) /\ seat[s] = "read-write" => mode[s] = "read-write"

(* request_read_write_for_client (muxcon.py:8563): "Returns the resulting   *)
(* mode the origin reports".  What answers a request is not a demotion the  *)
(* origin decided before it came to that request: no frame of a client with *)
(* an answer is still on its way or at work.                                *)
Unread(s, kind) == \E i \in DOMAIN up[PeerOf[s]] :
                      up[PeerOf[s]][i].s = s /\ up[PeerOf[s]][i].kind = kind

AnswerIsTheOrigins ==
    \A s \in Streams : Answered(s) =>
        /\ \A kind \in {"request", "release", "take"} : ~Unread(s, kind)
        /\ loop[PeerOf[s]].taker # s
=============================================================================
