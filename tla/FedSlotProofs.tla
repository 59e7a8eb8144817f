--------------------------- MODULE FedSlotProofs ---------------------------
(***************************************************************************)
(* Proofs about FedSlot, for every set of origin clients, peers and        *)
(* streams, every write mode and every number of frames in flight.         *)
(***************************************************************************)
EXTENDS FedSlot, TLAPS

LEMMA InitInv == Init => IndInv
  BY FedSlotAssumption
  DEF Init, IndInv, TypeOK, NoForgottenFuture, NoTake, NoLocalTake,
      Origin!Init, Origin!Seats, Origin!Attached

(* The frames a client sends are frames, and go on its peer's path.        *)
LEMMA SendType ==
  ASSUME TypeOK, NEW s \in Streams, NEW frames \in Seq(Frames), Send(s, frames)
  PROVE  up' \in [Peers -> Seq(Frames)]
<1>1. PeerOf[s] \in Peers /\ up[PeerOf[s]] \in Seq(Frames)
  BY FedSlotAssumption DEF TypeOK
<1>2. up[PeerOf[s]] \o frames \in Seq(Frames)
  BY <1>1
<1> QED
  BY <1>1, <1>2 DEF Send, TypeOK

LEMMA FrameType ==
  ASSUME NEW s \in Streams, NEW t \in Clients \cup {NoClient},
         NEW kind \in {"open", "close", "request", "release", "take"}
  PROVE  Frame(kind, s, t) \in Frames
  BY DEF Frame, Frames

LEMMA AckType ==
  ASSUME TypeOK, NEW s \in Streams, NEW m \in Origin!Seats, Ack(s, m)
  PROVE  down' \in [Peers -> Seq(Acks)]
<1>1. PeerOf[s] \in Peers /\ down[PeerOf[s]] \in Seq(Acks)
  BY FedSlotAssumption DEF TypeOK
<1>2. [s |-> s, mode |-> Told(m)] \in Acks
  BY DEF Acks, Told, Modes, Origin!Seats, Origin!Attached
<1>3. Append(down[PeerOf[s]], [s |-> s, mode |-> Told(m)]) \in Seq(Acks)
  BY <1>1, <1>2
<1> QED
  BY <1>1, <1>3 DEF Ack, TypeOK

(* The head of a path is a frame, and what is left of it is a path.        *)
LEMMA GetsType ==
  ASSUME TypeOK, NEW p \in Peers, NEW kind, Gets(p, kind)
  PROVE  /\ Head(up[p]) \in Frames
         /\ Head(up[p]).s \in Streams
         /\ Head(up[p]).target \in Clients \cup {NoClient}
         /\ up' \in [Peers -> Seq(Frames)]
<1>1. up[p] \in Seq(Frames) /\ up[p] # <<>>
  BY DEF TypeOK, Gets
<1>2. Head(up[p]) \in Frames /\ Tail(up[p]) \in Seq(Frames)
  BY <1>1
<1>3. Head(up[p]).s \in Streams /\ Head(up[p]).target \in Clients \cup {NoClient}
  BY <1>2 DEF Frames
<1> QED
  BY <1>2, <1>3 DEF Gets, TypeOK

LEMMA HeardType ==
  ASSUME TypeOK, NEW p \in Peers, Heard(p)
  PROVE  /\ Head(down[p]).s \in Streams
         /\ Head(down[p]).mode \in Modes
         /\ down' \in [Peers -> Seq(Acks)]
<1>1. down[p] \in Seq(Acks) /\ down[p] # <<>>
  BY DEF TypeOK, Heard
<1>2. Head(down[p]) \in Acks /\ Tail(down[p]) \in Seq(Acks)
  BY <1>1
<1>3. Head(down[p]).s \in Streams /\ Head(down[p]).mode \in Modes
  BY <1>2 DEF Acks
<1> QED
  BY <1>2, <1>3 DEF Heard, TypeOK

(* What the peers' clients and read loops do never touches the origin.     *)
LEMMA PeerStepInv ==
  ASSUME IndInv, NEW s \in Streams, NEW p \in Peers,
         NEW wants \in BOOLEAN, NEW t \in Clients \cup {NoClient},
         \/ Attach(s, wants) \/ Request(s) \/ Release(s) \/ Take(s, t)
         \/ ClientStep(s) \/ Timeout(s) \/ Detach(s) \/ PeerLoop(p)
  PROVE  IndInv' /\ UNCHANGED seat
<1> USE FedSlotAssumption
    DEF IndInv, NoForgottenFuture, originVars, Origin!Seats, Origin!Attached, Modes
<1> DEFINE Fine == /\ mode' \in [Streams -> Origin!Seats]
                   /\ pc' \in [Streams -> {"idle", "request", "release", "take", "mirror"}]
                   /\ reply' \in [Streams -> Modes \cup {"none", "pending"}]
                   /\ notifying' \in [Peers -> Streams \cup {NoClient}]
                   /\ NoForgottenFuture'
                   /\ UNCHANGED originVars
<1>0. ASSUME Fine, up' \in [Peers -> Seq(Frames)], down' \in [Peers -> Seq(Acks)]
      PROVE  IndInv' /\ UNCHANGED seat
  BY <1>0 DEF TypeOK
<1>1. \A k \in {"open", "close", "request", "release", "take"} :
        \A x \in Streams : \A y \in Clients \cup {NoClient} :
           <<Frame(k, x, y)>> \in Seq(Frames)
  BY FrameType
<1>2. <<Frame("open", s, NoClient), Frame("request", s, NoClient)>> \in Seq(Frames)
  BY FrameType
<1>3. CASE Attach(s, wants)
  <2>1. Fine
    BY <1>3 DEF Attach, Await, Fresh, TypeOK
  <2>2. up' \in [Peers -> Seq(Frames)]
    <3>1. CASE wants
      BY <3>1, <1>2, <1>3, SendType DEF Attach
    <3>2. CASE ~wants
      BY <3>2, <1>1, <1>3, SendType DEF Attach
    <3> QED
      BY <3>1, <3>2
  <2> QED
    BY <2>1, <2>2, <1>0, <1>3 DEF Attach, TypeOK
<1>4. CASE Request(s)
  <2>1. Fine
    BY <1>4 DEF Request, Await, TypeOK
  <2>2. up' \in [Peers -> Seq(Frames)]
    BY <1>1, <1>4, SendType DEF Request
  <2> QED
    BY <2>1, <2>2, <1>0, <1>4 DEF Request, TypeOK
<1>5. CASE Release(s)
  <2>1. Fine
    BY <1>5 DEF Release, Await, TypeOK
  <2>2. up' \in [Peers -> Seq(Frames)]
    BY <1>1, <1>5, SendType DEF Release
  <2> QED
    BY <2>1, <2>2, <1>0, <1>5 DEF Release, TypeOK
<1>6. CASE Take(s, t)
  <2>1. Fine
    BY <1>6 DEF Take, Await, TypeOK
  <2>2. TargetSpec(s, t) \in Clients \cup {NoClient}
    BY DEF TargetSpec
  <2>3. up' \in [Peers -> Seq(Frames)]
    BY <2>2, <1>1, <1>6, SendType DEF Take
  <2> QED
    BY <2>1, <2>3, <1>0, <1>6 DEF Take, TypeOK
<1>7. CASE FinishRequest(s)
  BY <1>7, <1>0 DEF FinishRequest, Rest, TypeOK
<1>8. CASE FinishRelease(s)
  BY <1>8, <1>0 DEF FinishRelease, Rest, TypeOK
<1>9. CASE FinishTake(s)
  <2>1. Fine
    BY <1>9, ZenonT(40) DEF FinishTake, Rest, Await, TypeOK
  <2>2. up' \in [Peers -> Seq(Frames)]
    <3>1. CASE UNCHANGED up
      BY <3>1 DEF TypeOK
    <3>2. CASE Send(s, <<Frame("request", s, NoClient)>>)
      BY <3>2, <1>1, SendType
    <3> QED
      BY <3>1, <3>2, <1>9 DEF FinishTake
  <2> QED
    BY <2>1, <2>2, <1>0, <1>9 DEF FinishTake, TypeOK
<1>10. CASE Timeout(s)
  BY <1>10, <1>0 DEF Timeout, Rest, TypeOK
<1>11. CASE Detach(s)
  <2>1. Fine
    BY <1>11 DEF Detach, TypeOK
  <2>2. up' \in [Peers -> Seq(Frames)]
    BY <1>1, <1>11, SendType DEF Detach
  <2> QED
    BY <2>1, <2>2, <1>0, <1>11 DEF Detach, TypeOK
<1>12. CASE AckAnswers(p)
  <2>1. Fine
    BY <1>12, HeardType DEF AckAnswers, TypeOK
  <2> QED
    BY <2>1, <1>12, <1>0, HeardType DEF AckAnswers, TypeOK
<1>13. CASE AckDemotes(p)
  <2>1. Fine
    BY <1>13, HeardType DEF AckDemotes, NotifyOrigin, TypeOK
  <2> QED
    BY <2>1, <1>13, <1>0, HeardType DEF AckDemotes, NotifyOrigin, TypeOK
<1>14. CASE AckIgnored(p)
  <2>1. Fine
    BY <1>14 DEF AckIgnored, peerVars, TypeOK
  <2> QED
    BY <2>1, <1>14, <1>0, HeardType DEF AckIgnored, TypeOK
<1>15. CASE Notified(p)
  BY <1>15, <1>0 DEF Notified, TypeOK
<1> QED
  BY <1>3, <1>4, <1>5, <1>6, <1>7, <1>8, <1>9, <1>10, <1>11, <1>12, <1>13,
     <1>14, <1>15
  DEF ClientStep, PeerLoop

(* Giving c the seat m is a step of the port's seats, if there is room for *)
(* c wherever m drives.                                                    *)
LEMMA SeatStep ==
  ASSUME TypeOK, NEW c \in Clients, NEW m \in Origin!Seats, SetSeat(c, m),
         m = "read-write" => \/ CanPromote(c)
                             \/ seat[c] = "absent" /\ Origin!HasRoom(Writers)
  PROVE  [Origin!Next]_seat /\ seat' \in [Clients -> Origin!Seats]
<1> USE DEF SetSeat, TypeOK, Origin!Seats, Origin!Attached
<1>1. CASE m = seat[c]
  BY <1>1
<1>2. CASE m = "absent" /\ m # seat[c]
  <2>1. Origin!Leave(c)
    BY <1>2 DEF Origin!Leave
  <2> QED
    BY <2>1 DEF Origin!Next
<1>3. CASE seat[c] = "absent" /\ m # "absent"
  <2>1. Origin!Join(c, m)
    BY <1>3 DEF Origin!Join, CanPromote, Writers
  <2> QED
    BY <1>3, <2>1 DEF Origin!Next
<1>4. CASE seat[c] = "read-only" /\ m = "read-write"
  <2>1. Origin!Grant(c)
    BY <1>4 DEF Origin!Grant, CanPromote, Writers
  <2> QED
    BY <2>1 DEF Origin!Next
<1>5. CASE seat[c] = "read-write" /\ m = "read-only"
  <2>1. Origin!Release(c)
    BY <1>5 DEF Origin!Release
  <2> QED
    BY <2>1 DEF Origin!Next
<1> QED
  BY <1>1, <1>2, <1>3, <1>4, <1>5

LEMMA ArbitrateStep ==
  ASSUME TypeOK, NEW s \in Streams, Arbitrate(s)
  PROVE  /\ [Origin!Next]_seat /\ seat' \in [Clients -> Origin!Seats]
         /\ down' \in [Peers -> Seq(Acks)]
<1> DEFINE m == IF CanPromote(s) THEN "read-write" ELSE seat[s]
<1>1. s \in Clients /\ m \in Origin!Seats /\ SetSeat(s, m) /\ Ack(s, m)
  BY DEF Arbitrate, Clients, TypeOK, Origin!Seats, Origin!Attached
<1>2. m = "read-write" => CanPromote(s)
  BY DEF CanPromote
<1> HIDE DEF m
<1> QED
  BY <1>1, <1>2, SeatStep, AckType

(* Putting a victim back, as both takeovers do when the taker is refused.  *)
LEMMA RestoreStep ==
  ASSUME TypeOK, NEW v \in Clients, SetSeat(v, RestoredSeat(v))
  PROVE  [Origin!Next]_seat /\ seat' \in [Clients -> Origin!Seats]
<1>1. RestoredSeat(v) \in Origin!Seats
  BY DEF RestoredSeat, TypeOK, Origin!Seats, Origin!Attached
<1>2. RestoredSeat(v) = "read-write" => CanPromote(v)
  BY DEF RestoredSeat, CanPromote
<1> QED
  BY <1>1, <1>2, SeatStep

LEMMA RelayType ==
  ASSUME TypeOK, NEW v \in Clients, Relay(v)
  PROVE  down' \in [Peers -> Seq(Acks)]
<1>1. CASE UNCHANGED down
  BY <1>1 DEF TypeOK
<1>2. CASE v \in Streams /\ Ack(v, "read-only")
  BY <1>2, AckType DEF Origin!Seats, Origin!Attached
<1> QED
  BY <1>1, <1>2 DEF Relay

(* What an origin step must establish for both results about it.           *)
OriginFine == /\ [Origin!Next]_seat /\ seat' \in [Clients -> Origin!Seats]
              /\ loop' \in [Peers -> [taker : Streams, victim : Clients] \cup {NoTake}]
              /\ ltake' \in [Locals -> [step : {"demoted", "promoted"}, victim : Clients]
                                         \cup {NoLocalTake}]
              /\ up' \in [Peers -> Seq(Frames)]
              /\ down' \in [Peers -> Seq(Acks)]
              /\ UNCHANGED peerVars

LEMMA OriginStepFine ==
  ASSUME IndInv, NEW p \in Peers, OriginLoop(p)
  PROVE  OriginFine
<1> USE DEF OriginFine
<1>a. TypeOK /\ Streams \subseteq Clients
  BY DEF IndInv, Clients
<1>b. "read-only" \in Origin!Seats /\ "absent" \in Origin!Seats
      /\ "read-write" \in Origin!Seats
  BY DEF Origin!Seats, Origin!Attached
<1>t. /\ seat \in [Clients -> Origin!Seats]
      /\ up \in [Peers -> Seq(Frames)]
      /\ down \in [Peers -> Seq(Acks)]
      /\ loop \in [Peers -> [taker : Streams, victim : Clients] \cup {NoTake}]
      /\ ltake \in [Locals -> [step : {"demoted", "promoted"}, victim : Clients]
                                \cup {NoLocalTake}]
  BY <1>a DEF TypeOK
<1>1. CASE OriginOpen(p)
  BY <1>1, <1>a, <1>b, <1>t, GetsType, SeatStep DEF OriginOpen
<1>2. CASE OriginClose(p)
  BY <1>2, <1>a, <1>b, <1>t, GetsType, SeatStep DEF OriginClose
<1>3. CASE OriginRequest(p)
  BY <1>3, <1>a, <1>t, GetsType, ArbitrateStep DEF OriginRequest
<1>4. CASE OriginRelease(p)
  <2>1. Head(up[p]).s \in Streams /\ up' \in [Peers -> Seq(Frames)]
    BY <1>4, <1>a, GetsType DEF OriginRelease
  <2>2. PICK s \in Streams : /\ SetSeat(s, IF seat[s] = "absent" THEN "absent"
                                            ELSE "read-only")
                             /\ Ack(s, "read-only")
    BY <1>4, <2>1 DEF OriginRelease
  <2> QED
    BY <1>4, <1>a, <1>b, <1>t, <2>1, <2>2, SeatStep, AckType DEF OriginRelease
<1>5. CASE OriginTakeNobody(p)
  <2>1. Head(up[p]).s \in Streams /\ up' \in [Peers -> Seq(Frames)]
    BY <1>5, <1>a, GetsType DEF OriginTakeNobody
  <2>2. PICK s \in Streams : Arbitrate(s) \/ (Ack(s, seat[s]) /\ UNCHANGED seat)
    BY <1>5, <2>1 DEF OriginTakeNobody
  <2>3. seat[s] \in Origin!Seats
    BY <1>a, <1>t
  <2> QED
    BY <1>5, <1>a, <1>t, <2>1, <2>2, <2>3, ArbitrateStep, AckType DEF OriginTakeNobody
<1>6. CASE OriginTakeDemote(p)
  <2>1. Head(up[p]).s \in Streams /\ up' \in [Peers -> Seq(Frames)]
    BY <1>6, <1>a, GetsType DEF OriginTakeDemote
  <2>2. PICK v \in Clients :
           /\ SetSeat(v, "read-only") /\ Relay(v)
           /\ loop' = [loop EXCEPT ![p] = [taker |-> Head(up[p]).s, victim |-> v]]
    BY <1>6 DEF OriginTakeDemote, Candidates, Writers, Origin!Writers
  <2>3. loop' \in [Peers -> [taker : Streams, victim : Clients] \cup {NoTake}]
    BY <1>t, <2>1, <2>2
  <2> QED
    BY <1>6, <1>a, <1>b, <1>t, <2>1, <2>2, <2>3, SeatStep, RelayType DEF OriginTakeDemote
<1>7. CASE OriginTakeFinish(p)
  <2>1. loop[p].taker \in Streams /\ loop[p].victim \in Clients
    BY <1>7, <1>t DEF OriginTakeFinish
  <2>2. PICK s \in Streams, v \in Clients :
           \/ CanPromote(s) /\ SetSeat(s, "read-write") /\ Ack(s, "read-write")
           \/ SetSeat(v, RestoredSeat(v)) /\ Ack(s, seat[s])
    BY <1>7, <2>1 DEF OriginTakeFinish
  <2>3. loop' \in [Peers -> [taker : Streams, victim : Clients] \cup {NoTake}]
    BY <1>7, <1>t DEF OriginTakeFinish
  <2>4. seat[s] \in Origin!Seats
    BY <1>a, <1>t
  <2>5. [Origin!Next]_seat /\ seat' \in [Clients -> Origin!Seats]
    BY <1>a, <1>b, <2>2, SeatStep, RestoreStep
  <2>6. down' \in [Peers -> Seq(Acks)]
    BY <1>a, <1>b, <2>2, <2>4, AckType
  <2> QED
    BY <1>7, <1>t, <2>3, <2>5, <2>6 DEF OriginTakeFinish
<1> QED
  BY <1>1, <1>2, <1>3, <1>4, <1>5, <1>6, <1>7 DEF OriginLoop

LEMMA LocalStepFine ==
  ASSUME IndInv, NEW l \in Locals, NEW m \in Modes,
         \/ LocalJoin(l, m) \/ LocalRequest(l) \/ LocalRelease(l)
         \/ LocalLeave(l) \/ LocalTake(l)
  PROVE  OriginFine
<1> USE DEF OriginFine, localVars
<1>a. TypeOK /\ l \in Clients
  BY DEF IndInv, Clients
<1>b. /\ "read-only" \in Origin!Seats /\ "absent" \in Origin!Seats
      /\ "read-write" \in Origin!Seats /\ m \in Origin!Seats
  BY DEF Modes, Origin!Seats, Origin!Attached
<1>t. /\ seat \in [Clients -> Origin!Seats]
      /\ up \in [Peers -> Seq(Frames)]
      /\ down \in [Peers -> Seq(Acks)]
      /\ loop \in [Peers -> [taker : Streams, victim : Clients] \cup {NoTake}]
      /\ ltake \in [Locals -> [step : {"demoted", "promoted"}, victim : Clients]
                                \cup {NoLocalTake}]
  BY <1>a DEF TypeOK
<1>1. CASE LocalJoin(l, m)
  BY <1>1, <1>a, <1>b, <1>t, SeatStep DEF LocalJoin
<1>2. CASE LocalRequest(l)
  BY <1>2, <1>a, <1>b, <1>t, SeatStep DEF LocalRequest
<1>3. CASE LocalRelease(l)
  BY <1>3, <1>a, <1>b, <1>t, SeatStep DEF LocalRelease
<1>4. CASE LocalLeave(l)
  BY <1>4, <1>a, <1>b, <1>t, SeatStep DEF LocalLeave
<1>5. ASSUME NEW v \in Clients, LocalTakeDemote(l, v)
      PROVE  OriginFine
  <2>1. ltake' \in [Locals -> [step : {"demoted", "promoted"}, victim : Clients]
                               \cup {NoLocalTake}]
    BY <1>5, <1>t DEF LocalTakeDemote
  <2> QED
    BY <1>5, <1>a, <1>b, <1>t, <2>1, SeatStep DEF LocalTakeDemote
<1>6. CASE LocalTakePromote(l)
  <2>1. ltake[l] \in [step : {"demoted", "promoted"}, victim : Clients]
    BY <1>6, <1>t DEF LocalTakePromote, NoLocalTake
  <2>2. ltake[l].victim \in Clients
    BY <2>1
  <2>3. ltake' \in [Locals -> [step : {"demoted", "promoted"}, victim : Clients]
                               \cup {NoLocalTake}]
    BY <1>6, <1>t, <2>1, ZenonT(40) DEF LocalTakePromote
  <2>4. [Origin!Next]_seat /\ seat' \in [Clients -> Origin!Seats]
    BY <1>6, <1>a, <1>b, <2>2, SeatStep, RestoreStep DEF LocalTakePromote
  <2> QED
    BY <1>6, <1>t, <2>3, <2>4 DEF LocalTakePromote
<1>7. CASE LocalTakeNotify(l)
  <2>1. ltake[l].victim \in Clients
    BY <1>7, <1>t DEF LocalTakeNotify, NoLocalTake
  <2>2. ltake' \in [Locals -> [step : {"demoted", "promoted"}, victim : Clients]
                               \cup {NoLocalTake}]
    BY <1>7, <1>t DEF LocalTakeNotify
  <2> QED
    BY <1>7, <1>a, <1>t, <2>1, <2>2, RelayType DEF LocalTakeNotify
<1> QED
  BY <1>1, <1>2, <1>3, <1>4, <1>5, <1>6, <1>7 DEF LocalTake

(* One step of any handler, on either side.                                *)
LEMMA NextFine == IndInv /\ [Next]_vars => IndInv' /\ [Origin!Next]_seat
<1> SUFFICES ASSUME IndInv, [Next]_vars
             PROVE  IndInv' /\ [Origin!Next]_seat
  OBVIOUS
<1>1. ASSUME OriginFine
      PROVE  IndInv' /\ [Origin!Next]_seat
  BY <1>1 DEF OriginFine, IndInv, TypeOK, NoForgottenFuture, peerVars
<1>2. CASE UNCHANGED vars
  BY <1>2 DEF vars, originVars, peerVars, IndInv, TypeOK, NoForgottenFuture
<1>3. ASSUME NEW p \in Peers, OriginLoop(p)
      PROVE  IndInv' /\ [Origin!Next]_seat
  BY <1>3, <1>1, OriginStepFine
<1>4. ASSUME NEW l \in Locals, NEW m \in Modes,
             \/ LocalJoin(l, m) \/ LocalRequest(l) \/ LocalRelease(l)
             \/ LocalLeave(l) \/ LocalTake(l)
      PROVE  IndInv' /\ [Origin!Next]_seat
  BY <1>4, <1>1, LocalStepFine
<1>5. ASSUME NEW s \in Streams, NEW wants \in BOOLEAN, NEW t \in Clients \cup {NoClient},
             \/ Attach(s, wants) \/ Request(s) \/ Release(s) \/ Take(s, t)
             \/ ClientStep(s) \/ Timeout(s) \/ Detach(s)
      PROVE  IndInv' /\ [Origin!Next]_seat
  BY <1>5, PeerStepInv, FedSlotAssumption
<1>6. ASSUME NEW p \in Peers, PeerLoop(p)
      PROVE  IndInv' /\ [Origin!Next]_seat
  <2>1. PICK s \in Streams : TRUE
    BY <1>6, HeardType DEF PeerLoop, AckAnswers, AckDemotes, AckIgnored, Notified,
                           IndInv, TypeOK
  <2> QED
    BY <1>6, <2>1, PeerStepInv
<1>7. ASSUME NEW s \in Streams,
             \/ \E wants \in BOOLEAN : Attach(s, wants)
             \/ Request(s) \/ Release(s)
             \/ \E t \in Clients \cup {NoClient} : Take(s, t)
             \/ ClientStep(s) \/ Timeout(s) \/ Detach(s)
      PROVE  IndInv' /\ [Origin!Next]_seat
  BY <1>7, <1>5
<1>8. ASSUME NEW l \in Locals,
             \/ \E m \in Modes : LocalJoin(l, m)
             \/ LocalRequest(l) \/ LocalRelease(l) \/ LocalLeave(l) \/ LocalTake(l)
      PROVE  IndInv' /\ [Origin!Next]_seat
  BY <1>8, <1>4 DEF Modes, Origin!Attached
<1> QED
  BY <1>2, <1>3, <1>6, <1>7, <1>8 DEF Next

(* The handlers of the peers stay consistent with their futures, whatever  *)
(* is lost in time or answered late: a demotion relayed to an idle client  *)
(* is never swallowed by a request that is over.                           *)
THEOREM FuturesStayConsistent == Spec => []IndInv
<1>1. IndInv /\ [Next]_vars => IndInv'
  BY NextFine
<1> QED
  BY InitInv, <1>1, PTL DEF Spec

(* Federation keeps the port's promise: an origin arbitrating for any      *)
(* number of peers implements the abstract seats of PortSeats.             *)
THEOREM ImplementsSeats == Spec => OriginSeats
<1>1. Init => Origin!Init
  BY DEF Init
<1>2. IndInv /\ [Next]_vars => [Origin!Next]_seat
  BY NextFine
<1> QED
  BY <1>1, <1>2, FuturesStayConsistent, PTL DEF Spec, OriginSeats, Origin!Spec

-----------------------------------------------------------------------------
(***************************************************************************)
(* NoOrphanMirror.  Its inductive form speaks of the frames under way:     *)
(* what is now the case, unless a frame on the path says otherwise, and    *)
(* what the last such frame makes of it.                                   *)
(***************************************************************************)
Is(f, s, kind) == f.s = s /\ f.kind = kind

(* Once q is read, yes is what s was last told: it was said, or it holds   *)
(* now, and no is not said after it.                                       *)
EndsWith(s, q, now, yes, no) ==
    \/ now /\ \A i \in 1..Len(q) : ~Is(q[i], s, no)
    \/ \E i \in 1..Len(q) : /\ Is(q[i], s, yes)
                            /\ \A j \in 1..Len(q) : j > i => ~Is(q[j], s, no)

MirrorFollows ==
    \A s \in Streams :
        IF mode[s] = "absent"
        THEN EndsWith(s, up[PeerOf[s]], seat[s] = "absent", "close", "open")
        ELSE EndsWith(s, up[PeerOf[s]], seat[s] # "absent", "open", "close")

LEMMA ConcatOther ==
  ASSUME NEW s, NEW yes, NEW no, NEW now \in BOOLEAN,
         NEW q \in Seq(Frames), NEW fs \in Seq(Frames),
         \A i \in 1..Len(fs) : ~Is(fs[i], s, no),
         EndsWith(s, q, now, yes, no)
  PROVE  EndsWith(s, q \o fs, now, yes, no)
<1>1. /\ Len(q \o fs) = Len(q) + Len(fs) /\ Len(q) \in Nat /\ Len(fs) \in Nat
      /\ \A i \in 1..Len(q) : (q \o fs)[i] = q[i]
      /\ \A i \in 1..Len(q \o fs) : i > Len(q) =>
            (q \o fs)[i] = fs[i - Len(q)] /\ i - Len(q) \in 1..Len(fs)
  OBVIOUS
<1>2. \A i \in 1..Len(q \o fs) : i > Len(q) => ~Is((q \o fs)[i], s, no)
  BY <1>1
<1>3. CASE now /\ \A i \in 1..Len(q) : ~Is(q[i], s, no)
  BY <1>1, <1>2, <1>3 DEF EndsWith
<1>4. CASE \E i \in 1..Len(q) : /\ Is(q[i], s, yes)
                                /\ \A j \in 1..Len(q) : j > i => ~Is(q[j], s, no)
  BY <1>1, <1>2, <1>4 DEF EndsWith
<1> QED
  BY <1>3, <1>4 DEF EndsWith

LEMMA ConcatYes ==
  ASSUME NEW s, NEW yes, NEW no, NEW now \in BOOLEAN,
         NEW q \in Seq(Frames), NEW fs \in Seq(Frames),
         Len(fs) > 0, Is(fs[1], s, yes),
         \A i \in 1..Len(fs) : ~Is(fs[i], s, no)
  PROVE  EndsWith(s, q \o fs, now, yes, no)
<1>1. /\ Len(q \o fs) = Len(q) + Len(fs) /\ Len(q) \in Nat /\ Len(fs) \in Nat
      /\ \A i \in 1..Len(q \o fs) : i > Len(q) =>
            (q \o fs)[i] = fs[i - Len(q)] /\ i - Len(q) \in 1..Len(fs)
  OBVIOUS
<1>2. Len(q) + 1 \in 1..Len(q \o fs) /\ Is((q \o fs)[Len(q) + 1], s, yes)
  BY <1>1
<1>3. \A j \in 1..Len(q \o fs) : j > Len(q) + 1 => ~Is((q \o fs)[j], s, no)
  BY <1>1
<1> QED
  BY <1>2, <1>3 DEF EndsWith

(* The frame at the head is read, and then holds.                          *)
LEMMA TailEnds ==
  ASSUME NEW s, NEW yes, NEW no, NEW now \in BOOLEAN, NEW then \in BOOLEAN,
         NEW q \in Seq(Frames), q # <<>>,
         EndsWith(s, q, now, yes, no),
         Is(Head(q), s, yes) => then,
         now /\ ~Is(Head(q), s, no) => then
  PROVE  EndsWith(s, Tail(q), then, yes, no)
<1>1. /\ Len(q) \in Nat /\ Len(q) >= 1 /\ Head(q) = q[1] /\ Len(Tail(q)) = Len(q) - 1
      /\ \A i \in 1..Len(Tail(q)) : Tail(q)[i] = q[i + 1] /\ i + 1 \in 1..Len(q)
  OBVIOUS
<1>2. CASE now /\ \A i \in 1..Len(q) : ~Is(q[i], s, no)
  BY <1>1, <1>2 DEF EndsWith
<1>3. ASSUME NEW i \in 1..Len(q), Is(q[i], s, yes),
             \A j \in 1..Len(q) : j > i => ~Is(q[j], s, no)
      PROVE  EndsWith(s, Tail(q), then, yes, no)
  <2>1. CASE i = 1
    BY <1>1, <1>3, <2>1 DEF EndsWith
  <2>2. CASE i > 1
    <3>1. i - 1 \in 1..Len(Tail(q)) /\ Is(Tail(q)[i - 1], s, yes)
      BY <1>1, <1>3, <2>2
    <3>2. \A j \in 1..Len(Tail(q)) : j > i - 1 => ~Is(Tail(q)[j], s, no)
      BY <1>1, <1>3
    <3> QED
      BY <3>1, <3>2 DEF EndsWith
  <2> QED
    BY <2>1, <2>2
<1> QED
  BY <1>2, <1>3 DEF EndsWith

(* Every frame travels on the path of its own peer.                        *)
OwnPaths == \A p \in Peers : \A i \in 1..Len(up[p]) : PeerOf[up[p][i].s] = p

LEMMA SentOnOwnPath ==
  ASSUME TypeOK, OwnPaths, NEW s \in Streams, NEW fs \in Seq(Frames), Send(s, fs),
         \A i \in 1..Len(fs) : fs[i].s = s
  PROVE  OwnPaths'
<1>1. PeerOf[s] \in Peers /\ \A p \in Peers : up[p] \in Seq(Frames)
  BY FedSlotAssumption DEF TypeOK
<1>2. ASSUME NEW p \in Peers, NEW i \in 1..Len(up'[p])
      PROVE  PeerOf[up'[p][i].s] = p
  <2>1. CASE p = PeerOf[s]
    <3>1. up'[p] = up[p] \o fs
      BY <1>1, <2>1 DEF Send, TypeOK
    <3>2. CASE i \in 1..Len(up[p])
      <4>1. up'[p][i] = up[p][i]
        BY <1>1, <3>1, <3>2
      <4> QED
        BY <3>2, <4>1 DEF OwnPaths
    <3>3. CASE i \notin 1..Len(up[p])
      <4>1. up'[p][i] = fs[i - Len(up[p])] /\ i - Len(up[p]) \in 1..Len(fs)
        BY <1>1, <1>2, <3>1, <3>3
      <4> QED
        BY <2>1, <4>1
    <3> QED
      BY <3>2, <3>3
  <2>2. CASE p # PeerOf[s]
    <3>1. up'[p] = up[p]
      BY <1>1, <2>2 DEF Send, TypeOK
    <3> QED
      BY <1>2, <3>1 DEF OwnPaths
  <2> QED
    BY <2>1, <2>2
<1> QED
  BY <1>2 DEF OwnPaths

(* All that the peers' clients and read loops send.                        *)
LEMMA PeersUseOwnPaths ==
  ASSUME TypeOK, OwnPaths, NEW s \in Streams, NEW p \in Peers,
         NEW wants \in BOOLEAN, NEW t \in Clients \cup {NoClient},
         \/ Attach(s, wants) \/ Request(s) \/ Release(s) \/ Take(s, t)
         \/ ClientStep(s) \/ Timeout(s) \/ Detach(s) \/ PeerLoop(p)
  PROVE  OwnPaths'
<1>1. ASSUME UNCHANGED up PROVE OwnPaths'
  BY <1>1 DEF OwnPaths
<1>2. ASSUME NEW kind \in {"open", "close", "request", "release", "take"},
             NEW u \in Clients \cup {NoClient}, Send(s, <<Frame(kind, s, u)>>)
      PROVE  OwnPaths'
  <2>1. <<Frame(kind, s, u)>> \in Seq(Frames)
    BY FrameType
  <2>2. Frame(kind, s, u).s = s
    BY DEF Frame
  <2>3. \A i \in 1..Len(<<Frame(kind, s, u)>>) : <<Frame(kind, s, u)>>[i].s = s
    BY <2>2
  <2> QED
    BY <1>2, <2>1, <2>3, SentOnOwnPath
<1>3. CASE Send(s, <<Frame("open", s, NoClient), Frame("request", s, NoClient)>>)
  <2>1. <<Frame("open", s, NoClient), Frame("request", s, NoClient)>> \in Seq(Frames)
    BY FrameType
  <2>2. \A i \in 1..2 :
          <<Frame("open", s, NoClient), Frame("request", s, NoClient)>>[i].s = s
    BY DEF Frame
  <2> QED
    BY <1>3, <2>1, <2>2, SentOnOwnPath
<1>4. TargetSpec(s, t) \in Clients \cup {NoClient}
  BY DEF TargetSpec
<1>5. CASE Attach(s, wants) \/ Detach(s)
  BY <1>2, <1>3, <1>5 DEF Attach, Detach
<1>6. CASE Request(s) \/ Release(s) \/ Take(s, t)
  BY <1>2, <1>4, <1>6 DEF Request, Release, Take
<1>7. CASE ClientStep(s) \/ Timeout(s)
  BY <1>1, <1>2, <1>7 DEF ClientStep, FinishRequest, FinishRelease, FinishTake, Timeout
<1>8. CASE PeerLoop(p)
  BY <1>1, <1>8 DEF PeerLoop, AckAnswers, AckDemotes, AckIgnored, Notified, NotifyOrigin
<1> QED
  BY <1>5, <1>6, <1>7, <1>8

LEMMA ReadFromOwnPath ==
  ASSUME TypeOK, OwnPaths, NEW p \in Peers, NEW kind, Gets(p, kind)
  PROVE  OwnPaths' /\ PeerOf[Head(up[p]).s] = p
<1>1. /\ up[p] \in Seq(Frames) /\ up[p] # <<>>
      /\ up' = [up EXCEPT ![p] = Tail(@)]
  BY DEF TypeOK, Gets
<1>2. /\ Len(up[p]) \in Nat /\ Len(up[p]) >= 1 /\ Head(up[p]) = up[p][1]
      /\ \A i \in 1..Len(Tail(up[p])) :
            Tail(up[p])[i] = up[p][i + 1] /\ i + 1 \in 1..Len(up[p])
  BY <1>1
<1>3. \A q \in Peers : up'[q] = IF q = p THEN Tail(up[p]) ELSE up[q]
  BY <1>1 DEF TypeOK
<1>4. OwnPaths'
  <2> SUFFICES ASSUME NEW q \in Peers, NEW i \in 1..Len(up'[q])
               PROVE  PeerOf[up'[q][i].s] = q
    BY DEF OwnPaths
  <2>1. CASE q = p
    <3>1. up'[q] = Tail(up[p])
      BY <1>3, <2>1
    <3>2. up'[q][i] = up[p][i + 1] /\ i + 1 \in 1..Len(up[p])
      BY <1>2, <3>1
    <3>3. PeerOf[up[p][i + 1].s] = p
      BY <3>2 DEF OwnPaths
    <3> QED
      BY <2>1, <3>2, <3>3
  <2>2. CASE q # p
    BY <1>3, <2>2 DEF OwnPaths
  <2> QED
    BY <2>1, <2>2
<1> QED
  BY <1>2, <1>4 DEF OwnPaths

-----------------------------------------------------------------------------
SameModes == \A s \in Streams : mode'[s] = "absent" <=> mode[s] = "absent"
SameSeats == \A s \in Streams : seat'[s] = "absent" <=> seat[s] = "absent"

LEMMA QuietFollows ==
  ASSUME MirrorFollows, SameModes, SameSeats, UNCHANGED up
  PROVE  MirrorFollows'
  BY DEF MirrorFollows, SameModes, SameSeats

(* A request, a release or a take says nothing about the stream's life.    *)
LEMMA SentFollows ==
  ASSUME TypeOK, MirrorFollows, SameModes, UNCHANGED seat,
         NEW s \in Streams, NEW t \in Clients \cup {NoClient},
         NEW kind \in {"request", "release", "take"},
         Send(s, <<Frame(kind, s, t)>>)
  PROVE  MirrorFollows'
<1> DEFINE fs == <<Frame(kind, s, t)>>
<1>1. /\ fs \in Seq(Frames)
      /\ \A x : \A i \in 1..Len(fs) : ~Is(fs[i], x, "open") /\ ~Is(fs[i], x, "close")
  <2>1. Frame(kind, s, t) \in Frames
    BY FrameType
  <2>2. Frame(kind, s, t).kind \notin {"open", "close"}
    BY DEF Frame
  <2>3. Len(fs) = 1 /\ fs[1] = Frame(kind, s, t)
    OBVIOUS
  <2>4. \A i \in 1..Len(fs) : fs[i].kind \notin {"open", "close"}
    BY <2>2, <2>3
  <2> QED
    BY <2>1, <2>4 DEF Is
<1>2. ASSUME NEW x \in Streams
      PROVE  \/ up'[PeerOf[x]] = up[PeerOf[x]]
             \/ up'[PeerOf[x]] = up[PeerOf[x]] \o fs
  BY <1>2, FedSlotAssumption DEF Send, TypeOK
<1>3. \A x \in Streams : up[PeerOf[x]] \in Seq(Frames)
  BY FedSlotAssumption DEF TypeOK
<1> HIDE DEF fs
<1>4. ASSUME NEW x \in Streams
      PROVE  IF mode'[x] = "absent"
             THEN EndsWith(x, up'[PeerOf[x]], seat'[x] = "absent", "close", "open")
             ELSE EndsWith(x, up'[PeerOf[x]], seat'[x] # "absent", "open", "close")
  <2>1. CASE mode[x] = "absent"
    BY <1>1, <1>2, <1>3, <2>1, ConcatOther DEF MirrorFollows, SameModes
  <2>2. CASE mode[x] # "absent"
    BY <1>1, <1>2, <1>3, <2>2, ConcatOther DEF MirrorFollows, SameModes
  <2> QED
    BY <2>1, <2>2
<1> QED
  BY <1>4 DEF MirrorFollows

(* An OPEN and a CLOSE say it, after everything that was said before.      *)
LEMMA LifeFollows ==
  ASSUME TypeOK, MirrorFollows, UNCHANGED seat,
         NEW s \in Streams, (\E wants \in BOOLEAN : Attach(s, wants)) \/ Detach(s)
  PROVE  MirrorFollows'
<1> DEFINE one == <<Frame("open", s, NoClient)>>
           two == <<Frame("open", s, NoClient), Frame("request", s, NoClient)>>
           bye == <<Frame("close", s, NoClient)>>
<1>1. /\ one \in Seq(Frames) /\ two \in Seq(Frames) /\ bye \in Seq(Frames)
      /\ Len(one) > 0 /\ Len(two) > 0 /\ Len(bye) > 0
  BY FrameType
<1>2. /\ Is(one[1], s, "open") /\ Is(two[1], s, "open") /\ Is(bye[1], s, "close")
      /\ \A i \in 1..Len(one) : one[i].s = s /\ ~Is(one[i], s, "close")
      /\ \A i \in 1..Len(two) : two[i].s = s /\ ~Is(two[i], s, "close")
      /\ \A i \in 1..Len(bye) : bye[i].s = s /\ ~Is(bye[i], s, "open")
  BY DEF Is, Frame
<1>3. PICK fs \in {one, two, bye} :
         /\ Send(s, fs)
         /\ mode' = [mode EXCEPT ![s] = IF fs = bye THEN "absent" ELSE "read-only"]
         /\ fs # bye <=> mode'[s] # "absent"
  <2>1. CASE Detach(s)
    BY <2>1 DEF Detach, TypeOK
  <2>2. one # bye /\ two # bye
    BY DEF Frame
  <2>3. CASE \E wants \in BOOLEAN : Attach(s, wants)
    BY <2>2, <2>3 DEF Attach, TypeOK
  <2> QED
    BY <2>1, <2>3
<1>4. /\ fs \in Seq(Frames) /\ Len(fs) > 0
      /\ \A i \in 1..Len(fs) : fs[i].s = s
      /\ fs = bye => Is(fs[1], s, "close") /\ \A i \in 1..Len(fs) : ~Is(fs[i], s, "open")
      /\ fs # bye => Is(fs[1], s, "open") /\ \A i \in 1..Len(fs) : ~Is(fs[i], s, "close")
  BY <1>1, <1>2
<1>5. \A x \in Streams : up[PeerOf[x]] \in Seq(Frames)
  BY FedSlotAssumption DEF TypeOK
<1> HIDE DEF one, two, bye
<1>6. ASSUME NEW x \in Streams
      PROVE  IF mode'[x] = "absent"
             THEN EndsWith(x, up'[PeerOf[x]], seat'[x] = "absent", "close", "open")
             ELSE EndsWith(x, up'[PeerOf[x]], seat'[x] # "absent", "open", "close")
  <2>1. CASE x = s
    <3>1. up'[PeerOf[s]] = up[PeerOf[s]] \o fs
      BY <1>3, FedSlotAssumption DEF Send, TypeOK
    <3>2. up[PeerOf[s]] \in Seq(Frames)
      BY <1>5
    <3>3. CASE fs = bye
      <4>1. EndsWith(s, up[PeerOf[s]] \o fs, seat'[s] = "absent", "close", "open")
        BY <1>4, <3>2, <3>3, ConcatYes
      <4> QED
        BY <1>3, <2>1, <3>1, <3>3, <4>1
    <3>4. CASE fs # bye
      <4>1. EndsWith(s, up[PeerOf[s]] \o fs, seat'[s] # "absent", "open", "close")
        BY <1>4, <3>2, <3>4, ConcatYes
      <4> QED
        BY <1>3, <2>1, <3>1, <3>4, <4>1
    <3> QED
      BY <3>3, <3>4
  <2>2. CASE x # s
    <3>1. mode'[x] = mode[x]
      BY <1>3, <2>2 DEF TypeOK
    <3>2. \A i \in 1..Len(fs) : \A kind : ~Is(fs[i], x, kind)
      BY <1>4, <2>2 DEF Is
    <3>3. up'[PeerOf[x]] = up[PeerOf[x]] \/ up'[PeerOf[x]] = up[PeerOf[x]] \o fs
      BY <1>3, FedSlotAssumption DEF Send, TypeOK
    <3>4. CASE mode[x] = "absent"
      BY <1>4, <1>5, <3>1, <3>2, <3>3, <3>4, ConcatOther, ZenonT(40) DEF MirrorFollows
    <3>5. CASE mode[x] # "absent"
      BY <1>4, <1>5, <3>1, <3>2, <3>3, <3>5, ConcatOther DEF MirrorFollows
    <3> QED
      BY <3>4, <3>5
  <2> QED
    BY <2>1, <2>2
<1> QED
  BY <1>6 DEF MirrorFollows

(* The peers' clients and read loops.                                      *)
LEMMA PeerStepFollows ==
  ASSUME IndInv, MirrorFollows, NEW s \in Streams, NEW p \in Peers,
         NEW wants \in BOOLEAN, NEW t \in Clients \cup {NoClient},
         \/ Attach(s, wants) \/ Request(s) \/ Release(s) \/ Take(s, t)
         \/ ClientStep(s) \/ Timeout(s) \/ Detach(s) \/ PeerLoop(p)
  PROVE  MirrorFollows'
<1>0. TypeOK /\ UNCHANGED seat /\ SameSeats
  BY PeerStepInv DEF IndInv, SameSeats
<1>1. CASE Attach(s, wants) \/ Detach(s)
  BY <1>0, <1>1, LifeFollows
<1>2. CASE Request(s)
  BY <1>0, <1>2, SentFollows DEF Request, SameModes
<1>3. CASE Release(s)
  <2>1. SameModes
    BY <1>0, <1>3 DEF Release, CanAsk, SameModes, TypeOK
  <2> QED
    BY <1>0, <1>3, <2>1, SentFollows DEF Release
<1>4. CASE Take(s, t)
  <2>1. TargetSpec(s, t) \in Clients \cup {NoClient}
    BY DEF TargetSpec
  <2> QED
    BY <1>0, <1>4, <2>1, SentFollows DEF Take, SameModes
<1>5. CASE FinishTake(s)
  <2>1. SameModes
    BY <1>5 DEF FinishTake, SameModes
  <2>2. CASE UNCHANGED up
    BY <1>0, <2>1, <2>2, QuietFollows
  <2>3. CASE Send(s, <<Frame("request", s, NoClient)>>)
    BY <1>0, <2>1, <2>3, SentFollows
  <2> QED
    BY <1>5, <2>2, <2>3 DEF FinishTake
<1>6. CASE FinishRequest(s) \/ FinishRelease(s) \/ Timeout(s)
  <2>1. SameModes
    BY <1>0, <1>6 DEF FinishRequest, FinishRelease, Timeout, CanMirror, SameModes, TypeOK
  <2> QED
    BY <1>0, <1>6, <2>1, QuietFollows DEF FinishRequest, FinishRelease, Timeout
<1>7. CASE AckAnswers(p) \/ AckIgnored(p) \/ Notified(p)
  <2>1. SameModes
    BY <1>7 DEF AckAnswers, AckIgnored, Notified, peerVars, SameModes
  <2> QED
    BY <1>0, <1>7, <2>1, QuietFollows DEF AckAnswers, AckIgnored, Notified
<1>8. CASE AckDemotes(p)
  <2>1. SameModes
    BY <1>0, <1>8, HeardType DEF AckDemotes, SameModes, TypeOK
  <2> QED
    BY <1>0, <1>8, <2>1, QuietFollows DEF AckDemotes, NotifyOrigin
<1> QED
  BY <1>1, <1>2, <1>3, <1>4, <1>5, <1>6, <1>7, <1>8 DEF ClientStep, PeerLoop

-----------------------------------------------------------------------------
(* A seat that is given to who has one, or left as it is, comes and goes   *)
(* with nobody.                                                            *)
LEMMA SeatStays ==
  ASSUME TypeOK, NEW c \in Clients, NEW m, SetSeat(c, m),
         m = "absent" <=> seat[c] = "absent"
  PROVE  SameSeats
  BY DEF SetSeat, SameSeats, TypeOK, Clients

LEMMA ArbitrateStays ==
  ASSUME TypeOK, NEW s \in Streams, Arbitrate(s)
  PROVE  SameSeats
<1>1. PICK m : SetSeat(s, m) /\ (m = "absent" <=> seat[s] = "absent")
  BY DEF Arbitrate, CanPromote
<1> QED
  BY <1>1, SeatStays DEF Clients

LEMMA RestoreStays ==
  ASSUME TypeOK, NEW v \in Clients, SetSeat(v, RestoredSeat(v))
  PROVE  SameSeats
<1>1. RestoredSeat(v) = "absent" <=> seat[v] = "absent"
  BY DEF RestoredSeat, CanPromote
<1> QED
  BY <1>1, SeatStays

(* The origin has read a frame, and the seat of its stream is what an OPEN *)
(* or a CLOSE makes it; no other seat comes or goes.                       *)
LEMMA ReadFollows ==
  ASSUME TypeOK, OwnPaths, MirrorFollows, UNCHANGED mode,
         NEW p \in Peers, NEW kind, Gets(p, kind),
         \A x \in Streams :
             seat'[x] = "absent" <=>
               IF x = Head(up[p]).s /\ kind = "open" THEN FALSE
               ELSE IF x = Head(up[p]).s /\ kind = "close" THEN TRUE
               ELSE seat[x] = "absent"
  PROVE  MirrorFollows'
<1>1. /\ up[p] \in Seq(Frames) /\ up[p] # <<>> /\ Head(up[p]).kind = kind
      /\ up' = [up EXCEPT ![p] = Tail(@)]
  BY DEF TypeOK, Gets
<1>2. ASSUME NEW x \in Streams
      PROVE  IF mode[x] = "absent"
             THEN EndsWith(x, up'[PeerOf[x]], seat'[x] = "absent", "close", "open")
             ELSE EndsWith(x, up'[PeerOf[x]], seat'[x] # "absent", "open", "close")
  <2>1. CASE PeerOf[x] = p
    <3>1. up'[PeerOf[x]] = Tail(up[p])
      BY <1>1, <2>1 DEF TypeOK
    <3>2. CASE mode[x] = "absent"
      <4>1. EndsWith(x, up[p], seat[x] = "absent", "close", "open")
        BY <2>1, <3>2 DEF MirrorFollows
      <4>2. /\ Is(Head(up[p]), x, "close") => seat'[x] = "absent"
            /\ seat[x] = "absent" /\ ~Is(Head(up[p]), x, "open") => seat'[x] = "absent"
        BY <1>1 DEF Is
      <4>3. EndsWith(x, Tail(up[p]), seat'[x] = "absent", "close", "open")
        BY <1>1, <4>1, <4>2, TailEnds
      <4> QED
        BY <3>1, <3>2, <4>3
    <3>3. CASE mode[x] # "absent"
      <4>1. EndsWith(x, up[p], seat[x] # "absent", "open", "close")
        BY <2>1, <3>3 DEF MirrorFollows
      <4>2. /\ Is(Head(up[p]), x, "open") => seat'[x] # "absent"
            /\ seat[x] # "absent" /\ ~Is(Head(up[p]), x, "close") => seat'[x] # "absent"
        BY <1>1 DEF Is
      <4>3. EndsWith(x, Tail(up[p]), seat'[x] # "absent", "open", "close")
        BY <1>1, <4>1, <4>2, TailEnds
      <4> QED
        BY <3>1, <3>3, <4>3
    <3> QED
      BY <3>2, <3>3
  <2>2. CASE PeerOf[x] # p
    <3>1. up'[PeerOf[x]] = up[PeerOf[x]]
      BY <1>1, <2>2, FedSlotAssumption DEF TypeOK
    <3>2. (seat'[x] = "absent") = (seat[x] = "absent")
      BY <2>2, ReadFromOwnPath
    <3> QED
      BY <3>1, <3>2 DEF MirrorFollows
  <2> QED
    BY <2>1, <2>2
<1> QED
  BY <1>2 DEF MirrorFollows

(* The origin's read loops: an OPEN and a CLOSE, the other frames, and the *)
(* second half of a take.                                                  *)
LEMMA OriginStepFollows ==
  ASSUME IndInv, OwnPaths, MirrorFollows, NEW p \in Peers, OriginLoop(p)
  PROVE  OwnPaths' /\ MirrorFollows'
<1>0. TypeOK /\ Streams \subseteq Clients /\ UNCHANGED mode /\ SameModes
  BY OriginStepFine DEF IndInv, Clients, OriginFine, peerVars, SameModes
<1>1. CASE OriginOpen(p)
  <2>1. Gets(p, "open") /\ seat' = [seat EXCEPT ![Head(up[p]).s] = "read-only"]
    BY <1>1 DEF OriginOpen, SetSeat
  <2>2. \A x \in Streams : seat'[x] = IF x = Head(up[p]).s THEN "read-only" ELSE seat[x]
    BY <1>0, <2>1 DEF TypeOK
  <2> QED
    BY <1>0, <2>1, <2>2, ReadFollows, ReadFromOwnPath
<1>2. CASE OriginClose(p)
  <2>1. Gets(p, "close") /\ seat' = [seat EXCEPT ![Head(up[p]).s] = "absent"]
    BY <1>2 DEF OriginClose, SetSeat
  <2>2. \A x \in Streams : seat'[x] = IF x = Head(up[p]).s THEN "absent" ELSE seat[x]
    BY <1>0, <2>1 DEF TypeOK
  <2> QED
    BY <1>0, <2>1, <2>2, ReadFollows, ReadFromOwnPath
<1>3. ASSUME NEW kind \in {"request", "release", "take"}, Gets(p, kind), SameSeats
      PROVE  OwnPaths' /\ MirrorFollows'
  BY <1>0, <1>3, ReadFollows, ReadFromOwnPath DEF SameSeats
<1>4. CASE OriginRequest(p)
  <2>1. Gets(p, "request") /\ Head(up[p]).s \in Streams
    BY <1>0, <1>4, GetsType DEF OriginRequest
  <2> QED
    BY <1>0, <1>3, <1>4, <2>1, ArbitrateStays DEF OriginRequest
<1>5. CASE OriginRelease(p)
  <2>1. Gets(p, "release") /\ Head(up[p]).s \in Streams
    BY <1>0, <1>5, GetsType DEF OriginRelease
  <2>2. PICK s \in Streams : SetSeat(s, IF seat[s] = "absent" THEN "absent"
                                        ELSE "read-only")
    BY <1>5, <2>1 DEF OriginRelease
  <2>3. SameSeats
    BY <1>0, <2>2, SeatStays
  <2> QED
    BY <1>3, <2>1, <2>3
<1>6. CASE OriginTakeNobody(p)
  <2>1. Gets(p, "take") /\ Head(up[p]).s \in Streams
    BY <1>0, <1>6, GetsType DEF OriginTakeNobody
  <2>2. Arbitrate(Head(up[p]).s) \/ UNCHANGED seat
    BY <1>6 DEF OriginTakeNobody
  <2>3. SameSeats
    BY <1>0, <2>1, <2>2, ArbitrateStays DEF SameSeats
  <2> QED
    BY <1>3, <2>1, <2>3
<1>7. CASE OriginTakeDemote(p)
  <2>1. Gets(p, "take")
    BY <1>7 DEF OriginTakeDemote
  <2>2. PICK v \in Clients : SetSeat(v, "read-only") /\ seat[v] = "read-write"
    BY <1>7 DEF OriginTakeDemote, Candidates, Writers, Origin!Writers
  <2>3. SameSeats
    BY <1>0, <2>2, SeatStays
  <2> QED
    BY <1>3, <2>1, <2>3
<1>8. CASE OriginTakeFinish(p)
  <2>1. loop[p].taker \in Clients /\ loop[p].victim \in Clients
    BY <1>0, <1>8 DEF OriginTakeFinish, TypeOK
  <2>2. CASE CanPromote(loop[p].taker)
    <3>1. SetSeat(loop[p].taker, "read-write") /\ seat[loop[p].taker] # "absent"
      BY <1>8, <2>2 DEF OriginTakeFinish, CanPromote
    <3> QED
      BY <1>0, <2>1, <3>1, <1>8, SeatStays, QuietFollows DEF OriginTakeFinish, OwnPaths
  <2>3. CASE ~CanPromote(loop[p].taker)
    <3>1. SetSeat(loop[p].victim, RestoredSeat(loop[p].victim))
      BY <1>8, <2>3 DEF OriginTakeFinish
    <3> QED
      BY <1>0, <2>1, <3>1, <1>8, RestoreStays, QuietFollows DEF OriginTakeFinish, OwnPaths
  <2> QED
    BY <2>2, <2>3
<1> QED
  BY <1>1, <1>2, <1>4, <1>5, <1>6, <1>7, <1>8 DEF OriginLoop

(* An origin client's own comings and goings are not a stream's, and its   *)
(* takeovers give and take only among those who are there.                 *)
LEMMA LocalStepFollows ==
  ASSUME IndInv, OwnPaths, MirrorFollows, NEW l \in Locals, NEW m \in Modes,
         \/ LocalJoin(l, m) \/ LocalRequest(l) \/ LocalRelease(l)
         \/ LocalLeave(l) \/ LocalTake(l)
  PROVE  OwnPaths' /\ MirrorFollows'
<1>0. TypeOK /\ l \in Clients /\ l \notin Streams /\ UNCHANGED up /\ SameModes
  BY FedSlotAssumption
  DEF IndInv, Clients, LocalJoin, LocalRequest, LocalRelease, LocalLeave, LocalTake,
      LocalTakeDemote, LocalTakePromote, LocalTakeNotify, localVars, peerVars, SameModes
<1>1. ASSUME SameSeats PROVE OwnPaths' /\ MirrorFollows'
  BY <1>0, <1>1, QuietFollows DEF OwnPaths
<1>2. CASE LocalJoin(l, m) \/ LocalRequest(l) \/ LocalRelease(l) \/ LocalLeave(l)
  <2>1. \E n : seat' = [seat EXCEPT ![l] = n]
    BY <1>2 DEF LocalJoin, LocalRequest, LocalRelease, LocalLeave, SetSeat
  <2>2. SameSeats
    BY <1>0, <2>1 DEF SameSeats, TypeOK
  <2> QED
    BY <1>1, <2>2
<1>3. ASSUME NEW v \in Clients, LocalTakeDemote(l, v)
      PROVE  OwnPaths' /\ MirrorFollows'
  <2>1. SetSeat(v, "read-only") /\ seat[v] = "read-write"
    BY <1>3 DEF LocalTakeDemote, Writers, Origin!Writers
  <2> QED
    BY <1>0, <1>1, <2>1, SeatStays
<1>4. CASE LocalTakePromote(l)
  <2>1. ltake[l].victim \in Clients
    BY <1>0, <1>4 DEF LocalTakePromote, TypeOK, NoLocalTake
  <2>2. CASE CanPromote(l)
    <3>1. SetSeat(l, "read-write") /\ seat[l] # "absent"
      BY <1>4, <2>2 DEF LocalTakePromote, CanPromote
    <3> QED
      BY <1>0, <1>1, <3>1, SeatStays
  <2>3. CASE ~CanPromote(l)
    <3>1. SetSeat(ltake[l].victim, RestoredSeat(ltake[l].victim))
      BY <1>4, <2>3 DEF LocalTakePromote
    <3> QED
      BY <1>0, <1>1, <2>1, <3>1, RestoreStays
  <2> QED
    BY <2>2, <2>3
<1>5. CASE LocalTakeNotify(l)
  BY <1>1, <1>5 DEF LocalTakeNotify, SameSeats
<1> QED
  BY <1>2, <1>3, <1>4, <1>5 DEF LocalTake

MirrorInv == IndInv /\ OwnPaths /\ MirrorFollows

LEMMA MirrorInvInit == Init => MirrorInv
<1> SUFFICES ASSUME Init PROVE OwnPaths /\ MirrorFollows
  BY InitInv DEF MirrorInv
<1>1. /\ \A p \in Peers : up[p] = <<>> /\ Len(up[p]) = 0
      /\ \A s \in Streams : PeerOf[s] \in Peers /\ mode[s] = "absent" /\ seat[s] = "absent"
  BY FedSlotAssumption DEF Init, Origin!Init, Clients
<1>2. OwnPaths
  BY <1>1 DEF OwnPaths
<1>3. MirrorFollows
  BY <1>1 DEF MirrorFollows, EndsWith
<1> QED
  BY <1>2, <1>3

LEMMA MirrorInvNext == MirrorInv /\ [Next]_vars => MirrorInv'
<1> SUFFICES ASSUME MirrorInv, [Next]_vars PROVE OwnPaths' /\ MirrorFollows'
  BY NextFine DEF MirrorInv
<1>a. IndInv /\ TypeOK /\ OwnPaths /\ MirrorFollows
  BY DEF MirrorInv, IndInv
<1>1. CASE UNCHANGED vars
  BY <1>a, <1>1, QuietFollows
  DEF vars, originVars, peerVars, OwnPaths, SameModes, SameSeats
<1>2. ASSUME NEW p \in Peers, OriginLoop(p) PROVE OwnPaths' /\ MirrorFollows'
  BY <1>a, <1>2, OriginStepFollows
<1>3. ASSUME NEW l \in Locals,
             \/ \E m \in Modes : LocalJoin(l, m)
             \/ LocalRequest(l) \/ LocalRelease(l) \/ LocalLeave(l) \/ LocalTake(l)
      PROVE  OwnPaths' /\ MirrorFollows'
  BY <1>a, <1>3, LocalStepFollows DEF Modes, Origin!Attached
<1>4. ASSUME NEW s \in Streams, NEW wants \in BOOLEAN, NEW t \in Clients \cup {NoClient},
             \/ Attach(s, wants) \/ Request(s) \/ Release(s) \/ Take(s, t)
             \/ ClientStep(s) \/ Timeout(s) \/ Detach(s)
      PROVE  OwnPaths' /\ MirrorFollows'
  <2>1. PeerOf[s] \in Peers
    BY FedSlotAssumption
  <2> QED
    BY <1>a, <1>4, <2>1, PeerStepFollows, PeersUseOwnPaths
<1>5. ASSUME NEW p \in Peers, PeerLoop(p) PROVE OwnPaths' /\ MirrorFollows'
  <2>1. PICK s \in Streams : TRUE
    BY <1>a, <1>5, HeardType DEF PeerLoop, AckAnswers, AckDemotes, AckIgnored, Notified,
                                 TypeOK
  <2> QED
    BY <1>a, <1>5, <2>1, PeerStepFollows, PeersUseOwnPaths
<1>6. ASSUME NEW s \in Streams,
             \/ \E wants \in BOOLEAN : Attach(s, wants)
             \/ Request(s) \/ Release(s)
             \/ \E t \in Clients \cup {NoClient} : Take(s, t)
             \/ ClientStep(s) \/ Timeout(s) \/ Detach(s)
      PROVE  OwnPaths' /\ MirrorFollows'
  BY <1>4, <1>6
<1> QED
  BY <1>1, <1>2, <1>3, <1>5, <1>6 DEF Next

(* Issue #52: however many peers attach, leave, ask, take over and time    *)
(* out at once, a stream that has gone leaves no mirror on the origin once *)
(* its path is read, and one that is there has its mirror.                 *)
THEOREM MirrorsFollowTheirStreams == Spec => []NoOrphanMirror
<1>1. MirrorInv => NoOrphanMirror
  <2> SUFFICES ASSUME MirrorInv, NEW s \in Streams, up[PeerOf[s]] = <<>>
               PROVE  mode[s] = "absent" <=> seat[s] = "absent"
    BY DEF NoOrphanMirror
  <2>1. Len(up[PeerOf[s]]) = 0
    OBVIOUS
  <2> QED
    BY <2>1 DEF MirrorInv, MirrorFollows, EndsWith
<1> QED
  BY MirrorInvInit, MirrorInvNext, <1>1, PTL DEF Spec
=============================================================================
