-------------------------- MODULE WriteSlotProofs --------------------------
(***************************************************************************)
(* Proofs about WriteSlot, for every set of clients, every write mode and  *)
(* every number of reloads.                                                *)
(***************************************************************************)
EXTENDS WriteSlot, TLAPS

LEMMA InitInv == Init => IndInv
  BY WriteSlotAssumption
  DEF Init, IndInv, TypeOK, SessionsConsistent, Attached, Steps,
      Port!Init, Port!Seats, Port!Attached

(* Each handler's step keeps the inductive invariant.                      *)
LEMMA NextInv == IndInv /\ [Next]_vars => IndInv'
<1> SUFFICES ASSUME IndInv, [Next]_vars
             PROVE  IndInv'
  OBVIOUS
<1> USE WriteSlotAssumption
    DEF IndInv, TypeOK, SessionsConsistent, Attached, Steps, SetSeat, slotVars,
        Port!Seats, Port!Attached
<1>1. ASSUME NEW c \in Clients, Open(c)
      PROVE  IndInv'
  BY <1>1 DEF Open
<1>2. ASSUME NEW c \in Clients, Connect(c)
      PROVE  IndInv'
  BY <1>2 DEF Connect, Wait
<1>3. ASSUME NEW c \in Clients, FinishConnect(c)
      PROVE  IndInv'
  BY <1>3 DEF FinishConnect
<1>4. ASSUME NEW c \in Clients, Detach(c)
      PROVE  IndInv'
  BY <1>4 DEF Detach, Ready
<1>5. ASSUME NEW c \in Clients, FinishDetach(c)
      PROVE  IndInv'
  BY <1>5 DEF FinishDetach
<1>6. ASSUME NEW c \in Clients, Teardown(c)
      PROVE  IndInv'
  BY <1>6 DEF Teardown
<1>7. ASSUME NEW c \in Clients, CloseSession(c)
      PROVE  IndInv'
  BY <1>7 DEF CloseSession
<1>8. ASSUME NEW c \in Clients, RequestGranted(c)
      PROVE  IndInv'
  BY <1>8 DEF RequestGranted, MayPromote, CanPromote, Ready, Wait
<1>9. ASSUME NEW c \in Clients, RequestRefused(c)
      PROVE  IndInv'
  BY <1>9 DEF RequestRefused, Answer
<1>10. ASSUME NEW c \in Clients, ReleaseDone(c)
       PROVE  IndInv'
  BY <1>10 DEF ReleaseDone, Ready, Wait
<1>11. ASSUME NEW c \in Clients, ReleaseRefused(c)
       PROVE  IndInv'
  BY <1>11 DEF ReleaseRefused, Answer
<1>12. ASSUME NEW c \in Clients, FinishRequest(c)
       PROVE  IndInv'
  BY <1>12 DEF FinishRequest
<1>13. ASSUME NEW c \in Clients, TakeEmptySlot(c)
       PROVE  IndInv'
  BY <1>13 DEF TakeEmptySlot, MayTake, Ready, Wait
<1>14. ASSUME NEW c \in Clients, NEW t \in Clients \cup {NoClient}, TakeRefused(c, t)
       PROVE  IndInv'
  <2>1. TakeAnswer(c, t) \in Port!Seats
    BY DEF TakeAnswer
  <2> QED
    BY <1>14, <2>1 DEF TakeRefused, Answer
<1>15. ASSUME NEW c \in Clients, NEW t \in Clients \cup {NoClient}, TakeDemote(c, t)
       PROVE  IndInv'
  BY <1>15 DEF TakeDemote, Holders, Writers, Port!Writers, Ready
<1>16. ASSUME NEW c \in Clients, TakeTransfer(c)
       PROVE  IndInv'
  BY <1>16 DEF TakeTransfer, MayPromote
<1>17. ASSUME NEW c \in Clients, TakeUndo(c)
       PROVE  IndInv'
  BY <1>17 DEF TakeUndo, RestoredSeat, CanPromote
<1>18. ASSUME NEW c \in Clients, TakeNotify(c)
       PROVE  IndInv'
  BY <1>18 DEF TakeNotify
<1>19. ASSUME NEW c \in Clients, NEW s \in {"drive", "watch", "deny"}, Reload(c, s)
       PROVE  IndInv'
  BY <1>19 DEF Reload
<1>20. CASE UNCHANGED vars
  BY <1>20 DEF vars
<1> QED
  BY <1>1, <1>2, <1>3, <1>4, <1>5, <1>6, <1>7, <1>8, <1>9, <1>10, <1>11, <1>12,
     <1>13, <1>14, <1>15, <1>16, <1>17, <1>18, <1>19, <1>20 DEF Next

(* The sessions' bookkeeping and the seats stay consistent at every send a *)
(* handler can be suspended in.                                            *)
THEOREM SessionsStayConsistent == Spec => []IndInv
  BY InitInv, NextInv, PTL DEF Spec
-----------------------------------------------------------------------------
(* The seats: one record changes at a time, and never without room.        *)

THEOREM SeatsStayWithinCapacity == Port!Spec => []Port!WithinCapacity
<1>1. Port!Init => Port!WithinCapacity
  BY DEF Port!Init, Port!WithinCapacity, Port!Writers
<1>2. ASSUME Port!WithinCapacity, [Port!Next]_seat
      PROVE  Port!WithinCapacity'
  <2> USE <1>2 DEF Port!WithinCapacity, Port!Writers, Port!HasRoom, Port!Attached
  <2>1. ASSUME NEW c \in Clients, NEW m \in Port!Attached, Port!Join(c, m)
        PROVE  Port!WithinCapacity'
    BY <2>1 DEF Port!Join
  <2>2. ASSUME NEW c \in Clients, Port!Grant(c)
        PROVE  Port!WithinCapacity'
    BY <2>2 DEF Port!Grant
  <2>3. ASSUME NEW c \in Clients, Port!Release(c)
        PROVE  Port!WithinCapacity'
    BY <2>3 DEF Port!Release
  <2>4. ASSUME NEW c \in Clients, Port!Leave(c)
        PROVE  Port!WithinCapacity'
    BY <2>4 DEF Port!Leave
  <2>5. CASE UNCHANGED seat
    BY <2>5
  <2> QED
    BY <1>2, <2>1, <2>2, <2>3, <2>4, <2>5 DEF Port!Next
<1> QED
  BY <1>1, <1>2, PTL DEF Port!Spec

(* Under the handlers' invariant, a step of any handler moves one seat the *)
(* way PortSeats allows, or none.                                          *)
LEMMA StepMovesOneSeat == IndInv /\ [Next]_vars => [Port!Next]_seat
<1> SUFFICES ASSUME IndInv, [Next]_vars
             PROVE  [Port!Next]_seat
  OBVIOUS
<1> DEFINE SeatStep == [Port!Next]_seat
<1>seat. seat \in [Clients -> {"absent", "read-only", "read-write"}]
  BY DEF IndInv, TypeOK, Port!Seats, Port!Attached
<1>stay. ASSUME NEW c \in Clients, seat' = [seat EXCEPT ![c] = seat[c]]
         PROVE  SeatStep
  BY <1>stay, <1>seat
<1>grant. ASSUME NEW c \in Clients, CanPromote(c),
                 seat' = [seat EXCEPT ![c] = "read-write"]
          PROVE  SeatStep
  <2>1. CASE seat[c] = "read-write"
    BY <1>grant, <1>stay, <2>1
  <2>2. CASE seat[c] # "read-write"
    <3>1. Port!Grant(c)
      BY <1>grant, <1>seat, <2>2
      DEF CanPromote, Attached, Port!Grant, Port!HasRoom, Writers
    <3> QED
      BY <3>1 DEF Port!Next
  <2> QED
    BY <2>1, <2>2
<1>leave. ASSUME NEW c \in Clients, seat' = [seat EXCEPT ![c] = "absent"]
          PROVE  SeatStep
  <2>1. CASE seat[c] = "absent"
    BY <1>leave, <1>stay, <2>1
  <2>2. CASE seat[c] # "absent"
    BY <1>leave, <2>2 DEF Port!Leave, Port!Next
  <2> QED
    BY <2>1, <2>2
<1>release. ASSUME NEW c \in Clients, Attached(c),
                   seat' = [seat EXCEPT ![c] = "read-only"]
            PROVE  SeatStep
  <2>1. CASE seat[c] = "read-only"
    BY <1>release, <1>stay, <2>1
  <2>2. CASE seat[c] = "read-write"
    BY <1>release, <2>2 DEF Port!Release, Port!Next
  <2> QED
    BY <1>release, <1>seat, <2>1, <2>2 DEF Attached
<1>1. ASSUME NEW c \in Clients, Connect(c)
      PROVE  SeatStep
  <2> DEFINE m == IF standing[c] = "drive" /\ HasFreeSlot(c)
                  THEN "read-write" ELSE "read-only"
  <2>1. ~Attached(c)
    BY <1>1 DEF Connect, IndInv, SessionsConsistent
  <2>2. Writers \ {c} = Writers
    BY <2>1 DEF Attached, Writers, Port!Writers
  <2>3. m = "read-write" => Port!HasRoom(Port!Writers)
    BY <2>2 DEF HasFreeSlot, Writers
  <2>4. Port!Join(c, m)
    BY <1>1, <2>1, <2>3 DEF Connect, Attached, SetSeat, Port!Join, Port!Attached
  <2>5. m \in Port!Attached
    BY DEF Port!Attached
  <2> QED
    BY <2>4, <2>5 DEF Port!Next
<1>2. ASSUME NEW c \in Clients, Detach(c)
      PROVE  SeatStep
  BY <1>2, <1>leave DEF Detach, SetSeat
<1>3. ASSUME NEW c \in Clients, Teardown(c)
      PROVE  SeatStep
  BY <1>3, <1>leave, <1>stay DEF Teardown, SetSeat
<1>4. ASSUME NEW c \in Clients, RequestGranted(c)
      PROVE  SeatStep
  BY <1>4, <1>grant DEF RequestGranted, MayPromote, SetSeat
<1>5. ASSUME NEW c \in Clients, ReleaseDone(c)
      PROVE  SeatStep
  BY <1>5, <1>release DEF ReleaseDone, SetSeat
<1>6. ASSUME NEW c \in Clients, TakeEmptySlot(c)
      PROVE  SeatStep
  BY <1>6, <1>grant
  DEF TakeEmptySlot, MayTake, CanPromote, SetSeat, Port!HasRoom, Writers
<1>7. ASSUME NEW c \in Clients, NEW t \in Clients \cup {NoClient}, TakeDemote(c, t)
      PROVE  SeatStep
  <2> PICK v \in Holders(c) : SetSeat(v, "read-only")
    BY <1>7 DEF TakeDemote
  <2>1. v \in Clients /\ Attached(v)
    BY DEF Holders, Writers, Port!Writers, Attached
  <2> QED
    BY <2>1, <1>release DEF SetSeat
<1>8. ASSUME NEW c \in Clients, TakeTransfer(c)
      PROVE  SeatStep
  BY <1>8, <1>grant DEF TakeTransfer, MayPromote, SetSeat
<1>9. ASSUME NEW c \in Clients, TakeUndo(c)
      PROVE  SeatStep
  <2>1. victim[c] \in Clients
    BY <1>9 DEF TakeUndo, IndInv, TypeOK, Steps
  <2> QED
    BY <1>9, <2>1, <1>grant, <1>stay DEF TakeUndo, RestoredSeat, SetSeat
<1>10. CASE UNCHANGED seat
  BY <1>10
<1>11. ASSUME NEW c \in Clients,
              \/ Open(c) \/ FinishConnect(c) \/ FinishDetach(c) \/ CloseSession(c)
              \/ RequestRefused(c) \/ ReleaseRefused(c) \/ FinishRequest(c)
              \/ TakeNotify(c)
              \/ \E t \in Clients \cup {NoClient} : TakeRefused(c, t)
              \/ \E s \in {"drive", "watch", "deny"} : Reload(c, s)
       PROVE  UNCHANGED seat
  BY <1>11
  DEF Open, FinishConnect, FinishDetach, CloseSession, RequestRefused, ReleaseRefused,
      FinishRequest, TakeNotify, TakeRefused, Reload, slotVars
<1> QED
  BY <1>1, <1>2, <1>3, <1>4, <1>5, <1>6, <1>7, <1>8, <1>9, <1>10, <1>11
  DEF Next, vars

(* The slot protocol implements the port's seats: whatever the handlers'   *)
(* interleaving, attaches, requests, releases and takeovers move one seat  *)
(* at a time and never make a driver where there is no room.               *)
THEOREM ImplementsSeats == Spec => SeatsProtocol
<1>1. Init => Port!Init
  BY DEF Init
<1> QED
  BY <1>1, SessionsStayConsistent, StepMovesOneSeat, PTL
  DEF Spec, SeatsProtocol, Port!Spec

(* No interleaving of the handlers gives the port more drivers than its    *)
(* write mode: none under "none", one under "one".                         *)
THEOREM SlotStaysWithinCapacity == Spec => []WithinCapacity
  BY ImplementsSeats, SeatsStayWithinCapacity, PTL DEF SeatsProtocol, WithinCapacity

-----------------------------------------------------------------------------
(* Takeovers *)

(* While a taker is suspended between demoting the holder and taking the   *)
(* seat, any other handler may run; when it resumes, either it drives, or  *)
(* the victim does again, or somebody else already does, or the victim is  *)
(* gone.                                                                   *)
THEOREM TakeoverKeepsADriver == Spec => TakeKeepsADriver
<1> DEFINE Ends(t) == pc[t] = "take.demoted" /\ pc'[t] # "take.demoted"
           Kept(t) == Writers' # {} \/ seat[victim[t]] = "absent"
<1>1. ASSUME IndInv, Next, NEW t \in Clients, Ends(t)
      PROVE  Kept(t)
  <2> USE DEF IndInv, TypeOK, Steps
  <2>1. TakeTransfer(t) \/ TakeUndo(t)
    BY <1>1
    DEF Next, Open, Connect, FinishConnect, Detach, FinishDetach, Teardown, CloseSession,
        RequestGranted, RequestRefused, ReleaseDone, ReleaseRefused, FinishRequest,
        TakeEmptySlot, TakeRefused, TakeDemote, TakeTransfer, TakeUndo, TakeNotify,
        Reload, Ready, Wait, Answer
  <2>2. CASE TakeTransfer(t)
    <3>1. seat'[t] = "read-write"
      BY <1>1, <2>2 DEF TakeTransfer, SetSeat
    <3> QED
      BY <3>1 DEF Writers, Port!Writers
  <2>3. CASE TakeUndo(t)
    <3> DEFINE v == victim[t]
    <3>1. v \in Clients /\ seat' = [seat EXCEPT ![v] = RestoredSeat(v)]
      BY <1>1, <2>3 DEF TakeUndo, SetSeat
    <3>2. CASE CanPromote(v)
      <4>1. seat'[v] = "read-write"
        BY <1>1, <3>1, <3>2 DEF RestoredSeat
      <4> QED
        BY <3>1, <4>1 DEF Writers, Port!Writers
    <3>3. CASE ~CanPromote(v) /\ Attached(v)
      <4>1. Capacity = "one"
        BY <1>1 DEF SessionsConsistent
      <4>2. PICK w \in Writers : TRUE
        BY <3>3, <4>1 DEF CanPromote, Port!HasRoom, Writers
      <4>3. seat' = seat
        BY <1>1, <3>1, <3>3 DEF RestoredSeat
      <4> QED
        BY <4>2, <4>3 DEF Writers, Port!Writers
    <3>4. CASE ~Attached(v)
      BY <3>4 DEF Attached
    <3> QED
      BY <3>2, <3>3, <3>4
  <2> QED
    BY <2>1, <2>2, <2>3
<1>2. IndInv /\ [Next]_vars => [\A t \in Clients : Ends(t) => Kept(t)]_vars
  BY <1>1
<1> QED
  BY <1>2, SessionsStayConsistent, PTL DEF Spec, TakeKeepsADriver

(* However a request, an attach and a failed takeover interleave with a    *)
(* reload, a client starts to drive only if the ladder lets it at that     *)
(* moment or a failed takeover puts it back (SEC-07).                      *)
THEOREM OnlyEntitledStartToDrive == Spec => GrantsAreEntitled
<1> DEFINE Starts(c) == seat[c] # "read-write" /\ seat'[c] = "read-write"
           Allowed(c) == \/ standing[c] = "drive"
                         \/ \E t \in Clients : /\ pc[t] = "take.demoted"
                                               /\ pc'[t] = "idle"
                                               /\ victim[t] = c
<1>1. ASSUME IndInv, Next, NEW c \in Clients, Starts(c)
      PROVE  Allowed(c)
  <2> USE <1>1 DEF IndInv, TypeOK, Steps, SetSeat, slotVars
  <2>1. ASSUME NEW d \in Clients,
               \/ Connect(d) \/ RequestGranted(d) \/ TakeEmptySlot(d) \/ TakeTransfer(d)
        PROVE  Allowed(c)
    BY <2>1 DEF Connect, RequestGranted, TakeEmptySlot, TakeTransfer, MayPromote, MayTake
  <2>2. ASSUME NEW d \in Clients, TakeUndo(d)
        PROVE  Allowed(c)
    BY <2>2 DEF TakeUndo
  <2>3. ASSUME NEW d \in Clients,
               \/ Open(d) \/ FinishConnect(d) \/ FinishDetach(d) \/ CloseSession(d)
               \/ Detach(d) \/ Teardown(d) \/ RequestRefused(d) \/ ReleaseDone(d)
               \/ ReleaseRefused(d) \/ FinishRequest(d) \/ TakeNotify(d)
        PROVE  FALSE
    BY <2>3
    DEF Open, FinishConnect, FinishDetach, CloseSession, Detach, Teardown,
        RequestRefused, ReleaseDone, ReleaseRefused, FinishRequest, TakeNotify
  <2>4. ASSUME NEW d \in Clients, NEW t \in Clients \cup {NoClient},
               TakeRefused(d, t) \/ TakeDemote(d, t)
        PROVE  FALSE
    BY <2>4 DEF TakeRefused, TakeDemote
  <2>5. ASSUME NEW d \in Clients, NEW s \in {"drive", "watch", "deny"}, Reload(d, s)
        PROVE  FALSE
    BY <2>5 DEF Reload
  <2> QED
    BY <2>1, <2>2, <2>3, <2>4, <2>5 DEF Next
<1>2. IndInv /\ [Next]_vars => [\A c \in Clients : Starts(c) => Allowed(c)]_vars
  BY <1>1
<1> QED
  BY <1>2, SessionsStayConsistent, PTL DEF Spec, GrantsAreEntitled

-----------------------------------------------------------------------------
(* Sessions *)

(* Stopping the listener is the only way to strand a seat: if it never     *)
(* tears a session down while its CONNECT is in flight, a session that is  *)
(* closed holds nothing.                                                   *)
THEOREM OrphansNeedAStop == ~StopRaces => (Spec => []NoOrphanSeat)
<1> SUFFICES ASSUME ~StopRaces
             PROVE  Spec => []NoOrphanSeat
  OBVIOUS
<1> DEFINE Closed == \A c \in Clients :
                       /\ conn[c] = "closed" => ~Attached(c) /\ pc[c] # "connect"
                       /\ conn[c] = "closing" => ~Attached(c) /\ pc[c] # "connect"
                       /\ pc[c] = "connect" => ~tracked[c]
<1>1. Init => Closed
  BY DEF Init, Attached, Port!Init
<1>2. IndInv /\ Closed /\ [Next]_vars => Closed'
  <2> SUFFICES ASSUME IndInv, Closed, [Next]_vars
               PROVE  Closed'
    OBVIOUS
  <2> USE DEF IndInv, TypeOK, SessionsConsistent, Attached, Steps, SetSeat, slotVars,
              Port!Seats, Port!Attached
  <2>1. CASE UNCHANGED vars
    BY <2>1 DEF vars
  <2>2. ASSUME NEW c \in Clients,
               \/ Open(c) \/ Connect(c) \/ FinishConnect(c) \/ Detach(c)
               \/ FinishDetach(c) \/ Teardown(c) \/ CloseSession(c)
        PROVE  Closed'
    BY <2>2
    DEF Open, Connect, FinishConnect, Detach, FinishDetach, Teardown, CloseSession,
        Wait, Ready
  <2>3. ASSUME NEW c \in Clients,
               \/ RequestGranted(c) \/ RequestRefused(c) \/ ReleaseDone(c)
               \/ ReleaseRefused(c) \/ FinishRequest(c) \/ TakeEmptySlot(c)
        PROVE  Closed'
    BY <2>3
    DEF RequestGranted, RequestRefused, ReleaseDone, ReleaseRefused, FinishRequest,
        TakeEmptySlot, MayTake, MayPromote, Wait, Ready, Answer
  <2>4. ASSUME NEW c \in Clients, NEW t \in Clients \cup {NoClient},
               TakeRefused(c, t) \/ TakeDemote(c, t)
        PROVE  Closed'
    BY <2>4 DEF TakeRefused, TakeDemote, Holders, Writers, Port!Writers, Answer
  <2>5. ASSUME NEW c \in Clients, TakeTransfer(c) \/ TakeUndo(c) \/ TakeNotify(c)
        PROVE  Closed'
    BY <2>5 DEF TakeTransfer, TakeUndo, TakeNotify, MayPromote, RestoredSeat, CanPromote
  <2>6. ASSUME NEW c \in Clients, NEW s \in {"drive", "watch", "deny"}, Reload(c, s)
        PROVE  Closed'
    BY <2>6 DEF Reload
  <2> QED
    BY <2>1, <2>2, <2>3, <2>4, <2>5, <2>6 DEF Next
<1>3. Closed => NoOrphanSeat
  BY DEF NoOrphanSeat
<1> QED
  BY <1>1, <1>2, <1>3, SessionsStayConsistent, PTL DEF Spec
=============================================================================
