----------------------------- MODULE WriteSlot -----------------------------
(***************************************************************************)
(* The write slot of one local port: ConsoleManager's attach, request,     *)
(* release and takeover over PortManager's seat records, driven by the TCP *)
(* client listener's sessions.                                             *)
(*                                                                         *)
(* The server is one asyncio loop.  On a local port a handler is suspended *)
(* only while it sends: the viewer list broadcast_presence fans out after  *)
(* every seat change, and a takeover's notice to its victim.  Between two  *)
(* such sends a handler is atomic, and while it is suspended every other   *)
(* session's handler may run.  pc[c] says at which send c's own handler    *)
(* waits; "idle" is a session waiting for its client's next frame.         *)
(*                                                                         *)
(* client_port_map and the port's connected_clients change together on a   *)
(* local port (no send lies between them), so seat stands for both.        *)
(***************************************************************************)
EXTENDS Naturals

CONSTANTS Clients,      \* client sessions (their ids are uuids, never reused)
          NoClient,     \* no victim
          Capacity,     \* the port's max_read_write_users
          MaxReloads,   \* bound: standing changes by soft reloads
          StopRaces     \* may the listener stop while a CONNECT is in flight

ASSUME WriteSlotAssumption == /\ NoClient \notin Clients
                              /\ Capacity \in {"none", "one", "multiple"}
                              /\ MaxReloads \in Nat
                              /\ StopRaces \in BOOLEAN

VARIABLES seat,      \* seat[c]: c's mode in connected_clients
          standing,  \* standing[c]: what the access ladder says of c's user
          conn,      \* conn[c]: the socket, and the teardown_started claim
          tracked,   \* tracked[c]: connected_port and the channel are recorded
          view,      \* view[c]: the mode the session last recorded and told
          pc,        \* pc[c]: where c's handler waits
          victim,    \* victim[c]: the holder c's takeover demoted
          granted,   \* granted[c]: the mode c's CONNECTED line will carry
          reloads

vars == <<seat, standing, conn, tracked, view, pc, victim, granted, reloads>>
slotVars == <<seat, standing, reloads>>

Port == INSTANCE PortSeats

Steps == {"idle", "connect", "promote", "release", "detach",
          "take.demoted", "take.promoted", "take.noticed"}
TypeOK == /\ seat \in [Clients -> Port!Seats]
          /\ standing \in [Clients -> {"drive", "watch", "deny"}]
          /\ conn \in [Clients -> {"open", "closing", "closed"}]
          /\ tracked \in [Clients -> BOOLEAN]
          /\ view \in [Clients -> Port!Seats]
          /\ pc \in [Clients -> Steps]
          /\ victim \in [Clients -> Clients \cup {NoClient}]
          /\ granted \in [Clients -> Port!Attached]
          /\ reloads \in Nat
          /\ \A c \in Clients :
               /\ victim[c] # c
               /\ pc[c] \in {"take.demoted", "take.promoted", "take.noticed"}
                    <=> victim[c] # NoClient

Init == /\ Port!Init
        /\ standing \in [Clients -> {"drive", "watch", "deny"}]
        /\ conn = [c \in Clients |-> "closed"]
        /\ tracked = [c \in Clients |-> FALSE]
        /\ view = [c \in Clients |-> "absent"]
        /\ pc = [c \in Clients |-> "idle"]
        /\ victim = [c \in Clients |-> NoClient]
        /\ granted = [c \in Clients |-> "read-only"]
        /\ reloads = 0

-----------------------------------------------------------------------------
(* Answers and waits *)

Attached(c) == seat[c] # "absent"

(* The session reads its client's frames in character mode: connected_port  *)
(* is set and the socket is not closed.                                     *)
Ready(c) == pc[c] = "idle" /\ tracked[c] /\ conn[c] # "closed"

(* The handler answers at once, without a send before the answer.          *)
Answer(c, m) == /\ view' = [view EXCEPT ![c] = m]
                /\ UNCHANGED <<pc, victim, granted>>

(* The handler suspends in a send of the viewer list.                      *)
Wait(c, step) == /\ pc' = [pc EXCEPT ![c] = step]
                 /\ UNCHANGED <<victim, view>>

SetSeat(c, m) == seat' = [seat EXCEPT ![c] = m]

-----------------------------------------------------------------------------
(* PortManager and the access ladder *)

Writers == Port!Writers

(* _rw_counts: a client's own seat does not count against it.              *)
HasFreeSlot(c) == Port!HasRoom(Writers \ {c})

(* PortManager.promote_client: attached, and already driving or a free slot. *)
CanPromote(c) == /\ Attached(c)
                 /\ seat[c] = "read-write" \/ Port!HasRoom(Writers)

(* A variant for comparison: the ladder is not asked again (SEC-07).        *)
MayPromoteAnyone(c) == CanPromote(c)

(* promote_client_to_read_write up to its broadcast, on a local port.       *)
MayPromote(c) == /\ Attached(c)
                 /\ standing[c] = "drive"
                 /\ CanPromote(c)

-----------------------------------------------------------------------------
(* The session: accept, CONNECT, detach, teardown *)

Open(c) == /\ conn[c] = "closed" /\ pc[c] = "idle" /\ ~Attached(c)
           /\ conn' = [conn EXCEPT ![c] = "open"]
           /\ UNCHANGED <<slotVars, tracked, view, pc, victim, granted>>

(* connect_client_to_port: the ladder and the seat record, then the viewer  *)
(* broadcast; a refusal leaves everything as it was.                        *)
Connect(c) ==
    LET mode == IF standing[c] = "drive" /\ HasFreeSlot(c)
                THEN "read-write" ELSE "read-only"
    IN  /\ pc[c] = "idle" /\ conn[c] = "open" /\ ~tracked[c]
        /\ standing[c] # "deny"
        /\ SetSeat(c, mode)
        /\ granted' = [granted EXCEPT ![c] = mode]
        /\ Wait(c, "connect")
        /\ UNCHANGED <<standing, conn, tracked, reloads>>

(* _finish_tcp_connect: connected_port, the channel, the mode and the       *)
(* CONNECTED line, whatever became of the socket meanwhile.                 *)
FinishConnect(c) == /\ pc[c] = "connect"
                    /\ pc' = [pc EXCEPT ![c] = "idle"]
                    /\ tracked' = [tracked EXCEPT ![c] = TRUE]
                    /\ view' = [view EXCEPT ![c] = granted[c]]
                    /\ granted' = [granted EXCEPT ![c] = "read-only"]
                    /\ UNCHANGED <<slotVars, conn, victim>>

(* The detach control frame, and DISCONNECT: the mode is dropped first.     *)
Detach(c) == /\ Ready(c)
             /\ SetSeat(c, "absent")
             /\ pc' = [pc EXCEPT ![c] = "detach"]
             /\ view' = [view EXCEPT ![c] = "absent"]
             /\ UNCHANGED <<standing, reloads, conn, tracked, victim, granted>>

FinishDetach(c) == /\ pc[c] = "detach"
                   /\ pc' = [pc EXCEPT ![c] = "idle"]
                   /\ tracked' = [tracked EXCEPT ![c] = FALSE]
                   /\ UNCHANGED <<slotVars, conn, view, victim, granted>>

(* disconnect_client, called by the listener's stop() or by the session's   *)
(* own handler at end of file: it claims the session and leaves the port    *)
(* the session is recorded on.                                              *)
Teardown(c) ==
    /\ conn[c] = "open"
    /\ StopRaces \/ pc[c] # "connect"
    /\ conn' = [conn EXCEPT ![c] = IF tracked[c] THEN "closing" ELSE "closed"]
    /\ SetSeat(c, IF tracked[c] THEN "absent" ELSE seat[c])
    /\ UNCHANGED <<standing, reloads, tracked, view, pc, victim, granted>>

(* The rest of disconnect_client: the routing entry goes, then the socket.  *)
CloseSession(c) == /\ conn[c] = "closing"
                   /\ conn' = [conn EXCEPT ![c] = "closed"]
                   /\ tracked' = [tracked EXCEPT ![c] = FALSE]
                   /\ view' = [view EXCEPT ![c] = "absent"]
                   /\ UNCHANGED <<slotVars, pc, victim, granted>>

-----------------------------------------------------------------------------
(* request_rw and release_rw *)

RequestGranted(c) == /\ Ready(c)
                     /\ MayPromote(c)
                     /\ SetSeat(c, "read-write")
                     /\ Wait(c, "promote")
                     /\ UNCHANGED <<standing, conn, tracked, granted, reloads>>

(* NOT_ATTACHED, a refusal of the ladder, or PROMOTE_FAILED: all read-only. *)
RequestRefused(c) == /\ Ready(c)
                     /\ ~MayPromote(c)
                     /\ Answer(c, "read-only")
                     /\ UNCHANGED <<slotVars, conn, tracked>>

ReleaseDone(c) == /\ Ready(c)
                  /\ Attached(c)
                  /\ SetSeat(c, "read-only")
                  /\ Wait(c, "release")
                  /\ UNCHANGED <<standing, conn, tracked, granted, reloads>>

(* demote_client_to_read_only answers NOT_ATTACHED with mode read-write.    *)
ReleaseRefused(c) == /\ Ready(c)
                     /\ ~Attached(c)
                     /\ Answer(c, "read-write")
                     /\ UNCHANGED <<slotVars, conn, tracked>>

(* The answer after the last send of a request, a release or a takeover.    *)
FinishRequest(c) == /\ pc[c] \in {"promote", "release", "take.noticed"}
                    /\ pc' = [pc EXCEPT ![c] = "idle"]
                    /\ view' = [view EXCEPT ![c] = IF pc[c] = "release"
                                                   THEN "read-only"
                                                   ELSE "read-write"]
                    /\ victim' = [victim EXCEPT ![c] = NoClient]
                    /\ UNCHANGED <<slotVars, conn, tracked, granted>>

-----------------------------------------------------------------------------
(* take_write_slot on a local port *)

(* _resolve_take_target: the other writers.                                 *)
Holders(c) == Writers \ {c}

MayTake(c) == Attached(c) /\ standing[c] = "drive"

(* The refusals, and already_rw: no seat changes, the mode is the answer's. *)
TakeAnswer(c, target) ==
    CASE ~MayTake(c)                         -> "read-only"
      [] MayTake(c) /\ Capacity = "none"     -> "read-only"
      [] MayTake(c) /\ Capacity = "multiple" -> seat[c]
      [] OTHER -> IF target = NoClient THEN "read-write" ELSE "read-only"

(* No transfer and no empty slot to take.                                   *)
NothingToTake(c, target) ==
    \/ ~MayTake(c)
    \/ Capacity # "one"
    \/ IF target = NoClient
       THEN Holders(c) = {} /\ seat[c] = "read-write"
       ELSE target \notin Holders(c)

TakeRefused(c, target) == /\ Ready(c)
                          /\ NothingToTake(c, target)
                          /\ Answer(c, TakeAnswer(c, target))
                          /\ UNCHANGED <<slotVars, conn, tracked>>

(* A take without a target of a slot nobody holds.                          *)
TakeEmptySlot(c) == /\ Ready(c)
                    /\ Capacity = "one"
                    /\ MayTake(c)
                    /\ Writers = {}
                    /\ SetSeat(c, "read-write")
                    /\ Wait(c, "promote")
                    /\ UNCHANGED <<standing, conn, tracked, granted, reloads>>

(* _take_slot_local: demote the holder, whose presence broadcast suspends.  *)
TakeDemote(c, target) ==
    /\ Ready(c)
    /\ Capacity = "one"
    /\ MayTake(c)
    /\ \E v \in Holders(c) :
         /\ target \in {NoClient, v}
         /\ SetSeat(v, "read-only")
         /\ victim' = [victim EXCEPT ![c] = v]
    /\ pc' = [pc EXCEPT ![c] = "take.demoted"]
    /\ UNCHANGED <<standing, conn, tracked, view, granted, reloads>>

TakeTransfer(c) == /\ pc[c] = "take.demoted"
                   /\ MayPromote(c)
                   /\ SetSeat(c, "read-write")
                   /\ pc' = [pc EXCEPT ![c] = "take.promoted"]
                   /\ UNCHANGED <<standing, conn, tracked, view, victim, granted, reloads>>

(* Variants for comparison: the victim is put back without asking whether   *)
(* it may be, and is not put back at all.                                   *)
RestoredBlindly(v) == "read-write"
NotRestored(v) == seat[v]

(* The taker was refused: put the victim back, if its seat is still there.  *)
RestoredSeat(v) == IF CanPromote(v) THEN "read-write" ELSE seat[v]

TakeUndo(c) == /\ pc[c] = "take.demoted"
               /\ ~MayPromote(c)
               /\ SetSeat(victim[c], RestoredSeat(victim[c]))
               /\ pc' = [pc EXCEPT ![c] = "idle"]
               /\ victim' = [victim EXCEPT ![c] = NoClient]
               /\ view' = [view EXCEPT ![c] = "read-only"]
               /\ UNCHANGED <<standing, conn, tracked, granted, reloads>>

(* The demoted notice, delivered if the victim's channel is registered.     *)
TakeNotify(c) ==
    /\ pc[c] = "take.promoted"
    /\ pc' = [pc EXCEPT ![c] = "take.noticed"]
    /\ view' = [view EXCEPT ![victim[c]] =
                  IF tracked[victim[c]] THEN "read-only" ELSE @]
    /\ UNCHANGED <<slotVars, conn, tracked, victim, granted>>

-----------------------------------------------------------------------------
(* A soft reload replaces the users or a port's group lists in place: it    *)
(* changes what the ladder will say, never a seat already held.             *)
Reload(c, s) == /\ reloads < MaxReloads
                /\ s # standing[c]
                /\ standing' = [standing EXCEPT ![c] = s]
                /\ reloads' = reloads + 1
                /\ UNCHANGED <<seat, conn, tracked, view, pc, victim, granted>>

Next == \E c \in Clients :
          \/ Open(c)
          \/ Connect(c)
          \/ FinishConnect(c)
          \/ Detach(c)
          \/ FinishDetach(c)
          \/ Teardown(c)
          \/ CloseSession(c)
          \/ RequestGranted(c)
          \/ RequestRefused(c)
          \/ ReleaseDone(c)
          \/ ReleaseRefused(c)
          \/ FinishRequest(c)
          \/ TakeEmptySlot(c)
          \/ \E t \in Clients \cup {NoClient} : TakeRefused(c, t) \/ TakeDemote(c, t)
          \/ TakeTransfer(c)
          \/ TakeUndo(c)
          \/ TakeNotify(c)
          \/ \E s \in {"drive", "watch", "deny"} : Reload(c, s)

Spec == Init /\ [][Next]_vars

-----------------------------------------------------------------------------
(* Properties *)

(* What the handlers rely on between their sends: a session that is on its  *)
(* way in or out has the seat its next step expects, and a takeover is only *)
(* ever under way on a one-writer port (inductive; see WriteSlotProofs).    *)
SessionsConsistent ==
    \A c \in Clients :
      /\ ~tracked[c] /\ pc[c] # "connect" /\ conn[c] # "closed" => ~Attached(c)
      /\ pc[c] = "detach" => ~Attached(c)
      /\ pc[c] = "take.demoted" => Capacity = "one"

IndInv == TypeOK /\ SessionsConsistent

(* Every step of the slot protocol is a step of the port's seats: one seat  *)
(* changes at a time, and no driver is made where there is no room.         *)
SeatsProtocol == Port!Spec

(* The slot count is invariant under a takeover: no interleaving of         *)
(* attaches, requests and takes makes more drivers than the port allows.    *)
WithinCapacity == Port!WithinCapacity

(* _take_slot_local: whatever happens while a takeover is suspended between *)
(* the demotion and the promotion, the port is not left without a driver    *)
(* unless the victim itself has gone.                                       *)
TakeKeepsADriver ==
    [][\A t \in Clients :
         pc[t] = "take.demoted" /\ pc'[t] # "take.demoted"
           => Writers' # {} \/ seat[victim[t]] = "absent"]_vars

(* A client starts to drive only if the ladder lets it at that moment, or   *)
(* as the victim a failed takeover puts back.                               *)
GrantsAreEntitled ==
    [][\A c \in Clients :
         seat[c] # "read-write" /\ seat'[c] = "read-write"
           => \/ standing[c] = "drive"
              \/ \E t \in Clients : /\ pc[t] = "take.demoted"
                                    /\ pc'[t] = "idle"
                                    /\ victim[t] = c]_vars

(* A session that has been torn down holds no seat once its handler is done *)
(* (disconnect_client: "tear it down once. The loser has nothing left to    *)
(* do").                                                                    *)
NoOrphanSeat == \A c \in Clients :
                  conn[c] = "closed" /\ pc[c] = "idle" => ~Attached(c)

AtRest(c) == /\ conn[c] = "open" /\ pc[c] = "idle" /\ tracked[c]
             /\ \A t \in Clients : victim[t] # c

(* "the session, the printed line, and the Port agree": a driver at rest is *)
(* not shown as read-only, which would stop its keystrokes while the port   *)
(* still lists it as the writer (issue #98).                                *)
NoMutedDriver == \A c \in Clients :
                   AtRest(c) /\ seat[c] = "read-write"
                     => view[c] = "read-write"
=============================================================================
