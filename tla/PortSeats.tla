----------------------------- MODULE PortSeats -----------------------------
(***************************************************************************)
(* What a port promises about its seats, whoever drives it.                *)
(*                                                                         *)
(* Every attached client has one record in the port's connected_clients,   *)
(* and the record's mode says whether the client watches or drives.  The   *)
(* port's max_read_write_users setting ("none", "one" or "multiple") says  *)
(* how many may drive at once.  Whatever protocol hands the seats around   *)
(* (an attach, a request, a takeover, a federated peer), a step of it      *)
(* changes one seat, and no step makes a driver where there is no room.    *)
(***************************************************************************)
CONSTANTS Clients,    \* the client sessions that may attach
          Capacity    \* the port's write mode, "none", "one" or "multiple"

Attached == {"read-only", "read-write"}
Seats == Attached \cup {"absent"}

VARIABLE seat   \* seat[c]: the mode of c's record, "absent" when it has none

Writers == {c \in Clients : seat[c] = "read-write"}

(* current_rw < capacity, for the capacities 0, 1 and infinity. *)
HasRoom(holders) == \/ Capacity = "multiple"
                    \/ Capacity = "one" /\ holders = {}

Init == seat = [c \in Clients |-> "absent"]

Join(c, m) == /\ seat[c] = "absent"
              /\ m \in Attached
              /\ m = "read-write" => HasRoom(Writers)
              /\ seat' = [seat EXCEPT ![c] = m]

Grant(c) == /\ seat[c] = "read-only"
            /\ HasRoom(Writers)
            /\ seat' = [seat EXCEPT ![c] = "read-write"]

Release(c) == /\ seat[c] = "read-write"
              /\ seat' = [seat EXCEPT ![c] = "read-only"]

Leave(c) == /\ seat[c] # "absent"
            /\ seat' = [seat EXCEPT ![c] = "absent"]

Next == \E c \in Clients : \/ \E m \in Attached : Join(c, m)
                           \/ Grant(c)
                           \/ Release(c)
                           \/ Leave(c)

Spec == Init /\ [][Next]_seat

(* A port never has more drivers than its write mode allows: none at all   *)
(* under "none", one under "one" (write_capacity against connected_clients). *)
WithinCapacity == /\ Capacity = "none" => Writers = {}
                  /\ Capacity = "one" => \A a, b \in Writers : a = b
=============================================================================
