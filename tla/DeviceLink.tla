----------------------------- MODULE DeviceLink -----------------------------
(***************************************************************************)
(* What the device ports of an adapter promise about their links, whatever *)
(* the adapter does behind it (a serial supervisor, an outbound TCP        *)
(* manager): a port is idle, or somebody tends its link, or it is gone;    *)
(* the link comes up only while somebody tends it; and of a port that is   *)
(* gone nothing is left at work, until its name is used again.             *)
(***************************************************************************)
CONSTANT Ports

VARIABLES phase,   \* phase[p]: "gone", "idle" or "tended"
          up       \* up[p]: the port's is_connected

vars == <<phase, up>>

Init == /\ phase \in [Ports -> {"gone", "idle"}]
        /\ up = [p \in Ports |-> FALSE]

Becomes(p, newPhase, newUp) == phase'[p] = newPhase /\ up'[p] = newUp

(* A port is created under the name, and its supervisor started or not.    *)
Create(p) == phase[p] = "gone" /\ \E f \in {"idle", "tended"} : Becomes(p, f, FALSE)

(* A supervisor starts later: for the first user, or after a duplicate.    *)
Tend(p) == phase[p] = "idle" /\ Becomes(p, "tended", up[p])

(* It gives up, or it is not wanted any more.                              *)
Rest(p) == phase[p] = "tended" /\ Becomes(p, "idle", up[p])

(* Who connected the link stays to watch it, unless one attempt was all.   *)
Connect(p) == /\ phase[p] = "tended" /\ ~up[p]
              /\ \E f \in {"tended", "idle"} : Becomes(p, f, TRUE)

(* The device closes the link, or an idle port lets it go.                 *)
Drop(p) == up[p] /\ \E f \in {phase[p], "idle"} : Becomes(p, f, FALSE)

(* The port is stopped and destroyed.                                      *)
Stop(p) == phase[p] # "gone" /\ Becomes(p, "gone", FALSE)

Step(p) == Create(p) \/ Tend(p) \/ Rest(p) \/ Connect(p) \/ Drop(p) \/ Stop(p)

(* One step of the adapter may stop a port and resume another.             *)
Next == \A p \in Ports : Step(p) \/ Becomes(p, phase[p], up[p])

Spec == Init /\ [][Next]_vars
=============================================================================
