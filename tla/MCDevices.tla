----------------------------- MODULE MCDevices -----------------------------
(***************************************************************************)
(* The serial and TCP ports and the power section in one run: Init picks   *)
(* the one a behaviour is about, and the others stay in a state from which *)
(* their fairness asks for nothing.  All ports together implement          *)
(* DeviceLink.                                                             *)
(***************************************************************************)
EXTENDS TcpInitiator

CONSTANTS tcpPort,
          SerialNames, Paths, MaxTries,     \* SerialPorts
          Outlets, Pdus, MaxEvents          \* Power

ASSUME DevicesAssumption == MaxTries \in Nat /\ tcpPort \notin SerialNames

VARIABLES which,
          listed, port, admin,
          owner, pdus, enabled, was, running, readings, last, device, task, lock,
          taken, backoff, todo, current, step, stage, switch, menu, told, events

serialVars == <<listed, port, admin>>
powerVars == <<owner, pdus, enabled, was, running, readings, last, device, task,
               lock, taken, backoff, todo, current, step, stage, switch, menu,
               told, events>>

Serial == INSTANCE SerialPorts WITH Ports <- SerialNames, Devices <- Paths
Section == INSTANCE Power WITH reading <- readings

\* One PDU has all the outlets or the first is not its; all are on, or all off.
Spread == /\ \E p \in Pdus : \/ \A o \in Outlets : owner[o] = p
                             \/ owner[CHOOSE o \in Outlets : TRUE] # p
          /\ \E s \in Section!States : device = [o \in Outlets |-> s]

MCInit ==
    /\ which \in {"serial", "tcp", "power"}
    /\ Serial!Init /\ Init /\ Section!Init /\ Spread
    /\ which # "serial" => port = [p \in SerialNames |->
                                     Serial!Fresh(CHOOSE d \in Paths : TRUE)]
    /\ which # "tcp" => cfg = [onDemand |-> FALSE, idleDrop |-> FALSE, auto |-> FALSE]
    /\ which # "power" => /\ ~enabled /\ owner = [o \in Outlets |-> CHOOSE p \in Pdus : TRUE]
                          /\ \A o \in Outlets : device[o] = "on"

MCNext ==
    /\ UNCHANGED which
    /\ \/ which = "serial" /\ Serial!Next /\ UNCHANGED <<vars, powerVars>>
       \/ which = "tcp" /\ Next /\ UNCHANGED <<serialVars, powerVars>>
       \/ which = "power" /\ Section!Next /\ UNCHANGED <<vars, serialVars>>

MCSpec == /\ MCInit /\ [][MCNext]_<<which, vars, serialVars, powerVars>>
          /\ Serial!Fairness /\ Section!Fairness
-----------------------------------------------------------------------------
(* Issue #57, _recompute_duplicate_device_flags: a device is tended by the *)
(* first listed port that names it and by no other.                        *)
OnePortPerDevice == Serial!OnePortPerDevice

(* SerialPortWrapper.stop: the read loop swallows the cancellation, and    *)
(* the stop ends all the same.                                             *)
StopEnds == Serial!StopEnds

(* Every serial and TCP port's link comes up only while somebody tends it, *)
(* and nothing is left at work when the port is gone.                      *)
Links == INSTANCE DeviceLink
    WITH Ports <- SerialNames \cup {tcpPort},
         phase <- [p \in SerialNames \cup {tcpPort} |->
                     IF p = tcpPort THEN Phase ELSE Serial!PhaseOf(p)],
         up <- [p \in SerialNames \cup {tcpPort} |->
                  IF p = tcpPort THEN conn ELSE port[p].connected]

LinksKeepTheirPromise == Links!Spec

(* PduPort's poll and reconcile: what an outlet shows becomes what it is.  *)
ReadingsCatchUp == Section!ReadingsCatchUp

(* _emit_outlet_change: the users of a port whose last feed went are told. *)
LossIsTold == Section!LossIsTold
=============================================================================
