---------------------------- MODULE TcpInitiator ----------------------------
(***************************************************************************)
(* One outbound TCP port (tcp_initiator.py): the connection manager task   *)
(* that connects and then watches the link, the read loop of every         *)
(* connection, the users that come and go, the idle disconnect, and        *)
(* stop().  A port may connect at start or on demand, may drop the link    *)
(* when it is idle, and may or may not reconnect.                          *)
(*                                                                         *)
(* A cancelled task runs once more before it ends.  The idle disconnect    *)
(* swallows a cancellation that reaches it while it waits for the manager  *)
(* it has cancelled itself.                                                *)
(***************************************************************************)
EXTENDS Naturals

CONSTANT MaxConns     \* bound: connections established in a behaviour

VARIABLES
    cfg,       \* connect_on_demand, disconnect_when_idle, auto_reconnect
    clients,   \* _active_clients
    conn,      \* is_connected
    cur,       \* the connection that reader and writer belong to
    reading,   \* the connections whose read loop runs
    shut,      \* the connections whose writer was closed
    mgr,       \* the task in reconnect_task
    idle,      \* the idle disconnect tasks, by slot
    handle,    \* the slot in _idle_disconnect_task, 0 for None
    stopper    \* how far stop() is

vars == <<cfg, clients, conn, cur, reading, shut, mgr, idle, handle, stopper>>

Slots == {1, 2}
Conns == 1..MaxConns
MgrAlive == mgr \in {"new", "connecting", "ticking", "backoff", "cancelled"}
Pending(t) == idle[t] \in {"waiting", "joining", "closing", "cancelled", "cut"}

Init == /\ cfg \in [onDemand : BOOLEAN, idleDrop : BOOLEAN, auto : BOOLEAN]
        /\ clients = 0 /\ conn = FALSE /\ cur = 0 /\ reading = {} /\ shut = {}
        /\ mgr = "none" /\ handle = 0
        /\ idle = [t \in Slots |-> "none"]
        /\ stopper = "new"

-----------------------------------------------------------------------------
(* start(): an on-demand port waits for its first user.                    *)
Start == /\ stopper = "new" /\ stopper' = "no"
         /\ mgr' = IF cfg.onDemand THEN "none" ELSE "new"
         /\ UNCHANGED <<cfg, clients, conn, cur, shut, reading, idle, handle>>

(* Cancelling an idle task, by the await it is in: its sleep and its close *)
(* end, but while it joins the manager the cancellation is swallowed.      *)
CancelIdle(t) ==
    idle' = [idle EXCEPT ![t] = CASE @ = "waiting" -> "cancelled"
                                  [] @ = "closing" -> "cut"
                                  [] OTHER -> @]

NewIdle(t) == idle' = [idle EXCEPT ![t] = "waiting"] /\ handle' = t

(* on_client_count_changed: any change calls off the pending disconnect;   *)
(* the first user starts a manager unless the port is connected or one is  *)
(* at work; the last one leaving starts the idle disconnect.               *)
CallOff == IF handle # 0 /\ Pending(handle)
           THEN CancelIdle(handle) /\ handle' = 0
           ELSE UNCHANGED <<idle, handle>>

(* Mutant: a manager that has ended still counts as one.                   *)
UserArrivesOnce ==
    /\ stopper = "no" /\ clients = 0 /\ clients' = 1
    /\ IF cfg.onDemand
       THEN CallOff /\ mgr' = IF ~conn /\ mgr = "none" THEN "new" ELSE mgr
       ELSE UNCHANGED <<idle, handle, mgr>>
    /\ UNCHANGED <<cfg, conn, cur, shut, reading, stopper>>

UserArrives ==
    /\ stopper = "no" /\ clients = 0 /\ clients' = 1
    /\ IF cfg.onDemand
       THEN /\ CallOff
            /\ mgr' = IF ~conn /\ ~MgrAlive THEN "new" ELSE mgr
       ELSE UNCHANGED <<idle, handle, mgr>>
    /\ UNCHANGED <<cfg, conn, cur, shut, reading, stopper>>

UserLeaves ==
    /\ stopper = "no" /\ clients = 1 /\ clients' = 0
    /\ handle # 0 => ~Pending(handle)
    /\ IF cfg.onDemand /\ cfg.idleDrop /\ conn
       THEN \E t \in Slots : ~Pending(t) /\ NewIdle(t)
       ELSE UNCHANGED <<idle, handle>>
    /\ UNCHANGED <<cfg, conn, cur, shut, reading, mgr, stopper>>

-----------------------------------------------------------------------------
(* _connection_manager: one attempt, then the monitor.                     *)
ManagerStarts ==
    /\ mgr = "new"
    /\ mgr' = IF ~conn THEN "connecting" ELSE IF cfg.auto THEN "ticking" ELSE "done"
    /\ UNCHANGED <<cfg, clients, conn, cur, shut, reading, idle, handle, stopper>>

Established ==
    /\ mgr = "connecting" /\ cur < MaxConns
    /\ conn' = TRUE /\ cur' = cur + 1
    /\ reading' = reading \cup {cur + 1}
    /\ mgr' = IF cfg.auto THEN "ticking" ELSE "done"
    /\ UNCHANGED <<cfg, clients, idle, handle, stopper, shut>>

(* The first attempt is followed by the monitor's tick, the later ones by  *)
(* reconnect_delay; both are sleeps.                                       *)
ConnectFails ==
    /\ mgr = "connecting"
    /\ mgr' = IF cfg.auto THEN "backoff" ELSE "done"
    /\ UNCHANGED <<cfg, clients, conn, cur, shut, reading, idle, handle, stopper>>

(* _monitor_connection's tick: an on-demand port without users gives up.   *)
Tick ==
    /\ mgr = "ticking"
    /\ ~conn
    /\ mgr' = IF cfg.onDemand /\ clients = 0 THEN "done" ELSE "connecting"
    /\ UNCHANGED <<cfg, clients, conn, cur, shut, reading, idle, handle, stopper>>

BackOff == /\ mgr = "backoff" /\ mgr' = "ticking"
           /\ UNCHANGED <<cfg, clients, conn, cur, shut, reading, idle, handle, stopper>>

(* Wherever the manager was, a cancellation ends it.                       *)
ManagerCancelled ==
    /\ mgr = "cancelled" /\ mgr' = "done"
    /\ UNCHANGED <<cfg, clients, conn, cur, shut, reading, idle, handle, stopper>>

ManagerStep == ManagerStarts \/ Established \/ ConnectFails \/ Tick \/ BackOff
               \/ ManagerCancelled

-----------------------------------------------------------------------------
(* _disconnect up to wait_closed.                                          *)
Close(t) == IF conn THEN /\ idle' = [idle EXCEPT ![t] = "closing"]
                         /\ shut' = shut \cup {cur}
            ELSE idle' = [idle EXCEPT ![t] = "done"] /\ UNCHANGED shut

(* _idle_disconnect: after the delay, if nobody came, end the manager ...  *)
IdleFires(t) ==
    /\ idle[t] = "waiting"
    /\ IF clients > 0 THEN idle' = [idle EXCEPT ![t] = "done"] /\ UNCHANGED <<mgr, shut>>
       ELSE IF MgrAlive
            THEN /\ idle' = [idle EXCEPT ![t] = "joining"]
                 /\ mgr' = "cancelled" /\ UNCHANGED shut
       ELSE Close(t) /\ UNCHANGED mgr
    /\ UNCHANGED <<cfg, clients, conn, cur, reading, handle, stopper>>

(* ... forget it, and close the connection, ...                            *)
IdleJoined(t) ==
    /\ idle[t] = "joining" /\ mgr = "done"
    /\ mgr' = "none"
    /\ Close(t)
    /\ UNCHANGED <<cfg, clients, conn, cur, reading, handle, stopper>>

(* ... which is down when the writer is closed (its reader saw the end of  *)
(* file before), or when a cancellation leaves _disconnect through its     *)
(* finally; either way the port is marked down, whatever it uses by now.   *)
IdleClosed(t) ==
    /\ \/ idle[t] = "closing" /\ shut \cap reading = {}
       \/ idle[t] = "cut"
    /\ conn' = FALSE
    /\ idle' = [idle EXCEPT ![t] = "done"]
    /\ UNCHANGED <<cfg, clients, cur, reading, shut, mgr, handle, stopper>>

IdleCancelled(t) ==
    /\ idle[t] = "cancelled"
    /\ idle' = [idle EXCEPT ![t] = "done"]
    /\ UNCHANGED <<cfg, clients, conn, cur, shut, reading, mgr, handle, stopper>>

IdleStep(t) == IdleFires(t) \/ IdleJoined(t) \/ IdleClosed(t) \/ IdleCancelled(t)

-----------------------------------------------------------------------------
(* A read loop ends on an end of file, on an error, or when data finds     *)
(* that the port moved on to another connection; in all cases it marks the *)
(* port down, whichever connection the port uses by now.                   *)
ReadEnds(c) ==
    /\ c \in reading
    /\ reading' = reading \ {c}
    /\ conn' = FALSE
    /\ UNCHANGED <<cfg, clients, cur, shut, mgr, idle, handle, stopper>>

(* write_data fails: the port is down, its read loop still waits.          *)
WriteFails ==
    /\ conn /\ stopper = "no"
    /\ conn' = FALSE
    /\ UNCHANGED <<cfg, clients, cur, shut, reading, mgr, idle, handle, stopper>>

-----------------------------------------------------------------------------
(* stop(), called by destroy_port after the port left the manager: cancel  *)
(* and await the idle task, the manager and the read task, then close.     *)
Stop == /\ stopper = "no" /\ stopper' = "idle"
        /\ IF handle # 0 /\ Pending(handle) THEN CancelIdle(handle)
           ELSE UNCHANGED idle
        /\ UNCHANGED <<cfg, clients, conn, cur, shut, reading, mgr, handle>>

StopManager == /\ stopper = "idle" /\ (handle # 0 => ~Pending(handle))
               /\ stopper' = "mgr" /\ handle' = 0
               /\ mgr' = IF MgrAlive THEN "cancelled" ELSE mgr
               /\ UNCHANGED <<cfg, clients, conn, cur, shut, reading, idle>>

StopReader == /\ stopper = "mgr" /\ ~MgrAlive
              /\ stopper' = "read" /\ mgr' = "none"
              /\ reading' = reading \ {cur}
              /\ UNCHANGED <<cfg, clients, conn, cur, shut, idle, handle>>

StopClose == /\ stopper = "read" /\ stopper' = "done"
             /\ conn' = FALSE
             /\ UNCHANGED <<cfg, clients, cur, shut, reading, mgr, idle, handle>>

StopStep == StopManager \/ StopReader \/ StopClose

Next == \/ Start \/ UserArrives \/ UserLeaves
        \/ ManagerStep
        \/ \E t \in Slots : IdleStep(t)
        \/ \E c \in Conns : ReadEnds(c)
        \/ WriteFails
        \/ Stop \/ StopStep

Spec == Init /\ [][Next]_vars
-----------------------------------------------------------------------------
Wanted == /\ stopper = "no" /\ cfg.auto
          /\ cfg.onDemand => clients > 0

(* "The first arriving user triggers the outbound connection": whatever    *)
(* the users, the link and the manager do, and in whatever order, a port   *)
(* that is wanted is connected or somebody tries - as long as it never     *)
(* disconnects when idle.                                                  *)
WantedIsTended == Wanted /\ ~cfg.idleDrop => conn \/ MgrAlive

(* With disconnect_when_idle too, unless a disconnect is under way.        *)
NoUserStranded ==
    Wanted => conn \/ MgrAlive \/ \E t \in Slots : Pending(t)

(* The port's phase for DeviceLink.                                        *)
Phase == IF stopper \in {"new", "done"} THEN "gone"
         ELSE IF MgrAlive THEN "tended" ELSE "idle"
=============================================================================
