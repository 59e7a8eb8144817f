---------------------------- MODULE SerialPorts ----------------------------
(***************************************************************************)
(* The ports of one serial adapter (serial.py): every port's connection    *)
(* supervisor _connect_loop with its read task, stop() that cancels them,  *)
(* and the rule of one port per device that starts and flags supervisors.  *)
(*                                                                         *)
(* asyncio runs one task at a time; a step is what runs between two        *)
(* awaits.  Cancelling a task that awaits another cancels the awaited one, *)
(* and the read loop swallows the cancellation: the supervisor then goes   *)
(* on as if the connection had been lost.                                  *)
(***************************************************************************)
EXTENDS Naturals, Sequences, SequencesExt

CONSTANTS Ports,        \* names of the configured ports
          Devices,      \* device paths
          MaxTries      \* max_reconnect_attempts; 0 is without limit

VARIABLES
    listed,   \* serial_ports: the port names in their order of insertion
    port,     \* the wrapper of every name, once it was created
    admin     \* the port destroy_port works on and how far it is

vars == <<listed, port, admin>>

(* The supervisor's and the read task's place.                             *)
Alive == {"started", "opening", "reading", "closing", "sleeping"}
Asserted == "high"   \* pyserial opens a device with DTR asserted
LineFor(count) == IF count > 0 THEN "high" ELSE "low"

Fresh(d) == [device |-> d, auto |-> TRUE, connected |-> FALSE,
             loop |-> "none", reader |-> "none", tries |-> 0,
             reason |-> "none", state |-> "CONFIGURED", clients |-> 0,
             driven |-> "unset", level |-> Asserted]

Init == /\ listed = <<>>
        /\ port \in [Ports -> {Fresh(d) : d \in Devices}]
        /\ admin = [at |-> "rest", p |-> CHOOSE p \in Ports : TRUE]

Supervised(p) == port[p].loop \in Alive
Index(q, s) == CHOOSE i \in 1..Len(s) : s[i] = q
Flagged(p, s, w) == \E i \in 1..Len(s) : /\ i < Index(p, s)
                                         /\ w[s[i]].device = w[p].device

(* on_client_count_changed drives the presence line (active with a client, *)
(* idle without) unless the cached level says that it is there already.    *)
Apply(w, target) == IF w.driven = target THEN w
                    ELSE [w EXCEPT !.driven = target, !.level = target]

(* resume_if_idle: a supervisor is started unless one is at work.          *)
Resume(w) == IF w.connected \/ w.loop \in Alive THEN w
             ELSE [w EXCEPT !.loop = "started", !.state = "ACTIVE"]

(* Mutant: a flag that is cleared is not followed by a resume.             *)
RecomputeOnly(s, w) ==
    [q \in Ports |->
        IF q \notin ToSet(s) THEN w[q]
        ELSE IF Flagged(q, s, w)
             THEN [w[q] EXCEPT !.reason = "duplicate", !.state = "DEGRADED"]
        ELSE [w[q] EXCEPT !.reason = "none"]]

(* _recompute_duplicate_device_flags: the first port of a device owns it,  *)
(* the others are flagged; any port that shows a reason and is not flagged *)
(* has it cleared and is resumed.                                          *)
Recompute(s, w) ==
    [q \in Ports |->
        IF q \notin ToSet(s) THEN w[q]
        ELSE IF Flagged(q, s, w)
             THEN [w[q] EXCEPT !.reason = "duplicate", !.state = "DEGRADED"]
        ELSE IF w[q].reason # "none" THEN Resume([w[q] EXCEPT !.reason = "none"])
        ELSE w[q]]

(* start(): a flagged port stays down and listed.                          *)
Started(w) == IF w.connected THEN w
              ELSE IF w.reason # "none" THEN [w EXCEPT !.state = "DEGRADED"]
              ELSE [w EXCEPT !.loop = "started", !.state = "ACTIVE"]

(* create_port: a new wrapper joins the set, is checked for a duplicate,   *)
(* and is started.                                                         *)
CreatePort(p, d) ==
    /\ admin.at = "rest"
    /\ p \notin ToSet(listed)
    /\ listed' = Append(listed, p)
    /\ LET w == Recompute(listed', [port EXCEPT ![p] = Fresh(d)])
       IN  port' = [w EXCEPT ![p] = Started(w[p])]
    /\ UNCHANGED admin

(* destroy_port takes the port off the manager, which suspends.            *)
DestroyPort(p) ==
    /\ admin.at = "rest"
    /\ p \in ToSet(listed)
    /\ admin' = [at |-> "unregister", p |-> p]
    /\ UNCHANGED <<listed, port>>

(* What a cancellation does to the supervisor, by the await it is in.      *)
CancelLoop(w) ==
    IF w.loop \in {"started", "opening", "sleeping"} THEN [w EXCEPT !.loop = "done"]
    ELSE IF w.loop = "reading" /\ w.reader = "running"
         THEN [w EXCEPT !.reader = "done"]
    ELSE w

(* Mutant: the stop relies on the cancellation alone.                      *)
HaltByCancel(w) == CancelLoop([w EXCEPT !.state = "DESTROYING"])

(* stop(): no more reconnects, and the supervisor is cancelled.            *)
Halt(w) == CancelLoop([w EXCEPT !.state = "DESTROYING", !.auto = FALSE])

Stop == /\ admin.at = "unregister"
        /\ port' = [port EXCEPT ![admin.p] = Halt(@)]
        /\ admin' = [admin EXCEPT !.at = "stop"]
        /\ UNCHANGED <<listed>>

(* The end of _disconnect: lines back to active, caches and link cleared.  *)
Disconnected(w) == [w EXCEPT !.connected = FALSE, !.driven = "unset",
                             !.reader = "none"]

(* Mutant: the port is dropped without waiting for its supervisor.         *)
StoppedAtOnce ==
    /\ admin.at = "stop"
    /\ listed' = RemoveAt(listed, Index(admin.p, listed))
    /\ port' = Recompute(listed', [port EXCEPT ![admin.p].state = "DESTROYED"])
    /\ admin' = [admin EXCEPT !.at = "rest"]

(* stop() has its supervisor back; the name leaves the set, and a port it  *)
(* had flagged is resumed.                                                 *)
Stopped ==
    /\ admin.at = "stop" /\ ~Supervised(admin.p)
    /\ listed' = RemoveAt(listed, Index(admin.p, listed))
    /\ LET w == IF port[admin.p].connected THEN Disconnected(port[admin.p])
                ELSE port[admin.p]
       IN  port' = Recompute(listed', [port EXCEPT ![admin.p] =
                     [w EXCEPT !.reason = "none", !.state = "DESTROYED"]])
    /\ admin' = [admin EXCEPT !.at = "rest"]

(* After a failed attempt or a lost connection: sleep, or give up.         *)
Pause(w) == IF w.auto /\ (MaxTries = 0 \/ w.tries < MaxTries)
            THEN [w EXCEPT !.loop = "sleeping",
                           !.tries = IF MaxTries = 0 THEN 0 ELSE @ + 1]
            ELSE [w EXCEPT !.loop = "done"]

(* _set_status_message keeps the reason a later listing shows.             *)
Failed(w) == Pause([w EXCEPT !.reason = "down"])

Opened(w) == Apply([w EXCEPT !.connected = TRUE, !.reason = "none", !.tries = 0,
                             !.loop = "reading", !.reader = "running",
                             !.level = Asserted],
                   LineFor(w.clients))

Set(p, w) == port' = [port EXCEPT ![p] = w] /\ UNCHANGED <<listed, admin>>

(* The supervisor wakes up or starts and tries the device: missing, or the *)
(* open is under way.                                                      *)
TryOpen(p) ==
    LET w == port[p]
    IN  /\ w.loop \in {"started", "sleeping"}
        /\ \/ ~w.auto /\ Set(p, [w EXCEPT !.loop = "done"])
           \/ w.auto /\ Set(p, Failed(w))
           \/ w.auto /\ Set(p, [w EXCEPT !.loop = "opening"])

OpenEnds(p) ==
    LET w == port[p]
    IN  /\ w.loop = "opening"
        /\ Set(p, Opened(w)) \/ Set(p, Failed(w))

(* The read loop sees an empty read or an error: the port is marked down   *)
(* at once, and only then does the task end.                               *)
LinkLost(p) ==
    LET w == port[p]
    IN  /\ w.reader = "running"
        /\ Set(p, [w EXCEPT !.reader = "done", !.connected = FALSE,
                            !.reason = "down"])

(* The supervisor has its read task back.  _disconnect does nothing when   *)
(* the read loop marked the port down; after a cancellation it closes.     *)
ReaderBack(p) ==
    LET w == port[p]
    IN  /\ w.loop = "reading" /\ w.reader = "done"
        /\ Set(p, IF w.connected THEN [w EXCEPT !.loop = "closing"] ELSE Pause(w))

Closed(p) == /\ port[p].loop = "closing"
             /\ Set(p, Pause(Disconnected(port[p])))

(* PortManager reports the number of attached clients.                     *)
ClientCount(p, n) ==
    LET w == port[p]
    IN  /\ p \in ToSet(listed) /\ n # w.clients
        /\ Set(p, IF w.connected THEN Apply([w EXCEPT !.clients = n], LineFor(n))
                  ELSE [w EXCEPT !.clients = n])

SupervisorStep(p) == TryOpen(p) \/ OpenEnds(p) \/ ReaderBack(p) \/ Closed(p)

Next == \/ \E p \in Ports : \/ \E d \in Devices : CreatePort(p, d)
                            \/ DestroyPort(p)
                            \/ SupervisorStep(p)
                            \/ LinkLost(p)
                            \/ \E n \in {0, 1} : ClientCount(p, n)
        \/ Stop
        \/ Stopped

(* The event loop runs every task that is ready, and an open, a close and  *)
(* a sleep end; edits, clients and the device do what they like.           *)
Fairness == /\ WF_vars(Stop \/ Stopped)
            /\ \A p \in Ports : WF_vars(SupervisorStep(p))

Spec == Init /\ [][Next]_vars /\ Fairness
-----------------------------------------------------------------------------
(* Issue #57, whatever is created, edited and destroyed, and however the   *)
(* stop of one port overlaps the supervisors of the others: a device is    *)
(* looked after by the first port that names it and by no other, so it is  *)
(* never opened twice, and no listed device is left without its port.      *)
OnePortPerDevice ==
    \A i \in 1..Len(listed) :
        LET p == listed[i]
        IN  IF Flagged(p, listed, port) THEN ~Supervised(p) /\ ~port[p].connected
            ELSE \/ Supervised(p)
                 \/ admin.p = p /\ admin.at = "stop"
                 \/ MaxTries > 0 /\ port[p].reason = "down"

(* A stop cancels the supervisor, the cancellation reaches the read loop,  *)
(* and the read loop swallows it: the supervisor must not take it for a    *)
(* lost connection and reconnect for ever under the stop that waits.       *)
StopEnds == admin.at # "rest" ~> admin.at = "rest"

(* A port's phase for DeviceLink.                                          *)
PhaseOf(p) == IF p \notin ToSet(listed) THEN "gone"
              ELSE IF Supervised(p) THEN "tended" ELSE "idle"

(* The presence line shows whether a client is attached (issue #63: "With  *)
(* zero clients attached a presence-* line starts at its idle level").     *)
LineFollowsClients ==
    \A p \in Ports : port[p].connected => port[p].level = LineFor(port[p].clients)
=============================================================================
