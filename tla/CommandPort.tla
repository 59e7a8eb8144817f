---------------------------- MODULE CommandPort ----------------------------
(***************************************************************************)
(* One command port (command.py): the child processes it spawns on demand, *)
(* at start and on Enter, the one-shot monitor that reports an exit, the   *)
(* idle stop, and stop().  A spawn suspends before the child is recorded,  *)
(* twice where the attempt with a terminal fails and pipes are used        *)
(* instead; a stop suspends before the child is dead; the monitor suspends *)
(* to drain the last output before it clears the running flag.             *)
(*                                                                         *)
(* The ghosts overtaken and races record what a spawn met when it came     *)
(* back, and an idle stop that left its child behind.                      *)
(***************************************************************************)
EXTENDS Naturals, FiniteSets

CONSTANTS MaxSpawns,   \* bound: children spawned in a behaviour
          Callers      \* bound: spawns under way at a time

VARIABLES
    pty,        \* use_pty: the child is to have a terminal
    onDemand,   \* spawn_on_demand
    attached,   \* somebody is on the port
    clients,    \* client_count, 0 or 1; a stop sets it to 0
    child,      \* "unborn", "alive", "told" (sent a SIGTERM), "exited", "reaped"
    proc,       \* self.process, 0 for None
    running,    \* is_running
    active,     \* process_active
    writer,     \* _writer: "none", on a "pty" or on a "pipe"
    spawns,     \* spawns[c]: the await of c's _spawn_process, "none" when not in one
    monitor,    \* the monitor task and the child it waits for
    idle,       \* the idle-stop task
    stopper,    \* the stop() called by destroy_port
    doomed,     \* the child that stop() waits for
    masters,    \* open pty masters, named by their child
    fd,         \* _pty_master_fd, 0 for None
    leaks,      \* the calls whose failed attempt left a master and a slave open
    overtaken,  \* the calls since whose begin another one has come back
    races

vars == <<pty, onDemand, attached, clients, child, proc, running, active, writer,
          spawns, monitor, idle, stopper, doomed, masters, fd, leaks, overtaken, races>>
users == <<attached, clients>>
files == <<masters, fd, leaks>>

Children == 1..MaxSpawns
NoMonitor == [at |-> "none", of |-> 0]
Alive == {i \in Children : child[i] = "alive"}
MonitorDone == monitor.at = "none"
Spawning == {c \in Callers : spawns[c] # "none"}
Stopping == idle = "stopping" \/ stopper \in {"closing", "reaping"}

\* A port that starts at once is registered when its first child is there.
Listed == stopper = "none" /\ (onDemand \/ child[1] # "unborn")

Init == /\ pty \in BOOLEAN /\ onDemand \in BOOLEAN
        /\ attached = FALSE /\ clients = 0
        /\ child = [i \in Children |-> "unborn"]
        /\ proc = 0 /\ fd = 0 /\ masters = {} /\ leaks = {}
        /\ running = FALSE /\ active = FALSE /\ writer = "none"
        /\ \E starter \in Callers :
             spawns = [c \in Callers |-> IF onDemand \/ c # starter THEN "none"
                                         ELSE IF pty THEN "pty" ELSE "pipe"]
        /\ monitor = NoMonitor
        /\ idle = "none" /\ stopper = "none" /\ doomed = 0
        /\ overtaken = {} /\ races = {}

-----------------------------------------------------------------------------
(* _spawn_reset_previous closes the master of the child before.            *)
ResetPrevious == fd' = 0 /\ masters' = masters \ {fd} /\ UNCHANGED leaks

(* _spawn_process up to its first await, for start() or for the respawn of *)
(* a port that still counts as running.  A spawn that is under way is not  *)
(* seen by the next one: is_running and process_active come later.         *)
BeginSpawn(c) ==
    /\ spawns[c] = "none"
    /\ spawns' = [spawns EXCEPT ![c] = IF pty THEN "pty" ELSE "pipe"]
    /\ ResetPrevious

(* on_client_count_changed for the first client: the pending idle stop is  *)
(* called off and a start is scheduled when no process is active; start()  *)
(* returns when the port is running.                                       *)
ClientArrives ==
    /\ Listed /\ clients = 0 /\ clients' = 1 /\ attached' = TRUE
    /\ idle' = IF idle = "waiting" THEN "none" ELSE idle
    /\ IF onDemand /\ ~active /\ ~running THEN \E c \in Callers : BeginSpawn(c)
       ELSE UNCHANGED <<spawns, files>>
    /\ UNCHANGED <<pty, onDemand, child, proc, running, active, writer, monitor,
                   stopper, doomed, overtaken, races>>

(* The last one leaves: the idle timer is armed unless it is.              *)
ClientLeaves ==
    /\ Listed /\ attached /\ attached' = FALSE /\ clients' = 0
    /\ idle' = IF clients = 1 /\ idle = "none" THEN "waiting" ELSE idle
    /\ UNCHANGED <<pty, onDemand, child, proc, running, active, writer, spawns, monitor,
                   stopper, doomed, files, overtaken, races>>

(* Enter on a port whose process is not active: restart(force=False), a    *)
(* respawn while the port counts as running, a start when it does not.  A  *)
(* writer left from a terminal ignores it on a port that uses pipes.       *)
Enter ==
    /\ Listed /\ attached /\ ~active /\ (writer = "pty" => pty)
    /\ \E c \in Callers : BeginSpawn(c)
    /\ UNCHANGED <<pty, onDemand, users, child, proc, running, active, writer, monitor,
                   idle, stopper, doomed, overtaken, races>>

-----------------------------------------------------------------------------
(* create_subprocess returns: the port's process is the next child.        *)
Born(i) ==
    /\ child[i] = "unborn" /\ \A j \in 1..(i - 1) : child[j] # "unborn"
    /\ child' = [child EXCEPT ![i] = "alive"]
    /\ proc' = i

NewMaster(i) == fd' = i /\ masters' = masters \cup {i} /\ UNCHANGED leaks

Met(c) == (IF c \in overtaken THEN {"two spawns"} ELSE {})
          \cup (IF MonitorDone THEN {} ELSE {"spawn under a monitor"})
          \cup (IF Stopping \/ stopper # "none" THEN {"spawn and stop"} ELSE {})

(* Mutant: only the first child is given a monitor.                        *)
SpawnUnwatched(c) ==
    /\ spawns[c] = "pipe" \/ (spawns[c] = "pty" /\ pty)
    /\ spawns' = [spawns EXCEPT ![c] = "none"]
    /\ \E i \in Children :
         /\ Born(i)
         /\ IF spawns[c] = "pty" THEN NewMaster(i) ELSE UNCHANGED files
         /\ monitor' = IF MonitorDone /\ i = 1 THEN [at |-> "waiting", of |-> i] ELSE monitor
    /\ active' = TRUE /\ running' = TRUE /\ writer' = IF pty THEN "pty" ELSE "pipe"
    /\ overtaken' = Spawning \ {c} /\ races' = races \cup Met(c)
    /\ UNCHANGED <<pty, onDemand, users, idle, stopper, doomed>>

(* The spawn comes back: the child, its master, the writer and the flags   *)
(* are recorded, and a monitor is started unless one is still at work.     *)
SpawnDone(c) ==
    /\ spawns[c] = "pipe" \/ (spawns[c] = "pty" /\ pty)
    /\ spawns' = [spawns EXCEPT ![c] = "none"]
    /\ \E i \in Children :
         /\ Born(i)
         /\ IF spawns[c] = "pty" THEN NewMaster(i) ELSE UNCHANGED files
         /\ monitor' = IF MonitorDone THEN [at |-> "waiting", of |-> i] ELSE monitor
    /\ active' = TRUE /\ running' = TRUE /\ writer' = IF pty THEN "pty" ELSE "pipe"
    /\ overtaken' = Spawning \ {c} /\ races' = races \cup Met(c)
    /\ UNCHANGED <<pty, onDemand, users, idle, stopper, doomed>>

(* No pty to be had, or no process on it: the port gives up on terminals   *)
(* and the call goes on to spawn on pipes.  In the second case neither     *)
(* side of the pty is ever closed.                                         *)
PtyFails(c) ==
    /\ spawns[c] = "pty" /\ spawns' = [spawns EXCEPT ![c] = "pipe"]
    /\ pty' = FALSE
    /\ leaks' \in {leaks, leaks \cup {c}}
    /\ UNCHANGED <<onDemand, users, child, proc, running, active, writer, monitor, idle,
                   stopper, doomed, masters, fd, overtaken, races>>

(* The child on a terminal is there, but another call has turned the port  *)
(* to pipes meanwhile: this one spawns a second child, on pipes.           *)
PtyTooLate(c) ==
    /\ spawns[c] = "pty" /\ ~pty /\ spawns' = [spawns EXCEPT ![c] = "pipe"]
    /\ \E i \in Children : Born(i) /\ NewMaster(i)
    /\ overtaken' = Spawning /\ races' = races \cup {"two spawns"}
    /\ UNCHANGED <<pty, onDemand, users, running, active, writer, monitor, idle,
                   stopper, doomed>>

(* No such program, no fork: the port is offline.                          *)
SpawnFails(c) ==
    /\ spawns[c] = "pipe" /\ spawns' = [spawns EXCEPT ![c] = "none"]
    /\ overtaken' = overtaken \ {c}
    /\ UNCHANGED <<pty, onDemand, users, child, proc, running, active, writer, monitor,
                   idle, stopper, doomed, files, races>>

SpawnStep(c) == SpawnDone(c) \/ PtyFails(c) \/ PtyTooLate(c) \/ SpawnFails(c)

-----------------------------------------------------------------------------
(* A child exits on its own, or on the signal of a stop.                   *)
Exits(i) ==
    /\ child[i] \in {"alive", "told"} /\ child' = [child EXCEPT ![i] = "exited"]
    /\ UNCHANGED <<pty, onDemand, users, proc, running, active, writer, spawns, monitor,
                   idle, stopper, doomed, files, overtaken, races>>

Ended(i) == i # 0 /\ child[i] \in {"exited", "reaped"}

(* The reader of the port's output sees the end before the monitor does.   *)
OutputEnds ==
    /\ active /\ active' = FALSE
    /\ \/ running /\ Ended(fd)
       \/ writer = "pipe" /\ Ended(proc)
    /\ UNCHANGED <<pty, onDemand, users, child, proc, running, writer, spawns, monitor,
                   idle, stopper, doomed, files, overtaken, races>>

(* _monitor_loop: the exit is seen and the last output drained, ...        *)
MonitorSeesExit ==
    /\ monitor.at = "waiting" /\ Ended(monitor.of)
    /\ child' = [child EXCEPT ![monitor.of] = "reaped"]
    /\ active' = FALSE
    /\ monitor' = [monitor EXCEPT !.at = "draining"]
    /\ UNCHANGED <<pty, onDemand, users, proc, running, writer, spawns, idle, stopper,
                   doomed, files, overtaken, races>>

(* ... and then the port is no longer running, whatever it runs by then.   *)
MonitorEnds ==
    /\ monitor.at = "draining"
    /\ running' = FALSE
    /\ monitor' = NoMonitor
    /\ UNCHANGED <<pty, onDemand, users, child, proc, active, writer, spawns, idle,
                   stopper, doomed, files, overtaken, races>>

-----------------------------------------------------------------------------
(* _terminate_process: a process group for a terminal, else the child.     *)
Told(i) == IF i \in Alive THEN [child EXCEPT ![i] = "told"] ELSE child

(* _close_stdin waits for a child on pipes, before anything is signalled.  *)
Suspends == writer = "pipe" /\ proc # 0

(* stop() up to its first await, by destroy_port or by the idle stop.      *)
StopBegins ==
    /\ monitor' = NoMonitor
    /\ ResetPrevious
    /\ child' = IF Suspends THEN child ELSE Told(proc)

(* _reset_stop_state.                                                      *)
Reset == /\ proc' = 0 /\ running' = FALSE /\ active' = FALSE /\ clients' = 0
         /\ writer' = "none"

(* destroy_port: the name has left the manager; stop() does nothing for a  *)
(* port that neither runs nor has a process.                               *)
Destroy ==
    /\ Listed /\ attached' = FALSE
    /\ IF ~running /\ proc = 0
       THEN stopper' = "destroyed" /\ UNCHANGED <<child, monitor, files, idle, doomed>>
       ELSE /\ StopBegins
            /\ stopper' = IF Suspends THEN "closing" ELSE "reaping"
            /\ doomed' = proc
            /\ idle' = IF running /\ idle = "waiting" THEN "none" ELSE idle
    /\ UNCHANGED <<pty, onDemand, clients, proc, running, active, writer, spawns,
                   overtaken, races>>

StdinClosed ==
    /\ stopper = "closing" /\ stopper' = "reaping"
    /\ child' = Told(proc) /\ doomed' = proc
    /\ UNCHANGED <<pty, onDemand, users, proc, running, active, writer, spawns, monitor,
                   idle, files, overtaken, races>>

(* _reap_process: the child exits on the signal or is killed, is waited    *)
(* for, and its transport closed.  CommandAdapter.stop waits 2.5 s, which  *)
(* a child on pipes may exceed: the stop is then cut off.                  *)
Destroyed ==
    /\ stopper = "reaping" /\ stopper' = "destroyed"
    /\ \/ child' = IF doomed = 0 THEN child ELSE [child EXCEPT ![doomed] = "reaped"]
       \/ writer = "pipe" /\ UNCHANGED child
    /\ Reset
    /\ UNCHANGED <<pty, onDemand, attached, spawns, monitor, idle, doomed, files,
                   overtaken, races>>

(* The idle timer fires on a running port without clients: it calls        *)
(* stop(), which cancels the idle task - the very task that called it.     *)
IdleFires ==
    /\ idle = "waiting"
    /\ IF clients = 0 /\ running
       THEN StopBegins /\ idle' = "stopping"
       ELSE idle' = "none" /\ UNCHANGED <<child, monitor, files>>
    /\ UNCHANGED <<pty, onDemand, users, proc, running, active, writer, spawns, stopper,
                   doomed, overtaken, races>>

(* The cancellation strikes at stop's first await: behind the signal for a *)
(* child on a terminal, before it for one on pipes.  The state is reset.   *)
IdleStopCut ==
    /\ idle = "stopping" /\ idle' = "none"
    /\ Reset
    /\ races' = IF proc \in Alive THEN races \cup {"idle stop"} ELSE races
    /\ UNCHANGED <<pty, onDemand, attached, child, spawns, monitor, stopper, doomed,
                   files, overtaken>>

StopStep == StdinClosed \/ Destroyed \/ IdleStopCut

Next == \/ ClientArrives \/ ClientLeaves \/ Enter
        \/ \E c \in Callers : SpawnStep(c)
        \/ \E i \in Children : Exits(i)
        \/ OutputEnds \/ MonitorSeesExit \/ MonitorEnds
        \/ Destroy \/ IdleFires \/ StopStep

Spec == Init /\ [][Next]_vars
-----------------------------------------------------------------------------
(* In every interleaving a port that counts as running has a monitor at    *)
(* work or a stop under way: the flag does not outlive all who clear it.   *)
(* A child is without a keeper only where one of these has happened: two   *)
(* overlapping spawns both came back, a spawn came back under a monitor    *)
(* still at work for the child before, or to a port that is being stopped  *)
(* or gone, or an idle stop cut itself off before the signal to a child on *)
(* pipes.  Whatever else overlaps - a spawn with the drain, the idle timer *)
(* or a spawn that fails, a destroy with an idle stop - a living child is  *)
(* the port's own, the port counts as running and active, the monitor      *)
(* waits for it or a stop is about to signal it, and no child but it has   *)
(* an open pty master.                                                     *)
ChildHasKeeper ==
    /\ running => ~MonitorDone \/ Stopping
    /\ races = {} =>
        /\ \A i \in Alive : /\ i = proc /\ running /\ active
                            /\ \/ monitor = [at |-> "waiting", of |-> i]
                               \/ stopper = "closing" \/ idle = "stopping"
        /\ masters \subseteq {fd} /\ fd \in {0, proc}

(* stop() (command.py:1077): "A live child is always terminated and        *)
(* reaped".  Once the port has let go of its process and spawns none, no   *)
(* child lives that was not even signalled.                                *)
StopReaps == proc = 0 /\ Spawning = {} => Alive = {}

(* _monitor_loop (command.py:976): "A successful spawn (Enter respawn,     *)
(* on-demand spawn) starts a fresh monitor for the next exit."             *)
EverySpawnIsWatched ==
    [][Spawning' # Spawning /\ proc' \notin {0, proc}
       => monitor' = [at |-> "waiting", of |-> proc']]_vars

(* CommandPort (command.py:320): "press Enter in the console to respawn".  *)
(* Where no process is active and none is being spawned, Enter is heard.   *)
EnterIsHeard ==
    Listed /\ attached /\ ~active /\ Spawning = {} => (writer = "pty" => pty)
=============================================================================
