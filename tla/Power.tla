------------------------------- MODULE Power -------------------------------
(***************************************************************************)
(* The power adapter: a driver and a poll task per PDU, the switches users *)
(* ask for, the reload of the section, and what the users of a port that   *)
(* all the outlets feed are told.  _do_start and reconcile_ports bring the *)
(* PDUs up one after the other and await each one's first read; from that  *)
(* read to the next one they do not yield (step = "next").                 *)
(*                                                                         *)
(* A PDU's driver is the command driver: a lock around every command, a    *)
(* memory of the last states and a backoff after a failed read.  The       *)
(* poll interval is not 0.                                                 *)
(***************************************************************************)
EXTENDS Naturals

CONSTANTS Outlets, Pdus,
          MaxEvents   \* bound: switches, reloads, failures and outside changes

VARIABLES
  owner,     \* owner[o]: the PDU of outlet o
  pdus,      \* the registered PDUs
  enabled, was, running,   \* was: old_enabled, during a reconcile
  reading,   \* reading[o]: "none" before the outlets are listed
  last,      \* last[o]: the driver's _last_state
  device,    \* what is really on
  task,      \* task[p]: where the poll task is; "never": there was none yet
  lock,      \* lock[p]: who runs a command of the driver
  taken,     \* taken[o]: what the command under way has seen
  backoff,   \* the PDUs in a backoff window
  todo, current, step, stage,  \* the PDUs to be brought up, the one at it, for whom
  switch,    \* the switch a user waits for
  menu,      \* the feeds an "a" in the power menu still has to switch
  told,      \* what the last event said about the port's power
  events

conf == <<owner, enabled, was>>
starter == <<todo, current, step, stage>>
vars == <<conf, pdus, running, reading, last, device, task, lock, taken, backoff,
          starter, switch, menu, told, events>>

States == {"on", "off"}
NoTask == {"never", "none"}
NoSwitch == [at |-> "idle", outlet |-> CHOOSE o \in Outlets : TRUE,
             want |-> "on", orphan |-> FALSE]

TypeOK ==
    /\ owner \in [Outlets -> Pdus] /\ pdus \subseteq Pdus
    /\ {enabled, was, running} \subseteq BOOLEAN
    /\ reading \in [Outlets -> States \cup {"none", "unknown"}]
    /\ last \in [Outlets -> States \cup {"unknown"}]
    /\ device \in [Outlets -> States]
    /\ task \in [Pdus -> {"never", "none", "new", "sleep", "reading", "stillborn"}]
    /\ lock \in [Pdus -> {"free", "poll", "starter", "switch"}]
    /\ taken \in [Outlets -> States] /\ backoff \subseteq Pdus
    /\ todo \subseteq Pdus /\ current \in Pdus
    /\ step \in {"idle", "next", "asking", "reading"}
    /\ stage \in {"idle", "start", "reload"}
    /\ switch.at \in {"idle", "waiting", "running"}
    /\ menu \subseteq Outlets \X States /\ told \in {"nothing", "up", "lost"} /\ events \in 0..MaxEvents

Of(p) == {o \in Outlets : owner[o] = p}
Happens == events < MaxEvents /\ events' = events + 1
NoEvent == UNCHANGED events

\* _do_start has built every PDU; a section that is not enabled ends it there.
Init ==
    /\ owner \in [Outlets -> Pdus] /\ pdus = Pdus
    /\ enabled \in BOOLEAN /\ was = enabled /\ running = ~enabled
    /\ reading = [o \in Outlets |-> "none"]
    /\ last = [o \in Outlets |-> "unknown"]
    /\ device \in [Outlets -> States] /\ taken = device
    /\ task = [p \in Pdus |-> "never"] /\ lock = [p \in Pdus |-> "free"]
    /\ backoff = {} /\ todo = IF enabled THEN Pdus ELSE {}
    /\ current = CHOOSE p \in Pdus : TRUE
    /\ step = IF enabled THEN "next" ELSE "idle"
    /\ stage = IF enabled THEN "start" ELSE "idle"
    /\ switch = NoSwitch /\ menu = {} /\ told = "nothing" /\ events = 0

-----------------------------------------------------------------------------
(* What a command leaves behind *)

Live(R) == IF \E o \in Outlets : R[o] = "on" THEN "up" ELSE "lost"

(* Mutant: the events of an unreachable PDU go out before its readings.    *)
ToldEarly(R) ==
    /\ reading' = R
    /\ told' = IF \E o \in Outlets : reading[o] \in States /\ R[o] # reading[o]
               THEN Live(reading) ELSE told

\* _emit_outlet_change for every outlet that changed: the last one tells the
\* port's users what is left.
Shows(R) ==
    /\ reading' = R
    /\ told' = IF \E o \in Outlets :
                   /\ R[o] # reading[o]
                   /\ {R[o], reading[o]} # {"none", "unknown"}
               THEN Live(R) ELSE told

\* What the outlets of p read after a read: what the device said, or the
\* driver's memory for those it did not report.
Merged(p, silent) ==
    [o \in Outlets |-> IF o \notin Of(p) THEN reading[o]
                       ELSE IF o \in silent THEN last[o] ELSE taken[o]]

Dark(p) == [o \in Outlets |-> IF o \in Of(p) /\ reading[o] # "none"
                              THEN "unknown" ELSE reading[o]]

Learns(p, silent) ==
    last' = [o \in Outlets |-> IF o \in Of(p) \ silent THEN taken[o] ELSE last[o]]

\* _refresh_readings once the commands have ended: read, in part read, failed
\* (the driver backs off and the readings stay), or not to be run at all.
ReadEnds(p) ==
    \/ /\ NoEvent /\ Shows(Merged(p, {})) /\ Learns(p, {})
       /\ backoff' = backoff \ {p}
    \/ /\ Happens
       /\ \E silent \in SUBSET Of(p) \ {{}, Of(p)} :
            Shows(Merged(p, silent)) /\ Learns(p, silent)
       /\ backoff' = backoff \ {p}
    \/ /\ Happens /\ backoff' = backoff \cup {p} /\ UNCHANGED <<reading, last, told>>
    \/ /\ Happens /\ Shows(Dark(p)) /\ UNCHANGED <<last, backoff>>

Sees(p) == taken' = [o \in Outlets |-> IF o \in Of(p) THEN device[o] ELSE taken[o]]

Lapse(p) == /\ p \in backoff /\ backoff' = backoff \ {p}
            /\ UNCHANGED <<conf, pdus, running, reading, last, device, task, lock,
                           taken, starter, switch, menu, told, events>>

-----------------------------------------------------------------------------
(* Bringing the PDUs up *)

\* A switch that waits for, or runs under, the lock of a driver that is gone.
Orphaned(P) ==
    switch' = IF switch.at # "idle" /\ owner[switch.outlet] \in P
              THEN [switch EXCEPT !.orphan = TRUE] ELSE switch

\* A reconcile builds the PDU anew; when enabled, its outlets are listed, and
\* read once the driver's lock is free.
BringUp(p) ==
    /\ step = "next" /\ p \in todo /\ todo' = todo \ {p} /\ current' = p
    /\ pdus' = pdus \cup {p} /\ step' = IF enabled THEN "asking" ELSE "next"
    /\ LET kept == IF stage = "start" THEN reading
                   ELSE [o \in Outlets |-> IF o \in Of(p) THEN "none" ELSE reading[o]]
       IN reading' = [o \in Outlets |-> IF o \in Of(p) /\ enabled /\ kept[o] = "none"
                                        THEN "unknown" ELSE kept[o]]
    /\ IF stage = "start" THEN UNCHANGED <<last, task, lock, backoff, switch>>
       ELSE /\ last' = [o \in Outlets |-> IF o \in Of(p) THEN "unknown" ELSE last[o]]
            /\ task' = [task EXCEPT ![p] = "never"] /\ backoff' = backoff \ {p}
            /\ lock' = [lock EXCEPT ![p] = "free"] /\ Orphaned({p})
    /\ UNCHANGED <<conf, running, device, taken, stage, menu, told, events>>

FirstRead ==
    /\ step = "asking" /\ lock[current] = "free" /\ step' = "reading"
    /\ lock' = [lock EXCEPT ![current] = "starter"] /\ Sees(current)
    /\ UNCHANGED <<conf, pdus, running, reading, last, device, task, backoff, todo,
                   current, stage, switch, menu, told, events>>

BroughtUp ==
    /\ step = "reading" /\ step' = "next"
    /\ ReadEnds(current) /\ lock' = [lock EXCEPT ![current] = "free"]
    /\ task' = [task EXCEPT ![current] = IF @ \in NoTask THEN "new" ELSE @]
    /\ UNCHANGED <<conf, pdus, running, device, taken, todo, current, stage, switch,
                   menu>>

\* A driver's lock is released with the poll task that held it.
StopPolls(P) ==
    /\ task' = [p \in Pdus |-> IF p \in P /\ task[p] # "never" THEN "none" ELSE task[p]]
    /\ lock' = [p \in Pdus |-> IF p \in P /\ lock[p] = "poll" THEN "free" ELSE lock[p]]

\* _reconcile_poll_flip, and the end of start().
AllUp ==
    /\ step = "next" /\ todo = {}
    /\ step' = "idle" /\ stage' = "idle" /\ running' = TRUE
    /\ IF stage = "start" \/ (enabled /\ was) THEN UNCHANGED <<task, lock>>
       ELSE IF enabled
       THEN /\ task' = [p \in Pdus |-> IF /\ p \in pdus /\ task[p] \in NoTask
                                          /\ \E o \in Of(p) : reading[o] # "none"
                                       THEN "new" ELSE task[p]]
            /\ UNCHANGED lock
       ELSE StopPolls(Pdus)
    /\ UNCHANGED <<conf, pdus, reading, last, device, taken, backoff, todo, current,
                   switch, menu, told, events>>

\* reconcile_ports up to the first PDU it builds.  A PDU that is listed as
\* before is kept as it is.
Reload(keep, build, on) ==
    /\ step = "idle" /\ running /\ Happens
    /\ enabled' = on /\ was' = enabled
    /\ pdus' = pdus \cap (keep \cup build)
    /\ LET gone == pdus \ (keep \cup build) IN
       /\ StopPolls(gone) /\ Orphaned(gone)
       /\ reading' = [o \in Outlets |-> IF owner[o] \in gone THEN "none" ELSE reading[o]]
       /\ backoff' = backoff \ gone
    /\ todo' = build /\ step' = "next" /\ stage' = "reload"
    /\ UNCHANGED <<owner, running, last, device, taken, current, menu, told>>

-----------------------------------------------------------------------------
(* The poll task of a PDU *)

\* The loop looks at is_running, which start() sets when _do_start is over.
PollBegins(p) ==
    /\ task[p] = "new"
    /\ task' = [task EXCEPT ![p] = IF running THEN "sleep" ELSE "stillborn"]
    /\ UNCHANGED <<conf, pdus, running, reading, last, device, lock, taken, backoff,
                   starter, switch, menu, told, events>>

(* Mutant: the poll in a backoff window is the last one.                   *)
PollOnce(p) ==
    /\ task[p] = "sleep" /\ lock[p] = "free"
    /\ IF p \in backoff
       THEN task' = [task EXCEPT ![p] = "none"] /\ UNCHANGED <<lock, taken>>
       ELSE /\ task' = [task EXCEPT ![p] = "reading"]
            /\ lock' = [lock EXCEPT ![p] = "poll"] /\ Sees(p)
    /\ UNCHANGED <<conf, pdus, running, reading, last, device, backoff, starter,
                   switch, menu, told, events>>

\* A poll in a backoff window runs no command.
Poll(p) ==
    /\ task[p] = "sleep" /\ lock[p] = "free" /\ p \notin backoff
    /\ task' = [task EXCEPT ![p] = "reading"]
    /\ lock' = [lock EXCEPT ![p] = "poll"] /\ Sees(p)
    /\ UNCHANGED <<conf, pdus, running, reading, last, device, backoff, starter,
                   switch, menu, told, events>>

Polled(p) ==
    /\ task[p] = "reading" /\ task' = [task EXCEPT ![p] = "sleep"]
    /\ ReadEnds(p) /\ lock' = [lock EXCEPT ![p] = "free"]
    /\ UNCHANGED <<conf, pdus, running, device, taken, starter, switch, menu>>

-----------------------------------------------------------------------------
(* Switches *)

\* set_outlet, up to the driver's lock.
Wants(o, s) ==
    /\ enabled /\ switch.at = "idle" /\ owner[o] \in pdus
    /\ switch' = [at |-> "waiting", outlet |-> o, want |-> s, orphan |-> FALSE]

\* A request of the browser or a POWER line.
Ask(o, s) ==
    /\ menu = {} /\ Happens /\ Wants(o, s)
    /\ UNCHANGED <<conf, pdus, running, reading, last, device, task, lock, taken,
                   backoff, starter, menu, told>>

\* _toggle_feeds: every feed is to be what the first one is not.  The feeds to
\* be switched are chosen before the first of them is.
AskAll(first) ==
    /\ menu = {} /\ enabled /\ switch.at = "idle" /\ Happens
    /\ LET s == IF reading[first] = "on" THEN "off" ELSE "on"
       IN menu' = {<<o, s>> : o \in {p \in Outlets : reading[p] # s}}
    /\ UNCHANGED <<conf, pdus, running, reading, last, device, task, lock, taken,
                   backoff, starter, switch, told>>

\* One after the other; a switch that is refused is passed over.
NextFeed(m) ==
    /\ m \in menu /\ switch.at = "idle" /\ menu' = menu \ {m}
    /\ IF enabled /\ owner[m[1]] \in pdus THEN Wants(m[1], m[2]) ELSE UNCHANGED switch
    /\ UNCHANGED <<conf, pdus, running, reading, last, device, task, lock, taken,
                   backoff, starter, told, events>>

Run ==
    LET p == owner[switch.outlet] IN
    /\ switch.at = "waiting" /\ (lock[p] = "free" \/ switch.orphan)
    /\ switch' = [switch EXCEPT !.at = "running"]
    /\ lock' = IF switch.orphan THEN lock ELSE [lock EXCEPT ![p] = "switch"]
    /\ UNCHANGED <<conf, pdus, running, reading, last, device, task, taken, backoff,
                   starter, menu, told, events>>

\* The command succeeds, fails, or is killed at its time limit, when nobody
\* knows whether the outlet switched.  An orphan's result goes to a PduState
\* that is no longer registered, but is announced.
Switched ==
    LET o == switch.outlet  p == owner[o]
        R == [reading EXCEPT ![o] = switch.want]
    IN
    /\ switch.at = "running" /\ switch' = NoSwitch
    /\ lock' = IF switch.orphan THEN lock ELSE [lock EXCEPT ![p] = "free"]
    /\ \/ /\ device' = [device EXCEPT ![o] = switch.want]
          /\ IF switch.orphan
             THEN /\ told' \in {told, Live(R)} /\ UNCHANGED <<last, reading>>
             ELSE /\ last' = [last EXCEPT ![o] = switch.want] /\ Shows(R)
       \/ /\ device' \in {device, [device EXCEPT ![o] = switch.want]}
          /\ UNCHANGED <<last, reading, told>>
    /\ UNCHANGED <<conf, pdus, running, task, taken, backoff, starter, menu, events>>

\* Somebody presses a button on the device.
Outside(o) ==
    /\ Happens
    /\ device' = [device EXCEPT ![o] = IF @ = "on" THEN "off" ELSE "on"]
    /\ UNCHANGED <<conf, pdus, running, reading, last, task, lock, taken, backoff,
                   starter, switch, menu, told>>

Poller(p) == PollBegins(p) \/ Poll(p) \/ Polled(p) \/ Lapse(p)

Next ==
    \/ (\E p \in Pdus : BringUp(p)) \/ AllUp
    \/ /\ step # "next"
       /\ \/ FirstRead \/ BroughtUp
          \/ \E p \in Pdus : Poller(p)
          \/ \E o \in Outlets : Outside(o) \/ AskAll(o) \/ \E s \in States : Ask(o, s)
          \/ Run \/ Switched \/ \E m \in menu : NextFeed(m)
          \/ \E keep \in SUBSET pdus, build \in SUBSET Pdus, on \in BOOLEAN :
               keep \cap build = {} /\ Reload(keep, build, on)

\* Commands end (a time limit kills them), sleeps end, windows lapse.
Fairness ==
    /\ WF_vars((\E p \in Pdus : BringUp(p)) \/ AllUp) /\ WF_vars(FirstRead \/ BroughtUp)
    /\ \A p \in Pdus : WF_vars(step # "next" /\ Poller(p))
    /\ WF_vars(step # "next" /\ (Run \/ Switched \/ \E m \in menu : NextFeed(m)))

Spec == Init /\ [][Next]_vars /\ Fairness
-----------------------------------------------------------------------------
(* Properties *)

\* The command driver's lock and the poll tasks: once nobody touches anything,
\* what is shown of an outlet is what the device does, whatever failed, was
\* switched or reconciled before.  Not so for a PDU whose poll task was never
\* started, or ended at its first look at is_running.
ReadingsCatchUp ==
    \A o \in Outlets :
      <>[](/\ running /\ enabled /\ step = "idle"
           /\ owner[o] \in pdus /\ task[owner[o]] \notin {"never", "stillborn"}
           => reading[o] = device[o])

\* _emit_outlet_change: a port does not lose its last feed in silence, whether
\* a user switches it off or its PDU stops answering.
LossIsTold ==
    [][(\E o \in Outlets : reading[o] = "on") /\ pdus' = pdus /\ stage # "reload"
         /\ ~(\E o \in Outlets : reading'[o] = "on")
       => told' = "lost"]_vars

\* _do_start: "Build PDU state, run initial reads, start per-PDU poll tasks."
EveryPduIsPolled ==
    running /\ enabled /\ step = "idle" => \A p \in pdus : task[p] # "stillborn"
=============================================================================
