---------------------------- MODULE ServerReload ----------------------------
(***************************************************************************)
(* Start, soft reload, full reload and shutdown of the server (main.py)    *)
(* over one adapter of ports and one web console.  A soft reload lets the  *)
(* running adapter reconcile its ports with the file; a full reload stops  *)
(* every adapter, builds new ones from the file and starts them, and       *)
(* leaves the web console that asked for it to be replaced after the       *)
(* answer.  Nothing serialises the two: signals, the control socket and    *)
(* the browser each start their own.                                       *)
(*                                                                         *)
(* An entry of the file is absent, one of two usable configurations, or    *)
(* one the port's constructor rejects.  The ghost races records what a     *)
(* behaviour went through that no operation undoes: two operations at a    *)
(* time, a time limit that abandoned one, a full reload that failed, a     *)
(* browser that signed in or out while its console was being replaced.     *)
(***************************************************************************)
EXTENDS Naturals, FiniteSets

CONSTANTS Names,       \* ports the file may list
          Tasks,       \* operations that may be in progress at a time
          MaxObjs,     \* bound: port objects created in a behaviour
          MaxAdapters, \* bound: adapters (each with its console) created
          MaxEdits,    \* bound: edits of the file
          MaxSigns,    \* bound: times the browser signs in or out
          MaxOps       \* bound: operations begun after the start

VARIABLES
    file,      \* the configuration file on disk
    loaded,    \* config_manager.config
    objs,      \* every port object: its name, its entry and its state
    ports,     \* each adapter's dictionary: name -> object, 0 for none
    pm,        \* PortManager.ports: name -> object, 0 for none
    gaps,      \* each adapter's config_gaps
    unified,   \* the adapter in unified_adapters, 0 for an empty list
    console,   \* self.web_console, 0 for None
    web,       \* each web console: "unborn", "made", "up", "down"
    sessions,  \* login sessions each console holds
    task,      \* the operations in progress
    used,      \* edits and operations so far
    browser,   \* whether the browser believes to be signed in
    halted, races

vars == <<file, loaded, objs, ports, pm, gaps, unified, console, web, sessions,
          task, used, browser, halted, races>>

Good == {"a", "b"}
Entries == {"none", "bad"} \cup Good
Objs == 1..MaxObjs
Adapters == 1..MaxAdapters
None == "-"
Idle == [kind |-> "idle", at |-> None, of |-> 0, cfg |-> [n \in Names |-> "none"],
         kill |-> {}, make |-> {}, busy |-> None, obj |-> 0, own |-> FALSE,
         late |-> 0, carried |-> FALSE]
Busy(t) == task[t].kind # "idle"
NewObj == CHOOSE o \in Objs : objs[o].state = "unborn"
             /\ \A p \in Objs : objs[p].state = "unborn" => o <= p
NewAdapter == CHOOSE i \in Adapters : web[i] = "unborn"
                 /\ \A j \in Adapters : web[j] = "unborn" => i <= j
CanBuild == \E i \in Adapters : web[i] = "unborn"

(* The entries an adapter is built from: the rejected ones become gaps,    *)
(* the others are created when it starts.                                  *)
Rejected(cfg) == {n \in Names : cfg[n] = "bad"}
Usable(cfg) == {n \in Names : cfg[n] \in Good}

(* start(): the adapters are created and wired, and are to be started.     *)
Init ==
    /\ file \in [Names -> Entries] /\ loaded = file
    /\ objs = [o \in Objs |-> [name |-> None, entry |-> "none", state |-> "unborn"]]
    /\ ports = [i \in Adapters |-> [n \in Names |-> 0]]
    /\ pm = [n \in Names |-> 0]
    /\ gaps = [i \in Adapters |-> IF i = 1 THEN Rejected(file) ELSE {}]
    /\ unified = 1 /\ console = 1
    /\ web = [i \in Adapters |-> IF i = 1 THEN "made" ELSE "unborn"]
    /\ sessions = [i \in Adapters |-> FALSE]
    /\ task = [t \in Tasks |-> IF t = CHOOSE s \in Tasks : TRUE
                 THEN [Idle EXCEPT !.kind = "boot", !.at = "start", !.of = 1,
                                   !.cfg = file, !.make = Usable(file)]
                 ELSE Idle]
    /\ used = [edits |-> 0, signs |-> 0, ops |-> 0]
    /\ browser = FALSE /\ halted = FALSE /\ races = {}

Goes(t, to) == task' = [task EXCEPT ![t] = to]
-----------------------------------------------------------------------------
(* Around the server: the file is edited, and a browser signs in to the    *)
(* console that answers or signs out of it.                                *)
Edit(n, e) ==
    /\ used.edits < MaxEdits /\ file[n] # e
    /\ file' = [file EXCEPT ![n] = e]
    /\ used' = [used EXCEPT !.edits = @ + 1]
    /\ UNCHANGED <<loaded, objs, ports, pm, gaps, unified, console, web, sessions,
                   task, browser, halted, races>>

(* One browser, whose session the console that answers keeps in its store. *)
Sign(i) ==
    /\ web[i] = "up" /\ used.signs < MaxSigns
    /\ sessions' = [sessions EXCEPT ![i] = ~@]
    /\ used' = [used EXCEPT !.signs = @ + 1]
    /\ browser' = ~sessions[i]
    /\ races' = races \cup (IF \E t \in Tasks : task[t].kind = "full"
                           THEN {"sign"} ELSE {})
    /\ UNCHANGED <<file, loaded, objs, ports, pm, gaps, unified, console, web,
                   task, halted>>

(* An operation begins: a signal, a control command or the config editor.  *)
Begins(t, op) ==
    /\ ~Busy(t) /\ used.ops < MaxOps
    /\ \A s \in Tasks : task[s].kind # "boot"
    /\ used' = [used EXCEPT !.ops = @ + 1]
    /\ races' = races \cup (IF \E s \in Tasks : Busy(s) THEN {"overlap"} ELSE {})
    /\ Goes(t, op)

(* reload_adapters_soft: the file is loaded, and the access manager takes  *)
(* its part, which suspends.                                               *)
SoftBegins(t) ==
    /\ Begins(t, [Idle EXCEPT !.kind = "soft", !.at = "auth", !.cfg = file])
    /\ loaded' = file
    /\ UNCHANGED <<file, objs, ports, pm, gaps, unified, console, web, sessions,
                   browser, halted>>

(* reload_adapters_full: the login sessions are captured before anything   *)
(* stops, and the adapters in the list are to be stopped.                  *)
FullBegins(t, own) ==
    /\ own => \E i \in Adapters : web[i] = "up"
    /\ Begins(t, [Idle EXCEPT !.kind = "full", !.own = own, !.of = unified,
                     !.at = IF unified = 0 THEN "stopped" ELSE "stop",
                     !.kill = IF unified = 0 THEN {}
                              ELSE {n \in Names : ports[unified][n] # 0},
                     !.carried = console # 0 /\ sessions[console]])
    /\ UNCHANGED <<file, loaded, objs, ports, pm, gaps, unified, console, web,
                   sessions, browser, halted>>

(* shutdown(): once, over the adapters of that moment.                     *)
ShutdownBegins(t) ==
    /\ \A s \in Tasks : task[s].kind # "shutdown"
    /\ Begins(t, [Idle EXCEPT !.kind = "shutdown", !.of = unified,
                     !.at = IF unified = 0 THEN "stopped" ELSE "stop",
                     !.kill = IF unified = 0 THEN {}
                              ELSE {n \in Names : ports[unified][n] # 0}])
    /\ UNCHANGED <<file, loaded, objs, ports, pm, gaps, unified, console, web,
                   sessions, browser, halted>>
-----------------------------------------------------------------------------
(* reconcile_ports, up to the first stop: gaps of entries that left the    *)
(* file are dropped, every entry is compared with the object that runs     *)
(* under its name, and every candidate is built before anything is         *)
(* destroyed; a refused one is a gap, and what runs keeps running.         *)
Differ(dict, cfg) == {n \in Names : dict[n] # 0 /\ cfg[n] \notin {"none", objs[dict[n]].entry}}
Removed(dict, cfg) == {n \in Names : dict[n] # 0 /\ cfg[n] = "none"}
Added(dict, cfg) == {n \in Names : dict[n] = 0 /\ cfg[n] # "none"}

Updated(dict, cfg) == Differ(dict, cfg) \ Rejected(cfg)

Classify(t) ==
    /\ task[t].kind = "soft" /\ task[t].at = "auth"
    /\ LET cfg == task[t].cfg
           lacks == unified = 0
           i == IF lacks THEN NewAdapter ELSE unified
       IN IF lacks /\ (~CanBuild \/ \A n \in Names : cfg[n] = "none")
          THEN /\ Goes(t, Idle)
               /\ UNCHANGED <<gaps, unified, web>>
          ELSE /\ unified' = i
               /\ web' = IF lacks THEN [web EXCEPT ![i] = "down"] ELSE web
               /\ gaps' = [gaps EXCEPT ![i] =
                             (@ \ {n \in Names : cfg[n] = "none"})
                                 \cup ((Added(ports[i], cfg) \cup Differ(ports[i], cfg))
                                          \cap Rejected(cfg))]
               /\ Goes(t, [task[t] EXCEPT !.at = "apply", !.of = i,
                             !.kill = Removed(ports[i], cfg) \cup Updated(ports[i], cfg),
                             !.make = (Added(ports[i], cfg) \ Rejected(cfg))
                                          \cup Updated(ports[i], cfg)])
    /\ UNCHANGED <<file, loaded, objs, ports, pm, console, sessions, used,
                   browser, halted, races>>

(* destroy_port up to the port's own stop, which suspends.                 *)
KillBegins(t, n) ==
    LET o == task[t]
        p == ports[o.of][n] IN
    /\ o.at \in {"apply", "stop"} /\ o.busy = None /\ n \in o.kill
    /\ IF p = 0
       THEN /\ Goes(t, [o EXCEPT !.kill = @ \ {n}])
            /\ UNCHANGED pm
       ELSE /\ Goes(t, [o EXCEPT !.kill = @ \ {n}, !.busy = n, !.obj = p])
            /\ pm' = [pm EXCEPT ![n] = 0]
    /\ UNCHANGED <<file, loaded, objs, ports, gaps, unified, console, web,
                   sessions, used, browser, halted, races>>

Killing(t) == task[t].at \in {"apply", "stop"} /\ task[t].busy # None
                 /\ objs[task[t].obj].state # "starting"

(* ... and behind it: the name leaves the dictionary, whatever it names.   *)
KillEnds(t) ==
    LET o == task[t] IN
    /\ Killing(t)
    /\ objs' = [objs EXCEPT ![o.obj].state = "gone"]
    /\ ports' = [ports EXCEPT ![o.of][o.busy] = 0]
    /\ Goes(t, [o EXCEPT !.busy = None, !.obj = 0])
    /\ UNCHANGED <<file, loaded, pm, gaps, unified, console, web, sessions, used,
                   browser, halted, races>>

(* create_port up to the port's start, which suspends.                     *)
MakeBegins(t, n) ==
    LET o == task[t] IN
    /\ o.at \in {"apply", "start"} /\ o.busy = None /\ o.kill = {} /\ n \in o.make
    /\ \E p \in Objs : objs[p].state = "unborn"
    /\ objs' = [objs EXCEPT ![NewObj] = [name |-> n, entry |-> o.cfg[n], state |-> "starting"]]
    /\ Goes(t, [o EXCEPT !.make = @ \ {n}, !.busy = n, !.obj = NewObj])
    /\ UNCHANGED <<file, loaded, ports, pm, gaps, unified, console, web,
                   sessions, used, browser, halted, races>>

Making(t) == task[t].at \in {"apply", "start"} /\ task[t].busy # None
                /\ objs[task[t].obj].state = "starting"

(* The port runs: it joins the dictionary and the manager, and its entry   *)
(* is no longer a gap.                                                     *)
Made(t) ==
    LET o == task[t] IN
    /\ Making(t)
    /\ objs' = [objs EXCEPT ![o.obj].state = "up"]
    /\ ports' = [ports EXCEPT ![o.of][o.busy] = o.obj]
    /\ pm' = [pm EXCEPT ![o.busy] = o.obj]
    /\ gaps' = [gaps EXCEPT ![o.of] = @ \ {o.busy}]
    /\ Goes(t, [o EXCEPT !.busy = None, !.obj = 0])
    /\ UNCHANGED <<file, loaded, unified, console, web, sessions, used, browser,
                   halted, races>>

(* Mutant: the failure is logged and recorded nowhere.                     *)
MakeFailsSilently(t) ==
    LET o == task[t] IN
    /\ Making(t)
    /\ objs' = [objs EXCEPT ![o.obj].state = "gone"]
    /\ Goes(t, [o EXCEPT !.busy = None, !.obj = 0])
    /\ UNCHANGED <<file, loaded, ports, pm, gaps, unified, console, web,
                   sessions, used, browser, halted, races>>

(* It could not be started: a gap.                                         *)
MakeFails(t) ==
    LET o == task[t] IN
    /\ Making(t)
    /\ objs' = [objs EXCEPT ![o.obj].state = "gone"]
    /\ gaps' = [gaps EXCEPT ![o.of] = @ \cup {o.busy}]
    /\ Goes(t, [o EXCEPT !.busy = None, !.obj = 0])
    /\ UNCHANGED <<file, loaded, ports, pm, unified, console, web, sessions,
                   used, browser, halted, races>>

Through(t) == task[t].busy = None /\ task[t].kill = {} /\ task[t].make = {}

SoftEnds(t) ==
    /\ task[t].at = "apply" /\ Through(t)
    /\ Goes(t, Idle)
    /\ UNCHANGED <<file, loaded, objs, ports, pm, gaps, unified, console, web,
                   sessions, used, browser, halted, races>>
-----------------------------------------------------------------------------
(* Mutant: only starts are limited.                                        *)
LimitStarts(t) ==
    /\ task[t].kind = "full" /\ task[t].at = "start" /\ task[t].busy # None
    /\ Goes(t, [task[t] EXCEPT !.busy = None, !.obj = 0, !.kill = {}, !.make = {}])
    /\ races' = races \cup {"limit"}
    /\ UNCHANGED <<file, loaded, objs, ports, pm, gaps, unified, console, web,
                   sessions, used, browser, halted>>

(* The time limit of a full reload, 10 s for every adapter it stops or     *)
(* starts, or the 5 s of the shutdown: the rest is abandoned.              *)
Limit(t) ==
    /\ task[t].kind \in {"full", "shutdown"} /\ task[t].at \in {"stop", "start"}
    /\ task[t].busy # None
    /\ Goes(t, [task[t] EXCEPT !.busy = None, !.obj = 0, !.kill = {}, !.make = {}])
    /\ races' = races \cup {"limit"}
    /\ UNCHANGED <<file, loaded, objs, ports, pm, gaps, unified, console, web,
                   sessions, used, browser, halted>>

(* The web console is stopped with the others, except the one the request  *)
(* came through, which has to answer first.                                *)
StopConsole(t) ==
    LET o == task[t] IN
    /\ o.at = "stop" /\ Through(t)
    /\ IF o.own /\ o.of = console
       THEN /\ Goes(t, [o EXCEPT !.at = "stopped", !.late = console])
            /\ UNCHANGED web
       ELSE /\ Goes(t, [o EXCEPT !.at = "stopped"])
            /\ web' = [web EXCEPT ![o.of] = "down"]
    /\ UNCHANGED <<file, loaded, objs, ports, pm, gaps, unified, console,
                   sessions, used, browser, halted, races>>

(* The loop is stopped and every task with it.                             *)
Halt(t) ==
    /\ task[t].kind = "shutdown" /\ task[t].at = "stopped"
    /\ halted' = TRUE
    /\ task' = [s \in Tasks |-> Idle]
    /\ UNCHANGED <<file, loaded, objs, ports, pm, gaps, unified, console, web,
                   sessions, used, browser, races>>

(* The file cannot be read or no adapter can be built from it: the reload  *)
(* ends here, with no adapters and with the console it still has.          *)
FullFails(t) ==
    /\ task[t].kind = "full" /\ task[t].at = "stopped"
    /\ unified' = 0 /\ console' = task[t].late
    /\ races' = races \cup {"failed"}
    /\ Goes(t, Idle)
    /\ UNCHANGED <<file, loaded, objs, ports, pm, gaps, web, sessions, used,
                   browser, halted>>

(* New adapters from the file, wired; the console takes over the captured  *)
(* login sessions.                                                         *)
Recreate(t) ==
    /\ task[t].kind = "full" /\ task[t].at = "stopped" /\ CanBuild
    /\ LET i == NewAdapter IN
       /\ unified' = i /\ console' = i
       /\ loaded' = file
       /\ gaps' = [gaps EXCEPT ![i] = Rejected(file)]
       /\ web' = [web EXCEPT ![i] = "made"]
       /\ sessions' = [sessions EXCEPT ![i] = task[t].carried]
       /\ Goes(t, [task[t] EXCEPT !.at = "start", !.of = i, !.cfg = file,
                                  !.make = Usable(file)])
    /\ UNCHANGED <<file, objs, ports, pm, used, browser, halted, races>>

(* A console that finds its address taken by another does not start.       *)
Bound(i) == IF \E j \in Adapters \ {i} : web[j] = "up" THEN "down" ELSE "up"

(* The new console is started with the others, or after the answer when    *)
(* the one it replaces has to give it.                                     *)
StartConsole(t) ==
    LET o == task[t] IN
    /\ o.at = "start" /\ Through(t)
    /\ IF o.late = 0
       THEN Goes(t, Idle) /\ web' = [web EXCEPT ![o.of] = Bound(o.of)]
       ELSE Goes(t, [o EXCEPT !.at = "late"]) /\ UNCHANGED web
    /\ UNCHANGED <<file, loaded, objs, ports, pm, gaps, unified, console,
                   sessions, used, browser, halted, races>>

(* Mutant: the console that answered is left up.                           *)
LateStartOnly(t) ==
    LET o == task[t] IN
    /\ o.at = "late"
    /\ web' = [web EXCEPT ![o.of] = Bound(o.of)]
    /\ Goes(t, Idle)
    /\ UNCHANGED <<file, loaded, objs, ports, pm, gaps, unified, console,
                   sessions, used, browser, halted, races>>

(* _deferred_restart_web_console: the old one is stopped, then the new one *)
(* started; two steps, each within its own limit.                          *)
LateRestart(t) ==
    LET o == task[t] IN
    /\ o.at = "late"
    /\ IF web[o.late] = "up"
       THEN web' = [web EXCEPT ![o.late] = "down"] /\ UNCHANGED task
       ELSE web' = [web EXCEPT ![o.of] = Bound(o.of)] /\ Goes(t, Idle)
    /\ UNCHANGED <<file, loaded, objs, ports, pm, gaps, unified, console, sessions,
                   used, browser, halted, races>>
-----------------------------------------------------------------------------
(* What an operation does without waiting for a device.                    *)
Step(t) ==
    \/ Classify(t) \/ SoftEnds(t) \/ StopConsole(t) \/ Halt(t) \/ Recreate(t)
    \/ StartConsole(t) \/ LateRestart(t) \/ Limit(t)
    \/ \E n \in Names : KillBegins(t, n) \/ MakeBegins(t, n)

Next ==
    /\ ~halted
    /\ \/ \E n \in Names, e \in Entries : Edit(n, e)
       \/ \E i \in Adapters : Sign(i)
       \/ \E t \in Tasks : \/ SoftBegins(t) \/ ShutdownBegins(t)
                           \/ \E own \in BOOLEAN : FullBegins(t, own)
                           \/ Step(t) \/ KillEnds(t) \/ Made(t) \/ MakeFails(t)
                           \/ FullFails(t)

(* Tasks of the event loop run and its timers fire; a port's stop or start *)
(* may hang.                                                               *)
Fairness == \A t \in Tasks : WF_vars(~halted /\ Step(t))

Spec == Init /\ [][Next]_vars /\ Fairness
-----------------------------------------------------------------------------
Settled == \A t \in Tasks : ~Busy(t)

(* When nothing is in progress, no two operations overlapped and no limit  *)
(* struck, the server runs what the file it loaded asks for: each entry    *)
(* has the one object of its name, up and known to the port manager, or    *)
(* the entry is recorded as a gap, and a rejected update left the old      *)
(* object in place.  No object is left over.                               *)
RunsWhatIsAsked ==
    Settled /\ races \cap {"overlap", "limit"} = {} /\ ~halted /\ unified # 0 =>
        /\ \A n \in Names :
             LET o == ports[unified][n] IN
             /\ pm[n] = o
             /\ IF o = 0 THEN loaded[n] = "none" \/ n \in gaps[unified]
                ELSE /\ objs[o].state = "up"
                     /\ \/ objs[o].entry = loaded[n]
                        \/ loaded[n] = "bad" /\ n \in gaps[unified]
        /\ \A o \in Objs : objs[o].state = "up" => ports[unified][objs[o].name] = o

(* _capture_login_sessions: "its browsers must stay signed in".  Unless it *)
(* touched its session while its console was being replaced, a browser is  *)
(* signed in to the console that answers exactly when it believes so.      *)
BrowsersStaySigned ==
    Settled /\ races \cap {"overlap", "sign", "failed"} = {} /\ ~halted =>
        web[console] = "up" /\ sessions[console] = browser

(* A full reload ends, whatever device hangs.                              *)
FullEnds == \A t \in Tasks : task[t].kind = "full" ~> task[t].kind = "idle"

(* config_gaps: an entry is a gap only while the file asks for something   *)
(* that does not run.                                                      *)
GapsAreReal ==
    Settled /\ races \cap {"overlap", "limit"} = {} /\ ~halted /\ unified # 0 =>
        \A n \in gaps[unified] :
            ports[unified][n] # 0 => objs[ports[unified][n]].entry # loaded[n]
=============================================================================
