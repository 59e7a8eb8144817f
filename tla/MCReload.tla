------------------------------ MODULE MCReload ------------------------------
(***************************************************************************)
(* ServerReload in two scenarios: two ports in the file and one operation  *)
(* at a time, or one port and two operations that may overlap.  Nothing    *)
(* is asked of the server after a time limit abandoned an operation.       *)
(***************************************************************************)
EXTENDS Naturals

CONSTANTS Names, Tasks, MaxObjs, MaxAdapters, MaxEdits, MaxSigns, MaxOps,
          first, spare

VARIABLES file, loaded, objs, ports, pm, gaps, unified, console, web, sessions,
          task, used, browser, halted, overlaps, scenario

Server == INSTANCE ServerReload WITH races <- overlaps

ASSUME ReloadAssumption ==
    /\ first \in Tasks /\ spare \in Names
    /\ Server!None \notin Names
    /\ MaxObjs \in Nat /\ MaxAdapters \in Nat \ {0}

ReloadInit ==
    /\ Server!Init
    /\ task[first].kind = "boot"
    /\ scenario \in {"two ports", "two operations"}
    /\ \A n \in Names \ {spare} : file[n] = "a"
    /\ file[spare] = IF scenario = "two ports" THEN "a" ELSE "none"

ReloadNext ==
    /\ Server!Next
    /\ UNCHANGED scenario
    /\ scenario = "two operations" => file'[spare] = "none" /\ used'.signs = 0
    /\ "limit" \in overlaps => used'.ops = used.ops
    /\ scenario = "two ports" =>
          \A t \in Tasks \ {first} : task'[t].kind = "idle"

ReloadSpec ==
    ReloadInit /\ [][ReloadNext]_<<Server!vars, scenario>> /\ Server!Fairness
-----------------------------------------------------------------------------
(* config_manager.config: at rest the server runs what the file it loaded  *)
(* asks for.                                                               *)
RunsWhatIsAsked == Server!RunsWhatIsAsked

(* _capture_login_sessions: a browser stays signed in across a reload.     *)
BrowsersStaySigned == Server!BrowsersStaySigned

(* reload_adapters_full: a full reload ends, whatever device hangs.        *)
FullEnds == Server!FullEnds
=============================================================================
