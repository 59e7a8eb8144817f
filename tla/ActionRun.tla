------------------------------ MODULE ActionRun ------------------------------
(***************************************************************************)
(* Port Actions: one run at a time borrows the port's write slot.  Its     *)
(* launcher is set aside if need be and gets the slot back at the end; a   *)
(* takeover of the operator's role moves that claim.  Every await of       *)
(* ActionRunner._execute is a step of its own, at which clients come, go   *)
(* and take the slot, and at which the operator's Stop may cancel the run. *)
(*                                                                         *)
(* On a federated port the slot is the origin's; what a request to it goes *)
(* through is FedSlot.                                                     *)
(***************************************************************************)
EXTENDS Naturals

CONSTANTS Clients, none, elsewhere,
          MaxRuns,     \* bound: launches
          MaxCancels   \* bound: presses of Stop

Runs == 1..MaxRuns
Holders == Clients \cup Runs     \* a run is its own client, "action:<run_id>"

VARIABLES
  fed,       \* the port is a RemotePortProxy
  rec,       \* rec[x]: x's record on this server's port
  origin,    \* who has the origin's slot, when fed
  active,    \* _active_by_port
  open,      \* _open_finished_by_port
  pc,        \* pc[r]: the await _execute is in
  status,    \* status[r]
  launcher, operator, demoted,   \* demoted[r]: auto_demoted_client_id
  closed,    \* the runs with a closed_at
  cancels

runVars == <<active, open, pc, status, launcher, operator, demoted, closed>>
vars == <<fed, rec, origin, runVars, cancels>>

Live == {"queued", "releasing", "notifying", "asking", "starting", "script",
         "regranting", "unheard", "telling"}

TypeOK ==
    /\ fed \in BOOLEAN
    /\ rec \in [Holders -> {"absent", "read-only", "read-write"}]
    /\ origin \in Holders \cup {none, elsewhere}
    /\ active \in Runs \cup {none} /\ open \in Runs \cup {none}
    /\ pc \in [Runs -> Live \cup {"idle", "ended", "dead"}]
    /\ status \in [Runs -> {"running", "success", "failed", "timeout", "cancelled"}]
    /\ launcher \in [Runs -> Clients \cup {none}]
    /\ operator \in [Runs -> Clients \cup {none}]
    /\ demoted \in [Runs -> Clients \cup {none}]
    /\ closed \subseteq Runs /\ cancels \in 0..MaxCancels

Init ==
    /\ fed \in BOOLEAN
    /\ rec = [x \in Holders |-> "absent"] /\ origin = none
    /\ active = none /\ open = none
    /\ pc = [r \in Runs |-> "idle"] /\ status = [r \in Runs |-> "running"]
    /\ launcher = [r \in Runs |-> none] /\ operator = [r \in Runs |-> none]
    /\ demoted = [r \in Runs |-> none]
    /\ closed = {} /\ cancels = 0

-----------------------------------------------------------------------------
(* The slot *)

LocalFree(x) == \A y \in Holders \ {x} : rec[y] # "read-write"
OriginFree(x) == origin \in {none, x}
Given(x) == [rec EXCEPT ![x] = "read-write"]

\* What is left at the origin when x's stream closes or x is set aside there.
Without(x) == IF origin = x THEN none ELSE origin

Join(c) == /\ rec[c] = "absent" /\ rec' = [rec EXCEPT ![c] = "read-only"]
           /\ UNCHANGED <<fed, origin, runVars, cancels>>

Leave(c) == /\ rec[c] # "absent" /\ rec' = [rec EXCEPT ![c] = "absent"]
            /\ origin' = Without(c)
            /\ UNCHANGED <<fed, runVars, cancels>>

Take(c) ==
    /\ rec[c] = "read-only" /\ LocalFree(c) /\ (fed => OriginFree(c))
    /\ rec' = Given(c) /\ origin' = IF fed THEN c ELSE none
    /\ UNCHANGED <<fed, runVars, cancels>>

Free(c) ==
    /\ rec[c] = "read-write" /\ rec' = [rec EXCEPT ![c] = "read-only"]
    /\ origin' = Without(c)
    /\ UNCHANGED <<fed, runVars, cancels>>

\* A takeover, of a run's client like of any other.
Force(c, x) ==
    /\ rec[c] = "read-only" /\ rec[x] = "read-write"
    /\ rec' = [rec EXCEPT ![c] = "read-write", ![x] = "read-only"]
    /\ origin' = IF fed THEN c ELSE none
    /\ UNCHANGED <<fed, runVars, cancels>>

\* The origin's own users, who may force as well.
Elsewhere ==
    /\ fed
    /\ IF origin = elsewhere THEN origin' = none /\ UNCHANGED rec
       ELSE /\ origin' = elsewhere
            /\ rec' = [x \in Holders |-> IF x = origin /\ rec[x] = "read-write"
                                         THEN "read-only" ELSE rec[x]]
    /\ UNCHANGED <<fed, runVars, cancels>>

-----------------------------------------------------------------------------
(* The run *)

\* launch_run settles the finished run that is still open.
Start(c, r) ==
    /\ closed' = closed \cup ({open} \ {none}) /\ open' = none
    /\ active' = r /\ pc' = [pc EXCEPT ![r] = "queued"]
    /\ launcher' = [launcher EXCEPT ![r] = c]
    /\ operator' = [operator EXCEPT ![r] = c]

\* A request while a run is active is refused.
Launch(c, r) ==
    /\ active = none /\ pc[r] = "idle" /\ \A q \in Runs : q < r => pc[q] # "idle"
    /\ Start(c, r)
    /\ UNCHANGED <<fed, rec, origin, status, demoted, cancels>>

(* Mutant: a run that did not succeed keeps the port's lock.               *)
ReleasedIfDone(r, s, at) ==
    /\ active' = IF s = "success" THEN none ELSE active
    /\ open' = r
    /\ status' = [status EXCEPT ![r] = s] /\ pc' = [pc EXCEPT ![r] = at]

\* The last synchronous step: the lock is released and the run shown as open.
Released(r, s, at) ==
    /\ active' = none /\ open' = r
    /\ status' = [status EXCEPT ![r] = s] /\ pc' = [pc EXCEPT ![r] = at]

(* Mutant: only a run that succeeded gives the slot back.                  *)
EndsIfSuccess(r, s) ==
    LET d == demoted[r]
        left == [rec EXCEPT ![r] = "absent"]
        back == s = "success" /\ d # none /\ left[d] # "absent"
    IN
    /\ origin' = Without(r) /\ UNCHANGED <<demoted, launcher, operator, closed>>
    /\ IF ~back THEN rec' = left /\ Released(r, s, "ended")
       ELSE /\ rec' = IF ~fed /\ \A y \in Holders \ {d} : left[y] # "read-write"
                      THEN [left EXCEPT ![d] = "read-write"] ELSE left
            /\ pc' = [pc EXCEPT ![r] = IF fed THEN "regranting" ELSE "telling"]
            /\ status' = [status EXCEPT ![r] = s]
            /\ UNCHANGED <<active, open>>

\* The finally block up to its next await: the run's client leaves, and whoever
\* was set aside for it is promoted, if attached and the slot is free.  On a
\* federated port the origin is asked first.
Ends(r, s) ==
    LET d == demoted[r]
        left == [rec EXCEPT ![r] = "absent"]
        back == d # none /\ left[d] # "absent"
    IN
    /\ origin' = Without(r) /\ UNCHANGED <<demoted, launcher, operator, closed>>
    /\ IF ~back THEN rec' = left /\ Released(r, s, "ended")
       ELSE /\ rec' = IF ~fed /\ \A y \in Holders \ {d} : left[y] # "read-write"
                      THEN [left EXCEPT ![d] = "read-write"] ELSE left
            /\ pc' = [pc EXCEPT ![r] = IF fed THEN "regranting" ELSE "telling"]
            /\ status' = [status EXCEPT ![r] = s]
            /\ UNCHANGED <<active, open>>

At(r, p) == pc[r] = p
Goes(r, p) == pc' = [pc EXCEPT ![r] = p]

\* The launcher is demoted; telling it so suspends the run.
SetAside(r) ==
    /\ rec' = [rec EXCEPT ![launcher[r]] =
                 IF @ = "absent" THEN "absent" ELSE "read-only"]
    /\ demoted' = [demoted EXCEPT ![r] = launcher[r]]
    /\ Goes(r, "notifying")
    /\ UNCHANGED <<active, open, status, launcher, operator, closed>>

\* add_client_to_port in mode read-write, and what follows if it is refused.
Admit(r) ==
    IF LocalFree(r)
    THEN /\ rec' = Given(r) /\ Goes(r, IF fed THEN "asking" ELSE "starting")
         /\ UNCHANGED <<origin, active, open, status, launcher, operator, demoted, closed>>
    ELSE Ends(r, "failed")

\* The first step of the task.  The release of the launcher's slot at the
\* origin may be lost on the way.
Attach(r) ==
    /\ At(r, "queued")
    /\ \E down \in IF fed THEN BOOLEAN ELSE {FALSE} :
         IF down THEN Ends(r, "failed")
         ELSE IF LocalFree(r) \/ rec[launcher[r]] # "read-write" THEN Admit(r)
         ELSE IF ~fed THEN SetAside(r) /\ UNCHANGED origin
         ELSE /\ origin' \in {origin, Without(launcher[r])} /\ Goes(r, "releasing")
              /\ UNCHANGED <<rec, active, open, status, launcher, operator, demoted, closed>>
    /\ UNCHANGED <<fed, cancels>>

ReleaseDone(r) == /\ At(r, "releasing") /\ SetAside(r)
                  /\ UNCHANGED <<fed, origin, cancels>>

AttachAgain(r) == /\ At(r, "notifying") /\ Admit(r) /\ UNCHANGED <<fed, cancels>>

\* An answer may be lost: the request then counts as denied.
Asked(r) ==
    /\ At(r, "asking")
    /\ \/ /\ OriginFree(r) /\ origin' = r /\ Goes(r, "starting")
          /\ UNCHANGED <<rec, active, open, status, launcher, operator, demoted, closed>>
       \/ Ends(r, "failed")
    /\ UNCHANGED <<fed, cancels>>

Started(r) ==
    /\ At(r, "starting") /\ Goes(r, "script")
    /\ UNCHANGED <<fed, rec, origin, active, open, status, launcher, operator,
                   demoted, closed, cancels>>

\* The script returns, fails, or runs out of time.
ScriptEnds(r) ==
    /\ At(r, "script")
    /\ \E s \in {"success", "failed", "timeout"} : Ends(r, s)
    /\ UNCHANGED <<fed, cancels>>

\* Only the script's await turns a cancellation into an outcome.  Elsewhere it
\* passes through, into the finally block or out of it.
Cancel(c, r) ==
    /\ cancels < MaxCancels /\ cancels' = cancels + 1
    /\ status[r] = "running" /\ operator[r] = c /\ pc[r] \in Live \ {"queued"}
    /\ \/ At(r, "script") /\ Ends(r, "cancelled")
       \/ pc[r] \in {"releasing", "notifying", "asking", "starting"} /\ Ends(r, "running")
       \/ /\ pc[r] \in {"regranting", "unheard", "telling"} /\ Goes(r, "dead")
          /\ UNCHANGED <<rec, origin, active, open, status, launcher, operator,
                         demoted, closed>>
    /\ UNCHANGED fed

\* The origin's verdict on the one to be restored.  A request that gets lost
\* ("unheard") restores nobody.
Regranted(r) ==
    LET d == demoted[r] IN
    /\ At(r, "regranting")
    /\ \/ /\ rec[d] # "absent" /\ OriginFree(d) /\ origin' = d
          /\ rec' = IF LocalFree(d) THEN Given(d) ELSE rec
          /\ Goes(r, "telling")
       \/ /\ rec[d] # "absent" /\ OriginFree(d) /\ origin' = d  \* the answer is late
          /\ UNCHANGED rec /\ Goes(r, "telling")
       \/ /\ rec[d] = "absent" \/ ~OriginFree(d)
          /\ UNCHANGED <<rec, origin>> /\ Goes(r, "telling")
       \/ Goes(r, "unheard") /\ UNCHANGED <<rec, origin>>
    /\ UNCHANGED <<fed, active, open, status, launcher, operator, demoted, closed, cancels>>

Finish(r) ==
    /\ pc[r] \in {"telling", "unheard"} /\ Released(r, status[r], "ended")
    /\ UNCHANGED <<fed, rec, origin, launcher, operator, demoted, closed, cancels>>

-----------------------------------------------------------------------------
(* The operator's role *)

Operates(c, r) ==
    /\ operator' = [operator EXCEPT ![r] = c]
    /\ demoted' = IF status[r] = "running" /\ demoted[r] # none
                  THEN [demoted EXCEPT ![r] = c] ELSE demoted

\* While the run lasts over its stream, afterwards by a request of its own.
TakeOver(c, r) ==
    /\ pc[r] # "idle" /\ r \notin closed /\ rec[c] # "absent" /\ operator[r] # c
    /\ Operates(c, r)
    /\ UNCHANGED <<fed, rec, origin, active, open, pc, status, launcher, closed, cancels>>

MayClose(c, r) == status[r] # "running" /\ r \notin closed /\ operator[r] = c

Close(c, r) ==
    /\ pc[r] # "idle" /\ MayClose(c, r)
    /\ closed' = closed \cup {r}
    /\ open' = IF open = r THEN none ELSE open
    /\ UNCHANGED <<fed, rec, origin, active, pc, status, launcher, operator,
                   demoted, cancels>>

Runner(r) == \/ Attach(r) \/ ReleaseDone(r) \/ AttachAgain(r) \/ Asked(r)
             \/ Started(r) \/ ScriptEnds(r) \/ Regranted(r) \/ Finish(r)

Next == \/ \E c \in Clients : \/ Join(c) \/ Leave(c) \/ Take(c) \/ Free(c)
                              \/ \E x \in Holders \ {c} : Force(c, x)
        \/ Elsewhere
        \/ \E r \in Runs : \/ Runner(r)
                           \/ \E c \in Clients : \/ Launch(c, r) \/ Cancel(c, r)
                                                 \/ TakeOver(c, r) \/ Close(c, r)

\* Every await of a run ends: the script has a timeout, requests give up.
Fairness == \A r \in Runs : WF_vars(Runner(r))
Spec == Init /\ [][Next]_vars /\ Fairness

-----------------------------------------------------------------------------
(* Properties *)

\* _execute's finally: however a run ends, its client leaves the port and the
\* next run may start.  The exception is a second Stop that strikes while the
\* one set aside is being restored (the first came before the script, which
\* leaves the run "running"): the lock is then never released.
PortOpensAgain ==
    \A r \in Runs :
      active = r ~> /\ rec[r] = "absent"
                    /\ active # r \/ (pc[r] = "dead" /\ cancels > 1)

\* cancel_run (runner.py:291): "`_execute()` catches the resulting
\* `CancelledError`, sets `status = "cancelled"`, and runs its normal cleanup
\* (...) exactly like any other run outcome."  A run that is over is not
\* "running".
StopIsAnOutcome == \A r \in Runs : At(r, "ended") \/ At(r, "dead") => status[r] # "running"

\* _detach_and_restore: when a run is over, whoever was set aside for it and is
\* still attached drives again, unless the slot went to somebody else meanwhile
\* or the origin never heard the request.
SlotComesBack ==
    [][\A r \in Runs :
         /\ pc[r] \in Live \ {"unheard", "telling"} /\ pc'[r] \in {"telling", "ended"}
         /\ demoted[r] # none /\ rec[demoted[r]] # "absent"
         => origin' # none \/ \E c \in Clients : rec'[c] = "read-write"]_vars

=============================================================================
