----------------------------- MODULE MCServices -----------------------------
(***************************************************************************)
(* Port actions and the terminal client in one run: Init picks the one a   *)
(* behaviour is about.  The other stays in a state from which its fairness *)
(* asks for nothing.                                                       *)
(***************************************************************************)
EXTENDS Naturals

CONSTANTS Clients, none, elsewhere, MaxRuns, MaxCancels,  \* ActionRun
          MaxDrops, MaxActs                               \* ClientSession

ASSUME ServicesAssumption ==
    /\ none \notin Clients \cup 1..MaxRuns
    /\ \A r \in 1..MaxRuns : r \notin Clients

VARIABLES
  which,
  fed, record, origin, launched, open, pc, status, launcher, operator, demoted,
  closed, cancels,
  mode, cred, up, sock, asked, answer, conn, authd, target, ui, looping, reader,
  redial, keys, mishaps, drops, acts

runVars == <<fed, record, origin, launched, open, pc, status, launcher, operator,
             demoted, closed, cancels>>
clientVars == <<mode, cred, up, sock, asked, answer, conn, authd, target, ui,
                looping, reader, redial, keys, mishaps, drops, acts>>

Action == INSTANCE ActionRun WITH rec <- record, active <- launched
Client == INSTANCE ClientSession WITH rec <- redial, running <- looping,
                                      races <- mishaps

MCInit ==
    /\ which \in {"action", "client"}
    /\ Action!Init /\ Client!Init
    /\ which # "action" => ~fed
    /\ which # "client" => mode = "off" /\ cred = "password" /\ ~target

MCNext ==
    /\ UNCHANGED which
    /\ \/ which = "action" /\ Action!Next /\ UNCHANGED clientVars
       \/ which = "client" /\ Client!Next /\ UNCHANGED runVars

MCSpec ==
    /\ MCInit /\ [][MCNext]_<<which, runVars, clientVars>>
    /\ Action!Fairness
    /\ WF_clientVars(which = "client" /\ Client!ReadLoop)
    /\ WF_clientVars(which = "client" /\ Client!Reconnecting)
    /\ WF_clientVars(which = "client" /\ Client!Answers)
    /\ WF_clientVars(Client!Return) /\ WF_clientVars(Client!LoginTimeout)
    /\ WF_clientVars(Client!DetachGivesUp)
-----------------------------------------------------------------------------
(* ActionRunner._execute: however a run ends, but for a second Stop during *)
(* the restore, the next one may start.                                    *)
PortOpensAgain == Action!PortOpensAgain

(* _detach_and_restore: whoever a run set aside drives again.              *)
SlotComesBack == Action!SlotComesBack

(* _auto_reconnect_loop: a client that lost its link comes back.           *)
ComesBack == Client!ComesBack
=============================================================================
