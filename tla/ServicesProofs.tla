--------------------------- MODULE ServicesProofs ---------------------------
(***************************************************************************)
(* The port actions, for any number of runs, clients and cancellations,    *)
(* and the server's start and reloads, for any ports and operations.       *)
(*                                                                         *)
(* SlotComesBack: the slot a run's client lets go of is nobody's but the   *)
(* run's, for a run that has ended holds nothing and one run is at work.   *)
(*                                                                         *)
(* RunsWhatIsAsked and BrowsersStaySigned: as long as no two operations of *)
(* the server overlap, whatever is not as the file asks is on the list of  *)
(* what the one in progress has yet to stop or to make, and the console    *)
(* the browser talks to is up, or the only one made and not yet up.        *)
(***************************************************************************)
EXTENDS MCServices, MCReload, WellFoundedInduction, TLAPS

-----------------------------------------------------------------------------
(* Port actions *)

RunsShape ==
  /\ record \in [Action!Holders -> {"absent", "read-only", "read-write"}]
  /\ pc \in [Action!Runs -> Action!Live \cup {"idle", "ended", "dead"}]
  /\ demoted \in [Action!Runs -> Clients \cup {none}]
  /\ launcher \in [Action!Runs -> Clients \cup {none}]

Holding == {"asking", "starting", "script"}

(* One run at a time, and its client is on the port only while it may hold *)
(* the slot.                                                               *)
OneRun ==
  \A r \in Action!Runs :
      /\ pc[r] \in Action!Live \cup {"dead"} => launched = r
      /\ pc[r] \notin Holding => record[r] = "absent"
      /\ pc[r] \in {"queued", "releasing"} => launcher[r] \in Clients

RunsInv == RunsShape /\ OneRun

LEMMA RunsBegin == Action!Init => RunsInv
  BY DEF Action!Init, RunsInv, RunsShape, OneRun, Action!Live, Action!Runs, Action!Holders

\* What the step of one run may do to the others.
LEMMA RunMoves ==
  ASSUME RunsInv, NEW r \in Action!Runs, pc[r] \in Action!Live,
         NEW p \in Action!Live \cup {"ended", "dead"}, pc' = [pc EXCEPT ![r] = p],
         p = "ended" \/ launched' = launched,
         p \in Holding \/ record'[r] = "absent", p # "queued",
         p = "releasing" => pc[r] = "queued",
         record' \in [Action!Holders -> {"absent", "read-only", "read-write"}],
         \A q \in Action!Runs : q # r => record'[q] = record[q],
         demoted' \in [Action!Runs -> Clients \cup {none}], launcher' = launcher
  PROVE  RunsInv'
<1>1. RunsShape'
  BY DEF RunsInv, RunsShape
<1>2. \A q \in Action!Runs : q # r => pc[q] \notin Action!Live \cup {"dead"}
  BY DEF RunsInv, OneRun
<1>3. /\ pc'[r] = p /\ \A q \in Action!Runs : q # r => pc'[q] = pc[q]
  BY DEF RunsInv, RunsShape
<1>4. "ended" \notin Action!Live \cup {"dead"} /\ "queued" \in Action!Live
      /\ "releasing" \in Action!Live
  BY DEF Action!Live
<1>5. OneRun'
  BY <1>2, <1>3, <1>4 DEF RunsInv, OneRun
<1> QED
  BY <1>1, <1>5 DEF RunsInv

\* Runs and clients are holders of different names.
LEMMA Named ==
  /\ \A r \in Action!Runs : r \notin Clients /\ r \in Action!Holders /\ r # none
  /\ Clients \subseteq Action!Holders /\ none \notin Clients
  BY ServicesAssumption DEF Action!Runs, Action!Holders

\* A step of the clients, or of the origin's users.
LEMMA ClientsMove ==
  ASSUME RunsInv, UNCHANGED <<pc, launched, launcher>>,
         demoted' \in [Action!Runs -> Clients \cup {none}],
         record' \in [Action!Holders -> {"absent", "read-only", "read-write"}],
         \A r \in Action!Runs : record[r] = "absent" => record'[r] = "absent"
  PROVE  RunsInv'
  BY DEF RunsInv, RunsShape, OneRun

\* The end of a run, or its first step of several.
LEMMA EndGives ==
  ASSUME RunsInv, NEW r \in Action!Runs, pc[r] \in Action!Live, NEW s, Action!Ends(r, s)
  PROVE  /\ RunsInv'
         /\ demoted' = demoted /\ pc'[r] \in {"ended", "regranting", "telling"}
         /\ pc'[r] \in {"ended", "telling"} /\ demoted[r] # none /\ record[demoted[r]] # "absent"
              => \E c \in Clients : record'[c] = "read-write"
<1> DEFINE d == demoted[r]
           left == [record EXCEPT ![r] = "absent"]
           back == d # none /\ left[d] # "absent"
           given == [left EXCEPT ![d] = "read-write"]
<1>1. /\ r \in Action!Holders /\ d \in Clients \cup {none}
      /\ record \in [Action!Holders -> {"absent", "read-only", "read-write"}]
      /\ pc \in [Action!Runs -> Action!Live \cup {"idle", "ended", "dead"}]
  BY Named DEF RunsInv, RunsShape
<1>2. /\ left \in [Action!Holders -> {"absent", "read-only", "read-write"}]
      /\ left[r] = "absent" /\ \A x \in Action!Holders : x # r => left[x] = record[x]
  BY <1>1
<1>3. d # none => d \in Clients /\ d \in Action!Holders /\ d \notin Action!Runs
  BY <1>1, Named
<1>4. \A q \in Action!Runs : left[q] = "absent"
  <2>1. \A q \in Action!Runs : q # r => record[q] = "absent"
    BY DEF RunsInv, OneRun, Holding, Action!Live
  <2> QED
    BY <1>2, <2>1, Named
<1>5. d # none => /\ given \in [Action!Holders -> {"absent", "read-only", "read-write"}]
                  /\ given[d] = "read-write" /\ \A q \in Action!Runs : given[q] = left[q]
  BY <1>2, <1>3, Named
<1>6. /\ demoted' = demoted /\ launcher' = launcher
      /\ \/ ~back /\ record' = left /\ launched' = none /\ pc' = [pc EXCEPT ![r] = "ended"]
         \/ /\ back /\ launched' = launched
            /\ \/ fed /\ record' = left /\ pc' = [pc EXCEPT ![r] = "regranting"]
               \/ /\ ~fed /\ pc' = [pc EXCEPT ![r] = "telling"]
                  /\ record' = IF \A y \in Action!Holders \ {d} : left[y] # "read-write"
                               THEN given ELSE left
  <2>1. CASE ~back
    BY <2>1 DEF Action!Ends, Action!Released
  <2>2. CASE back /\ fed
    BY <2>2 DEF Action!Ends
  <2>3. CASE back /\ ~fed
    BY <2>3 DEF Action!Ends
  <2> QED
    BY <2>1, <2>2, <2>3
<1> HIDE DEF given, left, d
<1>7. PICK p \in {"ended", "regranting", "telling"} :
        /\ pc' = [pc EXCEPT ![r] = p] /\ (p = "ended" \/ launched' = launched)
        /\ record' = left \/ (d # none /\ record' = given)
  BY <1>6
<1>8. /\ record' \in [Action!Holders -> {"absent", "read-only", "read-write"}]
      /\ \A q \in Action!Runs : record'[q] = "absent"
  BY <1>2, <1>4, <1>5, <1>7
<1>9. \A q \in Action!Runs : q # r => record'[q] = record[q]
  BY <1>2, <1>4, <1>8, Named
<1>10. RunsInv'
  <2>1. p \in Action!Live \cup {"ended", "dead"} /\ p # "queued" /\ p # "releasing"
    BY DEF Action!Live
  <2>2. demoted' \in [Action!Runs -> Clients \cup {none}]
    BY <1>6 DEF RunsInv, RunsShape
  <2> QED
    BY <1>6, <1>7, <1>8, <1>9, <2>1, <2>2, RunMoves
<1>11. pc'[r] = p
  BY <1>1, <1>7
<1>12. ASSUME p \in {"ended", "telling"}, d # none, record[d] # "absent"
       PROVE  \E c \in Clients : record'[c] = "read-write"
  <2>1. d # r /\ left[d] # "absent"
    BY <1>2, <1>3, <1>12
  <2>2. CASE \A y \in Action!Holders \ {d} : left[y] # "read-write"
    <3>1. record' = given
      BY <1>6, <1>1, <1>11, <1>12, <2>1, <2>2
    <3> QED
      BY <1>3, <1>5, <1>12, <3>1
  <2>3. CASE \E y \in Action!Holders \ {d} : left[y] = "read-write"
    <3>1. PICK y \in Action!Holders : left[y] = "read-write"
      BY <2>3
    <3>2. y \in Clients
      BY <1>4, <3>1 DEF Action!Holders
    <3>3. record' = left
      BY <1>6, <1>1, <1>11, <1>12, <2>1, <2>3
    <3> QED
      BY <3>1, <3>2, <3>3
  <2> QED
    BY <2>2, <2>3
<1> QED
  BY <1>6, <1>10, <1>11, <1>12 DEF d

(* What SlotComesBack says of one run, with the claim of the one set aside *)
(* as the step finds it.                                                   *)
Claimed(r) ==
    pc[r] \in Action!Live \ {"unheard", "telling"} /\ pc'[r] \in {"telling", "ended"}
    /\ demoted[r] # none /\ record[demoted[r]] # "absent"
Regained(r) == Claimed(r) => origin' # none \/ \E c \in Clients : record'[c] = "read-write"

\* A run that goes on without ending gives nothing back.
LEMMA GoesOn ==
  ASSUME RunsInv, NEW r \in Action!Runs, pc[r] \in Action!Live,
         NEW p \in Action!Live \cup {"dead"}, Action!Goes(r, p), p # "queued", p # "telling",
         p = "releasing" => pc[r] = "queued",
         launched' = launched, launcher' = launcher,
         demoted' \in [Action!Runs -> Clients \cup {none}],
         record' \in [Action!Holders -> {"absent", "read-only", "read-write"}],
         \A q \in Action!Runs : q # r => record'[q] = record[q],
         p \in Holding \/ record'[r] = "absent"
  PROVE  RunsInv' /\ Regained(r)
<1>1. pc' = [pc EXCEPT ![r] = p] /\ pc'[r] = p
  BY DEF Action!Goes, RunsInv, RunsShape
<1>2. RunsInv'
  BY <1>1, RunMoves
<1>3. ~Claimed(r)
  BY <1>1 DEF Claimed, Action!Live
<1> QED
  BY <1>2, <1>3 DEF Regained

LEMMA AdmitGives ==
  ASSUME RunsInv, NEW r \in Action!Runs, pc[r] \in {"queued", "notifying"}, Action!Admit(r)
  PROVE  RunsInv' /\ Regained(r)
<1>1. pc[r] \in Action!Live
  BY DEF Action!Live
<1>2. CASE Action!LocalFree(r)
  <2>1. PICK p \in {"asking", "starting"} : Action!Goes(r, p)
    BY <1>2 DEF Action!Admit
  <2>2. record' = [record EXCEPT ![r] = "read-write"]
        /\ UNCHANGED <<launched, launcher, demoted>>
    BY <1>2 DEF Action!Admit, Action!Given
  <2>3. p \in Action!Live /\ p # "queued" /\ p # "telling" /\ p # "releasing" /\ p \in Holding
    BY DEF Action!Live, Holding
  <2>4. record \in [Action!Holders -> {"absent", "read-only", "read-write"}]
        /\ demoted \in [Action!Runs -> Clients \cup {none}] /\ r \in Action!Holders
    BY Named DEF RunsInv, RunsShape
  <2>5. record' \in [Action!Holders -> {"absent", "read-only", "read-write"}]
        /\ \A q \in Action!Runs : q # r => record'[q] = record[q]
    BY <2>2, <2>4, Named
  <2> QED
    BY <1>1, <2>1, <2>2, <2>3, <2>4, <2>5, GoesOn
<1>3. CASE ~Action!LocalFree(r)
  <2>1. Action!Ends(r, "failed")
    BY <1>3 DEF Action!Admit
  <2> QED
    BY <1>1, <2>1, EndGives DEF Regained, Claimed
<1> QED
  BY <1>2, <1>3

LEMMA SetAsideGives ==
  ASSUME RunsInv, NEW r \in Action!Runs, pc[r] \in {"queued", "releasing"}, Action!SetAside(r)
  PROVE  RunsInv' /\ Regained(r)
<1>1. /\ pc[r] \in Action!Live /\ "notifying" \in Action!Live /\ launcher[r] \in Clients
      /\ record \in [Action!Holders -> {"absent", "read-only", "read-write"}]
      /\ demoted \in [Action!Runs -> Clients \cup {none}] /\ record[r] = "absent"
  BY DEF Action!Live, RunsInv, RunsShape, OneRun, Holding
<1>2. PICK c \in Clients : c = launcher[r]
  BY <1>1
<1>3. /\ \E v \in {"absent", "read-only"} : record' = [record EXCEPT ![c] = v]
      /\ demoted' = [demoted EXCEPT ![r] = c] /\ UNCHANGED <<launched, launcher>>
      /\ Action!Goes(r, "notifying")
  BY <1>2 DEF Action!SetAside
<1>4. /\ record' \in [Action!Holders -> {"absent", "read-only", "read-write"}]
      /\ \A q \in Action!Runs : record'[q] = record[q]
  BY <1>1, <1>3, Named
<1>5. demoted' \in [Action!Runs -> Clients \cup {none}]
  BY <1>1, <1>3
<1> QED
  BY <1>1, <1>3, <1>4, <1>5, GoesOn

LEMMA Unmoved ==
  ASSUME RunsInv, NEW r \in Action!Runs, pc[r] \in Action!Live,
         NEW p \in Action!Live \cup {"dead"}, Action!Goes(r, p), p # "queued", p # "telling",
         p = "releasing" => pc[r] = "queued", p \in Holding \/ pc[r] \notin Holding,
         UNCHANGED <<record, launched, launcher, demoted>>
  PROVE  RunsInv' /\ Regained(r)
<1>1. /\ record' \in [Action!Holders -> {"absent", "read-only", "read-write"}]
      /\ demoted' \in [Action!Runs -> Clients \cup {none}]
      /\ p \in Holding \/ record'[r] = "absent"
      /\ \A q \in Action!Runs : record'[q] = record[q]
  BY DEF RunsInv, RunsShape, OneRun
<1> QED
  BY <1>1, GoesOn

LEMMA AttachGives ==
  ASSUME RunsInv, NEW r \in Action!Runs, Action!Attach(r)
  PROVE  RunsInv' /\ Regained(r)
<1>1. pc[r] = "queued" /\ pc[r] \in Action!Live /\ "releasing" \in Action!Live
  BY DEF Action!Attach, Action!At, Action!Live
<1>2. \/ Action!Ends(r, "failed") \/ Action!Admit(r) \/ Action!SetAside(r)
      \/ /\ Action!Goes(r, "releasing") /\ UNCHANGED <<record, launched, launcher, demoted>>
  BY DEF Action!Attach
<1>3. CASE Action!Goes(r, "releasing") /\ UNCHANGED <<record, launched, launcher, demoted>>
  BY <1>1, <1>3, Unmoved DEF Holding
<1>4. CASE Action!Ends(r, "failed")
  BY <1>1, <1>4, EndGives DEF Regained, Claimed
<1> QED
  BY <1>1, <1>2, <1>3, <1>4, AdmitGives, SetAsideGives

LEMMA RegrantedGives ==
  ASSUME RunsInv, NEW r \in Action!Runs, Action!Regranted(r)
  PROVE  RunsInv' /\ Regained(r)
<1>1. /\ pc[r] = "regranting" /\ pc[r] \in Action!Live /\ record[r] = "absent"
      /\ UNCHANGED <<launched, launcher, demoted>>
      /\ record \in [Action!Holders -> {"absent", "read-only", "read-write"}]
      /\ demoted \in [Action!Runs -> Clients \cup {none}]
  BY DEF Action!Regranted, Action!At, Action!Live, RunsInv, RunsShape, OneRun, Holding
<1>2. PICK d : d = demoted[r] /\ d \in Clients \cup {none}
  BY <1>1
<1>3. \/ Action!Goes(r, "unheard") /\ UNCHANGED record
      \/ /\ Action!Goes(r, "telling")
         /\ \/ record' = record
            \/ record' = [record EXCEPT ![d] = "read-write"] /\ record[d] # "absent"
         /\ \/ origin' = d /\ record[d] # "absent"
            \/ (record[d] = "absent" \/ ~Action!OriginFree(d)) /\ origin' = origin
  BY <1>2 DEF Action!Regranted, Action!Given
<1>4. CASE Action!Goes(r, "unheard") /\ UNCHANGED record
  BY <1>1, <1>4, Unmoved DEF Holding, Action!Live
<1>5. CASE ~(Action!Goes(r, "unheard") /\ UNCHANGED record)
  <2>1. pc' = [pc EXCEPT ![r] = "telling"] /\ "telling" \in Action!Live
    BY <1>3, <1>5 DEF Action!Goes, Action!Live
  <2>2. /\ record' \in [Action!Holders -> {"absent", "read-only", "read-write"}]
        /\ \A q \in Action!Runs : record'[q] = record[q]
    <3>1. CASE record' = record
      BY <1>1, <3>1
    <3>2. CASE record' = [record EXCEPT ![d] = "read-write"] /\ record[d] # "absent"
      <4>1. CASE d \in Clients
        BY <1>1, <3>2, <4>1, Named
      <4>2. CASE d = none
        <5>1. d \notin Action!Holders
          BY <4>2, Named DEF Action!Holders
        <5>2. record' = [x \in Action!Holders |-> record[x]]
          BY <1>1, <3>2, <5>1
        <5> QED
          BY <1>1, <5>2, Named
      <4> QED
        BY <1>2, <4>1, <4>2
    <3> QED
      BY <1>3, <1>5, <3>1, <3>2
  <2>3. RunsInv'
    BY <1>1, <2>1, <2>2, RunMoves
  <2>4. Regained(r)
    <3>1. ASSUME d # none, record[d] # "absent" PROVE origin' # none
      BY <1>3, <1>5, <3>1 DEF Action!OriginFree
    <3> QED
      BY <1>2, <3>1 DEF Regained, Claimed
  <2> QED
    BY <2>3, <2>4
<1> QED
  BY <1>4, <1>5

LEMMA RunnerGives ==
  ASSUME RunsInv, NEW r \in Action!Runs,
         Action!Runner(r) \/ \E c \in Clients : Action!Cancel(c, r)
  PROVE  RunsInv' /\ Regained(r)
<1> USE DEF Action!At
<1>1. CASE Action!Attach(r)
  BY <1>1, AttachGives
<1>2. CASE Action!ReleaseDone(r)
  BY <1>2, SetAsideGives DEF Action!ReleaseDone
<1>3. CASE Action!AttachAgain(r)
  BY <1>3, AdmitGives DEF Action!AttachAgain
<1>4. CASE Action!Asked(r)
  <2>1. pc[r] = "asking" /\ pc[r] \in Action!Live
    BY <1>4 DEF Action!Asked, Action!Live
  <2>2. CASE Action!Ends(r, "failed")
    BY <2>1, <2>2, EndGives DEF Regained, Claimed
  <2>3. CASE Action!Goes(r, "starting") /\ UNCHANGED <<record, launched, launcher, demoted>>
    BY <2>1, <2>3, Unmoved DEF Holding, Action!Live
  <2> QED
    BY <1>4, <2>2, <2>3 DEF Action!Asked
<1>5. CASE Action!Started(r)
  <2>1. pc[r] = "starting" /\ Action!Goes(r, "script")
        /\ UNCHANGED <<record, launched, launcher, demoted>>
    BY <1>5 DEF Action!Started
  <2> QED
    BY <2>1, Unmoved DEF Holding, Action!Live
<1>6. CASE Action!ScriptEnds(r)
  <2>1. pc[r] \in Action!Live
    BY <1>6 DEF Action!ScriptEnds, Action!Live
  <2> QED
    BY <1>6, <2>1, EndGives DEF Regained, Claimed, Action!ScriptEnds
<1>7. CASE Action!Regranted(r)
  BY <1>7, RegrantedGives
<1>8. CASE Action!Finish(r)
  <2>1. /\ pc[r] \in {"telling", "unheard"} /\ pc' = [pc EXCEPT ![r] = "ended"]
        /\ UNCHANGED <<record, launcher, demoted>>
    BY <1>8 DEF Action!Finish, Action!Released
  <2>2. pc[r] \in Action!Live /\ record[r] = "absent"
    BY <2>1 DEF Action!Live, RunsInv, OneRun, Holding
  <2>3. /\ record' \in [Action!Holders -> {"absent", "read-only", "read-write"}]
        /\ demoted' \in [Action!Runs -> Clients \cup {none}] /\ record'[r] = "absent"
        /\ \A q \in Action!Runs : record'[q] = record[q]
    BY <2>1, <2>2 DEF RunsInv, RunsShape
  <2>4. RunsInv'
    BY <2>1, <2>2, <2>3, RunMoves DEF Action!Live
  <2> QED
    BY <2>1, <2>4 DEF Regained, Claimed
<1>9. CASE \E c \in Clients : Action!Cancel(c, r)
  <2>1. pc[r] \in Action!Live
    BY <1>9 DEF Action!Cancel, Action!Live
  <2>2. CASE Action!Ends(r, "cancelled") \/ Action!Ends(r, "running")
    BY <2>1, <2>2, EndGives DEF Regained, Claimed
  <2>3. CASE /\ pc[r] \in {"regranting", "unheard", "telling"} /\ Action!Goes(r, "dead")
             /\ UNCHANGED <<record, launched, launcher, demoted>>
    BY <2>1, <2>3, Unmoved DEF Holding, Action!Live
  <2> QED
    BY <1>9, <2>2, <2>3 DEF Action!Cancel
<1> QED
  BY <1>1, <1>2, <1>3, <1>4, <1>5, <1>6, <1>7, <1>8, <1>9 DEF Action!Runner

\* What the clients do while the runs go on.
LEMMA OthersKeep ==
  ASSUME RunsInv,
         \/ \E c \in Clients : \/ Action!Join(c) \/ Action!Leave(c) \/ Action!Take(c)
                               \/ Action!Free(c)
                               \/ \E x \in Action!Holders \ {c} : Action!Force(c, x)
                               \/ \E r \in Action!Runs : \/ Action!TakeOver(c, r)
                                                         \/ Action!Close(c, r)
         \/ Action!Elsewhere \/ UNCHANGED Action!vars
  PROVE  RunsInv' /\ UNCHANGED pc
<1> USE DEF Action!runVars
<1>1. record \in [Action!Holders -> {"absent", "read-only", "read-write"}]
      /\ demoted \in [Action!Runs -> Clients \cup {none}]
  BY DEF RunsInv, RunsShape
<1>2. ASSUME NEW c \in Clients, NEW v \in {"absent", "read-only", "read-write"},
             record' = [record EXCEPT ![c] = v]
      PROVE  /\ record' \in [Action!Holders -> {"absent", "read-only", "read-write"}]
             /\ \A r \in Action!Runs : record'[r] = record[r]
  BY <1>1, <1>2, Named
<1>3. CASE \E c \in Clients : \/ Action!Join(c) \/ Action!Leave(c) \/ Action!Take(c)
                              \/ Action!Free(c)
  <2>1. PICK c \in Clients, v \in {"absent", "read-only", "read-write"} :
          record' = [record EXCEPT ![c] = v] /\ UNCHANGED Action!runVars
    BY <1>3 DEF Action!Join, Action!Leave, Action!Take, Action!Free, Action!Given
  <2> QED
    BY <1>1, <1>2, <2>1, ClientsMove
<1>4. CASE \E c \in Clients : \E x \in Action!Holders \ {c} : Action!Force(c, x)
  <2>1. PICK c \in Clients : \E x \in Action!Holders \ {c} : Action!Force(c, x)
    BY <1>4
  <2> PICK x \in Action!Holders \ {c} : Action!Force(c, x)
    BY <2>1
  <2>2. /\ record[x] = "read-write" /\ UNCHANGED Action!runVars
        /\ record' = [record EXCEPT ![c] = "read-write", ![x] = "read-only"]
    BY DEF Action!Force
  <2>3. /\ record' \in [Action!Holders -> {"absent", "read-only", "read-write"}]
        /\ \A r \in Action!Runs : record[r] = "absent" => record'[r] = "absent"
    BY <1>1, <2>2, Named
  <2> QED
    BY <1>1, <2>2, <2>3, ClientsMove
<1>5. CASE \E c \in Clients, r \in Action!Runs : Action!TakeOver(c, r)
  <2>1. PICK c \in Clients, r \in Action!Runs :
           /\ demoted' = [demoted EXCEPT ![r] = c] \/ demoted' = demoted
           /\ UNCHANGED <<record, pc, launched, launcher>>
    BY <1>5 DEF Action!TakeOver, Action!Operates
  <2>2. demoted' \in [Action!Runs -> Clients \cup {none}]
    BY <1>1, <2>1
  <2> QED
    BY <1>1, <2>1, <2>2, ClientsMove
<1>6. CASE \E c \in Clients, r \in Action!Runs : Action!Close(c, r)
  BY <1>1, <1>6, ClientsMove DEF Action!Close
<1>7. CASE Action!Elsewhere
  <2>1. /\ record' \in [Action!Holders -> {"absent", "read-only", "read-write"}]
        /\ \A r \in Action!Runs : record[r] = "absent" => record'[r] = "absent"
    BY <1>1, <1>7, Named DEF Action!Elsewhere
  <2>2. UNCHANGED Action!runVars
    BY <1>7 DEF Action!Elsewhere
  <2> QED
    BY <1>1, <2>1, <2>2, ClientsMove
<1>8. CASE UNCHANGED Action!vars
  BY <1>1, <1>8, ClientsMove DEF Action!vars
<1> QED
  BY <1>3, <1>4, <1>5, <1>6, <1>7, <1>8

\* A launch finds no run at work.
LEMMA LaunchGives ==
  ASSUME RunsInv, NEW c \in Clients, NEW r \in Action!Runs, Action!Launch(c, r)
  PROVE  RunsInv' /\ \A q \in Action!Runs : Regained(q)
<1>1. /\ launched = none /\ launched' = r /\ pc[r] = "idle"
      /\ pc' = [pc EXCEPT ![r] = "queued"] /\ launcher' = [launcher EXCEPT ![r] = c]
      /\ UNCHANGED <<record, demoted>>
  BY DEF Action!Launch, Action!Start
<1>2. RunsShape'
  BY <1>1 DEF RunsInv, RunsShape, Action!Live
<1>3. \A q \in Action!Runs : pc[q] \notin Action!Live \cup {"dead"}
  BY <1>1, Named DEF RunsInv, OneRun
<1>4. /\ pc'[r] = "queued" /\ launcher'[r] = c
      /\ \A q \in Action!Runs : q # r => pc'[q] = pc[q]
  BY <1>1 DEF RunsInv, RunsShape
<1>5. record[r] = "absent" /\ "releasing" \in Action!Live /\ "queued" \in Action!Live
  BY <1>1 DEF RunsInv, OneRun, Holding, Action!Live
<1>6. OneRun'
  BY <1>1, <1>3, <1>4, <1>5 DEF RunsInv, OneRun, Holding
<1>7. \A q \in Action!Runs : ~Claimed(q)
  BY <1>3 DEF Claimed
<1> QED
  BY <1>2, <1>6, <1>7 DEF RunsInv, Regained

LEMMA ActionStep ==
  ASSUME RunsInv, [Action!Next]_Action!vars
  PROVE  RunsInv' /\ \A q \in Action!Runs : Regained(q)
<1>1. CASE \E r \in Action!Runs : Action!Runner(r) \/ \E c \in Clients : Action!Cancel(c, r)
  <2>1. PICK r \in Action!Runs : Action!Runner(r) \/ \E c \in Clients : Action!Cancel(c, r)
    BY <1>1
  <2>2. RunsInv' /\ Regained(r)
    BY <2>1, RunnerGives
  <2>3. pc[r] \in Action!Live
    BY <2>1 DEF Action!Runner, Action!Attach, Action!ReleaseDone, Action!AttachAgain,
                Action!Asked, Action!Started, Action!ScriptEnds, Action!Regranted,
                Action!Finish, Action!Cancel, Action!At, Action!Live
  <2>4. ASSUME NEW q \in Action!Runs, q # r PROVE Regained(q)
    BY <2>3, <2>4 DEF Regained, Claimed, RunsInv, OneRun
  <2> QED
    BY <2>2, <2>4
<1>2. CASE \E c \in Clients, r \in Action!Runs : Action!Launch(c, r)
  BY <1>2, LaunchGives
<1>3. CASE \/ \E c \in Clients : \/ Action!Join(c) \/ Action!Leave(c) \/ Action!Take(c)
                                 \/ Action!Free(c)
                                 \/ \E x \in Action!Holders \ {c} : Action!Force(c, x)
                                 \/ \E r \in Action!Runs : \/ Action!TakeOver(c, r)
                                                           \/ Action!Close(c, r)
           \/ Action!Elsewhere \/ UNCHANGED Action!vars
  <2>1. RunsInv' /\ UNCHANGED pc
    BY <1>3, OthersKeep
  <2> QED
    BY <2>1 DEF Regained, Claimed, Action!Live
<1> QED
  BY <1>1, <1>2, <1>3 DEF Action!Next

(* _detach_and_restore, for any clients, runs and cancellations, on a port *)
(* of one's own and on a federated one: when a run is over and whoever was *)
(* set aside for it, or took its place, is still attached, somebody drives *)
(* or the origin's slot is not free, unless the origin never heard.        *)
THEOREM SlotIsGivenBack == Action!Spec => SlotComesBack
<1>1. RunsInv /\ [Action!Next]_Action!vars => RunsInv'
  BY ActionStep
<1>2. RunsInv /\ [Action!Next]_Action!vars =>
        [\A r \in Action!Runs :
            /\ pc[r] \in Action!Live \ {"unheard", "telling"} /\ pc'[r] \in {"telling", "ended"}
            /\ demoted[r] # none /\ record[demoted[r]] # "absent"
            => origin' # none \/ \E c \in Clients : record'[c] = "read-write"]_Action!vars
  BY ActionStep DEF Regained, Claimed
<1>3. Action!Spec =>
        [][\A r \in Action!Runs :
              /\ pc[r] \in Action!Live \ {"unheard", "telling"} /\ pc'[r] \in {"telling", "ended"}
              /\ demoted[r] # none /\ record[demoted[r]] # "absent"
              => origin' # none \/ \E c \in Clients : record'[c] = "read-write"]_Action!vars
  BY RunsBegin, <1>1, <1>2, PTL DEF Action!Spec
<1> QED
  BY <1>3 DEF SlotComesBack, Action!SlotComesBack
-----------------------------------------------------------------------------
(* Start, reload and shutdown of the server *)

OpKinds == {"idle", "boot", "soft", "full", "shutdown"}
Stages == {Server!None, "auth", "apply", "stop", "stopped", "start", "late"}
Objects == [name : Names \cup {Server!None}, entry : Server!Entries,
            state : {"unborn", "starting", "up", "gone"}]
Ops == [kind : OpKinds, at : Stages, of : Server!Adapters \cup {0},
        cfg : [Names -> Server!Entries], kill : SUBSET Names, make : SUBSET Names,
        busy : Names \cup {Server!None}, obj : Server!Objs \cup {0}, own : BOOLEAN,
        late : Server!Adapters \cup {0}, carried : BOOLEAN]

PortShapes ==
  /\ file \in [Names -> Server!Entries] /\ loaded \in [Names -> Server!Entries]
  /\ objs \in [Server!Objs -> Objects]
  /\ ports \in [Server!Adapters -> [Names -> Server!Objs \cup {0}]]
  /\ pm \in [Names -> Server!Objs \cup {0}]
  /\ gaps \in [Server!Adapters -> SUBSET Names]
  /\ unified \in Server!Adapters \cup {0}

WebShapes ==
  /\ console \in Server!Adapters \cup {0}
  /\ web \in [Server!Adapters -> {"unborn", "made", "up", "down"}]
  /\ sessions \in [Server!Adapters -> BOOLEAN]
  /\ browser \in BOOLEAN

(* Where an operation of each kind can be, and what it has left to do      *)
(* there.                                                                  *)
OpFits(o) ==
  /\ \/ o.kind = "idle" /\ o.at = Server!None
     \/ o.kind = "boot" /\ o.at = "start"
     \/ o.kind = "soft" /\ o.at \in {"auth", "apply"}
     \/ o.kind = "full" /\ o.at \in {"stop", "stopped", "start", "late"}
     \/ o.kind = "shutdown" /\ o.at \in {"stop", "stopped"}
  /\ o.busy # Server!None => o.obj # 0 /\ o.at \in {"apply", "stop", "start"}
  /\ o.at \in {Server!None, "auth", "stopped", "late"} => o.kill = {} /\ o.make = {}
  /\ o.at = "stop" => o.make = {}
  /\ o.at = "start" => o.kill = {}
  /\ o.at \in {"apply", "stop", "start", "late"} => o.of # 0
  /\ o.at \in {"auth", "apply", "stop"} \/ o.kind = "boot" => o.late = 0
  /\ o.at = "late" => o.late # 0

TasksFit == task \in [Tasks -> Ops] /\ \A t \in Tasks : OpFits(task[t])

(* The object that runs under a name.                                      *)
Held(n) == IF unified = 0 THEN 0 ELSE ports[unified][n]

(* Every object that is up is in the one dictionary that is not empty.     *)
Books ==
  /\ \A i \in Server!Adapters : i # unified => \A n \in Names : ports[i][n] = 0
  /\ \A p \in Server!Objs : objs[p].state = "up" =>
       objs[p].name \in Names /\ Held(objs[p].name) = p
  /\ \A n \in Names :
       Held(n) # 0 => objs[Held(n)].state = "up" /\ objs[Held(n)].name = n

AsAsked(n) ==
  IF Held(n) = 0 THEN loaded[n] = "none" \/ n \in gaps[unified]
  ELSE objs[Held(n)].entry = loaded[n] \/ (loaded[n] = "bad" /\ n \in gaps[unified])

(* The port an operation is at: being stopped, or being started.           *)
Stops(o) ==
  /\ objs[o.obj].state = "up" /\ o.at \in {"apply", "stop"}
  /\ Held(o.busy) = o.obj /\ o.busy \notin o.kill
Starts(o) ==
  /\ objs[o.obj].state = "starting" /\ o.at \in {"apply", "start"} /\ o.kill = {}
  /\ Held(o.busy) = 0 /\ o.busy \notin o.make
  /\ objs[o.obj].name = o.busy /\ objs[o.obj].entry = o.cfg[o.busy]
  /\ o.cfg[o.busy] \in Server!Good

(* What is not as it should be, the operation has yet to stop or to make.  *)
OnWay(o) ==
  /\ o.at # "auth" => o.of = unified
  /\ \A n \in Names : pm[n] = IF n = o.busy THEN 0 ELSE Held(n)
  /\ o.busy # Server!None => Stops(o) \/ Starts(o)
  /\ \A n \in o.kill : Held(n) # 0
  /\ o.at \in {"auth", "apply", "start", "late"} => loaded = o.cfg
  /\ o.at \in {"apply", "start"} =>
       /\ \A n \in o.make :
            o.cfg[n] \in Server!Good /\ (Held(n) = 0 \/ n \in o.kill \/ n = o.busy)
       /\ \A n \in Names : n \in o.make \/ n \in o.kill \/ n = o.busy \/ AsAsked(n)
       /\ \A n \in Names : n \in o.kill \/ (n = o.busy /\ Held(n) # 0) =>
                             n \in o.make \/ o.cfg[n] = "none"
  /\ o.at = "stop" => \A n \in Names : Held(n) = 0 \/ n \in o.kill \/ n = o.busy
  /\ o.at = "stopped" => \A n \in Names : Held(n) = 0
  /\ o.at = "late" => \A n \in Names : AsAsked(n)

AtRest == \A n \in Names : pm[n] = Held(n) /\ (unified # 0 => AsAsked(n))

Alone ==
  "overlap" \notin overlaps =>
      \A s, t \in Tasks : Server!Busy(s) /\ Server!Busy(t) => s = t

PortsFit ==
  overlaps \cap {"overlap", "limit"} = {} /\ ~halted =>
     /\ Books
     /\ \A t \in Tasks : Server!Busy(t) => OnWay(task[t])
     /\ Server!Settled => AtRest

(* The console the browser talks to, at each stage of an operation.        *)
Answers == web[console] = "up" /\ sessions[console] = browser
Takes == web[console] = "made" /\ sessions[console] = browser
OnlyUp(S) == \A j \in Server!Adapters : web[j] = "up" => j \in S
Served == Answers /\ OnlyUp({console})
Signed(o) ==
  /\ o.kind = "boot" => Takes /\ OnlyUp({}) /\ o.of = console
  /\ o.kind = "soft" => Served
  /\ o.at = "stop" => Served /\ o.of = console
  /\ o.kind = "full" /\ o.at \in {"stop", "stopped"} => o.carried = browser
  /\ o.kind = "full" /\ o.at = "stopped" =>
       IF o.late = 0 THEN OnlyUp({}) ELSE o.late = console /\ Served
  /\ o.kind = "full" /\ o.at \in {"start", "late"} =>
       Takes /\ o.of = console /\ o.late # console /\ OnlyUp({o.late})

WebFits ==
  overlaps \cap {"overlap", "sign", "failed"} = {} /\ ~halted =>
     /\ console # 0 /\ unified = console
     /\ \A t \in Tasks : Server!Busy(t) => Signed(task[t])
     /\ Server!Settled => Served

ReloadInv == PortShapes /\ WebShapes /\ TasksFit /\ Alone /\ PortsFit /\ WebFits
-----------------------------------------------------------------------------
(* What a step of one operation comes to *)

(* An operation moves, and the others stay.                                *)
LEMMA Moved ==
  ASSUME TasksFit, NEW t \in Tasks, NEW o \in Ops, OpFits(o), Server!Goes(t, o)
  PROVE  /\ TasksFit' /\ task'[t] = o
         /\ \A s \in Tasks : s # t => task'[s] = task[s]
  BY DEF TasksFit, Server!Goes, OpFits

LEMMA IdleFits == Server!Idle \in Ops /\ OpFits(Server!Idle)
  BY ReloadAssumption DEF Server!Idle, Ops, OpFits, OpKinds, Stages, Server!None,
     Server!Entries

(* Operations in progress do not become more, unless one begins, and that  *)
(* one is alone or the overlap is recorded.                                *)
LEMMA AloneKept ==
  ASSUME Alone, NEW t \in Tasks, overlaps \subseteq overlaps',
         \A s \in Tasks : s # t => task'[s] = task[s],
         \/ Server!Busy(t)
         \/ "overlap" \in overlaps'
         \/ \A s \in Tasks : ~Server!Busy(s)
  PROVE  /\ Alone'
         /\ "overlap" \notin overlaps' =>
              \A s \in Tasks : s # t => ~Server!Busy(s) /\ ~Server!Busy(s)'
  BY DEF Alone, Server!Busy

(* What has to be shown of the operation that moved, for the ports ...     *)
LEMMA PortsFollow ==
  ASSUME TasksFit, Alone, PortsFit, NEW t \in Tasks, overlaps \subseteq overlaps', ~halted,
         \A s \in Tasks : s # t => task'[s] = task[s],
         \/ Server!Busy(t)
         \/ "overlap" \in overlaps'
         \/ \A s \in Tasks : ~Server!Busy(s),
         /\ overlaps' \cap {"overlap", "limit"} = {}
         /\ Books
         /\ Server!Busy(t) => OnWay(task[t])
         /\ ~Server!Busy(t) => AtRest
         => /\ Books'
            /\ Server!Busy(t)' => OnWay(task[t])'
            /\ ~Server!Busy(t)' => AtRest'
  PROVE  PortsFit'
<1> SUFFICES ASSUME overlaps' \cap {"overlap", "limit"} = {}
             PROVE  /\ Books'
                    /\ \A s \in Tasks : Server!Busy(s)' => OnWay(task[s])'
                    /\ Server!Settled' => AtRest'
  BY DEF PortsFit
<1>1. overlaps \cap {"overlap", "limit"} = {} /\ "overlap" \notin overlaps'
  OBVIOUS
<1>2. \A s \in Tasks : s # t => ~Server!Busy(s) /\ ~Server!Busy(s)'
  BY <1>1, AloneKept
<1>3. Books /\ (Server!Busy(t) => OnWay(task[t])) /\ (~Server!Busy(t) => AtRest)
  BY <1>1, <1>2 DEF PortsFit, Server!Settled
<1>4. /\ Books'
      /\ Server!Busy(t)' => OnWay(task[t])'
      /\ ~Server!Busy(t)' => AtRest'
  BY <1>3
<1>5. Server!Settled' => AtRest'
  BY <1>4 DEF Server!Settled
<1> QED
  BY <1>2, <1>4, <1>5

(* ... and for the web console.                                            *)
LEMMA WebFollows ==
  ASSUME TasksFit, Alone, WebFits, NEW t \in Tasks, overlaps \subseteq overlaps', ~halted,
         \A s \in Tasks : s # t => task'[s] = task[s],
         \/ Server!Busy(t)
         \/ "overlap" \in overlaps'
         \/ \A s \in Tasks : ~Server!Busy(s),
         /\ overlaps' \cap {"overlap", "sign", "failed"} = {}
         /\ console # 0 /\ unified = console
         /\ Server!Busy(t) => Signed(task[t])
         /\ ~Server!Busy(t) => Served
         => /\ console' # 0 /\ unified' = console'
            /\ Server!Busy(t)' => Signed(task[t])'
            /\ ~Server!Busy(t)' => Served'
  PROVE  WebFits'
<1> SUFFICES ASSUME overlaps' \cap {"overlap", "sign", "failed"} = {}
             PROVE  /\ console' # 0 /\ unified' = console'
                    /\ \A s \in Tasks : Server!Busy(s)' => Signed(task[s])'
                    /\ Server!Settled' => Served'
  BY DEF WebFits
<1>1. overlaps \cap {"overlap", "sign", "failed"} = {} /\ "overlap" \notin overlaps'
  OBVIOUS
<1>2. \A s \in Tasks : s # t => ~Server!Busy(s) /\ ~Server!Busy(s)'
  BY <1>1, AloneKept
<1>3. /\ console # 0 /\ unified = console
      /\ Server!Busy(t) => Signed(task[t])
      /\ ~Server!Busy(t) => Served
  BY <1>1, <1>2 DEF WebFits, Server!Settled
<1>4. /\ console' # 0 /\ unified' = console'
      /\ Server!Busy(t)' => Signed(task[t])'
      /\ ~Server!Busy(t)' => Served'
  BY <1>3
<1>5. Server!Settled' => Served'
  BY <1>4 DEF Server!Settled
<1> QED
  BY <1>2, <1>4, <1>5

(* Whatever leaves the ports and their operations as they are.             *)
LEMMA PortsRest ==
  ASSUME PortsFit, overlaps \subseteq overlaps',
         UNCHANGED <<loaded, objs, ports, pm, gaps, unified, task, halted>>
  PROVE  PortsFit'
  BY DEF PortsFit, Books, OnWay, AtRest, AsAsked, Stops, Starts, Held, Server!Settled,
         Server!Busy

LEMMA WebRests ==
  ASSUME WebFits, overlaps \subseteq overlaps',
         UNCHANGED <<unified, console, web, sessions, task, browser, halted>>
  PROVE  WebFits'
  BY DEF WebFits, Signed, Served, Answers, Takes, OnlyUp, Server!Settled, Server!Busy

LEMMA LeastOf ==
  ASSUME NEW N \in Nat, NEW S, S \subseteq 1..N, S # {}
  PROVE  \E x \in S : \A y \in S : x <= y
<1>1. IsWellFoundedOn(OpToRel(<, Nat), Nat)
  BY NatLessThanWellFounded
<1>2. S \subseteq Nat
  OBVIOUS
<1>3. PICK x \in S : \A y \in S : ~(<<y, x>> \in OpToRel(<, Nat))
  BY <1>1, <1>2, WFMin
<1>4. ASSUME NEW y \in S PROVE x <= y
  <2>1. y < x => <<y, x>> \in OpToRel(<, Nat)
    BY <1>2 DEF OpToRel
  <2>2. ~(y < x)
    BY <2>1, <1>3
  <2>3. x \in Nat /\ y \in Nat
    BY <1>2
  <2> QED
    BY <2>2, <2>3
<1> QED
  BY <1>4

LEMMA NewObjFits ==
  ASSUME \E p \in Server!Objs : objs[p].state = "unborn"
  PROVE  Server!NewObj \in Server!Objs /\ objs[Server!NewObj].state = "unborn"
<1> DEFINE S == {p \in Server!Objs : objs[p].state = "unborn"}
<1>1. \E x \in S : \A y \in S : x <= y
  <2>1. S \subseteq 1..MaxObjs /\ S # {}
    BY DEF Server!Objs
  <2> QED
    BY <2>1, LeastOf, ReloadAssumption
<1>2. \E p \in Server!Objs : /\ objs[p].state = "unborn"
                             /\ \A y \in Server!Objs : objs[y].state = "unborn" => p <= y
  BY <1>1
<1> QED
  BY <1>2 DEF Server!NewObj

LEMMA NewAdapterFits ==
  ASSUME Server!CanBuild
  PROVE  Server!NewAdapter \in Server!Adapters /\ web[Server!NewAdapter] = "unborn"
<1> DEFINE S == {i \in Server!Adapters : web[i] = "unborn"}
<1>1. \E x \in S : \A y \in S : x <= y
  <2>1. S \subseteq 1..MaxAdapters /\ S # {}
    BY DEF Server!Adapters, Server!CanBuild
  <2> QED
    BY <2>1, LeastOf, ReloadAssumption
<1>2. \E i \in Server!Adapters : /\ web[i] = "unborn"
                                 /\ \A y \in Server!Adapters : web[y] = "unborn" => i <= y
  BY <1>1
<1> QED
  BY <1>2 DEF Server!NewAdapter
-----------------------------------------------------------------------------
(* Each step keeps the invariant *)

(* start(): what the file asks for is to be started, or is a gap.          *)
LEMMA StartFits == Server!Init => ReloadInv
<1> SUFFICES ASSUME Server!Init PROVE ReloadInv
  OBVIOUS
<1> DEFINE b == CHOOSE s \in Tasks : TRUE
           o == [Server!Idle EXCEPT !.kind = "boot", !.at = "start", !.of = 1,
                                    !.cfg = file, !.make = Server!Usable(file)]
<1>1. /\ b \in Tasks /\ 0 \notin Server!Adapters /\ 1 \in Server!Adapters
      /\ 0 \notin Server!Objs
  BY ReloadAssumption DEF Server!Adapters, Server!Objs
<1>2. task = [t \in Tasks |-> IF t = b THEN o ELSE Server!Idle]
  BY DEF Server!Init
<1>3. /\ o.kind = "boot" /\ o.at = "start" /\ o.of = 1 /\ o.cfg = file /\ o.kill = {}
      /\ o.make = Server!Usable(file) /\ o.busy = Server!None /\ o.late = 0
  BY DEF Server!Idle
<1>4. file \in [Names -> Server!Entries] /\ loaded = file
  BY DEF Server!Init
<1>5. o \in Ops /\ OpFits(o)
  <2>1. Server!Usable(file) \subseteq Names
    BY DEF Server!Usable
  <2>2. o \in Ops
    BY <1>1, <1>4, <2>1, IdleFits DEF Ops, OpKinds, Stages
  <2> QED
    BY <2>2, <1>3 DEF OpFits, Server!None
<1>6. TasksFit
  BY <1>2, <1>5, IdleFits DEF TasksFit
<1>7. PortShapes
  BY <1>1 DEF Server!Init, PortShapes, Objects, Server!Rejected, Server!Entries
<1>8. WebShapes
  BY <1>1 DEF Server!Init, WebShapes
<1>9. /\ Server!Busy(b) /\ task[b] = o
      /\ \A s \in Tasks : s # b => ~Server!Busy(s)
  BY <1>1, <1>2, <1>3 DEF Server!Busy, Server!Idle
<1>10. \A n \in Names : Held(n) = 0 /\ pm[n] = 0 /\ n # Server!None
  BY <1>1, ReloadAssumption DEF Server!Init, Held
<1>11. Books
  BY <1>10 DEF Books, Server!Init
<1>12. OnWay(o)
  <2>1. \A n \in Names : n \in Server!Usable(file) \/ AsAsked(n)
    <3> SUFFICES ASSUME NEW n \in Names, n \notin Server!Usable(file) PROVE AsAsked(n)
      OBVIOUS
    <3>1. file[n] = "none" \/ file[n] = "bad"
      BY <1>4 DEF Server!Usable, Server!Entries
    <3>2. unified = 1 /\ gaps[1] = Server!Rejected(file)
      BY <1>1 DEF Server!Init
    <3> QED
      BY <1>4, <1>10, <3>1, <3>2 DEF AsAsked, Server!Rejected
  <2>2. unified = 1
    BY DEF Server!Init
  <2> QED
    BY <1>3, <1>4, <1>10, <2>1, <2>2 DEF OnWay, Server!Usable, Server!None
<1>13. Alone /\ PortsFit
  BY <1>1, <1>9, <1>11, <1>12 DEF Alone, PortsFit, Server!Settled
<1>14. Signed(o)
  BY <1>1, <1>3 DEF Server!Init, Signed, Takes, OnlyUp
<1>15. WebFits
  BY <1>1, <1>9, <1>14 DEF Server!Init, WebFits, Server!Settled
<1> QED
  BY <1>6, <1>7, <1>8, <1>13, <1>15 DEF ReloadInv

(* The file is edited on disk, and nothing reads it.                       *)
LEMMA EditFits ==
  ASSUME ReloadInv, NEW n \in Names, NEW e \in Server!Entries, Server!Edit(n, e)
  PROVE  ReloadInv'
<1>1. PortShapes' /\ WebShapes'
  BY DEF ReloadInv, Server!Edit, PortShapes, WebShapes
<1>2. TasksFit' /\ Alone'
  BY DEF ReloadInv, Server!Edit, TasksFit, OpFits, Alone, Server!Busy
<1>3. PortsFit' /\ WebFits'
  BY PortsRest, WebRests DEF ReloadInv, Server!Edit
<1> QED
  BY <1>1, <1>2, <1>3 DEF ReloadInv

(* The browser signs in to the console that is up, or out of it.           *)
LEMMA SignFits ==
  ASSUME ReloadInv, ~halted, NEW i \in Server!Adapters, Server!Sign(i)
  PROVE  ReloadInv'
<1>1. PortShapes' /\ WebShapes'
  BY DEF ReloadInv, Server!Sign, PortShapes, WebShapes
<1>2. TasksFit' /\ Alone'
  BY DEF ReloadInv, Server!Sign, TasksFit, OpFits, Alone, Server!Busy
<1>3. PortsFit'
  BY PortsRest DEF ReloadInv, Server!Sign
<1>4. WebFits'
  <2> SUFFICES ASSUME overlaps' \cap {"overlap", "sign", "failed"} = {}
               PROVE  /\ console # 0 /\ unified = console
                      /\ \A t \in Tasks : Server!Busy(t) => Signed(task[t])'
                      /\ Server!Settled => Served'
    BY DEF WebFits, Server!Sign, Server!Busy, Server!Settled
  <2>1. /\ overlaps \cap {"overlap", "sign", "failed"} = {}
        /\ \A t \in Tasks : task[t].kind # "full"
    BY DEF Server!Sign
  <2>2. /\ console # 0 /\ unified = console
        /\ \A t \in Tasks : Server!Busy(t) => Signed(task[t])
        /\ Server!Settled => Served
    BY <2>1 DEF ReloadInv, WebFits
  <2>3. OnlyUp({console}) => i = console
    BY DEF OnlyUp, Server!Sign
  <2>4. Served => Served'
    BY <2>3 DEF Served, OnlyUp, Answers, Server!Sign, ReloadInv, WebShapes
  <2>5. OnlyUp({}) => FALSE
    BY DEF OnlyUp, Server!Sign
  <2>6. task' = task /\ console' = console
    BY DEF Server!Sign
  <2>8. ASSUME NEW t \in Tasks, Server!Busy(t) PROVE Signed(task[t])'
    BY <2>1, <2>2, <2>4, <2>5, <2>6, <2>8 DEF Signed
  <2> QED
    BY <2>2, <2>4, <2>8
<1> QED
  BY <1>1, <1>2, <1>3, <1>4 DEF ReloadInv

(* An operation begins while nothing is in progress, or overlaps.          *)
LEMMA BeginFits ==
  ASSUME ReloadInv, ~halted, NEW t \in Tasks, NEW o \in Ops, OpFits(o), o.kind # "idle",
         Server!Begins(t, o), loaded' \in [Names -> Server!Entries],
         UNCHANGED <<file, objs, ports, pm, gaps, unified, console, web, sessions, browser,
                     halted>>,
         AtRest => OnWay(o)',
         unified = console /\ console # 0 /\ Served => Signed(o)
  PROVE  ReloadInv'
<1>1. PortShapes' /\ WebShapes'
  BY DEF ReloadInv, PortShapes, WebShapes
<1>2. /\ TasksFit' /\ task'[t] = o
      /\ \A s \in Tasks : s # t => task'[s] = task[s]
  BY Moved DEF ReloadInv, Server!Begins
<1>3. ~Server!Busy(t) /\ Server!Busy(t)' /\ overlaps \subseteq overlaps'
  BY <1>2 DEF Server!Begins, Server!Busy
<1>4. "overlap" \in overlaps' \/ \A s \in Tasks : ~Server!Busy(s)
  BY DEF Server!Begins
<1>5. Alone'
  BY <1>2, <1>3, <1>4, AloneKept DEF ReloadInv
<1>6. PortsFit'
  <2>1. Books => Books'
    BY DEF Books, Held
  <2> QED
    BY <1>2, <1>3, <1>4, <2>1, PortsFollow DEF ReloadInv
<1>7. WebFits'
  <2>1. Signed(o) => Signed(o)'
    BY DEF Signed, Served, Takes, Answers, OnlyUp
  <2>2. console # 0 /\ unified = console /\ Served
        => /\ console' # 0 /\ unified' = console' /\ Signed(task[t])'
    BY <1>2, <2>1
  <2> QED
    BY <1>2, <1>3, <1>4, <2>2, WebFollows DEF ReloadInv
<1> QED
  BY <1>1, <1>2, <1>5, <1>6, <1>7 DEF ReloadInv

LEMMA SoftBeginFits ==
  ASSUME ReloadInv, ~halted, NEW t \in Tasks, Server!SoftBegins(t)
  PROVE  ReloadInv'
<1> DEFINE op == [Server!Idle EXCEPT !.kind = "soft", !.at = "auth", !.cfg = file]
<1> PICK o : o = op
  OBVIOUS
<1>1. /\ o.kind = "soft" /\ o.at = "auth" /\ o.cfg = file /\ o.kill = {} /\ o.make = {}
      /\ o.busy = Server!None /\ o.late = 0
  BY DEF Server!Idle
<1>2. file \in [Names -> Server!Entries]
  BY DEF ReloadInv, PortShapes
<1>3. o \in Ops
  BY <1>2, IdleFits DEF Ops, OpKinds, Stages
<1>4. OpFits(o)
  BY <1>1 DEF OpFits, Server!None
<1>5. AtRest => OnWay(o)'
  <2>1. \A n \in Names : Held(n)' = Held(n) /\ n # Server!None
    BY ReloadAssumption DEF Held, Server!SoftBegins
  <2>2. loaded' = file /\ pm' = pm
    BY DEF Server!SoftBegins
  <2> QED
    BY <1>1, <2>1, <2>2 DEF OnWay, AtRest
<1>6. Served => Signed(o)
  BY <1>1 DEF Signed
<1>7. /\ Server!Begins(t, o) /\ loaded' = file
      /\ UNCHANGED <<file, objs, ports, pm, gaps, unified, console, web, sessions, browser,
                     halted>>
  BY DEF Server!SoftBegins
<1> QED
  BY <1>1, <1>2, <1>3, <1>4, <1>5, <1>6, <1>7, BeginFits

(* A full reload and a shutdown begin alike: what runs is to be stopped.   *)
LEMMA StopBeginFits ==
  ASSUME ReloadInv, ~halted, NEW t \in Tasks, NEW o \in Ops,
         Server!Begins(t, o),
         UNCHANGED <<file, loaded, objs, ports, pm, gaps, unified, console, web, sessions,
                     browser, halted>>,
         o.kind \in {"full", "shutdown"}, o.of = unified,
         o.at = IF unified = 0 THEN "stopped" ELSE "stop",
         o.kill = IF unified = 0 THEN {} ELSE {n \in Names : ports[unified][n] # 0},
         o.make = {}, o.busy = Server!None, o.late = 0,
         o.kind = "full" => o.carried = (console # 0 /\ sessions[console])
  PROVE  ReloadInv'
<1>1. OpFits(o)
  BY DEF OpFits, Server!None
<1>2. AtRest => OnWay(o)'
  <2>1. \A n \in Names : Held(n)' = Held(n) /\ n # Server!None
    BY ReloadAssumption DEF Held
  <2>2. \A n \in Names : n \in o.kill <=> Held(n) # 0
    BY DEF Held
  <2> QED
    BY <2>1, <2>2 DEF OnWay, AtRest
<1>3. unified = console /\ console # 0 /\ Served => Signed(o)
  <2> SUFFICES ASSUME unified = console, console # 0, Served PROVE Signed(o)
    OBVIOUS
  <2>1. sessions[console] = browser /\ browser \in BOOLEAN
    BY DEF ReloadInv, WebShapes, Served, Answers
  <2>2. (console # 0 /\ sessions[console]) = browser
    BY <2>1
  <2> QED
    BY <2>2 DEF Signed
<1>4. loaded' \in [Names -> Server!Entries]
  BY DEF ReloadInv, PortShapes
<1> QED
  BY <1>1, <1>2, <1>3, <1>4, BeginFits

LEMMA FullBeginFits ==
  ASSUME ReloadInv, ~halted, NEW t \in Tasks,
         Server!ShutdownBegins(t) \/ \E own \in BOOLEAN : Server!FullBegins(t, own)
  PROVE  ReloadInv'
<1>0. PICK at, kill, ss :
        /\ at = IF unified = 0 THEN "stopped" ELSE "stop"
        /\ kill = IF unified = 0 THEN {} ELSE {n \in Names : ports[unified][n] # 0}
        /\ ss = (console # 0 /\ sessions[console])
  OBVIOUS
<1>1. /\ unified \in Server!Adapters \cup {0} /\ kill \in SUBSET Names /\ at \in Stages
      /\ ss \in BOOLEAN
  BY <1>0 DEF ReloadInv, PortShapes, WebShapes, Stages
<1>2. ASSUME NEW own \in BOOLEAN, Server!FullBegins(t, own)
      PROVE  ReloadInv'
  <2> DEFINE o == [Server!Idle EXCEPT !.kind = "full", !.own = own, !.of = unified,
                     !.at = at, !.kill = kill, !.carried = ss]
  <2>1. /\ o.kind = "full" /\ o.at = at /\ o.of = unified /\ o.kill = kill /\ o.make = {}
        /\ o.busy = Server!None /\ o.late = 0 /\ o.carried = ss
    BY DEF Server!Idle
  <2>2. o \in Ops
    BY <1>1, IdleFits DEF Ops, OpKinds
  <2>3. Server!Begins(t, o)
    BY <1>0, <1>2 DEF Server!FullBegins
  <2>4. UNCHANGED <<file, loaded, objs, ports, pm, gaps, unified, console, web, sessions,
                    browser, halted>>
    BY <1>2 DEF Server!FullBegins
  <2> HIDE DEF o
  <2>5. /\ o.at = IF unified = 0 THEN "stopped" ELSE "stop"
        /\ o.kill = IF unified = 0 THEN {} ELSE {n \in Names : ports[unified][n] # 0}
        /\ o.carried = (console # 0 /\ sessions[console])
    BY <1>0, <2>1
  <2> QED
    BY <2>1, <2>2, <2>3, <2>4, <2>5, StopBeginFits
<1>3. ASSUME Server!ShutdownBegins(t) PROVE ReloadInv'
  <2> DEFINE o == [Server!Idle EXCEPT !.kind = "shutdown", !.of = unified,
                     !.at = at, !.kill = kill]
  <2>1. /\ o.kind = "shutdown" /\ o.at = at /\ o.of = unified /\ o.kill = kill
        /\ o.make = {} /\ o.busy = Server!None /\ o.late = 0
    BY DEF Server!Idle
  <2>2. o \in Ops
    BY <1>1, IdleFits DEF Ops, OpKinds
  <2>3. Server!Begins(t, o)
    BY <1>0, <1>3 DEF Server!ShutdownBegins
  <2>4. UNCHANGED <<file, loaded, objs, ports, pm, gaps, unified, console, web, sessions,
                    browser, halted>>
    BY <1>3 DEF Server!ShutdownBegins
  <2> HIDE DEF o
  <2>5. /\ o.at = IF unified = 0 THEN "stopped" ELSE "stop"
        /\ o.kill = IF unified = 0 THEN {} ELSE {n \in Names : ports[unified][n] # 0}
    BY <1>0, <2>1
  <2> QED
    BY <2>1, <2>2, <2>3, <2>4, <2>5, StopBeginFits
<1> QED
  BY <1>2, <1>3

(* An operation goes on at its ports: the web console is left alone.       *)
LEMMA PortStepFits ==
  ASSUME ReloadInv, ~halted, NEW t \in Tasks, Server!Busy(t), NEW o \in Ops, OpFits(o),
         Server!Goes(t, o), o.kind = task[t].kind, o.at = task[t].at, o.of = task[t].of,
         o.late = task[t].late, o.carried = task[t].carried,
         overlaps \subseteq overlaps',
         UNCHANGED <<unified, console, web, sessions, browser, halted>>,
         PortShapes',
         /\ overlaps' \cap {"overlap", "limit"} = {}
         /\ Books /\ OnWay(task[t])
         => Books' /\ OnWay(task[t])'
  PROVE  ReloadInv'
<1>1. /\ TasksFit' /\ task'[t] = o
      /\ \A s \in Tasks : s # t => task'[s] = task[s]
  BY Moved DEF ReloadInv
<1>2. Server!Busy(t)'
  BY <1>1 DEF Server!Busy
<1>3. WebShapes'
  BY DEF ReloadInv, WebShapes
<1>4. Alone'
  BY <1>1, AloneKept DEF ReloadInv
<1>5. PortsFit'
  BY <1>1, <1>2, PortsFollow DEF ReloadInv
<1>6. WebFits'
  <2>1. Signed(task[t]) => Signed(task[t])'
    BY <1>1 DEF Signed, Served, Takes, Answers, OnlyUp
  <2> QED
    BY <1>1, <1>2, <2>1, WebFollows DEF ReloadInv
<1> QED
  BY <1>1, <1>3, <1>4, <1>5, <1>6 DEF ReloadInv

(* What is known of an operation, and of the port it is at.                *)
LEMMA OpShapes ==
  ASSUME ReloadInv, NEW t \in Tasks
  PROVE  /\ task[t] \in Ops /\ OpFits(task[t])
         /\ task[t].of \in Server!Adapters \cup {0} /\ task[t].obj \in Server!Objs \cup {0}
         /\ task[t].busy \in Names \cup {Server!None}
         /\ task[t].kill \subseteq Names /\ task[t].make \subseteq Names
         /\ task[t].cfg \in [Names -> Server!Entries]
         /\ task[t].late \in Server!Adapters \cup {0}
         /\ 0 \notin Server!Adapters /\ 0 \notin Server!Objs /\ Server!None \notin Names
<1>1. task[t] \in Ops /\ OpFits(task[t])
  BY DEF ReloadInv, TasksFit
<1> QED
  BY <1>1, ReloadAssumption DEF Ops, Server!Adapters, Server!Objs

(* destroy_port up to the port's own stop.                                 *)
LEMMA KillBeginFits ==
  ASSUME ReloadInv, ~halted, NEW t \in Tasks, NEW n \in Names, Server!KillBegins(t, n)
  PROVE  ReloadInv'
<1> DEFINE o == task[t]
           p == ports[o.of][n]
<1>1. /\ o.at \in {"apply", "stop"} /\ o.busy = Server!None /\ n \in o.kill
      /\ UNCHANGED <<file, loaded, objs, ports, gaps, unified, console, web, sessions, used,
                     browser, halted, overlaps>>
  BY DEF Server!KillBegins
<1>2. /\ o \in Ops /\ OpFits(o) /\ o.of \in Server!Adapters /\ o.kill \subseteq Names
      /\ Server!Busy(t) /\ \A m \in Names : m # Server!None
  BY <1>1, OpShapes DEF OpFits, Server!Busy, Server!None
<1>3. p \in Server!Objs \cup {0}
  BY <1>2 DEF ReloadInv, PortShapes
<1>4. OnWay(o) => /\ unified = o.of
                  /\ \A m \in Names : Held(m) = ports[o.of][m] /\ pm[m] = Held(m)
                  /\ p = Held(n) /\ p # 0
  BY <1>1, <1>2 DEF OnWay, Held
<1>5. CASE p = 0
  <2> PICK c : c = [o EXCEPT !.kill = @ \ {n}]
    OBVIOUS
  <2>1. Server!Goes(t, c) /\ pm' = pm
    BY <1>5 DEF Server!KillBegins
  <2>2. c \in Ops
    BY <1>2 DEF Ops
  <2>3. /\ c.kind = o.kind /\ c.at = o.at /\ c.of = o.of /\ c.late = o.late
        /\ c.carried = o.carried /\ c.busy = o.busy /\ c.obj = o.obj /\ c.make = o.make
        /\ c.kill = o.kill \ {n}
    BY <1>2 DEF Ops
  <2>4. OpFits(c)
    BY <1>2, <2>3 DEF OpFits
  <2>5. PortShapes'
    BY <1>1, <2>1 DEF ReloadInv, PortShapes
  <2>6. ~OnWay(o)
    BY <1>4, <1>5
  <2> QED
    BY <1>1, <1>2, <2>1, <2>2, <2>3, <2>4, <2>5, <2>6, PortStepFits
<1>6. CASE p # 0
  <2> PICK c : c = [o EXCEPT !.kill = @ \ {n}, !.busy = n, !.obj = p]
    OBVIOUS
  <2>1. Server!Goes(t, c) /\ pm' = [pm EXCEPT ![n] = 0]
    BY <1>6 DEF Server!KillBegins
  <2>2. c \in Ops
    BY <1>2, <1>3 DEF Ops
  <2>3. /\ c.kind = o.kind /\ c.at = o.at /\ c.of = o.of /\ c.late = o.late
        /\ c.carried = o.carried /\ c.busy = n /\ c.obj = p /\ c.make = o.make
        /\ c.kill = o.kill \ {n} /\ c.cfg = o.cfg
    BY <1>2 DEF Ops
  <2>4. OpFits(c)
    BY <1>1, <1>2, <1>6, <2>3 DEF OpFits, Server!None
  <2>5. PortShapes'
    BY <1>1, <2>1 DEF ReloadInv, PortShapes
  <2>6. task'[t] = c
    BY <2>1, <2>2, <2>4, Moved DEF ReloadInv
  <2>7. ASSUME Books, OnWay(o) PROVE Books' /\ OnWay(task[t])'
    <3>1. Books'
      BY <1>1, <2>7 DEF Books, Held
    <3>2. \A m \in Names : /\ Held(m)' = Held(m) /\ (AsAsked(m) => AsAsked(m)')
                           /\ pm'[m] = IF m = n THEN 0 ELSE Held(m)
      BY <1>1, <1>4, <2>1, <2>7 DEF Held, AsAsked, ReloadInv, PortShapes
    <3>3. Stops(task[t])'
      BY <1>1, <1>2, <1>4, <2>3, <2>6, <2>7, <3>2 DEF Stops, Books
    <3>4. unified' = unified /\ loaded' = loaded
      BY <1>1
    <3>5. /\ c.kill = o.kill \ {n} /\ c.busy = n /\ c.make = o.make /\ c.at = o.at
          /\ c.of = o.of /\ c.cfg = o.cfg
      BY <2>3
    <3>6. /\ o.at \in {"apply", "start"} =>
               \A m \in o.make : o.cfg[m] \in Server!Good /\ (Held(m) = 0 \/ m \in o.kill)
          /\ o.at \in {"apply", "start"} => \A m \in Names :
               /\ m \in o.make \/ m \in o.kill \/ AsAsked(m)
               /\ m \in o.kill => m \in o.make \/ o.cfg[m] = "none"
          /\ o.at = "stop" => \A m \in Names : Held(m) = 0 \/ m \in o.kill
          /\ \A m \in o.kill : Held(m) # 0
      BY <1>1, <1>2, <2>7, OpShapes DEF OnWay
    <3>7. OnWay(c)'
      <4>1. c.at = "apply" \/ c.at = "stop"
        BY <1>1, <3>5
      <4>2. (c.of = unified)' /\ (\A m \in Names : pm[m] = IF m = c.busy THEN 0 ELSE Held(m))'
        BY <1>4, <2>7, <3>2, <3>4, <3>5
      <4>3. (Stops(c) \/ Starts(c))'
        BY <2>6, <3>3
      <4>4. (\A m \in c.kill : Held(m) # 0)'
        BY <1>2, <3>2, <3>5, <3>6
      <4>5. c.at = "apply" => loaded' = c.cfg
        BY <2>7, <3>4, <3>5 DEF OnWay
      <4>6. c.at = "apply" =>
              /\ \A m \in c.make : c.cfg[m] \in Server!Good
                                   /\ (Held(m)' = 0 \/ m \in c.kill \/ m = c.busy)
              /\ \A m \in Names :
                   /\ m \in c.make \/ m \in c.kill \/ m = c.busy \/ AsAsked(m)'
                   /\ m \in c.kill \/ m = c.busy => m \in c.make \/ c.cfg[m] = "none"
        BY <1>1, <1>2, <3>2, <3>5, <3>6, OpShapes
      <4>7. c.at = "stop" => \A m \in Names : Held(m)' = 0 \/ m \in c.kill \/ m = c.busy
        BY <3>2, <3>5, <3>6
      <4> QED
        BY <4>1, <4>2, <4>3, <4>4, <4>5, <4>6, <4>7 DEF OnWay
    <3> QED
      BY <2>6, <3>1, <3>7
  <2> QED
    BY <1>1, <1>2, <2>1, <2>2, <2>3, <2>4, <2>5, <2>7, PortStepFits
<1> QED
  BY <1>5, <1>6

(* A port object changes its state.                                        *)
LEMMA Marked ==
  ASSUME objs \in [Server!Objs -> Objects], NEW p \in Server!Objs,
         NEW s \in {"unborn", "starting", "up", "gone"},
         objs' = [objs EXCEPT ![p].state = s]
  PROVE  /\ objs' \in [Server!Objs -> Objects]
         /\ objs'[p].state = s /\ objs'[p].name = objs[p].name
         /\ objs'[p].entry = objs[p].entry
         /\ \A x \in Server!Objs : x # p => objs'[x] = objs[x]
<1>1. PICK q : q = [objs[p] EXCEPT !.state = s]
  OBVIOUS
<1>2. objs[p] \in Objects /\ objs' = [objs EXCEPT ![p] = q]
  BY <1>1
<1>3. q \in Objects /\ q.state = s /\ q.name = objs[p].name /\ q.entry = objs[p].entry
  BY <1>1, <1>2 DEF Objects
<1> QED
  BY <1>2, <1>3

(* The port an operation is at leaves its hands.                           *)
LEMMA LetGo ==
  ASSUME ReloadInv, NEW t \in Tasks, task[t].busy # Server!None, NEW c,
         c = [task[t] EXCEPT !.busy = Server!None, !.obj = 0]
  PROVE  /\ c \in Ops /\ OpFits(c)
         /\ c.kind = task[t].kind /\ c.at = task[t].at /\ c.of = task[t].of
         /\ c.late = task[t].late /\ c.carried = task[t].carried /\ c.busy = Server!None
         /\ c.kill = task[t].kill /\ c.make = task[t].make /\ c.cfg = task[t].cfg
<1>1. task[t] \in Ops /\ OpFits(task[t])
  BY OpShapes
<1>2. c \in Ops
  BY <1>1 DEF Ops
<1>3. /\ c.kind = task[t].kind /\ c.at = task[t].at /\ c.of = task[t].of
      /\ c.late = task[t].late /\ c.carried = task[t].carried /\ c.busy = Server!None
      /\ c.kill = task[t].kill /\ c.make = task[t].make /\ c.cfg = task[t].cfg
  BY <1>1 DEF Ops
<1>4. OpFits(c)
  BY <1>1, <1>3 DEF OpFits
<1> QED
  BY <1>2, <1>3, <1>4

(* The operation is at one of its ports: what OnWay says of it then.       *)
LEMMA AtPort ==
  ASSUME ReloadInv, NEW t \in Tasks, task[t].busy # Server!None
  PROVE  /\ Server!Busy(t) /\ task[t].busy \in Names /\ task[t].obj \in Server!Objs
         /\ task[t].at \in {"apply", "stop", "start"} /\ task[t].of \in Server!Adapters
         /\ OnWay(task[t]) =>
              /\ task[t].of = unified /\ unified \in Server!Adapters /\ unified # 0
              /\ Stops(task[t]) \/ Starts(task[t])
              /\ \A m \in Names : Held(m) = ports[unified][m]
              /\ \A m \in Names : pm[m] = IF m = task[t].busy THEN 0 ELSE Held(m)
              /\ task[t].at # "stop" => loaded = task[t].cfg
<1>1. /\ task[t].busy \in Names /\ task[t].obj \in Server!Objs
      /\ task[t].at \in {"apply", "stop", "start"} /\ task[t].of \in Server!Adapters
      /\ task[t].of # 0
  BY OpShapes DEF OpFits
<1>2. Server!Busy(t)
  BY <1>1, OpShapes DEF OpFits, Server!Busy, Server!None
<1> QED
  BY <1>1, <1>2 DEF OnWay, Held

(* ... and behind the stop: the name leaves the dictionary.                *)
LEMMA KillEndFits ==
  ASSUME ReloadInv, ~halted, NEW t \in Tasks, Server!KillEnds(t)
  PROVE  ReloadInv'
<1> DEFINE o == task[t]
<1> PICK b, p : b = o.busy /\ p = o.obj
  OBVIOUS
<1> PICK c : c = [o EXCEPT !.busy = Server!None, !.obj = 0]
  OBVIOUS
<1>1. /\ o.at \in {"apply", "stop"} /\ b # Server!None /\ objs[p].state # "starting"
      /\ objs' = [objs EXCEPT ![p].state = "gone"]
      /\ ports' = [ports EXCEPT ![o.of][b] = 0]
      /\ Server!Goes(t, c)
      /\ UNCHANGED <<file, loaded, pm, gaps, unified, console, web, sessions, used,
                     browser, halted, overlaps>>
  BY DEF Server!KillEnds, Server!Killing
<1>2. /\ c \in Ops /\ OpFits(c)
      /\ c.kind = o.kind /\ c.at = o.at /\ c.of = o.of /\ c.late = o.late
      /\ c.carried = o.carried /\ c.busy = Server!None
      /\ c.kill = o.kill /\ c.make = o.make /\ c.cfg = o.cfg
  BY <1>1, LetGo
<1>3. /\ Server!Busy(t) /\ b \in Names /\ p \in Server!Objs /\ o.of \in Server!Adapters
      /\ objs \in [Server!Objs -> Objects] /\ 0 \notin Server!Objs
      /\ ports \in [Server!Adapters -> [Names -> Server!Objs \cup {0}]]
  BY <1>1, AtPort, OpShapes DEF ReloadInv, PortShapes
<1>4. /\ objs'[p].state = "gone" /\ objs'[p].name = objs[p].name
      /\ \A x \in Server!Objs : x # p => objs'[x] = objs[x]
  BY <1>1, <1>3, Marked
<1>5. PortShapes'
  <2>1. objs' \in [Server!Objs -> Objects]
    BY <1>1, <1>3, Marked
  <2>2. ports' \in [Server!Adapters -> [Names -> Server!Objs \cup {0}]]
    BY <1>1, <1>3
  <2> QED
    BY <1>1, <2>1, <2>2 DEF ReloadInv, PortShapes
<1>6. task'[t] = c
  BY <1>1, <1>2, Moved DEF ReloadInv
<1>7. ASSUME Books, OnWay(o) PROVE Books' /\ OnWay(task[t])'
  <2>1. /\ o.of = unified /\ unified \in Server!Adapters /\ unified # 0
        /\ \A m \in Names : Held(m) = ports[unified][m]
        /\ \A m \in Names : pm[m] = IF m = b THEN 0 ELSE Held(m)
        /\ o.at # "stop" => loaded = o.cfg
    BY <1>1, <1>7, AtPort
  <2>2. objs[p].state = "up" /\ Held(b) = p /\ b \notin o.kill
    BY <1>1, <1>7, AtPort DEF Stops, Starts
  <2>3. unified' = unified /\ loaded' = loaded /\ gaps' = gaps /\ pm' = pm
    BY <1>1
  <2>4. \A m \in Names : Held(m)' = IF m = b THEN 0 ELSE Held(m)
    BY <1>1, <1>3, <2>1, <2>3 DEF Held
  <2>5. objs[p].name = b
    BY <1>3, <1>7, <2>2 DEF Books
  <2>6. \A m \in Names : Held(m) \in Server!Objs \cup {0}
    <3>1. ports[unified] \in [Names -> Server!Objs \cup {0}]
      BY <1>3, <2>1
    <3> QED
      BY <2>1, <3>1
  <2>7. \A m \in Names : m # b /\ Held(m) # 0 => objs'[Held(m)] = objs[Held(m)]
    BY <1>3, <1>4, <1>7, <2>5, <2>6 DEF Books
  <2>8. Books'
    <3>1. ASSUME NEW i \in Server!Adapters, i # unified, NEW m \in Names
          PROVE  ports'[i][m] = 0
      BY <1>1, <1>3, <1>7, <2>1, <3>1 DEF Books
    <3>2. ASSUME NEW x \in Server!Objs, objs'[x].state = "up"
          PROVE  objs'[x].name \in Names /\ Held(objs[x].name)' = x
      <4>1. x # p /\ objs'[x] = objs[x]
        BY <1>4, <3>2
      <4>2. objs[x].name \in Names /\ Held(objs[x].name) = x
        BY <1>7, <3>2, <4>1 DEF Books
      <4>3. objs[x].name # b
        BY <2>2, <4>1, <4>2
      <4>4. ports'[unified][objs[x].name] = x
        BY <2>1, <2>3, <2>4, <4>2, <4>3, <1>1, <1>3
      <4> QED
        BY <2>1, <2>3, <4>1, <4>2, <4>4 DEF Held
    <3>3. ASSUME NEW m \in Names, Held(m)' # 0
          PROVE  (objs[Held(m)].state = "up" /\ objs[Held(m)].name = m)'
      <4>1. m # b /\ Held(m)' = Held(m) /\ Held(m) # 0
        BY <2>4, <3>3
      <4> QED
        BY <1>7, <2>7, <4>1 DEF Books
    <3> QED
      BY <2>3, <3>1, <3>2, <3>3 DEF Books
  <2>9. \A m \in Names : m # b /\ AsAsked(m) => AsAsked(m)'
    BY <2>3, <2>4, <2>7 DEF AsAsked
  <2>10. loaded[b] = "none" => AsAsked(b)'
    BY <1>3, <2>3, <2>4 DEF AsAsked
  <2>11. OnWay(c)'
    <3>1. c.at = "apply" \/ c.at = "stop"
      BY <1>1, <1>2
    <3>2. (c.of = unified)' /\ (\A m \in Names : pm[m] = IF m = c.busy THEN 0 ELSE Held(m))'
      BY <1>2, <2>1, <2>3, <2>4, OpShapes
    <3>3. (\A m \in c.kill : Held(m) # 0)'
      BY <1>2, <1>7, <2>2, <2>4, OpShapes DEF OnWay
    <3>4. c.at = "apply" => loaded' = c.cfg
      BY <1>2, <2>1, <2>3
    <3>5. c.at = "apply" =>
            /\ \A m \in c.make : c.cfg[m] \in Server!Good /\ (Held(m)' = 0 \/ m \in c.kill)
            /\ \A m \in Names : m \in c.make \/ m \in c.kill \/ AsAsked(m)'
            /\ \A m \in Names : m \in c.kill => m \in c.make \/ c.cfg[m] = "none"
      <4> SUFFICES ASSUME c.at = "apply"
                   PROVE  /\ \A m \in c.make : c.cfg[m] \in Server!Good
                                               /\ (Held(m)' = 0 \/ m \in c.kill)
                          /\ \A m \in Names : m \in c.make \/ m \in c.kill \/ AsAsked(m)'
                          /\ \A m \in Names : m \in c.kill => m \in c.make \/ c.cfg[m] = "none"
        OBVIOUS
      <4>1. /\ \A m \in o.make : o.cfg[m] \in Server!Good
                                 /\ (Held(m) = 0 \/ m \in o.kill \/ m = b)
            /\ \A m \in Names : m \in o.make \/ m \in o.kill \/ m = b \/ AsAsked(m)
            /\ \A m \in Names : m \in o.kill \/ (m = b /\ Held(m) # 0) =>
                                  m \in o.make \/ o.cfg[m] = "none"
        BY <1>2, <1>7 DEF OnWay
      <4>2. b \in o.make \/ AsAsked(b)'
        <5>1. Held(b) # 0
          BY <1>3, <2>2
        <5>2. o.cfg[b] = "none" => loaded[b] = "none"
          BY <1>2, <2>1
        <5> QED
          BY <1>3, <2>10, <4>1, <5>1, <5>2
      <4>3. \A m \in o.make : Held(m)' = 0 \/ m \in o.kill
        BY <2>4, <4>1, OpShapes
      <4>4. \A m \in Names : m \in o.make \/ m \in o.kill \/ AsAsked(m)'
        BY <2>9, <4>1, <4>2
      <4> QED
        BY <1>2, <4>1, <4>3, <4>4
    <3>6. c.at = "stop" => \A m \in Names : Held(m)' = 0 \/ m \in c.kill
      BY <1>2, <1>7, <2>4 DEF OnWay
    <3>7. \A m \in Names : m # Server!None
      BY OpShapes
    <3> QED
      BY <1>2, <3>1, <3>2, <3>3, <3>4, <3>5, <3>6, <3>7 DEF OnWay
  <2> QED
    BY <1>6, <2>8, <2>11
<1> QED
  BY <1>1, <1>2, <1>3, <1>5, <1>7, PortStepFits

(* create_port up to the port's start.                                     *)
LEMMA MakeBeginFits ==
  ASSUME ReloadInv, ~halted, NEW t \in Tasks, NEW n \in Names, Server!MakeBegins(t, n)
  PROVE  ReloadInv'
<1> DEFINE o == task[t]
<1> PICK p : p = Server!NewObj
  OBVIOUS
<1> PICK c : c = [o EXCEPT !.make = @ \ {n}, !.busy = n, !.obj = p]
  OBVIOUS
<1>1. /\ o.at \in {"apply", "start"} /\ o.busy = Server!None /\ o.kill = {} /\ n \in o.make
      /\ objs' = [objs EXCEPT ![p] = [name |-> n, entry |-> o.cfg[n], state |-> "starting"]]
      /\ Server!Goes(t, c)
      /\ UNCHANGED <<file, loaded, ports, pm, gaps, unified, console, web, sessions, used,
                     browser, halted, overlaps>>
  BY DEF Server!MakeBegins
<1>2. p \in Server!Objs /\ objs[p].state = "unborn"
  BY NewObjFits DEF Server!MakeBegins
<1>3. /\ o \in Ops /\ OpFits(o) /\ o.of \in Server!Adapters /\ Server!Busy(t)
      /\ 0 \notin Server!Objs /\ Server!None \notin Names /\ o.make \subseteq Names
      /\ objs \in [Server!Objs -> Objects] /\ o.cfg[n] \in Server!Entries
      /\ o.of # 0
  BY <1>1, OpShapes DEF OpFits, Server!Busy, Server!None, ReloadInv, PortShapes
<1>4. c \in Ops
  BY <1>2, <1>3 DEF Ops
<1>5. /\ c.kind = o.kind /\ c.at = o.at /\ c.of = o.of /\ c.late = o.late
      /\ c.carried = o.carried /\ c.busy = n /\ c.obj = p /\ c.kill = o.kill
      /\ c.make = o.make \ {n} /\ c.cfg = o.cfg
  BY <1>3 DEF Ops
<1>6. OpFits(c)
  BY <1>1, <1>2, <1>3, <1>5 DEF OpFits, Server!None
<1>7. /\ objs'[p] = [name |-> n, entry |-> o.cfg[n], state |-> "starting"]
      /\ \A x \in Server!Objs : x # p => objs'[x] = objs[x]
  BY <1>1, <1>2, <1>3
<1>8. PortShapes'
  <2>1. objs' \in [Server!Objs -> Objects]
    BY <1>1, <1>2, <1>3 DEF Objects
  <2> QED
    BY <1>1, <2>1 DEF ReloadInv, PortShapes
<1>9. task'[t] = c
  BY <1>1, <1>4, <1>6, Moved DEF ReloadInv
<1>10. ASSUME Books, OnWay(o) PROVE Books' /\ OnWay(task[t])'
  <2>1. \A m \in Names : Held(m)' = Held(m)
    BY <1>1 DEF Held
  <2>2. \A m \in Names : Held(m) \in Server!Objs \cup {0}
    BY <1>3 DEF ReloadInv, PortShapes, Held
  <2>3. \A m \in Names : Held(m) # 0 => objs'[Held(m)] = objs[Held(m)]
    BY <1>2, <1>7, <1>10, <2>2 DEF Books
  <2>4. unified' = unified /\ loaded' = loaded /\ gaps' = gaps /\ pm' = pm /\ ports' = ports
    BY <1>1
  <2>5. Books'
    <3>1. ASSUME NEW x \in Server!Objs, objs'[x].state = "up"
          PROVE  objs'[x].name \in Names /\ Held(objs[x].name)' = x
      <4>1. x # p /\ objs'[x] = objs[x]
        BY <1>7, <3>1
      <4>2. objs[x].name \in Names /\ Held(objs[x].name) = x
        BY <1>10, <3>1, <4>1 DEF Books
      <4>3. (Held(objs[x].name))' = IF unified' = 0 THEN 0 ELSE ports'[unified'][objs'[x].name]
        BY DEF Held
      <4> QED
        BY <2>4, <4>1, <4>2, <4>3 DEF Held
    <3>2. ASSUME NEW m \in Names, Held(m)' # 0
          PROVE  (objs[Held(m)].state = "up" /\ objs[Held(m)].name = m)'
      BY <1>10, <2>1, <2>3, <3>2 DEF Books
    <3> QED
      BY <1>10, <2>4, <3>1, <3>2 DEF Books
  <2>6. \A m \in Names : AsAsked(m) => AsAsked(m)'
    BY <2>1, <2>3, <2>4 DEF AsAsked
  <2>7. /\ \A m \in o.make : o.cfg[m] \in Server!Good /\ Held(m) = 0
        /\ \A m \in Names : m \in o.make \/ AsAsked(m)
        /\ loaded = o.cfg /\ o.of = unified
        /\ \A m \in Names : pm[m] = Held(m)
    BY <1>1, <1>3, <1>10 DEF OnWay
  <2>8. Starts(c)'
    BY <1>1, <1>3, <1>5, <1>7, <2>1, <2>7 DEF Starts
  <2>9. OnWay(c)'
    <3>1. c.at = "apply" \/ c.at = "start"
      BY <1>1, <1>5
    <3>2. \A m \in Names : pm'[m] = IF m = c.busy THEN 0 ELSE Held(m)'
      BY <1>1, <1>5, <2>1, <2>4, <2>7
    <3>3. \A m \in Names : m \in c.make \/ m = c.busy \/ AsAsked(m)'
      BY <1>5, <2>6, <2>7
    <3>4. \A m \in c.make : c.cfg[m] \in Server!Good /\ Held(m)' = 0
      BY <1>3, <1>5, <2>1, <2>7
    <3>5. /\ c.kill = {} /\ loaded' = c.cfg /\ c.of = unified' /\ c.busy \in Names
          /\ Held(c.busy)' = 0
      BY <1>1, <1>5, <2>1, <2>4, <2>7
    <3> QED
      BY <2>8, <3>1, <3>2, <3>3, <3>4, <3>5 DEF OnWay
  <2> QED
    BY <1>9, <2>5, <2>9
<1> QED
  BY <1>1, <1>3, <1>4, <1>5, <1>6, <1>8, <1>10, PortStepFits

(* It starts, and joins the dictionary and the manager ...                 *)
LEMMA MadeFits ==
  ASSUME ReloadInv, ~halted, NEW t \in Tasks, Server!Made(t)
  PROVE  ReloadInv'
<1> DEFINE o == task[t]
<1> PICK b, p : b = o.busy /\ p = o.obj
  OBVIOUS
<1> PICK c : c = [o EXCEPT !.busy = Server!None, !.obj = 0]
  OBVIOUS
<1>1. /\ o.at \in {"apply", "start"} /\ b # Server!None /\ objs[p].state = "starting"
      /\ objs' = [objs EXCEPT ![p].state = "up"]
      /\ ports' = [ports EXCEPT ![o.of][b] = p]
      /\ pm' = [pm EXCEPT ![b] = p]
      /\ gaps' = [gaps EXCEPT ![o.of] = @ \ {b}]
      /\ Server!Goes(t, c)
      /\ UNCHANGED <<file, loaded, unified, console, web, sessions, used, browser, halted,
                     overlaps>>
  BY DEF Server!Made, Server!Making
<1>2. /\ c \in Ops /\ OpFits(c)
      /\ c.kind = o.kind /\ c.at = o.at /\ c.of = o.of /\ c.late = o.late
      /\ c.carried = o.carried /\ c.busy = Server!None
      /\ c.kill = o.kill /\ c.make = o.make /\ c.cfg = o.cfg
  BY <1>1, LetGo
<1>3. /\ Server!Busy(t) /\ b \in Names /\ p \in Server!Objs /\ o.of \in Server!Adapters
      /\ objs \in [Server!Objs -> Objects] /\ 0 \notin Server!Objs
      /\ ports \in [Server!Adapters -> [Names -> Server!Objs \cup {0}]]
      /\ pm \in [Names -> Server!Objs \cup {0}] /\ gaps \in [Server!Adapters -> SUBSET Names]
  BY <1>1, AtPort, OpShapes DEF ReloadInv, PortShapes
<1>4. /\ objs'[p].state = "up" /\ objs'[p].name = objs[p].name
      /\ objs'[p].entry = objs[p].entry
      /\ \A x \in Server!Objs : x # p => objs'[x] = objs[x]
  BY <1>1, <1>3, Marked
<1>5. PortShapes'
  <2>1. objs' \in [Server!Objs -> Objects]
    BY <1>1, <1>3, Marked
  <2>2. ports' \in [Server!Adapters -> [Names -> Server!Objs \cup {0}]]
    BY <1>1, <1>3
  <2>3. pm' \in [Names -> Server!Objs \cup {0}] /\ gaps' \in [Server!Adapters -> SUBSET Names]
    BY <1>1, <1>3
  <2> QED
    BY <1>1, <2>1, <2>2, <2>3 DEF ReloadInv, PortShapes
<1>6. task'[t] = c
  BY <1>1, <1>2, Moved DEF ReloadInv
<1>7. ASSUME Books, OnWay(o) PROVE Books' /\ OnWay(task[t])'
  <2>1. /\ o.of = unified /\ unified \in Server!Adapters /\ unified # 0
        /\ \A m \in Names : Held(m) = ports[unified][m]
        /\ \A m \in Names : pm[m] = IF m = b THEN 0 ELSE Held(m)
        /\ o.at # "stop" => loaded = o.cfg
    BY <1>1, <1>7, AtPort
  <2>2. /\ Held(b) = 0 /\ o.kill = {} /\ b \notin o.make /\ objs[p].name = b
        /\ objs[p].entry = o.cfg[b]
    BY <1>1, <1>7, AtPort DEF Stops, Starts
  <2>3. unified' = unified /\ loaded' = loaded
    BY <1>1
  <2>4. \A m \in Names : Held(m)' = IF m = b THEN p ELSE Held(m)
    BY <1>1, <1>3, <2>1, <2>3 DEF Held
  <2>5. \A m \in Names : Held(m) \in Server!Objs \cup {0}
    <3>1. ports[unified] \in [Names -> Server!Objs \cup {0}]
      BY <1>3, <2>1
    <3> QED
      BY <2>1, <3>1
  <2>6. \A m \in Names : Held(m) # 0 => objs'[Held(m)] = objs[Held(m)]
    BY <1>1, <1>4, <1>7, <2>5 DEF Books
  <2>7. Books'
    <3>1. ASSUME NEW i \in Server!Adapters, i # unified, NEW m \in Names
          PROVE  ports'[i][m] = 0
      BY <1>1, <1>3, <1>7, <2>1, <3>1 DEF Books
    <3>2. ASSUME NEW x \in Server!Objs, objs'[x].state = "up"
          PROVE  objs'[x].name \in Names /\ Held(objs[x].name)' = x
      <4>1. Held(objs[x].name)' = ports'[unified][objs'[x].name]
        BY <2>1, <2>3 DEF Held
      <4>2. \A m \in Names : ports'[unified][m] = IF m = b THEN p ELSE ports[unified][m]
        BY <1>1, <1>3, <2>1
      <4>3. CASE x = p
        BY <1>3, <1>4, <2>2, <4>1, <4>2, <4>3
      <4>4. CASE x # p
        <5>1. objs'[x] = objs[x]
          BY <1>4, <4>4
        <5>2. objs[x].name \in Names /\ Held(objs[x].name) = x
          BY <1>7, <3>2, <5>1 DEF Books
        <5>3. objs[x].name # b
          BY <1>3, <2>2, <5>2
        <5> QED
          BY <2>1, <4>1, <4>2, <5>1, <5>2, <5>3
      <4> QED
        BY <4>3, <4>4
    <3>3. ASSUME NEW m \in Names, Held(m)' # 0
          PROVE  (objs[Held(m)].state = "up" /\ objs[Held(m)].name = m)'
      <4>1. CASE m = b
        BY <1>4, <2>2, <2>4, <4>1
      <4>2. CASE m # b
        BY <1>7, <2>4, <2>6, <3>3, <4>2 DEF Books
      <4> QED
        BY <4>1, <4>2
    <3> QED
      BY <2>3, <3>1, <3>2, <3>3 DEF Books
  <2>8. \A m \in Names : m # b => (m \in gaps'[unified] <=> m \in gaps[unified])
    BY <1>1, <1>3, <2>1
  <2>9. \A m \in Names : m # b /\ AsAsked(m) => AsAsked(m)'
    BY <2>3, <2>4, <2>6, <2>8 DEF AsAsked
  <2>10. AsAsked(b)'
    <3>1. Held(b)' = p /\ p # 0
      BY <1>3, <2>4
    <3>2. objs'[p].entry = loaded'[b]
      BY <1>1, <1>4, <2>1, <2>2, <2>3
    <3> QED
      BY <3>1, <3>2 DEF AsAsked
  <2>11. OnWay(c)'
    <3>1. c.at = "apply" \/ c.at = "start"
      BY <1>1, <1>2
    <3>2. \A m \in Names : pm'[m] = Held(m)' /\ m # c.busy
      BY <1>1, <1>2, <1>3, <2>1, <2>4, OpShapes
    <3>3. /\ \A m \in o.make : o.cfg[m] \in Server!Good /\ (Held(m) = 0 \/ m = b)
          /\ \A m \in Names : m \in o.make \/ m = b \/ AsAsked(m)
      BY <1>1, <1>7, <2>2 DEF OnWay
    <3>4. \A m \in c.make : c.cfg[m] \in Server!Good /\ Held(m)' = 0
      BY <1>2, <2>2, <2>4, <3>3, OpShapes
    <3>5. \A m \in Names : m \in c.make \/ AsAsked(m)'
      BY <1>2, <2>9, <2>10, <3>3
    <3>6. c.kill = {} /\ loaded' = c.cfg /\ c.of = unified' /\ c.busy = Server!None
      BY <1>1, <1>2, <2>1, <2>2, <2>3
    <3> QED
      BY <3>1, <3>2, <3>4, <3>5, <3>6 DEF OnWay
  <2> QED
    BY <1>6, <2>7, <2>11
<1> QED
  BY <1>1, <1>2, <1>3, <1>5, <1>7, PortStepFits

(* ... or it cannot be started, and is a gap.                              *)
LEMMA MakeFailFits ==
  ASSUME ReloadInv, ~halted, NEW t \in Tasks, Server!MakeFails(t)
  PROVE  ReloadInv'
<1> DEFINE o == task[t]
<1> PICK b, p : b = o.busy /\ p = o.obj
  OBVIOUS
<1> PICK c : c = [o EXCEPT !.busy = Server!None, !.obj = 0]
  OBVIOUS
<1>1. /\ o.at \in {"apply", "start"} /\ b # Server!None /\ objs[p].state = "starting"
      /\ objs' = [objs EXCEPT ![p].state = "gone"]
      /\ gaps' = [gaps EXCEPT ![o.of] = @ \cup {b}]
      /\ Server!Goes(t, c)
      /\ UNCHANGED <<file, loaded, ports, pm, unified, console, web, sessions, used, browser,
                     halted, overlaps>>
  BY DEF Server!MakeFails, Server!Making
<1>2. /\ c \in Ops /\ OpFits(c)
      /\ c.kind = o.kind /\ c.at = o.at /\ c.of = o.of /\ c.late = o.late
      /\ c.carried = o.carried /\ c.busy = Server!None
      /\ c.kill = o.kill /\ c.make = o.make /\ c.cfg = o.cfg
  BY <1>1, LetGo
<1>3. /\ Server!Busy(t) /\ b \in Names /\ p \in Server!Objs /\ o.of \in Server!Adapters
      /\ objs \in [Server!Objs -> Objects] /\ 0 \notin Server!Objs
      /\ ports \in [Server!Adapters -> [Names -> Server!Objs \cup {0}]]
      /\ gaps \in [Server!Adapters -> SUBSET Names]
  BY <1>1, AtPort, OpShapes DEF ReloadInv, PortShapes
<1>4. /\ objs'[p].state = "gone" /\ \A x \in Server!Objs : x # p => objs'[x] = objs[x]
  BY <1>1, <1>3, Marked
<1>5. PortShapes'
  <2>1. objs' \in [Server!Objs -> Objects]
    BY <1>1, <1>3, Marked
  <2>2. gaps' \in [Server!Adapters -> SUBSET Names]
    BY <1>1, <1>3
  <2> QED
    BY <1>1, <2>1, <2>2 DEF ReloadInv, PortShapes
<1>6. task'[t] = c
  BY <1>1, <1>2, Moved DEF ReloadInv
<1>7. ASSUME Books, OnWay(o) PROVE Books' /\ OnWay(task[t])'
  <2>1. /\ o.of = unified /\ unified \in Server!Adapters /\ unified # 0
        /\ \A m \in Names : Held(m) = ports[unified][m]
        /\ \A m \in Names : pm[m] = IF m = b THEN 0 ELSE Held(m)
        /\ o.at # "stop" => loaded = o.cfg
    BY <1>1, <1>7, AtPort
  <2>2. Held(b) = 0 /\ o.kill = {} /\ b \notin o.make
    BY <1>1, <1>7, AtPort DEF Stops, Starts
  <2>3. unified' = unified /\ loaded' = loaded /\ ports' = ports /\ pm' = pm
    BY <1>1
  <2>4. \A m \in Names : Held(m)' = Held(m)
    BY <2>3 DEF Held
  <2>5. \A m \in Names : Held(m) \in Server!Objs \cup {0}
    <3>1. ports[unified] \in [Names -> Server!Objs \cup {0}]
      BY <1>3, <2>1
    <3> QED
      BY <2>1, <3>1
  <2>6. \A m \in Names : Held(m) # 0 => objs'[Held(m)] = objs[Held(m)]
    BY <1>1, <1>4, <1>7, <2>5 DEF Books
  <2>7. Books'
    <3>1. ASSUME NEW x \in Server!Objs, objs'[x].state = "up"
          PROVE  objs'[x].name \in Names /\ Held(objs[x].name)' = x
      <4>1. objs'[x] = objs[x]
        BY <1>4, <3>1
      <4>2. objs[x].name \in Names /\ Held(objs[x].name) = x
        BY <1>7, <3>1, <4>1 DEF Books
      <4>3. Held(objs[x].name)' = ports'[unified'][objs'[x].name]
        BY <2>1, <2>3 DEF Held
      <4> QED
        BY <2>1, <2>3, <4>1, <4>2, <4>3
    <3>2. ASSUME NEW m \in Names, Held(m)' # 0
          PROVE  (objs[Held(m)].state = "up" /\ objs[Held(m)].name = m)'
      BY <1>7, <2>4, <2>6, <3>2 DEF Books
    <3> QED
      BY <1>7, <2>3, <3>1, <3>2 DEF Books
  <2>8. b \in gaps'[unified] /\ \A m \in Names : m \in gaps[unified] => m \in gaps'[unified]
    BY <1>1, <1>3, <2>1
  <2>9. AsAsked(b)' /\ \A m \in Names : AsAsked(m) => AsAsked(m)'
    BY <1>3, <2>2, <2>3, <2>4, <2>6, <2>8 DEF AsAsked
  <2>10. OnWay(c)'
    <3>1. c.at = "apply" \/ c.at = "start"
      BY <1>1, <1>2
    <3>2. \A m \in Names : pm'[m] = Held(m)' /\ m # c.busy
      BY <1>2, <2>1, <2>2, <2>3, <2>4, OpShapes
    <3>3. /\ \A m \in o.make : o.cfg[m] \in Server!Good /\ (Held(m) = 0 \/ m = b)
          /\ \A m \in Names : m \in o.make \/ m = b \/ AsAsked(m)
      BY <1>1, <1>7, <2>2 DEF OnWay
    <3>4. \A m \in c.make : c.cfg[m] \in Server!Good /\ Held(m)' = 0
      BY <1>2, <2>2, <2>4, <3>3, OpShapes
    <3>5. \A m \in Names : m \in c.make \/ AsAsked(m)'
      BY <1>2, <2>9, <3>3
    <3>6. c.kill = {} /\ loaded' = c.cfg /\ c.of = unified' /\ c.busy = Server!None
      BY <1>1, <1>2, <2>1, <2>2, <2>3
    <3> QED
      BY <3>1, <3>2, <3>4, <3>5, <3>6 DEF OnWay
  <2> QED
    BY <1>6, <2>7, <2>10
<1> QED
  BY <1>1, <1>2, <1>3, <1>5, <1>7, PortStepFits

(* A time limit abandons what is left: nothing is claimed of the ports.    *)
LEMMA LimitFits ==
  ASSUME ReloadInv, ~halted, NEW t \in Tasks, Server!Limit(t)
  PROVE  ReloadInv'
<1> DEFINE o == task[t]
<1> PICK c : c = [o EXCEPT !.busy = Server!None, !.obj = 0, !.kill = {}, !.make = {}]
  OBVIOUS
<1>1. /\ o.busy # Server!None /\ Server!Goes(t, c) /\ overlaps' = overlaps \cup {"limit"}
      /\ UNCHANGED <<file, loaded, objs, ports, pm, gaps, unified, console, web, sessions,
                     used, browser, halted>>
  BY DEF Server!Limit
<1>2. o \in Ops /\ OpFits(o) /\ Server!Busy(t)
  BY <1>1, OpShapes, AtPort
<1>3. c \in Ops
  BY <1>2, IdleFits DEF Ops
<1>4. /\ c.kind = o.kind /\ c.at = o.at /\ c.of = o.of /\ c.late = o.late
      /\ c.carried = o.carried /\ c.busy = Server!None /\ c.kill = {} /\ c.make = {}
  BY <1>2 DEF Ops
<1>5. OpFits(c)
  BY <1>2, <1>4 DEF OpFits
<1>6. PortShapes'
  BY <1>1 DEF ReloadInv, PortShapes
<1> QED
  BY <1>1, <1>2, <1>3, <1>4, <1>5, <1>6, PortStepFits

(* shutdown() stops the loop, and every operation with it.                 *)
LEMMA HaltFits ==
  ASSUME ReloadInv, NEW t \in Tasks, Server!Halt(t)
  PROVE  ReloadInv'
<1>1. /\ halted' = TRUE /\ task' = [s \in Tasks |-> Server!Idle]
      /\ UNCHANGED <<file, loaded, objs, ports, pm, gaps, unified, console, web, sessions,
                     used, browser, overlaps>>
  BY DEF Server!Halt
<1>2. TasksFit'
  BY <1>1, IdleFits DEF TasksFit
<1>3. \A s \in Tasks : ~Server!Busy(s)'
  BY <1>1 DEF Server!Busy, Server!Idle
<1>4. PortShapes' /\ WebShapes'
  BY <1>1 DEF ReloadInv, PortShapes, WebShapes
<1> QED
  BY <1>1, <1>2, <1>3, <1>4 DEF ReloadInv, Alone, PortsFit, WebFits

(* An operation passes from one of its stages to the next, or ends.        *)
LEMMA StageFits ==
  ASSUME ReloadInv, ~halted, NEW t \in Tasks, Server!Busy(t), NEW o \in Ops, OpFits(o),
         Server!Goes(t, o), overlaps \subseteq overlaps', PortShapes', WebShapes',
         /\ overlaps' \cap {"overlap", "limit"} = {}
         /\ Books /\ OnWay(task[t])
         => /\ Books'
            /\ o.kind # "idle" => OnWay(task[t])'
            /\ o.kind = "idle" => AtRest',
         /\ overlaps' \cap {"overlap", "sign", "failed"} = {}
         /\ console # 0 /\ unified = console /\ Signed(task[t])
         => /\ console' # 0 /\ unified' = console'
            /\ o.kind # "idle" => Signed(task[t])'
            /\ o.kind = "idle" => Served'
  PROVE  ReloadInv'
<1>1. /\ TasksFit' /\ task'[t] = o
      /\ \A s \in Tasks : s # t => task'[s] = task[s]
  BY Moved DEF ReloadInv
<1>2. Server!Busy(t)' <=> o.kind # "idle"
  BY <1>1 DEF Server!Busy
<1>3. Alone'
  BY <1>1, AloneKept DEF ReloadInv
<1>4. PortsFit'
  BY <1>1, <1>2, PortsFollow DEF ReloadInv
<1>5. WebFits'
  BY <1>1, <1>2, WebFollows DEF ReloadInv
<1> QED
  BY <1>1, <1>3, <1>4, <1>5 DEF ReloadInv

(* With nothing left to stop or to make, the ports are as the file asks.   *)
LEMMA ThroughMeans ==
  ASSUME ReloadInv, NEW t \in Tasks, Server!Through(t), OnWay(task[t])
  PROVE  /\ \A n \in Names : pm[n] = Held(n)
         /\ task[t].at \in {"apply", "start"} => \A n \in Names : AsAsked(n)
         /\ task[t].at = "stop" => \A n \in Names : Held(n) = 0
<1>1. \A n \in Names : n # Server!None
  BY ReloadAssumption
<1> QED
  BY <1>1 DEF Server!Through, OnWay

(* The ports stay, the operation is only elsewhere with them.              *)
LEMMA PortsSame ==
  ASSUME UNCHANGED <<loaded, objs, ports, pm, gaps, unified>>
  PROVE  /\ \A n \in Names : Held(n)' = Held(n) /\ (AsAsked(n)' <=> AsAsked(n))
         /\ Books' <=> Books
         /\ AtRest' <=> AtRest
  BY DEF Held, AsAsked, Books, AtRest

(* A soft reload ends.                                                     *)
LEMMA SoftEndFits ==
  ASSUME ReloadInv, ~halted, NEW t \in Tasks, Server!SoftEnds(t)
  PROVE  ReloadInv'
<1>1. /\ task[t].at = "apply" /\ Server!Through(t) /\ Server!Goes(t, Server!Idle)
      /\ UNCHANGED <<file, loaded, objs, ports, pm, gaps, unified, console, web, sessions,
                     used, browser, halted, overlaps>>
  BY DEF Server!SoftEnds
<1>2. task[t].kind = "soft" /\ Server!Busy(t)
  BY <1>1, OpShapes DEF OpFits, Server!Busy, Server!None
<1>3. Server!Idle.kind = "idle"
  BY DEF Server!Idle
<1>4. PortShapes' /\ WebShapes'
  BY <1>1 DEF ReloadInv, PortShapes, WebShapes
<1>5. Books /\ OnWay(task[t]) => Books' /\ AtRest'
  BY <1>1, ThroughMeans, PortsSame DEF AtRest
<1>6. Signed(task[t]) => Served'
  <2>1. Served => Served'
    BY <1>1 DEF Served, Answers, OnlyUp
  <2> QED
    BY <1>2, <2>1 DEF Signed
<1> QED
  BY <1>1, <1>2, <1>3, <1>4, <1>5, <1>6, IdleFits, StageFits

(* Everything is stopped, the web console with it, except the one the      *)
(* request came through.                                                   *)
LEMMA StopConsoleFits ==
  ASSUME ReloadInv, ~halted, NEW t \in Tasks, Server!StopConsole(t)
  PROVE  ReloadInv'
<1> DEFINE o == task[t]
           stays == o.own /\ o.of = console
<1> PICK c : c = IF stays THEN [o EXCEPT !.at = "stopped", !.late = console]
                 ELSE [o EXCEPT !.at = "stopped"]
  OBVIOUS
<1>1. /\ o.at = "stop" /\ Server!Through(t) /\ Server!Goes(t, c)
      /\ web' = IF stays THEN web ELSE [web EXCEPT ![o.of] = "down"]
      /\ UNCHANGED <<file, loaded, objs, ports, pm, gaps, unified, console, sessions, used,
                     browser, halted, overlaps>>
  BY DEF Server!StopConsole
<1>2. /\ o \in Ops /\ OpFits(o) /\ o.of \in Server!Adapters /\ o.kind \in {"full", "shutdown"}
      /\ o.late = 0 /\ o.busy = Server!None /\ o.kill = {} /\ o.make = {}
      /\ console \in Server!Adapters \cup {0} /\ 0 \notin Server!Adapters
  BY <1>1, OpShapes DEF OpFits, Server!None, Server!Through, ReloadInv, WebShapes
<1>3. c \in Ops
  BY <1>2 DEF Ops, Stages
<1>4. /\ c.kind = o.kind /\ c.at = "stopped" /\ c.of = o.of /\ c.carried = o.carried
      /\ c.busy = Server!None /\ c.kill = {} /\ c.make = {}
      /\ c.late = IF stays THEN console ELSE 0
  BY <1>2 DEF Ops
<1>5. OpFits(c) /\ Server!Busy(t)
  BY <1>2, <1>4 DEF OpFits, Server!Busy, Server!None
<1>6. task'[t] = c
  BY <1>1, <1>3, <1>5, Moved DEF ReloadInv
<1>7. PortShapes'
  BY <1>1 DEF ReloadInv, PortShapes
<1>8. WebShapes'
  BY <1>1, <1>2 DEF ReloadInv, WebShapes
<1>9. Books /\ OnWay(o) => Books' /\ OnWay(task[t])'
  <2> SUFFICES ASSUME Books, OnWay(o) PROVE Books' /\ OnWay(c)'
    BY <1>6
  <2>1. \A n \in Names : Held(n)' = 0 /\ pm'[n] = 0 /\ n # Server!None
    BY <1>1, ThroughMeans, PortsSame, OpShapes
  <2>2. c.of = unified'
    BY <1>1, <1>4 DEF OnWay
  <2> QED
    BY <1>1, <1>4, <2>1, <2>2, PortsSame DEF OnWay
<1>10. console # 0 /\ Signed(o) => Signed(task[t])'
  <2> SUFFICES ASSUME console # 0, Signed(o) PROVE Signed(c)'
    BY <1>6
  <2>1. Served /\ o.of = console /\ (o.kind = "full" => o.carried = browser)
    BY <1>1 DEF Signed
  <2>2. CASE stays
    <3>1. Served' /\ c.late = console' /\ console' # 0
      BY <1>1, <1>4, <2>1, <2>2 DEF Served, Answers, OnlyUp
    <3> QED
      BY <1>1, <1>2, <1>4, <2>1, <3>1 DEF Signed
  <2>3. CASE ~stays
    <3>1. OnlyUp({})' /\ c.late = 0
      BY <1>1, <1>2, <1>4, <2>1, <2>3 DEF Served, Answers, OnlyUp, ReloadInv, WebShapes
    <3> QED
      BY <1>1, <1>2, <1>4, <2>1, <3>1 DEF Signed
  <2> QED
    BY <2>2, <2>3
<1> QED
  BY <1>1, <1>2, <1>3, <1>4, <1>5, <1>7, <1>8, <1>9, <1>10, StageFits

(* A full reload that cannot build new adapters leaves none.               *)
LEMMA FullFailFits ==
  ASSUME ReloadInv, ~halted, NEW t \in Tasks, Server!FullFails(t)
  PROVE  ReloadInv'
<1>1. /\ task[t].kind = "full" /\ task[t].at = "stopped" /\ Server!Goes(t, Server!Idle)
      /\ unified' = 0 /\ console' = task[t].late /\ overlaps' = overlaps \cup {"failed"}
      /\ UNCHANGED <<file, loaded, objs, ports, pm, gaps, web, sessions, used, browser, halted>>
  BY DEF Server!FullFails
<1>2. Server!Busy(t) /\ Server!Idle.kind = "idle"
  BY <1>1 DEF Server!Busy, Server!Idle
<1>3. PortShapes' /\ WebShapes'
  BY <1>1, OpShapes DEF ReloadInv, PortShapes, WebShapes
<1>4. Books /\ OnWay(task[t]) => Books' /\ AtRest'
  <2> SUFFICES ASSUME Books, OnWay(task[t]) PROVE Books' /\ AtRest'
    OBVIOUS
  <2>1. \A n \in Names : Held(n) = 0 /\ Held(n)' = 0 /\ pm[n] = 0
    BY <1>1 DEF OnWay, Held
  <2>2. \A i \in Server!Adapters : \A n \in Names : ports[i][n] = 0
    BY <2>1, OpShapes DEF Books, Held
  <2>3. \A x \in Server!Objs : objs[x].state # "up"
    BY <2>1, OpShapes DEF Books
  <2> QED
    BY <1>1, <2>1, <2>2, <2>3 DEF Books, AtRest
<1> QED
  BY <1>1, <1>2, <1>3, <1>4, IdleFits, StageFits

(* New adapters from the file, with the login sessions of the old.         *)
LEMMA RecreateFits ==
  ASSUME ReloadInv, ~halted, NEW t \in Tasks, Server!Recreate(t)
  PROVE  ReloadInv'
<1> DEFINE o == task[t]
<1> PICK i : i = Server!NewAdapter
  OBVIOUS
<1> PICK c : c = [o EXCEPT !.at = "start", !.of = i, !.cfg = file,
                           !.make = Server!Usable(file)]
  OBVIOUS
<1>1. /\ o.kind = "full" /\ o.at = "stopped" /\ Server!CanBuild
      /\ unified' = i /\ console' = i /\ loaded' = file
      /\ gaps' = [gaps EXCEPT ![i] = Server!Rejected(file)]
      /\ web' = [web EXCEPT ![i] = "made"]
      /\ sessions' = [sessions EXCEPT ![i] = o.carried]
      /\ Server!Goes(t, c)
      /\ UNCHANGED <<file, objs, ports, pm, used, browser, halted, overlaps>>
  BY DEF Server!Recreate
<1>2. i \in Server!Adapters /\ web[i] = "unborn"
  BY <1>1, NewAdapterFits
<1>3. /\ o \in Ops /\ OpFits(o) /\ o.busy = Server!None /\ o.kill = {}
      /\ o.carried \in BOOLEAN
      /\ 0 \notin Server!Adapters /\ 0 \notin Server!Objs
      /\ \A n \in Names : n # Server!None
  BY <1>1, OpShapes DEF OpFits, Ops
<1>4. file \in [Names -> Server!Entries] /\ Server!Usable(file) \subseteq Names
  BY DEF ReloadInv, PortShapes, Server!Usable
<1>5. c \in Ops
  BY <1>2, <1>3, <1>4 DEF Ops, Stages
<1>6. /\ c.kind = o.kind /\ c.at = "start" /\ c.of = i /\ c.cfg = file
      /\ c.make = Server!Usable(file) /\ c.late = o.late /\ c.busy = Server!None
      /\ c.kill = {}
  BY <1>3 DEF Ops
<1>7. OpFits(c) /\ Server!Busy(t)
  BY <1>1, <1>2, <1>3, <1>6 DEF OpFits, Server!Busy, Server!None
<1>8. task'[t] = c
  BY <1>1, <1>5, <1>7, Moved DEF ReloadInv
<1>9. PortShapes'
  <2>1. gaps' \in [Server!Adapters -> SUBSET Names]
    BY <1>1 DEF ReloadInv, PortShapes, Server!Rejected
  <2> QED
    BY <1>1, <1>2, <1>4, <2>1 DEF ReloadInv, PortShapes
<1>10. WebShapes'
  BY <1>1, <1>2, <1>3 DEF ReloadInv, WebShapes
<1>11. Books /\ OnWay(o) => Books' /\ OnWay(task[t])'
  <2> SUFFICES ASSUME Books, OnWay(o) PROVE Books' /\ OnWay(c)'
    BY <1>8
  <2>1. \A n \in Names : Held(n) = 0 /\ pm[n] = 0
    BY <1>1, <1>3 DEF OnWay
  <2>2. \A j \in Server!Adapters : \A n \in Names : ports[j][n] = 0
    BY <1>3, <2>1 DEF Books, Held
  <2>3. \A x \in Server!Objs : objs[x].state # "up"
    BY <1>3, <2>1 DEF Books
  <2>4. \A n \in Names : Held(n)' = 0
    BY <1>1, <1>2, <2>2 DEF Held
  <2>5. Books'
    BY <1>1, <2>2, <2>3, <2>4 DEF Books
  <2>6. gaps'[i] = Server!Rejected(file)
    BY <1>1, <1>2 DEF ReloadInv, PortShapes
  <2>7. ASSUME NEW n \in Names, n \notin Server!Usable(file) PROVE AsAsked(n)'
    <3>1. file[n] = "none" \/ n \in Server!Rejected(file)
      BY <1>4, <2>7 DEF Server!Usable, Server!Rejected, Server!Entries
    <3> QED
      BY <1>1, <2>4, <2>6, <3>1 DEF AsAsked
  <2>8. \A n \in Server!Usable(file) : n \in Names /\ file[n] \in Server!Good
    BY DEF Server!Usable
  <2>9. unified' = i /\ loaded' = file /\ pm' = pm
    BY <1>1
  <2>10. OnWay(c)'
    BY <1>3, <1>6, <2>1, <2>4, <2>7, <2>8, <2>9 DEF OnWay
  <2> QED
    BY <2>5, <2>10
<1>12. console # 0 /\ Signed(o) => Signed(task[t])'
  <2> SUFFICES ASSUME console # 0, Signed(o) PROVE Signed(c)'
    BY <1>8
  <2>1. /\ o.carried = browser
        /\ IF o.late = 0 THEN OnlyUp({}) ELSE o.late = console /\ Served
    BY <1>1 DEF Signed
  <2>2. Takes'
    BY <1>1, <1>2, <2>1 DEF Takes, ReloadInv, WebShapes
  <2>3. c.late # i
    BY <1>2, <1>3, <1>6, <2>1 DEF Served, Answers
  <2>4. OnlyUp({c.late})
    BY <1>3, <1>6, <2>1 DEF Served, OnlyUp
  <2>5. OnlyUp({c.late})'
    BY <1>1, <1>2, <2>4 DEF OnlyUp, ReloadInv, WebShapes
  <2>6. console' = i
    BY <1>1
  <2> QED
    BY <1>1, <1>6, <2>2, <2>3, <2>5, <2>6 DEF Signed
<1> QED
  BY <1>1, <1>2, <1>3, <1>5, <1>6, <1>7, <1>9, <1>10, <1>11, <1>12, StageFits

(* The ports are started; the console is started with them, or after the   *)
(* answer.                                                                 *)
LEMMA StartConsoleFits ==
  ASSUME ReloadInv, ~halted, NEW t \in Tasks, Server!StartConsole(t)
  PROVE  ReloadInv'
<1> DEFINE o == task[t]
<1>1. /\ o.at = "start" /\ Server!Through(t)
      /\ UNCHANGED <<file, loaded, objs, ports, pm, gaps, unified, console, sessions, used,
                     browser, halted, overlaps>>
  BY DEF Server!StartConsole
<1>2. /\ o \in Ops /\ OpFits(o) /\ o.of \in Server!Adapters /\ o.kind \in {"boot", "full"}
      /\ o.busy = Server!None /\ o.kill = {} /\ o.make = {} /\ 0 \notin Server!Adapters
      /\ \A n \in Names : n # Server!None
  BY <1>1, OpShapes DEF OpFits, Server!None, Server!Through
<1>3. Server!Busy(t) /\ PortShapes'
  BY <1>1, <1>2 DEF Server!Busy, ReloadInv, PortShapes
<1>4. OnWay(o) => /\ loaded = o.cfg /\ o.of = unified
                  /\ \A n \in Names : pm[n] = Held(n) /\ AsAsked(n)
  BY <1>1, ThroughMeans DEF OnWay
<1>5. CASE o.late = 0
  <2>1. Server!Goes(t, Server!Idle) /\ web' = [web EXCEPT ![o.of] = Server!Bound(o.of)]
    BY <1>5 DEF Server!StartConsole
  <2>2. WebShapes'
    BY <1>1, <1>2, <2>1 DEF ReloadInv, WebShapes, Server!Bound
  <2>3. Books /\ OnWay(o) => Books' /\ AtRest'
    BY <1>1, <1>4, PortsSame DEF AtRest
  <2>4. console # 0 /\ Signed(o) => Served'
    <3> SUFFICES ASSUME console # 0, Signed(o) PROVE Served'
      OBVIOUS
    <3>1. Takes /\ o.of = console /\ OnlyUp({o.late})
      BY <1>1, <1>2, <1>5 DEF Signed, OnlyUp
    <3>2. \A j \in Server!Adapters : web[j] # "up"
      BY <1>2, <1>5, <3>1 DEF OnlyUp
    <3>3. Server!Bound(o.of) = "up"
      BY <3>2 DEF Server!Bound
    <3> QED
      BY <1>1, <1>2, <2>1, <3>1, <3>2, <3>3
         DEF Served, Answers, Takes, OnlyUp, ReloadInv, WebShapes
  <2>5. Server!Idle.kind = "idle"
    BY DEF Server!Idle
  <2> QED
    BY <1>1, <1>3, <2>1, <2>2, <2>3, <2>4, <2>5, IdleFits, StageFits
<1>6. CASE o.late # 0
  <2> PICK c : c = [o EXCEPT !.at = "late"]
    OBVIOUS
  <2>1. Server!Goes(t, c) /\ web' = web
    BY <1>6 DEF Server!StartConsole
  <2>2. c \in Ops
    BY <1>2 DEF Ops, Stages
  <2>3. /\ c.kind = o.kind /\ c.at = "late" /\ c.of = o.of /\ c.late = o.late /\ c.cfg = o.cfg
        /\ c.busy = Server!None /\ c.kill = {} /\ c.make = {}
    BY <1>2 DEF Ops
  <2>4. o.kind = "full" /\ OpFits(c)
    BY <1>2, <1>6, <2>3 DEF OpFits, Server!None
  <2>5. WebShapes'
    BY <1>1, <2>1 DEF ReloadInv, WebShapes
  <2>6. task'[t] = c
    BY <2>1, <2>2, <2>4, Moved DEF ReloadInv
  <2>7. Books /\ OnWay(o) => Books' /\ OnWay(task[t])'
    <3> SUFFICES ASSUME Books, OnWay(o) PROVE Books' /\ OnWay(c)'
      BY <2>6
    <3>1. \A n \in Names : Held(n)' = Held(n) /\ AsAsked(n)' /\ pm'[n] = Held(n)
      BY <1>1, <1>4, PortsSame
    <3>2. loaded' = o.cfg /\ o.of = unified'
      BY <1>1, <1>4
    <3> QED
      BY <1>1, <1>2, <2>3, <3>1, <3>2, PortsSame DEF OnWay
  <2>8. Signed(o) => Signed(task[t])'
    <3> SUFFICES ASSUME Signed(o) PROVE Signed(c)'
      BY <2>6
    <3>1. Takes /\ o.of = console /\ o.late # console /\ OnlyUp({o.late})
      BY <1>1, <2>4 DEF Signed
    <3>2. Takes' /\ OnlyUp({c.late})' /\ console' = console
      BY <1>1, <2>1, <2>3, <3>1 DEF Takes, OnlyUp
    <3> QED
      BY <2>3, <2>4, <3>1, <3>2 DEF Signed
  <2> QED
    BY <1>1, <1>3, <2>1, <2>2, <2>3, <2>4, <2>5, <2>7, <2>8, StageFits
<1> QED
  BY <1>5, <1>6

(* The console that answered is stopped, then the new one is started.      *)
LEMMA LateRestartFits ==
  ASSUME ReloadInv, ~halted, NEW t \in Tasks, Server!LateRestart(t)
  PROVE  ReloadInv'
<1> DEFINE o == task[t]
<1>1. /\ o.at = "late"
      /\ UNCHANGED <<file, loaded, objs, ports, pm, gaps, unified, console, sessions, used,
                     browser, halted, overlaps>>
  BY DEF Server!LateRestart
<1>2. /\ o \in Ops /\ OpFits(o) /\ o.of \in Server!Adapters /\ o.late \in Server!Adapters
      /\ o.kind = "full" /\ o.busy = Server!None /\ 0 \notin Server!Adapters
      /\ \A n \in Names : n # Server!None
  BY <1>1, OpShapes DEF OpFits, Server!None
<1>3. PortShapes' /\ Server!Busy(t)
  BY <1>1, <1>2 DEF ReloadInv, PortShapes, Server!Busy
<1>4. Signed(o) => Takes /\ o.of = console /\ o.late # console /\ OnlyUp({o.late})
  BY <1>1, <1>2 DEF Signed
<1>5. CASE web[o.late] = "up"
  <2>1. task' = task /\ web' = [web EXCEPT ![o.late] = "down"]
    BY <1>5 DEF Server!LateRestart
  <2>2. WebShapes'
    BY <1>1, <2>1 DEF ReloadInv, WebShapes
  <2>3. TasksFit' /\ Alone'
    BY <1>1, <2>1 DEF ReloadInv, TasksFit, OpFits, Alone, Server!Busy
  <2>4. PortsFit'
    BY <1>1, <2>1, PortsRest DEF ReloadInv
  <2>5. Signed(o) => Signed(task[t])'
    <3> PICK c : c = o
      OBVIOUS
    <3> SUFFICES ASSUME Signed(o) PROVE Signed(c)'
      BY <2>1
    <3>1. Takes' /\ OnlyUp({c.late})' /\ console' = console
      BY <1>1, <1>2, <1>4, <2>1 DEF Takes, OnlyUp, ReloadInv, WebShapes
    <3> QED
      BY <1>1, <1>2, <1>4, <3>1 DEF Signed
  <2>6. WebFits'
    BY <1>1, <1>3, <2>1, <2>5, WebFollows DEF ReloadInv, Server!Busy
  <2> QED
    BY <1>3, <2>2, <2>3, <2>4, <2>6 DEF ReloadInv
<1>6. CASE web[o.late] # "up"
  <2>1. Server!Goes(t, Server!Idle) /\ web' = [web EXCEPT ![o.of] = Server!Bound(o.of)]
    BY <1>6 DEF Server!LateRestart
  <2>2. WebShapes'
    BY <1>1, <1>2, <2>1 DEF ReloadInv, WebShapes, Server!Bound
  <2>3. Books /\ OnWay(o) => Books' /\ AtRest'
    <3>1. OnWay(o) => \A n \in Names : pm[n] = Held(n) /\ AsAsked(n)
      BY <1>1, <1>2 DEF OnWay
    <3> QED
      BY <1>1, <3>1, PortsSame DEF AtRest
  <2>4. Signed(o) => Served'
    <3> SUFFICES ASSUME Signed(o) PROVE Served'
      OBVIOUS
    <3>1. \A j \in Server!Adapters : web[j] # "up"
      BY <1>4, <1>6 DEF OnlyUp
    <3>2. Server!Bound(o.of) = "up"
      BY <3>1 DEF Server!Bound
    <3> QED
      BY <1>1, <1>2, <1>4, <2>1, <3>1, <3>2
         DEF Served, Answers, Takes, OnlyUp, ReloadInv, WebShapes
  <2>5. Server!Idle.kind = "idle"
    BY DEF Server!Idle
  <2> QED
    BY <1>1, <1>3, <2>1, <2>2, <2>3, <2>4, <2>5, IdleFits, StageFits
<1> QED
  BY <1>5, <1>6

(* reconcile_ports: the file is compared with what runs, and every         *)
(* candidate is built or refused before anything stops.                    *)
LEMMA ClassifyFits ==
  ASSUME ReloadInv, ~halted, NEW t \in Tasks, Server!Classify(t)
  PROVE  ReloadInv'
<1> DEFINE o == task[t]
           lacks == unified = 0
           nothing == lacks /\ (~Server!CanBuild \/ \A n \in Names : o.cfg[n] = "none")
<1>i. PICK i : i = IF lacks THEN Server!NewAdapter ELSE unified
  OBVIOUS
<1>d. PICK d : d = ports[i]
  OBVIOUS
<1>e. PICK cfg : cfg = o.cfg
  OBVIOUS
<1>g. PICK gap : gap = (gaps[i] \ {n \in Names : cfg[n] = "none"})
                       \cup ((Server!Added(d, cfg) \cup Server!Differ(d, cfg))
                                \cap Server!Rejected(cfg))
  OBVIOUS
<1>k. PICK kill, make :
      /\ kill = Server!Removed(d, cfg) \cup Server!Updated(d, cfg)
      /\ make = (Server!Added(d, cfg) \ Server!Rejected(cfg)) \cup Server!Updated(d, cfg)
  OBVIOUS
<1>c. PICK c : c = [o EXCEPT !.at = "apply", !.of = i, !.kill = kill, !.make = make]
  OBVIOUS
<1>1. /\ o.kind = "soft" /\ o.at = "auth"
      /\ UNCHANGED <<file, loaded, objs, ports, pm, console, sessions, used, browser,
                     halted, overlaps>>
  BY DEF Server!Classify
<1>2. /\ o \in Ops /\ OpFits(o) /\ Server!Busy(t) /\ o.busy = Server!None
      /\ o.late = 0 /\ cfg \in [Names -> Server!Entries]
      /\ o.kill = {} /\ o.make = {}
      /\ 0 \notin Server!Adapters /\ 0 \notin Server!Objs
      /\ \A n \in Names : n # Server!None
  BY <1>1, <1>e, OpShapes DEF OpFits, Server!Busy
<1>3. Signed(o) => Served
  BY <1>1 DEF Signed
<1>4. OnWay(o) => /\ loaded = cfg
                  /\ \A n \in Names : pm[n] = Held(n)
  BY <1>1, <1>2, <1>e DEF OnWay
<1>5. CASE nothing
  <2>1. Server!Goes(t, Server!Idle) /\ UNCHANGED <<gaps, unified, web>>
    BY <1>5 DEF Server!Classify
  <2>2. PortShapes' /\ WebShapes'
    BY <1>1, <2>1 DEF ReloadInv, PortShapes, WebShapes
  <2>3. Books /\ OnWay(o) => Books' /\ AtRest'
    BY <1>1, <1>4, <1>5, <2>1, PortsSame DEF AtRest
  <2>4. Served => Served'
    BY <1>1, <2>1 DEF Served, Answers, OnlyUp
  <2>5. Server!Idle.kind = "idle"
    BY DEF Server!Idle
  <2> QED
    BY <1>1, <1>2, <1>3, <2>1, <2>2, <2>3, <2>4, <2>5, IdleFits, StageFits
<1>6. CASE ~nothing
  <2>1. /\ unified' = i /\ gaps' = [gaps EXCEPT ![i] = gap] /\ Server!Goes(t, c)
        /\ web' = IF lacks THEN [web EXCEPT ![i] = "down"] ELSE web
    BY <1>6, <1>i, <1>d, <1>e, <1>g, <1>k, <1>c DEF Server!Classify
  <2>2. i \in Server!Adapters
    BY <1>6, <1>i, NewAdapterFits DEF ReloadInv, PortShapes
  <2>3. /\ d \in [Names -> Server!Objs \cup {0}] /\ gaps[i] \subseteq Names
        /\ objs \in [Server!Objs -> Objects]
    BY <2>2, <1>d DEF ReloadInv, PortShapes
  <2>4. gap \subseteq Names /\ kill \subseteq Names /\ make \subseteq Names
    BY <2>3, <1>g, <1>k DEF Server!Removed, Server!Updated, Server!Added, Server!Differ
  <2>5. /\ c \in Ops /\ c.kind = o.kind /\ c.at = "apply" /\ c.of = i /\ c.late = o.late
        /\ c.cfg = o.cfg /\ c.busy = o.busy /\ c.kill = kill /\ c.make = make
    <3>1. kill \in SUBSET Names /\ make \in SUBSET Names /\ o \in Ops
      BY <1>2, <2>4
    <3> HIDE DEF o
    <3> QED
      BY <1>c, <2>2, <3>1 DEF Ops, Stages
  <2>6. /\ c.kind = "soft" /\ c.at = "apply" /\ c.of = i /\ c.late = 0 /\ c.cfg = cfg
        /\ c.busy = Server!None /\ c.kill = kill /\ c.make = make
    BY <1>1, <1>2, <1>e, <2>5
  <2>7. OpFits(c)
    BY <1>2, <2>2, <2>6 DEF OpFits, Server!None
  <2>8. task'[t] = c
    BY <2>1, <2>5, <2>7, Moved DEF ReloadInv
  <2>9. PortShapes' /\ WebShapes'
    BY <1>1, <2>1, <2>2, <2>4 DEF ReloadInv, PortShapes, WebShapes
  <2>10. Books /\ OnWay(o) => Books' /\ OnWay(task[t])'
    <3> SUFFICES ASSUME Books, OnWay(o) PROVE Books' /\ OnWay(c)'
      BY <2>8
    <3>1. \A n \in Names : Held(n) = d[n]
      BY <1>2, <1>i, <1>d, <2>2 DEF Books, Held
    <3>2. \A n \in Names : Held(n)' = d[n]
      BY <1>1, <1>2, <1>d, <2>1, <2>2 DEF Held
    <3>3. Books'
      <4>1. \A j \in Server!Adapters : j # i => \A n \in Names : ports[j][n] = 0
        BY <1>2, <1>i DEF Books
      <4>2. ASSUME NEW x \in Server!Objs, objs[x].state = "up"
            PROVE  objs[x].name \in Names /\ Held(objs[x].name)' = x
        <5>1. objs[x].name \in Names /\ Held(objs[x].name) = x
          BY <4>2 DEF Books
        <5>2. Held(objs[x].name)' = d[objs[x].name]
          BY <1>1, <1>2, <1>d, <2>1, <2>2 DEF Held
        <5> QED
          BY <3>1, <5>1, <5>2
      <4>3. ASSUME NEW n \in Names, Held(n)' # 0
            PROVE  (objs[Held(n)].state = "up" /\ objs[Held(n)].name = n)'
        BY <1>1, <3>1, <3>2, <4>3 DEF Books
      <4> QED
        BY <1>1, <2>1, <4>1, <4>2, <4>3 DEF Books
    <3>4. gaps'[i] = gap /\ loaded' = cfg /\ objs' = objs /\ pm' = pm
      BY <1>1, <1>4, <2>1, <2>2 DEF ReloadInv, PortShapes
    <3>5. \A n \in Names : cfg[n] \in Server!Good \/ cfg[n] = "none" \/ cfg[n] = "bad"
      BY <1>2 DEF Server!Entries
    <3>6. Server!Good = {"a", "b"}
      BY DEF Server!Good
    <3>7. ASSUME NEW n \in Names, n \notin c.make, n \notin c.kill PROVE AsAsked(n)'
      <4>1. CASE d[n] = 0
        <5>1. cfg[n] = "none" \/ (cfg[n] = "bad" /\ n \in gap)
          BY <1>g, <1>k, <2>6, <3>5, <3>6, <3>7, <4>1 DEF Server!Added, Server!Rejected
        <5> QED
          BY <2>1, <3>2, <3>4, <4>1, <5>1 DEF AsAsked
      <4>2. CASE d[n] # 0
        <5>1. cfg[n] = objs[d[n]].entry \/ (cfg[n] = "bad" /\ n \in gap)
          BY <1>g, <1>k, <2>6, <3>5, <3>6, <3>7, <4>2
             DEF Server!Removed, Server!Updated, Server!Differ, Server!Rejected
        <5> QED
          BY <2>1, <3>2, <3>4, <4>2, <5>1 DEF AsAsked
      <4> QED
        BY <4>1, <4>2
    <3>8. \A n \in c.make : n \in Names /\ cfg[n] \in Server!Good /\ (d[n] = 0 \/ n \in c.kill)
      BY <1>k, <2>6, <3>5, <3>6
         DEF Server!Added, Server!Updated, Server!Differ, Server!Rejected
    <3>9. \A n \in c.kill : n \in Names /\ d[n] # 0 /\ (n \in c.make \/ cfg[n] = "none")
      BY <1>k, <2>6 DEF Server!Removed, Server!Updated, Server!Differ
    <3>10. \A n \in Names : pm'[n] = d[n] /\ n # c.busy
      BY <1>2, <1>4, <2>6, <3>1, <3>4
    <3>11. c.of = unified' /\ loaded' = c.cfg
      BY <2>1, <2>6, <3>4
    <3>12. OnWay(c)'
      BY <2>6, <3>2, <3>7, <3>8, <3>9, <3>10, <3>11 DEF OnWay
    <3> QED
      BY <3>3, <3>12
  <2>11. console # 0 /\ unified = console /\ Signed(o)
         => unified' = console' /\ console' # 0 /\ Signed(task[t])'
    <3> SUFFICES ASSUME console # 0, unified = console, Signed(o)
                 PROVE  unified' = console' /\ console' # 0 /\ Signed(c)'
      BY <2>8
    <3>1. ~lacks /\ web' = web /\ unified' = unified
      BY <1>i, <2>1
    <3>2. Served'
      BY <1>1, <1>3, <3>1 DEF Served, Answers, OnlyUp
    <3> QED
      BY <1>1, <2>6, <3>1, <3>2 DEF Signed
  <2> QED
    BY <1>1, <1>2, <2>1, <2>5, <2>6, <2>7, <2>9, <2>10, <2>11, StageFits
<1> QED
  BY <1>5, <1>6
-----------------------------------------------------------------------------
LEMMA ReloadKeeps == ReloadInv /\ [Server!Next]_Server!vars => ReloadInv'
<1> SUFFICES ASSUME ReloadInv, [Server!Next]_Server!vars PROVE ReloadInv'
  OBVIOUS
<1>1. CASE UNCHANGED Server!vars
  <2>1. PortShapes' /\ WebShapes'
    BY <1>1 DEF ReloadInv, Server!vars, PortShapes, WebShapes
  <2>2. TasksFit' /\ Alone'
    BY <1>1 DEF ReloadInv, Server!vars, TasksFit, OpFits, Alone, Server!Busy
  <2>3. PortsFit' /\ WebFits'
    BY <1>1, PortsRest, WebRests DEF ReloadInv, Server!vars
  <2> QED
    BY <2>1, <2>2, <2>3 DEF ReloadInv
<1>2. CASE Server!Next
  <2>1. ~halted
    BY <1>2 DEF Server!Next
  <2>2. ASSUME NEW n \in Names, NEW e \in Server!Entries, Server!Edit(n, e) PROVE ReloadInv'
    BY <2>2, EditFits
  <2>3. ASSUME NEW i \in Server!Adapters, Server!Sign(i) PROVE ReloadInv'
    BY <2>1, <2>3, SignFits
  <2>4. ASSUME NEW t \in Tasks,
               \/ Server!SoftBegins(t) \/ Server!ShutdownBegins(t)
               \/ \E own \in BOOLEAN : Server!FullBegins(t, own)
        PROVE  ReloadInv'
    BY <2>1, <2>4, SoftBeginFits, FullBeginFits
  <2>5. ASSUME NEW t \in Tasks, Server!Step(t) PROVE ReloadInv'
    BY <2>1, <2>5, ClassifyFits, SoftEndFits, StopConsoleFits, HaltFits, RecreateFits,
       StartConsoleFits, LateRestartFits, LimitFits, KillBeginFits, MakeBeginFits
       DEF Server!Step
  <2>6. ASSUME NEW t \in Tasks,
               Server!KillEnds(t) \/ Server!Made(t) \/ Server!MakeFails(t) \/ Server!FullFails(t)
        PROVE  ReloadInv'
    BY <2>1, <2>6, KillEndFits, MadeFits, MakeFailFits, FullFailFits
  <2> QED
    BY <1>2, <2>2, <2>3, <2>4, <2>5, <2>6 DEF Server!Next
<1> QED
  BY <1>1, <1>2

(* reconcile_ports and reload_adapters_full, for any file, any number of   *)
(* operations one after another and any failures of ports: at rest, if no  *)
(* two operations overlapped and no limit struck, the server runs what the *)
(* file it loaded asks for, or records the gap, and no object is left      *)
(* over.                                                                   *)
THEOREM ServerRunsTheFile == Server!Spec => []RunsWhatIsAsked
<1>1. ReloadInv => RunsWhatIsAsked
  <2> SUFFICES ASSUME ReloadInv, Server!Settled, overlaps \cap {"overlap", "limit"} = {},
                      ~halted, unified # 0
               PROVE  /\ \A n \in Names :
                           LET o == ports[unified][n] IN
                           /\ pm[n] = o
                           /\ IF o = 0 THEN loaded[n] = "none" \/ n \in gaps[unified]
                              ELSE /\ objs[o].state = "up"
                                   /\ \/ objs[o].entry = loaded[n]
                                      \/ loaded[n] = "bad" /\ n \in gaps[unified]
                      /\ \A x \in Server!Objs :
                           objs[x].state = "up" => ports[unified][objs[x].name] = x
    BY DEF RunsWhatIsAsked, Server!RunsWhatIsAsked
  <2>1. Books /\ AtRest
    BY DEF ReloadInv, PortsFit
  <2>2. \A n \in Names : Held(n) = ports[unified][n]
    BY DEF Held
  <2>3. \A x \in Server!Objs : objs[x].state = "up" => ports[unified][objs[x].name] = x
    BY <2>1, <2>2 DEF Books
  <2>4. \A n \in Names : pm[n] = ports[unified][n] /\ AsAsked(n)
    BY <2>1, <2>2 DEF AtRest
  <2>5. \A n \in Names : ports[unified][n] # 0 => objs[ports[unified][n]].state = "up"
    BY <2>1, <2>2 DEF Books
  <2> QED
    BY <2>2, <2>3, <2>4, <2>5 DEF AsAsked
<1> QED
  BY StartFits, ReloadKeeps, <1>1, PTL DEF Server!Spec

(* _capture_login_sessions, for any number of reloads of either kind, by a *)
(* signal or from the browser itself: at rest, if no two operations        *)
(* overlapped, none failed and the browser left its session alone          *)
(* meanwhile, the console that answers knows the browser exactly when it   *)
(* believes so.                                                            *)
THEOREM BrowsersAreKept == Server!Spec => []BrowsersStaySigned
<1>1. ReloadInv => BrowsersStaySigned
  BY DEF ReloadInv, WebFits, Served, Answers, BrowsersStaySigned, Server!BrowsersStaySigned
<1> QED
  BY StartFits, ReloadKeeps, <1>1, PTL DEF Server!Spec
=============================================================================
