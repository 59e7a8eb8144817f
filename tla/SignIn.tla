------------------------------- MODULE SignIn --------------------------------
(***************************************************************************)
(* The lockout of one account from one address, and the four ways to sign  *)
(* in with a password that share it: the HMAC challenge of the TCP         *)
(* listener, the prompts of the Telnet listener, the SSH listener and the  *)
(* form of the web console.  The first two suspend between the look at the *)
(* lock and the password.                                                  *)
(*                                                                         *)
(* Passwords are right or wrong.  recent is a ghost: when the latest wrong *)
(* passwords were judged, since a sign-in succeeded.                       *)
(***************************************************************************)
EXTENDS Integers, Sequences, FiniteSets

CONSTANTS Conns,
          Window,      \* window_seconds
          Threshold,   \* failure_threshold
          Base,        \* base_lock_seconds
          Cap,         \* 3600 in the code
          Life,        \* how long a challenge is good for, 30 in the code
          MaxTime      \* bound: the clock

VARIABLES
  now,
  rec,       \* _fail_tracker's record
  chal,      \* _pw_hmac_challenges' entry of the account
  phase,     \* of each connection
  tries,     \* the passwords a connection has judged
  recent

vars == <<now, rec, chal, phase, tries, recent>>

None == [fails |-> 0, first |-> 0, until |-> 0]   \* no record
NoChal == [by |-> "nobody", expires |-> 0]
MaxTries == 3   \* _AUTH_MAX_ATTEMPTS, _AUTH_LOGIN_MAX_ATTEMPTS

\* No count reaches MostFails: 2^n * Base exceeds what the clock allows.
MostFails == Threshold + MaxTime + 2 * Cardinality(Conns)

TypeOK ==
    /\ now \in 0..MaxTime
    /\ rec \in [fails : 0..MostFails, first : 0..MaxTime, until : 0..MaxTime + Cap]
    /\ chal \in [by : Conns \cup {"nobody"}, expires : 0..MaxTime + Life]
    /\ phase \in [Conns -> {"new", "nonce", "asked", "in", "out"}]
    /\ tries \in [Conns -> 0..MaxTries]
    /\ recent \in Seq(0..MaxTime)

Init ==
    /\ now = 0 /\ rec = None /\ chal = NoChal /\ recent = <<>>
    /\ phase = [c \in Conns |-> "new"] /\ tries = [c \in Conns |-> 0]

-----------------------------------------------------------------------------
(* AuthManager *)

Locked == rec.until > now

\* is_user_locked, which tidies the record it looks at.
Look == rec' = IF Locked THEN rec
               ELSE IF now - rec.first > Window THEN None
               ELSE [rec EXCEPT !.until = 0]

AtMost(a, b) == IF a < b THEN a ELSE b
AtLeast(a, b) == IF a > b THEN a ELSE b

LockFor(fails) == AtMost(Base * 2^(fails - Threshold), Cap)

\* register_auth_failure, on a record r.
Registered(r) ==
    IF r = None \/ now - r.first > Window THEN [fails |-> 1, first |-> now, until |-> 0]
    ELSE LET n == r.fails + 1
         IN  [r EXCEPT !.fails = n,
                       !.until = IF n < Threshold THEN @ ELSE AtLeast(@, now + LockFor(n))]

Wrong == rec' = Registered(rec) /\ recent' = Append(recent, now)

\* clear_auth_failures.
Right == rec' = None /\ recent' = <<>>

\* update_config.
Reload == /\ chal # NoChal /\ chal' = NoChal
          /\ UNCHANGED <<now, rec, phase, tries, recent>>

-----------------------------------------------------------------------------
Moves(c, from, to) == phase[c] = from /\ phase' = [phase EXCEPT ![c] = to]
Judged(c) == tries' = [tries EXCEPT ![c] = @ + 1]

(* The TCP listener *)

\* _auth_hmac up to the response, and start_password_hmac_challenge: the
\* challenge is the account's, not the connection's.
Hello(c) ==
    /\ tries[c] = 0
    /\ IF Locked THEN Moves(c, "new", "out") /\ UNCHANGED chal
       ELSE Moves(c, "new", "nonce") /\ chal' = [by |-> c, expires |-> now + Life]
    /\ Look /\ UNCHANGED <<now, tries, recent>>

\* verify_password_hmac: the right password does not help with a challenge
\* that is another's, used, or too old.
Answer(c) ==
    /\ UNCHANGED <<now, tries>>
    /\ \/ Locked /\ Moves(c, "nonce", "out") /\ UNCHANGED <<rec, chal, recent>>
       \/ /\ ~Locked /\ chal' = NoChal
          /\ \/ chal.by = c /\ now <= chal.expires /\ Moves(c, "nonce", "in") /\ Right
             \/ Moves(c, "nonce", "out") /\ Wrong
             \/ /\ chal.by # c \/ now > chal.expires
                /\ Moves(c, "nonce", "out")
                /\ rec' = Registered(rec) /\ UNCHANGED recent

(* The Telnet listener *)

\* _run_login up to the password.
Name(c) ==
    /\ phase[c] = "new" /\ tries[c] < MaxTries
    /\ Moves(c, "new", IF Locked THEN "out" ELSE "asked")
    /\ Look /\ UNCHANGED <<now, chal, tries, recent>>

\* The password, which is judged without a second look at the lock.
Password(c) ==
    /\ Judged(c) /\ UNCHANGED <<now, chal>>
    /\ \/ Moves(c, "asked", "in") /\ Right
       \/ Moves(c, "asked", IF tries'[c] = MaxTries THEN "out" ELSE "new") /\ Wrong

(* The SSH listener and the web console *)

\* validate_password, for an attempt that _auth_blocked lets through.
SshPassword(c) ==
    /\ tries[c] < MaxTries /\ ~Locked
    /\ Judged(c) /\ UNCHANGED <<now, chal>>
    /\ \/ Moves(c, "new", "in") /\ Right
       \/ Moves(c, "new", IF tries'[c] = MaxTries THEN "out" ELSE "new") /\ Wrong

\* validate_public_key: a key that fits also clears the count.
SshKey(c) ==
    /\ ~Locked /\ Moves(c, "new", "in") /\ Right /\ UNCHANGED <<now, chal, tries>>

\* Mutant: a login page judges a password whatever the lock says.
WebLoginUnseen == (Right \/ Wrong) /\ UNCHANGED <<now, chal, phase, tries>>

\* handle_login.
WebLogin == ~Locked /\ (Right \/ Wrong) /\ UNCHANGED <<now, chal, phase, tries>>

\* A connection ends, and another takes its place.
Hangup(c) ==
    /\ phase' = [phase EXCEPT ![c] = "new"] /\ tries' = [tries EXCEPT ![c] = 0]
    /\ UNCHANGED <<now, rec, chal, recent>>

Tick == /\ now < MaxTime /\ now' = now + 1
        /\ recent' = SelectSeq(recent, LAMBDA t : t + Window > now')
        /\ UNCHANGED <<rec, chal, phase, tries>>

Next == \/ Tick \/ Reload \/ WebLogin
        \/ \E c \in Conns : \/ Hello(c) \/ Answer(c) \/ Name(c) \/ Password(c)
                            \/ SshPassword(c) \/ SshKey(c) \/ Hangup(c)

Spec == Init /\ [][Next]_vars
-----------------------------------------------------------------------------
\* How many locks of their growing length begin within a window.
Locks == Cardinality({n \in 0..Window : Base * (2^n - 1) <= Window})

(* The lockout engages (CHANGELOG.md:105): within any window_seconds no    *)
(* more wrong passwords are judged than two counting windows hold: those   *)
(* below the threshold, those of the Telnet prompts that were open when a  *)
(* lock began, and one for each lock that ends in time.                    *)
GuessesAreFew ==
    Len(recent) <= 2 * (Threshold - 1 + Cardinality(Conns)) + Locks

=============================================================================
