------------------------- MODULE ThrottledAuthenticator -------------------------
(***************************************************************************)
(* The throttled authenticator stands between the sessions and the         *)
(* authenticator that checks passwords.  It remembers the failures of each *)
(* user and of each address; an attempt on a user or from an address that  *)
(* failed too often waits, and one timer lets the waiting attempts go.     *)
(*                                                                         *)
(* Every function holds mutex_ from its first access to its last, and the  *)
(* results of the wrapped authenticator, the timers and the end of a       *)
(* session are all handled on the event loop of the server: each is one    *)
(* step.  What interleaves are the attempts.  A session has one at a time. *)
(* Attempts with the method 'none' are left out: the sessions make none.   *)
(*                                                                         *)
(* Time is relative: a failure has an age, a delay the time left of it.    *)
(***************************************************************************)
EXTENDS Integers, Sequences, FiniteSets

CONSTANTS
  Sessions,       \* the targets of the attempts
  Users,          \* their names, whether they exist or not
  Addresses,      \* IPv4 addresses, upper halves of IPv6 ones
  AddressOf,      \* session -> address of its peer
  MaxFailures, FailuresWindow, Delay, Cap,   \* the options, set once
  Off             \* a timer that is not armed

ASSUME SessionAssumption == AddressOf \in [Sessions -> Addresses]
ASSUME OptionAssumption  ==
  /\ MaxFailures \in Nat \ {0} /\ FailuresWindow \in Nat
  /\ Delay \in Nat /\ Cap \in Nat /\ Delay <= Cap
ASSUME KeyAssumption     == Users \cap Addresses = {}
ASSUME OffAssumption     == Off \notin Nat

VARIABLES
  phase,       \* session -> what has become of its attempt
  user,        \* session -> name_ of its worker
  verifying,   \* session -> whether methods_ are just_verify
  wait,        \* session -> time left to its key in waiting_workers_
  patience,    \* history: session -> what is left of Cap since it began to wait
  timepoints,  \* user or address -> its latest failures, as ages
  next_try,    \* user or address -> time left to its next_try_
  auth_timer,  \* time left of auth_timer_id_, or Off
  purge_timer  \* time left of purging_timer_id_, or Off

attemptVars == <<phase, user, verifying, wait, patience>>
failureVars == <<timepoints, next_try>>
vars        == <<attemptVars, failureVars, auth_timer, purge_timer>>

(* "none": no worker; "waiting": in waiting_workers_; "asked": the wrapped    *)
(* authenticator works; "answered": the result is on its way to the session;  *)
(* "held": the session has the operation, to stop it or to go on with it.     *)
Phases == {"none", "waiting", "asked", "answered", "held"}

Keys    == Users \cup Addresses
KeysOf(s, u) == {u, AddressOf[s]}

Waiting == {s \in Sessions : phase[s] = "waiting"}

Init ==
  /\ phase = [s \in Sessions |-> "none"]
  /\ user \in [Sessions -> Users]
  /\ verifying = [s \in Sessions |-> FALSE]
  /\ wait = [s \in Sessions |-> 0]
  /\ patience = [s \in Sessions |-> 0]
  /\ timepoints = [k \in Keys |-> <<>>]
  /\ next_try = [k \in Keys |-> 0]
  /\ auth_timer = Off
  /\ purge_timer = Off

-----------------------------------------------------------------------------
(* failures_t                                                                 *)

Smaller(x, y) == IF x <= y THEN x ELSE y
Larger(x, y)  == IF x >= y THEN x ELSE y

(* Failures come in order: those out of the window are the first ones.        *)
purge_old(times) ==
  SubSeq(times,
         Cardinality({i \in DOMAIN times : times[i] >= FailuresWindow}) + 1,
         Len(times))

(* Variant: the cap is forgotten.                                             *)
NextTryUncapped(times, t) ==
  IF Len(times) >= MaxFailures THEN t + Delay ELSE 0

set_next_try(times, t) ==
  IF Len(times) >= MaxFailures THEN Smaller(t + Delay, Cap) ELSE 0

(* One more failure, now.  MaxFailures at most are kept: the latest one gives *)
(* way.                                                                       *)
With(times) ==
  LET t == purge_old(times)
  IN IF Len(t) < MaxFailures THEN Append(t, 0) ELSE [t EXCEPT ![Len(t)] = 0]

(* The failure of s counts for its user and for its address.                  *)
record_failure(s) ==
  /\ timepoints' = [k \in Keys |->
       IF k \in KeysOf(s, user[s]) THEN With(timepoints[k]) ELSE timepoints[k]]
  /\ next_try' = [k \in Keys |->
       IF k \in KeysOf(s, user[s])
         THEN set_next_try(With(timepoints[k]), next_try[k])
         ELSE next_try[k]]
  /\ purge_timer' = IF purge_timer = Off THEN FailuresWindow ELSE purge_timer

-----------------------------------------------------------------------------
(* try_to_authenticate(): the attempt waits for the later of the two times,   *)
(* and the next one for as much longer.                                       *)

(* Variant: only the address counts.                                          *)
AddressDelay(s, u) == next_try[AddressOf[s]]

DelayOf(s, u) == Larger(next_try[u], next_try[AddressOf[s]])

try_to_authenticate(s, u) ==
  LET delta == DelayOf(s, u)
  IN /\ next_try' = [k \in Keys |->
          IF k \in KeysOf(s, u) /\ next_try[k] > 0
            THEN set_next_try(timepoints[k], next_try[k])
            ELSE next_try[k]]
     /\ IF delta = 0
          THEN /\ phase' = [phase EXCEPT ![s] = "asked"]
               /\ UNCHANGED <<wait, patience, auth_timer>>
          ELSE /\ phase' = [phase EXCEPT ![s] = "waiting"]
               /\ wait' = [wait EXCEPT ![s] = delta]
               /\ patience' = [patience EXCEPT ![s] = Cap]
               /\ auth_timer' = IF auth_timer = Off THEN delta ELSE auth_timer
     /\ UNCHANGED <<timepoints, purge_timer>>

(* A session asks for the methods of a user (just_verify) or, as the web      *)
(* server does, for the password at once.                                     *)
authenticate(s, u, v) ==
  /\ phase[s] = "none"
  /\ user' = [user EXCEPT ![s] = u]
  /\ verifying' = [verifying EXCEPT ![s] = v]
  /\ try_to_authenticate(s, u)

(* operation::next()                                                          *)
next(s) ==
  /\ phase[s] = "held"
  /\ verifying' = [verifying EXCEPT ![s] = FALSE]
  /\ try_to_authenticate(s, user[s])
  /\ UNCHANGED user

(* operation::stop()                                                          *)
stop(s) ==
  /\ phase[s] = "held"
  /\ phase' = [phase EXCEPT ![s] = "none"]
  /\ UNCHANGED <<user, verifying, wait, patience, failureVars, auth_timer, purge_timer>>

(* The destructor of a worker: an attempt that is abandoned while the wrapped *)
(* authenticator works counts as a failure.                                   *)
Abandoned(s) ==
  IF phase[s] = "asked" THEN record_failure(s) ELSE UNCHANGED <<failureVars, purge_timer>>

(* The session ends, or its login timed out.                                  *)
stop_ongoing_authentications(s) ==
  /\ phase[s] # "none"
  /\ phase' = [phase EXCEPT ![s] = "none"]
  /\ wait' = [wait EXCEPT ![s] = 0]
  /\ patience' = [patience EXCEPT ![s] = 0]
  /\ Abandoned(s)
  /\ UNCHANGED <<user, verifying, auth_timer>>

-----------------------------------------------------------------------------
(* The wrapped authenticator has answered.  A failure counts unless only the  *)
(* methods were asked for, or the error is an internal one.                   *)
on_operation_result(s, failed) ==
  /\ phase[s] = "asked"
  /\ phase' = [phase EXCEPT ![s] = "answered"]
  /\ IF failed /\ ~verifying[s]
       THEN record_failure(s)
       ELSE UNCHANGED <<failureVars, purge_timer>>
  /\ UNCHANGED <<user, verifying, wait, patience, auth_timer>>

(* The session handles result_event, which gives it the operation.            *)
ResultEvent(s) ==
  /\ phase[s] = "answered"
  /\ phase' = [phase EXCEPT ![s] = "held"]
  /\ UNCHANGED <<user, verifying, wait, patience, failureVars, auth_timer, purge_timer>>

Due == {s \in Waiting : wait[s] = 0}

(* The attempts that are due go on; the timer is set for the first of the     *)
(* others.                                                                    *)

(* Variant: it is not.                                                        *)
NotRearmed == auth_timer' = Off

Rearmed ==
  IF Waiting = Due
    THEN auth_timer' = Off
    ELSE \E s \in Waiting \ Due :
           /\ \A t \in Waiting \ Due : wait[s] <= wait[t]
           /\ auth_timer' = wait[s]

AuthTimer ==
  /\ auth_timer = 0
  /\ phase' = [s \in Sessions |-> IF s \in Due THEN "asked" ELSE phase[s]]
  /\ patience' = [s \in Sessions |-> IF s \in Due THEN 0 ELSE patience[s]]
  /\ Rearmed
  /\ UNCHANGED <<user, verifying, wait, failureVars, purge_timer>>

(* Whoever has no failure left within the window is forgotten, next_try_      *)
(* included.                                                                  *)
PurgeTimer ==
  LET kept == [k \in Keys |-> purge_old(timepoints[k])]
  IN /\ purge_timer = 0
     /\ timepoints' = kept
     /\ next_try' = [k \in Keys |-> IF kept[k] = <<>> THEN 0 ELSE next_try[k]]
     /\ purge_timer' =
          IF \A k \in Keys : kept[k] = <<>> THEN Off ELSE FailuresWindow
     /\ UNCHANGED <<attemptVars, auth_timer>>

Less(t) == IF t \in Nat /\ t > 0 THEN t - 1 ELSE t

(* Failures that are out of the window are not told apart.                    *)
Tick ==
  /\ wait' = [s \in Sessions |-> Less(wait[s])]
  /\ patience' = [s \in Sessions |-> Less(patience[s])]
  /\ timepoints' = [k \in Keys |-> [i \in DOMAIN timepoints[k] |->
       Smaller(timepoints[k][i] + 1, FailuresWindow)]]
  /\ next_try' = [k \in Keys |-> Less(next_try[k])]
  /\ auth_timer' = Less(auth_timer)
  /\ purge_timer' = Less(purge_timer)
  /\ UNCHANGED <<phase, user, verifying>>

Next ==
  \/ \E s \in Sessions :
       \/ \E u \in Users, v \in BOOLEAN : authenticate(s, u, v)
       \/ next(s) \/ stop(s) \/ stop_ongoing_authentications(s)
       \/ \E failed \in BOOLEAN : on_operation_result(s, failed)
       \/ ResultEvent(s)
  \/ AuthTimer \/ PurgeTimer \/ Tick

Spec == Init /\ [][Next]_vars

(* Time passes, timers fire, and the wrapped authenticator answers.           *)
Fairness ==
  /\ WF_vars(Tick) /\ WF_vars(AuthTimer)
  /\ \A s \in Sessions :
       WF_vars(\E failed \in BOOLEAN : on_operation_result(s, failed))

FairSpec == Spec /\ Fairness

-----------------------------------------------------------------------------
(* Properties *)

(* Type invariant.                                                            *)
TypeOK ==
  /\ phase \in [Sessions -> Phases]
  /\ user \in [Sessions -> Users]
  /\ verifying \in [Sessions -> BOOLEAN]
  /\ wait \in [Sessions -> 0 .. Cap]
  /\ patience \in [Sessions -> 0 .. Cap]
  /\ timepoints \in [Keys -> Seq(0 .. FailuresWindow)]
  /\ next_try \in [Keys -> 0 .. Cap]
  /\ auth_timer \in 0 .. Cap \cup {Off}
  /\ purge_timer \in 0 .. FailuresWindow \cup {Off}

(* Nobody waits longer than the cap: while an attempt waits, the one timer is *)
(* armed, and both the timer and the attempt are due when Cap has passed      *)
(* since the attempt began to wait, although the timer was armed for another  *)
(* attempt and is not set anew for this one.                                  *)
NobodyWaitsLongerThanCap ==
  \A s \in Waiting :
    /\ auth_timer # Off /\ auth_timer <= patience[s]
    /\ wait[s] <= patience[s]

(* Too many failures slow down the next attempt: while the user or the        *)
(* address of an attempt has MaxFailures on record, the last of them less     *)
(* than Delay ago, the wrapped authenticator is not asked at once.            *)
Throttled(k) ==
  /\ Len(timepoints[k]) >= MaxFailures
  /\ timepoints[k][Len(timepoints[k])] < Smaller(Delay, FailuresWindow)

ThrottledAttemptsWait ==
  [][\A s \in Sessions :
       phase[s] \in {"none", "held"} /\ phase'[s] = "asked" =>
         \A k \in KeysOf(s, user'[s]) : ~Throttled(k)]_vars

(* Every attempt is answered or given up by its session, however many others  *)
(* come in between.                                                           *)
EveryAttemptAnswered ==
  \A s \in Sessions :
    phase[s] \in {"waiting", "asked"} ~> phase[s] \notin {"waiting", "asked"}

(* throttled_authenticator.cpp: "Authentication for user %s from IP %s will   *)
(* be delayed %ds.": once that time has passed, the timer is due.             *)
DelayAsLogged == \A s \in Waiting : wait[s] = 0 => auth_timer = 0
================================================================================
