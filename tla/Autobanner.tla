------------------------------- MODULE Autobanner -------------------------------
(***************************************************************************)
(* The autobanner: addresses whose logins fail too often within a time     *)
(* window are banned for a while.  Sessions report failures from their own *)
(* threads; the administrator changes the options from another; timers     *)
(* fire on the event loop of the server.  mutex_ makes the functions       *)
(* atomic but for two gaps: max_login_failures() is first read without it, *)
(* and a timer that the loop has taken off its list is no longer stopped   *)
(* by stop_timer(), even if its event has not reached the handler yet.     *)
(*                                                                         *)
(* Time is relative: a failure has an age, a timer the time it has left.   *)
(*                                                                         *)
(* What every specification has (Init, Next, ...) is named for bans here:  *)
(* the theorems on the autobanner stand in one module with those on the    *)
(* throttled authenticator.                                                *)
(***************************************************************************)
EXTENDS Integers, Sequences

CONSTANTS
  Networks,    \* what is banned: an IPv4 address or the upper half of an IPv6 one
  Reporters,   \* the sessions, those who report failed logins
  Ids,         \* bound: timers at once; an id that nothing can fire is free
  NoId,        \* the timer_id of a handle without a timer
  NoAddress,   \* what the timer map has for an id it does not know
  Options,     \* the options the administrator may set
  MaxAge       \* bound: failures older than any window are not told apart

ASSUME IdsAssumption     == NoId \notin Ids
ASSUME AddressAssumption == NoAddress \notin Networks
ASSUME OptionsAssumption ==
  /\ MaxAge \in Nat
  /\ \A o \in Options :
       /\ o.max \in Nat /\ o.window \in Nat /\ o.ban \in Nat
       /\ o.window < MaxAge

VARIABLES
  opts,      \* opts_: max_login_failures, login_failures_time_window, ban_duration
  known,     \* addresses that have a handle in ipv4_map_ or ipv6_map_
  failures,  \* address -> failed_timepoints of its handle, as ages
  timer,     \* address -> timer_id of its handle
  timerMap,  \* timer id -> address, the timer map
  running,   \* timers the event loop has on its list
  left,      \* timer id -> time left until it expires
  firing,    \* the timer whose event is on its way to the handler
  reports    \* session -> address whose failed login it is reporting

handleVars == <<known, failures, timer, timerMap>>
loopVars   == <<running, left, firing>>
banVars    == <<opts, handleVars, loopVars, reports>>

BanInit ==
  /\ opts \in Options
  /\ known = {}
  /\ failures = [a \in Networks |-> <<>>]
  /\ timer = [a \in Networks |-> NoId]
  /\ timerMap = [i \in Ids |-> NoAddress]
  /\ running = {}
  /\ left = [i \in Ids |-> 0]
  /\ firing = NoId
  /\ reports = [s \in Reporters |-> NoAddress]

(* is_banned()                                                                *)

Banned(a) ==
  opts.max # 0 /\ a \in known /\ Len(failures[a]) >= opts.max

-----------------------------------------------------------------------------
(* set_failed_login(): opts_.max_login_failures() is tested before the lock   *)
(* is taken.                                                                  *)

Report(s, a) ==
  /\ reports[s] = NoAddress
  /\ opts.max # 0
  /\ reports' = [reports EXCEPT ![s] = a]
  /\ UNCHANGED <<opts, handleVars, loopVars>>

(* The handle's timer is replaced.  Stopping one that is no longer running    *)
(* does nothing, and the timer map keeps what it knows of it.                 *)

(* Variants: the new timer is not entered in the map; no timer is started.    *)
TimerUnmapped(a, d) ==
  \E i \in Ids \ (running \cup {firing}) :
    /\ running' = (running \ {timer[a]}) \cup {i}
    /\ left' = [left EXCEPT ![i] = d]
    /\ timer' = [timer EXCEPT ![a] = i]
    /\ timerMap' = [timerMap EXCEPT ![i] = NoAddress]
    /\ UNCHANGED firing

ReplaceTimer(a, d) ==
  \E i \in Ids \ (running \cup {firing}) :
    /\ running' = (running \ {timer[a]}) \cup {i}
    /\ left' = [left EXCEPT ![i] = d]
    /\ timer' = [timer EXCEPT ![a] = i]
    /\ timerMap' = [timerMap EXCEPT ![i] = a]
    /\ UNCHANGED firing

(* The failures of a with one more, now; is the ban due?                      *)

Failed(a) == Append(failures[a], 0)

Burst(a) ==
  Len(Failed(a)) >= opts.max /\ Head(Failed(a)) <= opts.window

(* Variant: the oldest failure is kept.                                       *)
KeptAll(a) == Failed(a)

Kept(a) ==
  IF Len(Failed(a)) >= opts.max /\ ~Burst(a) THEN Tail(Failed(a)) ELSE Failed(a)

set_failed_login(s) ==
  LET a == reports[s]
  IN /\ a # NoAddress
     /\ reports' = [reports EXCEPT ![s] = NoAddress]
     /\ known' = known \cup {a}
     /\ IF Len(failures[a]) >= opts.max
          THEN UNCHANGED <<failures, timer, timerMap, loopVars>>
          ELSE /\ failures' = [failures EXCEPT ![a] = Kept(a)]
               /\ ReplaceTimer(a, IF Burst(a) THEN opts.ban ELSE opts.window)
     /\ UNCHANGED opts

-----------------------------------------------------------------------------
(* The event loop takes an expired timer off its list, and then, without its  *)
(* lock, calls the handler, which waits for mutex_.                           *)

TimerExpires(i) ==
  /\ firing = NoId
  /\ i \in running
  /\ left[i] = 0
  /\ running' = running \ {i}
  /\ firing' = i
  /\ UNCHANGED <<opts, handleVars, left, reports>>

(* The handle is erased if the timer map knows the id.                        *)

(* Variant: the id is forgotten, the handle is not.                           *)
OnTimerKeepsHandle ==
  /\ firing # NoId
  /\ timerMap' = [timerMap EXCEPT ![firing] = NoAddress]
  /\ firing' = NoId
  /\ UNCHANGED <<opts, known, failures, timer, running, left, reports>>

OnTimer ==
  /\ firing # NoId
  /\ LET a == timerMap[firing]
     IN IF a = NoAddress
          THEN UNCHANGED handleVars
          ELSE /\ known' = known \ {a}
               /\ failures' = [failures EXCEPT ![a] = <<>>]
               /\ timer' = [timer EXCEPT ![a] = NoId]
               /\ timerMap' = [timerMap EXCEPT ![firing] = NoAddress]
  /\ firing' = NoId
  /\ UNCHANGED <<opts, running, left, reports>>

set_options ==
  /\ opts' \in Options \ {opts}
  /\ UNCHANGED <<handleVars, loopVars, reports>>

BanTick ==
  /\ left' = [i \in Ids |-> IF left[i] > 0 THEN left[i] - 1 ELSE 0]
  /\ failures' = [a \in Networks |->
       [k \in 1 .. Len(failures[a]) |->
          IF failures[a][k] < MaxAge THEN failures[a][k] + 1 ELSE MaxAge]]
  /\ UNCHANGED <<opts, known, timer, timerMap, running, firing, reports>>

BanNext ==
  \/ \E s \in Reporters : (\E a \in Networks : Report(s, a)) \/ set_failed_login(s)
  \/ \E i \in Ids : TimerExpires(i)
  \/ OnTimer \/ set_options \/ BanTick

BanSpec == BanInit /\ [][BanNext]_banVars

(* Time passes, the event loop serves every timer that expired, and calls its *)
(* handlers.                                                                  *)

BanFairness ==
  WF_banVars(BanTick) /\ WF_banVars(OnTimer) /\ \A i \in Ids : SF_banVars(TimerExpires(i))

FairBanSpec == BanSpec /\ BanFairness

-----------------------------------------------------------------------------
(* Properties *)

(* Type invariant.                                                            *)
BanTypeOK ==
  /\ opts \in Options
  /\ known \subseteq Networks
  /\ failures \in [Networks -> Seq(0 .. MaxAge)]
  /\ timer \in [Networks -> Ids \cup {NoId}]
  /\ timerMap \in [Ids -> Networks \cup {NoAddress}]
  /\ running \subseteq Ids
  /\ left \in [Ids -> Nat]
  /\ firing \in Ids \cup {NoId}
  /\ reports \in [Reporters -> Networks \cup {NoAddress}]

(* No failure is remembered for ever: as long as failures are recorded for an *)
(* address, the timer of its handle will fire and the timer map leads from it *)
(* to that address, and hence no two addresses share a timer.  A failure that *)
(* comes between a timer's expiry and its event must not break this.          *)
FailuresAreTimed ==
  \A a \in Networks : failures[a] # <<>> =>
    /\ a \in known
    /\ timer[a] \in running \cup {firing} /\ timer[a] # NoId
    /\ timerMap[timer[a]] = a

(* An address is banned only for a burst: when a report makes it banned, the  *)
(* last failures, as many as the options in force then say, all happened      *)
(* within the time window, whatever the options were when they were recorded. *)
BanNeedsBurst ==
  [][\A a \in Networks :
       ~Banned(a) /\ Banned(a)' /\ opts' = opts =>
         Len(failures'[a]) = opts.max /\ failures'[a][1] <= opts.window]_banVars

(* Every ban ends, whatever else is reported and however the options change.  *)
EveryBanEnds == \A a \in Networks : Banned(a) ~> ~Banned(a)

(* settingsdialog.cpp: "The ban will last": a ban is lifted by its own timer, *)
(* unless the options change.                                                 *)
BanLasts ==
  [][\A a \in Networks :
       Banned(a) /\ ~Banned(a)' /\ opts' = opts => firing = timer[a]]_banVars
================================================================================
