----------------------------- MODULE AdmissionProofs -----------------------------
(***************************************************************************)
(* Theorems about who is let in: the throttled authenticator, which makes  *)
(* attempts wait, the autobanner, which bans addresses, and the server,    *)
(* which asks of every socket whether its address is banned.  No part uses *)
(* another: the first two count failures on their own, and of a ban the    *)
(* server's model knows only whom it is for.                               *)
(*                                                                         *)
(* For the authenticator the sessions, users and addresses are any, and so *)
(* are the options with a delay that the cap allows.  The invariant has    *)
(* two parts that do not depend on each other.  NobodyWaitsLongerThanCap   *)
(* bounds every waiting attempt and the timer by what is left of Cap.      *)
(* Slowed says that whoever has MaxFailures on record cannot try before    *)
(* Delay has passed since the last one.                                    *)
(***************************************************************************)
EXTENDS ThrottledAuthenticator, Autobanner, TcpServer,
        FiniteSetTheorems, SequenceTheorems, TLAPS

Ages == 0 .. FailuresWindow
Lag  == Smaller(Delay, FailuresWindow)

LastOf(times) == times[Len(times)]

Slowed ==
  \A k \in Keys :
    Len(timepoints[k]) >= MaxFailures => next_try[k] + LastOf(timepoints[k]) >= Lag

IInv == TypeOK /\ NobodyWaitsLongerThanCap /\ Slowed

-----------------------------------------------------------------------------
(* The options, as numbers.                                                   *)
LEMMA Numbers ==
  /\ MaxFailures \in Nat /\ MaxFailures >= 1 /\ FailuresWindow \in Nat
  /\ Delay \in Nat /\ Cap \in Nat /\ Delay <= Cap
  /\ Lag \in Nat /\ Lag <= Delay /\ Lag <= FailuresWindow
  /\ 0 \in Ages
BY OptionAssumption, SMT DEF Lag, Smaller, Ages

(* A session's attempt has two keys.                                          *)
LEMMA KeyFacts ==
  ASSUME NEW s \in Sessions, NEW u \in Users
  PROVE  /\ u \in Keys /\ AddressOf[s] \in Keys
         /\ KeysOf(s, u) \subseteq Keys
         /\ u \in KeysOf(s, u) /\ AddressOf[s] \in KeysOf(s, u)
BY SessionAssumption DEF Keys, KeysOf

(* What is left of a sequence of failures when the old ones are dropped.      *)
LEMMA PurgeFacts ==
  ASSUME NEW times \in Seq(Ages)
  PROVE  /\ purge_old(times) \in Seq(Ages)
         /\ Len(purge_old(times)) \in Nat
         /\ Len(purge_old(times)) >= 1 =>
              Len(times) >= Len(purge_old(times)) /\ LastOf(purge_old(times)) = LastOf(times)
<1> DEFINE old == {i \in DOMAIN times : times[i] >= FailuresWindow}
           c   == Cardinality(old)
           n   == Len(times)
<1>1. n \in Nat /\ DOMAIN times = 1 .. n
  OBVIOUS
<1>2. c \in Nat /\ c <= n
  <2>1. IsFiniteSet(1 .. n) /\ Cardinality(1 .. n) = n
    BY <1>1, FS_Interval, SMT
  <2>2. old \in SUBSET (1 .. n)
    BY <1>1
  <2>3. IsFiniteSet(old) /\ c <= n
    BY <2>1, <2>2, FS_Subset
  <2>4. QED
    BY <2>3, FS_CardinalityType
<1>3. purge_old(times) = SubSeq(times, c + 1, n)
  BY DEF purge_old
<1> HIDE DEF c
<1>4. \A i \in c + 1 .. n : times[i] \in Ages
  BY <1>1, <1>2, SMT
<1>5. /\ SubSeq(times, c + 1, n) \in Seq(Ages)
      /\ Len(SubSeq(times, c + 1, n)) = IF c + 1 <= n THEN n - (c + 1) + 1 ELSE 0
      /\ \A i \in 1 .. n - (c + 1) + 1 : SubSeq(times, c + 1, n)[i] = times[i + (c + 1) - 1]
  <2>1. c + 1 \in Int /\ n \in Int
    BY <1>1, <1>2, SMT
  <2>2. QED
    BY <1>4, <2>1, SubSeqProperties
<1>6. QED
  BY <1>1, <1>2, <1>3, <1>5, SMT DEF LastOf

(* One more failure: it is the last one.                                      *)
LEMMA WithFacts ==
  ASSUME NEW times \in Seq(Ages)
  PROVE  /\ With(times) \in Seq(Ages)
         /\ Len(With(times)) \in Nat
         /\ LastOf(With(times)) = 0
<1> DEFINE t == purge_old(times)
<1>1. t \in Seq(Ages) /\ Len(t) \in Nat
  BY PurgeFacts
<1>2. With(times) = IF Len(t) < MaxFailures THEN Append(t, 0) ELSE [t EXCEPT ![Len(t)] = 0]
  BY DEF With
<1> HIDE DEF t
<1>3. CASE Len(t) < MaxFailures
  BY <1>1, <1>2, <1>3, Numbers, AppendProperties DEF LastOf
<1>4. CASE ~(Len(t) < MaxFailures)
  <2>1. Len(t) \in 1 .. Len(t)
    BY <1>1, <1>4, Numbers, SMT
  <2>2. /\ [t EXCEPT ![Len(t)] = 0] \in Seq(Ages)
        /\ Len([t EXCEPT ![Len(t)] = 0]) = Len(t)
        /\ [t EXCEPT ![Len(t)] = 0][Len(t)] = 0
    BY <1>1, <2>1, Numbers, ExceptSeq
  <2>3. QED
    BY <1>1, <1>2, <1>4, <2>2 DEF LastOf
<1>5. QED
  BY <1>3, <1>4

(* The next try is put off by Delay, but not beyond the cap.                  *)
LEMMA NextTryFacts ==
  ASSUME NEW times, NEW t \in 0 .. Cap
  PROVE  /\ set_next_try(times, t) \in 0 .. Cap
         /\ Len(times) >= MaxFailures => set_next_try(times, t) >= Lag
BY Numbers, SMT DEF set_next_try, Smaller

-----------------------------------------------------------------------------
(* The steps *)

(* A recorded failure: the failures of two keys and the purging timer.        *)
LEMMA RecordStep ==
  ASSUME IInv, NEW s \in Sessions, record_failure(s)
  PROVE  /\ timepoints' \in [Keys -> Seq(Ages)]
         /\ next_try' \in [Keys -> 0 .. Cap]
         /\ purge_timer' \in 0 .. FailuresWindow \cup {Off}
         /\ Slowed'
<1>1. /\ timepoints \in [Keys -> Seq(Ages)]
      /\ next_try \in [Keys -> 0 .. Cap]
      /\ purge_timer \in 0 .. FailuresWindow \cup {Off}
  BY DEF IInv, TypeOK, Ages
<1>2. \A k \in Keys :
        /\ With(timepoints[k]) \in Seq(Ages)
        /\ Len(With(timepoints[k])) \in Nat
        /\ LastOf(With(timepoints[k])) = 0
  BY <1>1, WithFacts
<1>3. \A k \in Keys :
        LET t == set_next_try(With(timepoints[k]), next_try[k])
        IN  t \in 0 .. Cap /\ (Len(With(timepoints[k])) >= MaxFailures => t >= Lag)
  BY <1>1, NextTryFacts
<1>4. timepoints' \in [Keys -> Seq(Ages)]
  BY <1>1, <1>2 DEF record_failure
<1>5. next_try' \in [Keys -> 0 .. Cap]
  BY <1>1, <1>3 DEF record_failure
<1>6. purge_timer' \in 0 .. FailuresWindow \cup {Off}
  BY <1>1, Numbers, SMT DEF record_failure
<1>7. Slowed'
  <2> SUFFICES ASSUME NEW k \in Keys, Len(timepoints'[k]) >= MaxFailures
               PROVE  next_try'[k] + LastOf(timepoints'[k]) >= Lag
    BY DEF Slowed
  <2>1. CASE k \in KeysOf(s, user[s])
    <3>1. /\ timepoints'[k] = With(timepoints[k])
          /\ next_try'[k] = set_next_try(With(timepoints[k]), next_try[k])
      BY <2>1 DEF record_failure
    <3>2. LastOf(timepoints'[k]) = 0 /\ next_try'[k] >= Lag /\ next_try'[k] \in 0 .. Cap
      BY <1>2, <1>3, <3>1
    <3>3. QED
      BY <3>2, Numbers, SMT
  <2>2. CASE k \notin KeysOf(s, user[s])
    BY <2>2 DEF record_failure, IInv, Slowed
  <2>3. QED
    BY <2>1, <2>2
<1>8. QED
  BY <1>4, <1>5, <1>6, <1>7

(* An attempt is asked at once only if neither of its keys has to wait; if it *)
(* waits, the timer is armed for no later than it.                            *)
LEMMA TryStep ==
  ASSUME IInv, NEW s \in Sessions, NEW u \in Users, try_to_authenticate(s, u),
         phase[s] # "waiting",
         user' \in [Sessions -> Users], verifying' \in [Sessions -> BOOLEAN]
  PROVE  /\ IInv'
         /\ phase'[s] = "asked" => next_try[u] = 0 /\ next_try[AddressOf[s]] = 0
         /\ \A r \in Sessions \ {s} : phase'[r] = phase[r]
<1> DEFINE delta == DelayOf(s, u)
<1>1. TypeOK
  BY DEF IInv
<1>2. /\ next_try[u] \in 0 .. Cap /\ next_try[AddressOf[s]] \in 0 .. Cap
      /\ delta \in 0 .. Cap
      /\ delta = 0 => next_try[u] = 0 /\ next_try[AddressOf[s]] = 0
  <2>1. u \in Keys /\ AddressOf[s] \in Keys
    BY KeyFacts
  <2>2. next_try[u] \in 0 .. Cap /\ next_try[AddressOf[s]] \in 0 .. Cap
    BY <1>1, <2>1 DEF TypeOK
  <2>3. QED
    BY <2>2, Numbers, SMT DEF DelayOf, Larger
<1>3. /\ next_try' = [k \in Keys |->
           IF k \in KeysOf(s, u) /\ next_try[k] > 0
             THEN set_next_try(timepoints[k], next_try[k])
             ELSE next_try[k]]
      /\ timepoints' = timepoints /\ purge_timer' = purge_timer
      /\ \/ /\ delta = 0 /\ phase' = [phase EXCEPT ![s] = "asked"]
            /\ wait' = wait /\ patience' = patience /\ auth_timer' = auth_timer
         \/ /\ phase' = [phase EXCEPT ![s] = "waiting"]
            /\ wait' = [wait EXCEPT ![s] = delta]
            /\ patience' = [patience EXCEPT ![s] = Cap]
            /\ auth_timer' = IF auth_timer = Off THEN delta ELSE auth_timer
            /\ delta # 0
  BY DEF try_to_authenticate
<1> HIDE DEF delta
<1>4. next_try' \in [Keys -> 0 .. Cap]
  BY <1>1, <1>3, NextTryFacts DEF TypeOK
<1>5. TypeOK'
  <2>1. phase' \in [Sessions -> Phases]
    BY <1>1, <1>3 DEF TypeOK, Phases
  <2>2. wait' \in [Sessions -> 0 .. Cap]
    BY <1>1, <1>2, <1>3 DEF TypeOK
  <2>3. patience' \in [Sessions -> 0 .. Cap]
    <3>1. Cap \in 0 .. Cap
      BY Numbers, SMT
    <3>2. QED
      BY <1>1, <1>3, <3>1 DEF TypeOK
  <2>4. auth_timer' \in 0 .. Cap \cup {Off}
    BY <1>1, <1>2, <1>3 DEF TypeOK
  <2>5. QED
    BY <1>1, <1>3, <1>4, <2>1, <2>2, <2>3, <2>4 DEF TypeOK
<1>6. Slowed'
  <2> SUFFICES ASSUME NEW k \in Keys, Len(timepoints[k]) >= MaxFailures
               PROVE  next_try'[k] + LastOf(timepoints[k]) >= Lag
    BY <1>3 DEF Slowed
  <2>1. /\ next_try[k] \in 0 .. Cap
        /\ next_try[k] + LastOf(timepoints[k]) >= Lag
    BY <1>1 DEF TypeOK, IInv, Slowed
  <2>2. LastOf(timepoints[k]) \in Ages
    <3>1. timepoints[k] \in Seq(Ages)
      BY <1>1 DEF TypeOK, Ages
    <3>2. Len(timepoints[k]) \in 1 .. Len(timepoints[k])
      BY <3>1, Numbers, SMT
    <3>3. QED
      BY <3>1, <3>2, ElementOfSeq DEF LastOf
  <2>3. next_try'[k] = next_try[k] \/ next_try'[k] >= Lag
    BY <1>3, <2>1, NextTryFacts
  <2>4. next_try'[k] \in 0 .. Cap
    BY <1>4
  <2>5. QED
    BY <2>1, <2>2, <2>3, <2>4, Numbers, SMT DEF Ages
<1>7. NobodyWaitsLongerThanCap'
  <2> SUFFICES ASSUME NEW r \in Sessions, phase'[r] = "waiting"
               PROVE  /\ auth_timer' # Off /\ auth_timer' <= patience'[r]
                      /\ wait'[r] <= patience'[r]
    BY DEF NobodyWaitsLongerThanCap, Waiting
  <2>1. CASE r = s
    BY <1>1, <1>2, <1>3, <2>1, Numbers, OffAssumption, SMT DEF TypeOK
  <2>2. CASE r # s
    <3>1. phase[r] = "waiting"
      BY <1>1, <1>3, <2>2 DEF TypeOK
    <3>2. auth_timer # Off /\ auth_timer <= patience[r] /\ wait[r] <= patience[r]
      BY <3>1 DEF IInv, NobodyWaitsLongerThanCap, Waiting
    <3>3. QED
      BY <1>1, <1>3, <2>2, <3>2 DEF TypeOK
  <2>3. QED
    BY <2>1, <2>2
<1>8. QED
  <2>1. phase'[s] = "asked" => delta = 0
    BY <1>1, <1>3 DEF TypeOK
  <2>2. \A r \in Sessions \ {s} : phase'[r] = phase[r]
    BY <1>1, <1>3 DEF TypeOK
  <2>3. QED
    BY <1>2, <1>5, <1>6, <1>7, <2>1, <2>2 DEF IInv

(* The initial state.                                                         *)
LEMMA InitStep == Init => IInv
<1> SUFFICES ASSUME Init PROVE IInv
  OBVIOUS
<1>1. TypeOK
  <2>1. <<>> \in Seq(Ages) /\ 0 \in 0 .. Cap
    BY Numbers, EmptySeq, SMT
  <2>2. QED
    BY <2>1 DEF Init, TypeOK, Phases, Ages
<1>2. NobodyWaitsLongerThanCap
  BY DEF Init, NobodyWaitsLongerThanCap, Waiting
<1>3. Slowed
  <2> SUFFICES ASSUME NEW k \in Keys PROVE ~(Len(timepoints[k]) >= MaxFailures)
    BY DEF Slowed
  <2>1. Len(timepoints[k]) = 0
    BY DEF Init
  <2>2. QED
    BY <2>1, Numbers, SMT
<1>4. QED
  BY <1>1, <1>2, <1>3 DEF IInv

(* A session stops, or is given, an operation.                                *)
LEMMA HandoverStep ==
  ASSUME IInv, NEW s \in Sessions, stop(s) \/ ResultEvent(s)
  PROVE  IInv'
<1>1. PICK q \in {"none", "held"} : phase' = [phase EXCEPT ![s] = q]
  BY DEF stop, ResultEvent
<1>2. /\ user' = user /\ verifying' = verifying /\ wait' = wait
      /\ patience' = patience /\ timepoints' = timepoints /\ next_try' = next_try
      /\ auth_timer' = auth_timer /\ purge_timer' = purge_timer
  BY DEF stop, ResultEvent, failureVars
<1>3. TypeOK'
  BY <1>1, <1>2 DEF IInv, TypeOK, Phases
<1>4. \A r \in Sessions : phase'[r] = "waiting" => phase[r] = "waiting"
  BY <1>1 DEF IInv, TypeOK
<1>5. NobodyWaitsLongerThanCap'
  BY <1>2, <1>4 DEF IInv, NobodyWaitsLongerThanCap, Waiting
<1>6. Slowed'
  BY <1>2 DEF IInv, Slowed
<1>7. QED
  BY <1>3, <1>5, <1>6 DEF IInv

(* An attempt ends, and may count as a failure.                               *)
LEMMA FailureStep ==
  ASSUME IInv, NEW s \in Sessions,
         \/ stop_ongoing_authentications(s)
         \/ \E failed \in BOOLEAN : on_operation_result(s, failed)
  PROVE  IInv'
<1>1. PICK q \in {"none", "answered"} : phase' = [phase EXCEPT ![s] = q]
  BY DEF stop_ongoing_authentications, on_operation_result
<1>2. /\ wait' = wait \/ wait' = [wait EXCEPT ![s] = 0]
      /\ patience' = patience \/ patience' = [patience EXCEPT ![s] = 0]
      /\ user' = user /\ verifying' = verifying /\ auth_timer' = auth_timer
  BY DEF stop_ongoing_authentications, on_operation_result
<1>3. \/ record_failure(s)
      \/ timepoints' = timepoints /\ next_try' = next_try /\ purge_timer' = purge_timer
  BY DEF stop_ongoing_authentications, Abandoned, on_operation_result, failureVars
<1>4. /\ timepoints' \in [Keys -> Seq(Ages)]
      /\ next_try' \in [Keys -> 0 .. Cap]
      /\ purge_timer' \in 0 .. FailuresWindow \cup {Off}
      /\ Slowed'
  <2>1. CASE record_failure(s)
    BY <2>1, RecordStep
  <2>2. CASE timepoints' = timepoints /\ next_try' = next_try /\ purge_timer' = purge_timer
    BY <2>2 DEF IInv, TypeOK, Slowed, Ages
  <2>3. QED
    BY <1>3, <2>1, <2>2
<1>5. TypeOK'
  <2>1. 0 \in 0 .. Cap
    BY Numbers, SMT
  <2>2. wait' \in [Sessions -> 0 .. Cap] /\ patience' \in [Sessions -> 0 .. Cap]
    BY <1>2, <2>1 DEF IInv, TypeOK
  <2>3. phase' \in [Sessions -> Phases]
    BY <1>1 DEF IInv, TypeOK, Phases
  <2>4. QED
    BY <1>2, <1>4, <2>2, <2>3 DEF IInv, TypeOK, Ages
<1>6. NobodyWaitsLongerThanCap'
  <2> SUFFICES ASSUME NEW r \in Sessions, phase'[r] = "waiting"
               PROVE  /\ auth_timer' # Off /\ auth_timer' <= patience'[r]
                      /\ wait'[r] <= patience'[r]
    BY DEF NobodyWaitsLongerThanCap, Waiting
  <2>1. r # s /\ phase[r] = "waiting"
    BY <1>1 DEF IInv, TypeOK
  <2>2. wait'[r] = wait[r] /\ patience'[r] = patience[r]
    BY <1>2, <2>1 DEF IInv, TypeOK
  <2>3. QED
    BY <1>2, <2>1, <2>2 DEF IInv, NobodyWaitsLongerThanCap, Waiting
<1>7. QED
  BY <1>4, <1>5, <1>6 DEF IInv

(* The timer lets the attempts that are due go, and is set for the first of   *)
(* the others.                                                                *)
LEMMA AuthTimerStep ==
  ASSUME IInv, AuthTimer
  PROVE  IInv'
<1>1. /\ phase' = [s \in Sessions |-> IF s \in Due THEN "asked" ELSE phase[s]]
      /\ patience' = [s \in Sessions |-> IF s \in Due THEN 0 ELSE patience[s]]
      /\ user' = user /\ verifying' = verifying /\ wait' = wait
      /\ timepoints' = timepoints /\ next_try' = next_try /\ purge_timer' = purge_timer
      /\ Rearmed
  BY DEF AuthTimer, failureVars
<1>2. /\ auth_timer' \in 0 .. Cap \cup {Off}
      /\ \A t \in Waiting \ Due : auth_timer' # Off /\ auth_timer' <= wait[t]
  <2>1. CASE Waiting = Due
    BY <1>1, <2>1 DEF Rearmed
  <2>2. CASE Waiting # Due
    <3>1. PICK r \in Waiting \ Due :
            (\A t \in Waiting \ Due : wait[r] <= wait[t]) /\ auth_timer' = wait[r]
      BY <1>1, <2>2 DEF Rearmed
    <3>2. wait[r] \in 0 .. Cap
      BY <3>1 DEF IInv, TypeOK, Waiting
    <3>3. wait[r] # Off
      BY <3>2, OffAssumption, Numbers, SMT
    <3>4. QED
      BY <3>1, <3>2, <3>3
  <2>3. QED
    BY <2>1, <2>2
<1>3. TypeOK'
  <2>1. phase' \in [Sessions -> Phases]
    BY <1>1 DEF IInv, TypeOK, Phases
  <2>2. patience' \in [Sessions -> 0 .. Cap]
    <3>1. 0 \in 0 .. Cap
      BY Numbers, SMT
    <3>2. QED
      BY <1>1, <3>1 DEF IInv, TypeOK
  <2>3. QED
    BY <1>1, <1>2, <2>1, <2>2 DEF IInv, TypeOK
<1>4. NobodyWaitsLongerThanCap'
  <2> SUFFICES ASSUME NEW r \in Sessions, phase'[r] = "waiting"
               PROVE  /\ auth_timer' # Off /\ auth_timer' <= patience'[r]
                      /\ wait'[r] <= patience'[r]
    BY DEF NobodyWaitsLongerThanCap, Waiting
  <2>1. r \in Waiting \ Due
    BY <1>1 DEF Waiting
  <2>2. wait[r] <= patience[r] /\ patience'[r] = patience[r] /\ wait'[r] = wait[r]
    BY <1>1, <2>1 DEF IInv, NobodyWaitsLongerThanCap
  <2>3. auth_timer' # Off /\ auth_timer' <= wait[r]
    BY <1>2, <2>1
  <2>4. wait[r] \in 0 .. Cap /\ patience[r] \in 0 .. Cap /\ auth_timer' \in 0 .. Cap
    BY <1>2, <2>3 DEF IInv, TypeOK
  <2>5. auth_timer' <= patience[r]
    BY <2>2, <2>3, <2>4, Numbers, SMT
  <2>6. QED
    BY <2>2, <2>3, <2>5
<1>5. Slowed'
  BY <1>1 DEF IInv, Slowed
<1>6. QED
  BY <1>3, <1>4, <1>5 DEF IInv

(* Purging old failures keeps the last one, or all that is known of the key.  *)
LEMMA PurgeStep ==
  ASSUME IInv, PurgeTimer
  PROVE  IInv'
<1>1. /\ timepoints' = [k \in Keys |-> purge_old(timepoints[k])]
      /\ next_try' = [k \in Keys |->
           IF purge_old(timepoints[k]) = <<>> THEN 0 ELSE next_try[k]]
      /\ purge_timer' = Off \/ purge_timer' = FailuresWindow
      /\ phase' = phase /\ user' = user /\ verifying' = verifying /\ wait' = wait
      /\ patience' = patience /\ auth_timer' = auth_timer
  <2> DEFINE kept == [k \in Keys |-> purge_old(timepoints[k])]
  <2>1. /\ timepoints' = kept
        /\ next_try' = [k \in Keys |-> IF kept[k] = <<>> THEN 0 ELSE next_try[k]]
    BY DEF PurgeTimer
  <2>2. purge_timer' = Off \/ purge_timer' = FailuresWindow
    BY DEF PurgeTimer
  <2>3. QED
    BY <2>1, <2>2 DEF PurgeTimer, attemptVars
<1>2. \A k \in Keys : timepoints[k] \in Seq(Ages) /\ next_try[k] \in 0 .. Cap
  BY DEF IInv, TypeOK, Ages
<1>3. TypeOK'
  <2>1. timepoints' \in [Keys -> Seq(Ages)]
    BY <1>1, <1>2, PurgeFacts
  <2>2. next_try' \in [Keys -> 0 .. Cap]
    <3>1. 0 \in 0 .. Cap
      BY Numbers, SMT
    <3>2. QED
      BY <1>1, <1>2, <3>1
  <2>3. purge_timer' \in 0 .. FailuresWindow \cup {Off}
    BY <1>1, Numbers, SMT
  <2>4. QED
    BY <1>1, <2>1, <2>2, <2>3 DEF IInv, TypeOK, Ages
<1>4. NobodyWaitsLongerThanCap'
  BY <1>1 DEF IInv, NobodyWaitsLongerThanCap, Waiting
<1>5. Slowed'
  <2> SUFFICES ASSUME NEW k \in Keys, Len(timepoints'[k]) >= MaxFailures
               PROVE  next_try'[k] + LastOf(timepoints'[k]) >= Lag
    BY DEF Slowed
  <2> DEFINE t == purge_old(timepoints[k])
  <2>1. timepoints'[k] = t
    BY <1>1
  <2>2. /\ Len(t) \in Nat
        /\ Len(t) >= 1 => Len(timepoints[k]) >= Len(t) /\ LastOf(t) = LastOf(timepoints[k])
    BY <1>2, PurgeFacts
  <2>3. Len(timepoints[k]) \in Nat
    BY <1>2
  <2>4. next_try'[k] = IF t = <<>> THEN 0 ELSE next_try[k]
    BY <1>1
  <2> HIDE DEF t
  <2>5. Len(t) >= 1
    BY <2>1, <2>2, Numbers, SMT
  <2>6. t # <<>>
    BY <2>5, EmptySeq
  <2>7. Len(timepoints[k]) >= MaxFailures
    BY <2>1, <2>2, <2>3, <2>5, Numbers, SMT
  <2>8. next_try[k] + LastOf(timepoints[k]) >= Lag
    BY <2>7 DEF IInv, Slowed
  <2>9. QED
    BY <2>1, <2>2, <2>4, <2>5, <2>6, <2>8
<1>6. QED
  BY <1>3, <1>4, <1>5 DEF IInv

(* What time does to what is left of a delay.                                 *)
LEMMA LessFacts ==
  /\ \A n \in Nat : \A t \in 0 .. n : Less(t) \in 0 .. n
  /\ \A t, u \in Nat : t <= u => Less(t) <= Less(u)
  /\ Less(Off) = Off
  /\ \A t \in Nat : Less(t) # Off
BY OffAssumption, SMT DEF Less

(* What time does to the failures of a key.                                   *)
LEMMA OlderFacts ==
  ASSUME NEW times \in Seq(Ages),
         NEW older, older = [i \in DOMAIN times |-> Smaller(times[i] + 1, FailuresWindow)]
  PROVE  /\ older \in Seq(Ages)
         /\ Len(older) = Len(times)
         /\ Len(times) >= 1 => LastOf(older) = Smaller(LastOf(times) + 1, FailuresWindow)
<1>1. Len(times) \in Nat /\ DOMAIN times = 1 .. Len(times)
  OBVIOUS
<1>2. \A i \in 1 .. Len(times) : Smaller(times[i] + 1, FailuresWindow) \in Ages
  <2> SUFFICES ASSUME NEW i \in 1 .. Len(times)
               PROVE  Smaller(times[i] + 1, FailuresWindow) \in Ages
    OBVIOUS
  <2>1. times[i] \in Ages
    BY ElementOfSeq
  <2>2. QED
    BY <2>1, Numbers, SMT DEF Ages, Smaller
<1>3. older \in Seq(Ages) /\ Len(older) = Len(times)
  BY <1>1, <1>2
<1>4. QED
  BY <1>1, <1>3 DEF LastOf

(* Time passes.                                                               *)
LEMMA TickStep ==
  ASSUME IInv, Tick
  PROVE  IInv'
<1>1. /\ wait' = [s \in Sessions |-> Less(wait[s])]
      /\ patience' = [s \in Sessions |-> Less(patience[s])]
      /\ timepoints' = [k \in Keys |-> [i \in DOMAIN timepoints[k] |->
           Smaller(timepoints[k][i] + 1, FailuresWindow)]]
      /\ next_try' = [k \in Keys |-> Less(next_try[k])]
      /\ auth_timer' = Less(auth_timer) /\ purge_timer' = Less(purge_timer)
      /\ phase' = phase /\ user' = user /\ verifying' = verifying
  BY DEF Tick
<1>2. TypeOK
  BY DEF IInv
<1>3. \A k \in Keys :
        /\ timepoints[k] \in Seq(Ages)
        /\ timepoints'[k] \in Seq(Ages)
        /\ Len(timepoints'[k]) = Len(timepoints[k])
        /\ Len(timepoints[k]) >= 1 =>
             LastOf(timepoints'[k]) = Smaller(LastOf(timepoints[k]) + 1, FailuresWindow)
  <2> SUFFICES ASSUME NEW k \in Keys
               PROVE  /\ timepoints[k] \in Seq(Ages)
                      /\ timepoints'[k] \in Seq(Ages)
                      /\ Len(timepoints'[k]) = Len(timepoints[k])
                      /\ Len(timepoints[k]) >= 1 =>
                           LastOf(timepoints'[k]) = Smaller(LastOf(timepoints[k]) + 1, FailuresWindow)
    OBVIOUS
  <2>1. timepoints[k] \in Seq(Ages)
    BY <1>2 DEF TypeOK, Ages
  <2>2. timepoints'[k] = [i \in DOMAIN timepoints[k] |->
           Smaller(timepoints[k][i] + 1, FailuresWindow)]
    BY <1>1
  <2>3. QED
    BY <2>1, <2>2, OlderFacts
<1>4. TypeOK'
  <2>1. wait' \in [Sessions -> 0 .. Cap] /\ patience' \in [Sessions -> 0 .. Cap]
    BY <1>1, <1>2, LessFacts, Numbers DEF TypeOK
  <2>2. next_try' \in [Keys -> 0 .. Cap]
    BY <1>1, <1>2, LessFacts, Numbers DEF TypeOK
  <2>3. auth_timer' \in 0 .. Cap \cup {Off} /\ purge_timer' \in 0 .. FailuresWindow \cup {Off}
    BY <1>1, <1>2, LessFacts, Numbers DEF TypeOK
  <2>4. timepoints' \in [Keys -> Seq(Ages)]
    BY <1>1, <1>3
  <2>5. QED
    BY <1>1, <1>2, <2>1, <2>2, <2>3, <2>4 DEF TypeOK, Ages
<1>5. NobodyWaitsLongerThanCap'
  <2> SUFFICES ASSUME NEW r \in Sessions, phase[r] = "waiting"
               PROVE  /\ auth_timer' # Off /\ auth_timer' <= patience'[r]
                      /\ wait'[r] <= patience'[r]
    BY <1>1 DEF NobodyWaitsLongerThanCap, Waiting
  <2>1. auth_timer # Off /\ auth_timer <= patience[r] /\ wait[r] <= patience[r]
    BY DEF IInv, NobodyWaitsLongerThanCap, Waiting
  <2>2. auth_timer \in Nat /\ patience[r] \in Nat /\ wait[r] \in Nat
    <3>1. auth_timer \in 0 .. Cap /\ patience[r] \in 0 .. Cap /\ wait[r] \in 0 .. Cap
      BY <1>2, <2>1 DEF TypeOK
    <3>2. QED
      BY <3>1, Numbers, SMT
  <2>3. QED
    BY <1>1, <2>1, <2>2, LessFacts
<1>6. Slowed'
  <2> SUFFICES ASSUME NEW k \in Keys, Len(timepoints'[k]) >= MaxFailures
               PROVE  next_try'[k] + LastOf(timepoints'[k]) >= Lag
    BY DEF Slowed
  <2>1. Len(timepoints[k]) >= MaxFailures /\ Len(timepoints[k]) \in Nat
    BY <1>3
  <2>2. Len(timepoints[k]) >= 1
    BY <2>1, Numbers, SMT
  <2>3. next_try[k] + LastOf(timepoints[k]) >= Lag
    BY <2>1 DEF IInv, Slowed
  <2>4. next_try[k] \in 0 .. Cap /\ next_try'[k] = Less(next_try[k])
    BY <1>1, <1>2 DEF TypeOK
  <2>5. LastOf(timepoints[k]) \in Ages
    <3>1. Len(timepoints[k]) \in 1 .. Len(timepoints[k])
      BY <2>1, <2>2, SMT
    <3>2. QED
      BY <1>3, <3>1, ElementOfSeq DEF LastOf
  <2>6. LastOf(timepoints'[k]) = Smaller(LastOf(timepoints[k]) + 1, FailuresWindow)
    BY <1>3, <2>2
  <2>7. QED
    BY <2>3, <2>4, <2>5, <2>6, Numbers, SMT DEF Less, Smaller, Ages
<1>7. QED
  BY <1>4, <1>5, <1>6 DEF IInv

(* An attempt begins or goes on.                                              *)
LEMMA AttemptStep ==
  ASSUME IInv, NEW s \in Sessions,
         next(s) \/ \E u \in Users, v \in BOOLEAN : authenticate(s, u, v)
  PROVE  /\ IInv'
         /\ phase'[s] = "asked" =>
              next_try[user'[s]] = 0 /\ next_try[AddressOf[s]] = 0
         /\ user'[s] \in Users
         /\ \A r \in Sessions \ {s} : phase'[r] = phase[r]
<1>1. user \in [Sessions -> Users] /\ verifying \in [Sessions -> BOOLEAN]
  BY DEF IInv, TypeOK
<1>2. CASE next(s)
  BY <1>1, <1>2, TryStep DEF next
<1>3. CASE \E u \in Users, v \in BOOLEAN : authenticate(s, u, v)
  <2>1. PICK u \in Users, v \in BOOLEAN : authenticate(s, u, v)
    BY <1>3
  <2>2. /\ user' \in [Sessions -> Users] /\ user'[s] = u
        /\ verifying' \in [Sessions -> BOOLEAN]
        /\ phase[s] # "waiting" /\ try_to_authenticate(s, u)
    BY <1>1, <2>1 DEF authenticate
  <2>3. QED
    BY <2>2, TryStep
<1>4. QED
  BY <1>2, <1>3

-----------------------------------------------------------------------------
(* The invariant is inductive.                                                *)
LEMMA Invariance == Spec => []IInv
<1>1. Init => IInv
  BY InitStep
<1>2. IInv /\ [Next]_vars => IInv'
  <2> SUFFICES ASSUME IInv, [Next]_vars PROVE IInv'
    OBVIOUS
  <2>1. CASE UNCHANGED vars
    BY <2>1 DEF vars, attemptVars, failureVars, IInv, TypeOK, Slowed,
                NobodyWaitsLongerThanCap, Waiting
  <2>2. CASE Next
    BY <2>2, AttemptStep, HandoverStep, FailureStep, AuthTimerStep, PurgeStep, TickStep
       DEF Next
  <2>3. QED
    BY <2>1, <2>2
<1>3. QED
  BY <1>1, <1>2, PTL DEF Spec

(* The attempts, the failures and the timers keep their types: no delay and   *)
(* no timer exceeds the cap, whatever is added to a delay.                    *)
THEOREM TypeCorrect == Spec => []TypeOK
BY Invariance, PTL DEF IInv

(* No attempt waits longer than the cap, for any number of sessions that      *)
(* share the one timer.                                                       *)
THEOREM WaitsAreBounded == Spec => []NobodyWaitsLongerThanCap
BY Invariance, PTL DEF IInv

(* A key with too many failures, the last of them recent, is throttled: its   *)
(* next try lies ahead.                                                       *)
LEMMA ThrottledKeys ==
  ASSUME IInv, NEW k \in Keys, next_try[k] = 0
  PROVE  ~Throttled(k)
<1> SUFFICES ASSUME Throttled(k) PROVE FALSE
  OBVIOUS
<1>1. next_try[k] + LastOf(timepoints[k]) >= Lag /\ LastOf(timepoints[k]) < Lag
  BY DEF IInv, Slowed, Throttled, LastOf, Lag
<1>2. LastOf(timepoints[k]) \in Ages
  <2>1. timepoints[k] \in Seq(Ages)
    BY DEF IInv, TypeOK, Ages
  <2>2. Len(timepoints[k]) \in 1 .. Len(timepoints[k])
    BY <2>1, Numbers, SMT DEF Throttled
  <2>3. QED
    BY <2>1, <2>2, ElementOfSeq DEF LastOf
<1>3. QED
  BY <1>1, <1>2, Numbers, SMT DEF Ages

(* Nobody is asked at once about a throttled user, or from a throttled        *)
(* address.                                                                   *)
THEOREM ThrottledAttemptsAreDelayed == Spec => ThrottledAttemptsWait
<1> DEFINE A == \A s \in Sessions :
                  phase[s] \in {"none", "held"} /\ phase'[s] = "asked" =>
                    \A k \in KeysOf(s, user'[s]) : ~Throttled(k)
<1>1. IInv /\ [Next]_vars => [A]_vars
  <2> SUFFICES ASSUME IInv, Next, NEW s \in Sessions,
                      phase[s] \in {"none", "held"}, phase'[s] = "asked",
                      NEW k \in KeysOf(s, user'[s])
               PROVE  ~Throttled(k)
    OBVIOUS
  <2>1. CASE \E r \in Sessions :
               next(r) \/ \E u \in Users, v \in BOOLEAN : authenticate(r, u, v)
    <3>1. PICK r \in Sessions :
            next(r) \/ \E u \in Users, v \in BOOLEAN : authenticate(r, u, v)
      BY <2>1
    <3>2. r = s
      BY <3>1, AttemptStep
    <3>3. /\ next_try[user'[s]] = 0 /\ next_try[AddressOf[s]] = 0
          /\ user'[s] \in Users
      BY <3>1, <3>2, AttemptStep
    <3>4. k \in Keys /\ next_try[k] = 0
      BY <3>3, KeyFacts DEF KeysOf
    <3>5. QED
      BY <3>4, ThrottledKeys
  <2>2. CASE \E r \in Sessions :
               \/ stop(r) \/ stop_ongoing_authentications(r) \/ ResultEvent(r)
               \/ \E failed \in BOOLEAN : on_operation_result(r, failed)
    <3>1. PICK r \in Sessions, q \in {"none", "answered", "held"} :
            phase' = [phase EXCEPT ![r] = q]
      BY <2>2 DEF stop, stop_ongoing_authentications, ResultEvent, on_operation_result
    <3>2. phase'[s] # "asked"
      BY <3>1 DEF IInv, TypeOK
    <3>3. QED
      BY <3>2
  <2>3. CASE AuthTimer \/ PurgeTimer \/ Tick
    <3>1. phase'[s] = phase[s] \/ phase[s] = "waiting"
      BY <2>3 DEF AuthTimer, PurgeTimer, Tick, attemptVars, Due, Waiting
    <3>2. QED
      BY <3>1
  <2>4. QED
    BY <2>1, <2>2, <2>3 DEF Next
<1>2. Spec => [][A]_vars
  BY <1>1, Invariance, PTL DEF Spec
<1>3. QED
  BY <1>2 DEF ThrottledAttemptsWait
-----------------------------------------------------------------------------
(* The autobanner, for any addresses, sessions and options.  The point of the *)
(* invariant is that the timer map tells whose timer an id is: a handle's     *)
(* timer is one that will fire, and the map leads from it back to the handle. *)

BanAges == 0 .. MaxAge

(* A handle's timer will fire, and leads back to the handle.                  *)
Led ==
  \A a \in Networks : timer[a] # NoId =>
    timer[a] \in running \cup {firing} /\ timerMap[timer[a]] = a

(* Failures are kept in a handle that has a timer.                            *)
Handled ==
  \A a \in Networks : failures[a] # <<>> => a \in known /\ timer[a] # NoId

BanInv == BanTypeOK /\ Led /\ Handled

-----------------------------------------------------------------------------
(* Ages and failures *)

(* The age of a failure that just happened is one.                            *)
LEMMA ZeroAge == 0 \in BanAges
BY OptionsAssumption, SMT DEF BanAges

(* One more failure: the type, the length and the first of the sequence.      *)
LEMMA FailedFacts ==
  ASSUME BanTypeOK, NEW a \in Networks
  PROVE  /\ Failed(a) \in Seq(BanAges)
         /\ Len(Failed(a)) = Len(failures[a]) + 1
         /\ Len(failures[a]) \in Nat
         /\ Len(failures[a]) = 0 => Head(Failed(a)) = 0
<1>1. failures[a] \in Seq(BanAges)
  BY DEF BanTypeOK, BanAges
<1>2. QED
  BY <1>1, ZeroAge, SMT DEF Failed

(* What set_failed_login() keeps is never empty: with a limit of one, the     *)
(* failure that just happened is a burst.                                     *)
LEMMA KeptFacts ==
  ASSUME BanTypeOK, NEW a \in Networks, Len(failures[a]) < opts.max
  PROVE  /\ Kept(a) \in Seq(BanAges)
         /\ Kept(a) # <<>>
         /\ Len(Kept(a)) >= opts.max =>
              Len(Kept(a)) = opts.max /\ Kept(a)[1] <= opts.window
<1>1. opts.max \in Nat /\ opts.window \in Nat
  BY OptionsAssumption DEF BanTypeOK
<1>2. /\ Failed(a) \in Seq(BanAges)
      /\ Len(Failed(a)) = Len(failures[a]) + 1
      /\ Len(failures[a]) \in Nat
      /\ Len(failures[a]) = 0 => Head(Failed(a)) = 0
  BY FailedFacts
<1>3. Len(Failed(a)) <= opts.max /\ Len(Failed(a)) >= 1
  BY <1>1, <1>2, SMT
<1>4. CASE Burst(a)
  <2>1. Kept(a) = Failed(a)
    BY <1>4 DEF Kept
  <2>2. Len(Failed(a)) = opts.max /\ Head(Failed(a)) <= opts.window
    BY <1>1, <1>2, <1>3, <1>4, SMT DEF Burst
  <2>3. Head(Failed(a)) = Failed(a)[1] /\ Failed(a) # <<>>
    BY <1>2, <1>3, SMT
  <2>4. QED
    BY <1>2, <2>1, <2>2, <2>3
<1>5. CASE ~Burst(a) /\ Len(Failed(a)) >= opts.max
  <2>1. Kept(a) = Tail(Failed(a))
    BY <1>5 DEF Kept
  <2>2. Len(Failed(a)) = opts.max
    BY <1>1, <1>2, <1>3, <1>5, SMT
  <2>3. Len(failures[a]) # 0
    BY <1>1, <1>2, <1>5, <2>2, SMT DEF Burst
  <2>4. Tail(Failed(a)) \in Seq(BanAges) /\ Len(Tail(Failed(a))) = Len(failures[a])
    BY <1>2, <1>3, SMT
  <2>5. Tail(Failed(a)) # <<>>
    <3> DEFINE t == Tail(Failed(a))
    <3>1. Len(t) # 0
      BY <2>3, <2>4
    <3>2. Len(<<>>) = 0
      OBVIOUS
    <3> HIDE DEF t
    <3>3. t # <<>>
      BY <3>1, <3>2
    <3> QED
      BY <3>3 DEF t
  <2>6. ~(Len(Tail(Failed(a))) >= opts.max)
    BY <1>1, <1>2, <2>4, SMT
  <2>7. QED
    BY <2>1, <2>4, <2>5, <2>6
<1>6. CASE ~Burst(a) /\ ~(Len(Failed(a)) >= opts.max)
  <2>1. Kept(a) = Failed(a)
    BY <1>6 DEF Kept
  <2>2. Failed(a) # <<>>
    BY <1>2, <1>3, SMT
  <2>3. QED
    BY <1>2, <1>6, <2>1, <2>2
<1>7. QED
  BY <1>4, <1>5, <1>6

-----------------------------------------------------------------------------
(* The steps *)

(* A report that changes the handle: the fields that matter, and where its    *)
(* new timer comes from.                                                      *)
LEMMA ReplaceTimerStep ==
  ASSUME BanInv, NEW a \in Networks, NEW d \in Nat, ReplaceTimer(a, d),
         NEW f \in Seq(BanAges), f # <<>>,
         failures' = [failures EXCEPT ![a] = f], known' = known \cup {a},
         opts' = opts, reports' \in [Reporters -> Networks \cup {NoAddress}]
  PROVE  BanInv'
<1>1. PICK i \in Ids \ (running \cup {firing}) :
        /\ running' = (running \ {timer[a]}) \cup {i}
        /\ left' = [left EXCEPT ![i] = d]
        /\ timer' = [timer EXCEPT ![a] = i]
        /\ timerMap' = [timerMap EXCEPT ![i] = a]
        /\ firing' = firing
  BY DEF ReplaceTimer
<1>2. BanTypeOK'
  BY <1>1 DEF BanInv, BanTypeOK, BanAges
<1>3. timer'[a] = i /\ timerMap'[i] = a /\ i # NoId
  BY <1>1, IdsAssumption DEF BanInv, BanTypeOK
<1>4. ASSUME NEW b \in Networks, b # a
      PROVE  timer'[b] = timer[b] /\ failures'[b] = failures[b]
  BY <1>1, <1>4 DEF BanInv, BanTypeOK
<1>5. Led'
  <2> SUFFICES ASSUME NEW b \in Networks, timer'[b] # NoId
               PROVE  timer'[b] \in running' \cup {firing'} /\ timerMap'[timer'[b]] = b
    BY DEF Led
  <2>1. CASE b = a
    BY <1>1, <1>3, <2>1
  <2>2. CASE b # a
    <3>1. timer[b] \in running \cup {firing} /\ timerMap[timer[b]] = b /\ timer[b] # NoId
      BY <1>4, <2>2 DEF BanInv, Led
    <3>2. timer[b] # i
      BY <1>1, <3>1
    <3>3. timer[b] # timer[a]
      BY <2>2, <3>1 DEF BanInv, Led
    <3>4. timer[b] \in running' \cup {firing'}
      BY <1>1, <3>1, <3>3
    <3>5. timerMap'[timer[b]] = b
      BY <1>1, <3>1, <3>2 DEF BanInv, BanTypeOK
    <3>6. QED
      BY <1>4, <2>2, <3>4, <3>5
  <2>3. QED
    BY <2>1, <2>2
<1>6. Handled'
  <2> SUFFICES ASSUME NEW b \in Networks, failures'[b] # <<>>
               PROVE  b \in known' /\ timer'[b] # NoId
    BY DEF Handled
  <2>1. CASE b = a
    BY <1>3, <2>1
  <2>2. CASE b # a
    BY <1>4, <2>2 DEF BanInv, Handled
  <2>3. QED
    BY <2>1, <2>2
<1>7. QED
  BY <1>2, <1>5, <1>6 DEF BanInv

(* A failed login keeps the invariant.                                        *)
LEMMA ReportStep ==
  ASSUME BanInv, NEW s \in Reporters, set_failed_login(s) PROVE BanInv'
<1> DEFINE a == reports[s]
<1>1. a \in Networks
  BY DEF set_failed_login, BanInv, BanTypeOK
<1>2. reports' \in [Reporters -> Networks \cup {NoAddress}]
  BY DEF set_failed_login, BanInv, BanTypeOK
<1>3. known' = known \cup {a} /\ opts' = opts
  BY DEF set_failed_login
<1>4. CASE Len(failures[a]) >= opts.max
  <2>1. UNCHANGED <<failures, timer, timerMap, loopVars>>
    BY <1>4 DEF set_failed_login
  <2>2. BanTypeOK'
    BY <1>1, <1>2, <1>3, <2>1 DEF BanInv, BanTypeOK, loopVars
  <2>3. Led' /\ Handled'
    BY <1>3, <2>1 DEF BanInv, Led, Handled, loopVars
  <2>4. QED
    BY <2>2, <2>3 DEF BanInv
<1>5. CASE ~(Len(failures[a]) >= opts.max)
  <2>1. /\ failures' = [failures EXCEPT ![a] = Kept(a)]
        /\ ReplaceTimer(a, IF Burst(a) THEN opts.ban ELSE opts.window)
    BY <1>5 DEF set_failed_login
  <2>2. opts.max \in Nat /\ (IF Burst(a) THEN opts.ban ELSE opts.window) \in Nat
    BY OptionsAssumption DEF BanInv, BanTypeOK
  <2>3. Len(failures[a]) < opts.max
    BY <1>1, <1>5, <2>2, FailedFacts, SMT DEF BanInv
  <2>4. Kept(a) \in Seq(BanAges) /\ Kept(a) # <<>>
    BY <1>1, <2>3, KeptFacts DEF BanInv
  <2>5. QED
    BY <1>1, <1>2, <1>3, <2>1, <2>2, <2>4, ReplaceTimerStep
<1>6. QED
  BY <1>4, <1>5

(* So does a timer's event, its own or a stale one.                           *)
LEMMA OnTimerStep == ASSUME BanInv, OnTimer PROVE BanInv'
<1> DEFINE a == timerMap[firing]
<1>1. firing \in Ids /\ firing # NoId /\ firing' = NoId
      /\ UNCHANGED <<opts, running, left, reports>>
  BY DEF OnTimer, BanInv, BanTypeOK
<1>2. CASE a = NoAddress
  <2>1. UNCHANGED handleVars
    BY <1>2 DEF OnTimer
  <2>2. BanTypeOK'
    BY <1>1, <2>1 DEF BanInv, BanTypeOK, handleVars
  <2>3. Led'
    BY <1>1, <1>2, <2>1, AddressAssumption DEF BanInv, Led, handleVars
  <2>4. Handled'
    BY <2>1 DEF BanInv, Handled, handleVars
  <2>5. QED
    BY <2>2, <2>3, <2>4 DEF BanInv
<1>3. CASE a # NoAddress
  <2>1. /\ known' = known \ {a}
        /\ failures' = [failures EXCEPT ![a] = <<>>]
        /\ timer' = [timer EXCEPT ![a] = NoId]
        /\ timerMap' = [timerMap EXCEPT ![firing] = NoAddress]
    BY <1>3 DEF OnTimer
  <2>2. a \in Networks
    BY <1>1, <1>3 DEF BanInv, BanTypeOK
  <2>3. BanTypeOK'
    BY <1>1, <2>1, <2>2 DEF BanInv, BanTypeOK
  <2>4. failures'[a] = <<>> /\ timer'[a] = NoId
    BY <2>1, <2>2 DEF BanInv, BanTypeOK
  <2>5. ASSUME NEW b \in Networks, b # a
        PROVE  timer'[b] = timer[b] /\ failures'[b] = failures[b]
    BY <2>1, <2>5 DEF BanInv, BanTypeOK
  <2>6. ASSUME NEW b \in Networks, timer'[b] # NoId
        PROVE  timer'[b] \in running' \cup {firing'} /\ timerMap'[timer'[b]] = b
    <3>1. b # a /\ timer'[b] = timer[b]
      BY <2>4, <2>5, <2>6
    <3>2. timer[b] \in running \cup {firing} /\ timerMap[timer[b]] = b
      BY <2>6, <3>1 DEF BanInv, Led
    <3>3. timer[b] # firing
      BY <3>1, <3>2
    <3>4. timer[b] \in Ids
      BY <2>6, <3>1 DEF BanInv, BanTypeOK
    <3>5. timerMap'[timer[b]] = b
      BY <1>1, <2>1, <3>2, <3>3, <3>4 DEF BanInv, BanTypeOK
    <3>6. QED
      BY <1>1, <3>1, <3>2, <3>3, <3>5
  <2>7. Led'
    BY <2>6 DEF Led
  <2>8. Handled'
    BY <2>1, <2>4, <2>5 DEF BanInv, Handled
  <2>9. QED
    BY <2>3, <2>7, <2>8 DEF BanInv
<1>4. QED
  BY <1>2, <1>3

(* Time passes: failures age, and none is forgotten.                          *)
LEMMA BanTickStep == ASSUME BanInv, BanTick PROVE BanInv'
<1>1. UNCHANGED <<opts, known, timer, timerMap, running, firing, reports>>
  BY DEF BanTick
<1>2. left' \in [Ids -> Nat]
  <2>1. left \in [Ids -> Nat]
    BY DEF BanInv, BanTypeOK
  <2>2. ASSUME NEW i \in Ids PROVE (IF left[i] > 0 THEN left[i] - 1 ELSE 0) \in Nat
    BY <2>1, SMT
  <2>3. QED
    BY <2>2 DEF BanTick
<1>3. ASSUME NEW a \in Networks
      PROVE  /\ failures'[a] \in Seq(BanAges)
             /\ failures'[a] # <<>> => failures[a] # <<>>
  <2> DEFINE older(k) == IF failures[a][k] < MaxAge THEN failures[a][k] + 1 ELSE MaxAge
  <2>1. failures[a] \in Seq(BanAges) /\ Len(failures[a]) \in Nat
    BY SMT DEF BanInv, BanTypeOK, BanAges
  <2>2. ASSUME NEW k \in 1 .. Len(failures[a]) PROVE older(k) \in BanAges
    BY <2>1, OptionsAssumption, SMT DEF BanAges
  <2>3. failures'[a] = [k \in 1 .. Len(failures[a]) |-> older(k)]
    BY DEF BanTick
  <2>4. failures'[a] \in Seq(BanAges)
    BY <2>1, <2>2, <2>3, SMT
  <2>5. failures[a] = <<>> => failures'[a] = <<>>
    BY <2>3, SMT
  <2>6. QED
    BY <2>4, <2>5
<1>4. failures' \in [Networks -> Seq(BanAges)]
  BY <1>3 DEF BanTick
<1>5. BanTypeOK'
  BY <1>1, <1>2, <1>4 DEF BanInv, BanTypeOK, BanAges
<1>6. Led' /\ Handled'
  BY <1>1, <1>3 DEF BanInv, Led, Handled
<1>7. QED
  BY <1>5, <1>6 DEF BanInv

(* The other steps only move a timer, or leave handles and timers alone.      *)
LEMMA OtherSteps ==
  ASSUME BanInv,
         \/ \E s \in Reporters, a \in Networks : Report(s, a)
         \/ \E i \in Ids : TimerExpires(i)
         \/ set_options
         \/ UNCHANGED banVars
  PROVE  BanInv'
<1>1. CASE \E s \in Reporters, a \in Networks : Report(s, a)
  <2>1. BanTypeOK'
    BY <1>1 DEF Report, BanInv, BanTypeOK, handleVars, loopVars
  <2>2. QED
    BY <1>1, <2>1 DEF Report, BanInv, Led, Handled, handleVars, loopVars
<1>2. CASE \E i \in Ids : TimerExpires(i)
  <2>1. BanTypeOK'
    BY <1>2 DEF TimerExpires, BanInv, BanTypeOK, handleVars
  <2>2. Led' /\ Handled'
    BY <1>2 DEF TimerExpires, BanInv, Led, Handled, handleVars
  <2>3. QED
    BY <2>1, <2>2 DEF BanInv
<1>3. CASE set_options
  <2>1. BanTypeOK'
    BY <1>3 DEF set_options, BanInv, BanTypeOK, handleVars, loopVars
  <2>2. QED
    BY <1>3, <2>1 DEF set_options, BanInv, Led, Handled, handleVars, loopVars
<1>4. CASE UNCHANGED banVars
  <2>1. BanTypeOK'
    BY <1>4 DEF banVars, BanInv, BanTypeOK, handleVars, loopVars
  <2>2. QED
    BY <1>4, <2>1 DEF banVars, BanInv, Led, Handled, handleVars, loopVars
<1>5. QED
  BY <1>1, <1>2, <1>3, <1>4

(* The invariant holds in every state of every behaviour.                     *)
LEMMA BanInvariance == BanSpec => []BanInv
<1>1. BanInit => BanInv
  <2> SUFFICES ASSUME BanInit PROVE BanInv
    OBVIOUS
  <2>1. BanTypeOK
    BY SMT DEF BanInit, BanTypeOK
  <2>2. QED
    BY <2>1 DEF BanInit, BanInv, Led, Handled
<1>2. BanInv /\ [BanNext]_banVars => BanInv'
  BY ReportStep, OnTimerStep, BanTickStep, OtherSteps DEF BanNext
<1>3. QED
  BY <1>1, <1>2, PTL DEF BanSpec

-----------------------------------------------------------------------------
(* The state of the autobanner keeps its type, whatever options are set.      *)
THEOREM BansTypeCorrect == BanSpec => []BanTypeOK
BY BanInvariance, PTL DEF BanInv

(* No failure is remembered for ever: failures recorded for an address have a *)
(* timer that will erase them, for any number of addresses and sessions.      *)
THEOREM FailuresTimed == BanSpec => []FailuresAreTimed
<1>1. BanInv => FailuresAreTimed
  BY DEF BanInv, Led, Handled, FailuresAreTimed
<1>2. QED
  BY <1>1, BanInvariance, PTL

(* A step of the program that makes an address banned records a burst.        *)
LEMMA BanStep ==
  ASSUME BanInv, [BanNext]_banVars, NEW a \in Networks,
         ~Banned(a), Banned(a)', opts' = opts
  PROVE  Len(failures'[a]) = opts.max /\ failures'[a][1] <= opts.window
<1>1. opts.max # 0 /\ Len(failures'[a]) >= opts.max /\ a \in known'
  BY DEF Banned
<1>2. opts.max \in Nat
  BY OptionsAssumption DEF BanInv, BanTypeOK
<1>3. ASSUME UNCHANGED <<known, failures>> PROVE FALSE
  BY <1>3 DEF Banned
<1>4. CASE \E s \in Reporters : set_failed_login(s)
  <2>1. PICK s \in Reporters : set_failed_login(s)
    BY <1>4
  <2>2. reports[s] \in Networks
    BY <2>1 DEF set_failed_login, BanInv, BanTypeOK
  <2>3. CASE reports[s] = a /\ ~(Len(failures[a]) >= opts.max)
    <3>1. failures'[a] = Kept(a)
      BY <2>1, <2>3 DEF set_failed_login, BanInv, BanTypeOK
    <3>2. Len(failures[a]) < opts.max
      BY <1>2, <2>3, FailedFacts, SMT DEF BanInv
    <3>3. QED
      BY <1>1, <3>1, <3>2, KeptFacts DEF BanInv
  <2>4. CASE reports[s] # a \/ Len(failures[a]) >= opts.max
    <3>1. failures'[a] = failures[a]
      BY <2>1, <2>2, <2>4 DEF set_failed_login, BanInv, BanTypeOK
    <3>2. failures[a] # <<>>
      BY <1>1, <1>2, <3>1, SMT
    <3>3. a \in known
      BY <3>2 DEF BanInv, Handled
    <3>4. QED
      BY <1>1, <3>1, <3>3 DEF Banned
  <2>5. QED
    BY <2>3, <2>4
<1>5. CASE OnTimer
  <2>1. CASE failures'[a] = <<>>
    BY <1>1, <1>2, <2>1, SMT
  <2>2. CASE failures'[a] # <<>>
    <3>1. failures'[a] = failures[a] /\ (a \in known' => a \in known)
      BY <1>5, <2>2 DEF OnTimer, BanInv, BanTypeOK, handleVars
    <3>2. QED
      BY <1>1, <3>1 DEF Banned
  <2>3. QED
    BY <2>1, <2>2
<1>6. CASE BanTick
  <2>1. failures'[a] = [k \in 1 .. Len(failures[a]) |->
           IF failures[a][k] < MaxAge THEN failures[a][k] + 1 ELSE MaxAge]
    BY <1>6 DEF BanTick
  <2>2. Len(failures[a]) \in Nat
    BY FailedFacts DEF BanInv
  <2>3. Len(failures'[a]) = Len(failures[a])
    BY <2>1, <2>2, SMT
  <2>4. known' = known
    BY <1>6 DEF BanTick
  <2>5. QED
    BY <1>1, <2>3, <2>4 DEF Banned
<1>7. CASE \E s \in Reporters, b \in Networks : Report(s, b)
  BY <1>3, <1>7 DEF Report, handleVars
<1>8. CASE \E i \in Ids : TimerExpires(i)
  BY <1>3, <1>8 DEF TimerExpires, handleVars
<1>9. CASE set_options \/ UNCHANGED banVars
  BY <1>3, <1>9 DEF set_options, banVars, handleVars
<1>10. QED
  BY <1>4, <1>5, <1>6, <1>7, <1>8, <1>9 DEF BanNext

(* Only a report makes an address banned, and only when its last failures,    *)
(* as many as the limit in force, lie within the time window.                 *)
THEOREM BansNeedBursts == BanSpec => BanNeedsBurst
<1>1. ASSUME BanInv, [BanNext]_banVars
      PROVE  [\A a \in Networks :
                ~Banned(a) /\ Banned(a)' /\ opts' = opts =>
                  Len(failures'[a]) = opts.max /\ failures'[a][1] <= opts.window]_banVars
  BY BanStep, <1>1
<1>2. QED
  BY <1>1, BanInvariance, PTL DEF BanSpec, BanNeedsBurst

-----------------------------------------------------------------------------
(* The server and its listener, for any sockets, addresses, networks, length  *)
(* of a turn and number of quits.  The inductive invariant says where a       *)
(* socket can be: its place agrees with the container that holds it, so that  *)
(* each handing over, from the listener's hands to accepted_ to the server's  *)
(* table, keeps what was known of the socket when its address was cut.        *)

(* What a container holds is in its place.                                  *)
InHands ==
  hands.step = "push" => hands.socket \in Sockets /\ place[hands.socket] = "allowed"

InQueue ==
  /\ \A i \in DOMAIN accepted : place[accepted[i]] = "accepted"
  /\ \A i, j \in DOMAIN accepted : accepted[i] = accepted[j] => i = j

InTable ==
  /\ \A s \in sessions : place[s] = "session"
  /\ \A i \in DOMAIN events :
       events[i].kind = "ended" => place[events[i].session] \in {"session", "gone"}

Placed == InHands /\ InQueue /\ InTable

(* A socket of an address that was cut, wherever it is after the first look,  *)
(* is on its way out or was between the two looks.                            *)
Passed(s) == place[s] \in {"allowed", "accepted"} \/ s \in sessions

CutFor(s) ==
  /\ Passed(s)
  /\ banned[Network[Peer[s]]] = Peer[s]
  /\ BannedEvent(Peer[s]) \notin Range(events)
  => s \in closing \cup early

Cut == \A s \in Sockets : CutFor(s)

ServerIInv == ServerTypeOK /\ Placed /\ NoSocketForgotten /\ Cut

-----------------------------------------------------------------------------
(* Queues *)

(* What is appended to a queue is its last element, and nothing else moves.   *)
LEMMA Appended ==
  ASSUME NEW S, NEW q \in Seq(S), NEW e \in S
  PROVE  /\ Append(q, e) \in Seq(S)
         /\ DOMAIN Append(q, e) = 1 .. Len(q) + 1
         /\ DOMAIN q = 1 .. Len(q) /\ Len(q) \in Nat
         /\ \A i \in DOMAIN q : Append(q, e)[i] = q[i]
         /\ Append(q, e)[Len(q) + 1] = e
OBVIOUS

(* What is queued after an append.                                            *)
LEMMA AppendedRange ==
  ASSUME NEW S, NEW q \in Seq(S), NEW e \in S
  PROVE  Range(Append(q, e)) = Range(q) \cup {e}
<1> DEFINE r == Append(q, e)
<1>1. /\ DOMAIN r = 1 .. Len(q) + 1
      /\ DOMAIN q = 1 .. Len(q) /\ Len(q) \in Nat
      /\ \A i \in DOMAIN q : r[i] = q[i]
      /\ r[Len(q) + 1] = e
  BY Appended
<1> HIDE DEF r
<1>2. ASSUME NEW i \in DOMAIN r PROVE r[i] \in Range(q) \cup {e}
  <2>1. CASE i = Len(q) + 1
    BY <1>1, <2>1
  <2>2. CASE i # Len(q) + 1
    <3>1. i \in DOMAIN q
      BY <1>1, <2>2, SMT
    <3>2. QED
      BY <1>1, <3>1 DEF Range
  <2>3. QED
    BY <2>1, <2>2
<1>3. ASSUME NEW i \in DOMAIN q PROVE q[i] \in Range(r)
  <2>1. i \in DOMAIN r /\ r[i] = q[i]
    BY <1>1, <1>3, SMT
  <2>2. QED
    BY <2>1 DEF Range
<1>4. e \in Range(r)
  <2>1. Len(q) + 1 \in DOMAIN r
    BY <1>1, SMT
  <2>2. QED
    BY <1>1, <2>1 DEF Range
<1>5. QED
  BY <1>2, <1>3, <1>4 DEF Range, r

(* What is left of a queue when its head is taken.                            *)
LEMMA Taken ==
  ASSUME NEW S, NEW q \in Seq(S), q # <<>>
  PROVE  /\ Head(q) \in S /\ Head(q) = q[1] /\ 1 \in DOMAIN q
         /\ Tail(q) \in Seq(S)
         /\ \A i \in DOMAIN Tail(q) :
              i + 1 \in DOMAIN q /\ i \in Nat \ {0} /\ Tail(q)[i] = q[i + 1]
         /\ \A i \in DOMAIN q :
              i # 1 => i \in Nat /\ i - 1 \in DOMAIN Tail(q) /\ Tail(q)[i - 1] = q[i]
<1>1. /\ DOMAIN q = 1 .. Len(q) /\ Len(q) \in Nat
      /\ Head(q) = q[1] /\ Tail(q) \in Seq(S) /\ Len(q) # 0
  OBVIOUS
<1>2. /\ DOMAIN Tail(q) = 1 .. Len(q) - 1
      /\ \A i \in 1 .. Len(q) - 1 : Tail(q)[i] = q[i + 1]
  BY <1>1
<1>3. 1 \in DOMAIN q /\ q[1] \in S
  BY <1>1
<1>4. \A i \in DOMAIN Tail(q) :
        i + 1 \in DOMAIN q /\ i \in Nat \ {0} /\ Tail(q)[i] = q[i + 1]
  BY <1>1, <1>2
<1>5. \A i \in DOMAIN q :
        i # 1 => i \in Nat /\ i - 1 \in DOMAIN Tail(q) /\ Tail(q)[i - 1] = q[i]
  BY <1>1, <1>2
<1>6. QED
  BY <1>1, <1>3, <1>4, <1>5

(* What is queued was the head, or is still queued.                           *)
LEMMA TakenRange ==
  ASSUME NEW S, NEW q \in Seq(S), q # <<>>
  PROVE  Range(q) = Range(Tail(q)) \cup {Head(q)}
<1>1. /\ Head(q) = q[1] /\ 1 \in DOMAIN q
      /\ \A i \in DOMAIN Tail(q) : i + 1 \in DOMAIN q /\ Tail(q)[i] = q[i + 1]
      /\ \A i \in DOMAIN q : i # 1 => i - 1 \in DOMAIN Tail(q) /\ Tail(q)[i - 1] = q[i]
  BY Taken
<1>2. ASSUME NEW i \in DOMAIN q PROVE q[i] \in Range(Tail(q)) \cup {Head(q)}
  BY <1>1 DEF Range
<1>3. ASSUME NEW i \in DOMAIN Tail(q) PROVE Tail(q)[i] \in Range(q)
  BY <1>1 DEF Range
<1>4. q[1] \in Range(q)
  BY <1>1 DEF Range
<1>5. QED
  BY <1>1, <1>2, <1>3, <1>4 DEF Range

-----------------------------------------------------------------------------
(* Events *)

(* Events of different kinds differ.                                          *)
LEMMA EventKinds ==
  /\ Connected \in Event /\ Connected.kind = "connected"
  /\ \A s \in Sockets : /\ Ended(s) \in Event /\ Ended(s).kind = "ended"
                        /\ Ended(s).session = s
  /\ \A a \in Address : /\ BannedEvent(a) \in Event /\ BannedEvent(a).kind = "banned"
                        /\ BannedEvent(a).address = a
  /\ \A e \in Event : /\ e.kind = "connected" => e = Connected
                      /\ e.kind = "ended" => e.session \in Sockets
                      /\ e.kind = "banned" => e.address \in Address
                                              /\ e = BannedEvent(e.address)
<1>1. /\ Connected \in Event /\ Connected.kind = "connected"
      /\ \A s \in Sockets : /\ Ended(s) \in Event /\ Ended(s).kind = "ended"
                            /\ Ended(s).session = s
      /\ \A a \in Address : /\ BannedEvent(a) \in Event /\ BannedEvent(a).kind = "banned"
                            /\ BannedEvent(a).address = a
  BY DEF Event, Connected, Ended, BannedEvent
<1>2. ASSUME NEW e \in Event
      PROVE  /\ e.kind = "connected" => e = Connected
             /\ e.kind = "ended" => e.session \in Sockets
             /\ e.kind = "banned" => e.address \in Address
                                     /\ e = BannedEvent(e.address)
  <2>1. CASE e = Connected
    BY <2>1 DEF Connected
  <2>2. ASSUME NEW s \in Sockets, e = Ended(s)
        PROVE  e.kind = "ended" /\ e.session \in Sockets
    BY <2>2 DEF Ended
  <2>3. ASSUME NEW a \in Address, e = BannedEvent(a)
        PROVE  e.kind = "banned" /\ e.address \in Address /\ e = BannedEvent(e.address)
    BY <2>3 DEF BannedEvent
  <2>4. QED
    BY <2>1, <2>2, <2>3 DEF Event
<1>3. QED
  BY <1>1, <1>2

(* The event that is dispatched, and those that stay.                         *)
LEMMA DispatchedFacts ==
  ASSUME ServerTypeOK, NEW k, Dispatched(k)
  PROVE  /\ events # <<>> /\ turn = Idle
         /\ Head(events) \in Event /\ Head(events).kind = k
         /\ Tail(events) \in Seq(Event)
BY Taken DEF Dispatched, ServerTypeOK
-----------------------------------------------------------------------------
(* The counter keeps within a std::size_t.                                    *)
LEMMA CountInRange ==
  ASSUME NEW n \in Int PROVE n % CountRange \in 0 .. CountRange - 1
BY TcpServerAssumption, SMT

LEMMA NetworkOf == \A s \in Sockets : Peer[s] \in Address /\ Network[Peer[s]] \in AllNetworks
BY TcpServerAssumption DEF AllNetworks

(* Type correctness, step by step.                                            *)
LEMMA TypeStep ==
  ASSUME ServerTypeOK, Placed, [ServerNext]_serverVars PROVE ServerTypeOK'
<1> USE DEF ServerTypeOK, listenerVars, sessionVars, bannedVars
<1>0. CASE UNCHANGED serverVars
  BY <1>0 DEF serverVars
<1>1. CASE TryListen
  BY <1>1 DEF TryListen
<1>2. ASSUME NEW s \in Sockets, Accept(s) PROVE ServerTypeOK'
  <2>1. hands' \in [step : {"idle", "push", "send"}, socket : Sockets \cup {NoSocket}]
    BY <1>2 DEF Accept
  <2>2. place' \in [Sockets -> {"backlog", "allowed", "accepted", "session", "gone"}]
    BY <1>2 DEF Accept
  <2>3. QED
    BY <1>2, <2>1, <2>2 DEF Accept
<1>3. CASE Push
  <2>1. hands.socket \in Sockets /\ Free \in [step : {"idle", "push", "send"}, socket : Sockets \cup {NoSocket}]
    BY <1>3 DEF Push, Placed, InHands, Free
  <2>2. accepted' \in Seq(Sockets)
    BY <1>3, <2>1, Appended DEF Push
  <2>3. QED
    BY <1>3, <2>1, <2>2 DEF Push
<1>4. CASE SendConnected
  <2>1. events' \in Seq(Event)
    BY <1>4, Appended, EventKinds DEF SendConnected
  <2>2. QED
    BY <1>4, <2>1 DEF SendConnected, Free
<1>5. CASE on_connected_event
  <2>1. events' \in Seq(Event)
    BY <1>5, DispatchedFacts DEF on_connected_event
  <2>2. QED
    BY <1>5, <2>1 DEF on_connected_event
<1>6. CASE NoneWaiting
  BY <1>6 DEF NoneWaiting, Idle
<1>7. CASE TakeSocket
  <2>1. Head(accepted) \in Sockets /\ accepted' \in Seq(Sockets)
    BY <1>7, Taken DEF TakeSocket
  <2>2. count' \in 0 .. CountRange - 1
    <3>1. count + 1 \in Int
      BY TcpServerAssumption
    <3>2. count' = (count + 1) % CountRange
      BY <1>7 DEF TakeSocket
    <3>3. QED
      BY <3>1, <3>2, CountInRange
  <2>3. turn' \in [step : {"idle", "take", "yield"}, served : Nat]
    BY <1>7 DEF TakeSocket
  <2>4. QED
    BY <1>7, <2>1, <2>2, <2>3 DEF TakeSocket
<1>8. CASE YieldTurn
  <2>1. events' \in Seq(Event)
    <3>1. Append(events, Connected) \in Seq(Event)
      BY Appended, EventKinds
    <3>2. QED
      BY <1>8, <3>1 DEF YieldTurn
  <2>2. turn' \in [step : {"idle", "take", "yield"}, served : Nat]
    BY <1>8 DEF YieldTurn, Idle
  <2>3. QED
    BY <1>8, <2>1, <2>2 DEF YieldTurn
<1>9. CASE on_session_ended_event
  <2>1. Head(events).session \in Sockets /\ events' \in Seq(Event)
    BY <1>9, DispatchedFacts, EventKinds DEF on_session_ended_event
  <2>2. count' \in 0 .. CountRange - 1
    <3>1. count - 1 \in Int
      BY TcpServerAssumption
    <3>2. count' = (count - 1) % CountRange
      BY <1>9 DEF on_session_ended_event, Uncounted
    <3>3. QED
      BY <3>1, <3>2, CountInRange
  <2>3. quits' \in [Sockets -> 0 .. MaxQuits]
    BY <1>9, <2>1, TcpServerAssumption DEF on_session_ended_event
  <2>4. QED
    BY <1>9, <2>1, <2>2, <2>3 DEF on_session_ended_event
<1>10. CASE on_banned_event
  <2>1. events' \in Seq(Event)
    BY <1>10, DispatchedFacts DEF on_banned_event
  <2>2. QED
    BY <1>10, <2>1 DEF on_banned_event, CutBy, InFlight
<1>11. ASSUME NEW ids \in SUBSET sessions, end_sessions(ids) PROVE ServerTypeOK'
  BY <1>11 DEF end_sessions
<1>12. ASSUME NEW s \in Sockets, Quit(s) PROVE ServerTypeOK'
  <2>1. events' \in Seq(Event)
    BY <1>12, Appended, EventKinds DEF Quit
  <2>2. quits' \in [Sockets -> 0 .. MaxQuits]
    BY <1>12, TcpServerAssumption DEF Quit
  <2>3. QED
    BY <1>12, <2>1, <2>2 DEF Quit
<1>13. ASSUME NEW s \in Sockets, FailedLogin(s) PROVE ServerTypeOK'
  <2>1. events' \in Seq(Event)
    BY <1>13, Appended, EventKinds, NetworkOf DEF FailedLogin
  <2>2. banned' \in [AllNetworks -> Address \cup {NoBan}]
    BY <1>13, NetworkOf DEF FailedLogin
  <2>3. QED
    BY <1>13, <2>1, <2>2 DEF FailedLogin
<1>14. ASSUME NEW n \in AllNetworks, BanEnds(n) PROVE ServerTypeOK'
  BY <1>14 DEF BanEnds
<1>15. QED
  BY <1>0, <1>1, <1>2, <1>3, <1>4, <1>5, <1>6, <1>7, <1>8, <1>9, <1>10, <1>11,
     <1>12, <1>13, <1>14 DEF ServerNext, Listener, Server

(* An event is sent: where the sockets of ended events are stays as it was.   *)
LEMMA Unended ==
  ASSUME ServerTypeOK, InTable, NEW e \in Event, events' = Append(events, e),
         place' = place, sessions' = sessions,
         e.kind = "ended" => place[e.session] \in {"session", "gone"}
  PROVE  InTable'
<1>1. /\ DOMAIN events' = 1 .. Len(events) + 1
      /\ DOMAIN events = 1 .. Len(events) /\ Len(events) \in Nat
      /\ \A i \in DOMAIN events : events'[i] = events[i]
      /\ events'[Len(events) + 1] = e
  BY Appended DEF ServerTypeOK
<1>2. \A i \in DOMAIN events' : i \in DOMAIN events \/ i = Len(events) + 1
  BY <1>1, SMT
<1>3. QED
  BY <1>1, <1>2 DEF InTable

(* An event is taken that ends no session.                                    *)
LEMMA StillEnded ==
  ASSUME ServerTypeOK, InTable, events # <<>>, events' = Tail(events),
         place' = place, sessions' = sessions
  PROVE  InTable'
<1>1. \A i \in DOMAIN events' : i + 1 \in DOMAIN events /\ events'[i] = events[i + 1]
  BY Taken DEF ServerTypeOK
<1>2. QED
  BY <1>1 DEF InTable

(* What a container holds is in its place, step by step.                      *)
LEMMA PlacedStep ==
  ASSUME ServerTypeOK, Placed, [ServerNext]_serverVars PROVE Placed'
<1> USE DEF ServerTypeOK, Placed, listenerVars, sessionVars, bannedVars
<1>0. CASE UNCHANGED serverVars
  BY <1>0 DEF serverVars, InHands, InQueue, InTable
<1>1. CASE TryListen
  BY <1>1 DEF TryListen, InHands, InQueue, InTable, Free
<1>2. ASSUME NEW s \in Sockets, Accept(s) PROVE Placed'
  <2>1. place'[s] \in {"allowed", "gone"} /\ \A t \in Sockets : t # s => place'[t] = place[t]
    BY <1>2 DEF Accept
  <2>2. place[s] = "backlog" /\ hands = Free
    BY <1>2 DEF Accept
  <2>3. InHands'
    BY <1>2, <2>2 DEF Accept, InHands, Free
  <2>4. InQueue'
    BY <1>2, <2>1, <2>2 DEF Accept, InQueue
  <2>5. InTable'
    <3>1. sessions' = sessions /\ events' = events
      BY <1>2 DEF Accept
    <3>2. \A t \in sessions : t # s
      BY <2>2 DEF InTable
    <3>3. ASSUME NEW i \in DOMAIN events, events[i].kind = "ended"
          PROVE  place'[events[i].session] \in {"session", "gone"}
      <4>1. events[i].session \in Sockets
        BY <3>3, EventKinds
      <4>2. events[i].session # s
        BY <2>2, <3>3 DEF InTable
      <4>3. QED
        BY <2>1, <3>3, <4>1, <4>2 DEF InTable
    <3>4. QED
      BY <2>1, <3>1, <3>2, <3>3 DEF InTable
  <2>6. QED
    BY <2>3, <2>4, <2>5
<1>3. CASE Push
  <2> DEFINE s == hands.socket
  <2>1. s \in Sockets /\ place[s] = "allowed"
    BY <1>3 DEF Push, InHands
  <2>2. place' = [place EXCEPT ![s] = "accepted"]
    BY <1>3 DEF Push
  <2>3. place'[s] = "accepted" /\ \A t \in Sockets : t # s => place'[t] = place[t]
    BY <2>1, <2>2
  <2>4. InHands'
    BY <1>3 DEF Push, InHands, Free
  <2>5. InQueue'
    <3>1. accepted' = Append(accepted, s)
      BY <1>3 DEF Push
    <3>2. /\ DOMAIN accepted' = 1 .. Len(accepted) + 1
          /\ DOMAIN accepted = 1 .. Len(accepted) /\ Len(accepted) \in Nat
          /\ \A i \in DOMAIN accepted : accepted'[i] = accepted[i]
          /\ accepted'[Len(accepted) + 1] = s
      BY <2>1, <3>1, Appended
    <3>3. \A i \in DOMAIN accepted' : i \in DOMAIN accepted \/ i = Len(accepted) + 1
      BY <3>2, SMT
    <3>4. \A i \in DOMAIN accepted : accepted[i] \in Sockets /\ accepted[i] # s
      BY <2>1 DEF InQueue
    <3>5. \A i \in DOMAIN accepted' : place'[accepted'[i]] = "accepted"
      BY <2>3, <3>2, <3>3, <3>4 DEF InQueue
    <3>6. \A i, j \in DOMAIN accepted' : accepted'[i] = accepted'[j] => i = j
      BY SMTT(30), <3>2, <3>3, <3>4 DEF InQueue
    <3>7. QED
      BY <3>5, <3>6 DEF InQueue
  <2>6. InTable'
    <3>1. sessions' = sessions /\ events' = events
      BY <1>3 DEF Push
    <3>2. \A t \in sessions : t # s
      BY <2>1 DEF InTable
    <3>3. ASSUME NEW i \in DOMAIN events, events[i].kind = "ended"
          PROVE  place'[events[i].session] \in {"session", "gone"}
      <4>1. events[i].session \in Sockets
        BY <3>3, EventKinds
      <4>2. events[i].session # s
        BY <2>1, <3>3 DEF InTable
      <4>3. QED
        BY <2>3, <3>3, <4>1, <4>2 DEF InTable
    <3>4. QED
      BY <2>3, <3>1, <3>2, <3>3 DEF InTable
  <2>7. QED
    BY <2>4, <2>5, <2>6
<1>4. CASE SendConnected
  <2>1. InHands' /\ InQueue'
    BY <1>4 DEF SendConnected, InHands, InQueue, Free
  <2>2. InTable'
    BY <1>4, EventKinds, Unended DEF SendConnected
  <2>3. QED
    BY <2>1, <2>2
<1>5. CASE on_connected_event
  <2>1. InHands' /\ InQueue'
    BY <1>5 DEF on_connected_event, InHands, InQueue
  <2>2. InTable'
    BY <1>5, StillEnded DEF on_connected_event, Dispatched
  <2>3. QED
    BY <2>1, <2>2
<1>6. CASE NoneWaiting
  BY <1>6 DEF NoneWaiting, InHands, InQueue, InTable
<1>7. CASE TakeSocket
  <2> DEFINE s == Head(accepted)
  <2>1. accepted # <<>> /\ accepted' = Tail(accepted)
        /\ place' = [place EXCEPT ![s] = "session"]
        /\ sessions' = sessions \cup {s} /\ events' = events /\ hands' = hands
    BY <1>7 DEF TakeSocket
  <2>2. /\ s \in Sockets /\ s = accepted[1] /\ 1 \in DOMAIN accepted
        /\ \A i \in DOMAIN accepted' :
             i + 1 \in DOMAIN accepted /\ i \in Nat \ {0} /\ accepted'[i] = accepted[i + 1]
    BY <2>1, Taken
  <2>3. place[s] = "accepted"
    BY <2>2 DEF InQueue
  <2>4. place'[s] = "session" /\ \A t \in Sockets : t # s => place'[t] = place[t]
    BY <2>1, <2>2
  <2>5. InHands'
    BY <2>1, <2>3, <2>4 DEF InHands
  <2>6. InQueue'
    <3>1. \A i \in DOMAIN accepted' : i + 1 # 1
      BY <2>2, SMT
    <3>2. \A i \in DOMAIN accepted' : accepted'[i] # s /\ accepted'[i] \in Sockets
      BY <2>2, <3>1 DEF InQueue
    <3>3. \A i \in DOMAIN accepted' : place'[accepted'[i]] = "accepted"
      BY <2>2, <2>4, <3>2 DEF InQueue
    <3>4. ASSUME NEW i \in DOMAIN accepted', NEW j \in DOMAIN accepted',
                 accepted'[i] = accepted'[j]
          PROVE  i = j
      <4>1. i + 1 = j + 1
        BY <2>2, <3>4 DEF InQueue
      <4>2. QED
        BY <2>2, <4>1, SMT
    <3>5. QED
      BY <3>3, <3>4 DEF InQueue
  <2>7. InTable'
    <3>1. \A t \in sessions : t \in Sockets /\ place[t] = "session"
      BY DEF InTable
    <3>2. ASSUME NEW i \in DOMAIN events, events[i].kind = "ended"
          PROVE  place'[events[i].session] \in {"session", "gone"}
      <4>1. events[i].session \in Sockets
        BY <3>2, EventKinds
      <4>2. QED
        BY <2>4, <3>2, <4>1 DEF InTable
    <3>3. QED
      BY <2>1, <2>4, <3>1, <3>2 DEF InTable
  <2>8. QED
    BY <2>5, <2>6, <2>7
<1>8. CASE YieldTurn
  <2>1. InHands' /\ InQueue'
    BY <1>8 DEF YieldTurn, InHands, InQueue
  <2>2. InTable'
    <3>1. CASE events' = events
      BY <1>8, <3>1 DEF YieldTurn, InTable
    <3>2. CASE events' = Append(events, Connected)
      BY <1>8, <3>2, EventKinds, Unended DEF YieldTurn
    <3>3. QED
      BY <1>8, <3>1, <3>2 DEF YieldTurn
  <2>3. QED
    BY <2>1, <2>2
<1>9. CASE on_session_ended_event
  <2> DEFINE s == Head(events).session
  <2>1. /\ events # <<>> /\ events' = Tail(events) /\ sessions' = sessions \ {s}
        /\ place' = [place EXCEPT ![s] = "gone"]
        /\ Head(events).kind = "ended" /\ s \in Sockets
        /\ hands' = hands /\ accepted' = accepted
    BY <1>9, DispatchedFacts, EventKinds DEF on_session_ended_event
  <2>2. /\ Head(events) = events[1] /\ 1 \in DOMAIN events
        /\ \A i \in DOMAIN events' : i + 1 \in DOMAIN events /\ events'[i] = events[i + 1]
    BY <2>1, Taken
  <2>3. place[s] \in {"session", "gone"}
    BY <2>1, <2>2 DEF InTable
  <2>4. place'[s] = "gone" /\ \A t \in Sockets : t # s => place'[t] = place[t]
    BY <2>1
  <2>5. InHands' /\ InQueue'
    BY <2>1, <2>3, <2>4 DEF InHands, InQueue
  <2>6. InTable'
    <3>1. ASSUME NEW i \in DOMAIN events', events'[i].kind = "ended"
          PROVE  place'[events'[i].session] \in {"session", "gone"}
      <4> DEFINE t == events[i + 1].session
      <4>1. i + 1 \in DOMAIN events /\ events'[i] = events[i + 1]
        BY <2>2
      <4>2. t \in Sockets /\ place[t] \in {"session", "gone"}
        BY <3>1, <4>1, EventKinds DEF InTable
      <4>3. place'[t] \in {"session", "gone"}
        BY <2>4, <4>2
      <4>4. QED
        BY <4>1, <4>3
    <3>2. QED
      BY <2>1, <2>4, <3>1 DEF InTable
  <2>7. QED
    BY <2>5, <2>6
<1>10. CASE on_banned_event
  <2>1. InHands' /\ InQueue'
    BY <1>10 DEF on_banned_event, InHands, InQueue
  <2>2. InTable'
    BY <1>10, StillEnded DEF on_banned_event, Dispatched
  <2>3. QED
    BY <2>1, <2>2
<1>11. ASSUME NEW ids \in SUBSET sessions, end_sessions(ids) PROVE Placed'
  BY <1>11 DEF end_sessions, InHands, InQueue, InTable
<1>12. ASSUME NEW s \in Sockets, Quit(s) PROVE Placed'
  <2>1. InHands' /\ InQueue'
    BY <1>12 DEF Quit, InHands, InQueue
  <2>2. InTable'
    <3>1. place[s] = "session" /\ Ended(s) \in Event /\ Ended(s).session = s
      BY <1>12, EventKinds DEF Quit, InTable
    <3>2. QED
      BY <1>12, <3>1, Unended DEF Quit
  <2>3. QED
    BY <2>1, <2>2
<1>13. ASSUME NEW s \in Sockets, FailedLogin(s) PROVE Placed'
  <2>1. InHands' /\ InQueue'
    BY <1>13 DEF FailedLogin, InHands, InQueue
  <2>2. InTable'
    <3>1. BannedEvent(Peer[s]) \in Event /\ BannedEvent(Peer[s]).kind = "banned"
      BY EventKinds, NetworkOf
    <3>2. QED
      BY <1>13, <3>1, Unended DEF FailedLogin
  <2>3. QED
    BY <2>1, <2>2
<1>14. ASSUME NEW n \in AllNetworks, BanEnds(n) PROVE Placed'
  BY <1>14 DEF BanEnds, InHands, InQueue, InTable
<1>15. QED
  BY <1>0, <1>1, <1>2, <1>3, <1>4, <1>5, <1>6, <1>7, <1>8, <1>9, <1>10, <1>11,
     <1>12, <1>13, <1>14 DEF ServerNext, Listener, Server

-----------------------------------------------------------------------------
(* Nobody is forgotten *)

(* The server or the listener is about to look at accepted_.                  *)
LooksSoon ==
  \/ turn.step # "idle"
  \/ hands.step = "send"
  \/ \E i \in DOMAIN events : events[i] = Connected

(* What is sent does not hide an event that was queued.                       *)
LEMMA StillConnected ==
  ASSUME ServerTypeOK, NEW e \in Event, events' = Append(events, e),
         \E i \in DOMAIN events : events[i] = Connected
  PROVE  \E i \in DOMAIN events' : events'[i] = Connected
<1>1. /\ DOMAIN events' = 1 .. Len(events) + 1
      /\ DOMAIN events = 1 .. Len(events) /\ Len(events) \in Nat
      /\ \A i \in DOMAIN events : events'[i] = events[i]
  BY Appended DEF ServerTypeOK
<1>2. PICK i \in DOMAIN events : events[i] = Connected
  OBVIOUS
<1>3. i \in DOMAIN events'
  BY <1>1, SMT
<1>4. QED
  BY <1>1, <1>2, <1>3

(* Another event is taken: a connected event stays.                           *)
LEMMA ConnectedStays ==
  ASSUME ServerTypeOK, NEW k, Dispatched(k), k # "connected", events' = Tail(events),
         \E i \in DOMAIN events : events[i] = Connected
  PROVE  \E i \in DOMAIN events' : events'[i] = Connected
<1>1. PICK i \in DOMAIN events : events[i] = Connected
  OBVIOUS
<1>2. events[1].kind = k
  BY DispatchedFacts, Taken DEF ServerTypeOK, Dispatched
<1>3. i # 1
  BY <1>1, <1>2, EventKinds
<1>4. i - 1 \in DOMAIN Tail(events) /\ Tail(events)[i - 1] = events[i]
  BY <1>3, Taken DEF ServerTypeOK, Dispatched
<1>5. QED
  BY <1>1, <1>4

(* A connected event is sent.                                                 *)
LEMMA ConnectedSent ==
  ASSUME ServerTypeOK, events' = Append(events, Connected)
  PROVE  \E i \in DOMAIN events' : events'[i] = Connected
<1>1. /\ DOMAIN events' = 1 .. Len(events) + 1 /\ Len(events) \in Nat
      /\ events'[Len(events) + 1] = Connected
  BY Appended, EventKinds DEF ServerTypeOK
<1>2. QED
  BY <1>1, SMT

(* While a socket waits, somebody is about to look, step by step.  A socket   *)
(* that finds the queue empty sends the event, one that does not finds that   *)
(* somebody looks already; the server stops looking only when nothing waits,  *)
(* or with an event sent to itself.                                           *)
LEMMA LooksStep ==
  ASSUME ServerIInv, [ServerNext]_serverVars PROVE NoSocketForgotten'
<1> USE DEF listenerVars, sessionVars, bannedVars
<1> SUFFICES ASSUME accepted' # <<>> PROVE LooksSoon'
  BY DEF NoSocketForgotten, LooksSoon
<1>a. ServerTypeOK /\ Placed
  BY DEF ServerIInv
<1>b. accepted # <<>> => LooksSoon
  BY DEF ServerIInv, NoSocketForgotten, LooksSoon
<1>0. CASE UNCHANGED serverVars
  BY <1>0, <1>b DEF serverVars, LooksSoon
<1>1. CASE TryListen
  BY <1>1, <1>b DEF TryListen, LooksSoon
<1>2. ASSUME NEW s \in Sockets, Accept(s) PROVE LooksSoon'
  BY <1>2, <1>b DEF Accept, LooksSoon, Free
<1>3. CASE Push
  <2>1. CASE Len(accepted') = 1
    BY <1>3, <2>1 DEF Push, Wakes, LooksSoon
  <2>2. CASE Len(accepted') # 1
    <3>1. hands.socket \in Sockets
      BY <1>3, <1>a DEF Push, Placed, InHands
    <3>2. Len(accepted') = Len(accepted) + 1 /\ accepted \in Seq(Sockets)
      BY <1>3, <1>a, <3>1 DEF Push, ServerTypeOK
    <3>3. accepted # <<>>
      BY <2>2, <3>2
    <3>4. QED
      BY <1>3, <1>b, <3>3 DEF Push, LooksSoon
  <2>3. QED
    BY <2>1, <2>2
<1>4. CASE SendConnected
  BY <1>4, <1>a, ConnectedSent DEF SendConnected, LooksSoon
<1>5. CASE on_connected_event
  BY <1>5 DEF on_connected_event, LooksSoon
<1>6. CASE NoneWaiting
  BY <1>6 DEF NoneWaiting
<1>7. CASE TakeSocket
  <2>1. turn'.step # "idle"
    BY <1>7 DEF TakeSocket
  <2>2. QED
    BY <2>1 DEF LooksSoon
<1>8. CASE YieldTurn
  <2>1. CASE accepted # <<>>
    BY <1>8, <1>a, <2>1, ConnectedSent DEF YieldTurn, LooksSoon
  <2>2. CASE accepted = <<>>
    BY <1>8, <2>2 DEF YieldTurn
  <2>3. QED
    BY <2>1, <2>2
<1>9. CASE on_session_ended_event
  BY <1>9, <1>a, <1>b, ConnectedStays DEF on_session_ended_event, LooksSoon
<1>10. CASE on_banned_event
  BY <1>10, <1>a, <1>b, ConnectedStays DEF on_banned_event, LooksSoon
<1>11. ASSUME NEW ids \in SUBSET sessions, end_sessions(ids) PROVE LooksSoon'
  BY <1>11, <1>b DEF end_sessions, LooksSoon
<1>12. ASSUME NEW s \in Sockets, Quit(s) PROVE LooksSoon'
  <2>1. events' = Append(events, Ended(s)) /\ Ended(s) \in Event
    BY <1>12, EventKinds DEF Quit
  <2>2. QED
    BY <1>12, <1>a, <1>b, <2>1, StillConnected DEF Quit, LooksSoon
<1>13. ASSUME NEW s \in Sockets, FailedLogin(s) PROVE LooksSoon'
  <2>1. events' = Append(events, BannedEvent(Peer[s])) /\ BannedEvent(Peer[s]) \in Event
    BY <1>13, EventKinds, NetworkOf DEF FailedLogin
  <2>2. QED
    BY <1>13, <1>a, <1>b, <2>1, StillConnected DEF FailedLogin, LooksSoon
<1>14. ASSUME NEW n \in AllNetworks, BanEnds(n) PROVE LooksSoon'
  BY <1>14, <1>b DEF BanEnds, LooksSoon
<1>15. QED
  BY <1>0, <1>1, <1>2, <1>3, <1>4, <1>5, <1>6, <1>7, <1>8, <1>9, <1>10, <1>11,
     <1>12, <1>13, <1>14 DEF ServerNext, Listener, Server

-----------------------------------------------------------------------------
(* Who escapes a ban *)

(* A socket s keeps its side of Cut when a step brings no new ban of its      *)
(* address, takes no such event and forgets nothing about it.                 *)
LEMMA CutKept ==
  ASSUME NEW s \in Sockets, CutFor(s),
         Passed(s)' => Passed(s),
         banned' = banned,
         BannedEvent(Peer[s]) \in Range(events) => BannedEvent(Peer[s]) \in Range(events'),
         s \in closing \cup early => s \in closing' \cup early'
  PROVE  CutFor(s)'
BY DEF CutFor

(* An event is sent, or none: what was queued is queued.                      *)
LEMMA SentStay ==
  ASSUME ServerTypeOK, NEW e \in Event, events' \in {events, Append(events, e)}
  PROVE  Range(events) \subseteq Range(events')
<1>1. Range(Append(events, e)) = Range(events) \cup {e}
  BY AppendedRange DEF ServerTypeOK
<1>2. QED
  BY <1>1

(* An event is taken: those that stay are still queued.                       *)
LEMMA OthersStay ==
  ASSUME ServerTypeOK, NEW k, Dispatched(k), events' = Tail(events),
         NEW e \in Range(events), e # Head(events)
  PROVE  e \in Range(events')
BY TakenRange DEF ServerTypeOK, Dispatched

(* Who escapes a ban, step by step: the listener lets nobody in of a network  *)
(* that is banned, and the server cuts all that it has when it hears of it.   *)
LEMMA CutStep ==
  ASSUME ServerIInv, [ServerNext]_serverVars PROVE Cut'
<1> USE DEF listenerVars, sessionVars, bannedVars
<1> SUFFICES ASSUME NEW s \in Sockets PROVE CutFor(s)'
  BY DEF Cut
<1>a. ServerTypeOK /\ Placed /\ CutFor(s)
  BY DEF ServerIInv, Cut
<1>b. Peer[s] \in Address /\ Network[Peer[s]] \in AllNetworks /\ NoBan \notin Address
  BY NetworkOf, TcpServerAssumption
<1>c. /\ BannedEvent(Peer[s]) \in Event /\ BannedEvent(Peer[s]).kind = "banned"
      /\ BannedEvent(Peer[s]).address = Peer[s]
  BY <1>b, EventKinds
<1>0. CASE UNCHANGED serverVars
  BY <1>0, <1>a DEF serverVars, CutFor, Passed
<1>1. CASE TryListen
  BY <1>1, <1>a DEF TryListen, CutFor, Passed
<1>2. ASSUME NEW t \in Sockets, Accept(t) PROVE CutFor(s)'
  <2>1. CASE t # s
    BY <1>2, <1>a, <2>1 DEF Accept, CutFor, Passed, ServerTypeOK
  <2>2. CASE t = s /\ is_peer_allowed(s)
    BY <1>2, <1>b, <2>2 DEF Accept, CutFor, is_peer_allowed
  <2>3. CASE t = s /\ ~is_peer_allowed(s)
    <3>1. place'[s] = "gone" /\ sessions' = sessions
      BY <1>2, <1>a, <2>3 DEF Accept, ServerTypeOK
    <3>2. QED
      BY <1>2, <1>a, <3>1, CutKept DEF Accept, Passed
  <2>4. QED
    BY <2>1, <2>2, <2>3
<1>3. CASE Push
  <2>1. hands.socket \in Sockets /\ place[hands.socket] = "allowed"
    BY <1>3, <1>a DEF Push, Placed, InHands
  <2>2. Passed(s)' => Passed(s)
    BY <1>3, <1>a, <2>1 DEF Push, Passed, ServerTypeOK
  <2>3. QED
    BY <1>3, <1>a, <2>2, CutKept DEF Push
<1>4. CASE SendConnected
  BY <1>4, <1>a, SentStay, EventKinds, CutKept DEF SendConnected, Passed
<1>5. CASE on_connected_event
  <2>1. BannedEvent(Peer[s]) # Head(events)
    BY <1>5, <1>a, <1>c, DispatchedFacts DEF on_connected_event
  <2>2. QED
    BY <1>5, <1>a, <2>1, OthersStay, CutKept DEF on_connected_event, Passed
<1>6. CASE NoneWaiting
  BY <1>6, <1>a DEF NoneWaiting, CutFor, Passed
<1>7. CASE TakeSocket
  <2>1. Head(accepted) \in Sockets /\ place[Head(accepted)] = "accepted"
    BY <1>7, <1>a, Taken DEF TakeSocket, Placed, InQueue, ServerTypeOK
  <2>2. Passed(s)' => Passed(s)
    BY <1>7, <1>a, <2>1 DEF TakeSocket, Passed, ServerTypeOK
  <2>3. QED
    BY <1>7, <1>a, <2>2, CutKept DEF TakeSocket
<1>8. CASE YieldTurn
  <2>1. Range(events) \subseteq Range(events')
    BY <1>8, <1>a, SentStay, EventKinds DEF YieldTurn
  <2>2. QED
    BY <1>8, <1>a, <2>1, CutKept DEF YieldTurn, Passed
<1>9. CASE on_session_ended_event
  <2> DEFINE t == Head(events).session
  <2>1. BannedEvent(Peer[s]) # Head(events) /\ t \in Sockets
    BY <1>9, <1>a, <1>c, DispatchedFacts, EventKinds DEF on_session_ended_event
  <2>2. BannedEvent(Peer[s]) \in Range(events) => BannedEvent(Peer[s]) \in Range(events')
    BY <1>9, <1>a, <2>1, OthersStay DEF on_session_ended_event
  <2>3. CASE t = s
    <3>1. ~Passed(s)'
      BY <1>9, <1>a, <2>3 DEF on_session_ended_event, Passed, ServerTypeOK
    <3>2. QED
      BY <3>1 DEF CutFor
  <2>4. CASE t # s
    <3>1. Passed(s)' => Passed(s)
      BY <1>9, <1>a, <2>1, <2>4 DEF on_session_ended_event, Passed, ServerTypeOK
    <3>2. s \in closing \cup early => s \in closing' \cup early'
      BY <1>9, <2>4 DEF on_session_ended_event
    <3>3. banned' = banned
      BY <1>9 DEF on_session_ended_event
    <3>4. QED
      BY <1>a, <2>2, <3>1, <3>2, <3>3, CutKept
  <2>5. QED
    BY <2>3, <2>4
<1>10. CASE on_banned_event
  <2> DEFINE a == Head(events).address
  <2>1. /\ closing' = closing \cup CutBy(a) /\ early' = early \cup InFlight(a)
        /\ sessions' = sessions /\ place' = place /\ banned' = banned
        /\ Head(events) = BannedEvent(a)
    BY <1>10, <1>a, DispatchedFacts, EventKinds DEF on_banned_event
  <2>2. CASE Peer[s] = a
    BY <2>1, <2>2 DEF CutFor, Passed, CutBy, InFlight
  <2>3. CASE Peer[s] # a
    <3>1. BannedEvent(Peer[s]) # Head(events)
      BY <1>c, <2>1, <2>3
    <3>2. QED
      BY <1>10, <1>a, <2>1, <3>1, OthersStay, CutKept DEF on_banned_event, Passed
  <2>4. QED
    BY <2>2, <2>3
<1>11. ASSUME NEW ids \in SUBSET sessions, end_sessions(ids) PROVE CutFor(s)'
  BY <1>11, <1>a, CutKept DEF end_sessions, Passed
<1>12. ASSUME NEW t \in Sockets, Quit(t) PROVE CutFor(s)'
  <2>1. Range(events) \subseteq Range(events')
    BY <1>12, <1>a, SentStay, EventKinds DEF Quit
  <2>2. QED
    BY <1>12, <1>a, <2>1, CutKept DEF Quit, Passed
<1>13. ASSUME NEW t \in Sockets, FailedLogin(t) PROVE CutFor(s)'
  <2>1. /\ events' = Append(events, BannedEvent(Peer[t])) /\ BannedEvent(Peer[t]) \in Event
        /\ banned' = [banned EXCEPT ![Network[Peer[t]]] = Peer[t]]
        /\ Passed(s)' => Passed(s)
        /\ closing' = closing /\ early' = early
    BY <1>13, EventKinds, NetworkOf DEF FailedLogin, Passed
  <2>2. Range(events') = Range(events) \cup {BannedEvent(Peer[t])}
    BY <1>a, <2>1, AppendedRange DEF ServerTypeOK
  <2>3. CASE Peer[t] = Peer[s]
    BY <2>2, <2>3 DEF CutFor
  <2>4. CASE Peer[t] # Peer[s]
    <3>1. banned'[Network[Peer[s]]] = Peer[s] => banned[Network[Peer[s]]] = Peer[s]
      BY <1>a, <1>b, <2>1, <2>4, NetworkOf DEF ServerTypeOK
    <3>2. QED
      BY <1>a, <2>1, <2>2, <3>1 DEF CutFor
  <2>5. QED
    BY <2>3, <2>4
<1>14. ASSUME NEW n \in AllNetworks, BanEnds(n) PROVE CutFor(s)'
  <2>1. /\ banned' = [banned EXCEPT ![n] = NoBan] /\ events' = events
        /\ early' = {t \in early : Network[Peer[t]] # n} /\ closing' = closing
        /\ sessions' = sessions /\ place' = place
    BY <1>14 DEF BanEnds
  <2>2. CASE Network[Peer[s]] = n
    <3>1. banned'[Network[Peer[s]]] # Peer[s]
      BY <1>a, <1>b, <2>1, <2>2 DEF ServerTypeOK
    <3>2. QED
      BY <3>1 DEF CutFor
  <2>3. CASE Network[Peer[s]] # n
    <3>1. banned'[Network[Peer[s]]] = banned[Network[Peer[s]]]
      BY <1>a, <1>b, <2>1, <2>3 DEF ServerTypeOK
    <3>2. QED
      BY <1>a, <2>1, <2>3, <3>1 DEF CutFor, Passed
  <2>4. QED
    BY <2>2, <2>3
<1>15. QED
  BY <1>0, <1>1, <1>2, <1>3, <1>4, <1>5, <1>6, <1>7, <1>8, <1>9, <1>10, <1>11,
     <1>12, <1>13, <1>14 DEF ServerNext, Listener, Server

-----------------------------------------------------------------------------
(* The theorems *)

(* The inductive invariant holds in every reachable state.                    *)
LEMMA Inductive == ServerSpec => []ServerIInv
<1>1. ServerInit => ServerIInv
  <2> SUFFICES ASSUME ServerInit PROVE ServerIInv
    OBVIOUS
  <2>1. ServerTypeOK
    <3>1. 0 \in 0 .. CountRange - 1 /\ 0 \in 0 .. MaxQuits
      BY TcpServerAssumption, SMT
    <3>2. <<>> \in Seq(Sockets) /\ <<>> \in Seq(Event)
      OBVIOUS
    <3>3. QED
      BY <3>1, <3>2 DEF ServerInit, ServerTypeOK, Free, Idle
  <2>2. Placed
    BY DEF ServerInit, Placed, InHands, InQueue, InTable, Free
  <2>3. NoSocketForgotten /\ Cut
    BY DEF ServerInit, NoSocketForgotten, Cut, CutFor, Passed
  <2>4. QED
    BY <2>1, <2>2, <2>3 DEF ServerIInv
<1>2. ServerIInv /\ [ServerNext]_serverVars => ServerIInv'
  <2> SUFFICES ASSUME ServerIInv, [ServerNext]_serverVars PROVE ServerIInv'
    OBVIOUS
  <2>1. ServerTypeOK /\ Placed
    BY DEF ServerIInv
  <2>2. QED
    BY <2>1, TypeStep, PlacedStep, LooksStep, CutStep DEF ServerIInv
<1>3. QED
  BY <1>1, <1>2, PTL DEF ServerSpec

(* Every variable keeps its type: the counter stays a std::size_t, and a      *)
(* socket is always in one known place between listener and table.            *)
THEOREM ServerTypeCorrect == ServerSpec => []ServerTypeOK
<1>1. ServerIInv => ServerTypeOK
  BY DEF ServerIInv
<1>2. QED
  BY <1>1, Inductive, PTL

(* While accepted_ holds a socket, a connected event is queued or about to be *)
(* sent, or the server is in its loop, though the event is sent outside the   *)
(* mutex and only for the first socket (listener.cpp 162-176).                *)
THEOREM Unforgotten == ServerSpec => []NoSocketForgotten
<1>1. ServerIInv => NoSocketForgotten
  BY DEF ServerIInv
<1>2. QED
  BY <1>1, Inductive, PTL

(* Once the server has heard of a ban, the only sessions of the banned        *)
(* address that go on are those whose socket was between the listener's look  *)
(* and the server's (tcp/session.cpp 66, ftp/server.cpp 163-171).             *)
THEOREM Latecomers == ServerSpec => []OnlyLatecomersEscape
<1>1. ServerIInv => OnlyLatecomersEscape
  BY DEF ServerIInv, ServerTypeOK, Cut, CutFor, Passed, OnlyLatecomersEscape
<1>2. QED
  BY <1>1, Inductive, PTL
================================================================================
