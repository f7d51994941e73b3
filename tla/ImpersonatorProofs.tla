-------------------------- MODULE ImpersonatorProofs --------------------------
(***************************************************************************)
(* Theorems about the impersonator's client, for any calls, kinds of       *)
(* responses, sessions that leave and processes that die.                  *)
(*                                                                         *)
(* The inductive invariant has four parts that need little of each other.  *)
(* Timed is that of the one timer.  Reading says that there is one token   *)
(* for the next read, which is with the socket, in the loop's queue or     *)
(* stands for the message that was read.  Fifo says that what waits for a  *)
(* response is what is on its way there and back, in that order.  Led says *)
(* that credentials go ahead of what needs them.                           *)
(***************************************************************************)
EXTENDS Impersonator, TLAPS, SequenceTheorems, WellFoundedInduction

Requests == Request \cup {NoRequest}

-----------------------------------------------------------------------------
(* The parts of the invariant *)

(* The timer is that of the request that has waited longest, and is stopped   *)
(* when there is none.                                                        *)
Timed ==
  caller.timer = IF caller.recvq = <<>> THEN NoRequest ELSE Head(caller.recvq)

(* One read at a time: it is waited for, or its event is queued, once, or its *)
(* message is in msg_, of which the caller has been told at most once.        *)
In(q, e) == \E i \in DOMAIN q : q[i] = e
OnceIn(q, e) == \A i, j \in DOMAIN q : q[i] = e /\ q[j] = e => i = j
Queued(e) == In(events, e)
Once(e) == OnceIn(events, e)

Reading ==
  /\ Once(Socket("read")) /\ Once(Ready("recv"))
  /\ "read" \in armed => ~ Queued(Socket("read"))
  /\ channel.msg # NoRequest =>
       "read" \notin armed /\ ~ Queued(Socket("read")) /\ ~ channel.waiting
  /\ Queued(Ready("recv")) => channel.msg # NoRequest /\ "recv" \notin channel.ops

(* A channel that is closed has no socket.                                    *)
Closed ==
  ~ channel.open =>
    /\ armed = {} /\ ~ proc.alive
    /\ ~ Queued(Socket("read")) /\ ~ Queued(Socket("write"))

(* What is between the process and the caller, oldest first, and what is      *)
(* between the caller and the process's answer.                               *)
Opt(r) == IF r = NoRequest THEN <<>> ELSE <<r>>
Downstream == Opt(channel.msg) \o (channel.in \o proc.toClient)
Upstream == Opt(proc.serving) \o (proc.toServer \o Opt(channel.out))

(* What waits for its response is on its way, in the order it was sent in; a  *)
(* process that died has lost what had not left it.                           *)
Fifo ==
  channel.open =>
    \E rest \in Seq(Request) :
      /\ caller.recvq = Downstream \o rest
      /\ proc.alive => rest = Upstream

(* A request is its session's own or the preset, and answers are answers to   *)
(* requests.                                                                  *)
Right(r) == r.op \in {"preset", RequestOf(r.for)}
AllRight ==
  /\ \A i \in DOMAIN caller.sendq : Right(caller.sendq[i])
  /\ \A i \in DOMAIN caller.recvq : Right(caller.recvq[i])

(* The caller is with one session at most, and a call is made once.           *)
Holder ==
  /\ \A c \in Calls : step[c] \in {"preset", "call"} <=> inUse = c
  /\ \A c \in expects : stored /\ step[c] # "idle"
  /\ \A c \in without : step[c] = "made"

Made(r) == r.op = "call" => step[r.for] = "made"
AllMade ==
  /\ \A i \in DOMAIN caller.sendq : Made(caller.sendq[i])
  /\ \A i \in DOMAIN proc.toServer : Made(proc.toServer[i])
  /\ channel.out # NoRequest => Made(channel.out)

(* Credentials go ahead of what needs them: a request made after              *)
(* set_credentials() that the process has not taken yet has some before it,   *)
(* unless the process has them, or they were withheld.                        *)
IsCreds(r) == r.op \in {"creds", "preset"}
HasCreds(q) == \E j \in DOMAIN q : IsCreds(q[j])
CredsBefore(q, i) == \E j \in DOMAIN q : j < i /\ IsCreds(q[j])
Asks(r) == r.op = "call" /\ r.for \in expects
Known == proc.creds \/ skipped
Carried == IsCreds(channel.out) \/ HasCreds(proc.toServer)

Led ==
  proc.alive =>
    /\ \A i \in DOMAIN proc.toServer :
         Asks(proc.toServer[i]) => Known \/ CredsBefore(proc.toServer, i)
    /\ Asks(channel.out) => Known \/ HasCreds(proc.toServer)
    /\ \A i \in DOMAIN caller.sendq :
         Asks(caller.sendq[i]) => Known \/ Carried \/ CredsBefore(caller.sendq, i)

(* The credentials that are stored are known to the process, on their way, or *)
(* about to be sent by the session that holds the caller.                     *)
Promised == inUse # NoCall /\ (step[inUse] = "preset" \/ inUse \in CredsCalls)
Covered ==
  stored /\ proc.alive => Known \/ Carried \/ HasCreds(caller.sendq) \/ Promised

-----------------------------------------------------------------------------
(* Induction *)

(* A set of numbers has a least one.                                          *)
LEMMA Least ==
  ASSUME NEW T \in SUBSET Nat, T # {}
  PROVE  \E x \in T : \A y \in T : x <= y
<1> DEFINE Less == OpToRel(<, Nat)
<1>1. \A p \in Nat \X Nat : p \in Less <=> p[1] < p[2]
  BY DEF OpToRel
<1>2. PICK x \in T : \A y \in T : ~(<<y, x>> \in Less)
  <2>1. IsWellFoundedOn(Less, Nat)
    BY NatLessThanWellFounded
  <2> HIDE DEF Less
  <2>2. QED
    BY <2>1, WFMin
<1>3. ASSUME NEW y \in T PROVE x <= y
  <2>1. x \in Nat /\ y \in Nat
    OBVIOUS
  <2>2. <<y, x>> \in Nat \X Nat /\ <<y, x>>[1] = y /\ <<y, x>>[2] = x
    BY <2>1
  <2>3. ~(y < x)
    BY <1>1, <1>2, <2>2
  <2>4. QED
    BY <2>1, <2>3
<1>4. QED
  BY <1>3

(* A set that holds zero, and the successor of each of its members, holds     *)
(* every number: induction without an operator for a parameter.               *)
LEMMA AllNumbers ==
  ASSUME NEW T \in SUBSET Nat, 0 \in T, \A n \in T : n + 1 \in T
  PROVE  T = Nat
<1> SUFFICES ASSUME Nat \ T # {} PROVE FALSE
  OBVIOUS
<1>1. PICK x \in Nat \ T : \A y \in Nat \ T : x <= y
  <2>1. Nat \ T \in SUBSET Nat
    OBVIOUS
  <2>2. QED
    BY <2>1, Least
<1>2. x - 1 \in Nat
  OBVIOUS
<1>3. x - 1 \in T
  BY <1>1, <1>2
<1>4. QED
  BY <1>2, <1>3

-----------------------------------------------------------------------------
(* Taking the socket's events back *)

(* What WithoutSocket() computes for each prefix of the queue.                *)
LeftOf(evs, n, g) ==
  g = [i \in 0 .. n |-> IF i = 0 THEN <<>>
                        ELSE IF evs[i].kind = "socket" THEN g[i - 1]
                        ELSE Append(g[i - 1], evs[i])]

(* There is such a function for every length: it is built one step at a time. *)
LEMMA LeftExists ==
  ASSUME NEW evs, NEW n \in Nat PROVE \E g : LeftOf(evs, n, g)
<1> DEFINE T == {m \in Nat : \E g : LeftOf(evs, m, g)}
<1>1. 0 \in T
  <2> DEFINE g == [i \in 0 .. 0 |-> <<>>]
  <2>1. LeftOf(evs, 0, g)
    BY DEF LeftOf
  <2>2. QED
    BY <2>1
<1>2. ASSUME NEW m \in T PROVE m + 1 \in T
  <2>1. PICK g : LeftOf(evs, m, g)
    OBVIOUS
  <2> DEFINE last == IF evs[m + 1].kind = "socket" THEN g[m] ELSE Append(g[m], evs[m + 1])
             h == [i \in 0 .. m + 1 |-> IF i = m + 1 THEN last ELSE g[i]]
  <2>2. \A i \in 0 .. m : h[i] = g[i] /\ i \in 0 .. m + 1
    OBVIOUS
  <2>3. h[m + 1] = last /\ DOMAIN h = 0 .. m + 1 /\ m \in Nat
    OBVIOUS
  <2>4. \A i \in 0 .. m : g[i] = IF i = 0 THEN <<>>
                                  ELSE IF evs[i].kind = "socket" THEN g[i - 1]
                                  ELSE Append(g[i - 1], evs[i])
    BY <2>1 DEF LeftOf
  <2>5. h = [i \in 0 .. m + 1 |-> h[i]]
    OBVIOUS
  <2> HIDE DEF h
  <2>6. \A i \in 0 .. m + 1 :
          h[i] = IF i = 0 THEN <<>>
                 ELSE IF evs[i].kind = "socket" THEN h[i - 1]
                 ELSE Append(h[i - 1], evs[i])
    <3> TAKE i \in 0 .. m + 1
    <3>1. CASE i = 0
      <4>1. 0 \in 0 .. m
        BY <2>3
      <4>2. h[0] = g[0] /\ g[0] = <<>>
        BY <2>2, <2>4, <4>1
      <4>3. QED
        BY <3>1, <4>2
    <3>2. CASE i # 0 /\ i # m + 1
      <4>1. i \in 0 .. m /\ i - 1 \in 0 .. m
        BY <2>3, <3>2
      <4>2. QED
        BY <2>2, <2>4, <3>2, <4>1
    <3>3. CASE i = m + 1
      <4>1. i # 0 /\ i - 1 = m /\ m \in 0 .. m
        BY <2>3, <3>3
      <4>2. QED
        BY <2>2, <2>3, <3>3, <4>1
    <3>4. QED
      BY <3>1, <3>2, <3>3
  <2>7. LeftOf(evs, m + 1, h)
    BY <2>5, <2>6 DEF LeftOf
  <2>8. QED
    BY <2>3, <2>7
<1>3. QED
  BY <1>1, <1>2, AllNumbers

(* WithoutSocket() leaves a queue of events of which none is the socket's and *)
(* all were queued before, none of them more often.                           *)
LEMMA WithoutSocketFacts ==
  ASSUME NEW q \in Seq(LoopEvent)
  PROVE  LET r == WithoutSocket(q) IN
         /\ r \in Seq(LoopEvent)
         /\ \A k \in DOMAIN r : r[k].kind # "socket" /\ \E i \in DOMAIN q : q[i] = r[k]
         /\ \A e : OnceIn(q, e) => OnceIn(r, e)
<1> DEFINE n == Len(q)
           g == CHOOSE f : LeftOf(q, n, f)
<1>1. n \in Nat /\ DOMAIN q = 1 .. n /\ \A i \in 1 .. n : q[i] \in LoopEvent
  OBVIOUS
<1>2. LeftOf(q, n, g)
  BY <1>1, LeftExists
<1>3. WithoutSocket(q) = g[n]
  BY DEF WithoutSocket, LeftOf
<1> HIDE DEF n, g
<1>4. \A i \in 0 .. n : g[i] = IF i = 0 THEN <<>>
                                ELSE IF q[i].kind = "socket" THEN g[i - 1]
                                ELSE Append(g[i - 1], q[i])
  BY <1>2 DEF LeftOf
<1> DEFINE P(i) == /\ g[i] \in Seq(LoopEvent)
                   /\ \A k \in DOMAIN g[i] : /\ g[i][k].kind # "socket"
                                             /\ \E j \in 1 .. i : q[j] = g[i][k]
                   /\ \A e : OnceIn(q, e) => OnceIn(g[i], e)
           T == {i \in Nat : i <= n => P(i)}
<1>5. 0 \in T
  <2>1. g[0] = <<>>
    BY <1>1, <1>4
  <2>2. <<>> \in Seq(LoopEvent) /\ DOMAIN <<>> = {}
    OBVIOUS
  <2>3. P(0)
    BY <2>1, <2>2 DEF OnceIn
  <2>4. QED
    BY <2>3
<1>6. ASSUME NEW i \in T PROVE i + 1 \in T
  <2> SUFFICES ASSUME i + 1 <= n PROVE P(i + 1)
    OBVIOUS
  <2>1. /\ i \in Nat /\ i + 1 \in 0 .. n /\ i + 1 \in 1 .. n /\ i + 1 # 0
        /\ (i + 1) - 1 = i
    BY <1>1
  <2>2. P(i)
    BY <1>1, <2>1
  <2>3. g[i + 1] = IF q[i + 1].kind = "socket" THEN g[i] ELSE Append(g[i], q[i + 1])
    BY <1>4, <2>1
  <2>4. \A j \in 1 .. i : j \in 1 .. i + 1 /\ j \in DOMAIN q /\ j # i + 1
    BY <1>1, <2>1
  <2>5. CASE q[i + 1].kind = "socket"
    BY <2>2, <2>3, <2>4, <2>5
  <2>6. CASE q[i + 1].kind # "socket"
    <3> DEFINE e == q[i + 1]
               m == Len(g[i])
    <3>1. e \in LoopEvent /\ e.kind # "socket"
      BY <1>1, <2>1, <2>6
    <3>2. g[i + 1] = Append(g[i], e) /\ g[i] \in Seq(LoopEvent)
      BY <2>2, <2>3, <2>6
    <3>3. /\ g[i + 1] \in Seq(LoopEvent)
          /\ DOMAIN g[i + 1] = 1 .. m + 1 /\ DOMAIN g[i] = 1 .. m /\ m \in Nat
          /\ \A k \in DOMAIN g[i] : g[i + 1][k] = g[i][k]
          /\ g[i + 1][m + 1] = e
      BY <3>1, <3>2
    <3> HIDE DEF e, m
    <3>4. \A k \in DOMAIN g[i + 1] : k \in DOMAIN g[i] \/ k = m + 1
      BY <3>3, SMT
    <3>5. i + 1 \in 1 .. i + 1 /\ q[i + 1] = e /\ i + 1 \in DOMAIN q
      BY <1>1, <2>1 DEF e
    <3>6. \A k \in DOMAIN g[i + 1] : /\ g[i + 1][k].kind # "socket"
                                      /\ \E j \in 1 .. i + 1 : q[j] = g[i + 1][k]
      BY <2>2, <2>4, <3>1, <3>3, <3>4, <3>5
    <3>7. ASSUME NEW x, OnceIn(q, x) PROVE OnceIn(g[i + 1], x)
      <4>1. CASE x = e
        <5>1. \A k \in DOMAIN g[i] : g[i][k] # x
          BY <2>2, <2>4, <3>5, <3>7, <4>1 DEF OnceIn
        <5>2. QED
          BY <3>3, <3>4, <5>1 DEF OnceIn
      <4>2. CASE x # e
        BY ZenonT(40), <2>2, <3>3, <3>4, <3>7, <4>2 DEF OnceIn
      <4>3. QED
        BY <4>1, <4>2
    <3>8. QED
      BY <3>3, <3>6, <3>7
  <2>7. QED
    BY <2>5, <2>6
<1>7. n \in T
  <2> HIDE DEF P
  <2>1. T \in SUBSET Nat
    OBVIOUS
  <2>2. T = Nat
    BY <1>5, <1>6, <2>1, AllNumbers
  <2>3. QED
    BY <1>1, <2>2
<1>8. P(n)
  BY <1>1, <1>7
<1>9. QED
  BY <1>1, <1>3, <1>8

-----------------------------------------------------------------------------
(* Types *)

Callers == [sendq : Seq(Request), recvq : Seq(Request), timer : Requests]
Channels == [open : BOOLEAN, out : Requests, in : Seq(Request), msg : Requests,
             ops : SUBSET {"send", "recv"}, waiting : BOOLEAN]
Procs == [alive : BOOLEAN, serving : Requests, creds : BOOLEAN,
          toServer : Seq(Request), toClient : Seq(Request)]

(* A request is none of the two that stand for no request.                    *)
LEMMA RequestFacts ==
  /\ NoRequest \notin Request /\ NoRequest \in Requests
  /\ \A r \in Request : r.op \in {"call", "creds", "preset"} /\ r.for \in Calls
  /\ \A r \in Requests : r # NoRequest => r \in Request
  /\ \A c \in Calls : /\ [op |-> "preset", for |-> c] \in Request
                      /\ [op |-> RequestOf(c), for |-> c] \in Request
BY DEF Request, Requests, NoRequest, RequestOf

(* The events of the loop, told apart.                                        *)
LEMMA EventFacts ==
  /\ Socket("read") \in LoopEvent /\ Socket("write") \in LoopEvent
  /\ Ready("send") \in LoopEvent /\ Ready("recv") \in LoopEvent /\ Error \in LoopEvent
  /\ Socket("read").kind = "socket" /\ Socket("write").kind = "socket"
  /\ Ready("send").kind = "ready" /\ Ready("recv").kind = "ready"
  /\ Error.kind = "error"
  /\ Socket("read").flag = "read" /\ Socket("write").flag = "write"
  /\ Ready("send").op = "send" /\ Ready("recv").op = "recv"
BY DEF LoopEvent, Socket, Ready, Error

(* What a new caller, channel and process are.                                *)
LEMMA NewFacts ==
  /\ NewCaller \in Callers /\ NewChannel \in Channels /\ NewProc \in Procs
  /\ NoProc \in Procs /\ NoChannel \in Channels
<1>1. NoRequest \in Requests
  BY RequestFacts
<1>2. <<>> \in Seq(Request)
  OBVIOUS
<1> HIDE DEF Requests
<1>3. NewCaller \in Callers
  BY <1>1, <1>2 DEF NewCaller, Callers
<1>4. NewChannel \in Channels
  BY <1>1, <1>2 DEF NewChannel, Channels
<1>5. NewProc \in Procs
  BY <1>1, <1>2 DEF NewProc, Procs
<1>6. NoProc \in Procs
  BY <1>5 DEF NoProc, Procs
<1>7. NoChannel \in Channels
  BY <1>4 DEF NoChannel, Channels
<1>8. QED
  BY <1>3, <1>4, <1>5, <1>6, <1>7

(* Type correctness, by variable.                                             *)
LEMMA TypeOKDef ==
  TypeOK <=>
    /\ step \in [Calls -> {"idle", "preset", "call", "made"}]
    /\ inUse \in Calls \cup {NoCall}
    /\ stored \in BOOLEAN /\ skipped \in BOOLEAN
    /\ gone \subseteq Calls /\ expects \subseteq Calls /\ without \subseteq Calls
    /\ dropped \subseteq Calls
    /\ answer \in [Calls -> Requests \cup {DefaultAnswer}]
    /\ caller \in Callers /\ channel \in Channels /\ armed \subseteq {"read", "write"}
    /\ events \in Seq(LoopEvent) /\ proc \in Procs
    /\ crashes \in 0 .. MaxCrashes
BY DEF TypeOK, Requests, Callers, Channels, Procs

(* A record's fields, and the records that differ from it in some.            *)
LEMMA CallerFields ==
  ASSUME NEW r \in Callers
  PROVE  /\ r.sendq \in Seq(Request) /\ r.recvq \in Seq(Request) /\ r.timer \in Requests
         /\ \A q \in Seq(Request) : [r EXCEPT !.sendq = q] \in Callers
BY DEF Callers

LEMMA ChannelFields ==
  ASSUME NEW r \in Channels
  PROVE  /\ r.open \in BOOLEAN /\ r.out \in Requests /\ r.in \in Seq(Request)
         /\ r.msg \in Requests /\ r.ops \subseteq {"send", "recv"} /\ r.waiting \in BOOLEAN
BY DEF Channels

LEMMA ProcFields ==
  ASSUME NEW r \in Procs
  PROVE  /\ r.alive \in BOOLEAN /\ r.serving \in Requests /\ r.creds \in BOOLEAN
         /\ r.toServer \in Seq(Request) /\ r.toClient \in Seq(Request)
BY DEF Procs

(* An error keeps the types.                                                  *)
LEMMA ErrorType ==
  ASSUME TypeOK, NEW evs \in Seq(LoopEvent), NEW rs, on_error(evs, rs)
  PROVE  /\ answer' \in [Calls -> Requests \cup {DefaultAnswer}]
         /\ caller' \in Callers /\ channel' \in Channels
         /\ armed' \subseteq {"read", "write"} /\ proc' \in Procs
         /\ events' \in Seq(LoopEvent)
<1>1. answer \in [Calls -> Requests \cup {DefaultAnswer}] /\ channel \in Channels
  BY TypeOKDef
<1>2. answer' \in [Calls -> Requests \cup {DefaultAnswer}]
  BY <1>1 DEF on_error, AnsweredByDefault
<1>3. channel' \in Channels
  BY <1>1 DEF on_error, Reset, Channels
<1>4. events' \in Seq(LoopEvent)
  BY WithoutSocketFacts DEF on_error
<1>5. QED
  BY <1>2, <1>3, <1>4, NewFacts DEF on_error, SocketCloses

(* So does the channel's error,                                               *)
LEMMA FailsType ==
  ASSUME TypeOK, events # <<>>, Fails
  PROVE  /\ channel' \in Channels /\ armed' \subseteq {"read", "write"} /\ proc' \in Procs
         /\ events' \in Seq(LoopEvent)
<1>1. channel \in Channels /\ Tail(events) \in Seq(LoopEvent)
  BY TypeOKDef
<1>2. channel' \in Channels
  BY <1>1 DEF Fails, Reset, Channels
<1>3. WithoutSocket(Tail(events)) \in Seq(LoopEvent)
  BY <1>1, WithoutSocketFacts
<1>4. events' \in Seq(LoopEvent)
  BY <1>3, EventFacts DEF Fails
<1>5. QED
  BY <1>2, <1>4, NewFacts DEF Fails, SocketCloses

(* telling the caller that it can send or receive,                            *)
LEMMA TellsType ==
  ASSUME TypeOK, events # <<>>, NEW op \in {"send", "recv"}, NEW ch \in Channels, Tells(op, ch)
  PROVE  channel' \in Channels /\ events' \in Seq(LoopEvent)
<1>1. Tail(events) \in Seq(LoopEvent) /\ Ready(op) \in LoopEvent
  BY TypeOKDef, EventFacts
<1>2. [ch EXCEPT !.ops = @ \ {op}] \in Channels
  BY DEF Channels
<1>3. Append(Tail(events), Ready(op)) \in Seq(LoopEvent)
  BY <1>1
<1>4. QED
  BY <1>1, <1>2, <1>3 DEF Tells

(* and a request that is put in the queue.                                    *)
LEMMA EnqueueType ==
  ASSUME TypeOK, NEW r \in Request, Enqueue(r)
  PROVE  /\ answer' \in [Calls -> Requests \cup {DefaultAnswer}]
         /\ caller' \in Callers /\ channel' \in Channels
         /\ armed' \subseteq {"read", "write"} /\ proc' \in Procs
         /\ events' \in Seq(LoopEvent)
<1>1. CASE channel.open
  <2>1. events \in Seq(LoopEvent) /\ Ready("send") \in LoopEvent /\ caller \in Callers
    BY TypeOKDef, EventFacts
  <2>2. Append(caller.sendq, r) \in Seq(Request)
    BY <2>1, CallerFields
  <2>3. caller' \in Callers
    BY <1>1, <2>1, <2>2, CallerFields DEF Enqueue
  <2>4. events' \in Seq(LoopEvent)
    BY <1>1, <2>1 DEF Enqueue
  <2>5. QED
    BY <1>1, <2>3, <2>4, TypeOKDef DEF Enqueue
<1>2. CASE ~ channel.open
  <2>1. events \in Seq(LoopEvent) /\ on_error(events, Pending \cup {r})
    BY <1>2, TypeOKDef DEF Enqueue
  <2>2. QED
    BY <2>1, ErrorType
<1>3. QED
  BY <1>1, <1>2

(* Every step keeps the types.                                                *)
LEMMA TypeStep ==
  ASSUME TypeOK, [Next]_vars PROVE TypeOK'
<1> USE DEF sessionVars, historyVars
<1>a. /\ step \in [Calls -> {"idle", "preset", "call", "made"}]
      /\ inUse \in Calls \cup {NoCall}
      /\ stored \in BOOLEAN /\ skipped \in BOOLEAN
      /\ gone \subseteq Calls /\ expects \subseteq Calls /\ without \subseteq Calls
      /\ dropped \subseteq Calls
      /\ answer \in [Calls -> Requests \cup {DefaultAnswer}]
      /\ caller \in Callers /\ channel \in Channels /\ armed \subseteq {"read", "write"}
      /\ events \in Seq(LoopEvent) /\ proc \in Procs
      /\ crashes \in 0 .. MaxCrashes
  BY TypeOKDef
<1>b. /\ channel.out \in Requests /\ channel.in \in Seq(Request) /\ channel.msg \in Requests
      /\ proc.serving \in Requests /\ proc.toServer \in Seq(Request)
      /\ proc.toClient \in Seq(Request)
      /\ caller.sendq \in Seq(Request) /\ caller.recvq \in Seq(Request)
      /\ caller.timer \in Requests
  BY <1>a, CallerFields, ChannelFields, ProcFields
<1>c. events # <<>> => Tail(events) \in Seq(LoopEvent)
  BY <1>a
<1>0. CASE UNCHANGED vars
  BY <1>0 DEF vars, TypeOK
<1>1. ASSUME NEW c \in Calls, TakeCaller(c) PROVE TypeOK'
  BY <1>1, <1>a, TypeOKDef DEF TakeCaller, TypeOK
<1>2. ASSUME NEW c \in Calls, MakeCaller(c) PROVE TypeOK'
  <2>1. caller' \in Callers /\ channel' \in Channels /\ proc' \in Procs
    BY <1>2, NewFacts DEF MakeCaller
  <2>2. step' \in [Calls -> {"idle", "preset", "call", "made"}]
    BY <1>2, <1>a DEF MakeCaller
  <2>3. Lost \subseteq Calls
    <3>1. Pending \subseteq Request
      BY <1>b, RangeOfSeq DEF Pending
    <3>2. QED
      BY <3>1, RequestFacts DEF Lost, Receivers
  <2>4. events' \in Seq(LoopEvent) /\ expects' \subseteq Calls /\ dropped' \subseteq Calls
    BY <1>2, <1>a, <2>3 DEF MakeCaller
  <2>5. /\ inUse' \in Calls \cup {NoCall} /\ stored' \in BOOLEAN /\ skipped' \in BOOLEAN
        /\ gone' \subseteq Calls /\ without' \subseteq Calls
        /\ answer' \in [Calls -> Requests \cup {DefaultAnswer}]
        /\ armed' \subseteq {"read", "write"} /\ crashes' \in 0 .. MaxCrashes
    BY <1>2, <1>a DEF MakeCaller
  <2>6. QED
    BY <2>1, <2>2, <2>4, <2>5 DEF TypeOK, Callers, Channels, Procs, Requests
<1>3. ASSUME NEW c \in Calls, CallPreset(c) PROVE TypeOK'
  <2>1. Enqueue([op |-> "preset", for |-> c])
    BY <1>3 DEF CallPreset
  <2>2. /\ answer' \in [Calls -> Requests \cup {DefaultAnswer}]
        /\ caller' \in Callers /\ channel' \in Channels
        /\ armed' \subseteq {"read", "write"} /\ proc' \in Procs
        /\ events' \in Seq(LoopEvent)
    BY <2>1, EnqueueType, RequestFacts
  <2>3. QED
    BY <1>3, <1>a, <2>2 DEF CallPreset, TypeOK, Callers, Channels, Procs, Requests
<1>4. ASSUME NEW c \in Calls, Call(c) PROVE TypeOK'
  <2>1. Enqueue([op |-> RequestOf(c), for |-> c])
    BY <1>4 DEF Call
  <2>2. /\ answer' \in [Calls -> Requests \cup {DefaultAnswer}]
        /\ caller' \in Callers /\ channel' \in Channels
        /\ armed' \subseteq {"read", "write"} /\ proc' \in Procs
        /\ events' \in Seq(LoopEvent)
    BY <2>1, EnqueueType, RequestFacts
  <2>3. QED
    BY <1>4, <1>a, <2>2 DEF Call, TypeOK, Callers, Channels, Procs, Requests
<1>5. ASSUME NEW c \in Calls, Leave(c) PROVE TypeOK'
  BY <1>5, <1>a DEF Leave, TypeOK
<1>6. CASE on_write
  <2>1. channel' \in Channels /\ events' \in Seq(LoopEvent)
        /\ armed' \subseteq {"read", "write"} /\ proc' \in Procs
    <3>1. events # <<>>
      BY <1>6 DEF on_write, Dispatched
    <3>2. CASE Tells("send", channel) /\ UNCHANGED <<armed, proc>>
      BY <1>a, <3>1, <3>2, TellsType
    <3>3. CASE /\ channel.out # NoRequest
               /\ Tells("send", [channel EXCEPT !.out = NoRequest])
               /\ proc' = [proc EXCEPT !.toServer = Append(@, channel.out)]
               /\ UNCHANGED armed
      <4>1. [channel EXCEPT !.out = NoRequest] \in Channels
        BY <1>a, RequestFacts DEF Channels
      <4>2. Append(proc.toServer, channel.out) \in Seq(Request)
        BY <1>b, <3>3, RequestFacts
      <4>3. proc' \in Procs
        BY <1>a, <3>3, <4>2 DEF Procs
      <4>4. QED
        BY <1>a, <3>1, <3>3, <4>1, <4>3, TellsType
    <3>4. CASE Fails
      BY <3>1, <3>4, FailsType
    <3>5. QED
      BY <1>6, <3>2, <3>3, <3>4 DEF on_write
  <2>2. QED
    BY <1>6, <1>a, <2>1 DEF on_write, TypeOK, Channels, Procs, Requests
<1>7. CASE on_read
  <2> DEFINE got == channel.in \o proc.toClient
             ch == [channel EXCEPT !.waiting = FALSE]
  <2>1. channel' \in Channels /\ events' \in Seq(LoopEvent)
        /\ armed' \subseteq {"read", "write"} /\ proc' \in Procs
    <3>1. events # <<>> /\ got \in Seq(Request) /\ ch \in Channels
      <4>1. events # <<>>
        BY <1>7 DEF on_read, Dispatched
      <4>2. got \in Seq(Request)
        BY <1>b
      <4>3. ch \in Channels
        BY <1>a DEF Channels
      <4>4. QED
        BY <4>1, <4>2, <4>3
    <3>2. CASE /\ channel.in # <<>>
               /\ Tells("recv", [ch EXCEPT !.msg = Head(channel.in), !.in = Tail(@)])
               /\ UNCHANGED <<armed, proc>>
      <4>1. Head(channel.in) \in Requests /\ Tail(channel.in) \in Seq(Request)
        BY <1>b, <3>2 DEF Requests
      <4>2. [ch EXCEPT !.msg = Head(channel.in), !.in = Tail(@)] \in Channels
        BY <1>a, <4>1 DEF Channels
      <4>3. QED
        BY <1>a, <3>1, <3>2, <4>2, TellsType
    <3>3. CASE /\ got # <<>>
               /\ Tells("recv", [ch EXCEPT !.msg = Head(got), !.in = Tail(got)])
               /\ proc' = [proc EXCEPT !.toClient = <<>>]
               /\ armed' = Rearmed(got)
      <4>1. Head(got) \in Requests /\ Tail(got) \in Seq(Request)
        <5> HIDE DEF got
        <5>1. QED
          BY <3>1, <3>3 DEF Requests
      <4>2. [ch EXCEPT !.msg = Head(got), !.in = Tail(got)] \in Channels
        <5> HIDE DEF got
        <5>1. QED
          BY <1>a, <4>1 DEF Channels
      <4>3. proc' \in Procs
        <5>1. <<>> \in Seq(Request)
          OBVIOUS
        <5>2. QED
          BY <1>a, <3>3, <5>1 DEF Procs
      <4>4. armed' \subseteq {"read", "write"}
        BY <1>a, <3>3 DEF Rearmed
      <4> HIDE DEF ch, got
      <4>5. QED
        BY <3>1, <3>3, <4>2, <4>3, <4>4, TellsType
    <3>4. CASE /\ armed' = Rearmed(got) /\ UNCHANGED proc
               /\ IF channel.msg # NoRequest
                  THEN Tells("recv", [ch EXCEPT !.waiting = TRUE])
                  ELSE channel' = [ch EXCEPT !.waiting = TRUE] /\ events' = Tail(events)
      <4>1. [ch EXCEPT !.waiting = TRUE] \in Channels
        BY <1>a DEF Channels
      <4>2. armed' \subseteq {"read", "write"}
        BY <1>a, <3>4 DEF Rearmed
      <4> HIDE DEF ch, got
      <4>3. QED
        BY <1>a, <1>c, <3>1, <3>4, <4>1, <4>2, TellsType
    <3>5. CASE Fails
      BY <3>1, <3>5, FailsType
    <3>6. QED
      BY <1>7, <3>2, <3>3, <3>4, <3>5 DEF on_read
  <2>2. QED
    BY <1>7, <1>a, <2>1 DEF on_read, TypeOK, Channels, Procs, Requests
<1>8. CASE on_can_send
  <2>1. events # <<>>
    BY <1>8 DEF on_can_send, Dispatched
  <2>2. /\ caller' \in Callers /\ channel' \in Channels /\ proc' \in Procs
        /\ answer' \in [Calls -> Requests \cup {DefaultAnswer}]
        /\ armed' \subseteq {"read", "write"} /\ events' \in Seq(LoopEvent)
        /\ skipped' \in BOOLEAN
    <3> DEFINE r == Head(caller.sendq)
               sent == [caller EXCEPT !.sendq = Tail(@), !.recvq = Append(@, r),
                                      !.timer = TimerAfterSend(r)]
    <3>1. CASE caller.sendq = <<>> /\ events' = Tail(events)
               /\ UNCHANGED <<answer, caller, channel, armed, proc, skipped>>
      BY <1>a, <1>c, <2>1, <3>1
    <3>2. ASSUME caller.sendq # <<>>
          PROVE  /\ r \in Request /\ sent \in Callers
                 /\ [caller EXCEPT !.sendq = Tail(@)] \in Callers
      <4>1. r \in Request /\ Tail(caller.sendq) \in Seq(Request)
        BY <1>b, <3>2
      <4>2. TimerAfterSend(r) \in Requests /\ Append(caller.recvq, r) \in Seq(Request)
        BY <1>b, <4>1, RequestFacts DEF TimerAfterSend, Requests
      <4>3. [caller EXCEPT !.sendq = Tail(@)] \in Callers
        BY <1>a, <4>1, CallerFields
      <4> HIDE DEF r
      <4>4. sent \in Callers
        BY <1>a, <4>1, <4>2 DEF Callers
      <4>5. QED
        BY <4>1, <4>3, <4>4
    <3>3. CASE /\ caller.sendq # <<>>
               /\ caller' = [caller EXCEPT !.sendq = Tail(@)]
               /\ skipped' = (skipped \/ r.op # "call")
               /\ UNCHANGED <<answer, channel, armed, events, proc>>
      BY <1>a, <3>2, <3>3
    <3>4. CASE /\ channel' = [channel EXCEPT !.ops = @ \cup {"send"}]
               /\ events' = Tail(events)
               /\ UNCHANGED <<answer, caller, armed, proc, skipped>>
      <4>1. channel' \in Channels
        BY <1>a, <3>4 DEF Channels
      <4>2. QED
        BY <1>a, <1>c, <2>1, <3>4, <4>1
    <3>5. CASE on_error(Tail(events), Pending) /\ UNCHANGED skipped
      BY <1>a, <1>c, <2>1, <3>5, ErrorType
    <3>6. CASE /\ caller.sendq # <<>> /\ caller' = sent
               /\ proc' = [proc EXCEPT !.toServer = Append(@, r)]
               /\ UNCHANGED <<answer, channel, armed, events, skipped>>
      <4>1. Append(proc.toServer, r) \in Seq(Request)
        BY <1>b, <3>2, <3>6
      <4>2. proc' \in Procs
        BY <1>a, <3>6, <4>1 DEF Procs
      <4>3. QED
        BY <1>a, <3>2, <3>6, <4>2
    <3>7. CASE /\ caller.sendq # <<>> /\ caller' = sent
               /\ channel' = [channel EXCEPT !.out = r]
               /\ armed' = armed \cup {"write"}
               /\ UNCHANGED <<answer, events, proc, skipped>>
      <4>1. channel' \in Channels
        BY <1>a, <3>2, <3>7 DEF Channels, Requests
      <4>2. QED
        BY <1>a, <3>2, <3>7, <4>1
    <3> HIDE DEF r, sent
    <3>8. QED
      BY <1>8, <3>1, <3>3, <3>4, <3>5, <3>6, <3>7 DEF on_can_send, r, sent
  <2>3. QED
    BY <1>8, <1>a, <2>2 DEF on_can_send, TypeOK, Callers, Channels, Procs, Requests
<1>9. CASE on_can_recv
  <2>1. events # <<>>
    BY <1>9 DEF on_can_recv, Dispatched
  <2>2. /\ caller' \in Callers /\ channel' \in Channels /\ proc' \in Procs
        /\ answer' \in [Calls -> Requests \cup {DefaultAnswer}]
        /\ armed' \subseteq {"read", "write"} /\ events' \in Seq(LoopEvent)
    <3> DEFINE rest == Tail(caller.recvq)
               ch == [channel EXCEPT !.msg = NoRequest, !.waiting = TRUE,
                                     !.ops = @ \cup {"recv"}]
    <3>1. ch \in Channels
      BY <1>a, RequestFacts DEF Channels
    <3>2. Looks(Tail(events)) \in Seq(LoopEvent)
      BY <1>c, <2>1, EventFacts DEF Looks
    <3>3. CASE channel' = ch /\ events' = Looks(Tail(events))
               /\ UNCHANGED <<answer, caller, armed, proc>>
      BY <1>a, <3>1, <3>2, <3>3
    <3>4. CASE /\ channel.msg # NoRequest /\ caller.recvq # <<>>
               /\ answer' = Delivered(channel.msg)
               /\ caller' = [caller EXCEPT !.recvq = rest, !.timer = TimerAfter(rest)]
               /\ channel' = ch /\ events' = Looks(Tail(events))
               /\ UNCHANGED <<armed, proc>>
      <4>1. rest \in Seq(Request)
        BY <1>b, <3>4
      <4>2. TimerAfter(rest) \in Requests
        <5> HIDE DEF rest
        <5>1. rest # <<>> => Head(rest) \in Request
          BY <4>1
        <5>2. QED
          BY <5>1, RequestFacts DEF TimerAfter, Requests
      <4>3. caller' \in Callers
        <5> HIDE DEF rest
        <5>1. QED
          BY <1>a, <3>4, <4>1, <4>2 DEF Callers
      <4>4. answer' \in [Calls -> Requests \cup {DefaultAnswer}]
        BY <1>a, <1>b, <3>4 DEF Delivered
      <4>5. QED
        BY <1>a, <3>1, <3>2, <3>4, <4>3, <4>4
    <3>5. CASE on_error(Tail(events), Pending)
      BY <1>c, <2>1, <3>5, ErrorType
    <3> HIDE DEF rest, ch
    <3>6. QED
      BY <1>9, <3>3, <3>4, <3>5 DEF on_can_recv, rest, ch
  <2>3. QED
    BY <1>9, <1>a, <2>2 DEF on_can_recv, TypeOK, Callers, Channels, Procs, Requests
<1>10. CASE on_channel_error
  <2>1. events # <<>> /\ on_error(Tail(events), Pending)
    BY <1>10 DEF on_channel_error, Dispatched
  <2>2. /\ caller' \in Callers /\ channel' \in Channels /\ proc' \in Procs
        /\ answer' \in [Calls -> Requests \cup {DefaultAnswer}]
        /\ armed' \subseteq {"read", "write"} /\ events' \in Seq(LoopEvent)
    BY <1>c, <2>1, ErrorType
  <2>3. QED
    BY <1>10, <1>a, <2>2 DEF on_channel_error, TypeOK, Callers, Channels, Procs, Requests
<1>11. CASE on_timer
  <2>1. /\ caller' \in Callers /\ channel' \in Channels /\ proc' \in Procs
        /\ answer' \in [Calls -> Requests \cup {DefaultAnswer}]
        /\ armed' \subseteq {"read", "write"} /\ events' \in Seq(LoopEvent)
    BY <1>11, <1>a, ErrorType DEF on_timer
  <2>2. QED
    BY <1>11, <1>a, <2>1 DEF on_timer, TypeOK, Callers, Channels, Procs, Requests
<1>12. ASSUME NEW flag \in {"read", "write"}, SocketEvent(flag) PROVE TypeOK'
  <2>1. events' \in Seq(LoopEvent)
    BY <1>12, <1>a, EventFacts DEF SocketEvent
  <2>2. QED
    BY <1>12, <1>a, <2>1 DEF SocketEvent, TypeOK, Callers, Channels, Procs, Requests
<1>13. CASE Serve
  <2> DEFINE r == Head(proc.toServer)
  <2>1. r \in Request /\ Tail(proc.toServer) \in Seq(Request) /\ r.for \in Calls
    BY <1>13, <1>b, RequestFacts DEF Serve
  <2>2. proc' \in Procs
    <3>1. proc' = [proc EXCEPT !.toServer = Tail(@), !.serving = r, !.creds = @ \/ r.op # "call"]
      BY <1>13 DEF Serve
    <3>2. r \in Requests
      BY <2>1 DEF Requests
    <3> HIDE DEF r
    <3>3. QED
      BY <1>a, <2>1, <3>1, <3>2 DEF Procs
  <2>3. without' \subseteq Calls
    BY <1>13, <1>a, <2>1 DEF Serve
  <2>4. QED
    BY <1>13, <1>a, <2>2, <2>3 DEF Serve, TypeOK, Callers, Channels, Procs, Requests
<1>14. CASE Respond
  <2>1. Append(proc.toClient, proc.serving) \in Seq(Request)
    BY <1>14, <1>b, RequestFacts DEF Respond
  <2>2. proc' \in Procs
    BY <1>14, <1>a, <2>1, RequestFacts DEF Respond, Procs
  <2>3. QED
    BY <1>14, <1>a, <2>2 DEF Respond, TypeOK, Callers, Channels, Procs, Requests
<1>15. CASE Crash
  <2>1. proc' \in Procs
    <3>1. <<>> \in Seq(Request)
      OBVIOUS
    <3>2. QED
      BY <1>15, <1>a, <3>1, RequestFacts DEF Crash, Procs
  <2>2. crashes' \in 0 .. MaxCrashes
    BY <1>15, <1>a, ImpersonatorAssumption DEF Crash
  <2>3. QED
    BY <1>15, <1>a, <2>1, <2>2 DEF Crash, TypeOK, Callers, Channels, Procs, Requests
<1>16. QED
  BY <1>0, <1>1, <1>2, <1>3, <1>4, <1>5, <1>6, <1>7, <1>8, <1>9, <1>10, <1>11,
     <1>12, <1>13, <1>14, <1>15 DEF Next, Session, Loop

-----------------------------------------------------------------------------
(* What happens to the caller's queues *)

Asked(r) == caller' = [caller EXCEPT !.sendq = Append(@, r)]

SkippedOne ==
  caller.sendq # <<>> /\ caller' = [caller EXCEPT !.sendq = Tail(@)]

SentOne ==
  /\ caller.sendq # <<>>
  /\ caller' = [caller EXCEPT !.sendq = Tail(@), !.recvq = Append(@, Head(caller.sendq)),
                              !.timer = TimerAfterSend(Head(caller.sendq))]

ReceivedOne ==
  /\ caller.recvq # <<>>
  /\ caller' = [caller EXCEPT !.recvq = Tail(caller.recvq),
                              !.timer = TimerAfter(Tail(caller.recvq))]

(* A step leaves the queues alone, empties them, or moves one request.        *)
LEMMA CallerChange ==
  ASSUME [Next]_vars
  PROVE  \/ caller' = caller
         \/ caller' = NewCaller
         \/ \E r \in Request : Right(r) /\ Asked(r)
         \/ SkippedOne \/ SentOne \/ ReceivedOne
<1>0. CASE UNCHANGED vars
  BY <1>0 DEF vars
<1>1. ASSUME NEW c \in Calls, TakeCaller(c) \/ MakeCaller(c) \/ Leave(c)
      PROVE  caller' \in {caller, NewCaller}
  BY <1>1 DEF TakeCaller, MakeCaller, Leave
<1>2. ASSUME NEW r \in Request, Right(r), Enqueue(r)
      PROVE  caller' = NewCaller \/ \E q \in Request : Right(q) /\ Asked(q)
  BY <1>2 DEF Enqueue, on_error, Asked
<1>3. ASSUME NEW c \in Calls, CallPreset(c) \/ Call(c)
      PROVE  \E r \in Request : Right(r) /\ Enqueue(r)
  BY <1>3, RequestFacts DEF CallPreset, Call, Right
<1>4. CASE on_write \/ on_read \/ Serve \/ Respond \/ Crash
  BY <1>4 DEF on_write, on_read, Serve, Respond, Crash
<1>5. CASE on_can_send
  BY <1>5 DEF on_can_send, on_error, SkippedOne, SentOne
<1>6. CASE on_can_recv
  BY <1>6 DEF on_can_recv, on_error, ReceivedOne
<1>7. CASE on_channel_error \/ on_timer
  BY <1>7 DEF on_channel_error, on_timer, on_error
<1>8. ASSUME NEW flag \in {"read", "write"}, SocketEvent(flag) PROVE caller' = caller
  BY <1>8 DEF SocketEvent
<1>9. QED
  BY <1>0, <1>1, <1>2, <1>3, <1>4, <1>5, <1>6, <1>7, <1>8 DEF Next, Session, Loop

(* The timer is moved along with the queue.                                   *)
LEMMA TimedStep ==
  ASSUME TypeOK, Timed, [Next]_vars PROVE Timed'
<1>a. caller.sendq \in Seq(Request) /\ caller.recvq \in Seq(Request) /\ caller \in Callers
  BY TypeOKDef, CallerFields
<1>1. CASE caller' = caller
  BY <1>1 DEF Timed
<1>2. CASE caller' = NewCaller
  BY <1>2 DEF Timed, NewCaller
<1>3. ASSUME NEW r \in Request, Asked(r) PROVE Timed'
  BY <1>3, <1>a DEF Asked, Timed, Callers
<1>4. CASE SkippedOne
  BY <1>4, <1>a DEF SkippedOne, Timed, Callers
<1>5. CASE SentOne
  <2> DEFINE r == Head(caller.sendq)
  <2>1. r \in Request
    BY <1>5, <1>a DEF SentOne
  <2>2. caller'.recvq = Append(caller.recvq, r) /\ caller'.timer = TimerAfterSend(r)
    BY <1>5, <1>a DEF SentOne, Callers
  <2> HIDE DEF r
  <2>3. Append(caller.recvq, r) # <<>>
    BY <1>a, <2>1
  <2>4. CASE caller.recvq = <<>>
    <3>1. caller.timer = NoRequest
      BY <2>4 DEF Timed
    <3>2. Head(Append(caller.recvq, r)) = r
      BY <2>1, <2>4
    <3>3. QED
      BY <2>2, <2>3, <3>1, <3>2 DEF Timed, TimerAfterSend
  <2>5. CASE caller.recvq # <<>>
    <3>1. Head(caller.recvq) \in Request /\ caller.timer = Head(caller.recvq)
      BY <1>a, <2>5 DEF Timed
    <3>2. Head(Append(caller.recvq, r)) = Head(caller.recvq)
      BY <1>a, <2>1, <2>5
    <3>3. QED
      BY <2>2, <2>3, <3>1, <3>2, RequestFacts DEF Timed, TimerAfterSend
  <2>6. QED
    BY <2>4, <2>5
<1>6. CASE ReceivedOne
  <2> DEFINE rest == Tail(caller.recvq)
  <2>1. Head(caller.recvq) \in Request /\ caller.timer = Head(caller.recvq)
    BY <1>6, <1>a DEF ReceivedOne, Timed
  <2>2. caller'.recvq = rest /\ caller'.timer = TimerAfter(rest)
    BY <1>6, <1>a DEF ReceivedOne, Callers
  <2>3. caller.timer # NoRequest
    BY <2>1, RequestFacts
  <2> HIDE DEF rest
  <2>4. QED
    BY <2>2, <2>3 DEF Timed, TimerAfter
<1>7. QED
  BY <1>1, <1>2, <1>3, <1>4, <1>5, <1>6, CallerChange

(* What holds of each request in a queue holds in what an append or a tail    *)
(* makes of it.                                                               *)
LEMMA QueueOf ==
  ASSUME NEW q \in Seq(Request)
  PROVE  /\ \A r \in Request : \A i \in DOMAIN Append(q, r) :
              \/ i \in DOMAIN q /\ Append(q, r)[i] = q[i]
              \/ i = Len(q) + 1 /\ Append(q, r)[i] = r
         /\ q # <<>> => \A i \in DOMAIN Tail(q) :
                           i + 1 \in DOMAIN q /\ Tail(q)[i] = q[i + 1] /\ i \in Nat \ {0}
         /\ q # <<>> => 1 \in DOMAIN q /\ Head(q) = q[1] /\ Head(q) \in Request
         /\ DOMAIN q = 1 .. Len(q) /\ Len(q) \in Nat
<1>1. DOMAIN q = 1 .. Len(q) /\ Len(q) \in Nat
  OBVIOUS
<1>2. ASSUME NEW r \in Request, NEW i \in DOMAIN Append(q, r)
      PROVE  \/ i \in DOMAIN q /\ Append(q, r)[i] = q[i]
             \/ i = Len(q) + 1 /\ Append(q, r)[i] = r
  BY <1>1
<1>3. ASSUME q # <<>>, NEW i \in DOMAIN Tail(q)
      PROVE  i + 1 \in DOMAIN q /\ Tail(q)[i] = q[i + 1] /\ i \in Nat \ {0}
  BY <1>1, <1>3
<1>4. ASSUME q # <<>> PROVE 1 \in DOMAIN q /\ Head(q) = q[1] /\ Head(q) \in Request
  BY <1>1, <1>4
<1>5. QED
  BY <1>1, <1>2, <1>3, <1>4

(* Requests stay what they are as they move on.                               *)
LEMMA AllRightStep ==
  ASSUME TypeOK, AllRight, [Next]_vars PROVE AllRight'
<1>a. caller.sendq \in Seq(Request) /\ caller.recvq \in Seq(Request) /\ caller \in Callers
  BY TypeOKDef, CallerFields
<1>1. CASE caller' = caller
  BY <1>1 DEF AllRight, Right
<1>2. CASE caller' = NewCaller
  BY <1>2 DEF AllRight, NewCaller
<1>3. ASSUME NEW r \in Request, Right(r), Asked(r) PROVE AllRight'
  <2>1. caller'.sendq = Append(caller.sendq, r) /\ caller'.recvq = caller.recvq
    BY <1>3, <1>a DEF Asked, Callers
  <2>2. QED
    BY <1>3, <1>a, <2>1, QueueOf DEF AllRight
<1>4. CASE SkippedOne
  <2>1. caller'.sendq = Tail(caller.sendq) /\ caller'.recvq = caller.recvq
    BY <1>4, <1>a DEF SkippedOne, Callers
  <2>2. QED
    BY <1>4, <1>a, <2>1, QueueOf DEF AllRight, SkippedOne
<1>5. CASE SentOne
  <2>1. /\ caller'.sendq = Tail(caller.sendq)
        /\ caller'.recvq = Append(caller.recvq, Head(caller.sendq))
    BY <1>5, <1>a DEF SentOne, Callers
  <2>2. Head(caller.sendq) \in Request /\ Right(Head(caller.sendq))
    BY <1>5, <1>a, QueueOf DEF SentOne, AllRight
  <2>3. QED
    BY <1>5, <1>a, <2>1, <2>2, QueueOf DEF AllRight, SentOne
<1>6. CASE ReceivedOne
  <2>1. caller'.sendq = caller.sendq /\ caller'.recvq = Tail(caller.recvq)
    BY <1>6, <1>a DEF ReceivedOne, Callers
  <2>2. QED
    BY <1>6, <1>a, <2>1, QueueOf DEF AllRight, ReceivedOne
<1>7. QED
  BY <1>1, <1>2, <1>3, <1>4, <1>5, <1>6, CallerChange

-----------------------------------------------------------------------------
(* One read at a time *)

(* What is queued after the head was taken,                                   *)
LEMMA AfterTail ==
  ASSUME NEW q \in Seq(LoopEvent), q # <<>>
  PROVE  /\ Tail(q) \in Seq(LoopEvent) /\ In(q, Head(q))
         /\ \A e : In(Tail(q), e) => In(q, e)
         /\ \A e : OnceIn(q, e) => OnceIn(Tail(q), e)
         /\ OnceIn(q, Head(q)) => ~ In(Tail(q), Head(q))
<1>1. /\ DOMAIN q = 1 .. Len(q) /\ Len(q) \in Nat
      /\ Head(q) = q[1] /\ 1 \in DOMAIN q
      /\ \A i \in DOMAIN Tail(q) : i + 1 \in DOMAIN q /\ i \in Nat \ {0} /\ Tail(q)[i] = q[i + 1]
  OBVIOUS
<1>2. \A e : In(Tail(q), e) => In(q, e)
  BY <1>1 DEF In
<1>3. ASSUME NEW e, OnceIn(q, e) PROVE OnceIn(Tail(q), e)
  <2> SUFFICES ASSUME NEW i \in DOMAIN Tail(q), NEW j \in DOMAIN Tail(q),
                      Tail(q)[i] = e, Tail(q)[j] = e
               PROVE  i = j
    BY DEF OnceIn
  <2>1. i + 1 = j + 1
    BY <1>1, <1>3 DEF OnceIn
  <2>2. QED
    BY <1>1, <2>1
<1>4. ASSUME OnceIn(q, Head(q)), In(Tail(q), Head(q)) PROVE FALSE
  <2>1. PICK i \in DOMAIN Tail(q) : Tail(q)[i] = Head(q)
    BY <1>4 DEF In
  <2>2. i + 1 = 1
    BY <1>1, <1>4, <2>1 DEF OnceIn
  <2>3. QED
    BY <1>1, <2>2
<1>5. QED
  BY <1>1, <1>2, <1>3, <1>4 DEF In

(* and after an append.                                                       *)
LEMMA AfterAppend ==
  ASSUME NEW q \in Seq(LoopEvent), NEW x \in LoopEvent
  PROVE  /\ Append(q, x) \in Seq(LoopEvent)
         /\ \A e : In(Append(q, x), e) <=> In(q, e) \/ e = x
         /\ \A e : OnceIn(q, e) /\ (e # x \/ ~ In(q, e)) => OnceIn(Append(q, x), e)
<1> DEFINE r == Append(q, x)
<1>1. /\ r \in Seq(LoopEvent) /\ DOMAIN q = 1 .. Len(q) /\ Len(q) \in Nat
      /\ DOMAIN r = 1 .. Len(q) + 1
      /\ \A i \in DOMAIN q : r[i] = q[i]
      /\ r[Len(q) + 1] = x
  OBVIOUS
<1> HIDE DEF r
<1>2. \A i \in DOMAIN r : i \in DOMAIN q \/ i = Len(q) + 1
  BY <1>1, SMT
<1>3. Len(q) + 1 \in DOMAIN r /\ \A i \in DOMAIN q : i \in DOMAIN r
  BY <1>1, SMT
<1>4. \A e : In(r, e) <=> In(q, e) \/ e = x
  BY <1>1, <1>2, <1>3 DEF In
<1>5. \A e : OnceIn(q, e) /\ (e # x \/ ~ In(q, e)) => OnceIn(r, e)
  BY <1>1, <1>2, <1>3 DEF In, OnceIn
<1>6. QED
  BY <1>1, <1>4, <1>5 DEF r

(* An error closes the channel: nothing will be read any more.                *)
LEMMA ResetReads ==
  ASSUME TypeOK, Reading, NEW evs \in Seq(LoopEvent),
         \A e : In(evs, e) => Queued(e),
         \A e : Once(e) => OnceIn(evs, e),
         channel' = Reset, SocketCloses,
         events' \in {WithoutSocket(evs), Append(WithoutSocket(evs), Error)}
  PROVE  Reading' /\ Closed'
<1> DEFINE w == WithoutSocket(evs)
<1>1. /\ w \in Seq(LoopEvent)
      /\ \A k \in DOMAIN w : w[k].kind # "socket" /\ \E i \in DOMAIN evs : evs[i] = w[k]
      /\ \A e : OnceIn(evs, e) => OnceIn(w, e)
  BY WithoutSocketFacts
<1> HIDE DEF w
<1>2. \A e : In(w, e) => e.kind # "socket" /\ Queued(e)
  BY <1>1 DEF In
<1>3. \A e : Once(e) => OnceIn(w, e)
  BY <1>1
<1>4. \A e : In(events', e) => In(w, e) \/ e = Error
  <2>1. events' = w \/ events' = Append(w, Error)
    BY DEF w
  <2>2. \A e : In(Append(w, Error), e) <=> In(w, e) \/ e = Error
    BY <1>1, AfterAppend, EventFacts
  <2>3. QED
    BY <2>1, <2>2
<1>5. \A e : OnceIn(w, e) /\ e # Error => OnceIn(events', e)
  <2>1. events' = w \/ events' = Append(w, Error)
    BY DEF w
  <2>2. \A e : OnceIn(w, e) /\ (e # Error \/ ~ In(w, e)) => OnceIn(Append(w, Error), e)
    BY <1>1, AfterAppend, EventFacts
  <2>3. QED
    BY <2>1, <2>2
<1>6. /\ Ready("recv") # Error /\ Socket("read") # Error /\ Socket("write") # Error
      /\ Socket("read").kind = "socket" /\ Socket("write").kind = "socket"
  BY EventFacts
<1>7. /\ ~ In(events', Socket("read")) /\ ~ In(events', Socket("write"))
      /\ In(events', Ready("recv")) => Queued(Ready("recv"))
      /\ OnceIn(events', Socket("read")) /\ OnceIn(events', Ready("recv"))
  BY <1>2, <1>3, <1>4, <1>5, <1>6 DEF Reading
<1>8. /\ channel'.msg = channel.msg /\ channel'.waiting = channel.waiting
      /\ channel'.ops = channel.ops /\ channel'.open = FALSE
  BY TypeOKDef DEF Reset, Channels
<1>9. armed' = {} /\ ~ proc'.alive
  BY DEF SocketCloses, NoProc, NewProc
<1>10. Reading'
  BY <1>7, <1>8, <1>9 DEF Reading, Queued, Once
<1>11. Closed'
  BY <1>7, <1>9 DEF Closed, Queued
<1>12. QED
  BY <1>10, <1>11

(* The caller's errors,                                                       *)
LEMMA ErrorReads ==
  ASSUME TypeOK, Reading, NEW rs, on_error(events, rs)
  PROVE  Reading' /\ Closed'
<1>1. events \in Seq(LoopEvent)
  BY TypeOKDef
<1>2. QED
  BY <1>1, ResetReads DEF on_error, Queued, Once

(* those that an event brings,                                                *)
LEMMA EventErrorReads ==
  ASSUME TypeOK, Reading, NEW rs, events # <<>>, on_error(Tail(events), rs)
  PROVE  Reading' /\ Closed'
<1>1. /\ Tail(events) \in Seq(LoopEvent)
      /\ \A e : In(Tail(events), e) => Queued(e)
      /\ \A e : Once(e) => OnceIn(Tail(events), e)
  BY TypeOKDef, AfterTail DEF Queued, Once
<1>2. QED
  BY <1>1, ResetReads DEF on_error

(* and the channel's.                                                         *)
LEMMA FailsReads ==
  ASSUME TypeOK, Reading, events # <<>>, Fails
  PROVE  Reading' /\ Closed'
<1>1. /\ Tail(events) \in Seq(LoopEvent)
      /\ \A e : In(Tail(events), e) => Queued(e)
      /\ \A e : Once(e) => OnceIn(Tail(events), e)
  BY TypeOKDef, AfterTail DEF Queued, Once
<1>2. QED
  BY <1>1, ResetReads DEF Fails

(* A step that leaves the message, what is waited for and the socket's events *)
(* alone, and sends no word of a message.                                     *)
LEMMA ReadsKept ==
  ASSUME Reading, Closed,
         channel'.msg = channel.msg, channel'.waiting = channel.waiting,
         "recv" \in channel'.ops => "recv" \in channel.ops,
         channel'.open = channel.open, "read" \in armed' => "read" \in armed,
         ~ channel.open => armed' = {} /\ ~ proc'.alive,
         \A e \in {Socket("read"), Ready("recv")} :
            (In(events', e) => Queued(e)) /\ (Once(e) => OnceIn(events', e)),
         ~ channel.open /\ In(events', Socket("write")) => Queued(Socket("write"))
  PROVE  Reading' /\ Closed'
BY DEF Reading, Closed, Queued, Once

(* Telling the caller something else than of a message.                       *)
LEMMA TellsOther ==
  ASSUME TypeOK, Reading, Closed, channel.open, events # <<>>,
         NEW ch, ch.msg = channel.msg, ch.waiting = channel.waiting,
         ch.ops = channel.ops, ch.open = channel.open, ch \in Channels,
         Tells("send", ch), armed' = armed
  PROVE  Reading' /\ Closed'
<1>1. events \in Seq(LoopEvent) /\ Tail(events) \in Seq(LoopEvent)
  BY TypeOKDef
<1>2. CASE channel' = ch /\ events' = Tail(events)
  BY <1>1, <1>2, AfterTail, ReadsKept DEF Queued, Once
<1>3. CASE /\ channel' = [ch EXCEPT !.ops = @ \ {"send"}]
           /\ events' = Append(Tail(events), Ready("send"))
  <2>1. /\ channel'.msg = channel.msg /\ channel'.waiting = channel.waiting
        /\ channel'.open = channel.open
        /\ "recv" \in channel'.ops => "recv" \in channel.ops
    BY <1>3 DEF Channels
  <2>2. \A e : e # Ready("send") =>
          (In(events', e) => Queued(e)) /\ (Once(e) => OnceIn(events', e))
    BY <1>1, <1>3, AfterTail, AfterAppend, EventFacts DEF Queued, Once
  <2>3. Ready("send") \notin {Socket("read"), Socket("write"), Ready("recv")}
    BY EventFacts
  <2>4. QED
    BY <2>1, <2>2, <2>3, ReadsKept
<1>4. QED
  BY <1>2, <1>3 DEF Tells

(* A message that was read: its event was the token.                          *)
LEMMA TellsMessage ==
  ASSUME TypeOK, Reading, Closed, channel.open, Dispatched(Socket("read")),
         NEW ch \in Channels, ch.msg # NoRequest, ~ ch.waiting, ch.open,
         ch.ops = channel.ops, Tells("recv", ch), armed' = armed
  PROVE  Reading' /\ Closed'
<1>1. /\ events \in Seq(LoopEvent) /\ events # <<>> /\ Head(events) = Socket("read")
      /\ Tail(events) \in Seq(LoopEvent)
  BY TypeOKDef DEF Dispatched
<1>2. /\ Queued(Socket("read")) /\ ~ In(Tail(events), Socket("read"))
      /\ "read" \notin armed
      /\ \A e : In(Tail(events), e) => Queued(e)
      /\ \A e : Once(e) => OnceIn(Tail(events), e)
  BY <1>1, AfterTail DEF Reading, Queued, Once
<1>3. ~ Queued(Ready("recv")) \/ "recv" \notin channel.ops
  BY DEF Reading
<1>4. Socket("read") # Ready("recv")
  BY EventFacts
<1>5. CASE "recv" \notin ch.ops /\ channel' = ch /\ events' = Tail(events)
  BY <1>2, <1>5 DEF Reading, Closed, Queued, Once
<1>6. CASE /\ "recv" \in ch.ops /\ channel' = [ch EXCEPT !.ops = @ \ {"recv"}]
           /\ events' = Append(Tail(events), Ready("recv"))
  <2>1. /\ channel'.msg = ch.msg /\ ~ channel'.waiting /\ channel'.open
        /\ "recv" \notin channel'.ops
    BY <1>6 DEF Channels
  <2>2. /\ ~ In(events', Socket("read"))
        /\ OnceIn(events', Socket("read")) /\ OnceIn(events', Ready("recv"))
    BY <1>1, <1>2, <1>3, <1>4, <1>6, AfterAppend, EventFacts DEF Reading, Once
  <2>3. QED
    BY <1>2, <2>1, <2>2 DEF Reading, Closed, Queued, Once
<1>7. QED
  BY <1>5, <1>6 DEF Tells

(* One read at a time, step by step.                                          *)
LEMMA ReadingStep ==
  ASSUME TypeOK, Reading, Closed, [Next]_vars PROVE Reading' /\ Closed'
<1> USE DEF sessionVars, historyVars
<1>a. /\ channel \in Channels /\ channel.msg \in Requests /\ events \in Seq(LoopEvent)
      /\ proc.alive \in BOOLEAN /\ channel.open \in BOOLEAN
      /\ channel.in \in Seq(Request) /\ proc.toClient \in Seq(Request)
  BY TypeOKDef, ChannelFields, ProcFields
<1>b. Socket("read") # Socket("write") /\ Ready("recv") # Ready("send")
      /\ \A f \in {"read", "write"}, o \in {"send", "recv"} : Socket(f) # Ready(o)
  BY EventFacts
<1>0. CASE UNCHANGED vars
  BY <1>0 DEF vars, Reading, Closed, Queued, Once
<1>1. ASSUME NEW c \in Calls, TakeCaller(c) \/ Leave(c) PROVE Reading' /\ Closed'
  BY <1>1, ReadsKept DEF TakeCaller, Leave, Queued, Once, Closed
<1>2. ASSUME NEW c \in Calls, MakeCaller(c) PROVE Reading' /\ Closed'
  BY <1>2 DEF MakeCaller, NewChannel, Reading, Closed, Queued, Once, In, OnceIn
<1>3. ASSUME NEW r, Enqueue(r) PROVE Reading' /\ Closed'
  <2>1. CASE channel.open
    <3>1. events' = events \/ events' = Append(events, Ready("send"))
      BY <1>3, <2>1 DEF Enqueue
    <3>2. \A e : e # Ready("send") =>
            (In(events', e) => Queued(e)) /\ (Once(e) => OnceIn(events', e))
      <4>1. \A e : e # Ready("send") =>
              /\ In(Append(events, Ready("send")), e) => In(events, e)
              /\ OnceIn(events, e) => OnceIn(Append(events, Ready("send")), e)
        BY <1>a, AfterAppend, EventFacts
      <4>2. QED
        BY <3>1, <4>1 DEF Queued, Once
    <3>3. channel' = channel /\ armed' = armed /\ proc' = proc
      BY <1>3, <2>1 DEF Enqueue
    <3>4. QED
      BY <1>b, <2>1, <3>2, <3>3, ReadsKept
  <2>2. CASE ~ channel.open
    <3>1. on_error(events, Pending \cup {r})
      BY <1>3, <2>2 DEF Enqueue
    <3>2. QED
      BY <3>1, ErrorReads
  <2>3. QED
    BY <2>1, <2>2
<1>4. ASSUME NEW c \in Calls, CallPreset(c) \/ Call(c) PROVE Reading' /\ Closed'
  BY <1>3, <1>4 DEF CallPreset, Call
<1>5. CASE on_write
  <2>1. events # <<>> /\ Queued(Socket("write")) /\ channel.open
    BY <1>5, <1>a, AfterTail DEF on_write, Dispatched, Closed, Queued
  <2>2. CASE Tells("send", channel) /\ UNCHANGED <<armed, proc>>
    BY <1>a, <2>1, <2>2, TellsOther
  <2>3. CASE /\ Tells("send", [channel EXCEPT !.out = NoRequest])
             /\ UNCHANGED armed
    <3> DEFINE ch == [channel EXCEPT !.out = NoRequest]
    <3>1. /\ ch \in Channels /\ ch.msg = channel.msg /\ ch.waiting = channel.waiting
          /\ ch.ops = channel.ops /\ ch.open = channel.open
      BY <1>a, RequestFacts DEF Channels
    <3> HIDE DEF ch
    <3>2. Tells("send", ch)
      BY <2>3 DEF ch
    <3>3. QED
      BY <2>1, <2>3, <3>1, <3>2, TellsOther
  <2>4. CASE Fails
    BY <2>1, <2>4, FailsReads
  <2>5. QED
    BY <1>5, <2>2, <2>3, <2>4 DEF on_write
<1>6. CASE on_read
  <2> DEFINE got == channel.in \o proc.toClient
             ch == [channel EXCEPT !.waiting = FALSE]
  <2>1. Dispatched(Socket("read"))
    BY <1>6 DEF on_read
  <2>2. events # <<>> /\ Queued(Socket("read")) /\ channel.open /\ got \in Seq(Request)
    BY <1>a, <2>1, AfterTail DEF Dispatched, Closed, Queued
  <2>3. channel.msg = NoRequest /\ "read" \notin armed
    BY <2>2 DEF Reading
  <2>4. CASE /\ channel.in # <<>>
             /\ Tells("recv", [ch EXCEPT !.msg = Head(channel.in), !.in = Tail(@)])
             /\ UNCHANGED <<armed, proc>>
    <3> DEFINE c == [ch EXCEPT !.msg = Head(channel.in), !.in = Tail(@)]
    <3>1. Head(channel.in) \in Request /\ Tail(channel.in) \in Seq(Request)
      BY <1>a, <2>4
    <3>2. /\ c \in Channels /\ c.msg = Head(channel.in) /\ ~ c.waiting
          /\ c.ops = channel.ops /\ c.open = channel.open
      BY <1>a, <3>1 DEF Channels, Requests
    <3>3. Tells("recv", c) /\ armed' = armed
      BY <2>4
    <3> HIDE DEF c
    <3>4. QED
      BY <2>1, <2>2, <3>1, <3>2, <3>3, RequestFacts, TellsMessage
  <2>5. CASE /\ got # <<>>
             /\ Tells("recv", [ch EXCEPT !.msg = Head(got), !.in = Tail(got)])
             /\ armed' = Rearmed(got)
    <3> DEFINE c == [ch EXCEPT !.msg = Head(got), !.in = Tail(got)]
    <3> HIDE DEF got
    <3>1. Head(got) \in Request /\ Tail(got) \in Seq(Request)
      BY <2>2, <2>5
    <3>2. /\ c \in Channels /\ c.msg = Head(got) /\ ~ c.waiting
          /\ c.ops = channel.ops /\ c.open = channel.open
      BY <1>a, <3>1 DEF Channels, Requests
    <3>3. Tells("recv", c) /\ armed' = armed
      BY <2>5 DEF Rearmed
    <3> HIDE DEF c
    <3>4. QED
      BY <2>1, <2>2, <3>1, <3>2, <3>3, RequestFacts, TellsMessage
  <2>6. CASE /\ got = <<>> /\ proc.alive /\ armed' = Rearmed(got) /\ UNCHANGED proc
             /\ channel' = [ch EXCEPT !.waiting = TRUE] /\ events' = Tail(events)
    <3>1. armed' = armed \cup {"read"}
      BY <2>6 DEF Rearmed
    <3>2. channel'.msg = NoRequest /\ channel'.ops = channel.ops /\ channel'.open
      BY <1>a, <2>2, <2>3, <2>6 DEF Channels
    <3>3. /\ ~ In(events', Socket("read"))
          /\ \A e : In(events', e) => Queued(e)
          /\ \A e : Once(e) => OnceIn(events', e)
      BY <1>a, <2>1, <2>2, <2>6, AfterTail DEF Dispatched, Reading, Queued, Once
    <3>4. QED
      BY <2>3, <3>1, <3>2, <3>3 DEF Reading, Closed, Queued, Once
  <2>7. CASE Fails
    BY <2>2, <2>7, FailsReads
  <2> HIDE DEF got, ch
  <2>8. QED
    BY <1>6, <2>3, <2>4, <2>5, <2>6, <2>7 DEF on_read, got, ch
<1>7. CASE on_can_send
  <2>1. events # <<>>
    BY <1>7 DEF on_can_send, Dispatched
  <2>2. /\ \A e : In(Tail(events), e) => Queued(e)
        /\ \A e : Once(e) => OnceIn(Tail(events), e)
    BY <1>a, <2>1, AfterTail DEF Queued, Once
  <2>3. CASE on_error(Tail(events), Pending)
    BY <2>1, <2>3, EventErrorReads
  <2>4. CASE events' \in {events, Tail(events)} /\ UNCHANGED <<channel, armed, proc>>
    BY <2>2, <2>4, ReadsKept DEF Closed, Queued, Once
  <2>5. CASE /\ channel.open /\ channel' = [channel EXCEPT !.ops = @ \cup {"send"}]
             /\ events' = Tail(events) /\ armed' = armed
    <3>1. /\ channel'.msg = channel.msg /\ channel'.waiting = channel.waiting
          /\ channel'.open = channel.open
          /\ "recv" \in channel'.ops => "recv" \in channel.ops
      BY <1>a, <2>5 DEF Channels
    <3>2. QED
      BY <2>2, <2>5, <3>1, ReadsKept
  <2>6. CASE /\ channel.open /\ channel' \in {channel, [channel EXCEPT !.out = Head(caller.sendq)]}
             /\ events' = events /\ armed' \in {armed, armed \cup {"write"}}
    <3>1. /\ channel'.msg = channel.msg /\ channel'.waiting = channel.waiting
          /\ channel'.open = channel.open /\ channel'.ops = channel.ops
      BY <1>a, <2>6 DEF Channels
    <3>2. QED
      BY <2>6, <3>1, ReadsKept DEF Queued, Once
  <2>7. QED
    BY <1>7, <2>3, <2>4, <2>5, <2>6 DEF on_can_send
<1>8. CASE on_can_recv
  <2>1. events # <<>> /\ Head(events) = Ready("recv") /\ channel.open
    BY <1>8 DEF on_can_recv, Dispatched
  <2>2. /\ Tail(events) \in Seq(LoopEvent) /\ Queued(Ready("recv"))
        /\ \A e : In(Tail(events), e) => Queued(e)
        /\ \A e : Once(e) => OnceIn(Tail(events), e)
        /\ ~ In(Tail(events), Ready("recv"))
    BY <1>a, <2>1, AfterTail DEF Reading, Queued, Once
  <2>3. /\ channel.msg # NoRequest /\ "read" \notin armed /\ ~ channel.waiting
        /\ ~ Queued(Socket("read"))
    BY <2>2 DEF Reading
  <2>4. CASE on_error(Tail(events), Pending)
    BY <2>1, <2>4, EventErrorReads
  <2>5. CASE /\ channel' = [channel EXCEPT !.msg = NoRequest, !.waiting = TRUE,
                                           !.ops = @ \cup {"recv"}]
             /\ events' = Looks(Tail(events)) /\ armed' = armed
    <3>1. events' = Append(Tail(events), Socket("read"))
      BY <2>3, <2>5 DEF Looks
    <3>2. /\ ~ In(events', Ready("recv"))
          /\ OnceIn(events', Socket("read")) /\ OnceIn(events', Ready("recv"))
      BY <1>b, <2>2, <2>3, <3>1, AfterAppend, EventFacts DEF Reading, Once
    <3>3. channel'.msg = NoRequest /\ channel'.open
      BY <1>a, <2>1, <2>5 DEF Channels
    <3>4. QED
      BY <2>3, <2>5, <3>2, <3>3 DEF Reading, Closed, Queued, Once
  <2>6. QED
    BY <1>8, <2>3, <2>4, <2>5 DEF on_can_recv
<1>9. CASE on_channel_error
  <2>1. events # <<>> /\ on_error(Tail(events), Pending)
    BY <1>9 DEF on_channel_error, Dispatched
  <2>2. QED
    BY <2>1, EventErrorReads
<1>10. CASE on_timer
  <2>1. on_error(events, Pending)
    BY <1>10 DEF on_timer
  <2>2. QED
    BY <2>1, ErrorReads
<1>11. ASSUME NEW flag \in {"read", "write"}, SocketEvent(flag) PROVE Reading' /\ Closed'
  <2>1. /\ flag \in armed /\ armed' = armed \ {flag} /\ channel' = channel /\ proc' = proc
        /\ events' = Append(events, Socket(flag))
    BY <1>11 DEF SocketEvent
  <2>2. channel.open
    BY <2>1 DEF Closed
  <2>3. /\ \A e : In(events', e) <=> Queued(e) \/ e = Socket(flag)
        /\ \A e : Once(e) /\ (e # Socket(flag) \/ ~ Queued(e)) => OnceIn(events', e)
    BY <1>a, <2>1, AfterAppend, EventFacts DEF Queued, Once
  <2>4. CASE flag = "read"
    <3>1. "read" \in armed /\ ~ Queued(Socket("read")) /\ channel.msg = NoRequest
      BY <2>1, <2>4 DEF Reading
    <3>2. QED
      BY <1>b, <2>1, <2>2, <2>3, <2>4, <3>1 DEF Reading, Closed, Queued, Once
  <2>5. CASE flag = "write"
    BY <1>b, <2>1, <2>2, <2>3, <2>5, ReadsKept
  <2>6. QED
    BY <2>4, <2>5
<1>12. CASE Serve \/ Respond
  <2>1. proc.alive /\ UNCHANGED <<channel, armed, events>>
    BY <1>12 DEF Serve, Respond
  <2>2. channel.open
    BY <2>1 DEF Closed
  <2>3. QED
    BY <2>1, <2>2, ReadsKept DEF Queued, Once
<1>13. CASE Crash
  <2>1. proc.alive /\ UNCHANGED <<channel, armed, events>>
    BY <1>13 DEF Crash
  <2>2. channel.open
    BY <2>1 DEF Closed
  <2>3. QED
    BY <2>1, <2>2, ReadsKept DEF Queued, Once
<1>14. QED
  BY <1>0, <1>1, <1>2, <1>4, <1>5, <1>6, <1>7, <1>8, <1>9, <1>10, <1>11, <1>12, <1>13
     DEF Next, Session, Loop

-----------------------------------------------------------------------------
(* First in, first out *)

(* A queue is its head, and then its tail.                                    *)
LEMMA HeadFirst ==
  ASSUME NEW q \in Seq(Request), q # <<>> PROVE q = <<Head(q)>> \o Tail(q)
<1> DEFINE h == Head(q)
           t == Tail(q)
<1>1. /\ h \in Request /\ h = q[1] /\ Len(q) \in Nat /\ Len(q) # 0
      /\ t \in Seq(Request) /\ Len(t) = Len(q) - 1
      /\ \A i \in 1 .. Len(q) - 1 : t[i] = q[i + 1]
  OBVIOUS
<1> HIDE DEF h, t
<1>2. /\ <<h>> \in Seq(Request) /\ Len(<<h>>) = 1 /\ <<h>>[1] = h
  BY <1>1
<1>3. /\ <<h>> \o t \in Seq(Request) /\ Len(<<h>> \o t) = Len(q)
      /\ \A i \in 1 .. Len(q) : (<<h>> \o t)[i] = IF i <= 1 THEN <<h>>[i] ELSE t[i - 1]
  BY <1>1, <1>2, ConcatProperties
<1>4. ASSUME NEW i \in 1 .. Len(q) PROVE (<<h>> \o t)[i] = q[i]
  <2>1. CASE i = 1
    BY <1>1, <1>2, <1>3, <2>1
  <2>2. CASE i # 1
    <3>1. i - 1 \in 1 .. Len(q) - 1 /\ (i - 1) + 1 = i /\ ~(i <= 1)
      BY <1>1, <2>2
    <3>2. QED
      BY <1>1, <1>3, <3>1
  <2>3. QED
    BY <2>1, <2>2
<1>5. QED
  BY <1>3, <1>4, SeqEqual DEF h, t

(* The head and the tail of a request followed by others.                     *)
LEMMA ConsFacts ==
  ASSUME NEW r \in Request, NEW q \in Seq(Request)
  PROVE  /\ <<r>> \o q \in Seq(Request) /\ <<r>> \o q # <<>>
         /\ Head(<<r>> \o q) = r /\ Tail(<<r>> \o q) = q
<1> DEFINE s == <<r>> \o q
<1>1. <<r>> \in Seq(Request) /\ Len(<<r>>) = 1 /\ <<r>>[1] = r
  OBVIOUS
<1>2. /\ s \in Seq(Request) /\ Len(s) = 1 + Len(q) /\ Len(q) \in Nat
      /\ \A i \in 1 .. 1 + Len(q) : s[i] = IF i <= 1 THEN <<r>>[i] ELSE q[i - 1]
  BY <1>1, ConcatProperties
<1> HIDE DEF s
<1>3. s # <<>> /\ Head(s) = s[1] /\ s[1] = r
  BY <1>1, <1>2
<1>4. /\ Tail(s) \in Seq(Request) /\ Len(Tail(s)) = Len(q)
      /\ \A i \in 1 .. Len(q) : Tail(s)[i] = s[i + 1]
  BY <1>2, <1>3
<1>5. ASSUME NEW i \in 1 .. Len(q) PROVE Tail(s)[i] = q[i]
  <2>1. i + 1 \in 1 .. 1 + Len(q) /\ ~(i + 1 <= 1) /\ (i + 1) - 1 = i
    BY <1>2
  <2>2. QED
    BY <1>2, <1>4, <2>1
<1>6. Tail(s) = q
  BY <1>4, <1>5, SeqEqual
<1>7. QED
  BY <1>2, <1>3, <1>6 DEF s

(* What is optional is a queue of one or none.                                *)
LEMMA OptFacts ==
  /\ Opt(NoRequest) = <<>> /\ <<>> \in Seq(Request)
  /\ \A r \in Request : Opt(r) = <<r>> /\ <<r>> \in Seq(Request)
  /\ \A r \in Requests : Opt(r) \in Seq(Request)
BY RequestFacts DEF Opt

LEMMA StreamTypes ==
  ASSUME TypeOK
  PROVE  /\ Opt(channel.msg) \in Seq(Request) /\ Opt(channel.out) \in Seq(Request)
         /\ Opt(proc.serving) \in Seq(Request)
         /\ channel.in \in Seq(Request) /\ proc.toClient \in Seq(Request)
         /\ proc.toServer \in Seq(Request) /\ caller.recvq \in Seq(Request)
         /\ channel.in \o proc.toClient \in Seq(Request)
         /\ proc.toServer \o Opt(channel.out) \in Seq(Request)
         /\ Downstream \in Seq(Request) /\ Upstream \in Seq(Request)
<1>1. /\ Opt(channel.msg) \in Seq(Request) /\ Opt(channel.out) \in Seq(Request)
      /\ Opt(proc.serving) \in Seq(Request)
      /\ channel.in \in Seq(Request) /\ proc.toClient \in Seq(Request)
      /\ proc.toServer \in Seq(Request) /\ caller.recvq \in Seq(Request)
  BY TypeOKDef, CallerFields, ChannelFields, ProcFields, OptFacts
<1>2. /\ channel.in \o proc.toClient \in Seq(Request)
      /\ proc.toServer \o Opt(channel.out) \in Seq(Request)
  BY <1>1, ConcatProperties
<1>3. Downstream \in Seq(Request) /\ Upstream \in Seq(Request)
  BY <1>1, <1>2, ConcatProperties DEF Downstream, Upstream
<1>4. QED
  BY <1>1, <1>2, <1>3

(* A step that leaves what waits, and what is on its way, as it was.          *)
LEMMA FifoKept ==
  ASSUME Fifo, caller'.recvq = caller.recvq,
         channel'.open => channel.open,
         Downstream' = Downstream,
         proc'.alive => proc.alive /\ Upstream' = Upstream
  PROVE  Fifo'
BY DEF Fifo

(* One of the queues of a channel that has no message is read.                *)
LEMMA ReadOne ==
  ASSUME NEW q \in Seq(Request), q # <<>>, NEW t \in Seq(Request)
  PROVE  Opt(NoRequest) \o (q \o t) = Opt(Head(q)) \o (Tail(q) \o t)
<1>1. Head(q) \in Request /\ Tail(q) \in Seq(Request) /\ <<Head(q)>> \in Seq(Request)
  OBVIOUS
<1>2. Opt(NoRequest) \o (q \o t) = q \o t
  BY OptFacts, ConcatProperties, ConcatEmptySeq
<1>3. q \o t = (<<Head(q)>> \o Tail(q)) \o t
  BY HeadFirst
<1>4. (<<Head(q)>> \o Tail(q)) \o t = <<Head(q)>> \o (Tail(q) \o t)
  BY <1>1, ConcatAssociative
<1>5. QED
  BY <1>1, <1>2, <1>3, <1>4, OptFacts

(* What is sent is last.                                                      *)
LEMMA SentLast ==
  ASSUME NEW s \in Seq(Request), NEW q \in Seq(Request), NEW r \in Request
  PROVE  Append(s \o q, r) = s \o Append(q, r)
<1>1. <<r>> \in Seq(Request) /\ s \o q \in Seq(Request)
  BY ConcatProperties
<1>2. Append(s \o q, r) = (s \o q) \o <<r>> /\ Append(q, r) = q \o <<r>>
  BY <1>1, AppendIsConcat
<1>3. (s \o q) \o <<r>> = s \o (q \o <<r>>)
  BY <1>1, ConcatAssociative
<1>4. QED
  BY <1>2, <1>3

(* What is optional is appended, or not.                                      *)
LEMMA OptLast ==
  ASSUME NEW q \in Seq(Request)
  PROVE  /\ q \o Opt(NoRequest) = q
         /\ \A r \in Request : /\ q \o Opt(r) = Append(q, r)
                               /\ Append(q, r) \in Seq(Request)
                               /\ Append(q, r) \o Opt(NoRequest) = Append(q, r)
<1>1. q \o Opt(NoRequest) = q
  BY OptFacts, ConcatEmptySeq
<1>2. ASSUME NEW r \in Request
      PROVE  /\ q \o Opt(r) = Append(q, r)
             /\ Append(q, r) \in Seq(Request)
             /\ Append(q, r) \o Opt(NoRequest) = Append(q, r)
  <2>1. Append(q, r) \in Seq(Request)
    OBVIOUS
  <2>2. Opt(r) = <<r>> /\ Opt(NoRequest) = <<>>
    BY OptFacts
  <2>3. Append(q, r) = q \o <<r>>
    BY AppendIsConcat
  <2>4. Append(q, r) \o <<>> = Append(q, r)
    BY <2>1, ConcatEmptySeq
  <2>5. QED
    BY <2>1, <2>2, <2>3, <2>4
<1>3. QED
  BY <1>1, <1>2

(* What is first moves over to those before it.                               *)
LEMMA MovedOver ==
  ASSUME NEW a \in Seq(Request), NEW r \in Request, NEW b \in Seq(Request)
  PROVE  a \o (Opt(r) \o b) = Append(a, r) \o b
<1>1. <<r>> \in Seq(Request) /\ Opt(r) = <<r>>
  BY OptFacts
<1>2. a \o (<<r>> \o b) = (a \o <<r>>) \o b
  BY <1>1, ConcatAssociative
<1>3. QED
  BY <1>1, <1>2, AppendIsConcat

(* What waits is what is on its way, in order, step by step.                  *)
LEMMA FifoStep ==
  ASSUME TypeOK, Reading, Closed, Fifo, [Next]_vars PROVE Fifo'
<1> USE DEF sessionVars, historyVars
<1>a. /\ channel \in Channels /\ caller \in Callers /\ proc \in Procs
      /\ events \in Seq(LoopEvent)
  BY TypeOKDef
<1>b. /\ channel.in \in Seq(Request) /\ proc.toClient \in Seq(Request)
      /\ proc.toServer \in Seq(Request) /\ caller.recvq \in Seq(Request)
      /\ caller.sendq \in Seq(Request)
      /\ channel.msg \in Requests /\ channel.out \in Requests /\ proc.serving \in Requests
      /\ Downstream \in Seq(Request) /\ Upstream \in Seq(Request)
  BY <1>a, StreamTypes, CallerFields, ChannelFields, ProcFields
<1>c. ASSUME ~ channel'.open PROVE Fifo'
  BY <1>c DEF Fifo
<1>d. ASSUME NEW evs, NEW rs, on_error(evs, rs) PROVE Fifo'
  <2>1. ~ channel'.open
    BY <1>a, <1>d DEF on_error, Reset, Channels
  <2>2. QED
    BY <2>1, <1>c
<1>e. ASSUME Fails PROVE Fifo'
  <2>1. ~ channel'.open
    BY <1>a, <1>e DEF Fails, Reset, Channels
  <2>2. QED
    BY <2>1, <1>c
<1>0. CASE UNCHANGED vars
  BY <1>0, FifoKept DEF vars, Downstream, Upstream
<1>1. ASSUME NEW c \in Calls, TakeCaller(c) \/ Leave(c) PROVE Fifo'
  BY <1>1, FifoKept DEF TakeCaller, Leave, Downstream, Upstream
<1>2. ASSUME NEW c \in Calls, MakeCaller(c) PROVE Fifo'
  <2>1. Downstream' = <<>> /\ Upstream' = <<>> /\ caller'.recvq = <<>>
    <3>1. <<>> \in Seq(Request) /\ <<>> \o <<>> = <<>>
      BY ConcatEmptySeq
    <3>2. QED
      BY <1>2, <3>1, OptFacts
         DEF MakeCaller, Downstream, Upstream, NewCaller, NewChannel, NewProc
  <2>2. <<>> \in Seq(Request) /\ <<>> = <<>> \o <<>>
    BY ConcatEmptySeq
  <2>3. QED
    BY <2>1, <2>2 DEF Fifo
<1>3. ASSUME NEW r, Enqueue(r) PROVE Fifo'
  <2>1. CASE channel.open
    <3>1. caller'.recvq = caller.recvq /\ channel' = channel /\ proc' = proc
      BY <1>3, <1>a, <2>1 DEF Enqueue, Callers
    <3>2. QED
      BY <3>1, FifoKept DEF Downstream, Upstream
  <2>2. CASE ~ channel.open
    <3>1. on_error(events, Pending \cup {r})
      BY <1>3, <2>2 DEF Enqueue
    <3>2. QED
      BY <1>d, <3>1
  <2>3. QED
    BY <2>1, <2>2
<1>4. ASSUME NEW c \in Calls, CallPreset(c) \/ Call(c) PROVE Fifo'
  BY <1>3, <1>4 DEF CallPreset, Call
<1>5. CASE on_write
  <2>1. caller' = caller
    BY <1>5 DEF on_write
  <2>2. CASE Tells("send", channel) /\ UNCHANGED proc
    <3>1. /\ channel'.msg = channel.msg /\ channel'.in = channel.in
          /\ channel'.out = channel.out /\ channel'.open = channel.open
      BY <1>a, <2>2 DEF Tells, Channels
    <3>2. QED
      BY <2>1, <2>2, <3>1, FifoKept DEF Downstream, Upstream
  <2>3. CASE /\ channel.out # NoRequest
             /\ Tells("send", [channel EXCEPT !.out = NoRequest])
             /\ proc' = [proc EXCEPT !.toServer = Append(@, channel.out)]
    <3>1. /\ channel'.msg = channel.msg /\ channel'.in = channel.in
          /\ channel'.out = NoRequest /\ channel'.open = channel.open
      BY <1>a, <2>3 DEF Tells, Channels
    <3>2. /\ proc'.alive = proc.alive /\ proc'.serving = proc.serving
          /\ proc'.toClient = proc.toClient
          /\ proc'.toServer = Append(proc.toServer, channel.out)
      BY <1>a, <2>3 DEF Procs
    <3>3. channel.out \in Request
      BY <1>b, <2>3, RequestFacts
    <3>4. proc.toServer \o Opt(channel.out) = Append(proc.toServer, channel.out) \o Opt(NoRequest)
      BY <1>b, <3>3, OptLast
    <3>5. Upstream' = Upstream /\ Downstream' = Downstream
      BY <3>1, <3>2, <3>4 DEF Upstream, Downstream
    <3>6. QED
      BY <2>1, <3>1, <3>2, <3>5, FifoKept
  <2>4. QED
    BY <1>5, <1>e, <2>2, <2>3 DEF on_write
<1>6. CASE on_read
  <2> DEFINE got == channel.in \o proc.toClient
             ch == [channel EXCEPT !.waiting = FALSE]
  <2>1. caller' = caller
    BY <1>6 DEF on_read
  <2>2. channel.msg = NoRequest
    <3>1. Queued(Socket("read"))
      BY <1>6, <1>a, AfterTail DEF on_read, Dispatched, Queued
    <3>2. QED
      BY <3>1 DEF Reading
  <2>3. got \in Seq(Request)
    BY <1>b
  <2>4. CASE /\ channel.in # <<>>
             /\ Tells("recv", [ch EXCEPT !.msg = Head(channel.in), !.in = Tail(@)])
             /\ UNCHANGED proc
    <3>1. /\ channel'.msg = Head(channel.in) /\ channel'.in = Tail(channel.in)
          /\ channel'.out = channel.out /\ channel'.open = channel.open
      BY <1>a, <2>4 DEF Tells, Channels
    <3>2. Downstream' = Downstream
      <4>1. Downstream = Opt(NoRequest) \o (channel.in \o proc.toClient)
        BY <2>2 DEF Downstream
      <4>2. Downstream' = Opt(Head(channel.in)) \o (Tail(channel.in) \o proc.toClient)
        BY <2>4, <3>1 DEF Downstream
      <4>3. QED
        BY <1>b, <2>4, <4>1, <4>2, ReadOne
    <3>3. QED
      BY <2>1, <2>4, <3>1, <3>2, FifoKept DEF Upstream
  <2>5. CASE /\ channel.in = <<>> /\ got # <<>>
             /\ Tells("recv", [ch EXCEPT !.msg = Head(got), !.in = Tail(got)])
             /\ proc' = [proc EXCEPT !.toClient = <<>>]
    <3> HIDE DEF got
    <3>1. /\ channel'.msg = Head(got) /\ channel'.in = Tail(got)
          /\ channel'.out = channel.out /\ channel'.open = channel.open
      BY <1>a, <2>5 DEF Tells, Channels
    <3>2. /\ proc'.alive = proc.alive /\ proc'.serving = proc.serving
          /\ proc'.toClient = <<>> /\ proc'.toServer = proc.toServer
      BY <1>a, <2>5 DEF Procs
    <3>3. Downstream' = Opt(Head(got)) \o (Tail(got) \o <<>>)
      BY <3>1, <3>2 DEF Downstream
    <3>4. Opt(NoRequest) \o (got \o <<>>) = Opt(Head(got)) \o (Tail(got) \o <<>>)
      BY <2>3, <2>5, OptFacts, ReadOne
    <3>5. got \o <<>> = got /\ Downstream = Opt(NoRequest) \o got
      BY <2>2, <2>3, ConcatEmptySeq DEF got, Downstream
    <3>6. Downstream' = Downstream
      BY <3>3, <3>4, <3>5
    <3>7. QED
      BY <2>1, <3>1, <3>2, <3>6, FifoKept DEF Upstream
  <2>6. CASE /\ channel' = [ch EXCEPT !.waiting = TRUE]
             /\ UNCHANGED proc
    <3>1. /\ channel'.msg = channel.msg /\ channel'.in = channel.in
          /\ channel'.out = channel.out /\ channel'.open = channel.open
      BY <1>a, <2>6 DEF Channels
    <3>2. QED
      BY <2>1, <2>6, <3>1, FifoKept DEF Downstream, Upstream
  <2> HIDE DEF got, ch
  <2>7. QED
    BY <1>6, <1>e, <2>2, <2>4, <2>5, <2>6 DEF on_read, got, ch
<1>7. CASE on_can_send
  <2>1. CASE on_error(Tail(events), Pending)
    BY <1>d, <2>1
  <2>2. CASE /\ caller' \in {caller, [caller EXCEPT !.sendq = Tail(@)]}
             /\ channel' \in {channel, [channel EXCEPT !.ops = @ \cup {"send"}]}
             /\ UNCHANGED proc
    <3>1. /\ channel'.msg = channel.msg /\ channel'.in = channel.in
          /\ channel'.out = channel.out /\ channel'.open = channel.open
          /\ caller'.recvq = caller.recvq
      BY <1>a, <2>2 DEF Channels, Callers
    <3>2. QED
      BY <2>2, <3>1, FifoKept DEF Downstream, Upstream
  <2>3. ASSUME channel.open, channel.out = NoRequest, caller.sendq # <<>>,
               NEW r, r = Head(caller.sendq), proc.alive,
               caller' = [caller EXCEPT !.sendq = Tail(@), !.recvq = Append(@, r),
                                        !.timer = TimerAfterSend(r)],
               \/ /\ proc' = [proc EXCEPT !.toServer = Append(@, r)]
                  /\ channel' = channel
               \/ /\ channel' = [channel EXCEPT !.out = r]
                  /\ proc' = proc
        PROVE  Fifo'
    <3>1. r \in Request
      BY <1>b, <2>3
    <3>2. caller.recvq = Downstream \o Upstream
      BY <2>3 DEF Fifo
    <3>3. caller'.recvq = Append(caller.recvq, r)
      BY <1>a, <2>3 DEF Callers
    <3>4. Upstream = Opt(proc.serving) \o proc.toServer
      BY <1>b, <2>3, OptLast DEF Upstream
    <3>5. /\ Append(proc.toServer, r) \in Seq(Request)
          /\ proc.toServer \o Opt(r) = Append(proc.toServer, r)
          /\ Append(proc.toServer, r) \o Opt(NoRequest) = Append(proc.toServer, r)
      BY <1>b, <3>1, OptLast
    <3>6. Downstream' = Downstream /\ Upstream' = Opt(proc.serving) \o Append(proc.toServer, r)
      <4>1. CASE proc' = [proc EXCEPT !.toServer = Append(@, r)] /\ channel' = channel
        <5>1. /\ proc'.serving = proc.serving /\ proc'.toClient = proc.toClient
              /\ proc'.toServer = Append(proc.toServer, r)
          BY <1>a, <4>1 DEF Procs
        <5>2. QED
          BY <2>3, <3>5, <4>1, <5>1 DEF Downstream, Upstream
      <4>2. CASE channel' = [channel EXCEPT !.out = r] /\ proc' = proc
        <5>1. channel'.msg = channel.msg /\ channel'.in = channel.in /\ channel'.out = r
          BY <1>a, <4>2 DEF Channels
        <5>2. QED
          BY <2>3, <3>5, <4>2, <5>1 DEF Downstream, Upstream
      <4>3. QED
        BY <2>3, <4>1, <4>2
    <3>7. Upstream' = Append(Upstream, r) /\ Upstream' \in Seq(Request)
      <4>1. Opt(proc.serving) \in Seq(Request)
        BY <1>b, OptFacts
      <4>2. Append(Opt(proc.serving) \o proc.toServer, r) = Opt(proc.serving) \o Append(proc.toServer, r)
        BY ZenonT(40), <1>b, <3>1, <4>1, SentLast
      <4>3. Append(Upstream, r) \in Seq(Request)
        BY <1>b, <3>1
      <4>4. QED
        BY <3>4, <3>6, <4>2, <4>3
    <3>8. caller'.recvq = Downstream' \o Upstream'
      <4>1. Append(Downstream \o Upstream, r) = Downstream \o Append(Upstream, r)
        BY <1>b, <3>1, SentLast
      <4>2. QED
        BY <3>2, <3>3, <3>6, <3>7, <4>1
    <3>9. QED
      BY <3>7, <3>8 DEF Fifo
  <2>4. QED
    BY <1>7, <2>1, <2>2, <2>3 DEF on_can_send, SendOutcomes
<1>8. CASE on_can_recv
  <2> DEFINE m == channel.msg
             ch == [channel EXCEPT !.msg = NoRequest, !.waiting = TRUE,
                                   !.ops = @ \cup {"recv"}]
  <2>1. m # NoRequest /\ channel.open
    <3>1. Queued(Ready("recv"))
      BY <1>8, <1>a, AfterTail DEF on_can_recv, Dispatched, Queued
    <3>2. QED
      BY <1>8, <3>1 DEF Reading, on_can_recv
  <2>2. CASE on_error(Tail(events), Pending)
    BY <1>d, <2>2
  <2>3. CASE /\ caller.recvq # <<>> /\ channel' = ch /\ UNCHANGED proc
             /\ caller' = [caller EXCEPT !.recvq = Tail(caller.recvq),
                                         !.timer = TimerAfter(Tail(caller.recvq))]
    <3> DEFINE x == channel.in \o proc.toClient
    <3>1. /\ channel'.msg = NoRequest /\ channel'.in = channel.in
          /\ channel'.out = channel.out /\ caller'.recvq = Tail(caller.recvq)
      BY <1>a, <2>3 DEF Channels, Callers
    <3>2. PICK rest \in Seq(Request) :
            caller.recvq = Downstream \o rest /\ (proc.alive => rest = Upstream)
      BY <2>1 DEF Fifo
    <3>3. m \in Request /\ x \in Seq(Request) /\ <<m>> \in Seq(Request)
      BY <1>b, <2>1, RequestFacts
    <3>4. Downstream = <<m>> \o x
      BY <3>3, OptFacts DEF Downstream
    <3>5. Downstream' = x
      <4>1. Downstream' = Opt(NoRequest) \o x
        BY <2>3, <3>1 DEF Downstream
      <4>2. QED
        BY <3>3, <4>1, OptFacts, ConcatEmptySeq
    <3> HIDE DEF x, m
    <3>6. caller.recvq = <<m>> \o (x \o rest) /\ x \o rest \in Seq(Request)
      BY <3>2, <3>3, <3>4, ConcatAssociative, ConcatProperties
    <3>7. caller'.recvq = Downstream' \o rest
      BY <3>1, <3>3, <3>5, <3>6, ConsFacts
    <3>8. Upstream' = Upstream /\ proc' = proc
      BY <2>3, <3>1 DEF Upstream
    <3>9. QED
      BY <3>2, <3>7, <3>8 DEF Fifo
  <2> HIDE DEF ch
  <2>4. QED
    BY <1>8, <2>1, <2>2, <2>3 DEF on_can_recv, ch
<1>9. CASE on_channel_error \/ on_timer
  BY <1>9, <1>d DEF on_channel_error, on_timer
<1>10. ASSUME NEW flag \in {"read", "write"}, SocketEvent(flag) PROVE Fifo'
  BY <1>10, FifoKept DEF SocketEvent, Downstream, Upstream
<1>11. CASE Serve
  <2> DEFINE r == Head(proc.toServer)
  <2>1. proc.alive /\ proc.serving = NoRequest /\ proc.toServer # <<>>
        /\ caller' = caller /\ channel' = channel
    BY <1>11 DEF Serve
  <2>2. /\ proc'.toServer = Tail(proc.toServer) /\ proc'.serving = r
        /\ proc'.toClient = proc.toClient /\ proc'.alive
    BY <1>11, <1>a, <2>1 DEF Serve, Procs
  <2>3. Upstream = Opt(NoRequest) \o (proc.toServer \o Opt(channel.out))
    BY <2>1 DEF Upstream
  <2>4. Upstream' = Opt(r) \o (Tail(proc.toServer) \o Opt(channel.out))
    BY <2>1, <2>2 DEF Upstream
  <2>5. Opt(channel.out) \in Seq(Request)
    BY <1>b, OptFacts
  <2>6. Upstream' = Upstream
    BY <1>b, <2>1, <2>3, <2>4, <2>5, ReadOne
  <2>7. QED
    BY <2>1, <2>2, <2>6, FifoKept DEF Downstream
<1>12. CASE Respond
  <2> DEFINE r == proc.serving
             rest == proc.toServer \o Opt(channel.out)
  <2>1. proc.alive /\ r # NoRequest /\ caller' = caller /\ channel' = channel
    BY <1>12 DEF Respond
  <2>2. /\ proc'.toServer = proc.toServer /\ proc'.serving = NoRequest
        /\ proc'.toClient = Append(proc.toClient, r) /\ proc'.alive
    BY <1>12, <1>a, <2>1 DEF Respond, Procs
  <2>3. channel.open /\ caller.recvq = Downstream \o Upstream
    BY <2>1 DEF Closed, Fifo
  <2>4. r \in Request /\ rest \in Seq(Request) /\ Opt(channel.msg) \in Seq(Request)
        /\ channel.in \o proc.toClient \in Seq(Request)
    BY <1>b, <2>1, RequestFacts, OptFacts, StreamTypes
  <2>5. Upstream' = rest
    <3>1. Upstream' = Opt(NoRequest) \o rest
      BY <2>1, <2>2 DEF Upstream
    <3>2. QED
      BY <2>4, <3>1, OptFacts, ConcatEmptySeq
  <2>6. Downstream' = Append(Downstream, r)
    <3>1. Downstream' = Opt(channel.msg) \o (channel.in \o Append(proc.toClient, r))
      BY <2>1, <2>2 DEF Downstream
    <3>2. channel.in \o Append(proc.toClient, r) = Append(channel.in \o proc.toClient, r)
      BY ZenonT(40), <1>b, <2>4, SentLast
    <3>3. Opt(channel.msg) \o Append(channel.in \o proc.toClient, r) = Append(Downstream, r)
      BY <2>4, SentLast DEF Downstream
    <3>4. QED
      BY <3>1, <3>2, <3>3
  <2>7. Upstream = Opt(r) \o rest
    BY DEF Upstream
  <2> HIDE DEF r, rest
  <2>8. caller.recvq = Append(Downstream, r) \o rest
    <3>1. Downstream \in Seq(Request)
      BY <1>b
    <3>2. Downstream \o (Opt(r) \o rest) = Append(Downstream, r) \o rest
      BY <2>4, <3>1, MovedOver
    <3>3. QED
      BY <2>3, <2>7, <3>2
  <2>9. QED
    BY <2>1, <2>2, <2>4, <2>5, <2>6, <2>8 DEF Fifo
<1>13. CASE Crash
  <2>1. caller' = caller /\ channel' = channel
    BY <1>13 DEF Crash
  <2>2. proc'.toClient = proc.toClient /\ ~ proc'.alive
    BY <1>13, <1>a DEF Crash, Procs
  <2>3. QED
    BY <2>1, <2>2, FifoKept DEF Downstream
<1>14. QED
  BY <1>0, <1>1, <1>2, <1>4, <1>5, <1>6, <1>7, <1>8, <1>9, <1>10, <1>11, <1>12, <1>13
     DEF Next, Session, Loop

-----------------------------------------------------------------------------
(* The answers *)

(* Who is answered: nobody, those whose caller failed, or the one that has    *)
(* waited longest.                                                            *)
LEMMA AnswerChange ==
  ASSUME [Next]_vars
  PROVE  \/ answer' = answer
         \/ \E rs : answer' = AnsweredByDefault(rs)
         \/ /\ channel.open /\ channel.msg # NoRequest
            /\ answer' = Delivered(channel.msg)
<1> USE DEF sessionVars, historyVars
<1>0. CASE UNCHANGED vars
  BY <1>0 DEF vars
<1>1. ASSUME NEW c \in Calls, TakeCaller(c) \/ MakeCaller(c) \/ Leave(c) PROVE answer' = answer
  BY <1>1 DEF TakeCaller, MakeCaller, Leave
<1>2. ASSUME NEW r, Enqueue(r)
      PROVE  answer' = answer \/ \E rs : answer' = AnsweredByDefault(rs)
  BY <1>2 DEF Enqueue, on_error
<1>3. ASSUME NEW c \in Calls, CallPreset(c) \/ Call(c) PROVE \E r : Enqueue(r)
  BY <1>3 DEF CallPreset, Call
<1>4. CASE on_write \/ on_read \/ Serve \/ Respond \/ Crash
  BY <1>4 DEF on_write, on_read, Serve, Respond, Crash
<1>5. CASE on_can_send
  BY <1>5 DEF on_can_send, on_error
<1>6. CASE on_can_recv
  BY <1>6 DEF on_can_recv, on_error
<1>7. CASE on_channel_error \/ on_timer
  BY <1>7 DEF on_channel_error, on_timer, on_error
<1>8. ASSUME NEW flag \in {"read", "write"}, SocketEvent(flag) PROVE answer' = answer
  BY <1>8 DEF SocketEvent
<1>9. QED
  BY <1>0, <1>1, <1>2, <1>3, <1>4, <1>5, <1>6, <1>7, <1>8 DEF Next, Session, Loop

(* The message that was read answers the request that has waited longest,     *)
(* which is a right one.                                                      *)
LEMMA MessageIsForTheFirst ==
  ASSUME TypeOK, AllRight, Fifo, channel.open, channel.msg # NoRequest
  PROVE  channel.msg \in Request /\ Awaiting = channel.msg /\ Right(channel.msg)
<1> DEFINE m == channel.msg
<1>1. /\ m \in Request /\ <<m>> \in Seq(Request) /\ Opt(m) = <<m>>
      /\ channel.in \o proc.toClient \in Seq(Request)
      /\ caller.recvq \in Seq(Request)
  BY TypeOKDef, CallerFields, ChannelFields, RequestFacts, OptFacts, StreamTypes
<1>2. PICK rest \in Seq(Request) : caller.recvq = Downstream \o rest
  BY DEF Fifo
<1> DEFINE x == channel.in \o proc.toClient
<1>3. Downstream = <<m>> \o x
  BY <1>1 DEF Downstream
<1> HIDE DEF m, x
<1>4. x \in Seq(Request)
  BY <1>1 DEF x
<1>5. caller.recvq = <<m>> \o (x \o rest) /\ x \o rest \in Seq(Request)
  BY <1>1, <1>2, <1>3, <1>4, ConcatAssociative, ConcatProperties
<1>6. caller.recvq # <<>> /\ Head(caller.recvq) = m
  BY <1>1, <1>5, ConsFacts
<1>7. Right(m)
  <2>1. 1 \in DOMAIN caller.recvq /\ caller.recvq[1] = m
    BY <1>1, <1>6, QueueOf
  <2>2. QED
    BY <2>1 DEF AllRight
<1>8. QED
  BY <1>1, <1>6, <1>7 DEF m, Awaiting

(* A call gets its own answer, step by step.                                  *)
LEMMA AnswersStep ==
  ASSUME TypeOK, AllRight, Fifo, AnswerIsForTheCall, [Next]_vars
  PROVE  AnswerIsForTheCall'
<1>1. CASE answer' = answer
  BY <1>1 DEF AnswerIsForTheCall, RequestOf
<1>2. ASSUME NEW rs, answer' = AnsweredByDefault(rs) PROVE AnswerIsForTheCall'
  BY <1>2 DEF AnswerIsForTheCall, RequestOf, AnsweredByDefault
<1>3. CASE /\ channel.open /\ channel.msg # NoRequest
           /\ answer' = Delivered(channel.msg)
  <2> DEFINE m == channel.msg
  <2>1. m \in Request /\ Awaiting = m /\ Right(m)
    BY <1>3, MessageIsForTheFirst
  <2>2. ASSUME NEW c \in Calls, c \in Receivers({m})
        PROVE  m = [op |-> RequestOf(c), for |-> c]
    <3>1. m.op # "preset" /\ m.for = c
      BY <2>2 DEF Receivers
    <3>2. m.op = RequestOf(c)
      BY <2>1, <3>1 DEF Right
    <3>3. m = [op |-> m.op, for |-> m.for]
      BY <2>1 DEF Request
    <3>4. QED
      BY <3>1, <3>2, <3>3
  <2>3. answer' = [c \in Calls |-> IF c \in Receivers({m}) THEN m ELSE answer[c]]
    BY <1>3, <2>1 DEF Delivered
  <2> HIDE DEF m
  <2>4. QED
    BY <2>2, <2>3 DEF AnswerIsForTheCall, RequestOf
<1>4. QED
  BY <1>1, <1>2, <1>3, AnswerChange

-----------------------------------------------------------------------------
(* The requests on their way to the process *)

Rest ==
  /\ caller'.sendq = caller.sendq /\ channel'.out = channel.out /\ skipped' = skipped
  /\ proc'.toServer = proc.toServer /\ proc'.creds = proc.creds /\ proc'.alive = proc.alive

Broken ==
  /\ ~ proc'.alive /\ proc'.toServer = <<>> /\ channel'.out = channel.out
  /\ caller'.sendq = caller.sendq \/ caller'.sendq = <<>>

Renewed == caller'.sendq = <<>> /\ channel'.out = NoRequest /\ proc'.toServer = <<>>

Queues(r) ==
  /\ caller'.sendq = Append(caller.sendq, r)
  /\ channel'.out = channel.out /\ proc' = proc /\ skipped' = skipped

Withheld ==
  /\ caller.sendq # <<>> /\ caller'.sendq = Tail(caller.sendq)
  /\ skipped' = (skipped \/ Head(caller.sendq).op # "call")
  /\ channel'.out = channel.out /\ proc' = proc

Written ==
  /\ caller.sendq # <<>> /\ caller'.sendq = Tail(caller.sendq)
  /\ channel.out = NoRequest /\ channel'.out = NoRequest
  /\ proc'.toServer = Append(proc.toServer, Head(caller.sendq))
  /\ proc'.creds = proc.creds /\ proc'.alive = proc.alive /\ skipped' = skipped

Parted ==
  /\ caller.sendq # <<>> /\ caller'.sendq = Tail(caller.sendq)
  /\ channel.out = NoRequest /\ channel'.out = Head(caller.sendq)
  /\ proc' = proc /\ skipped' = skipped

Flushed ==
  /\ channel.out # NoRequest /\ channel'.out = NoRequest
  /\ proc'.toServer = Append(proc.toServer, channel.out)
  /\ proc'.creds = proc.creds /\ proc'.alive = proc.alive
  /\ caller'.sendq = caller.sendq /\ skipped' = skipped

Taken ==
  /\ proc.toServer # <<>> /\ proc'.toServer = Tail(proc.toServer)
  /\ proc'.creds = (proc.creds \/ Head(proc.toServer).op # "call")
  /\ proc'.alive = proc.alive /\ channel'.out = channel.out
  /\ caller'.sendq = caller.sendq /\ skipped' = skipped

Moves == Rest \/ Broken \/ Withheld \/ Written \/ Parted \/ Flushed \/ Taken

(* The sessions do nothing that tells on the caller.                          *)
Quiet == step' = step /\ inUse' = inUse /\ stored' = stored /\ expects' = expects

(* An error breaks the way to the process,                                    *)
LEMMA ErrorBreaks ==
  ASSUME TypeOK, NEW evs, NEW rs, on_error(evs, rs) PROVE Broken
<1>1. channel \in Channels
  BY TypeOKDef
<1>2. channel'.out = channel.out
  BY <1>1 DEF on_error, Reset, Channels
<1>3. caller'.sendq = <<>>
  BY DEF on_error, NewCaller
<1>4. ~ proc'.alive /\ proc'.toServer = <<>>
  BY DEF on_error, SocketCloses, NoProc, NewProc
<1>5. QED
  BY <1>2, <1>3, <1>4 DEF Broken

(* as does that of the channel;                                               *)
LEMMA FailsBreaks ==
  ASSUME TypeOK, Fails, caller' = caller PROVE Broken
<1>1. channel \in Channels
  BY TypeOKDef
<1>2. channel'.out = channel.out
  BY <1>1 DEF Fails, Reset, Channels
<1>3. ~ proc'.alive /\ proc'.toServer = <<>>
  BY DEF Fails, SocketCloses, NoProc, NewProc
<1>4. QED
  BY <1>2, <1>3 DEF Broken

(* a request is queued, or breaks it.                                         *)
LEMMA EnqueueMoves ==
  ASSUME TypeOK, NEW r \in Request, Enqueue(r), skipped' = skipped
  PROVE  Broken \/ Queues(r)
<1>1. CASE channel.open
  <2>1. caller \in Callers
    BY TypeOKDef
  <2>2. caller'.sendq = Append(caller.sendq, r) /\ channel' = channel /\ proc' = proc
    BY <1>1, <2>1 DEF Enqueue, Callers
  <2>3. QED
    BY <2>2 DEF Queues
<1>2. CASE ~ channel.open
  BY <1>2, ErrorBreaks DEF Enqueue
<1>3. QED
  BY <1>1, <1>2

(* Telling the caller something leaves what is to be written alone.           *)
LEMMA TellsKeepsOut ==
  ASSUME NEW op, NEW ch \in Channels, Tells(op, ch) PROVE channel'.out = ch.out
BY DEF Tells, Channels

(* What a step does to the sessions and to the requests on their way.         *)
LEMMA RequestsMove ==
  ASSUME TypeOK, [Next]_vars
  PROVE  \/ Quiet /\ Moves
         \/ \E c \in Calls : \/ TakeCaller(c) /\ Rest
                             \/ MakeCaller(c) /\ Renewed
                             \/ /\ CallPreset(c)
                                /\ Broken \/ Queues([op |-> "preset", for |-> c])
                             \/ /\ Call(c)
                                /\ Broken \/ Queues([op |-> RequestOf(c), for |-> c])
<1> USE DEF sessionVars, historyVars
<1>a. caller \in Callers /\ channel \in Channels /\ proc \in Procs
  BY TypeOKDef
<1>0. CASE UNCHANGED vars
  BY <1>0 DEF vars, Quiet, Moves, Rest
<1>1. ASSUME NEW c \in Calls, TakeCaller(c) PROVE Rest
  BY <1>1 DEF TakeCaller, Rest
<1>2. ASSUME NEW c \in Calls, MakeCaller(c) PROVE Renewed
  BY <1>2 DEF MakeCaller, Renewed, NewCaller, NewChannel, NewProc
<1>3. ASSUME NEW c \in Calls, CallPreset(c)
      PROVE  Broken \/ Queues([op |-> "preset", for |-> c])
  BY <1>3, EnqueueMoves, RequestFacts DEF CallPreset
<1>4. ASSUME NEW c \in Calls, Call(c)
      PROVE  Broken \/ Queues([op |-> RequestOf(c), for |-> c])
  BY <1>4, EnqueueMoves, RequestFacts DEF Call
<1>5. ASSUME NEW c \in Calls, Leave(c) PROVE Quiet /\ Rest
  BY <1>5 DEF Leave, Quiet, Rest
<1>6. CASE on_write
  <2>1. Quiet /\ caller' = caller /\ skipped' = skipped
    BY <1>6 DEF on_write, Quiet
  <2>2. CASE Tells("send", channel) /\ UNCHANGED <<armed, proc>>
    BY <1>a, <2>1, <2>2, TellsKeepsOut DEF Moves, Rest
  <2>3. CASE /\ channel.out # NoRequest
             /\ Tells("send", [channel EXCEPT !.out = NoRequest])
             /\ proc' = [proc EXCEPT !.toServer = Append(@, channel.out)]
    <3>1. [channel EXCEPT !.out = NoRequest] \in Channels
      BY <1>a, RequestFacts DEF Channels
    <3>2. [channel EXCEPT !.out = NoRequest].out = NoRequest
      BY <1>a DEF Channels
    <3>3. channel'.out = NoRequest
      BY <2>3, <3>1, <3>2, TellsKeepsOut
    <3>4. /\ proc'.toServer = Append(proc.toServer, channel.out)
          /\ proc'.creds = proc.creds /\ proc'.alive = proc.alive
      BY <1>a, <2>3 DEF Procs
    <3>5. QED
      BY <2>1, <2>3, <3>3, <3>4 DEF Moves, Flushed
  <2>4. CASE Fails
    BY <2>1, <2>4, FailsBreaks DEF Moves
  <2>5. QED
    BY <1>6, <2>1, <2>2, <2>3, <2>4 DEF on_write
<1>7. CASE on_read
  <2>1. Quiet /\ caller' = caller /\ skipped' = skipped
    BY <1>7 DEF on_read, Quiet
  <2>2. CASE Fails
    BY <2>1, <2>2, FailsBreaks DEF Moves
  <2>3. CASE ~ Fails
    <3>1. channel'.out = channel.out
      BY <1>7, <1>a, <2>3 DEF on_read, Tells, Channels
    <3>2. /\ proc'.toServer = proc.toServer
          /\ proc'.creds = proc.creds /\ proc'.alive = proc.alive
      BY <1>7, <1>a, <2>3 DEF on_read, Procs
    <3>3. QED
      BY <2>1, <3>1, <3>2 DEF Moves, Rest
  <2>4. QED
    BY <2>2, <2>3
<1>8. CASE on_can_send
  <2> DEFINE r == Head(caller.sendq)
             sent == [caller EXCEPT !.sendq = Tail(@), !.recvq = Append(@, r),
                                    !.timer = TimerAfterSend(r)]
  <2>1. Quiet
    BY <1>8 DEF on_can_send, Quiet
  <2>2. CASE UNCHANGED <<caller, channel, proc, skipped>>
    BY <2>1, <2>2 DEF Moves, Rest
  <2>3. CASE /\ caller.sendq # <<>>
             /\ caller' = [caller EXCEPT !.sendq = Tail(@)]
             /\ skipped' = (skipped \/ r.op # "call")
             /\ UNCHANGED <<channel, proc>>
    <3>1. caller'.sendq = Tail(caller.sendq)
      BY <1>a, <2>3 DEF Callers
    <3>2. QED
      BY <2>1, <2>3, <3>1 DEF Moves, Withheld
  <2>4. CASE /\ channel' = [channel EXCEPT !.ops = @ \cup {"send"}]
             /\ UNCHANGED <<caller, proc, skipped>>
    <3>1. channel'.out = channel.out
      BY <1>a, <2>4 DEF Channels
    <3>2. QED
      BY <2>1, <2>4, <3>1 DEF Moves, Rest
  <2>5. CASE on_error(Tail(events), Pending)
    BY <2>1, <2>5, ErrorBreaks DEF Moves
  <2>6. ASSUME caller' = sent PROVE caller'.sendq = Tail(caller.sendq)
    BY <1>a, <2>6 DEF Callers
  <2> HIDE DEF sent
  <2>7. CASE /\ caller.sendq # <<>> /\ channel.out = NoRequest /\ caller' = sent
             /\ proc' = [proc EXCEPT !.toServer = Append(@, r)]
             /\ UNCHANGED <<channel, skipped>>
    <3>1. /\ proc'.toServer = Append(proc.toServer, r)
          /\ proc'.creds = proc.creds /\ proc'.alive = proc.alive
      BY <1>a, <2>7 DEF Procs
    <3>2. QED
      BY <2>1, <2>6, <2>7, <3>1 DEF Moves, Written
  <2>8. CASE /\ caller.sendq # <<>> /\ channel.out = NoRequest /\ caller' = sent
             /\ channel' = [channel EXCEPT !.out = r]
             /\ UNCHANGED <<proc, skipped>>
    <3>1. channel'.out = r
      BY <1>a, <2>8 DEF Channels
    <3>2. QED
      BY <2>1, <2>6, <2>8, <3>1 DEF Moves, Parted
  <2> HIDE DEF r
  <2>9. QED
    BY <1>8, <2>2, <2>3, <2>4, <2>5, <2>7, <2>8 DEF on_can_send, r, sent
<1>9. CASE on_can_recv
  <2>1. Quiet /\ skipped' = skipped
    BY <1>9 DEF on_can_recv, Quiet
  <2>2. CASE on_error(Tail(events), Pending)
    BY <2>1, <2>2, ErrorBreaks DEF Moves
  <2>3. CASE ~ on_error(Tail(events), Pending)
    <3>1. channel'.out = channel.out /\ proc' = proc
      BY <1>9, <1>a, <2>3 DEF on_can_recv, Channels
    <3>2. caller'.sendq = caller.sendq
      BY <1>9, <1>a, <2>3 DEF on_can_recv, Callers
    <3>3. QED
      BY <2>1, <3>1, <3>2 DEF Moves, Rest
  <2>4. QED
    BY <2>2, <2>3
<1>10. CASE on_channel_error \/ on_timer
  BY <1>10, ErrorBreaks DEF on_channel_error, on_timer, Quiet, Moves
<1>11. ASSUME NEW flag \in {"read", "write"}, SocketEvent(flag) PROVE Quiet /\ Rest
  BY <1>11 DEF SocketEvent, Quiet, Rest
<1>12. CASE Serve
  <2>1. /\ Quiet /\ proc.toServer # <<>>
        /\ caller' = caller /\ channel' = channel /\ skipped' = skipped
    BY <1>12 DEF Serve, Quiet
  <2>2. /\ proc'.toServer = Tail(proc.toServer) /\ proc'.alive = proc.alive
        /\ proc'.creds = (proc.creds \/ Head(proc.toServer).op # "call")
    BY <1>12, <1>a DEF Serve, Procs
  <2>3. QED
    BY <2>1, <2>2 DEF Moves, Taken
<1>13. CASE Respond
  <2>1. Quiet /\ caller' = caller /\ channel' = channel /\ skipped' = skipped
    BY <1>13 DEF Respond, Quiet
  <2>2. /\ proc'.toServer = proc.toServer
        /\ proc'.creds = proc.creds /\ proc'.alive = proc.alive
    BY <1>13, <1>a DEF Respond, Procs
  <2>3. QED
    BY <2>1, <2>2 DEF Moves, Rest
<1>14. CASE Crash
  <2>1. Quiet /\ caller' = caller /\ channel' = channel
    BY <1>14 DEF Crash, Quiet
  <2>2. proc'.toServer = <<>> /\ ~ proc'.alive
    BY <1>14, <1>a DEF Crash, Procs
  <2>3. QED
    BY <2>1, <2>2 DEF Moves, Broken
<1>15. QED
  BY <1>0, <1>1, <1>2, <1>3, <1>4, <1>5, <1>6, <1>7, <1>8, <1>9, <1>10, <1>11, <1>12,
     <1>13, <1>14 DEF Next, Session, Loop, Moves

-----------------------------------------------------------------------------
(* Credentials first *)

(* What the process is found to have been without when it takes a request.    *)
LEMMA WithoutChange ==
  ASSUME [Next]_vars, NEW c \in without', c \notin without
  PROVE  /\ proc.alive /\ proc.toServer # <<>> /\ ~ proc.creds /\ ~ skipped
         /\ Head(proc.toServer).op = "call" /\ Head(proc.toServer).for = c
<1> USE DEF sessionVars, historyVars
<1>0. CASE UNCHANGED vars
  BY <1>0 DEF vars
<1>1. ASSUME NEW d \in Calls, Session(d) \/ Leave(d) PROVE without' = without
  BY <1>1 DEF Session, TakeCaller, MakeCaller, CallPreset, Call, Leave
<1>2. CASE Loop \/ on_timer
  BY <1>2 DEF Loop, on_write, on_read, on_can_send, on_can_recv, on_channel_error, on_timer
<1>3. ASSUME NEW flag \in {"read", "write"}, SocketEvent(flag) PROVE without' = without
  BY <1>3 DEF SocketEvent
<1>4. CASE Respond \/ Crash
  BY <1>4 DEF Respond, Crash
<1>5. CASE Serve
  BY <1>5 DEF Serve
<1>6. QED
  BY <1>0, <1>1, <1>2, <1>3, <1>4, <1>5 DEF Next

(* A call that was made stays made, and what is expected of it was settled    *)
(* when its session took the caller.                                          *)
LEMMA CallsKept ==
  ASSUME TypeOK, Holder, [Next]_vars
  PROVE  /\ \A c \in Calls : step[c] = "made" => step'[c] = "made"
         /\ \A c \in expects' : c \in expects \/ step[c] = "idle"
<1>a. step \in [Calls -> {"idle", "preset", "call", "made"}]
  BY TypeOKDef
<1>1. CASE Quiet
  BY <1>1 DEF Quiet
<1>2. ASSUME NEW c \in Calls, TakeCaller(c)
      PROVE  /\ \A d \in Calls : step[d] = "made" => step'[d] = "made"
             /\ \A d \in expects' : d \in expects \/ step[d] = "idle"
  BY <1>2, <1>a DEF TakeCaller
<1>3. ASSUME NEW c \in Calls, MakeCaller(c)
      PROVE  /\ \A d \in Calls : step[d] = "made" => step'[d] = "made"
             /\ \A d \in expects' : d \in expects \/ step[d] = "idle"
  BY <1>3, <1>a DEF MakeCaller
<1>4. ASSUME NEW c \in Calls, CallPreset(c) \/ Call(c)
      PROVE  /\ \A d \in Calls : step[d] = "made" => step'[d] = "made"
             /\ \A d \in expects' : d \in expects \/ step[d] = "idle"
  BY <1>4, <1>a DEF CallPreset, Call, historyVars
<1>5. QED
  BY <1>1, <1>2, <1>3, <1>4, RequestsMove

(* One session at most holds the caller, step by step.                        *)
LEMMA HolderStep ==
  ASSUME TypeOK, Holder, AllMade, [Next]_vars PROVE Holder'
<1>a. /\ step \in [Calls -> {"idle", "preset", "call", "made"}]
      /\ expects \subseteq Calls /\ without \subseteq Calls /\ stored \in BOOLEAN
      /\ proc.toServer \in Seq(Request)
  BY TypeOKDef, ProcFields
<1>b. \A c \in Calls : c # NoCall
  BY ImpersonatorAssumption
<1>1. \A c \in without' : step'[c] = "made"
  <2> SUFFICES ASSUME NEW c \in without' PROVE step'[c] = "made"
    OBVIOUS
  <2>1. CASE c \in without
    BY <1>a, <2>1, CallsKept DEF Holder
  <2>2. CASE c \notin without
    <3>1. /\ proc.toServer # <<>>
          /\ Head(proc.toServer).op = "call" /\ Head(proc.toServer).for = c
      BY <2>2, WithoutChange
    <3>2. /\ Head(proc.toServer) \in Request /\ 1 \in DOMAIN proc.toServer
          /\ Head(proc.toServer) = proc.toServer[1]
      BY <1>a, <3>1, QueueOf
    <3>3. step[c] = "made" /\ c \in Calls
      BY <3>1, <3>2, RequestFacts DEF AllMade, Made
    <3>4. QED
      BY <3>3, CallsKept
  <2>3. QED
    BY <2>1, <2>2
<1>2. /\ \A c \in Calls : step'[c] \in {"preset", "call"} <=> inUse' = c
      /\ \A c \in expects' : stored' /\ step'[c] # "idle"
  <2>1. CASE Quiet
    BY <2>1 DEF Quiet, Holder
  <2>2. ASSUME NEW c \in Calls, TakeCaller(c)
        PROVE  /\ \A d \in Calls : step'[d] \in {"preset", "call"} <=> inUse' = d
               /\ \A d \in expects' : stored' /\ step'[d] # "idle"
    BY <2>2, <1>a, <1>b DEF TakeCaller, Holder
  <2>3. ASSUME NEW c \in Calls, MakeCaller(c)
        PROVE  /\ \A d \in Calls : step'[d] \in {"preset", "call"} <=> inUse' = d
               /\ \A d \in expects' : stored' /\ step'[d] # "idle"
    BY <2>3, <1>a, <1>b DEF MakeCaller, Holder
  <2>4. ASSUME NEW c \in Calls, CallPreset(c)
        PROVE  /\ \A d \in Calls : step'[d] \in {"preset", "call"} <=> inUse' = d
               /\ \A d \in expects' : stored' /\ step'[d] # "idle"
    BY <2>4, <1>a, <1>b DEF CallPreset, Holder, historyVars
  <2>5. ASSUME NEW c \in Calls, Call(c)
        PROVE  /\ \A d \in Calls : step'[d] \in {"preset", "call"} <=> inUse' = d
               /\ \A d \in expects' : stored' /\ step'[d] # "idle"
    BY <2>5, <1>a, <1>b DEF Call, Holder, historyVars
  <2>6. QED
    BY <2>1, <2>2, <2>3, <2>4, <2>5, RequestsMove
<1>3. QED
  BY <1>1, <1>2 DEF Holder

(* The requests on their way are of calls that were made, step by step.       *)
LEMMA AllMadeStep ==
  ASSUME TypeOK, Holder, AllMade, [Next]_vars PROVE AllMade'
<1> DEFINE MadeNow(r) == r.op = "call" => step'[r.for] = "made"
<1>a. /\ caller.sendq \in Seq(Request) /\ proc.toServer \in Seq(Request)
      /\ channel.out \in Requests
      /\ step \in [Calls -> {"idle", "preset", "call", "made"}]
  BY TypeOKDef, CallerFields, ChannelFields, ProcFields
<1>b. \A r \in Request : Made(r) => MadeNow(r)
  BY CallsKept, RequestFacts DEF Made
<1>c. /\ \A i \in DOMAIN caller.sendq :
           caller.sendq[i] \in Request /\ MadeNow(caller.sendq[i])
      /\ \A i \in DOMAIN proc.toServer :
           proc.toServer[i] \in Request /\ MadeNow(proc.toServer[i])
      /\ channel.out # NoRequest => channel.out \in Request /\ MadeNow(channel.out)
  <2>1. ASSUME NEW i \in DOMAIN caller.sendq
        PROVE  caller.sendq[i] \in Request /\ Made(caller.sendq[i])
    BY <1>a DEF AllMade
  <2>2. ASSUME NEW i \in DOMAIN proc.toServer
        PROVE  proc.toServer[i] \in Request /\ Made(proc.toServer[i])
    BY <1>a DEF AllMade
  <2>3. ASSUME channel.out # NoRequest PROVE channel.out \in Request /\ Made(channel.out)
    BY <1>a, <2>3, RequestFacts DEF AllMade
  <2> HIDE DEF MadeNow
  <2>4. QED
    BY <1>b, <2>1, <2>2, <2>3
<1> DEFINE Goal == /\ \A i \in DOMAIN caller'.sendq : MadeNow(caller'.sendq[i])
                   /\ \A i \in DOMAIN proc'.toServer : MadeNow(proc'.toServer[i])
                   /\ channel'.out # NoRequest => MadeNow(channel'.out)
<1>d. Goal => AllMade'
  BY DEF AllMade, Made
<1>e. \A c \in Calls : MadeNow([op |-> "preset", for |-> c])
  OBVIOUS
<1>f. ASSUME NEW c \in Calls, Call(c) PROVE MadeNow([op |-> RequestOf(c), for |-> c])
  BY <1>a, <1>f DEF Call
<1> HIDE DEF MadeNow
<1>1. CASE Rest
  BY <1>1, <1>c, <1>d DEF Rest
<1>2. CASE Broken
  BY <1>2, <1>c, <1>d DEF Broken
<1>3. CASE Renewed
  BY <1>3, <1>d DEF Renewed
<1>4. ASSUME NEW r \in Request, MadeNow(r), Queues(r) PROVE AllMade'
  <2>1. \A i \in DOMAIN caller'.sendq : MadeNow(caller'.sendq[i])
    BY <1>4, <1>a, <1>c, QueueOf DEF Queues
  <2>2. QED
    BY <1>4, <1>c, <1>d, <2>1 DEF Queues
<1>5. CASE Withheld
  <2>1. \A i \in DOMAIN caller'.sendq : MadeNow(caller'.sendq[i])
    BY <1>5, <1>a, <1>c, QueueOf DEF Withheld
  <2>2. QED
    BY <1>5, <1>c, <1>d, <2>1 DEF Withheld
<1>6. CASE Written \/ Parted
  <2> caller.sendq # <<>> /\ caller'.sendq = Tail(caller.sendq)
    BY <1>6 DEF Written, Parted
  <2>1. \A i \in DOMAIN caller'.sendq : MadeNow(caller'.sendq[i])
    BY <1>a, <1>c, QueueOf
  <2>2. Head(caller.sendq) \in Request /\ MadeNow(Head(caller.sendq))
    BY <1>a, <1>c, QueueOf
  <2>3. CASE Written
    <3>1. \A i \in DOMAIN proc'.toServer : MadeNow(proc'.toServer[i])
      BY <2>2, <2>3, <1>a, <1>c, QueueOf DEF Written
    <3>2. QED
      BY <1>d, <2>1, <2>3, <3>1 DEF Written
  <2>4. CASE Parted
    BY <1>c, <1>d, <2>1, <2>2, <2>4 DEF Parted
  <2>5. QED
    BY <1>6, <2>3, <2>4
<1>7. CASE Flushed
  <2>1. \A i \in DOMAIN proc'.toServer : MadeNow(proc'.toServer[i])
    BY <1>7, <1>a, <1>c, QueueOf DEF Flushed
  <2>2. QED
    BY <1>7, <1>c, <1>d, <2>1 DEF Flushed
<1>8. CASE Taken
  <2>1. \A i \in DOMAIN proc'.toServer : MadeNow(proc'.toServer[i])
    BY <1>8, <1>a, <1>c, QueueOf DEF Taken
  <2>2. QED
    BY <1>8, <1>c, <1>d, <2>1 DEF Taken
<1>9. ASSUME NEW c \in Calls, CallPreset(c), Queues([op |-> "preset", for |-> c]) PROVE AllMade'
  BY <1>4, <1>9, <1>e, RequestFacts
<1>10. ASSUME NEW c \in Calls, Call(c), Queues([op |-> RequestOf(c), for |-> c]) PROVE AllMade'
  BY <1>4, <1>10, <1>f, RequestFacts
<1>11. QED
  BY <1>1, <1>2, <1>3, <1>5, <1>6, <1>7, <1>8, <1>9, <1>10, RequestsMove DEF Moves

(* Credentials in a queue, as it grows and as its head is taken.              *)
LEMMA CredsQueue ==
  ASSUME NEW q \in Seq(Request)
  PROVE  /\ ~ CredsBefore(q, 1)
         /\ \A r \in Request :
              /\ HasCreds(Append(q, r)) <=> HasCreds(q) \/ IsCreds(r)
              /\ CredsBefore(Append(q, r), Len(q) + 1) <=> HasCreds(q)
              /\ \A i \in DOMAIN q : CredsBefore(q, i) => CredsBefore(Append(q, r), i)
         /\ q # <<>> =>
              /\ HasCreds(q) => IsCreds(Head(q)) \/ HasCreds(Tail(q))
              /\ \A i \in DOMAIN Tail(q) :
                   CredsBefore(q, i + 1) => IsCreds(Head(q)) \/ CredsBefore(Tail(q), i)
<1>1. DOMAIN q = 1 .. Len(q) /\ Len(q) \in Nat
  OBVIOUS
<1>2. ~ CredsBefore(q, 1)
  BY <1>1 DEF CredsBefore
<1>3. ASSUME NEW r \in Request
      PROVE  /\ HasCreds(Append(q, r)) <=> HasCreds(q) \/ IsCreds(r)
             /\ CredsBefore(Append(q, r), Len(q) + 1) <=> HasCreds(q)
             /\ \A i \in DOMAIN q : CredsBefore(q, i) => CredsBefore(Append(q, r), i)
  <2> DEFINE s == Append(q, r)
  <2>1. /\ DOMAIN s = 1 .. Len(q) + 1 /\ s[Len(q) + 1] = r
        /\ \A i \in DOMAIN q : s[i] = q[i]
    BY <1>1
  <2> HIDE DEF s
  <2>2. /\ \A i \in DOMAIN s : i \in DOMAIN q \/ i = Len(q) + 1
        /\ \A i \in DOMAIN q : i \in DOMAIN s /\ i < Len(q) + 1
        /\ Len(q) + 1 \in DOMAIN s /\ ~(Len(q) + 1 < Len(q) + 1)
    BY <1>1, <2>1
  <2>3. HasCreds(s) <=> HasCreds(q) \/ IsCreds(r)
    BY <2>1, <2>2 DEF HasCreds
  <2>4. CredsBefore(s, Len(q) + 1) <=> HasCreds(q)
    BY <2>1, <2>2 DEF HasCreds, CredsBefore
  <2>5. \A i \in DOMAIN q : CredsBefore(q, i) => CredsBefore(s, i)
    BY <2>1, <2>2 DEF CredsBefore
  <2>6. QED
    BY <2>3, <2>4, <2>5 DEF s
<1>4. ASSUME q # <<>>
      PROVE  /\ HasCreds(q) => IsCreds(Head(q)) \/ HasCreds(Tail(q))
             /\ \A i \in DOMAIN Tail(q) :
                  CredsBefore(q, i + 1) => IsCreds(Head(q)) \/ CredsBefore(Tail(q), i)
  <2> DEFINE s == Tail(q)
             h == Head(q)
  <2>1. /\ DOMAIN s = 1 .. Len(q) - 1 /\ h = q[1]
        /\ \A i \in DOMAIN s : s[i] = q[i + 1]
    BY <1>1, <1>4
  <2> HIDE DEF s, h
  <2>2. ASSUME NEW j \in DOMAIN q, IsCreds(q[j])
        PROVE  IsCreds(h) \/ (j - 1 \in DOMAIN s /\ IsCreds(s[j - 1]))
    <3>1. CASE j = 1
      BY <2>1, <2>2, <3>1
    <3>2. CASE j # 1
      <4>1. j - 1 \in DOMAIN s /\ (j - 1) + 1 = j
        BY <1>1, <2>1, <3>2
      <4>2. QED
        BY <2>1, <2>2, <4>1
    <3>3. QED
      BY <3>1, <3>2
  <2>3. HasCreds(q) => IsCreds(h) \/ HasCreds(s)
    BY <2>2 DEF HasCreds
  <2>4. ASSUME NEW i \in DOMAIN s, CredsBefore(q, i + 1)
        PROVE  IsCreds(h) \/ CredsBefore(s, i)
    <3>1. PICK j \in DOMAIN q : j < i + 1 /\ IsCreds(q[j])
      BY <2>4 DEF CredsBefore
    <3>2. j - 1 < i
      BY <1>1, <2>1, <3>1
    <3>3. QED
      BY <2>2, <3>1, <3>2 DEF CredsBefore
  <2>5. QED
    BY <2>3, <2>4 DEF s, h
<1>5. QED
  BY <1>2, <1>3, <1>4

(* No request asks for nothing, and is no credentials.                        *)
LEMMA NoneAsked == ~ IsCreds(NoRequest) /\ NoRequest.op # "call"
BY DEF IsCreds, NoRequest

(* A request is a call or credentials.                                        *)
LEMMA CredsOrCall == \A r \in Request : IsCreds(r) <=> r.op # "call"
BY RequestFacts DEF IsCreds

(* Credentials that are known or on their way to a process that lives are so  *)
(* after it took a request, or the caller sent or withheld one.               *)
LEMMA WayKept ==
  ASSUME TypeOK, Moves, proc'.alive
  PROVE  /\ proc.alive
         /\ Known => Known'
         /\ Known \/ Carried => Known' \/ Carried'
         /\ Known \/ Carried \/ HasCreds(caller.sendq) =>
              Known' \/ Carried' \/ HasCreds(caller'.sendq)
<1>a. caller.sendq \in Seq(Request) /\ proc.toServer \in Seq(Request) /\ channel.out \in Requests
  BY TypeOKDef, CallerFields, ChannelFields, ProcFields
<1>b. ASSUME caller.sendq # <<>>
      PROVE  /\ Head(caller.sendq) \in Request
             /\ HasCreds(caller.sendq) =>
                  IsCreds(Head(caller.sendq)) \/ HasCreds(Tail(caller.sendq))
  BY <1>a, <1>b, CredsQueue, QueueOf
<1>1. CASE Rest
  BY <1>1 DEF Rest, Known, Carried
<1>2. CASE Withheld
  BY <1>2, <1>b, CredsOrCall DEF Withheld, Known, Carried
<1>3. CASE Written
  <2>1. HasCreds(proc'.toServer) <=> HasCreds(proc.toServer) \/ IsCreds(Head(caller.sendq))
    BY <1>3, <1>a, <1>b, CredsQueue DEF Written
  <2>2. QED
    BY <1>3, <1>b, <2>1, NoneAsked DEF Written, Known, Carried
<1>4. CASE Parted
  BY <1>4, <1>b, NoneAsked DEF Parted, Known, Carried
<1>5. CASE Flushed
  <2>1. channel.out \in Request
    BY <1>5, <1>a, RequestFacts DEF Flushed
  <2>2. HasCreds(proc'.toServer) <=> HasCreds(proc.toServer) \/ IsCreds(channel.out)
    BY <1>5, <1>a, <2>1, CredsQueue DEF Flushed
  <2>3. QED
    BY <1>5, <2>2 DEF Flushed, Known, Carried
<1>6. CASE Taken
  <2>1. /\ Head(proc.toServer) \in Request
        /\ HasCreds(proc.toServer) =>
             IsCreds(Head(proc.toServer)) \/ HasCreds(Tail(proc.toServer))
    BY <1>6, <1>a, CredsQueue, QueueOf DEF Taken
  <2>2. QED
    BY <1>6, <2>1, CredsOrCall DEF Taken, Known, Carried
<1>7. QED
  BY <1>1, <1>2, <1>3, <1>4, <1>5, <1>6 DEF Moves, Broken

(* Credentials that are stored are seen to, step by step.                     *)
LEMMA CoveredStep ==
  ASSUME TypeOK, Holder, Covered, [Next]_vars PROVE Covered'
<1> SUFFICES ASSUME stored', proc'.alive
             PROVE  (Known \/ Carried \/ HasCreds(caller.sendq) \/ Promised)'
  BY DEF Covered
<1>a. /\ step \in [Calls -> {"idle", "preset", "call", "made"}]
      /\ caller.sendq \in Seq(Request)
  BY TypeOKDef, CallerFields
<1>b. \A c \in Calls : c # NoCall
  BY ImpersonatorAssumption
<1>1. CASE Quiet /\ Moves
  <2>1. stored /\ (Promised => Promised')
    BY <1>1 DEF Quiet, Promised
  <2>2. QED
    BY <1>1, <2>1, WayKept DEF Covered
<1>2. ASSUME NEW c \in Calls, TakeCaller(c), Rest
      PROVE  (Known \/ Carried \/ HasCreds(caller.sendq) \/ Promised)'
  <2>1. stored /\ ~ Promised /\ Moves
    BY <1>2 DEF TakeCaller, Promised, Moves
  <2>2. QED
    BY <2>1, WayKept DEF Covered
<1>3. ASSUME NEW c \in Calls, MakeCaller(c) PROVE Promised'
  BY <1>3, <1>a, <1>b DEF MakeCaller, SendsPreset, Promised
<1>4. ASSUME NEW r \in Request, Queues(r)
      PROVE  /\ proc.alive
             /\ Known \/ Carried \/ HasCreds(caller.sendq) \/ IsCreds(r) =>
                  Known' \/ Carried' \/ HasCreds(caller'.sendq)
  <2>1. HasCreds(caller'.sendq) <=> HasCreds(caller.sendq) \/ IsCreds(r)
    BY <1>4, <1>a, CredsQueue DEF Queues
  <2>2. QED
    BY <1>4, <2>1 DEF Queues, Known, Carried
<1>5. ASSUME NEW c \in Calls, CallPreset(c), Queues([op |-> "preset", for |-> c])
      PROVE  (Known \/ Carried \/ HasCreds(caller.sendq) \/ Promised)'
  <2>1. IsCreds([op |-> "preset", for |-> c])
    BY DEF IsCreds
  <2>2. QED
    BY <1>4, <1>5, <2>1, RequestFacts
<1>6. ASSUME NEW c \in Calls, Call(c), Queues([op |-> RequestOf(c), for |-> c])
      PROVE  (Known \/ Carried \/ HasCreds(caller.sendq) \/ Promised)'
  <2>1. CASE c \in CredsCalls
    <3>1. IsCreds([op |-> RequestOf(c), for |-> c])
      BY <2>1 DEF IsCreds, RequestOf
    <3>2. QED
      BY <1>4, <1>6, <3>1, RequestFacts
  <2>2. CASE c \notin CredsCalls
    <3>1. stored /\ step[c] = "call"
      BY <1>6, <2>2 DEF Call
    <3>2. inUse = c
      BY <3>1 DEF Holder
    <3>3. ~ Promised
      BY <2>2, <3>1, <3>2 DEF Promised
    <3>4. QED
      BY <1>4, <1>6, <3>1, <3>3, RequestFacts DEF Covered
  <2>3. QED
    BY <2>1, <2>2
<1>7. ~ Broken
  BY DEF Broken
<1>8. QED
  BY <1>1, <1>2, <1>3, <1>5, <1>6, <1>7, RequestsMove

(* Credentials go ahead of what needs them, step by step.                     *)
LEMMA LedStep ==
  ASSUME TypeOK, Holder, AllMade, Led, Covered, [Next]_vars PROVE Led'
<1> DEFINE AsksNow(r) == r.op = "call" /\ r.for \in expects'
<1> SUFFICES ASSUME proc'.alive PROVE Led'
  BY DEF Led
<1>a. /\ caller.sendq \in Seq(Request) /\ proc.toServer \in Seq(Request)
      /\ channel.out \in Requests
  BY TypeOKDef, CallerFields, ChannelFields, ProcFields
<1>b. ASSUME NEW r \in Request, Made(r), AsksNow(r) PROVE Asks(r)
  BY <1>b, CallsKept DEF Made, Asks
<1>c. /\ \A i \in DOMAIN caller.sendq :
           caller.sendq[i] \in Request /\ (AsksNow(caller.sendq[i]) => Asks(caller.sendq[i]))
      /\ \A i \in DOMAIN proc.toServer :
           proc.toServer[i] \in Request /\ (AsksNow(proc.toServer[i]) => Asks(proc.toServer[i]))
      /\ AsksNow(channel.out) => channel.out \in Request /\ Asks(channel.out)
  <2>1. ASSUME NEW i \in DOMAIN caller.sendq
        PROVE  caller.sendq[i] \in Request /\ Made(caller.sendq[i])
    BY <1>a DEF AllMade
  <2>2. ASSUME NEW i \in DOMAIN proc.toServer
        PROVE  proc.toServer[i] \in Request /\ Made(proc.toServer[i])
    BY <1>a DEF AllMade
  <2>3. ASSUME AsksNow(channel.out) PROVE channel.out \in Request /\ Made(channel.out)
    BY <1>a, <2>3, NoneAsked, RequestFacts DEF AllMade
  <2> HIDE DEF AsksNow
  <2>4. QED
    BY <1>b, <2>1, <2>2, <2>3
<1>d. ~ AsksNow(NoRequest)
  BY NoneAsked
<1> DEFINE OfServer == \A i \in DOMAIN proc'.toServer :
                          AsksNow(proc'.toServer[i]) => Known' \/ CredsBefore(proc'.toServer, i)
           OfOut == AsksNow(channel'.out) => Known' \/ HasCreds(proc'.toServer)
           OfQueue == \A i \in DOMAIN caller'.sendq :
                        AsksNow(caller'.sendq[i]) =>
                          Known' \/ Carried' \/ CredsBefore(caller'.sendq, i)
<1>e. OfServer /\ OfOut /\ OfQueue => Led'
  BY DEF Led, Asks, CredsBefore, HasCreds, IsCreds
<1> HIDE DEF AsksNow
(* What is left of the caller's queue when its head is gone.                  *)
<1>f. ASSUME caller.sendq # <<>>, caller'.sendq = Tail(caller.sendq), proc.alive,
             Known \/ Carried \/ IsCreds(Head(caller.sendq)) => Known' \/ Carried'
      PROVE  OfQueue
  <2> SUFFICES ASSUME NEW i \in DOMAIN caller'.sendq, AsksNow(caller'.sendq[i])
               PROVE  Known' \/ Carried' \/ CredsBefore(caller'.sendq, i)
    OBVIOUS
  <2>1. i + 1 \in DOMAIN caller.sendq /\ caller'.sendq[i] = caller.sendq[i + 1]
    BY <1>a, <1>f, QueueOf
  <2>2. Known \/ Carried \/ CredsBefore(caller.sendq, i + 1)
    BY <1>c, <1>f, <2>1 DEF Led
  <2>3. CredsBefore(caller.sendq, i + 1) =>
          IsCreds(Head(caller.sendq)) \/ CredsBefore(caller'.sendq, i)
    BY <1>a, <1>f, CredsQueue
  <2>4. QED
    BY <1>f, <2>2, <2>3
(* What becomes of the process's queue as it grows.                           *)
<1>g. ASSUME NEW r \in Request, proc'.toServer = Append(proc.toServer, r), proc.alive,
             Known => Known', AsksNow(r) => Known \/ HasCreds(proc.toServer)
      PROVE  OfServer
  <2> SUFFICES ASSUME NEW i \in DOMAIN proc'.toServer, AsksNow(proc'.toServer[i])
               PROVE  Known' \/ CredsBefore(proc'.toServer, i)
    OBVIOUS
  <2>1. CASE i \in DOMAIN proc.toServer /\ proc'.toServer[i] = proc.toServer[i]
    <3>1. Known \/ CredsBefore(proc.toServer, i)
      BY <1>c, <1>g, <2>1 DEF Led
    <3>2. CredsBefore(proc.toServer, i) => CredsBefore(proc'.toServer, i)
      BY <1>a, <1>g, <2>1, CredsQueue
    <3>3. QED
      BY <1>g, <3>1, <3>2
  <2>2. CASE i = Len(proc.toServer) + 1 /\ proc'.toServer[i] = r
    <3>1. HasCreds(proc.toServer) => CredsBefore(proc'.toServer, i)
      BY <1>a, <1>g, <2>2, CredsQueue
    <3>2. QED
      BY <1>g, <2>2, <3>1
  <2>3. QED
    BY <1>a, <1>g, <2>1, <2>2, QueueOf
<1>1. CASE Rest
  <2>1. OfServer /\ OfOut /\ OfQueue
    BY <1>1, <1>c DEF Rest, Led, Known, Carried
  <2>2. QED
    BY <1>e, <2>1
<1>2. CASE Renewed
  <2>1. OfServer /\ OfOut /\ OfQueue
    BY <1>2, <1>d DEF Renewed
  <2>2. QED
    BY <1>e, <2>1
<1>3. ASSUME NEW r \in Request, Queues(r),
             AsksNow(r) => Known \/ Carried \/ HasCreds(caller.sendq)
      PROVE  Led'
  <2>1. proc.alive /\ Known' = Known /\ Carried' = Carried
    BY <1>3 DEF Queues, Known, Carried
  <2>2. OfServer /\ OfOut
    BY <1>3, <1>c, <2>1 DEF Queues, Led
  <2>3. OfQueue
    <3> SUFFICES ASSUME NEW i \in DOMAIN caller'.sendq, AsksNow(caller'.sendq[i])
                 PROVE  Known' \/ Carried' \/ CredsBefore(caller'.sendq, i)
      OBVIOUS
    <3>1. CASE i \in DOMAIN caller.sendq /\ caller'.sendq[i] = caller.sendq[i]
      <4>1. Known \/ Carried \/ CredsBefore(caller.sendq, i)
        BY <1>c, <2>1, <3>1 DEF Led
      <4>2. CredsBefore(caller.sendq, i) => CredsBefore(caller'.sendq, i)
        BY <1>3, <1>a, <3>1, CredsQueue DEF Queues
      <4>3. QED
        BY <2>1, <4>1, <4>2
    <3>2. CASE i = Len(caller.sendq) + 1 /\ caller'.sendq[i] = r
      <4>1. HasCreds(caller.sendq) => CredsBefore(caller'.sendq, i)
        BY <1>3, <1>a, <3>2, CredsQueue DEF Queues
      <4>2. QED
        BY <1>3, <2>1, <3>2, <4>1
    <3>3. QED
      BY <1>3, <1>a, <3>1, <3>2, QueueOf DEF Queues
  <2>4. QED
    BY <1>e, <2>2, <2>3
<1>4. CASE Withheld
  <2>1. /\ Head(caller.sendq) \in Request /\ proc.alive
        /\ Carried' = Carried /\ (Known => Known')
    BY <1>4, <1>a, QueueOf DEF Withheld, Known, Carried
  <2>2. IsCreds(Head(caller.sendq)) => Known'
    BY <1>4, <2>1, CredsOrCall DEF Withheld, Known
  <2>3. OfQueue
    BY <1>4, <1>f, <2>1, <2>2 DEF Withheld
  <2>4. OfServer /\ OfOut
    BY <1>4, <1>c, <2>1 DEF Withheld, Led
  <2>5. QED
    BY <1>e, <2>3, <2>4
<1>5. ASSUME Written \/ Parted
      PROVE  /\ caller.sendq # <<>> /\ caller'.sendq = Tail(caller.sendq) /\ proc.alive
             /\ Known' = Known /\ Head(caller.sendq) \in Request
             /\ AsksNow(Head(caller.sendq)) => Known \/ HasCreds(proc.toServer)
  <2>1. /\ caller.sendq # <<>> /\ caller'.sendq = Tail(caller.sendq) /\ proc.alive
        /\ Known' = Known /\ channel.out = NoRequest
    <3>1. CASE Written
      BY <3>1 DEF Written, Known
    <3>2. CASE Parted
      BY <3>2 DEF Parted, Known
    <3>3. QED
      BY <1>5, <3>1, <3>2
  <2>2. /\ Head(caller.sendq) \in Request /\ 1 \in DOMAIN caller.sendq
        /\ Head(caller.sendq) = caller.sendq[1]
    BY <1>a, <2>1, QueueOf
  <2>3. ~ CredsBefore(caller.sendq, 1)
    BY <1>a, CredsQueue
  <2>4. AsksNow(Head(caller.sendq)) => Known \/ HasCreds(proc.toServer)
    BY <1>c, <2>1, <2>2, <2>3, NoneAsked DEF Led, Carried
  <2>5. QED
    BY <2>1, <2>2, <2>4
<1>6. CASE Written
  <2>1. HasCreds(proc'.toServer) <=> HasCreds(proc.toServer) \/ IsCreds(Head(caller.sendq))
    BY <1>6, <1>5, <1>a, CredsQueue DEF Written
  <2>2. Carried \/ IsCreds(Head(caller.sendq)) => Carried'
    BY <1>6, <2>1, NoneAsked DEF Written, Carried
  <2>3. OfQueue
    BY <1>6, <1>5, <1>f, <2>2
  <2>4. OfServer
    <3> DEFINE r == Head(caller.sendq)
    <3>1. r \in Request /\ proc'.toServer = Append(proc.toServer, r) /\ proc.alive
      BY <1>6, <1>5 DEF Written
    <3>2. (Known => Known') /\ (AsksNow(r) => Known \/ HasCreds(proc.toServer))
      BY <1>6, <1>5
    <3> HIDE DEF r, OfServer
    <3>3. QED
      BY <1>g, <3>1, <3>2
  <2>5. OfOut
    BY <1>6, <1>d DEF Written
  <2>6. QED
    BY <1>e, <2>3, <2>4, <2>5
<1>7. CASE Parted
  <2>1. Carried \/ IsCreds(Head(caller.sendq)) => Carried'
    BY <1>7, NoneAsked DEF Parted, Carried
  <2>2. OfQueue
    BY <1>7, <1>5, <1>f, <2>1
  <2>3. OfServer
    BY <1>7, <1>5, <1>c DEF Parted, Led
  <2>4. OfOut
    BY <1>7, <1>5 DEF Parted
  <2>5. QED
    BY <1>e, <2>2, <2>3, <2>4
<1>8. CASE Flushed
  <2>1. proc.alive /\ Known' = Known /\ channel.out \in Request
    BY <1>8, <1>a, RequestFacts DEF Flushed, Known
  <2>2. HasCreds(proc'.toServer) <=> HasCreds(proc.toServer) \/ IsCreds(channel.out)
    BY <1>8, <1>a, <2>1, CredsQueue DEF Flushed
  <2>3. Carried => Carried'
    BY <2>2 DEF Carried
  <2>4. OfQueue
    BY <1>8, <1>c, <2>1, <2>3 DEF Flushed, Led
  <2>5. AsksNow(channel.out) => Known \/ HasCreds(proc.toServer)
    BY <1>c, <2>1 DEF Led
  <2>6. OfServer
    BY <1>8, <1>g, <2>1, <2>5 DEF Flushed
  <2>7. OfOut
    BY <1>8, <1>d DEF Flushed
  <2>8. QED
    BY <1>e, <2>4, <2>6, <2>7
<1>9. CASE Taken
  <2>1. /\ proc.alive /\ Head(proc.toServer) \in Request
        /\ Known \/ IsCreds(Head(proc.toServer)) => Known'
    BY <1>9, <1>a, QueueOf, CredsOrCall DEF Taken, Known
  <2>2. HasCreds(proc.toServer) => Known' \/ HasCreds(proc'.toServer)
    BY <1>9, <1>a, <2>1, CredsQueue DEF Taken
  <2>3. OfServer
    <3> SUFFICES ASSUME NEW i \in DOMAIN proc'.toServer, AsksNow(proc'.toServer[i])
                 PROVE  Known' \/ CredsBefore(proc'.toServer, i)
      OBVIOUS
    <3>1. i + 1 \in DOMAIN proc.toServer /\ proc'.toServer[i] = proc.toServer[i + 1]
      BY <1>9, <1>a, QueueOf DEF Taken
    <3>2. Known \/ CredsBefore(proc.toServer, i + 1)
      BY <1>c, <2>1, <3>1 DEF Led
    <3>3. CredsBefore(proc.toServer, i + 1) =>
            IsCreds(Head(proc.toServer)) \/ CredsBefore(proc'.toServer, i)
      BY <1>9, <1>a, CredsQueue DEF Taken
    <3>4. QED
      BY <2>1, <3>2, <3>3
  <2>4. OfOut
    BY <1>9, <1>c, <2>1, <2>2 DEF Taken, Led
  <2>5. Known \/ Carried => Known' \/ Carried'
    BY <1>9, <2>1, <2>2 DEF Taken, Carried
  <2>6. OfQueue
    BY <1>9, <1>c, <2>1, <2>5 DEF Taken, Led
  <2>7. QED
    BY <1>e, <2>3, <2>4, <2>6
<1>10. ASSUME NEW c \in Calls, CallPreset(c), Queues([op |-> "preset", for |-> c]) PROVE Led'
  <2>1. ~ AsksNow([op |-> "preset", for |-> c])
    BY DEF AsksNow
  <2>2. QED
    BY <1>3, <1>10, <2>1, RequestFacts
<1>11. ASSUME NEW c \in Calls, Call(c), Queues([op |-> RequestOf(c), for |-> c]) PROVE Led'
  <2>1. ASSUME AsksNow([op |-> RequestOf(c), for |-> c])
        PROVE  Known \/ Carried \/ HasCreds(caller.sendq)
    <3>1. RequestOf(c) = "call" /\ c \in expects'
      BY <2>1 DEF AsksNow
    <3>2. c \notin CredsCalls /\ c \in expects /\ step[c] = "call"
      BY <1>11, <3>1 DEF RequestOf, Call, historyVars
    <3>3. stored /\ inUse = c /\ proc.alive
      BY <1>11, <3>2 DEF Holder, Queues
    <3>4. ~ Promised
      BY <3>2, <3>3 DEF Promised
    <3>5. QED
      BY <3>3, <3>4 DEF Covered
  <2>2. QED
    BY <1>3, <1>11, <2>1, RequestFacts
<1>12. ~ Broken
  BY DEF Broken
<1>13. QED
  BY <1>1, <1>2, <1>4, <1>6, <1>7, <1>8, <1>9, <1>10, <1>11, <1>12, RequestsMove DEF Moves

(* What needs credentials is not done without them, step by step.             *)
LEMMA CredentialsStep ==
  ASSUME TypeOK, Holder, AllMade, Led, CredentialsFirst, [Next]_vars
  PROVE  CredentialsFirst'
<1> SUFFICES ASSUME NEW c \in without', c \in expects' PROVE FALSE
  BY DEF CredentialsFirst
<1>1. CASE c \in without
  <2>1. step[c] = "made"
    BY <1>1 DEF Holder
  <2>2. QED
    BY <1>1, <2>1, CallsKept DEF CredentialsFirst
<1>2. CASE c \notin without
  <2>1. /\ proc.alive /\ proc.toServer # <<>> /\ ~ proc.creds /\ ~ skipped
        /\ Head(proc.toServer).op = "call" /\ Head(proc.toServer).for = c
    BY <1>2, WithoutChange
  <2>2. proc.toServer \in Seq(Request)
    BY TypeOKDef, ProcFields
  <2>3. /\ 1 \in DOMAIN proc.toServer /\ Head(proc.toServer) = proc.toServer[1]
        /\ ~ CredsBefore(proc.toServer, 1)
    BY <2>1, <2>2, QueueOf, CredsQueue
  <2>4. ~ Asks(proc.toServer[1])
    BY <2>1, <2>3 DEF Led, Known
  <2>5. c \notin expects /\ step[c] = "idle"
    BY <2>1, <2>3, <2>4, CallsKept DEF Asks
  <2>6. step[c] = "made"
    BY <2>1, <2>3 DEF AllMade, Made
  <2>7. QED
    BY <2>5, <2>6
<1>3. QED
  BY <1>1, <1>2

-----------------------------------------------------------------------------
(* The theorems *)

IInv ==
  /\ TypeOK
  /\ Timed
  /\ Reading /\ Closed
  /\ Fifo /\ AllRight /\ AnswerIsForTheCall
  /\ Holder /\ AllMade /\ Led /\ Covered /\ CredentialsFirst

(* It holds before anything was asked for,                                    *)
LEMMA Initial ==
  ASSUME Init PROVE IInv
<1>1. TypeOK
  <2>1. caller \in Callers /\ channel \in Channels /\ proc \in Procs
    BY NewFacts DEF Init
  <2>2. <<>> \in Seq(LoopEvent) /\ 0 \in 0 .. MaxCrashes
    BY ImpersonatorAssumption
  <2>3. answer \in [Calls -> Requests \cup {DefaultAnswer}]
    BY RequestFacts DEF Init
  <2>4. QED
    BY <2>1, <2>2, <2>3, TypeOKDef DEF Init
<1>2. /\ caller.sendq = <<>> /\ caller.recvq = <<>> /\ caller.timer = NoRequest
      /\ ~ channel.open /\ channel.msg = NoRequest /\ channel.out = NoRequest
      /\ ~ proc.alive /\ proc.toServer = <<>>
  BY DEF Init, NewCaller, NewChannel, NoChannel, NewProc, NoProc
<1>3. Timed /\ Closed /\ Reading /\ Fifo /\ AllRight
  BY <1>2 DEF Init, Timed, Closed, Reading, Queued, In, Once, OnceIn, Fifo, AllRight
<1>4. AnswerIsForTheCall /\ CredentialsFirst
  BY DEF Init, AnswerIsForTheCall, CredentialsFirst
<1>5. Holder
  BY ImpersonatorAssumption DEF Init, Holder
<1>6. AllMade /\ Led /\ Covered
  BY <1>2 DEF AllMade, Led, Covered
<1>7. QED
  BY <1>1, <1>3, <1>4, <1>5, <1>6 DEF IInv

(* and in every reachable state.                                              *)
LEMMA Inductive == Spec => []IInv
<1>1. Init => IInv
  BY Initial
<1>2. IInv /\ [Next]_vars => IInv'
  <2> SUFFICES ASSUME IInv, [Next]_vars PROVE IInv'
    OBVIOUS
  <2>1. /\ TypeOK /\ Timed /\ Reading /\ Closed /\ Fifo /\ AllRight /\ AnswerIsForTheCall
        /\ Holder /\ AllMade /\ Led /\ Covered /\ CredentialsFirst
    BY DEF IInv
  <2>2. TypeOK' /\ Timed'
    BY <2>1, TypeStep, TimedStep
  <2>3. Reading' /\ Closed'
    BY <2>1, ReadingStep
  <2>4. Fifo' /\ AllRight' /\ AnswerIsForTheCall'
    BY <2>1, FifoStep, AllRightStep, AnswersStep
  <2>5. Holder' /\ AllMade'
    BY <2>1, HolderStep, AllMadeStep
  <2>6. Led' /\ Covered' /\ CredentialsFirst'
    BY <2>1, LedStep, CoveredStep, CredentialsStep
  <2>7. QED
    BY <2>2, <2>3, <2>4, <2>5, <2>6 DEF IInv
<1>3. QED
  BY <1>1, <1>2, PTL DEF Spec

(* Every variable keeps its type.                                             *)
THEOREM TypeCorrect == Spec => []TypeOK
<1>1. IInv => TypeOK
  BY DEF IInv
<1>2. QED
  BY <1>1, Inductive, PTL

(* The one timer is that of the request that has waited longest for its       *)
(* response (channel.cpp 365-373, 434-441).                                   *)
THEOREM OldestFirst == Spec => []OldestIsTimed
<1>1. IInv => OldestIsTimed
  BY DEF IInv, Timed, OldestIsTimed
<1>2. QED
  BY <1>1, Inductive, PTL

(* on_read() never writes over a message the caller has not taken             *)
(* (channel.cpp 171-221): nothing that makes it read is under way.            *)
THEOREM OneMessage == Spec => []MessageIsNotOverwritten
<1>1. IInv => MessageIsNotOverwritten
  <2> SUFFICES ASSUME IInv, channel.msg # NoRequest
               PROVE  "read" \notin armed /\ Socket("read") \notin Range(events)
    BY DEF MessageIsNotOverwritten
  <2>1. "read" \notin armed /\ ~ Queued(Socket("read"))
    BY DEF IInv, Reading
  <2>2. QED
    BY <2>1 DEF Queued, In, Range
<1>2. QED
  BY <1>1, Inductive, PTL

(* Nobody gets the response to another call, though responses carry no name   *)
(* of their request (channel.cpp 350-399).                                    *)
THEOREM RightAnswers == Spec => []AnswerIsForTheCall
<1>1. IInv => AnswerIsForTheCall
  BY DEF IInv
<1>2. QED
  BY <1>1, Inductive, PTL

(* What is asked for after set_credentials() is not done by a process that    *)
(* has no credentials, unless they were withheld from it (client.cpp 73-82).  *)
THEOREM CredentialsAhead == Spec => []CredentialsFirst
<1>1. IInv => CredentialsFirst
  BY DEF IInv
<1>2. QED
  BY <1>1, Inductive, PTL
=============================================================================
