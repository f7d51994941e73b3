--------------------------- MODULE ChannelCareProofs ---------------------------
(***************************************************************************)
(* Theorems about Channel that hold in every use of one, on the control    *)
(* connection and on data connections: its state has its type, and nobody  *)
(* who could go on is forgotten.                                           *)
(*                                                                         *)
(* The invariant says at every moment, not only when the loop has nothing  *)
(* to do, who will call whom: an operator that has set its waiting flag is *)
(* called by an event on its way, by the socket, or by the one it waits    *)
(* for, and a loop that runs counts as an event for those who are told     *)
(* when it ends.  A channel one of whose pipes is done needs no more than  *)
(* that event.  What ChannelProofs says of a data connection is used once: *)
(* the next one begins with nothing left of the one before.                *)
(***************************************************************************)
EXTENDS ChannelProofs

-----------------------------------------------------------------------------
(* The types of a channel *)

Receivers == TalkTo \cup {<<"session", "open">>}

Event == [to : Receivers, err : Errors]

PipeState ==
  [adder : BOOLEAN, consumer : BOOLEAN, waitA : BOOLEAN, waitC : BOOLEAN,
   errA : Errors, errC : Errors, buf : Seq(Units)]

RunState == [at : {"idle", "add", "consume"}, pipe : Pipes, loop : 0..MaxLoops]

SaState ==
  [socket : BOOLEAN, waitR : BOOLEAN, waitW : BOOLEAN, throttled : BOOLEAN,
   shutting : BOOLEAN, shutErr : Errors]

NetState ==
  [avail : Seq(Units), eof : BOOLEAN, reset : BOOLEAN, room : Nat, sent : Nat,
   shut : {"no", "flushing", "down"}]

LocalState ==
  [sent : BOOLEAN, busy : BOOLEAN, postponed : BOOLEAN, quit : {"no", "quit", "timeout"},
   nested : {"none", "idle", "reading", "twice"}, entries : Int, left : Nat]

Fits(x) == Len(x.pipe["in"].buf) <= MaxReadable

Typed(x) ==
  /\ DOMAIN x = Fields /\ x.use \in Uses \cup {"over", "closed"}
  /\ x.queue \in Seq(Event) /\ x.run \in RunState
  /\ DOMAIN x.pipe = Pipes /\ \A p \in Pipes : x.pipe[p] \in PipeState
  /\ x.sa \in SaState /\ x.net \in NetState /\ x.local \in LocalState
  /\ Fits(x)

(* What a method leaves.                                                      *)
Types(x, y) == Typed(y) /\ y.use = x.use

(* Whom the events on their way are for.                                      *)
Due(x) == {x.queue[i].to : i \in DOMAIN x.queue}

(* What is not the queue.                                                     *)
Same(x, y) ==
  /\ y.use = x.use /\ y.run = x.run /\ y.pipe = x.pipe /\ y.sa = x.sa /\ y.net = x.net
  /\ y.local = x.local

(* An event is sent.                                                          *)
LEMMA PostTypes ==
  ASSUME NEW x, Typed(x), NEW to \in Receivers, NEW err \in Errors
  PROVE  LET y == Post(x, to, err)
         IN Types(x, y) /\ Same(x, y) /\ Due(y) = Due(x) \cup {to}
<1> DEFINE e == [to |-> to, err |-> err]
           q == Append(x.queue, e)
           y == [x EXCEPT !.queue = q]
<1>1. e \in Event /\ e.to = to
  BY DEF Event
<1> HIDE DEF e
<1>2. q \in Seq(Event) /\ Len(q) = Len(x.queue) + 1 /\ Len(x.queue) \in Nat
  BY <1>1 DEF Typed
<1>3. /\ DOMAIN q = 1..(Len(x.queue) + 1) /\ DOMAIN x.queue = 1..Len(x.queue)
      /\ \A i \in DOMAIN x.queue : q[i] = x.queue[i]
      /\ q[Len(x.queue) + 1] = e
  BY <1>1, <1>2 DEF Typed
<1>4. Post(x, to, err) = y
  BY DEF Post, e
<1> HIDE DEF q
<1>5. {q[i].to : i \in DOMAIN q} = Due(x) \cup {to}
  <2>1. \A i \in DOMAIN q : i \in DOMAIN x.queue \/ i = Len(x.queue) + 1
    BY <1>2, <1>3, SMT
  <2>2. DOMAIN x.queue \subseteq DOMAIN q /\ Len(x.queue) + 1 \in DOMAIN q
    BY <1>2, <1>3, SMT
  <2>3. QED
    BY <1>1, <1>3, <2>1, <2>2 DEF Due
<1>6. Types(x, y)
  BY <1>2 DEF Types, Typed, Fields, Fits
<1>7. Same(x, y) /\ y.queue = q
  BY DEF Same, Typed, Fields
<1> HIDE DEF y
<1>8. QED
  BY <1>4, <1>5, <1>6, <1>7 DEF Due

(* Who an event goes to.                                                      *)
LEMMA ReceiverFacts ==
  /\ \A p \in Pipes : {<<p, "adder">>, <<p, "consumer">>, <<p, "done">>} \subseteq Receivers
  /\ {<<"socket", "shutdown">>, <<"socket", "read">>, <<"socket", "write">>,
      <<"channel", "done">>, <<"commander", "result">>, <<"commander", "timer">>,
      <<"lister", "entries">>, <<"session", "open">>} \subseteq Receivers
  /\ "in" \in Pipes /\ "out" \in Pipes
  /\ {"ok", "again", "nodata", "nobufs", "shutdown", "timeout", "failed"} \subseteq Errors
BY ToFacts DEF Receivers, Pipes, Errors

(* An adder is told.                                                          *)
LEMMA NotifyAdderTypes ==
  ASSUME NEW x, Typed(x), NEW p \in Pipes, NEW err \in Errors
  PROVE  LET y == NotifyAdder(x, p, err)
         IN /\ Types(x, y) /\ Same(x, y) /\ Due(x) \subseteq Due(y)
            /\ x.pipe[p].adder => <<p, "adder">> \in Due(y)
<1>1. <<p, "adder">> \in Receivers
  BY ReceiverFacts
<1> DEFINE y == Post(x, <<p, "adder">>, err)
<1>2. Types(x, y) /\ Same(x, y) /\ Due(y) = Due(x) \cup {<<p, "adder">>}
  BY <1>1, PostTypes
<1> HIDE DEF y
<1>3. NotifyAdder(x, p, err) = IF x.pipe[p].adder THEN y ELSE x
  BY DEF NotifyAdder, y
<1>4. Types(x, x) /\ Same(x, x)
  BY DEF Types, Same
<1>5. QED
  BY <1>2, <1>3, <1>4

(* A consumer is told.                                                        *)
LEMMA NotifyConsumerTypes ==
  ASSUME NEW x, Typed(x), NEW p \in Pipes, NEW err \in Errors
  PROVE  LET y == NotifyConsumer(x, p, err)
         IN /\ Types(x, y) /\ Same(x, y) /\ Due(x) \subseteq Due(y)
            /\ x.pipe[p].consumer => <<p, "consumer">> \in Due(y)
<1>1. <<p, "consumer">> \in Receivers
  BY ReceiverFacts
<1> DEFINE y == Post(x, <<p, "consumer">>, err)
<1>2. Types(x, y) /\ Same(x, y) /\ Due(y) = Due(x) \cup {<<p, "consumer">>}
  BY <1>1, PostTypes
<1> HIDE DEF y
<1>3. NotifyConsumer(x, p, err) = IF x.pipe[p].consumer THEN y ELSE x
  BY DEF NotifyConsumer, y
<1>4. Types(x, x) /\ Same(x, x)
  BY DEF Types, Same
<1>5. QED
  BY <1>2, <1>3, <1>4

(* Events are taken back: those to tos, and no others.                        *)
LEMMA WithoutTypes ==
  ASSUME NEW x, Typed(x), NEW tos
  PROVE  LET y == Without(x, tos)
         IN Types(x, y) /\ Same(x, y) /\ Due(y) = Due(x) \ tos
<1> DEFINE q == x.queue
           n == Len(q)
           g == CHOOSE f : LeftOf(q, tos, n, f)
           y == [x EXCEPT !.queue = g[n]]
<1>1. n \in Nat /\ DOMAIN q = 1..n /\ \A i \in 1..n : q[i] \in Event
  BY DEF Typed
<1>2. LeftOf(q, tos, n, g)
  BY <1>1, LeftExists
<1>3. Without(x, tos) = y
  BY DEF Without, LeftOf
<1>q. Due(x) = {q[j].to : j \in 1..n}
  BY <1>1 DEF Due
<1> HIDE DEF q, n, g
<1>4. \A i \in 0..n : g[i] = IF i = 0 THEN <<>>
                              ELSE IF q[i].to \in tos THEN g[i - 1]
                              ELSE Append(g[i - 1], q[i])
  BY <1>2 DEF LeftOf
<1> DEFINE To(i) == {g[i][k].to : k \in DOMAIN g[i]}
           Of(i) == {q[j].to : j \in 1..i}
           P(i) == g[i] \in Seq(Event) /\ To(i) = Of(i) \ tos
           N == {i \in Nat : i <= n => P(i)}
<1>5. P(0)
  <2>1. g[0] = <<>>
    BY SMTT(30), <1>1, <1>4
  <2>2. <<>> \in Seq(Event) /\ DOMAIN <<>> = {} /\ 1..0 = {}
    OBVIOUS
  <2>3. To(0) = {} /\ Of(0) = {}
    BY <2>1, <2>2
  <2>4. QED
    BY <2>1, <2>2, <2>3
<1>6. ASSUME NEW i \in Nat, i + 1 <= n, P(i) PROVE P(i + 1)
  <2>1. /\ i + 1 \in 0..n /\ i + 1 \in 1..n /\ i + 1 # 0
        /\ (i + 1) - 1 = i
    BY <1>1, <1>6
  <2>2. g[i] \in Seq(Event) /\ To(i) = Of(i) \ tos
    BY <1>6
  <2>3. g[i + 1] = IF q[i + 1].to \in tos THEN g[i] ELSE Append(g[i], q[i + 1])
    BY <1>4, <2>1
  <2>4. Of(i + 1) = Of(i) \cup {q[i + 1].to}
    <3>1. 1..(i + 1) = (1..i) \cup {i + 1}
      BY <2>1
    <3>2. QED
      BY <3>1
  <2>5. CASE q[i + 1].to \in tos
    <3>1. To(i + 1) = To(i) /\ g[i + 1] = g[i]
      BY <2>3, <2>5
    <3> HIDE DEF To, Of
    <3>2. QED
      BY <2>2, <2>4, <2>5, <3>1
  <2>6. CASE q[i + 1].to \notin tos
    <3> DEFINE e == q[i + 1]
               m == Len(g[i])
    <3>1. e \in Event
      BY <1>1, <2>1
    <3>2. g[i + 1] = Append(g[i], e)
      BY <2>3, <2>6
    <3>3. /\ g[i + 1] \in Seq(Event)
          /\ DOMAIN g[i + 1] = 1..(m + 1) /\ DOMAIN g[i] = 1..m /\ m \in Nat
          /\ \A k \in DOMAIN g[i] : g[i + 1][k] = g[i][k]
          /\ g[i + 1][m + 1] = e
      BY <2>2, <3>1, <3>2
    <3> HIDE DEF m
    <3>4. DOMAIN g[i + 1] = DOMAIN g[i] \cup {m + 1}
      BY <3>3, SMT
    <3>5. To(i + 1) = To(i) \cup {e.to}
      BY <3>3, <3>4
    <3> HIDE DEF To, Of
    <3>6. QED
      BY <2>2, <2>4, <2>6, <3>3, <3>5
  <2>7. QED
    BY <2>5, <2>6
<1>7. P(n)
  <2> HIDE DEF P
  <2>1. N \in SUBSET Nat
    OBVIOUS
  <2>2. 0 \in N
    BY <1>5
  <2>3. ASSUME NEW i \in N PROVE i + 1 \in N
    <3> SUFFICES ASSUME i + 1 <= n PROVE P(i + 1)
      OBVIOUS
    <3>1. i \in Nat /\ i <= n
      BY <1>1
    <3>2. P(i)
      BY <3>1
    <3>3. QED
      BY <1>6, <3>1, <3>2
  <2>4. N = Nat
    BY <2>1, <2>2, <2>3, AllNumbers
  <2>5. QED
    BY <1>1, <2>4
<1>8. g[n] \in Seq(Event) /\ To(n) = Of(n) \ tos
  BY <1>7
<1>9. Types(x, y)
  BY <1>8 DEF Types, Typed, Fields, Fits
<1>10. Same(x, y) /\ y.queue = g[n]
  BY DEF Same, Typed, Fields
<1> HIDE DEF y
<1>11. QED
  BY <1>3, <1>q, <1>8, <1>9, <1>10 DEF Due

-----------------------------------------------------------------------------
(* What every method keeps: types; a channel on its way out; the socket never *)
(* says that there is nothing to be written; and an adder of the output that  *)
(* is not there does not wait (a data connection whose flag were left would   *)
(* have its next adder forgotten).                                            *)

Dones == {<<p, "done">> : p \in Pipes}

Sound(x) ==
  /\ x.pipe["out"].errC # "nodata"
  /\ x.use # "control" /\ ~x.pipe["out"].adder => ~x.pipe["out"].waitA

Goes(x, y) ==
  /\ Types(x, y)
  /\ y.sa.socket => x.sa.socket
  /\ Due(x) \cap Dones \subseteq Due(y)
  /\ Sound(x) => Sound(y)

(* One after the other.                                                       *)
LEMMA GoesFurther ==
  ASSUME NEW x, NEW y, NEW z, Goes(x, y), Goes(y, z) PROVE Goes(x, z)
BY DEF Goes, Types

(* Nothing but what is not the queue.                                         *)
LEMMA SameGoes ==
  ASSUME NEW x, NEW y, Types(x, y), Same(x, y), Due(x) \cap Dones \subseteq Due(y)
  PROVE  Goes(x, y)
BY DEF Goes, Same, Sound

(* set_adder()                                                                *)
LEMMA SetAdderTypes ==
  ASSUME NEW x, Typed(x), NEW p \in Pipes, NEW on \in BOOLEAN
  PROVE  LET y == set_adder(x, p, on)
         IN /\ Goes(x, y)
            /\ y.run = x.run /\ y.sa = x.sa /\ y.net = x.net /\ y.local = x.local
            /\ Due(x) \ {<<p, "adder">>} \subseteq Due(y)
            /\ \A q \in Pipes : q # p => y.pipe[q] = x.pipe[q]
            /\ y.pipe[p].adder = on /\ y.pipe[p].consumer = x.pipe[p].consumer
            /\ y.pipe[p].waitC = x.pipe[p].waitC /\ y.pipe[p].buf = x.pipe[p].buf
            /\ ~x.pipe[p].waitA => ~y.pipe[p].waitA
<1>1. CASE x.pipe[p].adder = on
  <2>1. set_adder(x, p, on) = x
    BY <1>1 DEF set_adder
  <2>2. QED
    BY <1>1, <2>1 DEF Goes, Types
<1>2. CASE x.pipe[p].adder # on
  <2> DEFINE y == IF on THEN x ELSE Without(x, {<<p, "adder">>})
             w == on /\ y.pipe[p].waitA
             z == [y EXCEPT !.pipe[p].adder = on, !.pipe[p].errA = "ok", !.pipe[p].waitA = w]
  <2>1. /\ Types(x, y) /\ Same(x, y) /\ Due(x) \ {<<p, "adder">>} \subseteq Due(y)
    BY WithoutTypes DEF Types, Same
  <2>2. set_adder(x, p, on) = z
    BY <1>2 DEF set_adder
  <2>3. w \in BOOLEAN /\ (w => on /\ x.pipe[p].waitA)
    BY <2>1 DEF Same
  <2> HIDE DEF y, w
  <2>4. /\ z.queue = y.queue /\ z.use = y.use /\ z.run = y.run /\ z.sa = y.sa
        /\ z.net = y.net /\ z.local = y.local /\ DOMAIN z = Fields /\ DOMAIN z.pipe = Pipes
        /\ \A q \in Pipes : q # p => z.pipe[q] = y.pipe[q]
    BY <2>1 DEF Types, Typed, Fields
  <2>5. z.pipe[p] = [y.pipe[p] EXCEPT !.adder = on, !.errA = "ok", !.waitA = w]
    BY <2>1 DEF Types, Typed, Fields
  <2>6. y.pipe[p] \in PipeState
    BY <2>1 DEF Types, Typed
  <2> HIDE DEF z
  <2>7. /\ z.pipe[p] \in PipeState /\ z.pipe[p].adder = on /\ z.pipe[p].waitA = w
        /\ z.pipe[p].consumer = y.pipe[p].consumer /\ z.pipe[p].waitC = y.pipe[p].waitC
        /\ z.pipe[p].buf = y.pipe[p].buf /\ z.pipe[p].errC = y.pipe[p].errC
    BY <2>3, <2>5, <2>6 DEF PipeState, Errors
  <2>8. Types(x, z)
    BY <2>1, <2>4, <2>7 DEF Types, Typed, Fits, Pipes
  <2>9. Due(z) = Due(y)
    BY <2>4 DEF Due
  <2>10. <<p, "adder">> \notin Dones
    BY DEF Dones
  <2>11. Sound(x) => Sound(z)
    BY <2>1, <2>3, <2>4, <2>7 DEF Sound, Same, Pipes
  <2>12. QED
    BY <2>1, <2>2, <2>3, <2>4, <2>7, <2>8, <2>9, <2>10, <2>11 DEF Goes, Same
<1>3. QED
  BY <1>1, <1>2

(* set_consumer()                                                             *)
LEMMA SetConsumerTypes ==
  ASSUME NEW x, Typed(x), NEW p \in Pipes, NEW on \in BOOLEAN
  PROVE  LET y == set_consumer(x, p, on)
         IN /\ Goes(x, y)
            /\ y.run = x.run /\ y.sa = x.sa /\ y.net = x.net /\ y.local = x.local
            /\ Due(x) \ {<<p, "consumer">>} \subseteq Due(y)
            /\ \A q \in Pipes : q # p => y.pipe[q] = x.pipe[q]
            /\ y.pipe[p].consumer = on /\ y.pipe[p].adder = x.pipe[p].adder
            /\ y.pipe[p].waitA = x.pipe[p].waitA /\ y.pipe[p].buf = x.pipe[p].buf
            /\ on /\ ~x.pipe[p].consumer => <<p, "consumer">> \in Due(y)
<1>1. CASE x.pipe[p].consumer = on
  <2>1. set_consumer(x, p, on) = x
    BY <1>1 DEF set_consumer
  <2>2. QED
    BY <1>1, <2>1 DEF Goes, Types
<1>2. CASE x.pipe[p].consumer # on
  <2> DEFINE y == IF on THEN x ELSE Without(x, {<<p, "consumer">>})
             z == [y EXCEPT !.pipe[p].consumer = on, !.pipe[p].errC = "ok",
                            !.pipe[p].waitC = on]
             v == NotifyConsumer(z, p, "ok")
  <2>1. /\ Types(x, y) /\ Same(x, y) /\ Due(x) \ {<<p, "consumer">>} \subseteq Due(y)
    BY WithoutTypes DEF Types, Same
  <2>2. set_consumer(x, p, on) = v
    BY <1>2 DEF set_consumer
  <2> HIDE DEF y
  <2>3. /\ z.queue = y.queue /\ z.use = y.use /\ z.run = y.run /\ z.sa = y.sa
        /\ z.net = y.net /\ z.local = y.local /\ DOMAIN z = Fields /\ DOMAIN z.pipe = Pipes
        /\ \A q \in Pipes : q # p => z.pipe[q] = y.pipe[q]
    BY <2>1 DEF Types, Typed, Fields
  <2>4. z.pipe[p] = [y.pipe[p] EXCEPT !.consumer = on, !.errC = "ok", !.waitC = on]
    BY <2>1 DEF Types, Typed, Fields
  <2>5. y.pipe[p] \in PipeState
    BY <2>1 DEF Types, Typed
  <2> HIDE DEF z
  <2>6. /\ z.pipe[p] \in PipeState /\ z.pipe[p].consumer = on /\ z.pipe[p].errC = "ok"
        /\ z.pipe[p].adder = y.pipe[p].adder /\ z.pipe[p].waitA = y.pipe[p].waitA
        /\ z.pipe[p].buf = y.pipe[p].buf
    BY <2>4, <2>5 DEF PipeState, Errors
  <2>7. Types(x, z)
    BY <2>1, <2>3, <2>6 DEF Types, Typed, Fits, Pipes
  <2>8. Due(z) = Due(y)
    BY <2>3 DEF Due
  <2>9. /\ Types(z, v) /\ Same(z, v) /\ Due(z) \subseteq Due(v)
        /\ on => <<p, "consumer">> \in Due(v)
    BY <2>6, <2>7, NotifyConsumerTypes, ReceiverFacts DEF Types
  <2> HIDE DEF v
  <2>10. <<p, "consumer">> \notin Dones
    BY DEF Dones
  <2>11. Sound(x) => Sound(v)
    BY <2>1, <2>3, <2>6, <2>9 DEF Sound, Same, Pipes
  <2>12. QED
    BY <2>1, <2>2, <2>3, <2>6, <2>7, <2>8, <2>9, <2>10, <2>11 DEF Goes, Same, Types
<1>3. QED
  BY <1>1, <1>2

(* clear()                                                                    *)
LEMMA ClearTypes ==
  ASSUME NEW x, Typed(x), NEW p \in Pipes
  PROVE  LET y == clear(x, p)
         IN /\ Goes(x, y) /\ y.run = x.run /\ y.sa = x.sa
            /\ ~y.pipe[p].adder /\ ~y.pipe[p].consumer /\ y.pipe[p].buf = <<>>
            /\ \A q \in Pipes : q # p => y.pipe[q] = x.pipe[q]
<1> DEFINE y == set_consumer(x, p, FALSE)
           z == set_adder(y, p, FALSE)
           n == z.lost + (IF p = "out" THEN Len(x.pipe[p].buf) ELSE 0)
           v == [z EXCEPT !.pipe[p].buf = <<>>, !.lost = n]
<1>1. /\ Goes(x, y) /\ y.run = x.run /\ y.sa = x.sa /\ y.pipe[p].consumer = FALSE
      /\ \A q \in Pipes : q # p => y.pipe[q] = x.pipe[q]
  <2>1. PICK off \in BOOLEAN : off = FALSE
    OBVIOUS
  <2> DEFINE c == set_consumer(x, p, off)
  <2>2. /\ Goes(x, c)
        /\ c.run = x.run /\ c.sa = x.sa /\ c.net = x.net /\ c.local = x.local
        /\ Due(x) \ {<<p, "consumer">>} \subseteq Due(c)
        /\ \A q \in Pipes : q # p => c.pipe[q] = x.pipe[q]
        /\ c.pipe[p].consumer = off /\ c.pipe[p].adder = x.pipe[p].adder
        /\ c.pipe[p].waitA = x.pipe[p].waitA /\ c.pipe[p].buf = x.pipe[p].buf
        /\ off /\ ~x.pipe[p].consumer => <<p, "consumer">> \in Due(c)
    BY SetConsumerTypes
  <2>3. y = c
    BY <2>1
  <2> HIDE DEF c, y
  <2>4. QED
    BY <2>1, <2>2, <2>3
<1>2. clear(x, p) = v
  BY DEF clear
<1> HIDE DEF y, n
<1>3. /\ Goes(y, z) /\ z.run = y.run /\ z.sa = y.sa /\ ~z.pipe[p].adder
      /\ z.pipe[p].consumer = y.pipe[p].consumer
      /\ \A q \in Pipes : q # p => z.pipe[q] = y.pipe[q]
  BY <1>1, SetAdderTypes, ZenonT(60) DEF Goes, Types
<1> HIDE DEF z
<1>4. Goes(x, z)
  BY <1>1, <1>3, GoesFurther
<1>5. Typed(z)
  BY <1>3 DEF Goes, Types
<1>6. /\ v.queue = z.queue /\ v.use = z.use /\ v.run = z.run /\ v.sa = z.sa
      /\ v.net = z.net /\ v.local = z.local /\ DOMAIN v = Fields /\ DOMAIN v.pipe = Pipes
      /\ \A q \in Pipes : q # p => v.pipe[q] = z.pipe[q]
      /\ v.pipe[p] = [z.pipe[p] EXCEPT !.buf = <<>>]
  BY <1>5 DEF Typed, Fields
<1> HIDE DEF v
<1>7. /\ v.pipe[p] \in PipeState /\ v.pipe[p].buf = <<>>
      /\ v.pipe[p].adder = z.pipe[p].adder /\ v.pipe[p].consumer = z.pipe[p].consumer
      /\ v.pipe[p].waitA = z.pipe[p].waitA /\ v.pipe[p].errC = z.pipe[p].errC
  <2>1. z.pipe[p] \in PipeState /\ <<>> \in Seq(Units)
    BY <1>5 DEF Typed
  <2>2. QED
    BY <1>6, <2>1 DEF PipeState
<1>8. Types(z, v)
  <2>1. Fits(v)
    <3>1. v.pipe["in"] = z.pipe["in"] \/ v.pipe["in"].buf = <<>>
      BY <1>6, <1>7 DEF Pipes
    <3>2. Len(<<>>) = 0 /\ 0 <= MaxReadable
      BY ChannelAssumption
    <3>3. QED
      BY <1>5, <3>1, <3>2 DEF Typed, Fits
  <2>2. QED
    BY <1>5, <1>6, <1>7, <2>1 DEF Types, Typed
<1>9. Sound(z) => Sound(v)
  BY <1>6, <1>7 DEF Sound, Pipes
<1>10. Goes(z, v)
  BY <1>6, <1>8, <1>9 DEF Goes, Due
<1>11. Goes(x, v)
  BY <1>4, <1>10, GoesFurther
<1>12. QED
  BY <1>1, <1>2, <1>3, <1>6, <1>7, <1>11

(* done(): from now on the channel is on its way out.                         *)
LEMMA DoneTypes ==
  ASSUME NEW x, Typed(x), NEW p \in Pipes, NEW err \in Errors
  PROVE  LET y == done(x, p, err) IN Goes(x, y) /\ <<p, "done">> \in Due(y)
<1> DEFINE y == clear(x, p)
           z == [y EXCEPT !.run.at = "idle"]
           e == IF err = "shutdown" THEN "ok" ELSE err
           v == Post(z, <<p, "done">>, e)
<1>1. Goes(x, y)
  BY ClearTypes
<1>2. done(x, p, err) = v
  BY DEF done
<1>3. e \in Errors /\ <<p, "done">> \in Receivers
  BY ReceiverFacts
<1> HIDE DEF y, e
<1>4. Typed(y)
  BY <1>1 DEF Goes, Types
<1>5. Types(y, z)
  BY <1>4 DEF Types, Typed, Fields, RunState, Fits
<1>6. Goes(y, z)
  BY <1>4, <1>5 DEF Goes, Due, Sound, Typed, Fields
<1> HIDE DEF z
<1>7. Types(z, v) /\ Same(z, v) /\ Due(v) = Due(z) \cup {<<p, "done">>}
  BY <1>3, <1>5, PostTypes DEF Types
<1> HIDE DEF v
<1>8. Goes(z, v)
  BY <1>7, SameGoes
<1>9. QED
  BY <1>1, <1>2, <1>6, <1>7, <1>8, GoesFurther

(* close_socket()                                                             *)
LEMMA CloseTypes ==
  ASSUME NEW x, Typed(x)
  PROVE  LET y == close_socket(x) IN Goes(x, y) /\ ~y.sa.socket /\ y.pipe = x.pipe /\ y.run = x.run
<1> DEFINE y == Without(x, {<<"socket", "read">>, <<"socket", "write">>})
           z == [y EXCEPT !.sa.socket = FALSE]
<1>1. /\ Types(x, y) /\ Same(x, y)
      /\ Due(y) = Due(x) \ {<<"socket", "read">>, <<"socket", "write">>}
  BY WithoutTypes
<1>2. close_socket(x) = IF x.sa.socket THEN z ELSE x
  BY DEF close_socket
<1> HIDE DEF y
<1>3. /\ Types(x, z) /\ ~z.sa.socket /\ z.pipe = y.pipe /\ z.run = y.run /\ z.use = y.use
      /\ z.queue = y.queue
  BY <1>1 DEF Types, Typed, Fields, SaState, Fits
<1> HIDE DEF z
<1>4. Due(x) \cap Dones \subseteq Due(z)
  <2>1. Due(z) = Due(y)
    BY <1>3 DEF Due
  <2>2. {<<"socket", "read">>, <<"socket", "write">>} \cap Dones = {}
    BY DEF Dones, Pipes
  <2>3. QED
    BY <1>1, <2>1, <2>2
<1>5. Goes(x, z)
  BY <1>1, <1>3, <1>4 DEF Goes, Sound, Same
<1>6. Goes(x, x)
  BY DEF Goes, Types
<1>7. QED
  BY <1>1, <1>2, <1>3, <1>5, <1>6 DEF Same

(* The operators are taken off and the socket is closed.                      *)
LEMMA DisconnectedTypes ==
  ASSUME NEW x, Typed(x) PROVE Goes(x, Disconnected(x)) /\ ~Disconnected(x).sa.socket
<1> DEFINE a == set_adder(x, "in", FALSE)
           b == set_consumer(a, "in", FALSE)
           c == set_adder(b, "out", FALSE)
           d == set_consumer(c, "out", FALSE)
<1>1. "in" \in Pipes /\ "out" \in Pipes
  BY DEF Pipes
<1>2. Disconnected(x) = close_socket(d)
  BY DEF Disconnected
<1>3. Goes(x, a)
  BY <1>1, SetAdderTypes
<1>4. Typed(a)
  BY <1>3 DEF Goes, Types
<1> HIDE DEF a
<1>5. Goes(x, b)
  BY <1>1, <1>3, <1>4, SetConsumerTypes, GoesFurther
<1>6. Typed(b)
  BY <1>5 DEF Goes, Types
<1> HIDE DEF b
<1>7. Goes(x, c)
  BY <1>1, <1>5, <1>6, SetAdderTypes, GoesFurther
<1>8. Typed(c)
  BY <1>7 DEF Goes, Types
<1> HIDE DEF c
<1>9. Goes(x, d)
  BY <1>1, <1>7, <1>8, SetConsumerTypes, GoesFurther
<1>10. Typed(d)
  BY <1>9 DEF Goes, Types
<1> HIDE DEF d
<1>11. QED
  BY <1>2, <1>9, <1>10, CloseTypes, GoesFurther

-----------------------------------------------------------------------------
(* Nobody is forgotten *)

(* A loop that runs, and an adder's loop that has not called it yet, are as   *)
(* good as an event that is on its way.                                       *)
Loops == {<<p, "loop">> : p \in Pipes}

Running(x) ==
  IF x.run.at = "idle" THEN {}
  ELSE {<<x.run.pipe, "loop">>} \cup
       (IF x.run.at = "add" /\ x.run.loop = 0 THEN {<<x.run.pipe, "first">>} ELSE {})

(* The output is written: its consumer waits for the socket or will be        *)
(* called, or somebody is who will call it. A reply, and a lister that is to  *)
(* be asked, have their adder called; and nobody who says goodbye waits for a *)
(* socket that says no more than that it has been flushed.                    *)
Written(x, D) ==
  LET out == x.pipe["out"]
  IN /\ out.consumer
     /\ out.waitC => x.sa.waitW \/ <<"out", "consumer">> \in D
     /\ out.buf # <<>> =>
          x.sa.waitW \/ {<<"out", "consumer">>, <<"out", "adder">>, <<"out", "loop">>} \cap D # {}
     /\ x.use = "control" =>
          /\ out.adder
          /\ x.sa.waitW => out.buf # <<>> /\ x.net.shut = "no"
          /\ x.local.sent \/ x.local.nested = "idle" =>
               {<<"out", "adder">>, <<"out", "first">>} \cap D # {}

(* What the client sends is read as long as it is listened to, and it is      *)
(* heard: by the file at once, and line by line by the commander, one of      *)
(* which may be postponed.                                                    *)
Listens(x) == x.use = "upload" \/ (x.use = "control" /\ x.local.quit = "no")

Unheard(x) == IF x.use = "upload" THEN x.pipe["in"].buf # <<>> ELSE Eol(x) # 0

Heard(x, D) ==
  LET in == x.pipe["in"]
  IN Listens(x) =>
     /\ in.adder /\ in.consumer /\ ~x.sa.shutting
     /\ in.waitA => x.sa.waitR \/ x.sa.throttled \/ <<"in", "adder">> \in D
     /\ in.waitC => x.local.postponed \/ <<"in", "consumer">> \in D
     /\ Unheard(x) => x.local.postponed \/ {<<"in", "consumer">>, <<"in", "loop">>} \cap D # {}
     /\ \/ x.sa.waitR \/ x.sa.throttled \/ x.local.postponed
        \/ {<<"in", "adder">>, <<"in", "consumer">>, <<"in", "loop">>} \cap D # {}
     /\ x.local.postponed => x.use = "control" /\ x.local.busy /\ Eol(x) # 0
     /\ x.sa.throttled => x.use = "control" /\ x.pipe["out"].buf # <<>>

(* The file is read while nothing of it waits to be written.                  *)
Fed(x, D) ==
  LET out == x.pipe["out"]
  IN x.use = "download" =>
     /\ out.adder
     /\ out.waitA => <<"out", "adder">> \in D
     /\ \/ out.buf # <<>>
        \/ {<<"out", "adder">>, <<"out", "consumer">>, <<"out", "loop">>} \cap D # {}

Cared(x, D) == Written(x, D) /\ Heard(x, D) /\ Fed(x, D)

(* A loop that has gone round has brought something.                          *)
Looped(x) ==
  x.run.at # "idle" /\ x.run.loop > 0 =>
    /\ x.run.at = "add" /\ x.run.pipe = "in" /\ Listens(x) => x.pipe["in"].buf # <<>>
    /\ x.run.at = "add" /\ x.run.pipe = "out" /\ x.use = "download" => x.pipe["out"].buf # <<>>
    /\ x.run.at = "consume" /\ x.run.pipe = "in" /\ Listens(x) => x.pipe["in"].errC # "nodata"

Tended(x) == Cared(x, Due(x) \cup Running(x)) /\ Looped(x)

(* A channel without a socket, or one of whose pipes is done, is on its way   *)
(* out: it is taken down by what is in the queue already.                     *)
Going(x) == ~x.sa.socket \/ Dones \cap Due(x) # {}

Tending == Typed(s) /\ Sound(s) /\ (Going(s) \/ Tended(s))

(* What methods keep of it while a loop runs or none.                         *)
Minds(x, y) ==
  /\ Goes(x, y) /\ y.run = x.run
  /\ \A R \in SUBSET Loops : Cared(x, Due(x) \cup R) => Cared(y, Due(y) \cup R)

(* One after the other.                                                       *)
LEMMA MindsOn ==
  ASSUME NEW x, NEW y, NEW z, Minds(x, y), Minds(y, z) PROVE Minds(x, z)
BY GoesFurther DEF Minds

(* The more is on its way the better.                                         *)
LEMMA MoreCares ==
  ASSUME NEW x, NEW y, Same(x, y), NEW D, NEW E, D \subseteq E, Cared(x, D)
  PROVE  Cared(y, E)
<1>1. Written(y, E)
  BY DEF Cared, Written, Same
<1>2. Listens(y) = Listens(x) /\ Unheard(y) = Unheard(x) /\ Eol(y) = Eol(x)
  BY DEF Same, Listens, Unheard, Eol
<1>3. Heard(y, E)
  BY <1>2 DEF Cared, Heard, Same
<1>4. Fed(y, E)
  BY DEF Cared, Fed, Same
<1>5. QED
  BY <1>1, <1>3, <1>4 DEF Cared

(* So events that are sent do no harm.                                        *)
LEMMA SameMinds ==
  ASSUME NEW x, NEW y, Types(x, y), Same(x, y), Due(x) \subseteq Due(y)
  PROVE  Minds(x, y)
<1>1. Goes(x, y) /\ y.run = x.run
  BY SameGoes DEF Same
<1>2. ASSUME NEW R \in SUBSET Loops, Cared(x, Due(x) \cup R)
      PROVE  Cared(y, Due(y) \cup R)
  <2>1. Due(x) \cup R \subseteq Due(y) \cup R
    OBVIOUS
  <2>2. QED
    BY <1>2, <2>1, MoreCares
<1>3. QED
  BY <1>1, <1>2 DEF Minds

(* Nor do those that operators are sent.                                      *)
LEMMA NotifyMinds ==
  ASSUME NEW x, Typed(x), NEW p \in Pipes, NEW err \in Errors
  PROVE  Minds(x, NotifyAdder(x, p, err)) /\ Minds(x, NotifyConsumer(x, p, err))
BY NotifyAdderTypes, NotifyConsumerTypes, SameMinds

(* on_shutdown_event()                                                        *)
LEMMA OnShutdownMinds ==
  ASSUME NEW x, Typed(x), x.sa.socket, NEW flushed
  PROVE  LET y == on_shutdown_event(x, flushed)
         IN /\ Minds(x, y) /\ y.pipe = x.pipe /\ y.local = x.local
            /\ y.sa.waitW = x.sa.waitW /\ Due(x) \subseteq Due(y)
<1> DEFINE y == NotifyConsumer(x, "out", x.sa.shutErr)
           z == [y EXCEPT !.sa.shutting = FALSE, !.sa.shutErr = "ok", !.net.shut = "down"]
           w == [x EXCEPT !.net.shut = "flushing"]
<1>1. /\ Types(x, y) /\ Same(x, y) /\ Due(x) \subseteq Due(y)
  <2>1. x.sa.shutErr \in Errors /\ "out" \in Pipes
    BY DEF Typed, SaState, Pipes
  <2>2. QED
    BY <2>1, NotifyConsumerTypes
<1>2. on_shutdown_event(x, flushed) =
        IF x.pipe["out"].buf # <<>> THEN x ELSE IF ~flushed THEN w ELSE z
  BY DEF on_shutdown_event
<1> HIDE DEF y
<1>3. Minds(x, x)
  BY DEF Minds, Goes, Types
<1>4. ASSUME NEW v, NEW u, v \in {w, z}, u \in {x, y},
             Types(u, v), v.run = u.run, v.pipe = u.pipe, v.local = u.local, v.use = u.use,
             v.sa.waitW = u.sa.waitW, v.sa.waitR = u.sa.waitR, v.sa.socket = u.sa.socket,
             v.sa.throttled = u.sa.throttled, v.sa.shutting => u.sa.shutting,
             v.queue = u.queue, x.pipe["out"].buf = <<>>
      PROVE  Minds(x, v) /\ v.pipe = x.pipe /\ v.local = x.local /\ v.sa.waitW = x.sa.waitW
             /\ Due(x) \subseteq Due(v)
  <2>1. Same(x, u) /\ Types(x, u) /\ Due(x) \subseteq Due(u)
    BY <1>1, <1>4 DEF Same, Types
  <2> HIDE DEF w, z
  <2>2. Due(v) = Due(u)
    BY <1>4 DEF Due
  <2>3. Goes(x, v) /\ v.run = x.run
    BY <1>4, <2>1, <2>2 DEF Goes, Types, Same, Sound
  <2>4. ASSUME NEW R \in SUBSET Loops, Cared(x, Due(x) \cup R)
        PROVE  Cared(v, Due(v) \cup R)
    <3> DEFINE D == Due(x) \cup R
               E == Due(v) \cup R
    <3>1. D \subseteq E
      BY <2>1, <2>2
    <3> HIDE DEF D, E
    <3>2. Written(v, E)
      BY <1>4, <2>1, <2>4, <3>1 DEF Cared, Written, Same, D
    <3>3. Listens(v) = Listens(x) /\ Unheard(v) = Unheard(x) /\ Eol(v) = Eol(x)
      BY <1>4, <2>1 DEF Same, Listens, Unheard, Eol
    <3>4. Heard(v, E)
      BY <1>4, <2>1, <2>4, <3>1, <3>3 DEF Cared, Heard, Same, D
    <3>5. Fed(v, E)
      BY <1>4, <2>1, <2>4, <3>1 DEF Cared, Fed, Same, D
    <3>6. QED
      BY <3>2, <3>4, <3>5 DEF Cared, E
  <2>5. QED
    BY <1>4, <2>1, <2>2, <2>3, <2>4 DEF Minds, Same
<1>5. CASE x.pipe["out"].buf = <<>> /\ ~flushed
  <2>1. Types(x, w)
    BY DEF Types, Typed, Fields, NetState, Fits
  <2>2. QED
    BY <1>2, <1>4, <1>5, <2>1 DEF Typed, Fields
<1>6. CASE x.pipe["out"].buf = <<>> /\ flushed
  <2>1. Types(y, z) /\ Typed(y)
    BY <1>1 DEF Types, Typed, Fields, NetState, SaState, Fits, Errors
  <2>2. /\ z.run = y.run /\ z.pipe = y.pipe /\ z.local = y.local /\ z.use = y.use
        /\ z.sa.waitW = y.sa.waitW /\ z.sa.waitR = y.sa.waitR /\ z.sa.socket = y.sa.socket
        /\ z.sa.throttled = y.sa.throttled /\ z.sa.shutting = FALSE
        /\ z.queue = y.queue
    BY <2>1 DEF Typed, Fields, SaState
  <2>3. z.sa.shutting => y.sa.shutting
    BY <2>2
  <2>4. on_shutdown_event(x, flushed) = z
    BY <1>2, <1>6
  <2> HIDE DEF z, w
  <2>5. z \in {w, z} /\ y \in {x, y}
    OBVIOUS
  <2>6. Minds(x, z) /\ z.pipe = x.pipe /\ z.local = x.local /\ z.sa.waitW = x.sa.waitW
        /\ Due(x) \subseteq Due(z)
    BY <1>4, <1>6, <2>1, <2>2, <2>3, <2>5, SMTT(30)
  <2>7. QED
    BY <2>4, <2>6
<1>7. CASE x.pipe["out"].buf # <<>>
  BY <1>2, <1>3, <1>7
<1>8. QED
  BY <1>5, <1>6, <1>7

-----------------------------------------------------------------------------
(* The commander's methods *)

(* Nobody has yet been called first who is to be called.                      *)
LEMMA DueFacts ==
  ASSUME NEW x, Typed(x), NEW R \in SUBSET Loops
  PROVE  <<"out", "first">> \notin Due(x) \cup R
<1>1. \A i \in DOMAIN x.queue : x.queue[i].to \in Receivers
  <2>1. \A i \in DOMAIN x.queue : x.queue[i] \in Event
    BY DEF Typed
  <2>2. QED
    BY <2>1 DEF Event
<1>2. <<"out", "first">> \notin Receivers
  BY DEF Receivers, TalkTo, Operators, Pipes
<1>3. <<"out", "first">> \notin Loops
  BY DEF Loops, Pipes
<1>4. QED
  BY <1>1, <1>2, <1>3 DEF Due

(* The end of the reply that is in the output: its adder has been told.       *)
Answers(x, y) ==
  /\ y.run = x.run /\ y.sa = x.sa /\ y.net = x.net /\ y.pipe["in"] = x.pipe["in"]
  /\ y.local = [x.local EXCEPT !.sent = y.local.sent] /\ Due(x) \subseteq Due(y)
  /\ y.pipe["out"].consumer = x.pipe["out"].consumer
  /\ y.pipe["out"].waitC = x.pipe["out"].waitC
  /\ y.pipe["out"].adder = x.pipe["out"].adder /\ y.pipe["out"].buf # <<>>
  /\ y.local.sent \/ x.pipe["out"].adder =>
       <<"out", "adder">> \in Due(y) \/ (x.local.sent /\ y.local.sent)

(* respond()                                                                  *)
LEMMA RespondAnswers ==
  ASSUME NEW x, Typed(x)
  PROVE  LET y == respond(x) IN Goes(x, y) /\ Answers(x, y)
<1> DEFINE b == Append(x.pipe["out"].buf, "c")
           y == [x EXCEPT !.pipe["out"].buf = b]
           z == NotifyAdder(y, "out", "ok")
           a == y.pipe["out"].adder
           v == [z EXCEPT !.local.sent = a]
<1>1. respond(x) = IF y.local.sent THEN y ELSE v
  BY DEF respond
<1>2. x.pipe["out"] \in PipeState /\ "c" \in Units
  BY DEF Typed, Pipes, Units
<1>3. b \in Seq(Units) /\ b # <<>>
  BY <1>2 DEF PipeState
<1> HIDE DEF b
<1>4. /\ y.queue = x.queue /\ y.use = x.use /\ y.run = x.run /\ y.sa = x.sa
      /\ y.net = x.net /\ y.local = x.local /\ DOMAIN y = Fields /\ DOMAIN y.pipe = Pipes
      /\ y.pipe["in"] = x.pipe["in"] /\ y.pipe["out"] = [x.pipe["out"] EXCEPT !.buf = b]
  BY DEF Typed, Fields, Pipes
<1> HIDE DEF y
<1>5. /\ y.pipe["out"] \in PipeState /\ y.pipe["out"].buf = b
      /\ y.pipe["out"].adder = x.pipe["out"].adder
      /\ y.pipe["out"].consumer = x.pipe["out"].consumer
      /\ y.pipe["out"].waitC = x.pipe["out"].waitC
      /\ y.pipe["out"].waitA = x.pipe["out"].waitA
      /\ y.pipe["out"].errC = x.pipe["out"].errC
  BY <1>2, <1>3, <1>4 DEF PipeState
<1>6. Types(x, y)
  BY <1>4, <1>5 DEF Types, Typed, Pipes, Fits
<1>7. Due(y) = Due(x)
  BY <1>4 DEF Due
<1>8. Goes(x, y)
  BY <1>4, <1>5, <1>6, <1>7 DEF Goes, Sound
<1>9. x.local = [x.local EXCEPT !.sent = x.local.sent]
  BY DEF Typed, LocalState
<1>10. CASE y.local.sent
  BY <1>1, <1>3, <1>4, <1>5, <1>7, <1>8, <1>9, <1>10, ZenonT(60) DEF Answers
<1>11. CASE ~y.local.sent
  <2>1. /\ Types(y, z) /\ Same(y, z) /\ Due(y) \subseteq Due(z)
        /\ a => <<"out", "adder">> \in Due(z)
    BY <1>6, NotifyAdderTypes, ReceiverFacts DEF Types
  <2>2. a \in BOOLEAN
    BY <1>5 DEF PipeState
  <2> HIDE DEF z, a
  <2>3. /\ v.queue = z.queue /\ v.use = z.use /\ v.run = z.run /\ v.sa = z.sa
        /\ v.net = z.net /\ v.pipe = z.pipe /\ DOMAIN v = Fields
        /\ v.local = [z.local EXCEPT !.sent = a]
    BY <2>1 DEF Types, Typed, Fields
  <2> HIDE DEF v
  <2>4. v.local \in LocalState /\ v.local.sent = a
    BY <2>1, <2>2, <2>3 DEF Types, Typed, LocalState
  <2>5. Types(x, v)
    BY <1>6, <2>1, <2>3, <2>4 DEF Types, Typed, Fits
  <2>6. Due(v) = Due(z)
    BY <2>3 DEF Due
  <2>7. /\ v.use = y.use /\ v.run = y.run /\ v.pipe = y.pipe /\ v.sa = y.sa /\ v.net = y.net
        /\ v.local = [y.local EXCEPT !.sent = a] /\ Due(y) \subseteq Due(v)
        /\ a => <<"out", "adder">> \in Due(v)
    BY <2>1, <2>3, <2>6 DEF Same
  <2>8. Goes(y, v)
    BY <2>5, <2>7 DEF Goes, Sound, Types
  <2>9. Goes(x, v)
    BY <1>8, <2>8, GoesFurther
  <2>10. Answers(x, v)
    <3>1. v.local = [x.local EXCEPT !.sent = v.local.sent]
      BY <1>4, <2>4, <2>7
    <3>2. v.local.sent \/ x.pipe["out"].adder => <<"out", "adder">> \in Due(v)
      BY <1>5, <2>4, <2>7 DEF a
    <3>3. QED
      BY <1>3, <1>4, <1>5, <1>7, <2>7, <3>1, <3>2 DEF Answers
  <2>11. QED
    BY <1>1, <1>11, <2>9, <2>10
<1>12. QED
  BY <1>10, <1>11

(* It does no harm: nobody waits for an empty output to be written.           *)
LEMMA AnswersMind ==
  ASSUME NEW x, Typed(x), x.use = "control", NEW y, Goes(x, y), Answers(x, y) PROVE Minds(x, y)
<1>1. y.run = x.run /\ y.use = "control"
  BY DEF Answers, Goes, Types
<1>2. ASSUME NEW R \in SUBSET Loops, Cared(x, Due(x) \cup R)
      PROVE  Cared(y, Due(y) \cup R)
  <2> DEFINE D == Due(x) \cup R
             E == Due(y) \cup R
  <2>1. D \subseteq E /\ (<<"out", "adder">> \in Due(y) => <<"out", "adder">> \in E)
    BY DEF Answers
  <2>2. <<"out", "first">> \notin D
    BY DueFacts
  <2>3. Cared(x, D)
    BY <1>2
  <2> HIDE DEF D, E
  <2>4. Listens(y) = Listens(x) /\ Unheard(y) = Unheard(x) /\ Eol(y) = Eol(x)
    BY <1>1 DEF Answers, Listens, Unheard, Eol, Typed, LocalState
  <2>5. y.local.nested = x.local.nested /\ y.local.postponed = x.local.postponed
        /\ y.local.busy = x.local.busy
    BY DEF Answers, Typed, LocalState
  <2>6. Written(y, E)
    <3>1. y.pipe["out"].buf # <<>> => y.sa.waitW
            \/ {<<"out", "consumer">>, <<"out", "adder">>, <<"out", "loop">>} \cap E # {}
      BY <1>1, <2>1, <2>2, <2>3 DEF Answers, Cared, Written
    <3>2. y.local.sent \/ y.local.nested = "idle" =>
            {<<"out", "adder">>, <<"out", "first">>} \cap E # {}
      BY <1>1, <2>1, <2>3, <2>5 DEF Answers, Cared, Written
    <3>3. QED
      BY <1>1, <2>1, <2>3, <3>1, <3>2 DEF Answers, Cared, Written
  <2>7. Heard(y, E)
    BY <1>1, <2>1, <2>3, <2>4, <2>5 DEF Answers, Cared, Heard
  <2>8. Fed(y, E)
    BY <1>1 DEF Fed
  <2>9. QED
    BY <2>6, <2>7, <2>8 DEF Cared, E
<1>3. QED
  BY <1>1, <1>2 DEF Minds

(* act_upon_command_reply()                                                   *)
LEMMA CommandOverMinds ==
  ASSUME NEW x, Typed(x)
  PROVE  LET y == act_upon_command_reply(x)
         IN /\ Goes(x, y) /\ (x.use = "control" => Minds(x, y)) /\ y.run = x.run
            /\ y.pipe = x.pipe /\ y.sa = x.sa /\ y.net = x.net /\ Due(x) \subseteq Due(y)
            /\ y.local = [x.local EXCEPT !.busy = FALSE, !.postponed = FALSE]
<1> DEFINE y == [x EXCEPT !.local.busy = FALSE, !.local.postponed = FALSE]
           z == NotifyConsumer(y, "in", "ok")
<1>1. act_upon_command_reply(x) = IF x.local.postponed THEN z ELSE y
  BY DEF act_upon_command_reply
<1>2. /\ y.queue = x.queue /\ y.use = x.use /\ y.run = x.run /\ y.sa = x.sa
      /\ y.net = x.net /\ y.pipe = x.pipe /\ DOMAIN y = Fields
      /\ y.local = [x.local EXCEPT !.busy = FALSE, !.postponed = FALSE]
  BY DEF Typed, Fields
<1> HIDE DEF y
<1>3. /\ y.local \in LocalState /\ ~y.local.postponed /\ y.local.quit = x.local.quit
      /\ y.local.sent = x.local.sent /\ y.local.nested = x.local.nested
  BY <1>2 DEF Typed, LocalState
<1>4. Types(x, y)
  BY <1>2, <1>3 DEF Types, Typed, Fits
<1>5. Due(y) = Due(x)
  BY <1>2 DEF Due
<1>6. Goes(x, y)
  BY <1>2, <1>4, <1>5 DEF Goes, Sound
<1>7. /\ Types(y, z) /\ Same(y, z) /\ Due(y) \subseteq Due(z)
      /\ y.pipe["in"].consumer => <<"in", "consumer">> \in Due(z)
  BY <1>4, NotifyConsumerTypes, ReceiverFacts DEF Types
<1> HIDE DEF z
<1>8. Goes(x, z)
  BY <1>5, <1>6, <1>7, SameGoes, GoesFurther
<1>9. ASSUME NEW v, v \in {y, z}, x.local.postponed => v = z, x.use = "control",
             NEW R \in SUBSET Loops, Cared(x, Due(x) \cup R)
      PROVE  Cared(v, Due(v) \cup R)
  <2> DEFINE D == Due(x) \cup R
             E == Due(v) \cup R
  <2>1. D \subseteq E
    BY <1>5, <1>7, <1>9
  <2>2. /\ v.use = "control" /\ v.pipe = x.pipe /\ v.sa = x.sa /\ v.net = x.net
        /\ v.local = y.local
    BY <1>2, <1>7, <1>9 DEF Same
  <2>3. x.local.postponed /\ x.pipe["in"].consumer => <<"in", "consumer">> \in E
    BY <1>2, <1>7, <1>9
  <2>4. Cared(x, D)
    BY <1>9
  <2> HIDE DEF D, E
  <2>5. Listens(v) = Listens(x) /\ Unheard(v) = Unheard(x) /\ Eol(v) = Eol(x)
    BY <1>3, <1>9, <2>2 DEF Listens, Unheard, Eol
  <2>6. Written(v, E)
    BY <1>3, <1>9, <2>1, <2>2, <2>4 DEF Cared, Written
  <2>7. Heard(v, E)
    BY <1>3, <1>9, <2>1, <2>2, <2>3, <2>4, <2>5 DEF Cared, Heard
  <2>8. Fed(v, E)
    BY <2>2 DEF Fed
  <2>9. QED
    BY <2>6, <2>7, <2>8 DEF Cared, E
<1>10. CASE x.local.postponed
  BY <1>1, <1>2, <1>5, <1>7, <1>8, <1>9, <1>10 DEF Minds, Same
<1>11. CASE ~x.local.postponed
  BY <1>1, <1>2, <1>5, <1>6, <1>9, <1>11 DEF Minds
<1>12. QED
  BY <1>10, <1>11

(* shutdown() and shutdown_commander()                                        *)
LEMMA ShutdownTypes ==
  ASSUME NEW x, Typed(x), NEW err \in Errors
  PROVE  LET y == shutdown(x, err)
         IN /\ Goes(x, y) /\ y.run = x.run /\ y.pipe = x.pipe /\ y.local = x.local
            /\ y.net = x.net /\ y.sa.waitW = x.sa.waitW /\ Due(x) \subseteq Due(y)
<1> DEFINE y == [x EXCEPT !.sa.shutting = TRUE, !.sa.shutErr = err]
           z == Post(y, <<"socket", "shutdown">>, "ok")
<1>1. /\ y.queue = x.queue /\ y.use = x.use /\ y.run = x.run /\ y.pipe = x.pipe
      /\ y.net = x.net /\ y.local = x.local /\ DOMAIN y = Fields
      /\ y.sa = [x.sa EXCEPT !.shutting = TRUE, !.shutErr = err]
  BY DEF Typed, Fields
<1> HIDE DEF y
<1>2. y.sa \in SaState /\ y.sa.socket = x.sa.socket /\ y.sa.waitW = x.sa.waitW
  BY <1>1 DEF Typed, SaState
<1>3. Types(x, y)
  BY <1>1, <1>2 DEF Types, Typed, Fits
<1>4. Due(y) = Due(x)
  BY <1>1 DEF Due
<1>5. Goes(x, y)
  BY <1>1, <1>2, <1>3, <1>4 DEF Goes, Sound
<1>6. Types(y, z) /\ Same(y, z) /\ Due(y) \subseteq Due(z)
  BY <1>3, PostTypes, ReceiverFacts DEF Types
<1>7. Goes(x, z)
  BY <1>5, <1>6, SameGoes, GoesFurther
<1>8. shutdown(x, err) = z
  BY DEF shutdown, y
<1> HIDE DEF z
<1>9. QED
  BY <1>1, <1>2, <1>4, <1>6, <1>7, <1>8 DEF Same

(* A consumer is taken off.                                                   *)
LEMMA ConsumerGone ==
  ASSUME NEW x, Typed(x), NEW p \in Pipes
  PROVE  LET y == set_consumer(x, p, FALSE)
         IN /\ Goes(x, y) /\ y.run = x.run /\ y.sa = x.sa /\ y.net = x.net /\ y.local = x.local
            /\ Due(x) \ {<<p, "consumer">>} \subseteq Due(y)
            /\ \A q \in Pipes : q # p => y.pipe[q] = x.pipe[q]
<1>1. PICK off \in BOOLEAN : off = FALSE
  OBVIOUS
<1> DEFINE c == set_consumer(x, p, off)
<1>2. /\ Goes(x, c)
      /\ c.run = x.run /\ c.sa = x.sa /\ c.net = x.net /\ c.local = x.local
      /\ Due(x) \ {<<p, "consumer">>} \subseteq Due(c)
      /\ \A q \in Pipes : q # p => c.pipe[q] = x.pipe[q]
      /\ c.pipe[p].consumer = off /\ c.pipe[p].adder = x.pipe[p].adder
      /\ c.pipe[p].waitA = x.pipe[p].waitA /\ c.pipe[p].buf = x.pipe[p].buf
      /\ off /\ ~x.pipe[p].consumer => <<p, "consumer">> \in Due(c)
  BY SetConsumerTypes
<1>3. c = set_consumer(x, p, FALSE)
  BY <1>1
<1> HIDE DEF c
<1>4. QED
  BY <1>2, <1>3

(* Nobody listens any more to a client that is sent away.                     *)
LEMMA ShutdownCommanderMinds ==
  ASSUME NEW x, Typed(x), NEW err \in Errors
  PROVE  LET y == shutdown_commander(x, err)
         IN /\ Goes(x, y) /\ y.run = x.run /\ y.local.quit = x.local.quit
            /\ x.use = "control" /\ x.local.quit # "no" => Minds(x, y)
<1> DEFINE w == [x EXCEPT !.local.busy = FALSE]
           v == set_consumer(w, "in", FALSE)
           y == shutdown(v, err)
<1>1. /\ w.queue = x.queue /\ w.use = x.use /\ w.run = x.run /\ w.pipe = x.pipe
      /\ w.net = x.net /\ w.sa = x.sa /\ DOMAIN w = Fields
      /\ w.local = [x.local EXCEPT !.busy = FALSE]
  BY DEF Typed, Fields
<1>2. shutdown_commander(x, err) = y
  BY DEF shutdown_commander
<1> HIDE DEF w
<1>3. /\ w.local \in LocalState /\ w.local.quit = x.local.quit /\ w.local.sent = x.local.sent
      /\ w.local.nested = x.local.nested
  BY <1>1 DEF Typed, LocalState
<1>4. Types(x, w)
  BY <1>1, <1>3 DEF Types, Typed, Fits
<1>5. Due(w) = Due(x)
  BY <1>1 DEF Due
<1>6. Goes(x, w)
  BY <1>1, <1>4, <1>5 DEF Goes, Sound
<1>7. /\ Goes(w, v) /\ v.run = w.run /\ v.sa = w.sa /\ v.net = w.net /\ v.local = w.local
      /\ Due(w) \ {<<"in", "consumer">>} \subseteq Due(v) /\ v.pipe["out"] = w.pipe["out"]
  <2>1. FALSE \in BOOLEAN /\ "in" \in Pipes /\ "out" \in Pipes /\ "out" # "in" /\ Typed(w)
    BY <1>4 DEF Types, Pipes
  <2> HIDE DEF v
  <2>2. /\ Goes(w, v) /\ v.run = w.run /\ v.sa = w.sa /\ v.net = w.net /\ v.local = w.local
        /\ Due(w) \ {<<"in", "consumer">>} \subseteq Due(v)
        /\ \A q \in Pipes : q # "in" => v.pipe[q] = w.pipe[q]
    BY <2>1, ConsumerGone DEF v
  <2>3. QED
    BY <2>1, <2>2
<1> HIDE DEF v
<1>8. /\ Goes(v, y) /\ y.run = v.run /\ y.pipe = v.pipe /\ y.local = v.local
      /\ y.net = v.net /\ y.sa.waitW = v.sa.waitW /\ Due(v) \subseteq Due(y)
  BY <1>7, ShutdownTypes DEF Goes, Types
<1> HIDE DEF y
<1>9. Goes(x, y) /\ y.run = x.run /\ y.use = x.use
  BY <1>1, <1>6, <1>7, <1>8, GoesFurther DEF Goes, Types
<1>10. ASSUME x.use = "control", x.local.quit # "no",
              NEW R \in SUBSET Loops, Cared(x, Due(x) \cup R)
       PROVE  Cared(y, Due(y) \cup R)
  <2> DEFINE D == Due(x) \cup R
             E == Due(y) \cup R
  <2>1. D \ {<<"in", "consumer">>} \subseteq E
    BY <1>5, <1>7, <1>8
  <2>2. Cared(x, D)
    BY <1>10
  <2> HIDE DEF D, E
  <2>3. Written(y, E)
    BY <1>1, <1>3, <1>7, <1>8, <1>9, <1>10, <2>1, <2>2 DEF Cared, Written
  <2>4. ~Listens(y)
    BY <1>3, <1>7, <1>8, <1>9, <1>10 DEF Listens
  <2>5. Heard(y, E) /\ Fed(y, E)
    BY <1>9, <1>10, <2>4 DEF Heard, Fed
  <2>6. QED
    BY <2>3, <2>5 DEF Cared, E
<1>11. QED
  BY <1>2, <1>3, <1>7, <1>8, <1>9, <1>10 DEF Minds

(* A buffer is filled or emptied.                                             *)
Buffered(x, y, p, c) ==
  /\ y.queue = x.queue /\ y.use = x.use /\ y.run = x.run /\ y.sa = x.sa /\ y.net = x.net
  /\ y.local = x.local /\ \A q \in Pipes : q # p => y.pipe[q] = x.pipe[q]
  /\ y.pipe[p].adder = x.pipe[p].adder /\ y.pipe[p].consumer = x.pipe[p].consumer
  /\ y.pipe[p].waitA = x.pipe[p].waitA /\ y.pipe[p].waitC = x.pipe[p].waitC
  /\ y.pipe[p].errA = x.pipe[p].errA /\ y.pipe[p].errC = x.pipe[p].errC
  /\ y.pipe[p].buf = c

(* It is nothing but a buffer.                                                *)
LEMMA BufferTypes ==
  ASSUME NEW x, Typed(x), NEW p \in Pipes, NEW c \in Seq(Units),
         p = "in" => Len(c) <= MaxReadable
  PROVE  LET y == [x EXCEPT !.pipe[p].buf = c]
         IN Goes(x, y) /\ Buffered(x, y, p, c) /\ Due(y) = Due(x)
<1> DEFINE y == [x EXCEPT !.pipe[p].buf = c]
<1>1. /\ y.queue = x.queue /\ y.use = x.use /\ y.run = x.run /\ y.sa = x.sa
      /\ y.net = x.net /\ y.local = x.local /\ DOMAIN y = Fields /\ DOMAIN y.pipe = Pipes
      /\ \A q \in Pipes : q # p => y.pipe[q] = x.pipe[q]
      /\ y.pipe[p] = [x.pipe[p] EXCEPT !.buf = c]
  BY DEF Typed, Fields
<1>2. x.pipe[p] \in PipeState
  BY DEF Typed
<1> HIDE DEF y
<1>3. y.pipe[p] \in PipeState /\ Buffered(x, y, p, c)
  BY <1>1, <1>2 DEF PipeState, Buffered
<1>4. Fits(y)
  <2>1. y.pipe["in"] = x.pipe["in"] \/ (p = "in" /\ y.pipe["in"].buf = c)
    BY <1>1, <1>3 DEF Pipes, Buffered
  <2>2. QED
    BY <2>1 DEF Typed, Fits
<1>5. Types(x, y)
  BY <1>1, <1>3, <1>4 DEF Types, Typed
<1>6. Due(y) = Due(x)
  BY <1>1 DEF Due
<1>7. Sound(x) => Sound(y)
  BY <1>1, <1>3 DEF Sound, Buffered, Pipes
<1>8. QED
  BY <1>1, <1>3, <1>5, <1>6, <1>7 DEF Goes, y

(* The end of a line is in the buffer.                                        *)
LEMMA EolFacts ==
  ASSUME NEW x, Typed(x)
  PROVE  /\ Eol(x) = 0 \/ Eol(x) \in DOMAIN x.pipe["in"].buf
         /\ Eol(x) # 0 <=> \E i \in DOMAIN x.pipe["in"].buf : x.pipe["in"].buf[i] = "eol"
<1> DEFINE b == x.pipe["in"].buf
           N == {i \in DOMAIN b : b[i] = "eol"}
<1>1. b \in Seq(Units)
  BY DEF Typed, Pipes, PipeState
<1>2. N \in SUBSET Nat
  BY <1>1
<1>3. ASSUME N # {} PROVE Min(N) \in N
  <2>1. \E i \in N : \A j \in N : i <= j
    BY <1>2, <1>3, Least
  <2>2. QED
    BY <2>1 DEF Min
<1>4. Eol(x) = IF N # {} THEN Min(N) ELSE 0
  BY DEF Eol
<1>5. 0 \notin N
  BY <1>1
<1>6. N # {} <=> \E i \in DOMAIN b : b[i] = "eol"
  OBVIOUS
<1>7. QED
  BY <1>3, <1>4, <1>5, <1>6

(* What is neither the queue nor a pipe is changed.                           *)
LEMMA PartsTypes ==
  ASSUME NEW x, Typed(x), NEW y, DOMAIN y = Fields, y.use = x.use, y.queue = x.queue,
         y.pipe = x.pipe, y.run \in RunState, y.sa \in SaState, y.net \in NetState,
         y.local \in LocalState, y.sa.socket => x.sa.socket
  PROVE  Goes(x, y) /\ Due(y) = Due(x)
<1>1. Types(x, y)
  BY DEF Types, Typed, Fits
<1>2. Due(y) = Due(x)
  BY DEF Due
<1>3. QED
  BY <1>1, <1>2 DEF Goes, Sound

(* The loop of the input's consumer.                                          *)
Line == {<<"in", "loop">>}

(* The line consumer: while it is called again it hears the client.           *)
LEMMA ConsumeLineMinds ==
  ASSUME NEW x, Typed(x), NEW r \in consume_line(x)
  PROVE  /\ Goes(x, r[2]) /\ r[2].run = x.run /\ r[1] \in {"ok", "again", "nodata", "nobufs"}
         /\ x.use = "control" /\ Cared(x, Due(x) \cup Line) => Cared(r[2], Due(r[2]) \cup Line)
         /\ r[1] = "nodata" => Eol(r[2]) = 0
         /\ r[1] = "again" => r[2].local.postponed
<1> DEFINE k == Eol(x)
           b == SubSeq(x.pipe["in"].buf, k + 1, Len(x.pipe["in"].buf))
           y == [x EXCEPT !.pipe["in"].buf = b]
           c == respond(y)
           v == [c EXCEPT !.local.quit = "quit"]
           w == [x EXCEPT !.local.postponed = TRUE]
           u == [y EXCEPT !.local.busy = TRUE]
           z == shutdown_commander(v, "shutdown")
           D == Due(x) \cup Line
<1>1. \/ k = 0 /\ r \in {<<"nobufs", x>>, <<"nodata", x>>}
      \/ k # 0 /\ x.local.busy /\ r = <<"again", w>>
      \/ k # 0 /\ ~x.local.busy /\ r \in {<<"ok", c>>, <<"ok", u>>, <<"ok", z>>}
  BY DEF consume_line
<1>2. Line \in SUBSET Loops
  BY DEF Line, Loops, Pipes
<1>3. Goes(x, x)
  BY DEF Goes, Types
<1>4. CASE k = 0 /\ r \in {<<"nobufs", x>>, <<"nodata", x>>}
  BY <1>3, <1>4
<1>5. CASE k # 0 /\ x.local.busy /\ r = <<"again", w>>
  <2>1. /\ w.queue = x.queue /\ w.use = x.use /\ w.run = x.run /\ w.sa = x.sa
        /\ w.net = x.net /\ w.pipe = x.pipe /\ DOMAIN w = Fields
        /\ w.local = [x.local EXCEPT !.postponed = TRUE]
    BY DEF Typed, Fields
  <2> HIDE DEF w
  <2>2. /\ w.local \in LocalState /\ w.local.quit = x.local.quit /\ w.local.sent = x.local.sent
        /\ w.local.nested = x.local.nested /\ w.local.busy = x.local.busy /\ w.local.postponed
    BY <2>1 DEF Typed, LocalState
  <2>3. Goes(x, w) /\ Due(w) = Due(x)
    BY <2>1, <2>2, PartsTypes DEF Typed
  <2>4. Listens(w) = Listens(x) /\ Unheard(w) = Unheard(x) /\ Eol(w) = Eol(x)
    BY <2>1, <2>2 DEF Listens, Unheard, Eol
  <2>5. ASSUME x.use = "control", Cared(x, D) PROVE Cared(w, Due(w) \cup Line)
    <3> HIDE DEF D
    <3>1. Written(w, D)
      BY <2>1, <2>2, <2>5 DEF Cared, Written
    <3>2. Heard(w, D)
      BY <1>5, <2>1, <2>2, <2>4, <2>5 DEF Cared, Heard
    <3>3. Fed(w, D)
      BY <2>1, <2>5 DEF Fed
    <3>4. QED
      BY <2>3, <3>1, <3>2, <3>3 DEF Cared, D
  <2>6. r[1] = "again" /\ r[2] = w
    BY <1>5
  <2>7. QED
    BY <2>1, <2>2, <2>3, <2>5, <2>6
<1>6. CASE k # 0 /\ ~x.local.busy /\ r \in {<<"ok", c>>, <<"ok", u>>, <<"ok", z>>}
  <2>1. Goes(x, y) /\ Buffered(x, y, "in", b) /\ Due(y) = Due(x)
    <3>1. x.pipe["in"].buf \in Seq(Units) /\ Len(x.pipe["in"].buf) <= MaxReadable
      BY DEF Typed, Pipes, PipeState, Fits
    <3>2. k \in DOMAIN x.pipe["in"].buf
      BY <1>6, EolFacts
    <3> HIDE DEF k
    <3>3. k \in 0..Len(x.pipe["in"].buf)
      BY <3>1, <3>2
    <3>4. b \in Seq(Units) /\ Len(b) <= MaxReadable
      <4>1. b \in Seq(Units) /\ Len(b) = Len(x.pipe["in"].buf) - k
        BY <3>1, <3>3, Rest
      <4> HIDE DEF b
      <4>2. MaxReadable \in Nat /\ Len(x.pipe["in"].buf) \in Nat
        BY <3>1, ChannelAssumption
      <4>3. QED
        BY <3>1, <3>3, <4>1, <4>2
    <3> HIDE DEF b
    <3>5. QED
      BY <3>4, BufferTypes, ReceiverFacts
  <2>2. Typed(y) /\ y.use = x.use /\ y.run = x.run
    BY <2>1 DEF Goes, Types, Buffered
  <2>3. ASSUME x.use = "control", Cared(x, D) PROVE Cared(y, Due(y) \cup Line)
    <3>1. Due(y) \cup Line = D /\ <<"in", "loop">> \in D
      BY <2>1 DEF Line
    <3>2. x.pipe["out"] = y.pipe["out"]
      BY <2>1 DEF Buffered, Pipes
    <3>q. Listens(y) = Listens(x)
      BY <2>1 DEF Listens, Buffered
    <3> HIDE DEF D, y
    <3>3. Written(y, D)
      BY <2>1, <2>3, <3>2 DEF Cared, Written, Buffered
    <3>4. Heard(y, D)
      BY <1>6, <2>1, <2>3, <3>1, <3>2, <3>q DEF Cared, Heard, Buffered
    <3>5. Fed(y, D)
      BY <2>2, <2>3 DEF Fed
    <3>6. QED
      BY <3>1, <3>3, <3>4, <3>5 DEF Cared
  <2> HIDE DEF y, D, k
  <2>4. Goes(y, c) /\ Answers(y, c) /\ c.run = x.run
    BY <2>2, RespondAnswers DEF Answers
  <2>5. x.use = "control" => Minds(y, c)
    BY <2>2, <2>4, AnswersMind
  <2> HIDE DEF c
  <2>6. CASE r = <<"ok", c>>
    <3>1. Goes(x, c)
      BY <2>1, <2>4, GoesFurther
    <3>2. x.use = "control" /\ Cared(x, D) => Cared(c, Due(c) \cup Line)
      BY <1>2, <2>3, <2>5 DEF Minds
    <3>3. r[1] = "ok" /\ r[2] = c
      BY <2>6
    <3>4. QED
      BY <2>4, <3>1, <3>2, <3>3 DEF D
  <2>7. CASE r = <<"ok", u>>
    <3>1. /\ u.queue = y.queue /\ u.use = y.use /\ u.run = y.run /\ u.sa = y.sa
          /\ u.net = y.net /\ u.pipe = y.pipe /\ DOMAIN u = Fields
          /\ u.local = [y.local EXCEPT !.busy = TRUE]
      BY <2>2 DEF Typed, Fields
    <3> HIDE DEF u
    <3>2. /\ u.local \in LocalState /\ u.local.quit = y.local.quit
          /\ u.local.sent = y.local.sent
          /\ u.local.nested = y.local.nested /\ u.local.postponed = y.local.postponed
          /\ u.local.busy
      BY <2>2, <3>1 DEF Typed, LocalState
    <3>3. Goes(y, u) /\ Due(u) = Due(y)
      BY <2>2, <3>1, <3>2, PartsTypes DEF Typed
    <3>4. Listens(u) = Listens(y) /\ Unheard(u) = Unheard(y) /\ Eol(u) = Eol(y)
      BY <3>1, <3>2 DEF Listens, Unheard, Eol
    <3>5. ASSUME x.use = "control", Cared(x, D) PROVE Cared(u, Due(u) \cup Line)
      <4> DEFINE E == Due(y) \cup Line
      <4>1. Cared(y, E)
        BY <2>3, <3>5
      <4> HIDE DEF E
      <4>2. Written(u, E)
        BY <3>1, <3>2, <4>1 DEF Cared, Written
      <4>3. Heard(u, E)
        BY <3>1, <3>2, <3>4, <4>1 DEF Cared, Heard
      <4>4. Fed(u, E)
        BY <2>2, <3>1, <3>5 DEF Fed
      <4>5. QED
        BY <3>3, <4>2, <4>3, <4>4 DEF Cared, E
    <3>6. r[1] = "ok" /\ r[2] = u
      BY <2>7
    <3>7. Goes(x, u)
      BY <2>1, <3>3, GoesFurther
    <3>8. QED
      BY <2>2, <3>1, <3>5, <3>6, <3>7 DEF D
  <2>8. CASE r = <<"ok", z>>
    <3>1. /\ v.queue = c.queue /\ v.use = c.use /\ v.run = c.run /\ v.sa = c.sa
          /\ v.net = c.net /\ v.pipe = c.pipe /\ DOMAIN v = Fields
          /\ v.local = [c.local EXCEPT !.quit = "quit"]
      BY <2>4 DEF Goes, Types, Typed, Fields
    <3> HIDE DEF v
    <3>2. /\ v.local \in LocalState /\ v.local.quit = "quit"
          /\ v.local.sent = c.local.sent /\ v.local.nested = c.local.nested
      BY <2>4, <3>1 DEF Goes, Types, Typed, LocalState
    <3>3. Goes(c, v) /\ Due(v) = Due(c)
      BY <2>4, <3>1, <3>2, PartsTypes DEF Goes, Types, Typed
    <3>4. ASSUME x.use = "control", Cared(x, D) PROVE Cared(v, Due(v) \cup Line)
      <4> DEFINE E == Due(c) \cup Line
      <4>1. Cared(c, E)
        BY <1>2, <2>3, <2>5, <3>4 DEF Minds
      <4> HIDE DEF E
      <4>2. v.use = "control"
        BY <2>2, <2>4, <3>1, <3>4 DEF Goes, Types
      <4>3. Written(v, E)
        BY <3>1, <3>2, <4>1 DEF Cared, Written
      <4>4. Heard(v, E) /\ Fed(v, E)
        BY <3>2, <4>2 DEF Heard, Fed, Listens
      <4>5. QED
        BY <3>3, <4>3, <4>4 DEF Cared, E
    <3>5. /\ Goes(v, z) /\ z.run = v.run /\ v.use = x.use
          /\ x.use = "control" => Minds(v, z)
      <4>1. Typed(v) /\ v.use = x.use
        BY <2>2, <2>4, <3>1, <3>3 DEF Goes, Types
      <4>2. QED
        BY <3>2, <4>1, ShutdownCommanderMinds, ReceiverFacts
    <3> HIDE DEF z
    <3>6. r[1] = "ok" /\ r[2] = z
      BY <2>8
    <3>7. Goes(x, z)
      BY <2>1, <2>4, <3>3, <3>5, GoesFurther
    <3>8. x.use = "control" /\ Cared(x, D) => Cared(z, Due(z) \cup Line)
      BY <1>2, <3>4, <3>5 DEF Minds
    <3>9. QED
      BY <2>4, <3>1, <3>5, <3>6, <3>7, <3>8 DEF D
  <2>9. QED
    BY <1>6, <2>6, <2>7, <2>8
<1>7. QED
  BY <1>1, <1>4, <1>5, <1>6

(* The file is written.                                                       *)
LEMMA WriteFileMinds ==
  ASSUME NEW x, Typed(x), NEW r \in write_file(x)
  PROVE  /\ Goes(x, r[2]) /\ r[2].run = x.run /\ r[1] \in {"ok", "failed"}
         /\ x.use # "control" /\ Cared(x, Due(x) \cup Line) => Cared(r[2], Due(r[2]) \cup Line)
<1> DEFINE b == x.pipe["in"].buf
           c(n) == SubSeq(b, n + 1, Len(b))
           y(n) == [x EXCEPT !.pipe["in"].buf = c(n)]
<1>1. b \in Seq(Units) /\ Len(b) <= MaxReadable
  BY DEF Typed, Pipes, PipeState, Fits
<1>2. CASE r = <<"failed", x>>
  BY <1>2 DEF Goes, Types
<1>3. CASE \E n \in 1..Len(b) : r = <<"ok", y(n)>>
  <2>1. PICK n \in 1..Len(b) : r = <<"ok", y(n)>>
    BY <1>3
  <2> DEFINE z == y(n)
             d == c(n)
             D == Due(x) \cup Line
  <2>2. d \in Seq(Units) /\ Len(d) <= MaxReadable
    <3>1. n \in 0..Len(b)
      BY <1>1
    <3>2. d \in Seq(Units) /\ Len(d) = Len(b) - n
      BY <1>1, <3>1, Rest
    <3> HIDE DEF d
    <3>3. MaxReadable \in Nat /\ Len(b) \in Nat
      BY <1>1, ChannelAssumption
    <3>4. QED
      BY <1>1, <3>1, <3>2, <3>3
  <2>3. Goes(x, z) /\ Buffered(x, z, "in", d) /\ Due(z) = Due(x)
    <3> HIDE DEF d
    <3>1. Goes(x, [x EXCEPT !.pipe["in"].buf = d])
          /\ Buffered(x, [x EXCEPT !.pipe["in"].buf = d], "in", d)
          /\ Due([x EXCEPT !.pipe["in"].buf = d]) = Due(x)
      BY <2>2, BufferTypes, ReceiverFacts
    <3>2. QED
      BY <3>1 DEF d
  <2> HIDE DEF z, y, c, d
  <2>4. z.use = x.use /\ z.run = x.run /\ r[1] = "ok" /\ r[2] = z
    BY <2>1, <2>3 DEF Buffered, z
  <2>5. ASSUME x.use # "control", Cared(x, D) PROVE Cared(z, D)
    <3>1. x.pipe["out"] = z.pipe["out"] /\ <<"in", "loop">> \in D
      BY <2>3 DEF Buffered, Pipes, Line
    <3>2. Listens(z) = Listens(x)
      BY <2>3 DEF Listens, Buffered
    <3> HIDE DEF D
    <3>3. Written(z, D)
      BY <2>3, <2>5, <3>1 DEF Cared, Written, Buffered
    <3>4. Heard(z, D)
      BY <2>3, <2>5, <3>1, <3>2 DEF Cared, Heard, Buffered
    <3>5. Fed(z, D)
      BY <2>4, <2>5, <3>1 DEF Cared, Fed
    <3>6. QED
      BY <3>3, <3>4, <3>5 DEF Cared
  <2>6. QED
    BY <2>3, <2>4, <2>5
<1>4. QED
  BY <1>2, <1>3 DEF write_file

(* The loop of the output.                                                    *)
Round == {<<"out", "loop">>}

(* The file is read: it ends, or there is something to be written.            *)
LEMMA ReadFileMinds ==
  ASSUME NEW x, Typed(x), NEW r \in read_file(x)
  PROVE  /\ Goes(x, r[2]) /\ r[2].run = x.run /\ r[1] \in {"ok", "nodata", "nobufs", "failed"}
         /\ x.use # "control" /\ Cared(x, Due(x) \cup Round) => Cared(r[2], Due(r[2]) \cup Round)
         /\ r[1] \in {"ok", "nobufs"} => r[2].pipe["out"].buf # <<>>
<1> DEFINE b == x.pipe["out"].buf
           o == x.local.left
           n == Min2(MaxFill - Len(b), o)
           e == [i \in 1..n |-> "c"]
           c == b \o e
           y == [x EXCEPT !.local.left = o - n, !.pipe["out"].buf = c]
           u == [x EXCEPT !.pipe["out"].buf = c]
<1>1. b \in Seq(Units) /\ o \in Nat /\ Len(b) \in Nat /\ MaxFill \in Nat \ {0}
  BY ChannelAssumption, SMTT(30) DEF Typed, Pipes, PipeState, LocalState
<1>2. \/ r = <<"nobufs", x>> /\ b # <<>>
      \/ r \in {<<"failed", x>>, <<"nodata", x>>}
      \/ r = <<"ok", y>> /\ n \in Nat \ {0} /\ n <= o
  <2> DEFINE j == Len(b)
             k == MaxFill - j
  <2>1. j \in Nat /\ (j = 0 => b = <<>>) /\ (b = <<>> => j = 0)
    BY <1>1
  <2>2. \/ r = <<"nobufs", x>> /\ j >= MaxFill
        \/ r \in {<<"failed", x>>, <<"nodata", x>>}
        \/ r = <<"ok", y>> /\ n # 0 /\ ~(j >= MaxFill)
    BY DEF read_file
  <2> HIDE DEF j
  <2>3. k \in Int /\ (~(j >= MaxFill) => k > 0) /\ (j >= MaxFill => j # 0)
    BY <1>1, <2>1
  <2>4. n \in {k, o} /\ n <= o
    <3>1. n = Min2(k, o)
      BY DEF j
    <3> HIDE DEF n, k, o
    <3>2. o \in Int
      BY <1>1 DEF o
    <3>3. QED
      BY <2>3, <3>1, <3>2, Lesser
  <2> HIDE DEF n, k, o, y, b
  <2>5. CASE r = <<"ok", y>> /\ n # 0 /\ ~(j >= MaxFill)
    <3>1. n \in Nat \ {0}
      BY <1>1, <2>3, <2>4, <2>5
    <3>2. QED
      BY <2>4, <2>5, <3>1
  <2>6. QED
    BY <2>1, <2>2, <2>3, <2>5
<1>3. CASE r[2] = x /\ r[1] \in {"nobufs", "failed", "nodata"} /\ (r[1] = "nobufs" => b # <<>>)
  BY <1>3 DEF Goes, Types
<1>4. CASE r = <<"ok", y>> /\ n \in Nat \ {0} /\ n <= o
  <2>1. c \in Seq(Units) /\ c # <<>> /\ o - n \in Nat
    <3> HIDE DEF n, b, o
    <3>1. e \in Seq(Units) /\ Len(e) = n
      <4>1. n \in Nat /\ e \in [1..n -> Units] /\ DOMAIN e = 1..n
        BY <1>4 DEF Units
      <4> HIDE DEF e
      <4>2. QED
        BY <4>1
    <3> HIDE DEF e
    <3>2. c \in Seq(Units) /\ Len(c) = Len(b) + n
      BY <1>1, <3>1
    <3>3. Len(c) # 0
      BY <1>1, <1>4, <3>2
    <3> HIDE DEF c
    <3>4. c # <<>>
      BY <3>2, <3>3
    <3>5. QED
      BY <1>1, <1>4, <3>2, <3>4
  <2> HIDE DEF n, b, c
  <2>2. Goes(x, u) /\ Buffered(x, u, "out", c) /\ Due(u) = Due(x)
    BY <2>1, BufferTypes, ReceiverFacts
  <2>3. /\ y.queue = u.queue /\ y.use = u.use /\ y.run = u.run /\ y.pipe = u.pipe
        /\ y.net = u.net /\ y.sa = u.sa /\ DOMAIN y = Fields
        /\ y.local = [x.local EXCEPT !.left = o - n]
    BY DEF Typed, Fields
  <2> HIDE DEF u, y
  <2>4. y.local \in LocalState /\ y.local.quit = x.local.quit /\ y.local.sent = x.local.sent
        /\ y.local.nested = x.local.nested /\ y.local.postponed = x.local.postponed
        /\ y.local.busy = x.local.busy
    BY <2>1, <2>3 DEF Typed, LocalState
  <2>5. Typed(u) /\ u.use = x.use
    BY <2>2 DEF Goes, Types
  <2>6. Goes(u, y) /\ Due(y) = Due(u)
    BY <2>3, <2>4, <2>5, PartsTypes DEF Typed
  <2>7. Goes(x, y)
    BY <2>2, <2>6, GoesFurther
  <2>8. /\ y.use = x.use /\ y.run = x.run /\ y.sa = x.sa /\ y.net = x.net
        /\ y.pipe["in"] = x.pipe["in"] /\ y.pipe["out"].buf = c
        /\ y.pipe["out"].consumer = x.pipe["out"].consumer
        /\ y.pipe["out"].adder = x.pipe["out"].adder
        /\ y.pipe["out"].waitA = x.pipe["out"].waitA
        /\ y.pipe["out"].waitC = x.pipe["out"].waitC
    BY <2>2, <2>3 DEF Buffered, Pipes
  <2>9. ASSUME x.use # "control", Cared(x, Due(x) \cup Round)
        PROVE  Cared(y, Due(y) \cup Round)
    <3> DEFINE D == Due(x) \cup Round
    <3>1. Due(y) \cup Round = D /\ <<"out", "loop">> \in D
      BY <2>2, <2>6 DEF Round
    <3>2. Cared(x, D)
      BY <2>9
    <3> HIDE DEF D
    <3>3. Listens(y) = Listens(x) /\ Unheard(y) = Unheard(x) /\ Eol(y) = Eol(x)
      BY <2>4, <2>8 DEF Listens, Unheard, Eol
    <3>4. Written(y, D)
      BY <2>8, <2>9, <3>1, <3>2 DEF Cared, Written
    <3>5. Heard(y, D)
      BY <2>4, <2>8, <2>9, <3>2, <3>3 DEF Cared, Heard
    <3>6. Fed(y, D)
      BY <2>8, <3>1, <3>2 DEF Cared, Fed
    <3>7. QED
      BY <3>1, <3>4, <3>5, <3>6 DEF Cared
  <2>10. r[1] = "ok" /\ r[2] = y
    BY <1>4
  <2>11. QED
    BY <2>1, <2>7, <2>8, <2>9, <2>10
<1>5. QED
  <2> HIDE DEF y, n, b
  <2>1. QED
    BY <1>2, <1>3, <1>4

(* The socket is read: something arrives, or the reader waits for the socket, *)
(* or for the output to be written.                                           *)
LEMMA SocketReadMinds ==
  ASSUME NEW x, Typed(x), NEW r, r = socket_read(x)
  PROVE  /\ Goes(x, r[2]) /\ r[2].run = x.run
         /\ r[1] \in {"ok", "again", "nodata", "nobufs", "failed"}
         /\ Cared(x, Due(x) \cup Line) => Cared(r[2], Due(r[2]) \cup Line)
         /\ r[1] \in {"ok", "nobufs"} => r[2].pipe["in"].buf # <<>>
         /\ r[1] = "again" => r[2].sa.waitR \/ r[2].sa.throttled
<1> DEFINE b == x.pipe["in"].buf
           a == x.net.avail
           n == Min2(ReadLimit(x), Len(a))
           t == [x EXCEPT !.sa.throttled = TRUE]
           w == [x EXCEPT !.sa.waitR = TRUE]
           c == b \o SubSeq(a, 1, n)
           d == SubSeq(a, n + 1, Len(a))
           z == [x EXCEPT !.pipe["in"].buf = c, !.net.avail = d]
           u == [x EXCEPT !.pipe["in"].buf = c]
           D == Due(x) \cup Line
<1>1. b \in Seq(Units) /\ a \in Seq(Units) /\ Len(b) \in Nat /\ Len(a) \in Nat
      /\ Len(b) <= MaxReadable /\ MaxReadable \in Nat \ {0} /\ (b = <<>> => Len(b) = 0)
  BY ChannelAssumption, SMTT(30) DEF Typed, Pipes, PipeState, NetState, Fits
<1>2. \/ r = <<"again", x>> /\ (x.sa.waitR \/ x.sa.throttled)
      \/ r = <<"again", t>> /\ x.use = "control" /\ x.pipe["out"].buf # <<>>
      \/ r = <<"nobufs", x>> /\ b # <<>>
      \/ r \in {<<"failed", x>>, <<"nodata", x>>}
      \/ r = <<"ok", z>> /\ n \in Nat \ {0} /\ n <= Len(a) /\ n <= ReadLimit(x)
      \/ r = <<"again", w>>
  <2> DEFINE j == Len(b)
             m == Len(a)
             k == ReadLimit(x)
  <2>1. \/ r = <<"again", x>> /\ (x.sa.waitR \/ x.sa.throttled)
        \/ r = <<"again", t>> /\ x.use = "control" /\ x.pipe["out"].buf # <<>>
        \/ r = <<"nobufs", x>> /\ k <= 0
        \/ r \in {<<"failed", x>>, <<"nodata", x>>}
        \/ r = <<"ok", z>> /\ n > 0
        \/ r = <<"again", w>>
    BY DEF socket_read, Throttles
  <2>2. k = MaxReadable - j
    BY DEF ReadLimit
  <2>3. n = Min2(k, m)
    OBVIOUS
  <2>4. j \in Nat /\ m \in Int /\ (b = <<>> => j = 0)
    BY <1>1
  <2> HIDE DEF n, j, m, k, z, t, w
  <2>5. k \in Int /\ (k <= 0 => j # 0)
    BY <1>1, <2>2, <2>4
  <2>6. n \in Int /\ n <= m /\ n <= k
    BY <2>3, <2>4, <2>5, Lesser
  <2>7. CASE r = <<"nobufs", x>> /\ k <= 0
    BY <2>4, <2>5, <2>7
  <2>8. CASE r = <<"ok", z>> /\ n > 0
    <3>1. n \in Nat \ {0}
      BY <2>6, <2>8
    <3>2. QED
      BY <2>6, <2>8, <3>1 DEF m, k
  <2>9. QED
    BY <2>1, <2>7, <2>8
<1>3. CASE r = <<"again", x>> /\ (x.sa.waitR \/ x.sa.throttled)
  BY <1>3 DEF Goes, Types
<1>4. CASE (r = <<"nobufs", x>> /\ b # <<>>) \/ r \in {<<"failed", x>>, <<"nodata", x>>}
  <2>1. Goes(x, x) /\ r[2] = x /\ r[1] \in {"nobufs", "failed", "nodata"}
        /\ (r[1] = "nobufs" => b # <<>>)
    BY <1>4 DEF Goes, Types
  <2>2. QED
    BY <2>1
<1>5. CASE (r = <<"again", t>> /\ x.use = "control" /\ x.pipe["out"].buf # <<>>)
           \/ r = <<"again", w>>
  <2>1. PICK v : /\ r = <<"again", v>>
                 /\ v = w \/ (v = t /\ x.use = "control" /\ x.pipe["out"].buf # <<>>)
    BY <1>5
  <2>2. /\ t.queue = x.queue /\ t.use = x.use /\ t.run = x.run /\ t.pipe = x.pipe
        /\ t.net = x.net /\ t.local = x.local /\ DOMAIN t = Fields
        /\ t.sa = [x.sa EXCEPT !.throttled = TRUE]
    BY DEF Typed, Fields
  <2>3. /\ w.queue = x.queue /\ w.use = x.use /\ w.run = x.run /\ w.pipe = x.pipe
        /\ w.net = x.net /\ w.local = x.local /\ DOMAIN w = Fields
        /\ w.sa = [x.sa EXCEPT !.waitR = TRUE]
    BY DEF Typed, Fields
  <2> HIDE DEF t, w
  <2>4. /\ t.sa \in SaState /\ t.sa.throttled /\ t.sa.waitR = x.sa.waitR
        /\ t.sa.waitW = x.sa.waitW /\ t.sa.shutting = x.sa.shutting
        /\ t.sa.socket = x.sa.socket
    BY <2>2 DEF Typed, SaState
  <2>5. /\ w.sa \in SaState /\ w.sa.waitR /\ w.sa.throttled = x.sa.throttled
        /\ w.sa.waitW = x.sa.waitW /\ w.sa.shutting = x.sa.shutting
        /\ w.sa.socket = x.sa.socket
    BY <2>3 DEF Typed, SaState
  <2>6. /\ v.queue = x.queue /\ v.use = x.use /\ v.run = x.run /\ v.pipe = x.pipe
        /\ v.net = x.net /\ v.local = x.local /\ DOMAIN v = Fields /\ v.sa \in SaState
        /\ v.sa.waitW = x.sa.waitW /\ v.sa.shutting = x.sa.shutting
        /\ v.sa.socket = x.sa.socket
        /\ v.sa.waitR \/ v.sa.throttled
        /\ x.sa.waitR \/ x.sa.throttled => v.sa.waitR \/ v.sa.throttled
        /\ v.sa.throttled =>
             x.sa.throttled \/ (x.use = "control" /\ x.pipe["out"].buf # <<>>)
    BY <1>5, <2>1, <2>2, <2>3, <2>4, <2>5
  <2>7. Goes(x, v) /\ Due(v) = Due(x)
    <3>1. v.run \in RunState /\ v.net \in NetState /\ v.local \in LocalState
      BY <2>6 DEF Typed
    <3>2. QED
      BY <2>6, <3>1, PartsTypes
  <2>8. ASSUME Cared(x, D) PROVE Cared(v, D)
    <3> HIDE DEF D
    <3>1. Listens(v) = Listens(x) /\ Unheard(v) = Unheard(x) /\ Eol(v) = Eol(x)
      BY <2>6 DEF Listens, Unheard, Eol
    <3>2. Written(v, D)
      BY <2>6, <2>8 DEF Cared, Written
    <3>3. Heard(v, D)
      BY <2>6, <2>8, <3>1 DEF Cared, Heard
    <3>4. Fed(v, D)
      BY <2>6, <2>8 DEF Cared, Fed
    <3>5. QED
      BY <3>2, <3>3, <3>4 DEF Cared
  <2>9. r[1] = "again" /\ r[2] = v
    BY <2>1
  <2>10. QED
    BY <2>6, <2>7, <2>8, <2>9
<1>6. CASE r = <<"ok", z>> /\ n \in Nat \ {0} /\ n <= Len(a) /\ n <= ReadLimit(x)
  <2>1. /\ c \in Seq(Units) /\ d \in Seq(Units) /\ Len(c) <= MaxReadable /\ c # <<>>
        /\ \A i \in DOMAIN b : i \in DOMAIN c /\ c[i] = b[i]
    <3> DEFINE e == SubSeq(a, 1, n)
               j == Len(b)
    <3>1. n \in 0..Len(a) /\ n \in Nat \ {0} /\ n <= MaxReadable - Len(b)
      BY <1>1, <1>6 DEF ReadLimit
    <3> HIDE DEF n, a, b
    <3>2. e \in Seq(Units) /\ Len(e) = n /\ d \in Seq(Units)
      BY <1>1, <3>1, Rest
    <3> HIDE DEF e
    <3>3. /\ b \o e \in Seq(Units) /\ Len(b \o e) = Len(b) + n
          /\ \A i \in DOMAIN b : i \in DOMAIN (b \o e) /\ (b \o e)[i] = b[i]
      <4>1. b \o e \in Seq(Units) /\ Len(b \o e) = Len(b) + n
        BY <1>1, <3>1, <3>2
      <4>2. \A i \in 1..(Len(b) + Len(e)) :
              (b \o e)[i] = IF i <= Len(b) THEN b[i] ELSE e[i - Len(b)]
        BY <1>1, <3>2
      <4>3. DOMAIN b = 1..Len(b) /\ DOMAIN (b \o e) = 1..(Len(b) + n) /\ n \in Nat
        BY <1>1, <3>1, <3>2, <4>1
      <4>4. QED
        BY <1>1, <3>2, <4>1, <4>2, <4>3
    <3>4. Len(b \o e) # 0 /\ Len(b \o e) <= MaxReadable
      BY <1>1, <3>1, <3>3
    <3>5. b \o e # <<>>
      BY <3>3, <3>4
    <3>6. QED
      BY <3>2, <3>3, <3>4, <3>5 DEF e
  <2> HIDE DEF n, a, c, d
  <2>2. Goes(x, u) /\ Buffered(x, u, "in", c) /\ Due(u) = Due(x)
    BY <2>1, BufferTypes, ReceiverFacts
  <2>3. /\ z.queue = u.queue /\ z.use = u.use /\ z.run = u.run /\ z.pipe = u.pipe
        /\ z.local = u.local /\ z.sa = u.sa /\ DOMAIN z = Fields
        /\ z.net = [x.net EXCEPT !.avail = d]
    BY DEF Typed, Fields
  <2> HIDE DEF u, z
  <2>4. z.net \in NetState /\ z.net.shut = x.net.shut
    BY <2>1, <2>3 DEF Typed, NetState
  <2>5. Typed(u) /\ u.use = x.use
    BY <2>2 DEF Goes, Types
  <2>6. Goes(u, z) /\ Due(z) = Due(u)
    BY <2>3, <2>4, <2>5, PartsTypes DEF Typed
  <2>7. Goes(x, z)
    BY <2>2, <2>6, GoesFurther
  <2>8. /\ z.use = x.use /\ z.run = x.run /\ z.sa = x.sa /\ z.local = x.local
        /\ z.pipe["out"] = x.pipe["out"] /\ z.pipe["in"].buf = c
        /\ z.pipe["in"].consumer = x.pipe["in"].consumer
        /\ z.pipe["in"].adder = x.pipe["in"].adder
        /\ z.pipe["in"].waitA = x.pipe["in"].waitA
        /\ z.pipe["in"].waitC = x.pipe["in"].waitC
    BY <2>2, <2>3 DEF Buffered, Pipes
  <2>9. Eol(x) # 0 => Eol(z) # 0
    <3>1. Eol(x) # 0 => \E i \in DOMAIN b : b[i] = "eol"
      BY EolFacts
    <3>2. Eol(z) # 0 <=> \E i \in DOMAIN c : c[i] = "eol"
      <4>1. Typed(z)
        BY <2>7 DEF Goes, Types
      <4>2. QED
        BY <2>8, <4>1, EolFacts
    <3>3. QED
      BY <2>1, <3>1, <3>2
  <2>10. ASSUME Cared(x, D) PROVE Cared(z, D)
    <3>1. <<"in", "loop">> \in D
      BY DEF Line
    <3> HIDE DEF D
    <3>2. Listens(z) = Listens(x)
      BY <2>8 DEF Listens
    <3>3. Written(z, D)
      BY <2>4, <2>8, <2>10 DEF Cared, Written
    <3>4. Heard(z, D)
      BY <2>8, <2>9, <2>10, <3>1, <3>2 DEF Cared, Heard
    <3>5. Fed(z, D)
      BY <2>8, <2>10 DEF Cared, Fed
    <3>6. QED
      BY <3>3, <3>4, <3>5 DEF Cared
  <2>11. r[1] = "ok" /\ r[2] = z /\ Due(z) \cup Line = D
    BY <1>6, <2>2, <2>6
  <2>12. QED
    BY <2>1, <2>7, <2>8, <2>10, <2>11
<1>7. QED
  <2> HIDE DEF z, t, w, n, b, a
  <2>1. QED
    BY <1>2, <1>3, <1>4, <1>5, <1>6

(* The socket is written: somebody goes round, or waits for the socket; and   *)
(* when all is written who is held up reads again.                            *)
LEMMA SocketWriteMinds ==
  ASSUME NEW x, Typed(x), NEW flushed \in BOOLEAN, NEW r, r = socket_write(x, flushed)
  PROVE  /\ Goes(x, r[2]) /\ r[2].run = x.run /\ r[1] \in {"ok", "again", "failed"}
         /\ x.sa.socket /\ x.pipe["out"].buf # <<>> /\ Cared(x, Due(x) \cup Round) =>
              Cared(r[2], Due(r[2]) \cup Round)
         /\ r[1] = "again" /\ x.sa.socket => r[2].sa.waitW
<1> DEFINE b == x.pipe["out"].buf
           o == x.net.room
           n == Min2(o, Len(b))
           c == SubSeq(b, n + 1, Len(b))
           d == o - n
           u == [x EXCEPT !.pipe["out"].buf = c]
           y == [x EXCEPT !.pipe["out"].buf = c, !.net.room = d]
           w == [x EXCEPT !.sa.waitW = TRUE]
           v == [y EXCEPT !.sa.throttled = FALSE]
           t == NotifyAdder(v, "in", "ok")
           q == on_shutdown_event(y, flushed)
           D == Due(x) \cup Round
<1>1. b \in Seq(Units) /\ o \in Nat /\ Len(b) \in Nat
  BY DEF Typed, Pipes, PipeState, NetState
<1>2. y.sa = x.sa /\ y.pipe["out"].buf = c
  BY DEF Typed, Fields, Pipes, PipeState
<1>3. \/ r = <<"again", x>> /\ (x.sa.socket => x.sa.waitW)
      \/ r = <<"failed", x>>
      \/ r = <<"again", w>> /\ x.net.shut = "no"
      \/ /\ x.sa.socket /\ ~x.sa.waitW
         /\ \/ r = <<"ok", q>> /\ x.sa.shutting
            \/ r = <<"ok", t>> /\ ~x.sa.shutting /\ x.sa.throttled
            \/ r = <<"ok", y>> /\ ~x.sa.shutting /\ (x.sa.throttled => c # <<>>)
  <2> HIDE DEF y, n, c, d
  <2>1. socket_write(x, flushed) =
          IF ~x.sa.socket \/ x.sa.waitW THEN <<"again", x>>
          ELSE IF x.net.reset \/ x.net.shut # "no" THEN <<"failed", x>>
          ELSE IF n = 0 THEN <<"again", w>>
          ELSE <<"ok", IF y.sa.shutting THEN q
                       ELSE IF y.sa.throttled /\ y.pipe["out"].buf = <<>> THEN t ELSE y>>
    BY DEF socket_write, y, n, c, d
  <2> HIDE DEF q, t, w, v
  <2>2. QED
    BY <1>2, <2>1
<1>4. c \in Seq(Units) /\ d \in Nat
  <2> DEFINE k == Len(b)
  <2>1. k \in Int /\ k \in Nat /\ o \in Int /\ o \in Nat /\ n = Min2(o, k)
    BY <1>1
  <2> HIDE DEF k, o, n
  <2>2. Min2(o, k) \in {o, k} /\ Min2(o, k) <= o /\ Min2(o, k) <= k /\ Min2(o, k) \in Int
    BY <2>1, Lesser
  <2>3. n \in 0..k /\ d \in Nat
    BY <2>1, <2>2
  <2>4. QED
    BY <1>1, <2>3, Rest DEF k
<1> HIDE DEF n, c, d
<1>5. Goes(x, u) /\ Buffered(x, u, "out", c) /\ Due(u) = Due(x)
  BY <1>4, BufferTypes, ReceiverFacts
<1>6. /\ y.queue = u.queue /\ y.use = u.use /\ y.run = u.run /\ y.pipe = u.pipe
      /\ y.local = u.local /\ y.sa = u.sa /\ DOMAIN y = Fields
      /\ y.net = [x.net EXCEPT !.room = d]
  BY DEF Typed, Fields
<1> HIDE DEF u, y
<1>7. y.net \in NetState /\ y.net.shut = x.net.shut
  BY <1>4, <1>6 DEF Typed, NetState
<1>8. Typed(u) /\ u.use = x.use
  BY <1>5 DEF Goes, Types
<1>9. Goes(u, y) /\ Due(y) = Due(u)
  BY <1>6, <1>7, <1>8, PartsTypes DEF Typed
<1>10. Goes(x, y) /\ Due(y) = Due(x) /\ Typed(y)
  BY <1>5, <1>9, GoesFurther DEF Goes, Types
<1>11. /\ y.use = x.use /\ y.run = x.run /\ y.sa = x.sa /\ y.local = x.local
       /\ y.pipe["in"] = x.pipe["in"] /\ y.pipe["out"].buf = c
       /\ y.pipe["out"].consumer = x.pipe["out"].consumer
       /\ y.pipe["out"].adder = x.pipe["out"].adder
       /\ y.pipe["out"].waitA = x.pipe["out"].waitA
       /\ y.pipe["out"].waitC = x.pipe["out"].waitC
  BY <1>5, <1>6 DEF Buffered, Pipes
<1>12. Listens(y) = Listens(x) /\ Unheard(y) = Unheard(x) /\ Eol(y) = Eol(x)
  BY <1>11 DEF Listens, Unheard, Eol
<1>13. Round \in SUBSET Loops /\ <<"out", "loop">> \in D
  BY DEF Round, Loops, Pipes
<1>14. ASSUME ~x.sa.waitW, Cared(x, D) PROVE Written(y, D) /\ Fed(y, D)
  <2> HIDE DEF D
  <2>1. Written(y, D)
    BY <1>7, <1>11, <1>13, <1>14 DEF Cared, Written
  <2>2. Fed(y, D)
    BY <1>11, <1>13, <1>14 DEF Cared, Fed
  <2>3. QED
    BY <2>1, <2>2
<1>15. CASE r = <<"again", x>> /\ (x.sa.socket => x.sa.waitW)
  BY <1>15 DEF Goes, Types
<1>16. CASE r = <<"failed", x>>
  BY <1>16 DEF Goes, Types
<1>17. CASE r = <<"again", w>> /\ x.net.shut = "no"
  <2>1. /\ w.queue = x.queue /\ w.use = x.use /\ w.run = x.run /\ w.pipe = x.pipe
        /\ w.net = x.net /\ w.local = x.local /\ DOMAIN w = Fields
        /\ w.sa = [x.sa EXCEPT !.waitW = TRUE]
    BY DEF Typed, Fields
  <2> HIDE DEF w
  <2>2. /\ w.sa \in SaState /\ w.sa.throttled = x.sa.throttled /\ w.sa.waitR = x.sa.waitR
        /\ w.sa.waitW /\ w.sa.shutting = x.sa.shutting /\ w.sa.socket = x.sa.socket
    BY <2>1 DEF Typed, SaState
  <2>3. Goes(x, w) /\ Due(w) = Due(x)
    BY <2>1, <2>2, PartsTypes DEF Typed
  <2>4. ASSUME b # <<>>, Cared(x, D) PROVE Cared(w, D)
    <3> HIDE DEF D
    <3>1. Listens(w) = Listens(x) /\ Unheard(w) = Unheard(x) /\ Eol(w) = Eol(x)
      BY <2>1 DEF Listens, Unheard, Eol
    <3>2. Written(w, D)
      BY <1>17, <2>1, <2>2, <2>4 DEF Cared, Written
    <3>3. Heard(w, D)
      BY <2>1, <2>2, <2>4, <3>1 DEF Cared, Heard
    <3>4. Fed(w, D)
      BY <2>1, <2>4 DEF Cared, Fed
    <3>5. QED
      BY <3>2, <3>3, <3>4 DEF Cared
  <2>5. r[1] = "again" /\ r[2] = w
    BY <1>17
  <2>6. QED
    BY <2>1, <2>2, <2>3, <2>4, <2>5
<1>18. CASE r = <<"ok", q>> /\ x.sa.socket /\ ~x.sa.waitW /\ x.sa.shutting
  <2>1. Minds(y, q)
    BY <1>10, <1>11, <1>18, OnShutdownMinds
  <2> HIDE DEF q
  <2>2. ASSUME Cared(x, D) PROVE Cared(q, Due(q) \cup Round)
    <3>1. ~Listens(y)
      BY <1>12, <1>18, <2>2 DEF Cared, Heard
    <3>2. Cared(y, D)
      BY <1>14, <1>18, <2>2, <3>1 DEF Cared, Heard
    <3>3. QED
      BY <1>10, <1>13, <2>1, <3>2 DEF Minds
  <2>3. r[1] = "ok" /\ r[2] = q
    BY <1>18
  <2>4. Goes(x, q) /\ q.run = x.run
    BY <1>10, <1>11, <2>1, GoesFurther DEF Minds
  <2>5. QED
    BY <2>2, <2>3, <2>4
<1>19. CASE r = <<"ok", t>> /\ ~x.sa.waitW /\ ~x.sa.shutting /\ x.sa.throttled
  <2>1. /\ v.queue = y.queue /\ v.use = y.use /\ v.run = y.run /\ v.pipe = y.pipe
        /\ v.net = y.net /\ v.local = y.local /\ DOMAIN v = Fields
        /\ v.sa = [y.sa EXCEPT !.throttled = FALSE]
    BY <1>10 DEF Typed, Fields
  <2> HIDE DEF v
  <2>2. /\ v.sa \in SaState /\ ~v.sa.throttled /\ v.sa.waitR = y.sa.waitR
        /\ v.sa.waitW = y.sa.waitW /\ v.sa.shutting = y.sa.shutting
        /\ v.sa.socket = y.sa.socket
    BY <1>10, <2>1 DEF Typed, SaState
  <2>3. Goes(y, v) /\ Due(v) = Due(y)
    BY <1>10, <2>1, <2>2, PartsTypes DEF Typed
  <2>4. /\ Types(v, t) /\ Same(v, t) /\ Due(v) \subseteq Due(t)
        /\ v.pipe["in"].adder => <<"in", "adder">> \in Due(t)
    BY <2>3, NotifyAdderTypes, ReceiverFacts DEF Goes, Types
  <2> HIDE DEF t
  <2>5. Goes(x, t)
    BY <1>10, <2>3, <2>4, SameGoes, GoesFurther
  <2>6. /\ t.use = y.use /\ t.run = y.run /\ t.pipe = y.pipe /\ t.net = y.net
        /\ t.local = y.local /\ t.sa = v.sa
    BY <2>1, <2>4 DEF Same
  <2>7. ASSUME Cared(x, D) PROVE Cared(t, Due(t) \cup Round)
    <3> DEFINE E == Due(t) \cup Round
    <3>1. D \subseteq E /\ (x.pipe["in"].adder => <<"in", "adder">> \in E)
      BY <1>10, <1>11, <2>1, <2>3, <2>4
    <3>2. Written(y, D) /\ Fed(y, D)
      BY <1>14, <1>19, <2>7
    <3> HIDE DEF D, E
    <3>3. Written(t, E)
      BY <2>2, <2>6, <3>1, <3>2 DEF Written
    <3>4. Fed(t, E)
      BY <2>6, <3>1, <3>2, SMTT(30) DEF Fed
    <3>5. Listens(t) = Listens(x) /\ Unheard(t) = Unheard(x) /\ Eol(t) = Eol(x)
      BY <1>12, <2>6 DEF Listens, Unheard, Eol
    <3>6. Heard(t, E)
      BY <1>11, <2>2, <2>6, <2>7, <3>1, <3>5 DEF Cared, Heard
    <3>7. QED
      BY <3>3, <3>4, <3>6 DEF Cared, E
  <2>8. r[1] = "ok" /\ r[2] = t
    BY <1>19
  <2>9. QED
    BY <1>11, <2>5, <2>6, <2>7, <2>8
<1>20. CASE r = <<"ok", y>> /\ ~x.sa.waitW /\ (x.sa.throttled => c # <<>>)
  <2>1. ASSUME Cared(x, D) PROVE Cared(y, D)
    <3>1. Written(y, D) /\ Fed(y, D)
      BY <1>14, <1>20, <2>1
    <3> HIDE DEF D
    <3>2. Heard(y, D)
      BY <1>11, <1>12, <1>20, <2>1 DEF Cared, Heard
    <3>3. QED
      BY <3>1, <3>2 DEF Cared
  <2>2. r[1] = "ok" /\ r[2] = y
    BY <1>20
  <2>3. QED
    BY <1>10, <1>11, <2>1, <2>2
<1>21. QED
  <2> HIDE DEF q, t, w, D
  <2>1. QED
    BY <1>3, <1>15, <1>16, <1>17, <1>18, <1>19, <1>20

(* The adder of the output has yet to be called.                              *)
Uncalled == {<<"out", "first">>}

(* The streamed adder: once it has been called, what there is to be told has  *)
(* been told, and the lister has been asked.                                  *)
LEMMA AddStreamedMinds ==
  ASSUME NEW x, Typed(x), NEW r, r = add_streamed(x)
  PROVE  /\ Goes(x, r[2]) /\ r[2].run = x.run /\ r[1] \in {"ok", "again"}
         /\ x.use = "control" /\ Cared(x, Due(x) \cup Round \cup Uncalled) =>
              Cared(r[2], Due(r[2]) \cup Round)
<1> DEFINE y == [x EXCEPT !.local.sent = FALSE]
           z == [y EXCEPT !.local.nested = "none"]
           c == respond(z)
           t == act_upon_command_reply(c)
           k == IF x.local.nested = "idle" THEN "reading" ELSE "twice"
           w == [y EXCEPT !.local.nested = k]
           D == Due(x) \cup Round
<1>1. y.local.nested = x.local.nested
  BY DEF Typed, Fields, LocalState
<1>2. \/ r = <<"ok", y>> /\ x.local.nested = "none"
      \/ r = <<"again", x>> /\ ~x.local.sent /\ x.local.nested = "none"
      \/ r = <<"ok", t>>
      \/ r = <<"again", w>>
  BY <1>1 DEF add_streamed
<1>3. Round \in SUBSET Loops
  BY DEF Round, Loops, Pipes
<1>4. y.queue = x.queue /\ DOMAIN y = Fields /\ y.local = [x.local EXCEPT !.sent = FALSE]
      /\ y.use = x.use /\ y.run = x.run /\ y.pipe = x.pipe /\ y.sa = x.sa /\ y.net = x.net
  BY DEF Typed, Fields
<1> HIDE DEF y
<1>5. /\ z.queue = x.queue /\ DOMAIN z = Fields /\ z.local = [y.local EXCEPT !.nested = "none"]
      /\ z.use = x.use /\ z.run = x.run /\ z.pipe = x.pipe /\ z.sa = x.sa /\ z.net = x.net
  BY <1>4 DEF Fields
<1>6. /\ w.queue = x.queue /\ DOMAIN w = Fields /\ w.local = [y.local EXCEPT !.nested = k]
      /\ w.use = x.use /\ w.run = x.run /\ w.pipe = x.pipe /\ w.sa = x.sa /\ w.net = x.net
  BY <1>4 DEF Fields
<1>7. k \in {"reading", "twice"}
  OBVIOUS
<1> HIDE DEF z, w, k
<1>8. /\ y.local \in LocalState /\ ~y.local.sent /\ y.local.quit = x.local.quit
      /\ y.local.postponed = x.local.postponed /\ y.local.busy = x.local.busy
      /\ y.local.nested = x.local.nested
  BY <1>4 DEF Typed, LocalState
<1>9. /\ z.local \in LocalState /\ ~z.local.sent /\ z.local.quit = x.local.quit
      /\ z.local.postponed = x.local.postponed /\ z.local.busy = x.local.busy
      /\ z.local.nested = "none"
  BY <1>5, <1>8 DEF LocalState
<1>10. /\ w.local \in LocalState /\ ~w.local.sent /\ w.local.quit = x.local.quit
       /\ w.local.postponed = x.local.postponed /\ w.local.busy = x.local.busy
       /\ w.local.nested = k
  BY <1>6, <1>7, <1>8 DEF LocalState
<1>11. Goes(x, y) /\ Due(y) = Due(x)
  BY <1>4, <1>8, PartsTypes DEF Typed
<1>12. Goes(x, z) /\ Due(z) = Due(x)
  BY <1>5, <1>9, PartsTypes DEF Typed
<1>13. Goes(x, w) /\ Due(w) = Due(x)
  BY <1>6, <1>10, PartsTypes DEF Typed
<1>14. ASSUME x.use = "control", Cared(x, Due(x) \cup Round \cup Uncalled),
              NEW v, v.use = x.use, v.pipe = x.pipe, v.sa = x.sa, v.net = x.net,
              ~v.local.sent, v.local.nested # "idle", v.local.quit = x.local.quit,
              v.local.postponed = x.local.postponed, v.local.busy = x.local.busy
       PROVE  Cared(v, D)
  <2> DEFINE E == Due(x) \cup Round \cup Uncalled
  <2>1. /\ <<"in", "adder">> \in E => <<"in", "adder">> \in D
        /\ <<"in", "consumer">> \in E => <<"in", "consumer">> \in D
        /\ <<"in", "loop">> \in E => <<"in", "loop">> \in D
        /\ <<"out", "consumer">> \in E => <<"out", "consumer">> \in D
        /\ <<"out", "loop">> \in D
    BY DEF Uncalled, Round
  <2>2. Cared(x, E)
    BY <1>14
  <2> HIDE DEF D, E
  <2>3. Listens(v) = Listens(x) /\ Unheard(v) = Unheard(x) /\ Eol(v) = Eol(x)
    BY <1>14 DEF Listens, Unheard, Eol
  <2>4. Written(v, D)
    BY <1>14, <2>1, <2>2 DEF Cared, Written
  <2>5. Heard(v, D)
    BY <1>14, <2>1, <2>2, <2>3 DEF Cared, Heard
  <2>6. Fed(v, D)
    BY <1>14 DEF Fed
  <2>7. QED
    BY <2>4, <2>5, <2>6 DEF Cared
<1>15. CASE r = <<"ok", y>> /\ x.local.nested = "none"
  <2>1. ASSUME x.use = "control", Cared(x, Due(x) \cup Round \cup Uncalled)
        PROVE  Cared(y, Due(y) \cup Round)
    BY <1>4, <1>8, <1>11, <1>14, <1>15, <2>1
  <2>2. r[1] = "ok" /\ r[2] = y
    BY <1>15
  <2>3. QED
    BY <1>4, <1>11, <2>1, <2>2
<1>16. CASE r = <<"again", x>> /\ ~x.local.sent /\ x.local.nested = "none"
  <2>1. Goes(x, x)
    BY DEF Goes, Types
  <2>2. ASSUME x.use = "control", Cared(x, Due(x) \cup Round \cup Uncalled)
        PROVE  Cared(x, Due(x) \cup Round)
    BY <1>14, <1>16, <2>2
  <2>3. r[1] = "again" /\ r[2] = x
    BY <1>16
  <2>4. QED
    BY <2>1, <2>2, <2>3
<1>17. CASE r = <<"again", w>>
  <2>1. ASSUME x.use = "control", Cared(x, Due(x) \cup Round \cup Uncalled)
        PROVE  Cared(w, Due(w) \cup Round)
    BY <1>6, <1>7, <1>10, <1>13, <1>14, <2>1
  <2>2. r[1] = "again" /\ r[2] = w
    BY <1>17
  <2>3. QED
    BY <1>6, <1>13, <2>1, <2>2
<1>18. CASE r = <<"ok", t>>
  <2>1. Typed(z) /\ z.use = x.use
    BY <1>12 DEF Goes, Types
  <2>2. Goes(z, c) /\ Answers(z, c)
    BY <2>1, RespondAnswers
  <2>3. x.use = "control" => Minds(z, c)
    BY <2>1, <2>2, AnswersMind
  <2> HIDE DEF c
  <2>4. Typed(c) /\ c.use = x.use /\ c.run = x.run
    BY <1>5, <2>1, <2>2 DEF Goes, Types, Answers
  <2>5. Goes(c, t) /\ t.run = c.run /\ (x.use = "control" => Minds(c, t))
    BY <2>4, CommandOverMinds, Zenon
  <2> HIDE DEF t
  <2>6. Goes(x, t)
    BY <1>12, <2>2, <2>5, GoesFurther
  <2>7. ASSUME x.use = "control", Cared(x, Due(x) \cup Round \cup Uncalled)
        PROVE  Cared(t, Due(t) \cup Round)
    <3>1. Cared(z, Due(z) \cup Round)
      BY <1>5, <1>9, <1>12, <1>14, <2>7
    <3>2. QED
      BY <1>3, <2>3, <2>5, <2>7, <3>1 DEF Minds
  <2>8. r[1] = "ok" /\ r[2] = t
    BY <1>18
  <2>9. QED
    BY <2>4, <2>5, <2>6, <2>7, <2>8
<1>19. QED
  BY <1>2, <1>15, <1>16, <1>17, <1>18

-----------------------------------------------------------------------------
(* The loops *)

(* The flags of one pipe are set, and where the loop is.                      *)
Flagged(x, y, p) ==
  /\ DOMAIN y = Fields /\ y.use = x.use /\ y.queue = x.queue /\ y.sa = x.sa /\ y.net = x.net
  /\ y.local = x.local /\ DOMAIN y.pipe = Pipes
  /\ \A q \in Pipes : q # p => y.pipe[q] = x.pipe[q]
  /\ y.pipe[p].adder = x.pipe[p].adder /\ y.pipe[p].consumer = x.pipe[p].consumer
  /\ y.pipe[p].buf = x.pipe[p].buf

(* These are no more than flags.                                              *)
LEMMA FlagTypes ==
  ASSUME NEW x, Typed(x), NEW p \in Pipes, NEW y, Flagged(x, y, p),
         y.run \in RunState, y.pipe[p] \in PipeState,
         Sound(x) /\ p = "out" =>
           /\ y.pipe[p].errC # "nodata"
           /\ x.use # "control" /\ ~x.pipe[p].adder => ~y.pipe[p].waitA
  PROVE  Goes(x, y) /\ Due(y) = Due(x)
<1>1. Fits(y)
  <2>1. y.pipe["in"] = x.pipe["in"] \/ y.pipe["in"].buf = x.pipe["in"].buf
    BY DEF Flagged, Pipes
  <2>2. QED
    BY <2>1 DEF Typed, Fits
<1>2. Types(x, y)
  BY <1>1 DEF Types, Typed, Flagged
<1>3. Due(y) = Due(x)
  BY DEF Due, Flagged
<1>4. Sound(x) => Sound(y)
  <2>1. CASE p = "out"
    BY <2>1 DEF Sound, Flagged
  <2>2. CASE p = "in"
    BY <2>2 DEF Sound, Flagged, Pipes
  <2>3. QED
    BY <2>1, <2>2 DEF Pipes
<1>5. QED
  BY <1>2, <1>3, <1>4 DEF Goes, Flagged

(* What has to be said again when a loop goes round or ends: of its pipe.     *)
OutSafe(x, E) ==
  LET out == x.pipe["out"]
  IN /\ out.waitC => x.sa.waitW \/ <<"out", "consumer">> \in E
     /\ out.buf # <<>> =>
          x.sa.waitW \/ {<<"out", "consumer">>, <<"out", "adder">>, <<"out", "loop">>} \cap E # {}
     /\ x.use = "download" =>
          /\ out.waitA => <<"out", "adder">> \in E
          /\ \/ out.buf # <<>>
             \/ {<<"out", "adder">>, <<"out", "consumer">>, <<"out", "loop">>} \cap E # {}

InSafe(x, E) ==
  LET in == x.pipe["in"]
  IN Listens(x) =>
     /\ in.waitA => x.sa.waitR \/ x.sa.throttled \/ <<"in", "adder">> \in E
     /\ in.waitC => x.local.postponed \/ <<"in", "consumer">> \in E
     /\ Unheard(x) => x.local.postponed \/ {<<"in", "consumer">>, <<"in", "loop">>} \cap E # {}
     /\ \/ x.sa.waitR \/ x.sa.throttled \/ x.local.postponed
        \/ {<<"in", "adder">>, <<"in", "consumer">>, <<"in", "loop">>} \cap E # {}

(* The other pipe is as it was.                                               *)
LEMMA FlagCares ==
  ASSUME NEW x, NEW p \in Pipes, NEW y, NEW z, Flagged(x, y, p), Same(y, z),
         NEW D, NEW E, Cared(x, D), D \subseteq E \cup {<<p, "loop">>},
         p = "out" => OutSafe(z, E), p = "in" => InSafe(z, E)
  PROVE  Cared(z, E)
<1>1. /\ z.use = x.use /\ z.sa = x.sa /\ z.net = x.net /\ z.local = x.local
      /\ \A q \in Pipes : q # p => z.pipe[q] = x.pipe[q]
      /\ z.pipe[p].adder = x.pipe[p].adder /\ z.pipe[p].consumer = x.pipe[p].consumer
      /\ z.pipe[p].buf = x.pipe[p].buf
  BY DEF Flagged, Same
<1>2. /\ z.pipe["out"].buf = x.pipe["out"].buf /\ z.pipe["in"].buf = x.pipe["in"].buf
      /\ z.pipe["out"].adder = x.pipe["out"].adder /\ z.pipe["in"].adder = x.pipe["in"].adder
      /\ z.pipe["out"].consumer = x.pipe["out"].consumer
      /\ z.pipe["in"].consumer = x.pipe["in"].consumer
  BY <1>1 DEF Pipes
<1>3. Listens(z) = Listens(x) /\ Unheard(z) = Unheard(x) /\ Eol(z) = Eol(x)
  BY <1>1, <1>2 DEF Listens, Unheard, Eol
<1>4. <<"out", "adder">> \in D => <<"out", "adder">> \in E
  OBVIOUS
<1>5. <<"out", "first">> \in D => <<"out", "first">> \in E
  OBVIOUS
<1>6. CASE p = "out"
  <2>1. Written(z, E)
    BY <1>1, <1>2, <1>4, <1>5, <1>6 DEF Cared, Written, OutSafe
  <2>2. Fed(z, E)
    BY <1>1, <1>2, <1>6 DEF Cared, Fed, OutSafe
  <2>3. z.pipe["in"] = x.pipe["in"]
    BY <1>1, <1>6 DEF Pipes
  <2>4. /\ <<"in", "adder">> \in D => <<"in", "adder">> \in E
        /\ <<"in", "consumer">> \in D => <<"in", "consumer">> \in E
        /\ <<"in", "loop">> \in D => <<"in", "loop">> \in E
    BY <1>6
  <2>5. Heard(z, E)
    BY <1>1, <1>2, <1>3, <2>3, <2>4 DEF Cared, Heard
  <2>6. QED
    BY <2>1, <2>2, <2>5 DEF Cared
<1>7. CASE p = "in"
  <2>1. z.pipe["out"] = x.pipe["out"]
    BY <1>1, <1>7 DEF Pipes
  <2>2. /\ <<"out", "consumer">> \in D => <<"out", "consumer">> \in E
        /\ <<"out", "loop">> \in D => <<"out", "loop">> \in E
    BY <1>7
  <2>3. Written(z, E)
    BY <1>1, <1>4, <1>5, <2>1, <2>2 DEF Cared, Written
  <2>4. Fed(z, E)
    BY <1>1, <1>4, <2>1, <2>2 DEF Cared, Fed
  <2>5. Heard(z, E)
    BY <1>1, <1>2, <1>3, <1>7 DEF Cared, Heard, InSafe
  <2>6. QED
    BY <2>3, <2>4, <2>5 DEF Cared
<1>8. QED
  BY <1>6, <1>7 DEF Pipes

(* The loop ends.                                                             *)
LEMMA IdleTypes ==
  ASSUME NEW x, Typed(x), NEW p \in Pipes
  PROVE  LET y == Idle(x)
         IN /\ Goes(x, y) /\ Due(y) = Due(x) /\ Flagged(x, y, p) /\ y.run.at = "idle"
            /\ y.pipe = x.pipe
<1> DEFINE y == [x EXCEPT !.run.at = "idle"]
<1>1. /\ y.run \in RunState /\ y.run.at = "idle" /\ y.pipe = x.pipe
      /\ Flagged(x, y, p)
  BY DEF Typed, Fields, RunState, Flagged
<1> HIDE DEF y
<1>2. Goes(x, y) /\ Due(y) = Due(x)
  BY <1>1, FlagTypes DEF Typed, Sound
<1>3. QED
  BY <1>1, <1>2 DEF Idle, y

(* It ends, and a consumer that did not wait yet is told.                     *)
LEMMA WakeConsumerTypes ==
  ASSUME NEW x, Typed(x), NEW p \in Pipes, x.pipe[p].consumer
  PROVE  LET v == [Idle(x) EXCEPT !.pipe[p].waitC = TRUE]
             y == NotifyConsumer(v, p, "ok")
         IN /\ Goes(x, y) /\ Due(x) \subseteq Due(y) /\ <<p, "consumer">> \in Due(y)
            /\ Flagged(x, v, p) /\ Same(v, y) /\ y.run.at = "idle"
            /\ y.pipe[p].waitA = x.pipe[p].waitA
<1> DEFINE z == Idle(x)
           v == [z EXCEPT !.pipe[p].waitC = TRUE]
           y == NotifyConsumer(v, p, "ok")
<1>1. /\ Goes(x, z) /\ Due(z) = Due(x) /\ Flagged(x, z, p) /\ z.run.at = "idle"
      /\ z.pipe = x.pipe
  BY IdleTypes
<1> HIDE DEF z
<1>2. Typed(z)
  BY <1>1 DEF Goes, Types
<1>3. z.pipe[p] \in PipeState /\ v.pipe[p] = [z.pipe[p] EXCEPT !.waitC = TRUE]
      /\ v.run = z.run /\ DOMAIN v = Fields /\ DOMAIN v.pipe = Pipes
      /\ v.use = z.use /\ v.queue = z.queue /\ v.sa = z.sa /\ v.net = z.net
      /\ v.local = z.local /\ \A q \in Pipes : q # p => v.pipe[q] = z.pipe[q]
  BY <1>2 DEF Typed, Fields
<1> HIDE DEF v
<1>4. /\ v.pipe[p] \in PipeState /\ v.pipe[p].waitA = z.pipe[p].waitA
      /\ v.pipe[p].adder = z.pipe[p].adder /\ v.pipe[p].consumer = z.pipe[p].consumer
      /\ v.pipe[p].buf = z.pipe[p].buf /\ v.pipe[p].errC = z.pipe[p].errC
  BY <1>3 DEF PipeState
<1>5. Flagged(z, v, p) /\ Flagged(x, v, p)
  <2>1. /\ v.use = x.use /\ v.queue = x.queue /\ v.sa = x.sa /\ v.net = x.net
        /\ v.local = x.local
    BY <1>1, <1>3 DEF Flagged
  <2>2. Flagged(z, v, p)
    BY <1>3, <1>4 DEF Flagged
  <2>3. Flagged(x, v, p)
    BY <1>1, <2>1, <2>2 DEF Flagged
  <2>4. QED
    BY <2>2, <2>3
<1>6. Goes(z, v) /\ Due(v) = Due(z)
  <2>1. z.run \in RunState
    BY <1>2 DEF Typed
  <2>2. Sound(z) /\ p = "out" =>
          /\ v.pipe[p].errC # "nodata"
          /\ z.use # "control" /\ ~z.pipe[p].adder => ~v.pipe[p].waitA
    BY <1>1, <1>4 DEF Sound
  <2>3. QED
    BY <1>2, <1>3, <1>4, <1>5, <2>1, <2>2, FlagTypes, ZenonT(60)
<1>7. /\ Types(v, y) /\ Same(v, y) /\ Due(v) \subseteq Due(y) /\ <<p, "consumer">> \in Due(y)
  BY <1>1, <1>4, <1>6, NotifyConsumerTypes, ReceiverFacts DEF Goes, Types
<1> HIDE DEF y
<1>8. Goes(x, y)
  BY <1>1, <1>6, <1>7, SameGoes, GoesFurther
<1>9. QED
  BY <1>1, <1>3, <1>4, <1>5, <1>6, <1>7, <1>8, ZenonT(60) DEF Same, z, v, y

(* It ends, and an adder that did not wait yet is told.                       *)
LEMMA WakeAdderTypes ==
  ASSUME NEW x, Typed(x), NEW p \in Pipes, x.pipe[p].adder
  PROVE  LET v == [Idle(x) EXCEPT !.pipe[p].waitA = TRUE]
             y == NotifyAdder(v, p, "ok")
         IN /\ Goes(x, y) /\ Due(x) \subseteq Due(y) /\ <<p, "adder">> \in Due(y)
            /\ Flagged(x, v, p) /\ Same(v, y) /\ y.run.at = "idle"
            /\ y.pipe[p].waitC = x.pipe[p].waitC
<1> DEFINE z == Idle(x)
           v == [z EXCEPT !.pipe[p].waitA = TRUE]
           y == NotifyAdder(v, p, "ok")
<1>1. /\ Goes(x, z) /\ Due(z) = Due(x) /\ Flagged(x, z, p) /\ z.run.at = "idle"
      /\ z.pipe = x.pipe
  BY IdleTypes
<1> HIDE DEF z
<1>2. Typed(z)
  BY <1>1 DEF Goes, Types
<1>3. z.pipe[p] \in PipeState /\ v.pipe[p] = [z.pipe[p] EXCEPT !.waitA = TRUE]
      /\ v.run = z.run /\ DOMAIN v = Fields /\ DOMAIN v.pipe = Pipes
      /\ v.use = z.use /\ v.queue = z.queue /\ v.sa = z.sa /\ v.net = z.net
      /\ v.local = z.local /\ \A q \in Pipes : q # p => v.pipe[q] = z.pipe[q]
  BY <1>2 DEF Typed, Fields
<1> HIDE DEF v
<1>4. /\ v.pipe[p] \in PipeState /\ v.pipe[p].waitC = z.pipe[p].waitC
      /\ v.pipe[p].adder = z.pipe[p].adder /\ v.pipe[p].consumer = z.pipe[p].consumer
      /\ v.pipe[p].buf = z.pipe[p].buf /\ v.pipe[p].errC = z.pipe[p].errC
  BY <1>3 DEF PipeState
<1>5. Flagged(z, v, p) /\ Flagged(x, v, p)
  <2>1. /\ v.use = x.use /\ v.queue = x.queue /\ v.sa = x.sa /\ v.net = x.net
        /\ v.local = x.local
    BY <1>1, <1>3 DEF Flagged
  <2>2. Flagged(z, v, p)
    BY <1>3, <1>4 DEF Flagged
  <2>3. Flagged(x, v, p)
    BY <1>1, <2>1, <2>2 DEF Flagged
  <2>4. QED
    BY <2>2, <2>3
<1>6. Goes(z, v) /\ Due(v) = Due(z)
  <2>1. z.run \in RunState
    BY <1>2 DEF Typed
  <2>2. Sound(z) /\ p = "out" =>
          /\ v.pipe[p].errC # "nodata"
          /\ z.use # "control" /\ ~z.pipe[p].adder => ~v.pipe[p].waitA
    BY <1>1, <1>4 DEF Sound
  <2>3. QED
    BY <1>2, <1>3, <1>4, <1>5, <2>1, <2>2, FlagTypes, ZenonT(60)
<1>7. /\ Types(v, y) /\ Same(v, y) /\ Due(v) \subseteq Due(y) /\ <<p, "adder">> \in Due(y)
  BY <1>1, <1>4, <1>6, NotifyAdderTypes, ReceiverFacts DEF Goes, Types
<1> HIDE DEF y
<1>8. Goes(x, y)
  BY <1>1, <1>6, <1>7, SameGoes, GoesFurther
<1>9. QED
  BY <1>1, <1>3, <1>4, <1>5, <1>6, <1>7, <1>8, ZenonT(60) DEF Same, z, v, y

(* Which loop it is.                                                          *)
LoopOf(p) == {<<p, "loop">>}

(* The end of an adder's loop: what it brought is consumed; and if it brought *)
(* nothing the reader waits for something.                                    *)
LEMMA AfterAddMinds ==
  ASSUME NEW x, Typed(x), NEW p \in Pipes
  PROVE  LET y == after_add(x, p)
         IN /\ Goes(x, y) /\ y.run.at = "idle"
            /\ /\ Cared(x, Due(x) \cup LoopOf(p))
               /\ p = "in" /\ Listens(x) =>
                    x.sa.waitR \/ x.sa.throttled \/ x.pipe["in"].buf # <<>>
               /\ p = "out" /\ x.use = "download" => x.pipe["out"].buf # <<>>
               => Cared(y, Due(y))
<1> DEFINE z == Idle(x)
           v == [z EXCEPT !.pipe[p].waitC = TRUE]
           t == NotifyConsumer(v, p, "ok")
           D == Due(x) \cup LoopOf(p)
           more == x.pipe[p].consumer /\ ~x.pipe[p].waitC /\ x.pipe[p].buf # <<>>
           Given == /\ Cared(x, D)
                    /\ p = "in" /\ Listens(x) =>
                         x.sa.waitR \/ x.sa.throttled \/ x.pipe["in"].buf # <<>>
                    /\ p = "out" /\ x.use = "download" => x.pipe["out"].buf # <<>>
<1>1. after_add(x, p) = IF more THEN t ELSE z
  BY DEF after_add
<1>2. /\ Goes(x, z) /\ Due(z) = Due(x) /\ Flagged(x, z, p) /\ z.run.at = "idle"
      /\ z.pipe = x.pipe
  BY IdleTypes
<1>3. x.pipe[p].consumer =>
        /\ Goes(x, t) /\ Due(x) \subseteq Due(t) /\ <<p, "consumer">> \in Due(t)
        /\ Flagged(x, v, p) /\ Same(v, t) /\ t.run.at = "idle"
        /\ t.pipe[p].waitA = x.pipe[p].waitA
  BY WakeConsumerTypes
<1> HIDE DEF z, v, t
<1>4. D \subseteq Due(x) \cup {<<p, "loop">>}
  BY DEF LoopOf
<1>5. Eol(x) # 0 => x.pipe["in"].buf # <<>>
  <2>1. DOMAIN <<>> = {}
    OBVIOUS
  <2>2. QED
    BY <2>1, EolFacts
<1>6. CASE more
  <2>1. /\ Goes(x, t) /\ Due(x) \subseteq Due(t) /\ <<p, "consumer">> \in Due(t)
        /\ Flagged(x, v, p) /\ Same(v, t) /\ t.run.at = "idle"
        /\ t.pipe[p].waitA = x.pipe[p].waitA
    BY <1>3, <1>6
  <2>2. /\ t.use = x.use /\ t.sa = x.sa /\ t.net = x.net /\ t.local = x.local
        /\ t.pipe[p].buf = x.pipe[p].buf
    BY <2>1 DEF Flagged, Same
  <2>3. ASSUME Given PROVE Cared(t, Due(t))
    <3> DEFINE E == Due(t)
    <3>1. D \subseteq E \cup {<<p, "loop">>}
      BY <1>4, <2>1
    <3>2. Cared(x, D)
      BY <2>3
    <3>3. p = "out" => OutSafe(t, E)
      <4> HIDE DEF E, D
      <4>1. SUFFICES ASSUME p = "out" PROVE OutSafe(t, E)
        OBVIOUS
      <4>2. t.use = "download" /\ t.pipe["out"].waitA => <<"out", "adder">> \in E
        BY <2>1, <2>2, <3>1, <3>2, <4>1 DEF Cared, Fed
      <4>3. <<"out", "consumer">> \in E
        BY <2>1, <4>1 DEF E
      <4>4. QED
        BY <4>2, <4>3 DEF OutSafe
    <3>4. p = "in" => InSafe(t, E)
      <4> HIDE DEF E, D
      <4>1. SUFFICES ASSUME p = "in" PROVE InSafe(t, E)
        OBVIOUS
      <4>2. Listens(t) = Listens(x)
        BY <2>2 DEF Listens
      <4>3. Listens(t) /\ t.pipe["in"].waitA =>
              t.sa.waitR \/ t.sa.throttled \/ <<"in", "adder">> \in E
        BY <2>1, <2>2, <3>1, <3>2, <4>1, <4>2 DEF Cared, Heard
      <4>4. <<"in", "consumer">> \in E
        BY <2>1, <4>1 DEF E
      <4>5. QED
        BY <4>3, <4>4 DEF InSafe
    <3> HIDE DEF E, D
    <3>5. Cared(t, E)
      BY <2>1, <3>1, <3>2, <3>3, <3>4, FlagCares
    <3>6. QED
      BY <3>5 DEF E
  <2>4. QED
    BY <1>1, <1>6, <2>1, <2>3
<1>7. CASE ~more
  <2>1. /\ z.use = x.use /\ z.sa = x.sa /\ z.net = x.net /\ z.local = x.local
        /\ z.pipe[p].buf = x.pipe[p].buf
    BY <1>2 DEF Flagged
  <2>2. ASSUME Given PROVE Cared(z, Due(z))
    <3> DEFINE E == Due(z)
    <3>1. D \subseteq E \cup {<<p, "loop">>}
      BY <1>2, <1>4
    <3>2. Cared(x, D)
      BY <2>2
    <3>3. Same(z, z)
      BY DEF Same
    <3>4. p = "out" => OutSafe(z, E)
      <4>1. SUFFICES ASSUME p = "out" PROVE OutSafe(z, E)
        OBVIOUS
      <4>2. <<"out", "consumer">> \in D => <<"out", "consumer">> \in E
        BY <3>1
      <4>3. <<"out", "adder">> \in D => <<"out", "adder">> \in E
        BY <3>1
      <4>4. x.use = "download" => x.pipe["out"].buf # <<>>
        BY <2>2, <4>1
      <4>5. x.pipe["out"].buf # <<>> => x.pipe["out"].waitC
        BY <1>7, <3>2, <4>1 DEF Cared, Written
      <4> HIDE DEF E, D
      <4>6. QED
        BY <1>2, <2>1, <3>2, <4>2, <4>3, <4>4, <4>5 DEF OutSafe, Cared, Written, Fed
    <3>5. p = "in" => InSafe(z, E)
      <4>1. SUFFICES ASSUME p = "in" PROVE InSafe(z, E)
        OBVIOUS
      <4>2. <<"in", "consumer">> \in D => <<"in", "consumer">> \in E
        BY <3>1
      <4>3. <<"in", "adder">> \in D => <<"in", "adder">> \in E
        BY <3>1
      <4>4. Listens(x) => x.sa.waitR \/ x.sa.throttled \/ x.pipe["in"].buf # <<>>
        BY <2>2, <4>1
      <4>5. Listens(x) /\ x.pipe["in"].buf # <<>> => x.pipe["in"].waitC
        BY <1>7, <3>2, <4>1 DEF Cared, Heard
      <4>6. Listens(z) = Listens(x) /\ Unheard(z) = Unheard(x) /\ Eol(z) = Eol(x)
        BY <1>2, <2>1 DEF Listens, Unheard, Eol
      <4>7. Unheard(x) => x.pipe["in"].buf # <<>>
        BY <1>5 DEF Unheard
      <4> HIDE DEF E, D
      <4>8. QED
        BY <1>2, <2>1, <3>2, <4>2, <4>3, <4>4, <4>5, <4>6, <4>7 DEF InSafe, Cared, Heard
    <3> HIDE DEF E, D
    <3>6. Cared(z, E)
      BY <1>2, <3>1, <3>2, <3>3, <3>4, <3>5, FlagCares
    <3>7. QED
      BY <3>6 DEF E
  <2>3. QED
    BY <1>1, <1>2, <1>7, <2>2
<1>8. QED
  BY <1>6, <1>7

(* The end of a consumer's loop: what it left waits for somebody, and if it   *)
(* left nothing more is added.                                                *)
LEMMA AfterConsumeMinds ==
  ASSUME NEW x, Typed(x), Sound(x), NEW p \in Pipes
  PROVE  LET y == after_consume(x, p)
         IN /\ Goes(x, y) /\ y.run.at = "idle"
            /\ /\ Cared(x, Due(x) \cup LoopOf(p))
               /\ p = "in" /\ Listens(x) /\ Unheard(x) =>
                    x.local.postponed \/ x.pipe["in"].errC # "nodata"
               => Cared(y, Due(y))
<1> DEFINE z == Idle(x)
           v == [z EXCEPT !.pipe[p].waitC = TRUE]
           t == NotifyConsumer(v, p, "ok")
           w == [z EXCEPT !.pipe[p].waitA = TRUE]
           u == NotifyAdder(w, p, "ok")
           D == Due(x) \cup LoopOf(p)
           more == x.pipe[p].errC # "nodata" /\ x.pipe[p].buf # <<>>
           Given == /\ Cared(x, D)
                    /\ p = "in" /\ Listens(x) /\ Unheard(x) =>
                         x.local.postponed \/ x.pipe["in"].errC # "nodata"
<1>1. after_consume(x, p) =
        IF ~x.pipe[p].consumer THEN z
        ELSE IF more THEN IF x.pipe[p].waitC THEN z ELSE t
        ELSE IF x.pipe[p].adder THEN IF x.pipe[p].waitA THEN z ELSE u
        ELSE z
  BY DEF after_consume, wake_adder
<1>2. /\ Goes(x, z) /\ Due(z) = Due(x) /\ Flagged(x, z, p) /\ z.run.at = "idle"
      /\ z.pipe = x.pipe
  BY IdleTypes
<1>3. x.pipe[p].consumer =>
        /\ Goes(x, t) /\ Due(x) \subseteq Due(t) /\ <<p, "consumer">> \in Due(t)
        /\ Flagged(x, v, p) /\ Same(v, t) /\ t.run.at = "idle"
        /\ t.pipe[p].waitA = x.pipe[p].waitA
  BY WakeConsumerTypes
<1>4. x.pipe[p].adder =>
        /\ Goes(x, u) /\ Due(x) \subseteq Due(u) /\ <<p, "adder">> \in Due(u)
        /\ Flagged(x, w, p) /\ Same(w, u) /\ u.run.at = "idle"
        /\ u.pipe[p].waitC = x.pipe[p].waitC
  BY WakeAdderTypes
<1> HIDE DEF z, v, t, w, u
<1>5. D \subseteq Due(x) \cup {<<p, "loop">>}
  BY DEF LoopOf
<1>6. Eol(x) # 0 => x.pipe["in"].buf # <<>>
  <2>1. DOMAIN <<>> = {}
    OBVIOUS
  <2>2. QED
    BY <2>1, EolFacts
<1>7. x.pipe["out"].errC # "nodata"
  BY DEF Sound
<1>8. CASE x.pipe[p].consumer /\ more /\ ~x.pipe[p].waitC
  <2>1. /\ Goes(x, t) /\ Due(x) \subseteq Due(t) /\ <<p, "consumer">> \in Due(t)
        /\ Flagged(x, v, p) /\ Same(v, t) /\ t.run.at = "idle"
        /\ t.pipe[p].waitA = x.pipe[p].waitA
    BY <1>3, <1>8
  <2>2. /\ t.use = x.use /\ t.sa = x.sa /\ t.net = x.net /\ t.local = x.local
        /\ t.pipe[p].buf = x.pipe[p].buf
    BY <2>1 DEF Flagged, Same
  <2>3. ASSUME Given PROVE Cared(t, Due(t))
    <3> DEFINE E == Due(t)
    <3>1. D \subseteq E \cup {<<p, "loop">>}
      BY <1>5, <2>1
    <3>2. Cared(x, D)
      BY <2>3
    <3>3. p = "out" => OutSafe(t, E)
      <4> HIDE DEF E, D
      <4>1. SUFFICES ASSUME p = "out" PROVE OutSafe(t, E)
        OBVIOUS
      <4>2. t.use = "download" /\ t.pipe["out"].waitA => <<"out", "adder">> \in E
        BY <2>1, <2>2, <3>1, <3>2, <4>1 DEF Cared, Fed
      <4>3. <<"out", "consumer">> \in E
        BY <2>1, <4>1 DEF E
      <4>4. QED
        BY <4>2, <4>3 DEF OutSafe
    <3>4. p = "in" => InSafe(t, E)
      <4> HIDE DEF E, D
      <4>1. SUFFICES ASSUME p = "in" PROVE InSafe(t, E)
        OBVIOUS
      <4>2. Listens(t) = Listens(x)
        BY <2>2 DEF Listens
      <4>3. Listens(t) /\ t.pipe["in"].waitA =>
              t.sa.waitR \/ t.sa.throttled \/ <<"in", "adder">> \in E
        BY <2>1, <2>2, <3>1, <3>2, <4>1, <4>2 DEF Cared, Heard
      <4>4. <<"in", "consumer">> \in E
        BY <2>1, <4>1 DEF E
      <4>5. QED
        BY <4>3, <4>4 DEF InSafe
    <3> HIDE DEF E, D
    <3>5. Cared(t, E)
      BY <2>1, <3>1, <3>2, <3>3, <3>4, FlagCares
    <3>6. QED
      BY <3>5 DEF E
  <2>4. QED
    BY <1>1, <1>8, <2>1, <2>3
<1>9. CASE x.pipe[p].consumer /\ ~more /\ x.pipe[p].adder /\ ~x.pipe[p].waitA
  <2>1. /\ Goes(x, u) /\ Due(x) \subseteq Due(u) /\ <<p, "adder">> \in Due(u)
        /\ Flagged(x, w, p) /\ Same(w, u) /\ u.run.at = "idle"
        /\ u.pipe[p].waitC = x.pipe[p].waitC
    BY <1>4, <1>9
  <2>2. /\ u.use = x.use /\ u.sa = x.sa /\ u.net = x.net /\ u.local = x.local
        /\ u.pipe[p].buf = x.pipe[p].buf
    BY <2>1 DEF Flagged, Same
  <2>3. ASSUME Given PROVE Cared(u, Due(u))
    <3> DEFINE E == Due(u)
    <3>1. D \subseteq E \cup {<<p, "loop">>}
      BY <1>5, <2>1
    <3>2. Cared(x, D)
      BY <2>3
    <3>3. p = "out" => OutSafe(u, E)
      <4> HIDE DEF E, D
      <4>1. SUFFICES ASSUME p = "out" PROVE OutSafe(u, E)
        OBVIOUS
      <4>2. u.pipe["out"].waitC => u.sa.waitW \/ <<"out", "consumer">> \in E
        BY <2>1, <2>2, <3>1, <3>2, <4>1 DEF Cared, Written
      <4>3. <<"out", "adder">> \in E
        BY <2>1, <4>1 DEF E
      <4>4. QED
        BY <4>2, <4>3 DEF OutSafe
    <3>4. p = "in" => InSafe(u, E)
      <4>1. SUFFICES ASSUME p = "in" PROVE InSafe(u, E)
        OBVIOUS
      <4>2. Listens(u) = Listens(x) /\ Unheard(u) = Unheard(x)
        <5>1. u.pipe["in"].buf = x.pipe["in"].buf
          BY <2>2, <4>1
        <5>2. QED
          BY <2>2, <5>1 DEF Listens, Unheard, Eol
      <4>3. <<"in", "adder">> \in E
        BY <2>1, <4>1
      <4>4. <<"in", "consumer">> \in D => <<"in", "consumer">> \in E
        BY <3>1
      <4>5. Listens(x) /\ Unheard(x) => x.local.postponed
        BY <1>6, <1>9, <2>3, <4>1 DEF Unheard
      <4> HIDE DEF E, D
      <4>6. Listens(x) /\ x.pipe["in"].waitC => x.local.postponed \/ <<"in", "consumer">> \in E
        BY <3>2, <4>4 DEF Cared, Heard
      <4>7. QED
        BY <2>1, <2>2, <4>1, <4>2, <4>3, <4>5, <4>6 DEF InSafe
    <3> HIDE DEF E, D
    <3>5. Cared(u, E)
      BY <2>1, <3>1, <3>2, <3>3, <3>4, FlagCares
    <3>6. QED
      BY <3>5 DEF E
  <2>4. QED
    BY <1>1, <1>9, <2>1, <2>3
<1>10. CASE \/ ~x.pipe[p].consumer
            \/ more /\ x.pipe[p].waitC
            \/ ~more /\ ~x.pipe[p].adder
            \/ ~more /\ x.pipe[p].waitA
  <2>1. /\ z.use = x.use /\ z.sa = x.sa /\ z.net = x.net /\ z.local = x.local
        /\ z.pipe[p].buf = x.pipe[p].buf
    BY <1>2 DEF Flagged
  <2>2. after_consume(x, p) = z
    BY <1>1, <1>10
  <2>3. ASSUME Given PROVE Cared(z, Due(z))
    <3> DEFINE E == Due(z)
    <3>1. D \subseteq E \cup {<<p, "loop">>}
      BY <1>2, <1>5
    <3>2. Cared(x, D)
      BY <2>3
    <3>3. Same(z, z)
      BY DEF Same
    <3>4. p = "out" => OutSafe(z, E)
      <4>1. SUFFICES ASSUME p = "out" PROVE OutSafe(z, E)
        OBVIOUS
      <4>2. <<"out", "consumer">> \in D => <<"out", "consumer">> \in E
        BY <3>1
      <4>3. <<"out", "adder">> \in D => <<"out", "adder">> \in E
        BY <3>1
      <4>4. x.pipe["out"].buf # <<>> => x.pipe["out"].waitC
        BY <1>7, <1>10, <3>2, <4>1 DEF Cared, Written
      <4>5. x.use = "download" /\ x.pipe["out"].buf = <<>> => x.pipe["out"].waitA
        BY <1>10, <3>2, <4>1 DEF Cared, Written, Fed
      <4> HIDE DEF E, D
      <4>6. QED
        BY <1>2, <2>1, <3>2, <4>2, <4>3, <4>4, <4>5 DEF OutSafe, Cared, Written, Fed
    <3>5. p = "in" => InSafe(z, E)
      <4>1. SUFFICES ASSUME p = "in" PROVE InSafe(z, E)
        OBVIOUS
      <4>2. <<"in", "consumer">> \in D => <<"in", "consumer">> \in E
        BY <3>1
      <4>3. <<"in", "adder">> \in D => <<"in", "adder">> \in E
        BY <3>1
      <4>4. Listens(x) => \/ x.pipe["in"].waitC
                          \/ x.pipe["in"].waitA /\ (Unheard(x) => x.local.postponed)
        BY <1>6, <1>10, <2>3, <3>2, <4>1 DEF Cared, Heard, Unheard
      <4>5. Listens(z) = Listens(x) /\ Unheard(z) = Unheard(x) /\ Eol(z) = Eol(x)
        BY <1>2, <2>1 DEF Listens, Unheard, Eol
      <4> HIDE DEF E, D
      <4>6. QED
        BY <1>2, <2>1, <3>2, <4>2, <4>3, <4>4, <4>5 DEF InSafe, Cared, Heard
    <3> HIDE DEF E, D
    <3>6. Cared(z, E)
      BY <1>2, <3>1, <3>2, <3>3, <3>4, <3>5, FlagCares
    <3>7. QED
      BY <3>6 DEF E
  <2>4. QED
    BY <1>2, <2>2, <2>3
<1>11. QED
  BY <1>8, <1>9, <1>10

(* A flag that is set while the loop is on its way.                           *)
LEMMA FlagOn ==
  ASSUME NEW x, NEW p \in Pipes, NEW y, Flagged(x, y, p), NEW D, Cared(x, D), <<p, "loop">> \in D,
         p = "in" => /\ y.pipe[p].waitA => x.pipe[p].waitA \/ x.sa.waitR \/ x.sa.throttled
                     /\ y.pipe[p].waitC => x.pipe[p].waitC \/ x.local.postponed,
         p = "out" => /\ y.pipe[p].waitA => x.pipe[p].waitA \/ x.use # "download"
                      /\ y.pipe[p].waitC => x.pipe[p].waitC \/ x.sa.waitW
  PROVE  Cared(y, D)
<1>1. Same(y, y)
  BY DEF Same
<1>2. p = "out" => OutSafe(y, D)
  BY DEF Flagged, Cared, Written, Fed, OutSafe
<1>3. p = "in" => InSafe(y, D)
  <2>1. SUFFICES ASSUME p = "in" PROVE InSafe(y, D)
    OBVIOUS
  <2>2. Listens(y) = Listens(x)
    BY DEF Listens, Flagged
  <2>3. QED
    BY <2>1, <2>2 DEF Flagged, Cared, Heard, InSafe
<1>4. QED
  BY <1>1, <1>2, <1>3, FlagCares

(* The last error of an adder.                                                *)
LEMMA ErrATypes ==
  ASSUME NEW x, Typed(x), NEW p \in Pipes, NEW e \in Errors
  PROVE  LET y == [x EXCEPT !.pipe[p].errA = e]
         IN /\ Goes(x, y) /\ Due(y) = Due(x) /\ Flagged(x, y, p) /\ y.run = x.run
            /\ y.pipe[p].waitA = x.pipe[p].waitA /\ y.pipe[p].waitC = x.pipe[p].waitC
<1> DEFINE y == [x EXCEPT !.pipe[p].errA = e]
<1>1. x.pipe[p] \in PipeState /\ y.pipe[p] = [x.pipe[p] EXCEPT !.errA = e]
      /\ y.run = x.run /\ DOMAIN y = Fields /\ DOMAIN y.pipe = Pipes
      /\ y.use = x.use /\ y.queue = x.queue /\ y.sa = x.sa /\ y.net = x.net
      /\ y.local = x.local /\ \A q \in Pipes : q # p => y.pipe[q] = x.pipe[q]
  BY DEF Typed, Fields
<1> HIDE DEF y
<1>2. /\ y.pipe[p] \in PipeState /\ y.pipe[p].waitC = x.pipe[p].waitC
      /\ y.pipe[p].waitA = x.pipe[p].waitA /\ y.pipe[p].errC = x.pipe[p].errC
      /\ y.pipe[p].adder = x.pipe[p].adder /\ y.pipe[p].consumer = x.pipe[p].consumer
      /\ y.pipe[p].buf = x.pipe[p].buf
  BY <1>1 DEF PipeState
<1>3. Flagged(x, y, p)
  BY <1>1, <1>2 DEF Flagged
<1>4. y.run \in RunState
  BY <1>1 DEF Typed
<1>5. Sound(x) /\ p = "out" =>
        /\ y.pipe[p].errC # "nodata"
        /\ x.use # "control" /\ ~x.pipe[p].adder => ~y.pipe[p].waitA
  BY <1>2 DEF Sound
<1>6. Goes(x, y) /\ Due(y) = Due(x)
  BY <1>2, <1>3, <1>4, <1>5, FlagTypes
<1>7. QED
  BY <1>1, <1>2, <1>3, <1>6 DEF y

(* It waits from now on.                                                      *)
LEMMA WaitATypes ==
  ASSUME NEW x, Typed(x), NEW p \in Pipes, p = "out" => x.use = "control"
  PROVE  LET y == [x EXCEPT !.pipe[p].waitA = TRUE]
         IN /\ Goes(x, y) /\ Due(y) = Due(x) /\ Flagged(x, y, p) /\ y.run = x.run
            /\ y.pipe[p].waitC = x.pipe[p].waitC
<1> DEFINE y == [x EXCEPT !.pipe[p].waitA = TRUE]
<1>1. x.pipe[p] \in PipeState /\ y.pipe[p] = [x.pipe[p] EXCEPT !.waitA = TRUE]
      /\ y.run = x.run /\ DOMAIN y = Fields /\ DOMAIN y.pipe = Pipes
      /\ y.use = x.use /\ y.queue = x.queue /\ y.sa = x.sa /\ y.net = x.net
      /\ y.local = x.local /\ \A q \in Pipes : q # p => y.pipe[q] = x.pipe[q]
  BY DEF Typed, Fields
<1> HIDE DEF y
<1>2. /\ y.pipe[p] \in PipeState /\ y.pipe[p].waitC = x.pipe[p].waitC
      /\ y.pipe[p].errC = x.pipe[p].errC
      /\ y.pipe[p].adder = x.pipe[p].adder /\ y.pipe[p].consumer = x.pipe[p].consumer
      /\ y.pipe[p].buf = x.pipe[p].buf
  BY <1>1 DEF PipeState
<1>3. Flagged(x, y, p)
  BY <1>1, <1>2 DEF Flagged
<1>4. y.run \in RunState
  BY <1>1 DEF Typed
<1>5. Sound(x) /\ p = "out" =>
        /\ y.pipe[p].errC # "nodata"
        /\ x.use # "control" /\ ~x.pipe[p].adder => ~y.pipe[p].waitA
  BY <1>2 DEF Sound
<1>6. Goes(x, y) /\ Due(y) = Due(x)
  BY <1>2, <1>3, <1>4, <1>5, FlagTypes
<1>7. QED
  BY <1>1, <1>2, <1>3, <1>6 DEF y

(* The last error of a consumer.                                              *)
LEMMA ErrCTypes ==
  ASSUME NEW x, Typed(x), NEW p \in Pipes, NEW e \in Errors, p = "out" => e # "nodata"
  PROVE  LET y == [x EXCEPT !.pipe[p].errC = e]
         IN /\ Goes(x, y) /\ Due(y) = Due(x) /\ Flagged(x, y, p) /\ y.run = x.run
            /\ y.pipe[p].waitA = x.pipe[p].waitA /\ y.pipe[p].waitC = x.pipe[p].waitC
            /\ y.pipe[p].errC = e
<1> DEFINE y == [x EXCEPT !.pipe[p].errC = e]
<1>1. x.pipe[p] \in PipeState /\ y.pipe[p] = [x.pipe[p] EXCEPT !.errC = e]
      /\ y.run = x.run /\ DOMAIN y = Fields /\ DOMAIN y.pipe = Pipes
      /\ y.use = x.use /\ y.queue = x.queue /\ y.sa = x.sa /\ y.net = x.net
      /\ y.local = x.local /\ \A q \in Pipes : q # p => y.pipe[q] = x.pipe[q]
  BY DEF Typed, Fields
<1> HIDE DEF y
<1>2. /\ y.pipe[p] \in PipeState /\ y.pipe[p].waitC = x.pipe[p].waitC
      /\ y.pipe[p].waitA = x.pipe[p].waitA /\ y.pipe[p].errC = e
      /\ y.pipe[p].adder = x.pipe[p].adder /\ y.pipe[p].consumer = x.pipe[p].consumer
      /\ y.pipe[p].buf = x.pipe[p].buf
  BY <1>1 DEF PipeState
<1>3. Flagged(x, y, p)
  BY <1>1, <1>2 DEF Flagged
<1>4. y.run \in RunState
  BY <1>1 DEF Typed
<1>5. Sound(x) /\ p = "out" =>
        /\ y.pipe[p].errC # "nodata"
        /\ x.use # "control" /\ ~x.pipe[p].adder => ~y.pipe[p].waitA
  BY <1>2 DEF Sound
<1>6. Goes(x, y) /\ Due(y) = Due(x)
  BY <1>2, <1>3, <1>4, <1>5, FlagTypes
<1>7. QED
  BY <1>1, <1>2, <1>3, <1>6 DEF y

(* It waits from now on.                                                      *)
LEMMA WaitCTypes ==
  ASSUME NEW x, Typed(x), NEW p \in Pipes
  PROVE  LET y == [x EXCEPT !.pipe[p].waitC = TRUE]
         IN /\ Goes(x, y) /\ Due(y) = Due(x) /\ Flagged(x, y, p) /\ y.run = x.run
            /\ y.pipe[p].waitA = x.pipe[p].waitA /\ y.pipe[p].errC = x.pipe[p].errC
<1> DEFINE y == [x EXCEPT !.pipe[p].waitC = TRUE]
<1>1. x.pipe[p] \in PipeState /\ y.pipe[p] = [x.pipe[p] EXCEPT !.waitC = TRUE]
      /\ y.run = x.run /\ DOMAIN y = Fields /\ DOMAIN y.pipe = Pipes
      /\ y.use = x.use /\ y.queue = x.queue /\ y.sa = x.sa /\ y.net = x.net
      /\ y.local = x.local /\ \A q \in Pipes : q # p => y.pipe[q] = x.pipe[q]
  BY DEF Typed, Fields
<1> HIDE DEF y
<1>2. /\ y.pipe[p] \in PipeState /\ y.pipe[p].waitA = x.pipe[p].waitA
      /\ y.pipe[p].errC = x.pipe[p].errC
      /\ y.pipe[p].adder = x.pipe[p].adder /\ y.pipe[p].consumer = x.pipe[p].consumer
      /\ y.pipe[p].buf = x.pipe[p].buf
  BY <1>1 DEF PipeState
<1>3. Flagged(x, y, p)
  BY <1>1, <1>2 DEF Flagged
<1>4. y.run \in RunState
  BY <1>1 DEF Typed
<1>5. Sound(x) /\ p = "out" =>
        /\ y.pipe[p].errC # "nodata"
        /\ x.use # "control" /\ ~x.pipe[p].adder => ~y.pipe[p].waitA
  BY <1>2 DEF Sound
<1>6. Goes(x, y) /\ Due(y) = Due(x)
  BY <1>2, <1>3, <1>4, <1>5, FlagTypes
<1>7. QED
  BY <1>1, <1>2, <1>3, <1>6 DEF y

(* The loop goes round.                                                       *)
LEMMA AgainTypes ==
  ASSUME NEW x, Typed(x), x.run.loop < MaxLoops, x.run.at # "idle"
  PROVE  LET y == Again(x)
         IN /\ Goes(x, y) /\ Due(y) = Due(x) /\ Flagged(x, y, "in") /\ y.pipe = x.pipe
            /\ y.run.at = x.run.at /\ y.run.pipe = x.run.pipe
            /\ Running(y) = LoopOf(x.run.pipe)
<1> DEFINE n == x.run.loop + 1
           y == [x EXCEPT !.run.loop = n]
<1>1. x.run.loop \in 0..MaxLoops /\ MaxLoops \in Nat /\ x.run \in RunState
  BY ChannelAssumption DEF Typed, RunState
<1>2. n \in 0..MaxLoops /\ n # 0
  BY <1>1
<1> HIDE DEF n
<1>3. /\ y.run = [x.run EXCEPT !.loop = n] /\ y.pipe = x.pipe /\ Flagged(x, y, "in")
  BY DEF Typed, Fields, Flagged
<1> HIDE DEF y
<1>4. y.run \in RunState /\ y.run.at = x.run.at /\ y.run.pipe = x.run.pipe /\ y.run.loop = n
  BY <1>1, <1>2, <1>3 DEF RunState
<1>5. "in" \in Pipes /\ y.pipe["in"] \in PipeState
  BY <1>3 DEF Typed, Pipes
<1>6. Goes(x, y) /\ Due(y) = Due(x)
  BY <1>3, <1>4, <1>5, FlagTypes
<1>7. Running(y) = LoopOf(x.run.pipe)
  BY <1>2, <1>4 DEF Running, LoopOf
<1>8. QED
  BY <1>3, <1>4, <1>6, <1>7 DEF Again, y, n

(* A turn of an adder's loop.                                                 *)
LEMMA AddedMinds ==
  ASSUME NEW x, Typed(x), NEW p \in Pipes, x.run.at = "add", x.run.pipe = p,
         x.run.loop < MaxLoops, NEW err \in LoopErrors,
         p = "out" /\ x.use # "control" => err # "again"
  PROVE  LET y == added(x, p, err)
         IN /\ Goes(x, y)
            /\ /\ Cared(x, Due(x) \cup LoopOf(p)) /\ Looped(x)
               /\ p = "in" /\ err = "again" => x.sa.waitR \/ x.sa.throttled
               /\ p = "in" /\ err \in {"ok", "nobufs"} => x.pipe["in"].buf # <<>>
               /\ p = "out" /\ x.use = "download" /\ err \in {"ok", "nobufs"} =>
                    x.pipe["out"].buf # <<>>
               => Going(y) \/ Tended(y)
<1> DEFINE y == added(x, p, err)
           D == Due(x) \cup LoopOf(p)
           a == [x EXCEPT !.pipe[p].errA = "ok"]
           b == [a EXCEPT !.pipe[p].waitA = TRUE]
           c == [x EXCEPT !.pipe[p].errA = err]
           Given == /\ Cared(x, D) /\ Looped(x)
                    /\ p = "in" /\ err = "again" => x.sa.waitR \/ x.sa.throttled
                    /\ p = "in" /\ err \in {"ok", "nobufs"} => x.pipe["in"].buf # <<>>
                    /\ p = "out" /\ x.use = "download" /\ err \in {"ok", "nobufs"} =>
                         x.pipe["out"].buf # <<>>
           Brought == /\ p = "in" /\ Listens(x) => x.pipe["in"].buf # <<>>
                      /\ p = "out" /\ x.use = "download" => x.pipe["out"].buf # <<>>
           Held == p = "in" /\ Listens(x) =>
                     x.sa.waitR \/ x.sa.throttled \/ x.pipe["in"].buf # <<>>
<1> SUFFICES Goes(x, y) /\ (Given => Going(y) \/ Tended(y))
  BY SMTT(30)
<1>1. \/ err = "again" /\ y = after_add(b, p)
      \/ err = "nodata" /\ ~x.pipe[p].consumer /\ y = after_add(a, p)
      \/ err \in {"nodata", "nobufs"} /\ y = after_add(a, p)
           /\ (err = "nodata" => x.pipe[p].buf # <<>>)
      \/ err = "failed" /\ x.run.loop > 0 /\ y = after_add(c, p)
      \/ y \in {done(x, p, "failed"), done(x, p, "ok"), done(x, p, "nobufs"), done(x, p, err)}
      \/ err = "ok" /\ y = Again(a)
  BY DEF added, LoopErrors
<1>2. {"ok", "failed", "nobufs", err} \subseteq Errors
  BY DEF LoopErrors, Errors
<1>3. <<p, "loop">> \in D
  BY DEF LoopOf
<1> HIDE DEF y
<1>4. /\ Goes(x, a) /\ Due(a) = Due(x) /\ Flagged(x, a, p) /\ a.run = x.run
      /\ a.pipe[p].waitA = x.pipe[p].waitA /\ a.pipe[p].waitC = x.pipe[p].waitC
  BY <1>2, ErrATypes
<1>5. /\ Goes(x, c) /\ Due(c) = Due(x) /\ Flagged(x, c, p) /\ c.run = x.run
      /\ c.pipe[p].waitA = x.pipe[p].waitA /\ c.pipe[p].waitC = x.pipe[p].waitC
  BY <1>2, ErrATypes
<1> HIDE DEF a, c
<1>6. ASSUME NEW v, Goes(x, v), Due(v) = Due(x), Flagged(x, v, p),
             y = after_add(v, p), Given => Cared(v, D),
             Given => Held \/ Brought,
             Given /\ p = "out" /\ x.use = "download" => x.pipe["out"].buf # <<>>
      PROVE  Goes(x, y) /\ (Given => Going(y) \/ Tended(y))
  <2>1. Typed(v)
    BY <1>6 DEF Goes, Types
  <2>2. /\ v.use = x.use /\ v.sa = x.sa /\ v.local = x.local /\ v.pipe[p].buf = x.pipe[p].buf
    BY <1>6 DEF Flagged
  <2>3. Given => /\ Cared(v, Due(v) \cup LoopOf(p))
                 /\ p = "in" /\ Listens(v) =>
                      v.sa.waitR \/ v.sa.throttled \/ v.pipe["in"].buf # <<>>
                 /\ p = "out" /\ v.use = "download" => v.pipe["out"].buf # <<>>
    <3>1. Listens(v) = Listens(x)
      BY <2>2 DEF Listens
    <3>2. Given => Cared(v, Due(v) \cup LoopOf(p))
      BY <1>6
    <3>3. Given => (p = "in" /\ Listens(v) =>
                      v.sa.waitR \/ v.sa.throttled \/ v.pipe["in"].buf # <<>>)
      BY <1>6, <2>2, <3>1
    <3>4. Given => (p = "out" /\ v.use = "download" => v.pipe["out"].buf # <<>>)
      BY <1>6, <2>2
    <3> HIDE DEF Given
    <3>5. QED
      BY <3>2, <3>3, <3>4
  <2> HIDE DEF Given
  <2>4. Goes(v, y) /\ y.run.at = "idle" /\ (Given => Cared(y, Due(y)))
    BY <1>6, <2>1, <2>3, AfterAddMinds
  <2>5. Given => Tended(y)
    <3>1. Running(y) = {} /\ Due(y) \cup {} = Due(y)
      BY <2>4 DEF Running
    <3>2. Looped(y)
      BY <2>4 DEF Looped
    <3>3. QED
      BY <2>4, <3>1, <3>2 DEF Tended
  <2>6. Goes(x, y)
    BY <1>6, <2>4, GoesFurther
  <2>7. QED
    BY <2>5, <2>6
<1>7. Cared(x, D) => Cared(a, D)
  BY <1>3, <1>4, FlagOn
<1>8. Cared(x, D) => Cared(c, D)
  BY <1>3, <1>5, FlagOn
<1>9. CASE err = "again" /\ y = after_add(b, p)
  <2>1. Typed(a) /\ a.use = x.use
    BY <1>4 DEF Goes, Types
  <2>2. p = "out" => x.use = "control"
    BY <1>9
  <2>3. /\ Goes(a, b) /\ Due(b) = Due(a) /\ Flagged(a, b, p) /\ b.run = a.run
        /\ b.pipe[p].waitC = a.pipe[p].waitC
    BY <2>1, <2>2, WaitATypes
  <2> HIDE DEF b
  <2>4. Goes(x, b) /\ Due(b) = Due(x) /\ Flagged(x, b, p)
    <3>1. Goes(x, b)
      BY <1>4, <2>3, GoesFurther
    <3>2. Flagged(x, b, p)
      BY <1>4, <2>3 DEF Flagged
    <3>3. QED
      BY <1>4, <2>3, <3>1, <3>2
  <2>5. Given => Cared(b, D)
    <3>1. x.use = "control" => x.use # "download"
      OBVIOUS
    <3>2. p = "out" => /\ b.pipe[p].waitA => x.pipe[p].waitA \/ x.use # "download"
                       /\ b.pipe[p].waitC => x.pipe[p].waitC \/ x.sa.waitW
      BY <1>4, <2>2, <2>3
    <3>3. Given /\ p = "in" =>
            /\ b.pipe[p].waitA => x.pipe[p].waitA \/ x.sa.waitR \/ x.sa.throttled
            /\ b.pipe[p].waitC => x.pipe[p].waitC \/ x.local.postponed
      BY <1>4, <1>9, <2>3
    <3>4. ASSUME Given PROVE Cared(b, D)
      <4>1. Cared(x, D)
        BY <3>4
      <4>2. p = "in" =>
              /\ b.pipe[p].waitA => x.pipe[p].waitA \/ x.sa.waitR \/ x.sa.throttled
              /\ b.pipe[p].waitC => x.pipe[p].waitC \/ x.local.postponed
        BY <3>3, <3>4
      <4> HIDE DEF D
      <4>3. QED
        BY <1>3, <2>4, <3>2, <4>1, <4>2, FlagOn
    <3>5. QED
      BY <3>4
  <2>6. Given => Held
    BY <1>9
  <2>7. p = "out" => x.use # "download"
    BY <2>2
  <2>8. QED
    BY <1>6, <1>9, <2>4, <2>5, <2>6, <2>7
<1>10. CASE err = "nodata" /\ ~x.pipe[p].consumer /\ y = after_add(a, p)
  <2>1. Given => (p = "in" => ~Listens(x)) /\ p # "out"
    BY <1>10 DEF Cared, Heard, Written
  <2>2. QED
    BY <1>4, <1>6, <1>7, <1>10, <2>1
<1>11. CASE err \in {"nodata", "nobufs"} /\ y = after_add(a, p)
            /\ (err = "nodata" => x.pipe[p].buf # <<>>)
  <2>1. Given => Brought
    BY <1>11
  <2>2. QED
    BY <1>4, <1>6, <1>7, <1>11, <2>1
<1>12. CASE err = "failed" /\ x.run.loop > 0 /\ y = after_add(c, p)
  <2>1. Given => Brought
    BY <1>12 DEF Looped
  <2>2. QED
    BY <1>5, <1>6, <1>8, <1>12, <2>1
<1>13. CASE y \in {done(x, p, "failed"), done(x, p, "ok"), done(x, p, "nobufs"), done(x, p, err)}
  <2>1. Goes(x, y) /\ <<p, "done">> \in Due(y)
    BY <1>2, <1>13, DoneTypes
  <2>2. <<p, "done">> \in Dones
    BY DEF Dones
  <2>3. QED
    BY <2>1, <2>2 DEF Going
<1>14. CASE err = "ok" /\ y = Again(a)
  <2>1. Typed(a)
    BY <1>4 DEF Goes, Types
  <2>2. /\ Goes(a, y) /\ Due(y) = Due(a) /\ Flagged(a, y, "in") /\ y.pipe = a.pipe
        /\ y.run.at = "add" /\ y.run.pipe = p /\ Running(y) = LoopOf(p)
    BY <1>4, <1>14, <2>1, AgainTypes
  <2>3. Goes(x, y)
    BY <1>4, <2>2, GoesFurther
  <2>4. ASSUME Given PROVE Tended(y)
    <3>1. Cared(a, D)
      BY <1>7, <2>4
    <3>2. Same(y, y) /\ Due(y) \cup Running(y) = D
      BY <1>4, <2>2 DEF Same
    <3>3. /\ y.use = x.use /\ y.local = x.local
          /\ y.pipe[p].buf = x.pipe[p].buf
      BY <1>4, <2>2 DEF Flagged
    <3>4. Listens(y) = Listens(x)
      BY <3>3 DEF Listens
    <3>5. Looped(y)
      BY <1>14, <2>2, <2>4, <3>3, <3>4 DEF Looped
    <3>6. Cared(y, D)
      <4>1. y.pipe["in"] = a.pipe["in"]
        BY <2>2
      <4> HIDE DEF D
      <4>2. InSafe(y, D)
        <5>1. Listens(y) = Listens(a) /\ Unheard(y) = Unheard(a)
          BY <2>2 DEF Flagged, Listens, Unheard, Eol
        <5>2. QED
          BY <2>2, <3>1, <4>1, <5>1 DEF Flagged, Cared, Heard, InSafe
      <4>3. "in" \in Pipes
        BY DEF Pipes
      <4>4. QED
        BY <2>2, <3>1, <3>2, <4>2, <4>3, FlagCares
    <3>7. QED
      BY <3>2, <3>5, <3>6 DEF Tended
  <2>5. QED
    BY <2>3, <2>4
<1>15. QED
  <2> HIDE DEF Given
  <2>1. QED
    BY <1>1, <1>9, <1>10, <1>11, <1>12, <1>13, <1>14

(* A turn of a consumer's loop.                                               *)
LEMMA ConsumedMinds ==
  ASSUME NEW x, Typed(x), Sound(x), NEW p \in Pipes, x.run.at = "consume", x.run.pipe = p,
         x.run.loop < MaxLoops, NEW err \in LoopErrors,
         p = "out" => err \in {"ok", "again", "failed"}
  PROVE  LET y == consumed(x, p, err)
         IN /\ Goes(x, y)
            /\ /\ Cared(x, Due(x) \cup LoopOf(p))
               /\ p = "in" /\ err = "again" => x.local.postponed
               /\ p = "in" /\ err = "nodata" => ~Unheard(x)
               /\ p = "out" /\ err = "again" => x.sa.waitW
               => Going(y) \/ Tended(y)
<1> DEFINE y == consumed(x, p, err)
           D == Due(x) \cup LoopOf(p)
           a == [x EXCEPT !.pipe[p].errC = err]
           b == [a EXCEPT !.pipe[p].waitC = TRUE]
           Given == /\ Cared(x, D)
                    /\ p = "in" /\ err = "again" => x.local.postponed
                    /\ p = "in" /\ err = "nodata" => ~Unheard(x)
                    /\ p = "out" /\ err = "again" => x.sa.waitW
<1> SUFFICES Goes(x, y) /\ (Given => Going(y) \/ Tended(y))
  OBVIOUS
<1>1. \/ err = "ok" /\ y = Again(a)
      \/ err = "again" /\ y = after_consume(b, p)
      \/ err = "nodata" /\ y = after_consume(a, p)
      \/ err \in {"nobufs", "failed"} /\ y = done(a, p, err)
  BY DEF consumed, LoopErrors
<1>2. err \in Errors /\ (p = "out" => err # "nodata")
  BY DEF LoopErrors, Errors
<1>3. <<p, "loop">> \in D
  BY DEF LoopOf
<1> HIDE DEF y
<1>4. /\ Goes(x, a) /\ Due(a) = Due(x) /\ Flagged(x, a, p) /\ a.run = x.run
      /\ a.pipe[p].waitA = x.pipe[p].waitA /\ a.pipe[p].waitC = x.pipe[p].waitC
      /\ a.pipe[p].errC = err
  BY <1>2, ErrCTypes
<1> HIDE DEF a
<1>5. Typed(a) /\ Sound(a) /\ a.use = x.use /\ a.sa = x.sa /\ a.local = x.local
  BY <1>4 DEF Goes, Types, Flagged
<1>6. Cared(x, D) => Cared(a, D)
  BY <1>3, <1>4, FlagOn
<1>7. ASSUME NEW v, Goes(x, v), Due(v) = Due(x), Flagged(x, v, p), y = after_consume(v, p),
             Given => Cared(v, D),
             Given => (p = "in" /\ Unheard(x) => x.local.postponed)
      PROVE  Goes(x, y) /\ (Given => Going(y) \/ Tended(y))
  <2>1. Typed(v) /\ Sound(v)
    BY <1>7 DEF Goes, Types
  <2>2. v.use = x.use /\ v.local = x.local /\ v.pipe[p].buf = x.pipe[p].buf
    BY <1>7 DEF Flagged
  <2>3. Given => /\ Cared(v, Due(v) \cup LoopOf(p))
                 /\ p = "in" /\ Listens(v) /\ Unheard(v) =>
                      v.local.postponed \/ v.pipe["in"].errC # "nodata"
    <3>1. Given => Cared(v, Due(v) \cup LoopOf(p))
      BY <1>7
    <3>2. p = "in" => Unheard(v) = Unheard(x)
      BY <2>2 DEF Unheard, Eol
    <3> HIDE DEF Given
    <3>3. QED
      BY <1>7, <2>2, <3>1, <3>2
  <2> HIDE DEF Given
  <2>4. Goes(v, y) /\ y.run.at = "idle" /\ (Given => Cared(y, Due(y)))
    BY <1>7, <2>1, <2>3, AfterConsumeMinds
  <2>5. Given => Tended(y)
    <3>1. Running(y) = {} /\ Due(y) \cup {} = Due(y)
      BY <2>4 DEF Running
    <3>2. Looped(y)
      BY <2>4 DEF Looped
    <3>3. QED
      BY <2>4, <3>1, <3>2 DEF Tended
  <2>6. Goes(x, y)
    BY <1>7, <2>4, GoesFurther
  <2>7. QED
    BY <2>5, <2>6
<1>8. CASE err = "ok" /\ y = Again(a)
  <2>1. /\ Goes(a, y) /\ Due(y) = Due(a) /\ Flagged(a, y, "in") /\ y.pipe = a.pipe
        /\ y.run.at = "consume" /\ y.run.pipe = p /\ Running(y) = LoopOf(p)
    BY <1>4, <1>5, <1>8, AgainTypes
  <2>2. Goes(x, y)
    BY <1>4, <2>1, GoesFurther
  <2>3. ASSUME Given PROVE Tended(y)
    <3>1. Cared(a, D)
      BY <1>6, <2>3
    <3>2. Same(y, y) /\ Due(y) \cup Running(y) = D
      BY <1>4, <2>1 DEF Same
    <3>3. Looped(y)
      BY <1>4, <1>8, <2>1 DEF Looped
    <3>4. Cared(y, D)
      <4>1. y.pipe["in"] = a.pipe["in"]
        BY <2>1
      <4> HIDE DEF D
      <4>2. InSafe(y, D)
        <5>1. Listens(y) = Listens(a) /\ Unheard(y) = Unheard(a)
          BY <2>1 DEF Flagged, Listens, Unheard, Eol
        <5>2. QED
          BY <2>1, <3>1, <4>1, <5>1 DEF Flagged, Cared, Heard, InSafe
      <4>3. "in" \in Pipes
        BY DEF Pipes
      <4>4. QED
        BY <2>1, <3>1, <3>2, <4>2, <4>3, FlagCares
    <3>5. QED
      BY <3>2, <3>3, <3>4 DEF Tended
  <2>4. QED
    BY <2>2, <2>3
<1>9. CASE err = "again" /\ y = after_consume(b, p)
  <2>1. /\ Goes(a, b) /\ Due(b) = Due(a) /\ Flagged(a, b, p) /\ b.run = a.run
        /\ b.pipe[p].waitA = a.pipe[p].waitA
    BY <1>5, WaitCTypes
  <2> HIDE DEF b
  <2>2. Goes(x, b) /\ Due(b) = Due(x) /\ Flagged(x, b, p)
    <3>1. Goes(x, b)
      BY <1>4, <2>1, GoesFurther
    <3>2. Flagged(x, b, p)
      BY <1>4, <2>1 DEF Flagged
    <3>3. QED
      BY <1>4, <2>1, <3>1, <3>2
  <2>3. ASSUME Given PROVE Cared(b, D)
    <3>1. Cared(x, D)
      BY <2>3
    <3>2. /\ p = "in" => x.local.postponed
          /\ p = "out" => x.sa.waitW
      BY <1>9, <2>3
    <3> HIDE DEF D
    <3>3. QED
      BY <1>3, <1>4, <2>1, <2>2, <3>1, <3>2, FlagOn
  <2>4. Given => (p = "in" /\ Unheard(x) => x.local.postponed)
    BY <1>9
  <2>5. QED
    BY <1>7, <1>9, <2>2, <2>3, <2>4
<1>10. CASE err = "nodata" /\ y = after_consume(a, p)
  <2>1. Given => (p = "in" /\ Unheard(x) => x.local.postponed)
    BY <1>10
  <2>2. QED
    BY <1>4, <1>6, <1>7, <1>10, <2>1
<1>11. CASE err \in {"nobufs", "failed"} /\ y = done(a, p, err)
  <2>1. Goes(a, y) /\ <<p, "done">> \in Due(y)
    BY <1>2, <1>5, <1>11, DoneTypes
  <2>2. <<p, "done">> \in Dones
    BY DEF Dones
  <2>3. Goes(x, y)
    BY <1>4, <2>1, GoesFurther
  <2>4. QED
    BY <2>1, <2>2, <2>3 DEF Going
<1>12. QED
  <2> HIDE DEF Given
  <2>1. QED
    BY <1>1, <1>8, <1>9, <1>10, <1>11

-----------------------------------------------------------------------------
(* The steps of the loops *)

(* What is read does not empty a buffer.                                      *)
LEMMA ReadsKeep ==
  ASSUME NEW x, Typed(x)
  PROVE  /\ \A r : r = socket_read(x) =>
              /\ Listens(r[2]) = Listens(x)
              /\ x.pipe["in"].buf # <<>> => r[2].pipe["in"].buf # <<>>
         /\ \A r \in read_file(x) :
              x.pipe["out"].buf # <<>> => r[2].pipe["out"].buf # <<>>
<1> DEFINE b == x.pipe["in"].buf
           o == x.pipe["out"].buf
<1>1. b \in Seq(Units) /\ o \in Seq(Units) /\ x.net.avail \in Seq(Units)
  BY DEF Typed, Pipes, PipeState, NetState
<1>2. ASSUME NEW r, r = socket_read(x)
      PROVE  Listens(r[2]) = Listens(x) /\ (b # <<>> => r[2].pipe["in"].buf # <<>>)
  <2> DEFINE n == Min2(ReadLimit(x), Len(x.net.avail))
             e == SubSeq(x.net.avail, 1, n)
             c == b \o e
             d == SubSeq(x.net.avail, n + 1, Len(x.net.avail))
             z == [x EXCEPT !.pipe["in"].buf = c, !.net.avail = d]
             t == [x EXCEPT !.sa.throttled = TRUE]
             w == [x EXCEPT !.sa.waitR = TRUE]
  <2>1. r[2] \in {x, t, w} \/ (r[2] = z /\ n > 0)
    BY <1>2 DEF socket_read, Throttles
  <2>2. n > 0 /\ b # <<>> => c # <<>>
    <3> SUFFICES ASSUME n > 0, b # <<>> PROVE c # <<>>
      OBVIOUS
    <3> DEFINE k == ReadLimit(x)
               m == Len(x.net.avail)
    <3>0. k \in Int /\ m \in Int /\ n = Min2(k, m)
      BY <1>1, ChannelAssumption, SMTT(30) DEF ReadLimit
    <3> HIDE DEF k, m, n
    <3>1. n \in Int
      BY <3>0, Lesser
    <3>2. n <= Len(x.net.avail)
      BY <3>0, Lesser DEF m
    <3>3. e \in Seq(Units)
      BY <1>1, <3>1, <3>2
    <3> HIDE DEF e
    <3>4. Len(c) = Len(b) + Len(e) /\ Len(b) \in Nat /\ Len(e) \in Nat /\ Len(b) # 0
      BY <1>1, <3>3
    <3>5. Len(c) # 0
      BY <3>4
    <3> HIDE DEF c
    <3>6. QED
      BY <3>5
  <2> HIDE DEF n, c, d
  <2>3. /\ z.local = x.local /\ z.use = x.use /\ z.pipe["in"].buf = c
        /\ t.local = x.local /\ t.use = x.use /\ t.pipe = x.pipe
        /\ w.local = x.local /\ w.use = x.use /\ w.pipe = x.pipe
    BY DEF Typed, Fields, Pipes, PipeState
  <2> HIDE DEF z, t, w
  <2>4. QED
    BY <2>1, <2>2, <2>3 DEF Listens
<1>3. ASSUME NEW r \in read_file(x), o # <<>> PROVE r[2].pipe["out"].buf # <<>>
  <2>1. r[1] \in {"ok", "nobufs"} \/ r[2] = x
    BY <1>3 DEF read_file
  <2>2. r[1] \in {"ok", "nobufs"} => r[2].pipe["out"].buf # <<>>
    BY <1>3, ReadFileMinds
  <2>3. QED
    BY <1>3, <2>1, <2>2
<1>4. QED
  BY <1>2, <1>3

(* Who is to be called first is of the output of a control connection.        *)
LEMMA FirstCares ==
  ASSUME NEW x, NEW D, NEW E, Cared(x, D),
         D \subseteq E \cup {<<"in", "first">>, <<"out", "first">>},
         x.use = "control" /\ <<"out", "first">> \in D => <<"out", "first">> \in E
  PROVE  Cared(x, E)
<1>1. Written(x, E)
  BY DEF Cared, Written
<1>2. Heard(x, E)
  BY DEF Cared, Heard
<1>3. Fed(x, E)
  BY DEF Cared, Fed
<1>4. QED
  BY <1>1, <1>2, <1>3 DEF Cared

(* When no loop runs what is on its way is in the queue.                      *)
LEMMA IdleTended ==
  ASSUME NEW x, x.run.at = "idle", Cared(x, Due(x)) PROVE Tended(x)
<1>1. Due(x) \cup Running(x) = Due(x)
  BY DEF Running
<1>2. QED
  BY <1>1 DEF Tended, Looped

(* A turn of the loop of an adder.                                            *)
LEMMA AddStepMinds ==
  ASSUME Typed(s), AddStep
  PROVE  Goes(s, s') /\ (Tended(s) => Going(s') \/ Tended(s'))
<1> DEFINE p == s.run.pipe
           D == Due(s) \cup LoopOf(p)
<1>1. p \in Pipes /\ s.run.at = "add" /\ s.run.loop \in 0..MaxLoops /\ MaxLoops \in Nat \ {0}
  BY ChannelAssumption DEF Typed, RunState, AddStep
<1>2. ASSUME Tended(s)
      PROVE  Cared(s, Due(s) \cup Running(s)) /\ Looped(s) /\ Running(s) \subseteq LoopOf(p) \cup {<<p, "first">>}
             /\ (s.run.loop # 0 => Running(s) = LoopOf(p))
  BY <1>1, <1>2 DEF Tended, Running, LoopOf
<1>3. ASSUME Tended(s), ~(p = "out" /\ s.use = "control") \/ s.run.loop # 0
      PROVE  Cared(s, D)
  <2>1. /\ Cared(s, Due(s) \cup Running(s)) /\ Running(s) \subseteq LoopOf(p) \cup {<<p, "first">>}
        /\ (s.run.loop # 0 => Running(s) = LoopOf(p))
    BY <1>2, <1>3
  <2>2. Due(s) \cup Running(s) \subseteq D \cup {<<"in", "first">>, <<"out", "first">>}
    BY <1>1, <2>1 DEF Pipes
  <2>3. <<"out", "first">> \notin Due(s)
    <3>1. {} \in SUBSET Loops
      OBVIOUS
    <3>2. QED
      BY <3>1, DueFacts
  <2>4. s.use = "control" /\ <<"out", "first">> \in Due(s) \cup Running(s) => <<"out", "first">> \in D
    BY <1>1, <1>3, <2>1, <2>3 DEF Pipes, LoopOf
  <2> HIDE DEF D
  <2>5. QED
    BY <2>1, <2>2, <2>4, FirstCares
<1>4. CASE s' = after_add(s, p) /\ (~s.pipe[p].adder \/ s.run.loop = MaxLoops)
  <2>1. Goes(s, s') /\ s'.run.at = "idle"
    BY <1>1, <1>4, AfterAddMinds
  <2>2. ASSUME Tended(s) PROVE Tended(s')
    <3>1. Cared(s, Due(s) \cup Running(s)) /\ Looped(s)
      BY <1>2, <2>2
    <3>2. p = "out" /\ s.use = "control" => s.run.loop # 0
      BY <1>1, <1>4, <3>1 DEF Cared, Written
    <3>3. Cared(s, D)
      BY <1>3, <2>2, <3>2
    <3>4. p = "in" /\ Listens(s) => s.sa.waitR \/ s.sa.throttled \/ s.pipe["in"].buf # <<>>
      BY <1>1, <1>4, <3>1 DEF Cared, Heard, Looped
    <3>5. p = "out" /\ s.use = "download" => s.pipe["out"].buf # <<>>
      BY <1>1, <1>4, <3>1 DEF Cared, Fed, Looped
    <3>6. Cared(s', Due(s'))
      BY <1>1, <1>4, <3>3, <3>4, <3>5, AfterAddMinds
    <3>7. QED
      BY <2>1, <3>6, IdleTended
  <2>3. QED
    BY <2>1, <2>2
<1>5. ASSUME NEW r \in AddToBuffer(s, p), s.run.loop < MaxLoops, s' = added(r[2], p, r[1])
      PROVE  Goes(s, s') /\ (Tended(s) => Going(s') \/ Tended(s'))
  <2> DEFINE x == r[2]
  <2>1. /\ Goes(s, x) /\ x.run = s.run /\ r[1] \in LoopErrors
        /\ p = "out" /\ s.use # "control" => r[1] # "again"
        /\ Tended(s) =>
             /\ Cared(x, Due(x) \cup LoopOf(p)) /\ Looped(x)
             /\ p = "in" /\ r[1] = "again" => x.sa.waitR \/ x.sa.throttled
             /\ p = "in" /\ r[1] \in {"ok", "nobufs"} => x.pipe["in"].buf # <<>>
             /\ p = "out" /\ x.use = "download" /\ r[1] \in {"ok", "nobufs"} =>
                  x.pipe["out"].buf # <<>>
    <3>1. CASE p = "in"
      <4>1. r = socket_read(s)
        BY <1>5, <3>1 DEF AddToBuffer
      <4>2. LoopOf(p) = Line
        BY <3>1 DEF LoopOf, Line
      <4>3. /\ Goes(s, x) /\ x.run = s.run
            /\ r[1] \in {"ok", "again", "nodata", "nobufs", "failed"}
            /\ Cared(s, D) => Cared(x, Due(x) \cup LoopOf(p))
            /\ r[1] \in {"ok", "nobufs"} => x.pipe["in"].buf # <<>>
            /\ r[1] = "again" => x.sa.waitR \/ x.sa.throttled
        BY <4>1, <4>2, SocketReadMinds
      <4>4. Listens(x) = Listens(s) /\ (s.pipe["in"].buf # <<>> => x.pipe["in"].buf # <<>>)
        BY <4>1, ReadsKeep
      <4> HIDE DEF D
      <4>5. Tended(s) => Looped(x)
        BY <1>1, <1>2, <3>1, <4>3, <4>4 DEF Looped
      <4>6. Tended(s) => Cared(s, D)
        BY <1>3, <3>1
      <4>7. QED
        BY <3>1, <4>3, <4>5, <4>6 DEF LoopErrors
    <3>2. CASE p = "out" /\ s.use = "control"
      <4>1. r = add_streamed(s)
        BY <1>5, <3>2 DEF AddToBuffer
      <4>2. LoopOf(p) = Round
        BY <3>2 DEF LoopOf, Round
      <4>3. /\ Goes(s, x) /\ x.run = s.run /\ r[1] \in {"ok", "again"} /\ x.use = s.use
            /\ Cared(s, Due(s) \cup Round \cup Uncalled) => Cared(x, Due(x) \cup Round)
        BY <3>2, <4>1, AddStreamedMinds DEF Goes, Types
      <4>4. Looped(x)
        BY <1>1, <3>2, <4>3 DEF Looped
      <4>5. ASSUME Tended(s) PROVE Cared(s, Due(s) \cup Round \cup Uncalled)
        <5>1. Due(s) \cup Running(s) \subseteq Due(s) \cup Round \cup Uncalled
          BY <1>2, <3>2, <4>2, <4>5 DEF Uncalled
        <5>2. Same(s, s)
          BY DEF Same
        <5>3. Cared(s, Due(s) \cup Running(s))
          BY <1>2, <4>5
        <5>4. QED
          BY <5>1, <5>2, <5>3, MoreCares
      <4>6. QED
        BY <3>2, <4>2, <4>3, <4>4, <4>5 DEF LoopErrors
    <3>3. CASE p = "out" /\ s.use # "control"
      <4>1. r \in read_file(s)
        BY <1>5, <3>3 DEF AddToBuffer
      <4>2. LoopOf(p) = Round
        BY <3>3 DEF LoopOf, Round
      <4>3. /\ Goes(s, x) /\ x.run = s.run /\ x.use = s.use
            /\ r[1] \in {"ok", "nodata", "nobufs", "failed"}
            /\ Cared(s, D) => Cared(x, Due(x) \cup LoopOf(p))
            /\ r[1] \in {"ok", "nobufs"} => x.pipe["out"].buf # <<>>
        BY <3>3, <4>1, <4>2, ReadFileMinds DEF Goes, Types
      <4>4. s.pipe["out"].buf # <<>> => x.pipe["out"].buf # <<>>
        BY <4>1, ReadsKeep
      <4> HIDE DEF D
      <4>5. Tended(s) => Looped(x)
        BY <1>1, <1>2, <3>3, <4>3, <4>4 DEF Looped
      <4>6. Tended(s) => Cared(s, D)
        BY <1>3, <3>3
      <4>7. QED
        BY <3>3, <4>3, <4>5, <4>6 DEF LoopErrors
    <3>4. QED
      BY <1>1, <3>1, <3>2, <3>3 DEF Pipes
  <2> HIDE DEF x
  <2>2. /\ Typed(x) /\ x.use = s.use /\ x.run.at = "add" /\ x.run.pipe = p
        /\ x.run.loop < MaxLoops
    BY <1>1, <1>5, <2>1 DEF Goes, Types
  <2>3. /\ Goes(x, s')
        /\ Tended(s) => Going(s') \/ Tended(s')
    <3> HIDE DEF p
    <3>0. s' = added(x, p, r[1]) /\ (p = "out" /\ x.use # "control" => r[1] # "again")
      BY <1>5, <2>1, <2>2 DEF x
    <3>1. QED
      BY <1>1, <2>1, <2>2, <3>0, AddedMinds
  <2>4. QED
    BY <2>1, <2>3, GoesFurther
<1>6. QED
  BY <1>4, <1>5 DEF AddStep

(* A turn of the loop of a consumer.                                          *)
LEMMA ConsumeStepMinds ==
  ASSUME Typed(s), Sound(s), ConsumeStep
  PROVE  Goes(s, s') /\ (Tended(s) => Going(s') \/ Tended(s'))
<1> DEFINE p == s.run.pipe
           D == Due(s) \cup LoopOf(p)
           more == s.pipe[p].consumer /\ s.pipe[p].buf # <<>> /\ s.run.loop < MaxLoops
<1>1. p \in Pipes /\ s.run.at = "consume" /\ s.run.loop \in 0..MaxLoops /\ MaxLoops \in Nat \ {0}
  BY ChannelAssumption DEF Typed, RunState, ConsumeStep
<1>2. Tended(s) => Cared(s, D) /\ Looped(s)
  <2>1. Running(s) = LoopOf(p)
    BY <1>1 DEF Running, LoopOf
  <2>2. QED
    BY <2>1 DEF Tended
<1>3. ~s.sa.socket /\ Goes(s, s') => Going(s')
  BY DEF Goes, Going
<1>4. CASE ~more /\ s' = after_consume(s, p)
  <2>1. Goes(s, s') /\ s'.run.at = "idle"
    BY <1>1, <1>4, AfterConsumeMinds
  <2>2. ASSUME Tended(s) PROVE Tended(s')
    <3>1. Cared(s, D) /\ Looped(s)
      BY <1>2, <2>2
    <3>2. Unheard(s) => s.pipe["in"].buf # <<>>
      <4>1. Eol(s) # 0 => \E i : i \in DOMAIN s.pipe["in"].buf
        BY EolFacts
      <4>2. DOMAIN <<>> = {}
        OBVIOUS
      <4>3. QED
        BY <4>1, <4>2 DEF Unheard
    <3>3. p = "in" /\ Listens(s) => s.pipe["in"].consumer
      BY <3>1 DEF Cared, Heard
    <3>4. s.run.loop < MaxLoops \/ s.run.loop > 0
      BY <1>1
    <3>5. p = "in" /\ Listens(s) /\ Unheard(s) => s.local.postponed \/ s.pipe["in"].errC # "nodata"
      BY <1>1, <1>4, <3>1, <3>2, <3>3, <3>4 DEF Looped
    <3> HIDE DEF p
    <3>6. Cared(s', Due(s'))
      BY <1>1, <1>4, <3>1, <3>5, AfterConsumeMinds
    <3>7. QED
      BY <2>1, <3>6, IdleTended
  <2>3. QED
    BY <2>1, <2>2
<1>5. ASSUME NEW r \in ConsumeBuffer(s, p), more, s' = consumed(r[2], p, r[1])
      PROVE  Goes(s, s') /\ (Tended(s) => Going(s') \/ Tended(s'))
  <2> DEFINE x == r[2]
  <2>1. /\ Goes(s, x) /\ x.run = s.run /\ r[1] \in LoopErrors
        /\ p = "out" => r[1] \in {"ok", "again", "failed"}
        /\ s.sa.socket /\ Tended(s) =>
             /\ Cared(x, Due(x) \cup LoopOf(p))
             /\ p = "in" /\ r[1] = "again" => x.local.postponed
             /\ p = "in" /\ r[1] = "nodata" => ~Unheard(x)
             /\ p = "out" /\ r[1] = "again" => x.sa.waitW
    <3>1. CASE p = "out"
      <4>1. PICK flushed \in BOOLEAN : r = socket_write(s, flushed)
        BY <1>5, <3>1 DEF ConsumeBuffer
      <4>2. LoopOf(p) = Round /\ s.pipe["out"].buf # <<>>
        BY <1>5, <3>1 DEF LoopOf, Round
      <4>3. /\ Goes(s, x) /\ x.run = s.run /\ r[1] \in {"ok", "again", "failed"}
            /\ s.sa.socket /\ s.pipe["out"].buf # <<>> /\ Cared(s, D) =>
                 Cared(x, Due(x) \cup LoopOf(p))
            /\ r[1] = "again" /\ s.sa.socket => x.sa.waitW
        BY <4>1, <4>2, SocketWriteMinds
      <4> HIDE DEF D, x
      <4>4. QED
        BY <1>2, <3>1, <4>2, <4>3 DEF LoopErrors
    <3>2. CASE p = "in" /\ s.use = "control"
      <4>1. r \in consume_line(s)
        BY <1>5, <3>2 DEF ConsumeBuffer
      <4>2. LoopOf(p) = Line
        BY <3>2 DEF LoopOf, Line
      <4>3. /\ Goes(s, x) /\ x.run = s.run /\ r[1] \in {"ok", "again", "nodata", "nobufs"}
            /\ Cared(s, D) => Cared(x, Due(x) \cup LoopOf(p))
            /\ r[1] = "nodata" => Eol(x) = 0
            /\ r[1] = "again" => x.local.postponed
        BY <3>2, <4>1, <4>2, ConsumeLineMinds
      <4>4. x.use = "control"
        BY <3>2, <4>3 DEF Goes, Types
      <4> HIDE DEF D, x
      <4>5. QED
        BY <1>2, <3>2, <4>3, <4>4 DEF LoopErrors, Unheard
    <3>3. CASE p = "in" /\ s.use # "control"
      <4>1. r \in write_file(s)
        BY <1>5, <3>3 DEF ConsumeBuffer
      <4>2. LoopOf(p) = Line
        BY <3>3 DEF LoopOf, Line
      <4>3. /\ Goes(s, x) /\ x.run = s.run /\ r[1] \in {"ok", "failed"}
            /\ Cared(s, D) => Cared(x, Due(x) \cup LoopOf(p))
        BY <3>3, <4>1, <4>2, WriteFileMinds
      <4> HIDE DEF D, x
      <4>4. QED
        BY <1>2, <3>3, <4>3 DEF LoopErrors
    <3>4. QED
      BY <1>1, <3>1, <3>2, <3>3 DEF Pipes
  <2> HIDE DEF x
  <2>2. /\ Typed(x) /\ Sound(x) /\ x.run.at = "consume" /\ x.run.pipe = p
        /\ x.run.loop < MaxLoops
    BY <1>1, <1>5, <2>1 DEF Goes, Types
  <2>3. /\ Goes(x, s')
        /\ s.sa.socket /\ Tended(s) => Going(s') \/ Tended(s')
    <3> HIDE DEF p
    <3>0. s' = consumed(x, p, r[1])
      BY <1>5 DEF x
    <3>1. QED
      BY <1>1, <2>1, <2>2, <3>0, ConsumedMinds
  <2>4. Goes(s, s')
    BY <2>1, <2>3, GoesFurther
  <2>5. QED
    BY <1>3, <2>3, <2>4
<1>6. QED
  BY <1>4, <1>5 DEF ConsumeStep

-----------------------------------------------------------------------------
(* The events of the pipes and of the socket *)

(* The event at hand is taken from the queue, and nothing else changes.       *)
LEMMA TakenTypes ==
  ASSUME Typed(s), s.queue # <<>>
  PROVE  LET e == Head(s.queue)
         IN /\ Types(s, Taken) /\ Same(s, Taken) /\ e.err \in Errors
            /\ Due(s) \subseteq Due(Taken) \cup {e.to}
            /\ Sound(s) => Sound(Taken)
            /\ e.to \notin Dones => Goes(s, Taken)
<1> DEFINE q == s.queue
           r == Tail(q)
           y == [s EXCEPT !.queue = r]
<1>1. q \in Seq(Event) /\ Len(q) \in Nat \ {0} /\ Taken = y
  BY DEF Typed, Taken
<1>2. /\ Head(q) = q[1] /\ 1 \in DOMAIN q /\ Head(q) \in Event
      /\ r \in Seq(Event) /\ Len(r) = Len(q) - 1 /\ DOMAIN q = 1..Len(q) /\ DOMAIN r = 1..Len(r)
      /\ \A k \in DOMAIN r : r[k] = q[k + 1] /\ k + 1 \in DOMAIN q
  BY <1>1
<1>3. Types(s, y) /\ Same(s, y) /\ y.queue = r
  BY <1>2 DEF Types, Typed, Fields, Fits, Same
<1> HIDE DEF y
<1>4. ASSUME NEW i \in DOMAIN q PROVE q[i].to \in Due(y) \cup {Head(q).to}
  <2>1. CASE i = 1
    BY <1>2, <2>1
  <2>2. CASE i # 1
    <3>1. i - 1 \in DOMAIN r /\ (i - 1) + 1 = i
      BY <1>1, <1>2, <2>2, SMT
    <3>2. r[i - 1] = q[i]
      BY <1>2, <3>1
    <3>3. QED
      BY <1>3, <3>1, <3>2 DEF Due
  <2>3. QED
    BY <2>1, <2>2
<1>5. Due(s) \subseteq Due(y) \cup {Head(q).to}
  BY <1>4 DEF Due
<1>6. Sound(s) => Sound(y)
  BY <1>3 DEF Sound, Same
<1>7. Head(q).to \notin Dones => Goes(s, y)
  BY <1>3, <1>5, SameGoes
<1>8. Head(q).err \in Errors
  BY <1>2 DEF Event
<1>9. QED
  BY <1>1, <1>3, <1>5, <1>6, <1>7, <1>8

(* Whose events it matters to have on their way.                              *)
Callees == {<<p, k>> : p \in Pipes, k \in {"adder", "consumer", "loop", "first"}}

(* An event to another is taken.                                              *)
LEMMA OtherCares ==
  ASSUME NEW x, NEW y, Same(x, y), NEW D, NEW E, NEW to, to \notin Callees,
         D \subseteq E \cup {to}, Cared(x, D)
  PROVE  Cared(y, E)
<1>1. \A p \in Pipes : to \notin {<<p, "adder">>, <<p, "consumer">>, <<p, "loop">>, <<p, "first">>}
  BY DEF Callees
<1>2. /\ to \notin {<<"in", "adder">>, <<"in", "consumer">>, <<"in", "loop">>}
      /\ to \notin {<<"out", "adder">>, <<"out", "consumer">>, <<"out", "loop">>, <<"out", "first">>}
  BY <1>1 DEF Pipes
<1>3. Written(y, E)
  BY <1>2 DEF Cared, Written, Same
<1>4. Listens(y) = Listens(x) /\ Unheard(y) = Unheard(x) /\ Eol(y) = Eol(x)
  BY DEF Same, Listens, Unheard, Eol
<1>5. Heard(y, E)
  BY <1>2, <1>4 DEF Cared, Heard, Same
<1>6. Fed(y, E)
  BY <1>2 DEF Cared, Fed, Same
<1>7. QED
  BY <1>3, <1>5, <1>6 DEF Cared

(* An adder that is called begins its loop.                                   *)
LEMMA AdderStarts ==
  ASSUME NEW x, NEW p \in Pipes, NEW y, Flagged(x, y, p),
         ~y.pipe[p].waitA, y.pipe[p].waitC = x.pipe[p].waitC,
         NEW D, NEW E, D \subseteq E \cup {<<p, "adder">>},
         {<<p, "loop">>, <<p, "first">>} \subseteq E, Cared(x, D)
  PROVE  Cared(y, E)
<1>1. Listens(y) = Listens(x) /\ Unheard(y) = Unheard(x) /\ Eol(y) = Eol(x)
  <2>1. y.pipe["in"].buf = x.pipe["in"].buf
    BY DEF Flagged, Pipes
  <2>2. QED
    BY <2>1 DEF Flagged, Listens, Unheard, Eol
<1>2. CASE p = "in"
  <2>1. y.pipe["out"] = x.pipe["out"]
    BY <1>2 DEF Flagged, Pipes
  <2>2. Written(y, E)
    BY <1>2, <2>1 DEF Flagged, Cared, Written
  <2>3. Heard(y, E)
    BY <1>1, <1>2, <2>1 DEF Flagged, Cared, Heard
  <2>4. Fed(y, E)
    BY <1>2, <2>1 DEF Flagged, Cared, Fed
  <2>5. QED
    BY <2>2, <2>3, <2>4 DEF Cared
<1>3. CASE p = "out"
  <2>1. y.pipe["in"] = x.pipe["in"]
    BY <1>3 DEF Flagged, Pipes
  <2>2. Written(y, E)
    BY <1>3 DEF Flagged, Cared, Written
  <2>3. Heard(y, E)
    BY <1>1, <1>3, <2>1 DEF Flagged, Cared, Heard
  <2>4. Fed(y, E)
    BY <1>3 DEF Flagged, Cared, Fed
  <2>5. QED
    BY <2>2, <2>3, <2>4 DEF Cared
<1>4. QED
  BY <1>2, <1>3 DEF Pipes

(* A consumer that is called begins its loop.                                 *)
LEMMA ConsumerStarts ==
  ASSUME NEW x, NEW p \in Pipes, NEW y, Flagged(x, y, p),
         ~y.pipe[p].waitC, y.pipe[p].waitA = x.pipe[p].waitA,
         NEW D, NEW E, D \subseteq E \cup {<<p, "consumer">>}, <<p, "loop">> \in E, Cared(x, D)
  PROVE  Cared(y, E)
<1>1. Listens(y) = Listens(x) /\ Unheard(y) = Unheard(x) /\ Eol(y) = Eol(x)
  <2>1. y.pipe["in"].buf = x.pipe["in"].buf
    BY DEF Flagged, Pipes
  <2>2. QED
    BY <2>1 DEF Flagged, Listens, Unheard, Eol
<1>2. CASE p = "in"
  <2>1. y.pipe["out"] = x.pipe["out"]
    BY <1>2 DEF Flagged, Pipes
  <2>2. Written(y, E)
    BY <1>2, <2>1 DEF Flagged, Cared, Written
  <2>3. Heard(y, E)
    BY <1>1, <1>2, <2>1 DEF Flagged, Cared, Heard
  <2>4. Fed(y, E)
    BY <1>2, <2>1 DEF Flagged, Cared, Fed
  <2>5. QED
    BY <2>2, <2>3, <2>4 DEF Cared
<1>3. CASE p = "out"
  <2>1. y.pipe["in"] = x.pipe["in"]
    BY <1>3 DEF Flagged, Pipes
  <2>2. Written(y, E)
    BY <1>3 DEF Flagged, Cared, Written
  <2>3. Heard(y, E)
    BY <1>1, <1>3, <2>1 DEF Flagged, Cared, Heard
  <2>4. Fed(y, E)
    BY <1>3 DEF Flagged, Cared, Fed
  <2>5. QED
    BY <2>2, <2>3, <2>4 DEF Cared
<1>4. QED
  BY <1>2, <1>3 DEF Pipes

(* What is said of an event that is heard.                                    *)
Kept == Goes(s, s') /\ (Tended(s) /\ ~Going(s) => Going(s') \/ Tended(s'))

(* One whose pipe is done.                                                    *)
LEMMA DoneKeeps ==
  ASSUME NEW x, Goes(s, x), NEW p \in Pipes, NEW err \in Errors, s' = done(x, p, err)
  PROVE  Kept
<1>1. Goes(x, s') /\ <<p, "done">> \in Due(s')
  BY DoneTypes DEF Goes, Types
<1>2. Goes(s, s')
  BY <1>1, GoesFurther
<1>3. <<p, "done">> \in Dones
  BY DEF Dones
<1>4. QED
  BY <1>1, <1>2, <1>3 DEF Kept, Going

(* on_buffer_adder_event()                                                    *)
LEMMA AdderEventKeeps ==
  ASSUME Typed(s), NEW p \in Pipes, AdderEvent(p) PROVE Kept
<1> DEFINE err == Head(s.queue).err
           t == Taken
           x == [t EXCEPT !.pipe[p].waitA = FALSE]
           y == [x EXCEPT !.run = [at |-> "add", pipe |-> p, loop |-> 0]]
<1>1. s.queue # <<>> /\ s.run.at = "idle" /\ Head(s.queue).to = <<p, "adder">>
  BY DEF AdderEvent, Dispatched
<1>2. <<p, "adder">> \notin Dones
  BY DEF Dones
<1>3. /\ Goes(s, t) /\ Typed(t) /\ Same(s, t) /\ err \in Errors
      /\ Due(s) \subseteq Due(t) \cup {<<p, "adder">>}
  BY <1>1, <1>2, TakenTypes DEF Types
<1>4. \/ s' = done(t, p, err)
      \/ s' = done(x, p, x.pipe[p].errA)
      \/ s' = y
  BY DEF AdderEvent
<1> HIDE DEF t
<1>5. /\ x.queue = t.queue /\ x.use = t.use /\ x.run = t.run /\ x.sa = t.sa /\ x.net = t.net
      /\ x.local = t.local /\ DOMAIN x = Fields /\ DOMAIN x.pipe = Pipes
      /\ \A q \in Pipes : q # p => x.pipe[q] = t.pipe[q]
      /\ x.pipe[p] = [t.pipe[p] EXCEPT !.waitA = FALSE]
  BY <1>3 DEF Typed, Fields
<1>6. t.pipe[p] \in PipeState
  BY <1>3 DEF Typed
<1>7. /\ y.queue = x.queue /\ y.use = x.use /\ y.pipe = x.pipe /\ y.sa = x.sa /\ y.net = x.net
      /\ y.local = x.local /\ DOMAIN y = Fields
      /\ y.run = [at |-> "add", pipe |-> p, loop |-> 0]
  BY <1>5 DEF Fields
<1> HIDE DEF x
<1>8. /\ x.pipe[p] \in PipeState /\ ~x.pipe[p].waitA /\ x.pipe[p].waitC = t.pipe[p].waitC
      /\ x.pipe[p].errC = t.pipe[p].errC /\ x.pipe[p].errA \in Errors
      /\ x.pipe[p].adder = t.pipe[p].adder /\ x.pipe[p].consumer = t.pipe[p].consumer
      /\ x.pipe[p].buf = t.pipe[p].buf
  BY <1>5, <1>6 DEF PipeState, Errors
<1> HIDE DEF y
<1>9. y.run \in RunState /\ x.run \in RunState
  BY <1>3, <1>5, <1>7, ChannelAssumption DEF RunState, Typed
<1>10. Flagged(t, x, p) /\ Flagged(t, y, p)
  BY <1>5, <1>7, <1>8 DEF Flagged
<1>11. Goes(t, x) /\ Goes(t, y) /\ Due(y) = Due(t)
  <2>1. Sound(t) /\ p = "out" => t.pipe[p].errC # "nodata"
    BY DEF Sound
  <2>2. y.pipe[p] \in PipeState /\ ~y.pipe[p].waitA /\ y.pipe[p].errC = t.pipe[p].errC
    BY <1>7, <1>8
  <2>3. Goes(t, x)
    BY <1>3, <1>8, <1>9, <1>10, <2>1, FlagTypes
  <2>4. Goes(t, y) /\ Due(y) = Due(t)
    BY <1>3, <1>9, <1>10, <2>1, <2>2, FlagTypes
  <2>5. QED
    BY <2>3, <2>4
<1>12. Goes(s, x) /\ Goes(s, y)
  BY <1>3, <1>11, GoesFurther
<1>13. CASE s' = done(t, p, err)
  BY <1>3, <1>13, DoneKeeps
<1>14. CASE s' = done(x, p, x.pipe[p].errA)
  BY <1>8, <1>12, <1>14, DoneKeeps
<1>15. CASE s' = y
  <2>1. ASSUME Tended(s) PROVE Tended(y)
    <3> DEFINE E == Due(y) \cup Running(y)
               D == Due(s) \cup Running(s)
    <3>1. Running(s) = {} /\ Running(y) = {<<p, "loop">>, <<p, "first">>}
      BY <1>1, <1>7 DEF Running
    <3>2. D \subseteq E \cup {<<p, "adder">>} /\ {<<p, "loop">>, <<p, "first">>} \subseteq E
      BY <1>3, <1>11, <3>1
    <3>3. Cared(s, D)
      BY <2>1 DEF Tended
    <3>4. ~y.pipe[p].waitA /\ y.pipe[p].waitC = t.pipe[p].waitC
      BY <1>7, <1>8
    <3>m. Cared(t, D)
      BY <1>3, <3>3, MoreCares
    <3> HIDE DEF D, E
    <3>5. Cared(y, E)
      BY <1>10, <3>2, <3>4, <3>m, AdderStarts
    <3>6. Looped(y)
      BY <1>7 DEF Looped
    <3>7. QED
      BY <3>5, <3>6 DEF Tended, E
  <2>2. QED
    BY <1>12, <1>15, <2>1 DEF Kept
<1>16. QED
  BY <1>4, <1>13, <1>14, <1>15

(* on_buffer_consumer_event()                                                 *)
LEMMA ConsumerEventKeeps ==
  ASSUME Typed(s), NEW p \in Pipes, ConsumerEvent(p) PROVE Kept
<1> DEFINE err == Head(s.queue).err
           t == Taken
           x == [t EXCEPT !.pipe[p].waitC = FALSE]
           y == [x EXCEPT !.run = [at |-> "consume", pipe |-> p, loop |-> 0]]
<1>1. s.queue # <<>> /\ s.run.at = "idle" /\ Head(s.queue).to = <<p, "consumer">>
  BY DEF ConsumerEvent, Dispatched
<1>2. <<p, "consumer">> \notin Dones
  BY DEF Dones
<1>3. /\ Goes(s, t) /\ Typed(t) /\ Same(s, t) /\ err \in Errors
      /\ Due(s) \subseteq Due(t) \cup {<<p, "consumer">>}
  BY <1>1, <1>2, TakenTypes DEF Types
<1>4. s' = done(t, p, err) \/ s' = y
  BY DEF ConsumerEvent
<1> HIDE DEF t
<1>5. /\ x.queue = t.queue /\ x.use = t.use /\ x.run = t.run /\ x.sa = t.sa /\ x.net = t.net
      /\ x.local = t.local /\ DOMAIN x = Fields /\ DOMAIN x.pipe = Pipes
      /\ \A q \in Pipes : q # p => x.pipe[q] = t.pipe[q]
      /\ x.pipe[p] = [t.pipe[p] EXCEPT !.waitC = FALSE]
  BY <1>3 DEF Typed, Fields
<1>6. t.pipe[p] \in PipeState
  BY <1>3 DEF Typed
<1>7. /\ y.queue = x.queue /\ y.use = x.use /\ y.pipe = x.pipe /\ y.sa = x.sa /\ y.net = x.net
      /\ y.local = x.local /\ DOMAIN y = Fields
      /\ y.run = [at |-> "consume", pipe |-> p, loop |-> 0]
  BY <1>5 DEF Fields
<1> HIDE DEF x
<1>8. /\ x.pipe[p] \in PipeState /\ ~x.pipe[p].waitC /\ x.pipe[p].waitA = t.pipe[p].waitA
      /\ x.pipe[p].errC = t.pipe[p].errC
      /\ x.pipe[p].adder = t.pipe[p].adder /\ x.pipe[p].consumer = t.pipe[p].consumer
      /\ x.pipe[p].buf = t.pipe[p].buf
  BY <1>5, <1>6 DEF PipeState
<1> HIDE DEF y
<1>9. y.run \in RunState
  BY <1>7, ChannelAssumption DEF RunState
<1>10. Flagged(t, y, p)
  BY <1>5, <1>7, <1>8 DEF Flagged
<1>11. Goes(t, y) /\ Due(y) = Due(t)
  <2>1. Sound(t) /\ p = "out" =>
          /\ y.pipe[p].errC # "nodata"
          /\ t.use # "control" /\ ~t.pipe[p].adder => ~y.pipe[p].waitA
    BY <1>7, <1>8 DEF Sound
  <2>2. y.pipe[p] \in PipeState
    BY <1>7, <1>8
  <2>3. QED
    BY <1>3, <1>9, <1>10, <2>1, <2>2, FlagTypes
<1>12. Goes(s, y)
  BY <1>3, <1>11, GoesFurther
<1>13. CASE s' = done(t, p, err)
  BY <1>3, <1>13, DoneKeeps
<1>14. CASE s' = y
  <2>1. ASSUME Tended(s) PROVE Tended(y)
    <3> DEFINE E == Due(y) \cup Running(y)
               D == Due(s) \cup Running(s)
    <3>1. Running(s) = {} /\ Running(y) = {<<p, "loop">>}
      BY <1>1, <1>7 DEF Running
    <3>2. D \subseteq E \cup {<<p, "consumer">>} /\ <<p, "loop">> \in E
      BY <1>3, <1>11, <3>1
    <3>3. Cared(s, D)
      BY <2>1 DEF Tended
    <3>4. ~y.pipe[p].waitC /\ y.pipe[p].waitA = t.pipe[p].waitA
      BY <1>7, <1>8
    <3>m. Cared(t, D)
      BY <1>3, <3>3, MoreCares
    <3> HIDE DEF D, E
    <3>5. Cared(y, E)
      BY <1>10, <3>2, <3>4, <3>m, ConsumerStarts
    <3>6. Looped(y)
      BY <1>7 DEF Looped
    <3>7. QED
      BY <3>5, <3>6 DEF Tended, E
  <2>2. QED
    BY <1>12, <1>14, <2>1 DEF Kept
<1>15. QED
  BY <1>4, <1>13, <1>14

(* on_shutdown_event(), with a socket or without.                             *)
LEMMA OnShutdownGoes ==
  ASSUME NEW x, Typed(x), NEW flushed PROVE Goes(x, on_shutdown_event(x, flushed))
<1>1. CASE x.sa.socket
  BY <1>1, OnShutdownMinds DEF Minds
<1>2. CASE ~x.sa.socket
  <2> DEFINE y == NotifyConsumer(x, "out", x.sa.shutErr)
             z == [y EXCEPT !.sa.shutting = FALSE, !.sa.shutErr = "ok", !.net.shut = "down"]
  <2>1. on_shutdown_event(x, flushed) = z
    BY <1>2 DEF on_shutdown_event
  <2>2. x.sa.shutErr \in Errors /\ "out" \in Pipes
    BY DEF Typed, SaState, Pipes
  <2>3. Types(x, y) /\ Goes(x, y)
    BY <2>2, NotifyMinds DEF Minds, Goes
  <2> HIDE DEF y
  <2>4. /\ z.queue = y.queue /\ z.use = y.use /\ z.run = y.run /\ z.pipe = y.pipe
        /\ z.local = y.local /\ DOMAIN z = Fields
        /\ z.net = [y.net EXCEPT !.shut = "down"]
        /\ z.sa = [[y.sa EXCEPT !.shutting = FALSE] EXCEPT !.shutErr = "ok"]
    BY <2>3 DEF Types, Typed, Fields
  <2>5. y.net \in NetState /\ y.sa \in SaState /\ y.run \in RunState /\ y.local \in LocalState
    BY <2>3 DEF Types, Typed
  <2> HIDE DEF z
  <2>6. z.net \in NetState
    BY <2>4, <2>5 DEF NetState
  <2>7. z.sa \in SaState /\ z.sa.socket = y.sa.socket
    BY <2>4, <2>5, ReceiverFacts DEF SaState
  <2>8. Goes(y, z)
    BY <2>3, <2>4, <2>5, <2>6, <2>7, PartsTypes DEF Types
  <2>9. QED
    BY <2>1, <2>3, <2>8, GoesFurther
<1>3. QED
  BY <1>1, <1>2

(* What an event does while no loop runs.                                     *)
LEMMA IdleKeeps ==
  ASSUME s.run.at = "idle", Goes(s, s'), s'.run = s.run,
         Cared(s, Due(s)) /\ ~Going(s) => Cared(s', Due(s'))
  PROVE  Kept
<1>1. Due(s) \cup Running(s) = Due(s)
  BY DEF Running
<1>2. Tended(s) => Cared(s, Due(s))
  BY <1>1 DEF Tended
<1>3. Cared(s', Due(s')) => Tended(s')
  BY IdleTended
<1>4. QED
  BY <1>2, <1>3 DEF Kept

(* One that minds what it is given.                                           *)
LEMMA MindsDue ==
  ASSUME NEW x, NEW y, Minds(x, y), Cared(x, Due(x)) PROVE Cared(y, Due(y))
<1> DEFINE R == {}
<1>1. R \in SUBSET Loops /\ Due(x) = Due(x) \cup R /\ Due(y) = Due(y) \cup R
  OBVIOUS
<1> HIDE DEF R
<1>2. QED
  BY <1>1 DEF Minds

(* The socket is readable.                                                    *)
LEMMA SocketReadKeeps ==
  ASSUME Typed(s), SocketRead PROVE Kept
<1> DEFINE err == Head(s.queue).err
           t == Taken
           v == [t EXCEPT !.sa.waitR = FALSE]
           w == NotifyAdder(v, "in", err)
<1>1. s.queue # <<>> /\ s.run.at = "idle" /\ Head(s.queue).to = <<"socket", "read">>
  BY DEF SocketRead, Dispatched
<1>2. <<"socket", "read">> \notin Dones /\ <<"socket", "read">> \notin Callees /\ "in" \in Pipes
  BY DEF Dones, Callees, Pipes
<1>3. /\ Goes(s, t) /\ Typed(t) /\ Same(s, t) /\ err \in Errors
      /\ Due(s) \subseteq Due(t) \cup {<<"socket", "read">>}
  BY <1>1, <1>2, TakenTypes DEF Types
<1>4. s' = IF v.sa.shutting THEN v ELSE w
  BY DEF SocketRead
<1> HIDE DEF t, err
<1>5. /\ v.queue = t.queue /\ v.use = t.use /\ v.run = t.run /\ v.pipe = t.pipe
      /\ v.net = t.net /\ v.local = t.local /\ DOMAIN v = Fields
      /\ v.sa = [t.sa EXCEPT !.waitR = FALSE]
  BY <1>3 DEF Typed, Fields
<1>6. t.net \in NetState /\ t.sa \in SaState /\ t.run \in RunState /\ t.local \in LocalState
  BY <1>3 DEF Typed
<1> HIDE DEF v
<1>7. /\ v.sa \in SaState /\ v.sa.socket = t.sa.socket /\ v.sa.waitW = t.sa.waitW
      /\ v.sa.throttled = t.sa.throttled /\ v.sa.shutting = t.sa.shutting
  BY <1>5, <1>6 DEF SaState
<1>8. Goes(t, v) /\ Due(v) = Due(t)
  BY <1>3, <1>5, <1>6, <1>7, PartsTypes
<1>9. /\ Types(v, w) /\ Same(v, w) /\ Due(v) \subseteq Due(w)
      /\ v.pipe["in"].adder => <<"in", "adder">> \in Due(w)
  BY <1>2, <1>3, <1>8, NotifyAdderTypes DEF Goes, Types
<1>10. Goes(v, w)
  BY <1>9, SameGoes
<1> HIDE DEF w
<1>11. Goes(s, s') /\ s'.run = s.run
  <2>1. Goes(s, v) /\ Goes(s, w)
    BY <1>3, <1>8, <1>10, GoesFurther
  <2>2. v.run = s.run /\ w.run = s.run
    BY <1>3, <1>5, <1>9 DEF Same
  <2>3. QED
    BY <1>4, <2>1, <2>2
<1>12. ASSUME Cared(s, Due(s)) PROVE Cared(s', Due(s'))
  <2> DEFINE D == Due(t)
             E == Due(s')
  <2>1. Cared(t, D)
    BY <1>2, <1>3, <1>12, OtherCares
  <2>2. /\ s'.use = t.use /\ s'.pipe = t.pipe /\ s'.net = t.net /\ s'.local = t.local
        /\ s'.sa = v.sa
    BY <1>4, <1>5, <1>9 DEF Same
  <2>3. D \subseteq E /\ (~t.sa.shutting /\ t.pipe["in"].adder => <<"in", "adder">> \in E)
    BY <1>4, <1>5, <1>7, <1>8, <1>9
  <2> HIDE DEF D, E
  <2>4. Listens(s') = Listens(t) /\ Unheard(s') = Unheard(t) /\ Eol(s') = Eol(t)
    BY <2>2 DEF Listens, Unheard, Eol
  <2>5. Written(s', E)
    BY <1>7, <2>1, <2>2, <2>3 DEF Cared, Written
  <2>6. Heard(s', E)
    BY <1>7, <2>1, <2>2, <2>3, <2>4 DEF Cared, Heard
  <2>7. Fed(s', E)
    BY <1>7, <2>1, <2>2, <2>3 DEF Cared, Fed
  <2>8. QED
    BY <2>5, <2>6, <2>7 DEF Cared, E
<1>13. QED
  BY <1>1, <1>11, <1>12, IdleKeeps

(* It is writable, or has been flushed.                                       *)
LEMMA SocketWriteKeeps ==
  ASSUME Typed(s), SocketWrite, s.use # "control" => s.net.shut = "no" PROVE Kept
<1> DEFINE err == Head(s.queue).err
           t == Taken
           v == [t EXCEPT !.sa.waitW = FALSE]
           w == NotifyConsumer(v, "out", err)
           u == on_shutdown_event(v, TRUE)
<1>1. s.queue # <<>> /\ s.run.at = "idle" /\ Head(s.queue).to = <<"socket", "write">>
  BY DEF SocketWrite, Dispatched
<1>2. <<"socket", "write">> \notin Dones /\ <<"socket", "write">> \notin Callees /\ "out" \in Pipes
  BY DEF Dones, Callees, Pipes
<1>3. /\ Goes(s, t) /\ Typed(t) /\ Same(s, t) /\ err \in Errors
      /\ Due(s) \subseteq Due(t) \cup {<<"socket", "write">>}
  BY <1>1, <1>2, TakenTypes DEF Types
<1>4. s' = IF v.net.shut = "flushing" THEN u ELSE w
  BY DEF SocketWrite
<1> HIDE DEF t, err
<1>5. /\ v.queue = t.queue /\ v.use = t.use /\ v.run = t.run /\ v.pipe = t.pipe
      /\ v.net = t.net /\ v.local = t.local /\ DOMAIN v = Fields
      /\ v.sa = [t.sa EXCEPT !.waitW = FALSE]
  BY <1>3 DEF Typed, Fields
<1>6. t.net \in NetState /\ t.sa \in SaState /\ t.run \in RunState /\ t.local \in LocalState
  BY <1>3 DEF Typed
<1> HIDE DEF v
<1>7. /\ v.sa \in SaState /\ v.sa.socket = t.sa.socket /\ v.sa.waitW = FALSE
      /\ v.sa.waitR = t.sa.waitR
      /\ v.sa.throttled = t.sa.throttled /\ v.sa.shutting = t.sa.shutting
  BY <1>5, <1>6 DEF SaState
<1>8. Goes(t, v) /\ Due(v) = Due(t) /\ Typed(v)
  BY <1>3, <1>5, <1>6, <1>7, PartsTypes, ZenonT(60) DEF Goes, Types
<1>9. /\ Types(v, w) /\ Same(v, w) /\ Due(v) \subseteq Due(w)
      /\ v.pipe["out"].consumer => <<"out", "consumer">> \in Due(w)
  BY <1>2, <1>3, <1>8, NotifyConsumerTypes
<1>10. Goes(s, v) /\ Goes(s, w) /\ Goes(s, u)
  <2>1. Goes(v, w) /\ Goes(v, u)
    BY <1>8, <1>9, SameGoes, OnShutdownGoes
  <2>2. QED
    BY <1>3, <1>8, <2>1, GoesFurther
<1>11. v.run = s.run /\ w.run = s.run
  BY <1>3, <1>5, <1>9 DEF Same
<1>12. ASSUME Cared(s, Due(s)) PROVE Cared(t, Due(t))
  BY <1>2, <1>3, <1>12, OtherCares
<1>13. CASE v.net.shut = "flushing"
  <2>1. CASE s.sa.socket
    <3>1. v.sa.socket
      BY <1>3, <1>7, <2>1 DEF Same
    <3>2. Minds(v, u)
      BY <1>8, <3>1, OnShutdownMinds
    <3>3. ASSUME Cared(s, Due(s)) PROVE Cared(s', Due(s'))
      <4> DEFINE D == Due(t)
      <4>1. Cared(t, D)
        BY <1>12, <3>3
      <4>2. t.use = s.use /\ t.net = s.net
        BY <1>3 DEF Same
      <4> HIDE DEF D
      <4>3. t.use = "control" /\ ~t.sa.waitW
        BY <1>5, <1>13, <4>1, <4>2 DEF Cared, Written
      <4>4. v.sa.waitW = t.sa.waitW
        BY <1>6, <1>7, <4>3 DEF SaState
      <4>5. Listens(v) = Listens(t) /\ Unheard(v) = Unheard(t) /\ Eol(v) = Eol(t)
        BY <1>5 DEF Listens, Unheard, Eol
      <4>6. Written(v, D)
        BY <1>5, <1>7, <4>1, <4>4 DEF Cared, Written
      <4>7. Heard(v, D)
        BY <1>5, <1>7, <4>1, <4>5 DEF Cared, Heard
      <4>8. Fed(v, D)
        BY <1>5, <4>1 DEF Cared, Fed
      <4>9. Cared(v, Due(v))
        BY <1>8, <4>6, <4>7, <4>8 DEF Cared, D
      <4>10. Cared(u, Due(u))
        BY <3>2, <4>9, MindsDue
      <4>11. QED
        BY <1>4, <1>13, <4>10
    <3>4. Goes(s, s') /\ s'.run = s.run
      BY <1>4, <1>10, <1>11, <1>13, <3>2 DEF Minds
    <3> HIDE DEF u
    <3>5. QED
      BY <1>1, <3>3, <3>4, IdleKeeps
  <2>2. CASE ~s.sa.socket
    <3>1. Goes(s, s')
      BY <1>4, <1>10, <1>13
    <3>2. QED
      BY <2>2, <3>1 DEF Kept, Going
  <2>3. QED
    BY <2>1, <2>2
<1>14. CASE v.net.shut # "flushing"
  <2>1. s' = w
    BY <1>4, <1>14
  <2> HIDE DEF w, u
  <2>2. ASSUME Cared(s, Due(s)) PROVE Cared(s', Due(s'))
    <3> DEFINE D == Due(t)
               E == Due(s')
    <3>1. Cared(t, D)
      BY <1>12, <2>2
    <3>2. /\ s'.use = t.use /\ s'.pipe = t.pipe /\ s'.net = t.net /\ s'.local = t.local
          /\ s'.sa = v.sa
      BY <1>5, <1>9, <2>1 DEF Same
    <3>3. D \subseteq E /\ (t.pipe["out"].consumer => <<"out", "consumer">> \in E)
      BY <1>5, <1>8, <1>9, <2>1
    <3> HIDE DEF D, E
    <3>4. Listens(s') = Listens(t) /\ Unheard(s') = Unheard(t) /\ Eol(s') = Eol(t)
      BY <3>2 DEF Listens, Unheard, Eol
    <3>5. Written(s', E)
      BY <1>7, <3>1, <3>2, <3>3 DEF Cared, Written
    <3>6. Heard(s', E)
      BY <1>7, <3>1, <3>2, <3>3, <3>4 DEF Cared, Heard
    <3>7. Fed(s', E)
      BY <1>7, <3>1, <3>2, <3>3 DEF Cared, Fed
    <3>8. QED
      BY <3>5, <3>6, <3>7 DEF Cared, E
  <2>3. QED
    BY <1>1, <1>10, <1>11, <2>1, <2>2, IdleKeeps
<1>15. QED
  BY <1>13, <1>14

(* The socket is to be shut down.                                             *)
LEMMA ShutdownEventKeeps ==
  ASSUME Typed(s), ShutdownEvent PROVE Kept
<1> DEFINE t == Taken
<1>1. s.queue # <<>> /\ s.run.at = "idle" /\ Head(s.queue).to = <<"socket", "shutdown">>
  BY DEF ShutdownEvent, Dispatched
<1>2. <<"socket", "shutdown">> \notin Dones /\ <<"socket", "shutdown">> \notin Callees
  BY DEF Dones, Callees
<1>3. /\ Goes(s, t) /\ Typed(t) /\ Same(s, t)
      /\ Due(s) \subseteq Due(t) \cup {<<"socket", "shutdown">>}
  BY <1>1, <1>2, TakenTypes DEF Types
<1>4. PICK flushed \in BOOLEAN : s' = on_shutdown_event(t, flushed)
  BY DEF ShutdownEvent
<1> HIDE DEF t
<1>5. Goes(t, s') /\ Goes(s, s')
  BY <1>3, <1>4, OnShutdownGoes, GoesFurther
<1>6. CASE s.sa.socket
  <2>1. t.sa.socket /\ t.run = s.run
    BY <1>3, <1>6 DEF Same
  <2>2. Minds(t, s')
    BY <1>3, <1>4, <2>1, OnShutdownMinds
  <2>3. Cared(s, Due(s)) => Cared(s', Due(s'))
    BY <1>2, <1>3, <2>2, OtherCares, MindsDue
  <2>4. s'.run = s.run
    BY <2>1, <2>2 DEF Minds
  <2>5. QED
    BY <1>1, <1>5, <2>3, <2>4, IdleKeeps
<1>7. CASE ~s.sa.socket
  BY <1>5, <1>7 DEF Kept, Going
<1>8. QED
  BY <1>6, <1>7

-----------------------------------------------------------------------------
(* The end of a channel, and its beginning *)

(* What a channel is made of.                                                 *)
LEMMA FreshTypes ==
  ASSUME NEW use \in Uses \cup {"over", "closed"}
  PROVE  LET x == Fresh(use)
         IN /\ Typed(x) /\ x.use = use /\ Sound(x) /\ ~x.sa.socket /\ x.run.at = "idle"
            /\ x.pipe = [p \in Pipes |-> EmptyPipe] /\ x.queue = <<>>
            /\ ~x.sa.shutting /\ ~x.sa.throttled /\ x.net.shut = "no"
            /\ x.local = [sent |-> FALSE, busy |-> FALSE, postponed |-> FALSE, quit |-> "no",
                          nested |-> "none", entries |-> 0, left |-> FileSize]
<1> DEFINE x == Fresh(use)
<1>1. /\ DOMAIN x = Fields /\ x.use = use /\ x.queue = <<>>
      /\ x.run = [at |-> "idle", pipe |-> "in", loop |-> 0]
      /\ x.pipe = [p \in Pipes |-> EmptyPipe]
      /\ x.sa = [socket |-> FALSE, waitR |-> FALSE, waitW |-> FALSE, throttled |-> FALSE,
                 shutting |-> FALSE, shutErr |-> "ok"]
      /\ x.net = [avail |-> <<>>, eof |-> FALSE, reset |-> FALSE, room |-> Room, sent |-> 0,
                  shut |-> "no"]
      /\ x.local = [sent |-> FALSE, busy |-> FALSE, postponed |-> FALSE, quit |-> "no",
                    nested |-> "none", entries |-> 0, left |-> FileSize]
  BY DEF Fresh, Fields
<1> HIDE DEF x
<1>2. "in" \in Pipes /\ "out" \in Pipes /\ "ok" \in Errors
  BY DEF Pipes, Errors
<1>3. x.run \in RunState
  BY <1>1, <1>2, ChannelAssumption DEF RunState
<1>4. EmptyPipe \in PipeState /\ EmptyPipe.buf = <<>> /\ EmptyPipe.errC = "ok" /\ ~EmptyPipe.waitA
  BY <1>2 DEF EmptyPipe, PipeState
<1>5. \A p \in Pipes : x.pipe[p] = EmptyPipe
  BY <1>1
<1>6. x.sa \in SaState
  BY <1>1, <1>2 DEF SaState
<1>7. x.net \in NetState
  BY <1>1, ChannelAssumption DEF NetState
<1>8. x.local \in LocalState
  BY <1>1, ChannelAssumption DEF LocalState
<1>9. Fits(x)
  <2>1. Len(<<>>) = 0 /\ MaxReadable \in Nat
    BY ChannelAssumption
  <2>2. QED
    BY <1>2, <1>4, <1>5, <2>1 DEF Fits
<1>10. <<>> \in Seq(Event)
  OBVIOUS
<1>11. Typed(x)
  BY <1>1, <1>3, <1>4, <1>5, <1>6, <1>7, <1>8, <1>9, <1>10 DEF Typed
<1>12. Sound(x)
  BY <1>2, <1>4, <1>5 DEF Sound
<1>13. QED
  BY <1>1, <1>11, <1>12 DEF x

(* A session that is over has no socket.                                      *)
LEMMA OverTypes ==
  ASSUME NEW x, Typed(x) PROVE Typed(over(x)) /\ Sound(over(x)) /\ ~over(x).sa.socket
<1> DEFINE f == Fresh("over")
           k == x.local.quit
           y == [f EXCEPT !.lost = x.lost, !.local.quit = k, !.transfer = x.transfer]
<1>1. "over" \in Uses \cup {"over", "closed"}
  OBVIOUS
<1>2. Typed(f) /\ Sound(f) /\ ~f.sa.socket
  BY <1>1, FreshTypes
<1>3. over(x) = y
  BY DEF over
<1> HIDE DEF f
<1>4. /\ DOMAIN y = Fields /\ y.use = f.use /\ y.queue = f.queue /\ y.run = f.run
      /\ y.pipe = f.pipe /\ y.sa = f.sa /\ y.net = f.net
      /\ y.local = [f.local EXCEPT !.quit = k]
  BY <1>2 DEF Typed, Fields
<1>5. k \in {"no", "quit", "timeout"}
  BY DEF Typed, LocalState
<1> HIDE DEF k, y
<1>6. y.local \in LocalState
  <2>1. f.local \in LocalState
    BY <1>2 DEF Typed
  <2>2. QED
    BY <1>4, <1>5, <2>1 DEF LocalState
<1>7. Typed(y)
  BY <1>2, <1>4, <1>6 DEF Typed, Fits
<1>8. QED
  BY <1>2, <1>3, <1>4, <1>7 DEF Sound

(* A data connection that is closed has none either.                          *)
LEMMA ClosedTypes ==
  ASSUME NEW x, Typed(x), Sound(x), x.use # "control"
  PROVE  Typed(closed(x)) /\ Sound(closed(x)) /\ ~closed(x).sa.socket
<1> DEFINE a == Without(x, {<<"channel", "done">>})
           b == clear(a, "out")
           c == clear(b, "in")
           d == close_socket(c)
           f == Fresh("closed")
           y == [d EXCEPT !.use = "closed", !.net = f.net, !.local = f.local, !.lost = 0]
<1>1. "in" \in Pipes /\ "out" \in Pipes /\ "closed" \in Uses \cup {"over", "closed"}
  BY DEF Pipes
<1>2. closed(x) = y
  BY DEF closed
<1>3. Goes(x, a)
  <2>1. Types(x, a) /\ Same(x, a) /\ Due(a) = Due(x) \ {<<"channel", "done">>}
    BY WithoutTypes
  <2>2. <<"channel", "done">> \notin Dones
    BY DEF Dones, Pipes
  <2> HIDE DEF a
  <2>3. QED
    BY <2>1, <2>2, SameGoes
<1> HIDE DEF a
<1>4. Goes(a, b)
  BY <1>1, <1>3, ClearTypes DEF Goes, Types
<1> HIDE DEF b
<1>5. Goes(b, c)
  BY <1>1, <1>4, ClearTypes DEF Goes, Types
<1> HIDE DEF c
<1>6. Goes(c, d) /\ ~d.sa.socket
  BY <1>5, CloseTypes DEF Goes, Types
<1> HIDE DEF d
<1>7. Goes(x, d)
  BY <1>3, <1>4, <1>5, <1>6, GoesFurther
<1>8. Typed(d) /\ Sound(d) /\ d.use # "control"
  BY <1>7 DEF Goes, Types
<1>9. f.net \in NetState /\ f.local \in LocalState
  BY <1>1, FreshTypes DEF Typed
<1> HIDE DEF f
<1>10. /\ DOMAIN y = Fields /\ y.use = "closed" /\ y.queue = d.queue /\ y.run = d.run
       /\ y.pipe = d.pipe /\ y.sa = d.sa /\ y.net = f.net /\ y.local = f.local
  BY <1>8 DEF Typed, Fields
<1> HIDE DEF y
<1>11. Typed(y)
  BY <1>1, <1>8, <1>9, <1>10 DEF Typed, Fits
<1>12. Sound(y)
  BY <1>8, <1>10 DEF Sound
<1>13. QED
  BY <1>2, <1>6, <1>10, <1>11, <1>12

(* What is left of a channel that ends.                                       *)
Ended == Typed(s') /\ Sound(s') /\ Going(s')

(* on_pipe_done_event()                                                       *)
LEMMA PipeDoneEnds ==
  ASSUME Typed(s), Sound(s), NEW p \in Pipes, PipeDone(p) PROVE Ended
<1> DEFINE t == Taken
           x == clear(t, Other(p))
           y == Disconnected(x)
           err == Head(s.queue).err
           z == Post(y, <<"channel", "done">>, err)
<1>1. s.queue # <<>>
  BY DEF PipeDone, Dispatched
<1>2. Typed(t) /\ Sound(t) /\ err \in Errors
  BY <1>1, TakenTypes DEF Types
<1>3. IF x.sa.socket THEN s' = z ELSE s' = x
  BY DEF PipeDone
<1>4. Other(p) \in Pipes
  BY DEF Other, Pipes
<1> HIDE DEF t
<1>5. Goes(t, x) /\ Typed(x) /\ Sound(x)
  BY <1>2, <1>4, ClearTypes DEF Goes, Types
<1> HIDE DEF x
<1>6. Typed(y) /\ Sound(y) /\ ~y.sa.socket
  BY <1>5, DisconnectedTypes DEF Goes, Types
<1> HIDE DEF y, err
<1>7. Types(y, z) /\ Same(y, z)
  BY <1>2, <1>6, PostTypes, ReceiverFacts
<1> HIDE DEF z
<1>8. Typed(z) /\ Sound(z) /\ ~z.sa.socket
  BY <1>6, <1>7 DEF Types, Same, Sound
<1>9. QED
  BY <1>3, <1>5, <1>8 DEF Ended, Going

(* on_channel_done_event(), and a user who does not wait for it.              *)
LEMMA ChannelEnds ==
  ASSUME Typed(s), Sound(s), ChannelDone \/ Close PROVE Ended
<1>1. CASE ChannelDone
  <2>1. s.queue # <<>>
    BY <1>1 DEF ChannelDone, Dispatched
  <2>2. Typed(Taken) /\ Sound(Taken) /\ Taken.use = s.use
    BY <2>1, TakenTypes DEF Types
  <2>3. s' = IF s.use = "control" THEN over(Taken) ELSE closed(Taken)
    BY <1>1 DEF ChannelDone
  <2>4. QED
    BY <2>2, <2>3, OverTypes, ClosedTypes DEF Ended, Going
<1>2. CASE Close
  <2>1. s' = closed(s) /\ s.use # "control"
    BY <1>2 DEF Close
  <2>2. QED
    BY <2>1, ClosedTypes DEF Ended, Going
<1>3. QED
  BY <1>1, <1>2

(* The input's adder is told that it is one, or is not.                       *)
LEMMA InAdder ==
  ASSUME NEW x, Typed(x), NEW on \in BOOLEAN
  PROVE  LET c == set_adder(x, "in", on)
         IN /\ Goes(x, c) /\ c.run = x.run /\ c.sa = x.sa /\ c.net = x.net /\ c.local = x.local
            /\ Due(x) \ {<<"in", "adder">>} \subseteq Due(c)
            /\ c.pipe["out"] = x.pipe["out"]
            /\ c.pipe["in"].adder = on /\ c.pipe["in"].consumer = x.pipe["in"].consumer
            /\ c.pipe["in"].buf = x.pipe["in"].buf
<1>1. "in" \in Pipes /\ "out" \in Pipes
  BY DEF Pipes
<1>2. QED
  BY <1>1, SetAdderTypes

(* The output's consumer is told that it is one, or is not.                   *)
LEMMA OutConsumer ==
  ASSUME NEW x, Typed(x), NEW on \in BOOLEAN
  PROVE  LET d == set_consumer(x, "out", on)
         IN /\ Goes(x, d) /\ d.run = x.run /\ d.sa = x.sa /\ d.net = x.net /\ d.local = x.local
            /\ Due(x) \ {<<"out", "consumer">>} \subseteq Due(d)
            /\ d.pipe["in"] = x.pipe["in"]
            /\ d.pipe["out"].consumer = on /\ d.pipe["out"].adder = x.pipe["out"].adder
            /\ d.pipe["out"].waitA = x.pipe["out"].waitA /\ d.pipe["out"].buf = x.pipe["out"].buf
            /\ on /\ ~x.pipe["out"].consumer => <<"out", "consumer">> \in Due(d)
<1>1. "in" \in Pipes /\ "out" \in Pipes
  BY DEF Pipes
<1>2. QED
  BY <1>1, SetConsumerTypes

(* set_socket(): the output's consumer has been told.                         *)
LEMMA SetSocketTypes ==
  ASSUME NEW x, Typed(x)
  PROVE  LET z == set_socket(x)
         IN /\ Types(x, z) /\ (Sound(x) => Sound(z))
            /\ z.run = x.run /\ z.net = x.net /\ z.local = x.local
            /\ z.sa.waitR /\ z.sa.waitW
            /\ z.sa.shutting = x.sa.shutting /\ z.sa.throttled = x.sa.throttled
            /\ z.pipe["in"].adder /\ z.pipe["in"].consumer = x.pipe["in"].consumer
            /\ z.pipe["in"].buf = x.pipe["in"].buf
            /\ z.pipe["out"].adder = x.pipe["out"].adder /\ z.pipe["out"].consumer
            /\ z.pipe["out"].waitA = x.pipe["out"].waitA
            /\ z.pipe["out"].buf = x.pipe["out"].buf
            /\ ~x.pipe["out"].consumer => <<"out", "consumer">> \in Due(z)
            /\ <<"in", "consumer">> \in Due(x) => <<"in", "consumer">> \in Due(z)
<1>0. PICK on \in BOOLEAN : on = TRUE
  OBVIOUS
<1> DEFINE c == set_adder(x, "in", on)
           d == set_consumer(c, "out", on)
           z == [d EXCEPT !.sa.socket = TRUE, !.sa.waitR = TRUE, !.sa.waitW = TRUE]
<1>2. set_socket(x) = z
  BY <1>0 DEF set_socket
<1>3. /\ Goes(x, c)
      /\ c.run = x.run /\ c.sa = x.sa /\ c.net = x.net /\ c.local = x.local
      /\ Due(x) \ {<<"in", "adder">>} \subseteq Due(c)
      /\ c.pipe["out"] = x.pipe["out"]
      /\ c.pipe["in"].adder = on /\ c.pipe["in"].consumer = x.pipe["in"].consumer
      /\ c.pipe["in"].buf = x.pipe["in"].buf
  BY InAdder
<1> HIDE DEF c
<1>4. Typed(c) /\ c.use = x.use
  BY <1>3 DEF Goes, Types
<1>5. /\ Goes(c, d)
      /\ d.run = c.run /\ d.sa = c.sa /\ d.net = c.net /\ d.local = c.local
      /\ Due(c) \ {<<"out", "consumer">>} \subseteq Due(d)
      /\ d.pipe["in"] = c.pipe["in"]
      /\ d.pipe["out"].consumer = on /\ d.pipe["out"].adder = c.pipe["out"].adder
      /\ d.pipe["out"].waitA = c.pipe["out"].waitA /\ d.pipe["out"].buf = c.pipe["out"].buf
      /\ on /\ ~c.pipe["out"].consumer => <<"out", "consumer">> \in Due(d)
  BY <1>4, OutConsumer
<1> HIDE DEF d
<1>7. Goes(x, d) /\ Typed(d) /\ d.use = x.use
  BY <1>3, <1>4, <1>5, GoesFurther DEF Goes, Types
<1>8. /\ DOMAIN z = Fields /\ z.queue = d.queue /\ z.use = d.use /\ z.run = d.run
      /\ z.pipe = d.pipe /\ z.net = d.net /\ z.local = d.local
      /\ z.sa = [[[d.sa EXCEPT !.socket = TRUE] EXCEPT !.waitR = TRUE] EXCEPT !.waitW = TRUE]
  BY <1>7 DEF Typed, Fields
<1> HIDE DEF z
<1>9. /\ z.sa \in SaState /\ z.sa.waitR /\ z.sa.waitW
      /\ z.sa.shutting = d.sa.shutting /\ z.sa.throttled = d.sa.throttled
  <2>1. d.sa \in SaState
    BY <1>7 DEF Typed
  <2>2. QED
    BY <1>8, <2>1 DEF SaState
<1>10. Types(x, z) /\ (Sound(x) => Sound(z))
  <2>1. Typed(z)
    BY <1>7, <1>8, <1>9 DEF Typed, Fits
  <2>2. Sound(d) => Sound(z)
    BY <1>8 DEF Sound
  <2>3. Sound(x) => Sound(d)
    BY <1>7 DEF Goes
  <2>4. QED
    BY <1>7, <1>8, <2>1, <2>2, <2>3 DEF Types
<1>11. Due(z) = Due(d)
  BY <1>8 DEF Due
<1>12. ~x.pipe["out"].consumer => <<"out", "consumer">> \in Due(z)
  BY <1>0, <1>3, <1>5, <1>11
<1>13. <<"in", "consumer">> \in Due(x) => <<"in", "consumer">> \in Due(z)
  BY <1>3, <1>5, <1>11
<1>14. QED
  <2>1. /\ z.run = x.run /\ z.net = x.net /\ z.local = x.local
        /\ z.sa.shutting = x.sa.shutting /\ z.sa.throttled = x.sa.throttled
    BY <1>3, <1>5, <1>8, <1>9
  <2>2. /\ z.pipe["in"].adder /\ z.pipe["in"].consumer = x.pipe["in"].consumer
        /\ z.pipe["in"].buf = x.pipe["in"].buf
    <3>1. z.pipe["in"] = c.pipe["in"]
      BY <1>5, <1>8
    <3>2. /\ c.pipe["in"].adder /\ c.pipe["in"].consumer = x.pipe["in"].consumer
          /\ c.pipe["in"].buf = x.pipe["in"].buf
      BY <1>0, <1>3
    <3>3. QED
      BY <3>1, <3>2
  <2>3. /\ z.pipe["out"].adder = x.pipe["out"].adder /\ z.pipe["out"].consumer
        /\ z.pipe["out"].waitA = x.pipe["out"].waitA
        /\ z.pipe["out"].buf = x.pipe["out"].buf
    <3>1. z.pipe = d.pipe
      BY <1>8
    <3>2. c.pipe["out"] = x.pipe["out"]
      BY <1>3
    <3>3. /\ d.pipe["out"].consumer /\ d.pipe["out"].adder = c.pipe["out"].adder
          /\ d.pipe["out"].waitA = c.pipe["out"].waitA
          /\ d.pipe["out"].buf = c.pipe["out"].buf
      BY <1>0, <1>5
    <3>4. QED
      BY <3>1, <3>2, <3>3
  <2>4. z.sa.waitR /\ z.sa.waitW
    BY <1>9
  <2>5. QED
    BY <1>2, <1>10, <1>12, <1>13, <2>1, <2>2, <2>3, <2>4

(* Nobody is there yet, and nothing is left.                                  *)
Vacant(x) ==
  /\ Typed(x) /\ Sound(x) /\ x.use \in Uses /\ x.run.at = "idle"
  /\ \A p \in Pipes : ~x.pipe[p].adder /\ ~x.pipe[p].consumer /\ x.pipe[p].buf = <<>>
  /\ ~x.sa.shutting /\ ~x.sa.throttled /\ x.net.shut = "no" /\ ~x.local.postponed
  /\ x.use = "control" => ~x.local.sent /\ x.local.nested = "none"

(* No line is there when the buffer is empty.                                 *)
LEMMA NoLine ==
  ASSUME NEW x, Typed(x), x.pipe["in"].buf = <<>> PROVE ~Unheard(x)
<1>1. DOMAIN <<>> = {}
  OBVIOUS
<1>2. Eol(x) = 0
  BY <1>1, EolFacts
<1>3. QED
  BY <1>2 DEF Unheard

(* A data connection is set up.                                               *)
LEMMA SetUpData ==
  ASSUME NEW x, Vacant(x), x.use # "control"
  PROVE  LET z == SetUp(x) IN Typed(z) /\ Sound(z) /\ Tended(z)
<1> DEFINE down == x.use = "download"
           up == x.use = "upload"
           a == set_adder(x, "out", down)
           b == set_consumer(a, "in", up)
           z == set_socket(b)
<1>1. /\ "in" \in Pipes /\ "out" \in Pipes /\ down \in BOOLEAN /\ up \in BOOLEAN
      /\ Typed(x) /\ Sound(x) /\ x.run.at = "idle"
  BY DEF Pipes, Vacant
<1>2. SetUp(x) = z
  BY DEF SetUp
<1>3. /\ ~x.pipe["in"].adder /\ ~x.pipe["in"].consumer /\ x.pipe["in"].buf = <<>>
      /\ ~x.pipe["out"].adder /\ ~x.pipe["out"].consumer /\ x.pipe["out"].buf = <<>>
      /\ ~x.pipe["out"].waitA
  BY <1>1 DEF Vacant, Sound
<1>4. /\ Goes(x, a) /\ Typed(a)
      /\ a.run = x.run /\ a.sa = x.sa /\ a.net = x.net /\ a.local = x.local /\ a.use = x.use
      /\ a.pipe["in"] = x.pipe["in"]
      /\ a.pipe["out"].adder = down /\ a.pipe["out"].consumer = x.pipe["out"].consumer
      /\ a.pipe["out"].buf = x.pipe["out"].buf /\ ~a.pipe["out"].waitA
  <2> HIDE DEF down
  <2>1. QED
    BY <1>1, <1>3, SetAdderTypes DEF Goes, Types
<1> HIDE DEF a
<1>5. /\ Goes(a, b) /\ Typed(b)
      /\ b.run = a.run /\ b.sa = a.sa /\ b.net = a.net /\ b.local = a.local /\ b.use = a.use
      /\ b.pipe["out"] = a.pipe["out"]
      /\ b.pipe["in"].consumer = up /\ b.pipe["in"].buf = a.pipe["in"].buf
      /\ up /\ ~a.pipe["in"].consumer => <<"in", "consumer">> \in Due(b)
  <2> HIDE DEF up
  <2>1. QED
    BY <1>1, <1>4, SetConsumerTypes DEF Goes, Types
<1> HIDE DEF b
<1>6. Sound(b)
  BY <1>1, <1>4, <1>5 DEF Goes
<1>7. ~b.pipe["out"].consumer
  BY <1>3, <1>4, <1>5
<1>8. /\ Types(b, z) /\ Sound(z)
      /\ z.run = b.run /\ z.net = b.net /\ z.local = b.local
      /\ z.sa.waitR /\ z.sa.waitW
      /\ z.sa.shutting = b.sa.shutting /\ z.sa.throttled = b.sa.throttled
      /\ z.pipe["in"].adder /\ z.pipe["in"].consumer = b.pipe["in"].consumer
      /\ z.pipe["in"].buf = b.pipe["in"].buf
      /\ z.pipe["out"].adder = b.pipe["out"].adder /\ z.pipe["out"].consumer
      /\ z.pipe["out"].waitA = b.pipe["out"].waitA
      /\ z.pipe["out"].buf = b.pipe["out"].buf
      /\ <<"out", "consumer">> \in Due(z)
      /\ <<"in", "consumer">> \in Due(b) => <<"in", "consumer">> \in Due(z)
  BY <1>5, <1>6, <1>7, SetSocketTypes
<1> HIDE DEF z
<1>9. /\ Typed(z) /\ z.use = x.use /\ z.run.at = "idle"
      /\ ~z.sa.shutting /\ ~z.sa.throttled /\ ~z.local.postponed
      /\ z.pipe["in"].buf = <<>> /\ z.pipe["out"].buf = <<>>
      /\ ~z.pipe["out"].waitA /\ (up => z.pipe["in"].consumer)
      /\ (up => <<"in", "consumer">> \in Due(z)) /\ (down => z.pipe["out"].adder)
  BY <1>1, <1>3, <1>4, <1>5, <1>8, ZenonT(60) DEF Types, Vacant
<1>10. ~Unheard(z)
  BY <1>9, NoLine
<1> DEFINE D == Due(z)
<1>11. <<"out", "consumer">> \in D /\ (up => <<"in", "consumer">> \in D)
  BY <1>8, <1>9
<1> HIDE DEF D
<1>12. Written(z, D)
  BY <1>8, <1>9 DEF Written
<1>13. Heard(z, D)
  BY <1>8, <1>9, <1>10, <1>11 DEF Heard, Listens
<1>14. Fed(z, D)
  BY <1>8, <1>9, <1>11 DEF Fed
<1>15. Tended(z)
  BY <1>9, <1>12, <1>13, <1>14, IdleTended DEF Cared, D
<1>16. QED
  BY <1>2, <1>8, <1>9, <1>15

(* The output's adder is told that it is one, or is not.                      *)
LEMMA OutAdder ==
  ASSUME NEW x, Typed(x), NEW on \in BOOLEAN
  PROVE  LET c == set_adder(x, "out", on)
         IN /\ Goes(x, c) /\ c.run = x.run /\ c.sa = x.sa /\ c.net = x.net /\ c.local = x.local
            /\ c.pipe["in"] = x.pipe["in"]
            /\ c.pipe["out"].adder = on /\ c.pipe["out"].consumer = x.pipe["out"].consumer
            /\ c.pipe["out"].buf = x.pipe["out"].buf
<1>1. "in" \in Pipes /\ "out" \in Pipes
  BY DEF Pipes
<1>2. QED
  BY <1>1, SetAdderTypes

(* The input's consumer is told that it is one, or is not.                    *)
LEMMA InConsumer ==
  ASSUME NEW x, Typed(x), NEW on \in BOOLEAN
  PROVE  LET d == set_consumer(x, "in", on)
         IN /\ Goes(x, d) /\ d.run = x.run /\ d.sa = x.sa /\ d.net = x.net /\ d.local = x.local
            /\ d.pipe["out"] = x.pipe["out"]
            /\ d.pipe["in"].consumer = on /\ d.pipe["in"].adder = x.pipe["in"].adder
            /\ d.pipe["in"].buf = x.pipe["in"].buf
            /\ on /\ ~x.pipe["in"].consumer => <<"in", "consumer">> \in Due(d)
<1>1. "in" \in Pipes /\ "out" \in Pipes
  BY DEF Pipes
<1>2. QED
  BY <1>1, SetConsumerTypes

(* A control connection is set up, and its client greeted.                    *)
LEMMA SetUpControl ==
  ASSUME NEW x, Vacant(x), x.use = "control"
  PROVE  LET z == SetUp(x) IN Typed(z) /\ Sound(z) /\ Tended(z)
<1>0. PICK on \in BOOLEAN : on = TRUE
  OBVIOUS
<1> DEFINE a == set_socket(x)
           b == set_adder(a, "out", on)
           c == set_consumer(b, "in", on)
           z == respond(c)
<1>1. Typed(x) /\ Sound(x) /\ x.run.at = "idle"
  BY DEF Vacant
<1>2. SetUp(x) = z
  BY <1>0 DEF SetUp
<1>3. /\ ~x.pipe["in"].consumer /\ x.pipe["in"].buf = <<>>
      /\ ~x.sa.shutting /\ ~x.sa.throttled /\ x.net.shut = "no" /\ ~x.local.postponed
      /\ ~x.local.sent /\ x.local.nested = "none"
  BY DEF Vacant, Pipes
<1>4. /\ Types(x, a) /\ (Sound(x) => Sound(a))
      /\ a.run = x.run /\ a.net = x.net /\ a.local = x.local
      /\ a.sa.waitR /\ a.sa.waitW
      /\ a.sa.shutting = x.sa.shutting /\ a.sa.throttled = x.sa.throttled
      /\ a.pipe["in"].adder /\ a.pipe["in"].consumer = x.pipe["in"].consumer
      /\ a.pipe["in"].buf = x.pipe["in"].buf /\ a.pipe["out"].consumer
  BY <1>1, SetSocketTypes
<1> HIDE DEF a
<1>5. Typed(a) /\ a.use = "control"
  BY <1>4 DEF Types
<1>6. /\ Goes(a, b) /\ b.run = a.run /\ b.sa = a.sa /\ b.net = a.net /\ b.local = a.local
      /\ b.pipe["in"] = a.pipe["in"]
      /\ b.pipe["out"].adder = on /\ b.pipe["out"].consumer = a.pipe["out"].consumer
  BY <1>5, OutAdder
<1> HIDE DEF b
<1>7. Typed(b) /\ b.use = "control"
  BY <1>5, <1>6 DEF Goes, Types
<1>8. /\ Goes(b, c) /\ c.run = b.run /\ c.sa = b.sa /\ c.net = b.net /\ c.local = b.local
      /\ c.pipe["out"] = b.pipe["out"]
      /\ c.pipe["in"].consumer = on /\ c.pipe["in"].adder = b.pipe["in"].adder
      /\ c.pipe["in"].buf = b.pipe["in"].buf
      /\ on /\ ~b.pipe["in"].consumer => <<"in", "consumer">> \in Due(c)
  BY <1>7, InConsumer
<1> HIDE DEF c
<1>9. Typed(c) /\ c.use = "control"
  BY <1>7, <1>8 DEF Goes, Types
<1>10. Goes(c, z) /\ Answers(c, z)
  BY <1>9, RespondAnswers
<1> HIDE DEF z
<1>11. Typed(z) /\ z.use = "control" /\ Sound(z)
  BY <1>1, <1>4, <1>6, <1>8, <1>9, <1>10 DEF Goes, Types
<1>12. c.pipe["out"].adder /\ c.pipe["out"].consumer
  BY <1>0, <1>4, <1>6, <1>8
<1>13. /\ c.pipe["in"].adder /\ c.pipe["in"].consumer /\ c.pipe["in"].buf = <<>>
       /\ <<"in", "consumer">> \in Due(c)
  BY <1>0, <1>3, <1>4, <1>6, <1>8
<1>14. /\ c.run = x.run /\ c.net = x.net /\ c.local = x.local
       /\ c.sa.waitR /\ c.sa.waitW /\ ~c.sa.shutting /\ ~c.sa.throttled
  BY <1>3, <1>4, <1>6, <1>8
<1>15. z.local = [c.local EXCEPT !.sent = z.local.sent]
  BY <1>10 DEF Answers
<1>16. z.local.nested = "none" /\ ~z.local.postponed
  BY <1>3, <1>9, <1>14, <1>15 DEF Typed, LocalState
<1>17. /\ z.run = x.run /\ z.net = x.net /\ z.sa = c.sa /\ z.pipe["in"] = c.pipe["in"]
       /\ z.pipe["out"].adder /\ z.pipe["out"].consumer /\ z.pipe["out"].buf # <<>>
       /\ <<"in", "consumer">> \in Due(z) /\ <<"out", "adder">> \in Due(z)
  BY <1>3, <1>10, <1>12, <1>13, <1>14 DEF Answers
<1>18. ~Unheard(z)
  BY <1>11, <1>13, <1>17, NoLine
<1> DEFINE D == Due(z)
<1>19. <<"in", "consumer">> \in D /\ <<"out", "adder">> \in D
  BY <1>17
<1> HIDE DEF D
<1>20. Written(z, D)
  BY <1>3, <1>14, <1>16, <1>17, <1>19 DEF Written
<1>21. Heard(z, D)
  BY <1>13, <1>14, <1>16, <1>17, <1>18, <1>19 DEF Heard
<1>22. Fed(z, D)
  BY <1>11 DEF Fed
<1>23. Tended(z)
  BY <1>1, <1>11, <1>17, <1>20, <1>21, <1>22, IdleTended DEF Cared, D
<1>24. QED
  BY <1>2, <1>11, <1>23

(* A channel begins with everybody told.                                      *)
LEMMA BeginsTended == ASSUME Init PROVE Tending
<1>1. PICK use \in Uses : s = SetUp(Fresh(use))
  BY DEF Init
<1> DEFINE x == Fresh(use)
<1>2. /\ Typed(x) /\ x.use = use /\ Sound(x) /\ x.run.at = "idle"
      /\ x.pipe = [p \in Pipes |-> EmptyPipe]
      /\ ~x.sa.shutting /\ ~x.sa.throttled /\ x.net.shut = "no"
      /\ ~x.local.postponed /\ ~x.local.sent /\ x.local.nested = "none"
  BY FreshTypes
<1> HIDE DEF x
<1>3. \A p \in Pipes : ~x.pipe[p].adder /\ ~x.pipe[p].consumer /\ x.pipe[p].buf = <<>>
  BY <1>2 DEF EmptyPipe
<1>4. Vacant(x)
  BY <1>2, <1>3 DEF Vacant
<1>5. Typed(s) /\ Sound(s) /\ Tended(s)
  BY <1>1, <1>4, SetUpData, SetUpControl DEF x
<1>6. QED
  BY <1>5 DEF Tending

(* And so does the next data connection.                                      *)
LEMMA OpenTends ==
  ASSUME Typed(s), Sound(s), Moving, NEW use \in Uses \ {"control"}, Open(use)
  PROVE  Tending'
<1> DEFINE t == Taken
           x == [t EXCEPT !.use = use, !.transfer = @ + 1]
<1>1. s.queue # <<>> /\ s.run.at = "idle" /\ Head(s.queue).to = <<"session", "open">> /\ s' = SetUp(x)
  BY DEF Open, Dispatched
<1>2. s.use = "closed"
  <2>1. s.queue[1].to = <<"session", "open">> /\ 1 \in DOMAIN s.queue
    BY <1>1 DEF Typed
  <2>2. QED
    BY <2>1 DEF Moving, Move, Events, Worth
<1>3. /\ \A p \in Pipes : ~s.pipe[p].adder /\ ~s.pipe[p].consumer /\ s.pipe[p].buf = <<>>
      /\ ~s.sa.shutting /\ ~s.sa.throttled /\ s.net.shut = "no" /\ ~s.local.postponed
  BY <1>2 DEF Moving, Move, Ends, Off
<1>4. Typed(t) /\ Sound(t) /\ Same(s, t)
  BY <1>1, TakenTypes DEF Types
<1> HIDE DEF t
<1>5. /\ DOMAIN x = Fields /\ x.use = use /\ x.queue = t.queue /\ x.run = t.run
      /\ x.pipe = t.pipe /\ x.sa = t.sa /\ x.net = t.net /\ x.local = t.local
  BY <1>4 DEF Typed, Fields
<1> HIDE DEF x
<1>6. Typed(x)
  BY <1>4, <1>5 DEF Typed, Fits
<1>7. /\ \A p \in Pipes : ~x.pipe[p].adder /\ ~x.pipe[p].consumer /\ x.pipe[p].buf = <<>>
      /\ ~x.sa.shutting /\ ~x.sa.throttled /\ x.net.shut = "no" /\ ~x.local.postponed
      /\ x.run.at = "idle"
  BY <1>1, <1>3, <1>4, <1>5 DEF Same
<1>8. Sound(x)
  <2>1. t.use # "control"
    BY <1>2, <1>4 DEF Same
  <2>2. QED
    BY <1>4, <1>5, <2>1 DEF Sound
<1>9. Vacant(x)
  BY <1>5, <1>6, <1>7, <1>8 DEF Vacant
<1>10. Typed(s') /\ Sound(s') /\ Tended(s')
  BY <1>1, <1>5, <1>9, SetUpData
<1>11. QED
  BY <1>10 DEF Tending

-----------------------------------------------------------------------------
(* What the commander is told *)

(* The event is taken, and everybody is cared for as before.                  *)
LEMMA TakenCares ==
  ASSUME Typed(s), s.queue # <<>>, Head(s.queue).to \notin Dones, Head(s.queue).to \notin Callees
  PROVE  /\ Goes(s, Taken) /\ Typed(Taken) /\ Same(s, Taken)
         /\ Cared(s, Due(s)) => Cared(Taken, Due(Taken))
<1>1. /\ Goes(s, Taken) /\ Typed(Taken) /\ Same(s, Taken)
      /\ Due(s) \subseteq Due(Taken) \cup {Head(s.queue).to}
  BY TakenTypes DEF Types
<1>2. QED
  BY <1>1, OtherCares

(* A reply is in the output, so its adder is on its way.                      *)
LEMMA AnswerIsCalled ==
  ASSUME NEW x, Typed(x), x.use = "control", Cared(x, Due(x)), NEW y, Answers(x, y)
  PROVE  <<"out", "adder">> \in Due(y)
<1>1. {} \in SUBSET Loops /\ Due(x) \cup {} = Due(x)
  OBVIOUS
<1>2. <<"out", "first">> \notin Due(x)
  BY <1>1, DueFacts
<1>3. x.pipe["out"].adder /\ (x.local.sent => <<"out", "adder">> \in Due(x))
  BY <1>2 DEF Cared, Written
<1>4. QED
  BY <1>3 DEF Answers

(* The result of a command: nobody waits for it any more, it ends the         *)
(* command, or there is a directory to list.                                  *)
LEMMA CommandEndsKeeps ==
  ASSUME Typed(s), s.use = "control", CommandEnds PROVE Kept
<1> DEFINE t == Taken
           y == respond(t)
           w == act_upon_command_reply(y)
           z == [y EXCEPT !.local.nested = "idle", !.local.entries = Entries]
<1>1. s.queue # <<>> /\ s.run.at = "idle" /\ Head(s.queue).to = <<"commander", "result">>
  BY DEF CommandEnds, Dispatched
<1>2. <<"commander", "result">> \notin Dones /\ <<"commander", "result">> \notin Callees
  BY DEF Dones, Callees
<1>3. /\ Goes(s, t) /\ Typed(t) /\ Same(s, t)
      /\ Cared(s, Due(s)) => Cared(t, Due(t))
  BY <1>1, <1>2, TakenCares
<1>4. s' = t \/ s' = w \/ s' = z
  BY DEF CommandEnds
<1> HIDE DEF t
<1>5. t.run = s.run /\ t.use = "control"
  BY <1>3 DEF Same
<1>6. CASE s' = t
  BY <1>1, <1>3, <1>5, <1>6, IdleKeeps
<1>7. Goes(t, y) /\ Answers(t, y)
  BY <1>3, RespondAnswers
<1>8. Minds(t, y)
  BY <1>3, <1>5, <1>7, AnswersMind
<1> HIDE DEF y
<1>9. Typed(y) /\ y.use = "control" /\ Goes(s, y) /\ y.run = s.run
  BY <1>3, <1>5, <1>7, <1>8, GoesFurther DEF Goes, Types, Minds
<1>10. Cared(s, Due(s)) => Cared(y, Due(y)) /\ <<"out", "adder">> \in Due(y)
  BY <1>3, <1>5, <1>7, <1>8, MindsDue, AnswerIsCalled
<1>11. CASE s' = w
  <2>1. Goes(y, w) /\ Minds(y, w) /\ w.run = y.run
    BY <1>9, CommandOverMinds, Zenon
  <2> HIDE DEF w
  <2>2. Goes(s, w)
    BY <1>9, <2>1, GoesFurther
  <2>3. Cared(s, Due(s)) => Cared(w, Due(w))
    BY <1>10, <2>1, MindsDue
  <2>4. QED
    BY <1>1, <1>9, <1>11, <2>1, <2>2, <2>3, IdleKeeps
<1>12. CASE s' = z
  <2>1. /\ DOMAIN z = Fields /\ z.queue = y.queue /\ z.use = y.use /\ z.run = y.run
        /\ z.pipe = y.pipe /\ z.sa = y.sa /\ z.net = y.net
        /\ z.local = [[y.local EXCEPT !.nested = "idle"] EXCEPT !.entries = Entries]
    BY <1>9 DEF Typed, Fields
  <2> HIDE DEF z
  <2>2. y.local \in LocalState /\ Entries \in Int
    BY <1>9, ChannelAssumption DEF Typed
  <2>3. /\ z.local \in LocalState /\ z.local.postponed = y.local.postponed
        /\ z.local.busy = y.local.busy /\ z.local.quit = y.local.quit
        /\ z.local.sent = y.local.sent
    BY <2>1, <2>2 DEF LocalState
  <2>4. Types(y, z)
    BY <1>9, <2>1, <2>3 DEF Types, Typed, Fits
  <2>5. Due(z) = Due(y)
    BY <2>1 DEF Due
  <2>6. Goes(y, z)
    BY <2>1, <2>4, <2>5 DEF Goes, Sound
  <2>7. Goes(s, z)
    BY <1>9, <2>6, GoesFurther
  <2>8. ASSUME Cared(s, Due(s)) PROVE Cared(z, Due(z))
    <3> DEFINE D == Due(y)
    <3>1. Cared(y, D) /\ <<"out", "adder">> \in D /\ Due(z) = D
      BY <1>10, <2>5, <2>8
    <3> HIDE DEF D
    <3>2. Listens(z) = Listens(y) /\ Unheard(z) = Unheard(y) /\ Eol(z) = Eol(y)
      BY <2>1, <2>3 DEF Listens, Unheard, Eol
    <3>3. Written(z, D)
      BY <2>1, <3>1 DEF Cared, Written
    <3>4. Heard(z, D)
      BY <2>1, <2>3, <3>1, <3>2 DEF Cared, Heard
    <3>5. Fed(z, D)
      BY <1>9, <2>1 DEF Fed
    <3>6. QED
      BY <3>1, <3>3, <3>4, <3>5 DEF Cared
  <2>9. QED
    BY <1>1, <1>9, <1>12, <2>1, <2>7, <2>8, IdleKeeps
<1>13. QED
  BY <1>4, <1>6, <1>11, <1>12

(* Entries of the directory: its adder is told.                               *)
LEMMA EntriesArriveKeeps ==
  ASSUME Typed(s), s.use = "control", EntriesArrive PROVE Kept
<1> DEFINE t == Taken
           b == Append(t.pipe["out"].buf, "c")
           e == t.local.entries - 1
           y == [t EXCEPT !.pipe["out"].buf = b]
           v == [t EXCEPT !.pipe["out"].buf = b, !.local.nested = "idle", !.local.entries = e]
           z == NotifyAdder(v, "out", "ok")
<1>1. /\ s.queue # <<>> /\ s.run.at = "idle" /\ Head(s.queue).to = <<"lister", "entries">>
      /\ "out" \in Pipes /\ "in" \in Pipes /\ "ok" \in Errors
  BY DEF EntriesArrive, Dispatched, Pipes, Errors
<1>2. <<"lister", "entries">> \notin Dones /\ <<"lister", "entries">> \notin Callees
  BY DEF Dones, Callees
<1>3. /\ Goes(s, t) /\ Typed(t) /\ Same(s, t)
      /\ Cared(s, Due(s)) => Cared(t, Due(t))
  BY <1>1, <1>2, TakenCares
<1>4. s' = z
  BY DEF EntriesArrive
<1> HIDE DEF t
<1>5. t.run = s.run /\ t.use = "control"
  BY <1>3 DEF Same
<1>6. b \in Seq(Units) /\ b # <<>> /\ e \in Int
  <2>1. t.pipe["out"].buf \in Seq(Units) /\ "c" \in Units /\ t.local.entries \in Int
    BY <1>1, <1>3 DEF Typed, PipeState, LocalState, Units
  <2>2. e \in Int
    BY <2>1
  <2>3. b \in Seq(Units)
    BY <2>1
  <2>4. b # <<>>
    BY <2>1
  <2>5. QED
    BY <2>2, <2>3, <2>4
<1> HIDE DEF b, e
<1>7. Goes(t, y) /\ Buffered(t, y, "out", b) /\ Due(y) = Due(t)
  BY <1>1, <1>3, <1>6, BufferTypes
<1>8. /\ DOMAIN v = Fields /\ v.queue = y.queue /\ v.use = y.use /\ v.run = y.run
      /\ v.pipe = y.pipe /\ v.sa = y.sa /\ v.net = y.net
      /\ v.local = [[y.local EXCEPT !.nested = "idle"] EXCEPT !.entries = e]
  BY <1>3 DEF Typed, Fields
<1> HIDE DEF y, v
<1>9. Typed(y) /\ y.use = "control"
  BY <1>5, <1>7 DEF Goes, Types
<1>10. /\ v.local \in LocalState /\ v.local.postponed = y.local.postponed
       /\ v.local.busy = y.local.busy /\ v.local.quit = y.local.quit
       /\ v.local.sent = y.local.sent
  <2>1. y.local \in LocalState
    BY <1>9 DEF Typed
  <2>2. QED
    BY <1>6, <1>8, <2>1 DEF LocalState
<1>11. Types(y, v)
  BY <1>8, <1>9, <1>10 DEF Types, Typed, Fits
<1>12. Due(v) = Due(y)
  BY <1>8 DEF Due
<1>13. Goes(y, v)
  BY <1>8, <1>11, <1>12 DEF Goes, Sound
<1>14. Typed(v)
  BY <1>11 DEF Types
<1>15. /\ Types(v, z) /\ Same(v, z) /\ Due(v) \subseteq Due(z)
       /\ v.pipe["out"].adder => <<"out", "adder">> \in Due(z)
  BY <1>1, <1>14, NotifyAdderTypes
<1> HIDE DEF z
<1>16. Goes(v, z)
  BY <1>15, SameGoes
<1>17. Goes(s, z)
  BY <1>3, <1>7, <1>13, <1>16, GoesFurther
<1>18. z.run = s.run
  BY <1>5, <1>7, <1>8, <1>15 DEF Same, Buffered
<1>19. ASSUME Cared(s, Due(s)) PROVE Cared(z, Due(z))
  <2> DEFINE D == Due(t)
             E == Due(z)
  <2>1. D \subseteq E /\ Cared(t, D)
    BY <1>3, <1>7, <1>12, <1>15, <1>19
  <2>2. /\ z.use = "control" /\ z.sa = t.sa /\ z.net = t.net
        /\ z.pipe["in"] = t.pipe["in"] /\ z.pipe["out"].buf # <<>>
        /\ z.pipe["out"].adder = t.pipe["out"].adder
        /\ z.pipe["out"].consumer = t.pipe["out"].consumer
        /\ z.pipe["out"].waitC = t.pipe["out"].waitC
        /\ z.pipe["out"].waitA = t.pipe["out"].waitA
    BY <1>1, <1>5, <1>6, <1>7, <1>8, <1>15 DEF Same, Buffered
  <2>3. /\ z.local.postponed = t.local.postponed
        /\ z.local.busy = t.local.busy /\ z.local.quit = t.local.quit
    BY <1>7, <1>10, <1>15 DEF Same, Buffered
  <2>4. t.pipe["out"].adder => <<"out", "adder">> \in E
    BY <1>1, <1>7, <1>8, <1>15 DEF Buffered
  <2> HIDE DEF D, E
  <2>5. Listens(z) = Listens(t) /\ Unheard(z) = Unheard(t) /\ Eol(z) = Eol(t)
    BY <1>5, <2>2, <2>3 DEF Listens, Unheard, Eol
  <2>6. Written(z, E)
    BY <1>5, <2>1, <2>2, <2>4 DEF Cared, Written
  <2>7. Heard(z, E)
    BY <1>5, <2>1, <2>2, <2>3, <2>5 DEF Cared, Heard
  <2>8. Fed(z, E)
    BY <2>2 DEF Fed
  <2>9. QED
    BY <2>6, <2>7, <2>8 DEF Cared, E
<1>20. QED
  BY <1>1, <1>4, <1>17, <1>18, <1>19, IdleKeeps

(* Time is up: the session is over, or the client is told so.                 *)
LEMMA TimeoutTends ==
  ASSUME Typed(s), Sound(s), s.use = "control", Timeout PROVE Kept \/ Ended
<1> DEFINE t == Taken
           y == respond(t)
           z == [y EXCEPT !.local.quit = "timeout"]
           w == shutdown_commander(z, "timeout")
<1>1. /\ s.queue # <<>> /\ s.run.at = "idle" /\ Head(s.queue).to = <<"commander", "timer">>
      /\ "timeout" \in Errors
  BY DEF Timeout, Dispatched, Errors
<1>2. <<"commander", "timer">> \notin Dones /\ <<"commander", "timer">> \notin Callees
  BY DEF Dones, Callees
<1>3. /\ Goes(s, t) /\ Typed(t) /\ Same(s, t)
      /\ Cared(s, Due(s)) => Cared(t, Due(t))
  BY <1>1, <1>2, TakenCares
<1>4. s' = IF s.local.nested # "none" THEN over(t) ELSE w
  BY DEF Timeout
<1> HIDE DEF t
<1>5. CASE s.local.nested # "none"
  BY <1>3, <1>4, <1>5, OverTypes DEF Ended, Going
<1>6. CASE s.local.nested = "none"
  <2>1. t.run = s.run /\ t.use = "control"
    BY <1>3 DEF Same
  <2>2. Goes(t, y) /\ Answers(t, y)
    BY <1>3, RespondAnswers
  <2>3. Minds(t, y)
    BY <1>3, <2>1, <2>2, AnswersMind
  <2> HIDE DEF y
  <2>4. Typed(y) /\ y.use = "control" /\ Goes(s, y) /\ y.run = s.run
    BY <1>3, <2>1, <2>2, <2>3, GoesFurther DEF Goes, Types, Minds
  <2>5. Cared(s, Due(s)) => Cared(y, Due(y))
    BY <1>3, <2>3, MindsDue
  <2>6. /\ DOMAIN z = Fields /\ z.queue = y.queue /\ z.use = y.use /\ z.run = y.run
        /\ z.pipe = y.pipe /\ z.sa = y.sa /\ z.net = y.net
        /\ z.local = [y.local EXCEPT !.quit = "timeout"]
    BY <2>4 DEF Typed, Fields
  <2> HIDE DEF z
  <2>7. /\ z.local \in LocalState /\ z.local.quit = "timeout"
        /\ z.local.sent = y.local.sent /\ z.local.nested = y.local.nested
    <3>1. y.local \in LocalState
      BY <2>4 DEF Typed
    <3>2. QED
      BY <2>6, <3>1 DEF LocalState
  <2>8. Types(y, z)
    BY <2>4, <2>6, <2>7 DEF Types, Typed, Fits
  <2>9. Due(z) = Due(y)
    BY <2>6 DEF Due
  <2>10. Goes(y, z) /\ Typed(z) /\ z.use = "control"
    BY <2>4, <2>6, <2>8, <2>9 DEF Goes, Sound, Types
  <2>11. Cared(y, Due(y)) => Cared(z, Due(z))
    <3> DEFINE D == Due(y)
    <3>1. Due(z) = D
      BY <2>9
    <3> HIDE DEF D
    <3>2. ASSUME Cared(y, D) PROVE Written(z, D)
      BY <2>6, <2>7, <3>2 DEF Cared, Written
    <3>3. Heard(z, D) /\ Fed(z, D)
      BY <2>10, <2>7 DEF Heard, Fed, Listens
    <3>4. QED
      BY <3>1, <3>2, <3>3 DEF Cared, D
  <2>12. Goes(z, w) /\ w.run = z.run /\ Minds(z, w)
    BY <1>1, <2>7, <2>10, ShutdownCommanderMinds
  <2> HIDE DEF w
  <2>13. Goes(s, w)
    BY <2>4, <2>10, <2>12, GoesFurther
  <2>14. Cared(s, Due(s)) => Cared(w, Due(w))
    BY <2>5, <2>11, <2>12, MindsDue
  <2>15. QED
    BY <1>1, <1>4, <1>6, <2>4, <2>6, <2>12, <2>13, <2>14, IdleKeeps
<1>7. QED
  BY <1>5, <1>6

-----------------------------------------------------------------------------
(* What other threads, the clock, the socket and the client do *)

(* An event that is sent harms nobody, whatever runs.                         *)
LEMMA PostKeeps ==
  ASSUME Typed(s), NEW to \in Receivers, NEW err \in Errors, s' = Post(s, to, err) PROVE Kept
<1>1. Types(s, s') /\ Same(s, s') /\ Due(s) \subseteq Due(s')
  BY PostTypes
<1>2. Goes(s, s')
  BY <1>1, SameGoes
<1>3. ASSUME Tended(s) PROVE Tended(s')
  <2>1. Running(s') = Running(s)
    BY <1>1 DEF Running, Same
  <2> DEFINE D == Due(s) \cup Running(s)
             E == Due(s') \cup Running(s')
  <2>2. D \subseteq E /\ Cared(s, D)
    BY <1>1, <1>3, <2>1 DEF Tended
  <2> HIDE DEF D, E
  <2>3. Cared(s', E)
    BY <1>1, <2>2, MoreCares
  <2>4. Listens(s') = Listens(s)
    BY <1>1 DEF Same, Listens
  <2>5. Looped(s')
    BY <1>1, <1>3, <2>4 DEF Tended, Looped, Same
  <2>6. QED
    BY <2>3, <2>5 DEF Tended, E
<1>4. QED
  BY <1>2, <1>3 DEF Kept

(* The worker of a command, the lister, the clock, the data port, the socket. *)
LEMMA PostsKeep ==
  ASSUME Typed(s), \/ WorkIsDone \/ EntriesAreRead \/ TimerExpires \/ Connects
                   \/ BecomesReadable \/ BecomesWritable
  PROVE  Kept
<1>1. /\ <<"commander", "result">> \in Receivers /\ <<"lister", "entries">> \in Receivers
      /\ <<"commander", "timer">> \in Receivers /\ <<"session", "open">> \in Receivers
      /\ <<"socket", "read">> \in Receivers /\ <<"socket", "write">> \in Receivers
  BY DEF Receivers, TalkTo
<1>2. "ok" \in Errors /\ "failed" \in Errors
  BY DEF Errors
<1>3. CASE WorkIsDone \/ EntriesAreRead \/ TimerExpires \/ Connects
  <2>1. PICK to \in Receivers : s' = Post(s, to, "ok")
    BY <1>1, <1>3 DEF WorkIsDone, EntriesAreRead, TimerExpires, Connects, Once
  <2>2. QED
    BY <1>2, <2>1, PostKeeps
<1>4. CASE BecomesReadable \/ BecomesWritable
  <2>1. PICK to \in Receivers, err \in Errors : s' = Post(s, to, err)
    BY <1>1, <1>2, <1>4 DEF BecomesReadable, BecomesWritable
  <2>2. QED
    BY <2>1, PostKeeps
<1>5. QED
  BY <1>3, <1>4

(* What the client does is in the socket: nobody has been told of it yet.     *)
LEMMA NetKeeps ==
  ASSUME Typed(s), DOMAIN s' = Fields, s'.use = s.use, s'.queue = s.queue, s'.run = s.run,
         s'.pipe = s.pipe, s'.sa = s.sa, s'.local = s.local,
         s'.net \in NetState, s'.net.shut = s.net.shut
  PROVE  Kept
<1>1. Goes(s, s') /\ Due(s') = Due(s)
  BY PartsTypes DEF Typed
<1>2. Running(s') = Running(s)
  BY DEF Running
<1>3. Listens(s') = Listens(s) /\ Unheard(s') = Unheard(s) /\ Eol(s') = Eol(s)
  BY DEF Listens, Unheard, Eol
<1>4. ASSUME Tended(s) PROVE Tended(s')
  <2> DEFINE D == Due(s) \cup Running(s)
  <2>1. Cared(s, D) /\ Looped(s) /\ Due(s') \cup Running(s') = D
    BY <1>1, <1>2, <1>4 DEF Tended
  <2> HIDE DEF D
  <2>2. Written(s', D)
    BY <2>1 DEF Cared, Written
  <2>3. Heard(s', D)
    BY <1>3, <2>1 DEF Cared, Heard
  <2>4. Fed(s', D)
    BY <2>1 DEF Cared, Fed
  <2>5. Looped(s')
    BY <1>3, <2>1 DEF Looped
  <2>6. QED
    BY <2>1, <2>2, <2>3, <2>4, <2>5 DEF Tended, Cared
<1>5. QED
  BY <1>1, <1>4 DEF Kept

(* The client sends, reads, closes its half or all of it.                     *)
LEMMA ClientKeeps ==
  ASSUME Typed(s), \/ \E u \in Units : ClientSends(u)
                   \/ ClientReads \/ ClientCloses \/ ClientResets
  PROVE  Kept
<1>1. DOMAIN s = Fields /\ s.net \in NetState /\ Room \in Nat
  BY ChannelAssumption DEF Typed
<1>2. CASE \E u \in Units : ClientSends(u)
  <2>1. PICK u \in Units : s' = [s EXCEPT !.net.avail = Append(@, u), !.net.sent = @ + 1]
    BY <1>2, Zenon DEF ClientSends
  <2> DEFINE a == Append(s.net.avail, u)
             n == s.net.sent + 1
  <2>2. a \in Seq(Units)
    BY <1>1 DEF NetState
  <2>3. n \in Nat
    BY <1>1 DEF NetState
  <2>4. s' = [s EXCEPT !.net.avail = a, !.net.sent = n]
    BY <2>1
  <2> HIDE DEF a, n
  <2>5. /\ DOMAIN s' = Fields /\ s'.use = s.use /\ s'.queue = s.queue /\ s'.run = s.run
        /\ s'.pipe = s.pipe /\ s'.sa = s.sa /\ s'.local = s.local
        /\ s'.net = [[s.net EXCEPT !.avail = a] EXCEPT !.sent = n]
    BY <1>1, <2>4 DEF Fields
  <2>6. s'.net \in NetState /\ s'.net.shut = s.net.shut
    BY <1>1, <2>2, <2>3, <2>5 DEF NetState
  <2>7. QED
    BY <2>5, <2>6, NetKeeps
<1>3. CASE ClientReads \/ ClientCloses \/ ClientResets
  <2>1. \/ s' = [s EXCEPT !.net.room = Room] \/ s' = [s EXCEPT !.net.eof = TRUE]
        \/ s' = [s EXCEPT !.net.reset = TRUE]
    BY <1>3 DEF ClientReads, ClientCloses, ClientResets
  <2>2. /\ DOMAIN s' = Fields /\ s'.use = s.use /\ s'.queue = s.queue /\ s'.run = s.run
        /\ s'.pipe = s.pipe /\ s'.sa = s.sa /\ s'.local = s.local
        /\ \/ s'.net = [s.net EXCEPT !.room = Room] \/ s'.net = [s.net EXCEPT !.eof = TRUE]
           \/ s'.net = [s.net EXCEPT !.reset = TRUE]
    BY <1>1, <2>1 DEF Fields
  <2>3. s'.net \in NetState /\ s'.net.shut = s.net.shut
    BY <1>1, <2>2 DEF NetState
  <2>4. QED
    BY <2>2, <2>3, NetKeeps
<1>4. QED
  BY <1>2, <1>3

-----------------------------------------------------------------------------
(* Every step *)

(* Nobody is forgotten by a step that keeps it.                               *)
LEMMA KeptTends == ASSUME Tending, Kept \/ Ended PROVE Tending'
<1>1. CASE Ended
  BY <1>1 DEF Ended, Tending
<1>2. CASE Kept
  <2>1. Typed(s') /\ Sound(s')
    BY <1>2 DEF Kept, Goes, Types, Tending
  <2>2. Going(s) => Going(s')
    BY <1>2 DEF Kept, Goes, Going
  <2>3. Going(s') \/ Tended(s')
    BY <1>2, <2>2 DEF Kept, Tending
  <2>4. QED
    BY <2>1, <2>3 DEF Tending
<1>3. QED
  BY <1>1, <1>2

(* The events of a commander are those of a control connection, and the one   *)
(* that opens a data connection comes when none is there.                     *)
LEMMA WhoIsTold ==
  ASSUME IInv
  PROVE  /\ CommandEnds \/ EntriesArrive \/ Timeout => s.use = "control"
         /\ SocketWrite => (s.use # "control" => s.net.shut = "no")
         /\ \A use \in Uses : Open(use) => Moving
<1>1. CASE Moving
  <2>1. s.queue # <<>> => Head(s.queue).to \in MoveTo
    BY <1>1, TakenMoves DEF MoveEvent
  <2>2. /\ <<"commander", "result">> \notin MoveTo
        /\ <<"lister", "entries">> \notin MoveTo /\ <<"commander", "timer">> \notin MoveTo
    BY DEF MoveTo, Operators, Pipes
  <2>3. ~CommandEnds /\ ~EntriesArrive /\ ~Timeout
    BY <2>1, <2>2 DEF CommandEnds, EntriesArrive, Timeout, Dispatched
  <2>4. s.net.shut = "no"
    BY <1>1 DEF Moving, Move, Ends
  <2>5. QED
    BY <1>1, <2>3, <2>4
<1>2. CASE Speaking
  <2>1. s.queue # <<>> => Head(s.queue).to \in TalkTo
    <3>1. s.queue \in Seq(TalkEvent)
      BY <1>2 DEF Speaking, Talk
    <3>2. s.queue # <<>> => Head(s.queue) \in TalkEvent
      BY <3>1
    <3>3. QED
      BY <3>2 DEF TalkEvent
  <2>2. <<"session", "open">> \notin TalkTo
    BY DEF TalkTo, Operators, Pipes
  <2>3. \A use \in Uses : ~Open(use)
    BY <2>1, <2>2 DEF Open, Dispatched
  <2>4. QED
    BY <1>2, <2>3 DEF Speaking
<1>3. CASE Hushed
  BY <1>3 DEF Hushed, CommandEnds, EntriesArrive, Timeout, SocketWrite, Open, Dispatched
<1>4. QED
  BY <1>1, <1>2, <1>3 DEF IInv

(* Everybody who is cared for stays so.                                       *)
LEMMA TendingGoesOn == ASSUME IInv, Tending, Next PROVE Tending'
<1>1. Typed(s) /\ Sound(s)
  BY DEF Tending
<1>2. CASE AddStep \/ ConsumeStep
  BY <1>1, <1>2, AddStepMinds, ConsumeStepMinds, KeptTends DEF Kept
<1>3. CASE \E p \in Pipes : AdderEvent(p) \/ ConsumerEvent(p) \/ PipeDone(p)
  BY <1>1, <1>3, AdderEventKeeps, ConsumerEventKeeps, PipeDoneEnds, KeptTends
<1>4. CASE SocketRead \/ SocketWrite \/ ShutdownEvent
  BY <1>1, <1>4, WhoIsTold, SocketReadKeeps, SocketWriteKeeps, ShutdownEventKeeps, KeptTends
<1>5. CASE ChannelDone \/ Close
  BY <1>1, <1>5, ChannelEnds, KeptTends
<1>6. CASE CommandEnds \/ EntriesArrive \/ Timeout
  BY <1>1, <1>6, WhoIsTold, CommandEndsKeeps, EntriesArriveKeeps, TimeoutTends, KeptTends
<1>7. CASE \E use \in Uses \ {"control"} : Open(use)
  BY <1>1, <1>7, WhoIsTold, OpenTends
<1>8. CASE \/ WorkIsDone \/ EntriesAreRead \/ TimerExpires \/ Connects
           \/ BecomesReadable \/ BecomesWritable
  BY <1>1, <1>8, PostsKeep, KeptTends
<1>9. CASE \/ \E u \in Units : ClientSends(u)
           \/ ClientReads \/ ClientCloses \/ ClientResets
  BY <1>1, <1>9, ClientKeeps, KeptTends
<1>10. QED
  BY <1>2, <1>3, <1>4, <1>5, <1>6, <1>7, <1>8, <1>9 DEF Next, Loop

(* What is written down of a transfer.                                        *)
Outcomes == {"idle", "running", "ok", "failed"}

(* It stays one of these.                                                     *)
LEMMA OutcomeGoesOn == ASSUME IInv, Next, h.outcome \in Outcomes PROVE h'.outcome \in Outcomes
<1>1. CASE Moving
  <2>1. Proceeds
    BY <1>1, MovingGoesOn
  <2>2. QED
    BY <2>1 DEF Proceeds, Outcomes
<1>2. CASE Speaking
  <2>1. SameCount(h')
    BY <1>2, SpeakingGoesOn
  <2>2. QED
    BY <2>1 DEF SameCount
<1>3. CASE Hushed
  BY <1>3, HushedRests
<1>4. QED
  BY <1>1, <1>2, <1>3 DEF IInv

(* The types of the parts are the type of the channel.                        *)
LEMMA TypedIsTypeOK == ASSUME Typed(s), h.outcome \in Outcomes PROVE TypeOK
<1>1. s.run \in [at : {"idle", "add", "consume"}, pipe : Pipes, loop : 0..MaxLoops]
  BY DEF Typed, RunState
<1>2. \A p \in Pipes :
        /\ {s.pipe[p].adder, s.pipe[p].consumer, s.pipe[p].waitA, s.pipe[p].waitC} \subseteq BOOLEAN
        /\ {s.pipe[p].errA, s.pipe[p].errC} \subseteq Errors
        /\ s.pipe[p].buf \in Seq(Units)
  BY DEF Typed, PipeState
<1>3. s.net.shut \in {"no", "flushing", "down"} /\ s.local.quit \in {"no", "quit", "timeout"}
  BY DEF Typed, NetState, LocalState
<1>4. QED
  BY <1>1, <1>2, <1>3 DEF TypeOK, Typed, Fits, Outcomes

(* When nothing is on its way and nothing runs, everybody waits for somebody  *)
(* else.                                                                      *)
LEMMA TendingIsEnough == ASSUME Tending PROVE NobodyIsForgotten
<1>1. SUFFICES ASSUME Quiet
               PROVE  LET in == s.pipe["in"]  out == s.pipe["out"]
                      IN /\ out.buf # <<>> => s.sa.waitW /\ out.consumer
                         /\ s.use = "download" => out.buf # <<>>
                         /\ s.use = "upload" => in.buf = <<>> /\ s.sa.waitR
                         /\ s.use = "control" /\ s.local.quit = "no" =>
                              /\ Eol(s) # 0 => s.local.busy
                              /\ \/ s.sa.waitR \/ (s.sa.throttled /\ out.buf # <<>>)
                                 \/ (s.local.busy /\ Eol(s) # 0)
                              /\ s.local.nested # "idle"
  BY DEF NobodyIsForgotten
<1>2. Due(s) = {} /\ Running(s) = {}
  <2>1. DOMAIN <<>> = {}
    OBVIOUS
  <2>2. s.queue = <<>> /\ s.run.at = "idle"
    BY <1>1 DEF Quiet
  <2>3. DOMAIN s.queue = {}
    BY <2>1, <2>2
  <2>4. Due(s) = {}
    BY <2>3 DEF Due
  <2>5. Running(s) = {}
    BY <2>2 DEF Running
  <2>6. QED
    BY <2>4, <2>5
<1>3. ~Going(s)
  <2>1. s.sa.socket
    BY <1>1 DEF Quiet
  <2>2. QED
    BY <1>2, <2>1 DEF Going
<1> DEFINE D == {}
<1>4. Cared(s, D) /\ D = {}
  BY <1>2, <1>3 DEF Tending, Tended
<1> HIDE DEF D
<1>5. s.pipe["out"].buf # <<>> => s.sa.waitW /\ s.pipe["out"].consumer
  BY <1>4 DEF Cared, Written
<1>6. s.use = "download" => s.pipe["out"].buf # <<>>
  BY <1>4 DEF Cared, Fed
<1>7. s.use = "upload" => s.pipe["in"].buf = <<>> /\ s.sa.waitR
  BY <1>4 DEF Cared, Heard, Listens, Unheard
<1>8. s.use = "control" /\ s.local.quit = "no" =>
        /\ Eol(s) # 0 => s.local.busy
        /\ \/ s.sa.waitR \/ (s.sa.throttled /\ s.pipe["out"].buf # <<>>)
           \/ (s.local.busy /\ Eol(s) # 0)
  BY <1>4 DEF Cared, Heard, Listens, Unheard
<1>9. s.use = "control" => s.local.nested # "idle"
  BY <1>4 DEF Cared, Written
<1>10. QED
  BY <1>5, <1>6, <1>7, <1>8, <1>9

(* The invariant of both.                                                     *)
LEMMA TendingIsInvariant == Spec => [](IInv /\ Tending /\ h.outcome \in Outcomes)
<1>1. Init => IInv /\ Tending /\ h.outcome \in Outcomes
  <2>1. Init => h.outcome \in Outcomes
    BY DEF Init, Outcomes
  <2>2. QED
    BY <2>1, Begins, BeginsTended DEF IInv
<1>2. IInv /\ Tending /\ h.outcome \in Outcomes /\ [Next]_vars
        => (IInv /\ Tending /\ h.outcome \in Outcomes)'
  <2>1. SUFFICES ASSUME IInv, Tending, h.outcome \in Outcomes, [Next]_vars
                 PROVE  (IInv /\ Tending /\ h.outcome \in Outcomes)'
    OBVIOUS
  <2>2. CASE Next
    BY <2>1, <2>2, GoesOn, TendingGoesOn, OutcomeGoesOn DEF Outcomes
  <2>3. CASE UNCHANGED vars
    <3>1. s' = s /\ h' = h
      BY <2>3 DEF vars
    <3>2. IInv'
      BY <2>1, <3>1 DEF IInv, Moving, Speaking, Hushed
    <3>3. Tending'
      BY <2>1, <3>1 DEF Tending
    <3>4. QED
      BY <2>1, <3>1, <3>2, <3>3 DEF Outcomes
  <2>4. QED
    BY <2>1, <2>2, <2>3
<1>3. QED
  BY <1>1, <1>2, PTL DEF Spec

(* What a channel is made of has its type (pipe.hpp:36-100, channel.hpp,      *)
(* socket_adapter.hpp): the buffer that the socket fills stays below its      *)
(* limit whatever is added to it, and no loop goes round more often than it   *)
(* may.                                                                       *)
THEOREM ChannelIsTyped == Spec => []TypeOK
<1>1. Typed(s) /\ h.outcome \in Outcomes => TypeOK
  BY TypedIsTypeOK
<1>2. IInv /\ Tending /\ h.outcome \in Outcomes => TypeOK
  BY <1>1 DEF Tending
<1>3. QED
  BY <1>2, TendingIsInvariant, PTL

(* Nobody is forgotten (pipe.cpp:124-280): when the loop has nothing to do    *)
(* and the queue is empty, output waits for the socket, a complete line for   *)
(* the command before it, the file for output to be written, and the client's *)
(* data is read unless output or a line is waiting; for every size of the     *)
(* buffers and bound of the loops, and every order of the events.             *)
THEOREM EverybodyIsRemembered == Spec => []NobodyIsForgotten
<1>1. IInv /\ Tending /\ h.outcome \in Outcomes => NobodyIsForgotten
  BY TendingIsEnough
<1>2. QED
  BY <1>1, TendingIsInvariant, PTL
=============================================================================
