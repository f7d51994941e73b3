----------------------------- MODULE ChannelProofs -----------------------------
(***************************************************************************)
(* Theorems about Channel: a data connection is a Transfer, for any sizes  *)
(* of files and buffers and any number of transfers one after the other;   *)
(* on a control connection the lister is asked for entries only when it    *)
(* reads none, for any number of entries and any limits; and a client that *)
(* is sent away gets all it was answered.  ChannelCareProofs has those     *)
(* that hold in every use of a channel.                                    *)
(*                                                                         *)
(* A channel serves the control connection or data connections.  For the   *)
(* first theorem no more is needed of the former than that it never        *)
(* becomes one of the latter, of which the invariant says what each event  *)
(* in the queue is worth: that a pipe is done without an error is on its   *)
(* way only if the source is exhausted and everything has been given, and  *)
(* stays true until it is heard, whatever else is on its way; and between  *)
(* two data connections the events of the first are heard before the       *)
(* second one begins.                                                      *)
(*                                                                         *)
(* For the second one the invariant counts the events that make the lister *)
(* be asked, and says in which order they are heard: the streamed adder is *)
(* called at most once between a listing command's result and its first    *)
(* entries, never while entries are read, and whoever else could call it   *)
(* (the consumer of the output, when the buffer is drained) finds that it  *)
(* waits already.                                                          *)
(*                                                                         *)
(* For the third one it says that until somebody says goodbye nothing has  *)
(* been thrown away and nothing is on its way that would (or the client is *)
(* gone), and that from then on nobody answers any more, so that what is   *)
(* in the output is all there is, and it is written or will be.            *)
(***************************************************************************)
EXTENDS Channel, WellFoundedInduction, TLAPS

-----------------------------------------------------------------------------
(* Events that are taken back *)

(* A set of numbers has a least one.                                          *)
LEMMA Least ==
  ASSUME NEW N \in SUBSET Nat, N # {}
  PROVE  \E x \in N : \A y \in N : x <= y
<1> DEFINE Less == OpToRel(<, Nat)
<1>1. \A p \in Nat \X Nat : p \in Less <=> p[1] < p[2]
  BY DEF OpToRel
<1>2. PICK x \in N : \A y \in N : ~(<<y, x>> \in Less)
  <2>1. IsWellFoundedOn(Less, Nat)
    BY NatLessThanWellFounded, Zenon
  <2> HIDE DEF Less
  <2>2. QED
    BY <2>1, WFMin
<1>3. ASSUME NEW y \in N PROVE x <= y
  <2>1. x \in Nat /\ y \in Nat
    OBVIOUS
  <2>2. <<y, x>> \in Nat \X Nat /\ <<y, x>>[1] = y /\ <<y, x>>[2] = x
    BY <2>1
  <2>3. ~(y < x)
    BY <1>1, <1>2, <2>2, Zenon
  <2>4. QED
    BY <2>1, <2>3
<1>4. QED
  BY <1>3

(* A set that holds zero, and the successor of each of its members, holds     *)
(* every number: induction without an operator for a parameter.               *)
LEMMA AllNumbers ==
  ASSUME NEW N \in SUBSET Nat, 0 \in N, \A n \in N : n + 1 \in N
  PROVE  N = Nat
<1> SUFFICES ASSUME Nat \ N # {} PROVE FALSE
  OBVIOUS
<1>1. PICK x \in Nat \ N : \A y \in Nat \ N : x <= y
  <2>1. Nat \ N \in SUBSET Nat
    OBVIOUS
  <2>2. QED
    BY <2>1, Least
<1>2. x - 1 \in Nat
  OBVIOUS
<1>3. x - 1 \in N
  BY <1>1, <1>2
<1>4. QED
  BY <1>2, <1>3

(* What Without() computes for each prefix of the queue.                      *)
LeftOf(q, tos, n, g) ==
  g = [i \in 0..n |-> IF i = 0 THEN <<>>
                      ELSE IF q[i].to \in tos THEN g[i - 1]
                      ELSE Append(g[i - 1], q[i])]

(* There is such a function for every length: it is built one step at a time. *)
LEMMA LeftExists ==
  ASSUME NEW q, NEW tos, NEW n \in Nat PROVE \E g : LeftOf(q, tos, n, g)
<1> DEFINE N == {m \in Nat : \E g : LeftOf(q, tos, m, g)}
<1>1. 0 \in N
  <2> DEFINE g == [i \in 0..0 |-> <<>>]
  <2>1. LeftOf(q, tos, 0, g)
    BY DEF LeftOf
  <2>2. QED
    BY <2>1
<1>2. ASSUME NEW m \in N PROVE m + 1 \in N
  <2>1. PICK g : LeftOf(q, tos, m, g)
    OBVIOUS
  <2> DEFINE last == IF q[m + 1].to \in tos THEN g[m] ELSE Append(g[m], q[m + 1])
             f == [i \in 0..(m + 1) |-> IF i = m + 1 THEN last ELSE g[i]]
  <2>2. \A i \in 0..m : f[i] = g[i] /\ i \in 0..(m + 1)
    OBVIOUS
  <2>3. f[m + 1] = last /\ DOMAIN f = 0..(m + 1) /\ m \in Nat
    OBVIOUS
  <2>4. \A i \in 0..m : g[i] = IF i = 0 THEN <<>>
                                ELSE IF q[i].to \in tos THEN g[i - 1]
                                ELSE Append(g[i - 1], q[i])
    BY <2>1 DEF LeftOf
  <2>5. f = [i \in 0..(m + 1) |-> f[i]]
    OBVIOUS
  <2> HIDE DEF f
  <2>6. \A i \in 0..(m + 1) :
          f[i] = IF i = 0 THEN <<>>
                 ELSE IF q[i].to \in tos THEN f[i - 1]
                 ELSE Append(f[i - 1], q[i])
    <3> TAKE i \in 0..(m + 1)
    <3>1. CASE i = 0
      <4>1. 0 \in 0..m
        BY <2>3
      <4>2. f[0] = g[0] /\ g[0] = <<>>
        BY <2>2, <2>4, <4>1
      <4>3. QED
        BY <3>1, <4>2
    <3>2. CASE i # 0 /\ i # m + 1
      <4>1. i \in 0..m /\ i - 1 \in 0..m
        BY <2>3, <3>2
      <4>2. QED
        BY <2>2, <2>4, <3>2, <4>1
    <3>3. CASE i = m + 1
      <4>1. i # 0 /\ i - 1 = m /\ m \in 0..m
        BY <2>3, <3>3
      <4>2. QED
        BY <2>2, <2>3, <3>3, <4>1
    <3>4. QED
      BY <3>1, <3>2, <3>3
  <2>7. LeftOf(q, tos, m + 1, f)
    BY <2>5, <2>6 DEF LeftOf
  <2>8. QED
    BY <2>3, <2>7
<1>3. QED
  BY <1>1, <1>2, AllNumbers

(* What the fields of a channel are.                                          *)
PipeFields == {"adder", "consumer", "waitA", "waitC", "errA", "errC", "buf"}
Fields == {"use", "queue", "transfer", "lost", "run", "pipe", "sa", "net", "local"}

(* Without() leaves events that were queued before, and none of those to tos. *)
Remain(x, tos, r) ==
  /\ Without(x, tos) = [x EXCEPT !.queue = r]
  /\ \A k \in DOMAIN r : r[k].to \notin tos /\ \E i \in DOMAIN x.queue : x.queue[i] = r[k]

(* Without() leaves events that were there, none of those it takes back.      *)
LEMMA WithoutFacts ==
  ASSUME NEW x, DOMAIN x = Fields, NEW S, x.queue \in Seq(S), NEW tos
  PROVE  \E r \in Seq(S) : Remain(x, tos, r)
<1> DEFINE q == x.queue
           n == Len(q)
           g == CHOOSE f : LeftOf(q, tos, n, f)
<1>1. n \in Nat /\ DOMAIN q = 1..n /\ \A i \in 1..n : q[i] \in S
  OBVIOUS
<1>2. LeftOf(q, tos, n, g)
  BY <1>1, LeftExists
<1>3. Without(x, tos) = [x EXCEPT !.queue = g[n]]
  BY DEF Without, LeftOf
<1> HIDE DEF q, n, g
<1>4. \A i \in 0..n : g[i] = IF i = 0 THEN <<>>
                              ELSE IF q[i].to \in tos THEN g[i - 1]
                              ELSE Append(g[i - 1], q[i])
  BY <1>2 DEF LeftOf
<1> DEFINE P(i) == /\ g[i] \in Seq(S)
                   /\ \A k \in DOMAIN g[i] : /\ g[i][k].to \notin tos
                                             /\ \E j \in DOMAIN q : q[j] = g[i][k]
           N == {i \in Nat : i <= n => P(i)}
<1>5. 0 \in N
  <2>1. g[0] = <<>>
    BY SMTT(30), <1>1, <1>4
  <2>2. <<>> \in Seq(S) /\ DOMAIN <<>> = {}
    OBVIOUS
  <2>3. P(0)
    BY <2>1, <2>2
  <2>4. QED
    BY <2>3
<1>6. ASSUME NEW i \in N PROVE i + 1 \in N
  <2> SUFFICES ASSUME i + 1 <= n PROVE P(i + 1)
    OBVIOUS
  <2>1. /\ i \in Nat /\ i + 1 \in 0..n /\ i + 1 \in 1..n /\ i + 1 # 0
        /\ (i + 1) - 1 = i
    BY <1>1
  <2>2. P(i)
    BY <1>1, <2>1
  <2>3. g[i + 1] = IF q[i + 1].to \in tos THEN g[i] ELSE Append(g[i], q[i + 1])
    BY <1>4, <2>1
  <2>4. CASE q[i + 1].to \in tos
    BY <2>2, <2>3, <2>4
  <2>5. CASE q[i + 1].to \notin tos
    <3> DEFINE e == q[i + 1]
               m == Len(g[i])
    <3>1. e \in S /\ e.to \notin tos
      BY <1>1, <2>1, <2>5
    <3>2. g[i + 1] = Append(g[i], e) /\ g[i] \in Seq(S)
      BY <2>2, <2>3, <2>5
    <3>3. /\ g[i + 1] \in Seq(S)
          /\ DOMAIN g[i + 1] = 1..(m + 1) /\ DOMAIN g[i] = 1..m /\ m \in Nat
          /\ \A k \in DOMAIN g[i] : g[i + 1][k] = g[i][k]
          /\ g[i + 1][m + 1] = e
      BY <3>1, <3>2
    <3>4. q[i + 1] = e /\ i + 1 \in DOMAIN q
      BY <1>1, <2>1
    <3> HIDE DEF e, m
    <3>5. \A k \in DOMAIN g[i + 1] : k \in DOMAIN g[i] \/ k = m + 1
      BY <3>3, SMT
    <3>6. QED
      BY <2>2, <3>1, <3>3, <3>4, <3>5
  <2>6. QED
    BY <2>4, <2>5
<1>7. n \in N
  <2> HIDE DEF P
  <2>1. N \in SUBSET Nat
    OBVIOUS
  <2>2. N = Nat
    BY <1>5, <1>6, <2>1, AllNumbers
  <2>3. QED
    BY <1>1, <2>2
<1>8. P(n)
  BY <1>1, <1>7
<1>9. QED
  BY <1>3, <1>8 DEF q, Remain

-----------------------------------------------------------------------------
(* The control connection *)

Operators == {<<p, k>> : p \in Pipes, k \in {"adder", "consumer", "done"}}

TalkTo ==
  Operators \cup
  {<<"socket", "read">>, <<"socket", "write">>, <<"socket", "shutdown">>,
   <<"channel", "done">>, <<"commander", "result">>, <<"commander", "timer">>,
   <<"lister", "entries">>}

TalkEvent == [to : TalkTo, err : Errors]

Shape(x) ==
  /\ DOMAIN x = Fields
  /\ DOMAIN x.pipe = Pipes
  /\ \A p \in Pipes : DOMAIN x.pipe[p] = PipeFields /\ x.pipe[p].errA \in Errors
  /\ "shutErr" \in DOMAIN x.sa /\ x.sa.shutErr \in Errors
  /\ DOMAIN x.run = {"at", "pipe", "loop"} /\ x.run.pipe \in Pipes

(* No event of a control connection is that of a data connection to open.     *)
Talk(x) == Shape(x) /\ x.queue \in Seq(TalkEvent)

(* What adders and consumers answer.                                          *)
LoopErrors == {"ok", "again", "nodata", "nobufs", "failed"}

(* What a method leaves of a control connection.                              *)
Talks(x, y) == Talk(y) /\ y.use = x.use

(* An event is sent.                                                          *)
LEMMA PostTalks ==
  ASSUME NEW x, Talk(x), NEW to \in TalkTo, NEW err \in Errors
  PROVE  Talks(x, Post(x, to, err))
<1> DEFINE e == [to |-> to, err |-> err]
           q == Append(x.queue, e)
           y == [x EXCEPT !.queue = q]
<1>1. e \in TalkEvent
  BY DEF TalkEvent
<1> HIDE DEF e
<1>2. q \in Seq(TalkEvent)
  BY <1>1 DEF Talk
<1>3. Post(x, to, err) = y
  BY DEF Post, e
<1> HIDE DEF q
<1>4. Talks(x, y)
  BY <1>2 DEF Talks, Talk, Shape, Fields
<1>5. QED
  BY <1>3, <1>4

(* Who an event goes to.                                                      *)
LEMMA ToFacts ==
  /\ \A p \in Pipes : {<<p, "adder">>, <<p, "consumer">>, <<p, "done">>} \subseteq TalkTo
  /\ <<"socket", "shutdown">> \in TalkTo /\ <<"channel", "done">> \in TalkTo
  /\ <<"socket", "read">> \in TalkTo /\ <<"socket", "write">> \in TalkTo
  /\ <<"commander", "result">> \in TalkTo /\ <<"commander", "timer">> \in TalkTo
  /\ <<"lister", "entries">> \in TalkTo /\ <<"session", "open">> \notin TalkTo
BY DEF TalkTo, Operators, Pipes

(* An adder is told.                                                          *)
LEMMA NotifyAdderTalks ==
  ASSUME NEW x, Talk(x), NEW p \in Pipes, NEW err \in Errors
  PROVE  Talks(x, NotifyAdder(x, p, err))
<1>1. <<p, "adder">> \in TalkTo
  BY ToFacts
<1>2. Talks(x, Post(x, <<p, "adder">>, err))
  BY <1>1, PostTalks
<1>3. QED
  BY <1>2 DEF NotifyAdder, Talks

(* A consumer is told.                                                        *)
LEMMA NotifyConsumerTalks ==
  ASSUME NEW x, Talk(x), NEW p \in Pipes, NEW err \in Errors
  PROVE  Talks(x, NotifyConsumer(x, p, err))
<1>1. <<p, "consumer">> \in TalkTo
  BY ToFacts
<1>2. Talks(x, Post(x, <<p, "consumer">>, err))
  BY <1>1, PostTalks
<1>3. QED
  BY <1>2 DEF NotifyConsumer, Talks

(* Events are taken back.                                                     *)
LEMMA WithoutTalks ==
  ASSUME NEW x, Talk(x), NEW tos PROVE Talks(x, Without(x, tos))
<1>1. PICK r \in Seq(TalkEvent) : Without(x, tos) = [x EXCEPT !.queue = r]
  BY WithoutFacts DEF Talk, Shape, Remain
<1>2. QED
  BY <1>1 DEF Talks, Talk, Shape, Fields

(* set_adder()                                                                *)
LEMMA SetAdderTalks ==
  ASSUME NEW x, Talk(x), NEW p \in Pipes, NEW on PROVE Talks(x, set_adder(x, p, on))
<1>1. CASE x.pipe[p].adder = on
  BY <1>1 DEF set_adder, Talks
<1>2. CASE x.pipe[p].adder # on
  <2> DEFINE y == IF on THEN x ELSE Without(x, {<<p, "adder">>})
  <2>1. Talks(x, y)
    BY WithoutTalks DEF Talks
  <2>2. set_adder(x, p, on) = [y EXCEPT !.pipe[p].adder = on, !.pipe[p].errA = "ok",
                                        !.pipe[p].waitA = on /\ y.pipe[p].waitA]
    BY <1>2 DEF set_adder
  <2> HIDE DEF y
  <2>3. QED
    BY <2>1, <2>2 DEF Talks, Talk, Shape, Fields, PipeFields, Errors
<1>3. QED
  BY <1>1, <1>2

(* set_consumer()                                                             *)
LEMMA SetConsumerTalks ==
  ASSUME NEW x, Talk(x), NEW p \in Pipes, NEW on PROVE Talks(x, set_consumer(x, p, on))
<1>1. CASE x.pipe[p].consumer = on
  BY <1>1 DEF set_consumer, Talks
<1>2. CASE x.pipe[p].consumer # on
  <2> DEFINE y == IF on THEN x ELSE Without(x, {<<p, "consumer">>})
             z == [y EXCEPT !.pipe[p].consumer = on, !.pipe[p].errC = "ok",
                            !.pipe[p].waitC = on]
  <2>1. Talks(x, y)
    BY WithoutTalks DEF Talks
  <2>2. set_consumer(x, p, on) = NotifyConsumer(z, p, "ok")
    BY <1>2 DEF set_consumer
  <2> HIDE DEF y
  <2>3. Talks(y, z)
    BY <2>1 DEF Talks, Talk, Shape, Fields, PipeFields
  <2> HIDE DEF z
  <2>4. "ok" \in Errors
    BY DEF Errors
  <2>5. Talks(z, NotifyConsumer(z, p, "ok"))
    BY <2>3, <2>4, NotifyConsumerTalks DEF Talks
  <2>6. QED
    BY <2>1, <2>2, <2>3, <2>5 DEF Talks
<1>3. QED
  BY <1>1, <1>2

(* clear()                                                                    *)
LEMMA ClearTalks ==
  ASSUME NEW x, Talk(x), NEW p \in Pipes PROVE Talks(x, clear(x, p))
<1> DEFINE y == set_consumer(x, p, FALSE)
           z == set_adder(y, p, FALSE)
           n == z.lost + (IF p = "out" THEN Len(x.pipe[p].buf) ELSE 0)
<1>1. Talks(x, y)
  BY SetConsumerTalks
<1>2. clear(x, p) = [z EXCEPT !.pipe[p].buf = <<>>, !.lost = n]
  BY DEF clear
<1> HIDE DEF y, n
<1>3. Talks(y, z)
  BY <1>1, SetAdderTalks DEF Talks
<1> HIDE DEF z
<1>4. QED
  BY <1>1, <1>2, <1>3 DEF Talks, Talk, Shape, Fields, PipeFields

(* done()                                                                     *)
LEMMA DoneTalks ==
  ASSUME NEW x, Talk(x), NEW p \in Pipes, NEW err \in Errors
  PROVE  Talks(x, done(x, p, err))
<1> DEFINE y == clear(x, p)
           z == [y EXCEPT !.run.at = "idle"]
           e == IF err = "shutdown" THEN "ok" ELSE err
<1>1. Talks(x, y)
  BY ClearTalks
<1>2. done(x, p, err) = Post(z, <<p, "done">>, e)
  BY DEF done
<1>3. e \in Errors /\ <<p, "done">> \in TalkTo
  BY ToFacts DEF Errors
<1> HIDE DEF y, e
<1>4. Talks(x, z)
  BY <1>1 DEF Talks, Talk, Shape, Fields
<1> HIDE DEF z
<1>5. Talks(z, Post(z, <<p, "done">>, e))
  BY <1>3, <1>4, PostTalks DEF Talks
<1>6. QED
  BY <1>2, <1>4, <1>5 DEF Talks

(* close_socket()                                                             *)
LEMMA CloseTalks == ASSUME NEW x, Talk(x) PROVE Talks(x, close_socket(x))
<1> DEFINE y == Without(x, {<<"socket", "read">>, <<"socket", "write">>})
<1>1. Talks(x, y)
  BY WithoutTalks
<1>2. close_socket(x) = IF x.sa.socket THEN [y EXCEPT !.sa.socket = FALSE] ELSE x
  BY DEF close_socket
<1> HIDE DEF y
<1>3. QED
  BY <1>1, <1>2 DEF Talks, Talk, Shape, Fields

(* on_shutdown_event()                                                        *)
LEMMA OnShutdownTalks ==
  ASSUME NEW x, Talk(x), NEW flushed PROVE Talks(x, on_shutdown_event(x, flushed))
<1> DEFINE y == NotifyConsumer(x, "out", x.sa.shutErr)
<1>1. Talks(x, y)
  BY NotifyConsumerTalks DEF Talk, Shape, Pipes
<1>2. on_shutdown_event(x, flushed) =
        IF x.sa.socket /\ x.pipe["out"].buf # <<>> THEN x
        ELSE IF x.sa.socket /\ ~flushed THEN [x EXCEPT !.net.shut = "flushing"]
        ELSE [y EXCEPT !.sa.shutting = FALSE, !.sa.shutErr = "ok", !.net.shut = "down"]
  BY DEF on_shutdown_event
<1> HIDE DEF y
<1>3. Talks(x, [x EXCEPT !.net.shut = "flushing"])
  BY DEF Talks, Talk, Shape, Fields
<1>4. Talks(x, [y EXCEPT !.sa.shutting = FALSE, !.sa.shutErr = "ok", !.net.shut = "down"])
  BY <1>1 DEF Talks, Talk, Shape, Fields, Errors
<1>5. QED
  BY <1>2, <1>3, <1>4 DEF Talks

(* shutdown()                                                                 *)
LEMMA ShutdownTalks ==
  ASSUME NEW x, Talk(x), NEW err \in Errors PROVE Talks(x, shutdown(x, err))
<1> DEFINE y == [x EXCEPT !.sa.shutting = TRUE, !.sa.shutErr = err]
<1>1. Talks(x, y)
  BY DEF Talks, Talk, Shape, Fields
<1>2. shutdown(x, err) = Post(y, <<"socket", "shutdown">>, "ok")
  BY DEF shutdown
<1> HIDE DEF y
<1>3. "ok" \in Errors /\ <<"socket", "shutdown">> \in TalkTo
  BY ToFacts DEF Errors
<1>4. Talks(y, Post(y, <<"socket", "shutdown">>, "ok"))
  BY <1>1, <1>3, PostTalks DEF Talks
<1>5. QED
  BY <1>1, <1>2, <1>4 DEF Talks

(* The adapter's add_to_buffer().                                             *)
LEMMA SocketReadTalks ==
  ASSUME NEW x, Talk(x)
  PROVE  Talks(x, socket_read(x)[2]) /\ socket_read(x)[1] \in LoopErrors
<1> DEFINE room == ReadLimit(x)
           n == Min2(room, Len(x.net.avail))
           b == x.pipe["in"].buf \o SubSeq(x.net.avail, 1, n)
           a == SubSeq(x.net.avail, n + 1, Len(x.net.avail))
           y == [x EXCEPT !.pipe["in"].buf = b, !.net.avail = a]
           z == [x EXCEPT !.sa.throttled = TRUE]
           w == [x EXCEPT !.sa.waitR = TRUE]
<1>1. socket_read(x) \in
        {<<"again", x>>, <<"again", z>>, <<"nobufs", x>>, <<"failed", x>>, <<"ok", y>>,
         <<"nodata", x>>, <<"again", w>>}
  BY DEF socket_read
<1> HIDE DEF n, room, b, a
<1>2. Talks(x, y) /\ Talks(x, z) /\ Talks(x, w) /\ Talks(x, x)
  BY DEF Talks, Talk, Shape, Fields, PipeFields
<1> HIDE DEF y, z, w
<1>3. QED
  BY <1>1, <1>2 DEF LoopErrors

(* The adapter's consume_buffer().                                            *)
LEMMA SocketWriteTalks ==
  ASSUME NEW x, Talk(x), NEW flushed
  PROVE  /\ Talks(x, socket_write(x, flushed)[2])
         /\ socket_write(x, flushed)[1] \in LoopErrors
<1> DEFINE n == Min2(x.net.room, Len(x.pipe["out"].buf))
           b == SubSeq(x.pipe["out"].buf, n + 1, Len(x.pipe["out"].buf))
           k == x.net.room - n
           y == [x EXCEPT !.pipe["out"].buf = b, !.net.room = k]
           v == [y EXCEPT !.sa.throttled = FALSE]
           z == IF y.sa.shutting THEN on_shutdown_event(y, flushed)
                ELSE IF y.sa.throttled /\ y.pipe["out"].buf = <<>>
                THEN NotifyAdder(v, "in", "ok") ELSE y
           w == [x EXCEPT !.sa.waitW = TRUE]
<1>1. socket_write(x, flushed) \in
        {<<"again", x>>, <<"failed", x>>, <<"again", w>>, <<"ok", z>>}
  BY DEF socket_write
<1> HIDE DEF n, b, k
<1>2. Talks(x, y) /\ Talks(x, w) /\ Talks(x, x)
  BY DEF Talks, Talk, Shape, Fields, PipeFields
<1> HIDE DEF y, w
<1>3. Talks(x, v)
  BY <1>2 DEF Talks, Talk, Shape, Fields
<1> HIDE DEF v
<1>4. Talks(v, NotifyAdder(v, "in", "ok"))
  <2>1. "in" \in Pipes /\ "ok" \in Errors
    BY DEF Pipes, Errors
  <2>2. QED
    BY <1>3, <2>1, NotifyAdderTalks DEF Talks
<1>5. Talks(y, on_shutdown_event(y, flushed))
  BY <1>2, OnShutdownTalks DEF Talks
<1>6. Talks(x, z)
  BY <1>2, <1>3, <1>4, <1>5 DEF Talks
<1> HIDE DEF z
<1>7. QED
  BY <1>1, <1>2, <1>6 DEF LoopErrors

(* The commander responds.                                                    *)
LEMMA RespondTalks == ASSUME NEW x, Talk(x) PROVE Talks(x, respond(x))
<1> DEFINE b == Append(x.pipe["out"].buf, "c")
           y == [x EXCEPT !.pipe["out"].buf = b]
           z == NotifyAdder(y, "out", "ok")
<1>1. respond(x) = IF y.local.sent THEN y ELSE [z EXCEPT !.local.sent = y.pipe["out"].adder]
  BY DEF respond
<1> HIDE DEF b
<1>2. Talks(x, y)
  BY DEF Talks, Talk, Shape, Fields, PipeFields
<1> HIDE DEF y
<1>3. "out" \in Pipes /\ "ok" \in Errors
  BY DEF Pipes, Errors
<1>4. Talks(y, z)
  BY <1>2, <1>3, NotifyAdderTalks DEF Talks
<1> HIDE DEF z
<1>5. Talks(x, [z EXCEPT !.local.sent = y.pipe["out"].adder])
  BY <1>2, <1>4 DEF Talks, Talk, Shape, Fields
<1>6. QED
  BY <1>1, <1>2, <1>5

(* The command is over.                                                       *)
LEMMA CommandOverTalks == ASSUME NEW x, Talk(x) PROVE Talks(x, act_upon_command_reply(x))
<1> DEFINE y == [x EXCEPT !.local.busy = FALSE, !.local.postponed = FALSE]
<1>1. act_upon_command_reply(x) =
        IF x.local.postponed THEN NotifyConsumer(y, "in", "ok") ELSE y
  BY DEF act_upon_command_reply
<1>2. Talks(x, y)
  BY DEF Talks, Talk, Shape, Fields
<1> HIDE DEF y
<1>3. "in" \in Pipes /\ "ok" \in Errors
  BY DEF Pipes, Errors
<1>4. Talks(y, NotifyConsumer(y, "in", "ok"))
  BY <1>2, <1>3, NotifyConsumerTalks DEF Talks
<1>5. QED
  BY <1>1, <1>2, <1>4 DEF Talks

(* The commander shuts down.                                                  *)
LEMMA ShutdownCommanderTalks ==
  ASSUME NEW x, Talk(x), NEW err \in Errors PROVE Talks(x, shutdown_commander(x, err))
<1> DEFINE y == [x EXCEPT !.local.busy = FALSE]
           z == set_consumer(y, "in", FALSE)
<1>1. shutdown_commander(x, err) = shutdown(z, err)
  BY DEF shutdown_commander
<1>2. Talks(x, y)
  BY DEF Talks, Talk, Shape, Fields
<1> HIDE DEF y
<1>3. "in" \in Pipes
  BY DEF Pipes
<1>4. Talks(y, z)
  BY <1>2, <1>3, SetConsumerTalks DEF Talks
<1> HIDE DEF z
<1>5. Talks(z, shutdown(z, err))
  BY <1>4, ShutdownTalks DEF Talks
<1>6. QED
  BY <1>1, <1>2, <1>4, <1>5 DEF Talks

(* The line consumer.                                                         *)
LEMMA ConsumeLineTalks ==
  ASSUME NEW x, Talk(x), NEW r \in consume_line(x)
  PROVE  Talks(x, r[2]) /\ r[1] \in LoopErrors
<1> DEFINE b == SubSeq(x.pipe["in"].buf, Eol(x) + 1, Len(x.pipe["in"].buf))
           y == [x EXCEPT !.pipe["in"].buf = b]
           v == [respond(y) EXCEPT !.local.quit = "quit"]
           w == [x EXCEPT !.local.postponed = TRUE]
           u == [y EXCEPT !.local.busy = TRUE]
<1>1. r \in {<<"nobufs", x>>, <<"nodata", x>>, <<"again", w>>, <<"ok", respond(y)>>,
             <<"ok", u>>, <<"ok", shutdown_commander(v, "shutdown")>>}
  BY DEF consume_line
<1> HIDE DEF b
<1>2. Talks(x, y) /\ Talks(x, w) /\ Talks(x, x)
  BY DEF Talks, Talk, Shape, Fields, PipeFields
<1> HIDE DEF y, w
<1>3. Talks(x, u)
  BY <1>2 DEF Talks, Talk, Shape, Fields
<1> HIDE DEF u
<1>4. Talks(x, respond(y))
  BY <1>2, RespondTalks DEF Talks
<1>5. Talks(x, v)
  BY <1>4 DEF Talks, Talk, Shape, Fields
<1> HIDE DEF v
<1>6. "shutdown" \in Errors
  BY DEF Errors
<1>7. Talks(x, shutdown_commander(v, "shutdown"))
  BY <1>5, <1>6, ShutdownCommanderTalks DEF Talks
<1>8. QED
  BY <1>1, <1>2, <1>3, <1>4, <1>7 DEF LoopErrors

(* The streamed adder.                                                        *)
LEMMA AddStreamedTalks ==
  ASSUME NEW x, Talk(x)
  PROVE  Talks(x, add_streamed(x)[2]) /\ add_streamed(x)[1] \in LoopErrors
<1> DEFINE y == [x EXCEPT !.local.sent = FALSE]
           z == [y EXCEPT !.local.nested = "none"]
           n == IF y.local.nested = "idle" THEN "reading" ELSE "twice"
           w == [y EXCEPT !.local.nested = n]
<1>1. add_streamed(x) \in
        {<<"ok", y>>, <<"again", x>>, <<"ok", act_upon_command_reply(respond(z))>>,
         <<"again", w>>}
  BY DEF add_streamed
<1> HIDE DEF n
<1>2. Talks(x, y) /\ Talks(x, x)
  BY DEF Talks, Talk, Shape, Fields
<1> HIDE DEF y
<1>3. Talks(x, z) /\ Talks(x, w)
  BY <1>2 DEF Talks, Talk, Shape, Fields
<1> HIDE DEF z, w
<1>4. Talks(x, respond(z))
  BY <1>3, RespondTalks DEF Talks
<1>5. Talks(x, act_upon_command_reply(respond(z)))
  BY <1>4, CommandOverTalks DEF Talks
<1>6. QED
  BY <1>1, <1>2, <1>3, <1>5 DEF LoopErrors

-----------------------------------------------------------------------------
(* The loops *)

(* A consumer is told that it is waited for.                                  *)
LEMMA WakeConsumerTalks ==
  ASSUME NEW x, Talk(x), NEW p \in Pipes
  PROVE  /\ Talks(x, Idle(x))
         /\ Talks(x, NotifyConsumer([Idle(x) EXCEPT !.pipe[p].waitC = TRUE], p, "ok"))
<1> DEFINE y == Idle(x)
           z == [y EXCEPT !.pipe[p].waitC = TRUE]
<1>1. Talks(x, y)
  BY DEF Idle, Talks, Talk, Shape, Fields
<1> HIDE DEF y
<1>2. Talks(x, z)
  BY <1>1 DEF Talks, Talk, Shape, Fields, PipeFields
<1> HIDE DEF z
<1>3. "ok" \in Errors
  BY DEF Errors
<1>4. Talks(z, NotifyConsumer(z, p, "ok"))
  BY <1>2, <1>3, NotifyConsumerTalks DEF Talks
<1>5. QED
  BY <1>1, <1>2, <1>4 DEF Talks, y, z

(* An adder is told that it is waited for.                                    *)
LEMMA WakeAdderTalks ==
  ASSUME NEW x, Talk(x), NEW p \in Pipes PROVE Talks(x, wake_adder(x, p))
<1> DEFINE y == Idle(x)
           z == [y EXCEPT !.pipe[p].waitA = TRUE]
<1>1. wake_adder(x, p) = IF x.pipe[p].waitA THEN y ELSE NotifyAdder(z, p, "ok")
  BY DEF wake_adder
<1>2. Talks(x, y)
  BY DEF Idle, Talks, Talk, Shape, Fields
<1> HIDE DEF y
<1>3. Talks(x, z)
  BY <1>2 DEF Talks, Talk, Shape, Fields, PipeFields
<1> HIDE DEF z
<1>4. "ok" \in Errors
  BY DEF Errors
<1>5. Talks(z, NotifyAdder(z, p, "ok"))
  BY <1>3, <1>4, NotifyAdderTalks DEF Talks
<1>6. QED
  BY <1>1, <1>2, <1>3, <1>5 DEF Talks

(* After the loops.                                                           *)
LEMMA AfterTalks ==
  ASSUME NEW x, Talk(x), NEW p \in Pipes
  PROVE  Talks(x, after_add(x, p)) /\ Talks(x, after_consume(x, p))
<1>1. Talks(x, after_add(x, p))
  BY WakeConsumerTalks DEF after_add
<1>2. Talks(x, after_consume(x, p))
  BY WakeConsumerTalks, WakeAdderTalks DEF after_consume
<1>3. QED
  BY <1>1, <1>2

(* What an adder's answer does.                                               *)
LEMMA AddedTalks ==
  ASSUME NEW x, Talk(x), NEW p \in Pipes, NEW err \in LoopErrors
  PROVE  Talks(x, added(x, p, err))
<1> DEFINE y == [x EXCEPT !.pipe[p].errA = "ok"]
           v == [y EXCEPT !.pipe[p].waitA = TRUE]
           w == [x EXCEPT !.pipe[p].errA = err]
<1>1. {"ok", "failed", "nobufs", err} \subseteq Errors
  BY DEF Errors, LoopErrors
<1>2. Talks(x, y) /\ Talks(x, w)
  BY <1>1 DEF Talks, Talk, Shape, Fields, PipeFields
<1>3. added(x, p, err) \in
        {after_add(v, p), after_add(y, p), Again(y), after_add(w, p),
         done(x, p, "failed"), done(x, p, "ok"), done(x, p, "nobufs"), done(x, p, err)}
  BY DEF added, LoopErrors
<1> HIDE DEF y, w
<1>4. Talks(x, v) /\ Talks(x, Again(y))
  BY <1>2 DEF Talks, Talk, Shape, Fields, PipeFields, Again
<1> HIDE DEF v
<1>5. Talks(x, after_add(v, p)) /\ Talks(x, after_add(y, p)) /\ Talks(x, after_add(w, p))
  BY <1>2, <1>4, AfterTalks DEF Talks
<1>6. /\ Talks(x, done(x, p, "failed")) /\ Talks(x, done(x, p, "ok"))
      /\ Talks(x, done(x, p, "nobufs")) /\ Talks(x, done(x, p, err))
  BY <1>1, DoneTalks
<1>7. QED
  BY <1>3, <1>4, <1>5, <1>6

(* What a consumer's answer does.                                             *)
LEMMA ConsumedTalks ==
  ASSUME NEW x, Talk(x), NEW p \in Pipes, NEW err \in LoopErrors
  PROVE  Talks(x, consumed(x, p, err))
<1> DEFINE y == [x EXCEPT !.pipe[p].errC = err]
           v == [y EXCEPT !.pipe[p].waitC = TRUE]
<1>1. err \in Errors
  BY DEF Errors, LoopErrors
<1>2. Talks(x, y)
  BY DEF Talks, Talk, Shape, Fields, PipeFields
<1>3. consumed(x, p, err) \in
        {Again(y), after_consume(v, p), after_consume(y, p), done(y, p, err)}
  BY DEF consumed, LoopErrors
<1> HIDE DEF y
<1>4. Talks(x, v) /\ Talks(x, Again(y))
  BY <1>2 DEF Talks, Talk, Shape, Fields, PipeFields, Again
<1> HIDE DEF v
<1>5. Talks(x, after_consume(v, p)) /\ Talks(x, after_consume(y, p))
  BY <1>2, <1>4, AfterTalks DEF Talks
<1>6. Talks(x, done(y, p, err))
  BY <1>1, <1>2, DoneTalks DEF Talks
<1>7. QED
  BY <1>3, <1>4, <1>5, <1>6

(* The operators are taken off and the socket is closed.                      *)
LEMMA DisconnectedTalks == ASSUME NEW x, Talk(x) PROVE Talks(x, Disconnected(x))
<1> DEFINE a == set_adder(x, "in", FALSE)
           b == set_consumer(a, "in", FALSE)
           c == set_adder(b, "out", FALSE)
           d == set_consumer(c, "out", FALSE)
<1>1. "in" \in Pipes /\ "out" \in Pipes
  BY DEF Pipes
<1>2. Disconnected(x) = close_socket(d)
  BY DEF Disconnected
<1>3. Talks(x, a)
  BY <1>1, SetAdderTalks
<1> HIDE DEF a
<1>4. Talks(x, b)
  BY <1>1, <1>3, SetConsumerTalks DEF Talks
<1> HIDE DEF b
<1>5. Talks(x, c)
  BY <1>1, <1>4, SetAdderTalks DEF Talks
<1> HIDE DEF c
<1>6. Talks(x, d)
  BY <1>1, <1>5, SetConsumerTalks DEF Talks
<1> HIDE DEF d
<1>7. Talks(x, close_socket(d))
  BY <1>6, CloseTalks DEF Talks
<1>8. QED
  BY <1>2, <1>7

-----------------------------------------------------------------------------
(* The steps of a control connection *)

(* The history of a control connection is whether its client was calm.        *)
HistoryFields == {"outcome", "taken", "given", "calm"}
SameCount(g) == /\ DOMAIN g = HistoryFields
                /\ g.outcome = h.outcome /\ g.taken = h.taken /\ g.given = h.given

Speaking == s.use = "control" /\ Talk(s) /\ h.outcome = "idle" /\ DOMAIN h = HistoryFields

Hushed ==
  /\ s.use = "over" /\ s.queue = <<>> /\ s.run.at = "idle" /\ s.sa.socket = FALSE
  /\ s.local.nested = "none" /\ h.outcome = "idle" /\ DOMAIN h = HistoryFields

(* A session that is over rests.                                              *)
LEMMA HushedRests == ASSUME Hushed, Next PROVE FALSE
<1>1. "over" \notin Resets
  BY ChannelAssumption
<1>2. QED
  BY <1>1 DEF Hushed, Next, Loop, AddStep, ConsumeStep, AdderEvent, ConsumerEvent, PipeDone,
       SocketRead, SocketWrite, ShutdownEvent, ChannelDone, CommandEnds, EntriesArrive,
       Timeout, Open, Dispatched, Close, WorkIsDone, EntriesAreRead, TimerExpires, Connects,
       BecomesReadable, BecomesWritable, ClientSends, ClientReads, ClientCloses,
       ClientResets, Live

(* What a turn of a loop does.                                                *)
LEMMA TurnTalks ==
  ASSUME Speaking, AddStep \/ ConsumeStep PROVE Talks(s, s') /\ SameCount(h')
<1> DEFINE p == s.run.pipe
<1>1. Talk(s) /\ p \in Pipes /\ s.use = "control"
  BY DEF Speaking, Talk, Shape
<1>2. SameCount(h) /\ \A c : SameCount([h EXCEPT !.calm = c])
  BY DEF Speaking, SameCount, HistoryFields
<1>3. CASE AddStep
  <2>1. ASSUME NEW r \in AddToBuffer(s, p) PROVE Talks(s, added(r[2], p, r[1]))
    <3>1. Talks(s, r[2]) /\ r[1] \in LoopErrors
      BY <1>1, SocketReadTalks, AddStreamedTalks DEF AddToBuffer
    <3>2. QED
      BY <1>1, <3>1, AddedTalks DEF Talks
  <2>2. Talks(s, after_add(s, p))
    BY <1>1, AfterTalks
  <2>3. h' = h /\ (s' = after_add(s, p) \/ \E r \in AddToBuffer(s, p) : s' = added(r[2], p, r[1]))
    BY <1>1, <1>3 DEF AddStep
  <2>4. QED
    BY <1>2, <2>1, <2>2, <2>3
<1>4. CASE ConsumeStep
  <2>1. ASSUME NEW r \in ConsumeBuffer(s, p) PROVE Talks(s, consumed(r[2], p, r[1]))
    <3>1. Talks(s, r[2]) /\ r[1] \in LoopErrors
      BY <1>1, SocketWriteTalks, ConsumeLineTalks DEF ConsumeBuffer
    <3>2. QED
      BY <1>1, <3>1, ConsumedTalks DEF Talks
  <2>2. Talks(s, after_consume(s, p))
    BY <1>1, AfterTalks
  <2>3. /\ h' = h \/ \E c : h' = [h EXCEPT !.calm = c]
        /\ s' = after_consume(s, p) \/ \E r \in ConsumeBuffer(s, p) : s' = consumed(r[2], p, r[1])
    BY <1>1, <1>4 DEF ConsumeStep
  <2>4. QED
    BY <1>2, <2>1, <2>2, <2>3
<1>5. QED
  BY <1>3, <1>4

(* The event at hand.                                                         *)
LEMMA TakenTalks ==
  ASSUME Speaking, s.queue # <<>>
  PROVE  Talks(s, Taken) /\ Head(s.queue).err \in Errors /\ Head(s.queue).to \in TalkTo
<1>1. Head(s.queue) \in TalkEvent /\ Tail(s.queue) \in Seq(TalkEvent)
  BY DEF Speaking, Talk
<1>2. QED
  BY <1>1 DEF Speaking, Talks, Talk, Shape, Fields, Taken, TalkEvent

(* The events of pipes.                                                       *)
LEMMA PipeTalks ==
  ASSUME Speaking, NEW p \in Pipes, AdderEvent(p) \/ ConsumerEvent(p) \/ PipeDone(p)
  PROVE  Talks(s, s') /\ SameCount(h')
<1> DEFINE err == Head(s.queue).err
           t == Taken
<1>1. s.queue # <<>>
  BY DEF AdderEvent, ConsumerEvent, PipeDone, Dispatched
<1>2. Talks(s, t) /\ err \in Errors
  BY <1>1, TakenTalks
<1>3. SameCount(h) /\ \A c : SameCount([h EXCEPT !.outcome = h.outcome])
  BY DEF Speaking, SameCount, HistoryFields
<1>4. Talks(s, done(t, p, err))
  BY <1>2, DoneTalks DEF Talks
<1>5. CASE AdderEvent(p)
  <2> DEFINE x == [t EXCEPT !.pipe[p].waitA = FALSE]
             y == [x EXCEPT !.run = [at |-> "add", pipe |-> p, loop |-> 0]]
  <2>1. s' \in {done(t, p, err), done(x, p, x.pipe[p].errA), y} /\ h' = h
    BY <1>5 DEF AdderEvent
  <2> HIDE DEF t
  <2>2. Talks(s, x) /\ x.pipe[p].errA \in Errors
    BY <1>2 DEF Talks, Talk, Shape, Fields, PipeFields
  <2> HIDE DEF x
  <2>3. Talks(s, y)
    BY <2>2 DEF Talks, Talk, Shape, Fields
  <2>4. Talks(s, done(x, p, x.pipe[p].errA))
    BY <2>2, DoneTalks DEF Talks
  <2>5. QED
    BY <1>3, <1>4, <2>1, <2>3, <2>4
<1>6. CASE ConsumerEvent(p)
  <2> DEFINE y == [t EXCEPT !.pipe[p].waitC = FALSE,
                            !.run = [at |-> "consume", pipe |-> p, loop |-> 0]]
  <2>1. s' \in {done(t, p, err), y} /\ h' = h
    BY <1>6 DEF ConsumerEvent
  <2> HIDE DEF t
  <2>2. Talks(s, y)
    BY <1>2 DEF Talks, Talk, Shape, Fields, PipeFields
  <2>3. QED
    BY <1>3, <1>4, <2>1, <2>2
<1>7. CASE PipeDone(p)
  <2> DEFINE x == clear(t, Other(p))
             y == Disconnected(x)
  <2>1. Other(p) \in Pipes
    BY DEF Other, Pipes
  <2>2. s' \in {Post(y, <<"channel", "done">>, err), x} /\ (h' = h \/ h' = Reported(err))
    BY <1>7 DEF PipeDone
  <2>3. SameCount(Reported(err))
    BY DEF Speaking, SameCount, HistoryFields, Reported
  <2> HIDE DEF t
  <2>4. Talks(s, x)
    BY <1>2, <2>1, ClearTalks DEF Talks
  <2> HIDE DEF x
  <2>5. Talks(s, y)
    BY <2>4, DisconnectedTalks DEF Talks
  <2> HIDE DEF y
  <2>6. <<"channel", "done">> \in TalkTo
    BY ToFacts
  <2>7. Talks(s, Post(y, <<"channel", "done">>, err))
    BY <1>2, <2>5, <2>6, PostTalks DEF Talks
  <2>8. QED
    BY <1>3, <2>2, <2>3, <2>4, <2>7
<1>8. QED
  BY <1>5, <1>6, <1>7

(* The events of the socket.                                                  *)
LEMMA SocketTalks ==
  ASSUME Speaking, SocketRead \/ SocketWrite \/ ShutdownEvent
  PROVE  Talks(s, s') /\ SameCount(h')
<1> DEFINE err == Head(s.queue).err
           t == Taken
           v == [t EXCEPT !.sa.waitR = FALSE]
           w == [t EXCEPT !.sa.waitW = FALSE]
<1>1. s.queue # <<>> /\ h' = h
  BY DEF SocketRead, SocketWrite, ShutdownEvent, Dispatched
<1>2. SameCount(h)
  BY DEF Speaking, SameCount
<1>3. Talks(s, t) /\ err \in Errors
  BY <1>1, TakenTalks
<1>4. "in" \in Pipes /\ "out" \in Pipes
  BY DEF Pipes
<1>5. \/ s' \in {v, NotifyAdder(v, "in", err), NotifyConsumer(w, "out", err)}
      \/ s' = on_shutdown_event(w, TRUE)
      \/ \E flushed \in BOOLEAN : s' = on_shutdown_event(t, flushed)
  BY DEF SocketRead, SocketWrite, ShutdownEvent
<1> HIDE DEF t
<1>6. Talks(s, v) /\ Talks(s, w)
  BY <1>3 DEF Talks, Talk, Shape, Fields
<1> HIDE DEF v, w, err
<1>7. Talks(s, NotifyAdder(v, "in", err)) /\ Talks(s, NotifyConsumer(w, "out", err))
  BY <1>3, <1>4, <1>6, NotifyAdderTalks, NotifyConsumerTalks DEF Talks
<1>8. \A flushed : Talks(s, on_shutdown_event(t, flushed))
  BY <1>3, OnShutdownTalks DEF Talks
<1>9. Talks(s, on_shutdown_event(w, TRUE))
  BY <1>6, OnShutdownTalks DEF Talks
<1>10. QED
  BY <1>1, <1>2, <1>5, <1>6, <1>7, <1>8, <1>9

(* The events of the commander, as long as the session goes on.               *)
LEMMA CommanderTalks ==
  ASSUME Speaking, CommandEnds \/ EntriesArrive \/ Timeout
  PROVE  SameCount(h') /\ (Talks(s, s') \/ s' = over(Taken))
<1> DEFINE t == Taken
           y == respond(t)
           a == [y EXCEPT !.local.nested = "idle", !.local.entries = Entries]
           b == Append(t.pipe["out"].buf, "c")
           c == [t EXCEPT !.pipe["out"].buf = b, !.local.nested = "idle",
                          !.local.entries = t.local.entries - 1]
           d == [y EXCEPT !.local.quit = "timeout"]
<1>1. s.queue # <<>> /\ (h' = h \/ \E n : h' = [h EXCEPT !.calm = n])
  BY DEF CommandEnds, EntriesArrive, Timeout, Dispatched
<1>2. SameCount(h')
  BY <1>1 DEF Speaking, SameCount, HistoryFields
<1>3. Talks(s, t)
  BY <1>1, TakenTalks
<1>4. "out" \in Pipes /\ "ok" \in Errors /\ "timeout" \in Errors
  BY DEF Pipes, Errors
<1>5. s' \in {t, act_upon_command_reply(y), a, NotifyAdder(c, "out", "ok"),
              shutdown_commander(d, "timeout"), over(t)}
  BY DEF CommandEnds, EntriesArrive, Timeout
<1> HIDE DEF t, b
<1>6. Talks(s, y)
  BY <1>3, RespondTalks DEF Talks
<1>7. Talks(s, act_upon_command_reply(y))
  BY <1>6, CommandOverTalks DEF Talks
<1> HIDE DEF y
<1>8. Talks(s, a) /\ Talks(s, d)
  BY <1>6 DEF Talks, Talk, Shape, Fields
<1>9. Talks(s, c)
  BY <1>3 DEF Talks, Talk, Shape, Fields, PipeFields
<1> HIDE DEF a, c, d
<1>10. Talks(s, NotifyAdder(c, "out", "ok"))
  BY <1>4, <1>9, NotifyAdderTalks DEF Talks
<1>11. Talks(s, shutdown_commander(d, "timeout"))
  BY <1>4, <1>8, ShutdownCommanderTalks DEF Talks
<1>12. QED
  BY <1>2, <1>3, <1>5, <1>7, <1>8, <1>10, <1>11 DEF t

(* What other threads, the clock, the socket and the client do.               *)
LEMMA OthersTalk ==
  ASSUME Speaking,
         \/ WorkIsDone \/ EntriesAreRead \/ TimerExpires \/ BecomesReadable \/ BecomesWritable
         \/ (\E u \in Units : ClientSends(u)) \/ ClientReads \/ ClientCloses \/ ClientResets
  PROVE  Talks(s, s') /\ SameCount(h')
<1>1. Talk(s) /\ SameCount(h) /\ \A c : SameCount([h EXCEPT !.calm = c])
  BY DEF Speaking, SameCount, HistoryFields
<1>2. \A to \in TalkTo, err \in Errors : Talks(s, Post(s, to, err))
  BY <1>1, PostTalks
<1>3. CASE WorkIsDone \/ EntriesAreRead \/ TimerExpires
  BY <1>1, <1>2, <1>3, ToFacts DEF WorkIsDone, EntriesAreRead, TimerExpires, Once, Errors
<1>4. CASE BecomesReadable \/ BecomesWritable
  BY <1>1, <1>2, <1>4, ToFacts DEF BecomesReadable, BecomesWritable, Errors
<1>5. CASE \E u \in Units : ClientSends(u)
  <2>1. PICK u \in Units : ClientSends(u)
    BY <1>5
  <2> DEFINE a == Append(s.net.avail, u)
             n == s.net.sent + 1
  <2>2. s' = [s EXCEPT !.net.avail = a, !.net.sent = n] /\ \E c : h' = [h EXCEPT !.calm = c]
    BY <2>1, Zenon DEF ClientSends
  <2> HIDE DEF a, n
  <2>3. QED
    BY <1>1, <2>2 DEF Talks, Talk, Shape, Fields
<1>6. CASE ClientReads
  BY <1>1, <1>6 DEF ClientReads, Talks, Talk, Shape, Fields
<1>7. CASE ClientCloses \/ ClientResets
  <2>1. /\ s' \in {[s EXCEPT !.net.eof = TRUE], [s EXCEPT !.net.reset = TRUE]}
        /\ \E c : h' = [h EXCEPT !.calm = c]
    BY <1>7 DEF ClientCloses, ClientResets
  <2>2. /\ Talks(s, [s EXCEPT !.net.eof = TRUE])
        /\ Talks(s, [s EXCEPT !.net.reset = TRUE])
    BY <1>1 DEF Talks, Talk, Shape, Fields
  <2>3. QED
    BY <1>1, <2>1, <2>2
<1>8. QED
  BY <1>3, <1>4, <1>5, <1>6, <1>7

(* A control connection goes on, or its session is over; no transfer begins.  *)
LEMMA SpeakingGoesOn ==
  ASSUME Speaking, Next PROVE SameCount(h') /\ (Speaking' \/ Hushed')
<1>1. ASSUME Talks(s, s'), SameCount(h') PROVE SameCount(h') /\ Speaking'
  BY <1>1 DEF Talks, SameCount, Speaking
<1>2. ASSUME s' = over(Taken), SameCount(h') PROVE SameCount(h') /\ Hushed'
  BY <1>2 DEF over, Fresh, Hushed, SameCount, Speaking
<1>3. CASE AddStep \/ ConsumeStep
  BY <1>1, <1>3, TurnTalks
<1>4. CASE \E p \in Pipes : AdderEvent(p) \/ ConsumerEvent(p) \/ PipeDone(p)
  BY <1>1, <1>4, PipeTalks
<1>5. CASE SocketRead \/ SocketWrite \/ ShutdownEvent
  BY <1>1, <1>5, SocketTalks
<1>6. CASE ChannelDone
  <2>1. s' = over(Taken) /\ SameCount(h')
    BY <1>6 DEF ChannelDone, Speaking, SameCount
  <2>2. QED
    BY <1>2, <2>1
<1>7. CASE CommandEnds \/ EntriesArrive \/ Timeout
  BY <1>1, <1>2, <1>7, CommanderTalks
<1>8. CASE \E use \in Uses \ {"control"} : Open(use)
  <2>1. s.queue # <<>> /\ Head(s.queue).to = <<"session", "open">>
    BY <1>8 DEF Open, Dispatched
  <2>2. Head(s.queue).to \in TalkTo
    BY <2>1, TakenTalks
  <2>3. QED
    BY <2>1, <2>2, ToFacts
<1>9. CASE \/ WorkIsDone \/ EntriesAreRead \/ TimerExpires \/ BecomesReadable
           \/ BecomesWritable \/ (\E u \in Units : ClientSends(u)) \/ ClientReads
           \/ ClientCloses \/ ClientResets
  BY <1>1, <1>9, OthersTalk
<1>10. ~Close /\ ~Connects
  BY DEF Speaking, Close, Connects
<1>11. QED
  BY <1>3, <1>4, <1>5, <1>6, <1>7, <1>8, <1>9, <1>10 DEF Next, Loop

-----------------------------------------------------------------------------
(* A data connection *)

MoveTo ==
  Operators \cup
  {<<"socket", "read">>, <<"socket", "write">>, <<"channel", "done">>, <<"session", "open">>}

MoveEvent == [to : MoveTo, err : {"ok", "failed"}]

(* The pipe that carries the file, and whether the source has nothing left.   *)
Carrier(x) == IF x.use = "upload" THEN "in" ELSE "out"

Exhausted(x) ==
  CASE x.use = "download" -> x.local.left = 0
    [] x.use = "upload"   -> x.net.eof /\ x.net.avail = <<>>
    [] OTHER              -> FALSE

Off(x, p) == ~x.pipe[p].adder /\ ~x.pipe[p].consumer

(* What an event on its way stands for: its operator is still there; a pipe   *)
(* that is done without an error has carried everything; the channel is done  *)
(* once its socket is closed; a data connection is opened when none is.       *)
DoneWorth(x, g, p, err) ==
  x.sa.socket => /\ Off(x, p)
                 /\ err = "ok" => p = Carrier(x) /\ Exhausted(x) /\ g.given = g.taken

Worth(x, g, e) ==
  /\ \A p \in Pipes :
       /\ e.to = <<p, "adder">> => x.pipe[p].adder
       /\ e.to = <<p, "consumer">> => x.pipe[p].consumer /\ e.err = "ok"
       /\ e.to = <<p, "done">> => DoneWorth(x, g, p, e.err)
  /\ e.to = <<"socket", "write">> => e.err = "ok"
  /\ e.to = <<"channel", "done">> => ~x.sa.socket /\ x.use # "closed"
  /\ e.to = <<"session", "open">> => x.use = "closed"

Events(x, g) ==
  /\ x.queue \in Seq(MoveEvent)
  /\ \A i \in DOMAIN x.queue :
       /\ Worth(x, g, x.queue[i])
       /\ x.queue[i].to = <<"session", "open">> => i = Len(x.queue)

Form(x) ==
  /\ DOMAIN x = Fields /\ DOMAIN x.pipe = Pipes
  /\ \A p \in Pipes : /\ DOMAIN x.pipe[p] = PipeFields /\ x.pipe[p].buf \in Seq(Units)
                      /\ x.pipe[p].adder \in BOOLEAN /\ x.pipe[p].consumer \in BOOLEAN
  /\ DOMAIN x.run = {"at", "pipe", "loop"} /\ x.run.pipe \in Pipes
  /\ DOMAIN x.sa = {"socket", "waitR", "waitW", "throttled", "shutting", "shutErr"}
  /\ x.sa.socket \in BOOLEAN
  /\ DOMAIN x.net = {"avail", "eof", "reset", "room", "sent", "shut"}
  /\ x.net.avail \in Seq(Units) /\ x.net.room \in Nat
  /\ {"left", "nested", "postponed"} \subseteq DOMAIN x.local /\ x.local.left \in Nat

(* Both ends: nobody is there without a socket, nothing stays between two     *)
(* data connections, the file goes one way, a data connection is never shut   *)
(* down nor its reader held up, it lists nothing, and it postpones no line.   *)
Ends(x) ==
  /\ x.use \in {"download", "upload", "closed"}
  /\ \A p \in Pipes : /\ x.pipe[p].errA \in {"ok", "failed"} /\ x.pipe[p].errC # "nodata"
                      /\ ~x.sa.socket => Off(x, p)
                      /\ x.use = "closed" => x.pipe[p].buf = <<>>
  /\ x.use = "download" => ~x.pipe["in"].consumer
  /\ x.use = "upload" => ~x.pipe["out"].adder
  /\ ~x.sa.shutting /\ ~x.sa.throttled /\ x.net.shut = "no"
  /\ x.run.at # "idle" => x.sa.socket
  /\ x.use = "closed" => ~x.sa.socket
  /\ x.local.nested = "none" /\ ~x.local.postponed

(* As long as the file has somebody to go to, what was taken and not given    *)
(* waits in the buffer.                                                       *)
Count(x, g) ==
  /\ g.taken \in Int /\ g.given \in Int
  /\ x.pipe[Carrier(x)].consumer => g.taken = g.given + Len(x.pipe[Carrier(x)].buf)

Move(x, g) == Form(x) /\ Events(x, g) /\ Ends(x) /\ Count(x, g)

(* What a method leaves of a data connection.                                 *)
Moves(x, y, g) ==
  /\ Move(y, g)
  /\ y.use = x.use /\ y.net = x.net /\ y.local = x.local /\ y.sa.socket = x.sa.socket

(* The events on their way.                                                   *)
Waiting(x) == {x.queue[i] : i \in DOMAIN x.queue}

(* Operators are taken off; nothing else starts or comes in.                  *)
Fewer(x, y) ==
  /\ y.run = x.run
  /\ \A q \in Pipes : /\ y.pipe[q].adder => x.pipe[q].adder
                      /\ y.pipe[q].consumer => x.pipe[q].consumer
                      /\ y.pipe[q].buf \in {x.pipe[q].buf, <<>>}
  /\ Waiting(y) \subseteq Waiting(x)

(* The events that nobody takes back stay what they are worth.                *)
Stay(x, g, tos, r) ==
  /\ Without(x, tos) = [x EXCEPT !.queue = r]
  /\ {r[k] : k \in DOMAIN r} \subseteq Waiting(x)
  /\ \A k \in DOMAIN r : /\ r[k].to \notin tos /\ r[k].to # <<"session", "open">>
                         /\ Worth(x, g, r[k])

(* What Without() leaves of a data connection's events is worth the same.     *)
LEMMA WithoutMoves ==
  ASSUME NEW x, NEW g, Move(x, g), x.use # "closed", NEW tos
  PROVE  \E r \in Seq(MoveEvent) : Stay(x, g, tos, r)
<1>1. DOMAIN x = Fields /\ x.queue \in Seq(MoveEvent)
  BY DEF Move, Form, Events
<1>2. PICK r \in Seq(MoveEvent) : Remain(x, tos, r)
  BY <1>1, WithoutFacts
<1>3. \A i \in DOMAIN x.queue : Worth(x, g, x.queue[i])
  BY DEF Move, Events
<1>4. \A i \in DOMAIN x.queue : x.queue[i].to # <<"session", "open">>
  BY <1>3 DEF Worth
<1>5. ASSUME NEW k \in DOMAIN r
      PROVE  r[k].to # <<"session", "open">> /\ Worth(x, g, r[k])
  <2>1. PICK i \in DOMAIN x.queue : x.queue[i] = r[k]
    BY <1>2 DEF Remain
  <2>2. QED
    BY <1>3, <1>4, <2>1
<1>6. {r[k] : k \in DOMAIN r} \subseteq Waiting(x)
  BY <1>2 DEF Remain, Waiting
<1>7. QED
  BY <1>2, <1>5, <1>6 DEF Remain, Stay

(* What an event is worth does not change with what the buffers hold, nor by  *)
(* an operator that goes.                                                     *)
LEMMA WorthKept ==
  ASSUME NEW x, NEW y, NEW g, NEW e, Worth(x, g, e),
         y.use = x.use, y.net = x.net, y.local = x.local, y.sa.socket = x.sa.socket,
         \A q \in Pipes : /\ e.to = <<q, "adder">> => y.pipe[q].adder
                          /\ e.to = <<q, "consumer">> => y.pipe[q].consumer
                          /\ Off(x, q) => Off(y, q)
  PROVE  Worth(y, g, e)
<1>1. Carrier(y) = Carrier(x) /\ (Exhausted(y) <=> Exhausted(x))
  BY DEF Carrier, Exhausted
<1>2. \A q \in Pipes : DoneWorth(x, g, q, e.err) => DoneWorth(y, g, q, e.err)
  BY <1>1 DEF DoneWorth
<1>3. QED
  BY <1>2 DEF Worth

(* set_adder(nullptr)                                                         *)
LEMMA AdderOff ==
  ASSUME NEW x, NEW g, Move(x, g), NEW p \in Pipes
  PROVE  LET y == set_adder(x, p, FALSE)
         IN Moves(x, y, g) /\ Fewer(x, y) /\ ~y.pipe[p].adder
<1>1. CASE x.pipe[p].adder = FALSE
  BY <1>1 DEF set_adder, Moves, Fewer
<1>2. CASE x.pipe[p].adder # FALSE
  <2>1. x.sa.socket /\ x.use # "closed"
    BY <1>2 DEF Move, Form, Ends, Off
  <2>2. PICK r \in Seq(MoveEvent) : Stay(x, g, {<<p, "adder">>}, r)
    BY <2>1, WithoutMoves
  <2> DEFINE y == [[x EXCEPT !.queue = r]
                     EXCEPT !.pipe[p].adder = FALSE, !.pipe[p].errA = "ok",
                            !.pipe[p].waitA = FALSE]
  <2>3. set_adder(x, p, FALSE) = y
    BY <1>2, <2>2 DEF Stay, set_adder, Move, Form, Fields, PipeFields
  <2>4. /\ DOMAIN y = Fields /\ DOMAIN y.pipe = Pipes /\ y.queue = r /\ y.use = x.use
        /\ y.sa = x.sa /\ y.net = x.net /\ y.local = x.local /\ y.run = x.run
    BY DEF Move, Form, Fields
  <2>5. \A q \in Pipes : DOMAIN y.pipe[q] = PipeFields /\ y.pipe[q].buf = x.pipe[q].buf
    BY DEF Move, Form, Fields, PipeFields
  <2>6. y.pipe[p].adder = FALSE /\ y.pipe[p].errA = "ok"
    BY DEF Move, Form, Fields, PipeFields
  <2>7. \A q \in Pipes : q # p => y.pipe[q] = x.pipe[q]
    BY DEF Move, Form, Fields, PipeFields
  <2>8. \A q \in Pipes : /\ y.pipe[q].consumer = x.pipe[q].consumer
                         /\ y.pipe[q].errC = x.pipe[q].errC
    BY DEF Move, Form, Fields, PipeFields
  <2> HIDE DEF y
  <2>9. Form(y)
    BY <2>4, <2>5, <2>6, <2>7, <2>8 DEF Move, Form
  <2>10. Ends(y)
    BY <2>4, <2>5, <2>6, <2>7, <2>8 DEF Move, Ends, Off, Pipes
  <2>11. Count(y, g)
    BY <2>4, <2>5, <2>8 DEF Move, Count, Carrier, Pipes
  <2>12. ASSUME NEW k \in DOMAIN r PROVE Worth(y, g, r[k])
    <3>1. \A q \in Pipes : /\ r[k].to = <<q, "adder">> => y.pipe[q].adder
                           /\ r[k].to = <<q, "consumer">> => y.pipe[q].consumer
                           /\ Off(x, q) => Off(y, q)
      BY <2>2, <2>6, <2>7, <2>8 DEF Stay, Worth, Off
    <3>2. QED
      BY <2>2, <2>4, <3>1, WorthKept DEF Stay
  <2>13. Events(y, g)
    BY <2>2, <2>4, <2>12 DEF Stay, Events
  <2>14. Fewer(x, y) /\ ~y.pipe[p].adder
    <3>1. Waiting(y) \subseteq Waiting(x)
      BY <2>2, <2>4 DEF Stay, Waiting
    <3>2. QED
      BY <2>4, <2>5, <2>6, <2>7, <2>8, <3>1 DEF Fewer
  <2>15. QED
    BY <2>3, <2>4, <2>9, <2>10, <2>11, <2>13, <2>14 DEF Move, Moves
<1>3. QED
  BY <1>1, <1>2

(* set_consumer(nullptr)                                                      *)
LEMMA ConsumerOff ==
  ASSUME NEW x, NEW g, Move(x, g), NEW p \in Pipes
  PROVE  LET y == set_consumer(x, p, FALSE)
         IN Moves(x, y, g) /\ Fewer(x, y) /\ ~y.pipe[p].consumer
<1>1. CASE x.pipe[p].consumer = FALSE
  BY <1>1 DEF set_consumer, Moves, Fewer
<1>2. CASE x.pipe[p].consumer # FALSE
  <2>1. x.sa.socket /\ x.use # "closed"
    BY <1>2 DEF Move, Form, Ends, Off
  <2>2. PICK r \in Seq(MoveEvent) : Stay(x, g, {<<p, "consumer">>}, r)
    BY <2>1, WithoutMoves
  <2> DEFINE y == [[x EXCEPT !.queue = r]
                     EXCEPT !.pipe[p].consumer = FALSE, !.pipe[p].errC = "ok",
                            !.pipe[p].waitC = FALSE]
  <2>3. set_consumer(x, p, FALSE) = NotifyConsumer(y, p, "ok")
    BY <1>2, <2>2 DEF Stay, set_consumer
  <2>4. /\ DOMAIN y = Fields /\ DOMAIN y.pipe = Pipes /\ y.queue = r /\ y.use = x.use
        /\ y.sa = x.sa /\ y.net = x.net /\ y.local = x.local /\ y.run = x.run
    BY DEF Move, Form, Fields
  <2>5. \A q \in Pipes : DOMAIN y.pipe[q] = PipeFields /\ y.pipe[q].buf = x.pipe[q].buf
    BY DEF Move, Form, Fields, PipeFields
  <2>6. y.pipe[p].consumer = FALSE /\ y.pipe[p].errC = "ok"
    BY DEF Move, Form, Fields, PipeFields
  <2>7. \A q \in Pipes : q # p => y.pipe[q] = x.pipe[q]
    BY DEF Move, Form, Fields, PipeFields
  <2>8. \A q \in Pipes : /\ y.pipe[q].adder = x.pipe[q].adder
                         /\ y.pipe[q].errA = x.pipe[q].errA
    BY DEF Move, Form, Fields, PipeFields
  <2> HIDE DEF y
  <2>9. set_consumer(x, p, FALSE) = y
    BY <2>3, <2>6 DEF NotifyConsumer
  <2>10. Form(y)
    BY <2>4, <2>5, <2>6, <2>7, <2>8 DEF Move, Form
  <2>11. Ends(y)
    BY <2>4, <2>5, <2>6, <2>7, <2>8 DEF Move, Ends, Off, Pipes
  <2>12. Count(y, g)
    BY <2>4, <2>5, <2>6, <2>7, <2>8 DEF Move, Count, Carrier, Pipes
  <2>13. ASSUME NEW k \in DOMAIN r PROVE Worth(y, g, r[k])
    <3>1. \A q \in Pipes : /\ r[k].to = <<q, "adder">> => y.pipe[q].adder
                           /\ r[k].to = <<q, "consumer">> => y.pipe[q].consumer
                           /\ Off(x, q) => Off(y, q)
      BY <2>2, <2>6, <2>7, <2>8 DEF Stay, Worth, Off
    <3>2. QED
      BY <2>2, <2>4, <3>1, WorthKept DEF Stay
  <2>14. Events(y, g)
    BY <2>2, <2>4, <2>13 DEF Stay, Events
  <2>15. Fewer(x, y) /\ ~y.pipe[p].consumer
    <3>1. Waiting(y) \subseteq Waiting(x)
      BY <2>2, <2>4 DEF Stay, Waiting
    <3>2. QED
      BY <2>4, <2>5, <2>6, <2>7, <2>8, <3>1 DEF Fewer
  <2>16. QED
    BY <2>9, <2>4, <2>10, <2>11, <2>12, <2>14, <2>15 DEF Move, Moves
<1>3. QED
  BY <1>1, <1>2

(* An event is sent that is worth something.                                  *)
LEMMA PostMoves ==
  ASSUME NEW x, NEW g, Move(x, g), x.use # "closed", NEW to \in MoveTo,
         to # <<"session", "open">>, NEW err \in {"ok", "failed"},
         Worth(x, g, [to |-> to, err |-> err])
  PROVE  LET y == Post(x, to, err)
         IN /\ Moves(x, y, g)
            /\ y.run = x.run /\ y.pipe = x.pipe
<1> DEFINE e == [to |-> to, err |-> err]
           r == Append(x.queue, e)
           y == [x EXCEPT !.queue = r]
<1>1. e \in MoveEvent /\ e.to # <<"session", "open">> /\ Worth(x, g, e)
  BY DEF MoveEvent
<1>2. Post(x, to, err) = y
  BY DEF Post
<1> HIDE DEF e
<1>3. /\ r \in Seq(MoveEvent)
      /\ \A k \in DOMAIN r : (k \in DOMAIN x.queue /\ r[k] = x.queue[k]) \/ r[k] = e
  BY <1>1 DEF Move, Events
<1>4. \A k \in DOMAIN r : Worth(x, g, r[k]) /\ r[k].to # <<"session", "open">>
  BY <1>1, <1>3 DEF Move, Events, Worth
<1> HIDE DEF r
<1>5. /\ DOMAIN y = Fields /\ y.queue = r /\ y.use = x.use /\ y.pipe = x.pipe
      /\ y.sa = x.sa /\ y.net = x.net /\ y.local = x.local /\ y.run = x.run
  BY DEF Move, Form, Fields
<1> HIDE DEF y
<1>6. Form(y) /\ Ends(y) /\ Count(y, g)
  BY <1>5 DEF Move, Form, Ends, Off, Count, Carrier
<1>7. ASSUME NEW k \in DOMAIN r PROVE Worth(y, g, r[k])
  <2>1. \A q \in Pipes : /\ r[k].to = <<q, "adder">> => y.pipe[q].adder
                         /\ r[k].to = <<q, "consumer">> => y.pipe[q].consumer
                         /\ Off(x, q) => Off(y, q)
    BY <1>4, <1>5 DEF Worth, Off
  <2>2. QED
    BY <1>4, <1>5, <2>1, WorthKept
<1>8. Events(y, g)
  BY <1>3, <1>4, <1>5, <1>7 DEF Events
<1>9. QED
  BY <1>2, <1>5, <1>6, <1>8 DEF Move, Moves

(* An adder is told, if it is still there.                                    *)
LEMMA NotifyAdderMoves ==
  ASSUME NEW x, NEW g, Move(x, g), NEW p \in Pipes, NEW err \in {"ok", "failed"}
  PROVE  LET y == NotifyAdder(x, p, err)
         IN Moves(x, y, g) /\ y.run = x.run /\ y.pipe = x.pipe
<1>1. CASE ~x.pipe[p].adder
  BY <1>1 DEF NotifyAdder, Moves
<1>2. CASE x.pipe[p].adder
  <2>1. x.use # "closed"
    BY <1>2 DEF Move, Ends, Off
  <2> DEFINE to == <<p, "adder">>
             e == [to |-> to, err |-> err]
  <2>2. to \in MoveTo /\ to # <<"session", "open">>
    BY DEF MoveTo, Operators, Pipes
  <2>3. /\ e.to = to
        /\ \A q \in Pipes : to = <<q, "adder">> => q = p
        /\ \A q \in Pipes : to # <<q, "consumer">> /\ to # <<q, "done">>
        /\ to # <<"socket", "write">> /\ to # <<"channel", "done">>
    BY DEF Pipes
  <2> HIDE DEF to, e
  <2>4. Worth(x, g, e)
    BY <1>2, <2>2, <2>3 DEF Worth
  <2>5. NotifyAdder(x, p, err) = Post(x, to, err)
    BY <1>2 DEF NotifyAdder, to
  <2>6. QED
    BY ZenonT(40), <2>1, <2>2, <2>4, <2>5, PostMoves DEF e
<1>3. QED
  BY <1>1, <1>2

(* A consumer is told, if it is still there.                                  *)
LEMMA NotifyConsumerMoves ==
  ASSUME NEW x, NEW g, Move(x, g), NEW p \in Pipes
  PROVE  LET y == NotifyConsumer(x, p, "ok")
         IN Moves(x, y, g) /\ y.run = x.run /\ y.pipe = x.pipe
<1>1. CASE ~x.pipe[p].consumer
  BY <1>1 DEF NotifyConsumer, Moves
<1>2. CASE x.pipe[p].consumer
  <2>1. x.use # "closed"
    BY <1>2 DEF Move, Ends, Off
  <2> DEFINE to == <<p, "consumer">>
             e == [to |-> to, err |-> "ok"]
  <2>2. to \in MoveTo /\ to # <<"session", "open">>
    BY DEF MoveTo, Operators, Pipes
  <2>3. /\ e.to = to /\ e.err = "ok"
        /\ \A q \in Pipes : to = <<q, "consumer">> => q = p
        /\ \A q \in Pipes : to # <<q, "adder">> /\ to # <<q, "done">>
        /\ to # <<"channel", "done">>
    BY DEF Pipes
  <2> HIDE DEF to, e
  <2>4. Worth(x, g, e)
    BY <1>2, <2>2, <2>3 DEF Worth
  <2>5. NotifyConsumer(x, p, "ok") = Post(x, to, "ok")
    BY <1>2 DEF NotifyConsumer, to
  <2>6. QED
    BY <2>1, <2>2, <2>4, <2>5, PostMoves DEF e
<1>3. QED
  BY <1>1, <1>2

(* clear()                                                                    *)
LEMMA ClearMoves ==
  ASSUME NEW x, NEW g, Move(x, g), NEW p \in Pipes
  PROVE  LET y == clear(x, p)
         IN Moves(x, y, g) /\ Fewer(x, y) /\ Off(y, p) /\ y.pipe[p].buf = <<>>
<1> DEFINE c == set_consumer(x, p, FALSE)
           z == set_adder(c, p, FALSE)
           n == z.lost + (IF p = "out" THEN Len(x.pipe[p].buf) ELSE 0)
           y == [z EXCEPT !.pipe[p].buf = <<>>, !.lost = n]
<1>1. clear(x, p) = y
  BY DEF clear
<1>2. Moves(x, c, g) /\ Fewer(x, c) /\ ~c.pipe[p].consumer
  BY ConsumerOff
<1> HIDE DEF c, n
<1>3. Moves(c, z, g) /\ Fewer(c, z) /\ ~z.pipe[p].adder
  BY <1>2, AdderOff DEF Moves
<1> HIDE DEF z
<1>4. Moves(x, z, g) /\ Fewer(x, z) /\ Off(z, p)
  BY <1>2, <1>3 DEF Moves, Fewer, Off
<1>5. /\ DOMAIN y = Fields /\ DOMAIN y.pipe = Pipes /\ y.queue = z.queue /\ y.use = z.use
      /\ y.sa = z.sa /\ y.net = z.net /\ y.local = z.local /\ y.run = z.run
  BY <1>4 DEF Moves, Move, Form, Fields
<1>6. \A q \in Pipes : DOMAIN y.pipe[q] = PipeFields
  BY <1>4 DEF Moves, Move, Form, Fields, PipeFields
<1>7. y.pipe[p].buf = <<>>
  BY <1>4 DEF Moves, Move, Form, Fields, PipeFields
<1>8. \A q \in Pipes : q # p => y.pipe[q] = z.pipe[q]
  BY <1>4 DEF Moves, Move, Form, Fields, PipeFields
<1>9. \A q \in Pipes : /\ y.pipe[q].adder = z.pipe[q].adder
                       /\ y.pipe[q].consumer = z.pipe[q].consumer
                       /\ y.pipe[q].errA = z.pipe[q].errA
                       /\ y.pipe[q].errC = z.pipe[q].errC
  BY <1>4 DEF Moves, Move, Form, Fields, PipeFields
<1> HIDE DEF y
<1>10. Form(y)
  <2>1. <<>> \in Seq(Units)
    OBVIOUS
  <2>2. \A q \in Pipes : y.pipe[q].buf \in Seq(Units)
    BY <1>4, <1>7, <1>8, <2>1 DEF Moves, Move, Form
  <2>3. QED
    BY <1>4, <1>5, <1>6, <1>9, <2>2 DEF Moves, Move, Form
<1>11. Ends(y)
  BY <1>4, <1>5, <1>7, <1>8, <1>9 DEF Moves, Move, Ends, Off, Pipes
<1>12. Count(y, g)
  BY <1>4, <1>5, <1>7, <1>8, <1>9 DEF Moves, Move, Count, Carrier, Off, Pipes
<1>13. ASSUME NEW k \in DOMAIN z.queue PROVE Worth(y, g, z.queue[k])
  <2>1. Worth(z, g, z.queue[k])
    BY <1>4 DEF Moves, Move, Events
  <2> DEFINE e == z.queue[k]
  <2>2. \A q \in Pipes : /\ e.to = <<q, "adder">> => y.pipe[q].adder
                         /\ e.to = <<q, "consumer">> => y.pipe[q].consumer
                         /\ Off(z, q) => Off(y, q)
    BY <1>9, <2>1 DEF Worth, Off
  <2> HIDE DEF e
  <2>3. Worth(y, g, e)
    BY <1>5, <2>1, <2>2, WorthKept DEF e
  <2>4. QED
    BY <2>3 DEF e
<1>14. Events(y, g)
  BY <1>4, <1>5, <1>13 DEF Moves, Move, Events
<1>15. Fewer(x, y) /\ Off(y, p)
  <2>1. Waiting(y) = Waiting(z)
    BY <1>5 DEF Waiting
  <2>2. QED
    BY <1>4, <1>5, <1>7, <1>8, <1>9, <2>1 DEF Fewer, Off
<1>16. Moves(x, y, g)
  BY <1>4, <1>5, <1>10, <1>11, <1>12, <1>14 DEF Moves, Move
<1>17. QED
  BY <1>1, <1>7, <1>15, <1>16

(* done(): if there is no error then everything has been carried.             *)
LEMMA DoneMoves ==
  ASSUME NEW x, NEW g, Move(x, g), x.use # "closed", NEW p \in Pipes,
         NEW err \in {"ok", "failed"},
         err = "ok" => p = Carrier(x) /\ Exhausted(x) /\ g.given = g.taken
  PROVE  Moves(x, done(x, p, err), g)
<1> DEFINE z == clear(x, p)
           y == [z EXCEPT !.run.at = "idle"]
           to == <<p, "done">>
           e == [to |-> to, err |-> err]
<1>1. done(x, p, err) = Post(y, to, err)
  BY DEF done
<1>2. Moves(x, z, g) /\ Off(z, p)
  BY ClearMoves
<1> HIDE DEF z
<1>3. /\ DOMAIN y = Fields /\ y.pipe = z.pipe /\ y.queue = z.queue /\ y.use = z.use
      /\ y.sa = z.sa /\ y.net = z.net /\ y.local = z.local
      /\ y.run.at = "idle" /\ DOMAIN y.run = DOMAIN z.run /\ y.run.pipe = z.run.pipe
  BY <1>2 DEF Moves, Move, Form, Fields
<1> HIDE DEF y
<1>4. Form(y) /\ Ends(y) /\ Count(y, g)
  BY SMTT(30), <1>2, <1>3 DEF Moves, Move, Form, Ends, Off, Count, Carrier
<1>5. ASSUME NEW k \in DOMAIN z.queue PROVE Worth(y, g, z.queue[k])
  <2> DEFINE f == z.queue[k]
  <2>1. Worth(z, g, f)
    BY <1>2 DEF Moves, Move, Events
  <2>2. \A q \in Pipes : /\ f.to = <<q, "adder">> => y.pipe[q].adder
                         /\ f.to = <<q, "consumer">> => y.pipe[q].consumer
                         /\ Off(z, q) => Off(y, q)
    BY <1>3, <2>1 DEF Worth, Off
  <2> HIDE DEF f
  <2>3. Worth(y, g, f)
    BY <1>3, <2>1, <2>2, WorthKept
  <2>4. QED
    BY <2>3 DEF f
<1>6. Events(y, g)
  BY <1>2, <1>3, <1>5 DEF Moves, Move, Events
<1>7. Moves(x, y, g) /\ Off(y, p)
  BY <1>2, <1>3, <1>4, <1>6 DEF Moves, Move, Off
<1>8. to \in MoveTo /\ to # <<"session", "open">>
  BY DEF MoveTo, Operators, Pipes
<1>9. /\ e.to = to /\ e.err = err
      /\ \A q \in Pipes : to = <<q, "done">> => q = p
      /\ \A q \in Pipes : to # <<q, "adder">> /\ to # <<q, "consumer">>
      /\ to # <<"channel", "done">> /\ to # <<"socket", "write">>
  BY DEF Pipes
<1>10. Carrier(y) = Carrier(x) /\ (Exhausted(y) <=> Exhausted(x))
  BY <1>7 DEF Moves, Carrier, Exhausted
<1> HIDE DEF to, e
<1>11. Worth(y, g, e)
  BY <1>7, <1>8, <1>9, <1>10 DEF Worth, DoneWorth
<1>12. Moves(y, Post(y, to, err), g)
  BY <1>7, <1>8, <1>11, PostMoves DEF Moves, e
<1>13. QED
  BY <1>1, <1>7, <1>12 DEF Moves

(* close_socket(), when nobody is there any more.                             *)
LEMMA CloseMoves ==
  ASSUME NEW x, NEW g, Move(x, g), x.use # "closed", x.run.at = "idle",
         \A q \in Pipes : Off(x, q)
  PROVE  LET y == close_socket(x)
         IN /\ Move(y, g) /\ y.sa.socket = FALSE /\ y.run = x.run /\ y.pipe = x.pipe
            /\ y.use = x.use /\ y.net = x.net /\ y.local = x.local
            /\ Waiting(y) \subseteq Waiting(x)
<1>1. CASE ~x.sa.socket
  BY <1>1 DEF close_socket, Move, Form
<1>2. CASE x.sa.socket
  <2> DEFINE tos == {<<"socket", "read">>, <<"socket", "write">>}
  <2>1. PICK r \in Seq(MoveEvent) : Stay(x, g, tos, r)
    BY WithoutMoves
  <2> DEFINE y == [[x EXCEPT !.queue = r] EXCEPT !.sa.socket = FALSE]
  <2>2. close_socket(x) = y
    BY <1>2, <2>1 DEF Stay, close_socket
  <2>3. /\ DOMAIN y = Fields /\ y.queue = r /\ y.use = x.use
        /\ y.pipe = x.pipe /\ y.net = x.net /\ y.local = x.local /\ y.run = x.run
        /\ y.sa = [x.sa EXCEPT !.socket = FALSE]
    BY DEF Move, Form, Fields
  <2> HIDE DEF y
  <2>4. Form(y) /\ y.sa.socket = FALSE /\ y.sa.shutting = x.sa.shutting
        /\ y.sa.throttled = x.sa.throttled
    BY <2>3 DEF Move, Form
  <2>5. Ends(y) /\ Count(y, g)
    BY <2>3, <2>4 DEF Move, Ends, Off, Count, Carrier
  <2>6. ASSUME NEW k \in DOMAIN r PROVE Worth(y, g, r[k])
    BY <1>2, <2>1, <2>3, <2>4 DEF Stay, Worth, DoneWorth
  <2>7. Events(y, g)
    BY <2>1, <2>3, <2>6 DEF Stay, Events
  <2>8. Waiting(y) \subseteq Waiting(x)
    BY <2>1, <2>3 DEF Stay, Waiting
  <2>9. QED
    BY <2>2, <2>3, <2>4, <2>5, <2>7, <2>8 DEF Move
<1>3. QED
  BY <1>1, <1>2

(* The operators are taken off and the socket is closed.                      *)
LEMMA DisconnectedMoves ==
  ASSUME NEW x, NEW g, Move(x, g), x.use # "closed", x.run.at = "idle"
  PROVE  LET y == Disconnected(x)
         IN /\ Move(y, g) /\ y.sa.socket = FALSE /\ y.run = x.run
            /\ y.use = x.use /\ y.net = x.net /\ y.local = x.local
<1> DEFINE a == set_adder(x, "in", FALSE)
           b == set_consumer(a, "in", FALSE)
           c == set_adder(b, "out", FALSE)
           d == set_consumer(c, "out", FALSE)
<1>1. "in" \in Pipes /\ "out" \in Pipes
  BY DEF Pipes
<1>2. Disconnected(x) = close_socket(d)
  BY DEF Disconnected
<1>3. Moves(x, a, g) /\ Fewer(x, a) /\ ~a.pipe["in"].adder
  BY <1>1, AdderOff
<1> HIDE DEF a
<1>4. Moves(a, b, g) /\ Fewer(a, b) /\ ~b.pipe["in"].consumer
  BY <1>1, <1>3, ConsumerOff DEF Moves
<1> HIDE DEF b
<1>5. Moves(b, c, g) /\ Fewer(b, c) /\ ~c.pipe["out"].adder
  BY <1>1, <1>4, AdderOff DEF Moves
<1> HIDE DEF c
<1>6. Moves(c, d, g) /\ Fewer(c, d) /\ ~d.pipe["out"].consumer
  BY <1>1, <1>5, ConsumerOff DEF Moves
<1> HIDE DEF d
<1>7. Moves(x, d, g) /\ d.run = x.run
  BY <1>3, <1>4, <1>5, <1>6 DEF Moves, Fewer
<1>8. \A q \in Pipes : Off(d, q)
  BY <1>3, <1>4, <1>5, <1>6 DEF Fewer, Off, Pipes
<1>9. QED
  BY <1>2, <1>7, <1>8, CloseMoves DEF Moves

(* Who waits for whom, what the last turn answered and which turn it is do    *)
(* not matter.                                                                *)
Alike(x, y) ==
  /\ DOMAIN y = Fields /\ DOMAIN y.pipe = Pipes /\ y.queue = x.queue
  /\ y.use = x.use /\ y.net = x.net /\ y.local = x.local
  /\ DOMAIN y.sa = DOMAIN x.sa /\ y.sa.socket = x.sa.socket /\ ~y.sa.shutting /\ ~y.sa.throttled
  /\ DOMAIN y.run = DOMAIN x.run /\ y.run.pipe \in Pipes
  /\ y.run.at # "idle" => x.sa.socket
  /\ \A q \in Pipes : /\ DOMAIN y.pipe[q] = PipeFields
                      /\ y.pipe[q].buf = x.pipe[q].buf
                      /\ y.pipe[q].adder = x.pipe[q].adder
                      /\ y.pipe[q].consumer = x.pipe[q].consumer
                      /\ y.pipe[q].errA \in {"ok", "failed"}
                      /\ y.pipe[q].errC # "nodata"

(* A data connection that differs in nothing else is one still.               *)
LEMMA LikeMoves ==
  ASSUME NEW x, NEW y, NEW g, Move(x, g), Alike(x, y) PROVE Moves(x, y, g)
<1>1. Form(y)
  BY DEF Alike, Move, Form
<1>2. Ends(y)
  BY DEF Alike, Move, Ends, Off, Pipes
<1>3. Count(y, g)
  BY DEF Alike, Move, Count, Carrier, Pipes
<1>4. ASSUME NEW k \in DOMAIN x.queue PROVE Worth(y, g, x.queue[k])
  <2> DEFINE f == x.queue[k]
  <2>1. Worth(x, g, f)
    BY DEF Alike, Move, Events
  <2>2. \A q \in Pipes : /\ f.to = <<q, "adder">> => y.pipe[q].adder
                         /\ f.to = <<q, "consumer">> => y.pipe[q].consumer
                         /\ Off(x, q) => Off(y, q)
    BY <2>1 DEF Alike, Worth, Off
  <2> HIDE DEF f
  <2>3. Worth(y, g, f)
    BY <2>1, <2>2, WorthKept DEF Alike
  <2>4. QED
    BY <2>3 DEF f
<1>5. Events(y, g)
  BY <1>4 DEF Alike, Move, Events
<1>6. QED
  BY <1>1, <1>2, <1>3, <1>5 DEF Alike, Move, Moves

(* What a pipe waits for.                                                     *)
LEMMA WaitsAreFree ==
  ASSUME NEW x, NEW g, Move(x, g), NEW p \in Pipes, NEW on
  PROVE  /\ Moves(x, [x EXCEPT !.pipe[p].waitA = on], g)
         /\ Moves(x, [x EXCEPT !.pipe[p].waitC = on], g)
<1>1. Moves(x, [x EXCEPT !.pipe[p].waitA = on], g)
  <2> DEFINE y == [x EXCEPT !.pipe[p].waitA = on]
  <2>1. /\ DOMAIN y = Fields /\ DOMAIN y.pipe = Pipes /\ y.queue = x.queue /\ y.use = x.use
        /\ y.sa = x.sa /\ y.net = x.net /\ y.local = x.local /\ y.run = x.run
    BY DEF Move, Form, Fields
  <2>2. \A q \in Pipes : /\ DOMAIN y.pipe[q] = PipeFields
                         /\ y.pipe[q].buf = x.pipe[q].buf
                         /\ y.pipe[q].adder = x.pipe[q].adder
                         /\ y.pipe[q].consumer = x.pipe[q].consumer
    BY DEF Move, Form, Fields, PipeFields
  <2>3. \A q \in Pipes : /\ y.pipe[q].errA = x.pipe[q].errA
                         /\ y.pipe[q].errC = x.pipe[q].errC
    BY DEF Move, Form, Fields, PipeFields
  <2> HIDE DEF y
  <2>4. Alike(x, y)
    BY <2>1, <2>3, <2>2 DEF Alike, Move, Form, Ends
  <2>5. QED
    BY <2>4, LikeMoves DEF y
<1>2. Moves(x, [x EXCEPT !.pipe[p].waitC = on], g)
  <2> DEFINE y == [x EXCEPT !.pipe[p].waitC = on]
  <2>1. /\ DOMAIN y = Fields /\ DOMAIN y.pipe = Pipes /\ y.queue = x.queue /\ y.use = x.use
        /\ y.sa = x.sa /\ y.net = x.net /\ y.local = x.local /\ y.run = x.run
    BY DEF Move, Form, Fields
  <2>2. \A q \in Pipes : /\ DOMAIN y.pipe[q] = PipeFields
                         /\ y.pipe[q].buf = x.pipe[q].buf
                         /\ y.pipe[q].adder = x.pipe[q].adder
                         /\ y.pipe[q].consumer = x.pipe[q].consumer
    BY DEF Move, Form, Fields, PipeFields
  <2>3. \A q \in Pipes : /\ y.pipe[q].errA = x.pipe[q].errA
                         /\ y.pipe[q].errC = x.pipe[q].errC
    BY DEF Move, Form, Fields, PipeFields
  <2> HIDE DEF y
  <2>4. Alike(x, y)
    BY <2>1, <2>3, <2>2 DEF Alike, Move, Form, Ends
  <2>5. QED
    BY <2>4, LikeMoves DEF y
<1>3. QED
  BY <1>1, <1>2

(* A pipe waits, or waits no longer.                                          *)
LEMMA WaitMoves ==
  ASSUME NEW x, NEW g, Move(x, g), NEW p \in Pipes
  PROVE  /\ Moves(x, [x EXCEPT !.pipe[p].waitA = TRUE], g)
         /\ Moves(x, [x EXCEPT !.pipe[p].waitC = TRUE], g)
         /\ Moves(x, [x EXCEPT !.pipe[p].waitA = FALSE], g)
         /\ Moves(x, [x EXCEPT !.pipe[p].waitC = FALSE], g)
<1> DEFINE yes == TRUE
           no == FALSE
<1> HIDE DEF yes, no
<1>1. /\ Moves(x, [x EXCEPT !.pipe[p].waitA = yes], g)
      /\ Moves(x, [x EXCEPT !.pipe[p].waitC = yes], g)
  BY WaitsAreFree
<1>2. /\ Moves(x, [x EXCEPT !.pipe[p].waitA = no], g)
      /\ Moves(x, [x EXCEPT !.pipe[p].waitC = no], g)
  BY WaitsAreFree
<1>3. QED
  BY <1>1, <1>2 DEF yes, no

(* What the last turn answered.                                               *)
LEMMA AnswerMoves ==
  ASSUME NEW x, NEW g, Move(x, g), NEW p \in Pipes, NEW err
  PROVE  /\ err \in {"ok", "failed"} => Moves(x, [x EXCEPT !.pipe[p].errA = err], g)
         /\ err # "nodata" => Moves(x, [x EXCEPT !.pipe[p].errC = err], g)
<1>1. ASSUME err \in {"ok", "failed"} PROVE Moves(x, [x EXCEPT !.pipe[p].errA = err], g)
  <2> DEFINE y == [x EXCEPT !.pipe[p].errA = err]
  <2>1. /\ DOMAIN y = Fields /\ DOMAIN y.pipe = Pipes /\ y.queue = x.queue /\ y.use = x.use
        /\ y.sa = x.sa /\ y.net = x.net /\ y.local = x.local /\ y.run = x.run
    BY DEF Move, Form, Fields
  <2>2. \A q \in Pipes : /\ DOMAIN y.pipe[q] = PipeFields
                         /\ y.pipe[q].buf = x.pipe[q].buf
                         /\ y.pipe[q].adder = x.pipe[q].adder
                         /\ y.pipe[q].consumer = x.pipe[q].consumer
    BY DEF Move, Form, Fields, PipeFields
  <2>3. \A q \in Pipes : /\ y.pipe[q].errA = IF q = p THEN err ELSE x.pipe[q].errA
                         /\ y.pipe[q].errC = x.pipe[q].errC
    BY DEF Move, Form, Fields, PipeFields
  <2> HIDE DEF y
  <2>4. Alike(x, y)
    BY <1>1, <2>1, <2>3, <2>2 DEF Alike, Move, Form, Ends
  <2>5. QED
    BY <2>4, LikeMoves DEF y
<1>2. ASSUME err # "nodata" PROVE Moves(x, [x EXCEPT !.pipe[p].errC = err], g)
  <2> DEFINE y == [x EXCEPT !.pipe[p].errC = err]
  <2>1. /\ DOMAIN y = Fields /\ DOMAIN y.pipe = Pipes /\ y.queue = x.queue /\ y.use = x.use
        /\ y.sa = x.sa /\ y.net = x.net /\ y.local = x.local /\ y.run = x.run
    BY DEF Move, Form, Fields
  <2>2. \A q \in Pipes : /\ DOMAIN y.pipe[q] = PipeFields
                         /\ y.pipe[q].buf = x.pipe[q].buf
                         /\ y.pipe[q].adder = x.pipe[q].adder
                         /\ y.pipe[q].consumer = x.pipe[q].consumer
    BY DEF Move, Form, Fields, PipeFields
  <2>3. \A q \in Pipes : /\ y.pipe[q].errA = x.pipe[q].errA
                         /\ y.pipe[q].errC = IF q = p THEN err ELSE x.pipe[q].errC
    BY DEF Move, Form, Fields, PipeFields
  <2> HIDE DEF y
  <2>4. Alike(x, y)
    BY <1>2, <2>1, <2>3, <2>2 DEF Alike, Move, Form, Ends
  <2>5. QED
    BY <2>4, LikeMoves DEF y
<1>3. QED
  BY <1>1, <1>2

(* A loop goes on, begins or ends.                                            *)
LEMMA RunMoves ==
  ASSUME NEW x, NEW g, Move(x, g), NEW run, DOMAIN run = {"at", "pipe", "loop"},
         run.pipe \in Pipes, run.at # "idle" => x.sa.socket
  PROVE  Moves(x, [x EXCEPT !.run = run], g)
<1> DEFINE y == [x EXCEPT !.run = run]
<1>1. /\ DOMAIN y = Fields /\ y.pipe = x.pipe /\ y.queue = x.queue /\ y.use = x.use
      /\ y.sa = x.sa /\ y.net = x.net /\ y.local = x.local /\ y.run = run
  BY DEF Move, Form, Fields
<1> HIDE DEF y
<1>2. Alike(x, y)
  BY <1>1 DEF Alike, Move, Form, Ends
<1>3. Moves(x, y, g)
  BY <1>2, LikeMoves
<1>4. QED
  BY <1>3 DEF y

(* A loop ends.                                                               *)
LEMMA IdleMoves == ASSUME NEW x, NEW g, Move(x, g) PROVE Moves(x, Idle(x), g)
<1> DEFINE run == [x.run EXCEPT !.at = "idle"]
<1>1. Idle(x) = [x EXCEPT !.run = run]
  BY DEF Idle
<1>2. DOMAIN run = {"at", "pipe", "loop"} /\ run.pipe \in Pipes /\ run.at = "idle"
  BY DEF Move, Form
<1> HIDE DEF run
<1>3. QED
  BY <1>1, <1>2, RunMoves

(* A loop goes on.                                                            *)
LEMMA AgainMoves == ASSUME NEW x, NEW g, Move(x, g) PROVE Moves(x, Again(x), g)
<1> DEFINE run == [x.run EXCEPT !.loop = x.run.loop + 1]
<1>1. Again(x) = [x EXCEPT !.run = run]
  BY DEF Again
<1>2. /\ DOMAIN run = {"at", "pipe", "loop"} /\ run.pipe \in Pipes
      /\ run.at # "idle" => x.sa.socket
  BY DEF Move, Form, Ends
<1> HIDE DEF run
<1>3. QED
  BY <1>1, <1>2, RunMoves

(* After the loops the other end of the pipe is told.                         *)
LEMMA AfterMoves ==
  ASSUME NEW x, NEW g, Move(x, g), NEW p \in Pipes
  PROVE  Moves(x, after_add(x, p), g) /\ Moves(x, after_consume(x, p), g)
<1> DEFINE y == Idle(x)
           a == [y EXCEPT !.pipe[p].waitA = TRUE]
           c == [y EXCEPT !.pipe[p].waitC = TRUE]
<1>1. Moves(x, y, g)
  BY IdleMoves
<1>2. after_add(x, p) \in {y, NotifyConsumer(c, p, "ok")}
  BY DEF after_add
<1>3. after_consume(x, p) \in {y, NotifyConsumer(c, p, "ok"), NotifyAdder(a, p, "ok")}
  BY DEF after_consume, wake_adder
<1> HIDE DEF y
<1>4. Moves(x, a, g) /\ Moves(x, c, g)
  BY ZenonT(40), <1>1, WaitMoves DEF Moves
<1> HIDE DEF a, c
<1>5. Moves(x, NotifyConsumer(c, p, "ok"), g)
  BY <1>4, NotifyConsumerMoves DEF Moves
<1>6. Moves(x, NotifyAdder(a, p, "ok"), g)
  BY <1>4, NotifyAdderMoves DEF Moves
<1>7. QED
  BY <1>1, <1>2, <1>3, <1>5, <1>6

(* What an adder's answer does; that there is no more data comes from the     *)
(* source of the file only, and only once it is exhausted.                    *)
LEMMA AddedMoves ==
  ASSUME NEW x, NEW g, Move(x, g), x.use # "closed", NEW p \in Pipes,
         NEW err \in LoopErrors,
         err = "nodata" /\ x.pipe[p].consumer => p = Carrier(x) /\ Exhausted(x)
  PROVE  Moves(x, added(x, p, err), g)
<1> DEFINE y == [x EXCEPT !.pipe[p].errA = "ok"]
           v == [y EXCEPT !.pipe[p].waitA = TRUE]
           w == [x EXCEPT !.pipe[p].errA = "failed"]
<1>1. x.pipe[p].errC # "nodata" /\ WaitsForEmptyBuffer(x, p)
  BY DEF Move, Ends, WaitsForEmptyBuffer
<1>2. Moves(x, y, g) /\ Moves(x, w, g)
  BY AnswerMoves
<1>3. \/ added(x, p, err) \in
           {after_add(v, p), after_add(y, p), Again(y), after_add(w, p), done(x, p, "failed")}
      \/ /\ err = "nodata" /\ x.pipe[p].consumer /\ x.pipe[p].buf = <<>>
         /\ added(x, p, err) = done(x, p, "ok")
  BY <1>1 DEF added, LoopErrors
<1> HIDE DEF y, w
<1>4. Moves(x, v, g) /\ Moves(x, Again(y), g)
  BY ZenonT(40), <1>2, WaitMoves, AgainMoves DEF Moves
<1> HIDE DEF v
<1>5. Moves(x, after_add(v, p), g) /\ Moves(x, after_add(y, p), g) /\ Moves(x, after_add(w, p), g)
  BY <1>2, <1>4, AfterMoves DEF Moves
<1>6. Moves(x, done(x, p, "failed"), g)
  BY DoneMoves
<1>7. ASSUME err = "nodata", x.pipe[p].consumer, x.pipe[p].buf = <<>>
      PROVE  Moves(x, done(x, p, "ok"), g)
  <2>1. p = Carrier(x) /\ Exhausted(x)
    BY <1>7
  <2>2. g.given = g.taken
    BY <1>7, <2>1 DEF Move, Count
  <2>3. QED
    BY <2>1, <2>2, DoneMoves
<1>8. QED
  BY <1>3, <1>4, <1>5, <1>6, <1>7

(* What a consumer's answer does.                                             *)
LEMMA ConsumedMoves ==
  ASSUME NEW x, NEW g, Move(x, g), x.use # "closed", NEW p \in Pipes,
         NEW err \in {"ok", "again", "failed"}
  PROVE  Moves(x, consumed(x, p, err), g)
<1> DEFINE y == [x EXCEPT !.pipe[p].errC = err]
           v == [y EXCEPT !.pipe[p].waitC = TRUE]
<1>1. Moves(x, y, g)
  BY AnswerMoves
<1>2. \/ consumed(x, p, err) \in {Again(y), after_consume(v, p)}
      \/ err = "failed" /\ consumed(x, p, err) = done(y, p, "failed")
  BY DEF consumed
<1> HIDE DEF y
<1>3. Moves(x, v, g) /\ Moves(x, Again(y), g)
  BY ZenonT(40), <1>1, WaitMoves, AgainMoves DEF Moves
<1> HIDE DEF v
<1>4. Moves(x, after_consume(v, p), g)
  BY <1>3, AfterMoves DEF Moves
<1>5. Moves(x, done(y, p, "failed"), g)
  BY <1>1, DoneMoves DEF Moves
<1>6. QED
  BY <1>2, <1>3, <1>4, <1>5

-----------------------------------------------------------------------------
(* What is taken and given *)

(* Somebody at one end of pipe p changes what is in it.                       *)
Touched(x, y, p) ==
  /\ DOMAIN y = Fields /\ DOMAIN y.pipe = Pipes /\ y.queue = x.queue
  /\ y.use = x.use /\ y.run = x.run
  /\ DOMAIN y.sa = DOMAIN x.sa /\ y.sa.socket = x.sa.socket /\ ~y.sa.shutting /\ ~y.sa.throttled
  /\ DOMAIN y.net = DOMAIN x.net /\ y.net.shut = x.net.shut
  /\ y.net.avail \in Seq(Units) /\ y.net.room \in Nat
  /\ {"left", "nested", "postponed"} \subseteq DOMAIN y.local /\ y.local.left \in Nat
  /\ y.local.nested = x.local.nested /\ y.local.postponed = x.local.postponed
  /\ DOMAIN y.pipe[p] = PipeFields /\ y.pipe[p].buf \in Seq(Units)
  /\ y.pipe[p].adder = x.pipe[p].adder /\ y.pipe[p].consumer = x.pipe[p].consumer
  /\ y.pipe[p].errA = x.pipe[p].errA /\ y.pipe[p].errC = x.pipe[p].errC
  /\ \A q \in Pipes : q # p => y.pipe[q] = x.pipe[q]

(* The history tells it when p carries the file.                              *)
Carries(x, y, g, f, p) ==
  /\ Touched(x, y, p)
  /\ f.taken \in Int /\ f.given \in Int
  /\ p = Carrier(x) =>
       f.taken - f.given - Len(y.pipe[p].buf) = g.taken - g.given - Len(x.pipe[p].buf)
  /\ p # Carrier(x) => /\ f.taken = g.taken /\ f.given = g.given
                       /\ Exhausted(y) <=> Exhausted(x)

(* No pipe is done on which somebody still works.                             *)
LEMMA CarryMoves ==
  ASSUME NEW x, NEW y, NEW g, NEW f, NEW p \in Pipes, Move(x, g), ~Off(x, p),
         Carries(x, y, g, f, p)
  PROVE  Move(y, f)
<1>1. \A q \in Pipes : /\ y.pipe[q].adder = x.pipe[q].adder
                       /\ y.pipe[q].consumer = x.pipe[q].consumer
                       /\ y.pipe[q].errA = x.pipe[q].errA
                       /\ y.pipe[q].errC = x.pipe[q].errC
  BY DEF Carries, Touched
<1>2. \A q \in Pipes : DOMAIN y.pipe[q] = PipeFields /\ y.pipe[q].buf \in Seq(Units)
  BY DEF Carries, Touched, Move, Form
<1>3. x.sa.socket /\ x.use # "closed" /\ Carrier(y) = Carrier(x)
  BY DEF Carries, Touched, Move, Form, Ends, Carrier
<1>4. Form(y)
  BY <1>1, <1>2 DEF Carries, Touched, Move, Form
<1>5. Ends(y)
  BY <1>1, <1>3 DEF Carries, Touched, Move, Ends, Off, Pipes
<1>6. Count(y, f)
  <2>1. CASE p = Carrier(x)
    <3>1. /\ g.taken \in Int /\ g.given \in Int /\ f.taken \in Int /\ f.given \in Int
          /\ f.taken - f.given - Len(y.pipe[p].buf) = g.taken - g.given - Len(x.pipe[p].buf)
          /\ x.pipe[p].consumer => g.taken = g.given + Len(x.pipe[p].buf)
      BY <2>1 DEF Carries, Touched, Move, Count
    <3>2. Len(y.pipe[p].buf) \in Int /\ Len(x.pipe[p].buf) \in Int
      BY <1>2 DEF Move, Form
    <3>3. x.pipe[p].consumer => f.taken = f.given + Len(y.pipe[p].buf)
      <4> DEFINE a == f.taken
                 b == f.given
                 c == g.taken
                 d == g.given
                 m == Len(y.pipe[p].buf)
                 n == Len(x.pipe[p].buf)
      <4>1. /\ a \in Int /\ b \in Int /\ c \in Int /\ d \in Int /\ m \in Int /\ n \in Int
            /\ a - b - m = c - d - n
        BY <3>1, <3>2
      <4>2. x.pipe[p].consumer => c = d + n
        BY <3>1
      <4> HIDE DEF a, b, c, d, m, n
      <4>3. c = d + n => a = b + m
        BY <4>1
      <4>4. x.pipe[p].consumer => a = b + m
        BY <4>2, <4>3
      <4>5. QED
        BY <4>4 DEF a, b, m
    <3>4. QED
      BY <1>1, <1>3, <2>1, <3>1, <3>3 DEF Count
  <2>2. CASE p # Carrier(x)
    <3>1. Carrier(x) \in Pipes
      BY DEF Carrier, Pipes
    <3>2. QED
      BY <1>3, <2>2, <3>1 DEF Carries, Touched, Move, Count
  <2>3. QED
    BY <2>1, <2>2
<1>7. ASSUME NEW e, Worth(x, g, e) PROVE Worth(y, f, e)
  <2>1. ASSUME NEW q \in Pipes, DoneWorth(x, g, q, e.err) PROVE q # p /\ DoneWorth(y, f, q, e.err)
    <3>1. Off(x, q)
      BY <1>3, <2>1 DEF DoneWorth
    <3>2. q # p /\ Off(y, q)
      BY <1>1, <3>1 DEF Off
    <3>3. QED
      BY <1>3, <2>1, <3>2 DEF DoneWorth, Carries, Touched
  <2>2. \A q \in Pipes : DoneWorth(x, g, q, e.err) => DoneWorth(y, f, q, e.err)
    BY <2>1
  <2>3. y.use = x.use /\ y.sa.socket = x.sa.socket
    BY DEF Carries, Touched
  <2>4. QED
    BY <1>1, <1>7, <2>2, <2>3 DEF Worth
<1>8. Events(y, f)
  BY <1>7 DEF Carries, Touched, Move, Events
<1>9. QED
  BY <1>4, <1>5, <1>6, <1>8 DEF Move

(* What is left of a sequence behind its first n elements.                    *)
LEMMA Rest ==
  ASSUME NEW b \in Seq(Units), NEW n \in 0..Len(b)
  PROVE  /\ SubSeq(b, n + 1, Len(b)) \in Seq(Units)
         /\ Len(SubSeq(b, n + 1, Len(b))) = Len(b) - n
         /\ SubSeq(b, 1, n) \in Seq(Units) /\ Len(SubSeq(b, 1, n)) = n
OBVIOUS

(* A turn at one end: the other end of the pipe is left alone.                *)
Takes(x, y, g, f) ==
  /\ Move(y, f) /\ y.use = x.use /\ y.sa.socket = x.sa.socket /\ f.given = g.given
  /\ \/ f.taken = g.taken /\ (Exhausted(y) <=> Exhausted(x))
     \/ f.taken > g.taken /\ ~Exhausted(x)

Gives(x, y, g, f) ==
  /\ Move(y, f) /\ y.use = x.use /\ y.sa.socket = x.sa.socket /\ f.taken = g.taken
  /\ Exhausted(y) <=> Exhausted(x)
  /\ \/ f.given = g.given
     \/ f.given > g.given /\ f.given <= f.taken

(* Only what was taken and given matters of the history.                      *)
LEMMA SameHistory ==
  ASSUME NEW x, NEW g, NEW f, Move(x, g), f.taken = g.taken, f.given = g.given PROVE Move(x, f)
BY DEF Move, Events, Worth, DoneWorth, Count

(* A buffer is changed.                                                       *)
BufferSet(x, y, p, c) ==
  /\ DOMAIN y = Fields /\ DOMAIN y.pipe = Pipes /\ y.queue = x.queue /\ y.use = x.use
  /\ y.sa = x.sa /\ y.net = x.net /\ y.local = x.local /\ y.run = x.run
  /\ DOMAIN y.pipe[p] = PipeFields /\ y.pipe[p].buf = c
  /\ y.pipe[p].adder = x.pipe[p].adder /\ y.pipe[p].consumer = x.pipe[p].consumer
  /\ y.pipe[p].errA = x.pipe[p].errA /\ y.pipe[p].errC = x.pipe[p].errC
  /\ \A q \in Pipes : q # p => y.pipe[q] = x.pipe[q]

(* What that leaves as it was.                                                *)
LEMMA BufferFacts ==
  ASSUME NEW x, Form(x), NEW p \in Pipes, NEW c
  PROVE  BufferSet(x, [x EXCEPT !.pipe[p].buf = c], p, c)
<1> DEFINE y == [x EXCEPT !.pipe[p].buf = c]
<1>1. /\ DOMAIN y = Fields /\ DOMAIN y.pipe = Pipes /\ y.queue = x.queue /\ y.use = x.use
      /\ y.sa = x.sa /\ y.net = x.net /\ y.local = x.local /\ y.run = x.run
  BY DEF Form, Fields
<1>2. DOMAIN y.pipe[p] = PipeFields /\ y.pipe[p].buf = c
  BY DEF Form, Fields, PipeFields
<1>3. y.pipe[p].adder = x.pipe[p].adder /\ y.pipe[p].consumer = x.pipe[p].consumer
  BY DEF Form, Fields, PipeFields
<1>4. y.pipe[p].errA = x.pipe[p].errA /\ y.pipe[p].errC = x.pipe[p].errC
  BY DEF Form, Fields, PipeFields
<1>5. \A q \in Pipes : q # p => y.pipe[q] = x.pipe[q]
  BY DEF Form, Fields, PipeFields
<1> HIDE DEF y
<1>6. BufferSet(x, y, p, c)
  BY <1>1, <1>2, <1>3, <1>4, <1>5 DEF BufferSet
<1>7. QED
  BY <1>6 DEF y

(* The lesser of two numbers.                                                 *)
LEMMA Lesser ==
  ASSUME NEW k \in Int, NEW m \in Int
  PROVE  Min2(k, m) \in {k, m} /\ Min2(k, m) <= k /\ Min2(k, m) <= m /\ Min2(k, m) \in Int
BY DEF Min2

(* The socket is read.                                                        *)
LEMMA SocketReadMoves ==
  ASSUME NEW x, NEW g, Move(x, g), x.pipe["in"].adder,
         NEW r, r = socket_read(x),
         NEW f, f.given = g.given,
         f.taken = IF "in" = Carrier(x)
                   THEN g.taken + Len(r[2].pipe["in"].buf) - Len(x.pipe["in"].buf) ELSE g.taken
  PROVE  /\ Takes(x, r[2], g, f) /\ r[1] \in LoopErrors
         /\ r[1] = "nodata" /\ r[2].pipe["in"].consumer => "in" = Carrier(r[2]) /\ Exhausted(r[2])
<1> DEFINE b == x.pipe["in"].buf
           a == x.net.avail
           n == Min2(ReadLimit(x), Len(a))
           w == [x EXCEPT !.sa.waitR = TRUE]
           z == [x EXCEPT !.pipe["in"].buf = b \o SubSeq(a, 1, n),
                          !.net.avail = SubSeq(a, n + 1, Len(a))]
<1>1. /\ "in" \in Pipes /\ x.sa.socket /\ x.use \in {"download", "upload"}
      /\ x.pipe["in"].consumer => "in" = Carrier(x) /\ x.use = "upload"
  BY DEF Move, Form, Ends, Off, Pipes, Carrier
<1>2. b \in Seq(Units) /\ a \in Seq(Units) /\ g.taken \in Int /\ g.given \in Int
  BY <1>1 DEF Move, Form, Count
<1>3. /\ ReadLimit(x) \in Int /\ Len(a) \in Nat
      /\ n \in Int /\ n <= ReadLimit(x) /\ n <= Len(a)
      /\ ReadLimit(x) > 0 /\ ~(n > 0) => a = <<>>
  <2>1. MaxReadable \in Int /\ Len(b) \in Int /\ Len(a) \in Nat /\ (Len(a) = 0 => a = <<>>)
    BY <1>2, ChannelAssumption
  <2>2. ReadLimit(x) \in Int
    <3>1. ReadLimit(x) = MaxReadable - Len(b)
      BY DEF ReadLimit
    <3> DEFINE j == Len(b)
    <3>2. j \in Int /\ ReadLimit(x) = MaxReadable - j
      BY <2>1, <3>1
    <3> HIDE DEF j
    <3>3. QED
      BY <2>1, <3>2
  <2> DEFINE k == ReadLimit(x)
             m == Len(a)
  <2>3. n \in {k, m} /\ n <= k /\ n <= m /\ n \in Int /\ k \in Int /\ m \in Nat
    <3> HIDE DEF a, b
    <3>1. k \in Int /\ m \in Int /\ m \in Nat
      BY <2>1, <2>2
    <3> HIDE DEF k, m
    <3>2. /\ Min2(k, m) \in {k, m} /\ Min2(k, m) <= k /\ Min2(k, m) <= m
          /\ Min2(k, m) \in Int
      BY <3>1, Lesser
    <3>3. n = Min2(k, m)
      BY DEF k, m
    <3>4. QED
      BY <3>1, <3>2, <3>3
  <2> HIDE DEF n, k, m
  <2>4. k > 0 /\ ~(n > 0) => m = 0
    BY <2>3
  <2>5. QED
    BY <2>1, <2>3, <2>4 DEF k, m
<1>4. \/ r \in {<<"again", x>>, <<"nobufs", x>>, <<"failed", x>>, <<"again", w>>}
      \/ r = <<"nodata", x>> /\ a = <<>> /\ x.net.eof
      \/ r = <<"ok", z>> /\ n > 0
  <2>1. x.use # "control"
    BY <1>1
  <2>2. QED
    BY <1>3, <2>1 DEF socket_read, Throttles
<1>5. ASSUME r[2] = x PROVE Takes(x, r[2], g, f)
  <2>1. f.taken = g.taken
    BY <1>2, <1>5
  <2>2. QED
    BY <1>5, <2>1, SameHistory DEF Takes
<1>6. ASSUME r[2] = w PROVE Takes(x, r[2], g, f)
  <2>1. /\ DOMAIN w = Fields /\ w.pipe = x.pipe /\ w.queue = x.queue /\ w.use = x.use
        /\ w.net = x.net /\ w.local = x.local /\ w.run = x.run
        /\ w.sa = [x.sa EXCEPT !.waitR = TRUE]
    BY DEF Move, Form, Fields
  <2> HIDE DEF w
  <2>2. DOMAIN w.sa = DOMAIN x.sa /\ w.sa.socket = x.sa.socket /\ w.sa.shutting = x.sa.shutting
        /\ w.sa.throttled = x.sa.throttled
    BY <2>1 DEF Move, Form
  <2>3. Alike(x, w)
    BY <2>1, <2>2 DEF Alike, Move, Form, Ends
  <2>4. Moves(x, w, g)
    BY <2>3, LikeMoves
  <2>5. f.taken = g.taken
    BY <1>2, <1>6, <2>1
  <2>6. Move(w, f) /\ (Exhausted(w) <=> Exhausted(x))
    BY <2>1, <2>4, <2>5, SameHistory DEF Moves, Exhausted
  <2>7. QED
    BY <1>6, <2>1, <2>2, <2>5, <2>6 DEF Takes
<1>7. ASSUME r[2] = z, n > 0 PROVE Takes(x, r[2], g, f)
  <2> DEFINE c == b \o SubSeq(a, 1, n)
             d == SubSeq(a, n + 1, Len(a))
  <2>1. /\ c \in Seq(Units) /\ d \in Seq(Units) /\ Len(c) = Len(b) + n /\ a # <<>>
        /\ Len(b) \in Int
    <3>1. n \in 0..Len(a) /\ a # <<>>
      BY <1>2, <1>3, <1>7
    <3> HIDE DEF n, a, b
    <3>2. /\ SubSeq(a, 1, n) \in Seq(Units) /\ Len(SubSeq(a, 1, n)) = n
          /\ SubSeq(a, n + 1, Len(a)) \in Seq(Units)
      BY <1>2, <3>1, Rest
    <3>3. QED
      BY <1>2, <3>1, <3>2
  <2> DEFINE u == [x EXCEPT !.pipe["in"].buf = c]
  <2>2. z = [u EXCEPT !.net.avail = d]
    OBVIOUS
  <2> HIDE DEF c, d
  <2>3. BufferSet(x, u, "in", c)
    BY <1>1, BufferFacts DEF Move
  <2> HIDE DEF u, z
  <2>4. /\ DOMAIN z = Fields /\ z.pipe = u.pipe /\ z.queue = x.queue /\ z.use = x.use
        /\ z.sa = x.sa /\ z.local = x.local /\ z.run = x.run
        /\ z.net = [x.net EXCEPT !.avail = d]
    BY <2>2, <2>3 DEF BufferSet, Fields
  <2>5. /\ DOMAIN z.net = DOMAIN x.net /\ z.net.shut = x.net.shut /\ z.net.avail = d
        /\ z.net.room \in Nat
    BY <2>4 DEF Move, Form
  <2>6. z.pipe["in"].buf = c
    BY <2>3, <2>4 DEF BufferSet
  <2>7. "in" # Carrier(x) => f.taken = g.taken /\ (Exhausted(z) <=> Exhausted(x))
    BY <1>1, <2>4 DEF Carrier, Exhausted
  <2>8. "in" = Carrier(x) => ~Exhausted(x)
    BY <1>1, <2>1 DEF Carrier, Exhausted
  <2>9. "in" = Carrier(x) => f.taken = g.taken + Len(c) - Len(b)
    BY <1>7, <2>6
  <2>10. /\ f.taken \in Int /\ f.given \in Int
         /\ "in" = Carrier(x) => /\ f.taken - f.given - Len(c) = g.taken - g.given - Len(b)
                                 /\ f.taken > g.taken
    <3> DEFINE j == Len(b)
               k == Len(c)
               l == g.taken
               m == g.given
               i == f.taken
    <3>1. /\ j \in Int /\ n \in Int /\ n > 0 /\ k = j + n /\ k \in Int
          /\ l \in Int /\ m \in Int /\ f.given = m
      BY <1>2, <1>3, <1>7, <2>1
    <3>2. CASE "in" = Carrier(x)
      <4>1. i = l + k - j
        BY <2>9, <3>2
      <4> HIDE DEF i, j, k, l, m, n
      <4>2. i \in Int /\ i - m - k = l - m - j /\ i > l
        BY <3>1, <4>1
      <4>3. QED
        BY <3>1, <4>2 DEF i, j, k, l
    <3>3. CASE "in" # Carrier(x)
      BY <2>7, <3>1, <3>3
    <3>4. QED
      BY <3>2, <3>3
  <2>11. Carries(x, z, g, f, "in")
    <3>1. /\ DOMAIN z.pipe = Pipes
          /\ DOMAIN z.pipe["in"] = PipeFields /\ z.pipe["in"].buf \in Seq(Units)
          /\ z.pipe["in"].adder = x.pipe["in"].adder
          /\ z.pipe["in"].consumer = x.pipe["in"].consumer
          /\ z.pipe["in"].errA = x.pipe["in"].errA
          /\ z.pipe["in"].errC = x.pipe["in"].errC
          /\ \A q \in Pipes : q # "in" => z.pipe[q] = x.pipe[q]
      BY <2>1, <2>3, <2>4 DEF BufferSet
    <3>2. /\ ~z.sa.shutting /\ ~z.sa.throttled /\ z.net.avail \in Seq(Units)
          /\ {"left", "nested", "postponed"} \subseteq DOMAIN z.local /\ z.local.left \in Nat
      BY <2>1, <2>4, <2>5 DEF Move, Form, Ends
    <3>3. "in" = Carrier(x) => f.taken - f.given - Len(z.pipe["in"].buf)
                                 = g.taken - g.given - Len(x.pipe["in"].buf)
      BY <2>6, <2>10
    <3>4. QED
      BY <2>4, <2>5, <2>7, <2>10, <3>1, <3>2, <3>3 DEF Carries, Touched
  <2>12. Move(z, f)
    BY <1>1, <2>11, CarryMoves DEF Off
  <2>13. \/ f.taken = g.taken /\ (Exhausted(z) <=> Exhausted(x))
         \/ f.taken > g.taken /\ ~Exhausted(x)
    BY <2>7, <2>8, <2>10
  <2>14. QED
    BY <1>7, <2>4, <2>12, <2>13 DEF Takes
<1> HIDE DEF w, z, n
<1>8. Takes(x, r[2], g, f) /\ r[1] \in LoopErrors
  BY <1>4, <1>5, <1>6, <1>7 DEF LoopErrors
<1>9. r[1] = "nodata" => r[2] = x /\ a = <<>> /\ x.net.eof
  BY <1>4
<1>10. QED
  BY <1>1, <1>8, <1>9 DEF Exhausted

(* What leaves the buffer is given, if its pipe carries the file.             *)
LEMMA GiveMoves ==
  ASSUME NEW x, NEW y, NEW g, NEW f, NEW p \in Pipes, Move(x, g), x.pipe[p].consumer,
         Touched(x, y, p), Exhausted(y) <=> Exhausted(x),
         NEW n \in Nat \ {0}, Len(y.pipe[p].buf) = Len(x.pipe[p].buf) - n, f.taken = g.taken,
         f.given = IF p = Carrier(x)
                   THEN g.given + Len(x.pipe[p].buf) - Len(y.pipe[p].buf) ELSE g.given
  PROVE  Gives(x, y, g, f)
<1> DEFINE j == Len(x.pipe[p].buf)
           k == Len(y.pipe[p].buf)
           l == g.taken
           m == g.given
           i == f.given
<1>1. /\ j \in Nat /\ k \in Nat /\ l \in Int /\ m \in Int /\ k = j - n /\ f.taken = l
      /\ p = Carrier(x) => l = m + j
  <2>1. x.pipe[p].buf \in Seq(Units) /\ y.pipe[p].buf \in Seq(Units)
    BY DEF Move, Form, Touched
  <2>2. j \in Nat /\ k \in Nat
    BY <2>1, SMTT(30)
  <2>3. l \in Int /\ m \in Int /\ (p = Carrier(x) => l = m + j)
    BY DEF Move, Count
  <2>4. QED
    BY <2>2, <2>3
<1>2. CASE p = Carrier(x)
  <2>1. i = m + j - k /\ l = m + j
    BY <1>1, <1>2
  <2>2. i \in Int /\ l - i - k = l - m - j /\ i > m /\ i <= l
    <3> HIDE DEF i, j, k, l, m
    <3>1. QED
      BY <1>1, <2>1
  <2>3. Carries(x, y, g, f, p)
    BY <1>1, <1>2, <2>2 DEF Carries
  <2>4. Move(y, f)
    BY <2>3, CarryMoves DEF Off
  <2>5. QED
    BY <1>1, <2>2, <2>4 DEF Gives, Touched
<1>3. CASE p # Carrier(x)
  <2>1. Carries(x, y, g, f, p)
    BY <1>1, <1>3 DEF Carries
  <2>2. Move(y, f)
    BY <2>1, CarryMoves DEF Off
  <2>3. QED
    BY <1>3, <2>2 DEF Gives, Touched
<1>4. QED
  BY <1>2, <1>3

(* The file is written.                                                       *)
LEMMA WriteFileMoves ==
  ASSUME NEW x, NEW g, Move(x, g), x.pipe["in"].consumer,
         NEW r \in write_file(x),
         NEW f, f.taken = g.taken,
         f.given = IF "in" = Carrier(x)
                   THEN g.given + Len(x.pipe["in"].buf) - Len(r[2].pipe["in"].buf) ELSE g.given
  PROVE  Gives(x, r[2], g, f) /\ r[1] \in {"ok", "again", "failed"}
<1> DEFINE b == x.pipe["in"].buf
<1>1. "in" \in Pipes /\ b \in Seq(Units) /\ g.given \in Int /\ Len(b) \in Nat
  BY DEF Pipes, Move, Form, Count
<1>2. CASE r = <<"failed", x>>
  <2>1. f.given = g.given
    BY <1>1, <1>2
  <2>2. QED
    BY <1>2, <2>1, SameHistory DEF Gives
<1>3. CASE r # <<"failed", x>>
  <2>1. PICK n \in 1..Len(b) :
          r = <<"ok", [x EXCEPT !.pipe["in"].buf = SubSeq(b, n + 1, Len(b))]>>
    BY <1>3 DEF write_file
  <2> DEFINE c == SubSeq(b, n + 1, Len(b))
             y == [x EXCEPT !.pipe["in"].buf = c]
  <2>2. n \in 0..Len(b) /\ n \in Nat \ {0}
    BY <1>1
  <2>3. c \in Seq(Units) /\ Len(c) = Len(b) - n
    <3> HIDE DEF b
    <3>1. QED
      BY <1>1, <2>2, Rest
  <2>4. r[1] = "ok" /\ r[2] = y
    BY <2>1
  <2> HIDE DEF c
  <2>5. BufferSet(x, y, "in", c)
    BY <1>1, BufferFacts DEF Move
  <2> HIDE DEF y
  <2>6. Touched(x, y, "in")
    BY <2>3, <2>5 DEF BufferSet, Touched, Move, Form, Ends
  <2>7. (Exhausted(y) <=> Exhausted(x)) /\ Len(y.pipe["in"].buf) = Len(b) - n
    BY <2>3, <2>5 DEF BufferSet, Exhausted
  <2>8. Gives(x, y, g, f)
    BY <1>1, <2>2, <2>4, <2>6, <2>7, GiveMoves
  <2>9. QED
    BY <2>4, <2>8
<1>4. QED
  BY <1>2, <1>3

(* The file is read.                                                          *)
LEMMA ReadFileMoves ==
  ASSUME NEW x, NEW g, Move(x, g), x.pipe["out"].adder,
         NEW r \in read_file(x),
         NEW f, f.given = g.given,
         f.taken = IF "out" = Carrier(x)
                   THEN g.taken + Len(r[2].pipe["out"].buf) - Len(x.pipe["out"].buf) ELSE g.taken
  PROVE  /\ Takes(x, r[2], g, f) /\ r[1] \in LoopErrors
         /\ r[1] = "nodata" => "out" = Carrier(r[2]) /\ Exhausted(r[2])
<1> DEFINE b == x.pipe["out"].buf
           o == x.local.left
           n == Min2(MaxFill - Len(b), o)
           e == [i \in 1..n |-> "c"]
           y == [x EXCEPT !.local.left = o - n, !.pipe["out"].buf = b \o e]
<1>1. /\ "out" \in Pipes /\ "out" = Carrier(x) /\ x.use = "download"
      /\ Exhausted(x) <=> o = 0
  BY DEF Pipes, Move, Ends, Off, Carrier, Exhausted
<1>2. /\ b \in Seq(Units) /\ o \in Nat /\ g.taken \in Int /\ g.given \in Int
      /\ Len(b) \in Nat
  BY <1>1 DEF Move, Form, Count
<1>3. \/ r \in {<<"nobufs", x>>, <<"failed", x>>}
      \/ r = <<"nodata", x>> /\ o = 0
      \/ r = <<"ok", y>> /\ n \in Nat \ {0} /\ n <= o
  <2>1. \/ r \in {<<"nobufs", x>>, <<"failed", x>>}
        \/ r = <<"nodata", x>> /\ n = 0 /\ Len(b) < MaxFill
        \/ r = <<"ok", y>> /\ n # 0 /\ Len(b) < MaxFill
    <3>1. MaxFill \in Int
      BY ChannelAssumption
    <3>2. Len(b) >= MaxFill \/ Len(b) < MaxFill
      BY <1>2, <3>1
    <3>3. QED
      BY <3>2 DEF read_file
  <2>2. MaxFill - Len(b) \in Int /\ (Len(b) < MaxFill => MaxFill - Len(b) > 0)
    <3> DEFINE j == Len(b)
    <3>1. MaxFill \in Int /\ j \in Int
      BY <1>2, ChannelAssumption
    <3> HIDE DEF j
    <3>2. MaxFill - j \in Int /\ (j < MaxFill => MaxFill - j > 0)
      BY <3>1
    <3>3. QED
      BY <3>2 DEF j
  <2> DEFINE k == MaxFill - Len(b)
  <2>3. n \in {k, o} /\ n <= k /\ n <= o /\ n \in Int
    <3>1. k \in Int /\ o \in Int /\ n = Min2(k, o)
      BY <1>2, <2>2
    <3> HIDE DEF k, o, n
    <3>2. Min2(k, o) \in {k, o} /\ Min2(k, o) <= k /\ Min2(k, o) <= o /\ Min2(k, o) \in Int
      BY <3>1, Lesser
    <3>3. QED
      BY <3>1, <3>2
  <2>4. Len(b) < MaxFill => k > 0
    BY <2>2
  <2> HIDE DEF y, n, k, b, o
  <2>5. CASE r = <<"nodata", x>> /\ n = 0 /\ Len(b) < MaxFill
    <3>1. o = 0
      BY <1>2, <2>2, <2>3, <2>4, <2>5
    <3>2. QED
      BY <2>5, <3>1
  <2>6. CASE r = <<"ok", y>> /\ n # 0 /\ Len(b) < MaxFill
    <3>1. n \in Nat \ {0} /\ n <= o
      BY <1>2, <2>3, <2>4, <2>6
    <3>2. QED
      BY <2>6, <3>1
  <2>7. QED
    BY <2>1, <2>5, <2>6
<1>4. ASSUME r[2] = x PROVE Takes(x, r[2], g, f)
  <2>1. f.taken = g.taken
    BY <1>2, <1>4
  <2>2. QED
    BY <1>4, <2>1, SameHistory DEF Takes
<1>5. ASSUME r[2] = y, n \in Nat \ {0}, n <= o PROVE Takes(x, r[2], g, f)
  <2> DEFINE c == b \o e
             d == o - n
             u == [x EXCEPT !.pipe["out"].buf = c]
  <2>1. c \in Seq(Units) /\ Len(c) = Len(b) + n /\ d \in Nat /\ o # 0
    <3> HIDE DEF n, b, o
    <3>1. e \in Seq(Units) /\ Len(e) = n
      <4>1. n \in Nat /\ e \in [1..n -> Units] /\ DOMAIN e = 1..n
        BY <1>5 DEF Units
      <4> HIDE DEF e
      <4>2. QED
        BY <4>1
    <3> HIDE DEF e
    <3>2. b \in Seq(Units)
      BY <1>2
    <3>3. b \o e \in Seq(Units) /\ Len(b \o e) = Len(b) + n
      BY <3>1, <3>2
    <3>4. o - n \in Nat /\ o # 0
      BY <1>2, <1>5
    <3>5. QED
      BY <3>3, <3>4
  <2>2. y = [u EXCEPT !.local.left = d]
    BY DEF Move, Form, Fields
  <2> HIDE DEF c, d
  <2>3. BufferSet(x, u, "out", c)
    BY <1>1, BufferFacts DEF Move
  <2> HIDE DEF u, y
  <2>4. /\ DOMAIN y = Fields /\ y.pipe = u.pipe /\ y.queue = x.queue /\ y.use = x.use
        /\ y.sa = x.sa /\ y.net = x.net /\ y.run = x.run
        /\ y.local = [x.local EXCEPT !.left = d]
    BY <2>2, <2>3 DEF BufferSet, Fields
  <2>5. /\ {"left", "nested", "postponed"} \subseteq DOMAIN y.local /\ y.local.left = d
        /\ y.local.nested = x.local.nested /\ y.local.postponed = x.local.postponed
    BY <2>4 DEF Move, Form
  <2>6. Touched(x, y, "out")
    <3>1. /\ DOMAIN y.pipe = Pipes
          /\ DOMAIN y.pipe["out"] = PipeFields /\ y.pipe["out"].buf \in Seq(Units)
          /\ y.pipe["out"].adder = x.pipe["out"].adder
          /\ y.pipe["out"].consumer = x.pipe["out"].consumer
          /\ y.pipe["out"].errA = x.pipe["out"].errA
          /\ y.pipe["out"].errC = x.pipe["out"].errC
          /\ \A q \in Pipes : q # "out" => y.pipe[q] = x.pipe[q]
      BY <2>1, <2>3, <2>4 DEF BufferSet
    <3>2. /\ ~y.sa.shutting /\ ~y.sa.throttled /\ y.net.avail \in Seq(Units)
          /\ y.net.room \in Nat
          /\ {"left", "nested", "postponed"} \subseteq DOMAIN y.local /\ y.local.left \in Nat
          /\ y.local.nested = x.local.nested /\ y.local.postponed = x.local.postponed
      BY <2>1, <2>4, <2>5 DEF Move, Form, Ends
    <3>3. QED
      BY <2>4, <3>1, <3>2 DEF Touched
  <2>7. y.pipe["out"].buf = c
    BY <2>3, <2>4 DEF BufferSet
  <2>8. f.taken = g.taken + Len(c) - Len(b)
    BY <1>1, <1>5, <2>7
  <2>9. f.taken \in Int /\ f.taken - f.given - Len(c) = g.taken - g.given - Len(b) /\ f.taken > g.taken
    <3> DEFINE j == Len(b)
               k == Len(c)
               l == g.taken
               m == g.given
               i == f.taken
    <3>1. /\ j \in Int /\ k \in Int /\ k = j + n /\ l \in Int /\ m \in Int /\ f.given = m
          /\ i = l + k - j /\ n \in Nat \ {0}
      <4>1. l \in Int /\ m \in Int /\ j \in Int /\ f.given = m
        BY <1>2
      <4>2. k = j + n /\ n \in Nat \ {0} /\ i = l + k - j
        BY <1>5, <2>1, <2>8
      <4> HIDE DEF i, j, k, l, m, n
      <4>3. QED
        BY <4>1, <4>2
    <3> HIDE DEF i, j, k, l, m, n
    <3>2. i \in Int /\ i - m - k = l - m - j /\ i > l
      BY <3>1
    <3>3. QED
      BY <3>1, <3>2 DEF i, j, k, l
  <2>10. Carries(x, y, g, f, "out")
    BY <1>1, <1>2, <2>6, <2>7, <2>9 DEF Carries
  <2>11. Move(y, f)
    BY <1>1, <2>10, CarryMoves DEF Off
  <2>12. QED
    BY <1>1, <1>5, <2>1, <2>4, <2>9, <2>11 DEF Takes
<1> HIDE DEF y, n
<1>6. Takes(x, r[2], g, f) /\ r[1] \in LoopErrors
  BY <1>3, <1>4, <1>5 DEF LoopErrors
<1>7. QED
  BY <1>1, <1>3, <1>6

(* A method that leaves what is in the pipes alone gives nothing.             *)
LEMMA GivesOn ==
  ASSUME NEW x, NEW y, NEW z, NEW g, NEW f, Gives(x, y, g, f), Moves(y, z, f)
  PROVE  Gives(x, z, g, f)
<1>1. Exhausted(z) <=> Exhausted(y)
  BY DEF Moves, Exhausted
<1>2. QED
  BY <1>1 DEF Gives, Moves

(* The socket is written.                                                     *)
LEMMA SocketWriteMoves ==
  ASSUME NEW x, NEW g, Move(x, g), x.pipe["out"].consumer, NEW flushed,
         NEW r, r = socket_write(x, flushed),
         NEW f, f.taken = g.taken,
         f.given = IF "out" = Carrier(x)
                   THEN g.given + Len(x.pipe["out"].buf) - Len(r[2].pipe["out"].buf) ELSE g.given
  PROVE  Gives(x, r[2], g, f) /\ r[1] \in {"ok", "again", "failed"}
<1> DEFINE b == x.pipe["out"].buf
           o == x.net.room
           n == Min2(o, Len(b))
           y == [x EXCEPT !.pipe["out"].buf = SubSeq(b, n + 1, Len(b)), !.net.room = o - n]
           v == [y EXCEPT !.sa.throttled = FALSE]
           w == [x EXCEPT !.sa.waitW = TRUE]
<1>1. "out" \in Pipes /\ "in" \in Pipes /\ ~x.sa.shutting /\ ~x.sa.throttled
  BY DEF Pipes, Move, Ends
<1>2. b \in Seq(Units) /\ o \in Nat /\ Len(b) \in Nat /\ g.given \in Int /\ g.taken \in Int
  BY <1>1 DEF Move, Form, Count
<1>3. n \in Nat /\ n <= Len(b) /\ n <= o
  <2> DEFINE k == Len(b)
  <2>1. k \in Int /\ k \in Nat /\ o \in Int /\ o \in Nat /\ n = Min2(o, k)
    BY <1>2
  <2> HIDE DEF k, o, n
  <2>2. Min2(o, k) \in {o, k} /\ Min2(o, k) <= o /\ Min2(o, k) <= k /\ Min2(o, k) \in Int
    BY <2>1, Lesser, Zenon
  <2>3. n \in Nat /\ n <= k /\ n <= o
    BY <2>1, <2>2
  <2>4. QED
    BY <2>3 DEF k
<1>4. y.sa = x.sa
  BY DEF Move, Form, Fields
<1>5. \/ r \in {<<"again", x>>, <<"failed", x>>, <<"again", w>>}
      \/ n # 0 /\ r \in {<<"ok", y>>, <<"ok", NotifyAdder(v, "in", "ok")>>}
  BY <1>1, <1>4 DEF socket_write
<1>6. r[2].pipe["out"].buf = b => f.given = g.given
  BY <1>2
<1>7. ASSUME r[2] = x PROVE Gives(x, r[2], g, f)
  BY <1>6, <1>7, SameHistory DEF Gives
<1>8. ASSUME r[2] = w PROVE Gives(x, r[2], g, f)
  <2>1. /\ DOMAIN w = Fields /\ w.pipe = x.pipe /\ w.queue = x.queue /\ w.use = x.use
        /\ w.net = x.net /\ w.local = x.local /\ w.run = x.run
        /\ w.sa = [x.sa EXCEPT !.waitW = TRUE]
    BY DEF Move, Form, Fields
  <2> HIDE DEF w
  <2>2. DOMAIN w.sa = DOMAIN x.sa /\ w.sa.socket = x.sa.socket /\ w.sa.shutting = x.sa.shutting
        /\ w.sa.throttled = x.sa.throttled
    BY <2>1 DEF Move, Form
  <2>3. Alike(x, w)
    BY <2>1, <2>2 DEF Alike, Move, Form, Ends
  <2>4. Moves(x, w, g)
    BY <2>3, LikeMoves
  <2>5. f.given = g.given
    BY <1>6, <1>8, <2>1
  <2>6. Move(w, f) /\ (Exhausted(w) <=> Exhausted(x))
    BY <2>1, <2>4, <2>5, SameHistory DEF Moves, Exhausted
  <2>7. QED
    BY <1>8, <2>1, <2>2, <2>5, <2>6 DEF Gives
<1>9. ASSUME n # 0, r[2] \in {y, NotifyAdder(v, "in", "ok")} PROVE Gives(x, r[2], g, f)
  <2> DEFINE c == SubSeq(b, n + 1, Len(b))
             d == o - n
             u == [x EXCEPT !.pipe["out"].buf = c]
  <2>1. c \in Seq(Units) /\ Len(c) = Len(b) - n /\ d \in Nat /\ n \in Nat \ {0}
    <3>1. n \in 0..Len(b)
      BY <1>2, <1>3
    <3>2. d \in Nat /\ n \in Nat \ {0}
      BY <1>2, <1>3, <1>9
    <3> HIDE DEF n, b, d
    <3>3. c \in Seq(Units) /\ Len(c) = Len(b) - n
      BY <1>2, <3>1, Rest
    <3>4. QED
      BY <3>2, <3>3
  <2>2. y = [u EXCEPT !.net.room = d]
    OBVIOUS
  <2> HIDE DEF c, d
  <2>3. BufferSet(x, u, "out", c)
    BY <1>1, BufferFacts DEF Move
  <2> HIDE DEF u, y
  <2>4. /\ DOMAIN y = Fields /\ y.pipe = u.pipe /\ y.queue = x.queue /\ y.use = x.use
        /\ y.sa = x.sa /\ y.local = x.local /\ y.run = x.run
        /\ y.net = [x.net EXCEPT !.room = d]
    BY <2>2, <2>3 DEF BufferSet, Fields
  <2>5. /\ DOMAIN y.net = DOMAIN x.net /\ y.net.shut = x.net.shut /\ y.net.room = d
        /\ y.net.avail = x.net.avail /\ y.net.eof = x.net.eof
    BY <2>4 DEF Move, Form
  <2>6. Touched(x, y, "out")
    <3>1. /\ DOMAIN y.pipe = Pipes
          /\ DOMAIN y.pipe["out"] = PipeFields /\ y.pipe["out"].buf \in Seq(Units)
          /\ y.pipe["out"].adder = x.pipe["out"].adder
          /\ y.pipe["out"].consumer = x.pipe["out"].consumer
          /\ y.pipe["out"].errA = x.pipe["out"].errA
          /\ y.pipe["out"].errC = x.pipe["out"].errC
          /\ \A q \in Pipes : q # "out" => y.pipe[q] = x.pipe[q]
      BY <2>1, <2>3, <2>4 DEF BufferSet
    <3>2. /\ ~y.sa.shutting /\ ~y.sa.throttled /\ y.net.avail \in Seq(Units)
          /\ y.net.room \in Nat
          /\ {"left", "nested", "postponed"} \subseteq DOMAIN y.local /\ y.local.left \in Nat
          /\ y.local.nested = x.local.nested /\ y.local.postponed = x.local.postponed
      BY <2>1, <2>4, <2>5 DEF Move, Form, Ends
    <3>3. QED
      BY <2>4, <2>5, <3>1, <3>2 DEF Touched
  <2>7. Exhausted(y) <=> Exhausted(x)
    BY <2>4, <2>5 DEF Exhausted
  <2>8. y.pipe["out"].buf = c /\ Len(y.pipe["out"].buf) = Len(b) - n
    BY <2>1, <2>3, <2>4 DEF BufferSet
  <2>9. v.pipe = y.pipe /\ NotifyAdder(v, "in", "ok").pipe = v.pipe
    BY <2>4 DEF NotifyAdder, Post, Fields
  <2>10. f.given = IF "out" = Carrier(x)
                   THEN g.given + Len(b) - Len(y.pipe["out"].buf) ELSE g.given
    BY <1>9, <2>9
  <2>11. Gives(x, y, g, f)
    BY <1>1, <2>1, <2>6, <2>7, <2>8, <2>10, GiveMoves
  <2>12. Gives(x, NotifyAdder(v, "in", "ok"), g, f)
    <3>1. /\ DOMAIN v = Fields /\ v.pipe = y.pipe /\ v.queue = y.queue /\ v.use = y.use
          /\ v.net = y.net /\ v.local = y.local /\ v.run = y.run
          /\ v.sa = [y.sa EXCEPT !.throttled = FALSE]
      BY <2>4 DEF Fields
    <3> HIDE DEF v
    <3>2. DOMAIN v.sa = DOMAIN y.sa /\ v.sa.socket = y.sa.socket /\ v.sa.shutting = y.sa.shutting
          /\ ~v.sa.throttled
      BY <2>4, <3>1 DEF Move, Form
    <3>3. Alike(y, v)
      BY <2>11, <3>1, <3>2 DEF Alike, Gives, Move, Form, Ends
    <3>4. Moves(y, v, f)
      BY <2>11, <3>3, LikeMoves DEF Gives
    <3>5. Gives(x, v, g, f)
      BY <2>11, <3>4, GivesOn
    <3>6. Moves(v, NotifyAdder(v, "in", "ok"), f)
      BY <1>1, <3>4, NotifyAdderMoves DEF Moves
    <3>7. QED
      BY <3>5, <3>6, GivesOn
  <2>13. QED
    BY <1>9, <2>11, <2>12
<1> HIDE DEF y, v, w, n
<1>10. QED
  BY <1>5, <1>7, <1>8, <1>9

(* The same of taking.                                                        *)
LEMMA TakesOn ==
  ASSUME NEW x, NEW y, NEW z, NEW g, NEW f, Takes(x, y, g, f), Moves(y, z, f)
  PROVE  Takes(x, z, g, f)
<1>1. Exhausted(z) <=> Exhausted(y)
  BY DEF Moves, Exhausted
<1>2. QED
  BY <1>1 DEF Takes, Moves

-----------------------------------------------------------------------------
(* The steps of a data connection *)

(* A transfer runs as long as there is a socket.                              *)
Moving ==
  /\ Move(s, h) /\ DOMAIN h = HistoryFields
  /\ s.sa.socket <=> h.outcome = "running"

(* What a step means to the user of the transfer: it begins, something is     *)
(* taken, the source runs dry, something is given, it succeeds, it fails, it  *)
(* is over, or nothing happens.                                               *)
SameEnds == h'.taken = h.taken /\ h'.given = h.given

Proceeds ==
  \/ h.outcome # "running" /\ h'.outcome = "running" /\ h'.taken = 0 /\ h'.given = 0
  \/ /\ h.outcome = "running" /\ h'.outcome = "running"
     /\ ~Exhausted(s) /\ h'.taken > h.taken /\ h'.given = h.given
  \/ h.outcome = "running" /\ h'.outcome = "running" /\ Exhausted(s') /\ SameEnds
  \/ /\ h.outcome = "running" /\ h'.outcome = "running"
     /\ Exhausted(s') <=> Exhausted(s)
     /\ h'.given > h.given /\ h'.given <= h.taken /\ h'.taken = h.taken
  \/ /\ h.outcome = "running" /\ h'.outcome = "ok"
     /\ Exhausted(s) /\ h.given = h.taken /\ SameEnds
  \/ h.outcome = "running" /\ h'.outcome = "failed" /\ SameEnds
  \/ h.outcome # "running" /\ h'.outcome = h.outcome /\ SameEnds
  \/ h'.outcome = h.outcome /\ SameEnds /\ (Exhausted(s') <=> Exhausted(s))

(* A method leaves a data connection as it is, or takes, or gives.            *)
LEMMA MovesOn ==
  ASSUME Moving, h' = h, Moves(s, s', h) PROVE Moving' /\ Proceeds
<1>1. Exhausted(s') <=> Exhausted(s)
  BY DEF Moves, Exhausted
<1>2. QED
  BY <1>1 DEF Moving, Moves, Proceeds, SameEnds

(* A step that takes is one of a transfer.                                     *)
LEMMA TakesStep ==
  ASSUME Moving, DOMAIN h' = HistoryFields, h'.outcome = h.outcome, s.sa.socket, Takes(s, s', h, h')
  PROVE  Moving' /\ Proceeds
BY DEF Moving, Takes, Proceeds, SameEnds

(* So is a step that gives.                                                   *)
LEMMA GivesStep ==
  ASSUME Moving, DOMAIN h' = HistoryFields, h'.outcome = h.outcome, s.sa.socket, Gives(s, s', h, h')
  PROVE  Moving' /\ Proceeds
BY SMTT(30) DEF Moving, Gives, Proceeds, SameEnds

(* A turn of the loop of pipe::add_to_buffer().                               *)
LEMMA AddMoves == ASSUME Moving, AddStep PROVE Moving' /\ Proceeds
<1> DEFINE p == s.run.pipe
<1>1. /\ Move(s, h) /\ p \in Pipes /\ s.sa.socket /\ s.use \in {"download", "upload"}
      /\ Main = Carrier(s)
  BY DEF Moving, Move, Form, Ends, AddStep, Main, Carrier
<1>2. CASE s' = after_add(s, p) /\ h' = h
  BY <1>1, <1>2, AfterMoves, MovesOn
<1>3. ASSUME NEW r \in AddToBuffer(s, p), s.pipe[p].adder, s' = added(r[2], p, r[1]),
             h' = IF p # Main \/ s.use = "control" THEN h
                  ELSE [h EXCEPT !.taken = h.taken + Len(r[2].pipe[p].buf) - Len(s.pipe[p].buf)]
      PROVE  Moving' /\ Proceeds
  <2> HIDE DEF p
  <2>1. /\ DOMAIN h' = HistoryFields /\ h'.outcome = h.outcome /\ h'.given = h.given
        /\ h'.taken = IF p = Carrier(s)
                      THEN h.taken + Len(r[2].pipe[p].buf) - Len(s.pipe[p].buf) ELSE h.taken
    BY <1>1, <1>3 DEF Moving, HistoryFields
  <2>2. /\ Takes(s, r[2], h, h') /\ r[1] \in LoopErrors
        /\ r[1] = "nodata" /\ r[2].pipe[p].consumer => p = Carrier(r[2]) /\ Exhausted(r[2])
    <3>1. CASE p = "in"
      <4>1. r = socket_read(s) /\ s.pipe["in"].adder
        BY <1>1, <1>3, <3>1 DEF AddToBuffer
      <4>2. h'.taken = IF "in" = Carrier(s)
                       THEN h.taken + Len(r[2].pipe["in"].buf) - Len(s.pipe["in"].buf) ELSE h.taken
        BY <2>1, <3>1
      <4>3. /\ Takes(s, r[2], h, h') /\ r[1] \in LoopErrors
            /\ r[1] = "nodata" /\ r[2].pipe["in"].consumer
                 => "in" = Carrier(r[2]) /\ Exhausted(r[2])
        BY <1>1, <2>1, <4>1, <4>2, SocketReadMoves
      <4>4. QED
        BY <3>1, <4>3
    <3>2. CASE p = "out"
      <4>1. r \in read_file(s) /\ s.pipe["out"].adder
        BY <1>1, <1>3, <3>2 DEF AddToBuffer
      <4>2. h'.taken = IF "out" = Carrier(s)
                       THEN h.taken + Len(r[2].pipe["out"].buf) - Len(s.pipe["out"].buf) ELSE h.taken
        BY <2>1, <3>2
      <4>3. /\ Takes(s, r[2], h, h') /\ r[1] \in LoopErrors
            /\ r[1] = "nodata" => "out" = Carrier(r[2]) /\ Exhausted(r[2])
        BY <1>1, <2>1, <4>1, <4>2, ReadFileMoves
      <4>4. QED
        BY <3>2, <4>3
    <3>3. QED
      BY <1>1, <3>1, <3>2 DEF Pipes
  <2>3. Move(r[2], h') /\ r[2].use # "closed"
    BY <1>1, <2>2 DEF Takes
  <2>4. Moves(r[2], s', h')
    BY <1>1, <1>3, <2>2, <2>3, AddedMoves
  <2>5. Takes(s, s', h, h')
    BY <2>2, <2>4, TakesOn, SMTT(30)
  <2>6. QED
    BY <1>1, <2>1, <2>5, TakesStep
<1>4. QED
  BY <1>2, <1>3 DEF AddStep

(* A turn of the loop of pipe::consume_buffer().                              *)
LEMMA ConsumeMoves == ASSUME Moving, ConsumeStep PROVE Moving' /\ Proceeds
<1> DEFINE p == s.run.pipe
<1>1. /\ Move(s, h) /\ p \in Pipes /\ s.sa.socket /\ s.use \in {"download", "upload"}
      /\ Main = Carrier(s)
  BY DEF Moving, Move, Form, Ends, ConsumeStep, Main, Carrier
<1>2. CASE s' = after_consume(s, p) /\ h' = h
  BY <1>1, <1>2, AfterMoves, MovesOn
<1>3. ASSUME NEW r \in ConsumeBuffer(s, p), s.pipe[p].consumer, s' = consumed(r[2], p, r[1]),
             h' = IF p # Main THEN h
                  ELSE [h EXCEPT !.given = h.given + Len(s.pipe[p].buf) - Len(r[2].pipe[p].buf)]
      PROVE  Moving' /\ Proceeds
  <2> HIDE DEF p
  <2>1. /\ DOMAIN h' = HistoryFields /\ h'.outcome = h.outcome /\ h'.taken = h.taken
        /\ h'.given = IF p = Carrier(s)
                      THEN h.given + Len(s.pipe[p].buf) - Len(r[2].pipe[p].buf) ELSE h.given
    BY <1>1, <1>3 DEF Moving, HistoryFields
  <2>2. Gives(s, r[2], h, h') /\ r[1] \in {"ok", "again", "failed"}
    <3>1. CASE p = "in"
      <4>1. r \in write_file(s) /\ s.pipe["in"].consumer
        BY <1>1, <1>3, <3>1 DEF ConsumeBuffer
      <4>2. h'.given = IF "in" = Carrier(s)
                       THEN h.given + Len(s.pipe["in"].buf) - Len(r[2].pipe["in"].buf) ELSE h.given
        BY <2>1, <3>1
      <4>3. QED
        BY <1>1, <2>1, <4>1, <4>2, WriteFileMoves
    <3>2. CASE p = "out"
      <4>1. PICK flushed \in BOOLEAN : r = socket_write(s, flushed)
        BY <1>1, <1>3, <3>2 DEF ConsumeBuffer
      <4>2. /\ s.pipe["out"].consumer
            /\ h'.given = IF "out" = Carrier(s)
                          THEN h.given + Len(s.pipe["out"].buf) - Len(r[2].pipe["out"].buf) ELSE h.given
        BY <1>3, <2>1, <3>2
      <4>3. QED
        BY <1>1, <2>1, <4>1, <4>2, SocketWriteMoves
    <3>3. QED
      BY <1>1, <3>1, <3>2 DEF Pipes
  <2>3. Move(r[2], h') /\ r[2].use # "closed"
    BY <1>1, <2>2 DEF Gives
  <2>4. Moves(r[2], s', h')
    BY <1>1, <1>3, <2>2, <2>3, ConsumedMoves
  <2>5. Gives(s, s', h, h')
    BY <2>2, <2>4, GivesOn
  <2>6. QED
    BY <1>1, <2>1, <2>5, GivesStep
<1>4. QED
  BY <1>1, <1>2, <1>3 DEF ConsumeStep

(* The event at hand.                                                         *)
LEMMA TakenMoves ==
  ASSUME Moving, s.queue # <<>>
  PROVE  /\ Moves(s, Taken, h) /\ Taken.pipe = s.pipe /\ Taken.run = s.run
         /\ Head(s.queue) \in MoveEvent /\ Worth(s, h, Head(s.queue))
         /\ Head(s.queue).to = <<"session", "open">> => Taken.queue = <<>>
<1> DEFINE q == s.queue
           r == Tail(q)
           y == [s EXCEPT !.queue = r]
<1>1. Move(s, h) /\ q \in Seq(MoveEvent) /\ Len(q) \in Nat \ {0} /\ Taken = y
  BY DEF Moving, Move, Events, Taken
<1>2. /\ Head(q) = q[1] /\ 1 \in DOMAIN q /\ Head(q) \in MoveEvent
      /\ r \in Seq(MoveEvent) /\ Len(r) = Len(q) - 1
      /\ \A k \in DOMAIN r : r[k] = q[k + 1] /\ k + 1 \in DOMAIN q /\ (k + 1 = Len(q) => k = Len(r))
  BY <1>1
<1>3. /\ \A k \in DOMAIN q : Worth(s, h, q[k])
      /\ \A k \in DOMAIN q : q[k].to = <<"session", "open">> => k = Len(q)
  BY <1>1 DEF Move, Events
<1>4. Worth(s, h, Head(q))
  BY <1>2, <1>3
<1>5. Head(q).to = <<"session", "open">> => r = <<>>
  <2> SUFFICES ASSUME Head(q).to = <<"session", "open">> PROVE r = <<>>
    OBVIOUS
  <2>1. Len(q) = 1
    BY <1>2, <1>3
  <2>2. QED
    BY <1>2, <2>1
<1>6. /\ DOMAIN y = Fields /\ y.queue = r /\ y.use = s.use /\ y.pipe = s.pipe
      /\ y.sa = s.sa /\ y.net = s.net /\ y.local = s.local /\ y.run = s.run
  BY <1>1 DEF Move, Form, Fields
<1> HIDE DEF y
<1>7. Form(y) /\ Ends(y) /\ Count(y, h)
  BY <1>1, <1>6 DEF Move, Form, Ends, Off, Count, Carrier
<1>8. ASSUME NEW k \in DOMAIN r PROVE Worth(y, h, r[k])
  <2>1. Worth(s, h, r[k])
    BY <1>2, <1>3
  <2> DEFINE e == r[k]
  <2>2. \A p \in Pipes : /\ e.to = <<p, "adder">> => y.pipe[p].adder
                         /\ e.to = <<p, "consumer">> => y.pipe[p].consumer
                         /\ Off(s, p) => Off(y, p)
    BY <1>6, <2>1 DEF Worth, Off
  <2> HIDE DEF e
  <2>3. Worth(y, h, e)
    BY <1>6, <2>1, <2>2, WorthKept DEF e
  <2>4. QED
    BY <2>3 DEF e
<1>9. \A k \in DOMAIN r : r[k].to = <<"session", "open">> => k = Len(r)
  BY <1>2, <1>3
<1>10. Events(y, h)
  BY <1>2, <1>6, <1>8, <1>9 DEF Events
<1>11. QED
  BY <1>1, <1>2, <1>4, <1>5, <1>6, <1>7, <1>10 DEF Move, Moves

(* The events of pipes; that one is done is the outcome of the transfer, if   *)
(* it is the first to be.                                                     *)
LEMMA OperatorMoves ==
  ASSUME Moving, NEW p \in Pipes, AdderEvent(p) \/ ConsumerEvent(p)
  PROVE  Moving' /\ Proceeds
<1> DEFINE e == Head(s.queue)
           t == Taken
           x == [t EXCEPT !.pipe[p].waitA = FALSE]
           y == [t EXCEPT !.pipe[p].waitC = FALSE]
           r == [at |-> "add", pipe |-> p, loop |-> 0]
           c == [at |-> "consume", pipe |-> p, loop |-> 0]
<1>1. s.queue # <<>> /\ h' = h
  BY DEF AdderEvent, ConsumerEvent, Dispatched
<1>2. /\ Moves(s, t, h) /\ t.pipe = s.pipe /\ e \in MoveEvent /\ Worth(s, h, e)
  BY <1>1, TakenMoves
<1>3. e.err \in {"ok", "failed"}
  BY <1>2 DEF MoveEvent
<1>4. s.sa.socket /\ s.use # "closed" /\ (ConsumerEvent(p) => e.err = "ok")
  BY <1>2 DEF AdderEvent, ConsumerEvent, Dispatched, Worth, Moving, Move, Ends, Off
<1>5. CASE AdderEvent(p)
  <2>1. Moves(s, x, h) /\ x.pipe[p].errA \in {"ok", "failed"}
    <3> HIDE DEF t
    <3>1. Moves(t, x, h)
      BY <1>2, WaitMoves DEF Moves
    <3> HIDE DEF x
    <3>2. QED
      BY <1>2, <3>1 DEF Moves, Move, Ends
  <2>2. s' \in {done(t, p, "failed"), done(x, p, "failed"), [x EXCEPT !.run = r]}
    BY <1>3, <1>5, <2>1 DEF AdderEvent
  <2> HIDE DEF t, x
  <2>3. Moves(s, done(t, p, "failed"), h) /\ Moves(s, done(x, p, "failed"), h)
    BY ZenonT(40), <1>2, <1>4, <2>1, DoneMoves DEF Moves
  <2>4. DOMAIN r = {"at", "pipe", "loop"} /\ r.pipe \in Pipes /\ x.sa.socket
    BY <1>4, <2>1 DEF Moves
  <2> HIDE DEF r
  <2>5. Moves(s, [x EXCEPT !.run = r], h)
    BY ZenonT(40), <2>1, <2>4, RunMoves DEF Moves
  <2>6. QED
    BY <1>1, <2>2, <2>3, <2>5, MovesOn
<1>6. CASE ConsumerEvent(p)
  <2>1. Moves(s, y, h)
    BY ZenonT(40), <1>2, WaitMoves DEF Moves
  <2>2. s' = [y EXCEPT !.run = c]
    BY <1>4, <1>6 DEF ConsumerEvent
  <2> HIDE DEF t, y
  <2>3. DOMAIN c = {"at", "pipe", "loop"} /\ c.pipe \in Pipes /\ y.sa.socket
    BY <1>4, <2>1 DEF Moves
  <2> HIDE DEF c
  <2>4. Moves(s, [y EXCEPT !.run = c], h)
    BY ZenonT(40), <2>1, <2>3, RunMoves DEF Moves
  <2>5. QED
    BY <1>1, <2>2, <2>4, MovesOn
<1>7. QED
  BY <1>5, <1>6

(* channel::on_pipe_done_event(): the first pipe that is done decides.        *)
LEMMA PipeDoneMoves ==
  ASSUME Moving, NEW p \in Pipes, PipeDone(p) PROVE Moving' /\ Proceeds
<1> DEFINE e == Head(s.queue)
           t == Taken
           x == clear(t, Other(p))
           y == Disconnected(x)
           to == <<"channel", "done">>
<1>1. s.queue # <<>> /\ s.run.at = "idle" /\ e.to = <<p, "done">>
  BY DEF PipeDone, Dispatched
<1>2. Moves(s, t, h) /\ t.run = s.run /\ e \in MoveEvent /\ Worth(s, h, e)
  BY <1>1, TakenMoves
<1>3. e.err \in {"ok", "failed"} /\ DoneWorth(s, h, p, e.err)
  BY <1>1, <1>2 DEF MoveEvent, Worth
<1>4. Other(p) \in Pipes
  BY DEF Other, Pipes
<1>5. \/ ~x.sa.socket /\ s' = x /\ h' = h
      \/ x.sa.socket /\ s' = Post(y, to, e.err) /\ h' = Reported(e.err)
  BY DEF PipeDone
<1> HIDE DEF t
<1>6. Moves(s, x, h) /\ x.run.at = "idle"
  BY <1>1, <1>2, <1>4, ClearMoves DEF Moves, Fewer
<1> HIDE DEF x
<1>7. CASE s' = x /\ h' = h
  BY <1>6, <1>7, MovesOn
<1>8. CASE x.sa.socket /\ s' = Post(y, to, e.err) /\ h' = Reported(e.err)
  <2>1. /\ s.sa.socket /\ h.outcome = "running" /\ s.use # "closed" /\ x.use = s.use
    BY <1>6, <1>8 DEF Moving, Move, Ends, Moves
  <2>2. Move(y, h) /\ y.sa.socket = FALSE /\ y.use = s.use
    BY <1>6, <2>1, DisconnectedMoves DEF Moves
  <2> HIDE DEF y
  <2> DEFINE err == e.err
             d == [to |-> to, err |-> err]
  <2>3. to \in MoveTo /\ to # <<"session", "open">> /\ d.to = to
    BY DEF MoveTo
  <2>4. /\ \A q \in Pipes : to # <<q, "adder">> /\ to # <<q, "consumer">> /\ to # <<q, "done">>
        /\ to # <<"socket", "write">>
    BY DEF Pipes
  <2> HIDE DEF to
  <2>5. Worth(y, h, d)
    BY <2>1, <2>2, <2>3, <2>4 DEF Worth
  <2>6. err \in {"ok", "failed"}
    BY <1>3
  <2> HIDE DEF err
  <2>7. Moves(y, Post(y, to, err), h)
    BY <2>1, <2>2, <2>3, <2>5, <2>6, PostMoves
  <2>8. s' = Post(y, to, err) /\ h' = Reported(err)
    BY <1>8 DEF err
  <2>9. /\ DOMAIN h' = HistoryFields /\ h'.taken = h.taken /\ h'.given = h.given
        /\ h'.outcome = IF err = "ok" THEN "ok" ELSE "failed"
    BY <2>1, <2>8 DEF Moving, HistoryFields, Reported
  <2>10. Move(s', h') /\ s'.sa.socket = FALSE
    BY <2>2, <2>7, <2>8, <2>9, SameHistory DEF Moves
  <2>11. err = "ok" => Exhausted(s) /\ h.given = h.taken
    BY <1>3, <2>1 DEF DoneWorth, err
  <2>12. QED
    BY <2>1, <2>9, <2>10, <2>11 DEF Moving, Proceeds, SameEnds
<1>9. QED
  BY <1>5, <1>7, <1>8

(* The events of the socket.                                                  *)
LEMMA SocketMoves ==
  ASSUME Moving, SocketRead \/ SocketWrite PROVE Moving' /\ Proceeds
<1> DEFINE e == Head(s.queue)
           err == e.err
           t == Taken
           v == [t EXCEPT !.sa.waitR = FALSE]
           w == [t EXCEPT !.sa.waitW = FALSE]
<1>1. s.queue # <<>> /\ h' = h
  BY DEF SocketRead, SocketWrite, Dispatched
<1>2. Moves(s, t, h) /\ e \in MoveEvent /\ Worth(s, h, e)
  BY <1>1, TakenMoves
<1>3. err \in {"ok", "failed"} /\ (SocketWrite => err = "ok")
  BY <1>2 DEF MoveEvent, SocketWrite, Dispatched, Worth
<1>4. "in" \in Pipes /\ "out" \in Pipes
  BY DEF Pipes
<1> HIDE DEF t
<1>5. Moves(s, v, h)
  <2>1. /\ DOMAIN v = Fields /\ v.pipe = t.pipe /\ v.queue = t.queue /\ v.use = t.use
        /\ v.net = t.net /\ v.local = t.local /\ v.run = t.run
        /\ v.sa = [t.sa EXCEPT !.waitR = FALSE]
    BY <1>2 DEF Moves, Move, Form, Fields
  <2> HIDE DEF v
  <2>2. DOMAIN v.sa = DOMAIN t.sa /\ v.sa.socket = t.sa.socket /\ v.sa.shutting = t.sa.shutting
        /\ v.sa.throttled = t.sa.throttled
    BY <1>2, <2>1 DEF Moves, Move, Form
  <2>3. Alike(t, v)
    BY <1>2, <2>1, <2>2 DEF Alike, Moves, Move, Form, Ends
  <2>4. QED
    BY <1>2, <2>3, LikeMoves DEF Moves
<1>6. Moves(s, w, h)
  <2>1. /\ DOMAIN w = Fields /\ w.pipe = t.pipe /\ w.queue = t.queue /\ w.use = t.use
        /\ w.net = t.net /\ w.local = t.local /\ w.run = t.run
        /\ w.sa = [t.sa EXCEPT !.waitW = FALSE]
    BY <1>2 DEF Moves, Move, Form, Fields
  <2> HIDE DEF w
  <2>2. DOMAIN w.sa = DOMAIN t.sa /\ w.sa.socket = t.sa.socket /\ w.sa.shutting = t.sa.shutting
        /\ w.sa.throttled = t.sa.throttled
    BY <1>2, <2>1 DEF Moves, Move, Form
  <2>3. Alike(t, w)
    BY <1>2, <2>1, <2>2 DEF Alike, Moves, Move, Form, Ends
  <2>4. QED
    BY <1>2, <2>3, LikeMoves DEF Moves
<1>7. CASE SocketRead
  <2>1. s' \in {v, NotifyAdder(v, "in", err)}
    BY <1>7 DEF SocketRead, t
  <2> HIDE DEF v, err
  <2>2. Moves(s, NotifyAdder(v, "in", err), h)
    BY SMTT(30), <1>3, <1>4, <1>5, NotifyAdderMoves DEF Moves
  <2>3. QED
    BY <1>1, <1>5, <2>1, <2>2, MovesOn
<1>8. CASE SocketWrite
  <2>1. w.net.shut = "no"
    BY <1>6 DEF Moves, Move, Ends
  <2>2. s' = NotifyConsumer(w, "out", "ok")
    BY <1>3, <1>8, <2>1 DEF SocketWrite, t
  <2> HIDE DEF w
  <2>3. Moves(s, NotifyConsumer(w, "out", "ok"), h)
    BY <1>4, <1>6, NotifyConsumerMoves DEF Moves
  <2>4. QED
    BY <1>1, <2>2, <2>3, MovesOn
<1>9. QED
  BY <1>7, <1>8

-----------------------------------------------------------------------------
(* From one data connection to the next *)

(* channel::clear(): nothing is left but events that are worth nothing.       *)
LEMMA ClosedMoves ==
  ASSUME NEW x, NEW g, Move(x, g), x.use # "closed", x.run.at = "idle"
  PROVE  Move(closed(x), g) /\ closed(x).use = "closed" /\ closed(x).sa.socket = FALSE
<1> DEFINE tos == {<<"channel", "done">>}
           w == Without(x, tos)
           a == clear(w, "out")
           b == clear(a, "in")
           c == close_socket(b)
           net == Fresh("closed").net
           local == Fresh("closed").local
           z == [c EXCEPT !.use = "closed", !.net = net, !.local = local, !.lost = 0]
<1>1. closed(x) = z /\ "in" \in Pipes /\ "out" \in Pipes
  BY DEF closed, Pipes
<1>2. /\ DOMAIN net = {"avail", "eof", "reset", "room", "sent", "shut"}
      /\ net.avail = <<>> /\ net.room \in Nat /\ net.shut = "no"
      /\ {"left", "nested", "postponed"} \subseteq DOMAIN local /\ local.left \in Nat
      /\ local.nested = "none" /\ ~local.postponed
  BY ChannelAssumption DEF Fresh
<1>3. PICK r \in Seq(MoveEvent) : Stay(x, g, tos, r)
  BY WithoutMoves
<1>4. /\ Move(w, g) /\ w.use = x.use /\ w.run = x.run
      /\ \A e \in Waiting(w) : e.to # <<"channel", "done">>
  <2>1. w = [x EXCEPT !.queue = r]
    BY <1>3 DEF Stay
  <2>2. /\ DOMAIN w = Fields /\ w.queue = r /\ w.use = x.use /\ w.pipe = x.pipe
        /\ w.sa = x.sa /\ w.net = x.net /\ w.local = x.local /\ w.run = x.run
    BY <2>1 DEF Move, Form, Fields
  <2> HIDE DEF w
  <2>3. Form(w) /\ Ends(w) /\ Count(w, g)
    BY <2>2 DEF Move, Form, Ends, Off, Count, Carrier
  <2>4. ASSUME NEW k \in DOMAIN r PROVE Worth(w, g, r[k]) /\ r[k].to # <<"session", "open">>
    <3>1. Worth(x, g, r[k]) /\ r[k].to # <<"session", "open">>
      BY <1>3 DEF Stay
    <3> DEFINE e == r[k]
    <3>2. \A p \in Pipes : /\ e.to = <<p, "adder">> => w.pipe[p].adder
                           /\ e.to = <<p, "consumer">> => w.pipe[p].consumer
                           /\ Off(x, p) => Off(w, p)
      BY <2>2, <3>1 DEF Worth, Off
    <3> HIDE DEF e
    <3>3. Worth(w, g, e)
      BY <2>2, <3>1, <3>2, WorthKept DEF e
    <3>4. QED
      BY <3>1, <3>3 DEF e
  <2>5. Events(w, g)
    BY <2>2, <2>4 DEF Events
  <2>6. \A e \in Waiting(w) : e.to # <<"channel", "done">>
    BY ZenonT(40), <1>3, <2>2 DEF Stay, Waiting
  <2>7. QED
    BY <2>2, <2>3, <2>5, <2>6 DEF Move
<1> HIDE DEF w, net, local
<1>5. Moves(w, a, g) /\ Fewer(w, a) /\ Off(a, "out") /\ a.pipe["out"].buf = <<>>
  BY <1>1, <1>4, ClearMoves
<1> HIDE DEF a
<1>6. Moves(a, b, g) /\ Fewer(a, b) /\ Off(b, "in") /\ b.pipe["in"].buf = <<>>
  BY <1>1, <1>5, ClearMoves DEF Moves
<1> HIDE DEF b
<1>7. /\ Move(b, g) /\ b.use # "closed" /\ b.run.at = "idle" /\ Waiting(b) \subseteq Waiting(w)
      /\ \A q \in Pipes : Off(b, q) /\ b.pipe[q].buf = <<>>
  BY <1>1, <1>4, <1>5, <1>6 DEF Moves, Fewer, Off, Pipes
<1>8. /\ Move(c, g) /\ c.sa.socket = FALSE /\ c.run = b.run /\ c.pipe = b.pipe
      /\ c.use # "closed" /\ Waiting(c) \subseteq Waiting(b)
  BY <1>7, CloseMoves
<1> HIDE DEF c
<1>9. /\ DOMAIN z = Fields /\ z.queue = c.queue /\ z.use = "closed" /\ z.pipe = c.pipe
      /\ z.sa = c.sa /\ z.net = net /\ z.local = local /\ z.run = c.run
  BY <1>8 DEF Move, Form, Fields
<1> HIDE DEF z
<1>10. Form(z)
  <2>1. net.avail \in Seq(Units)
    BY <1>2
  <2>2. QED
    BY <1>2, <1>8, <1>9, <2>1 DEF Move, Form
<1>11. Ends(z)
  BY <1>2, <1>7, <1>8, <1>9 DEF Move, Ends, Off
<1>12. Count(z, g)
  BY <1>7, <1>8, <1>9 DEF Move, Count, Off, Carrier, Pipes
<1>13. ASSUME NEW k \in DOMAIN c.queue
       PROVE  Worth(z, g, c.queue[k]) /\ c.queue[k].to # <<"session", "open">>
  <2> DEFINE e == c.queue[k]
  <2>1. Worth(c, g, e) /\ e.to # <<"channel", "done">>
    BY <1>4, <1>7, <1>8 DEF Move, Events, Waiting
  <2>2. \A q \in Pipes : /\ e.to # <<q, "adder">> /\ e.to # <<q, "consumer">>
                         /\ DoneWorth(z, g, q, e.err)
    BY <1>7, <1>8, <1>9, <2>1 DEF Worth, Off, DoneWorth
  <2>3. e.to = <<"socket", "write">> => e.err = "ok"
    BY <2>1 DEF Worth
  <2>4. e.to # <<"session", "open">>
    BY <1>8, <2>1 DEF Worth
  <2> HIDE DEF e
  <2>5. Worth(z, g, e)
    BY <2>1, <2>2, <2>3, <2>4 DEF Worth
  <2>6. QED
    BY <2>4, <2>5 DEF e
<1>14. Events(z, g)
  BY <1>8, <1>9, <1>13 DEF Move, Events
<1>15. QED
  BY <1>1, <1>8, <1>9, <1>10, <1>11, <1>12, <1>14 DEF Move

(* The channel is done, or its session closes it, which fails a transfer that *)
(* still runs.                                                                *)
LEMMA ClosesMoves ==
  ASSUME Moving, ChannelDone \/ Close PROVE Moving' /\ Proceeds
<1>1. CASE ChannelDone
  <2> DEFINE e == Head(s.queue)
             t == Taken
  <2>1. /\ s.queue # <<>> /\ s.run.at = "idle" /\ e.to = <<"channel", "done">>
        /\ s.use # "control" /\ h' = h
    BY <1>1 DEF ChannelDone, Dispatched, Moving, Move, Ends
  <2>2. s' = closed(t)
    BY <1>1, <2>1 DEF ChannelDone
  <2>3. Moves(s, t, h) /\ t.run = s.run /\ Worth(s, h, e)
    BY <2>1, TakenMoves
  <2>4. ~s.sa.socket /\ s.use # "closed"
    BY <2>1, <2>3 DEF Worth
  <2> HIDE DEF t
  <2>5. Move(s', h) /\ s'.sa.socket = FALSE
    BY <2>1, <2>2, <2>3, <2>4, ClosedMoves DEF Moves
  <2>6. QED
    BY <2>1, <2>4, <2>5 DEF Moving, Proceeds, SameEnds
<1>2. CASE Close
  <2>1. s' = closed(s) /\ s.use # "closed" /\ s.run.at = "idle" /\ h' = Reported("failed")
    BY <1>2 DEF Close
  <2>2. Move(s', h) /\ s'.sa.socket = FALSE
    BY <2>1, ClosedMoves DEF Moving
  <2>3. /\ DOMAIN h' = HistoryFields /\ h'.taken = h.taken /\ h'.given = h.given
        /\ h'.outcome = IF h.outcome = "running" THEN "failed" ELSE h.outcome
    BY <2>1 DEF Moving, HistoryFields, Reported
  <2>4. Move(s', h')
    BY <2>2, <2>3, SameHistory
  <2>5. QED
    BY <2>2, <2>3, <2>4 DEF Moving, Proceeds, SameEnds
<1>3. QED
  BY <1>1, <1>2

(* A data connection that is being set up: nobody has begun, and what is on   *)
(* its way are the first calls of consumers.                                  *)
Ready(x) ==
  /\ Form(x) /\ x.use \in {"download", "upload"}
  /\ ~x.sa.socket /\ ~x.sa.shutting /\ ~x.sa.throttled /\ x.net.shut = "no" /\ x.run.at = "idle"
  /\ \A p \in Pipes : /\ x.pipe[p].errA \in {"ok", "failed"} /\ x.pipe[p].errC # "nodata"
                      /\ x.pipe[p].buf = <<>>
  /\ x.use = "download" => ~x.pipe["in"].consumer
  /\ x.use = "upload" => ~x.pipe["out"].adder
  /\ x.local.nested = "none" /\ ~x.local.postponed /\ x.queue \in Seq(MoveEvent)
  /\ \A k \in DOMAIN x.queue :
       \E p \in Pipes : /\ x.queue[k].to = <<p, "consumer">> /\ x.queue[k].err = "ok"
                        /\ x.pipe[p].consumer

(* set_adder() of somebody.                                                   *)
LEMMA ReadyAdder ==
  ASSUME NEW x, Ready(x), NEW p \in Pipes, ~x.pipe[p].adder,
         p = "out" => x.use = "download"
  PROVE  LET y == set_adder(x, p, TRUE)
         IN /\ Ready(y) /\ y.use = x.use
            /\ \A q \in Pipes : /\ y.pipe[q].consumer = x.pipe[q].consumer
                                /\ q # p => y.pipe[q].adder = x.pipe[q].adder
<1> DEFINE y == [x EXCEPT !.pipe[p].adder = TRUE, !.pipe[p].errA = "ok",
                          !.pipe[p].waitA = TRUE /\ x.pipe[p].waitA]
<1>1. set_adder(x, p, TRUE) = y
  BY DEF set_adder
<1>2. /\ DOMAIN y = Fields /\ DOMAIN y.pipe = Pipes /\ y.queue = x.queue /\ y.use = x.use
      /\ y.sa = x.sa /\ y.net = x.net /\ y.local = x.local /\ y.run = x.run
  BY DEF Ready, Form, Fields
<1>3. \A q \in Pipes : DOMAIN y.pipe[q] = PipeFields /\ y.pipe[q].buf = x.pipe[q].buf
  BY DEF Ready, Form, Fields, PipeFields
<1>4. y.pipe[p].adder = TRUE /\ y.pipe[p].errA = "ok"
  BY DEF Ready, Form, Fields, PipeFields
<1>5. \A q \in Pipes : q # p => y.pipe[q] = x.pipe[q]
  BY DEF Ready, Form, Fields, PipeFields
<1>6. \A q \in Pipes : /\ y.pipe[q].consumer = x.pipe[q].consumer
                       /\ y.pipe[q].errC = x.pipe[q].errC
  BY DEF Ready, Form, Fields, PipeFields
<1> HIDE DEF y
<1>7. Form(y)
  BY ZenonT(40), <1>2, <1>3, <1>4, <1>5, <1>6 DEF Ready, Form
<1>8. Ready(y)
  BY <1>2, <1>3, <1>4, <1>5, <1>6, <1>7 DEF Ready, Pipes
<1>9. QED
  BY <1>1, <1>2, <1>5, <1>6, <1>8

(* set_consumer() of somebody, who is told at once.                           *)
LEMMA ReadyConsumer ==
  ASSUME NEW x, Ready(x), NEW p \in Pipes, ~x.pipe[p].consumer,
         p = "in" => x.use = "upload"
  PROVE  LET y == set_consumer(x, p, TRUE)
         IN /\ Ready(y) /\ y.use = x.use
            /\ \A q \in Pipes : /\ y.pipe[q].adder = x.pipe[q].adder
                                /\ q # p => y.pipe[q].consumer = x.pipe[q].consumer
<1> DEFINE y == [x EXCEPT !.pipe[p].consumer = TRUE, !.pipe[p].errC = "ok",
                          !.pipe[p].waitC = TRUE]
           e == [to |-> <<p, "consumer">>, err |-> "ok"]
           r == Append(x.queue, e)
           z == [y EXCEPT !.queue = r]
<1>1. set_consumer(x, p, TRUE) = NotifyConsumer(y, p, "ok")
  BY DEF set_consumer
<1>2. /\ DOMAIN y = Fields /\ DOMAIN y.pipe = Pipes /\ y.queue = x.queue /\ y.use = x.use
      /\ y.sa = x.sa /\ y.net = x.net /\ y.local = x.local /\ y.run = x.run
  BY DEF Ready, Form, Fields
<1>3. \A q \in Pipes : DOMAIN y.pipe[q] = PipeFields /\ y.pipe[q].buf = x.pipe[q].buf
  BY DEF Ready, Form, Fields, PipeFields
<1>4. y.pipe[p].consumer = TRUE /\ y.pipe[p].errC = "ok"
  BY DEF Ready, Form, Fields, PipeFields
<1>5. \A q \in Pipes : q # p => y.pipe[q] = x.pipe[q]
  BY DEF Ready, Form, Fields, PipeFields
<1>6. \A q \in Pipes : /\ y.pipe[q].adder = x.pipe[q].adder
                       /\ y.pipe[q].errA = x.pipe[q].errA
  BY DEF Ready, Form, Fields, PipeFields
<1> HIDE DEF y
<1>7. NotifyConsumer(y, p, "ok") = z
  BY <1>2, <1>4 DEF NotifyConsumer, Post
<1>8. e \in MoveEvent /\ e.to = <<p, "consumer">> /\ e.err = "ok"
  BY DEF MoveEvent, MoveTo, Operators
<1> HIDE DEF e
<1>9. /\ r \in Seq(MoveEvent)
      /\ \A k \in DOMAIN r : (k \in DOMAIN x.queue /\ r[k] = x.queue[k]) \/ r[k] = e
  BY <1>8 DEF Ready
<1> HIDE DEF r
<1>10. /\ DOMAIN z = Fields /\ z.queue = r /\ z.use = y.use /\ z.pipe = y.pipe
       /\ z.sa = y.sa /\ z.net = y.net /\ z.local = y.local /\ z.run = y.run
  BY <1>2 DEF Fields
<1> HIDE DEF z
<1>11. Form(z)
  <2>1. Form(y)
    BY ZenonT(40), <1>2, <1>3, <1>4, <1>5, <1>6 DEF Ready, Form
  <2>2. QED
    BY <1>10, <2>1 DEF Form
<1>12. ASSUME NEW k \in DOMAIN r
       PROVE  \E q \in Pipes : /\ r[k].to = <<q, "consumer">> /\ r[k].err = "ok"
                               /\ y.pipe[q].consumer
  <2>1. CASE r[k] = e
    BY <1>4, <1>8, <2>1
  <2>2. CASE k \in DOMAIN x.queue /\ r[k] = x.queue[k]
    <3>1. PICK q \in Pipes : /\ r[k].to = <<q, "consumer">> /\ r[k].err = "ok"
                             /\ x.pipe[q].consumer
      BY <2>2 DEF Ready
    <3>2. y.pipe[q].consumer
      BY <1>4, <1>5, <3>1
    <3>3. QED
      BY <3>1, <3>2
  <2>3. QED
    BY <1>9, <2>1, <2>2
<1>13. Ready(z)
  BY <1>2, <1>3, <1>4, <1>5, <1>6, <1>9, <1>10, <1>11, <1>12 DEF Ready, Pipes
<1>14. QED
  BY ZenonT(40), <1>1, <1>2, <1>5, <1>6, <1>7, <1>10, <1>13

(* set_socket(): the transfer can begin.                                      *)
LEMMA SetSocketMoves ==
  ASSUME NEW x, NEW g, Ready(x), ~x.pipe["in"].adder, ~x.pipe["out"].consumer,
         g.taken = 0, g.given = 0
  PROVE  LET z == set_socket(x)
         IN Move(z, g) /\ z.use = x.use /\ z.sa.socket = TRUE
<1> DEFINE v == set_adder(x, "in", TRUE)
           y == set_consumer(v, "out", TRUE)
           z == [y EXCEPT !.sa.socket = TRUE, !.sa.waitR = TRUE, !.sa.waitW = TRUE]
<1>1. set_socket(x) = z
  BY DEF set_socket
<1>2. /\ "in" \in Pipes /\ "out" \in Pipes
      /\ ~("in" = "out")
  BY DEF Pipes
<1>3. /\ Ready(v) /\ v.use = x.use
      /\ \A q \in Pipes : v.pipe[q].consumer = x.pipe[q].consumer
  BY <1>2, ReadyAdder
<1> HIDE DEF v
<1>4. Ready(y) /\ y.use = x.use
  BY <1>2, <1>3, ReadyConsumer
<1> HIDE DEF y
<1>5. /\ DOMAIN z = Fields /\ z.queue = y.queue /\ z.use = y.use /\ z.pipe = y.pipe
      /\ z.net = y.net /\ z.local = y.local /\ z.run = y.run
  BY <1>4 DEF Ready, Form, Fields
<1>6. /\ DOMAIN z.sa = DOMAIN y.sa /\ z.sa.socket = TRUE /\ z.sa.shutting = y.sa.shutting
      /\ z.sa.throttled = y.sa.throttled
  BY <1>4 DEF Ready, Form, Fields
<1> HIDE DEF z
<1>7. Form(z)
  BY ZenonT(40), <1>4, <1>5, <1>6 DEF Ready, Form
<1>8. Ends(z)
  BY <1>4, <1>5, <1>6 DEF Ready, Ends
<1>9. Count(z, g)
  <2>1. z.pipe[Carrier(z)].buf = <<>> /\ Len(<<>>) = 0
    BY <1>2, <1>4, <1>5 DEF Ready, Carrier
  <2>2. QED
    BY <2>1 DEF Count
<1>10. ASSUME NEW k \in DOMAIN z.queue
       PROVE  Worth(z, g, z.queue[k]) /\ z.queue[k].to # <<"session", "open">>
  <2> DEFINE e == z.queue[k]
  <2>1. PICK p \in Pipes : e.to = <<p, "consumer">> /\ e.err = "ok" /\ z.pipe[p].consumer
    BY <1>4, <1>5 DEF Ready
  <2> HIDE DEF e
  <2>2. Worth(z, g, e) /\ e.to # <<"session", "open">>
    BY <2>1 DEF Worth, Pipes
  <2>3. QED
    BY <2>2 DEF e
<1>11. Events(z, g)
  BY <1>4, <1>5, <1>10 DEF Ready, Events
<1>12. QED
  BY <1>1, <1>4, <1>5, <1>6, <1>7, <1>8, <1>9, <1>11 DEF Move

(* A data connection is set up, and nobody is there yet.                      *)
LEMMA SetUpMoves ==
  ASSUME NEW x, NEW g, Ready(x), \A p \in Pipes : Off(x, p), g.taken = 0, g.given = 0
  PROVE  LET z == SetUp(x)
         IN Move(z, g) /\ z.use = x.use /\ z.sa.socket = TRUE
<1> DEFINE a == set_adder(x, "out", x.use = "download")
           b == set_consumer(a, "in", x.use = "upload")
<1>1. SetUp(x) = set_socket(b) /\ x.use \in {"download", "upload"}
  BY DEF SetUp, Ready
<1>2. /\ "in" \in Pipes /\ "out" \in Pipes
      /\ ~("in" = "out")
  BY DEF Pipes
<1>3. /\ ~x.pipe["in"].adder /\ ~x.pipe["out"].adder
      /\ ~x.pipe["in"].consumer /\ ~x.pipe["out"].consumer
  BY <1>2 DEF Off
<1>4. \A p \in Pipes : x.pipe[p].adder \in BOOLEAN /\ x.pipe[p].consumer \in BOOLEAN
  BY DEF Ready, Form
<1>5. /\ Ready(b) /\ b.use = x.use /\ ~b.pipe["in"].adder /\ ~b.pipe["out"].consumer
  <2>1. CASE x.use = "download"
    <3> DEFINE c == set_adder(x, "out", TRUE)
    <3>1. a = c
      BY <2>1
    <3>2. /\ Ready(c) /\ c.use = x.use
          /\ \A q \in Pipes : /\ c.pipe[q].consumer = x.pipe[q].consumer
                              /\ q # "out" => c.pipe[q].adder = x.pipe[q].adder
      BY <1>2, <1>3, <2>1, ReadyAdder
    <3> HIDE DEF a, c
    <3>3. a.pipe["in"].consumer = FALSE
      BY <1>2, <1>3, <1>4, <3>1, <3>2
    <3>4. b = a
      BY <2>1, <3>3 DEF set_consumer
    <3> HIDE DEF b
    <3>5. QED
      BY <1>2, <1>3, <3>1, <3>2, <3>4
  <2>2. CASE x.use = "upload"
    <3> DEFINE c == set_consumer(x, "in", TRUE)
    <3>1. a = x
      BY <1>2, <1>3, <1>4, <2>2 DEF set_adder
    <3> HIDE DEF a
    <3>2. b = c
      BY <2>2, <3>1
    <3>3. /\ Ready(c) /\ c.use = x.use
          /\ \A q \in Pipes : /\ c.pipe[q].adder = x.pipe[q].adder
                              /\ q # "in" => c.pipe[q].consumer = x.pipe[q].consumer
      BY <1>2, <1>3, <2>2, ReadyConsumer
    <3> HIDE DEF b, c
    <3>4. QED
      BY <1>2, <1>3, <3>2, <3>3
  <2>3. QED
    BY <1>1, <2>1, <2>2
<1> HIDE DEF b
<1>6. QED
  BY <1>1, <1>5, SetSocketMoves

(* The next data connection begins where the one before has left nothing.     *)
LEMMA OpenMoves ==
  ASSUME Moving, NEW use \in Uses \ {"control"}, Open(use) PROVE Moving' /\ Proceeds
<1> DEFINE e == Head(s.queue)
           t == Taken
           x == [t EXCEPT !.use = use, !.transfer = t.transfer + 1]
<1>1. /\ s.queue # <<>> /\ s.run.at = "idle" /\ e.to = <<"session", "open">>
      /\ s' = SetUp(x)
      /\ h' = [h EXCEPT !.outcome = "running", !.taken = 0, !.given = 0]
  BY DEF Open, Dispatched
<1>2. /\ Moves(s, t, h) /\ t.run = s.run /\ Worth(s, h, e) /\ t.queue = <<>>
  BY <1>1, TakenMoves
<1>3. Move(t, h) /\ t.use = "closed" /\ ~t.sa.socket /\ h.outcome # "running"
  BY <1>1, <1>2 DEF Moves, Worth, Move, Ends, Moving
<1>4. use \in {"download", "upload"}
  BY ChannelAssumption
<1> HIDE DEF t
<1>5. /\ DOMAIN x = Fields /\ x.queue = t.queue /\ x.use = use /\ x.pipe = t.pipe
      /\ x.sa = t.sa /\ x.net = t.net /\ x.local = t.local /\ x.run = t.run
  BY <1>3 DEF Move, Form, Fields
<1> HIDE DEF x
<1>6. \A p \in Pipes : Off(t, p) /\ Off(x, p)
  BY <1>3, <1>5 DEF Move, Ends, Off
<1>7. Form(x)
  BY <1>3, <1>5 DEF Move, Form
<1>8. Ready(x)
  <2>1. "in" \in Pipes /\ "out" \in Pipes
    BY DEF Pipes
  <2>2. x.queue \in Seq(MoveEvent) /\ DOMAIN x.queue = {}
    BY <1>2, <1>5
  <2>3. QED
    BY <1>1, <1>2, <1>3, <1>4, <1>5, <1>6, <1>7, <2>1, <2>2 DEF Ready, Move, Ends, Off
<1>9. /\ DOMAIN h' = HistoryFields /\ h'.outcome = "running" /\ h'.taken = 0 /\ h'.given = 0
  BY <1>1 DEF Moving, HistoryFields
<1>10. Move(s', h') /\ s'.sa.socket = TRUE
  BY <1>1, <1>6, <1>8, <1>9, SetUpMoves
<1>11. QED
  BY <1>3, <1>9, <1>10 DEF Moving, Proceeds

-----------------------------------------------------------------------------
(* What others do to a data connection *)

(* The client does something: what is worth something stays so as long as a   *)
(* source that has nothing left does not get anything.                        *)
LEMMA NetMoves ==
  ASSUME Moving, SameCount(h'), NEW net, s' = [s EXCEPT !.net = net],
         DOMAIN net = DOMAIN s.net, net.avail \in Seq(Units), net.room \in Nat, net.shut = "no",
         Exhausted(s) => Exhausted(s')
  PROVE  Moving' /\ Proceeds
<1> DEFINE x == s
           y == s'
<1>1. /\ DOMAIN y = Fields /\ y.queue = x.queue /\ y.use = x.use /\ y.pipe = x.pipe
      /\ y.sa = x.sa /\ y.net = net /\ y.local = x.local /\ y.run = x.run
  BY DEF Moving, Move, Form, Fields
<1>2. Move(x, h) /\ (Exhausted(x) => Exhausted(y)) /\ DOMAIN net = DOMAIN x.net
  BY DEF Moving
<1>3. /\ h'.outcome = h.outcome /\ h'.taken = h.taken /\ h'.given = h.given
      /\ DOMAIN h' = HistoryFields
  BY DEF SameCount
<1> HIDE DEF x, y
<1>4. Form(y) /\ Ends(y) /\ Count(y, h)
  BY <1>1, <1>2 DEF Move, Form, Ends, Off, Count, Carrier
<1>5. ASSUME NEW k \in DOMAIN x.queue PROVE Worth(y, h, x.queue[k])
  <2> DEFINE e == x.queue[k]
  <2>1. Worth(x, h, e)
    BY <1>2 DEF Move, Events
  <2> HIDE DEF e
  <2>2. Carrier(y) = Carrier(x) /\ \A q \in Pipes : Off(x, q) => Off(y, q)
    BY <1>1 DEF Carrier, Off
  <2>3. \A q \in Pipes : DoneWorth(x, h, q, e.err) => DoneWorth(y, h, q, e.err)
    BY <1>1, <1>2, <2>2 DEF DoneWorth
  <2>4. Worth(y, h, e)
    BY <1>1, <2>1, <2>3 DEF Worth
  <2>5. QED
    BY <2>4 DEF e
<1>6. Events(y, h)
  BY <1>1, <1>2, <1>5 DEF Move, Events
<1>7. Move(y, h')
  BY <1>3, <1>4, <1>6, SameHistory DEF Move
<1>8. Moving'
  BY <1>1, <1>3, <1>7 DEF Moving, x, y
<1>9. Proceeds
  BY <1>2, <1>3 DEF Proceeds, SameEnds, x, y
<1>10. QED
  BY <1>8, <1>9

(* The client sends, reads, closes and resets.                                *)
LEMMA ClientMoves ==
  ASSUME Moving,
         \/ \E u \in Units : ClientSends(u)
         \/ ClientReads \/ ClientCloses \/ ClientResets
  PROVE  Moving' /\ Proceeds
<1> DEFINE net == s.net
<1>1. /\ DOMAIN net = {"avail", "eof", "reset", "room", "sent", "shut"}
      /\ net.avail \in Seq(Units) /\ net.room \in Nat /\ net.shut = "no"
      /\ DOMAIN s = Fields /\ Room \in Nat
  BY ChannelAssumption DEF Moving, Move, Form, Ends
<1>2. SameCount(h) /\ \A c : SameCount([h EXCEPT !.calm = c])
  BY DEF Moving, SameCount, HistoryFields
<1>3. CASE \E u \in Units : ClientSends(u)
  <2>1. PICK u \in Units : ClientSends(u)
    BY <1>3
  <2> DEFINE a == Append(net.avail, u)
             m == net.sent + 1
             n == [net EXCEPT !.avail = a, !.sent = m]
  <2>2. s' = [s EXCEPT !.net = n] /\ SameCount(h') /\ ~net.eof
    BY <1>1, <1>2, <2>1, Zenon DEF ClientSends, Fields
  <2>3. a \in Seq(Units)
    BY <1>1
  <2> HIDE DEF a, m
  <2>4. /\ DOMAIN n = DOMAIN net /\ n.avail \in Seq(Units) /\ n.room \in Nat /\ n.shut = "no"
        /\ n.eof = net.eof
    BY <1>1, <2>3
  <2> HIDE DEF n
  <2>5. s'.use = s.use /\ s'.local = s.local /\ s'.net = n
    BY <1>1, <2>2 DEF Fields
  <2>6. Exhausted(s) => Exhausted(s')
    BY <2>2, <2>5 DEF Exhausted
  <2>7. QED
    BY <2>2, <2>4, <2>6, NetMoves
<1>4. CASE ClientReads \/ ClientCloses \/ ClientResets
  <2>1. PICK n \in {[net EXCEPT !.room = Room], [net EXCEPT !.eof = TRUE],
                    [net EXCEPT !.reset = TRUE]} : s' = [s EXCEPT !.net = n]
    BY <1>1, <1>4 DEF ClientReads, ClientCloses, ClientResets, Fields
  <2>2. SameCount(h')
    BY <1>2, <1>4 DEF ClientReads, ClientCloses, ClientResets
  <2>3. /\ DOMAIN n = DOMAIN net /\ n.avail = net.avail /\ n.room \in Nat /\ n.shut = "no"
        /\ net.eof => n.eof
    BY <1>1, <2>1
  <2>4. s'.use = s.use /\ s'.local = s.local /\ s'.net = n
    BY <1>1, <2>1 DEF Fields
  <2>5. Exhausted(s) => Exhausted(s')
    BY <2>3, <2>4 DEF Exhausted
  <2>6. QED
    BY <1>1, <2>1, <2>2, <2>3, <2>5, NetMoves
<1>5. QED
  BY <1>3, <1>4

(* The socket says that it can go on.                                         *)
LEMMA BecomesMoves ==
  ASSUME Moving, BecomesReadable \/ BecomesWritable PROVE Moving' /\ Proceeds
<1>1. Move(s, h) /\ s.sa.socket /\ s.use # "closed" /\ s.net.shut = "no" /\ h' = h
  BY DEF Moving, Move, Ends, BecomesReadable, BecomesWritable
<1>2. PICK to \in {<<"socket", "read">>, <<"socket", "write">>}, err \in {"ok", "failed"} :
        s' = Post(s, to, err) /\ (to = <<"socket", "write">> => err = "ok")
  BY DEF BecomesReadable, BecomesWritable
<1> DEFINE e == [to |-> to, err |-> err]
<1>3. /\ to \in MoveTo /\ to # <<"session", "open">>
      /\ \A q \in Pipes : to # <<q, "adder">> /\ to # <<q, "consumer">> /\ to # <<q, "done">>
      /\ to # <<"channel", "done">> /\ e.to = to /\ e.err = err
  BY <1>2 DEF MoveTo, Pipes
<1>4. Worth(s, h, e)
  BY <1>2, <1>3 DEF Worth
<1> HIDE DEF e
<1>5. Moves(s, Post(s, to, err), h)
  BY <1>1, <1>2, <1>3, <1>4, PostMoves DEF e
<1>6. QED
  BY <1>1, <1>2, <1>5, MovesOn

(* The next connection is announced behind everything of the last one.        *)
LEMMA ConnectsMoves == ASSUME Moving, Connects PROVE Moving' /\ Proceeds
<1> DEFINE to == <<"session", "open">>
           e == [to |-> to, err |-> "ok"]
           q == s.queue
           r == Append(q, e)
           y == [s EXCEPT !.queue = r]
<1>1. s.use = "closed" /\ ~Queued(s, to) /\ s' = Post(s, to, "ok") /\ h' = h /\ Move(s, h)
  BY DEF Connects, Once, Moving
<1>2. s' = y
  BY <1>1 DEF Post
<1>3. e \in MoveEvent /\ e.to = to
  BY DEF MoveEvent, MoveTo
<1>4. q \in Seq(MoveEvent) /\ \A k \in DOMAIN q : Worth(s, h, q[k]) /\ q[k].to # to
  BY <1>1 DEF Move, Events, Queued
<1>5. /\ r \in Seq(MoveEvent)
      /\ \A k \in DOMAIN r : (k \in DOMAIN q /\ r[k] = q[k]) \/ (k = Len(r) /\ r[k] = e)
  BY <1>3, <1>4
<1>6. Worth(s, h, e)
  BY <1>1, <1>3 DEF Worth, Pipes
<1> HIDE DEF e, r
<1>7. /\ DOMAIN y = Fields /\ y.queue = r /\ y.use = s.use /\ y.pipe = s.pipe
      /\ y.sa = s.sa /\ y.net = s.net /\ y.local = s.local /\ y.run = s.run
  BY <1>1 DEF Move, Form, Fields
<1> HIDE DEF y
<1>8. Form(y) /\ Ends(y) /\ Count(y, h)
  BY <1>1, <1>7 DEF Move, Form, Ends, Off, Count, Carrier
<1>9. ASSUME NEW k \in DOMAIN r PROVE Worth(y, h, r[k])
  <2>1. Worth(s, h, r[k])
    BY <1>4, <1>5, <1>6
  <2> DEFINE d == r[k]
  <2>2. \A p \in Pipes : /\ d.to = <<p, "adder">> => y.pipe[p].adder
                         /\ d.to = <<p, "consumer">> => y.pipe[p].consumer
                         /\ Off(s, p) => Off(y, p)
    BY <1>7, <2>1 DEF Worth, Off
  <2> HIDE DEF d
  <2>3. Worth(y, h, d)
    BY <1>7, <2>1, <2>2, WorthKept DEF d
  <2>4. QED
    BY <2>3 DEF d
<1>10. \A k \in DOMAIN r : r[k].to = to => k = Len(r)
  BY <1>4, <1>5
<1>11. Events(y, h)
  BY <1>5, <1>7, <1>9, <1>10 DEF Events
<1>12. Moves(s, s', h)
  BY <1>1, <1>2, <1>7, <1>8, <1>11 DEF Move, Moves
<1>13. QED
  BY <1>1, <1>12, MovesOn

(* Every step of a data connection is one of a transfer.                      *)
LEMMA MovingGoesOn == ASSUME Moving, Next PROVE Moving' /\ Proceeds
<1>1. s.use \in {"download", "upload", "closed"}
  BY DEF Moving, Move, Ends
<1>2. CASE AddStep \/ ConsumeStep
  BY <1>2, AddMoves, ConsumeMoves
<1>3. CASE \E p \in Pipes : AdderEvent(p) \/ ConsumerEvent(p) \/ PipeDone(p)
  BY <1>3, OperatorMoves, PipeDoneMoves
<1>4. CASE SocketRead \/ SocketWrite
  BY <1>4, SocketMoves
<1>5. CASE ChannelDone \/ Close
  BY <1>5, ClosesMoves
<1>6. CASE \E use \in Uses \ {"control"} : Open(use)
  BY <1>6, OpenMoves
<1>7. CASE (\E u \in Units : ClientSends(u)) \/ ClientReads \/ ClientCloses \/ ClientResets
  BY <1>7, ClientMoves
<1>8. CASE BecomesReadable \/ BecomesWritable
  BY <1>8, BecomesMoves
<1>9. CASE Connects
  BY <1>9, ConnectsMoves
<1>10. ~ShutdownEvent /\ ~CommandEnds /\ ~EntriesArrive /\ ~Timeout
  <2>1. s.queue # <<>> => Head(s.queue).to \in MoveTo
    BY TakenMoves DEF MoveEvent
  <2>2. /\ <<"socket", "shutdown">> \notin MoveTo /\ <<"commander", "result">> \notin MoveTo
        /\ <<"lister", "entries">> \notin MoveTo /\ <<"commander", "timer">> \notin MoveTo
    BY DEF MoveTo, Operators, Pipes
  <2>3. QED
    BY <2>1, <2>2 DEF ShutdownEvent, CommandEnds, EntriesArrive, Timeout, Dispatched
<1>11. ~WorkIsDone /\ ~EntriesAreRead /\ ~TimerExpires
  BY <1>1 DEF WorkIsDone, EntriesAreRead, TimerExpires
<1>12. QED
  BY <1>2, <1>3, <1>4, <1>5, <1>6, <1>7, <1>8, <1>9, <1>10, <1>11 DEF Next, Loop

-----------------------------------------------------------------------------
(* A data connection is a transfer *)

(* A channel begins as a control connection that speaks, or as a data         *)
(* connection.                                                                *)
LEMMA Begins == ASSUME Init PROVE Moving \/ Speaking
<1>1. PICK use \in Uses :
        /\ s = SetUp(Fresh(use))
        /\ h = [outcome |-> IF use = "control" THEN "idle" ELSE "running",
                taken |-> 0, given |-> 0, calm |-> TRUE]
  BY DEF Init
<1> DEFINE x == Fresh(use)
<1>2. /\ DOMAIN x = Fields /\ x.use = use /\ x.queue = <<>> /\ x.pipe = [p \in Pipes |-> EmptyPipe]
      /\ x.run = [at |-> "idle", pipe |-> "in", loop |-> 0]
      /\ x.sa = [socket |-> FALSE, waitR |-> FALSE, waitW |-> FALSE, throttled |-> FALSE,
                 shutting |-> FALSE, shutErr |-> "ok"]
      /\ x.net = [avail |-> <<>>, eof |-> FALSE, reset |-> FALSE, room |-> Room, sent |-> 0,
                  shut |-> "no"]
      /\ DOMAIN x.local = {"sent", "busy", "postponed", "quit", "nested", "entries", "left"}
      /\ x.local.left = FileSize /\ x.local.nested = "none" /\ ~x.local.postponed
  BY DEF Fresh, Fields
<1>3. h.taken = 0 /\ h.given = 0 /\ DOMAIN h = HistoryFields
  BY <1>1 DEF HistoryFields
<1>4. "in" \in Pipes /\ "out" \in Pipes
  BY DEF Pipes
<1>5. \A p \in Pipes : /\ DOMAIN x.pipe[p] = PipeFields /\ x.pipe[p].buf = <<>>
                       /\ x.pipe[p].adder = FALSE /\ x.pipe[p].consumer = FALSE
                       /\ x.pipe[p].errA = "ok" /\ x.pipe[p].errC = "ok"
  BY <1>2 DEF EmptyPipe, PipeFields
<1>6. CASE use = "control"
  <2> DEFINE a == set_adder(x, "in", TRUE)
             b == set_consumer(a, "out", TRUE)
             c == [b EXCEPT !.sa.socket = TRUE, !.sa.waitR = TRUE, !.sa.waitW = TRUE]
             d == set_adder(c, "out", TRUE)
             e == set_consumer(d, "in", TRUE)
             z == respond(e)
  <2>1. SetUp(x) = z
    BY <1>2, <1>6 DEF SetUp, set_socket
  <2> HIDE DEF x
  <2>2. Talk(x) /\ x.use = "control"
    BY <1>2, <1>4, <1>5, <1>6 DEF Talk, Shape, Errors
  <2>3. Talks(x, a)
    BY <1>4, <2>2, SetAdderTalks
  <2> HIDE DEF a
  <2>4. Talks(x, b)
    BY <1>4, <2>3, SetConsumerTalks DEF Talks
  <2> HIDE DEF b
  <2>5. Talks(x, c)
    BY <2>4 DEF Talks, Talk, Shape, Fields
  <2> HIDE DEF c
  <2>6. Talks(x, d)
    BY <1>4, <2>5, SetAdderTalks DEF Talks
  <2> HIDE DEF d
  <2>7. Talks(x, e)
    BY <1>4, <2>6, SetConsumerTalks DEF Talks
  <2> HIDE DEF e
  <2>8. Talks(x, z)
    BY <2>7, RespondTalks DEF Talks
  <2> HIDE DEF z
  <2>9. s = z /\ h.outcome = "idle"
    BY <1>1, <1>6, <2>1 DEF x
  <2>10. QED
    BY <1>3, <2>2, <2>8, <2>9 DEF Talks, Speaking
<1>7. CASE use # "control"
  <2>1. use \in {"download", "upload"} /\ FileSize \in Nat /\ Room \in Nat
    BY <1>7, ChannelAssumption
  <2>2. s = SetUp(x) /\ h.outcome = "running"
    BY <1>1, <1>7
  <2> HIDE DEF x
  <2>3. Form(x)
    <3>1. DOMAIN x.run = {"at", "pipe", "loop"} /\ x.run.pipe \in Pipes
      BY <1>2, <1>4
    <3>2. /\ DOMAIN x.sa = {"socket", "waitR", "waitW", "throttled", "shutting", "shutErr"}
          /\ x.sa.socket \in BOOLEAN
      BY <1>2
    <3>3. /\ DOMAIN x.net = {"avail", "eof", "reset", "room", "sent", "shut"}
          /\ x.net.avail \in Seq(Units) /\ x.net.room \in Nat
      BY <1>2, <2>1
    <3>4. {"left", "nested", "postponed"} \subseteq DOMAIN x.local /\ x.local.left \in Nat
      BY <1>2, <2>1
    <3>5. DOMAIN x.pipe = Pipes
      BY <1>2
    <3>6. \A p \in Pipes : /\ DOMAIN x.pipe[p] = PipeFields /\ x.pipe[p].buf \in Seq(Units)
                           /\ x.pipe[p].adder \in BOOLEAN /\ x.pipe[p].consumer \in BOOLEAN
      <4>1. <<>> \in Seq(Units) /\ FALSE \in BOOLEAN
        OBVIOUS
      <4>2. QED
        BY <1>5, <4>1
    <3>7. QED
      BY <1>2, <3>1, <3>2, <3>3, <3>4, <3>5, <3>6 DEF Form
  <2>4. x.queue \in Seq(MoveEvent) /\ DOMAIN x.queue = {}
    BY <1>2
  <2>5. Ready(x) /\ \A p \in Pipes : Off(x, p)
    BY <1>2, <1>4, <1>5, <2>1, <2>3, <2>4 DEF Ready, Off
  <2>6. Move(s, h) /\ s.sa.socket = TRUE
    BY <1>3, <2>2, <2>5, SetUpMoves
  <2>7. QED
    BY <1>3, <2>2, <2>6 DEF Moving
<1>8. QED
  BY <1>6, <1>7

(* The invariant: a data connection, or between two; a control connection; or *)
(* its end.                                                                   *)
IInv == Moving \/ Speaking \/ Hushed

(* The channel begins as a transfer may.                                      *)
LEMMA TransferBegins == ASSUME Init PROVE T!Init
<1>1. h.outcome \in {"idle", "running"} /\ h.taken = 0 /\ h.given = 0
  BY DEF Init
<1>2. Exhausted(s) \in BOOLEAN
  BY Begins DEF Exhausted, Moving, Speaking, Move, Ends, Form
<1>3. QED
  BY <1>1, <1>2 DEF T!Init, Exhausted

(* The invariant goes on, and each step is one of the transfer or none.       *)
LEMMA GoesOn == ASSUME IInv, Next PROVE IInv' /\ [T!Next]_(T!vars)
<1>1. CASE Moving
  <2>1. Moving' /\ Proceeds
    BY <1>1, MovingGoesOn
  <2>2. Exhausted(s') \in BOOLEAN
    BY <2>1 DEF Exhausted
  <2>3. [T!Next]_(T!vars)
    <3> DEFINE n == Exhausted(s)
               m == Exhausted(s')
    <3>1. CASE h.outcome # "running" /\ h'.outcome = "running" /\ h'.taken = 0 /\ h'.given = 0
      BY <2>2, <3>1 DEF T!Next, T!Begin, Exhausted
    <3>2. CASE /\ h.outcome = "running" /\ h'.outcome = "running"
               /\ ~Exhausted(s) /\ h'.taken > h.taken /\ h'.given = h.given
      BY <2>2, <3>2 DEF T!Next, T!Take, Exhausted
    <3>3. CASE h.outcome = "running" /\ h'.outcome = "running" /\ Exhausted(s') /\ SameEnds
      BY <3>3 DEF T!Next, T!RunDry, Exhausted, SameEnds
    <3>4. CASE /\ h.outcome = "running" /\ h'.outcome = "running"
               /\ Exhausted(s') <=> Exhausted(s)
               /\ h'.given > h.given /\ h'.given <= h.taken /\ h'.taken = h.taken
      BY <3>4 DEF T!Next, T!Give, Exhausted
    <3>5. CASE /\ h.outcome = "running" /\ h'.outcome = "ok"
               /\ Exhausted(s) /\ h.given = h.taken /\ SameEnds
      BY <2>2, <3>5 DEF T!Next, T!Succeed, Exhausted, SameEnds
    <3>6. CASE h.outcome = "running" /\ h'.outcome = "failed" /\ SameEnds
      BY <2>2, <3>6 DEF T!Next, T!Fail, Exhausted, SameEnds
    <3>7. CASE h.outcome # "running" /\ h'.outcome = h.outcome /\ SameEnds
      BY <2>2, <3>7 DEF T!Next, T!Late, Exhausted, SameEnds
    <3>8. CASE h'.outcome = h.outcome /\ SameEnds /\ (Exhausted(s') <=> Exhausted(s))
      BY <3>8 DEF T!vars, Exhausted, SameEnds
    <3>9. QED
      BY <2>1, <3>1, <3>2, <3>3, <3>4, <3>5, <3>6, <3>7, <3>8 DEF Proceeds
  <2>4. QED
    BY <2>1, <2>3 DEF IInv
<1>2. CASE Speaking
  <2>1. SameCount(h') /\ (Speaking' \/ Hushed')
    BY <1>2, SpeakingGoesOn
  <2>2. s.use = "control" /\ s'.use \in {"control", "over"}
    BY <1>2, <2>1 DEF Speaking, Hushed
  <2>3. UNCHANGED T!vars
    BY <2>1, <2>2 DEF T!vars, SameCount
  <2>4. QED
    BY <2>1, <2>3 DEF IInv
<1>3. CASE Hushed
  BY <1>3, HushedRests
<1>4. QED
  BY <1>1, <1>2, <1>3 DEF IInv

(* A data connection is a Transfer (channel.cpp and pipe.cpp as a session     *)
(* uses them): what is given was taken before, and a transfer is reported as  *)
(* successful only when its source has nothing left and everything it took    *)
(* was given, whatever the client, the disk and the session do meanwhile, and *)
(* however many transfers were before it.                                     *)
THEOREM DataIsTransferred == Spec => ImplementsTransfer
<1>1. Init => IInv /\ T!Init
  BY Begins, TransferBegins DEF IInv
<1>2. IInv /\ [Next]_vars => IInv' /\ [T!Next]_(T!vars)
  <2>1. CASE Next
    BY <2>1, GoesOn
  <2>2. CASE UNCHANGED vars
    <3>1. s' = s /\ h' = h
      BY <2>2 DEF vars
    <3>2. IInv => IInv'
      BY <3>1 DEF IInv, Moving, Speaking, Hushed
    <3>3. UNCHANGED T!vars
      BY <3>1 DEF T!vars
    <3>4. QED
      BY <3>2, <3>3
  <2>3. QED
    BY <2>1, <2>2
<1>3. QED
  BY <1>1, <1>2, PTL DEF Spec, ImplementsTransfer, T!Spec

-----------------------------------------------------------------------------
(* The lister is asked once *)

(* The events that decide it: a result, entries, and a call of the streamed   *)
(* adder.                                                                     *)
Result == <<"commander", "result">>
Listed == <<"lister", "entries">>
Called == <<"out", "adder">>

At(q, to) == {i \in DOMAIN q : q[i].to = to}

(* A command at work has one result; a lister that reads has one list on its  *)
(* way and nobody calls the adder meanwhile; one that does not read is called *)
(* at most once; and who calls the adder before a command is done is heard    *)
(* before its result.                                                         *)
Lined(q, nested, busy, listening, adder) ==
  /\ nested \in {"none", "idle", "reading"}
  /\ nested # "none" => busy
  /\ \A to \in {Result, Listed} : \A i, j \in At(q, to) : i = j
  /\ At(q, Result) # {} => nested = "none" /\ (busy \/ ~listening)
  /\ At(q, Listed) # {} => nested = "reading"
  /\ adder => /\ nested = "reading" => At(q, Called) = {}
              /\ nested = "idle" => \A i, j \in At(q, Called) : i = j
              /\ busy => \A i \in At(q, Result), j \in At(q, Called) : j < i

LocalFields == {"sent", "busy", "postponed", "quit", "nested", "entries", "left"}

Asked(x) ==
  /\ Talk(x) /\ DOMAIN x.local = LocalFields
  /\ Lined(x.queue, x.local.nested, x.local.busy, x.pipe["in"].consumer, x.pipe["out"].adder)

(* The adder waits to be called: it has been heard, or is the first to be     *)
(* heard when the session begins.                                             *)
First(q) ==
  \E j \in At(q, Called) :
    \A i \in DOMAIN q : i < j => q[i].to \in {<<p, "consumer">> : p \in Pipes}

Content(x) == x.pipe["out"].adder => x.pipe["out"].waitA

Calm(x) ==
  \/ Content(x)
  \/ First(x.queue) /\ x.local.nested = "none" /\ ~x.local.busy /\ x.pipe["in"].buf = <<>>

(* A turn of the adder's loop: at most three, and the lister is asked in the  *)
(* first one.                                                                 *)
Adding(x) ==
  x.pipe["out"].adder =>
    /\ x.run.loop \in 0..2 /\ x.local.nested # "reading"
    /\ x.run.loop > 0 => x.local.nested = "none"
    /\ x.run.loop = 2 => ~x.local.sent
    /\ x.local.nested = "idle" => At(x.queue, Called) = {}

Turn(x) ==
  IF x.run.at = "add"
  THEN IF x.run.pipe = "out" THEN Adding(x) ELSE Content(x)
  ELSE Calm(x)

Asking == s.use = "control" => Asked(s) /\ Turn(s)

(* The events of r come from q in the same order.                             *)
Among(q, r, f) ==
  /\ \A k \in DOMAIN r : f[k] \in DOMAIN q /\ q[f[k]] = r[k]
  /\ \A k, m \in DOMAIN r : k < m => f[k] < f[m]

(* And r has all of q but the events to tos.                                  *)
InOrder(q, tos, r, f) ==
  /\ Among(q, r, f)
  /\ \A i \in DOMAIN q : q[i].to \notin tos => \E k \in DOMAIN r : f[k] = i

(* So Without() keeps the order.                                              *)
LEMMA WithoutOrder ==
  ASSUME NEW x, Talk(x), NEW tos
  PROVE  \E r \in Seq(TalkEvent) : \E f :
           Without(x, tos) = [x EXCEPT !.queue = r] /\ InOrder(x.queue, tos, r, f)
<1> DEFINE q == x.queue
           n == Len(q)
           g == CHOOSE l : LeftOf(q, tos, n, l)
<1>1. n \in Nat /\ DOMAIN q = 1..n /\ \A i \in 1..n : q[i] \in TalkEvent
  BY DEF Talk
<1>2. LeftOf(q, tos, n, g)
  BY <1>1, LeftExists
<1>3. Without(x, tos) = [x EXCEPT !.queue = g[n]]
  BY DEF Without, LeftOf
<1> HIDE DEF q, n, g
<1>4. \A i \in 0..n : g[i] = IF i = 0 THEN <<>>
                              ELSE IF q[i].to \in tos THEN g[i - 1]
                              ELSE Append(g[i - 1], q[i])
  BY <1>2 DEF LeftOf
<1> DEFINE So(i, f) == /\ \A k \in DOMAIN g[i] : f[k] \in 1..i /\ q[f[k]] = g[i][k]
                       /\ \A k, m \in DOMAIN g[i] : k < m => f[k] < f[m]
                       /\ \A j \in 1..i : q[j].to \notin tos => \E k \in DOMAIN g[i] : f[k] = j
           P(i) == g[i] \in Seq(TalkEvent) /\ \E f : So(i, f)
           N == {i \in Nat : i <= n => P(i)}
<1>5. 0 \in N
  <2>1. g[0] = <<>>
    BY SMTT(30), <1>1, <1>4
  <2>2. <<>> \in Seq(TalkEvent) /\ DOMAIN <<>> = {}
    OBVIOUS
  <2>3. 1..0 = {}
    OBVIOUS
  <2>4. So(0, <<>>)
    BY <2>1, <2>2, <2>3
  <2>5. P(0)
    BY <2>1, <2>2, <2>4
  <2>6. QED
    BY <2>5
<1>6. ASSUME NEW i \in N PROVE i + 1 \in N
  <2> SUFFICES ASSUME i + 1 <= n PROVE P(i + 1)
    OBVIOUS
  <2>1. /\ i \in Nat /\ i + 1 \in 0..n /\ i + 1 \in 1..n /\ i + 1 # 0
        /\ (i + 1) - 1 = i
    BY <1>1
  <2>2. P(i)
    BY <1>1, <2>1
  <2>3. g[i + 1] = IF q[i + 1].to \in tos THEN g[i] ELSE Append(g[i], q[i + 1])
    BY <1>4, <2>1
  <2>4. PICK f : So(i, f)
    BY <2>2
  <2>5. \A j \in 1..(i + 1) : j \in 1..i \/ j = i + 1
    BY <2>1
  <2>6. \A j \in 1..i : j \in 1..(i + 1) /\ j < i + 1
    BY <2>1
  <2>7. CASE q[i + 1].to \in tos
    <3>1. g[i + 1] = g[i]
      BY <2>3, <2>7
    <3>2. \A k \in DOMAIN g[i] : f[k] \in 1..(i + 1) /\ q[f[k]] = g[i][k]
      BY <2>4, <2>6
    <3>3. \A j \in 1..(i + 1) : q[j].to \notin tos => \E k \in DOMAIN g[i] : f[k] = j
      BY <2>4, <2>5, <2>7
    <3>4. So(i + 1, f)
      BY <2>4, <3>1, <3>2, <3>3
    <3>5. QED
      BY <2>2, <3>1, <3>4
  <2>8. CASE q[i + 1].to \notin tos
    <3> DEFINE e == q[i + 1]
               m == Len(g[i])
               h1 == [k \in 1..(m + 1) |-> IF k = m + 1 THEN i + 1 ELSE f[k]]
    <3>1. e \in TalkEvent
      BY <1>1, <2>1
    <3>2. g[i + 1] = Append(g[i], e) /\ g[i] \in Seq(TalkEvent)
      BY <2>2, <2>3, <2>8
    <3>3. /\ g[i + 1] \in Seq(TalkEvent)
          /\ DOMAIN g[i + 1] = 1..(m + 1) /\ DOMAIN g[i] = 1..m /\ m \in Nat
          /\ \A k \in DOMAIN g[i] : g[i + 1][k] = g[i][k]
          /\ g[i + 1][m + 1] = e
      BY <3>1, <3>2
    <3>4. /\ \A k \in 1..m : h1[k] = f[k] /\ k \in 1..(m + 1) /\ k < m + 1
          /\ h1[m + 1] = i + 1 /\ m + 1 \in 1..(m + 1)
          /\ \A k \in 1..(m + 1) : k \in 1..m \/ k = m + 1
      BY <3>3
    <3> HIDE DEF h1, m
    <3>5. \A k \in DOMAIN g[i + 1] : h1[k] \in 1..(i + 1) /\ q[h1[k]] = g[i + 1][k]
      BY <2>1, <2>4, <2>6, <3>3, <3>4
    <3>6. \A k, l \in DOMAIN g[i + 1] : k < l => h1[k] < h1[l]
      <4> TAKE k, l \in DOMAIN g[i + 1]
      <4> HAVE k < l
      <4>1. k \in 1..m
        BY <3>3, <3>4
      <4>2. CASE l \in 1..m
        BY <2>4, <3>3, <3>4, <4>1, <4>2
      <4>3. CASE l = m + 1
        <5>1. h1[k] = f[k] /\ h1[l] = i + 1
          BY <3>4, <4>1, <4>3
        <5>2. f[k] \in 1..i
          BY <2>4, <3>3, <4>1
        <5>3. QED
          BY <2>6, <5>1, <5>2
      <4>4. QED
        BY <3>3, <3>4, <4>2, <4>3
    <3>7. \A j \in 1..(i + 1) : q[j].to \notin tos => \E k \in DOMAIN g[i + 1] : h1[k] = j
      <4> TAKE j \in 1..(i + 1)
      <4> HAVE q[j].to \notin tos
      <4>1. CASE j \in 1..i
        <5>1. PICK k \in DOMAIN g[i] : f[k] = j
          BY <2>4, <4>1
        <5>2. QED
          BY <3>3, <3>4, <5>1
      <4>2. CASE j = i + 1
        BY <3>3, <3>4, <4>2
      <4>3. QED
        BY <2>5, <4>1, <4>2
    <3>8. \E l : So(i + 1, l)
      BY <3>5, <3>6, <3>7
    <3> HIDE DEF So
    <3>9. QED
      BY <3>3, <3>8
  <2>9. QED
    BY <2>7, <2>8
<1>7. n \in N
  <2> HIDE DEF P
  <2>1. N \in SUBSET Nat
    OBVIOUS
  <2>2. N = Nat
    BY <1>5, <1>6, <2>1, AllNumbers
  <2>3. QED
    BY <1>1, <2>2
<1>8. P(n)
  BY <1>1, <1>7
<1>9. PICK f : So(n, f)
  BY <1>8
<1>10. InOrder(x.queue, tos, g[n], f)
  <2>1. x.queue = q /\ DOMAIN q = 1..n
    BY <1>1 DEF q
  <2>2. QED
    BY <1>9, <2>1 DEF InOrder, Among
<1>11. QED
  BY <1>3, <1>8, <1>10

(* Fewer events in the same order keep their order.                           *)
LEMMA InOrderLined ==
  ASSUME NEW q \in Seq(TalkEvent), NEW r \in Seq(TalkEvent), NEW f, Among(q, r, f),
         NEW n, NEW b, NEW l, NEW a, Lined(q, n, b, l, a)
  PROVE  Lined(r, n, b, l, a)
<1>1. \A to : \A k \in At(r, to) : k \in DOMAIN r /\ f[k] \in At(q, to)
  BY DEF At, Among
<1>2. DOMAIN q \subseteq Int /\ DOMAIN r \subseteq Int
  OBVIOUS
<1>3. \A k, m \in DOMAIN r : f[k] = f[m] => k = m
  <2> TAKE k, m \in DOMAIN r
  <2>1. (k < m => f[k] < f[m]) /\ (m < k => f[m] < f[k])
    BY DEF Among
  <2>2. k \in Int /\ m \in Int /\ f[k] \in Int /\ f[m] \in Int
    BY <1>2 DEF Among
  <2>3. QED
    BY <2>1, <2>2
<1>4. \A k, m \in DOMAIN r : f[k] < f[m] => k < m
  <2> TAKE k, m \in DOMAIN r
  <2>1. (m < k => f[m] < f[k])
    BY DEF Among
  <2>2. k \in Int /\ m \in Int /\ f[k] \in Int /\ f[m] \in Int
    BY <1>2 DEF Among
  <2>3. QED
    BY <2>1, <2>2
<1>5. \A to : (\A i, j \in At(q, to) : i = j) => (\A i, j \in At(r, to) : i = j)
  BY <1>1, <1>3
<1>6. \A to : At(q, to) = {} => At(r, to) = {}
  BY <1>1
<1>7. (\A i \in At(q, Result), j \in At(q, Called) : j < i)
        => (\A i \in At(r, Result), j \in At(r, Called) : j < i)
  BY <1>1, <1>4
<1>8. QED
  BY <1>5, <1>6, <1>7 DEF Lined

(* What comes first stays first as long as the adder is not taken off.        *)
LEMMA InOrderFirst ==
  ASSUME NEW q \in Seq(TalkEvent), NEW r \in Seq(TalkEvent), NEW tos, NEW f,
         InOrder(q, tos, r, f), Called \notin tos, First(q)
  PROVE  First(r)
<1>1. PICK j \in At(q, Called) :
        \A i \in DOMAIN q : i < j => q[i].to \in {<<p, "consumer">> : p \in Pipes}
  BY DEF First
<1>2. PICK k \in DOMAIN r : f[k] = j
  BY DEF At, InOrder
<1>3. k \in At(r, Called)
  BY <1>1, <1>2 DEF At, InOrder, Among
<1>4. ASSUME NEW i \in DOMAIN r, i < k
      PROVE  r[i].to \in {<<p, "consumer">> : p \in Pipes}
  <2>1. f[i] < j /\ f[i] \in DOMAIN q /\ q[f[i]] = r[i]
    BY <1>2, <1>4 DEF InOrder, Among
  <2>2. QED
    BY <1>1, <2>1
<1>5. QED
  BY <1>3, <1>4 DEF First

(* What a method leaves that has nothing to do with the lister.               *)
Asks(x, y) == Asked(y) /\ (Calm(x) => Calm(y)) /\ (Content(x) => Content(y))

(* Such a method may take operators off, and throw away what has come in.     *)
Unmoved(x, y) ==
  /\ DOMAIN y.local = DOMAIN x.local
  /\ y.local.nested = x.local.nested /\ y.local.busy = x.local.busy
  /\ y.pipe["in"].consumer \in {x.pipe["in"].consumer, FALSE}
  /\ y.pipe["out"].adder \in {x.pipe["out"].adder, FALSE}
  /\ y.pipe["out"].adder => y.pipe["out"].waitA = x.pipe["out"].waitA
  /\ y.pipe["in"].buf \in {x.pipe["in"].buf, <<>>}

(* An operator that goes asks for nothing.                                    *)
LEMMA LinedFewer ==
  ASSUME NEW q, NEW n, NEW b, NEW l, NEW a, Lined(q, n, b, l, a),
         NEW m \in {l, FALSE}, NEW d \in {a, FALSE}
  PROVE  Lined(q, n, b, m, d)
<1>1. Lined(q, n, b, m, a)
  <2>1. CASE m = l
    BY <2>1
  <2>2. CASE m = FALSE
    BY Zenon, <2>2 DEF Lined
  <2>3. QED
    BY <2>1, <2>2
<1>2. CASE d = a
  BY <1>1, <1>2
<1>3. CASE d = FALSE
  BY Zenon, <1>1, <1>3 DEF Lined
<1>4. QED
  BY <1>2, <1>3

(* As long as all operators that stay have what they had.                     *)
LEMMA UnmovedAsks ==
  ASSUME NEW x, Asked(x), NEW y, Talk(y), Unmoved(x, y), y.queue = x.queue
  PROVE  Asks(x, y)
<1>1. Lined(y.queue, y.local.nested, y.local.busy, y.pipe["in"].consumer, y.pipe["out"].adder)
  BY LinedFewer DEF Asked, Unmoved
<1>2. Asked(y)
  BY <1>1 DEF Asked, Unmoved
<1>3. QED
  BY <1>2 DEF Asks, Unmoved, Calm, Content

(* Where the events of one kind are when one more is sent.                    *)
LEMMA AtAppend ==
  ASSUME NEW q \in Seq(TalkEvent), NEW e \in TalkEvent
  PROVE  /\ \A to : At(Append(q, e), to) =
                      At(q, to) \cup (IF e.to = to THEN {Len(q) + 1} ELSE {})
         /\ \A to : At(q, to) \subseteq 1..Len(q)
<1>1. /\ DOMAIN Append(q, e) = 1..(Len(q) + 1) /\ DOMAIN q = 1..Len(q) /\ Len(q) \in Nat
      /\ \A i \in DOMAIN q : Append(q, e)[i] = q[i]
      /\ Append(q, e)[Len(q) + 1] = e
  OBVIOUS
<1> DEFINE r == Append(q, e)
           n == Len(q)
<1>2. \A i : i \in 1..(n + 1) <=> (i \in 1..n \/ i = n + 1)
  BY <1>1
<1> HIDE DEF r, n
<1>3. \A to : At(r, to) = At(q, to) \cup (IF e.to = to THEN {n + 1} ELSE {})
  BY <1>1, <1>2 DEF At, r, n
<1>4. QED
  BY <1>1, <1>3 DEF At, r, n

(* An event that has nothing to do with the lister is sent.                   *)
LEMMA PostAsks ==
  ASSUME NEW x, Asked(x), NEW to \in TalkTo \ {Result, Listed, Called}, NEW err \in Errors
  PROVE  Asks(x, Post(x, to, err))
<1> DEFINE e == [to |-> to, err |-> err]
           q == Append(x.queue, e)
           y == [x EXCEPT !.queue = q]
<1>1. e \in TalkEvent /\ e.to = to /\ x.queue \in Seq(TalkEvent)
  BY DEF TalkEvent, Asked, Talk
<1>2. Post(x, to, err) = y /\ Talk(y)
  BY PostTalks DEF Post, Talks, Asked
<1> HIDE DEF e
<1>3. \A t \in {Result, Listed, Called} : At(q, t) = At(x.queue, t)
  <2> TAKE t \in {Result, Listed, Called}
  <2>1. e.to # t
    BY <1>1
  <2>2. At(q, t) = At(x.queue, t) \cup {}
    BY <1>1, <2>1, AtAppend
  <2>3. QED
    BY <2>2
<1>4. First(x.queue) => First(q)
  <2>1. \A i \in DOMAIN x.queue : q[i] = x.queue[i]
    BY <1>1
  <2>2. \A i \in DOMAIN q, j \in DOMAIN x.queue : i < j => i \in DOMAIN x.queue
    BY <1>1
  <2>3. At(x.queue, Called) \subseteq DOMAIN x.queue
    BY DEF At
  <2> HIDE DEF q
  <2>4. QED
    BY <1>3, <2>1, <2>2, <2>3 DEF First
<1> HIDE DEF q
<1>5. /\ y.queue = q /\ y.local = x.local /\ y.pipe = x.pipe
  BY DEF Asked, Talk, Shape, Fields
<1> HIDE DEF y
<1>6. Asked(y)
  BY <1>2, <1>3, <1>5 DEF Asked, Lined
<1>7. QED
  BY <1>2, <1>4, <1>5, <1>6 DEF Asks, Calm, Content

(* Who is told that has nothing to do with the lister.                        *)
LEMMA NotifyAsks ==
  ASSUME NEW x, Asked(x), NEW err \in Errors
  PROVE  /\ Asks(x, NotifyAdder(x, "in", err))
         /\ \A p \in Pipes : Asks(x, NotifyConsumer(x, p, err))
<1>1. /\ <<"in", "adder">> \notin {Result, Listed, Called}
      /\ \A p \in Pipes : <<p, "consumer">> \notin {Result, Listed, Called}
  BY DEF Result, Listed, Called
<1>2. <<"in", "adder">> \in TalkTo /\ \A p \in Pipes : <<p, "consumer">> \in TalkTo
  BY ToFacts DEF Pipes
<1>3. /\ Asks(x, Post(x, <<"in", "adder">>, err))
      /\ \A p \in Pipes : Asks(x, Post(x, <<p, "consumer">>, err))
  BY <1>1, <1>2, PostAsks
<1>4. Asks(x, x)
  BY DEF Asks
<1>5. QED
  BY <1>3, <1>4 DEF NotifyAdder, NotifyConsumer

(* Events are taken back; the calls of the adder are only when it goes.       *)
LEMMA WithoutAsks ==
  ASSUME NEW x, Asked(x), NEW tos, NEW y, Talk(y), Unmoved(x, y),
         y.queue = Without(x, tos).queue, Called \notin tos \/ ~y.pipe["out"].adder
  PROVE  Asks(x, y)
<1>1. PICK r \in Seq(TalkEvent) : \E f :
         Without(x, tos) = [x EXCEPT !.queue = r] /\ InOrder(x.queue, tos, r, f)
  BY WithoutOrder DEF Asked
<1>2. y.queue = r /\ x.queue \in Seq(TalkEvent)
  BY <1>1 DEF Asked, Talk, Shape, Fields
<1>3. Lined(r, x.local.nested, x.local.busy, x.pipe["in"].consumer, x.pipe["out"].adder)
  BY <1>1, <1>2, InOrderLined DEF Asked, InOrder
<1>4. Lined(r, y.local.nested, y.local.busy, y.pipe["in"].consumer, y.pipe["out"].adder)
  BY <1>3, LinedFewer DEF Unmoved
<1>5. Asked(y)
  BY <1>2, <1>4 DEF Asked, Unmoved
<1>6. Called \notin tos /\ First(x.queue) => First(r)
  BY <1>1, <1>2, InOrderFirst
<1>7. QED
  BY <1>2, <1>5, <1>6 DEF Asks, Unmoved, Calm, Content

(* set_consumer(nullptr)                                                      *)
LEMMA SetConsumerAsks ==
  ASSUME NEW x, Asked(x), NEW p \in Pipes
  PROVE  Asks(x, set_consumer(x, p, FALSE)) /\ set_consumer(x, p, FALSE).run = x.run
<1>1. CASE x.pipe[p].consumer = FALSE
  BY <1>1 DEF set_consumer, Asks
<1>2. CASE x.pipe[p].consumer # FALSE
  <2> DEFINE tos == {<<p, "consumer">>}
  <2>1. PICK r \in Seq(TalkEvent) : Without(x, tos) = [x EXCEPT !.queue = r]
    BY WithoutOrder DEF Asked
  <2> DEFINE z == [[x EXCEPT !.queue = r]
                     EXCEPT !.pipe[p].consumer = FALSE, !.pipe[p].errC = "ok",
                            !.pipe[p].waitC = FALSE]
  <2>2. DOMAIN x = Fields /\ DOMAIN x.pipe = Pipes /\ \A q \in Pipes : DOMAIN x.pipe[q] = PipeFields
    BY DEF Asked, Talk, Shape
  <2>3. z.queue = r /\ z.local = x.local /\ z.run = x.run
    BY <2>2 DEF Fields
  <2>4. z.pipe[p].consumer = FALSE
    BY <2>2 DEF Fields, PipeFields
  <2>5. \A q \in Pipes : /\ z.pipe[q].adder = x.pipe[q].adder
                         /\ z.pipe[q].waitA = x.pipe[q].waitA
                         /\ z.pipe[q].buf = x.pipe[q].buf
                         /\ q # p => z.pipe[q] = x.pipe[q]
    BY <2>2 DEF Fields, PipeFields
  <2>6. set_consumer(x, p, FALSE) = NotifyConsumer(z, p, "ok")
    BY <1>2, <2>1 DEF set_consumer
  <2> HIDE DEF z
  <2>7. set_consumer(x, p, FALSE) = z
    BY <2>4, <2>6 DEF NotifyConsumer
  <2>8. Talk(z)
    BY <2>7, SetConsumerTalks DEF Talks, Asked
  <2>9. Unmoved(x, z)
    BY <2>3, <2>4, <2>5 DEF Unmoved, Pipes
  <2>10. Called \notin tos /\ z.queue = Without(x, tos).queue
    BY <2>1, <2>2, <2>3 DEF Called, Fields
  <2> HIDE DEF tos
  <2>11. QED
    BY <2>3, <2>7, <2>8, <2>9, <2>10, WithoutAsks
<1>3. QED
  BY <1>1, <1>2

(* set_adder(nullptr)                                                         *)
LEMMA SetAdderAsks ==
  ASSUME NEW x, Asked(x), NEW p \in Pipes
  PROVE  /\ Asks(x, set_adder(x, p, FALSE)) /\ set_adder(x, p, FALSE).run = x.run
         /\ set_adder(x, p, FALSE).pipe[p].adder = FALSE
<1>1. CASE x.pipe[p].adder = FALSE
  BY <1>1 DEF set_adder, Asks
<1>2. CASE x.pipe[p].adder # FALSE
  <2> DEFINE tos == {<<p, "adder">>}
  <2>1. PICK r \in Seq(TalkEvent) : Without(x, tos) = [x EXCEPT !.queue = r]
    BY WithoutOrder DEF Asked
  <2> DEFINE z == [[x EXCEPT !.queue = r]
                     EXCEPT !.pipe[p].adder = FALSE, !.pipe[p].errA = "ok",
                            !.pipe[p].waitA = FALSE]
  <2>2. DOMAIN x = Fields /\ DOMAIN x.pipe = Pipes /\ \A q \in Pipes : DOMAIN x.pipe[q] = PipeFields
    BY DEF Asked, Talk, Shape
  <2>3. z.queue = r /\ z.local = x.local /\ z.run = x.run
    BY <2>2 DEF Fields
  <2>4. z.pipe[p].adder = FALSE
    BY <2>2 DEF Fields, PipeFields
  <2>5. \A q \in Pipes : /\ z.pipe[q].consumer = x.pipe[q].consumer
                         /\ z.pipe[q].buf = x.pipe[q].buf
                         /\ q # p => z.pipe[q] = x.pipe[q]
    BY <2>2 DEF Fields, PipeFields
  <2>6. set_adder(x, p, FALSE) = z
    BY <1>2, <2>1, <2>2 DEF set_adder, Fields, PipeFields
  <2> HIDE DEF z
  <2>7. Talk(z)
    BY <2>6, SetAdderTalks DEF Talks, Asked
  <2>8. Unmoved(x, z)
    BY <2>3, <2>4, <2>5 DEF Unmoved, Pipes
  <2>9. z.queue = Without(x, tos).queue
    BY <2>1, <2>2, <2>3 DEF Fields
  <2>10. Called \notin tos \/ ~z.pipe["out"].adder
    BY <2>4 DEF Called
  <2> HIDE DEF tos
  <2>11. Asks(x, z)
    BY <2>7, <2>8, <2>9, <2>10, WithoutAsks
  <2>12. QED
    BY <2>3, <2>4, <2>6, <2>11
<1>3. QED
  BY <1>1, <1>2

(* The loop goes on where it is, or ends.                                     *)
SameTurn(x, y) == y.run.pipe = x.run.pipe /\ y.run.at \in {x.run.at, "idle"}

(* One method after the other.                                                *)
LEMMA AsksOn ==
  ASSUME NEW x, NEW y, NEW z, Asks(x, y), SameTurn(x, y), Asks(y, z), SameTurn(y, z)
  PROVE  Asks(x, z) /\ SameTurn(x, z)
BY DEF Asks, SameTurn

(* Whoever is told, the loop goes on.                                         *)
LEMMA NotifyTurns ==
  ASSUME NEW x, Asked(x), NEW to, NEW err, NEW p
  PROVE  /\ SameTurn(x, Post(x, to, err))
         /\ SameTurn(x, NotifyAdder(x, p, err)) /\ SameTurn(x, NotifyConsumer(x, p, err))
BY DEF SameTurn, Post, NotifyAdder, NotifyConsumer, Asked, Talk, Shape, Fields

(* clear()                                                                    *)
LEMMA ClearAsks ==
  ASSUME NEW x, Asked(x), NEW p \in Pipes
  PROVE  /\ Asks(x, clear(x, p)) /\ SameTurn(x, clear(x, p))
         /\ clear(x, p).pipe[p].adder = FALSE
<1> DEFINE y == set_consumer(x, p, FALSE)
           z == set_adder(y, p, FALSE)
           n == z.lost + (IF p = "out" THEN Len(x.pipe[p].buf) ELSE 0)
           w == [z EXCEPT !.pipe[p].buf = <<>>, !.lost = n]
<1>1. clear(x, p) = w
  BY DEF clear
<1>2. Talk(w)
  BY <1>1, ClearTalks DEF Talks, Asked
<1>3. Asks(x, y) /\ SameTurn(x, y)
  BY SetConsumerAsks DEF SameTurn
<1> HIDE DEF y, n
<1>4. Asks(y, z) /\ SameTurn(y, z) /\ z.pipe[p].adder = FALSE
  BY <1>3, SetAdderAsks DEF Asks, SameTurn
<1> HIDE DEF z
<1>5. DOMAIN z = Fields /\ DOMAIN z.pipe = Pipes /\ \A q \in Pipes : DOMAIN z.pipe[q] = PipeFields
  BY <1>4 DEF Asks, Asked, Talk, Shape
<1>6. w.queue = z.queue /\ w.local = z.local /\ w.run = z.run
  BY <1>5 DEF Fields
<1>7. \A q \in Pipes : /\ w.pipe[q].adder = z.pipe[q].adder
                       /\ w.pipe[q].consumer = z.pipe[q].consumer
                       /\ w.pipe[q].waitA = z.pipe[q].waitA
                       /\ w.pipe[q].buf \in {z.pipe[q].buf, <<>>}
  BY <1>5 DEF Fields, PipeFields
<1> HIDE DEF w
<1>8. Unmoved(z, w)
  BY <1>6, <1>7 DEF Unmoved, Pipes
<1>9. Asks(z, w) /\ SameTurn(z, w)
  BY <1>2, <1>4, <1>6, <1>8, UnmovedAsks DEF Asks, SameTurn
<1>10. Asks(x, w) /\ SameTurn(x, w)
  BY <1>3, <1>4, <1>9, AsksOn
<1>11. QED
  BY <1>1, <1>4, <1>7, <1>10

(* What has nothing to do with pipes, events or commands.                     *)
LEMMA ElseAsks ==
  ASSUME NEW x, Asked(x), NEW y, Talk(y), y.queue = x.queue, y.pipe = x.pipe,
         DOMAIN y.local = LocalFields,
         y.local.nested = x.local.nested, y.local.busy = x.local.busy
  PROVE  Asks(x, y)
<1>1. Unmoved(x, y)
  BY DEF Unmoved, Asked
<1>2. QED
  BY <1>1, UnmovedAsks

(* done()                                                                     *)
LEMMA DoneAsks ==
  ASSUME NEW x, Asked(x), NEW p \in Pipes, NEW err \in Errors
  PROVE  LET y == done(x, p, err)
         IN /\ Asks(x, y) /\ y.run.at = "idle" /\ y.run.pipe = x.run.pipe
            /\ y.pipe[p].adder = FALSE
<1> DEFINE y == clear(x, p)
           z == [y EXCEPT !.run.at = "idle"]
           e == IF err = "shutdown" THEN "ok" ELSE err
           w == Post(z, <<p, "done">>, e)
<1>1. Asks(x, y) /\ SameTurn(x, y) /\ y.pipe[p].adder = FALSE
  BY ClearAsks
<1>2. done(x, p, err) = w
  BY DEF done
<1>3. e \in Errors /\ <<p, "done">> \in TalkTo \ {Result, Listed, Called}
  BY ToFacts DEF Errors, Result, Listed, Called
<1> HIDE DEF y, e
<1>4. /\ Talk(z) /\ z.queue = y.queue /\ z.pipe = y.pipe /\ z.local = y.local
      /\ z.run.at = "idle" /\ z.run.pipe = y.run.pipe
  BY <1>1 DEF Asks, Asked, Talk, Shape, Fields
<1> HIDE DEF z
<1>5. Asks(y, z)
  BY <1>1, <1>4, ElseAsks DEF Asks, Asked
<1>6. Asks(z, w) /\ w.run = z.run /\ w.pipe = z.pipe
  BY <1>3, <1>5, PostAsks DEF Asks, Post, Asked, Talk, Shape, Fields
<1> HIDE DEF w
<1>7. QED
  BY <1>1, <1>2, <1>4, <1>5, <1>6 DEF Asks, SameTurn

(* close_socket()                                                             *)
LEMMA CloseAsks ==
  ASSUME NEW x, Asked(x) PROVE Asks(x, close_socket(x)) /\ SameTurn(x, close_socket(x))
<1> DEFINE tos == {<<"socket", "read">>, <<"socket", "write">>}
<1>1. PICK r \in Seq(TalkEvent) : Without(x, tos) = [x EXCEPT !.queue = r]
  BY WithoutOrder DEF Asked
<1> DEFINE z == [[x EXCEPT !.queue = r] EXCEPT !.sa.socket = FALSE]
<1>2. close_socket(x) = IF x.sa.socket THEN z ELSE x
  BY <1>1 DEF close_socket
<1>3. CASE x.sa.socket
  <2>1. Talk(z)
    BY <1>2, <1>3, CloseTalks DEF Talks, Asked
  <2>2. z.queue = r /\ z.local = x.local /\ z.run = x.run /\ z.pipe = x.pipe
    BY DEF Asked, Talk, Shape, Fields
  <2>3. Called \notin tos /\ z.queue = Without(x, tos).queue
    BY <1>1, <2>2 DEF Called, Asked, Talk, Shape, Fields
  <2> HIDE DEF z, tos
  <2>4. Unmoved(x, z)
    BY <2>2 DEF Unmoved
  <2>5. QED
    BY <1>2, <1>3, <2>1, <2>2, <2>3, <2>4, WithoutAsks DEF SameTurn
<1>4. CASE ~x.sa.socket
  BY <1>2, <1>4 DEF Asks, SameTurn
<1>5. QED
  BY <1>3, <1>4

(* The operators are taken off and the socket is closed.                      *)
LEMMA DisconnectedAsks ==
  ASSUME NEW x, Asked(x) PROVE Asks(x, Disconnected(x)) /\ SameTurn(x, Disconnected(x))
<1> DEFINE a == set_adder(x, "in", FALSE)
           b == set_consumer(a, "in", FALSE)
           c == set_adder(b, "out", FALSE)
           d == set_consumer(c, "out", FALSE)
<1>1. "in" \in Pipes /\ "out" \in Pipes
  BY DEF Pipes
<1>2. Disconnected(x) = close_socket(d)
  BY DEF Disconnected
<1>3. Asks(x, a) /\ SameTurn(x, a)
  BY <1>1, SetAdderAsks DEF SameTurn
<1> HIDE DEF a
<1>4. Asks(a, b) /\ SameTurn(a, b)
  BY <1>1, <1>3, SetConsumerAsks DEF Asks, SameTurn
<1> HIDE DEF b
<1>5. Asks(b, c) /\ SameTurn(b, c)
  BY <1>1, <1>4, SetAdderAsks DEF Asks, SameTurn
<1> HIDE DEF c
<1>6. Asks(c, d) /\ SameTurn(c, d)
  BY <1>1, <1>5, SetConsumerAsks DEF Asks, SameTurn
<1> HIDE DEF d
<1>7. Asks(d, close_socket(d)) /\ SameTurn(d, close_socket(d))
  BY <1>6, CloseAsks DEF Asks
<1>8. QED
  BY <1>2, <1>3, <1>4, <1>5, <1>6, <1>7, AsksOn

(* on_shutdown_event()                                                        *)
LEMMA OnShutdownAsks ==
  ASSUME NEW x, Asked(x), NEW flushed
  PROVE  /\ Asks(x, on_shutdown_event(x, flushed))
         /\ SameTurn(x, on_shutdown_event(x, flushed))
<1> DEFINE y == NotifyConsumer(x, "out", x.sa.shutErr)
           u == [x EXCEPT !.net.shut = "flushing"]
           w == [y EXCEPT !.sa.shutting = FALSE, !.sa.shutErr = "ok", !.net.shut = "down"]
<1>1. on_shutdown_event(x, flushed) =
        IF x.sa.socket /\ x.pipe["out"].buf # <<>> THEN x
        ELSE IF x.sa.socket /\ ~flushed THEN u ELSE w
  BY DEF on_shutdown_event
<1>2. "out" \in Pipes /\ x.sa.shutErr \in Errors
  BY DEF Pipes, Asked, Talk, Shape
<1>3. Asks(x, y) /\ SameTurn(x, y)
  BY <1>2, NotifyAsks, NotifyTurns
<1> HIDE DEF y
<1>4. /\ Talk(u) /\ u.queue = x.queue /\ u.pipe = x.pipe /\ u.local = x.local /\ u.run = x.run
  BY DEF Asked, Talk, Shape, Fields
<1>5. Asked(y)
  BY <1>3 DEF Asks
<1>6. /\ Talk(w) /\ w.queue = y.queue /\ w.pipe = y.pipe /\ w.local = y.local /\ w.run = y.run
  BY <1>5 DEF Asked, Talk, Shape, Fields, Errors
<1> HIDE DEF u, w
<1>7. Asks(x, u) /\ SameTurn(x, u)
  BY <1>4, ElseAsks DEF Asked, SameTurn
<1>8. Asks(y, w) /\ SameTurn(y, w)
  BY <1>5, <1>6, ElseAsks DEF Asked, SameTurn
<1>9. Asks(x, x) /\ SameTurn(x, x)
  BY DEF Asks, SameTurn
<1>10. QED
  BY <1>1, <1>3, <1>7, <1>8, <1>9, AsksOn

(* shutdown()                                                                 *)
LEMMA ShutdownAsks ==
  ASSUME NEW x, Asked(x), NEW err \in Errors
  PROVE  Asks(x, shutdown(x, err)) /\ SameTurn(x, shutdown(x, err))
<1> DEFINE y == [x EXCEPT !.sa.shutting = TRUE, !.sa.shutErr = err]
           to == <<"socket", "shutdown">>
<1>1. shutdown(x, err) = Post(y, to, "ok")
  BY DEF shutdown
<1>2. /\ Talk(y) /\ y.queue = x.queue /\ y.pipe = x.pipe /\ y.local = x.local /\ y.run = x.run
  BY DEF Asked, Talk, Shape, Fields
<1> HIDE DEF y
<1>3. Asks(x, y) /\ SameTurn(x, y)
  BY <1>2, ElseAsks DEF Asked, SameTurn
<1>4. "ok" \in Errors /\ to \in TalkTo \ {Result, Listed, Called}
  BY ToFacts DEF Errors, Result, Listed, Called
<1> HIDE DEF to
<1>5. Asks(y, Post(y, to, "ok")) /\ SameTurn(y, Post(y, to, "ok"))
  BY <1>3, <1>4, PostAsks, NotifyTurns DEF Asks
<1>6. QED
  BY <1>1, <1>3, <1>5, AsksOn

(* A method that leaves the adder of the output and the commander alone.      *)
LEMMA ContentAsks ==
  ASSUME NEW x, Asked(x), NEW y, Talk(y), y.queue = x.queue, DOMAIN y.local = LocalFields,
         y.local.nested = x.local.nested, y.local.busy = x.local.busy,
         y.pipe["in"].consumer = x.pipe["in"].consumer,
         y.pipe["out"].adder = x.pipe["out"].adder, y.pipe["out"].waitA = x.pipe["out"].waitA
  PROVE  Asked(y) /\ (Content(x) => Content(y))
BY DEF Asked, Content

(* The adapter's add_to_buffer().                                             *)
LEMMA SocketReadAsks ==
  ASSUME NEW x, Asked(x), Content(x), NEW r, r = socket_read(x)
  PROVE  Asked(r[2]) /\ Content(r[2]) /\ SameTurn(x, r[2])
<1> DEFINE room == ReadLimit(x)
           n == Min2(room, Len(x.net.avail))
           b == x.pipe["in"].buf \o SubSeq(x.net.avail, 1, n)
           a == SubSeq(x.net.avail, n + 1, Len(x.net.avail))
           y == [x EXCEPT !.pipe["in"].buf = b, !.net.avail = a]
           z == [x EXCEPT !.sa.throttled = TRUE]
           w == [x EXCEPT !.sa.waitR = TRUE]
<1>1. r \in
        {<<"again", x>>, <<"again", z>>, <<"nobufs", x>>, <<"failed", x>>, <<"ok", y>>,
         <<"nodata", x>>, <<"again", w>>}
  BY DEF socket_read
<1> HIDE DEF n, room, b, a
<1> DEFINE Near(u) ==
             /\ Talk(u) /\ u.queue = x.queue /\ u.local = x.local /\ u.run = x.run
             /\ u.pipe["in"].consumer = x.pipe["in"].consumer /\ u.pipe["out"] = x.pipe["out"]
<1>2. ASSUME NEW u \in {y, z, w} PROVE Near(u)
  <2>1. Near(y)
    BY DEF Asked, Talk, Shape, Fields, PipeFields, Pipes
  <2>2. Near(z) /\ Near(w)
    BY DEF Asked, Talk, Shape, Fields, PipeFields, Pipes
  <2> HIDE DEF Near, y, z, w
  <2>3. QED
    BY <2>1, <2>2
<1> HIDE DEF y, z, w
<1>3. ASSUME NEW u \in {y, z, w} PROVE Asked(u) /\ Content(u) /\ SameTurn(x, u)
  <2>1. DOMAIN u.local = LocalFields
    BY <1>2 DEF Asked
  <2>2. QED
    BY <1>2, <2>1, ContentAsks DEF SameTurn
<1>4. SameTurn(x, x)
  BY DEF SameTurn
<1>5. QED
  BY <1>1, <1>3, <1>4

(* The adapter's consume_buffer().                                            *)
LEMMA SocketWriteAsks ==
  ASSUME NEW x, Asked(x), NEW flushed, NEW r, r = socket_write(x, flushed)
  PROVE  Asks(x, r[2]) /\ SameTurn(x, r[2])
<1> DEFINE n == Min2(x.net.room, Len(x.pipe["out"].buf))
           b == SubSeq(x.pipe["out"].buf, n + 1, Len(x.pipe["out"].buf))
           k == x.net.room - n
           y == [x EXCEPT !.pipe["out"].buf = b, !.net.room = k]
           v == [y EXCEPT !.sa.throttled = FALSE]
           z == IF y.sa.shutting THEN on_shutdown_event(y, flushed)
                ELSE IF y.sa.throttled /\ y.pipe["out"].buf = <<>>
                THEN NotifyAdder(v, "in", "ok") ELSE y
           w == [x EXCEPT !.sa.waitW = TRUE]
<1>1. r \in {<<"again", x>>, <<"failed", x>>, <<"again", w>>, <<"ok", z>>}
  BY DEF socket_write
<1> HIDE DEF n, b, k
<1>2. /\ Talk(y) /\ y.queue = x.queue /\ y.local = x.local /\ y.run = x.run
      /\ y.pipe["in"] = x.pipe["in"] /\ y.pipe["out"].adder = x.pipe["out"].adder
      /\ y.pipe["out"].waitA = x.pipe["out"].waitA
  BY DEF Asked, Talk, Shape, Fields, PipeFields, Pipes
<1>3. Talk(w) /\ w.queue = x.queue /\ w.local = x.local /\ w.run = x.run /\ w.pipe = x.pipe
  BY DEF Asked, Talk, Shape, Fields
<1> HIDE DEF y, w
<1>4. Asks(x, y) /\ SameTurn(x, y)
  <2>1. Unmoved(x, y)
    BY <1>2 DEF Unmoved
  <2>2. QED
    BY <1>2, <2>1, UnmovedAsks DEF SameTurn
<1>5. Asks(x, w) /\ SameTurn(x, w)
  BY <1>3, ElseAsks DEF Asked, SameTurn
<1>6. Talk(v) /\ v.queue = y.queue /\ v.local = y.local /\ v.run = y.run /\ v.pipe = y.pipe
  BY <1>2 DEF Talk, Shape, Fields
<1> HIDE DEF v
<1>7. Asks(y, v) /\ SameTurn(y, v)
  BY <1>4, <1>6, ElseAsks DEF Asks, Asked, SameTurn
<1>8. Asks(v, NotifyAdder(v, "in", "ok")) /\ SameTurn(v, NotifyAdder(v, "in", "ok"))
  <2>1. Asked(v) /\ "ok" \in Errors
    BY <1>7 DEF Asks, Errors
  <2>2. QED
    BY <2>1, NotifyAsks, NotifyTurns
<1>9. Asks(y, on_shutdown_event(y, flushed)) /\ SameTurn(y, on_shutdown_event(y, flushed))
  BY <1>4, OnShutdownAsks DEF Asks
<1>10. Asks(x, z) /\ SameTurn(x, z)
  <2>1. Asks(x, NotifyAdder(v, "in", "ok")) /\ SameTurn(x, NotifyAdder(v, "in", "ok"))
    <3>1. Asks(x, v) /\ SameTurn(x, v)
      BY <1>4, <1>7, AsksOn
    <3>2. QED
      BY <1>8, <3>1, AsksOn
  <2>2. Asks(x, on_shutdown_event(y, flushed)) /\ SameTurn(x, on_shutdown_event(y, flushed))
    BY <1>4, <1>9, AsksOn
  <2>3. QED
    BY <1>4, <2>1, <2>2
<1> HIDE DEF z
<1>11. Asks(x, x) /\ SameTurn(x, x)
  BY DEF Asks, SameTurn
<1>12. QED
  BY <1>1, <1>5, <1>10, <1>11

(* The adder of the output is called: one that lists and does not read, for   *)
(* the first time; one whose command is at work, before the result.           *)
MayCall(x) ==
  /\ x.local.nested # "reading"
  /\ x.local.nested = "idle" => At(x.queue, Called) = {}
  /\ x.local.busy => At(x.queue, Result) = {}

(* What such a call does to the events on their way.                          *)
LEMMA CallLined ==
  ASSUME NEW q \in Seq(TalkEvent), NEW n, NEW b, NEW l, NEW a, Lined(q, n, b, l, a),
         n # "reading", n = "idle" => At(q, Called) = {}, b => At(q, Result) = {}
  PROVE  LET r == Append(q, [to |-> Called, err |-> "ok"])
         IN /\ Lined(r, n, b, l, a)
            /\ At(r, Result) = At(q, Result) /\ At(r, Listed) = At(q, Listed)
            /\ At(q, Called) = {} => \A i, j \in At(r, Called) : i = j
<1> DEFINE e == [to |-> Called, err |-> "ok"]
           r == Append(q, e)
<1>1. "ok" \in Errors /\ Called \in TalkTo
  BY ToFacts DEF Errors, Called, Pipes
<1>2. e \in TalkEvent /\ e.to = Called
  BY <1>1 DEF TalkEvent
<1> HIDE DEF e
<1>3. Called # Result /\ Called # Listed
  BY DEF Called, Result, Listed
<1>4. \A t \in {Result, Listed} : At(r, t) = At(q, t)
  <2> TAKE t \in {Result, Listed}
  <2>1. At(r, t) = At(q, t) \cup {}
    BY <1>2, <1>3, AtAppend
  <2>2. QED
    BY <2>1
<1>5. At(r, Called) = At(q, Called) \cup {Len(q) + 1}
  BY <1>2, AtAppend
<1> HIDE DEF r
<1>6. Lined(r, n, b, l, a)
  BY <1>4, <1>5 DEF Lined
<1>7. QED
  BY <1>4, <1>5, <1>6 DEF r, e

(* The adder of the output is called.                                         *)
LEMMA CallAsks ==
  ASSUME NEW x, Asked(x), MayCall(x)
  PROVE  LET y == Post(x, Called, "ok")
         IN Asked(y) /\ y.local = x.local /\ y.pipe = x.pipe /\ y.run = x.run
<1> DEFINE e == [to |-> Called, err |-> "ok"]
           q == Append(x.queue, e)
           y == [x EXCEPT !.queue = q]
<1>1. "ok" \in Errors /\ Called \in TalkTo
  BY ToFacts DEF Errors, Called, Pipes
<1>2. Post(x, Called, "ok") = y /\ Talk(y)
  BY <1>1, PostTalks DEF Post, Talks, Asked
<1>3. Lined(q, x.local.nested, x.local.busy, x.pipe["in"].consumer, x.pipe["out"].adder)
  BY CallLined DEF Asked, Talk, MayCall
<1> HIDE DEF q
<1>4. /\ y.queue = q /\ y.local = x.local /\ y.pipe = x.pipe /\ y.run = x.run
  BY DEF Asked, Talk, Shape, Fields
<1> HIDE DEF y
<1>5. Asked(y)
  BY <1>2, <1>3, <1>4 DEF Asked
<1>6. QED
  BY <1>2, <1>4, <1>5

(* The commander responds, whatever it has and whoever listens.               *)
LEMMA RespondLined ==
  ASSUME NEW x, Talk(x), DOMAIN x.local = LocalFields, NEW b, NEW l,
         Lined(x.queue, x.local.nested, b, l, x.pipe["out"].adder),
         x.local.nested # "reading", x.local.nested = "idle" => At(x.queue, Called) = {},
         b => At(x.queue, Result) = {}
  PROVE  LET y == respond(x)
         IN /\ Talk(y) /\ DOMAIN y.local = LocalFields /\ y.run = x.run
            /\ Lined(y.queue, x.local.nested, b, l, x.pipe["out"].adder)
            /\ At(y.queue, Result) = At(x.queue, Result)
            /\ At(y.queue, Listed) = At(x.queue, Listed)
            /\ At(x.queue, Called) = {} => \A i, j \in At(y.queue, Called) : i = j
            /\ y.local.nested = x.local.nested /\ y.local.busy = x.local.busy
            /\ y.pipe["in"] = x.pipe["in"] /\ y.pipe["out"].adder = x.pipe["out"].adder
            /\ y.pipe["out"].waitA = x.pipe["out"].waitA
<1> DEFINE c == Append(x.pipe["out"].buf, "c")
           y == [x EXCEPT !.pipe["out"].buf = c]
           z == NotifyAdder(y, "out", "ok")
           w == [z EXCEPT !.local.sent = y.pipe["out"].adder]
           q == Append(x.queue, [to |-> Called, err |-> "ok"])
<1>1. respond(x) = IF y.local.sent THEN y ELSE w
  BY DEF respond
<1> HIDE DEF c
<1>2. /\ Talk(y) /\ y.queue = x.queue /\ y.local = x.local /\ y.run = x.run
      /\ y.pipe["in"] = x.pipe["in"] /\ y.pipe["out"].adder = x.pipe["out"].adder
      /\ y.pipe["out"].waitA = x.pipe["out"].waitA
  BY DEF Talk, Shape, Fields, PipeFields, Pipes
<1> HIDE DEF y
<1>3. Talk(z)
  BY <1>2, NotifyAdderTalks DEF Talks, Pipes, Errors
<1>4. /\ z.queue \in {x.queue, q} /\ z.local = y.local /\ z.pipe = y.pipe /\ z.run = y.run
  BY <1>2 DEF NotifyAdder, Post, Called, Talk, Shape, Fields
<1> HIDE DEF z
<1>5. /\ Talk(w) /\ w.queue = z.queue /\ w.pipe = z.pipe /\ w.run = z.run
      /\ DOMAIN w.local = LocalFields
      /\ w.local.nested = z.local.nested /\ w.local.busy = z.local.busy
  BY <1>2, <1>3, <1>4 DEF Talk, Shape, Fields, LocalFields
<1> HIDE DEF w
<1>6. /\ Lined(q, x.local.nested, b, l, x.pipe["out"].adder)
      /\ At(q, Result) = At(x.queue, Result) /\ At(q, Listed) = At(x.queue, Listed)
      /\ At(x.queue, Called) = {} => \A i, j \in At(q, Called) : i = j
  BY CallLined DEF Talk
<1> HIDE DEF q
<1>7. At(x.queue, Called) = {} => \A i, j \in At(x.queue, Called) : i = j
  OBVIOUS
<1>8. QED
  BY <1>1, <1>2, <1>4, <1>5, <1>6, <1>7

(* The commander responds before the result.                                  *)
LEMMA RespondAsks ==
  ASSUME NEW x, Asked(x), MayCall(x)
  PROVE  LET y == respond(x)
         IN /\ Asked(y) /\ (Content(x) => Content(y)) /\ y.run = x.run
            /\ At(y.queue, Result) = At(x.queue, Result)
            /\ At(y.queue, Listed) = At(x.queue, Listed)
            /\ At(x.queue, Called) = {} => \A i, j \in At(y.queue, Called) : i = j
            /\ y.local.nested = x.local.nested /\ y.local.busy = x.local.busy
            /\ y.pipe["in"] = x.pipe["in"] /\ y.pipe["out"].adder = x.pipe["out"].adder
<1> DEFINE y == respond(x)
<1>1. /\ Talk(y) /\ DOMAIN y.local = LocalFields /\ y.run = x.run
      /\ Lined(y.queue, x.local.nested, x.local.busy, x.pipe["in"].consumer, x.pipe["out"].adder)
      /\ At(y.queue, Result) = At(x.queue, Result)
      /\ At(y.queue, Listed) = At(x.queue, Listed)
      /\ At(x.queue, Called) = {} => \A i, j \in At(y.queue, Called) : i = j
      /\ y.local.nested = x.local.nested /\ y.local.busy = x.local.busy
      /\ y.pipe["in"] = x.pipe["in"] /\ y.pipe["out"].adder = x.pipe["out"].adder
      /\ y.pipe["out"].waitA = x.pipe["out"].waitA
  BY RespondLined DEF Asked, MayCall
<1> HIDE DEF y
<1>2. Asked(y) /\ (Content(x) => Content(y))
  BY <1>1 DEF Asked, Content
<1>3. QED
  BY <1>1, <1>2 DEF y

(* The command is over.                                                       *)
LEMMA CommandOverAsks ==
  ASSUME NEW x, Asked(x), x.local.nested = "none", At(x.queue, Result) = {}
  PROVE  LET y == act_upon_command_reply(x)
         IN /\ Asked(y) /\ (Content(x) => Content(y)) /\ y.run = x.run
            /\ y.local.nested = "none" /\ y.pipe["out"].adder = x.pipe["out"].adder
<1> DEFINE y == [x EXCEPT !.local.busy = FALSE, !.local.postponed = FALSE]
           z == NotifyConsumer(y, "in", "ok")
<1>1. act_upon_command_reply(x) = IF x.local.postponed THEN z ELSE y
  BY DEF act_upon_command_reply
<1>2. /\ Talk(y) /\ y.queue = x.queue /\ y.pipe = x.pipe /\ y.run = x.run
      /\ DOMAIN y.local = LocalFields /\ y.local.nested = "none" /\ y.local.busy = FALSE
  BY DEF Asked, Talk, Shape, Fields, LocalFields
<1> HIDE DEF y
<1>3. Asked(y) /\ (Content(x) => Content(y))
  BY <1>2 DEF Asked, Lined, Content
<1>4. "in" \in Pipes /\ "ok" \in Errors
  BY DEF Pipes, Errors
<1>5. Asks(y, z)
  BY <1>3, <1>4, NotifyAsks
<1>6. z.run = y.run /\ z.local = y.local /\ z.pipe = y.pipe
  BY <1>3 DEF NotifyConsumer, Post, Asked, Talk, Shape, Fields
<1> HIDE DEF z
<1>7. QED
  BY <1>1, <1>2, <1>3, <1>5, <1>6 DEF Asks

(* The commander shuts down: it has no command, and nobody listens any more.  *)
LEMMA ShutdownCommanderAsks ==
  ASSUME NEW x, Talk(x), DOMAIN x.local = LocalFields, Content(x), NEW err \in Errors,
         Lined(x.queue, x.local.nested, FALSE, FALSE, x.pipe["out"].adder)
  PROVE  LET y == shutdown_commander(x, err) IN Asked(y) /\ Content(y) /\ SameTurn(x, y)
<1> DEFINE y == [x EXCEPT !.local.busy = FALSE]
           z == set_consumer(y, "in", FALSE)
<1>1. shutdown_commander(x, err) = shutdown(z, err) /\ "in" \in Pipes
  BY DEF shutdown_commander, Pipes
<1>2. /\ Talk(y) /\ y.queue = x.queue /\ y.pipe = x.pipe /\ y.run = x.run
      /\ DOMAIN y.local = LocalFields
      /\ y.local.nested = x.local.nested /\ y.local.busy = FALSE
  BY DEF Talk, Shape, Fields, LocalFields
<1> HIDE DEF y
<1>3. Talk(z)
  BY <1>1, <1>2, SetConsumerTalks DEF Talks
<1>4. Asked(z) /\ Content(z) /\ SameTurn(x, z)
  <2>1. CASE y.pipe["in"].consumer = FALSE
    <3>1. z = y
      BY <2>1 DEF set_consumer
    <3>2. QED
      BY <1>2, <2>1, <3>1 DEF Asked, Content, SameTurn
  <2>2. CASE y.pipe["in"].consumer # FALSE
    <3> DEFINE tos == {<<"in", "consumer">>}
    <3>1. PICK r \in Seq(TalkEvent) : \E f :
            Without(y, tos) = [y EXCEPT !.queue = r] /\ InOrder(y.queue, tos, r, f)
      BY <1>2, WithoutOrder
    <3> DEFINE w == [[y EXCEPT !.queue = r]
                       EXCEPT !.pipe["in"].consumer = FALSE, !.pipe["in"].errC = "ok",
                              !.pipe["in"].waitC = FALSE]
    <3>2. /\ DOMAIN y = Fields /\ DOMAIN y.pipe = Pipes
          /\ \A q \in Pipes : DOMAIN y.pipe[q] = PipeFields
      BY <1>2 DEF Talk, Shape
    <3>3. w.queue = r /\ w.local = y.local /\ w.run = y.run
      BY <3>2 DEF Fields
    <3>4. w.pipe["in"].consumer = FALSE /\ w.pipe["out"] = y.pipe["out"]
      BY <3>2 DEF Fields, PipeFields, Pipes
    <3>5. z = NotifyConsumer(w, "in", "ok")
      BY <2>2, <3>1 DEF set_consumer
    <3> HIDE DEF w, tos, z
    <3>6. z = w
      BY <3>4, <3>5 DEF NotifyConsumer
    <3>7. y.queue \in Seq(TalkEvent)
      BY <1>2 DEF Talk
    <3>8. Lined(r, x.local.nested, FALSE, FALSE, x.pipe["out"].adder)
      BY <1>2, <3>1, <3>7, InOrderLined DEF InOrder
    <3>9. QED
      BY <1>2, <1>3, <3>3, <3>4, <3>6, <3>8 DEF Asked, Content, SameTurn
  <2>3. QED
    BY <2>1, <2>2
<1> HIDE DEF z
<1>5. Asks(z, shutdown(z, err)) /\ SameTurn(z, shutdown(z, err))
  BY <1>4, ShutdownAsks
<1>6. QED
  BY <1>1, <1>4, <1>5 DEF Asks, SameTurn

(* The line consumer: whoever listens and has no command waits for no result. *)
LEMMA ConsumeLineAsks ==
  ASSUME NEW x, Asked(x), Content(x), x.pipe["in"].consumer, NEW r \in consume_line(x)
  PROVE  Asked(r[2]) /\ Content(r[2]) /\ SameTurn(x, r[2])
<1> DEFINE b == SubSeq(x.pipe["in"].buf, Eol(x) + 1, Len(x.pipe["in"].buf))
           y == [x EXCEPT !.pipe["in"].buf = b]
           v == [respond(y) EXCEPT !.local.quit = "quit"]
           w == [x EXCEPT !.local.postponed = TRUE]
           u == [y EXCEPT !.local.busy = TRUE]
<1>1. \/ r[2] \in {x, w}
      \/ ~x.local.busy /\ r[2] \in {respond(y), u, shutdown_commander(v, "shutdown")}
  BY DEF consume_line
<1> HIDE DEF b
<1>2. /\ Talk(y) /\ y.queue = x.queue /\ y.local = x.local /\ y.run = x.run
      /\ y.pipe["in"].consumer = x.pipe["in"].consumer /\ y.pipe["out"] = x.pipe["out"]
  BY DEF Asked, Talk, Shape, Fields, PipeFields, Pipes
<1>3. /\ Talk(w) /\ w.queue = x.queue /\ w.pipe = x.pipe /\ w.run = x.run
      /\ DOMAIN w.local = LocalFields
      /\ w.local.nested = x.local.nested /\ w.local.busy = x.local.busy
  BY DEF Asked, Talk, Shape, Fields, LocalFields
<1> HIDE DEF y, w
<1>4. Asked(w) /\ Content(w) /\ SameTurn(x, w)
  BY <1>3, ContentAsks DEF SameTurn
<1>5. Asked(y) /\ Content(y)
  <2>1. DOMAIN y.local = LocalFields
    BY <1>2 DEF Asked
  <2>2. QED
    BY <1>2, <2>1, ContentAsks
<1>6. CASE r[2] \in {x, w}
  BY <1>4, <1>6 DEF SameTurn
<1>7. CASE ~x.local.busy /\ r[2] \in {respond(y), u, shutdown_commander(v, "shutdown")}
  <2>1. ~y.local.busy /\ y.local.nested = "none" /\ At(y.queue, Result) = {}
    BY <1>2, <1>5, <1>7 DEF Asked, Lined
  <2>2. MayCall(y)
    BY <2>1 DEF MayCall
  <2>3. /\ Asked(respond(y)) /\ Content(respond(y)) /\ respond(y).run = y.run
        /\ respond(y).local.nested = "none" /\ ~respond(y).local.busy
        /\ At(respond(y).queue, Result) = {}
    BY <1>5, <2>1, <2>2, RespondAsks
  <2>4. Asked(u) /\ Content(u) /\ SameTurn(x, u)
    <3>1. /\ Talk(u) /\ u.queue = y.queue /\ u.pipe = y.pipe /\ u.run = y.run
          /\ DOMAIN u.local = LocalFields
          /\ u.local.nested = y.local.nested /\ u.local.busy = TRUE
      BY <1>5 DEF Asked, Talk, Shape, Fields, LocalFields
    <3> HIDE DEF u
    <3>2. Lined(y.queue, "none", TRUE, y.pipe["in"].consumer, y.pipe["out"].adder)
      BY <1>5, <2>1 DEF Asked, Lined
    <3>3. QED
      BY <1>2, <1>5, <2>1, <3>1, <3>2 DEF Asked, Content, SameTurn
  <2>5. Asked(shutdown_commander(v, "shutdown")) /\ Content(shutdown_commander(v, "shutdown"))
        /\ SameTurn(x, shutdown_commander(v, "shutdown"))
    <3> DEFINE c == respond(y)
    <3>1. Asked(c) /\ Content(c) /\ c.run = x.run /\ c.local.nested = "none" /\ ~c.local.busy
          /\ At(c.queue, Result) = {}
      BY <1>2, <2>3
    <3> HIDE DEF c
    <3>2. v = [c EXCEPT !.local.quit = "quit"]
      BY DEF c
    <3> HIDE DEF v
    <3>3. /\ Talk(v) /\ v.queue = c.queue /\ v.pipe = c.pipe /\ v.run = c.run
          /\ DOMAIN v.local = LocalFields /\ v.local.nested = "none"
      BY <3>1, <3>2 DEF Asked, Talk, Shape, Fields, LocalFields
    <3>4. Lined(c.queue, "none", FALSE, FALSE, c.pipe["out"].adder)
      BY <3>1 DEF Asked, Lined
    <3>5. "shutdown" \in Errors /\ Content(v)
      BY <3>1, <3>3 DEF Errors, Content
    <3>6. /\ Asked(shutdown_commander(v, "shutdown")) /\ Content(shutdown_commander(v, "shutdown"))
          /\ SameTurn(v, shutdown_commander(v, "shutdown"))
      BY <3>3, <3>4, <3>5, ShutdownCommanderAsks
    <3>7. QED
      BY <3>1, <3>3, <3>6 DEF SameTurn
  <2> HIDE DEF u, v
  <2>6. SameTurn(x, respond(y))
    BY <1>2, <2>3 DEF SameTurn
  <2>7. QED
    BY <1>7, <2>3, <2>4, <2>5, <2>6
<1>8. QED
  BY <1>1, <1>6, <1>7

(* The streamed adder.                                                        *)
LEMMA AddStreamedAsks ==
  ASSUME NEW x, Asked(x), Adding(x), x.pipe["out"].adder, NEW r, r = add_streamed(x)
  PROVE  /\ Asked(r[2]) /\ r[2].run = x.run /\ r[2].pipe["out"].adder /\ r[1] \in {"ok", "again"}
         /\ r[1] = "ok" => /\ r[2].local.nested = "none"
                           /\ x.run.loop = 0 \/ (x.run.loop = 1 /\ ~r[2].local.sent)
<1> DEFINE y == [x EXCEPT !.local.sent = FALSE]
           z == [y EXCEPT !.local.nested = "none"]
           n == IF y.local.nested = "idle" THEN "reading" ELSE "twice"
           w == [y EXCEPT !.local.nested = n]
<1>1. r = IF x.local.nested = "none"
          THEN IF x.local.sent THEN <<"ok", y>> ELSE <<"again", x>>
          ELSE IF x.local.entries = 0
          THEN <<"ok", act_upon_command_reply(respond(z))>> ELSE <<"again", w>>
  BY DEF add_streamed
<1>2. /\ Talk(y) /\ y.queue = x.queue /\ y.pipe = x.pipe /\ y.run = x.run
      /\ DOMAIN y.local = LocalFields /\ y.local.nested = x.local.nested
      /\ y.local.busy = x.local.busy /\ y.local.sent = FALSE
  BY DEF Asked, Talk, Shape, Fields, LocalFields
<1> HIDE DEF y
<1>3. Asked(y)
  BY <1>2 DEF Asked
<1>4. CASE x.local.nested = "none"
  <2>1. x.local.sent => x.run.loop \in {0, 1}
    BY DEF Adding
  <2>2. QED
    BY <1>1, <1>2, <1>3, <1>4, <2>1
<1>5. CASE x.local.nested # "none"
  <2>1. /\ x.local.nested = "idle" /\ x.run.loop = 0 /\ At(x.queue, Called) = {} /\ x.local.busy
        /\ At(x.queue, Result) = {} /\ At(x.queue, Listed) = {}
    <3>1. x.local.nested = "idle" /\ x.run.loop = 0 /\ At(x.queue, Called) = {}
      BY <1>5 DEF Adding, Asked, Lined
    <3>2. QED
      BY <3>1 DEF Asked, Lined
  <2>2. /\ Talk(z) /\ z.queue = x.queue /\ z.pipe = x.pipe /\ z.run = x.run
        /\ DOMAIN z.local = LocalFields /\ z.local.nested = "none"
        /\ z.local.busy = x.local.busy
    BY <1>2 DEF Talk, Shape, Fields, LocalFields
  <2>3. n = "reading"
    BY <1>2, <2>1
  <2>4. /\ Talk(w) /\ w.queue = x.queue /\ w.pipe = x.pipe /\ w.run = x.run
        /\ DOMAIN w.local = LocalFields /\ w.local.nested = "reading"
        /\ w.local.busy = x.local.busy
    BY <1>2, <2>3 DEF Talk, Shape, Fields, LocalFields
  <2> HIDE DEF z, w, n
  <2>5. Asked(z)
    BY <2>1, <2>2 DEF Asked, Lined
  <2>6. Asked(w)
    BY <2>1, <2>4 DEF Asked, Lined
  <2>7. MayCall(z)
    BY <2>1, <2>2 DEF MayCall
  <2> DEFINE c == respond(z)
  <2>8. /\ Asked(c) /\ c.run = x.run /\ At(c.queue, Result) = {} /\ c.local.nested = "none"
        /\ c.pipe["out"].adder
    BY <2>1, <2>2, <2>5, <2>7, RespondAsks
  <2> HIDE DEF c
  <2> DEFINE d == act_upon_command_reply(c)
  <2>9. Asked(d) /\ d.run = x.run /\ d.local.nested = "none" /\ d.pipe["out"].adder
    BY <2>8, CommandOverAsks
  <2>10. r = IF x.local.entries = 0 THEN <<"ok", d>> ELSE <<"again", w>>
    BY <1>1, <1>5 DEF c
  <2> HIDE DEF d
  <2>11. QED
    BY <2>1, <2>4, <2>6, <2>9, <2>10
<1>6. QED
  BY <1>4, <1>5

(* The turn ends.                                                             *)
LEMMA IdleAsks ==
  ASSUME NEW x, Asked(x), NEW p \in Pipes
  PROVE  LET y == Idle(x)
             z == [y EXCEPT !.pipe[p].waitC = TRUE]
             w == [y EXCEPT !.pipe[p].waitA = TRUE]
         IN /\ Asks(x, y) /\ y.run.at = "idle" /\ y.run.pipe = x.run.pipe
            /\ y.local = x.local /\ y.queue = x.queue /\ y.pipe = x.pipe
            /\ Asks(x, z) /\ z.run = y.run
            /\ Asked(w) /\ w.run = y.run /\ w.local = x.local /\ w.queue = x.queue
            /\ p = "out" => Content(w)
            /\ p = "in" => Asks(x, w)
<1> DEFINE y == Idle(x)
           z == [y EXCEPT !.pipe[p].waitC = TRUE]
           w == [y EXCEPT !.pipe[p].waitA = TRUE]
<1>1. /\ Talk(y) /\ y.queue = x.queue /\ y.pipe = x.pipe /\ y.local = x.local
      /\ y.run.at = "idle" /\ y.run.pipe = x.run.pipe
  BY DEF Idle, Asked, Talk, Shape, Fields
<1> HIDE DEF y
<1>2. Asks(x, y)
  BY <1>1, ElseAsks DEF Asked
<1>3. /\ Talk(z) /\ z.queue = y.queue /\ z.local = y.local /\ z.run = y.run
      /\ \A q \in Pipes : /\ z.pipe[q].consumer = y.pipe[q].consumer
                          /\ z.pipe[q].adder = y.pipe[q].adder
                          /\ z.pipe[q].waitA = y.pipe[q].waitA
                          /\ z.pipe[q].buf = y.pipe[q].buf
  BY <1>1 DEF Talk, Shape, Fields, PipeFields
<1>4. /\ Talk(w) /\ w.queue = y.queue /\ w.local = y.local /\ w.run = y.run
      /\ \A q \in Pipes : /\ w.pipe[q].consumer = y.pipe[q].consumer
                          /\ w.pipe[q].adder = y.pipe[q].adder
                          /\ q # p => w.pipe[q].waitA = y.pipe[q].waitA
                          /\ w.pipe[q].buf = y.pipe[q].buf
      /\ w.pipe[p].waitA = TRUE
  BY <1>1 DEF Talk, Shape, Fields, PipeFields
<1> HIDE DEF z, w
<1>5. Unmoved(x, z)
  BY <1>1, <1>3 DEF Unmoved, Pipes
<1>6. Asks(x, z)
  BY <1>1, <1>3, <1>5, UnmovedAsks
<1>7. Asked(w)
  BY <1>1, <1>4 DEF Asked, Pipes
<1>8. p = "out" => Content(w)
  BY <1>4 DEF Content
<1>9. ASSUME p = "in" PROVE Asks(x, w)
  <2>1. Unmoved(x, w)
    BY <1>1, <1>4, <1>9 DEF Unmoved, Pipes
  <2>2. QED
    BY <1>1, <1>4, <2>1, UnmovedAsks
<1>10. QED
  BY <1>1, <1>2, <1>3, <1>4, <1>6, <1>7, <1>8, <1>9 DEF y, z, w

(* A consumer is told that it is waited for.                                  *)
LEMMA WakeConsumerAsks ==
  ASSUME NEW x, Asked(x), NEW p \in Pipes
  PROVE  LET y == Idle(x)
             z == NotifyConsumer([y EXCEPT !.pipe[p].waitC = TRUE], p, "ok")
         IN /\ Asks(x, y) /\ SameTurn(x, y) /\ y.run.at = "idle"
            /\ Asks(x, z) /\ SameTurn(x, z) /\ z.run.at = "idle"
<1> DEFINE y == Idle(x)
           w == [y EXCEPT !.pipe[p].waitC = TRUE]
           z == NotifyConsumer(w, p, "ok")
<1>1. /\ Asks(x, y) /\ y.run.at = "idle" /\ y.run.pipe = x.run.pipe
      /\ Asks(x, w) /\ w.run = y.run
  BY IdleAsks
<1> HIDE DEF y, w
<1>2. Asked(w) /\ "ok" \in Errors
  BY <1>1 DEF Asks, Errors
<1>3. Asks(w, z) /\ z.run = w.run
  BY <1>2, NotifyAsks DEF NotifyConsumer, Post, Asked, Talk, Shape, Fields
<1> HIDE DEF z
<1>4. QED
  BY <1>1, <1>3 DEF y, w, z, Asks, SameTurn

(* An adder is told that it is waited for: that of the output only when it    *)
(* has never been heard, and the lister is not there yet.                     *)
LEMMA WakeAdderAsks ==
  ASSUME NEW x, Asked(x), Calm(x), NEW p \in Pipes, x.pipe[p].adder
  PROVE  LET y == wake_adder(x, p)
         IN Asked(y) /\ Calm(y) /\ SameTurn(x, y)
<1> DEFINE y == Idle(x)
           w == [y EXCEPT !.pipe[p].waitA = TRUE]
           z == NotifyAdder(w, p, "ok")
<1>1. wake_adder(x, p) = IF x.pipe[p].waitA THEN y ELSE z
  BY DEF wake_adder
<1>2. /\ Asks(x, y) /\ y.run.at = "idle" /\ y.run.pipe = x.run.pipe
      /\ Asked(w) /\ w.run = y.run /\ w.local = x.local /\ w.queue = x.queue
      /\ p = "out" => Content(w)
      /\ p = "in" => Asks(x, w)
  BY IdleAsks
<1> HIDE DEF y, w
<1>3. z.run = w.run
  BY <1>2 DEF NotifyAdder, Post, Asked, Talk, Shape, Fields
<1>4. CASE p = "in"
  <2>1. "ok" \in Errors
    BY DEF Errors
  <2>2. Asks(w, z)
    BY <1>2, <1>4, <2>1, NotifyAsks
  <2> HIDE DEF z
  <2>3. QED
    BY <1>1, <1>2, <1>3, <1>4, <2>2 DEF Asks, SameTurn
<1>5. CASE p = "out" /\ ~x.pipe[p].waitA
  <2>1. x.local.nested = "none" /\ ~x.local.busy
    BY <1>5 DEF Calm, Content
  <2>2. MayCall(w)
    BY <1>2, <2>1 DEF MayCall
  <2>3. Asked(z) /\ z.pipe = w.pipe
    BY <1>2, <1>5, <2>2, CallAsks DEF NotifyAdder, Called
  <2> HIDE DEF z
  <2>4. QED
    BY <1>1, <1>2, <1>3, <1>5, <2>3 DEF Calm, Content, SameTurn
<1>6. CASE p = "out" /\ x.pipe[p].waitA
  BY <1>1, <1>2, <1>6 DEF Asks, SameTurn
<1>7. QED
  BY <1>4, <1>5, <1>6 DEF Pipes

(* After the loop of a consumer.                                              *)
LEMMA AfterConsumeAsks ==
  ASSUME NEW x, Asked(x), Calm(x), NEW p \in Pipes
  PROVE  LET y == after_consume(x, p) IN Asked(y) /\ Calm(y) /\ SameTurn(x, y)
<1> DEFINE y == Idle(x)
           z == NotifyConsumer([y EXCEPT !.pipe[p].waitC = TRUE], p, "ok")
<1>1. /\ Asked(y) /\ Calm(y) /\ SameTurn(x, y)
      /\ Asked(z) /\ Calm(z) /\ SameTurn(x, z)
  BY WakeConsumerAsks DEF Asks
<1>2. \/ after_consume(x, p) \in {y, z}
      \/ x.pipe[p].adder /\ after_consume(x, p) = wake_adder(x, p)
  BY DEF after_consume
<1> HIDE DEF y, z
<1>3. QED
  BY <1>1, <1>2, WakeAdderAsks

(* After the loop of an adder.                                                *)
LEMMA AfterAddAsks ==
  ASSUME NEW x, Asked(x), NEW p \in Pipes
  PROVE  LET y == after_add(x, p)
         IN Asks(x, y) /\ SameTurn(x, y) /\ y.run.at = "idle"
BY WakeConsumerAsks DEF after_add

(* What a consumer's answer does.                                             *)
LEMMA ConsumedAsks ==
  ASSUME NEW x, Asked(x), Calm(x), NEW p \in Pipes, NEW err \in LoopErrors
  PROVE  LET y == consumed(x, p, err) IN Asked(y) /\ Calm(y) /\ SameTurn(x, y)
<1> DEFINE y == [x EXCEPT !.pipe[p].errC = err]
           v == [y EXCEPT !.pipe[p].waitC = TRUE]
           w == Again(y)
<1>1. consumed(x, p, err) \in {w, after_consume(v, p), after_consume(y, p), done(y, p, err)}
  BY DEF consumed, LoopErrors
<1> DEFINE Near(u, t) ==
             /\ Talk(u) /\ u.queue = t.queue /\ u.local = t.local
             /\ u.run.at = t.run.at /\ u.run.pipe = t.run.pipe
             /\ \A q \in Pipes : /\ u.pipe[q].consumer = t.pipe[q].consumer
                                 /\ u.pipe[q].adder = t.pipe[q].adder
                                 /\ u.pipe[q].waitA = t.pipe[q].waitA
                                 /\ u.pipe[q].buf = t.pipe[q].buf
<1>2. Near(y, x)
  BY DEF Asked, Talk, Shape, Fields, PipeFields
<1> HIDE DEF y
<1>3. Near(v, y)
  BY <1>2 DEF Talk, Shape, Fields, PipeFields
<1>4. Near(w, y)
  BY <1>2 DEF Again, Talk, Shape, Fields, PipeFields
<1> HIDE DEF v, w
<1>5. ASSUME NEW u \in {y, v, w} PROVE Asks(x, u) /\ SameTurn(x, u)
  <2>1. Near(u, x)
    BY <1>2, <1>3, <1>4
  <2>2. Unmoved(x, u)
    BY <2>1 DEF Unmoved, Pipes
  <2>3. QED
    BY <2>1, <2>2, UnmovedAsks DEF SameTurn
<1>6. ASSUME NEW u \in {y, v}
      PROVE  /\ Asked(after_consume(u, p)) /\ Calm(after_consume(u, p))
             /\ SameTurn(x, after_consume(u, p))
  <2>1. Asked(u) /\ Calm(u) /\ SameTurn(x, u)
    BY <1>5, <1>6 DEF Asks
  <2>2. QED
    BY <2>1, AfterConsumeAsks DEF SameTurn
<1>7. Asked(done(y, p, err)) /\ Calm(done(y, p, err)) /\ SameTurn(x, done(y, p, err))
  <2>1. Asked(y) /\ Calm(y) /\ SameTurn(x, y) /\ err \in Errors
    BY <1>5 DEF Asks, Errors, LoopErrors
  <2>2. QED
    BY <2>1, DoneAsks DEF Asks, SameTurn
<1>8. Asked(w) /\ Calm(w) /\ SameTurn(x, w)
  BY <1>5 DEF Asks
<1>9. QED
  BY <1>1, <1>6, <1>7, <1>8

(* What the answer of the socket's adder does.                                *)
LEMMA AddedInAsks ==
  ASSUME NEW x, Asked(x), Content(x), NEW err \in LoopErrors
  PROVE  LET y == added(x, "in", err) IN Asked(y) /\ Content(y) /\ SameTurn(x, y)
<1> DEFINE p == "in"
           y == [x EXCEPT !.pipe[p].errA = "ok"]
           v == [y EXCEPT !.pipe[p].waitA = TRUE]
           w == [x EXCEPT !.pipe[p].errA = err]
           z == Again(y)
<1>1. added(x, p, err) \in
        {after_add(v, p), after_add(y, p), z, after_add(w, p),
         done(x, p, "failed"), done(x, p, "ok"), done(x, p, "nobufs"), done(x, p, err)}
  BY DEF added, LoopErrors
<1>2. {"ok", "failed", "nobufs", err} \subseteq Errors /\ p \in Pipes
  BY DEF Errors, LoopErrors, Pipes
<1> DEFINE Near(u, t) ==
             /\ Talk(u) /\ u.queue = t.queue /\ u.local = t.local
             /\ u.run.at = t.run.at /\ u.run.pipe = t.run.pipe
             /\ \A q \in Pipes : /\ u.pipe[q].consumer = t.pipe[q].consumer
                                 /\ u.pipe[q].adder = t.pipe[q].adder
                                 /\ q = "out" => u.pipe[q].waitA = t.pipe[q].waitA
                                 /\ u.pipe[q].buf = t.pipe[q].buf
<1>3. Near(y, x) /\ Near(w, x)
  BY <1>2 DEF Asked, Talk, Shape, Fields, PipeFields
<1> HIDE DEF y, w
<1>4. Near(v, y)
  <2>1. /\ DOMAIN y = Fields /\ DOMAIN y.pipe = Pipes
        /\ \A q \in Pipes : DOMAIN y.pipe[q] = PipeFields
    BY <1>3 DEF Talk, Shape
  <2>2. Talk(v) /\ v.queue = y.queue /\ v.local = y.local /\ v.run = y.run
    BY <1>3 DEF Talk, Shape, Fields, PipeFields
  <2>3. \A q \in Pipes : q # p => v.pipe[q] = y.pipe[q]
    BY <2>1 DEF Fields
  <2>4. /\ v.pipe[p].consumer = y.pipe[p].consumer /\ v.pipe[p].adder = y.pipe[p].adder
        /\ v.pipe[p].buf = y.pipe[p].buf
    BY <1>2, <2>1 DEF Fields, PipeFields
  <2> HIDE DEF v
  <2>5. QED
    BY <2>2, <2>3, <2>4
<1>5. Near(z, y)
  BY <1>3 DEF Again, Talk, Shape, Fields, PipeFields
<1> HIDE DEF v, z, p
<1>6. ASSUME NEW u \in {y, v, w, z} PROVE Asked(u) /\ Content(u) /\ SameTurn(x, u)
  <2>1. Near(u, x)
    BY <1>3, <1>4, <1>5
  <2>2. Unmoved(x, u)
    BY <2>1 DEF Unmoved, Pipes
  <2>3. QED
    BY <2>1, <2>2, UnmovedAsks DEF SameTurn, Asks
<1>7. ASSUME NEW u \in {y, v, w}
      PROVE  Asked(after_add(u, p)) /\ Content(after_add(u, p)) /\ SameTurn(x, after_add(u, p))
  <2>1. Asked(u) /\ Content(u) /\ SameTurn(x, u)
    BY <1>6, <1>7
  <2>2. QED
    BY <1>2, <2>1, AfterAddAsks DEF Asks, SameTurn
<1>8. ASSUME NEW e \in Errors
      PROVE  Asked(done(x, p, e)) /\ Content(done(x, p, e)) /\ SameTurn(x, done(x, p, e))
  BY <1>2, DoneAsks DEF Asks, SameTurn
<1>9. QED
  BY <1>1, <1>2, <1>6, <1>7, <1>8 DEF p

(* What the answer of the streamed adder does.                                *)
LEMMA AddedOutAsks ==
  ASSUME NEW x, Asked(x), NEW err \in {"ok", "again"}, x.run.at = "add", x.run.pipe = "out",
         x.run.loop \in Nat,
         err = "ok" => /\ x.local.nested = "none"
                       /\ x.run.loop = 0 \/ (x.run.loop = 1 /\ ~x.local.sent)
  PROVE  LET y == added(x, "out", err) IN Asked(y) /\ Turn(y)
<1> DEFINE p == "out"
           y == [x EXCEPT !.pipe[p].errA = "ok"]
           v == [y EXCEPT !.pipe[p].waitA = TRUE]
           z == Again(y)
<1>1. /\ err = "again" => added(x, p, err) = after_add(v, p)
      /\ err = "ok" => added(x, p, err) \in {z, done(x, p, "failed")}
  BY DEF added
<1>2. "failed" \in Errors /\ p \in Pipes
  BY DEF Errors, Pipes
<1>3. /\ Talk(y) /\ y.queue = x.queue /\ y.local = x.local /\ y.run = x.run
      /\ \A q \in Pipes : /\ y.pipe[q].consumer = x.pipe[q].consumer
                          /\ y.pipe[q].adder = x.pipe[q].adder
                          /\ y.pipe[q].waitA = x.pipe[q].waitA
  BY <1>2 DEF Asked, Talk, Shape, Fields, PipeFields, Errors
<1> HIDE DEF y
<1>4. Asked(y)
  BY <1>3 DEF Asked, Pipes
<1>5. /\ Talk(v) /\ v.queue = y.queue /\ v.local = y.local /\ v.run = y.run
      /\ \A q \in Pipes : /\ v.pipe[q].consumer = y.pipe[q].consumer
                          /\ v.pipe[q].adder = y.pipe[q].adder
      /\ v.pipe[p].waitA = TRUE
  BY <1>2, <1>3 DEF Talk, Shape, Fields, PipeFields
<1>6. /\ Talk(z) /\ z.queue = y.queue /\ z.local = y.local /\ z.pipe = y.pipe
      /\ z.run.at = "add" /\ z.run.pipe = "out" /\ z.run.loop = x.run.loop + 1
  BY <1>3 DEF Again, Talk, Shape, Fields
<1> HIDE DEF v, z, p
<1>7. Asked(v) /\ Content(v)
  BY <1>2, <1>4, <1>5 DEF Asked, Content, Pipes, p
<1>8. Asked(after_add(v, p)) /\ Turn(after_add(v, p))
  BY <1>2, <1>7, AfterAddAsks DEF Asks, Turn, Calm
<1>9. err = "ok" => Asked(z) /\ Turn(z)
  BY <1>3, <1>4, <1>6 DEF Asked, Turn, Adding
<1>10. Asked(done(x, p, "failed")) /\ Turn(done(x, p, "failed"))
  BY <1>2, DoneAsks DEF Asks, Turn, Calm, Content, p
<1>11. QED
  BY <1>1, <1>8, <1>9, <1>10 DEF p

-----------------------------------------------------------------------------
(* The steps *)

(* Who is asked in a turn of the loop of a control connection.                *)
LEMMA WhoIsAsked ==
  ASSUME NEW x, x.use = "control", NEW p \in Pipes
  PROVE  /\ \A r \in AddToBuffer(x, p) :
              r = IF p = "in" THEN socket_read(x) ELSE add_streamed(x)
         /\ \A r \in ConsumeBuffer(x, p) :
              IF p = "out" THEN \E flushed \in BOOLEAN : r = socket_write(x, flushed)
              ELSE r \in consume_line(x)
<1>1. p \in {"in", "out"}
  BY DEF Pipes
<1>2. ASSUME NEW r \in AddToBuffer(x, p)
      PROVE  r = IF p = "in" THEN socket_read(x) ELSE add_streamed(x)
  <2>1. CASE p = "in"
    BY <1>2, <2>1 DEF AddToBuffer
  <2>2. CASE p = "out"
    BY <1>2, <2>2 DEF AddToBuffer
  <2>3. QED
    BY <1>1, <2>1, <2>2
<1>3. ASSUME NEW r \in ConsumeBuffer(x, p)
      PROVE  IF p = "out" THEN \E flushed \in BOOLEAN : r = socket_write(x, flushed)
             ELSE r \in consume_line(x)
  <2>1. CASE p = "in"
    BY <1>3, <2>1 DEF ConsumeBuffer
  <2>2. CASE p = "out"
    <3>1. \E flushed \in BOOLEAN : r = socket_write(x, flushed)
      BY <1>3, <2>2 DEF ConsumeBuffer
    <3>2. QED
      BY <2>2, <3>1
  <2>3. QED
    BY <1>1, <2>1, <2>2
<1>4. QED
  BY <1>2, <1>3

(* What a turn of a loop does.                                                *)
LEMMA TurnAsks ==
  ASSUME Speaking, Asked(s), Turn(s), 2 < MaxLoops, AddStep \/ ConsumeStep
  PROVE  Asked(s') /\ Turn(s')
<1> DEFINE p == s.run.pipe
<1>1. p \in Pipes /\ s.use = "control" /\ Talk(s) /\ "in" \in Pipes /\ "out" \in Pipes
  BY DEF Speaking, Talk, Shape, Pipes
<1>2. ASSUME NEW y, Content(y), y.run.at = "idle" PROVE Turn(y)
  BY <1>2 DEF Turn, Calm
<1>3. CASE AddStep /\ p = "in"
  <2>1. Content(s) /\ s.run.at = "add"
    BY <1>3 DEF AddStep, Turn
  <2>2. \/ s' = after_add(s, "in")
        \/ s' = added(socket_read(s)[2], "in", socket_read(s)[1])
    <3>1. ASSUME NEW r \in AddToBuffer(s, p) PROVE r = socket_read(s)
      BY <1>1, <1>3, <3>1, WhoIsAsked
    <3>2. s' = after_add(s, "in") \/ \E r \in AddToBuffer(s, p) : s' = added(r[2], "in", r[1])
      BY <1>3 DEF AddStep
    <3>3. QED
      BY <3>1, <3>2
  <2>3. CASE s' = after_add(s, "in")
    <3>1. Asks(s, s') /\ s'.run.at = "idle"
      BY <1>1, <2>3, AfterAddAsks
    <3>2. QED
      BY <1>2, <2>1, <3>1 DEF Asks
  <2>4. CASE s' = added(socket_read(s)[2], "in", socket_read(s)[1])
    <3> DEFINE r == socket_read(s)
               x == r[2]
               err == r[1]
    <3>1. Asked(x) /\ Content(x) /\ SameTurn(s, x) /\ err \in LoopErrors
      BY <1>1, <2>1, SocketReadAsks, SocketReadTalks
    <3>2. s' = added(x, "in", err)
      BY <2>4
    <3> HIDE DEF x, err
    <3>3. Asked(s') /\ Content(s') /\ SameTurn(x, s')
      BY <3>1, <3>2, AddedInAsks
    <3>4. s'.run.pipe = "in" /\ s'.run.at \in {"add", "idle"}
      BY <1>3, <2>1, <3>1, <3>3 DEF SameTurn
    <3>5. QED
      BY <3>3, <3>4 DEF Turn, Calm
  <2>5. QED
    BY <2>2, <2>3, <2>4
<1>4. CASE AddStep /\ p = "out"
  <2>1. Adding(s) /\ s.run.at = "add"
    BY <1>4 DEF AddStep, Turn
  <2>2. CASE ~s.pipe["out"].adder
    <3>1. s' = after_add(s, "out") /\ Content(s)
      BY <1>4, <2>2 DEF AddStep, Content
    <3>2. Asks(s, s') /\ s'.run.at = "idle"
      BY <1>1, <3>1, AfterAddAsks
    <3>3. QED
      BY <1>2, <3>1, <3>2 DEF Asks
  <2>3. CASE s.pipe["out"].adder
    <3> DEFINE r == add_streamed(s)
               x == r[2]
               err == r[1]
    <3>1. s.run.loop \in 0..2 /\ MaxLoops \in Nat
      BY <2>1, <2>3, ChannelAssumption DEF Adding
    <3>2. s.run.loop # MaxLoops
      BY <3>1
    <3>3. s' = added(x, "out", err)
      BY <1>1, <1>4, <2>3, <3>2, WhoIsAsked DEF AddStep
    <3>4. /\ Asked(x) /\ x.run = s.run /\ x.pipe["out"].adder /\ err \in {"ok", "again"}
          /\ err = "ok" => /\ x.local.nested = "none"
                           /\ s.run.loop = 0 \/ (s.run.loop = 1 /\ ~x.local.sent)
      BY <2>1, <2>3, AddStreamedAsks
    <3> HIDE DEF x, err
    <3>5. x.run.at = "add" /\ x.run.pipe = "out" /\ x.run.loop \in Nat
      BY <1>4, <2>1, <3>1, <3>4, SMTT(30)
    <3>6. QED
      BY <3>3, <3>4, <3>5, AddedOutAsks
  <2>4. QED
    BY <2>2, <2>3
<1>5. CASE ConsumeStep
  <2>1. Calm(s) /\ s.run.at = "consume"
    BY <1>5, Zenon DEF ConsumeStep, Turn
  <2>2. ASSUME NEW x, NEW y, Calm(y), SameTurn(s, x), SameTurn(x, y) PROVE Turn(y)
    <3>1. y.run.at \in {"consume", "idle"}
      BY <2>1, <2>2 DEF SameTurn
    <3>2. QED
      BY <2>2, <3>1 DEF Turn
  <2>3. CASE s' = after_consume(s, p)
    <3>1. Asked(s') /\ Calm(s') /\ SameTurn(s, s')
      BY <1>1, <2>1, <2>3, AfterConsumeAsks
    <3>2. SameTurn(s, s)
      BY DEF SameTurn
    <3>3. QED
      BY <2>2, <3>1, <3>2
  <2>4. CASE /\ s.pipe[p].consumer /\ s.pipe[p].buf # <<>>
             /\ \E r \in ConsumeBuffer(s, p) : s' = consumed(r[2], p, r[1])
    <3>1. PICK r \in ConsumeBuffer(s, p) : s' = consumed(r[2], p, r[1])
      BY <2>4
    <3>2. Asked(r[2]) /\ Calm(r[2]) /\ SameTurn(s, r[2]) /\ r[1] \in LoopErrors
      <4>1. CASE p = "out"
        <5>1. PICK flushed \in BOOLEAN : r = socket_write(s, flushed)
          BY <1>1, <3>1, <4>1, WhoIsAsked
        <5>2. QED
          BY <1>1, <2>1, <5>1, SocketWriteAsks, SocketWriteTalks DEF Asks
      <4>2. CASE p = "in"
        <5>1. r \in consume_line(s) /\ s.pipe["in"].consumer /\ s.pipe["in"].buf # <<>>
          BY <1>1, <2>4, <3>1, <4>2, WhoIsAsked DEF Pipes
        <5>2. Content(s)
          BY <2>1, <5>1 DEF Calm
        <5>3. Asked(r[2]) /\ Content(r[2]) /\ SameTurn(s, r[2])
          BY <5>1, <5>2, ConsumeLineAsks
        <5>4. QED
          BY <1>1, <5>1, <5>3, ConsumeLineTalks DEF Calm
      <4>3. QED
        BY <1>1, <4>1, <4>2 DEF Pipes
    <3> DEFINE x == r[2]
    <3>3. Asked(s') /\ Calm(s') /\ SameTurn(x, s')
      BY <1>1, <3>1, <3>2, ConsumedAsks
    <3>4. QED
      BY <2>2, <3>2, <3>3
  <2>5. QED
    BY <1>5, <2>3, <2>4, ZenonT(60) DEF ConsumeStep
<1>6. QED
  BY <1>1, <1>3, <1>4, <1>5 DEF Pipes

Consumers == {<<p, "consumer">> : p \in Pipes}

(* What is left when the first event is taken: the call of an adder that may  *)
(* ask its lister; a result with no call left behind it.                      *)
LEMMA TakenAsks ==
  ASSUME Asked(s), Calm(s), s.queue # <<>>
  PROVE  LET t  == Taken
             to == Head(s.queue).to
         IN /\ Asked(t) /\ t.local = s.local /\ t.pipe = s.pipe /\ t.run = s.run /\ t.use = s.use
            /\ to \in Consumers => Calm(t)
            /\ to \notin Consumers \cup {Called} => Content(t)
            /\ to = Result =>
                 /\ At(t.queue, Result) = {} /\ t.local.nested = "none"
                 /\ t.local.busy \/ ~t.pipe["in"].consumer
                 /\ t.local.busy /\ t.pipe["out"].adder => At(t.queue, Called) = {}
            /\ to = Listed => At(t.queue, Listed) = {} /\ t.local.nested = "reading"
            /\ to = Called /\ t.pipe["out"].adder =>
                 /\ t.local.nested # "reading"
                 /\ t.local.nested = "idle" => At(t.queue, Called) = {}
<1> DEFINE t == Taken
           q == s.queue
           r == Tail(q)
           to == Head(q).to
           f == [k \in DOMAIN r |-> k + 1]
           n == s.local.nested
           b == s.local.busy
           l == s.pipe["in"].consumer
           a == s.pipe["out"].adder
<1>1. q \in Seq(TalkEvent) /\ q # <<>> /\ Lined(q, n, b, l, a)
  BY DEF Asked, Talk
<1>2. /\ r \in Seq(TalkEvent) /\ 1 \in DOMAIN q /\ q[1] = Head(q)
      /\ \A k \in DOMAIN r : k \in Nat /\ k + 1 \in DOMAIN q /\ r[k] = q[k + 1] /\ k + 1 # 1
      /\ \A j \in DOMAIN q : j \in Nat /\ (j # 1 => 1 < j /\ j - 1 \in DOMAIN r /\ (j - 1) + 1 = j)
  BY <1>1
<1>3. /\ Talk(t) /\ t.queue = r /\ t.local = s.local /\ t.pipe = s.pipe /\ t.run = s.run
      /\ t.use = s.use
  BY <1>2 DEF Asked, Talk, Shape, Fields, Taken
<1>4. Among(q, r, f)
  <2>1. \A k \in DOMAIN r : f[k] = k + 1
    OBVIOUS
  <2> HIDE DEF f, r, q
  <2>2. \A k \in DOMAIN r : f[k] \in DOMAIN q /\ q[f[k]] = r[k]
    BY <1>2, <2>1
  <2>3. \A k, m \in DOMAIN r : k < m => f[k] < f[m]
    BY <1>2, <2>1
  <2>4. QED
    BY <2>2, <2>3 DEF Among
<1>5. Lined(r, n, b, l, a)
  BY <1>1, <1>2, <1>4, InOrderLined
<1>6. Asked(t)
  BY <1>3, <1>5 DEF Asked
<1>7. \A d : \A k \in At(r, d) : k + 1 \in At(q, d) /\ k + 1 # 1 /\ k \in Nat
  BY <1>2 DEF At
<1>8. 1 \in At(q, to)
  BY <1>2 DEF At
<1>9. \A d : (\A i, j \in At(q, d) : i = j) /\ d = to => At(r, d) = {}
  BY <1>7, <1>8
<1>10. First(q) => to \in Consumers \cup {Called}
  <2> SUFFICES ASSUME First(q), to \notin Consumers PROVE to = Called
    OBVIOUS
  <2>1. PICK j \in At(q, Called) : \A i \in DOMAIN q : i < j => q[i].to \in Consumers
    BY DEF First, Consumers
  <2>2. ~(1 < j) /\ j \in DOMAIN q
    BY <1>2, <2>1 DEF At
  <2>3. j = 1
    BY <1>2, <2>2
  <2>4. QED
    BY <1>2, <2>1, <2>3 DEF At
<1>11. First(q) /\ to \in Consumers => First(r)
  <2> SUFFICES ASSUME First(q), to \in Consumers PROVE First(r)
    OBVIOUS
  <2>1. PICK j \in At(q, Called) : \A i \in DOMAIN q : i < j => q[i].to \in Consumers
    BY DEF First, Consumers
  <2>2. j \in DOMAIN q /\ q[j].to = Called
    BY <2>1 DEF At
  <2>3. Called \notin Consumers
    BY DEF Called, Consumers, Pipes
  <2>4. j # 1
    BY <1>2, <2>2, <2>3
  <2>5. j - 1 \in At(r, Called)
    BY <1>2, <2>2, <2>4 DEF At
  <2>6. ASSUME NEW i \in DOMAIN r, i < j - 1 PROVE r[i].to \in Consumers
    <3> HIDE DEF q, r
    <3>1. i + 1 \in DOMAIN q /\ i + 1 < j /\ r[i] = q[i + 1]
      BY <1>2, <2>2, <2>6
    <3>2. QED
      BY <2>1, <3>1
  <2>7. QED
    BY <2>5, <2>6 DEF First, Consumers
<1>12. Calm(s) /\ (to \in Consumers => Calm(t)) /\ (to \notin Consumers \cup {Called} => Content(t))
  BY <1>3, <1>10, <1>11 DEF Calm, Content
<1>13. to = Result =>
         /\ At(r, Result) = {} /\ n = "none" /\ (b \/ ~l)
         /\ b /\ a => At(r, Called) = {}
  <2> SUFFICES ASSUME to = Result
               PROVE  /\ At(r, Result) = {} /\ n = "none" /\ (b \/ ~l)
                      /\ b /\ a => At(r, Called) = {}
    OBVIOUS
  <2>1. At(r, Result) = {} /\ At(q, Result) # {}
    BY <1>1, <1>8, <1>9 DEF Lined
  <2>2. ASSUME b, a, NEW k \in At(r, Called) PROVE FALSE
    <3>1. k + 1 \in At(q, Called) /\ k \in Nat
      BY <1>7, <2>2
    <3>2. k + 1 < 1
      BY <1>1, <1>8, <2>2, <3>1 DEF Lined
    <3>3. QED
      BY <3>1, <3>2
  <2>3. QED
    BY <1>1, <2>1, <2>2 DEF Lined
<1>14. to = Listed => At(r, Listed) = {} /\ n = "reading"
  BY <1>1, <1>8, <1>9 DEF Lined
<1>15. to = Called /\ a => n # "reading" /\ (n = "idle" => At(r, Called) = {})
  BY <1>1, <1>8, <1>9 DEF Lined
<1> HIDE DEF t, r
<1>16. QED
  BY <1>3, <1>6, <1>12, <1>13, <1>14, <1>15 DEF t

(* Between two events it is calm, or becomes so because the adder waits.      *)
LEMMA TurnFacts ==
  ASSUME NEW y, y.run.at = "idle" PROVE (Turn(y) <=> Calm(y)) /\ (Content(y) => Turn(y))
BY DEF Turn, Calm

(* Who an event goes to.                                                      *)
LEMMA WhoIsMeant ==
  /\ \A p \in Pipes : /\ <<p, "consumer">> \in Consumers \ {Result, Listed, Called}
                      /\ <<p, "done">> \notin Consumers \cup {Result, Listed, Called}
  /\ <<"in", "adder">> \notin Consumers \cup {Result, Listed, Called}
  /\ \A k \in {"read", "write", "shutdown"} :
       <<"socket", k>> \notin Consumers \cup {Result, Listed, Called}
  /\ <<"channel", "done">> \notin Consumers \cup {Result, Listed, Called}
  /\ <<"commander", "timer">> \notin Consumers \cup {Result, Listed, Called}
  /\ Result \notin Consumers \cup {Listed, Called} /\ Listed \notin Consumers \cup {Called}
  /\ <<"out", "adder">> = Called
BY DEF Consumers, Result, Listed, Called, Pipes

(* The events of the pipes.                                                   *)
LEMMA PipeAsks ==
  ASSUME Speaking, Asked(s), Turn(s), NEW p \in Pipes,
         AdderEvent(p) \/ ConsumerEvent(p) \/ PipeDone(p)
  PROVE  Asked(s') /\ Turn(s')
<1> DEFINE t == Taken
           err == Head(s.queue).err
           to == Head(s.queue).to
<1>1. s.queue # <<>> /\ s.run.at = "idle"
  BY DEF AdderEvent, ConsumerEvent, PipeDone, Dispatched
<1>2. Calm(s) /\ "in" \in Pipes /\ "out" \in Pipes
  BY <1>1, TurnFacts DEF Pipes
<1>3. /\ Asked(t) /\ Talk(t) /\ t.run.at = "idle" /\ err \in Errors
      /\ to \in Consumers => Calm(t)
      /\ to \notin Consumers \cup {Called} => Content(t)
      /\ to = Called /\ t.pipe["out"].adder =>
           /\ t.local.nested # "reading"
           /\ t.local.nested = "idle" => At(t.queue, Called) = {}
  BY <1>1, <1>2, TakenAsks, TakenTalks DEF Asked
<1>4. CASE AdderEvent(p)
  <2> DEFINE x == [t EXCEPT !.pipe[p].waitA = FALSE]
             y == [x EXCEPT !.run = [at |-> "add", pipe |-> p, loop |-> 0]]
  <2>1. to = <<p, "adder">> /\ s' \in {done(t, p, err), done(x, p, x.pipe[p].errA), y}
    BY <1>4 DEF AdderEvent, Dispatched
  <2> HIDE DEF t, to
  <2>2. /\ Talk(x) /\ x.queue = t.queue /\ x.local = t.local /\ x.pipe[p].errA \in Errors
        /\ x.pipe["in"].consumer = t.pipe["in"].consumer
        /\ x.pipe["out"].adder = t.pipe["out"].adder
        /\ p = "in" => x.pipe["out"].waitA = t.pipe["out"].waitA
    BY <1>2, <1>3 DEF Talk, Shape, Fields, PipeFields, Pipes
  <2>3. Asked(x) /\ (p = "in" /\ Content(t) => Content(x))
    BY <1>3, <2>2 DEF Asked, Content
  <2>4. /\ Talk(y) /\ y.queue = x.queue /\ y.local = x.local /\ y.pipe = x.pipe
        /\ y.run = [at |-> "add", pipe |-> p, loop |-> 0]
    BY <2>2 DEF Talk, Shape, Fields
  <2> HIDE DEF x, y
  <2>5. Asked(y) /\ (Content(x) => Content(y))
    BY <2>3, <2>4 DEF Asked, Content
  <2>6. CASE p = "in"
    <3>1. Content(t)
      BY <1>3, <2>1, <2>6, WhoIsMeant
    <3>2. Asks(t, done(t, p, err)) /\ done(t, p, err).run.at = "idle"
      BY <1>3, DoneAsks
    <3>3. Asks(x, done(x, p, x.pipe[p].errA)) /\ done(x, p, x.pipe[p].errA).run.at = "idle"
      BY <2>2, <2>3, DoneAsks
    <3>4. Turn(y)
      BY <2>3, <2>4, <2>5, <2>6, <3>1 DEF Turn
    <3>5. QED
      BY <2>1, <2>3, <2>5, <2>6, <3>1, <3>2, <3>3, <3>4, TurnFacts DEF Asks
  <2>7. CASE p = "out"
    <3>1. to = Called
      BY <2>1, <2>7, WhoIsMeant
    <3>2. /\ Asks(t, done(t, p, err)) /\ done(t, p, err).run.at = "idle"
          /\ done(t, p, err).pipe["out"].adder = FALSE
      BY <1>3, <2>7, DoneAsks
    <3>3. /\ Asks(x, done(x, p, x.pipe[p].errA)) /\ done(x, p, x.pipe[p].errA).run.at = "idle"
          /\ done(x, p, x.pipe[p].errA).pipe["out"].adder = FALSE
      BY <2>2, <2>3, <2>7, DoneAsks
    <3>4. Turn(y)
      BY <1>3, <2>2, <2>4, <2>7, <3>1 DEF Turn, Adding
    <3>5. QED
      BY <2>1, <2>5, <3>2, <3>3, <3>4, TurnFacts DEF Asks, Content
  <2>8. QED
    BY <2>6, <2>7 DEF Pipes
<1>5. CASE ConsumerEvent(p)
  <2> DEFINE x == [t EXCEPT !.pipe[p].waitC = FALSE]
             y == [x EXCEPT !.run = [at |-> "consume", pipe |-> p, loop |-> 0]]
             z == [t EXCEPT !.pipe[p].waitC = FALSE,
                            !.run = [at |-> "consume", pipe |-> p, loop |-> 0]]
  <2>1. to = <<p, "consumer">> /\ s' \in {done(t, p, err), z}
    BY <1>5 DEF ConsumerEvent, Dispatched
  <2> HIDE DEF t
  <2>2. z = y
    BY <1>3 DEF Talk, Shape, Fields
  <2> HIDE DEF z
  <2>3. Calm(t)
    BY <1>3, <2>1, WhoIsMeant
  <2>4. Asks(t, done(t, p, err)) /\ done(t, p, err).run.at = "idle"
    BY <1>3, DoneAsks
  <2>5. Talk(x) /\ Unmoved(t, x) /\ x.queue = t.queue
    BY <1>2, <1>3, ZenonT(60) DEF Talk, Shape, Fields, PipeFields, Pipes, Unmoved
  <2>6. Asks(t, x)
    BY <1>3, <2>5, UnmovedAsks
  <2>7. Talk(y) /\ y.queue = x.queue /\ y.pipe = x.pipe /\ y.local = x.local /\ y.run.at = "consume"
    BY <1>2, <2>5 DEF Talk, Shape, Fields
  <2> HIDE DEF x, y
  <2>8. Asks(x, y)
    <3>1. DOMAIN y.local = LocalFields
      BY <2>6, <2>7 DEF Asks, Asked
    <3>2. QED
      BY <2>6, <2>7, <3>1, ElseAsks DEF Asks
  <2>9. QED
    BY <2>1, <2>2, <2>3, <2>4, <2>6, <2>7, <2>8, TurnFacts DEF Asks, Turn
<1>6. CASE PipeDone(p)
  <2> DEFINE x == clear(t, Other(p))
             y == Disconnected(x)
             z == Post(y, <<"channel", "done">>, err)
  <2>1. Other(p) \in Pipes
    BY DEF Other, Pipes
  <2>2. to = <<p, "done">> /\ s' \in {z, x}
    BY <1>6 DEF PipeDone, Dispatched
  <2>3. Content(t)
    BY <1>3, <2>2, WhoIsMeant
  <2> HIDE DEF t
  <2>4. Asks(t, x) /\ SameTurn(t, x)
    BY <1>3, <2>1, ClearAsks
  <2> HIDE DEF x
  <2>5. Asks(x, y) /\ SameTurn(x, y)
    BY <2>4, DisconnectedAsks DEF Asks
  <2> HIDE DEF y
  <2>6. <<"channel", "done">> \in TalkTo \ {Result, Listed, Called}
    BY WhoIsMeant, ToFacts
  <2>7. Asks(y, z) /\ SameTurn(y, z)
    BY <1>3, <2>5, <2>6, PostAsks, NotifyTurns DEF Asks
  <2>8. x.run.at = "idle" /\ z.run.at = "idle"
    BY <1>3, <2>4, <2>5, <2>7 DEF SameTurn
  <2>9. QED
    BY <2>2, <2>3, <2>4, <2>5, <2>7, <2>8, TurnFacts DEF Asks
<1>7. QED
  BY <1>4, <1>5, <1>6

(* The events of the socket: whoever waits goes on waiting.                   *)
LEMMA SocketAsks ==
  ASSUME Speaking, Asked(s), Turn(s), SocketRead \/ SocketWrite \/ ShutdownEvent
  PROVE  Asked(s') /\ Turn(s')
<1> DEFINE t == Taken
           err == Head(s.queue).err
           v == [t EXCEPT !.sa.waitR = FALSE]
           w == [t EXCEPT !.sa.waitW = FALSE]
<1>1. s.queue # <<>> /\ s.run.at = "idle" /\ \E k \in {"read", "write", "shutdown"} :
        Head(s.queue).to = <<"socket", k>>
  BY DEF SocketRead, SocketWrite, ShutdownEvent, Dispatched
<1>2. Calm(s) /\ "in" \in Pipes /\ "out" \in Pipes
  BY <1>1, TurnFacts DEF Pipes
<1>3. Asked(t) /\ Talk(t) /\ t.run.at = "idle" /\ err \in Errors /\ Content(t)
  BY <1>1, <1>2, TakenAsks, TakenTalks, WhoIsMeant DEF Asked
<1>4. \/ s' \in {v, NotifyAdder(v, "in", err), NotifyConsumer(w, "out", err)}
      \/ s' = on_shutdown_event(w, TRUE)
      \/ \E flushed \in BOOLEAN : s' = on_shutdown_event(t, flushed)
  BY DEF SocketRead, SocketWrite, ShutdownEvent
<1> HIDE DEF t, err
<1>5. \A x \in {v, w} : /\ Talk(x) /\ x.queue = t.queue /\ x.pipe = t.pipe /\ x.local = t.local
                        /\ x.run = t.run
  BY <1>3 DEF Talk, Shape, Fields
<1> HIDE DEF v, w
<1>6. \A x \in {v, w} : Asks(t, x) /\ SameTurn(t, x)
  BY <1>3, <1>5, ElseAsks DEF Asked, SameTurn
<1>7. ASSUME NEW x, NEW y, Asks(t, x), SameTurn(t, x), Asks(x, y), SameTurn(x, y)
      PROVE  Asked(y) /\ Turn(y)
  <2>1. y.run.at = "idle" /\ Content(y) /\ Asked(y)
    BY <1>3, <1>7 DEF Asks, SameTurn
  <2>2. QED
    BY <2>1, TurnFacts
<1>8. \A x : Asked(x) => Asks(x, x) /\ SameTurn(x, x)
  BY DEF Asks, SameTurn
<1>9. CASE s' = v
  BY <1>6, <1>7, <1>8, <1>9 DEF Asks
<1>10. CASE s' \in {NotifyAdder(v, "in", err), NotifyConsumer(w, "out", err)}
  <2>1. /\ Asks(v, NotifyAdder(v, "in", err)) /\ SameTurn(v, NotifyAdder(v, "in", err))
        /\ Asks(w, NotifyConsumer(w, "out", err)) /\ SameTurn(w, NotifyConsumer(w, "out", err))
    BY <1>2, <1>3, <1>6, NotifyAsks, NotifyTurns DEF Asks
  <2>2. QED
    BY <1>6, <1>7, <1>10, <2>1
<1>11. CASE s' = on_shutdown_event(w, TRUE)
  BY <1>6, <1>7, <1>11, OnShutdownAsks DEF Asks
<1>12. CASE \E flushed \in BOOLEAN : s' = on_shutdown_event(t, flushed)
  BY <1>3, <1>7, <1>8, <1>12, OnShutdownAsks
<1>13. QED
  BY <1>4, <1>9, <1>10, <1>11, <1>12

(* A result: its command is over, or lists.                                   *)
LEMMA ResultAsks ==
  ASSUME Speaking, Asked(s), Turn(s), CommandEnds PROVE Asked(s') /\ Turn(s')
<1> DEFINE t == Taken
           y == respond(t)
           z == [y EXCEPT !.local.nested = "idle", !.local.entries = Entries]
<1>1. /\ s.queue # <<>> /\ s.run.at = "idle" /\ Head(s.queue).to = Result
      /\ \/ s' = t
         \/ s.local.busy /\ s' = act_upon_command_reply(y)
         \/ s.local.busy /\ s' = z
  BY DEF CommandEnds, Dispatched, Result
<1>2. Calm(s)
  BY <1>1, TurnFacts
<1>3. /\ Asked(t) /\ t.run.at = "idle" /\ Content(t) /\ t.local = s.local
      /\ At(t.queue, Result) = {} /\ t.local.nested = "none"
      /\ t.local.busy /\ t.pipe["out"].adder => At(t.queue, Called) = {}
  BY <1>1, <1>2, TakenAsks, WhoIsMeant
<1> HIDE DEF t
<1>4. CASE s' = t
  BY <1>3, <1>4, TurnFacts
<1>5. MayCall(t)
  BY <1>3 DEF MayCall
<1>6. /\ Asked(y) /\ Content(y) /\ y.run.at = "idle"
      /\ At(y.queue, Result) = {} /\ At(y.queue, Listed) = At(t.queue, Listed)
      /\ At(t.queue, Called) = {} => \A i, j \in At(y.queue, Called) : i = j
      /\ y.local.nested = "none" /\ y.local.busy = s.local.busy
      /\ y.pipe["in"] = t.pipe["in"] /\ y.pipe["out"].adder = t.pipe["out"].adder
  BY <1>3, <1>5, RespondAsks
<1>7. CASE s' = act_upon_command_reply(y)
  <2>1. Asked(s') /\ Content(s') /\ s'.run = y.run
    BY <1>6, <1>7, CommandOverAsks
  <2>2. QED
    BY <1>6, <2>1, TurnFacts
<1>8. CASE s.local.busy /\ s' = z
  <2> HIDE DEF y
  <2>1. /\ Talk(z) /\ DOMAIN z.local = LocalFields /\ z.queue = y.queue /\ z.pipe = y.pipe
        /\ z.run = y.run /\ z.local.nested = "idle" /\ z.local.busy = y.local.busy
    BY <1>6 DEF Asked, Talk, Shape, Fields, LocalFields
  <2>2. At(y.queue, Listed) = {}
    BY <1>6 DEF Asked, Lined
  <2>3. Lined(y.queue, "idle", y.local.busy, y.pipe["in"].consumer, y.pipe["out"].adder)
    BY <1>3, <1>6, <1>8, <2>2 DEF Asked, Lined
  <2> HIDE DEF z
  <2>4. Asked(z) /\ Content(z) /\ z.run.at = "idle"
    BY <1>6, <2>1, <2>3 DEF Asked, Content
  <2>5. QED
    BY <1>8, <2>4, TurnFacts
<1>9. QED
  BY <1>1, <1>4, <1>7, <1>8

(* Entries: the lister may be asked for more, once.                           *)
LEMMA EntriesAsk ==
  ASSUME Speaking, Asked(s), Turn(s), EntriesArrive PROVE Asked(s') /\ Turn(s')
<1> DEFINE t == Taken
           b == Append(t.pipe["out"].buf, "c")
           m == t.local.entries - 1
           c == [t EXCEPT !.pipe["out"].buf = b, !.local.nested = "idle", !.local.entries = m]
<1>1. /\ s.queue # <<>> /\ s.run.at = "idle" /\ Head(s.queue).to = Listed
      /\ s' = NotifyAdder(c, "out", "ok")
  BY DEF EntriesArrive, Dispatched, Listed
<1>2. Calm(s)
  BY <1>1, TurnFacts
<1>3. /\ Asked(t) /\ t.run.at = "idle" /\ Content(t)
      /\ At(t.queue, Listed) = {} /\ t.local.nested = "reading"
  BY <1>1, <1>2, TakenAsks, WhoIsMeant
<1> HIDE DEF t, b, m
<1>4. /\ Talk(c) /\ DOMAIN c.local = LocalFields /\ c.queue = t.queue /\ c.run = t.run
      /\ c.local.nested = "idle" /\ c.local.busy = t.local.busy
      /\ c.pipe["in"] = t.pipe["in"] /\ c.pipe["out"].adder = t.pipe["out"].adder
      /\ c.pipe["out"].waitA = t.pipe["out"].waitA
  BY <1>3 DEF Asked, Talk, Shape, Fields, PipeFields, Pipes, LocalFields
<1> HIDE DEF c
<1>5. /\ At(c.queue, Result) = {} /\ At(c.queue, Listed) = {}
      /\ c.pipe["out"].adder => At(c.queue, Called) = {}
      /\ c.local.busy
  BY <1>3, <1>4 DEF Asked, Lined
<1>6. Lined(c.queue, "idle", c.local.busy, c.pipe["in"].consumer, c.pipe["out"].adder)
  BY <1>5 DEF Lined
<1>7. Asked(c) /\ Content(c)
  BY <1>3, <1>4, <1>6 DEF Asked, Content
<1>8. CASE c.pipe["out"].adder
  <2>1. s' = Post(c, Called, "ok")
    BY <1>1, <1>8 DEF NotifyAdder, Called
  <2>2. MayCall(c)
    BY <1>4, <1>5, <1>8 DEF MayCall
  <2>3. Asked(s') /\ s'.pipe = c.pipe /\ s'.run = c.run
    BY <1>7, <2>1, <2>2, CallAsks
  <2>4. Content(s') /\ s'.run.at = "idle"
    BY <1>3, <1>4, <1>7, <2>3 DEF Content
  <2>5. QED
    BY <2>3, <2>4, TurnFacts
<1>9. CASE ~c.pipe["out"].adder
  <2>1. s' = c
    BY <1>1, <1>9 DEF NotifyAdder
  <2>2. QED
    BY <1>3, <1>4, <1>7, <2>1, TurnFacts
<1>10. QED
  BY <1>8, <1>9

(* Time is up: the lister is not there, or the session is over.               *)
LEMMA TimeoutAsks ==
  ASSUME Speaking, Asked(s), Turn(s), Timeout
  PROVE  s'.use = "over" \/ (Asked(s') /\ Turn(s'))
<1> DEFINE t == Taken
           y == respond(t)
           d == [y EXCEPT !.local.quit = "timeout"]
<1>1. /\ s.queue # <<>> /\ s.run.at = "idle" /\ Head(s.queue).to = <<"commander", "timer">>
      /\ \/ s' = over(t)
         \/ s.local.nested = "none" /\ s' = shutdown_commander(d, "timeout")
  BY DEF Timeout, Dispatched
<1>2. Calm(s)
  BY <1>1, TurnFacts
<1>3. Asked(t) /\ t.run.at = "idle" /\ Content(t) /\ t.local = s.local
  BY <1>1, <1>2, TakenAsks, WhoIsMeant
<1>4. CASE s' = over(t)
  BY <1>4 DEF over, Fresh
<1>5. CASE s.local.nested = "none" /\ s' = shutdown_commander(d, "timeout")
  <2> HIDE DEF t
  <2>1. Lined(t.queue, "none", FALSE, FALSE, t.pipe["out"].adder)
    BY <1>3, <1>5 DEF Asked, Lined
  <2>2. /\ Talk(y) /\ DOMAIN y.local = LocalFields /\ y.run = t.run
        /\ Lined(y.queue, "none", FALSE, FALSE, t.pipe["out"].adder)
        /\ y.local.nested = "none" /\ y.pipe["out"].adder = t.pipe["out"].adder
        /\ y.pipe["out"].waitA = t.pipe["out"].waitA
    BY <1>3, <1>5, <2>1, RespondLined, ZenonT(60) DEF Asked
  <2> HIDE DEF y
  <2>3. /\ Talk(d) /\ DOMAIN d.local = LocalFields /\ d.run = y.run /\ d.queue = y.queue
        /\ d.pipe = y.pipe /\ d.local.nested = "none"
    BY <2>2 DEF Talk, Shape, Fields, LocalFields
  <2> HIDE DEF d
  <2>4. Content(d) /\ "timeout" \in Errors
    BY <1>3, <2>2, <2>3 DEF Content, Errors
  <2>5. Asked(s') /\ Content(s') /\ SameTurn(d, s')
    BY <1>5, <2>2, <2>3, <2>4, ShutdownCommanderAsks
  <2>6. s'.run.at = "idle"
    BY <1>3, <2>2, <2>3, <2>5 DEF SameTurn
  <2>7. QED
    BY <2>5, <2>6, TurnFacts
<1>6. QED
  BY <1>1, <1>4, <1>5

(* Whatever does not concern the adder of the output leaves the turn.         *)
LEMMA TurnKept ==
  ASSUME NEW x, NEW y, Turn(x), y.run = x.run, y.local = x.local,
         y.pipe["out"].adder = x.pipe["out"].adder, At(y.queue, Called) = At(x.queue, Called),
         Content(x) => Content(y), Calm(x) => Calm(y)
  PROVE  Turn(y)
BY DEF Turn, Adding

(* What other threads and the clock send, at most once.                       *)
LEMMA ThreadsAsk ==
  ASSUME Speaking, Asked(s), Turn(s), WorkIsDone \/ EntriesAreRead \/ TimerExpires
  PROVE  Asked(s') /\ Turn(s')
<1> DEFINE q == s.queue
           n == s.local.nested
           b == s.local.busy
           l == s.pipe["in"].consumer
           a == s.pipe["out"].adder
<1>1. q \in Seq(TalkEvent) /\ Lined(q, n, b, l, a) /\ DOMAIN q = 1..Len(q) /\ Len(q) \in Nat
  BY DEF Asked, Talk
<1>2. PICK to \in {Result, Listed, <<"commander", "timer">>} :
        /\ s' = Post(s, to, "ok") /\ ~Queued(s, to)
        /\ to = Result => b /\ n = "none"
        /\ to = Listed => n = "reading"
  <2>1. CASE WorkIsDone
    BY <2>1, WhoIsMeant DEF WorkIsDone, Once, Result
  <2>2. CASE EntriesAreRead
    BY <2>2, WhoIsMeant DEF EntriesAreRead, Once, Listed
  <2>3. CASE TimerExpires
    BY <2>3, WhoIsMeant DEF TimerExpires, Once
  <2>4. QED
    BY <2>1, <2>2, <2>3
<1> DEFINE e == [to |-> to, err |-> "ok"]
           r == Append(q, e)
<1>3. to \in TalkTo /\ "ok" \in Errors /\ to # Called
  BY <1>2, ToFacts, WhoIsMeant DEF Errors, Result, Listed
<1>4. e \in TalkEvent /\ e.to = to
  BY <1>3 DEF TalkEvent
<1>5. /\ Talk(s') /\ s'.queue = r /\ s'.local = s.local /\ s'.pipe = s.pipe /\ s'.run = s.run
  <2>1. Talk(s')
    BY <1>2, <1>3, PostTalks DEF Asked, Talks
  <2>2. QED
    BY <1>2, <2>1 DEF Post, Asked, Talk, Shape, Fields
<1>6. At(q, to) = {}
  BY <1>1, <1>2 DEF Queued, At
<1> HIDE DEF e
<1>7. /\ \A d : At(r, d) = At(q, d) \cup (IF d = to THEN {Len(q) + 1} ELSE {})
      /\ \A d : At(q, d) \subseteq 1..Len(q)
  BY <1>1, <1>4, AtAppend
<1> HIDE DEF r, q
<1>8. \A d : d # to => At(r, d) = At(q, d)
  BY <1>7
<1>9. At(r, to) = {Len(q) + 1}
  BY <1>6, <1>7
<1>10. Lined(r, n, b, l, a)
  <2>1. CASE to = Result
    <3>1. n = "none" /\ b /\ At(r, Listed) = At(q, Listed) /\ At(r, Called) = At(q, Called)
      BY <1>2, <1>3, <1>8, <2>1, WhoIsMeant
    <3>2. \A i \in At(r, Result), j \in At(r, Called) : j < i
      BY <1>1, <1>7, <1>9, <2>1, <3>1
    <3>3. QED
      BY <1>1, <1>9, <2>1, <3>1, <3>2 DEF Lined
  <2>2. CASE to = Listed
    <3>1. n = "reading" /\ At(r, Result) = At(q, Result) /\ At(r, Called) = At(q, Called)
      BY <1>2, <1>3, <1>8, <2>2, WhoIsMeant
    <3>2. QED
      BY <1>1, <1>9, <2>2, <3>1 DEF Lined
  <2>3. CASE to = <<"commander", "timer">>
    <3>1. \A d \in {Result, Listed, Called} : At(r, d) = At(q, d)
      BY <1>8, <2>3, WhoIsMeant
    <3>2. QED
      BY <1>1, <3>1 DEF Lined
  <2>4. QED
    BY <1>2, <2>1, <2>2, <2>3
<1>11. Asked(s')
  BY <1>5, <1>10 DEF Asked
<1>12. At(r, Called) = At(q, Called)
  BY <1>3, <1>8
<1>13. First(q) => First(r)
  <2> SUFFICES ASSUME First(q) PROVE First(r)
    OBVIOUS
  <2>1. PICK j \in At(q, Called) : \A i \in DOMAIN q : i < j => q[i].to \in Consumers
    BY DEF First, Consumers
  <2>2. /\ j \in 1..Len(q)
        /\ \A i \in DOMAIN r : i < j => i \in DOMAIN q /\ r[i] = q[i]
    <3>1. j \in 1..Len(q)
      BY <1>7, <2>1
    <3>2. e \in TalkEvent /\ q \in Seq(TalkEvent)
      BY <1>1, <1>4 DEF q
    <3>3. QED
      BY <3>1, <3>2 DEF r
  <2>3. QED
    BY <1>12, <2>1, <2>2 DEF First, Consumers
<1>14. (Content(s) => Content(s')) /\ (Calm(s) => Calm(s'))
  BY <1>5, <1>13 DEF Content, Calm, q
<1>15. Turn(s')
  BY <1>5, <1>12, <1>14, TurnKept DEF q
<1>16. QED
  BY <1>11, <1>15

(* What the socket says.                                                      *)
LEMMA SocketSays ==
  ASSUME Speaking, Asked(s), Turn(s), BecomesReadable \/ BecomesWritable
  PROVE  Asked(s') /\ Turn(s')
<1>1. PICK to \in {<<"socket", "read">>, <<"socket", "write">>}, err \in {"ok", "failed"} :
        s' = Post(s, to, err)
  BY DEF BecomesReadable, BecomesWritable
<1> DEFINE e == [to |-> to, err |-> err]
           r == Append(s.queue, e)
<1>2. to \in TalkTo \ {Result, Listed, Called} /\ err \in Errors
  BY WhoIsMeant, ToFacts DEF Errors
<1>3. Asks(s, s')
  BY <1>1, <1>2, PostAsks
<1>4. e \in TalkEvent /\ e.to # Called /\ s.queue \in Seq(TalkEvent)
  BY <1>2 DEF TalkEvent, Asked, Talk
<1>5. s'.queue = r /\ s'.local = s.local /\ s'.pipe = s.pipe /\ s'.run = s.run
  BY <1>1 DEF Post, Asked, Talk, Shape, Fields
<1> HIDE DEF e
<1>6. At(s'.queue, Called) = At(s.queue, Called)
  <2>1. At(r, Called) = At(s.queue, Called) \cup (IF e.to = Called THEN {Len(s.queue) + 1} ELSE {})
    BY <1>4, AtAppend
  <2> HIDE DEF r
  <2>2. QED
    BY <1>4, <1>5, <2>1
<1>7. QED
  BY <1>3, <1>5, <1>6, TurnKept DEF Asks

(* What the client does concerns neither events nor pipes.                    *)
LEMMA ClientAsks ==
  ASSUME Speaking, Asked(s), Turn(s),
         (\E u \in Units : ClientSends(u)) \/ ClientReads \/ ClientCloses \/ ClientResets
  PROVE  Asked(s') /\ Turn(s')
<1>1. /\ Talk(s') /\ s'.queue = s.queue /\ s'.pipe = s.pipe /\ s'.local = s.local
      /\ s'.run = s.run
  <2>1. Talk(s')
    BY OthersTalk DEF Talks
  <2>2. CASE \E u \in Units : ClientSends(u)
    <3>1. PICK u \in Units : ClientSends(u)
      BY <2>2
    <3> DEFINE a == Append(s.net.avail, u)
               n == s.net.sent + 1
    <3>2. s' = [s EXCEPT !.net.avail = a, !.net.sent = n]
      BY <3>1, Zenon DEF ClientSends
    <3> HIDE DEF a, n
    <3>3. QED
      BY <2>1, <3>2 DEF Asked, Talk, Shape, Fields
  <2>3. CASE ClientReads
    BY <2>1, <2>3 DEF ClientReads, Asked, Talk, Shape, Fields
  <2>4. CASE ClientCloses \/ ClientResets
    <3>1. s' \in {[s EXCEPT !.net.eof = TRUE], [s EXCEPT !.net.reset = TRUE]}
      BY <2>4 DEF ClientCloses, ClientResets
    <3>2. QED
      BY <2>1, <3>1 DEF Asked, Talk, Shape, Fields
  <2>5. QED
    BY <2>2, <2>3, <2>4
<1>2. Asks(s, s')
  BY <1>1, ElseAsks DEF Asked
<1>3. QED
  BY <1>1, <1>2, TurnKept DEF Asks

(* A control connection goes on asking its lister once, or its session is     *)
(* over.                                                                      *)
LEMMA AskingGoesOn ==
  ASSUME Speaking, Asked(s), Turn(s), 2 < MaxLoops, Next
  PROVE  s'.use = "over" \/ (Asked(s') /\ Turn(s'))
<1>1. CASE AddStep \/ ConsumeStep
  BY <1>1, TurnAsks
<1>2. CASE \E p \in Pipes : AdderEvent(p) \/ ConsumerEvent(p) \/ PipeDone(p)
  BY <1>2, PipeAsks
<1>3. CASE SocketRead \/ SocketWrite \/ ShutdownEvent
  BY <1>3, SocketAsks
<1>4. CASE ChannelDone
  <2>1. s' = over(Taken)
    BY <1>4 DEF ChannelDone, Speaking
  <2>2. QED
    BY <2>1 DEF over, Fresh
<1>5. CASE CommandEnds \/ EntriesArrive \/ Timeout
  BY <1>5, ResultAsks, EntriesAsk, TimeoutAsks
<1>6. CASE \E use \in Uses \ {"control"} : Open(use)
  <2>1. s.queue # <<>> /\ Head(s.queue).to = <<"session", "open">>
    BY <1>6 DEF Open, Dispatched
  <2>2. Head(s.queue).to \in TalkTo
    BY <2>1, TakenTalks
  <2>3. QED
    BY <2>1, <2>2, ToFacts
<1>7. CASE WorkIsDone \/ EntriesAreRead \/ TimerExpires
  BY <1>7, ThreadsAsk
<1>8. CASE BecomesReadable \/ BecomesWritable
  BY <1>8, SocketSays
<1>9. CASE (\E u \in Units : ClientSends(u)) \/ ClientReads \/ ClientCloses \/ ClientResets
  BY <1>9, ClientAsks
<1>10. ~Close /\ ~Connects
  BY DEF Speaking, Close, Connects
<1>11. QED
  BY <1>1, <1>2, <1>3, <1>4, <1>5, <1>6, <1>7, <1>8, <1>9, <1>10 DEF Next, Loop

(* What an operator that is set leaves.                                       *)
AdderThere(x, y, p) ==
  /\ Talk(y) /\ y.queue = x.queue /\ y.local = x.local /\ y.run = x.run
  /\ \A q \in Pipes : /\ y.pipe[q].buf = x.pipe[q].buf
                      /\ y.pipe[q].consumer = x.pipe[q].consumer
                      /\ q # p => y.pipe[q] = x.pipe[q]

ConsumerThere(x, y, p) ==
  /\ Talk(y) /\ y.queue = Append(x.queue, [to |-> <<p, "consumer">>, err |-> "ok"])
  /\ y.local = x.local /\ y.run = x.run
  /\ \A q \in Pipes : /\ y.pipe[q].buf = x.pipe[q].buf
                      /\ y.pipe[q].adder = x.pipe[q].adder
                      /\ y.pipe[q].waitA = x.pipe[q].waitA
                      /\ q # p => y.pipe[q] = x.pipe[q]

(* An adder is set where none was: it is not told yet.                        *)
LEMMA AdderSet ==
  ASSUME NEW x, Talk(x), NEW p \in Pipes, x.pipe[p].adder = FALSE, x.pipe[p].waitA = FALSE
  PROVE  AdderThere(x, set_adder(x, p, TRUE), p)
<1> DEFINE y == [x EXCEPT !.pipe[p].adder = TRUE, !.pipe[p].errA = "ok", !.pipe[p].waitA = FALSE]
<1>1. set_adder(x, p, TRUE) = y
  BY DEF set_adder, Talk, Shape, Fields, PipeFields
<1>2. Talks(x, set_adder(x, p, TRUE))
  BY SetAdderTalks
<1>3. /\ y.queue = x.queue /\ y.local = x.local /\ y.run = x.run
      /\ \A q \in Pipes : /\ y.pipe[q].buf = x.pipe[q].buf
                          /\ y.pipe[q].consumer = x.pipe[q].consumer
                          /\ q # p => y.pipe[q] = x.pipe[q]
  BY DEF Talk, Shape, Fields, PipeFields
<1> HIDE DEF y
<1>4. QED
  BY <1>1, <1>2, <1>3 DEF AdderThere, Talks

(* A consumer is set where none was, and told.                                *)
LEMMA ConsumerSet ==
  ASSUME NEW x, Talk(x), NEW p \in Pipes, x.pipe[p].consumer = FALSE
  PROVE  ConsumerThere(x, set_consumer(x, p, TRUE), p)
<1> DEFINE z == [x EXCEPT !.pipe[p].consumer = TRUE, !.pipe[p].errC = "ok",
                          !.pipe[p].waitC = TRUE]
           r == Append(x.queue, [to |-> <<p, "consumer">>, err |-> "ok"])
           y == [z EXCEPT !.queue = r]
<1>1. /\ z.pipe[p].consumer = TRUE /\ DOMAIN z = Fields /\ z.queue = x.queue
      /\ z.local = x.local /\ z.run = x.run
      /\ \A q \in Pipes : /\ z.pipe[q].buf = x.pipe[q].buf
                          /\ z.pipe[q].adder = x.pipe[q].adder
                          /\ z.pipe[q].waitA = x.pipe[q].waitA
                          /\ q # p => z.pipe[q] = x.pipe[q]
  BY DEF Talk, Shape, Fields, PipeFields
<1>2. set_consumer(x, p, TRUE) = NotifyConsumer(z, p, "ok")
  BY DEF set_consumer
<1> HIDE DEF z
<1>3. set_consumer(x, p, TRUE) = y
  BY <1>1, <1>2 DEF NotifyConsumer, Post
<1>4. Talks(x, set_consumer(x, p, TRUE))
  BY SetConsumerTalks
<1> HIDE DEF r
<1>5. y.queue = r /\ y.local = z.local /\ y.run = z.run /\ y.pipe = z.pipe
  BY <1>1 DEF Fields
<1> HIDE DEF y
<1>6. QED
  BY <1>1, <1>3, <1>4, <1>5 DEF r, ConsumerThere, Talks

(* Only consumers are told.                                                   *)
Told(q) == \A i \in DOMAIN q : q[i].to \in Consumers

(* One event is sent when only consumers have been told.                      *)
LEMMA ToldOn ==
  ASSUME NEW q \in Seq(TalkEvent), Told(q), NEW to \in TalkTo
  PROVE  LET r == Append(q, [to |-> to, err |-> "ok"])
         IN /\ to \in Consumers => Told(r)
            /\ to = Called => /\ First(r) /\ At(r, Result) = {} /\ At(r, Listed) = {}
                              /\ \A i, j \in At(r, Called) : i = j
<1> DEFINE e == [to |-> to, err |-> "ok"]
           r == Append(q, e)
<1>1. e \in TalkEvent /\ e.to = to
  BY DEF TalkEvent, Errors
<1> HIDE DEF e
<1>2. /\ Len(q) \in Nat /\ DOMAIN q = 1..Len(q) /\ DOMAIN r = 1..(Len(q) + 1)
      /\ \A i \in DOMAIN q : i \in DOMAIN r /\ r[i] = q[i]
      /\ r[Len(q) + 1] = e
  BY <1>1
<1>3. \A i \in DOMAIN r : i \in DOMAIN q \/ i = Len(q) + 1
  BY <1>2
<1>4. Consumers \cap {Result, Listed, Called} = {} /\ Called # Result /\ Called # Listed
  BY WhoIsMeant DEF Consumers
<1> HIDE DEF r
<1>5. to \in Consumers => Told(r)
  BY <1>1, <1>2, <1>3 DEF Told
<1>6. ASSUME to = Called
      PROVE  /\ First(r) /\ At(r, Result) = {} /\ At(r, Listed) = {}
             /\ \A i, j \in At(r, Called) : i = j
  <2>1. \A i \in DOMAIN r : i = Len(q) + 1 \/ r[i].to \in Consumers
    BY <1>2, <1>3 DEF Told
  <2>2. /\ \A i \in At(r, Called) : i = Len(q) + 1
        /\ At(r, Result) = {} /\ At(r, Listed) = {} /\ Len(q) + 1 \in At(r, Called)
    BY <1>1, <1>2, <1>4, <1>6, <2>1 DEF At
  <2>3. \A i \in DOMAIN r : i < Len(q) + 1 => r[i].to \in Consumers
    BY <1>2, <2>1
  <2>4. First(r)
    BY <2>2, <2>3 DEF First, Consumers
  <2>5. QED
    BY <2>2, <2>4
<1>7. QED
  BY <1>5, <1>6 DEF r, e

(* A session begins with the call of its adder behind those of the consumers. *)
LEMMA AskingBegins == ASSUME Init PROVE Asking
<1> SUFFICES ASSUME s.use = "control" PROVE Asked(s) /\ Turn(s)
  BY DEF Asking
<1>1. Talk(s)
  BY Begins DEF Speaking, Moving, Move, Ends
<1> DEFINE x == Fresh("control")
           a == set_adder(x, "in", TRUE)
           b == set_consumer(a, "out", TRUE)
           c == [b EXCEPT !.sa.socket = TRUE, !.sa.waitR = TRUE, !.sa.waitW = TRUE]
           d == set_adder(c, "out", TRUE)
           e == set_consumer(d, "in", TRUE)
<1>2. s = respond(e)
  <2>1. PICK use \in Uses : /\ s = SetUp(Fresh(use))
                            /\ use # "control" => h.outcome = "running"
    BY DEF Init
  <2>2. use = "control"
    BY <2>1, Begins DEF Speaking, Moving, Move, Ends
  <2>3. QED
    BY <2>1, <2>2 DEF SetUp, set_socket, Fresh
<1>3. /\ DOMAIN x = Fields /\ x.queue = <<>> /\ x.run.at = "idle" /\ x.use = "control"
      /\ x.pipe = [p \in Pipes |-> EmptyPipe]
      /\ x.sa.shutErr = "ok" /\ "shutErr" \in DOMAIN x.sa
      /\ x.run = [at |-> "idle", pipe |-> "in", loop |-> 0]
      /\ DOMAIN x.local = LocalFields
      /\ x.local.nested = "none" /\ x.local.busy = FALSE /\ x.local.sent = FALSE
  BY DEF Fresh, Fields, LocalFields
<1> HIDE DEF x
<1>4. "in" \in Pipes /\ "out" \in Pipes /\ "in" # "out"
  BY DEF Pipes
<1>5. \A p \in Pipes : /\ DOMAIN x.pipe[p] = PipeFields /\ x.pipe[p].buf = <<>>
                       /\ x.pipe[p].adder = FALSE /\ x.pipe[p].consumer = FALSE
                       /\ x.pipe[p].waitA = FALSE /\ x.pipe[p].errA = "ok"
  BY <1>3 DEF EmptyPipe, PipeFields
<1>6. Talk(x)
  BY <1>3, <1>4, <1>5 DEF Talk, Shape, Errors
<1>7. AdderThere(x, a, "in")
  BY <1>4, <1>5, <1>6, AdderSet
<1> HIDE DEF a
<1>8. /\ Talk(a) /\ a.queue = <<>> /\ a.local = x.local /\ a.run = x.run
      /\ a.pipe["out"] = x.pipe["out"]
      /\ a.pipe["in"].consumer = FALSE /\ a.pipe["in"].buf = <<>>
  BY <1>3, <1>4, <1>5, <1>7 DEF AdderThere
<1>9. ConsumerThere(a, b, "out")
  BY <1>4, <1>5, <1>8, ConsumerSet
<1> HIDE DEF b
<1>10. /\ Talk(b) /\ Told(b.queue) /\ b.local = x.local /\ b.run = x.run
       /\ b.pipe["out"].adder = FALSE /\ b.pipe["out"].waitA = FALSE
       /\ b.pipe["in"].consumer = FALSE /\ b.pipe["in"].buf = <<>>
  <2>1. Told(a.queue) /\ a.queue \in Seq(TalkEvent)
    BY <1>8 DEF Told
  <2>2. <<"out", "consumer">> \in Consumers \cap TalkTo
    BY <1>4, WhoIsMeant, ToFacts
  <2>3. Told(b.queue)
    BY <1>9, <2>1, <2>2, ToldOn DEF ConsumerThere
  <2>4. QED
    BY <1>4, <1>5, <1>8, <1>9, <2>3 DEF ConsumerThere
<1>11. Talk(c) /\ c.queue = b.queue /\ c.local = b.local /\ c.run = b.run /\ c.pipe = b.pipe
  BY <1>10 DEF Talk, Shape, Fields
<1> HIDE DEF c
<1>12. AdderThere(c, d, "out")
  BY <1>4, <1>10, <1>11, AdderSet
<1> HIDE DEF d
<1>13. /\ Talk(d) /\ Told(d.queue) /\ d.local = x.local /\ d.run = x.run
       /\ d.pipe["in"].consumer = FALSE /\ d.pipe["in"].buf = <<>>
  BY <1>4, <1>10, <1>11, <1>12 DEF AdderThere
<1>14. ConsumerThere(d, e, "in")
  BY <1>4, <1>13, ConsumerSet
<1> HIDE DEF e
<1>15. /\ Talk(e) /\ Told(e.queue) /\ e.local = x.local /\ e.run = x.run
       /\ e.pipe["in"].buf = <<>>
  <2>1. d.queue \in Seq(TalkEvent) /\ <<"in", "consumer">> \in Consumers \cap TalkTo
    BY <1>4, <1>13, WhoIsMeant, ToFacts DEF Talk
  <2>2. Told(e.queue)
    BY <1>13, <1>14, <2>1, ToldOn DEF ConsumerThere
  <2>3. QED
    BY <1>4, <1>13, <1>14, <2>2 DEF ConsumerThere
<1> DEFINE r == Append(e.queue, [to |-> Called, err |-> "ok"])
<1>16. /\ s.queue = IF s.pipe["out"].adder THEN r ELSE e.queue
       /\ s.local.nested = "none" /\ s.local.busy = FALSE /\ DOMAIN s.local = LocalFields
       /\ s.run.at = "idle" /\ s.pipe["in"].buf = <<>>
  <2> DEFINE v == Append(e.pipe["out"].buf, "c")
             y == [e EXCEPT !.pipe["out"].buf = v]
             z == NotifyAdder(y, "out", "ok")
             w == [z EXCEPT !.local.sent = y.pipe["out"].adder]
  <2>1. respond(e) = IF y.local.sent THEN y ELSE w
    BY DEF respond
  <2> HIDE DEF v
  <2>2. /\ DOMAIN y = Fields /\ y.queue = e.queue /\ y.local = x.local /\ y.run = x.run
        /\ y.pipe["in"].buf = <<>>
    BY <1>15 DEF Talk, Shape, Fields, PipeFields, Pipes
  <2> HIDE DEF y
  <2>3. /\ DOMAIN z = Fields /\ z.local = y.local /\ z.run = y.run /\ z.pipe = y.pipe
        /\ z.queue = IF y.pipe["out"].adder THEN r ELSE e.queue
    BY <2>2 DEF NotifyAdder, Post, Fields, Called
  <2> HIDE DEF z, r
  <2>4. /\ w.queue = z.queue /\ w.run = z.run /\ w.pipe = z.pipe
        /\ DOMAIN w.local = DOMAIN z.local
        /\ w.local.nested = z.local.nested /\ w.local.busy = z.local.busy
    BY <1>3, <2>2, <2>3 DEF Fields, LocalFields
  <2> HIDE DEF w
  <2>5. s = w
    BY <1>2, <1>3, <2>1, <2>2
  <2>6. QED
    BY <1>3, <2>2, <2>3, <2>4, <2>5
<1>17. /\ First(r) /\ At(r, Result) = {} /\ At(r, Listed) = {}
       /\ \A i, j \in At(r, Called) : i = j
  <2>1. e.queue \in Seq(TalkEvent) /\ Called \in TalkTo
    BY <1>4, <1>15, ToFacts DEF Talk, Called
  <2>2. QED
    BY <1>15, <2>1, ToldOn
<1>18. At(e.queue, Result) = {} /\ At(e.queue, Listed) = {}
  <2>1. Consumers \cap {Result, Listed} = {}
    BY WhoIsMeant DEF Consumers
  <2>2. QED
    BY <1>15, <2>1 DEF Told, At
<1> HIDE DEF r
<1>19. Asked(s)
  BY <1>1, <1>16, <1>17, <1>18 DEF Asked, Lined
<1>20. Calm(s)
  BY <1>16, <1>17 DEF Calm, Content
<1>21. QED
  BY <1>16, <1>19, <1>20, TurnFacts

(* The lister is never asked for entries while it reads some                  *)
(* (tvfs_entries_lister.hpp:85): whoever calls the adder of the replies, it   *)
(* is heard once between the result of a listing command and its first        *)
(* entries, and its own last turn does not ask. For that its loop must end    *)
(* because the adder has nothing more to say, at the third turn at the        *)
(* latest: the channels of the code may take five and ten turns               *)
(* (commander.cpp:432, session.hpp:233).                                      *)
THEOREM ListerIsAskedOnce ==
  ASSUME 2 < MaxLoops PROVE Spec => []ListerAskedOnce
<1>1. Init => IInv /\ Asking
  BY Begins, AskingBegins DEF IInv
<1>2. IInv /\ Asking /\ [Next]_vars => IInv' /\ Asking'
  <2> SUFFICES ASSUME IInv, Asking, [Next]_vars PROVE IInv' /\ Asking'
    OBVIOUS
  <2>1. CASE Next
    <3>1. IInv'
      BY <2>1, GoesOn
    <3>2. Asking'
      <4>1. CASE Moving
        <5>1. Moving'
          BY <2>1, <4>1, MovingGoesOn
        <5>2. s'.use # "control"
          BY <5>1 DEF Moving, Move, Ends
        <5>3. QED
          BY <5>2 DEF Asking
      <4>2. CASE Speaking
        <5>1. Asked(s) /\ Turn(s)
          BY <4>2 DEF Asking, Speaking
        <5>2. s'.use = "over" \/ (Asked(s') /\ Turn(s'))
          BY <2>1, <4>2, <5>1, AskingGoesOn
        <5>3. QED
          BY <5>2 DEF Asking
      <4>3. CASE Hushed
        BY <2>1, <4>3, HushedRests
      <4>4. QED
        BY <4>1, <4>2, <4>3 DEF IInv
    <3>3. QED
      BY <3>1, <3>2
  <2>2. CASE UNCHANGED vars
    <3>1. s' = s /\ h' = h
      BY <2>2 DEF vars
    <3>2. QED
      BY <3>1 DEF IInv, Moving, Speaking, Hushed, Asking
  <2>3. QED
    BY <2>1, <2>2
<1>3. IInv /\ Asking => ListerAskedOnce
  BY DEF IInv, Asking, Moving, Move, Ends, Speaking, Hushed, Asked, Lined, ListerAskedOnce
<1>4. QED
  BY <1>1, <1>2, <1>3, PTL DEF Spec

-----------------------------------------------------------------------------
(* The last reply is sent *)

SaFields == {"socket", "waitR", "waitW", "throttled", "shutting", "shutErr"}
NetFields == {"avail", "eof", "reset", "room", "sent", "shut"}

Formed(x) ==
  /\ Talk(x)
  /\ DOMAIN x.sa = SaFields /\ DOMAIN x.net = NetFields /\ DOMAIN x.local = LocalFields

(* The client will not be read to the end of what it sent: it is gone, or the *)
(* socket is read no more. No farewell of such a session counts as calm.      *)
Broken(x) == x.net.reset \/ x.net.eof \/ ~x.pipe["in"].adder

Endings == {<<p, "done">> : p \in Pipes} \cup {<<"channel", "done">>}

(* Nothing has been thrown away, and nothing that is on its way will make it  *)
(* so: the output is written as long as the client does not reset.            *)
Plain(q) == \A i \in DOMAIN q : q[i].err = "ok" /\ q[i].to \notin Endings

Fine(x) ==
  /\ x.lost = 0 /\ x.sa.socket /\ x.net.shut = "no" /\ x.pipe["out"].consumer
  /\ \A p \in Pipes : x.pipe[p].errA = "ok"
  /\ Plain(x.queue)

Still(x) ==
  ~x.sa.shutting /\ \A i \in DOMAIN x.queue : x.queue[i].to # <<"socket", "shutdown">>

(* Until somebody says goodbye; and afterwards: nobody answers any more, and  *)
(* the output has been written or will be, since the socket is shut down only *)
(* behind it.                                                                 *)
Before(x) == Broken(x) \/ (Fine(x) /\ Still(x))

Parting(x) ==
  /\ x.lost = 0 /\ ~x.local.busy /\ x.local.nested = "none" /\ ~x.pipe["in"].consumer
  /\ x.pipe["out"].buf = <<>> \/ (Fine(x) /\ ~x.net.reset)

Polite(x, calm) ==
  /\ x.local.quit = "no" => Before(x)
  /\ x.local.quit # "no" /\ calm => Parting(x)

Staying ==
  /\ s.use = "control" => Formed(s) /\ Polite(s, h.calm)
  /\ GoodbyeIsSent

-----------------------------------------------------------------------------
(* What the methods keep of it *)

(* Every method: what is broken stays so.                                     *)
Later(x, y) ==
  /\ Formed(y)
  /\ y.net.eof = x.net.eof /\ y.net.reset = x.net.reset
  /\ y.pipe["in"].adder => x.pipe["in"].adder

(* Those that throw nothing away and announce no end.                         *)
Keeps(x, y) == Later(x, y) /\ (Fine(x) => Fine(y)) /\ (Still(x) => Still(y))

(* Those that are not the commander's: they answer nothing.                   *)
SameMood(x, y) ==
  /\ y.local.busy = x.local.busy /\ y.local.nested = x.local.nested
  /\ y.local.quit = x.local.quit

Rests(x, y) ==
  /\ Later(x, y) /\ SameMood(x, y)
  /\ y.pipe["in"].consumer => x.pipe["in"].consumer
  /\ x.lost = 0 /\ x.pipe["out"].buf = <<>> => y.lost = 0 /\ y.pipe["out"].buf = <<>>

Stays(x, y) == Keeps(x, y) /\ Rests(x, y)

(* One after the other.                                                       *)
LEMMA StaysOn ==
  ASSUME NEW x, NEW y, NEW z
  PROVE  /\ Later(x, y) /\ Later(y, z) => Later(x, z)
         /\ Keeps(x, y) /\ Keeps(y, z) => Keeps(x, z)
         /\ Rests(x, y) /\ Rests(y, z) => Rests(x, z)
         /\ Stays(x, y) /\ Stays(y, z) => Stays(x, z)
<1>1. Later(x, y) /\ Later(y, z) => Later(x, z)
  BY DEF Later
<1>2. Keeps(x, y) /\ Keeps(y, z) => Keeps(x, z)
  BY <1>1 DEF Keeps
<1>3. Rests(x, y) /\ Rests(y, z) => Rests(x, z)
  BY <1>1 DEF Rests, SameMood
<1>4. QED
  BY <1>1, <1>2, <1>3 DEF Stays

(* Other flags and the contents of the input do not matter.                   *)
LEMMA AlikeStays ==
  ASSUME NEW x, NEW y, Formed(y), y.queue = x.queue, y.lost = x.lost, SameMood(x, y),
         y.sa.socket = x.sa.socket, y.sa.shutting = x.sa.shutting,
         y.net.shut = x.net.shut, y.net.eof = x.net.eof, y.net.reset = x.net.reset,
         \A p \in Pipes : /\ y.pipe[p].adder = x.pipe[p].adder
                          /\ y.pipe[p].consumer = x.pipe[p].consumer
                          /\ y.pipe[p].errA \in {x.pipe[p].errA, "ok"},
         x.pipe["out"].buf = <<>> => y.pipe["out"].buf = <<>>
  PROVE  Stays(x, y)
<1>1. "in" \in Pipes /\ "out" \in Pipes
  BY DEF Pipes
<1>2. Later(x, y)
  BY <1>1 DEF Later
<1>3. Fine(x) => Fine(y)
  BY <1>1 DEF Fine
<1>4. Still(x) => Still(y)
  BY DEF Still
<1>5. QED
  BY <1>1, <1>2, <1>3, <1>4 DEF Stays, Keeps, Rests

(* Who an event to an end is not for.                                         *)
LEMMA EndingFacts ==
  /\ \A p \in Pipes : <<p, "adder">> \notin Endings /\ <<p, "consumer">> \notin Endings
  /\ \A p \in Pipes : <<p, "done">> \in Endings
  /\ \A p \in Pipes : <<p, "adder">> # <<"socket", "shutdown">>
  /\ \A p \in Pipes : <<p, "consumer">> # <<"socket", "shutdown">>
  /\ <<"socket", "shutdown">> \notin Endings /\ <<"channel", "done">> \in Endings
  /\ \A k \in {"read", "write"} : /\ <<"socket", k>> \notin Endings
                                  /\ <<"socket", k>> # <<"socket", "shutdown">>
  /\ {Result, Listed, <<"commander", "timer">>} \cap Endings = {}
  /\ <<"socket", "shutdown">> \notin {Result, Listed, <<"commander", "timer">>}
BY DEF Endings, Pipes, Result, Listed

(* An event is sent.                                                          *)
LEMMA PostStays ==
  ASSUME NEW x, Formed(x), NEW to \in TalkTo, NEW err \in Errors
  PROVE  LET y == Post(x, to, err)
         IN /\ Rests(x, y) /\ y.pipe = x.pipe /\ y.local = x.local
            /\ err = "ok" /\ to \notin Endings /\ Fine(x) => Fine(y)
            /\ to # <<"socket", "shutdown">> /\ Still(x) => Still(y)
            /\ err = "ok" /\ to \notin Endings \cup {<<"socket", "shutdown">>} => Stays(x, y)
<1> DEFINE e == [to |-> to, err |-> err]
           r == Append(x.queue, e)
           y == Post(x, to, err)
<1>1. Talk(y)
  BY PostTalks DEF Formed, Talks
<1>2. /\ y.queue = r /\ y.lost = x.lost /\ y.sa = x.sa /\ y.net = x.net
      /\ y.pipe = x.pipe /\ y.local = x.local
  BY DEF Post, Formed, Talk, Shape, Fields
<1>3. e \in TalkEvent /\ e.to = to /\ e.err = err /\ x.queue \in Seq(TalkEvent)
  BY DEF TalkEvent, Formed, Talk
<1> HIDE DEF e, y
<1>4. \A i \in DOMAIN r : r[i] = e \/ (i \in DOMAIN x.queue /\ r[i] = x.queue[i])
  BY <1>3
<1> HIDE DEF r
<1>5. Formed(y)
  BY <1>1, <1>2 DEF Formed
<1>6. Rests(x, y)
  BY <1>2, <1>5 DEF Rests, Later, SameMood
<1>7. err = "ok" /\ to \notin Endings /\ Fine(x) => Fine(y)
  <2> SUFFICES ASSUME err = "ok", to \notin Endings, Fine(x) PROVE Fine(y)
    OBVIOUS
  <2>1. Plain(r)
    BY <1>3, <1>4 DEF Plain, Fine
  <2>2. QED
    BY <1>2, <2>1 DEF Fine
<1>8. to # <<"socket", "shutdown">> /\ Still(x) => Still(y)
  BY <1>2, <1>3, <1>4 DEF Still
<1>9. QED
  BY <1>2, <1>6, <1>7, <1>8 DEF y, Stays, Keeps, Rests

(* An adder or a consumer is told.                                            *)
LEMMA NotifyStays ==
  ASSUME NEW x, Formed(x), NEW p \in Pipes, NEW err \in Errors
  PROVE  /\ Rests(x, NotifyAdder(x, p, err)) /\ Rests(x, NotifyConsumer(x, p, err))
         /\ err = "ok" => /\ Stays(x, NotifyAdder(x, p, err))
                          /\ Stays(x, NotifyConsumer(x, p, err))
         /\ NotifyAdder(x, p, err).pipe = x.pipe /\ NotifyAdder(x, p, err).local = x.local
         /\ NotifyConsumer(x, p, err).pipe = x.pipe /\ NotifyConsumer(x, p, err).local = x.local
<1>1. /\ {<<p, "adder">>, <<p, "consumer">>} \subseteq TalkTo
      /\ {<<p, "adder">>, <<p, "consumer">>} \cap (Endings \cup {<<"socket", "shutdown">>}) = {}
  BY ToFacts, EndingFacts
<1>2. Stays(x, x)
  BY DEF Stays, Keeps, Rests, Later, SameMood
<1>3. \A to \in {<<p, "adder">>, <<p, "consumer">>} :
        /\ Rests(x, Post(x, to, err)) /\ (err = "ok" => Stays(x, Post(x, to, err)))
        /\ Post(x, to, err).pipe = x.pipe /\ Post(x, to, err).local = x.local
  BY <1>1, PostStays
<1>4. QED
  BY <1>2, <1>3 DEF NotifyAdder, NotifyConsumer, Stays

(* Events are taken back.                                                     *)
LEMMA WithoutStays ==
  ASSUME NEW x, Formed(x), NEW tos
  PROVE  /\ Stays(x, Without(x, tos)) /\ Without(x, tos).pipe = x.pipe
         /\ Without(x, tos).local = x.local
<1> DEFINE y == Without(x, tos)
<1>1. PICK r \in Seq(TalkEvent) : Remain(x, tos, r)
  BY WithoutFacts DEF Formed, Talk, Shape
<1>2. /\ y.queue = r /\ y.lost = x.lost /\ y.sa = x.sa /\ y.net = x.net
      /\ y.pipe = x.pipe /\ y.local = x.local
  BY <1>1 DEF Remain, Formed, Talk, Shape, Fields
<1>3. Formed(y)
  BY <1>2, WithoutTalks DEF Formed, Talks
<1>4. \A k \in DOMAIN r : \E i \in DOMAIN x.queue : x.queue[i] = r[k]
  BY <1>1 DEF Remain
<1> HIDE DEF y
<1>5. Fine(x) => Fine(y)
  <2>1. Plain(x.queue) => Plain(r)
    BY <1>4 DEF Plain
  <2>2. QED
    BY <1>2, <2>1 DEF Fine
<1>6. Still(x) => Still(y)
  BY <1>2, <1>4 DEF Still
<1>7. QED
  BY <1>2, <1>3, <1>5, <1>6 DEF y, Stays, Keeps, Rests, Later, SameMood

(* A consumer is taken off.                                                   *)
LEMMA SetConsumerStays ==
  ASSUME NEW x, Formed(x), NEW p \in Pipes
  PROVE  LET y == set_consumer(x, p, FALSE)
         IN /\ Rests(x, y) /\ (p = "in" => Keeps(x, y) /\ ~y.pipe["in"].consumer)
            /\ y.pipe["out"].buf = x.pipe["out"].buf /\ y.lost = x.lost
<1> DEFINE y == Without(x, {<<p, "consumer">>})
           z == [y EXCEPT !.pipe[p].consumer = FALSE, !.pipe[p].errC = "ok",
                          !.pipe[p].waitC = FALSE]
<1>1. set_consumer(x, p, FALSE) = IF x.pipe[p].consumer = FALSE THEN x
                                  ELSE NotifyConsumer(z, p, "ok")
  BY DEF set_consumer
<1>2. Stays(x, y) /\ y.pipe = x.pipe
  BY WithoutStays
<1>3. y.lost = x.lost
  <2>1. PICK r \in Seq(TalkEvent) : Remain(x, {<<p, "consumer">>}, r)
    BY WithoutFacts DEF Formed, Talk, Shape
  <2>2. QED
    BY <2>1 DEF Remain, Formed, Talk, Shape, Fields
<1>4. Formed(y) /\ Shape(y)
  BY <1>2 DEF Stays, Keeps, Later, Formed, Talk
<1> HIDE DEF y
<1>5. /\ Shape(z) /\ z.queue = y.queue /\ z.lost = y.lost /\ z.local = y.local
      /\ z.sa = y.sa /\ z.net = y.net
  BY <1>4 DEF Shape, Fields, PipeFields
<1>6. z.pipe = [y.pipe EXCEPT ![p].consumer = FALSE, ![p].errC = "ok", ![p].waitC = FALSE]
  BY <1>4 DEF Shape, Fields
<1>7. \A q \in Pipes : /\ z.pipe[q].adder = y.pipe[q].adder
                       /\ z.pipe[q].errA = y.pipe[q].errA
                       /\ z.pipe[q].buf = y.pipe[q].buf
                       /\ q # p => z.pipe[q] = y.pipe[q]
  BY <1>4, <1>6 DEF Shape, PipeFields
<1>8. z.pipe[p].consumer = FALSE
  BY <1>4, <1>6 DEF Shape, PipeFields
<1> HIDE DEF z
<1>9. Formed(z)
  BY <1>4, <1>5 DEF Formed, Talk
<1>10. NotifyConsumer(z, p, "ok") = z
  BY <1>8 DEF NotifyConsumer
<1>11. "in" \in Pipes /\ "out" \in Pipes /\ "in" # "out"
  BY DEF Pipes
<1>12. Rests(y, z) /\ (p = "in" => Keeps(y, z))
  <2>1. Later(y, z) /\ SameMood(y, z)
    BY <1>5, <1>7, <1>9, <1>11 DEF Later, SameMood
  <2>2. (z.pipe["in"].consumer => y.pipe["in"].consumer) /\ z.pipe["out"].buf = y.pipe["out"].buf
    BY <1>7, <1>8, <1>11
  <2>3. Rests(y, z)
    BY <1>5, <2>1, <2>2 DEF Rests
  <2>4. p = "in" => z.pipe["out"] = y.pipe["out"]
    BY <1>7, <1>11
  <2>5. p = "in" /\ Fine(y) => Fine(z)
    BY <1>5, <1>7, <2>4 DEF Fine
  <2>6. Still(y) => Still(z)
    BY <1>5 DEF Still
  <2>7. QED
    BY <2>1, <2>3, <2>5, <2>6 DEF Keeps
<1>13. Rests(x, z) /\ (p = "in" => Keeps(x, z))
  BY <1>2, <1>12, StaysOn DEF Stays
<1>14. Rests(x, x) /\ Keeps(x, x)
  BY DEF Keeps, Rests, Later, SameMood
<1>15. CASE x.pipe[p].consumer = FALSE
  BY <1>1, <1>14, <1>15
<1>16. CASE x.pipe[p].consumer # FALSE
  <2>1. set_consumer(x, p, FALSE) = z
    BY <1>1, <1>10, <1>16
  <2>2. z.pipe["out"].buf = x.pipe["out"].buf /\ z.lost = x.lost
    BY <1>2, <1>3, <1>5, <1>7, <1>11
  <2>3. p = "in" => ~z.pipe["in"].consumer
    BY <1>8
  <2>4. QED
    BY <1>13, <2>1, <2>2, <2>3
<1>17. QED
  BY <1>15, <1>16

(* An adder is taken off.                                                     *)
LEMMA SetAdderStays ==
  ASSUME NEW x, Formed(x), NEW p \in Pipes
  PROVE  LET y == set_adder(x, p, FALSE)
         IN /\ Rests(x, y) /\ (p = "in" => ~y.pipe["in"].adder)
            /\ y.pipe["out"].buf = x.pipe["out"].buf /\ y.lost = x.lost
<1> DEFINE y == Without(x, {<<p, "adder">>})
           wait == FALSE /\ y.pipe[p].waitA
           z == [y EXCEPT !.pipe[p].adder = FALSE, !.pipe[p].errA = "ok",
                          !.pipe[p].waitA = wait]
<1>1. set_adder(x, p, FALSE) = IF x.pipe[p].adder = FALSE THEN x ELSE z
  BY DEF set_adder
<1>2. Stays(x, y) /\ y.pipe = x.pipe
  BY WithoutStays
<1>3. y.lost = x.lost
  <2>1. PICK r \in Seq(TalkEvent) : Remain(x, {<<p, "adder">>}, r)
    BY WithoutFacts DEF Formed, Talk, Shape
  <2>2. QED
    BY <2>1 DEF Remain, Formed, Talk, Shape, Fields
<1>4. Formed(y) /\ Shape(y)
  BY <1>2 DEF Stays, Keeps, Later, Formed, Talk
<1> HIDE DEF y, wait
<1>5. /\ Shape(z) /\ z.queue = y.queue /\ z.lost = y.lost /\ z.local = y.local
      /\ z.sa = y.sa /\ z.net = y.net
  BY <1>4 DEF Shape, Fields, PipeFields, Errors
<1>6. z.pipe = [y.pipe EXCEPT ![p].adder = FALSE, ![p].errA = "ok", ![p].waitA = wait]
  BY <1>4 DEF Shape, Fields
<1>7. \A q \in Pipes : /\ z.pipe[q].consumer = y.pipe[q].consumer
                       /\ z.pipe[q].buf = y.pipe[q].buf
                       /\ q # p => z.pipe[q] = y.pipe[q]
  BY <1>4, <1>6 DEF Shape, PipeFields
<1>8. z.pipe[p].adder = FALSE
  BY <1>4, <1>6 DEF Shape, PipeFields
<1> HIDE DEF z
<1>9. Formed(z)
  BY <1>4, <1>5 DEF Formed, Talk
<1>10. "in" \in Pipes /\ "out" \in Pipes /\ "in" # "out"
  BY DEF Pipes
<1>11. Rests(y, z)
  <2>1. z.pipe["in"].adder => y.pipe["in"].adder
    BY <1>7, <1>8, <1>10
  <2>2. z.pipe["in"].consumer = y.pipe["in"].consumer /\ z.pipe["out"].buf = y.pipe["out"].buf
    BY <1>7, <1>10
  <2>3. QED
    BY <1>5, <1>9, <2>1, <2>2 DEF Rests, Later, SameMood
<1>12. Rests(x, z) /\ Rests(x, x)
  BY <1>2, <1>11, StaysOn DEF Stays, Rests, Later, SameMood
<1>13. CASE x.pipe[p].adder = FALSE
  BY <1>1, <1>12, <1>13
<1>14. CASE x.pipe[p].adder # FALSE
  <2>1. set_adder(x, p, FALSE) = z
    BY <1>1, <1>14
  <2>2. z.pipe["out"].buf = x.pipe["out"].buf /\ z.lost = x.lost
    BY <1>2, <1>3, <1>5, <1>7, <1>10
  <2>3. p = "in" => ~z.pipe["in"].adder
    BY <1>8
  <2>4. QED
    BY <1>12, <2>1, <2>2, <2>3
<1>15. QED
  BY <1>13, <1>14

(* clear() throws away what is in the output.                                 *)
LEMMA ClearStays ==
  ASSUME NEW x, Formed(x), NEW p \in Pipes
  PROVE  Rests(x, clear(x, p)) /\ (p = "in" => ~clear(x, p).pipe["in"].adder)
<1> DEFINE y == set_consumer(x, p, FALSE)
           z == set_adder(y, p, FALSE)
           n == z.lost + (IF p = "out" THEN Len(x.pipe[p].buf) ELSE 0)
           w == [z EXCEPT !.pipe[p].buf = <<>>, !.lost = n]
<1>1. clear(x, p) = w
  BY DEF clear
<1>2. Rests(x, y) /\ Formed(y) /\ y.pipe["out"].buf = x.pipe["out"].buf /\ y.lost = x.lost
  BY SetConsumerStays DEF Rests, Later
<1> HIDE DEF y
<1>3. /\ Rests(y, z) /\ Formed(z) /\ (p = "in" => ~z.pipe["in"].adder)
      /\ z.lost = y.lost
  BY <1>2, SetAdderStays DEF Rests, Later
<1>4. x.lost = 0 /\ x.pipe["out"].buf = <<>> => n = 0
  <2> SUFFICES ASSUME x.lost = 0, x.pipe["out"].buf = <<>> PROVE n = 0
    OBVIOUS
  <2> HIDE DEF z
  <2>1. z.lost = 0 /\ (p = "out" => x.pipe[p].buf = <<>>)
    BY <1>2, <1>3
  <2>2. QED
    BY <2>1
<1> HIDE DEF z, n
<1>5. /\ Formed(w) /\ w.lost = n /\ w.local = z.local
      /\ w.net = z.net
      /\ \A q \in Pipes : /\ w.pipe[q].consumer = z.pipe[q].consumer
                          /\ w.pipe[q].adder = z.pipe[q].adder
                          /\ w.pipe[q].buf \in {z.pipe[q].buf, <<>>}
  BY <1>3 DEF Formed, Talk, Shape, Fields, PipeFields
<1> HIDE DEF w
<1>6. "in" \in Pipes /\ "out" \in Pipes
  BY DEF Pipes
<1>7. Rests(x, z)
  BY <1>2, <1>3, StaysOn
<1>8. Rests(x, w)
  BY <1>4, <1>5, <1>6, <1>7 DEF Rests, Later, SameMood
<1>9. QED
  BY <1>1, <1>3, <1>5, <1>6, <1>8

(* done()                                                                     *)
LEMMA DoneStays ==
  ASSUME NEW x, Formed(x), NEW p \in Pipes, NEW err \in Errors
  PROVE  Rests(x, done(x, p, err)) /\ (p = "in" => ~done(x, p, err).pipe["in"].adder)
<1> DEFINE y == clear(x, p)
           z == [y EXCEPT !.run.at = "idle"]
           e == IF err = "shutdown" THEN "ok" ELSE err
<1>1. Rests(x, y) /\ Formed(y) /\ (p = "in" => ~y.pipe["in"].adder)
  BY ClearStays DEF Rests, Later
<1>2. done(x, p, err) = Post(z, <<p, "done">>, e)
  BY DEF done
<1>3. e \in Errors /\ <<p, "done">> \in TalkTo
  BY ToFacts DEF Errors
<1> HIDE DEF y, e
<1>4. /\ Formed(z) /\ z.lost = y.lost /\ z.local = y.local /\ z.net = y.net
      /\ z.pipe = y.pipe
  BY <1>1 DEF Formed, Talk, Shape, Fields
<1> HIDE DEF z
<1>5. Rests(y, z)
  BY <1>4 DEF Rests, Later, SameMood
<1>6. Rests(z, Post(z, <<p, "done">>, e)) /\ Post(z, <<p, "done">>, e).pipe = z.pipe
  BY <1>3, <1>4, PostStays
<1>7. QED
  BY <1>1, <1>2, <1>4, <1>5, <1>6, StaysOn

(* close_socket()                                                             *)
LEMMA CloseStays ==
  ASSUME NEW x, Formed(x) PROVE Rests(x, close_socket(x))
<1> DEFINE y == Without(x, {<<"socket", "read">>, <<"socket", "write">>})
           z == [y EXCEPT !.sa.socket = FALSE]
<1>1. close_socket(x) = IF x.sa.socket THEN z ELSE x
  BY DEF close_socket
<1>2. Rests(x, y) /\ Formed(y)
  BY WithoutStays DEF Stays, Rests, Later
<1> HIDE DEF y
<1>3. /\ Formed(z) /\ z.lost = y.lost /\ z.local = y.local /\ z.net = y.net /\ z.pipe = y.pipe
  BY <1>2 DEF Formed, Talk, Shape, Fields, SaFields
<1> HIDE DEF z
<1>4. Rests(y, z) /\ Rests(x, x)
  BY <1>3 DEF Rests, Later, SameMood
<1>5. QED
  BY <1>1, <1>2, <1>4, StaysOn

(* The operators are taken off and the socket is closed.                      *)
LEMMA DisconnectedStays == ASSUME NEW x, Formed(x) PROVE Rests(x, Disconnected(x))
<1> DEFINE a == set_adder(x, "in", FALSE)
           b == set_consumer(a, "in", FALSE)
           c == set_adder(b, "out", FALSE)
           d == set_consumer(c, "out", FALSE)
<1>1. "in" \in Pipes /\ "out" \in Pipes
  BY DEF Pipes
<1>2. Disconnected(x) = close_socket(d)
  BY DEF Disconnected
<1>3. Rests(x, a) /\ Formed(a)
  BY <1>1, SetAdderStays DEF Rests, Later
<1> HIDE DEF a
<1>4. Rests(x, b) /\ Formed(b)
  BY <1>1, <1>3, SetConsumerStays, StaysOn, ZenonT(60) DEF Rests, Later
<1> HIDE DEF b
<1>5. Rests(x, c) /\ Formed(c)
  <2>1. Rests(b, c)
    BY <1>1, <1>4, SetAdderStays
  <2>2. QED
    BY <1>4, <2>1, StaysOn DEF Rests, Later
<1> HIDE DEF c
<1>6. Rests(x, d) /\ Formed(d)
  BY <1>1, <1>5, SetConsumerStays, StaysOn, ZenonT(60) DEF Rests, Later
<1> HIDE DEF d
<1>7. QED
  BY <1>2, <1>6, CloseStays, StaysOn

(* The socket waits for the output before it is shut down.                    *)
LEMMA OnShutdownStays ==
  ASSUME NEW x, Formed(x), NEW flushed
  PROVE  LET y == on_shutdown_event(x, flushed)
         IN /\ Rests(x, y) /\ y.pipe = x.pipe /\ y.lost = x.lost
            /\ x.sa.socket /\ x.pipe["out"].buf # <<>> => y = x
<1> DEFINE y == NotifyConsumer(x, "out", x.sa.shutErr)
           u == [x EXCEPT !.net.shut = "flushing"]
           w == [y EXCEPT !.sa.shutting = FALSE, !.sa.shutErr = "ok", !.net.shut = "down"]
<1>1. on_shutdown_event(x, flushed) =
        IF x.sa.socket /\ x.pipe["out"].buf # <<>> THEN x
        ELSE IF x.sa.socket /\ ~flushed THEN u ELSE w
  BY DEF on_shutdown_event
<1>2. "out" \in Pipes /\ x.sa.shutErr \in Errors
  BY DEF Pipes, Formed, Talk, Shape
<1>3. Rests(x, y) /\ Formed(y) /\ y.pipe = x.pipe
  BY <1>2, NotifyStays DEF Rests, Later
<1>4. y.lost = x.lost
  BY DEF NotifyConsumer, Post, Formed, Talk, Shape, Fields
<1> HIDE DEF y
<1>5. /\ Formed(u) /\ u.lost = x.lost /\ u.local = x.local /\ u.pipe = x.pipe
      /\ u.net.eof = x.net.eof /\ u.net.reset = x.net.reset
  BY DEF Formed, Talk, Shape, Fields, NetFields
<1>6. /\ Formed(w) /\ w.lost = y.lost /\ w.local = y.local /\ w.pipe = y.pipe
      /\ w.net.eof = y.net.eof /\ w.net.reset = y.net.reset
  BY <1>3 DEF Formed, Talk, Shape, Fields, NetFields, SaFields, Errors
<1> HIDE DEF u, w
<1>7. Rests(x, u) /\ Rests(y, w) /\ Rests(x, x)
  BY <1>5, <1>6 DEF Rests, Later, SameMood
<1>8. Rests(x, w)
  BY <1>3, <1>7, StaysOn
<1>9. QED
  BY <1>1, <1>3, <1>4, <1>5, <1>6, <1>7, <1>8

(* shutdown() only sends an event.                                            *)
LEMMA ShutdownStays ==
  ASSUME NEW x, Formed(x), NEW err \in Errors
  PROVE  LET y == shutdown(x, err)
         IN Rests(x, y) /\ (Fine(x) => Fine(y)) /\ y.local = x.local /\ y.pipe = x.pipe
<1> DEFINE y == [x EXCEPT !.sa.shutting = TRUE, !.sa.shutErr = err]
           to == <<"socket", "shutdown">>
<1>1. shutdown(x, err) = Post(y, to, "ok")
  BY DEF shutdown
<1>2. /\ Formed(y) /\ y.queue = x.queue /\ y.pipe = x.pipe /\ y.local = x.local
      /\ y.net = x.net /\ y.lost = x.lost /\ y.sa.socket = x.sa.socket
  BY DEF Formed, Talk, Shape, Fields, SaFields
<1> HIDE DEF y
<1>3. Rests(x, y) /\ (Fine(x) => Fine(y))
  BY <1>2 DEF Rests, Later, SameMood, Fine
<1>4. "ok" \in Errors /\ to \in TalkTo /\ to \notin Endings
  BY ToFacts, EndingFacts DEF Errors
<1> HIDE DEF to
<1>5. /\ Rests(y, Post(y, to, "ok")) /\ (Fine(y) => Fine(Post(y, to, "ok")))
      /\ Post(y, to, "ok").local = y.local /\ Post(y, to, "ok").pipe = y.pipe
  BY <1>2, <1>4, PostStays
<1>6. QED
  BY <1>1, <1>2, <1>3, <1>5, StaysOn

(* The adapter's add_to_buffer(): while output waits it only says "again".    *)
LEMMA SocketReadStays ==
  ASSUME NEW x, Formed(x), NEW r, r = socket_read(x)
  PROVE  /\ Stays(x, r[2]) /\ r[1] \in LoopErrors
         /\ r[2].pipe["out"] = x.pipe["out"]
         /\ r[1] = "failed" => x.net.reset
         /\ x.use = "control" /\ x.pipe["out"].buf # <<>> => r[1] = "again"
<1> DEFINE room == ReadLimit(x)
           n == Min2(room, Len(x.net.avail))
           b == x.pipe["in"].buf \o SubSeq(x.net.avail, 1, n)
           a == SubSeq(x.net.avail, n + 1, Len(x.net.avail))
           y == [x EXCEPT !.pipe["in"].buf = b, !.net.avail = a]
           z == [x EXCEPT !.sa.throttled = TRUE]
           w == [x EXCEPT !.sa.waitR = TRUE]
<1>1. r \in {<<"again", x>>, <<"again", z>>, <<"nobufs", x>>, <<"failed", x>>, <<"ok", y>>,
             <<"nodata", x>>, <<"again", w>>}
  BY DEF socket_read
<1>2. r[1] = "failed" => x.net.reset
  BY DEF socket_read
<1>3. x.use = "control" /\ x.pipe["out"].buf # <<>> => r[1] = "again"
  BY DEF socket_read, Throttles
<1> HIDE DEF n, room, b, a
<1>4. Stays(x, x)
  BY DEF Stays, Keeps, Rests, Later, SameMood
<1>5. Stays(x, y) /\ y.pipe["out"] = x.pipe["out"]
  <2>1. /\ Formed(y) /\ y.queue = x.queue /\ y.lost = x.lost /\ y.local = x.local
        /\ y.sa = x.sa /\ y.net.shut = x.net.shut /\ y.net.eof = x.net.eof
        /\ y.net.reset = x.net.reset /\ y.pipe["out"] = x.pipe["out"]
        /\ \A p \in Pipes : /\ y.pipe[p].adder = x.pipe[p].adder
                            /\ y.pipe[p].consumer = x.pipe[p].consumer
                            /\ y.pipe[p].errA = x.pipe[p].errA
    BY DEF Formed, Talk, Shape, Fields, PipeFields, Pipes, NetFields
  <2> HIDE DEF y
  <2>2. QED
    BY <2>1, AlikeStays DEF SameMood
<1>6. ASSUME NEW v \in {z, w} PROVE Stays(x, v) /\ v.pipe["out"] = x.pipe["out"]
  <2>1. /\ Formed(v) /\ v.queue = x.queue /\ v.lost = x.lost /\ v.local = x.local
        /\ v.sa.socket = x.sa.socket /\ v.sa.shutting = x.sa.shutting /\ v.net = x.net
        /\ v.pipe = x.pipe
    BY <1>6 DEF Formed, Talk, Shape, Fields, SaFields
  <2> HIDE DEF z, w
  <2>2. QED
    BY <2>1, AlikeStays DEF SameMood
<1> HIDE DEF y, z, w
<1>7. QED
  BY <1>1, <1>2, <1>3, <1>4, <1>5, <1>6 DEF LoopErrors

(* The adapter's consume_buffer(): the output goes on, or has been written.   *)
LEMMA SocketWriteStays ==
  ASSUME NEW x, Formed(x), NEW flushed, NEW r, r = socket_write(x, flushed)
  PROVE  /\ Later(x, r[2]) /\ SameMood(x, r[2]) /\ r[1] \in LoopErrors
         /\ r[2].pipe["in"].consumer = x.pipe["in"].consumer
         /\ Fine(x) /\ ~x.net.reset =>
              /\ r[1] \in {"ok", "again"}
              /\ \/ Fine(r[2]) /\ (Still(x) => Still(r[2]))
                 \/ x.sa.shutting /\ r[2].lost = 0 /\ r[2].pipe["out"].buf = <<>>
<1> DEFINE n == Min2(x.net.room, Len(x.pipe["out"].buf))
           b == SubSeq(x.pipe["out"].buf, n + 1, Len(x.pipe["out"].buf))
           k == x.net.room - n
           y == [x EXCEPT !.pipe["out"].buf = b, !.net.room = k]
           v == [y EXCEPT !.sa.throttled = FALSE]
           z == IF y.sa.shutting THEN on_shutdown_event(y, flushed)
                ELSE IF y.sa.throttled /\ y.pipe["out"].buf = <<>>
                THEN NotifyAdder(v, "in", "ok") ELSE y
           w == [x EXCEPT !.sa.waitW = TRUE]
<1>1. r \in {<<"again", x>>, <<"failed", x>>, <<"again", w>>, <<"ok", z>>}
  BY DEF socket_write
<1>2. r[1] = "failed" => x.net.reset \/ x.net.shut # "no"
  BY DEF socket_write
<1> HIDE DEF n, b, k
<1>3. "in" \in Pipes /\ "out" \in Pipes /\ "ok" \in Errors
  BY DEF Pipes, Errors
<1> DEFINE Near(u) == /\ Later(x, u) /\ SameMood(x, u)
                      /\ u.pipe["in"].consumer = x.pipe["in"].consumer
           Well(u) == Fine(x) => Fine(u) /\ (Still(x) => Still(u))
<1>4. Near(x) /\ Well(x)
  BY DEF Later, SameMood
<1>5. Near(w) /\ Well(w)
  <2>1. /\ Formed(w) /\ w.queue = x.queue /\ w.lost = x.lost /\ w.local = x.local
        /\ w.sa.socket = x.sa.socket /\ w.sa.shutting = x.sa.shutting /\ w.net = x.net
        /\ w.pipe = x.pipe
    BY DEF Formed, Talk, Shape, Fields, SaFields
  <2> HIDE DEF w
  <2>2. QED
    BY <2>1 DEF Later, SameMood, Fine, Still
<1>6. /\ Formed(y) /\ y.queue = x.queue /\ y.lost = x.lost /\ y.local = x.local
      /\ y.sa = x.sa /\ y.net.shut = x.net.shut /\ y.net.eof = x.net.eof
      /\ y.net.reset = x.net.reset
      /\ \A p \in Pipes : /\ y.pipe[p].adder = x.pipe[p].adder
                          /\ y.pipe[p].consumer = x.pipe[p].consumer
                          /\ y.pipe[p].errA = x.pipe[p].errA
  BY DEF Formed, Talk, Shape, Fields, PipeFields, NetFields
<1> HIDE DEF w, y
<1>7. Near(y) /\ Well(y)
  BY <1>3, <1>6 DEF Later, SameMood, Fine, Still
<1>8. Stays(y, v) /\ Formed(v) /\ v.pipe = y.pipe
  <2>1. /\ Formed(v) /\ v.queue = y.queue /\ v.lost = y.lost /\ v.local = y.local
        /\ v.sa.socket = y.sa.socket /\ v.sa.shutting = y.sa.shutting /\ v.net = y.net
        /\ v.pipe = y.pipe
    BY <1>6 DEF Formed, Talk, Shape, Fields, SaFields
  <2> HIDE DEF v
  <2>2. QED
    BY <2>1, AlikeStays DEF SameMood
<1> HIDE DEF v
<1>9. Stays(y, NotifyAdder(v, "in", "ok")) /\ NotifyAdder(v, "in", "ok").pipe = y.pipe
  BY <1>3, <1>8, NotifyStays, StaysOn
<1>10. Near(NotifyAdder(v, "in", "ok")) /\ Well(NotifyAdder(v, "in", "ok"))
  BY <1>7, <1>9, StaysOn DEF Stays, Keeps, Rests, SameMood
<1> DEFINE o == on_shutdown_event(y, flushed)
<1>11. /\ Rests(y, o) /\ o.pipe = y.pipe /\ o.lost = y.lost
       /\ y.sa.socket /\ y.pipe["out"].buf # <<>> => o = y
  BY <1>6, OnShutdownStays
<1> HIDE DEF o
<1>12. Near(o)
  BY <1>7, <1>11, StaysOn DEF Rests, SameMood
<1> DEFINE Over(u) == u.lost = 0 /\ u.pipe["out"].buf = <<>>
<1>13. Fine(x) => Well(o) \/ Over(o)
  BY <1>6, <1>7, <1>11 DEF Fine
<1>14. x.sa.shutting => z = o
  BY <1>6 DEF o
<1>15. ~x.sa.shutting => z \in {NotifyAdder(v, "in", "ok"), y}
  BY <1>6 DEF o
<1> HIDE DEF z, Over, Near, Well
<1>16. Near(z) /\ (Fine(x) => Well(z) \/ (x.sa.shutting /\ Over(z)))
  BY <1>7, <1>10, <1>12, <1>13, <1>14, <1>15
<1>17. CASE r = <<"again", x>> \/ r = <<"again", w>>
  BY <1>4, <1>5, <1>17 DEF LoopErrors, Near, Well
<1>18. CASE r = <<"failed", x>>
  BY <1>2, <1>4, <1>18 DEF LoopErrors, Fine, Near
<1>19. CASE r = <<"ok", z>>
  BY <1>16, <1>19 DEF LoopErrors, Near, Well, Over
<1>20. QED
  BY <1>1, <1>17, <1>18, <1>19

(* The commander responds.                                                    *)
LEMMA RespondKeeps ==
  ASSUME NEW x, Formed(x)
  PROVE  LET y == respond(x)
         IN Keeps(x, y) /\ SameMood(x, y) /\ y.pipe["in"] = x.pipe["in"]
<1> DEFINE b == Append(x.pipe["out"].buf, "c")
           y == [x EXCEPT !.pipe["out"].buf = b]
           z == NotifyAdder(y, "out", "ok")
           on == y.pipe["out"].adder
           w == [z EXCEPT !.local.sent = on]
<1>1. respond(x) = IF y.local.sent THEN y ELSE w
  BY DEF respond
<1> HIDE DEF b
<1>2. "in" \in Pipes /\ "out" \in Pipes /\ "ok" \in Errors
  BY DEF Pipes, Errors
<1>3. /\ Formed(y) /\ y.queue = x.queue /\ y.lost = x.lost /\ y.local = x.local
      /\ y.sa = x.sa /\ y.net = x.net /\ y.pipe["in"] = x.pipe["in"]
      /\ \A p \in Pipes : /\ y.pipe[p].consumer = x.pipe[p].consumer
                          /\ y.pipe[p].errA = x.pipe[p].errA
  BY DEF Formed, Talk, Shape, Fields, PipeFields, Pipes
<1> HIDE DEF y
<1>4. Keeps(x, y) /\ SameMood(x, y)
  BY <1>2, <1>3 DEF Keeps, Later, SameMood, Fine, Still
<1>5. Stays(y, z) /\ z.pipe = y.pipe /\ Formed(z)
  BY <1>2, <1>3, NotifyStays, SMTT(30) DEF Stays, Keeps, Later
<1> HIDE DEF z, on
<1>6. /\ Formed(w) /\ w.queue = z.queue /\ w.lost = z.lost /\ SameMood(z, w)
      /\ w.sa = z.sa /\ w.net = z.net /\ w.pipe = z.pipe
  BY <1>5 DEF Formed, Talk, Shape, Fields, LocalFields, SameMood
<1> HIDE DEF w
<1>7. Stays(z, w)
  BY <1>6, AlikeStays
<1>8. Keeps(x, w) /\ SameMood(x, w)
  BY <1>4, <1>5, <1>7, StaysOn DEF Stays, Rests, SameMood
<1>9. QED
  BY <1>1, <1>3, <1>4, <1>5, <1>6, <1>8

(* The command is over.                                                       *)
LEMMA CommandOverKeeps ==
  ASSUME NEW x, Formed(x)
  PROVE  LET y == act_upon_command_reply(x)
         IN Keeps(x, y) /\ y.local.quit = x.local.quit
<1> DEFINE y == [x EXCEPT !.local.busy = FALSE, !.local.postponed = FALSE]
           z == NotifyConsumer(y, "in", "ok")
<1>1. act_upon_command_reply(x) = IF x.local.postponed THEN z ELSE y
  BY DEF act_upon_command_reply
<1>2. /\ Formed(y) /\ y.queue = x.queue /\ y.lost = x.lost /\ y.local.quit = x.local.quit
      /\ y.sa = x.sa /\ y.net = x.net /\ y.pipe = x.pipe
  BY DEF Formed, Talk, Shape, Fields, LocalFields
<1> HIDE DEF y
<1>3. Keeps(x, y)
  BY <1>2 DEF Keeps, Later, Fine, Still
<1>4. "in" \in Pipes /\ "ok" \in Errors
  BY DEF Pipes, Errors
<1>5. Stays(y, z)
  BY <1>2, <1>4, NotifyStays
<1>6. QED
  BY <1>1, <1>2, <1>3, <1>5, StaysOn DEF Stays, Rests, SameMood

(* The commander reads no more lines; the socket is shut down behind what it  *)
(* said.                                                                      *)
LEMMA ShutdownCommanderKeeps ==
  ASSUME NEW x, Formed(x), NEW err \in Errors
  PROVE  LET y == shutdown_commander(x, err)
         IN /\ Later(x, y) /\ (Fine(x) => Fine(y))
            /\ y.local.busy = FALSE /\ y.local.nested = x.local.nested
            /\ y.local.quit = x.local.quit /\ ~y.pipe["in"].consumer
<1> DEFINE y == [x EXCEPT !.local.busy = FALSE]
           z == set_consumer(y, "in", FALSE)
           w == shutdown(z, err)
<1>1. shutdown_commander(x, err) = w
  BY DEF shutdown_commander
<1>2. /\ Formed(y) /\ y.queue = x.queue /\ y.lost = x.lost /\ y.sa = x.sa /\ y.net = x.net
      /\ y.pipe = x.pipe /\ y.local.busy = FALSE /\ y.local.nested = x.local.nested
      /\ y.local.quit = x.local.quit
  BY DEF Formed, Talk, Shape, Fields, LocalFields
<1> HIDE DEF y
<1>3. Keeps(x, y)
  BY <1>2 DEF Keeps, Later, Fine, Still
<1>4. "in" \in Pipes
  BY DEF Pipes
<1>5. Rests(y, z) /\ Keeps(y, z) /\ ~z.pipe["in"].consumer
  BY <1>2, <1>4, SetConsumerStays
<1> HIDE DEF z
<1>6. Rests(z, w) /\ (Fine(z) => Fine(w)) /\ w.local = z.local /\ w.pipe = z.pipe
  BY <1>5, ShutdownStays DEF Keeps, Later
<1> HIDE DEF w
<1>7. Later(x, w)
  BY <1>3, <1>5, <1>6, StaysOn DEF Keeps, Rests
<1>8. QED
  BY <1>1, <1>2, <1>3, <1>5, <1>6, <1>7 DEF Keeps, Rests, SameMood

(* A client that has quit gets no other answer after this one.                *)
Goodbye(x, y) ==
  /\ ~x.local.busy /\ y.local.busy = FALSE /\ y.local.nested = x.local.nested
  /\ ~y.pipe["in"].consumer /\ y.local.quit = "quit"

(* The line consumer.                                                         *)
LEMMA ConsumeLineKeeps ==
  ASSUME NEW x, Formed(x), NEW r \in consume_line(x)
  PROVE  /\ Later(x, r[2]) /\ (Fine(x) => Fine(r[2])) /\ r[1] \in LoopErrors
         /\ \/ r[2].local.quit = x.local.quit /\ (Still(x) => Still(r[2]))
            \/ r[1] = "ok" /\ Goodbye(x, r[2])
<1> DEFINE b == SubSeq(x.pipe["in"].buf, Eol(x) + 1, Len(x.pipe["in"].buf))
           y == [x EXCEPT !.pipe["in"].buf = b]
           a == respond(y)
           v == [a EXCEPT !.local.quit = "quit"]
           w == [x EXCEPT !.local.postponed = TRUE]
           u == [y EXCEPT !.local.busy = TRUE]
           d == shutdown_commander(v, "shutdown")
           Ok(z) == Keeps(x, z) /\ z.local.quit = x.local.quit
<1>1. \/ r \in {<<"nobufs", x>>, <<"nodata", x>>, <<"again", w>>, <<"ok", a>>, <<"ok", u>>}
      \/ ~x.local.busy /\ r = <<"ok", d>>
  BY DEF consume_line
<1> HIDE DEF b
<1>2. Ok(x)
  BY DEF Keeps, Later
<1>3. /\ Formed(y) /\ y.queue = x.queue /\ y.lost = x.lost /\ y.local = x.local
      /\ y.sa = x.sa /\ y.net = x.net /\ y.pipe["out"] = x.pipe["out"]
      /\ \A p \in Pipes : /\ y.pipe[p].adder = x.pipe[p].adder
                          /\ y.pipe[p].consumer = x.pipe[p].consumer
                          /\ y.pipe[p].errA = x.pipe[p].errA
  BY DEF Formed, Talk, Shape, Fields, PipeFields, Pipes
<1>4. /\ Formed(w) /\ w.queue = x.queue /\ w.lost = x.lost /\ w.local.quit = x.local.quit
      /\ w.sa = x.sa /\ w.net = x.net /\ w.pipe = x.pipe
  BY DEF Formed, Talk, Shape, Fields, LocalFields
<1> HIDE DEF y, w
<1>5. Stays(x, y)
  BY <1>3, AlikeStays DEF SameMood
<1>6. Ok(w)
  BY <1>4 DEF Keeps, Later, Fine, Still
<1>7. /\ Formed(u) /\ u.queue = y.queue /\ u.lost = y.lost /\ u.local.quit = y.local.quit
      /\ u.sa = y.sa /\ u.net = y.net /\ u.pipe = y.pipe
  BY <1>3 DEF Formed, Talk, Shape, Fields, LocalFields
<1> HIDE DEF u
<1>8. Keeps(y, u)
  BY <1>7 DEF Keeps, Later, Fine, Still
<1>9. Ok(u)
  BY <1>3, <1>5, <1>7, <1>8, StaysOn DEF Stays
<1>10. Keeps(y, a) /\ SameMood(y, a) /\ Formed(a)
  BY <1>3, RespondKeeps DEF Keeps, Later
<1> HIDE DEF a
<1>11. Ok(a) /\ a.local.nested = x.local.nested
  BY <1>3, <1>5, <1>10, StaysOn DEF Stays, SameMood
<1>12. /\ Formed(v) /\ v.queue = a.queue /\ v.lost = a.lost /\ v.local.quit = "quit"
       /\ v.local.nested = a.local.nested
       /\ v.sa = a.sa /\ v.net = a.net /\ v.pipe = a.pipe
  BY <1>10 DEF Formed, Talk, Shape, Fields, LocalFields
<1> HIDE DEF v
<1>13. Keeps(a, v)
  BY <1>12 DEF Keeps, Later, Fine, Still
<1>14. "shutdown" \in Errors
  BY DEF Errors
<1>15. /\ Later(v, d) /\ (Fine(v) => Fine(d))
       /\ d.local.busy = FALSE /\ d.local.nested = v.local.nested
       /\ d.local.quit = v.local.quit /\ ~d.pipe["in"].consumer
  BY <1>12, <1>14, ShutdownCommanderKeeps
<1> HIDE DEF d
<1>16. Later(x, d) /\ (Fine(x) => Fine(d))
  BY <1>11, <1>13, <1>15, StaysOn DEF Keeps
<1>17. CASE ~x.local.busy /\ r = <<"ok", d>>
  <2>1. Goodbye(x, d)
    BY <1>11, <1>12, <1>15, <1>17 DEF Goodbye
  <2>2. QED
    BY <1>16, <1>17, <2>1 DEF LoopErrors
<1>18. CASE r \in {<<"nobufs", x>>, <<"nodata", x>>, <<"again", w>>, <<"ok", a>>, <<"ok", u>>}
  <2> HIDE DEF Ok
  <2>1. Ok(r[2]) /\ r[1] \in LoopErrors
    BY <1>2, <1>6, <1>9, <1>11, <1>18 DEF LoopErrors
  <2>2. QED
    BY <2>1 DEF Ok, Keeps
<1>19. QED
  BY <1>1, <1>17, <1>18

(* The streamed adder: without a lister it adds nothing.                      *)
LEMMA AddStreamedKeeps ==
  ASSUME NEW x, Formed(x)
  PROVE  LET r == add_streamed(x)
         IN /\ Keeps(x, r[2]) /\ r[2].local.quit = x.local.quit /\ r[1] \in {"ok", "again"}
            /\ x.local.nested = "none" => Stays(x, r[2])
<1> DEFINE y == [x EXCEPT !.local.sent = FALSE]
           z == [y EXCEPT !.local.nested = "none"]
           n == IF y.local.nested = "idle" THEN "reading" ELSE "twice"
           w == [y EXCEPT !.local.nested = n]
           a == respond(z)
           o == act_upon_command_reply(a)
           r == add_streamed(x)
<1>1. /\ r \in {<<"ok", y>>, <<"again", x>>, <<"ok", o>>, <<"again", w>>}
      /\ x.local.nested = "none" => r \in {<<"ok", y>>, <<"again", x>>}
  BY DEF add_streamed
<1> HIDE DEF n, r
<1>2. Stays(x, x)
  BY DEF Stays, Keeps, Rests, Later, SameMood
<1>3. /\ Formed(y) /\ y.queue = x.queue /\ y.lost = x.lost /\ SameMood(x, y)
      /\ y.sa = x.sa /\ y.net = x.net /\ y.pipe = x.pipe
  BY DEF Formed, Talk, Shape, Fields, LocalFields, SameMood
<1> HIDE DEF y
<1>4. Stays(x, y) /\ y.local.quit = x.local.quit
  BY <1>3, AlikeStays DEF SameMood
<1>5. ASSUME NEW v \in {z, w}
      PROVE  Formed(v) /\ Keeps(x, v) /\ v.local.quit = x.local.quit
  <2>1. /\ Formed(v) /\ v.queue = y.queue /\ v.lost = y.lost /\ v.local.quit = y.local.quit
        /\ v.sa = y.sa /\ v.net = y.net /\ v.pipe = y.pipe
    BY <1>3, <1>5 DEF Formed, Talk, Shape, Fields, LocalFields
  <2>2. Keeps(y, v)
    BY <2>1 DEF Keeps, Later, Fine, Still
  <2>3. QED
    BY <1>4, <2>1, <2>2, StaysOn DEF Stays
<1> HIDE DEF z, w
<1>6. Keeps(x, a) /\ a.local.quit = x.local.quit /\ Formed(a)
  BY <1>5, RespondKeeps, StaysOn DEF SameMood, Keeps, Later
<1> HIDE DEF a
<1>7. Keeps(x, o) /\ o.local.quit = x.local.quit
  BY <1>6, CommandOverKeeps, StaysOn
<1> HIDE DEF o
<1>8. /\ Keeps(x, x) /\ Keeps(x, y)
  BY <1>2, <1>4 DEF Stays
<1>9. QED
  BY <1>1, <1>2, <1>4, <1>5, <1>7, <1>8 DEF r

-----------------------------------------------------------------------------
(* What the loops keep of it *)

(* The loop ends.                                                             *)
LEMMA IdleStays == ASSUME NEW x, Formed(x) PROVE Stays(x, Idle(x)) /\ Idle(x).pipe = x.pipe
<1> DEFINE y == Idle(x)
<1>1. /\ Formed(y) /\ y.queue = x.queue /\ y.lost = x.lost /\ y.local = x.local
      /\ y.sa = x.sa /\ y.net = x.net /\ y.pipe = x.pipe
  BY DEF Idle, Formed, Talk, Shape, Fields
<1> HIDE DEF y
<1>2. Stays(x, y)
  BY <1>1, AlikeStays DEF SameMood
<1>3. QED
  BY <1>1, <1>2 DEF y

(* The loop takes another turn.                                               *)
LEMMA AgainStays == ASSUME NEW x, Formed(x) PROVE Stays(x, Again(x))
<1> DEFINE y == Again(x)
<1>1. /\ Formed(y) /\ y.queue = x.queue /\ y.lost = x.lost /\ y.local = x.local
      /\ y.sa = x.sa /\ y.net = x.net /\ y.pipe = x.pipe
  BY DEF Again, Formed, Talk, Shape, Fields
<1> HIDE DEF y
<1>2. QED
  BY <1>1, AlikeStays DEF SameMood, y

(* Flags of a pipe, and its adder's error if it is over.                      *)
LEMMA FlagStays ==
  ASSUME NEW x, Formed(x), NEW p \in Pipes, NEW b, NEW e
  PROVE  /\ Stays(x, [x EXCEPT !.pipe[p].waitA = b]) /\ Stays(x, [x EXCEPT !.pipe[p].waitC = b])
         /\ Stays(x, [x EXCEPT !.pipe[p].errC = e]) /\ Stays(x, [x EXCEPT !.pipe[p].errA = "ok"])
         /\ e \in Errors => Rests(x, [x EXCEPT !.pipe[p].errA = e])
<1> DEFINE v == [x EXCEPT !.pipe[p].waitA = b]
           w == [x EXCEPT !.pipe[p].waitC = b]
           u == [x EXCEPT !.pipe[p].errC = e]
           o == [x EXCEPT !.pipe[p].errA = "ok"]
           f == [x EXCEPT !.pipe[p].errA = e]
<1> DEFINE Same(y) ==
             /\ Formed(y) /\ y.queue = x.queue /\ y.lost = x.lost /\ y.local = x.local
             /\ y.sa = x.sa /\ y.net = x.net
             /\ \A q \in Pipes : /\ y.pipe[q].adder = x.pipe[q].adder
                                 /\ y.pipe[q].consumer = x.pipe[q].consumer
                                 /\ y.pipe[q].buf = x.pipe[q].buf
<1>1. Same(v) /\ \A q \in Pipes : v.pipe[q].errA \in {x.pipe[q].errA, "ok"}
  BY DEF Formed, Talk, Shape, Fields, PipeFields
<1>2. Same(w) /\ \A q \in Pipes : w.pipe[q].errA \in {x.pipe[q].errA, "ok"}
  BY DEF Formed, Talk, Shape, Fields, PipeFields
<1>3. Same(u) /\ \A q \in Pipes : u.pipe[q].errA \in {x.pipe[q].errA, "ok"}
  BY DEF Formed, Talk, Shape, Fields, PipeFields
<1>4. Same(o) /\ \A q \in Pipes : o.pipe[q].errA \in {x.pipe[q].errA, "ok"}
  BY DEF Formed, Talk, Shape, Fields, PipeFields, Errors
<1>5. e \in Errors => Same(f)
  BY DEF Formed, Talk, Shape, Fields, PipeFields
<1> HIDE DEF v, w, u, o, f
<1>6. "in" \in Pipes /\ "out" \in Pipes
  BY DEF Pipes
<1>7. ASSUME NEW y, Same(y), \A q \in Pipes : y.pipe[q].errA \in {x.pipe[q].errA, "ok"}
      PROVE  Stays(x, y)
  BY <1>6, <1>7, AlikeStays DEF SameMood
<1>8. e \in Errors => Rests(x, f)
  BY <1>5, <1>6 DEF Rests, Later, SameMood
<1> HIDE DEF Same
<1>9. QED
  BY <1>1, <1>2, <1>3, <1>4, <1>7, <1>8 DEF v, w, u, o, f

(* After the loops.                                                           *)
LEMMA AfterStays ==
  ASSUME NEW x, Formed(x), NEW p \in Pipes
  PROVE  Stays(x, after_add(x, p)) /\ Stays(x, after_consume(x, p))
<1> DEFINE y == Idle(x)
           v == [y EXCEPT !.pipe[p].waitC = TRUE]
           w == [y EXCEPT !.pipe[p].waitA = TRUE]
<1>1. Stays(x, y) /\ Formed(y)
  BY IdleStays DEF Stays, Keeps, Later
<1>2. after_add(x, p) \in {y, NotifyConsumer(v, p, "ok")}
  BY DEF after_add
<1>3. after_consume(x, p) \in {y, NotifyConsumer(v, p, "ok"), NotifyAdder(w, p, "ok")}
  BY DEF after_consume, wake_adder
<1> HIDE DEF y
<1>4. Stays(x, v) /\ Stays(x, w) /\ Formed(v) /\ Formed(w)
  <2>1. Stays(y, v) /\ Stays(y, w)
    BY <1>1, FlagStays
  <2> HIDE DEF v, w
  <2>2. Stays(x, v) /\ Stays(x, w)
    BY <1>1, <2>1, StaysOn
  <2>3. QED
    BY <2>2 DEF Stays, Keeps, Later
<1> HIDE DEF v, w
<1>5. "ok" \in Errors
  BY DEF Errors
<1>6. Stays(v, NotifyConsumer(v, p, "ok")) /\ Stays(w, NotifyAdder(w, p, "ok"))
  BY <1>4, <1>5, NotifyStays
<1>7. Stays(x, NotifyConsumer(v, p, "ok")) /\ Stays(x, NotifyAdder(w, p, "ok"))
  BY <1>4, <1>6, StaysOn
<1>8. QED
  BY <1>1, <1>2, <1>3, <1>7

(* What an adder's answer does: the pipe is done, or the loop goes on or ends *)
(* as if nothing had happened.                                                *)
LEMMA AddedStays ==
  ASSUME NEW x, Formed(x), NEW p \in Pipes, NEW err \in LoopErrors
  PROVE  LET y == added(x, p, err)
         IN /\ Rests(x, y)
            /\ p = "in" /\ err # "failed" => Stays(x, y) \/ ~y.pipe["in"].adder
            /\ err = "again" => Stays(x, y)
            /\ x.pipe[p].consumer /\ err = "ok" => Stays(x, y)
<1> DEFINE z == added(x, p, err)
           y == [x EXCEPT !.pipe[p].errA = "ok"]
           v == [y EXCEPT !.pipe[p].waitA = TRUE]
           w == [x EXCEPT !.pipe[p].errA = err]
           Ended == {done(x, p, "failed"), done(x, p, "ok"), done(x, p, "nobufs"), done(x, p, err)}
<1>1. {"ok", "failed", "nobufs", err} \subseteq Errors
  BY DEF Errors, LoopErrors
<1>2. z \in {after_add(v, p), after_add(y, p), Again(y), after_add(w, p)} \cup Ended
  BY DEF added, LoopErrors
<1>3. /\ err = "again" => z = after_add(v, p)
      /\ x.pipe[p].consumer /\ err = "ok" => z = Again(y)
      /\ err # "failed" => z \in {after_add(v, p), after_add(y, p), Again(y)} \cup Ended
  BY DEF added, LoopErrors
<1> HIDE DEF z
<1>4. Stays(x, y) /\ Rests(x, w)
  BY <1>1, FlagStays
<1> HIDE DEF y, w
<1>5. Formed(y) /\ Formed(w)
  BY <1>4 DEF Stays, Rests, Later
<1>6. Stays(x, v)
  BY <1>4, <1>5, FlagStays, StaysOn
<1> HIDE DEF v
<1>7. Formed(v)
  BY <1>6 DEF Stays, Rests, Later
<1>8. /\ Stays(x, after_add(v, p)) /\ Stays(x, after_add(y, p)) /\ Stays(x, Again(y))
  BY <1>4, <1>5, <1>6, <1>7, AfterStays, AgainStays, StaysOn
<1>9. Rests(x, after_add(w, p))
  BY <1>4, <1>5, AfterStays, StaysOn DEF Stays
<1>10. \A u \in Ended : Rests(x, u) /\ (p = "in" => ~u.pipe["in"].adder)
  BY <1>1, DoneStays
<1> HIDE DEF Ended
<1>11. \A u : Stays(x, u) => Rests(x, u)
  BY DEF Stays
<1>12. QED
  BY <1>2, <1>3, <1>8, <1>9, <1>10, <1>11 DEF z

(* What a consumer's answer does.                                             *)
LEMMA ConsumedStays ==
  ASSUME NEW x, Formed(x), NEW p \in Pipes, NEW err \in LoopErrors
  PROVE  LET y == consumed(x, p, err)
         IN /\ Rests(x, y) /\ (p = "in" => Stays(x, y) \/ ~y.pipe["in"].adder)
            /\ err \in {"ok", "again", "nodata"} => Stays(x, y)
<1> DEFINE z == consumed(x, p, err)
           y == [x EXCEPT !.pipe[p].errC = err]
           v == [y EXCEPT !.pipe[p].waitC = TRUE]
<1>1. err \in Errors
  BY DEF Errors, LoopErrors
<1>2. /\ z \in {Again(y), after_consume(v, p), after_consume(y, p), done(y, p, err)}
      /\ err \in {"ok", "again", "nodata"} =>
           z \in {Again(y), after_consume(v, p), after_consume(y, p)}
  BY DEF consumed, LoopErrors
<1> HIDE DEF z
<1>3. Stays(x, y)
  BY FlagStays
<1> HIDE DEF y
<1>4. Formed(y)
  BY <1>3 DEF Stays, Rests, Later
<1>5. Stays(x, v)
  BY <1>3, <1>4, FlagStays, StaysOn
<1> HIDE DEF v
<1>6. Formed(v)
  BY <1>5 DEF Stays, Rests, Later
<1>7. Stays(x, Again(y)) /\ Stays(x, after_consume(v, p)) /\ Stays(x, after_consume(y, p))
  BY <1>3, <1>4, <1>5, <1>6, AfterStays, AgainStays, StaysOn
<1>8. Rests(y, done(y, p, err)) /\ (p = "in" => ~done(y, p, err).pipe["in"].adder)
  BY <1>1, <1>4, DoneStays
<1>9. Rests(x, done(y, p, err))
  BY <1>3, <1>8, StaysOn DEF Stays
<1>10. \A u : Stays(x, u) => Rests(x, u)
  BY DEF Stays
<1>11. QED
  BY <1>2, <1>7, <1>8, <1>9, <1>10 DEF z

-----------------------------------------------------------------------------
(* The steps of a session that is to end politely *)

(* Nothing a method may do can harm: the session is broken and has not said   *)
(* goodbye, or has and all is written.                                        *)
Safe(x) == IF x.local.quit = "no" THEN Broken(x)
           ELSE x.lost = 0 /\ x.pipe["out"].buf = <<>>

(* What holds otherwise, as long as it matters.                               *)
Firm(x) ==
  /\ Fine(x) /\ ~x.net.reset
  /\ IF x.local.quit = "no" THEN ~Broken(x) /\ Still(x) ELSE x.pipe["out"].buf # <<>>

(* A method that stays, or cannot harm.                                       *)
LEMMA PoliteRests ==
  ASSUME NEW x, NEW y, NEW c, Polite(x, c), Rests(x, y),
         Firm(x) /\ (x.local.quit = "no" \/ c) => Stays(x, y) \/ Safe(y)
  PROVE  Formed(y) /\ Polite(y, c)
<1>1. Formed(y) /\ y.local.quit = x.local.quit
  BY DEF Rests, Later, SameMood
<1>2. CASE x.local.quit = "no"
  <2>1. CASE Broken(x)
    <3>1. Broken(y)
      BY <2>1 DEF Broken, Rests, Later
    <3>2. QED
      BY <1>1, <1>2, <3>1 DEF Polite, Before
  <2>2. CASE ~Broken(x)
    <3>1. Fine(x) /\ Still(x)
      BY <1>2, <2>2 DEF Polite, Before
    <3>2. Firm(x)
      BY <1>2, <2>2, <3>1 DEF Firm, Broken
    <3>3. Broken(y) \/ (Fine(y) /\ Still(y))
      BY <1>1, <1>2, <3>1, <3>2 DEF Safe, Stays, Keeps
    <3>4. QED
      BY <1>1, <1>2, <3>3 DEF Polite, Before
  <2>3. QED
    BY <2>1, <2>2
<1>3. CASE x.local.quit # "no" /\ c
  <2>1. Parting(x)
    BY <1>3 DEF Polite
  <2>2. /\ ~y.local.busy /\ y.local.nested = "none" /\ ~y.pipe["in"].consumer
        /\ y.net.reset = x.net.reset
    BY <2>1 DEF Parting, Rests, Later, SameMood
  <2>3. CASE x.pipe["out"].buf = <<>>
    <3>1. y.lost = 0 /\ y.pipe["out"].buf = <<>>
      BY <2>1, <2>3 DEF Parting, Rests
    <3>2. QED
      BY <1>1, <1>3, <2>2, <3>1 DEF Polite, Parting
  <2>4. CASE x.pipe["out"].buf # <<>>
    <3>1. Fine(x) /\ ~x.net.reset
      BY <2>1, <2>4 DEF Parting
    <3>2. Firm(x)
      BY <1>3, <2>4, <3>1 DEF Firm
    <3>3. (y.lost = 0 /\ y.pipe["out"].buf = <<>>) \/ Fine(y)
      BY <1>1, <1>3, <3>1, <3>2 DEF Safe, Stays, Keeps
    <3>4. y.lost = 0
      BY <3>3 DEF Fine
    <3>5. QED
      BY <1>1, <1>3, <2>2, <3>1, <3>3, <3>4 DEF Polite, Parting
  <2>5. QED
    BY <2>3, <2>4
<1>4. CASE x.local.quit # "no" /\ ~c
  BY <1>1, <1>4 DEF Polite
<1>5. QED
  BY <1>2, <1>3, <1>4

(* A method that stays.                                                       *)
LEMMA PoliteStays ==
  ASSUME NEW x, NEW y, NEW c, Polite(x, c), Stays(x, y) PROVE Formed(y) /\ Polite(y, c)
<1>1. Rests(x, y)
  BY DEF Stays
<1>2. QED
  BY <1>1, PoliteRests

(* A method of the commander, before anybody said goodbye.                    *)
LEMMA PoliteKeeps ==
  ASSUME NEW x, NEW y, NEW c, Polite(x, c), Keeps(x, y), y.local.quit = x.local.quit,
         x.local.quit = "no" \/ ~c
  PROVE  Formed(y) /\ Polite(y, c)
<1>1. Formed(y) /\ (Broken(x) => Broken(y)) /\ (Fine(x) => Fine(y)) /\ (Still(x) => Still(y))
  BY DEF Keeps, Later, Broken
<1>2. QED
  BY <1>1 DEF Polite, Before

(* The channel's session is polite, and its lister is asked once.             *)
Courteous == Speaking /\ Asked(s) /\ Turn(s) /\ Formed(s) /\ Polite(s, h.calm)

Courteously == Formed(s') /\ Polite(s', h'.calm)

(* A turn of an adder's loop.                                                 *)
LEMMA AddPolite == ASSUME Courteous, AddStep PROVE Courteously
<1> DEFINE p == s.run.pipe
           c == h.calm
<1>1. /\ p \in Pipes /\ s.use = "control" /\ "in" \in Pipes /\ "out" \in Pipes /\ h' = h
      /\ Formed(s) /\ Polite(s, c)
  BY DEF Courteous, Speaking, Talk, Shape, Pipes, AddStep
<1>2. CASE s' = after_add(s, p)
  BY <1>1, <1>2, AfterStays, PoliteStays DEF Courteously
<1>3. ASSUME NEW r \in AddToBuffer(s, p), s' = added(r[2], p, r[1]) PROVE Courteously
  <2> DEFINE x == r[2]
             err == r[1]
  <2>1. CASE p = "in"
    <3>1. r = socket_read(s)
      BY <1>1, <1>3, <2>1, WhoIsAsked
    <3>2. /\ Stays(s, x) /\ err \in LoopErrors
          /\ x.pipe["out"] = s.pipe["out"]
          /\ err = "failed" => s.net.reset
          /\ s.pipe["out"].buf # <<>> => err = "again"
      BY <1>1, <3>1, SocketReadStays
    <3>3. s' = added(x, "in", err)
      BY <1>3, <2>1
    <3> HIDE DEF x, err
    <3>4. Formed(x) /\ Polite(x, c) /\ x.net.reset = s.net.reset
      BY <1>1, <3>2, PoliteStays DEF Stays, Keeps, Later
    <3>5. /\ Rests(x, s') /\ (err # "failed" => Stays(x, s') \/ ~s'.pipe["in"].adder)
          /\ err = "again" => Stays(x, s')
      BY <1>1, <3>2, <3>3, <3>4, AddedStays
    <3>6. ASSUME Firm(x) PROVE Stays(x, s') \/ Safe(s')
      <4>1. err # "failed" /\ (x.local.quit # "no" => err = "again")
        BY <3>2, <3>4, <3>6 DEF Firm
      <4>2. s'.local.quit = x.local.quit
        BY <3>5 DEF Rests, SameMood
      <4>3. QED
        BY <3>5, <4>1, <4>2 DEF Safe, Broken
    <3>7. QED
      BY <1>1, <3>4, <3>5, <3>6, PoliteRests DEF Courteously
  <2>2. CASE p = "out"
    <3>1. r = add_streamed(s)
      BY <1>1, <1>3, <2>2, WhoIsAsked
    <3>2. /\ Keeps(s, x) /\ x.local.quit = s.local.quit /\ err \in {"ok", "again"}
          /\ s.local.nested = "none" => Stays(s, x)
      BY <1>1, <3>1, AddStreamedKeeps
    <3>3. s' = added(x, "out", err)
      BY <1>3, <2>2
    <3> HIDE DEF x, err
    <3>4. Formed(x) /\ Polite(x, c)
      <4>1. CASE s.local.nested = "none"
        BY <1>1, <3>2, <4>1, PoliteStays
      <4>2. CASE s.local.nested # "none"
        <5>1. s.local.quit = "no" \/ ~c
          BY <1>1, <4>2 DEF Polite, Parting
        <5>2. QED
          BY <1>1, <3>2, <5>1, PoliteKeeps
      <4>3. QED
        BY <4>1, <4>2
    <3>5. /\ Rests(x, s') /\ (err = "again" => Stays(x, s'))
          /\ x.pipe["out"].consumer /\ err = "ok" => Stays(x, s')
      BY <1>1, <3>2, <3>3, <3>4, AddedStays DEF LoopErrors
    <3>6. Firm(x) => Stays(x, s')
      BY <3>2, <3>5 DEF Firm, Fine
    <3>7. QED
      BY <1>1, <3>4, <3>5, <3>6, PoliteRests DEF Courteously
  <2>3. QED
    BY <1>1, <2>1, <2>2 DEF Pipes
<1>4. QED
  BY <1>2, <1>3 DEF AddStep

(* A turn of a consumer's loop: a client may quit, and its last reply stands  *)
(* before the shutdown.                                                       *)
LEMMA ConsumePolite == ASSUME Courteous, ConsumeStep PROVE Courteously
<1> DEFINE p == s.run.pipe
           c == h.calm
<1>1. /\ p \in Pipes /\ s.use = "control" /\ "in" \in Pipes /\ "out" \in Pipes
      /\ Formed(s) /\ Polite(s, c) /\ "calm" \in DOMAIN h
  BY DEF Courteous, Speaking, Talk, Shape, Pipes, HistoryFields
<1>2. CASE s' = after_consume(s, p) /\ h' = h
  BY <1>1, <1>2, AfterStays, PoliteStays DEF Courteously
<1>3. ASSUME s.pipe[p].consumer, s.pipe[p].buf # <<>>,
             NEW r \in ConsumeBuffer(s, p), s' = consumed(r[2], p, r[1]),
             h'.calm = IF Quitting(s, r[2]) THEN NothingLeft(r[2]) ELSE c
      PROVE  Courteously
  <2> DEFINE x == r[2]
             err == r[1]
             d == h'.calm
  <2>1. CASE p = "in"
    <3>1. r \in consume_line(s)
      BY <1>1, <1>3, <2>1 DEF ConsumeBuffer
    <3>2. /\ Later(s, x) /\ (Fine(s) => Fine(x)) /\ err \in LoopErrors
          /\ \/ x.local.quit = s.local.quit /\ (Still(s) => Still(x))
             \/ err = "ok" /\ Goodbye(s, x)
      BY <1>1, <3>1, ConsumeLineKeeps
    <3>3. s' = consumed(x, "in", err)
      BY <1>3, <2>1
    <3>4. s.local.quit = "no" \/ ~c
      BY <1>1, <1>3, <2>1 DEF Polite, Parting
    <3>5. d = IF s.local.quit = "no" /\ x.local.quit # "no" THEN NothingLeft(x) ELSE c
      BY <1>3 DEF Quitting
    <3> HIDE DEF x, err, d
    <3>6. Formed(x)
      BY <3>2 DEF Later
    <3>7. CASE x.local.quit = s.local.quit /\ (Still(s) => Still(x))
      <4>1. Keeps(s, x) /\ d = c
        BY <3>2, <3>5, <3>7 DEF Keeps
      <4>2. Polite(x, d)
        BY <1>1, <3>4, <3>7, <4>1, PoliteKeeps
      <4>3. Rests(x, s') /\ (Stays(x, s') \/ ~s'.pipe["in"].adder)
        BY <1>1, <3>2, <3>3, <3>6, ConsumedStays
      <4>4. Firm(x) /\ (x.local.quit = "no" \/ d) => Stays(x, s') \/ Safe(s')
        BY <3>4, <3>7, <4>1, <4>3 DEF Safe, Broken, Rests, SameMood
      <4>5. QED
        BY <4>2, <4>3, <4>4, PoliteRests DEF Courteously, d
    <3>8. CASE err = "ok" /\ Goodbye(s, x)
      <4>1. Stays(x, s')
        BY <1>1, <3>2, <3>3, <3>6, <3>8, ConsumedStays
      <4>2. Polite(x, d)
        <5> SUFFICES ASSUME d PROVE Parting(x)
          BY <3>8 DEF Polite, Goodbye
        <5>1. s.local.quit = "no" /\ NothingLeft(x)
          BY <3>4, <3>5, <3>8 DEF Goodbye
        <5>2. ~Broken(s) /\ ~x.net.reset
          BY <3>2, <5>1 DEF NothingLeft, Broken, Later
        <5>3. Fine(x)
          BY <1>1, <3>2, <5>1, <5>2 DEF Polite, Before
        <5>4. s.local.nested = "none"
          BY <3>8 DEF Courteous, Asked, Lined, Goodbye
        <5>5. QED
          BY <3>8, <5>2, <5>3, <5>4 DEF Parting, Goodbye, Fine
      <4>3. QED
        BY <4>1, <4>2, PoliteStays DEF Courteously, d
    <3>9. QED
      BY <3>2, <3>7, <3>8
  <2>2. CASE p = "out"
    <3>1. \E flushed : r = socket_write(s, flushed)
      BY <1>1, <1>3, <2>2 DEF ConsumeBuffer
    <3>2. /\ Later(s, x) /\ SameMood(s, x) /\ err \in LoopErrors
          /\ x.pipe["in"].consumer = s.pipe["in"].consumer
          /\ Fine(s) /\ ~s.net.reset =>
               /\ err \in {"ok", "again"}
               /\ \/ Fine(x) /\ (Still(s) => Still(x))
                  \/ s.sa.shutting /\ x.lost = 0 /\ x.pipe["out"].buf = <<>>
      BY <1>1, <3>1, SocketWriteStays
    <3>3. s' = consumed(x, "out", err)
      BY <1>3, <2>2
    <3>4. s.pipe["out"].buf # <<>>
      BY <1>3, <2>2
    <3>5. d = c
      BY <1>3, <3>2 DEF Quitting, SameMood
    <3> HIDE DEF x, err, d
    <3>6. Formed(x) /\ x.local.quit = s.local.quit /\ x.net.reset = s.net.reset
      BY <3>2 DEF Later, SameMood
    <3>7. /\ Rests(x, s') /\ (err \in {"ok", "again"} => Stays(x, s'))
      BY <1>1, <3>2, <3>3, <3>6, ConsumedStays
    <3>8. Polite(x, c)
      <4>1. CASE s.local.quit = "no"
        <5>1. CASE Broken(s)
          BY <3>2, <3>6, <4>1, <5>1 DEF Broken, Later, Polite, Before
        <5>2. CASE ~Broken(s)
          <6>1. Fine(s) /\ Still(s) /\ ~s.net.reset /\ ~s.sa.shutting
            BY <1>1, <4>1, <5>2 DEF Polite, Before, Broken, Still
          <6>2. Fine(x) /\ Still(x)
            BY <3>2, <6>1
          <6>3. QED
            BY <3>6, <4>1, <6>2 DEF Polite, Before
        <5>3. QED
          BY <5>1, <5>2
      <4>2. CASE s.local.quit # "no" /\ c
        <5>1. Parting(s) /\ Fine(s) /\ ~s.net.reset
          BY <1>1, <3>4, <4>2 DEF Polite, Parting
        <5>2. Fine(x) \/ (x.lost = 0 /\ x.pipe["out"].buf = <<>>)
          BY <3>2, <5>1
        <5>3. x.lost = 0
          BY <5>2 DEF Fine
        <5>4. Parting(x)
          BY <3>2, <3>6, <5>1, <5>2, <5>3 DEF Parting, SameMood
        <5>5. QED
          BY <3>6, <4>2, <5>4 DEF Polite
      <4>3. CASE s.local.quit # "no" /\ ~c
        BY <3>6, <4>3 DEF Polite
      <4>4. QED
        BY <4>1, <4>2, <4>3
    <3>9. ASSUME Firm(x), x.local.quit = "no" \/ c PROVE Stays(x, s')
      <4>1. Fine(s) /\ ~s.net.reset
        <5>1. CASE s.local.quit = "no"
          <6>1. ~Broken(s)
            BY <3>2, <3>6, <3>9, <5>1 DEF Firm, Broken, Later
          <6>2. QED
            BY <1>1, <5>1, <6>1 DEF Polite, Before, Broken
        <5>2. CASE s.local.quit # "no"
          BY <1>1, <3>4, <3>6, <3>9, <5>2 DEF Polite, Parting
        <5>3. QED
          BY <5>1, <5>2
      <4>2. QED
        BY <3>2, <3>7, <4>1
    <3>10. QED
      BY <3>5, <3>7, <3>8, <3>9, PoliteRests DEF Courteously, d
  <2>3. QED
    BY <1>1, <2>1, <2>2 DEF Pipes
<1>4. QED
  <2>1. CASE s' = after_consume(s, p) /\ h' = h
    BY <1>2, <2>1
  <2>2. CASE ~(s' = after_consume(s, p) /\ h' = h)
    <3>1. /\ s.pipe[p].consumer /\ s.pipe[p].buf # <<>>
          /\ \E r \in ConsumeBuffer(s, p) :
               /\ s' = consumed(r[2], p, r[1])
               /\ h' = [h EXCEPT !.calm = IF Quitting(s, r[2]) THEN NothingLeft(r[2]) ELSE h.calm]
      BY <1>1, <2>2 DEF ConsumeStep
    <3>2. PICK r \in ConsumeBuffer(s, p) :
               /\ s' = consumed(r[2], p, r[1])
               /\ h' = [h EXCEPT !.calm = IF Quitting(s, r[2]) THEN NothingLeft(r[2]) ELSE h.calm]
      BY <3>1
    <3>3. h'.calm = IF Quitting(s, r[2]) THEN NothingLeft(r[2]) ELSE c
      BY <1>1, <3>2
    <3>4. QED
      BY <1>3, <3>1, <3>2, <3>3
  <2>3. QED
    BY <2>1, <2>2

(* The event at hand: it is taken, and a firm session has no bad ones.        *)
LEMMA TakenStays ==
  ASSUME Courteous, s.queue # <<>>
  PROVE  LET e == Head(s.queue)
         IN /\ Stays(s, Taken) /\ Formed(Taken) /\ Polite(Taken, h.calm)
            /\ Taken.pipe = s.pipe /\ Taken.local = s.local /\ Taken.net = s.net
            /\ Taken.sa = s.sa /\ Taken.lost = s.lost /\ Taken.use = s.use
            /\ e.err \in Errors
            /\ Fine(s) => e.err = "ok" /\ e.to \notin Endings
            /\ Still(s) => e.to # <<"socket", "shutdown">>
<1> DEFINE t == Taken
           q == s.queue
           e == Head(q)
<1>1. Formed(s) /\ Talk(s) /\ Polite(s, h.calm) /\ q \in Seq(TalkEvent) /\ q # <<>>
  BY DEF Courteous, Formed, Talk
<1>2. /\ 1 \in DOMAIN q /\ q[1] = e
      /\ \A k \in DOMAIN Tail(q) : \E i \in DOMAIN q : q[i] = Tail(q)[k]
  <2>1. \A k \in DOMAIN Tail(q) : k + 1 \in DOMAIN q /\ q[k + 1] = Tail(q)[k]
    BY <1>1
  <2>2. 1 \in DOMAIN q /\ q[1] = e
    BY <1>1
  <2>3. QED
    BY <2>1, <2>2
<1>3. Talk(t) /\ e.err \in Errors
  BY <1>1, TakenTalks DEF Courteous, Talks
<1>4. /\ t.queue = Tail(q) /\ t.lost = s.lost /\ t.local = s.local /\ t.sa = s.sa
      /\ t.net = s.net /\ t.pipe = s.pipe /\ t.use = s.use
  BY <1>1 DEF Taken, Talk, Shape, Fields
<1> HIDE DEF t
<1>5. Formed(t)
  BY <1>1, <1>3, <1>4 DEF Formed
<1>6. Fine(s) => Fine(t)
  <2>1. Plain(q) => Plain(Tail(q))
    BY <1>2 DEF Plain
  <2>2. QED
    BY <1>4, <2>1 DEF Fine
<1>7. Still(s) => Still(t)
  BY <1>2, <1>4 DEF Still
<1>8. Stays(s, t)
  BY <1>4, <1>5, <1>6, <1>7 DEF Stays, Keeps, Rests, Later, SameMood
<1>9. Polite(t, h.calm)
  BY <1>1, <1>8, PoliteStays
<1>10. /\ Fine(s) => e.err = "ok" /\ e.to \notin Endings
       /\ Still(s) => e.to # <<"socket", "shutdown">>
  BY <1>2 DEF Fine, Plain, Still
<1>11. QED
  BY <1>3, <1>4, <1>5, <1>8, <1>9, <1>10 DEF t

(* What a firm session has, its event taken, it had before.                   *)
LEMMA FirmBefore ==
  ASSUME Courteous, s.queue # <<>>, Firm(Taken), s.local.quit = "no" \/ h.calm
  PROVE  /\ Head(s.queue).err = "ok" /\ Head(s.queue).to \notin Endings
         /\ s.local.quit = "no" => Head(s.queue).to # <<"socket", "shutdown">>
<1>1. /\ Taken.pipe = s.pipe /\ Taken.local = s.local /\ Taken.net = s.net
      /\ Polite(s, h.calm)
  BY TakenStays DEF Courteous
<1>2. CASE s.local.quit = "no"
  <2>1. ~Broken(s)
    BY <1>1, <1>2 DEF Firm, Broken
  <2>2. Fine(s) /\ Still(s)
    BY <1>1, <1>2, <2>1 DEF Polite, Before
  <2>3. QED
    BY <2>2, TakenStays
<1>3. CASE s.local.quit # "no"
  <2>1. s.pipe["out"].buf # <<>>
    BY <1>1, <1>3 DEF Firm
  <2>2. Fine(s)
    BY <1>1, <1>3, <2>1 DEF Polite, Parting
  <2>3. QED
    BY <1>3, <2>2, TakenStays
<1>4. QED
  BY <1>2, <1>3

(* The events of the pipes.                                                   *)
LEMMA PipePolite ==
  ASSUME Courteous, NEW p \in Pipes, AdderEvent(p) \/ ConsumerEvent(p) \/ PipeDone(p)
  PROVE  Courteously
<1> DEFINE t == Taken
           err == Head(s.queue).err
           c == h.calm
<1>1. s.queue # <<>> /\ h'.calm = h.calm
  BY DEF AdderEvent, ConsumerEvent, PipeDone, Dispatched, Reported, Courteous, Speaking,
     HistoryFields
<1>2. Formed(t) /\ Polite(t, c) /\ t.local = s.local /\ err \in Errors
  BY <1>1, TakenStays
<1>3. Firm(t) /\ (t.local.quit = "no" \/ c) => err = "ok" /\ Head(s.queue).to \notin Endings
  BY <1>1, <1>2, FirmBefore
<1>4. ASSUME s' = done(t, p, err), err # "ok" PROVE Courteously
  <2>1. Rests(t, s')
    BY <1>2, <1>4, DoneStays
  <2> HIDE DEF t, err
  <2>2. QED
    BY <1>1, <1>2, <1>3, <1>4, <2>1, PoliteRests DEF Courteously
<1>5. CASE AdderEvent(p)
  <2> DEFINE x == [t EXCEPT !.pipe[p].waitA = FALSE]
             run == [at |-> "add", pipe |-> p, loop |-> 0]
             y == [x EXCEPT !.run = run]
  <2>1. \/ s' = done(t, p, err) /\ err # "ok"
        \/ s' = done(x, p, x.pipe[p].errA) /\ x.pipe[p].errA # "ok"
        \/ s' = y
    BY <1>5 DEF AdderEvent
  <2>2. "loop" \in DOMAIN run /\ DOMAIN run = {"at", "pipe", "loop"} /\ run.pipe \in Pipes
    OBVIOUS
  <2> HIDE DEF t, err, run
  <2>3. Stays(t, x)
    BY <1>2, FlagStays
  <2> HIDE DEF x
  <2>4. Formed(x) /\ Polite(x, c)
    BY <1>2, <2>3, PoliteStays
  <2>5. x.pipe[p].errA \in Errors
    BY <2>4 DEF Formed, Talk, Shape
  <2>6. CASE s' = done(x, p, x.pipe[p].errA) /\ x.pipe[p].errA # "ok"
    <3>1. Rests(x, s')
      BY <2>4, <2>5, <2>6, DoneStays
    <3>2. ~Firm(x)
      BY <2>6 DEF Firm, Fine
    <3>3. QED
      BY <1>1, <2>4, <3>1, <3>2, PoliteRests DEF Courteously
  <2>7. CASE s' = y
    <3>1. /\ Formed(y) /\ y.queue = x.queue /\ y.lost = x.lost /\ y.local = x.local
          /\ y.sa = x.sa /\ y.net = x.net /\ y.pipe = x.pipe
      BY <2>2, <2>4 DEF Formed, Talk, Shape, Fields
    <3> HIDE DEF y
    <3>2. Stays(x, y)
      BY <3>1, AlikeStays DEF SameMood
    <3>3. QED
      BY <1>1, <2>4, <2>7, <3>2, PoliteStays DEF Courteously
  <2>8. QED
    BY <1>4, <2>1, <2>6, <2>7
<1>6. CASE ConsumerEvent(p)
  <2> DEFINE x == [t EXCEPT !.pipe[p].waitC = FALSE]
             run == [at |-> "consume", pipe |-> p, loop |-> 0]
             y == [x EXCEPT !.run = run]
  <2>1. (s' = done(t, p, err) /\ err # "ok") \/ s' = y
    BY <1>6 DEF ConsumerEvent
  <2>2. DOMAIN run = {"at", "pipe", "loop"} /\ run.pipe \in Pipes
    OBVIOUS
  <2> HIDE DEF t, err, run
  <2>3. Stays(t, x)
    BY <1>2, FlagStays
  <2> HIDE DEF x
  <2>4. Formed(x) /\ Polite(x, c)
    BY <1>2, <2>3, PoliteStays
  <2>5. CASE s' = y
    <3>1. /\ Formed(y) /\ y.queue = x.queue /\ y.lost = x.lost /\ y.local = x.local
          /\ y.sa = x.sa /\ y.net = x.net /\ y.pipe = x.pipe
      BY <2>2, <2>4 DEF Formed, Talk, Shape, Fields
    <3> HIDE DEF y
    <3>2. Stays(x, y)
      BY <3>1, AlikeStays DEF SameMood
    <3>3. QED
      BY <1>1, <2>4, <2>5, <3>2, PoliteStays DEF Courteously
  <2>6. QED
    BY <1>4, <2>1, <2>5
<1>7. CASE PipeDone(p)
  <2> DEFINE x == clear(t, Other(p))
             y == Disconnected(x)
             z == Post(y, <<"channel", "done">>, err)
  <2>1. s' \in {x, z} /\ Head(s.queue).to \in Endings
    BY <1>7, EndingFacts DEF PipeDone, Dispatched
  <2>2. ~(Firm(t) /\ (t.local.quit = "no" \/ c))
    BY <1>3, <2>1
  <2>3. Other(p) \in Pipes /\ <<"channel", "done">> \in TalkTo
    BY ToFacts DEF Other, Pipes
  <2> HIDE DEF t, err
  <2>4. Rests(t, x)
    BY <1>2, <2>3, ClearStays
  <2> HIDE DEF x
  <2>5. Rests(t, y) /\ Formed(y)
    BY <2>4, DisconnectedStays, StaysOn DEF Rests, Later
  <2> HIDE DEF y
  <2>6. Rests(t, z)
    BY <1>2, <2>3, <2>5, PostStays, StaysOn
  <2> HIDE DEF z
  <2>7. Rests(t, s')
    BY <2>1, <2>4, <2>6
  <2>8. QED
    BY <1>1, <1>2, <2>2, <2>7, PoliteRests DEF Courteously
<1>8. QED
  BY <1>5, <1>6, <1>7

(* The events of the socket: it is not shut down before the output has gone.  *)
LEMMA SocketPolite ==
  ASSUME Courteous, SocketRead \/ SocketWrite \/ ShutdownEvent PROVE Courteously
<1> DEFINE t == Taken
           err == Head(s.queue).err
           c == h.calm
           v == [t EXCEPT !.sa.waitR = FALSE]
           w == [t EXCEPT !.sa.waitW = FALSE]
           a == NotifyAdder(v, "in", err)
           b == NotifyConsumer(w, "out", err)
<1>1. s.queue # <<>> /\ h' = h
  BY DEF SocketRead, SocketWrite, ShutdownEvent, Dispatched
<1>2. /\ Formed(t) /\ Polite(t, c) /\ t.local = s.local /\ t.net = s.net /\ err \in Errors
      /\ "in" \in Pipes /\ "out" \in Pipes
  BY <1>1, TakenStays DEF Pipes
<1>3. Firm(t) /\ (t.local.quit = "no" \/ c) =>
        err = "ok" /\ (t.local.quit = "no" => Head(s.queue).to # <<"socket", "shutdown">>)
  BY <1>1, <1>2, FirmBefore
<1>4. \/ s' = v \/ s' = a \/ s' = b
      \/ s' = on_shutdown_event(w, TRUE) /\ w.net.shut = "flushing"
      \/ /\ Head(s.queue).to = <<"socket", "shutdown">>
         /\ \E flushed \in BOOLEAN : s' = on_shutdown_event(t, flushed)
  BY DEF SocketRead, SocketWrite, ShutdownEvent, Dispatched
<1> HIDE DEF t
<1>5. ASSUME NEW u \in {v, w}
      PROVE  Stays(t, u) /\ Formed(u) /\ Polite(u, c) /\ u.net = t.net
  <2>1. /\ Formed(u) /\ u.queue = t.queue /\ u.lost = t.lost /\ u.local = t.local
        /\ u.sa.socket = t.sa.socket /\ u.sa.shutting = t.sa.shutting /\ u.net = t.net
        /\ u.pipe = t.pipe
    BY <1>2, <1>5 DEF Formed, Talk, Shape, Fields, SaFields
  <2> HIDE DEF v, w
  <2>2. Stays(t, u)
    BY <2>1, AlikeStays DEF SameMood
  <2>3. QED
    BY <1>2, <2>1, <2>2, PoliteStays
<1> HIDE DEF v, w, err
<1>6. /\ Rests(v, a) /\ (err = "ok" => Stays(v, a))
      /\ Rests(w, b) /\ (err = "ok" => Stays(w, b))
  BY <1>2, <1>5, NotifyStays
<1> HIDE DEF a, b
<1>7. CASE s' = v
  BY <1>1, <1>5, <1>7 DEF Courteously
<1>8. CASE s' = a \/ s' = b
  <2>1. /\ Rests(t, a) /\ (err = "ok" => Stays(t, a))
        /\ Rests(t, b) /\ (err = "ok" => Stays(t, b))
    BY <1>5, <1>6, StaysOn DEF Stays
  <2>2. QED
    BY <1>1, <1>2, <1>3, <1>8, <2>1, PoliteRests DEF Courteously
<1>9. CASE s' = on_shutdown_event(w, TRUE) /\ w.net.shut = "flushing"
  <2>1. Rests(w, s') /\ ~Firm(w)
    BY <1>5, <1>9, OnShutdownStays DEF Firm, Fine
  <2>2. QED
    BY <1>1, <1>5, <2>1, PoliteRests DEF Courteously
<1>10. CASE /\ Head(s.queue).to = <<"socket", "shutdown">>
            /\ \E flushed \in BOOLEAN : s' = on_shutdown_event(t, flushed)
  <2>1. /\ Rests(t, s')
        /\ t.sa.socket /\ t.pipe["out"].buf # <<>> => s' = t
    BY <1>2, <1>10, OnShutdownStays
  <2>2. Firm(t) /\ (t.local.quit = "no" \/ c) => s' = t
    BY <1>3, <1>10, <2>1 DEF Firm, Fine
  <2>3. Stays(t, t)
    BY <1>2 DEF Stays, Keeps, Rests, Later, SameMood
  <2>4. QED
    BY <1>1, <1>2, <2>1, <2>2, <2>3, PoliteRests DEF Courteously
<1>11. QED
  BY <1>4, <1>7, <1>8, <1>9, <1>10

(* A result and entries come only before somebody said goodbye.               *)
LEMMA AnswerPolite ==
  ASSUME Courteous, CommandEnds \/ EntriesArrive PROVE Courteously
<1> DEFINE t == Taken
           c == h.calm
<1>1. s.queue # <<>> /\ h' = h /\ s.run.at = "idle" /\ Asked(s) /\ Calm(s) /\ Polite(s, c)
  BY TurnFacts DEF CommandEnds, EntriesArrive, Dispatched, Courteous
<1>2. Formed(t) /\ Polite(t, c) /\ t.local = s.local
  BY <1>1, TakenStays
<1>3. s.local.quit = "no" \/ ~c \/ (~s.local.busy /\ s.local.nested = "none")
  BY <1>1 DEF Polite, Parting
<1>4. CASE CommandEnds
  <2> DEFINE y == respond(t)
             z == [y EXCEPT !.local.nested = "idle", !.local.entries = Entries]
  <2>1. \/ s' = t
        \/ s.local.busy /\ s' = act_upon_command_reply(y)
        \/ s.local.busy /\ s' = z
    BY <1>4 DEF CommandEnds
  <2> HIDE DEF t
  <2>2. Keeps(t, y) /\ SameMood(t, y) /\ Formed(y)
    BY <1>2, RespondKeeps DEF Keeps, Later
  <2> HIDE DEF y
  <2>3. Keeps(y, act_upon_command_reply(y)) /\ act_upon_command_reply(y).local.quit = y.local.quit
    BY <2>2, CommandOverKeeps
  <2>4. Keeps(y, z) /\ z.local.quit = y.local.quit
    <3>1. /\ Formed(z) /\ z.queue = y.queue /\ z.lost = y.lost /\ z.local.quit = y.local.quit
          /\ z.sa = y.sa /\ z.net = y.net /\ z.pipe = y.pipe
      BY <2>2 DEF Formed, Talk, Shape, Fields, LocalFields
    <3> HIDE DEF z
    <3>2. QED
      BY <3>1 DEF Keeps, Later, Fine, Still
  <2> HIDE DEF z
  <2>5. CASE s' = t
    BY <1>1, <1>2, <2>5 DEF Courteously
  <2>6. CASE s.local.busy /\ s' \in {act_upon_command_reply(y), z}
    <3>1. Keeps(t, s') /\ s'.local.quit = t.local.quit
      BY <2>2, <2>3, <2>4, <2>6, StaysOn DEF SameMood
    <3>2. QED
      BY <1>1, <1>2, <1>3, <2>6, <3>1, PoliteKeeps DEF Courteously
  <2>7. QED
    BY <2>1, <2>5, <2>6
<1>5. CASE EntriesArrive
  <2> DEFINE b == Append(t.pipe["out"].buf, "c")
             m == t.local.entries - 1
             y == [t EXCEPT !.pipe["out"].buf = b, !.local.nested = "idle", !.local.entries = m]
  <2>1. s' = NotifyAdder(y, "out", "ok") /\ Head(s.queue).to = Listed
    BY <1>5 DEF EntriesArrive, Dispatched, Listed
  <2>2. s.local.quit = "no" \/ ~c
    <3>1. t.local.nested = "reading"
      BY <1>1, <2>1, TakenAsks
    <3>2. QED
      BY <1>2, <1>3, <3>1
  <2> HIDE DEF t, b, m
  <2>3. "out" \in Pipes /\ "ok" \in Errors
    BY DEF Pipes, Errors
  <2>4. /\ Formed(y) /\ y.queue = t.queue /\ y.lost = t.lost /\ y.local.quit = t.local.quit
        /\ y.sa = t.sa /\ y.net = t.net /\ y.pipe["in"] = t.pipe["in"]
        /\ \A p \in Pipes : /\ y.pipe[p].consumer = t.pipe[p].consumer
                            /\ y.pipe[p].errA = t.pipe[p].errA
    BY <1>2 DEF Formed, Talk, Shape, Fields, PipeFields, Pipes, LocalFields
  <2> HIDE DEF y
  <2>5. Keeps(t, y)
    BY <2>3, <2>4 DEF Keeps, Later, Fine, Still
  <2>6. Stays(y, s')
    BY <2>1, <2>3, <2>4, NotifyStays
  <2>7. Keeps(t, s') /\ s'.local.quit = t.local.quit
    BY <2>4, <2>5, <2>6, StaysOn DEF Stays, Rests, SameMood
  <2>8. QED
    BY <1>1, <1>2, <2>2, <2>7, PoliteKeeps DEF Courteously
<1>6. QED
  BY <1>4, <1>5

(* A session that is over has sent its last reply.                            *)
LEMMA OverPolite ==
  ASSUME Courteous, s.queue # <<>>, s' = over(Taken),
         h'.calm => h.calm \/ s.local.quit = "no"
  PROVE  GoodbyeIsSent'
<1>1. s'.lost = s.lost /\ s'.local.quit = s.local.quit
  <2>1. Taken.lost = s.lost /\ Taken.local = s.local
    BY TakenStays
  <2>2. s'.lost = Taken.lost /\ s'.local.quit = Taken.local.quit
    BY DEF over, Fresh
  <2>3. QED
    BY <2>1, <2>2
<1>2. QED
  BY <1>1 DEF GoodbyeIsSent, Courteous, Polite, Parting

(* Time is up: the last reply stands before the shutdown.                     *)
LEMMA TimeoutPolite ==
  ASSUME Courteous, Timeout PROVE Courteously \/ (s'.use = "over" /\ GoodbyeIsSent')
<1> DEFINE t == Taken
           y == respond(t)
           d == [y EXCEPT !.local.quit = "timeout"]
           c == h'.calm
<1>1. /\ s.queue # <<>> /\ "calm" \in DOMAIN h /\ Polite(s, h.calm)
      /\ \/ s' = over(t)
         \/ s.local.nested = "none" /\ s' = shutdown_commander(d, "timeout")
      /\ h' = [h EXCEPT !.calm = IF s.local.quit = "no" THEN NothingLeft(s) ELSE FALSE]
  BY DEF Timeout, Dispatched, Courteous, Speaking, HistoryFields
<1>2. c = IF s.local.quit = "no" THEN NothingLeft(s) ELSE FALSE
  BY <1>1
<1>3. CASE s' = over(t)
  <2>1. s'.use = "over"
    BY <1>3 DEF over, Fresh
  <2>2. QED
    BY <1>1, <1>2, <1>3, <2>1, OverPolite
<1>4. CASE s.local.nested = "none" /\ s' = shutdown_commander(d, "timeout")
  <2>1. /\ Stays(s, t) /\ Formed(t) /\ t.local = s.local
    BY <1>1, TakenStays
  <2> HIDE DEF t
  <2>2. Keeps(t, y) /\ SameMood(t, y) /\ Formed(y)
    BY <2>1, RespondKeeps DEF Keeps, Later
  <2> HIDE DEF y
  <2>3. /\ Formed(d) /\ d.queue = y.queue /\ d.lost = y.lost /\ d.local.nested = y.local.nested
        /\ d.local.quit = "timeout" /\ d.sa = y.sa /\ d.net = y.net /\ d.pipe = y.pipe
    BY <2>2 DEF Formed, Talk, Shape, Fields, LocalFields
  <2> HIDE DEF d, c
  <2>4. Keeps(y, d)
    BY <2>3 DEF Keeps, Later, Fine, Still
  <2>5. Keeps(s, d)
    BY <2>1, <2>2, <2>4, StaysOn DEF Stays
  <2>6. "timeout" \in Errors
    BY DEF Errors
  <2>7. /\ Later(d, s') /\ (Fine(d) => Fine(s'))
        /\ s'.local.busy = FALSE /\ s'.local.nested = d.local.nested
        /\ s'.local.quit = d.local.quit /\ ~s'.pipe["in"].consumer
    BY <1>4, <2>3, <2>6, ShutdownCommanderKeeps
  <2>8. s'.local.nested = "none" /\ s'.local.quit = "timeout"
    BY <1>4, <2>1, <2>2, <2>3, <2>7 DEF SameMood
  <2>9. Later(s, s')
    BY <2>5, <2>7, StaysOn DEF Keeps
  <2>10. c => Parting(s')
    <3> SUFFICES ASSUME c PROVE Parting(s')
      OBVIOUS
    <3>1. s.local.quit = "no" /\ NothingLeft(s)
      BY <1>2
    <3>2. Fine(s) /\ ~s.net.reset
      BY <1>1, <3>1 DEF NothingLeft, Polite, Before, Broken
    <3>3. Fine(s') /\ ~s'.net.reset
      BY <2>5, <2>7, <2>9, <3>2 DEF Keeps, Later
    <3>4. QED
      BY <2>7, <2>8, <3>3 DEF Parting, Fine
  <2>11. Formed(s') /\ Polite(s', c)
    BY <2>7, <2>8, <2>10 DEF Polite, Later
  <2>12. QED
    BY <2>11 DEF Courteously, c
<1>5. QED
  BY <1>1, <1>3, <1>4

(* What other threads, the clock and the socket send.                         *)
LEMMA ThreadsPolite ==
  ASSUME Courteous,
         WorkIsDone \/ EntriesAreRead \/ TimerExpires \/ BecomesReadable \/ BecomesWritable
  PROVE  Courteously
<1>1. Formed(s) /\ Polite(s, h.calm)
  BY DEF Courteous
<1>2. PICK to \in {Result, Listed, <<"commander", "timer">>, <<"socket", "read">>,
                   <<"socket", "write">>}, err \in {"ok", "failed"} :
        s' = Post(s, to, err) /\ (err = "ok" \/ s.net.reset)
  <2>1. CASE WorkIsDone \/ EntriesAreRead \/ TimerExpires
    BY <2>1 DEF WorkIsDone, EntriesAreRead, TimerExpires, Once, Result, Listed
  <2>2. CASE BecomesReadable
    BY <2>2 DEF BecomesReadable
  <2>3. CASE BecomesWritable
    BY <2>3 DEF BecomesWritable
  <2>4. QED
    BY <2>1, <2>2, <2>3
<1>3. h' = h
  BY DEF WorkIsDone, EntriesAreRead, TimerExpires, Once, BecomesReadable, BecomesWritable
<1>4. /\ to \in TalkTo /\ to \notin Endings \cup {<<"socket", "shutdown">>} /\ err \in Errors
  BY ToFacts, EndingFacts DEF Errors, Result, Listed
<1>5. Rests(s, s') /\ (err = "ok" => Stays(s, s'))
  BY <1>1, <1>2, <1>4, PostStays
<1>6. Firm(s) => Stays(s, s')
  BY <1>2, <1>5 DEF Firm
<1>7. QED
  BY <1>1, <1>3, <1>5, <1>6, PoliteRests DEF Courteously

(* What the client does: it is not calm if it does anything but read after    *)
(* somebody said goodbye.                                                     *)
LEMMA ClientPolite ==
  ASSUME Courteous,
         (\E u \in Units : ClientSends(u)) \/ ClientReads \/ ClientCloses \/ ClientResets
  PROVE  Courteously
<1> DEFINE c == h.calm
           Near(y) == /\ Formed(y) /\ y.queue = s.queue /\ y.lost = s.lost
                      /\ y.local = s.local /\ y.sa = s.sa /\ y.pipe = s.pipe
                      /\ y.net.shut = s.net.shut
<1>1. Formed(s) /\ Polite(s, c) /\ "calm" \in DOMAIN h
  BY DEF Courteous, Speaking, HistoryFields
<1>2. ASSUME Near(s'), s'.net.eof = s.net.eof, s'.net.reset = s.net.reset
      PROVE  Formed(s') /\ Polite(s', c)
  <2>1. Stays(s, s')
    BY <1>2, AlikeStays DEF SameMood
  <2>2. QED
    BY <1>1, <2>1, PoliteStays
<1>3. CASE ClientReads
  <2>1. h' = h /\ s' = [s EXCEPT !.net.room = Room]
    BY <1>3 DEF ClientReads
  <2>2. Near(s') /\ s'.net.eof = s.net.eof /\ s'.net.reset = s.net.reset
    BY <1>1, <2>1 DEF Formed, Talk, Shape, Fields, NetFields
  <2>3. QED
    BY <1>2, <2>1, <2>2 DEF Courteously
<1>4. CASE \E u \in Units : ClientSends(u)
  <2>1. PICK u \in Units : ClientSends(u)
    BY <1>4
  <2> DEFINE a == Append(s.net.avail, u)
             n == s.net.sent + 1
  <2>2. /\ s' = [s EXCEPT !.net.avail = a, !.net.sent = n]
        /\ h' = [h EXCEPT !.calm = h.calm /\ s.local.quit = "no"]
    BY <2>1, Zenon DEF ClientSends
  <2>3. h'.calm = (c /\ s.local.quit = "no")
    BY <1>1, <2>2
  <2> HIDE DEF a, n
  <2>4. Near(s') /\ s'.net.eof = s.net.eof /\ s'.net.reset = s.net.reset
    BY <1>1, <2>2 DEF Formed, Talk, Shape, Fields, NetFields
  <2>5. Formed(s') /\ Polite(s', c)
    BY <1>2, <2>4
  <2>6. h'.calm => c
    BY <2>3
  <2>7. QED
    BY <2>5, <2>6 DEF Courteously, Polite
<1>5. CASE ClientCloses \/ ClientResets
  <2>1. /\ s' \in {[s EXCEPT !.net.eof = TRUE], [s EXCEPT !.net.reset = TRUE]}
        /\ h' = [h EXCEPT !.calm = h.calm /\ s.local.quit = "no"]
    BY <1>5 DEF ClientCloses, ClientResets
  <2>2. h'.calm = (c /\ s.local.quit = "no")
    BY <1>1, <2>1
  <2>3. Formed(s') /\ s'.local = s.local /\ (s'.net.eof \/ s'.net.reset)
    BY <1>1, <2>1 DEF Formed, Talk, Shape, Fields, NetFields
  <2>4. QED
    BY <2>2, <2>3 DEF Courteously, Polite, Before, Broken
<1>6. QED
  BY <1>3, <1>4, <1>5

(* A polite session goes on so, or is over and has sent its last reply.       *)
LEMMA PoliteGoesOn ==
  ASSUME Courteous, Next PROVE Courteously \/ (s'.use = "over" /\ GoodbyeIsSent')
<1>1. CASE AddStep \/ ConsumeStep
  BY <1>1, AddPolite, ConsumePolite
<1>2. CASE \E p \in Pipes : AdderEvent(p) \/ ConsumerEvent(p) \/ PipeDone(p)
  BY <1>2, PipePolite
<1>3. CASE SocketRead \/ SocketWrite \/ ShutdownEvent
  BY <1>3, SocketPolite
<1>4. CASE ChannelDone
  <2>1. s' = over(Taken) /\ h' = h /\ s.queue # <<>>
    BY <1>4 DEF ChannelDone, Dispatched, Courteous, Speaking
  <2>2. s'.use = "over"
    BY <2>1 DEF over, Fresh
  <2>3. QED
    BY <2>1, <2>2, OverPolite
<1>5. CASE CommandEnds \/ EntriesArrive
  BY <1>5, AnswerPolite
<1>6. CASE Timeout
  BY <1>6, TimeoutPolite
<1>7. CASE \E use \in Uses \ {"control"} : Open(use)
  <2>1. s.queue # <<>> /\ Head(s.queue).to = <<"session", "open">>
    BY <1>7 DEF Open, Dispatched
  <2>2. Head(s.queue).to \in TalkTo
    BY <2>1, TakenTalks DEF Courteous
  <2>3. QED
    BY <2>1, <2>2, ToFacts
<1>8. CASE WorkIsDone \/ EntriesAreRead \/ TimerExpires \/ BecomesReadable \/ BecomesWritable
  BY <1>8, ThreadsPolite
<1>9. CASE (\E u \in Units : ClientSends(u)) \/ ClientReads \/ ClientCloses \/ ClientResets
  BY <1>9, ClientPolite
<1>10. ~Close /\ ~Connects
  BY DEF Courteous, Speaking, Close, Connects
<1>11. QED
  BY <1>1, <1>2, <1>3, <1>4, <1>5, <1>6, <1>7, <1>8, <1>9, <1>10 DEF Next, Loop

(* What has been said when a session begins harms nothing.                    *)
Mild(q) ==
  \A i \in DOMAIN q :
    q[i].err = "ok" /\ q[i].to \notin Endings \cup {<<"socket", "shutdown">>}

(* It stays so when an event without an error is sent to anybody else.         *)
LEMMA MildOn ==
  ASSUME NEW q \in Seq(TalkEvent), Mild(q), NEW to \in TalkTo,
         to \notin Endings \cup {<<"socket", "shutdown">>}
  PROVE  Mild(Append(q, [to |-> to, err |-> "ok"]))
<1> DEFINE e == [to |-> to, err |-> "ok"]
           r == Append(q, e)
<1>1. e \in TalkEvent /\ e.to = to /\ e.err = "ok"
  BY DEF TalkEvent, Errors
<1> HIDE DEF e
<1>2. \A i \in DOMAIN r : r[i] = e \/ (i \in DOMAIN q /\ r[i] = q[i])
  BY <1>1
<1> HIDE DEF r
<1>3. Mild(r)
  BY <1>1, <1>2 DEF Mild
<1>4. QED
  BY <1>3 DEF r, e

(* The beginnings of a session.                                               *)
Mint(x) ==
  /\ Formed(x) /\ x.lost = 0 /\ x.net.shut = "no" /\ ~x.sa.shutting /\ x.local.quit = "no"
  /\ \A p \in Pipes : x.pipe[p].errA = "ok"
  /\ Mild(x.queue)

(* An adder is set.                                                           *)
LEMMA AdderMint ==
  ASSUME NEW x, Mint(x), NEW p \in Pipes
  PROVE  LET y == set_adder(x, p, TRUE)
         IN Mint(y) /\ y.sa = x.sa /\ \A q \in Pipes : y.pipe[q].consumer = x.pipe[q].consumer
<1> DEFINE y == set_adder(x, p, TRUE)
           wait == TRUE /\ x.pipe[p].waitA
           z == [x EXCEPT !.pipe[p].adder = TRUE, !.pipe[p].errA = "ok", !.pipe[p].waitA = wait]
<1>1. y \in {x, z}
  BY DEF set_adder
<1> HIDE DEF y, wait
<1>2. Shape(x) /\ Formed(x)
  BY DEF Mint, Formed, Talk
<1>3. /\ Shape(z) /\ z.queue = x.queue /\ z.lost = x.lost /\ z.local = x.local
      /\ z.sa = x.sa /\ z.net = x.net
  BY <1>2 DEF Shape, Fields, PipeFields, Errors
<1>4. z.pipe = [x.pipe EXCEPT ![p].adder = TRUE, ![p].errA = "ok", ![p].waitA = wait]
  BY <1>2 DEF Shape, Fields
<1>5. \A q \in Pipes : /\ z.pipe[q].consumer = x.pipe[q].consumer
                       /\ z.pipe[q].errA \in {x.pipe[q].errA, "ok"}
  BY <1>2, <1>4 DEF Shape, PipeFields
<1> HIDE DEF z
<1>6. Formed(z)
  BY <1>2, <1>3 DEF Formed, Talk
<1>7. Mint(z)
  BY <1>3, <1>5, <1>6 DEF Mint
<1>8. QED
  BY <1>1, <1>3, <1>5, <1>7 DEF y

(* A consumer is set, and told.                                               *)
LEMMA ConsumerMint ==
  ASSUME NEW x, Mint(x), NEW p \in Pipes
  PROVE  LET y == set_consumer(x, p, TRUE)
         IN /\ Mint(y) /\ y.sa = x.sa
            /\ y.pipe[p].consumer /\ \A q \in Pipes \ {p} : y.pipe[q] = x.pipe[q]
<1> DEFINE y == set_consumer(x, p, TRUE)
           z == [x EXCEPT !.pipe[p].consumer = TRUE, !.pipe[p].errC = "ok", !.pipe[p].waitC = TRUE]
           r == Append(z.queue, [to |-> <<p, "consumer">>, err |-> "ok"])
           w == [z EXCEPT !.queue = r]
<1>1. y = IF x.pipe[p].consumer = TRUE THEN x ELSE NotifyConsumer(z, p, "ok")
  BY DEF set_consumer
<1>2. Shape(x) /\ Formed(x) /\ Talk(y)
  BY SetConsumerTalks DEF Mint, Formed, Talk, Talks
<1> HIDE DEF y
<1>3. /\ Shape(z) /\ z.queue = x.queue /\ z.lost = x.lost /\ z.local = x.local
      /\ z.sa = x.sa /\ z.net = x.net
  BY <1>2 DEF Shape, Fields, PipeFields
<1>4. z.pipe = [x.pipe EXCEPT ![p].consumer = TRUE, ![p].errC = "ok", ![p].waitC = TRUE]
  BY <1>2 DEF Shape, Fields
<1>5. z.pipe[p].consumer = TRUE
  BY <1>2, <1>4 DEF Shape, PipeFields
<1>6. /\ z.pipe[p].errA = x.pipe[p].errA
      /\ \A q \in Pipes \ {p} : z.pipe[q] = x.pipe[q]
  BY <1>2, <1>4 DEF Shape, PipeFields
<1> HIDE DEF z
<1>7. NotifyConsumer(z, p, "ok") = w
  BY <1>5 DEF NotifyConsumer, Post
<1>8. Mild(r)
  <2>1. /\ <<p, "consumer">> \in TalkTo
        /\ <<p, "consumer">> \notin Endings \cup {<<"socket", "shutdown">>}
    BY ToFacts, EndingFacts
  <2>2. z.queue \in Seq(TalkEvent) /\ Mild(z.queue)
    BY <1>2, <1>3 DEF Mint, Formed, Talk
  <2>3. QED
    BY <2>1, <2>2, MildOn
<1> HIDE DEF r
<1>9. /\ w.queue = r /\ w.lost = z.lost /\ w.local = z.local
      /\ w.sa = z.sa /\ w.net = z.net /\ w.pipe = z.pipe
  BY <1>3 DEF Shape, Fields
<1> HIDE DEF w
<1>10. CASE x.pipe[p].consumer = TRUE
  BY <1>1, <1>10 DEF y
<1>11. CASE x.pipe[p].consumer # TRUE
  <2>1. y = w
    BY <1>1, <1>7, <1>11
  <2>2. Formed(y)
    BY <1>2, <1>3, <1>9, <2>1 DEF Formed
  <2>3. \A q \in Pipes : w.pipe[q].errA = x.pipe[q].errA
    BY <1>6, <1>9
  <2>4. Mint(y)
    BY <1>3, <1>8, <1>9, <2>1, <2>2, <2>3 DEF Mint
  <2>5. y.pipe[p].consumer
    BY <1>5, <1>9, <2>1
  <2>6. QED
    BY <1>3, <1>6, <1>9, <2>1, <2>4, <2>5 DEF y
<1>12. QED
  BY <1>10, <1>11

(* A session begins with nobody having said anything but hello.               *)
LEMMA StayingBegins == ASSUME Init PROVE Staying
<1>1. s.use = "control" => s.local.quit = "no" /\ Formed(s) /\ Fine(s) /\ Still(s)
  <2> SUFFICES ASSUME s.use = "control"
               PROVE  s.local.quit = "no" /\ Formed(s) /\ Fine(s) /\ Still(s)
    OBVIOUS
  <2> DEFINE x == Fresh("control")
             a == set_adder(x, "in", TRUE)
             b == set_consumer(a, "out", TRUE)
             c == [b EXCEPT !.sa.socket = TRUE, !.sa.waitR = TRUE, !.sa.waitW = TRUE]
             d == set_adder(c, "out", TRUE)
             e == set_consumer(d, "in", TRUE)
  <2>1. s = respond(e)
    <3>1. PICK use \in Uses : /\ s = SetUp(Fresh(use))
                              /\ use # "control" => h.outcome = "running"
      BY DEF Init
    <3>2. use = "control"
      BY <3>1, Begins DEF Speaking, Moving, Move, Ends
    <3>3. QED
      BY <3>1, <3>2 DEF SetUp, set_socket, Fresh
  <2>2. "in" \in Pipes /\ "out" \in Pipes /\ "in" # "out"
    BY DEF Pipes
  <2>3. Mint(x)
    <3>1. /\ DOMAIN x = Fields /\ x.queue = <<>> /\ x.lost = 0
          /\ x.pipe = [p \in Pipes |-> EmptyPipe]
          /\ x.run = [at |-> "idle", pipe |-> "in", loop |-> 0]
          /\ DOMAIN x.sa = SaFields /\ x.sa.shutErr = "ok" /\ x.sa.shutting = FALSE
          /\ DOMAIN x.net = NetFields /\ x.net.shut = "no"
          /\ DOMAIN x.local = LocalFields /\ x.local.quit = "no"
      BY DEF Fresh, Fields, LocalFields, SaFields, NetFields
    <3> HIDE DEF x
    <3>2. \A p \in Pipes : DOMAIN x.pipe[p] = PipeFields /\ x.pipe[p].errA = "ok"
      BY <3>1 DEF EmptyPipe, PipeFields
    <3>3. "shutErr" \in SaFields /\ "ok" \in Errors
      BY DEF SaFields, Errors
    <3>4. Shape(x)
      BY <2>2, <3>1, <3>2, <3>3 DEF Shape
    <3>5. QED
      BY <3>1, <3>2, <3>4 DEF Mint, Mild, Formed, Talk
  <2> HIDE DEF x
  <2>4. Mint(a)
    BY <2>2, <2>3, AdderMint
  <2> HIDE DEF a
  <2>5. Mint(b) /\ b.pipe["out"].consumer
    BY <2>2, <2>4, ConsumerMint
  <2> HIDE DEF b
  <2>6. /\ Formed(c) /\ c.queue = b.queue /\ c.lost = b.lost /\ c.local = b.local
        /\ c.net = b.net /\ c.pipe = b.pipe /\ c.sa.shutting = b.sa.shutting
        /\ c.sa.socket = TRUE
    BY <2>5 DEF Mint, Formed, Talk, Shape, Fields, SaFields
  <2> HIDE DEF c
  <2>7. Mint(c)
    BY <2>5, <2>6 DEF Mint
  <2>8. Mint(d) /\ d.sa.socket /\ d.pipe["out"].consumer
    <3>1. /\ Mint(d) /\ d.sa = c.sa
          /\ \A q \in Pipes : d.pipe[q].consumer = c.pipe[q].consumer
      BY <2>2, <2>7, AdderMint
    <3>2. d.pipe["out"].consumer = c.pipe["out"].consumer
      BY <2>2, <3>1
    <3>3. QED
      BY <2>5, <2>6, <3>1, <3>2
  <2> HIDE DEF d
  <2>9. Mint(e) /\ e.sa.socket /\ e.pipe["out"].consumer
    <3>1. /\ Mint(e) /\ e.sa = d.sa
          /\ \A q \in Pipes \ {"in"} : e.pipe[q] = d.pipe[q]
      BY <2>2, <2>8, ConsumerMint
    <3>2. e.pipe["out"] = d.pipe["out"]
      BY <2>2, <3>1
    <3>3. QED
      BY <2>8, <3>1, <3>2
  <2> HIDE DEF e
  <2>10. Formed(e) /\ Fine(e) /\ Still(e) /\ e.local.quit = "no"
    BY <2>9 DEF Mint, Mild, Plain, Fine, Still
  <2>11. Keeps(e, s) /\ SameMood(e, s)
    BY <2>1, <2>10, RespondKeeps
  <2>12. QED
    BY <2>10, <2>11 DEF Keeps, Later, SameMood
<1>2. s.use # "over"
  BY Begins, ChannelAssumption DEF Moving, Move, Ends, Speaking
<1>3. QED
  BY <1>1, <1>2 DEF Staying, Polite, Before, GoodbyeIsSent

(* After QUIT and after a time-out the client gets everything it was answered *)
(* if it sends nothing more and does not close: all that could throw output   *)
(* away, an error or the end of a pipe, is not on its way before the output   *)
(* has been written, and the shutdown waits behind it                         *)
(* (socket_adapter.cpp:159, commander.cpp:541). The turns are those of the    *)
(* lister above: were it still there, its adder would write behind the last   *)
(* reply.                                                                     *)
THEOREM LastReplyIsSent ==
  ASSUME 2 < MaxLoops PROVE Spec => []GoodbyeIsSent
<1>1. Init => IInv /\ Asking /\ Staying
  BY Begins, AskingBegins, StayingBegins DEF IInv
<1>2. IInv /\ Asking /\ Staying /\ [Next]_vars => IInv' /\ Asking' /\ Staying'
  <2> SUFFICES ASSUME IInv, Asking, Staying, [Next]_vars PROVE IInv' /\ Asking' /\ Staying'
    OBVIOUS
  <2>1. CASE Next
    <3>1. IInv'
      BY <2>1, GoesOn
    <3>2. CASE Moving
      <4>1. Moving'
        BY <2>1, <3>2, MovingGoesOn
      <4>2. s'.use \notin {"control", "over"}
        BY <4>1 DEF Moving, Move, Ends
      <4>3. QED
        BY <3>1, <4>2 DEF Asking, Staying, GoodbyeIsSent
    <3>3. CASE Speaking
      <4>1. Asked(s) /\ Turn(s) /\ Courteous
        BY <3>3 DEF Asking, Staying, Speaking, Courteous
      <4>2. s'.use = "over" \/ (Asked(s') /\ Turn(s'))
        BY <2>1, <3>3, <4>1, AskingGoesOn
      <4>3. Courteously \/ (s'.use = "over" /\ GoodbyeIsSent')
        BY <2>1, <4>1, PoliteGoesOn
      <4>4. Asking'
        BY <4>2 DEF Asking
      <4>5. Courteously => Staying'
        BY DEF Courteously, Staying, Polite, Parting, GoodbyeIsSent
      <4>6. s'.use = "over" /\ GoodbyeIsSent' => Staying'
        BY DEF Staying
      <4>7. QED
        BY <3>1, <4>3, <4>4, <4>5, <4>6
    <3>4. CASE Hushed
      BY <2>1, <3>4, HushedRests
    <3>5. QED
      BY <3>2, <3>3, <3>4 DEF IInv
  <2>2. CASE UNCHANGED vars
    <3>1. s' = s /\ h' = h
      BY <2>2 DEF vars
    <3>2. QED
      BY <3>1 DEF IInv, Moving, Speaking, Hushed, Asking, Staying, GoodbyeIsSent
  <2>3. QED
    BY <2>1, <2>2
<1>3. Staying => GoodbyeIsSent
  BY DEF Staying
<1>4. QED
  BY <1>1, <1>2, <1>3, PTL DEF Spec
=============================================================================
