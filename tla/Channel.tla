------------------------------- MODULE Channel -------------------------------
(***************************************************************************)
(* A channel: two pipes around one socket.  "in" moves what the socket     *)
(* reads to a consumer, "out" what an adder produces to the socket.  Both  *)
(* live on one event loop, whose queue is kept in order here because the   *)
(* code relies on the order.  The channel serves the control connection    *)
(* (a line consumer, the streamed adder and its nested lister) or a data   *)
(* connection (a file reader or a file writer).                            *)
(*                                                                         *)
(* A handler that loops is modelled one turn of its loop at a time, so     *)
(* that the client moves while it runs; no other event is dispatched then. *)
(* Operators that carry the name of a method map a state to the one the    *)
(* method leaves.                                                          *)
(***************************************************************************)
EXTENDS Integers, Sequences, SequencesExt, FiniteSetsExt

CONSTANTS
  Uses,          \* what the channel is for: of "control", "download", "upload"
  MaxReadable,   \* max_buffer_size of the channel, max_line_size of the commander
  MaxFill,       \* max_buffer_size_ of the file reader
  MaxLoops,      \* max_num_loops
  Room,          \* what the socket takes before it answers EAGAIN
  FileSize,      \* units of a file that is downloaded
  Entries,       \* lists of a directory that is listed
  ClientData,    \* bound: units the client sends, by use
  Resets,        \* bound: the uses in which the client may reset the connection
  MaxTransfers   \* bound: data connections served one after the other

ASSUME ChannelAssumption ==
  /\ Uses \subseteq {"control", "download", "upload"} /\ Uses # {}
  /\ Resets \subseteq Uses
  /\ {MaxReadable, MaxFill, MaxLoops, Room, MaxTransfers} \subseteq Nat \ {0}
  /\ {FileSize, Entries} \subseteq Nat /\ ClientData \in [Uses -> Nat]

VARIABLES
  s,   \* channel, pipes, socket adapter, event queue, both ends
  h    \* history: what the transfer took, gave, and how it was reported

vars == <<s, h>>

Pipes  == {"in", "out"}
Units  == {"c", "eol"}
Errors == {"ok", "again", "nodata", "nobufs", "shutdown", "timeout", "failed"}

Min2(m, n) == IF m < n THEN m ELSE n

EmptyPipe ==
  [adder |-> FALSE, consumer |-> FALSE, waitA |-> FALSE, waitC |-> FALSE,
   errA |-> "ok", errC |-> "ok", buf |-> <<>>]

-----------------------------------------------------------------------------
(* Events.  An event names whom it goes to; those of adders and consumers are *)
(* lost when the operator has no handler.                                     *)

Post(x, to, err) ==
  [x EXCEPT !.queue = Append(@, [to |-> to, err |-> err])]

Without(x, tos) ==
  LET left[i \in 0..Len(x.queue)] ==
        IF i = 0 THEN <<>>
        ELSE IF x.queue[i].to \in tos THEN left[i - 1]
        ELSE Append(left[i - 1], x.queue[i])
  IN [x EXCEPT !.queue = left[Len(x.queue)]]

Queued(x, to) == \E i \in 1..Len(x.queue) : x.queue[i].to = to

NotifyAdder(x, p, err) ==
  IF x.pipe[p].adder THEN Post(x, <<p, "adder">>, err) ELSE x

NotifyConsumer(x, p, err) ==
  IF x.pipe[p].consumer THEN Post(x, <<p, "consumer">>, err) ELSE x

-----------------------------------------------------------------------------
(* pipe                                                                       *)

set_adder(x, p, on) ==
  IF x.pipe[p].adder = on THEN x
  ELSE LET y == IF on THEN x ELSE Without(x, {<<p, "adder">>})
       IN [y EXCEPT !.pipe[p].adder = on, !.pipe[p].errA = "ok",
                    !.pipe[p].waitA = on /\ @]

set_consumer(x, p, on) ==
  IF x.pipe[p].consumer = on THEN x
  ELSE LET y == IF on THEN x ELSE Without(x, {<<p, "consumer">>})
           z == [y EXCEPT !.pipe[p].consumer = on, !.pipe[p].errC = "ok",
                          !.pipe[p].waitC = on]
       IN NotifyConsumer(z, p, "ok")

(* "lost" is history: output that was thrown away.                            *)

clear(x, p) ==
  [set_adder(set_consumer(x, p, FALSE), p, FALSE)
     EXCEPT !.pipe[p].buf = <<>>,
            !.lost = @ + (IF p = "out" THEN Len(x.pipe[p].buf) ELSE 0)]

done(x, p, err) ==
  Post([clear(x, p) EXCEPT !.run.at = "idle"], <<p, "done">>,
       IF err = "shutdown" THEN "ok" ELSE err)

-----------------------------------------------------------------------------
(* socket_adapter                                                             *)

close_socket(x) ==
  IF x.sa.socket
  THEN [Without(x, {<<"socket", "read">>, <<"socket", "write">>}) EXCEPT !.sa.socket = FALSE]
  ELSE x

(* socket::shutdown() may have to flush first, and then says EAGAIN.          *)
(* Variant: what still waits to be written is not waited for.                 *)

on_shutdown_eventVariant(x, flushed) ==
  IF x.sa.socket /\ ~flushed THEN [x EXCEPT !.net.shut = "flushing"]
  ELSE [NotifyConsumer(x, "out", x.sa.shutErr)
          EXCEPT !.sa.shutting = FALSE, !.sa.shutErr = "ok", !.net.shut = "down"]

on_shutdown_event(x, flushed) ==
  IF x.sa.socket /\ x.pipe["out"].buf # <<>> THEN x
  ELSE IF x.sa.socket /\ ~flushed THEN [x EXCEPT !.net.shut = "flushing"]
  ELSE [NotifyConsumer(x, "out", x.sa.shutErr)
          EXCEPT !.sa.shutting = FALSE, !.sa.shutErr = "ok", !.net.shut = "down"]

shutdown(x, err) ==
  Post([x EXCEPT !.sa.shutting = TRUE, !.sa.shutErr = err], <<"socket", "shutdown">>, "ok")

Throttles(x) == x.use = "control"

(* What the adapter may still add: the channel's limit, less what waits.      *)
ReadLimit(x) == MaxReadable - Len(x.pipe["in"].buf)

(* add_to_buffer() of the adapter: <<error, state>>.                          *)

Readable(x) == x.net.avail # <<>> \/ x.net.eof \/ x.net.reset

socket_read(x) ==
  LET room == ReadLimit(x)
      n    == Min2(room, Len(x.net.avail))
  IN IF x.sa.waitR \/ x.sa.throttled THEN <<"again", x>>
     ELSE IF Throttles(x) /\ x.pipe["out"].buf # <<>>
     THEN <<"again", [x EXCEPT !.sa.throttled = TRUE]>>
     ELSE IF room <= 0 THEN <<"nobufs", x>>
     ELSE IF x.net.reset THEN <<"failed", x>>
     ELSE IF n > 0
     THEN <<"ok", [x EXCEPT !.pipe["in"].buf = @ \o SubSeq(x.net.avail, 1, n),
                            !.net.avail = SubSeq(@, n + 1, Len(@))]>>
     ELSE IF x.net.eof THEN <<"nodata", x>>
     ELSE <<"again", [x EXCEPT !.sa.waitR = TRUE]>>

(* consume_buffer() of the adapter.                                           *)

socket_write(x, flushed) ==
  LET n == Min2(x.net.room, Len(x.pipe["out"].buf))
      y == [x EXCEPT !.pipe["out"].buf = SubSeq(@, n + 1, Len(@)), !.net.room = @ - n]
      z == IF y.sa.shutting THEN on_shutdown_event(y, flushed)
           ELSE IF y.sa.throttled /\ y.pipe["out"].buf = <<>>
           THEN NotifyAdder([y EXCEPT !.sa.throttled = FALSE], "in", "ok")
           ELSE y
  IN IF ~x.sa.socket \/ x.sa.waitW THEN <<"again", x>>
     ELSE IF x.net.reset \/ x.net.shut # "no" THEN <<"failed", x>>
     ELSE IF n = 0 THEN <<"again", [x EXCEPT !.sa.waitW = TRUE]>>
     ELSE <<"ok", z>>

-----------------------------------------------------------------------------
(* The commander's end: one line is one command, which is answered at once or *)
(* later; a line that comes in between is postponed.                          *)

respond(x) ==
  LET y == [x EXCEPT !.pipe["out"].buf = Append(@, "c")]
  IN IF y.local.sent THEN y
     ELSE [NotifyAdder(y, "out", "ok") EXCEPT !.local.sent = y.pipe["out"].adder]

(* Variant: the postponed line is forgotten.                                  *)

act_upon_command_replyVariant(x) ==
  [x EXCEPT !.local.busy = FALSE, !.local.postponed = FALSE]

act_upon_command_reply(x) ==
  LET y == [x EXCEPT !.local.busy = FALSE, !.local.postponed = FALSE]
  IN IF x.local.postponed THEN NotifyConsumer(y, "in", "ok") ELSE y

shutdown_commander(x, err) ==
  shutdown(set_consumer([x EXCEPT !.local.busy = FALSE], "in", FALSE), err)

(* line_consumer: what process_buffer_line() may answer to the line at hand.  *)

Eol(x) == IF \E i \in DOMAIN x.pipe["in"].buf : x.pipe["in"].buf[i] = "eol"
          THEN Min({i \in DOMAIN x.pipe["in"].buf : x.pipe["in"].buf[i] = "eol"})
          ELSE 0

consume_line(x) ==
  LET y == [x EXCEPT !.pipe["in"].buf = SubSeq(@, Eol(x) + 1, Len(@))]
  IN IF Eol(x) = 0
     THEN {<<IF Len(x.pipe["in"].buf) >= MaxReadable THEN "nobufs" ELSE "nodata", x>>}
     ELSE IF x.local.busy THEN {<<"again", [x EXCEPT !.local.postponed = TRUE]>>}
     ELSE {<<"ok", respond(y)>>,
           <<"ok", [y EXCEPT !.local.busy = TRUE]>>,
           <<"ok", shutdown_commander([respond(y) EXCEPT !.local.quit = "quit"], "shutdown")>>}

(* streamed_adder::add_to_buffer().  The lister reads the next entries on     *)
(* another thread and sends an adder event when it has them.                  *)

add_streamed(x) ==
  LET y == [x EXCEPT !.local.sent = FALSE]
  IN IF x.local.nested = "none"
     THEN IF x.local.sent THEN <<"ok", y>> ELSE <<"again", x>>
     ELSE IF x.local.entries = 0
     THEN <<"ok", act_upon_command_reply(respond([y EXCEPT !.local.nested = "none"]))>>
     ELSE <<"again", [y EXCEPT !.local.nested = IF @ = "idle" THEN "reading" ELSE "twice"]>>

(* The session's end: file_reader and file_writer.                            *)

read_file(x) ==
  LET n == Min2(MaxFill - Len(x.pipe["out"].buf), x.local.left)
  IN IF Len(x.pipe["out"].buf) >= MaxFill THEN {<<"nobufs", x>>}
     ELSE {<<"failed", x>>} \cup
          {IF n = 0 THEN <<"nodata", x>>
           ELSE <<"ok", [x EXCEPT !.local.left = @ - n,
                                  !.pipe["out"].buf = @ \o [i \in 1..n |-> "c"]]>>}

write_file(x) ==
  {<<"failed", x>>} \cup
  {<<"ok", [x EXCEPT !.pipe["in"].buf = SubSeq(@, n + 1, Len(@))]>> :
     n \in 1..Len(x.pipe["in"].buf)}

AddToBuffer(x, p) ==
  IF p = "in" THEN {socket_read(x)}
  ELSE IF x.use = "control" THEN {add_streamed(x)}
  ELSE read_file(x)

ConsumeBuffer(x, p) ==
  IF p = "out" THEN {socket_write(x, flushed) : flushed \in BOOLEAN}
  ELSE IF x.use = "control" THEN consume_line(x)
  ELSE write_file(x)

-----------------------------------------------------------------------------
(* A channel is set up: set_buffer_adder(), set_buffer_consumer() and         *)
(* set_socket(), in the order of each user.                                   *)

Fresh(use) ==
  [use |-> use, queue |-> <<>>, transfer |-> 1, lost |-> 0,
   run |-> [at |-> "idle", pipe |-> "in", loop |-> 0],
   pipe |-> [p \in Pipes |-> EmptyPipe],
   sa |-> [socket |-> FALSE, waitR |-> FALSE, waitW |-> FALSE, throttled |-> FALSE,
           shutting |-> FALSE, shutErr |-> "ok"],
   net |-> [avail |-> <<>>, eof |-> FALSE, reset |-> FALSE, room |-> Room, sent |-> 0,
            shut |-> "no"],
   local |-> [sent |-> FALSE, busy |-> FALSE, postponed |-> FALSE, quit |-> "no",
              nested |-> "none", entries |-> 0, left |-> FileSize]]

set_socket(x) ==
  LET y == set_consumer(set_adder(x, "in", TRUE), "out", TRUE)
  IN [y EXCEPT !.sa.socket = TRUE, !.sa.waitR = TRUE, !.sa.waitW = TRUE]

SetUp(x) ==
  IF x.use = "control"
  THEN respond(set_consumer(set_adder(set_socket(x), "out", TRUE), "in", TRUE))
  ELSE set_socket(set_consumer(set_adder(x, "out", x.use = "download"),
                               "in", x.use = "upload"))

(* Variant: what is still in the buffer is not waited for.                    *)

WaitsForEmptyBufferVariant(x, p) == FALSE

WaitsForEmptyBuffer(x, p) == p = "out" \/ x.use # "control"

Init ==
  \E use \in Uses :
    /\ s = SetUp(Fresh(use))
    /\ h = [outcome |-> IF use = "control" THEN "idle" ELSE "running",
            taken |-> 0, given |-> 0, calm |-> TRUE]

-----------------------------------------------------------------------------
(* The loops of pipe::add_to_buffer() and pipe::consume_buffer(), and what    *)
(* the event handlers do after them.                                          *)

Idle(x) == [x EXCEPT !.run.at = "idle"]

(* Variants: the consumer is not told; the adder is told though it waits for  *)
(* something else.                                                            *)

after_addVariant(x, p) == Idle(x)

after_add(x, p) ==
  IF x.pipe[p].consumer /\ ~x.pipe[p].waitC /\ x.pipe[p].buf # <<>>
  THEN NotifyConsumer([Idle(x) EXCEPT !.pipe[p].waitC = TRUE], p, "ok")
  ELSE Idle(x)

wake_adderVariant(x, p) ==
  NotifyAdder([Idle(x) EXCEPT !.pipe[p].waitA = TRUE], p, "ok")

wake_adder(x, p) ==
  IF x.pipe[p].waitA THEN Idle(x)
  ELSE NotifyAdder([Idle(x) EXCEPT !.pipe[p].waitA = TRUE], p, "ok")

after_consume(x, p) ==
  LET pp == x.pipe[p]
  IN IF ~pp.consumer THEN Idle(x)
     ELSE IF pp.errC # "nodata" /\ pp.buf # <<>>
     THEN IF pp.waitC THEN Idle(x)
          ELSE NotifyConsumer([Idle(x) EXCEPT !.pipe[p].waitC = TRUE], p, "ok")
     ELSE IF pp.adder THEN wake_adder(x, p)
     ELSE Idle(x)

Again(x) == [x EXCEPT !.run.loop = @ + 1]

added(x, p, err) ==
  LET pp == x.pipe[p]
      y  == [x EXCEPT !.pipe[p].errA = "ok"]
  IN CASE err = "again" -> after_add([y EXCEPT !.pipe[p].waitA = TRUE], p)
       [] err = "nodata" /\ ~pp.consumer -> after_add(y, p)
       [] err # "again" /\ err # "nodata" /\ ~pp.consumer -> done(x, p, "failed")
       [] err = "ok" /\ pp.consumer -> Again(y)
       [] err = "nodata" /\ pp.consumer ->
            IF ~WaitsForEmptyBuffer(x, p) \/ pp.buf = <<>> \/ pp.errC = "nodata"
            THEN done(x, p, "ok") ELSE after_add(y, p)
       [] err = "nobufs" /\ pp.consumer ->
            IF x.run.loop = 0 /\ pp.errC = "nodata"
            THEN done(x, p, "nobufs") ELSE after_add(y, p)
       [] err = "failed" /\ pp.consumer ->
            IF x.run.loop > 0
            THEN after_add([x EXCEPT !.pipe[p].errA = err], p) ELSE done(x, p, err)

consumed(x, p, err) ==
  LET y == [x EXCEPT !.pipe[p].errC = err]
  IN CASE err = "ok"     -> Again(y)
       [] err = "again"  -> after_consume([y EXCEPT !.pipe[p].waitC = TRUE], p)
       [] err = "nodata" -> after_consume(y, p)
       [] OTHER          -> done(y, p, err)

(* The pipe that carries the file.                                            *)
Main == IF s.use = "upload" THEN "in" ELSE "out"

AddStep ==
  LET p == s.run.pipe
  IN /\ s.run.at = "add"
     /\ \/ /\ ~s.pipe[p].adder \/ s.run.loop = MaxLoops
           /\ s' = after_add(s, p)
           /\ UNCHANGED h
        \/ /\ s.pipe[p].adder /\ s.run.loop < MaxLoops
           /\ \E r \in AddToBuffer(s, p) :
                /\ s' = added(r[2], p, r[1])
                /\ h' = IF p # Main \/ s.use = "control" THEN h
                        ELSE [h EXCEPT !.taken = @ + Len(r[2].pipe[p].buf) - Len(s.pipe[p].buf)]

Quitting(x, y) == x.local.quit = "no" /\ y.local.quit # "no"

NothingLeft(x) ==
  x.pipe["in"].adder /\ x.pipe["in"].buf = <<>> /\ x.net.avail = <<>> /\ ~x.net.eof /\ ~x.net.reset

ConsumeStep ==
  LET p == s.run.pipe
      more == s.pipe[p].consumer /\ s.pipe[p].buf # <<>> /\ s.run.loop < MaxLoops
  IN /\ s.run.at = "consume"
     /\ \/ ~more /\ s' = after_consume(s, p) /\ UNCHANGED h
        \/ /\ more
           /\ \E r \in ConsumeBuffer(s, p) :
                /\ s' = consumed(r[2], p, r[1])
                /\ h' = IF s.use = "control"
                        THEN [h EXCEPT !.calm = IF Quitting(s, r[2]) THEN NothingLeft(r[2]) ELSE @]
                        ELSE IF p # Main THEN h
                        ELSE [h EXCEPT !.given = @ + Len(s.pipe[p].buf) - Len(r[2].pipe[p].buf)]

-----------------------------------------------------------------------------
(* Events, dispatched in the order in which they were sent.                   *)

Dispatched(to) ==
  /\ s.run.at = "idle" /\ s.queue # <<>>
  /\ Head(s.queue).to = to

Taken == [s EXCEPT !.queue = Tail(@)]

(* pipe::on_buffer_adder_event()                                              *)

AdderEvent(p) ==
  LET err == Head(s.queue).err
      x   == [Taken EXCEPT !.pipe[p].waitA = FALSE]
  IN /\ Dispatched(<<p, "adder">>)
     /\ s' = IF err # "ok" THEN done(Taken, p, err)
             ELSE IF x.pipe[p].errA # "ok" THEN done(x, p, x.pipe[p].errA)
             ELSE [x EXCEPT !.run = [at |-> "add", pipe |-> p, loop |-> 0]]
     /\ UNCHANGED h

(* pipe::on_buffer_consumer_event()                                           *)

ConsumerEvent(p) ==
  LET err == Head(s.queue).err
  IN /\ Dispatched(<<p, "consumer">>)
     /\ s' = IF err # "ok" THEN done(Taken, p, err)
             ELSE [Taken EXCEPT !.pipe[p].waitC = FALSE,
                                !.run = [at |-> "consume", pipe |-> p, loop |-> 0]]
     /\ UNCHANGED h

SocketRead ==
  LET x == [Taken EXCEPT !.sa.waitR = FALSE]
  IN /\ Dispatched(<<"socket", "read">>)
     /\ s' = IF x.sa.shutting THEN x ELSE NotifyAdder(x, "in", Head(s.queue).err)
     /\ UNCHANGED h

(* Variant: the event that says the flush is over is taken for another one.   *)

SocketWriteVariant ==
  /\ Dispatched(<<"socket", "write">>)
  /\ s' = NotifyConsumer([Taken EXCEPT !.sa.waitW = FALSE], "out", Head(s.queue).err)
  /\ UNCHANGED h

SocketWrite ==
  LET x == [Taken EXCEPT !.sa.waitW = FALSE]
  IN /\ Dispatched(<<"socket", "write">>)
     /\ s' = IF x.net.shut = "flushing" THEN on_shutdown_event(x, TRUE)
             ELSE NotifyConsumer(x, "out", Head(s.queue).err)
     /\ UNCHANGED h

ShutdownEvent ==
  /\ Dispatched(<<"socket", "shutdown">>)
  /\ s' \in {on_shutdown_event(Taken, flushed) : flushed \in BOOLEAN}
  /\ UNCHANGED h

(* channel::on_pipe_done_event() and channel::done()                          *)

Other(p) == IF p = "in" THEN "out" ELSE "in"

Disconnected(x) ==
  close_socket(set_consumer(set_adder(set_consumer(set_adder(
    x, "in", FALSE), "in", FALSE), "out", FALSE), "out", FALSE))

Reported(err) ==
  [h EXCEPT !.outcome = IF @ # "running" THEN @ ELSE IF err = "ok" THEN "ok" ELSE "failed"]

PipeDone(p) ==
  LET x   == clear(Taken, Other(p))
      err == Head(s.queue).err
  IN /\ Dispatched(<<p, "done">>)
     /\ IF x.sa.socket
        THEN /\ s' = Post(Disconnected(x), <<"channel", "done">>, err)
             /\ h' = Reported(err)
        ELSE s' = x /\ UNCHANGED h

(* channel::clear(), as session::close_data_connection() calls it.            *)

closed(x) ==
  [close_socket(clear(clear(Without(x, {<<"channel", "done">>}), "out"), "in"))
     EXCEPT !.use = "closed", !.net = Fresh("closed").net, !.local = Fresh("closed").local,
            !.lost = 0]

(* The session ends with its control connection; a data connection is closed. *)

over(x) ==
  [Fresh("over") EXCEPT !.lost = x.lost, !.local.quit = x.local.quit, !.transfer = x.transfer]

ChannelDone ==
  /\ Dispatched(<<"channel", "done">>)
  /\ s' = IF s.use = "control" THEN over(Taken)
          ELSE closed(Taken)
  /\ UNCHANGED h

Close ==
  /\ s.run.at = "idle" /\ s.use \in {"download", "upload"}
  /\ s' = closed(s)
  /\ h' = Reported("failed")

(* The next data connection; the operators, buffers and flags are reused.     *)

Open(use) ==
  LET x == [Taken EXCEPT !.use = use, !.transfer = @ + 1]
  IN /\ Dispatched(<<"session", "open">>)
     /\ s' = SetUp(x)
     /\ h' = [h EXCEPT !.outcome = "running", !.taken = 0, !.given = 0]

(* commander: a result arrives, entries arrive, time is up.                   *)

CommandEnds ==
  /\ Dispatched(<<"commander", "result">>)
  /\ \/ ~s.local.busy /\ s' = Taken
     \/ s.local.busy /\ s' = act_upon_command_reply(respond(Taken))
     \/ /\ s.local.busy
        /\ s' = [respond(Taken) EXCEPT !.local.nested = "idle", !.local.entries = Entries]
  /\ UNCHANGED h

EntriesArrive ==
  /\ Dispatched(<<"lister", "entries">>)
  /\ s' = NotifyAdder([Taken EXCEPT !.pipe["out"].buf = Append(@, "c"),
                                    !.local.nested = "idle", !.local.entries = @ - 1],
                      "out", "ok")
  /\ UNCHANGED h

(* Without the lister: while it runs the reply fails an assertion.            *)

Timeout ==
  /\ Dispatched(<<"commander", "timer">>)
  /\ s' = IF s.local.nested # "none" THEN over(Taken)
          ELSE shutdown_commander([respond(Taken) EXCEPT !.local.quit = "timeout"], "timeout")
  /\ h' = [h EXCEPT !.calm = IF s.local.quit = "no" THEN NothingLeft(s) ELSE FALSE]

-----------------------------------------------------------------------------
(* What other threads, the clock, the socket and the client do.               *)

Live == s.use \in {"control", "download", "upload"}

Once(to) == ~Queued(s, to) /\ s' = Post(s, to, "ok") /\ UNCHANGED h

WorkIsDone ==
  s.use = "control" /\ s.local.busy /\ s.local.nested = "none" /\ Once(<<"commander", "result">>)

EntriesAreRead ==
  s.use = "control" /\ s.local.nested = "reading" /\ Once(<<"lister", "entries">>)

TimerExpires ==
  s.use = "control" /\ s.local.quit # "timeout" /\ Once(<<"commander", "timer">>)

Connects ==
  s.use = "closed" /\ s.transfer < MaxTransfers /\ Once(<<"session", "open">>)

BecomesReadable ==
  /\ s.sa.socket /\ s.sa.waitR /\ Readable(s) /\ ~Queued(s, <<"socket", "read">>)
  /\ \E err \in IF s.net.reset THEN {"ok", "failed"} ELSE {"ok"} :
       s' = Post(s, <<"socket", "read">>, err)
  /\ UNCHANGED h

BecomesWritable ==
  /\ s.sa.socket /\ ~Queued(s, <<"socket", "write">>)
  /\ \/ s.sa.waitW /\ s.net.shut = "no" /\ (s.net.room > 0 \/ s.net.reset)
     \/ s.net.shut = "flushing"
  /\ s' = Post(s, <<"socket", "write">>, "ok")
  /\ UNCHANGED h

ClientSends(u) ==
  /\ Live /\ ~s.net.eof /\ ~s.net.reset /\ s.net.sent < ClientData[s.use]
  /\ s' = [s EXCEPT !.net.avail = Append(@, u), !.net.sent = @ + 1]
  /\ h' = [h EXCEPT !.calm = @ /\ s.local.quit = "no"]

ClientReads ==
  /\ Live /\ s.net.room < Room
  /\ s' = [s EXCEPT !.net.room = Room]
  /\ UNCHANGED h

ClientCloses ==
  /\ Live /\ ~s.net.eof
  /\ s' = [s EXCEPT !.net.eof = TRUE]
  /\ h' = [h EXCEPT !.calm = @ /\ s.local.quit = "no"]

ClientResets ==
  /\ s.use \in Resets /\ ~s.net.reset
  /\ s' = [s EXCEPT !.net.reset = TRUE]
  /\ h' = [h EXCEPT !.calm = @ /\ s.local.quit = "no"]

Loop ==
  \/ AddStep \/ ConsumeStep
  \/ \E p \in Pipes : AdderEvent(p) \/ ConsumerEvent(p) \/ PipeDone(p)
  \/ SocketRead \/ SocketWrite \/ ShutdownEvent \/ ChannelDone
  \/ CommandEnds \/ EntriesArrive \/ Timeout
  \/ \E use \in Uses \ {"control"} : Open(use)

Next ==
  \/ Loop \/ Close
  \/ WorkIsDone \/ EntriesAreRead \/ TimerExpires \/ Connects
  \/ BecomesReadable \/ BecomesWritable
  \/ \E u \in Units : ClientSends(u)
  \/ ClientReads \/ ClientCloses \/ ClientResets

Spec == Init /\ [][Next]_vars

(* The loop dispatches what is in its queue, other threads answer, the socket *)
(* says when it can go on, and the client reads what it is sent.              *)

Fairness ==
  /\ WF_vars(Loop)
  /\ WF_vars(WorkIsDone) /\ WF_vars(EntriesAreRead)
  /\ WF_vars(BecomesReadable) /\ WF_vars(BecomesWritable)
  /\ WF_vars(ClientReads)

FairSpec == Spec /\ Fairness

-----------------------------------------------------------------------------
TypeOK ==
  /\ s.use \in Uses \cup {"over", "closed"}
  /\ s.run \in [at : {"idle", "add", "consume"}, pipe : Pipes, loop : 0..MaxLoops]
  /\ \A p \in Pipes :
       /\ {s.pipe[p].adder, s.pipe[p].consumer, s.pipe[p].waitA, s.pipe[p].waitC} \subseteq BOOLEAN
       /\ {s.pipe[p].errA, s.pipe[p].errC} \subseteq Errors
       /\ s.pipe[p].buf \in Seq(Units)
  /\ Len(s.pipe["in"].buf) <= MaxReadable
  /\ s.net.shut \in {"no", "flushing", "down"}
  /\ s.local.quit \in {"no", "quit", "timeout"}
  /\ h.outcome \in {"idle", "running", "ok", "failed"}

(* When the loop has nothing to do, everybody who could go on waits for       *)
(* somebody else: output waits for the socket; a complete line for the        *)
(* command before it; the file for output to be written; and the client's     *)
(* data is read unless output or a line is waiting.  pipe.cpp:124-280 keeps   *)
(* this up with waiting_for_..._event_ and the errors of the last turn.       *)

Quiet == Live /\ s.run.at = "idle" /\ s.queue = <<>> /\ s.sa.socket

NobodyIsForgotten ==
  Quiet =>
    LET in == s.pipe["in"]  out == s.pipe["out"]
    IN /\ out.buf # <<>> => s.sa.waitW /\ out.consumer
       /\ s.use = "download" => out.buf # <<>>
       /\ s.use = "upload" => in.buf = <<>> /\ s.sa.waitR
       /\ s.use = "control" /\ s.local.quit = "no" =>
            /\ Eol(s) # 0 => s.local.busy
            /\ s.sa.waitR \/ (s.sa.throttled /\ out.buf # <<>>) \/ (s.local.busy /\ Eol(s) # 0)
            /\ s.local.nested # "idle"

(* The lister is not asked for entries while it reads some: two reads would   *)
(* share one iterator (tvfs_entries_lister.hpp:85).  Adder events of several  *)
(* origins (a reply, a drained buffer, the lister) must not meet.             *)

ListerAskedOnce == s.local.nested # "twice"

(* After QUIT and after a time-out the client gets everything it was          *)
(* answered, if it sends nothing more and does not close: the socket is shut  *)
(* down only behind the last reply.                                           *)

GoodbyeIsSent ==
  s.use \in {"control", "over"} /\ s.local.quit # "no" /\ h.calm => s.lost = 0

(* A transfer whose client reads, or closes, ends; QUIT and a time-out end the *)
(* session (a flush, a half-closed client and a last reply all lie before).   *)

EveryTransferEnds ==
  (h.outcome = "running" /\ (s.use = "download" \/ s.net.eof)) ~> (h.outcome # "running")

QuitEnds == (s.local.quit # "no") ~> (s.use = "over")

(* A data connection is a transfer as its user understands it.                *)

T == INSTANCE Transfer WITH
  outcome   <- h.outcome,
  exhausted <- CASE s.use = "download" -> s.local.left = 0
                 [] s.use = "upload"   -> s.net.eof /\ s.net.avail = <<>>
                 [] OTHER              -> FALSE,
  taken     <- h.taken,
  given     <- h.given

ImplementsTransfer == T!Spec
=============================================================================
