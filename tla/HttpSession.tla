----------------------------- MODULE HttpSession -----------------------------
(***************************************************************************)
(* One connection of the HTTP server: http::server::session, with the      *)
(* message_consumer that cuts what the client sends into requests, the     *)
(* transaction that ties a request to its response, and what the handlers  *)
(* of the web interface do with them.                                      *)
(*                                                                         *)
(* Everything runs on the session's loop; an action is one event with all  *)
(* the calls it makes, and an operator named after a method maps the state *)
(* s to the one the method leaves.  The client's input is a sequence of    *)
(* lines, of which each also is a piece of a body where a body is due.     *)
(* The two pipes are what Channel shows them to be: the input pipe offers  *)
(* its buffer in consumer events, and what is added to the output reaches  *)
(* the client in order, until the channel is done.                         *)
(***************************************************************************)
EXTENDS Integers, SequencesExt, FiniteSetsExt

CONSTANTS
  Lines,        \* what the client may send
  BodySize,     \* pieces announced by a Content-Length
  MaxIn,        \* bound: lines in the input buffer
  MaxRequests,  \* bound: the last request during which the client sends
  MaxRest       \* bound: what a file leaves unwritten, in half pieces

(* "start" is a request line, "close" the header Connection: close, "length"  *)
(* and "chunked" the headers that announce a body, "size" and "zero" sizes of *)
(* chunks, "blank" an empty line, and "other" what can be none of these.      *)

ASSUME HttpAssumption ==
  /\ Lines \subseteq {"start", "close", "length", "chunked", "blank", "size", "zero",
                      "other"}
  /\ {BodySize, MaxIn, MaxRequests, MaxRest} \subseteq Nat \ {0}

VARIABLE s

(* Of a body that was lost: pieces came before the handler asked for them     *)
(* ("late"), or were left in body_buffer_ when the message ended.             *)
Losses == {"late", "length", "chunked"}

Piece == 2  \* half pieces in a piece of a body

NoWork == [for |-> 0, from |-> "none"]

(* History: answered responses have left, talking says that another has begun *)
(* and not ended, and garbled that something left out of its turn; lost is    *)
(* what the body of the request lacks, and reported what it lacked when its   *)
(* handler was told that it was complete; belated says that the tokens of a   *)
(* login came when its request had been answered.                             *)
Opened == [in |-> <<>>, events |-> 1, waitsPipe |-> TRUE, consumer |-> TRUE,
           parse |-> "start", coding |-> "none", length |-> FALSE, left |-> BodySize,
           body |-> FALSE, rest |-> 0,
           id |-> 1, must_be_made |-> FALSE, got |-> FALSE, waits |-> FALSE,
           closes |-> FALSE, writer |-> "none",
           status |-> "waiting_for_code", close |-> FALSE, nested |-> 0,
           work |-> NoWork, timer |-> "activity", running |-> TRUE, end |-> "open",
           answered |-> 0, talking |-> FALSE, garbled |-> FALSE, belated |-> FALSE,
           lost |-> {}, reported |-> {}]

Init == s = Opened

TypeOK ==
  /\ s.in \in Seq(Lines) /\ Len(s.in) <= MaxIn /\ s.events \in 0..2
  /\ {s.waitsPipe, s.consumer, s.length, s.body, s.must_be_made, s.got, s.waits, s.closes,
      s.close, s.running, s.talking, s.garbled, s.belated} \subseteq BOOLEAN
  /\ s.parse \in {"start", "headers", "trailer", "size", "end_of_chunk", "body", "finish"}
  /\ s.coding \in {"none", "chunked"}
  /\ s.left \in 0..BodySize /\ s.rest \in 0..MaxRest + Piece
  /\ s.writer \in {"none", "answer", "later"}
  /\ s.status \in {"waiting_for_code", "sending_body", "ended"}
  /\ s.nested \in 0..2
  /\ s.work = NoWork \/ s.work \in [for : Nat \ {0}, from : {"headers", "body"}]
  /\ s.timer \in {"activity", "keepalive"}
  /\ s.answered \in Nat /\ s.id \in Nat
  /\ s.end \in {"open", "closing", "ended"}
  /\ {s.lost, s.reported} \subseteq SUBSET Losses

-----------------------------------------------------------------------------
(* Responses.  A handler sends a status, headers and the end in one go; what  *)
(* is not sent in one go is a body that the session reads while it sends it.  *)

Send(t, unit) ==
  [t EXCEPT
     !.garbled = \/ @
                 \/ t.id # t.answered + 1
                 \/ (unit \in {"continue", "head"}) = t.talking,
     !.talking = IF unit \in {"head", "end"} THEN unit = "head" ELSE @,
     !.answered = IF unit = "end" THEN @ + 1 ELSE @]

shutdown(t) ==
  [t EXCEPT !.waits = FALSE, !.consumer = FALSE, !.waitsPipe = FALSE, !.events = 0,
            !.end = IF @ = "open" THEN "closing" ELSE @]

Arm(t, timer) == [t EXCEPT !.timer = timer, !.running = TRUE]

(* Variant: the reader that waits for the response is not woken up. *)
AcceptVariant(t) ==
  IF ~(t.got /\ t.status = "ended") THEN t
  ELSE Arm([t EXCEPT !.waits = FALSE, !.must_be_made = TRUE], "keepalive")

maybe_accept_next_request(t) ==
  IF ~(t.got /\ t.status = "ended") THEN t
  ELSE Arm([t EXCEPT !.waits = FALSE,
                     !.events = IF t.waits /\ t.consumer THEN @ + 1 ELSE @,
                     !.must_be_made = TRUE],
           "keepalive")

flush_headers(t, close) == Send([t EXCEPT !.close = close \/ t.closes], "head")

end_response(t) ==
  LET u == Send([t EXCEPT !.status = "ended"], "end") IN
  IF u.close THEN shutdown(u) ELSE maybe_accept_next_request(u)

(* Variant: a second status is not refused. *)
ReplyVariant(t, close) == end_response(flush_headers(t, close))

(* send_status(), which refuses a second response, send_headers() and send_end(). *)
reply(t, close) ==
  IF t.status # "waiting_for_code" THEN shutdown(t)
  ELSE end_response(flush_headers(t, close))

(* authorizer::send_auth_tokens() does not look at what send_status() returns: *)
(* the session is shut down, but send_body() goes on to write what is left of  *)
(* a head and a body, which leave while the output is flushed.                 *)
send_auth_tokens(t) ==
  LET u == IF t.status = "waiting_for_code" THEN t
           ELSE [shutdown(t) EXCEPT !.belated = TRUE]
  IN end_response(flush_headers(u, u.close))

send_continue(t) ==
  IF t.status # "waiting_for_code" THEN shutdown(t) ELSE Send(t, "continue")

(* send_body() of a file or a directory: a nested adder does the rest.        *)
send_body(t) ==
  IF t.status # "waiting_for_code" THEN shutdown(t)
  ELSE [flush_headers(t, FALSE) EXCEPT !.status = "sending_body", !.nested = 2]

-----------------------------------------------------------------------------
(* Handlers.  They answer at once, or later, when somebody has been           *)
(* authenticated, or ask for the body and answer at its end.                  *)

receive_body(t, then) == [t EXCEPT !.writer = then, !.body = TRUE, !.rest = 0]

Doings == {"answer", "close", "stream", "later", "receive", "receive_later"}

handle(t, does) ==
  CASE does = "answer"        -> reply(t, FALSE)
    [] does = "close"         -> reply(t, TRUE)
    [] does = "stream"        -> send_body(t)
    [] does = "later"         -> [t EXCEPT !.work = [for |-> t.id, from |-> "headers"]]
    [] does = "receive"       -> receive_body(t, "answer")
    [] does = "receive_later" -> receive_body(t, "later")

(* Only the file server looks at Expect: 100-continue, and never waits itself. *)
handle_transaction(t, does, expects) ==
  handle(IF expects /\ does \notin {"later", "receive_later"} THEN send_continue(t) ELSE t,
         does)

on_end(t, success) ==
  LET told == IF success /\ t.status = "waiting_for_code"
              THEN [t EXCEPT !.reported = @ \cup t.lost]
              ELSE t
  IN CASE t.writer = "none" -> t
       [] t.writer = "later" /\ success ->
            [told EXCEPT !.work = [for |-> t.id, from |-> "body"]]
       [] OTHER -> reply(told, ~success)

process_end_of_message(t) ==
  maybe_accept_next_request(on_end([t EXCEPT !.got = TRUE], TRUE))

process_error(t) ==
  LET u == on_end(t, FALSE) IN
  IF u.status = "waiting_for_code" THEN reply(u, TRUE) ELSE u

-----------------------------------------------------------------------------
(* Messages.  A line is consumed in every case: an error is answered, and is  *)
(* an error no longer.                                                        *)

reset(t) ==
  [t EXCEPT !.parse = "start", !.coding = "none", !.length = FALSE, !.left = BodySize,
            !.body = FALSE, !.rest = 0,
            !.lost = IF t.rest = 0 THEN @
                     ELSE @ \cup {IF t.coding = "chunked" THEN "chunked" ELSE "length"}]

end_message(t) == process_end_of_message(reset(t))

(* Variant: the keep-alive timer is left running. *)
StartLineVariant(t, line) ==
  LET u == [t EXCEPT !.parse = "headers"] IN
  IF line = "start" THEN [u EXCEPT !.left = 0, !.closes = FALSE] ELSE process_error(u)

start_line(t, line) ==
  LET u == Arm([t EXCEPT !.parse = "headers"], "activity") IN
  IF line = "start" THEN [u EXCEPT !.left = 0, !.closes = FALSE] ELSE process_error(u)

end_of_headers(t, does, expects) ==
  LET u == handle_transaction(t, does, expects) IN
  IF u.coding = "chunked"
  THEN IF u.length THEN process_error(u) ELSE [u EXCEPT !.parse = "size"]
  ELSE IF u.left # 0 THEN [u EXCEPT !.parse = "body"] ELSE end_message(u)

header(t, line) ==
  CASE line = "close"   -> [t EXCEPT !.closes = TRUE]
    [] line = "length"  -> [t EXCEPT !.left = BodySize, !.length = TRUE]
    [] line = "chunked" -> [t EXCEPT !.coding = "chunked"]
    [] OTHER            -> process_error(t)

(* Variant: the last chunk ends the body whatever the buffer still holds. *)
AfterLastChunkVariant(t) == "trailer"

AfterLastChunk(t) == IF t.rest = 0 THEN "trailer" ELSE "finish"

chunk_size(t, line) ==
  CASE line = "size" -> [t EXCEPT !.left = 1, !.parse = "body"]
    [] line = "zero" -> [t EXCEPT !.left = 0, !.parse = AfterLastChunk(t)]
    [] OTHER         -> process_error(t)

end_of_chunk(t, line) ==
  IF line = "blank" THEN [t EXCEPT !.parse = "size"] ELSE process_error(t)

(* A file takes all there is, or all but some of it, or fails; a string takes *)
(* all and does not fail.                                                     *)
Failed == -1
Leaves == 0..MaxRest \cup {Failed}

consume_body(t, leaves) ==
  CASE t.writer = "later" -> [t EXCEPT !.rest = 0]
    [] t.writer # "later" /\ leaves = Failed -> process_error(t)
    [] OTHER -> [t EXCEPT !.rest = Min({leaves, @ - 1})]

body_piece(t, leaves) ==
  LET took == IF t.body THEN consume_body([t EXCEPT !.rest = @ + Piece], leaves)
              ELSE [t EXCEPT !.lost = @ \cup {"late"}]
      u == [took EXCEPT !.left = @ - 1]
  IN IF u.left # 0 THEN u
     ELSE IF u.coding = "chunked" THEN [u EXCEPT !.parse = "end_of_chunk"]
     ELSE end_message(u)

finish_body(t, leaves) ==
  LET u == IF t.body THEN consume_body(t, leaves) ELSE t IN
  IF u.rest = 0 \/ ~u.body THEN [u EXCEPT !.parse = "trailer"] ELSE u

message(t, line, does, expects, leaves) ==
  CASE t.parse = "start"                  -> start_line(t, line)
    [] t.parse = "headers" /\ line = "blank" -> end_of_headers(t, does, expects)
    [] t.parse = "trailer" /\ line = "blank" -> end_message(t)
    [] t.parse \in {"headers", "trailer"} /\ line # "blank" -> header(t, line)
    [] t.parse = "size"                   -> chunk_size(t, line)
    [] t.parse = "end_of_chunk"           -> end_of_chunk(t, line)
    [] t.parse = "body"                   -> body_piece(t, leaves)

new_transaction(t) ==
  [t EXCEPT !.id = @ + 1, !.must_be_made = FALSE, !.got = FALSE, !.waits = FALSE,
            !.closes = FALSE, !.writer = "none", !.status = "waiting_for_code",
            !.close = FALSE, !.lost = {}, !.reported = {}]

Postponed(t) == t.got /\ ~t.must_be_made

consume_buffer(t, does, expects, leaves) ==
  LET u == IF t.must_be_made THEN new_transaction(t) ELSE t IN
  IF Postponed(t) THEN [t EXCEPT !.waits = TRUE, !.waitsPipe = TRUE]
  ELSE IF u.parse = "finish" THEN finish_body(u, leaves)
  ELSE message([u EXCEPT !.in = Tail(@)], Head(u.in), does, expects, leaves)

-----------------------------------------------------------------------------
(* The input pipe.  It has up to five lines consumed at one event; here it is  *)
(* one, and another event for the next.                                       *)

Wake(t) ==
  IF t.consumer /\ ~t.waitsPipe /\ t.in # <<>>
  THEN [t EXCEPT !.events = @ + 1, !.waitsPipe = TRUE]
  ELSE t

(* What the handler and the file do is chosen where they are called.          *)
Choice(called, set) == IF called THEN set ELSE {CHOOSE x \in set : TRUE}

ConsumerEvent ==
  /\ s.events > 0
  /\ LET t == [s EXCEPT !.events = @ - 1, !.waitsPipe = FALSE] IN
     IF t.in = <<>> THEN s' = t
     ELSE \E does \in Choice(s.parse = "headers", Doings),
             expects \in Choice(s.parse = "headers", BOOLEAN),
             leaves \in Choice(s.parse \in {"body", "finish"}, Leaves) :
            s' = Wake(consume_buffer(t, does, expects, leaves))

ClientSends ==
  /\ s.end = "open" /\ Len(s.in) < MaxIn /\ s.id <= MaxRequests
  /\ \E line \in Lines : s' = Wake([s EXCEPT !.in = Append(@, line)])

-----------------------------------------------------------------------------
(* Work that answers later: a login, or the authorization of a shared link,   *)
(* which goes on to be a request to the file server, body and all.  A         *)
(* transaction that has been detached from the session answers nothing.       *)

WorkIsDone ==
  /\ s.work # NoWork /\ s.end # "ended"
  /\ LET t == [s EXCEPT !.work = NoWork] IN
     IF s.work.for # s.id \/ s.must_be_made THEN s' = t
     ELSE \/ /\ s.work.from = "body"
             /\ \/ \E close \in BOOLEAN : s' = reply(t, close)
                \/ s' = send_auth_tokens(t)
          \/ /\ s.work.from = "headers"
             /\ \E does \in Doings \ {"later", "receive_later"}, expects \in BOOLEAN :
                  s' = handle_transaction(t, does, expects)

(* The nested adder that sends a body.                                        *)
AddBody ==
  /\ s.nested > 0 /\ s.end # "ended"
  /\ LET t == [s EXCEPT !.nested = @ - 1] IN
     s' = IF s.nested > 1 THEN Send(t, "body") ELSE end_response(t)

-----------------------------------------------------------------------------
(* Timers.  idle: nothing was read or written for as long as the time-out.  A *)
(* timer that is replaced when it has expired is not heard, since its id is   *)
(* no longer that of a timer of the session.                                  *)

on_timer_event(idle) ==
  /\ s.running /\ s.end # "ended"
  /\ LET t == [s EXCEPT !.running = FALSE] IN
     s' = CASE s.timer = "keepalive" -> shutdown(t)
            [] s.timer = "activity" /\ ~idle -> Arm(t, "activity")
            [] s.timer = "activity" /\ idle ->
                 IF s.status = "waiting_for_code" THEN reply(t, TRUE) ELSE shutdown(t)

set_timeouts == s.end # "ended" /\ s' = Arm(s, s.timer)

-----------------------------------------------------------------------------
(* The channel is done once it has been shut down and flushed, or at any time *)
(* if the client leaves, a line is too long or the body cannot be read.  The  *)
(* session is destroyed, and work that is still under way finds it gone.      *)

ChannelDone ==
  /\ s.end # "ended"
  /\ s' = [Opened EXCEPT !.end = "ended", !.events = 0, !.running = FALSE]

Next ==
  \/ ConsumerEvent \/ ClientSends \/ WorkIsDone \/ AddBody
  \/ (\E idle \in BOOLEAN : on_timer_event(idle)) \/ set_timeouts
  \/ ChannelDone

Fairness == WF_s(ConsumerEvent) /\ WF_s(WorkIsDone) /\ WF_s(AddBody)

Spec == Init /\ [][Next]_s /\ Fairness

-----------------------------------------------------------------------------
\* Responses leave one at a time, each whole before the next, one for each
\* request and in the order of the requests: nothing is put between the head and
\* the end of one but its own body (which is also what buffer_stream() asserts),
\* and neither pipelining nor a time-out nor a late refusal makes two of one.  Only
\* the tokens of a login that ends when its request has been answered otherwise
\* come behind that answer, and then the session is closing already.
ResponsesInOrder == s.garbled => s.belated /\ s.end = "closing"

\* A request gets one response.  What comes too late is refused: "all the methods
\* return a boolean for success (true) or failure (false)", and a failure closes
\* the session (responder.hpp:17-18).  The tokens of a login break this.
OneResponseEach == ~s.garbled

\* A handler that asked for a body in time and is told that it has it lacks
\* nothing of a chunked one, even if the file took less than it was given.
ChunkedBodyIsWhole == "chunked" \notin s.reported

\* on_end(true) says that the handler has been given the body.
BodyIsWhole == s.reported = {}

\* An open session is timed (its time-outs are never 0 here), and by the right timer: while a request is read or
\* answered by that of activity, between two by that of keep-alive.
TimedByTheRightTimer ==
  s.end = "open" =>
    /\ s.running
    /\ s.timer = "keepalive" => s.parse = "start" /\ (s.got => s.must_be_made)
    /\ s.timer = "activity"  => ~s.must_be_made

\* A handler that asked for a body after the message had ended waits for it until
\* the activity timer ends the session.
AskedTooLate == s.got /\ s.body /\ s.work = NoWork

\* Input that fills the buffer is read in the end, if the session lives: an answer
\* to the request before wakes up the reader.
InputIsRead ==
  (s.end = "open" /\ Len(s.in) = MaxIn)
    ~> (s.end # "open" \/ Len(s.in) < MaxIn \/ AskedTooLate)
=============================================================================
