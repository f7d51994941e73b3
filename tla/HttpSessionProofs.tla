--------------------------- MODULE HttpSessionProofs ---------------------------
(***************************************************************************)
(* Theorems about HttpSession: type correctness, responses in the order of *)
(* the requests, chunked bodies that are whole, and the right timer, for   *)
(* any lines a client may send, any handlers, and any sizes.               *)
(*                                                                         *)
(* A method of the session maps a state to a state, and what it leaves     *)
(* alone matters as much as what it does.  The methods that answer (send a *)
(* status, a body or an end, shut down) leave the message alone that is    *)
(* being read, and keep what holds of responses, turns and wake-ups: they  *)
(* are related by Answers, which is transitive.  The methods that read a   *)
(* message are shown to keep the invariant one by one.                     *)
(***************************************************************************)
EXTENDS HttpSession, TLAPS

Parses == {"start", "headers", "trailer", "size", "end_of_chunk", "body", "finish"}
Statuses == {"waiting_for_code", "sending_body", "ended"}
Works == [for : Nat, from : {"none", "headers", "body"}]

State ==
  [in : Seq(Lines), events : Int, waitsPipe : BOOLEAN, consumer : BOOLEAN,
   parse : Parses, coding : {"none", "chunked"}, length : BOOLEAN, left : Int,
   body : BOOLEAN, rest : Int,
   id : Nat, must_be_made : BOOLEAN, got : BOOLEAN, waits : BOOLEAN,
   closes : BOOLEAN, writer : {"none", "answer", "later"},
   status : Statuses, close : BOOLEAN, nested : 0..2,
   work : Works, timer : {"activity", "keepalive"}, running : BOOLEAN,
   end : {"open", "closing"},
   answered : Nat, talking : BOOLEAN, garbled : BOOLEAN,
   belated : BOOLEAN,
   lost : SUBSET Losses, reported : SUBSET Losses]

-----------------------------------------------------------------------------
(* The parts of the invariant *)

(* Which part of which response is due, and that nothing was out of turn.     *)
Ordered(t) ==
  /\ ~ t.garbled
  /\ t.status = "waiting_for_code" => ~ t.talking /\ t.id = t.answered + 1 /\ t.nested = 0
  /\ t.status = "sending_body" => t.talking /\ t.id = t.answered + 1 /\ t.nested # 0
  /\ t.status = "ended" => ~ t.talking /\ t.id = t.answered /\ t.nested = 0

(* A new transaction is due when both the request and its response are over,  *)
(* and until it begins the session is timed by keep-alive.                    *)
Taken(t) ==
  /\ t.must_be_made => t.got /\ t.status = "ended"
  /\ t.timer = "keepalive" <=> t.must_be_made

(* Of a message that was read to its end nothing is left.                     *)
Read(t) == t.got => t.parse = "start"

(* One event at most is on its way to the reader, and then it does not wait.  *)
Woken(t) ==
  /\ t.events \in 0..1
  /\ t.events = 1 => t.waitsPipe /\ ~ t.waits
  /\ t.waits => t.waitsPipe
  /\ t.end # "open" => t.events = 0 /\ ~ t.waits /\ ~ t.consumer

Runs(t) == t.end = "open" => t.running

(* What the last chunk leaves in body_buffer_ is taken before the trailer is  *)
(* read, so no chunked body ends before the handler has it.                   *)
Whole(t) ==
  /\ t.parse \in {"size", "end_of_chunk", "trailer", "finish"} => t.coding = "chunked"
  /\ t.parse = "trailer" => t.rest = 0
  /\ ~ t.body => t.rest = 0
  /\ "chunked" \notin t.lost /\ "chunked" \notin t.reported

(* What holds while a transaction is replaced, and what holds at all times.   *)
Sound(t) ==
  t \in State /\ Ordered(t) /\ Read(t) /\ Woken(t) /\ Runs(t) /\ Whole(t)

Good(t) == Sound(t) /\ Taken(t)

(* The tokens of a login have come behind another answer: the session has     *)
(* been shut down, nothing is read any more and nobody works for it, and      *)
(* whatever leaves now is read by a client that is still there.               *)
Late(t) ==
  /\ t \in State /\ t.belated /\ t.end = "closing"
  /\ t.events = 0 /\ ~ t.consumer /\ ~ t.waits
  /\ t.work = NoWork /\ "chunked" \notin t.reported

(* The session that the channel has left behind.                              *)
Gone == [Opened EXCEPT !.end = "ended", !.events = 0, !.running = FALSE]

IInv == s = Gone \/ Good(s) \/ Late(s)

-----------------------------------------------------------------------------
(* What methods leave alone *)

(* The message that is being read.                                            *)
SameMessage(t, u) ==
  /\ u.in = t.in /\ u.parse = t.parse /\ u.coding = t.coding /\ u.length = t.length
  /\ u.left = t.left /\ u.body = t.body /\ u.rest = t.rest /\ u.writer = t.writer
  /\ u.work = t.work /\ u.lost = t.lost /\ u.reported = t.reported
  /\ u.id = t.id /\ u.got = t.got /\ u.belated = t.belated

(* Whose turn it is, and the timer.                                           *)
SameTurn(t, u) ==
  /\ u.events = t.events /\ u.waitsPipe = t.waitsPipe /\ u.consumer = t.consumer
  /\ u.must_be_made = t.must_be_made /\ u.waits = t.waits
  /\ u.timer = t.timer /\ u.running = t.running /\ u.end = t.end

(* The response.                                                              *)
SameAnswer(t, u) ==
  /\ u.status = t.status /\ u.nested = t.nested
  /\ u.answered = t.answered /\ u.talking = t.talking /\ u.garbled = t.garbled

(* What methods that answer do.                                               *)
Answers(t, u) ==
  /\ u \in State
  /\ SameMessage(t, u)
  /\ t.end # "open" => u.end # "open"
  /\ Ordered(t) => Ordered(u)
  /\ Taken(t) => Taken(u)
  /\ Woken(t) => Woken(u)
  /\ Runs(t) => Runs(u)

(* Nothing is an answer,                                                      *)
LEMMA AnswersReflexive == ASSUME NEW t \in State PROVE Answers(t, t)
BY DEF Answers, SameMessage

(* and so is an answer that follows another.                                  *)
LEMMA AnswersTransitive ==
  ASSUME NEW t, NEW u, NEW v, Answers(t, u), Answers(u, v) PROVE Answers(t, v)
BY DEF Answers, SameMessage

-----------------------------------------------------------------------------
(* Methods that answer *)

(* Send() writes a part of a response, in its turn or not.                    *)
LEMMA SendFacts ==
  ASSUME NEW t \in State, NEW unit
  PROVE  LET u == Send(t, unit) IN
         /\ u \in State /\ SameMessage(t, u) /\ SameTurn(t, u)
         /\ u.status = t.status /\ u.nested = t.nested /\ u.close = t.close
         /\ (/\ ~ t.garbled /\ t.id = t.answered + 1
             /\ unit \in {"continue", "head"} => ~ t.talking
             /\ unit \notin {"continue", "head"} => t.talking) => ~ u.garbled
         /\ unit = "head" => u.talking
         /\ unit = "end" => ~ u.talking
         /\ unit \notin {"head", "end"} => u.talking = t.talking
         /\ unit = "end" => u.answered = t.answered + 1
         /\ unit # "end" => u.answered = t.answered
<1> DEFINE g == t.garbled \/ t.id # t.answered + 1
                  \/ (unit \in {"continue", "head"}) = t.talking
           k == IF unit \in {"head", "end"} THEN unit = "head" ELSE t.talking
           n == IF unit = "end" THEN t.answered + 1 ELSE t.answered
           u == [t EXCEPT !.garbled = g, !.talking = k, !.answered = n]
<1>1. g \in BOOLEAN /\ k \in BOOLEAN /\ n \in Nat
  <2>1. t.garbled \in BOOLEAN /\ t.talking \in BOOLEAN /\ t.answered \in Nat
    BY DEF State
  <2>2. g \in BOOLEAN
    BY <2>1, Zenon
  <2>3. k \in BOOLEAN
    BY <2>1, Zenon
  <2>4. n \in Nat
    BY <2>1
  <2>5. QED
    BY <2>2, <2>3, <2>4
<1>2. Send(t, unit) = u
  BY DEF Send
<1> HIDE DEF g, k, n
<1>3. u \in State
  BY <1>1 DEF State
<1>4. u.garbled = g /\ u.talking = k /\ u.answered = n
  BY DEF State
<1>5. SameMessage(t, u)
  BY DEF State, SameMessage
<1>6. SameTurn(t, u) /\ u.status = t.status /\ u.nested = t.nested /\ u.close = t.close
  BY DEF State, SameTurn
<1> HIDE DEF u
<1>7. (/\ ~ t.garbled /\ t.id = t.answered + 1
       /\ unit \in {"continue", "head"} => ~ t.talking
       /\ unit \notin {"continue", "head"} => t.talking) => ~ u.garbled
  <2>1. t.talking \in BOOLEAN
    BY DEF State
  <2>2. QED
    BY <1>4, <2>1, Zenon DEF g
<1>8. /\ unit = "head" => u.talking
      /\ unit = "end" => ~ u.talking
      /\ unit \notin {"head", "end"} => u.talking = t.talking
      /\ unit = "end" => u.answered = t.answered + 1
      /\ unit # "end" => u.answered = t.answered
  BY <1>4 DEF k, n
<1>9. QED
  BY <1>2, <1>3, <1>5, <1>6, <1>7, <1>8

(* What begins a body that is sent later.                                     *)
LEMMA BodyFields ==
  ASSUME NEW t \in State, NEW m \in Statuses, NEW n \in 0..2
  PROVE  [t EXCEPT !.status = m, !.nested = n] \in State
BY DEF State

(* What shutdown() writes.                                                    *)
LEMMA EventsField ==
  ASSUME NEW t \in State, NEW n \in Int PROVE [t EXCEPT !.events = n] \in State
BY DEF State

(* The same, of what is left in body_buffer_.                                 *)
LEMMA RestField ==
  ASSUME NEW t \in State, NEW n \in Int PROVE [t EXCEPT !.rest = n] \in State
BY DEF State

(* The same, of the end.                                                      *)
LEMMA EndField ==
  ASSUME NEW t \in State, NEW e \in {"open", "closing"}
  PROVE  [t EXCEPT !.end = e] \in State
BY DEF State

(* The same, of all that shutdown() writes.                                   *)
LEMMA ShutdownFields ==
  ASSUME NEW t \in State, NEW e \in {"open", "closing"}
  PROVE  [t EXCEPT !.waits = FALSE, !.consumer = FALSE, !.waitsPipe = FALSE,
                   !.events = 0, !.end = e] \in State
<1> DEFINE v == [t EXCEPT !.waits = FALSE, !.consumer = FALSE, !.waitsPipe = FALSE]
           w == [v EXCEPT !.events = 0]
           x == [w EXCEPT !.end = e]
<1>1. v \in State
  BY DEF State
<1>2. x = [t EXCEPT !.waits = FALSE, !.consumer = FALSE, !.waitsPipe = FALSE,
                    !.events = 0, !.end = e]
  OBVIOUS
<1> HIDE DEF v
<1>3. w \in State
  BY <1>1, EventsField
<1> HIDE DEF w
<1>4. x \in State
  BY <1>3, EndField
<1>5. QED
  BY <1>2, <1>4

(* shutdown() stops reading, and answers no more than was sent.               *)
LEMMA ShutdownFacts ==
  ASSUME NEW t \in State
  PROVE  /\ Answers(t, shutdown(t)) /\ shutdown(t).end # "open"
         /\ SameAnswer(t, shutdown(t)) /\ shutdown(t).timer = t.timer
         /\ shutdown(t).must_be_made = t.must_be_made
<1> DEFINE e == IF t.end = "open" THEN "closing" ELSE t.end
           u == [t EXCEPT !.waits = FALSE, !.consumer = FALSE, !.waitsPipe = FALSE,
                          !.events = 0, !.end = e]
<1>1. e \in {"open", "closing"} /\ e # "open"
  BY DEF State
<1>2. shutdown(t) = u
  BY DEF shutdown
<1> HIDE DEF e
<1>3. u \in State
  BY <1>1, ShutdownFields
<1>4. /\ u.waits = FALSE /\ u.consumer = FALSE /\ u.events = 0 /\ u.end = e
      /\ u.must_be_made = t.must_be_made /\ u.timer = t.timer
  BY DEF State
<1>5. SameMessage(t, u)
  BY DEF State, SameMessage
<1>6. SameAnswer(t, u)
  BY DEF State, SameAnswer
<1> HIDE DEF u
<1>7. Answers(t, u)
  BY <1>1, <1>3, <1>4, <1>5, <1>6
     DEF Answers, SameMessage, SameAnswer, Ordered, Taken, Woken, Runs
<1>8. QED
  BY <1>1, <1>2, <1>4, <1>6, <1>7

(* A timer is replaced.                                                       *)
LEMMA ArmFacts ==
  ASSUME NEW t \in State, NEW timer \in {"activity", "keepalive"}
  PROVE  LET u == Arm(t, timer) IN
         /\ u \in State /\ SameMessage(t, u) /\ SameAnswer(t, u)
         /\ u.timer = timer /\ u.running /\ u.end = t.end
         /\ u.events = t.events /\ u.waitsPipe = t.waitsPipe /\ u.waits = t.waits
         /\ u.consumer = t.consumer /\ u.must_be_made = t.must_be_made
<1> DEFINE u == [t EXCEPT !.timer = timer, !.running = TRUE]
<1>1. Arm(t, timer) = u
  BY DEF Arm
<1>2. u \in State
  BY DEF State
<1>3. SameMessage(t, u)
  BY DEF State, SameMessage
<1>4. SameAnswer(t, u)
  BY DEF State, SameAnswer
<1>5. /\ u.timer = timer /\ u.running /\ u.end = t.end
      /\ u.events = t.events /\ u.waitsPipe = t.waitsPipe /\ u.waits = t.waits
      /\ u.consumer = t.consumer /\ u.must_be_made = t.must_be_made
  BY DEF State
<1> HIDE DEF u
<1>6. QED
  BY <1>1, <1>2, <1>3, <1>4, <1>5

(* maybe_accept_next_request(): the next turn begins if both have ended.      *)
LEMMA AcceptFacts ==
  ASSUME NEW t \in State, Woken(t)
  PROVE  /\ Answers(t, maybe_accept_next_request(t))
         /\ SameAnswer(t, maybe_accept_next_request(t))
<1>1. CASE ~(t.got /\ t.status = "ended")
  BY <1>1, AnswersReflexive DEF maybe_accept_next_request, SameAnswer
<1>2. CASE t.got /\ t.status = "ended"
  <2> DEFINE n == IF t.waits /\ t.consumer THEN t.events + 1 ELSE t.events
             v == [t EXCEPT !.waits = FALSE, !.events = n, !.must_be_made = TRUE]
             u == Arm(v, "keepalive")
  <2>1. n \in Int
    BY DEF State
  <2>2. maybe_accept_next_request(t) = u
    BY <1>2 DEF maybe_accept_next_request
  <2> HIDE DEF n, u
  <2>3. v \in State
    BY <2>1 DEF State
  <2>4. SameMessage(t, v)
    BY DEF State, SameMessage
  <2>5. SameAnswer(t, v)
    BY DEF State, SameAnswer
  <2>6. /\ v.waits = FALSE /\ v.events = n /\ v.must_be_made = TRUE /\ v.end = t.end
        /\ v.waitsPipe = t.waitsPipe /\ v.consumer = t.consumer
    BY DEF State
  <2> HIDE DEF v
  <2>7. /\ u \in State /\ SameMessage(v, u) /\ SameAnswer(v, u)
        /\ u.timer = "keepalive" /\ u.running /\ u.end = v.end
        /\ u.events = v.events /\ u.waitsPipe = v.waitsPipe /\ u.waits = v.waits
        /\ u.consumer = v.consumer /\ u.must_be_made = v.must_be_made
    BY <2>3, ArmFacts DEF u
  <2>8. SameMessage(t, u) /\ SameAnswer(t, u)
    BY <2>4, <2>5, <2>7 DEF SameMessage, SameAnswer
  <2>9. Ordered(t) => Ordered(u)
    BY <2>8 DEF Ordered, SameMessage, SameAnswer
  <2>10. Taken(u) /\ Runs(u)
    BY <1>2, <2>6, <2>7, <2>8 DEF Taken, Runs, SameMessage, SameAnswer
  <2>11. Woken(u)
    <3>1. n \in 0..1 /\ (n = 1 => t.waitsPipe) /\ (t.end # "open" => n = 0)
      BY DEF Woken, n
    <3>2. t.end # "open" => ~ t.consumer
      BY DEF Woken
    <3>3. QED
      BY <2>6, <2>7, <3>1, <3>2 DEF Woken
  <2>12. QED
    BY <2>2, <2>6, <2>7, <2>8, <2>9, <2>10, <2>11 DEF Answers
<1>3. QED
  BY <1>1, <1>2

(* end_response() ends a response that has begun, and closes if it said so.   *)
LEMMA EndFacts ==
  ASSUME NEW t \in State, Woken(t),
         ~ t.garbled, t.talking, t.id = t.answered + 1, t.nested = 0
  PROVE  LET u == end_response(t) IN
         /\ u \in State /\ SameMessage(t, u) /\ Ordered(u) /\ Woken(u)
         /\ u.status = "ended"
         /\ t.end # "open" => u.end # "open"
         /\ t.close => u.end # "open"
         /\ Taken(t) => Taken(u)
         /\ Runs(t) => Runs(u)
<1> DEFINE v == [t EXCEPT !.status = "ended"]
           w == Send(v, "end")
           u == end_response(t)
<1>1. v \in State
  BY DEF State, Statuses
<1>2. SameMessage(t, v) /\ SameTurn(t, v)
  BY DEF State, SameMessage, SameTurn
<1>3. /\ v.status = "ended" /\ v.close = t.close /\ v.nested = t.nested
      /\ v.garbled = t.garbled /\ v.talking = t.talking /\ v.answered = t.answered
  BY DEF State
<1>4. u = IF w.close THEN shutdown(w) ELSE maybe_accept_next_request(w)
  BY DEF end_response
<1> HIDE DEF v
<1>5. /\ w \in State /\ SameMessage(v, w) /\ SameTurn(v, w)
      /\ w.status = v.status /\ w.nested = v.nested /\ w.close = v.close
      /\ ~ v.garbled /\ v.id = v.answered + 1 /\ v.talking => ~ w.garbled
      /\ ~ w.talking /\ w.answered = v.answered + 1
  BY <1>1, SendFacts
<1> HIDE DEF w, u
<1>6. SameMessage(t, w) /\ SameTurn(t, w)
  BY <1>2, <1>5 DEF SameMessage, SameTurn
<1>7. v.id = t.id /\ w.id = t.id
  BY <1>2, <1>6 DEF SameMessage
<1>8. ~ w.garbled
  BY <1>3, <1>5, <1>7
<1>9. w.status = "ended" /\ ~ w.talking /\ w.id = w.answered /\ w.nested = 0
  BY <1>3, <1>5, <1>7
<1>10. Ordered(w)
  BY <1>8, <1>9 DEF Ordered
<1>11. Woken(w) /\ (Taken(t) => Taken(w)) /\ (Runs(t) => Runs(w))
  BY <1>6, <1>9 DEF SameTurn, SameMessage, Woken, Taken, Runs
<1>12. w.end = t.end /\ w.close = t.close
  BY <1>3, <1>5, <1>6 DEF SameTurn
<1>13. Answers(w, u) /\ SameAnswer(w, u) /\ (w.close => u.end # "open")
  <2>1. CASE w.close
    BY <2>1, <1>4, <1>5, ShutdownFacts
  <2>2. CASE ~ w.close
    BY <2>2, <1>4, <1>5, <1>11, AcceptFacts
  <2>3. QED
    BY <2>1, <2>2
<1>14. SameMessage(t, u) /\ u.status = "ended"
  BY <1>6, <1>9, <1>13 DEF Answers, SameMessage, SameAnswer
<1>15. QED
  BY <1>10, <1>11, <1>12, <1>13, <1>14 DEF Answers, u

(* flush_headers() begins the response that is due.                           *)
LEMMA HeadFacts ==
  ASSUME NEW t \in State, NEW close \in BOOLEAN,
         Ordered(t), t.status = "waiting_for_code"
  PROVE  LET h == flush_headers(t, close) IN
         /\ h \in State /\ SameMessage(t, h) /\ SameTurn(t, h)
         /\ ~ h.garbled /\ h.talking /\ h.id = h.answered + 1 /\ h.nested = 0
         /\ close => h.close
<1> DEFINE c == close \/ t.closes
           v == [t EXCEPT !.close = c]
           h == Send(v, "head")
<1>1. c \in BOOLEAN
  <2>1. t.closes \in BOOLEAN
    BY DEF State
  <2>2. QED
    BY <2>1, Zenon
<1>2. flush_headers(t, close) = h
  BY DEF flush_headers
<1> HIDE DEF c
<1>3. v \in State
  BY <1>1 DEF State
<1>4. SameMessage(t, v) /\ SameTurn(t, v)
  BY DEF State, SameMessage, SameTurn
<1>5. /\ v.close = c /\ v.nested = t.nested
      /\ v.garbled = t.garbled /\ v.talking = t.talking /\ v.answered = t.answered
  BY DEF State
<1> HIDE DEF v
<1>6. /\ h \in State /\ SameMessage(v, h) /\ SameTurn(v, h)
      /\ h.nested = v.nested /\ h.close = v.close
      /\ ~ v.garbled /\ v.id = v.answered + 1 /\ ~ v.talking => ~ h.garbled
      /\ h.talking /\ h.answered = v.answered
  BY <1>3, SendFacts
<1> HIDE DEF h
<1>7. SameMessage(t, h) /\ SameTurn(t, h)
  BY <1>4, <1>6 DEF SameMessage, SameTurn
<1>8. v.id = t.id /\ h.id = t.id
  BY <1>4, <1>7 DEF SameMessage
<1>9. ~ t.garbled /\ ~ t.talking /\ t.id = t.answered + 1 /\ t.nested = 0
  BY DEF Ordered
<1>10. ~ h.garbled /\ h.id = h.answered + 1 /\ h.nested = 0
  BY <1>5, <1>6, <1>8, <1>9
<1>11. close => h.close
  BY <1>5, <1>6 DEF c
<1>12. QED
  BY <1>2, <1>6, <1>7, <1>10, <1>11

(* A response is answered whole, or refused if there is one already.          *)
LEMMA ReplyFacts ==
  ASSUME NEW t \in State, NEW close \in BOOLEAN, Ordered(t), Woken(t)
  PROVE  /\ Answers(t, reply(t, close))
         /\ close => reply(t, close).end # "open"
<1>1. CASE t.status # "waiting_for_code"
  BY <1>1, ShutdownFacts DEF reply
<1>2. CASE t.status = "waiting_for_code"
  <2> DEFINE h == flush_headers(t, close)
             u == end_response(h)
  <2>1. reply(t, close) = u
    BY <1>2 DEF reply
  <2>2. /\ h \in State /\ SameMessage(t, h) /\ SameTurn(t, h)
        /\ ~ h.garbled /\ h.talking /\ h.id = h.answered + 1 /\ h.nested = 0
        /\ close => h.close
    BY <1>2, HeadFacts
  <2> HIDE DEF h
  <2>3. Woken(h) /\ (Runs(t) => Runs(h)) /\ h.end = t.end
    BY <2>2 DEF SameTurn, Woken, Runs
  <2>4. Taken(t) => Taken(h)
    BY <1>2, <2>2 DEF SameTurn, SameMessage, Taken
  <2>5. /\ u \in State /\ SameMessage(h, u) /\ Ordered(u) /\ Woken(u)
        /\ h.end # "open" => u.end # "open"
        /\ h.close => u.end # "open"
        /\ Taken(h) => Taken(u)
        /\ Runs(h) => Runs(u)
    BY <2>2, <2>3, EndFacts
  <2> HIDE DEF u
  <2>6. SameMessage(t, u)
    BY <2>2, <2>5 DEF SameMessage
  <2>7. QED
    BY <2>1, <2>2, <2>3, <2>4, <2>5, <2>6 DEF Answers
<1>3. QED
  BY <1>1, <1>2

(* 100 Continue goes out before the response.                                 *)
LEMMA ContinueFacts ==
  ASSUME NEW t \in State, Ordered(t), Woken(t)
  PROVE  Answers(t, send_continue(t))
<1>1. CASE t.status # "waiting_for_code"
  BY <1>1, ShutdownFacts DEF send_continue
<1>2. CASE t.status = "waiting_for_code"
  <2> DEFINE u == Send(t, "continue")
  <2>1. send_continue(t) = u
    BY <1>2 DEF send_continue
  <2>2. /\ u \in State /\ SameMessage(t, u) /\ SameTurn(t, u)
        /\ u.status = t.status /\ u.nested = t.nested
        /\ ~ t.garbled /\ t.id = t.answered + 1 /\ ~ t.talking => ~ u.garbled
        /\ u.talking = t.talking /\ u.answered = t.answered
    BY SendFacts
  <2> HIDE DEF u
  <2>3. ~ t.garbled /\ ~ t.talking /\ t.id = t.answered + 1 /\ t.nested = 0
    BY <1>2 DEF Ordered
  <2>4. Ordered(u)
    BY <1>2, <2>2, <2>3 DEF Ordered, SameMessage
  <2>5. QED
    BY <2>1, <2>2, <2>4 DEF Answers, SameTurn, SameMessage, Taken, Woken, Runs
<1>3. QED
  BY <1>1, <1>2

(* send_body() begins a response that the nested adder goes on with.          *)
LEMMA BodyFacts ==
  ASSUME NEW t \in State, Ordered(t), Woken(t)
  PROVE  Answers(t, send_body(t))
<1>1. CASE t.status # "waiting_for_code"
  BY <1>1, ShutdownFacts DEF send_body
<1>2. CASE t.status = "waiting_for_code"
  <2> DEFINE h == flush_headers(t, FALSE)
             u == [h EXCEPT !.status = "sending_body", !.nested = 2]
  <2>1. send_body(t) = u
    BY <1>2 DEF send_body
  <2>2. /\ h \in State /\ SameMessage(t, h) /\ SameTurn(t, h)
        /\ ~ h.garbled /\ h.talking /\ h.id = h.answered + 1
    BY <1>2, HeadFacts
  <2> HIDE DEF h
  <2>3. u \in State
    <3>1. "sending_body" \in Statuses /\ 2 \in 0..2
      BY DEF Statuses
    <3>2. QED
      BY <2>2, <3>1, BodyFields
  <2>4. SameMessage(h, u) /\ SameTurn(h, u)
    BY <2>2 DEF State, SameMessage, SameTurn
  <2>5. /\ u.status = "sending_body" /\ u.nested = 2 /\ u.garbled = h.garbled
        /\ u.talking = h.talking /\ u.answered = h.answered
    BY <2>2 DEF State
  <2> HIDE DEF u
  <2>6. SameMessage(t, u) /\ SameTurn(t, u)
    BY <2>2, <2>4 DEF SameMessage, SameTurn
  <2>7. u.id = h.id
    BY <2>4 DEF SameMessage
  <2>8. Ordered(u)
    BY <2>2, <2>5, <2>7 DEF Ordered
  <2>9. Taken(t) => Taken(u)
    BY <1>2, <2>6 DEF Taken, SameTurn, SameMessage
  <2>10. QED
    BY <2>1, <2>3, <2>6, <2>8, <2>9 DEF Answers, SameTurn, Woken, Runs
<1>3. QED
  BY <1>1, <1>2

(* Who answers leaves a state good.                                           *)
LEMMA GoodAnswer ==
  ASSUME NEW t, NEW u, Good(t), Answers(t, u)
  PROVE  Good(u) /\ SameMessage(t, u)
BY DEF Good, Sound, Answers, SameMessage, Read, Whole

-----------------------------------------------------------------------------
(* Handlers *)

(* What a handler leaves alone of the message that is read.                   *)
SamePlace(t, u) == u.parse = t.parse /\ u.coding = t.coding /\ u.got = t.got

(* All but the message that is read.                                          *)
SameRest(t, u) ==
  SameTurn(t, u) /\ SameAnswer(t, u) /\ u.id = t.id /\ u.got = t.got

(* A step that reads leaves a state good if it leaves the message so.         *)
LEMMA GoodReading ==
  ASSUME NEW t, NEW u, Good(t), u \in State, SameRest(t, u), Read(u), Whole(u)
  PROVE  Good(u)
BY DEF Good, Sound, SameRest, SameTurn, SameAnswer, Ordered, Taken, Woken, Runs

(* A handler asks for the body.                                               *)
LEMMA ReceiveFacts ==
  ASSUME NEW t, Good(t), NEW then \in {"answer", "later"}
  PROVE  LET u == receive_body(t, then) IN Good(u) /\ SamePlace(t, u)
<1> DEFINE v == [t EXCEPT !.writer = then]
           w == [v EXCEPT !.body = TRUE]
           u == [w EXCEPT !.rest = 0]
<1>1. receive_body(t, then) = u
  BY DEF receive_body
<1>2. t \in State
  BY DEF Good, Sound
<1>3. v \in State
  BY <1>2 DEF State
<1>4. /\ SameRest(t, u) /\ SamePlace(t, u) /\ u.rest = 0
      /\ u.lost = t.lost /\ u.reported = t.reported
  BY <1>2 DEF State, SameRest, SameTurn, SameAnswer, SamePlace
<1> HIDE DEF v
<1>5. w \in State
  BY <1>3 DEF State
<1> HIDE DEF w
<1>6. u \in State
  BY SMTT(30), <1>5 DEF State
<1> HIDE DEF u
<1>7. Read(u) /\ Whole(u)
  BY <1>4 DEF Good, Sound, Read, Whole, SamePlace
<1>8. QED
  BY <1>1, <1>4, <1>6, <1>7, GoodReading

(* Work is begun or ended.                                                    *)
LEMMA WorkFacts ==
  ASSUME NEW t, Good(t), NEW w \in Works
  PROVE  LET u == [t EXCEPT !.work = w] IN Good(u) /\ SamePlace(t, u)
<1> DEFINE u == [t EXCEPT !.work = w]
<1>1. t \in State
  BY DEF Good, Sound
<1>2. u \in State
  BY <1>1 DEF State
<1>3. /\ SameRest(t, u) /\ SamePlace(t, u) /\ u.rest = t.rest /\ u.body = t.body
      /\ u.lost = t.lost /\ u.reported = t.reported
  BY <1>1 DEF State, SameRest, SameTurn, SameAnswer, SamePlace
<1> HIDE DEF u
<1>4. Read(u) /\ Whole(u)
  BY <1>3 DEF Good, Sound, Read, Whole, SamePlace
<1>5. Good(u) /\ SamePlace(t, u)
  BY <1>2, <1>3, <1>4, GoodReading
<1>6. QED
  BY <1>5 DEF u

(* What is handed to a handler stays good, and is read where it was.          *)
LEMMA HandleFacts ==
  ASSUME NEW t, Good(t), NEW does \in Doings
  PROVE  Good(handle(t, does)) /\ SamePlace(t, handle(t, does))
<1>1. t \in State /\ Ordered(t) /\ Woken(t) /\ t.id \in Nat
  BY DEF Good, Sound, State
<1>2. CASE does \in {"answer", "close", "stream"}
  <2>1. Answers(t, handle(t, does))
    BY <1>1, <1>2, ReplyFacts, BodyFacts DEF handle
  <2>2. QED
    BY <2>1, GoodAnswer DEF SameMessage, SamePlace
<1>3. CASE does = "later"
  <2>1. [for |-> t.id, from |-> "headers"] \in Works
    BY <1>1 DEF Works
  <2>2. QED
    BY <1>3, <2>1, WorkFacts DEF handle
<1>4. CASE does \in {"receive", "receive_later"}
  BY <1>4, ReceiveFacts DEF handle
<1>5. QED
  BY <1>2, <1>3, <1>4 DEF Doings

(* The same, when 100 Continue goes out before.                               *)
LEMMA HandleTransactionFacts ==
  ASSUME NEW t, Good(t), NEW does \in Doings, NEW expects \in BOOLEAN
  PROVE  /\ Good(handle_transaction(t, does, expects))
         /\ SamePlace(t, handle_transaction(t, does, expects))
<1> DEFINE v == IF expects /\ does \notin {"later", "receive_later"}
                THEN send_continue(t) ELSE t
<1>1. t \in State /\ Ordered(t) /\ Woken(t)
  BY DEF Good, Sound
<1>2. Good(v) /\ SamePlace(t, v)
  <2>1. Answers(t, send_continue(t))
    BY <1>1, ContinueFacts
  <2>2. Good(send_continue(t)) /\ SamePlace(t, send_continue(t))
    BY <2>1, GoodAnswer DEF SameMessage, SamePlace
  <2>3. QED
    BY <2>2 DEF SamePlace
<1>3. handle_transaction(t, does, expects) = handle(v, does)
  BY DEF handle_transaction
<1> HIDE DEF v
<1>4. Good(handle(v, does)) /\ SamePlace(v, handle(v, does))
  BY <1>2, HandleFacts
<1>5. QED
  BY <1>2, <1>3, <1>4 DEF SamePlace

(* on_end(false) answers with an error, or nothing.                           *)
LEMMA FailureFacts ==
  ASSUME NEW t, Good(t) PROVE Answers(t, on_end(t, FALSE))
<1>1. t \in State /\ Ordered(t) /\ Woken(t)
  BY DEF Good, Sound
<1>2. CASE t.writer = "none"
  BY <1>1, <1>2, AnswersReflexive DEF on_end
<1>3. CASE t.writer # "none"
  <2>1. on_end(t, FALSE) = reply(t, TRUE)
    BY <1>3 DEF on_end
  <2>2. QED
    BY <1>1, <2>1, ReplyFacts
<1>4. QED
  BY <1>2, <1>3

(* process_error() answers if nobody has yet.                                 *)
LEMMA ErrorFacts ==
  ASSUME NEW t, Good(t)
  PROVE  Answers(t, process_error(t)) /\ Good(process_error(t))
<1> DEFINE u == on_end(t, FALSE)
<1>1. process_error(t) = IF u.status = "waiting_for_code" THEN reply(u, TRUE) ELSE u
  BY DEF process_error
<1>2. Answers(t, u)
  BY FailureFacts
<1> HIDE DEF u
<1>3. Good(u)
  BY <1>2, GoodAnswer
<1>4. u \in State /\ Ordered(u) /\ Woken(u)
  BY <1>3 DEF Good, Sound
<1>5. Answers(u, reply(u, TRUE))
  BY <1>4, ReplyFacts
<1>6. Answers(t, process_error(t))
  BY <1>1, <1>2, <1>5, AnswersTransitive
<1>7. QED
  BY <1>6, GoodAnswer

(* on_end(true) tells the handler that it has the body.                       *)
LEMMA SuccessFacts ==
  ASSUME NEW t, Good(t) PROVE Good(on_end(t, TRUE))
<1> DEFINE p == t.reported \cup t.lost
           v == IF t.status = "waiting_for_code" THEN [t EXCEPT !.reported = p] ELSE t
           work == [for |-> t.id, from |-> "body"]
<1>1. t \in State /\ t.id \in Nat /\ p \in SUBSET Losses
  BY DEF Good, Sound, State
<1>2. on_end(t, TRUE) = CASE t.writer = "none" -> t
                          [] t.writer = "later" -> [v EXCEPT !.work = work]
                          [] OTHER -> reply(v, FALSE)
  BY DEF on_end
<1>3. Good(v)
  <2> DEFINE w == [t EXCEPT !.reported = p]
  <2>1. "chunked" \notin p
    BY DEF Good, Sound, Whole
  <2> HIDE DEF p
  <2>2. w \in State
    BY <1>1 DEF State
  <2>3. /\ SameRest(t, w) /\ SamePlace(t, w) /\ w.rest = t.rest /\ w.body = t.body
        /\ w.lost = t.lost /\ w.reported = p
    BY <1>1 DEF State, SameRest, SameTurn, SameAnswer, SamePlace
  <2> HIDE DEF w
  <2>4. Read(w) /\ Whole(w)
    BY <2>1, <2>3 DEF Good, Sound, Read, Whole, SamePlace
  <2>5. Good(w)
    BY <2>2, <2>3, <2>4, GoodReading
  <2>6. QED
    BY <2>5 DEF w
<1>4. work \in Works
  BY <1>1 DEF Works
<1> HIDE DEF v, work
<1>5. v \in State /\ Ordered(v) /\ Woken(v)
  BY <1>3 DEF Good, Sound
<1>6. Answers(v, reply(v, FALSE))
  BY <1>5, ReplyFacts
<1>7. Good(reply(v, FALSE))
  BY <1>3, <1>6, GoodAnswer
<1>8. Good([v EXCEPT !.work = work])
  BY <1>3, <1>4, WorkFacts
<1>9. QED
  BY <1>2, <1>7, <1>8

-----------------------------------------------------------------------------
(* The end of a message *)

(* reset() forgets the message, and what it leaves unread is lost.            *)
LEMMA ResetFacts ==
  ASSUME NEW t, Good(t), t.coding # "chunked" \/ t.rest = 0
  PROVE  LET u == reset(t) IN
         Good(u) /\ u.parse = "start" /\ u.got = t.got
<1> DEFINE l == IF t.rest = 0 THEN t.lost
                ELSE t.lost \cup {IF t.coding = "chunked" THEN "chunked" ELSE "length"}
           v == [t EXCEPT !.parse = "start", !.coding = "none", !.length = FALSE]
           w == [v EXCEPT !.left = BodySize]
           x == [w EXCEPT !.body = FALSE]
           y == [x EXCEPT !.rest = 0]
           u == [y EXCEPT !.lost = l]
<1>1. t \in State
  BY DEF Good, Sound
<1>2. l \in SUBSET Losses /\ "chunked" \notin l
  BY <1>1 DEF State, Losses, Good, Sound, Whole
<1>3. reset(t) = u
  BY DEF reset
<1> HIDE DEF l
<1>4. /\ SameRest(t, u) /\ u.parse = "start" /\ u.rest = 0 /\ u.lost = l
      /\ u.reported = t.reported /\ u.got = t.got
  BY <1>1 DEF State, SameRest, SameTurn, SameAnswer
<1>5. v \in State
  BY ZenonT(40), <1>1 DEF State, Parses
<1> HIDE DEF v
<1>6. BodySize \in Int
  BY HttpAssumption
<1>7. w \in State
  BY <1>5, <1>6 DEF State
<1> HIDE DEF w
<1>8. x \in State
  BY <1>7 DEF State
<1> HIDE DEF x
<1>9. y \in State
  BY <1>8, RestField
<1> HIDE DEF y
<1>10. u \in State
  BY <1>2, <1>9 DEF State
<1> HIDE DEF u
<1>11. Read(u) /\ Whole(u)
  BY <1>2, <1>4 DEF Good, Sound, Read, Whole
<1>12. Good(u)
  BY <1>4, <1>10, <1>11, GoodReading
<1>13. QED
  BY <1>3, <1>4, <1>12

(* The request has been read to its end, and nothing of it is left.           *)
LEMMA GotFacts ==
  ASSUME NEW t, Good(t), ~ t.got, t.coding # "chunked" \/ t.rest = 0
  PROVE  LET w == [reset(t) EXCEPT !.got = TRUE] IN
         /\ Good(w) /\ w.got /\ w.rest = reset(t).rest /\ w.body = reset(t).body
         /\ w.in = reset(t).in /\ w.left = reset(t).left /\ w.parse = reset(t).parse
         /\ w.work = reset(t).work /\ w.id = reset(t).id /\ w.writer = reset(t).writer
         /\ w.status = reset(t).status /\ w.end = reset(t).end
<1> DEFINE v == reset(t)
           w == [v EXCEPT !.got = TRUE]
<1>1. Good(v) /\ v.parse = "start" /\ ~ v.got
  BY ResetFacts
<1> HIDE DEF v
<1>2. v \in State
  BY <1>1 DEF Good, Sound
<1>3. w \in State
  BY <1>2 DEF State
<1>4. /\ SameTurn(v, w) /\ SameAnswer(v, w) /\ w.id = v.id /\ w.got
      /\ w.parse = v.parse /\ w.coding = v.coding /\ w.rest = v.rest
      /\ w.body = v.body /\ w.lost = v.lost /\ w.reported = v.reported
      /\ w.in = v.in /\ w.left = v.left /\ w.work = v.work /\ w.writer = v.writer
  BY <1>2 DEF State, SameTurn, SameAnswer
<1> HIDE DEF w
<1>5. Ordered(w)
  BY <1>1, <1>4 DEF Good, Sound, SameAnswer, Ordered
<1>6. Read(w) /\ Whole(w)
  BY <1>1, <1>4 DEF Good, Sound, Read, Whole
<1>7. Woken(w) /\ Runs(w)
  BY <1>1, <1>4 DEF Good, Sound, SameTurn, Woken, Runs
<1>8. Taken(w)
  BY <1>1, <1>4 DEF Good, SameTurn, Taken
<1>9. Good(w) /\ w.status = v.status /\ w.end = v.end
  BY <1>3, <1>4, <1>5, <1>6, <1>7, <1>8 DEF Good, Sound, SameAnswer, SameTurn
<1>10. QED
  BY <1>4, <1>9 DEF v, w

(* A request that has been read to its end waits for its response, or is the  *)
(* last of its transaction.                                                   *)
LEMMA EndMessageFacts ==
  ASSUME NEW t, Good(t), ~ t.got, t.coding # "chunked" \/ t.rest = 0
  PROVE  Good(end_message(t))
<1> DEFINE w == [reset(t) EXCEPT !.got = TRUE]
           x == on_end(w, TRUE)
<1>1. end_message(t) = maybe_accept_next_request(x)
  BY DEF end_message, process_end_of_message
<1>2. Good(w)
  BY GotFacts
<1> HIDE DEF w
<1>3. Good(x)
  BY <1>2, SuccessFacts
<1> HIDE DEF x
<1>4. x \in State /\ Woken(x)
  BY <1>3 DEF Good, Sound
<1>5. Answers(x, maybe_accept_next_request(x))
  BY <1>4, AcceptFacts
<1>6. QED
  BY <1>1, <1>3, <1>5, GoodAnswer

-----------------------------------------------------------------------------
(* The lines of a message *)

(* A line that says where the next one is read.                               *)
LEMMA PlaceFacts ==
  ASSUME NEW t, Good(t), ~ t.got, NEW p \in Parses,
         p \in {"size", "end_of_chunk", "trailer", "finish"} => t.coding = "chunked",
         p = "trailer" => t.rest = 0
  PROVE  Good([t EXCEPT !.parse = p])
<1> DEFINE u == [t EXCEPT !.parse = p]
<1>1. t \in State
  BY DEF Good, Sound
<1>2. u \in State
  BY <1>1 DEF State
<1>3. /\ SameRest(t, u) /\ u.parse = p /\ u.rest = t.rest /\ u.body = t.body
      /\ u.coding = t.coding /\ u.lost = t.lost /\ u.reported = t.reported
      /\ u.got = t.got
  BY <1>1 DEF State, SameRest, SameTurn, SameAnswer
<1> HIDE DEF u
<1>4. Read(u) /\ Whole(u)
  BY <1>3 DEF Good, Sound, Read, Whole
<1>5. Good(u)
  BY <1>2, <1>3, <1>4, GoodReading
<1>6. QED
  BY <1>5 DEF u

(* What is left of a body or a chunk is counted.                              *)
LEMMA LeftFacts ==
  ASSUME NEW t, Good(t), NEW n \in Int
  PROVE  LET u == [t EXCEPT !.left = n] IN
         Good(u) /\ SamePlace(t, u) /\ u.body = t.body /\ u.rest = t.rest /\ u.left = n
<1> DEFINE u == [t EXCEPT !.left = n]
<1>1. t \in State
  BY DEF Good, Sound
<1>2. u \in State
  BY <1>1 DEF State
<1>3. /\ SameRest(t, u) /\ SamePlace(t, u) /\ u.rest = t.rest /\ u.body = t.body
      /\ u.lost = t.lost /\ u.reported = t.reported /\ u.left = n
  BY <1>1 DEF State, SameRest, SameTurn, SameAnswer, SamePlace
<1> HIDE DEF u
<1>4. Read(u) /\ Whole(u)
  BY <1>3 DEF Good, Sound, Read, Whole, SamePlace
<1>5. Good(u)
  BY <1>2, <1>3, <1>4, GoodReading
<1>6. QED
  BY <1>3, <1>5 DEF u

(* body_buffer_ has grown or shrunk, where there is a body to put into it.    *)
LEMMA RestFacts ==
  ASSUME NEW t, Good(t), NEW n \in Int, t.parse = "trailer" => n = 0, t.body \/ n = 0
  PROVE  LET u == [t EXCEPT !.rest = n] IN
         Good(u) /\ SamePlace(t, u) /\ u.body = t.body /\ u.rest = n /\ u.left = t.left
<1> DEFINE u == [t EXCEPT !.rest = n]
<1>1. t \in State
  BY DEF Good, Sound
<1>2. u \in State
  BY <1>1 DEF State
<1>3. /\ SameRest(t, u) /\ SamePlace(t, u) /\ u.rest = n /\ u.body = t.body
      /\ u.left = t.left
      /\ u.lost = t.lost /\ u.reported = t.reported
  BY <1>1 DEF State, SameRest, SameTurn, SameAnswer, SamePlace
<1> HIDE DEF u
<1>4. Read(u) /\ Whole(u)
  BY <1>3 DEF Good, Sound, Read, Whole, SamePlace
<1>5. Good(u)
  BY <1>2, <1>3, <1>4, GoodReading
<1>6. QED
  BY <1>3, <1>5 DEF u

(* A piece came before the handler asked for it.                              *)
LEMMA LateFacts ==
  ASSUME NEW t, Good(t)
  PROVE  LET u == [t EXCEPT !.lost = t.lost \cup {"late"}] IN
         Good(u) /\ SamePlace(t, u) /\ u.left = t.left /\ u.body = t.body /\ u.rest = t.rest
<1> DEFINE l == t.lost \cup {"late"}
           u == [t EXCEPT !.lost = l]
<1>1. t \in State
  BY DEF Good, Sound
<1>2. l \in SUBSET Losses /\ "chunked" \notin l
  BY <1>1 DEF State, Losses, Good, Sound, Whole
<1> HIDE DEF l
<1>3. u \in State
  BY <1>1, <1>2 DEF State
<1>4. /\ SameRest(t, u) /\ SamePlace(t, u) /\ u.rest = t.rest /\ u.body = t.body
      /\ u.lost = l /\ u.reported = t.reported /\ u.left = t.left
  BY <1>1 DEF State, SameRest, SameTurn, SameAnswer, SamePlace
<1> HIDE DEF u
<1>5. Read(u) /\ Whole(u)
  BY <1>2, <1>4 DEF Good, Sound, Read, Whole, SamePlace
<1>6. Good(u)
  BY <1>3, <1>4, <1>5, GoodReading
<1>7. QED
  BY <1>4, <1>6 DEF u, l

(* Connection: close, or a request that has not said so.                      *)
LEMMA ClosesFacts ==
  ASSUME NEW t, Good(t), NEW b \in BOOLEAN PROVE Good([t EXCEPT !.closes = b])
<1> DEFINE u == [t EXCEPT !.closes = b]
<1>1. t \in State
  BY DEF Good, Sound
<1>2. u \in State
  BY <1>1 DEF State
<1>3. /\ SameRest(t, u) /\ SamePlace(t, u) /\ u.rest = t.rest /\ u.body = t.body
      /\ u.lost = t.lost /\ u.reported = t.reported
  BY <1>1 DEF State, SameRest, SameTurn, SameAnswer, SamePlace
<1> HIDE DEF u
<1>4. Read(u) /\ Whole(u)
  BY <1>3 DEF Good, Sound, Read, Whole, SamePlace
<1>5. Good(u)
  BY <1>2, <1>3, <1>4, GoodReading
<1>6. QED
  BY <1>5 DEF u

(* Content-Length has been given.                                             *)
LEMMA LengthFacts ==
  ASSUME NEW t, Good(t) PROVE Good([t EXCEPT !.length = TRUE])
<1> DEFINE u == [t EXCEPT !.length = TRUE]
<1>1. t \in State
  BY DEF Good, Sound
<1>2. u \in State
  BY <1>1 DEF State
<1>3. /\ SameRest(t, u) /\ SamePlace(t, u) /\ u.rest = t.rest /\ u.body = t.body
      /\ u.lost = t.lost /\ u.reported = t.reported
  BY <1>1 DEF State, SameRest, SameTurn, SameAnswer, SamePlace
<1> HIDE DEF u
<1>4. Read(u) /\ Whole(u)
  BY <1>3 DEF Good, Sound, Read, Whole, SamePlace
<1>5. Good(u)
  BY <1>2, <1>3, <1>4, GoodReading
<1>6. QED
  BY <1>5 DEF u

(* Transfer-Encoding: chunked has been given.                                 *)
LEMMA CodingFacts ==
  ASSUME NEW t, Good(t) PROVE Good([t EXCEPT !.coding = "chunked"])
<1> DEFINE u == [t EXCEPT !.coding = "chunked"]
<1>1. t \in State
  BY DEF Good, Sound
<1>2. u \in State
  BY <1>1 DEF State
<1>3. /\ SameRest(t, u) /\ u.rest = t.rest /\ u.body = t.body /\ u.coding = "chunked"
      /\ u.parse = t.parse /\ u.got = t.got
      /\ u.lost = t.lost /\ u.reported = t.reported
  BY <1>1 DEF State, SameRest, SameTurn, SameAnswer
<1> HIDE DEF u
<1>4. Read(u) /\ Whole(u)
  BY <1>3 DEF Good, Sound, Read, Whole
<1>5. Good(u)
  BY <1>2, <1>3, <1>4, GoodReading
<1>6. QED
  BY <1>5 DEF u

(* A line of a new request stops the keep-alive timer, if it runs.            *)
LEMMA StartFacts ==
  ASSUME NEW t, Sound(t), ~ t.got, ~ t.must_be_made
  PROVE  LET u == Arm([t EXCEPT !.parse = "headers"], "activity") IN
         /\ Good(u) /\ u.parse = "headers" /\ u.in = t.in /\ u.left = t.left
         /\ u.id = t.id /\ u.got = t.got /\ u.work = t.work /\ u.rest = t.rest
         /\ u.body = t.body /\ u.writer = t.writer /\ u.status = t.status
         /\ u.end = t.end
<1> DEFINE v == [t EXCEPT !.parse = "headers"]
           u == Arm(v, "activity")
<1>1. t \in State
  BY DEF Sound
<1>2. v \in State
  BY <1>1 DEF State, Parses
<1>3. /\ SameTurn(t, v) /\ SameAnswer(t, v) /\ v.id = t.id /\ v.got = t.got
      /\ v.parse = "headers" /\ v.coding = t.coding /\ v.rest = t.rest
      /\ v.body = t.body /\ v.lost = t.lost /\ v.reported = t.reported
      /\ v.in = t.in /\ v.left = t.left /\ v.work = t.work /\ v.writer = t.writer
  BY <1>1 DEF State, SameTurn, SameAnswer
<1> HIDE DEF v
<1>4. /\ u \in State /\ SameMessage(v, u) /\ SameAnswer(v, u)
      /\ u.timer = "activity" /\ u.running /\ u.end = v.end
      /\ u.events = v.events /\ u.waitsPipe = v.waitsPipe /\ u.waits = v.waits
      /\ u.consumer = v.consumer /\ u.must_be_made = v.must_be_made
  BY <1>2, ArmFacts
<1> HIDE DEF u
<1>5. Ordered(u)
  BY <1>3, <1>4 DEF Sound, Ordered, SameAnswer, SameMessage
<1>6. Taken(u) /\ Read(u) /\ Runs(u)
  BY <1>3, <1>4 DEF Taken, Read, Runs, SameTurn, SameMessage
<1>7. Woken(u)
  BY <1>3, <1>4 DEF Sound, Woken, SameTurn
<1>8. Whole(u)
  BY <1>3, <1>4 DEF Sound, Whole, SameMessage
<1>9. Good(u)
  BY <1>4, <1>5, <1>6, <1>7, <1>8 DEF Good, Sound
<1>10. /\ u.parse = "headers" /\ u.in = t.in /\ u.left = t.left
       /\ u.id = t.id /\ u.got = t.got /\ u.work = t.work /\ u.rest = t.rest
       /\ u.body = t.body /\ u.writer = t.writer /\ u.status = t.status
       /\ u.end = t.end
  BY <1>3, <1>4 DEF SameMessage, SameAnswer, SameTurn
<1>11. QED
  BY <1>9, <1>10 DEF u, v

(* A request line, or a line that is none.                                    *)
LEMMA StartLineFacts ==
  ASSUME NEW t, Sound(t), ~ t.got, ~ t.must_be_made, NEW line
  PROVE  Good(start_line(t, line))
<1> DEFINE u == Arm([t EXCEPT !.parse = "headers"], "activity")
           w == [u EXCEPT !.left = 0]
<1>1. start_line(t, line) = IF line = "start" THEN [w EXCEPT !.closes = FALSE]
                            ELSE process_error(u)
  BY DEF start_line
<1>2. Good(u)
  BY StartFacts
<1> HIDE DEF u
<1>3. Good(w)
  <2>1. 0 \in Int
    OBVIOUS
  <2>2. QED
    BY <1>2, <2>1, LeftFacts
<1> HIDE DEF w
<1>4. Good([w EXCEPT !.closes = FALSE])
  <2>1. FALSE \in BOOLEAN
    OBVIOUS
  <2>2. QED
    BY <1>3, <2>1, ClosesFacts
<1>5. Good(process_error(u))
  BY <1>2, ErrorFacts
<1>6. QED
  BY <1>1, <1>4, <1>5

(* The blank line after the headers calls the handler, and a body comes next, *)
(* or the end of the message.                                                 *)
LEMMA EndOfHeadersFacts ==
  ASSUME NEW t, Good(t), ~ t.got, NEW does \in Doings, NEW expects \in BOOLEAN
  PROVE  Good(end_of_headers(t, does, expects))
<1> DEFINE u == handle_transaction(t, does, expects)
<1>1. Good(u) /\ SamePlace(t, u)
  BY HandleTransactionFacts
<1>2. end_of_headers(t, does, expects) =
        IF u.coding = "chunked"
        THEN IF u.length THEN process_error(u) ELSE [u EXCEPT !.parse = "size"]
        ELSE IF u.left # 0 THEN [u EXCEPT !.parse = "body"] ELSE end_message(u)
  BY DEF end_of_headers
<1> HIDE DEF u
<1>3. ~ u.got
  BY <1>1 DEF SamePlace
<1>4. Good(process_error(u))
  BY <1>1, ErrorFacts
<1>5. u.coding = "chunked" => Good([u EXCEPT !.parse = "size"])
  <2>1. "size" \in Parses /\ "size" # "trailer"
    BY DEF Parses
  <2>2. QED
    BY <1>1, <1>3, <2>1, PlaceFacts
<1>6. Good([u EXCEPT !.parse = "body"])
  <2>1. /\ "body" \in Parses /\ "body" # "trailer"
        /\ "body" \notin {"size", "end_of_chunk", "trailer", "finish"}
    BY DEF Parses
  <2>2. QED
    BY <1>1, <1>3, <2>1, PlaceFacts
<1>7. u.coding # "chunked" => Good(end_message(u))
  BY <1>1, <1>3, EndMessageFacts
<1>8. QED
  BY <1>2, <1>4, <1>5, <1>6, <1>7

(* A header, or a line of a trailer.                                          *)
LEMMA HeaderFacts ==
  ASSUME NEW t, Good(t), NEW line PROVE Good(header(t, line))
<1>1. CASE line = "close"
  <2>1. TRUE \in BOOLEAN
    OBVIOUS
  <2>2. Good([t EXCEPT !.closes = TRUE])
    BY <2>1, ClosesFacts
  <2>3. QED
    BY <1>1, <2>2 DEF header
<1>2. CASE line = "length"
  <2> DEFINE u == [t EXCEPT !.left = BodySize]
  <2>1. header(t, line) = [u EXCEPT !.length = TRUE]
    BY <1>2 DEF header
  <2>2. BodySize \in Int
    BY HttpAssumption
  <2>3. Good(u)
    BY <2>2, LeftFacts
  <2> HIDE DEF u
  <2>4. QED
    BY <2>1, <2>3, LengthFacts
<1>3. CASE line = "chunked"
  BY <1>3, CodingFacts DEF header
<1>4. CASE line \notin {"close", "length", "chunked"}
  BY <1>4, ErrorFacts DEF header
<1>5. QED
  BY <1>1, <1>2, <1>3, <1>4

(* The size of a chunk, the last of which has none.                           *)
LEMMA ChunkSizeFacts ==
  ASSUME NEW t, Good(t), ~ t.got, t.parse = "size", NEW line
  PROVE  Good(chunk_size(t, line))
<1>1. t.coding = "chunked"
  BY DEF Good, Sound, Whole
<1>2. CASE line = "size"
  <2> DEFINE u == [t EXCEPT !.left = 1]
  <2>1. chunk_size(t, line) = [u EXCEPT !.parse = "body"]
    BY <1>2 DEF chunk_size
  <2>2. 1 \in Int
    OBVIOUS
  <2>3. Good(u) /\ SamePlace(t, u)
    BY <2>2, LeftFacts
  <2> HIDE DEF u
  <2>4. ~ u.got
    BY <2>3 DEF SamePlace
  <2>5. /\ "body" \in Parses /\ "body" # "trailer"
        /\ "body" \notin {"size", "end_of_chunk", "trailer", "finish"}
    BY DEF Parses
  <2>6. QED
    BY <2>1, <2>3, <2>4, <2>5, PlaceFacts
<1>3. CASE line = "zero"
  <2> DEFINE u == [t EXCEPT !.left = 0]
             p == AfterLastChunk(t)
  <2>1. chunk_size(t, line) = [u EXCEPT !.parse = p]
    BY <1>3 DEF chunk_size
  <2>2. 0 \in Int
    OBVIOUS
  <2>3. Good(u) /\ SamePlace(t, u) /\ u.rest = t.rest
    BY <2>2, LeftFacts
  <2>4. p \in Parses /\ (p = "trailer" => t.rest = 0)
    BY DEF AfterLastChunk, Parses
  <2> HIDE DEF u, p
  <2>5. ~ u.got /\ u.coding = "chunked" /\ (p = "trailer" => u.rest = 0)
    BY <1>1, <2>3, <2>4 DEF SamePlace
  <2>6. QED
    BY <2>1, <2>3, <2>4, <2>5, PlaceFacts
<1>4. CASE line \notin {"size", "zero"}
  BY <1>4, ErrorFacts DEF chunk_size
<1>5. QED
  BY <1>2, <1>3, <1>4

(* The line that ends a chunk.                                                *)
LEMMA EndOfChunkFacts ==
  ASSUME NEW t, Good(t), ~ t.got, t.parse = "end_of_chunk", NEW line
  PROVE  Good(end_of_chunk(t, line))
<1>1. t.coding = "chunked"
  BY DEF Good, Sound, Whole
<1>2. CASE line = "blank"
  <2>1. "size" \in Parses /\ "size" # "trailer"
    BY DEF Parses
  <2>2. Good([t EXCEPT !.parse = "size"])
    BY <1>1, <2>1, PlaceFacts
  <2>3. QED
    BY <1>2, <2>2 DEF end_of_chunk
<1>3. CASE line # "blank"
  BY <1>3, ErrorFacts DEF end_of_chunk
<1>4. QED
  BY <1>2, <1>3

-----------------------------------------------------------------------------
(* Bodies *)

(* The smaller of two numbers is one of them, and not above the other.        *)
LEMMA MinFacts ==
  ASSUME NEW a \in Int, NEW b \in Int
  PROVE  LET m == Min({a, b}) IN m \in {a, b} /\ m =< a /\ m =< b
<1> DEFINE P(x) == x \in {a, b} /\ \A y \in {a, b} : x =< y
<1>1. \E x : P(x)
  <2>1. CASE a =< b
    <3>1. P(a)
      BY <2>1
    <3>2. QED
      BY <3>1
  <2>2. CASE b =< a
    <3>1. P(b)
      BY <2>2
    <3>2. QED
      BY <3>1
  <2>3. QED
    BY <2>1, <2>2
<1>2. P(CHOOSE x : P(x))
  BY <1>1, Zenon
<1>3. Min({a, b}) = CHOOSE x : P(x)
  BY DEF Min
<1> DEFINE m == CHOOSE x : P(x)
<1>4. P(m)
  BY <1>2
<1> HIDE DEF m
<1>5. m \in {a, b} /\ m =< a /\ m =< b
  BY <1>4
<1>6. QED
  BY <1>3, <1>5 DEF m

(* The handler's file takes what body_buffer_ holds, or some of it, or fails. *)
LEMMA ConsumeFacts ==
  ASSUME NEW t, Good(t), t.body, t.parse # "trailer", NEW leaves \in Leaves
  PROVE  LET u == consume_body(t, leaves) IN
         Good(u) /\ SamePlace(t, u) /\ u.body /\ u.left = t.left
<1>1. CASE t.writer = "later"
  <2>1. 0 \in Int
    OBVIOUS
  <2>2. consume_body(t, leaves) = [t EXCEPT !.rest = 0]
    BY <1>1 DEF consume_body
  <2>3. QED
    BY <2>1, <2>2, RestFacts
<1>2. CASE t.writer # "later" /\ leaves = Failed
  <2>1. consume_body(t, leaves) = process_error(t)
    BY <1>2 DEF consume_body
  <2>2. Answers(t, process_error(t)) /\ Good(process_error(t))
    BY ErrorFacts
  <2>3. QED
    BY <2>1, <2>2 DEF Answers, SameMessage, SamePlace
<1>3. CASE t.writer # "later" /\ leaves # Failed
  <2> DEFINE n == Min({leaves, t.rest - 1})
  <2>1. consume_body(t, leaves) = [t EXCEPT !.rest = n]
    BY <1>3 DEF consume_body
  <2>2. leaves \in Int /\ t.rest - 1 \in Int
    BY HttpAssumption DEF Leaves, Failed, Good, Sound, State
  <2>3. n \in Int
    BY <2>2, MinFacts
  <2> HIDE DEF n
  <2>4. QED
    BY <2>1, <2>3, RestFacts
<1>4. QED
  BY <1>1, <1>2, <1>3

(* A piece of a body is handed on if somebody has asked for it, and the last  *)
(* one ends the chunk or the message.                                         *)
LEMMA BodyPieceFacts ==
  ASSUME NEW t, Good(t), ~ t.got, t.parse = "body", NEW leaves \in Leaves
  PROVE  Good(body_piece(t, leaves))
<1> DEFINE took == IF t.body THEN consume_body([t EXCEPT !.rest = t.rest + Piece], leaves)
                   ELSE [t EXCEPT !.lost = t.lost \cup {"late"}]
           u == [took EXCEPT !.left = took.left - 1]
<1>1. Good(took) /\ SamePlace(t, took) /\ took.left = t.left
  <2>1. CASE t.body
    <3> DEFINE n == t.rest + Piece
               v == [t EXCEPT !.rest = n]
    <3>1. took = consume_body(v, leaves)
      BY <2>1
    <3>2. n \in Int
      BY DEF Good, Sound, State, Piece
    <3> HIDE DEF n, took
    <3>3. Good(v) /\ SamePlace(t, v) /\ v.body = t.body /\ v.left = t.left
      BY <2>1, <3>2, RestFacts
    <3> HIDE DEF v
    <3>4. v.body /\ v.parse # "trailer"
      BY <2>1, <3>3 DEF SamePlace
    <3>5. Good(took) /\ SamePlace(v, took) /\ took.left = v.left
      BY <3>1, <3>3, <3>4, ConsumeFacts
    <3>6. QED
      BY <3>3, <3>5 DEF SamePlace
  <2>2. CASE ~ t.body
    <3>1. took = [t EXCEPT !.lost = t.lost \cup {"late"}]
      BY <2>2
    <3> HIDE DEF took
    <3>2. QED
      BY <3>1, LateFacts
  <2>3. QED
    BY <2>1, <2>2
<1>2. body_piece(t, leaves) =
        IF u.left # 0 THEN u
        ELSE IF u.coding = "chunked" THEN [u EXCEPT !.parse = "end_of_chunk"]
        ELSE end_message(u)
  BY DEF body_piece
<1> HIDE DEF took
<1>3. took.left - 1 \in Int
  BY <1>1 DEF Good, Sound, State
<1>4. Good(u) /\ SamePlace(took, u)
  BY <1>1, <1>3, LeftFacts
<1> HIDE DEF u
<1>5. ~ u.got
  BY <1>1, <1>4 DEF SamePlace
<1>6. u.coding = "chunked" => Good([u EXCEPT !.parse = "end_of_chunk"])
  <2>1. "end_of_chunk" \in Parses /\ "end_of_chunk" # "trailer"
    BY DEF Parses
  <2>2. QED
    BY <1>4, <1>5, <2>1, PlaceFacts
<1>7. u.coding # "chunked" => Good(end_message(u))
  BY <1>4, <1>5, EndMessageFacts
<1>8. QED
  BY <1>2, <1>4, <1>6, <1>7

(* After the last chunk the trailer is read, once body_buffer_ is empty.      *)
LEMMA FinishBodyFacts ==
  ASSUME NEW t, Good(t), ~ t.got, t.parse = "finish", NEW leaves \in Leaves
  PROVE  Good(finish_body(t, leaves))
<1> DEFINE u == IF t.body THEN consume_body(t, leaves) ELSE t
<1>1. Good(u) /\ SamePlace(t, u)
  <2>1. t.body => Good(consume_body(t, leaves)) /\ SamePlace(t, consume_body(t, leaves))
    BY ConsumeFacts
  <2>2. QED
    BY <2>1 DEF SamePlace
<1>2. finish_body(t, leaves) =
        IF u.rest = 0 \/ ~ u.body THEN [u EXCEPT !.parse = "trailer"] ELSE u
  BY DEF finish_body
<1> HIDE DEF u
<1>3. t.coding = "chunked"
  BY DEF Good, Sound, Whole
<1>4. ~ u.got /\ u.coding = "chunked"
  BY <1>1, <1>3 DEF SamePlace
<1>5. u.rest = 0 \/ ~ u.body => u.rest = 0
  BY <1>1 DEF Good, Sound, Whole
<1>6. "trailer" \in Parses
  BY DEF Parses
<1>7. u.rest = 0 => Good([u EXCEPT !.parse = "trailer"])
  BY <1>1, <1>4, <1>6, PlaceFacts
<1>8. QED
  BY <1>1, <1>2, <1>5, <1>7

(* A line is read where the message is.                                       *)
LEMMA MessageFacts ==
  ASSUME NEW t, Good(t), ~ t.got, t.parse # "finish", NEW line,
         NEW does \in Doings, NEW expects \in BOOLEAN, NEW leaves \in Leaves
  PROVE  Good(message(t, line, does, expects, leaves))
<1>1. t.parse \in Parses /\ Sound(t)
  BY DEF Good, Sound, State
<1>2. ~ t.must_be_made
  BY DEF Good, Taken
<1>3. CASE t.parse = "start"
  BY <1>1, <1>2, <1>3, StartLineFacts DEF message
<1>4. CASE t.parse \in {"headers", "trailer"} /\ line # "blank"
  BY <1>4, HeaderFacts DEF message
<1>5. CASE t.parse = "headers" /\ line = "blank"
  BY <1>5, EndOfHeadersFacts DEF message
<1>6. CASE t.parse = "trailer" /\ line = "blank"
  <2>1. t.rest = 0
    BY <1>1, <1>6 DEF Sound, Whole
  <2>2. Good(end_message(t))
    BY <2>1, EndMessageFacts
  <2>3. QED
    BY <1>6, <2>2 DEF message
<1>7. CASE t.parse = "size"
  BY <1>7, ChunkSizeFacts DEF message
<1>8. CASE t.parse = "end_of_chunk"
  BY <1>8, EndOfChunkFacts DEF message
<1>9. CASE t.parse = "body"
  BY <1>9, BodyPieceFacts DEF message
<1>10. QED
  BY <1>1, <1>3, <1>4, <1>5, <1>6, <1>7, <1>8, <1>9 DEF Parses

-----------------------------------------------------------------------------
(* Input *)

(* A line comes into the buffer or leaves it.                                 *)
LEMMA InFacts ==
  ASSUME NEW t, Sound(t), NEW q \in Seq(Lines)
  PROVE  LET u == [t EXCEPT !.in = q] IN
         /\ Sound(u) /\ (Taken(t) => Taken(u))
         /\ u.parse = t.parse /\ u.got = t.got /\ u.must_be_made = t.must_be_made
<1> DEFINE u == [t EXCEPT !.in = q]
<1>1. t \in State
  BY DEF Sound
<1>2. u \in State
  BY <1>1 DEF State
<1>3. /\ SameTurn(t, u) /\ SameAnswer(t, u) /\ u.id = t.id /\ u.got = t.got
      /\ u.parse = t.parse /\ u.coding = t.coding /\ u.rest = t.rest
      /\ u.body = t.body /\ u.lost = t.lost /\ u.reported = t.reported
  BY <1>1 DEF State, SameTurn, SameAnswer
<1> HIDE DEF u
<1>4. Ordered(u) /\ (Taken(t) => Taken(u))
  BY <1>3 DEF Sound, SameAnswer, SameTurn, Ordered, Taken
<1>5. Read(u) /\ Whole(u)
  BY <1>3 DEF Sound, Read, Whole
<1>6. Woken(u) /\ Runs(u)
  BY <1>3 DEF Sound, SameTurn, Woken, Runs
<1>7. /\ Sound(u) /\ (Taken(t) => Taken(u))
      /\ u.parse = t.parse /\ u.got = t.got /\ u.must_be_made = t.must_be_made
  BY <1>2, <1>3, <1>4, <1>5, <1>6 DEF Sound, SameTurn
<1>8. QED
  BY <1>7 DEF u

(* The pipe's events, and whether they are waited for.                        *)
LEMMA EventFacts ==
  ASSUME NEW t, Good(t), NEW n \in Int, NEW b \in BOOLEAN, NEW c \in BOOLEAN,
         n \in 0..1, n = 1 => b /\ ~ c, c => b,
         t.end # "open" => n = 0 /\ ~ c
  PROVE  LET u == [t EXCEPT !.events = n, !.waitsPipe = b, !.waits = c] IN
         /\ Good(u) /\ u.in = t.in /\ u.parse = t.parse /\ u.end = t.end
         /\ u.events = n /\ u.waits = c /\ u.got = t.got
<1> DEFINE v == [t EXCEPT !.events = n]
           w == [v EXCEPT !.waitsPipe = b]
           u == [w EXCEPT !.waits = c]
<1>1. t \in State
  BY DEF Good, Sound
<1>2. /\ SameMessage(t, u) /\ SameAnswer(t, u) /\ u.events = n /\ u.waitsPipe = b
      /\ u.waits = c /\ u.consumer = t.consumer /\ u.must_be_made = t.must_be_made
      /\ u.timer = t.timer /\ u.running = t.running /\ u.end = t.end
  BY <1>1 DEF State, SameMessage, SameAnswer
<1>3. u = [t EXCEPT !.events = n, !.waitsPipe = b, !.waits = c]
  OBVIOUS
<1>4. v \in State
  BY <1>1, EventsField
<1> HIDE DEF v
<1>5. w \in State
  BY <1>4 DEF State
<1> HIDE DEF w
<1>6. u \in State
  BY <1>5 DEF State
<1> HIDE DEF u
<1>7. Woken(u)
  BY <1>2 DEF Good, Sound, Woken
<1>8. Ordered(u) /\ Taken(u) /\ Runs(u)
  BY <1>2 DEF Good, Sound, SameMessage, SameAnswer, Ordered, Taken, Runs
<1>9. Read(u) /\ Whole(u)
  BY <1>2 DEF Good, Sound, SameMessage, Read, Whole
<1>10. /\ Good(u) /\ u.in = t.in /\ u.parse = t.parse /\ u.end = t.end
       /\ u.events = n /\ u.waits = c /\ u.got = t.got
  BY <1>2, <1>6, <1>7, <1>8, <1>9 DEF Good, Sound, SameMessage
<1>11. QED
  BY <1>3, <1>10

(* The next transaction begins when the request and its response are over.    *)
LEMMA NewTransactionFacts ==
  ASSUME NEW t, Good(t), t.must_be_made
  PROVE  LET u == new_transaction(t) IN
         /\ Sound(u) /\ u.parse = "start" /\ ~ u.got /\ ~ u.must_be_made
         /\ u.in = t.in
<1> DEFINE n == t.id + 1
           v == [t EXCEPT !.id = n]
           w == [v EXCEPT !.must_be_made = FALSE, !.got = FALSE, !.waits = FALSE]
           x == [w EXCEPT !.closes = FALSE]
           y == [x EXCEPT !.writer = "none"]
           z == [y EXCEPT !.status = "waiting_for_code"]
           zz == [z EXCEPT !.close = FALSE]
           u == [zz EXCEPT !.lost = {}, !.reported = {}]
<1>1. t \in State
  BY DEF Good, Sound
<1>2. n \in Nat
  BY <1>1 DEF State
<1>3. u = new_transaction(t)
  BY DEF new_transaction
<1> HIDE DEF n
<1>4. /\ u.id = n /\ ~ u.must_be_made /\ ~ u.got /\ ~ u.waits
      /\ u.status = "waiting_for_code" /\ u.lost = {} /\ u.reported = {}
  BY <1>1 DEF State
<1>5. /\ u.in = t.in /\ u.parse = t.parse /\ u.coding = t.coding /\ u.rest = t.rest
      /\ u.body = t.body /\ u.events = t.events /\ u.waitsPipe = t.waitsPipe
      /\ u.consumer = t.consumer /\ u.end = t.end /\ u.running = t.running
  BY <1>1 DEF State
<1>6. /\ u.nested = t.nested /\ u.answered = t.answered
      /\ u.talking = t.talking /\ u.garbled = t.garbled
  BY <1>1 DEF State
<1>7. v \in State
  BY <1>1, <1>2 DEF State
<1> HIDE DEF v
<1>8. w \in State
  BY <1>7 DEF State
<1> HIDE DEF w
<1>9. x \in State
  BY <1>8 DEF State
<1> HIDE DEF x
<1>10. y \in State
  BY <1>9 DEF State
<1> HIDE DEF y
<1>11. z \in State
  BY <1>10 DEF State, Statuses
<1> HIDE DEF z
<1>12. zz \in State
  BY <1>11 DEF State
<1> HIDE DEF zz
<1>13. u \in State
  BY <1>12 DEF State
<1> HIDE DEF u
<1>14. t.got /\ t.status = "ended"
  BY DEF Good, Taken
<1>15. Ordered(u)
  <2>1. ~ t.garbled /\ ~ t.talking /\ t.id = t.answered /\ t.nested = 0
    BY <1>14 DEF Good, Sound, Ordered
  <2>2. u.id = u.answered + 1
    BY <1>4, <1>6, <2>1 DEF n
  <2>3. QED
    BY <1>4, <1>6, <2>1, <2>2 DEF Ordered
<1>16. Read(u) /\ u.parse = "start"
  BY <1>4, <1>5, <1>14 DEF Good, Sound, Read
<1>17. Woken(u) /\ Runs(u)
  BY <1>4, <1>5 DEF Good, Sound, Woken, Runs
<1>18. Whole(u)
  BY <1>4, <1>5 DEF Good, Sound, Whole
<1>19. Sound(u)
  BY <1>13, <1>15, <1>16, <1>17, <1>18 DEF Sound
<1>20. QED
  BY <1>3, <1>4, <1>5, <1>16, <1>19

(* What the reader does with its buffer, at its event.                        *)
LEMMA ConsumeBufferFacts ==
  ASSUME NEW t, Good(t), t.end = "open", t.events = 0, t.in # <<>>,
         NEW does \in Doings, NEW expects \in BOOLEAN, NEW leaves \in Leaves
  PROVE  Good(consume_buffer(t, does, expects, leaves))
<1> DEFINE u == IF t.must_be_made THEN new_transaction(t) ELSE t
           q == Tail(u.in)
           v == [u EXCEPT !.in = q]
           line == Head(u.in)
<1>1. consume_buffer(t, does, expects, leaves) =
        IF Postponed(t) THEN [t EXCEPT !.waits = TRUE, !.waitsPipe = TRUE]
        ELSE IF u.parse = "finish" THEN finish_body(u, leaves)
        ELSE message(v, line, does, expects, leaves)
  BY DEF consume_buffer
<1>2. t \in State
  BY DEF Good, Sound
<1>3. Good([t EXCEPT !.waits = TRUE, !.waitsPipe = TRUE])
  <2> DEFINE w == [t EXCEPT !.events = 0, !.waitsPipe = TRUE, !.waits = TRUE]
  <2>1. w = [t EXCEPT !.waits = TRUE, !.waitsPipe = TRUE]
    BY <1>2 DEF State
  <2>2. 0 \in Int /\ TRUE \in BOOLEAN /\ 0 \in 0..1 /\ 0 # 1
    OBVIOUS
  <2>3. Good(w)
    BY <2>2, EventFacts
  <2>4. QED
    BY <2>1, <2>3
<1>4. ASSUME ~ Postponed(t)
      PROVE  /\ Sound(u) /\ ~ u.got /\ ~ u.must_be_made /\ u.in = t.in
             /\ Good(u) \/ u.parse = "start"
  <2>1. CASE t.must_be_made
    BY <2>1, NewTransactionFacts
  <2>2. CASE ~ t.must_be_made
    BY <1>4, <2>2 DEF Postponed, Good
  <2>3. QED
    BY <2>1, <2>2
<1> HIDE DEF u
<1>5. ASSUME ~ Postponed(t), u.parse = "finish" PROVE Good(finish_body(u, leaves))
  BY <1>4, <1>5, FinishBodyFacts
<1>6. ASSUME ~ Postponed(t), u.parse # "finish"
      PROVE  Good(message(v, line, does, expects, leaves))
  <2>1. q \in Seq(Lines)
    BY <1>2, <1>4, <1>6 DEF State
  <2> HIDE DEF q, line
  <2>2. /\ Sound(v) /\ (Taken(u) => Taken(v))
        /\ v.parse = u.parse /\ v.got = u.got /\ v.must_be_made = u.must_be_made
    BY <1>4, <1>6, <2>1, InFacts
  <2> HIDE DEF v
  <2>3. Sound(v) /\ ~ v.got /\ ~ v.must_be_made /\ v.parse # "finish"
    BY <1>4, <1>6, <2>2
  <2>4. CASE Good(u)
    BY <2>2, <2>3, <2>4, MessageFacts DEF Good
  <2>5. CASE u.parse = "start"
    <3>1. message(v, line, does, expects, leaves) = start_line(v, line)
      BY <2>2, <2>5 DEF message
    <3>2. QED
      BY <2>3, <3>1, StartLineFacts
  <2>6. QED
    BY <1>4, <1>6, <2>4, <2>5
<1>7. QED
  BY <1>1, <1>3, <1>5, <1>6

(* The pipe tells its reader of what is left in the buffer, once.             *)
LEMMA WakeFacts == ASSUME NEW t, Good(t) PROVE Good(Wake(t))
<1>1. CASE ~ (t.consumer /\ ~ t.waitsPipe /\ t.in # <<>>)
  BY <1>1 DEF Wake
<1>2. CASE t.consumer /\ ~ t.waitsPipe /\ t.in # <<>>
  <2> DEFINE n == t.events + 1
             w == [t EXCEPT !.events = n, !.waitsPipe = TRUE, !.waits = FALSE]
  <2>1. t \in State /\ t.events = 0 /\ ~ t.waits /\ t.end = "open"
    BY <1>2 DEF Good, Sound, Woken, State
  <2>2. t.waits = FALSE
    BY <2>1 DEF State
  <2>3. n = 1
    BY <2>1
  <2> HIDE DEF n
  <2>4. [t EXCEPT !.events = n, !.waitsPipe = TRUE] = w
    BY <2>1, <2>2 DEF State
  <2>5. Wake(t) = [t EXCEPT !.events = n, !.waitsPipe = TRUE]
    BY <1>2 DEF Wake, n
  <2>6. n \in Int /\ n \in 0..1 /\ TRUE \in BOOLEAN /\ FALSE \in BOOLEAN
    BY <2>3
  <2>7. Good(w)
    BY <2>1, <2>6, EventFacts
  <2>8. QED
    BY <2>4, <2>5, <2>7
<1>3. QED
  BY <1>1, <1>2

-----------------------------------------------------------------------------
(* The steps *)

(* What is chosen is one of the choices.                                      *)
LEMMA ChoiceFacts ==
  ASSUME NEW called, NEW set, NEW y \in set, NEW x \in Choice(called, set)
  PROVE  x \in set
<1>1. (CHOOSE z \in set : TRUE) \in set
  OBVIOUS
<1>2. QED
  BY <1>1 DEF Choice

(* A session begins good.                                                     *)
LEMMA Begins == Init => Good(s)
<1>1. BodySize \in Int
  BY HttpAssumption
<1>2. Opened \in State
  BY <1>1 DEF Opened, State, Parses, Statuses, Works, NoWork, Losses
<1>3. /\ Ordered(Opened) /\ Read(Opened) /\ Woken(Opened) /\ Runs(Opened)
      /\ Whole(Opened) /\ Taken(Opened)
  BY DEF Opened, Ordered, Read, Woken, Runs, Whole, Taken
<1>4. QED
  BY <1>2, <1>3 DEF Init, Good, Sound

(* An event that is heard is one no longer.                                   *)
LEMMA HeardFacts ==
  ASSUME NEW t, Good(t), t.events = 1
  PROVE  LET u == [t EXCEPT !.events = t.events - 1, !.waitsPipe = FALSE] IN
         Good(u) /\ u.end = "open" /\ u.events = 0
<1> DEFINE n == t.events - 1
           v == [t EXCEPT !.events = n]
           u == [v EXCEPT !.waitsPipe = FALSE]
<1>1. t \in State /\ t.end = "open" /\ ~ t.waits
  BY DEF Good, Sound, Woken
<1>2. n = 0 /\ n \in Int
  OBVIOUS
<1>3. u = [t EXCEPT !.events = t.events - 1, !.waitsPipe = FALSE]
  OBVIOUS
<1> HIDE DEF n
<1>4. /\ SameMessage(t, u) /\ SameAnswer(t, u) /\ u.events = n /\ u.waits = t.waits
      /\ u.consumer = t.consumer /\ u.must_be_made = t.must_be_made
      /\ u.timer = t.timer /\ u.running = t.running /\ u.end = t.end
  BY <1>1 DEF State, SameMessage, SameAnswer
<1>5. v \in State
  BY <1>1, <1>2, EventsField
<1> HIDE DEF v
<1>6. u \in State
  BY <1>5 DEF State
<1> HIDE DEF u
<1>7. Woken(u)
  BY <1>1, <1>2, <1>4 DEF Woken
<1>8. Ordered(u) /\ Taken(u) /\ Runs(u)
  BY <1>4 DEF Good, Sound, SameMessage, SameAnswer, Ordered, Taken, Runs
<1>9. Read(u) /\ Whole(u)
  BY <1>4 DEF Good, Sound, SameMessage, Read, Whole
<1>10. Good(u) /\ u.end = "open" /\ u.events = 0
  BY <1>1, <1>2, <1>4, <1>6, <1>7, <1>8, <1>9 DEF Good, Sound
<1>11. QED
  BY <1>3, <1>10

(* The reader's event.                                                        *)
LEMMA Consumes == ASSUME Good(s), ConsumerEvent PROVE Good(s')
<1> DEFINE t == [s EXCEPT !.events = s.events - 1, !.waitsPipe = FALSE]
<1>1. s.events = 1
  BY DEF ConsumerEvent, Good, Sound, Woken
<1>2. Good(t) /\ t.end = "open" /\ t.events = 0
  BY <1>1, HeardFacts
<1>3. \/ s' = t
      \/ /\ t.in # <<>>
         /\ \E does \in Choice(s.parse = "headers", Doings),
               expects \in Choice(s.parse = "headers", BOOLEAN),
               leaves \in Choice(s.parse \in {"body", "finish"}, Leaves) :
              s' = Wake(consume_buffer(t, does, expects, leaves))
  BY DEF ConsumerEvent
<1> HIDE DEF t
<1>4. ASSUME NEW does \in Choice(s.parse = "headers", Doings),
             NEW expects \in Choice(s.parse = "headers", BOOLEAN),
             NEW leaves \in Choice(s.parse \in {"body", "finish"}, Leaves),
             t.in # <<>>
      PROVE  Good(Wake(consume_buffer(t, does, expects, leaves)))
  <2>1. does \in Doings
    <3>1. "answer" \in Doings
      BY DEF Doings
    <3>2. QED
      BY <3>1, ChoiceFacts
  <2>2. expects \in BOOLEAN
    <3>1. TRUE \in BOOLEAN
      OBVIOUS
    <3>2. QED
      BY <3>1, ChoiceFacts
  <2>3. leaves \in Leaves
    <3>1. Failed \in Leaves
      BY DEF Leaves
    <3>2. QED
      BY <3>1, ChoiceFacts
  <2>4. Good(consume_buffer(t, does, expects, leaves))
    BY <1>2, <1>4, <2>1, <2>2, <2>3, ConsumeBufferFacts
  <2>5. QED
    BY <2>4, WakeFacts
<1>5. QED
  BY <1>2, <1>3, <1>4

(* The client sends a line.                                                   *)
LEMMA Sends == ASSUME Good(s), ClientSends PROVE Good(s')
<1>1. PICK line \in Lines : s' = Wake([s EXCEPT !.in = Append(s.in, line)])
  BY DEF ClientSends
<1> DEFINE q == Append(s.in, line)
<1>2. q \in Seq(Lines) /\ Sound(s) /\ Taken(s)
  BY DEF Good, Sound, State
<1>3. s' = Wake([s EXCEPT !.in = q])
  BY <1>1
<1> HIDE DEF q
<1>4. Good([s EXCEPT !.in = q])
  BY <1>2, InFacts DEF Good
<1>5. QED
  BY <1>3, <1>4, WakeFacts

(* What the session does on its way out keeps it there,                       *)
LEMMA LateAnswers ==
  ASSUME NEW t, NEW u, Late(t), Answers(t, u) PROVE Late(u)
<1>1. Woken(t) /\ t.end # "open"
  BY DEF Late, Woken
<1>2. u \in State /\ SameMessage(t, u) /\ Woken(u) /\ u.end # "open"
  BY <1>1 DEF Answers
<1>3. u.end \in {"open", "closing"}
  BY <1>2 DEF State
<1>4. QED
  BY <1>2, <1>3 DEF Late, Woken, SameMessage

(* and so does what leaves the turn and the message alone,                    *)
LEMMA LateSame ==
  ASSUME NEW t, NEW u \in State, Late(t), SameMessage(t, u), SameTurn(t, u) PROVE Late(u)
BY DEF Late, SameMessage, SameTurn

(* the end of a response                                                      *)
LEMMA LateEnds ==
  ASSUME NEW t, Late(t)
  PROVE  Late(end_response(t)) /\ SameMessage(t, end_response(t))
<1> DEFINE v == [t EXCEPT !.status = "ended"]
           w == Send(v, "end")
           u == end_response(t)
<1>1. t \in State
  BY DEF Late
<1>2. v \in State /\ SameMessage(t, v) /\ SameTurn(t, v)
  BY <1>1 DEF State, Statuses, SameMessage, SameTurn
<1>3. u = IF w.close THEN shutdown(w) ELSE maybe_accept_next_request(w)
  BY DEF end_response
<1> HIDE DEF v
<1>4. w \in State /\ SameMessage(v, w) /\ SameTurn(v, w)
  BY <1>2, SendFacts
<1> HIDE DEF w, u
<1>5. SameMessage(t, w) /\ SameTurn(t, w)
  BY <1>2, <1>4 DEF SameMessage, SameTurn
<1>6. Late(w)
  BY <1>4, <1>5, LateSame
<1>7. Woken(w)
  BY <1>6 DEF Late, Woken
<1>8. Answers(w, u)
  <2>1. Answers(w, shutdown(w))
    BY <1>4, ShutdownFacts
  <2>2. Answers(w, maybe_accept_next_request(w))
    BY <1>4, <1>7, AcceptFacts
  <2>3. QED
    BY <1>3, <2>1, <2>2
<1>9. Late(u)
  BY <1>6, <1>8, LateAnswers
<1>10. SameMessage(t, u)
  BY <1>5, <1>8 DEF Answers, SameMessage
<1>11. QED
  BY <1>9, <1>10 DEF u

(* and its head.                                                              *)
LEMMA LateHead ==
  ASSUME NEW t, Late(t), NEW close \in BOOLEAN
  PROVE  Late(flush_headers(t, close)) /\ SameMessage(t, flush_headers(t, close))
<1> DEFINE c == close \/ t.closes
           v == [t EXCEPT !.close = c]
           h == Send(v, "head")
<1>1. t \in State
  BY DEF Late
<1>2. c \in BOOLEAN
  <2>1. t.closes \in BOOLEAN
    BY <1>1 DEF State
  <2>2. QED
    BY <2>1, Zenon
<1>3. flush_headers(t, close) = h
  BY DEF flush_headers
<1> HIDE DEF c
<1>4. v \in State /\ SameMessage(t, v) /\ SameTurn(t, v)
  BY <1>1, <1>2 DEF State, SameMessage, SameTurn
<1> HIDE DEF v
<1>5. h \in State /\ SameMessage(v, h) /\ SameTurn(v, h)
  BY <1>4, SendFacts
<1> HIDE DEF h
<1>6. SameMessage(t, h) /\ SameTurn(t, h)
  BY <1>4, <1>5 DEF SameMessage, SameTurn
<1>7. QED
  BY <1>3, <1>5, <1>6, LateSame

(* The tokens of a login are an answer like another, or come behind one.      *)
LEMMA TokensFacts ==
  ASSUME NEW t, Good(t), t.work = NoWork
  PROVE  \/ \E close \in BOOLEAN : send_auth_tokens(t) = reply(t, close)
         \/ /\ Late(send_auth_tokens(t))
            /\ SameMessage([t EXCEPT !.belated = TRUE], send_auth_tokens(t))
<1>1. t \in State
  BY DEF Good, Sound
<1>2. CASE t.status = "waiting_for_code"
  <2>1. t.close \in BOOLEAN
    BY <1>1 DEF State
  <2>2. send_auth_tokens(t) = reply(t, t.close)
    BY <1>2 DEF send_auth_tokens, reply
  <2>3. QED
    BY <2>1, <2>2
<1>3. CASE t.status # "waiting_for_code"
  <2> DEFINE b == [t EXCEPT !.belated = TRUE]
             d == shutdown(t)
             u == [d EXCEPT !.belated = TRUE]
             h == flush_headers(u, u.close)
             e == end_response(h)
  <2>1. send_auth_tokens(t) = e
    BY <1>3 DEF send_auth_tokens
  <2>2. Answers(t, d) /\ d.end # "open"
    BY <1>1, ShutdownFacts
  <2> HIDE DEF d
  <2>3. d \in State /\ SameMessage(t, d) /\ d.end \in {"open", "closing"}
    BY <2>2 DEF Answers, State
  <2>4. Woken(d)
    BY <2>2 DEF Answers, Good, Sound
  <2>5. "chunked" \notin d.reported /\ d.work = NoWork
    BY <2>3 DEF SameMessage, Good, Sound, Whole
  <2>6. u \in State /\ u.belated
    BY <2>3 DEF State
  <2>7. /\ u.end = d.end /\ u.events = d.events /\ u.consumer = d.consumer
        /\ u.waits = d.waits /\ u.work = d.work /\ u.reported = d.reported
    BY <2>3 DEF State
  <2>8. SameMessage(b, u)
    BY <1>1, <2>3 DEF State, SameMessage
  <2> HIDE DEF u, b
  <2>9. Late(u) /\ u.close \in BOOLEAN
    BY <2>2, <2>3, <2>4, <2>5, <2>6, <2>7 DEF Late, Woken, State
  <2>10. Late(h) /\ SameMessage(u, h)
    BY <2>9, LateHead
  <2> HIDE DEF h
  <2>11. Late(e) /\ SameMessage(h, e)
    BY <2>10, LateEnds
  <2> HIDE DEF e
  <2>12. SameMessage(b, e)
    BY <2>8, <2>10, <2>11 DEF SameMessage
  <2>13. QED
    BY <2>1, <2>11, <2>12 DEF b
<1>4. QED
  BY <1>2, <1>3

(* Work that was begun for a request answers it, or is too late.              *)
LEMMA WorkEnds == ASSUME Good(s), WorkIsDone PROVE Good(s') \/ Late(s')
<1> DEFINE t == [s EXCEPT !.work = NoWork]
<1>1. NoWork \in Works
  BY DEF NoWork, Works
<1>2. Good(t) /\ t.work = NoWork
  <2>1. s \in State
    BY DEF Good, Sound
  <2>2. t.work = NoWork
    BY <2>1 DEF State
  <2>3. QED
    BY <1>1, <2>2, WorkFacts
<1>3. \/ s' = t
      \/ \E close \in BOOLEAN : s' = reply(t, close)
      \/ s' = send_auth_tokens(t)
      \/ \E does \in Doings, expects \in BOOLEAN : s' = handle_transaction(t, does, expects)
  BY Zenon DEF WorkIsDone, Doings
<1> HIDE DEF t
<1>4. ASSUME NEW close \in BOOLEAN PROVE Good(reply(t, close))
  <2>1. t \in State /\ Ordered(t) /\ Woken(t)
    BY <1>2 DEF Good, Sound
  <2>2. Answers(t, reply(t, close))
    BY <2>1, ReplyFacts
  <2>3. QED
    BY <1>2, <2>2, GoodAnswer
<1>5. CASE s' = send_auth_tokens(t)
  <2>1. \/ \E close \in BOOLEAN : s' = reply(t, close)
        \/ Late(s')
    BY <1>2, <1>5, TokensFacts
  <2>2. QED
    BY <1>4, <2>1
<1>6. QED
  BY <1>2, <1>3, <1>4, <1>5, HandleTransactionFacts

(* The nested adder sends a piece of the body, or ends it.                    *)
LEMMA Adds == ASSUME Good(s), AddBody PROVE Good(s')
<1> DEFINE n == s.nested - 1
           t == [s EXCEPT !.nested = n]
<1>1. s \in State /\ s.nested \in 1..2
  BY DEF AddBody, Good, Sound, State
<1>2. n \in 0..2 /\ n = s.nested - 1
  BY <1>1
<1>3. s' = IF s.nested > 1 THEN Send(t, "body") ELSE end_response(t)
  BY DEF AddBody
<1> HIDE DEF n
<1>4. t \in State
  BY <1>1, <1>2 DEF State
<1>5. /\ SameMessage(s, t) /\ SameTurn(s, t) /\ t.nested = n /\ t.status = s.status
      /\ t.answered = s.answered /\ t.talking = s.talking /\ t.garbled = s.garbled
  BY <1>1 DEF State, SameMessage, SameTurn
<1> HIDE DEF t
<1>6. /\ ~ s.garbled /\ s.status = "sending_body" /\ s.talking
      /\ s.id = s.answered + 1
  BY <1>1 DEF Good, Sound, Ordered, State, Statuses
<1>7. ~ t.garbled /\ t.talking /\ t.id = t.answered + 1 /\ t.status = "sending_body"
  BY <1>5, <1>6 DEF SameMessage
<1>8. Woken(t) /\ Taken(t) /\ Runs(t) /\ Read(t) /\ Whole(t)
  BY <1>5 DEF Good, Sound, SameTurn, SameMessage, Woken, Taken, Runs, Read, Whole
<1>9. CASE s.nested > 1
  <2> DEFINE u == Send(t, "body")
  <2>1. /\ u \in State /\ SameMessage(t, u) /\ SameTurn(t, u)
        /\ u.status = t.status /\ u.nested = t.nested
        /\ ~ t.garbled /\ t.id = t.answered + 1 /\ t.talking => ~ u.garbled
        /\ u.talking = t.talking /\ u.answered = t.answered
    BY <1>4, SendFacts
  <2>2. s' = u
    BY <1>3, <1>9
  <2> HIDE DEF u
  <2>3. n # 0
    BY <1>1, <1>2, <1>9
  <2>4. Ordered(u)
    BY <1>5, <1>7, <2>1, <2>3 DEF Ordered, SameMessage
  <2>5. Woken(u) /\ Taken(u) /\ Runs(u) /\ Read(u) /\ Whole(u)
    BY <1>8, <2>1 DEF SameTurn, SameMessage, Woken, Taken, Runs, Read, Whole
  <2>6. QED
    BY <2>1, <2>2, <2>4, <2>5 DEF Good, Sound
<1>10. CASE ~ (s.nested > 1)
  <2> DEFINE u == end_response(t)
  <2>1. t.nested = 0
    BY <1>1, <1>2, <1>5, <1>10
  <2>2. /\ u \in State /\ SameMessage(t, u) /\ Ordered(u) /\ Woken(u)
        /\ Taken(t) => Taken(u)
        /\ Runs(t) => Runs(u)
    BY <1>4, <1>7, <1>8, <2>1, EndFacts
  <2>3. s' = u
    BY <1>3, <1>10
  <2> HIDE DEF u
  <2>4. Read(u) /\ Whole(u)
    BY <1>8, <2>2 DEF SameMessage, Read, Whole
  <2>5. QED
    BY <1>8, <2>2, <2>3, <2>4 DEF Good, Sound
<1>11. QED
  BY <1>9, <1>10

(* A timer expires: the session is closed, or goes on being timed.            *)
LEMMA Expires ==
  ASSUME Good(s), NEW idle \in BOOLEAN, on_timer_event(idle) PROVE Good(s')
<1> DEFINE t == [s EXCEPT !.running = FALSE]
<1>1. s \in State
  BY DEF Good, Sound
<1>2. t \in State
  BY <1>1 DEF State
<1>3. /\ SameMessage(s, t) /\ SameAnswer(s, t) /\ t.timer = s.timer /\ t.end = s.end
      /\ t.events = s.events /\ t.waitsPipe = s.waitsPipe /\ t.waits = s.waits
      /\ t.consumer = s.consumer /\ t.must_be_made = s.must_be_made
  BY <1>1 DEF State, SameMessage, SameAnswer
<1>4. /\ s.timer \in {"activity", "keepalive"} /\ s.status = t.status
  BY <1>1, <1>3 DEF State, SameAnswer
<1>5. \/ s' = shutdown(t)
      \/ s.timer = "activity" /\ s' = Arm(t, "activity")
      \/ s' = reply(t, TRUE)
  BY <1>4 DEF on_timer_event
<1> HIDE DEF t
<1>6. Ordered(t) /\ Woken(t) /\ Taken(t) /\ Read(t) /\ Whole(t)
  BY <1>3 DEF Good, Sound, SameMessage, SameAnswer, Ordered, Woken, Taken, Read, Whole
<1>7. ASSUME NEW u, Answers(t, u), u.end # "open" PROVE Good(u)
  <2>1. Read(u) /\ Whole(u)
    BY <1>6, <1>7 DEF Answers, SameMessage, Read, Whole
  <2>2. Runs(u)
    BY <1>7 DEF Runs
  <2>3. QED
    BY <1>6, <1>7, <2>1, <2>2 DEF Answers, Good, Sound
<1>8. CASE s' = shutdown(t)
  <2>1. Answers(t, shutdown(t)) /\ shutdown(t).end # "open"
    BY <1>2, ShutdownFacts
  <2>2. QED
    BY <1>7, <1>8, <2>1
<1>9. CASE s' = reply(t, TRUE)
  <2>1. Answers(t, reply(t, TRUE)) /\ reply(t, TRUE).end # "open"
    BY <1>2, <1>6, ReplyFacts
  <2>2. QED
    BY <1>7, <1>9, <2>1
<1>10. CASE s.timer = "activity" /\ s' = Arm(t, "activity")
  <2> DEFINE u == Arm(t, "activity")
  <2>1. /\ u \in State /\ SameMessage(t, u) /\ SameAnswer(t, u)
        /\ u.timer = "activity" /\ u.running /\ u.end = t.end
        /\ u.events = t.events /\ u.waitsPipe = t.waitsPipe /\ u.waits = t.waits
        /\ u.consumer = t.consumer /\ u.must_be_made = t.must_be_made
    BY <1>2, ArmFacts
  <2>2. s' = u
    BY <1>10
  <2> HIDE DEF u
  <2>3. Ordered(u) /\ Read(u) /\ Whole(u)
    BY <1>6, <2>1 DEF SameMessage, SameAnswer, Ordered, Read, Whole
  <2>4. Woken(u) /\ Runs(u)
    BY <1>6, <2>1 DEF Woken, Runs
  <2>5. Taken(u)
    BY <1>3, <1>6, <1>10, <2>1 DEF Taken, SameMessage, SameAnswer
  <2>6. QED
    BY <2>1, <2>2, <2>3, <2>4, <2>5 DEF Good, Sound
<1>11. QED
  BY <1>5, <1>8, <1>9, <1>10

(* A timer that runs is replaced by another of the same kind.                 *)
LEMMA SetsTimeouts == ASSUME Good(s), set_timeouts PROVE Good(s')
<1> DEFINE u == Arm(s, s.timer)
<1>1. s \in State /\ s.timer \in {"activity", "keepalive"}
  BY DEF Good, Sound, State
<1>2. /\ u \in State /\ SameMessage(s, u) /\ SameAnswer(s, u)
      /\ u.timer = s.timer /\ u.running /\ u.end = s.end
      /\ u.events = s.events /\ u.waitsPipe = s.waitsPipe /\ u.waits = s.waits
      /\ u.consumer = s.consumer /\ u.must_be_made = s.must_be_made
  BY <1>1, ArmFacts
<1>3. s' = u
  BY DEF set_timeouts
<1> HIDE DEF u
<1>4. Ordered(u) /\ Read(u) /\ Whole(u)
  BY <1>2 DEF Good, Sound, SameMessage, SameAnswer, Ordered, Read, Whole
<1>5. Woken(u) /\ Runs(u)
  BY <1>2 DEF Good, Sound, Woken, Runs
<1>6. Taken(u)
  BY <1>2 DEF Good, Taken, SameMessage, SameAnswer
<1>7. QED
  BY <1>2, <1>3, <1>4, <1>5, <1>6 DEF Good, Sound

(* A session that is on its way out stays so until it is gone, and what is    *)
(* being read is left alone.                                                  *)
LEMMA LateStays ==
  ASSUME Late(s), Next PROVE s' = Gone \/ (Late(s') /\ SameMessage(s, s'))
<1>0. s \in State
  BY DEF Late
<1>1. s \in State /\ s.end = "closing" /\ s.events = 0 /\ s.work = NoWork
  BY DEF Late
<1>2. ~ ConsumerEvent /\ ~ ClientSends /\ ~ WorkIsDone
  BY <1>1 DEF ConsumerEvent, ClientSends, WorkIsDone
<1>3. CASE AddBody
  <2> DEFINE n == s.nested - 1
             t == [s EXCEPT !.nested = n]
             u == Send(t, "body")
  <2>1. s.nested \in 1..2
    BY <1>1, <1>3 DEF AddBody, State
  <2>2. n \in 0..2
    BY <2>1
  <2>3. s' = IF s.nested > 1 THEN u ELSE end_response(t)
    BY <1>3 DEF AddBody
  <2> HIDE DEF n
  <2>4. t \in State /\ SameMessage(s, t) /\ SameTurn(s, t)
    BY <1>1, <2>2 DEF State, SameMessage, SameTurn
  <2> HIDE DEF t
  <2>5. Late(t)
    BY <2>4, LateSame
  <2>6. u \in State /\ SameMessage(t, u) /\ SameTurn(t, u)
    BY <2>4, SendFacts
  <2> HIDE DEF u
  <2>7. Late(u) /\ Late(end_response(t)) /\ SameMessage(t, end_response(t))
    BY <2>5, <2>6, LateSame, LateEnds
  <2>8. QED
    BY <2>3, <2>4, <2>6, <2>7 DEF SameMessage
<1>4. ASSUME NEW idle \in BOOLEAN, on_timer_event(idle)
      PROVE  Late(s') /\ SameMessage(s, s')
  <2> DEFINE t == [s EXCEPT !.running = FALSE]
  <2>1. t \in State /\ SameMessage(s, t)
    <3>1. t \in State
      BY <1>0 DEF State
    <3>2. SameMessage(s, t)
      BY <1>0 DEF State, SameMessage
    <3>3. QED
      BY <3>1, <3>2
  <2>2. /\ t.end = s.end /\ t.events = s.events /\ t.consumer = s.consumer
        /\ t.waits = s.waits /\ t.status = s.status
    BY <1>1 DEF State
  <2>3. s.timer \in {"activity", "keepalive"}
    BY <1>1 DEF State
  <2>4. \/ s' = shutdown(t)
        \/ s' = Arm(t, "activity")
        \/ s' = reply(t, TRUE)
    BY <1>4, <2>3 DEF on_timer_event
  <2> HIDE DEF t
  <2>5. Late(t)
    BY <2>1, <2>2 DEF Late, SameMessage
  <2>6. CASE s' = shutdown(t)
    <3>1. Answers(t, shutdown(t))
      BY <2>1, ShutdownFacts
    <3>2. QED
      BY <2>1, <2>5, <2>6, <3>1, LateAnswers DEF Answers, SameMessage
  <2>7. CASE s' = Arm(t, "activity")
    <3> DEFINE u == Arm(t, "activity")
    <3>1. /\ u \in State /\ SameMessage(t, u) /\ u.end = t.end /\ u.events = t.events
          /\ u.waits = t.waits /\ u.consumer = t.consumer
      BY <2>1, ArmFacts
    <3>2. s' = u
      BY <2>7
    <3> HIDE DEF u
    <3>3. QED
      BY <2>1, <2>5, <3>1, <3>2 DEF Late, SameMessage
  <2>8. CASE s' = reply(t, TRUE)
    <3> DEFINE h == flush_headers(t, TRUE)
    <3>1. reply(t, TRUE) \in {shutdown(t), end_response(h)}
      BY DEF reply
    <3>2. Late(h) /\ SameMessage(t, h)
      BY <2>5, LateHead
    <3> HIDE DEF h
    <3>3. Late(end_response(h)) /\ SameMessage(h, end_response(h))
      BY <3>2, LateEnds
    <3>4. Answers(t, shutdown(t))
      BY <2>1, ShutdownFacts
    <3>5. Late(shutdown(t)) /\ SameMessage(t, shutdown(t))
      BY <2>5, <3>4, LateAnswers DEF Answers
    <3>6. QED
      BY <2>1, <2>8, <3>1, <3>2, <3>3, <3>5 DEF SameMessage
  <2>9. QED
    BY <2>4, <2>6, <2>7, <2>8
<1>5. CASE set_timeouts
  <2> DEFINE u == Arm(s, s.timer)
  <2>1. s.timer \in {"activity", "keepalive"}
    BY <1>1 DEF State
  <2>2. /\ u \in State /\ SameMessage(s, u) /\ u.end = s.end /\ u.events = s.events
        /\ u.waits = s.waits /\ u.consumer = s.consumer
    BY <1>1, <2>1, ArmFacts
  <2>3. s' = u
    BY <1>5 DEF set_timeouts
  <2> HIDE DEF u
  <2>4. QED
    BY <2>2, <2>3 DEF Late, SameMessage
<1>6. CASE ChannelDone
  BY <1>6 DEF ChannelDone, Gone
<1>7. QED
  BY <1>2, <1>3, <1>4, <1>5, <1>6 DEF Next

(* Nothing happens to a session that is gone.                                 *)
LEMMA GoneStays == ASSUME s = Gone, Next PROVE FALSE
<1>1. s.end = "ended" /\ s.events = 0
  BY DEF Gone, Opened
<1>2. QED
  BY <1>1 DEF Next, ConsumerEvent, ClientSends, WorkIsDone, AddBody, on_timer_event,
              set_timeouts, ChannelDone

(* The invariant holds at the start, and every step keeps it.                 *)
LEMMA Invariance == Spec => []IInv
<1>1. Init => IInv
  BY Begins DEF IInv
<1>2. IInv /\ [Next]_s => IInv'
  <2> SUFFICES ASSUME IInv, [Next]_s PROVE IInv'
    OBVIOUS
  <2>1. CASE UNCHANGED s
    BY <2>1 DEF IInv
  <2>2. CASE Next /\ Good(s)
    <3>1. CASE ConsumerEvent
      BY <2>2, <3>1, Consumes DEF IInv
    <3>2. CASE ClientSends
      BY <2>2, <3>2, Sends DEF IInv
    <3>3. CASE WorkIsDone
      BY <2>2, <3>3, WorkEnds DEF IInv
    <3>4. CASE AddBody
      BY <2>2, <3>4, Adds DEF IInv
    <3>5. CASE \E idle \in BOOLEAN : on_timer_event(idle)
      BY <2>2, <3>5, Expires DEF IInv
    <3>6. CASE set_timeouts
      BY <2>2, <3>6, SetsTimeouts DEF IInv
    <3>7. CASE ChannelDone
      BY <3>7 DEF ChannelDone, Gone, IInv
    <3>8. QED
      BY <2>2, <3>1, <3>2, <3>3, <3>4, <3>5, <3>6, <3>7 DEF Next
  <2>3. CASE Next /\ Late(s)
    BY <2>3, LateStays DEF IInv
  <2>4. QED
    BY <2>1, <2>2, <2>3, GoneStays DEF IInv
<1>3. QED
  BY <1>1, <1>2, PTL DEF Spec

(* Responses leave one at a time, in the order of the requests, whatever is   *)
(* pipelined, late or timed out; if anything leaves out of its turn, it does  *)
(* so behind the tokens of a login that its request did not wait for, while   *)
(* the session is closing.                                                    *)
THEOREM InTheirOrder == Spec => []ResponsesInOrder
<1>1. IInv => ResponsesInOrder
  BY DEF IInv, Good, Sound, Ordered, Late, Gone, Opened, ResponsesInOrder
<1>2. QED
  BY <1>1, Invariance, PTL

(* A handler that is told that it has a chunked body lacks none of it.        *)
THEOREM NothingOfItIsLost == Spec => []ChunkedBodyIsWhole
<1>1. IInv => ChunkedBodyIsWhole
  BY DEF IInv, Good, Sound, Whole, Late, Gone, Opened, ChunkedBodyIsWhole
<1>2. QED
  BY <1>1, Invariance, PTL

(* An open session is timed, by the timer of what it is doing.                *)
THEOREM Timed == Spec => []TimedByTheRightTimer
<1>1. Good(s) => TimedByTheRightTimer
  <2>1. Good(s) => s.timer \in {"activity", "keepalive"}
    BY DEF Good, Sound, State
  <2>2. QED
    BY <2>1 DEF Good, Sound, Runs, Taken, Read, TimedByTheRightTimer
<1>2. s = Gone => TimedByTheRightTimer
  BY DEF Gone, Opened, TimedByTheRightTimer
<1>3. Late(s) => TimedByTheRightTimer
  BY DEF Late, TimedByTheRightTimer
<1>4. QED
  BY <1>1, <1>2, <1>3, Invariance, PTL DEF IInv

-----------------------------------------------------------------------------
(* The bounds.  What is left of a body and what body_buffer_ holds stay       *)
(* within theirs because a handler asks for a body once: a body that has been *)
(* asked for has somebody who takes it, or whose failure closes the session.  *)

(* Neither the handler has been called, nor the request been refused.         *)
Early(t) == ~ t.got /\ t.parse \in {"start", "headers"}

(* A request with two lengths, which is an error, had been answered: nothing  *)
(* is said of the error, and the request goes no further than its headers.    *)
Refused(t) ==
  /\ t.parse = "headers" /\ t.coding = "chunked" /\ t.length /\ ~ t.got
  /\ t.status # "waiting_for_code" /\ t.rest = 0

(* Whoever has asked for the body takes it.  Nobody has while somebody works  *)
(* for the headers, nor once somebody works for the body; and if somebody has *)
(* when the request is over, its response is still due.                       *)
Once(t) ==
  /\ t.body => t.writer # "none"
  /\ t.work.for = t.id /\ t.work.from = "headers" =>
       t.status = "waiting_for_code" /\ t.writer = "none"
  /\ t.work.for = t.id /\ t.work.from = "body" => ~ t.body
  /\ t.got /\ t.body => t.status = "waiting_for_code"

(* Nobody has before the handler has been called.                             *)
Asked(t) ==
  /\ Once(t)
  /\ t.parse = "finish" => t.rest # 0
  /\ Early(t) => t.status = "waiting_for_code" /\ t.writer = "none" /\ t.work.for # t.id

Bounds(t) ==
  /\ Len(t.in) <= MaxIn /\ t.id # 0
  /\ t.work = NoWork \/ t.work \in [for : 1..t.id, from : {"headers", "body"}]
  /\ t.left \in 0..BodySize /\ t.rest \in 0..MaxRest + Piece

(* What holds as long as the session reads.                                   *)
Reading(t) ==
  t.rest <= MaxRest /\ (t.parse = "body" => t.left # 0) /\ (Refused(t) \/ Asked(t))

Tight(t) == Bounds(t) /\ (t.end = "open" => Reading(t))

(* The bounds are numbers.                                                    *)
LEMMA BoundFacts ==
  /\ BodySize \in Nat /\ BodySize # 0 /\ MaxIn \in Nat /\ MaxRest \in Nat /\ MaxRest # 0
  /\ Piece = 2
BY HttpAssumption DEF Piece

(* Who answers leaves the bounds alone.                                       *)
LEMMA BoundsAnswer ==
  ASSUME NEW t, NEW u, SameMessage(t, u), Bounds(t) PROVE Bounds(u)
BY DEF SameMessage, Bounds

(* A session that has closed only has bounds to keep.                         *)
LEMMA TightClosed == ASSUME NEW t, Bounds(t), t.end # "open" PROVE Tight(t)
BY DEF Tight

(* What is read depends on the message and on whether there is a response.    *)
LEMMA ReadingSame ==
  ASSUME NEW t, NEW u, SameMessage(t, u), u.status = t.status, Reading(t)
  PROVE  Reading(u)
BY DEF SameMessage, Reading, Refused, Asked, Once, Early

(* The same, of a session that stays open or not.                             *)
LEMMA TightSame ==
  ASSUME NEW t, NEW u, SameMessage(t, u), u.status = t.status, Tight(t),
         u.end = "open" => t.end = "open"
  PROVE  Tight(u)
BY BoundsAnswer, ReadingSame DEF Tight

(* An error closes the session, or has been answered before by a handler that *)
(* did not ask for a body.                                                    *)
LEMMA ErrorCloses ==
  ASSUME NEW t, Good(t)
  PROVE  /\ SameMessage(t, process_error(t))
         /\ \/ process_error(t).end # "open"
            \/ process_error(t) = t /\ t.writer = "none" /\ t.status # "waiting_for_code"
<1> DEFINE u == on_end(t, FALSE)
<1>1. process_error(t) = IF u.status = "waiting_for_code" THEN reply(u, TRUE) ELSE u
  BY DEF process_error
<1>2. Answers(t, process_error(t))
  BY ErrorFacts
<1>3. t \in State /\ Ordered(t) /\ Woken(t)
  BY DEF Good, Sound
<1>4. reply(t, TRUE).end # "open"
  BY <1>3, ReplyFacts
<1>5. CASE t.writer = "none"
  <2>1. u = t
    BY <1>5 DEF on_end
  <2>2. QED
    BY <1>1, <1>2, <1>4, <1>5, <2>1 DEF Answers
<1>6. CASE t.writer # "none"
  <2>1. u = reply(t, TRUE)
    BY <1>6 DEF on_end
  <2>2. Good(u) /\ Answers(t, u)
    BY FailureFacts, GoodAnswer
  <2> HIDE DEF u
  <2>3. u \in State /\ Ordered(u) /\ Woken(u)
    BY <2>2 DEF Good, Sound
  <2>4. reply(u, TRUE).end # "open"
    BY <2>3, ReplyFacts
  <2>5. process_error(t).end # "open"
    BY <1>1, <1>4, <2>1, <2>4
  <2>6. QED
    BY <1>2, <2>5 DEF Answers
<1>7. QED
  BY <1>5, <1>6

(* An error keeps the bounds, and closes the session of a handler that has    *)
(* asked for a body.                                                          *)
LEMMA TightError ==
  ASSUME NEW t, Good(t), Tight(t)
  PROVE  Tight(process_error(t))
<1>1. CASE process_error(t).end # "open"
  BY <1>1, ErrorCloses, BoundsAnswer, TightClosed DEF Tight
<1>2. CASE process_error(t) = t
  BY <1>2
<1>3. QED
  BY <1>1, <1>2, ErrorCloses

(* A handler that answers what has been answered closes the session.          *)
LEMMA SecondAnswerCloses ==
  ASSUME NEW t, Good(t), t.status # "waiting_for_code", NEW close
  PROVE  /\ reply(t, close).end # "open" /\ send_body(t).end # "open"
         /\ send_continue(t).end # "open"
<1>1. shutdown(t).end # "open"
  BY ShutdownFacts DEF Good, Sound
<1>2. QED
  BY <1>1 DEF reply, send_body, send_continue

(* 100 Continue is no answer.                                                 *)
LEMMA ContinueKeeps ==
  ASSUME NEW t, Good(t)
  PROVE  LET u == send_continue(t) IN
         /\ Good(u) /\ SameMessage(t, u)
         /\ u.end = "open" => u.status = t.status /\ t.end = "open"
<1> DEFINE u == send_continue(t)
<1>1. t \in State /\ Ordered(t) /\ Woken(t)
  BY DEF Good, Sound
<1>2. Answers(t, u) /\ Good(u)
  BY <1>1, ContinueFacts, GoodAnswer
<1>3. CASE t.status # "waiting_for_code"
  BY <1>2, <1>3, SecondAnswerCloses DEF Answers
<1>4. CASE t.status = "waiting_for_code"
  <2>1. u = Send(t, "continue")
    BY <1>4 DEF send_continue
  <2>2. Send(t, "continue").status = t.status
    BY <1>1, SendFacts
  <2>3. QED
    BY <1>2, <2>1, <2>2 DEF Answers
<1>5. QED
  BY <1>3, <1>4

-----------------------------------------------------------------------------
(* What a handler does *)

(* The request that it is given stays what it is.                             *)
SameRequest(t, u) ==
  /\ u.in = t.in /\ u.parse = t.parse /\ u.coding = t.coding /\ u.length = t.length
  /\ u.left = t.left /\ u.id = t.id /\ u.got = t.got

(* It answers, or has work begun that will, or asks for the body.             *)
Answered(t, u) == SameMessage(t, u) /\ t.status = "waiting_for_code"

Began(t, u) ==
  /\ SameRequest(t, u) /\ u.status = t.status /\ u.writer = t.writer
  /\ u.body = t.body /\ u.rest = t.rest
  /\ u.work = [for |-> t.id, from |-> "headers"]

Took(t, u) ==
  /\ SameRequest(t, u) /\ u.status = t.status /\ u.work = t.work
  /\ u.body /\ u.rest = 0 /\ u.writer # "none"

(* A session that is still open has done one of the three.                    *)
LEMMA HandleDoes ==
  ASSUME NEW t, Good(t), NEW does \in Doings
  PROVE  LET u == handle(t, does) IN
         /\ Bounds(t) => Bounds(u)
         /\ u.end = "open" =>
              /\ t.end = "open"
              /\ \/ Answered(t, u)
                 \/ does = "later" /\ Began(t, u)
                 \/ does \in {"receive", "receive_later"} /\ Took(t, u)
<1> DEFINE u == handle(t, does)
<1>1. t \in State /\ Ordered(t) /\ Woken(t) /\ t.id \in Nat
  BY DEF Good, Sound, State
<1>2. CASE does \in {"answer", "close", "stream"}
  <2>1. Answers(t, u)
    BY <1>1, <1>2, ReplyFacts, BodyFacts DEF handle
  <2>2. SameMessage(t, u) /\ (u.end = "open" => t.end = "open")
    BY <2>1 DEF Answers
  <2>3. t.status # "waiting_for_code" => u.end # "open"
    BY <1>2, SecondAnswerCloses DEF handle
  <2> HIDE DEF u
  <2>4. (Bounds(t) => Bounds(u)) /\ (u.end = "open" => t.end = "open" /\ Answered(t, u))
    BY <2>2, <2>3, BoundsAnswer DEF Answered
  <2>5. QED
    BY <2>4 DEF u
<1>3. CASE does = "later"
  <2> DEFINE w == [for |-> t.id, from |-> "headers"]
             v == [t EXCEPT !.work = w]
  <2>1. u = v
    BY <1>3 DEF handle
  <2>2. /\ w.for = t.id /\ w.from = "headers"
         /\ (t.id # 0 => w \in [for : 1..t.id, from : {"headers", "body"}])
    BY <1>1
  <2> HIDE DEF w
  <2>3. /\ SameRequest(t, v) /\ v.status = t.status /\ v.writer = t.writer
        /\ v.body = t.body /\ v.rest = t.rest /\ v.work = w /\ v.end = t.end
    BY <1>1 DEF State, SameRequest
  <2> HIDE DEF v, u
  <2>4. Bounds(t) => Bounds(v)
    BY <2>2, <2>3 DEF Bounds, SameRequest
  <2>5. Began(t, v)
    BY <2>3 DEF Began, w
  <2>6. (Bounds(t) => Bounds(u)) /\ (u.end = "open" => t.end = "open" /\ Began(t, u))
    BY <2>1, <2>3, <2>4, <2>5
  <2>7. QED
    BY <1>3, <2>6 DEF u
<1>4. CASE does \in {"receive", "receive_later"}
  <2> DEFINE then == IF does = "receive" THEN "answer" ELSE "later"
             v == [t EXCEPT !.writer = then, !.body = TRUE, !.rest = 0]
  <2>1. u = v
    BY <1>4 DEF handle, receive_body
  <2>2. then # "none"
    OBVIOUS
  <2> HIDE DEF then
  <2>3. /\ SameRequest(t, v) /\ v.status = t.status /\ v.writer = then
        /\ v.body = TRUE /\ v.rest = 0 /\ v.work = t.work /\ v.end = t.end
    BY <1>1 DEF State, SameRequest
  <2> HIDE DEF v, u
  <2>4. Bounds(t) => Bounds(v)
    BY <2>3, BoundFacts DEF Bounds, SameRequest
  <2>5. Took(t, v)
    BY <2>2, <2>3 DEF Took
  <2>6. (Bounds(t) => Bounds(u)) /\ (u.end = "open" => t.end = "open" /\ Took(t, u))
    BY <2>1, <2>3, <2>4, <2>5
  <2>7. QED
    BY <1>4, <2>6 DEF u
<1>5. QED
  BY <1>2, <1>3, <1>4 DEF Doings

(* The same, when 100 Continue goes out before.                               *)
LEMMA HandlerDoes ==
  ASSUME NEW t, Good(t), NEW does \in Doings, NEW expects \in BOOLEAN
  PROVE  LET u == handle_transaction(t, does, expects) IN
         /\ Bounds(t) => Bounds(u)
         /\ u.end = "open" =>
              /\ t.end = "open"
              /\ \/ Answered(t, u)
                 \/ does = "later" /\ Began(t, u)
                 \/ does \in {"receive", "receive_later"} /\ Took(t, u)
<1> DEFINE v == IF expects /\ does \notin {"later", "receive_later"}
                THEN send_continue(t) ELSE t
           u == handle(v, does)
<1>1. handle_transaction(t, does, expects) = u
  BY DEF handle_transaction
<1>2. /\ Good(v) /\ SameMessage(t, v)
      /\ v.end = "open" => v.status = t.status /\ t.end = "open"
  BY ContinueKeeps DEF SameMessage
<1> HIDE DEF v
<1>3. /\ Bounds(v) => Bounds(u)
      /\ u.end = "open" =>
           /\ v.end = "open"
           /\ \/ Answered(v, u)
              \/ does = "later" /\ Began(v, u)
              \/ does \in {"receive", "receive_later"} /\ Took(v, u)
  BY <1>2, HandleDoes
<1> HIDE DEF u
<1>4. Bounds(t) => Bounds(u)
  BY <1>2, <1>3, BoundsAnswer
<1>5. ASSUME u.end = "open"
      PROVE  /\ t.end = "open"
             /\ \/ Answered(t, u)
                \/ does = "later" /\ Began(t, u)
                \/ does \in {"receive", "receive_later"} /\ Took(t, u)
  <2>1. v.status = t.status /\ t.end = "open"
    BY <1>2, <1>3, <1>5
  <2>2. CASE Answered(v, u)
    BY <1>2, <2>1, <2>2 DEF Answered, SameMessage
  <2>3. CASE does = "later" /\ Began(v, u)
    BY <1>2, <2>1, <2>3 DEF Began, SameMessage, SameRequest
  <2>4. CASE does \in {"receive", "receive_later"} /\ Took(v, u)
    BY <1>2, <2>1, <2>4 DEF Took, SameMessage, SameRequest
  <2>5. QED
    BY <1>3, <1>5, <2>1, <2>2, <2>3, <2>4
<1>6. QED
  BY <1>1, <1>4, <1>5

-----------------------------------------------------------------------------
(* The end of a message keeps the bounds *)

(* reset() leaves no body.                                                    *)
LEMMA ResetKeeps ==
  ASSUME NEW t, Good(t), Bounds(t)
  PROVE  LET u == reset(t) IN
         /\ Bounds(u) /\ u.rest = 0 /\ ~ u.body /\ u.parse = "start"
         /\ u.work = t.work /\ u.id = t.id /\ u.writer = t.writer
         /\ u.status = t.status /\ u.end = t.end
<1> DEFINE l == IF t.rest = 0 THEN t.lost
                ELSE t.lost \cup {IF t.coding = "chunked" THEN "chunked" ELSE "length"}
           u == [t EXCEPT !.parse = "start", !.coding = "none", !.length = FALSE,
                          !.left = BodySize, !.body = FALSE, !.rest = 0, !.lost = l]
<1>1. t \in State
  BY DEF Good, Sound
<1>2. reset(t) = u
  BY DEF reset
<1> HIDE DEF l
<1>3. /\ u.rest = 0 /\ ~ u.body /\ u.parse = "start" /\ u.in = t.in /\ u.left = BodySize
      /\ u.work = t.work /\ u.id = t.id /\ u.writer = t.writer
      /\ u.status = t.status /\ u.end = t.end
  BY <1>1 DEF State
<1> HIDE DEF u
<1>4. Bounds(u)
  BY <1>3, BoundFacts DEF Bounds
<1>5. QED
  BY <1>2, <1>3, <1>4

(* on_end(true) answers, or has work begun that will.                         *)
LEMMA SuccessKeeps ==
  ASSUME NEW t, Good(t), Bounds(t)
  PROVE  LET u == on_end(t, TRUE) IN
         /\ Bounds(u) /\ u.parse = t.parse /\ u.rest = t.rest /\ u.body = t.body
         /\ u.id = t.id /\ u.got = t.got
         /\ u.end = "open" => t.end = "open"
         /\ \/ u.work = t.work /\ (t.writer = "none" => u = t)
            \/ u.work = [for |-> t.id, from |-> "body"]
<1> DEFINE v == IF t.status = "waiting_for_code"
                THEN [t EXCEPT !.reported = t.reported \cup t.lost] ELSE t
           work == [for |-> t.id, from |-> "body"]
           u == on_end(t, TRUE)
<1>1. t \in State /\ t.id \in Nat /\ t.id # 0
  BY DEF Good, Sound, State, Bounds
<1>2. u = CASE t.writer = "none" -> t
            [] t.writer = "later" -> [v EXCEPT !.work = work]
            [] OTHER -> reply(v, FALSE)
  BY DEF on_end
<1>3. /\ v.in = t.in /\ v.parse = t.parse /\ v.rest = t.rest /\ v.body = t.body
      /\ v.left = t.left /\ v.id = t.id /\ v.got = t.got /\ v.end = t.end
      /\ v.work = t.work /\ DOMAIN v = DOMAIN t
  BY <1>1 DEF State
<1>4. Bounds(v)
  BY <1>3 DEF Bounds
<1>5. CASE t.writer = "none"
  BY <1>2, <1>5
<1>6. CASE t.writer = "later"
  <2> DEFINE w == [v EXCEPT !.work = work]
  <2>1. u = w
    BY <1>2, <1>6
  <2>2. DOMAIN v = DOMAIN t /\ "work" \in DOMAIN t
    BY <1>1, <1>3 DEF State
  <2>3. work \in [for : 1..t.id, from : {"headers", "body"}]
    BY <1>1
  <2> HIDE DEF v
  <2>4. /\ w.in = v.in /\ w.parse = v.parse /\ w.rest = v.rest /\ w.body = v.body
        /\ w.left = v.left /\ w.id = v.id /\ w.got = v.got /\ w.end = v.end
        /\ w.work = work
    BY <2>2
  <2> HIDE DEF w, work, u
  <2>5. Bounds(w)
    BY <1>3, <1>4, <2>3, <2>4 DEF Bounds
  <2>6. QED
    BY <1>3, <2>1, <2>4, <2>5 DEF work, u
<1>7. CASE t.writer \notin {"none", "later"}
  <2>1. u = reply(v, FALSE)
    BY <1>2, <1>7
  <2>2. v \in State /\ Ordered(v) /\ Woken(v)
    <3>1. v \in State
      <4> DEFINE p == t.reported \cup t.lost
      <4>1. p \in SUBSET Losses
        BY <1>1 DEF State
      <4> HIDE DEF p
      <4>2. [t EXCEPT !.reported = p] \in State
        BY <1>1, <4>1 DEF State
      <4>3. QED
        BY <1>1, <4>2 DEF p
    <3>2. SameTurn(t, v) /\ SameAnswer(t, v)
      BY <1>1 DEF State, SameTurn, SameAnswer
    <3> HIDE DEF v
    <3>3. Ordered(v) /\ Woken(v)
      BY <1>3, <3>2 DEF Good, Sound, Ordered, Woken, SameTurn, SameAnswer
    <3>4. QED
      BY <3>1, <3>3
  <2> HIDE DEF v
  <2>3. Answers(v, reply(v, FALSE))
    BY <2>2, ReplyFacts
  <2> HIDE DEF u
  <2>4. SameMessage(v, u) /\ (u.end = "open" => v.end = "open")
    BY <2>1, <2>3 DEF Answers
  <2>5. Bounds(u)
    BY <1>4, <2>4, BoundsAnswer
  <2>6. QED
    BY <1>3, <1>7, <2>4, <2>5 DEF SameMessage, u
<1>8. QED
  BY <1>5, <1>6, <1>7

(* A request that has been read to its end leaves no body, and those who work *)
(* for it go on.                                                              *)
LEMMA EndMessageKeeps ==
  ASSUME NEW t, Good(t), ~ t.got, t.coding # "chunked" \/ t.rest = 0, Bounds(t),
         t.end = "open" /\ t.work.for = t.id /\ t.work.from = "headers" =>
           t.status = "waiting_for_code" /\ t.writer = "none"
  PROVE  Tight(end_message(t))
<1> DEFINE v == reset(t)
           w == [v EXCEPT !.got = TRUE]
           x == on_end(w, TRUE)
           y == maybe_accept_next_request(x)
<1>1. end_message(t) = y
  BY DEF end_message, process_end_of_message
<1>2. /\ Bounds(v) /\ v.rest = 0 /\ ~ v.body /\ v.parse = "start"
      /\ v.work = t.work /\ v.id = t.id /\ v.writer = t.writer
      /\ v.status = t.status /\ v.end = t.end
  BY ResetKeeps
<1>3. /\ Good(w) /\ w.got /\ w.rest = v.rest /\ w.body = v.body
      /\ w.in = v.in /\ w.left = v.left /\ w.parse = v.parse
      /\ w.work = v.work /\ w.id = v.id /\ w.writer = v.writer
      /\ w.status = v.status /\ w.end = v.end
  BY GotFacts
<1> HIDE DEF v, w
<1>4. Bounds(w)
  BY <1>2, <1>3 DEF Bounds
<1>5. Good(x)
  BY <1>3, SuccessFacts
<1>6. /\ Bounds(x) /\ x.parse = w.parse /\ x.rest = w.rest /\ x.body = w.body
      /\ x.id = w.id /\ x.got = w.got
      /\ x.end = "open" => w.end = "open"
      /\ \/ x.work = w.work /\ (w.writer = "none" => x = w)
         \/ x.work = [for |-> w.id, from |-> "body"]
  BY <1>3, <1>4, SuccessKeeps
<1> HIDE DEF x
<1>7. ASSUME x.end = "open" PROVE Reading(x)
  <2>1. x.parse = "start" /\ x.rest = 0 /\ ~ x.body /\ x.got
    BY <1>2, <1>3, <1>6
  <2>2. ASSUME x.work.for = x.id, x.work.from = "headers"
        PROVE  x.status = "waiting_for_code" /\ x.writer = "none"
    <3>1. x.work = w.work /\ (w.writer = "none" => x = w)
      BY <1>6, <2>2
    <3>2. t.end = "open" /\ t.work.for = t.id /\ t.work.from = "headers"
      BY <1>2, <1>3, <1>6, <1>7, <2>2, <3>1
    <3>3. QED
      BY <1>2, <1>3, <3>1, <3>2
  <2>3. Asked(x)
    BY <2>1, <2>2 DEF Asked, Once, Early
  <2>4. QED
    BY <2>1, <2>3, BoundFacts DEF Reading
<1>8. Answers(x, y) /\ SameAnswer(x, y)
  BY <1>5, AcceptFacts DEF Good, Sound
<1> HIDE DEF y
<1>9. SameMessage(x, y) /\ y.status = x.status /\ (y.end = "open" => x.end = "open")
  BY <1>8 DEF Answers, SameAnswer
<1>10. Tight(x)
  BY <1>6, <1>7 DEF Tight
<1>11. QED
  BY <1>1, <1>9, <1>10, TightSame

-----------------------------------------------------------------------------
(* The lines of a message keep the bounds *)

(* Only what says where the message is has changed.                           *)
OnlyPlace(t, u) ==
  /\ u.in = t.in /\ u.id = t.id /\ u.got = t.got /\ u.work = t.work
  /\ u.rest = t.rest /\ u.body = t.body /\ u.writer = t.writer
  /\ u.status = t.status /\ u.end = t.end

(* A line that says where the next one is read, once the handler is called.   *)
LEMMA PlaceKeeps ==
  ASSUME NEW t, Good(t), Bounds(t), NEW p \in Parses \ {"start", "headers"},
         NEW n \in 0..BodySize, p = "body" => n # 0, p = "finish" => t.rest # 0,
         t.end = "open" => t.rest <= MaxRest /\ Once(t)
  PROVE  Tight([t EXCEPT !.left = n, !.parse = p])
<1> DEFINE u == [t EXCEPT !.left = n, !.parse = p]
<1>1. t \in State
  BY DEF Good, Sound
<1>2. OnlyPlace(t, u) /\ u.parse = p /\ u.left = n
  BY <1>1 DEF State, OnlyPlace
<1> HIDE DEF u
<1>3. Bounds(u)
  BY <1>2 DEF Bounds, OnlyPlace
<1>4. u.end = "open" => Asked(u)
  BY <1>2 DEF OnlyPlace, Asked, Once, Early
<1>5. u.end = "open" => Reading(u)
  BY <1>2, <1>4 DEF OnlyPlace, Reading
<1>6. Tight(u)
  BY <1>3, <1>5 DEF Tight
<1>7. QED
  BY <1>6 DEF u

(* The same, of the place alone.                                              *)
LEMMA NextPlaceKeeps ==
  ASSUME NEW t, Good(t), Bounds(t), NEW p \in Parses \ {"start", "headers"},
         p = "body" => t.left # 0, p = "finish" => t.rest # 0,
         t.end = "open" => t.rest <= MaxRest /\ Once(t)
  PROVE  Tight([t EXCEPT !.parse = p])
<1>1. t \in State /\ t.left \in 0..BodySize
  BY DEF Good, Sound, Bounds
<1>2. [t EXCEPT !.left = t.left, !.parse = p] = [t EXCEPT !.parse = p]
  BY <1>1 DEF State
<1>3. Tight([t EXCEPT !.left = t.left, !.parse = p])
  BY <1>1, PlaceKeeps
<1>4. QED
  BY <1>2, <1>3

(* A header is read where the message is.                                     *)
LEMMA HeaderKeeps ==
  ASSUME NEW t, Good(t), Tight(t), t.parse \in {"headers", "trailer"}, NEW line
  PROVE  Tight(header(t, line))
<1>1. t \in State
  BY DEF Good, Sound
<1>2. ASSUME NEW u, OnlyPlace(t, u), u.parse = t.parse, u.left \in {t.left, BodySize},
             t.length => u.length, t.coding = "chunked" => u.coding = "chunked"
      PROVE  Tight(u)
  <2>1. Bounds(u)
    BY <1>2, BoundFacts DEF Tight, Bounds, OnlyPlace
  <2>2. Asked(t) => Asked(u)
    BY <1>2 DEF OnlyPlace, Asked, Once, Early
  <2>3. Refused(t) => Refused(u)
    BY <1>2 DEF OnlyPlace, Refused
  <2>4. Reading(t) => Reading(u)
    BY <1>2, <2>2, <2>3 DEF OnlyPlace, Reading
  <2>5. QED
    BY <1>2, <2>1, <2>4 DEF OnlyPlace, Tight
<1>3. CASE line = "close"
  <2> DEFINE u == [t EXCEPT !.closes = TRUE]
  <2>1. /\ OnlyPlace(t, u) /\ u.parse = t.parse /\ u.left = t.left /\ u.length = t.length
        /\ u.coding = t.coding
    BY <1>1 DEF State, OnlyPlace
  <2>2. header(t, line) = u
    BY <1>3 DEF header
  <2> HIDE DEF u
  <2>3. QED
    BY <1>2, <2>1, <2>2
<1>4. CASE line = "length"
  <2> DEFINE u == [t EXCEPT !.left = BodySize, !.length = TRUE]
  <2>1. /\ OnlyPlace(t, u) /\ u.parse = t.parse /\ u.left = BodySize /\ u.length
        /\ u.coding = t.coding
    BY <1>1 DEF State, OnlyPlace
  <2>2. header(t, line) = u
    BY <1>4 DEF header
  <2> HIDE DEF u
  <2>3. QED
    BY <1>2, <2>1, <2>2
<1>5. CASE line = "chunked"
  <2> DEFINE u == [t EXCEPT !.coding = "chunked"]
  <2>1. /\ OnlyPlace(t, u) /\ u.parse = t.parse /\ u.left = t.left /\ u.length = t.length
        /\ u.coding = "chunked"
    BY <1>1 DEF State, OnlyPlace
  <2>2. header(t, line) = u
    BY <1>5 DEF header
  <2> HIDE DEF u
  <2>3. QED
    BY <1>2, <2>1, <2>2
<1>6. CASE line \notin {"close", "length", "chunked"}
  BY <1>6, TightError DEF header
<1>7. QED
  BY <1>3, <1>4, <1>5, <1>6

(* The size of a chunk.                                                       *)
LEMMA ChunkSizeKeeps ==
  ASSUME NEW t, Good(t), Tight(t), ~ t.got, t.parse = "size", NEW line
  PROVE  Tight(chunk_size(t, line))
<1>1. t.end = "open" => t.rest <= MaxRest /\ Once(t)
  BY DEF Tight, Reading, Refused, Asked
<1>2. CASE line = "size"
  <2>1. /\ 1 \in 0..BodySize /\ 1 # 0
        /\ "body" # "finish" /\ "body" \in Parses \ {"start", "headers"}
    BY BoundFacts DEF Parses
  <2>2. Tight([t EXCEPT !.left = 1, !.parse = "body"])
    BY <1>1, <2>1, PlaceKeeps DEF Tight
  <2>3. QED
    BY <1>2, <2>2 DEF chunk_size
<1>3. CASE line = "zero"
  <2> DEFINE p == AfterLastChunk(t)
  <2>1. 0 \in 0..BodySize /\ p \in Parses \ {"start", "headers"}
    BY BoundFacts DEF Parses, AfterLastChunk
  <2>2. p # "body" /\ (p = "finish" => t.rest # 0)
    BY DEF AfterLastChunk
  <2>3. chunk_size(t, line) = [t EXCEPT !.left = 0, !.parse = p]
    BY <1>3 DEF chunk_size
  <2> HIDE DEF p
  <2>4. Tight([t EXCEPT !.left = 0, !.parse = p])
    BY <1>1, <2>1, <2>2, PlaceKeeps DEF Tight
  <2>5. QED
    BY <2>3, <2>4
<1>4. CASE line \notin {"size", "zero"}
  BY <1>4, TightError DEF chunk_size
<1>5. QED
  BY <1>2, <1>3, <1>4

(* The line that ends a chunk.                                                *)
LEMMA EndOfChunkKeeps ==
  ASSUME NEW t, Good(t), Tight(t), ~ t.got, t.parse = "end_of_chunk", NEW line
  PROVE  Tight(end_of_chunk(t, line))
<1>1. t.end = "open" => t.rest <= MaxRest /\ Once(t)
  BY DEF Tight, Reading, Refused, Asked
<1>2. "size" \in Parses \ {"start", "headers"}
  BY DEF Parses
<1>3. Tight([t EXCEPT !.parse = "size"])
  BY <1>1, <1>2, NextPlaceKeeps DEF Tight
<1>4. QED
  BY <1>3, TightError DEF end_of_chunk

(* A line of a new request.                                                   *)
LEMMA StartLineKeeps ==
  ASSUME NEW t, Sound(t), ~ t.got, ~ t.must_be_made, t.parse = "start",
         Bounds(t), t.rest <= MaxRest, Asked(t), NEW line
  PROVE  Tight(start_line(t, line))
<1> DEFINE u == Arm([t EXCEPT !.parse = "headers"], "activity")
           w == [u EXCEPT !.left = 0, !.closes = FALSE]
<1>1. start_line(t, line) = IF line = "start" THEN w ELSE process_error(u)
  BY DEF start_line
<1>2. /\ Good(u) /\ u.parse = "headers" /\ u.in = t.in /\ u.left = t.left
      /\ u.id = t.id /\ u.got = t.got /\ u.work = t.work /\ u.rest = t.rest
      /\ u.body = t.body /\ u.writer = t.writer /\ u.status = t.status
      /\ u.end = t.end
  BY StartFacts
<1> HIDE DEF u
<1>3. Bounds(u)
  BY <1>2 DEF Bounds
<1>4. Asked(u)
  BY <1>2 DEF Asked, Once, Early
<1>5. Tight(u)
  BY <1>2, <1>3, <1>4 DEF Tight, Reading
<1>6. Tight(process_error(u))
  BY <1>2, <1>5, TightError
<1>7. u \in State
  BY <1>2 DEF Good, Sound
<1>8. OnlyPlace(u, w) /\ w.left = 0 /\ w.parse = u.parse
  BY <1>7 DEF State, OnlyPlace
<1> HIDE DEF w
<1>9. Bounds(w)
  BY <1>3, <1>8, BoundFacts DEF Bounds, OnlyPlace
<1>10. Asked(w)
  BY <1>4, <1>8 DEF OnlyPlace, Asked, Once, Early
<1>11. Reading(w)
  BY <1>2, <1>8, <1>10 DEF OnlyPlace, Reading
<1>12. QED
  BY <1>1, <1>6, <1>9, <1>11 DEF Tight

(* A request that was refused is not answered again.                          *)
LEMMA StaysRefused ==
  ASSUME NEW t, NEW u, Refused(t), Answered(t, u) \/ Began(t, u) \/ Took(t, u)
  PROVE  Refused(u)
BY DEF Refused, Answered, Began, Took, SameRequest

(* The handler is called once, and has asked for the body or not.             *)
LEMMA CalledOnce ==
  ASSUME NEW t, Good(t), t.id # 0, ~ t.got, Asked(t), Early(t), NEW u,
         Answered(t, u) \/ Began(t, u) \/ Took(t, u)
  PROVE  Once(u) /\ u.rest = 0
<1>1. t.status = "waiting_for_code" /\ t.writer = "none" /\ t.work.for # t.id /\ ~ t.body
  BY DEF Asked, Once
<1>2. t.rest = 0
  BY <1>1 DEF Good, Sound, Whole
<1>3. CASE Answered(t, u)
  BY <1>1, <1>2, <1>3 DEF Answered, SameMessage, Once
<1>4. CASE Began(t, u)
  BY <1>1, <1>2, <1>4 DEF Began, SameRequest, Once
<1>5. CASE Took(t, u)
  BY <1>1, <1>2, <1>5 DEF Took, SameRequest, Once
<1>6. QED
  BY <1>3, <1>4, <1>5

(* The blank line after the headers.                                          *)
LEMMA EndOfHeadersKeeps ==
  ASSUME NEW t, Good(t), Tight(t), ~ t.got, t.parse = "headers",
         NEW does \in Doings, NEW expects \in BOOLEAN
  PROVE  Tight(end_of_headers(t, does, expects))
<1> DEFINE u == handle_transaction(t, does, expects)
<1>1. Good(u) /\ u.parse = "headers" /\ ~ u.got
  BY HandleTransactionFacts DEF SamePlace
<1>2. /\ Bounds(u)
      /\ u.end = "open" =>
           t.end = "open" /\ (Answered(t, u) \/ Began(t, u) \/ Took(t, u))
  BY HandlerDoes DEF Tight
<1>3. end_of_headers(t, does, expects) =
        IF u.coding = "chunked"
        THEN IF u.length THEN process_error(u) ELSE [u EXCEPT !.parse = "size"]
        ELSE IF u.left # 0 THEN [u EXCEPT !.parse = "body"] ELSE end_message(u)
  BY DEF end_of_headers
<1> HIDE DEF u
<1>4. u.end = "open" => Refused(u) \/ (Once(u) /\ u.rest = 0)
  <2>1. SUFFICES ASSUME u.end = "open" PROVE Refused(u) \/ (Once(u) /\ u.rest = 0)
    OBVIOUS
  <2>2. /\ Refused(t) \/ Asked(t)
        /\ Answered(t, u) \/ Began(t, u) \/ Took(t, u)
    BY <1>2, <2>1 DEF Tight, Reading
  <2>3. t.id # 0 /\ Early(t)
    BY DEF Tight, Bounds, Early
  <2>4. CASE Refused(t)
    <3>1. Answered(t, u) \/ Began(t, u) \/ Took(t, u)
      BY <2>2
    <3>2. Refused(u)
      BY <2>4, <3>1, StaysRefused
    <3>3. QED
      BY <3>2
  <2>5. CASE Asked(t)
    BY <2>2, <2>3, <2>5, CalledOnce
  <2>6. QED
    BY <2>2, <2>4, <2>5
<1>5. CASE u.coding = "chunked" /\ u.length
  <2>1. SameMessage(u, process_error(u)) /\ Bounds(process_error(u))
    BY <1>1, <1>2, ErrorCloses, BoundsAnswer
  <2>2. CASE process_error(u).end # "open"
    BY <1>3, <1>5, <2>1, <2>2, TightClosed
  <2>3. CASE process_error(u) = u /\ u.status # "waiting_for_code" /\ u.end = "open"
    <3>1. Refused(u)
      BY <1>1, <1>4, <1>5, <2>3 DEF Refused
    <3>2. Reading(u)
      BY <1>1, <3>1, BoundFacts DEF Refused, Reading
    <3>3. QED
      BY <1>2, <1>3, <1>5, <2>3, <3>2 DEF Tight
  <2>4. QED
    BY <1>1, <2>2, <2>3, ErrorCloses
<1>6. u.end = "open" /\ ~ (u.coding = "chunked" /\ u.length) => Once(u) /\ u.rest <= MaxRest
  BY <1>4, BoundFacts DEF Refused
<1>7. CASE u.coding = "chunked" /\ ~ u.length
  <2>1. "size" \in Parses \ {"start", "headers"} /\ "size" # "body" /\ "size" # "finish"
    BY DEF Parses
  <2>2. Tight([u EXCEPT !.parse = "size"])
    BY <1>1, <1>2, <1>6, <1>7, <2>1, NextPlaceKeeps
  <2>3. QED
    BY <1>3, <1>7, <2>2
<1>8. CASE u.coding # "chunked" /\ u.left # 0
  <2>1. "body" \in Parses \ {"start", "headers"} /\ "body" # "finish"
    BY DEF Parses
  <2>2. Tight([u EXCEPT !.parse = "body"])
    BY <1>1, <1>2, <1>6, <1>8, <2>1, NextPlaceKeeps
  <2>3. QED
    BY <1>3, <1>8, <2>2
<1>9. CASE u.coding # "chunked" /\ u.left = 0
  <2>1. u.end = "open" /\ u.work.for = u.id /\ u.work.from = "headers" =>
          u.status = "waiting_for_code" /\ u.writer = "none"
    BY <1>6, <1>9 DEF Once
  <2>2. Tight(end_message(u))
    BY <1>1, <1>2, <1>9, <2>1, EndMessageKeeps
  <2>3. QED
    BY <1>3, <1>9, <2>2
<1>10. QED
  BY <1>5, <1>7, <1>8, <1>9

-----------------------------------------------------------------------------
(* Bodies keep the bounds *)

(* What a file takes, and that its failure closes the session.                *)
LEMMA ConsumeKeeps ==
  ASSUME NEW t, Good(t), Bounds(t), t.rest # 0, t.writer # "none", NEW leaves \in Leaves
  PROVE  LET u == consume_body(t, leaves) IN
         /\ Bounds(u) /\ u.left = t.left
         /\ u.end = "open" =>
              /\ t.end = "open" /\ u.rest <= MaxRest /\ u.status = t.status
              /\ u.id = t.id /\ u.got = t.got /\ u.work = t.work
              /\ u.body = t.body /\ u.writer = t.writer /\ u.parse = t.parse
<1>1. t \in State
  BY DEF Good, Sound
<1>2. ASSUME NEW n \in 0..MaxRest
      PROVE  LET u == [t EXCEPT !.rest = n] IN
             /\ Bounds(u) /\ u.left = t.left
             /\ u.end = "open" =>
                  /\ t.end = "open" /\ u.rest <= MaxRest /\ u.status = t.status
                  /\ u.id = t.id /\ u.got = t.got /\ u.work = t.work
                  /\ u.body = t.body /\ u.writer = t.writer /\ u.parse = t.parse
  <2> DEFINE u == [t EXCEPT !.rest = n]
  <2>1. /\ u.rest = n /\ u.left = t.left /\ u.status = t.status
        /\ u.id = t.id /\ u.got = t.got /\ u.work = t.work /\ u.end = t.end
        /\ u.body = t.body /\ u.writer = t.writer /\ u.parse = t.parse /\ u.in = t.in
    BY <1>1 DEF State
  <2> HIDE DEF u
  <2>2. Bounds(u) /\ u.rest <= MaxRest
    BY <2>1, BoundFacts DEF Bounds
  <2>3. QED
    BY <2>1, <2>2 DEF u
<1>3. CASE t.writer = "later"
  <2>1. 0 \in 0..MaxRest
    BY BoundFacts
  <2>2. consume_body(t, leaves) = [t EXCEPT !.rest = 0]
    BY <1>3 DEF consume_body
  <2>3. QED
    BY <1>2, <2>1, <2>2
<1>4. CASE t.writer # "later" /\ leaves = Failed
  <2>1. consume_body(t, leaves) = process_error(t)
    BY <1>4 DEF consume_body
  <2>2. SameMessage(t, process_error(t)) /\ process_error(t).end # "open"
    BY ErrorCloses
  <2>3. QED
    BY <2>1, <2>2, BoundsAnswer DEF SameMessage
<1>5. CASE t.writer # "later" /\ leaves # Failed
  <2> DEFINE n == Min({leaves, t.rest - 1})
  <2>1. consume_body(t, leaves) = [t EXCEPT !.rest = n]
    BY <1>5 DEF consume_body
  <2>2. leaves \in 0..MaxRest /\ t.rest - 1 \in Nat /\ MaxRest \in Nat
    BY <1>5, BoundFacts DEF Leaves, Bounds
  <2>3. n \in {leaves, t.rest - 1} /\ n =< leaves
    <3>1. leaves \in Int /\ t.rest - 1 \in Int
      BY <2>2
    <3>2. QED
      BY <3>1, MinFacts
  <2> HIDE DEF n
  <2>4. n \in 0..MaxRest
    BY <2>2, <2>3
  <2>5. QED
    BY <1>2, <2>1, <2>4
<1>6. QED
  BY <1>3, <1>4, <1>5

(* Another piece has come into body_buffer_.                                  *)
LEMMA MoreRestKeeps ==
  ASSUME NEW t, Good(t), Bounds(t), t.rest <= MaxRest
  PROVE  LET v == [t EXCEPT !.rest = t.rest + Piece] IN
         /\ Bounds(v) /\ v.rest # 0 /\ v.left = t.left /\ v.status = t.status
         /\ v.id = t.id /\ v.got = t.got /\ v.work = t.work /\ v.end = t.end
         /\ v.body = t.body /\ v.writer = t.writer /\ v.parse = t.parse
<1> DEFINE n == t.rest + Piece
           v == [t EXCEPT !.rest = n]
<1>1. t \in State
  BY DEF Good, Sound
<1>2. n \in 0..MaxRest + Piece /\ n # 0
  BY BoundFacts DEF Bounds
<1> HIDE DEF n
<1>3. /\ v.left = t.left /\ v.status = t.status /\ v.rest = n /\ v.in = t.in
      /\ v.id = t.id /\ v.got = t.got /\ v.work = t.work /\ v.end = t.end
      /\ v.body = t.body /\ v.writer = t.writer /\ v.parse = t.parse
  BY <1>1 DEF State
<1> HIDE DEF v
<1>4. Bounds(v)
  BY <1>2, <1>3 DEF Bounds
<1>5. QED
  BY <1>2, <1>3, <1>4 DEF v, n

(* A piece of a body.                                                         *)
LEMMA BodyPieceKeeps ==
  ASSUME NEW t, Good(t), Tight(t), t.end = "open", ~ t.got, t.parse = "body",
         NEW leaves \in Leaves
  PROVE  Tight(body_piece(t, leaves))
<1> DEFINE took == IF t.body THEN consume_body([t EXCEPT !.rest = t.rest + Piece], leaves)
                   ELSE [t EXCEPT !.lost = t.lost \cup {"late"}]
           u == [took EXCEPT !.left = took.left - 1]
<1>1. t \in State /\ Bounds(t) /\ t.rest <= MaxRest /\ t.left # 0 /\ Once(t)
  BY DEF Good, Sound, Tight, Reading, Refused, Asked
<1>2. Good(took) /\ SamePlace(t, took)
  <2>1. CASE t.body
    <3> DEFINE n == t.rest + Piece
               v == [t EXCEPT !.rest = n]
    <3>1. took = consume_body(v, leaves)
      BY <2>1
    <3>2. n \in Int
      BY DEF Good, Sound, State, Piece
    <3> HIDE DEF n, took
    <3>3. Good(v) /\ SamePlace(t, v) /\ v.body = t.body
      BY <2>1, <3>2, RestFacts
    <3> HIDE DEF v
    <3>4. v.body /\ v.parse # "trailer"
      BY <2>1, <3>3 DEF SamePlace
    <3>5. Good(took) /\ SamePlace(v, took)
      BY <3>1, <3>3, <3>4, ConsumeFacts
    <3>6. QED
      BY <3>3, <3>5 DEF SamePlace
  <2>2. CASE ~ t.body
    <3>1. took = [t EXCEPT !.lost = t.lost \cup {"late"}]
      BY <2>2
    <3> HIDE DEF took
    <3>2. QED
      BY <3>1, LateFacts
  <2>3. QED
    BY <2>1, <2>2
<1>3. /\ Bounds(took) /\ took.left = t.left
      /\ took.end = "open" =>
           /\ took.rest <= MaxRest /\ took.status = t.status
           /\ took.id = t.id /\ took.got = t.got /\ took.work = t.work
           /\ took.body = t.body /\ took.writer = t.writer /\ took.parse = t.parse
  <2>1. CASE t.body
    <3> DEFINE v == [t EXCEPT !.rest = t.rest + Piece]
    <3>1. took = consume_body(v, leaves)
      BY <2>1
    <3>2. /\ Bounds(v) /\ v.rest # 0 /\ v.left = t.left /\ v.status = t.status
          /\ v.id = t.id /\ v.got = t.got /\ v.work = t.work /\ v.end = t.end
          /\ v.body = t.body /\ v.writer = t.writer /\ v.parse = t.parse
      BY <1>1, MoreRestKeeps
    <3>3. Good(v)
      <4>1. t.rest + Piece \in Int
        BY <1>1 DEF State, Piece
      <4>2. QED
        BY <2>1, <4>1, RestFacts
    <3> HIDE DEF v, took
    <3>4. v.writer # "none"
      BY <1>1, <2>1, <3>2 DEF Once
    <3>5. /\ Bounds(took) /\ took.left = v.left
          /\ took.end = "open" =>
               /\ took.rest <= MaxRest /\ took.status = v.status
               /\ took.id = v.id /\ took.got = v.got /\ took.work = v.work
               /\ took.body = v.body /\ took.writer = v.writer /\ took.parse = v.parse
      BY <3>1, <3>2, <3>3, <3>4, ConsumeKeeps
    <3>6. QED
      BY <3>2, <3>5
  <2>2. CASE ~ t.body
    <3> DEFINE l == t.lost \cup {"late"}
    <3>1. took = [t EXCEPT !.lost = l]
      BY <2>2
    <3> HIDE DEF l, took
    <3>2. /\ took.in = t.in /\ took.left = t.left /\ took.rest = t.rest
          /\ took.status = t.status
          /\ took.id = t.id /\ took.got = t.got /\ took.work = t.work
          /\ took.body = t.body /\ took.writer = t.writer /\ took.parse = t.parse
      BY <1>1, <3>1 DEF State
    <3>3. Bounds(took)
      BY <1>1, <3>2 DEF Bounds
    <3>4. QED
      BY <1>1, <3>2, <3>3
  <2>3. QED
    BY <2>1, <2>2
<1>4. body_piece(t, leaves) =
        IF u.left # 0 THEN u
        ELSE IF u.coding = "chunked" THEN [u EXCEPT !.parse = "end_of_chunk"]
        ELSE end_message(u)
  BY DEF body_piece
<1> HIDE DEF took
<1>5. took \in State /\ took.left - 1 \in 0..BodySize
  <2>1. took \in State
    BY <1>2 DEF Good, Sound
  <2>2. t.left \in 0..BodySize /\ BodySize \in Nat
    BY <1>1, BoundFacts DEF Bounds
  <2>3. QED
    BY <1>1, <1>3, <2>1, <2>2
<1>6. Good(u) /\ SamePlace(took, u)
  <2>1. took.left - 1 \in Int
    BY <1>5
  <2>2. QED
    BY <1>2, <2>1, LeftFacts
<1>7. /\ u.left = took.left - 1 /\ u.in = took.in /\ u.rest = took.rest
      /\ u.id = took.id /\ u.got = took.got /\ u.work = took.work /\ u.end = took.end
      /\ u.body = took.body /\ u.writer = took.writer /\ u.status = took.status
      /\ u.parse = took.parse
  BY <1>5 DEF State
<1> HIDE DEF u
<1>8. Bounds(u)
  BY <1>3, <1>5, <1>7 DEF Bounds
<1>9. u.end = "open" => u.rest <= MaxRest /\ Once(u)
  BY <1>1, <1>3, <1>7 DEF Once
<1>10. ~ u.got /\ u.parse = "body"
  BY <1>2, <1>6 DEF SamePlace
<1>11. CASE u.left # 0
  <2>1. u.end = "open" => Asked(u)
    BY <1>9, <1>10 DEF Asked, Early
  <2>2. Tight(u)
    BY <1>8, <1>9, <1>11, <2>1 DEF Tight, Reading
  <2>3. QED
    BY <1>4, <1>11, <2>2
<1>12. CASE u.left = 0 /\ u.coding = "chunked"
  <2>1. /\ "end_of_chunk" \in Parses \ {"start", "headers"}
        /\ "end_of_chunk" # "body" /\ "end_of_chunk" # "finish"
    BY DEF Parses
  <2>2. Tight([u EXCEPT !.parse = "end_of_chunk"])
    BY <1>6, <1>8, <1>9, <2>1, NextPlaceKeeps
  <2>3. QED
    BY <1>4, <1>12, <2>2
<1>13. CASE u.left = 0 /\ u.coding # "chunked"
  <2>1. u.end = "open" /\ u.work.for = u.id /\ u.work.from = "headers" =>
          u.status = "waiting_for_code" /\ u.writer = "none"
    BY <1>9 DEF Once
  <2>2. Tight(end_message(u))
    BY <1>6, <1>8, <1>10, <1>13, <2>1, EndMessageKeeps
  <2>3. QED
    BY <1>4, <1>13, <2>2
<1>14. QED
  BY <1>11, <1>12, <1>13

(* What the last chunk left is taken.                                         *)
LEMMA FinishBodyKeeps ==
  ASSUME NEW t, Good(t), Tight(t), t.end = "open", ~ t.got, t.parse = "finish",
         NEW leaves \in Leaves
  PROVE  Tight(finish_body(t, leaves))
<1> DEFINE u == consume_body(t, leaves)
<1>1. Bounds(t) /\ t.rest # 0 /\ Once(t)
  BY DEF Tight, Reading, Refused, Asked
<1>2. t.body /\ t.writer # "none"
  BY <1>1 DEF Good, Sound, Whole, Once
<1>3. Good(u) /\ SamePlace(t, u) /\ u.body
  BY <1>2, ConsumeFacts
<1>4. /\ Bounds(u)
      /\ u.end = "open" =>
           /\ t.end = "open" /\ u.rest <= MaxRest /\ u.status = t.status
           /\ u.id = t.id /\ u.got = t.got /\ u.work = t.work
           /\ u.body = t.body /\ u.writer = t.writer /\ u.parse = t.parse
  BY <1>1, <1>2, ConsumeKeeps
<1>5. finish_body(t, leaves) = IF u.rest = 0 THEN [u EXCEPT !.parse = "trailer"] ELSE u
  BY <1>2, <1>3 DEF finish_body
<1> HIDE DEF u
<1>6. u.end = "open" => u.rest <= MaxRest /\ Once(u)
  BY <1>1, <1>4 DEF Once
<1>7. CASE u.rest = 0
  <2>1. /\ "trailer" \in Parses \ {"start", "headers"}
        /\ "trailer" # "body" /\ "trailer" # "finish"
    BY DEF Parses
  <2>2. Tight([u EXCEPT !.parse = "trailer"])
    BY <1>3, <1>4, <1>6, <2>1, NextPlaceKeeps
  <2>3. QED
    BY <1>5, <1>7, <2>2
<1>8. CASE u.rest # 0
  <2>1. u.end = "open" => Asked(u) /\ u.parse = "finish"
    BY <1>4, <1>6, <1>8 DEF Asked, Early
  <2>2. Tight(u)
    BY <1>4, <1>6, <2>1 DEF Tight, Reading
  <2>3. QED
    BY <1>5, <1>8, <2>2
<1>9. QED
  BY <1>7, <1>8

(* A line is read where the message is.                                       *)
LEMMA MessageKeeps ==
  ASSUME NEW t, Good(t), Tight(t), t.end = "open", ~ t.got, t.parse # "finish",
         NEW line, NEW does \in Doings, NEW expects \in BOOLEAN, NEW leaves \in Leaves
  PROVE  Tight(message(t, line, does, expects, leaves))
<1>1. t.parse \in Parses /\ Sound(t) /\ ~ t.must_be_made
  BY DEF Good, Sound, State, Taken
<1>2. CASE t.parse = "start"
  <2>1. Bounds(t) /\ t.rest <= MaxRest /\ Asked(t)
    BY <1>2 DEF Tight, Reading, Refused
  <2>2. Tight(start_line(t, line))
    BY <1>1, <1>2, <2>1, StartLineKeeps
  <2>3. QED
    BY <1>2, <2>2 DEF message
<1>3. CASE t.parse \in {"headers", "trailer"} /\ line # "blank"
  BY <1>3, HeaderKeeps DEF message
<1>4. CASE t.parse = "headers" /\ line = "blank"
  BY <1>4, EndOfHeadersKeeps DEF message
<1>5. CASE t.parse = "trailer" /\ line = "blank"
  <2>1. t.rest = 0
    BY <1>1, <1>5 DEF Sound, Whole
  <2>2. Bounds(t) /\ Once(t)
    BY <1>5 DEF Tight, Reading, Refused, Asked
  <2>3. Tight(end_message(t))
    BY <2>1, <2>2, EndMessageKeeps DEF Once
  <2>4. QED
    BY <1>5, <2>3 DEF message
<1>6. CASE t.parse = "size"
  BY <1>6, ChunkSizeKeeps DEF message
<1>7. CASE t.parse = "end_of_chunk"
  BY <1>7, EndOfChunkKeeps DEF message
<1>8. CASE t.parse = "body"
  BY <1>8, BodyPieceKeeps DEF message
<1>9. QED
  BY <1>1, <1>2, <1>3, <1>4, <1>5, <1>6, <1>7, <1>8 DEF Parses

-----------------------------------------------------------------------------
(* The steps keep the bounds *)

(* A new transaction has no handler yet, and older work is not for it.        *)
LEMMA NewTransactionKeeps ==
  ASSUME NEW t, Good(t), Tight(t), t.end = "open", t.must_be_made
  PROVE  LET u == new_transaction(t) IN
         Bounds(u) /\ u.rest <= MaxRest /\ Asked(u) /\ u.end = "open"
<1> DEFINE n == t.id + 1
           u == [t EXCEPT !.id = n, !.must_be_made = FALSE, !.got = FALSE, !.waits = FALSE,
                          !.closes = FALSE, !.writer = "none",
                          !.status = "waiting_for_code", !.close = FALSE,
                          !.lost = {}, !.reported = {}]
<1>1. t \in State /\ t.id \in Nat
  BY DEF Good, Sound, State
<1>2. new_transaction(t) = u
  BY DEF new_transaction
<1>3. t.got /\ t.status = "ended" /\ t.parse = "start"
  BY DEF Good, Sound, Taken, Read
<1>4. Bounds(t) /\ t.rest <= MaxRest /\ Once(t)
  BY <1>3 DEF Tight, Reading, Refused, Asked
<1>5. ~ t.body
  BY <1>3, <1>4 DEF Once
<1>6. n # 0 /\ 1..t.id \subseteq 1..n /\ n \notin 1..t.id
  BY <1>1
<1> HIDE DEF n
<1>7. /\ u.id = n /\ ~ u.got /\ u.writer = "none" /\ u.status = "waiting_for_code"
      /\ u.in = t.in /\ u.parse = t.parse /\ u.body = t.body /\ u.rest = t.rest
      /\ u.left = t.left /\ u.work = t.work /\ u.end = t.end
  BY <1>1 DEF State
<1> HIDE DEF u
<1>8. Bounds(u)
  <2>1. u.work = NoWork \/ u.work \in [for : 1..u.id, from : {"headers", "body"}]
    BY <1>4, <1>6, <1>7 DEF Bounds
  <2>2. QED
    BY <1>4, <1>6, <1>7, <2>1 DEF Bounds
<1>9. u.work.for # u.id
  <2>1. CASE t.work = NoWork
    BY <1>6, <1>7, <2>1 DEF NoWork
  <2>2. CASE t.work \in [for : 1..t.id, from : {"headers", "body"}]
    BY <1>6, <1>7, <2>2
  <2>3. QED
    BY <1>4, <2>1, <2>2 DEF Bounds
<1>10. Asked(u)
  BY <1>3, <1>5, <1>7, <1>9 DEF Asked, Once, Early
<1>11. QED
  BY <1>2, <1>4, <1>7, <1>8, <1>10

(* A line leaves the buffer.                                                  *)
LEMMA TailKeeps ==
  ASSUME NEW u, Sound(u), Bounds(u), u.in # <<>>
  PROVE  LET v == [u EXCEPT !.in = Tail(u.in)] IN
         /\ Bounds(v) /\ v.rest = u.rest /\ v.end = u.end /\ v.left = u.left
         /\ v.parse = u.parse
         /\ Asked(u) => Asked(v)
         /\ Refused(u) => Refused(v)
<1> DEFINE q == Tail(u.in)
           v == [u EXCEPT !.in = q]
<1>1. u \in State /\ u.in \in Seq(Lines)
  BY DEF Sound, State
<1>2. Len(q) <= MaxIn
  BY <1>1, BoundFacts DEF Bounds
<1> HIDE DEF q
<1>3. /\ v.in = q /\ v.id = u.id /\ v.got = u.got /\ v.work = u.work /\ v.rest = u.rest
      /\ v.body = u.body /\ v.writer = u.writer /\ v.status = u.status
      /\ v.end = u.end /\ v.left = u.left /\ v.parse = u.parse
      /\ v.coding = u.coding /\ v.length = u.length
  BY <1>1 DEF State
<1> HIDE DEF v
<1>4. Bounds(v)
  BY <1>2, <1>3 DEF Bounds
<1>5. (Asked(u) => Asked(v)) /\ (Refused(u) => Refused(v))
  BY <1>3 DEF Asked, Once, Early, Refused
<1>6. QED
  BY <1>3, <1>4, <1>5 DEF v, q

(* What the reader does with its buffer.                                      *)
LEMMA ConsumeBufferKeeps ==
  ASSUME NEW t, Good(t), Tight(t), t.end = "open", t.events = 0, t.in # <<>>,
         NEW does \in Doings, NEW expects \in BOOLEAN, NEW leaves \in Leaves
  PROVE  Tight(consume_buffer(t, does, expects, leaves))
<1> DEFINE u == IF t.must_be_made THEN new_transaction(t) ELSE t
           v == [u EXCEPT !.in = Tail(u.in)]
           line == Head(u.in)
<1>1. consume_buffer(t, does, expects, leaves) =
        IF Postponed(t) THEN [t EXCEPT !.waits = TRUE, !.waitsPipe = TRUE]
        ELSE IF u.parse = "finish" THEN finish_body(u, leaves)
        ELSE message(v, line, does, expects, leaves)
  BY DEF consume_buffer
<1>2. t \in State
  BY DEF Good, Sound
<1>3. CASE Postponed(t)
  <2> DEFINE w == [t EXCEPT !.waits = TRUE, !.waitsPipe = TRUE]
  <2>1. SameMessage(t, w) /\ w.status = t.status /\ w.end = t.end
    BY <1>2 DEF State, SameMessage
  <2>2. consume_buffer(t, does, expects, leaves) = w
    BY <1>1, <1>3
  <2> HIDE DEF w
  <2>3. QED
    BY <2>1, <2>2, TightSame
<1>4. CASE ~ Postponed(t) /\ ~ t.must_be_made
  <2>1. u = t /\ ~ t.got
    BY <1>4 DEF Postponed
  <2>2. CASE t.parse = "finish"
    <3>1. Tight(finish_body(t, leaves))
      BY <2>1, <2>2, FinishBodyKeeps
    <3>2. QED
      BY <1>1, <1>4, <2>1, <2>2, <3>1
  <2>3. CASE t.parse # "finish"
    <3>1. consume_buffer(t, does, expects, leaves) = message(v, line, does, expects, leaves)
      BY <1>1, <1>4, <2>1, <2>3
    <3> HIDE DEF line
    <3>2. Sound(t) /\ Taken(t) /\ Bounds(t) /\ Reading(t)
      BY DEF Good, Tight
    <3> DEFINE q == Tail(t.in)
    <3>3. q \in Seq(Lines)
      BY <1>2 DEF State
    <3>4. v = [t EXCEPT !.in = q]
      BY <2>1
    <3>5. /\ Bounds(v) /\ v.rest = t.rest /\ v.end = t.end /\ v.left = t.left
          /\ v.parse = t.parse
          /\ Asked(t) => Asked(v)
          /\ Refused(t) => Refused(v)
      BY <2>1, <3>2, TailKeeps
    <3> HIDE DEF q
    <3>6. Good(v) /\ v.got = t.got
      BY <3>2, <3>3, <3>4, InFacts DEF Good
    <3> HIDE DEF v
    <3>7. Tight(v)
      BY <3>2, <3>5 DEF Tight, Reading
    <3>8. ~ v.got /\ v.parse # "finish" /\ v.end = "open"
      BY <2>1, <2>3, <3>5, <3>6
    <3>9. QED
      BY <3>1, <3>6, <3>7, <3>8, MessageKeeps
  <2>4. QED
    BY <2>2, <2>3
<1>5. CASE t.must_be_made
  <2>1. u = new_transaction(t) /\ ~ Postponed(t)
    BY <1>5 DEF Postponed
  <2>2. /\ Sound(u) /\ u.parse = "start" /\ ~ u.got /\ ~ u.must_be_made
        /\ u.in = t.in
    BY <1>5, <2>1, NewTransactionFacts
  <2>3. Bounds(u) /\ u.rest <= MaxRest /\ Asked(u) /\ u.end = "open"
    BY <1>5, <2>1, NewTransactionKeeps
  <2>4. u.parse # "finish"
    BY <2>2
  <2>5. consume_buffer(t, does, expects, leaves) = message(v, line, does, expects, leaves)
    BY <1>1, <2>1, <2>4
  <2> HIDE DEF line, u
  <2> DEFINE q == Tail(u.in)
  <2>6. q \in Seq(Lines)
    BY <2>2 DEF Sound, State
  <2>7. /\ Bounds(v) /\ v.rest = u.rest /\ v.parse = u.parse
        /\ Asked(u) => Asked(v)
    BY <2>2, <2>3, TailKeeps
  <2>8. v = [u EXCEPT !.in = q]
    OBVIOUS
  <2> HIDE DEF q, v
  <2>9. Sound(v) /\ v.got = u.got /\ v.must_be_made = u.must_be_made
    BY <2>2, <2>6, <2>8, InFacts
  <2>10. /\ ~ v.got /\ ~ v.must_be_made /\ v.parse = "start" /\ v.rest <= MaxRest
         /\ Asked(v)
    BY <2>2, <2>3, <2>7, <2>9
  <2>11. Tight(start_line(v, line))
    BY <2>7, <2>9, <2>10, StartLineKeeps
  <2>12. message(v, line, does, expects, leaves) = start_line(v, line)
    BY <2>10 DEF message
  <2>13. QED
    BY <2>5, <2>11, <2>12
<1>6. QED
  BY <1>3, <1>4, <1>5

(* The pipe tells its reader of what is left.                                 *)
LEMMA WakeKeeps ==
  ASSUME NEW t, t \in State, Tight(t) PROVE Tight(Wake(t))
<1> DEFINE n == t.events + 1
           u == [t EXCEPT !.events = n, !.waitsPipe = TRUE]
<1>1. Wake(t) = t \/ Wake(t) = u
  BY DEF Wake
<1> HIDE DEF n
<1>2. SameMessage(t, u) /\ u.status = t.status /\ u.end = t.end
  BY DEF State, SameMessage
<1> HIDE DEF u
<1>3. Tight(u)
  BY <1>2, TightSame
<1>4. QED
  BY <1>1, <1>3

(* A session begins within its bounds.                                        *)
LEMMA BeginsTight == Init => Tight(s)
<1>1. Bounds(Opened)
  BY BoundFacts DEF Opened, Bounds, NoWork
<1>2. Opened.work.for # Opened.id
  BY DEF Opened, NoWork
<1>3. Asked(Opened)
  BY <1>2 DEF Opened, Asked, Once, Early
<1>4. Reading(Opened)
  BY <1>3, BoundFacts DEF Opened, Reading
<1>5. QED
  BY <1>1, <1>4 DEF Init, Tight

(* The reader's event.                                                        *)
LEMMA ConsumesTight == ASSUME Good(s), Tight(s), ConsumerEvent PROVE Tight(s')
<1> DEFINE t == [s EXCEPT !.events = s.events - 1, !.waitsPipe = FALSE]
<1>1. s.events = 1 /\ s \in State
  BY DEF ConsumerEvent, Good, Sound, Woken
<1>2. Good(t) /\ t.end = "open" /\ t.events = 0
  BY <1>1, HeardFacts
<1>3. SameMessage(s, t) /\ t.status = s.status /\ t.end = s.end
  BY <1>1 DEF State, SameMessage
<1>4. \/ s' = t
      \/ /\ t.in # <<>>
         /\ \E does \in Choice(s.parse = "headers", Doings),
               expects \in Choice(s.parse = "headers", BOOLEAN),
               leaves \in Choice(s.parse \in {"body", "finish"}, Leaves) :
              s' = Wake(consume_buffer(t, does, expects, leaves))
  BY DEF ConsumerEvent
<1> HIDE DEF t
<1>5. Tight(t)
  BY <1>3, TightSame
<1>6. ASSUME NEW does \in Choice(s.parse = "headers", Doings),
             NEW expects \in Choice(s.parse = "headers", BOOLEAN),
             NEW leaves \in Choice(s.parse \in {"body", "finish"}, Leaves),
             t.in # <<>>
      PROVE  Tight(Wake(consume_buffer(t, does, expects, leaves)))
  <2>1. does \in Doings
    <3>1. "answer" \in Doings
      BY DEF Doings
    <3>2. QED
      BY <3>1, ChoiceFacts
  <2>2. expects \in BOOLEAN
    <3>1. TRUE \in BOOLEAN
      OBVIOUS
    <3>2. QED
      BY <3>1, ChoiceFacts
  <2>3. leaves \in Leaves
    <3>1. Failed \in Leaves
      BY DEF Leaves
    <3>2. QED
      BY <3>1, ChoiceFacts
  <2>4. Good(consume_buffer(t, does, expects, leaves))
    BY <1>2, <1>6, <2>1, <2>2, <2>3, ConsumeBufferFacts
  <2>5. Tight(consume_buffer(t, does, expects, leaves))
    BY <1>2, <1>5, <1>6, <2>1, <2>2, <2>3, ConsumeBufferKeeps
  <2>6. QED
    BY <2>4, <2>5, WakeKeeps DEF Good, Sound
<1>7. QED
  BY <1>4, <1>5, <1>6

(* The client sends a line, if there is room for it.                          *)
LEMMA SendsTight == ASSUME Good(s), Tight(s), ClientSends PROVE Tight(s')
<1>1. PICK line \in Lines : s' = Wake([s EXCEPT !.in = Append(s.in, line)])
  BY DEF ClientSends
<1> DEFINE q == Append(s.in, line)
           u == [s EXCEPT !.in = q]
<1>2. s \in State /\ s.in \in Seq(Lines) /\ Len(s.in) < MaxIn
  BY DEF Good, Sound, State, ClientSends
<1>3. q \in Seq(Lines) /\ Len(q) <= MaxIn
  BY <1>2, BoundFacts
<1> HIDE DEF q
<1>4. u \in State
  BY <1>2, <1>3 DEF State
<1>5. /\ u.in = q /\ u.id = s.id /\ u.got = s.got /\ u.work = s.work /\ u.rest = s.rest
      /\ u.body = s.body /\ u.writer = s.writer /\ u.status = s.status
      /\ u.end = s.end /\ u.left = s.left /\ u.parse = s.parse
      /\ u.coding = s.coding /\ u.length = s.length
  BY <1>2 DEF State
<1>6. s' = Wake(u)
  BY <1>1 DEF q
<1> HIDE DEF u
<1>7. Bounds(u)
  BY <1>3, <1>5 DEF Tight, Bounds
<1>8. Reading(s) => Reading(u)
  BY <1>5 DEF Reading, Asked, Once, Early, Refused
<1>9. Tight(u)
  BY <1>5, <1>7, <1>8 DEF Tight
<1>10. QED
  BY <1>4, <1>6, <1>9, WakeKeeps

(* An answer that is sent later is what the handler would have sent at once.  *)
LEMMA ReplyHandled ==
  ASSUME NEW t, NEW close \in BOOLEAN
  PROVE  \E does \in {"answer", "close"} :
           reply(t, close) = handle_transaction(t, does, FALSE)
<1>1. CASE close
  <2>1. reply(t, close) = handle_transaction(t, "close", FALSE)
    BY <1>1 DEF handle_transaction, handle
  <2>2. QED
    BY <2>1
<1>2. CASE ~ close
  <2>1. reply(t, close) = handle_transaction(t, "answer", FALSE)
    BY <1>2 DEF handle_transaction, handle
  <2>2. QED
    BY <2>1
<1>3. QED
  BY <1>1, <1>2

(* That tokens are late says nothing of the bounds.                           *)
LEMMA BelatedBounds ==
  ASSUME NEW t \in State, Bounds(t) PROVE Bounds([t EXCEPT !.belated = TRUE])
<1> DEFINE u == [t EXCEPT !.belated = TRUE]
<1>1. /\ u.in = t.in /\ u.id = t.id /\ u.work = t.work /\ u.left = t.left
      /\ u.rest = t.rest
  BY DEF State
<1> HIDE DEF u
<1>2. Bounds(u)
  BY <1>1 DEF Bounds
<1>3. QED
  BY <1>2 DEF u

(* Work that was begun for the headers may ask for the body, if nobody has.   *)
LEMMA WorkEndsTight ==
  ASSUME Good(s), Tight(s), WorkIsDone PROVE Tight(s') \/ (Late(s') /\ Bounds(s'))
<1> DEFINE t == [s EXCEPT !.work = NoWork]
<1>1. s \in State /\ Bounds(s)
  BY DEF Good, Sound, Tight
<1>2. NoWork \in Works
  BY DEF NoWork, Works
<1>3. Good(t)
  BY <1>2, WorkFacts
<1>4. /\ t.in = s.in /\ t.id = s.id /\ t.got = s.got /\ t.work = NoWork /\ t.rest = s.rest
      /\ t.body = s.body /\ t.writer = s.writer /\ t.status = s.status
      /\ t.end = s.end /\ t.left = s.left /\ t.parse = s.parse
      /\ t.coding = s.coding /\ t.length = s.length /\ t.work = NoWork
  BY <1>1 DEF State
<1> HIDE DEF t
<1>5. t.work.for # t.id
  BY <1>1, <1>4 DEF NoWork, Bounds
<1>6. Bounds(t)
  BY <1>1, <1>4 DEF Bounds
<1>7. \/ s' = t
      \/ Late(s') /\ Bounds(s')
      \/ /\ s.work.for = s.id
         /\ \E does \in Doings \ {"later", "receive_later"}, b \in BOOLEAN :
              /\ s.work.from = "body" => does \in {"answer", "close"}
              /\ s' = handle_transaction(t, does, b)
  <2>1. \/ s' = t
        \/ /\ s.work.for = s.id /\ s.work.from = "body"
           /\ \E close \in BOOLEAN : s' = reply(t, close)
        \/ /\ s.work.for = s.id /\ s.work.from = "body"
           /\ s' = send_auth_tokens(t)
        \/ /\ s.work.for = s.id /\ s.work.from = "headers"
           /\ \E does \in Doings \ {"later", "receive_later"}, b \in BOOLEAN :
                s' = handle_transaction(t, does, b)
    BY Zenon DEF WorkIsDone, t
  <2>2. {"answer", "close"} \subseteq Doings \ {"later", "receive_later"} /\ FALSE \in BOOLEAN
    BY DEF Doings
  <2>3. ASSUME NEW close \in BOOLEAN, s' = reply(t, close)
        PROVE  \E does \in Doings \ {"later", "receive_later"}, b \in BOOLEAN :
                 does \in {"answer", "close"} /\ s' = handle_transaction(t, does, b)
    <3>1. PICK does \in {"answer", "close"} : s' = handle_transaction(t, does, FALSE)
      BY <2>3, ReplyHandled
    <3>2. QED
      BY <2>2, <3>1
  <2>4. ASSUME s' = send_auth_tokens(t)
        PROVE  (\E close \in BOOLEAN : s' = reply(t, close)) \/ (Late(s') /\ Bounds(s'))
    <3>1. \/ \E close \in BOOLEAN : s' = reply(t, close)
          \/ Late(s') /\ SameMessage([t EXCEPT !.belated = TRUE], s')
      BY <1>3, <1>4, <2>4, TokensFacts
    <3>2. Bounds([t EXCEPT !.belated = TRUE])
      BY <1>3, <1>6, BelatedBounds DEF Good, Sound
    <3>3. QED
      BY <3>1, <3>2, BoundsAnswer
  <2>5. "body" # "headers"
    OBVIOUS
  <2>6. QED
    BY <2>1, <2>3, <2>4, <2>5, Zenon
<1>8. s.end = "open" => t.rest <= MaxRest /\ (t.parse = "body" => t.left # 0)
  BY <1>4 DEF Tight, Reading
<1>9. CASE s' = t
  <2>1. Asked(s) => Asked(t)
    BY <1>4, <1>5 DEF Asked, Once, Early
  <2>2. Refused(s) => Refused(t)
    BY <1>4 DEF Refused
  <2>3. Reading(s) => Reading(t)
    BY <1>4, <2>1, <2>2 DEF Reading
  <2>4. Tight(t)
    BY <1>4, <1>6, <2>3 DEF Tight
  <2>5. QED
    BY <1>9, <2>4
<1>10. ASSUME s.work.for = s.id, NEW does \in Doings \ {"later", "receive_later"},
              NEW b \in BOOLEAN, s.work.from = "body" => does \in {"answer", "close"}
       PROVE  Tight(handle_transaction(t, does, b))
  <2> DEFINE u == handle_transaction(t, does, b)
  <2>1. /\ Bounds(u)
        /\ u.end = "open" =>
             /\ t.end = "open"
             /\ \/ Answered(t, u)
                \/ does = "later" /\ Began(t, u)
                \/ does \in {"receive", "receive_later"} /\ Took(t, u)
    BY <1>3, <1>6, HandlerDoes
  <2> HIDE DEF u
  <2>2. SUFFICES ASSUME u.end = "open" PROVE Reading(u)
    BY <2>1 DEF Tight, u
  <2>3. /\ s.end = "open" /\ Reading(s)
        /\ Answered(t, u) \/ (does \in {"receive", "receive_later"} /\ Took(t, u))
    BY <1>4, <2>1, <2>2, <1>10 DEF Tight
  <2>4. u.rest <= MaxRest /\ (u.parse = "body" => u.left # 0)
    BY <1>8, <2>3, BoundFacts DEF Answered, SameMessage, Took, SameRequest
  <2>5. CASE Refused(s)
    <3>1. Refused(t)
      BY <1>4, <2>5 DEF Refused
    <3>2. Refused(u)
      BY <2>3, <3>1, StaysRefused
    <3>3. QED
      BY <2>4, <3>2 DEF Reading
  <2>6. CASE Asked(s)
    <3>1. ~ Early(t)
      BY <1>4, <1>10, <2>6 DEF Asked, Early
    <3>2. s.work.from \in {"headers", "body"}
      <4>1. s.work # NoWork
        BY DEF WorkIsDone
      <4>2. QED
        BY <1>1, <4>1 DEF Bounds
    <3>3. ~ t.body
      BY <1>4, <1>10, <2>6, <3>2 DEF Asked, Once
    <3>4. t.rest = 0
      BY <1>3, <3>3 DEF Good, Sound, Whole
    <3>5. t.parse # "finish"
      BY <1>4, <2>6, <3>4 DEF Asked
    <3>6. CASE Answered(t, u)
      <4>1. ~ Early(u) /\ ~ u.body /\ u.work.for # u.id /\ u.parse # "finish"
        BY <1>5, <3>1, <3>3, <3>5, <3>6 DEF Answered, SameMessage, Early
      <4>2. QED
        BY <2>4, <4>1 DEF Asked, Once, Reading
    <3>7. CASE does \in {"receive", "receive_later"} /\ Took(t, u)
      <4>1. s.work.from = "headers"
        BY <1>10, <3>2, <3>7
      <4>2. t.status = "waiting_for_code"
        BY <1>4, <1>10, <2>6, <4>1 DEF Asked, Once
      <4>3. /\ ~ Early(u) /\ u.work.for # u.id /\ u.parse # "finish"
            /\ u.status = "waiting_for_code" /\ u.writer # "none"
        BY <1>5, <3>1, <3>5, <3>7, <4>2 DEF Took, SameRequest, Early
      <4>4. QED
        BY <2>4, <4>3 DEF Asked, Once, Reading
    <3>8. QED
      BY <2>3, <3>6, <3>7
  <2>7. QED
    BY <2>3, <2>5, <2>6 DEF Reading
<1>11. QED
  BY <1>7, <1>9, <1>10

(* The nested adder ends a response that nobody else can begin.               *)
LEMMA AddsTight == ASSUME Good(s), Tight(s), AddBody PROVE Tight(s')
<1> DEFINE n == s.nested - 1
           t == [s EXCEPT !.nested = n]
<1>1. s \in State /\ s.nested \in 1..2
  BY DEF AddBody, Good, Sound, State
<1>2. n \in 0..2 /\ n = s.nested - 1
  BY <1>1
<1>3. s' = IF s.nested > 1 THEN Send(t, "body") ELSE end_response(t)
  BY DEF AddBody
<1> HIDE DEF n
<1>4. t \in State
  BY <1>1, <1>2 DEF State
<1>5. /\ SameMessage(s, t) /\ SameTurn(s, t) /\ t.nested = n /\ t.status = s.status
      /\ t.answered = s.answered /\ t.talking = s.talking /\ t.garbled = s.garbled
  BY <1>1 DEF State, SameMessage, SameTurn
<1> HIDE DEF t
<1>6. /\ ~ s.garbled /\ s.status = "sending_body" /\ s.talking
      /\ s.id = s.answered + 1
  BY <1>1 DEF Good, Sound, Ordered, State, Statuses
<1>7. ~ t.garbled /\ t.talking /\ t.id = t.answered + 1 /\ Woken(t)
  BY <1>5, <1>6 DEF SameMessage, SameTurn, Good, Sound, Woken
<1>8. CASE s.nested > 1
  <2> DEFINE u == Send(t, "body")
  <2>1. SameMessage(t, u) /\ SameTurn(t, u) /\ u.status = t.status
    BY <1>4, SendFacts
  <2>2. s' = u
    BY <1>3, <1>8
  <2> HIDE DEF u
  <2>3. SameMessage(s, u) /\ u.end = s.end /\ u.status = s.status
    BY <1>5, <2>1 DEF SameMessage, SameTurn
  <2>4. QED
    BY <2>2, <2>3, TightSame
<1>9. CASE ~ (s.nested > 1)
  <2> DEFINE u == end_response(t)
  <2>1. t.nested = 0
    BY <1>1, <1>2, <1>5, <1>9
  <2>2. SameMessage(t, u) /\ u.status = "ended" /\ (u.end = "open" => t.end = "open")
    BY <1>4, <1>7, <2>1, EndFacts
  <2>3. s' = u
    BY <1>3, <1>9
  <2> HIDE DEF u
  <2>4. SameMessage(s, u) /\ (u.end = "open" => s.end = "open")
    BY <1>5, <2>2 DEF SameMessage, SameTurn
  <2>5. Bounds(u)
    BY <2>4, BoundsAnswer DEF Tight
  <2>6. Asked(s) => Asked(u)
    BY <1>6, <2>4 DEF SameMessage, Asked, Once, Early
  <2>7. Refused(s) => Refused(u)
    BY <2>2, <2>4 DEF SameMessage, Refused
  <2>8. Reading(s) => Reading(u)
    BY <2>4, <2>6, <2>7 DEF SameMessage, Reading
  <2>9. QED
    BY <2>3, <2>4, <2>5, <2>8 DEF Tight
<1>10. QED
  BY <1>8, <1>9

(* A timer that expires closes the session, or nothing.                       *)
LEMMA ExpiresTight ==
  ASSUME Good(s), Tight(s), NEW idle \in BOOLEAN, on_timer_event(idle) PROVE Tight(s')
<1> DEFINE t == [s EXCEPT !.running = FALSE]
<1>1. s \in State
  BY DEF Good, Sound
<1>2. t \in State
  BY <1>1 DEF State
<1>3. /\ SameMessage(s, t) /\ SameAnswer(s, t) /\ t.timer = s.timer /\ t.end = s.end
      /\ t.events = s.events /\ t.waitsPipe = s.waitsPipe /\ t.waits = s.waits
      /\ t.consumer = s.consumer /\ t.must_be_made = s.must_be_made
  BY <1>1 DEF State, SameMessage, SameAnswer
<1>4. s.timer \in {"activity", "keepalive"} /\ s.status = t.status
  BY <1>1, <1>3 DEF State, SameAnswer
<1>5. \/ s' = shutdown(t)
      \/ s' = Arm(t, "activity")
      \/ s' = reply(t, TRUE)
  BY <1>4 DEF on_timer_event
<1> HIDE DEF t
<1>6. Ordered(t) /\ Woken(t)
  BY <1>3 DEF Good, Sound, SameMessage, SameAnswer, Ordered, Woken
<1>7. Tight(t)
  BY <1>3, <1>4, TightSame
<1>8. ASSUME NEW u, Answers(t, u), u.end # "open" PROVE Tight(u)
  BY <1>7, <1>8, BoundsAnswer, TightClosed DEF Answers, Tight
<1>9. CASE s' = shutdown(t)
  <2>1. Answers(t, shutdown(t)) /\ shutdown(t).end # "open"
    BY <1>2, ShutdownFacts
  <2>2. QED
    BY <1>8, <1>9, <2>1
<1>10. CASE s' = reply(t, TRUE)
  <2>1. Answers(t, reply(t, TRUE)) /\ reply(t, TRUE).end # "open"
    BY <1>2, <1>6, ReplyFacts
  <2>2. QED
    BY <1>8, <1>10, <2>1
<1>11. CASE s' = Arm(t, "activity")
  <2> DEFINE u == Arm(t, "activity")
  <2>1. SameMessage(t, u) /\ u.status = t.status /\ u.end = t.end
    BY <1>2, ArmFacts DEF SameAnswer
  <2>2. s' = u
    BY <1>11
  <2> HIDE DEF u
  <2>3. QED
    BY <1>7, <2>1, <2>2, TightSame
<1>12. QED
  BY <1>5, <1>9, <1>10, <1>11

(* So does one that is replaced.                                              *)
LEMMA SetsTimeoutsTight == ASSUME Good(s), Tight(s), set_timeouts PROVE Tight(s')
<1> DEFINE u == Arm(s, s.timer)
<1>1. s \in State /\ s.timer \in {"activity", "keepalive"}
  BY DEF Good, Sound, State
<1>2. SameMessage(s, u) /\ u.status = s.status /\ u.end = s.end
  BY <1>1, ArmFacts DEF SameAnswer
<1>3. s' = u
  BY DEF set_timeouts
<1> HIDE DEF u
<1>4. QED
  BY <1>2, <1>3, TightSame

IBounds == s = Gone \/ (Good(s) /\ Tight(s)) \/ (Late(s) /\ Bounds(s))

(* The bounds hold at the start, and every step keeps them.                   *)
LEMMA BoundsInvariance == Spec => []IBounds
<1>1. Init => IBounds
  BY Begins, BeginsTight DEF IBounds
<1>2. IBounds /\ [Next]_s => IBounds'
  <2> SUFFICES ASSUME IBounds, [Next]_s PROVE IBounds'
    OBVIOUS
  <2>1. CASE UNCHANGED s
    BY <2>1 DEF IBounds
  <2>2. CASE Next /\ Good(s) /\ Tight(s)
    <3>1. CASE ConsumerEvent
      BY <2>2, <3>1, Consumes, ConsumesTight DEF IBounds
    <3>2. CASE ClientSends
      BY <2>2, <3>2, Sends, SendsTight DEF IBounds
    <3>3. CASE WorkIsDone
      <4>1. Good(s') \/ Late(s')
        BY <2>2, <3>3, WorkEnds
      <4>2. Tight(s') \/ (Late(s') /\ Bounds(s'))
        BY <2>2, <3>3, WorkEndsTight
      <4>3. Tight(s') => Bounds(s')
        BY DEF Tight
      <4>4. QED
        BY <4>1, <4>2, <4>3 DEF IBounds
    <3>4. CASE AddBody
      BY <2>2, <3>4, Adds, AddsTight DEF IBounds
    <3>5. CASE \E idle \in BOOLEAN : on_timer_event(idle)
      BY <2>2, <3>5, Expires, ExpiresTight DEF IBounds
    <3>6. CASE set_timeouts
      BY <2>2, <3>6, SetsTimeouts, SetsTimeoutsTight DEF IBounds
    <3>7. CASE ChannelDone
      BY <3>7 DEF ChannelDone, Gone, IBounds
    <3>8. QED
      BY <2>2, <3>1, <3>2, <3>3, <3>4, <3>5, <3>6, <3>7 DEF Next
  <2>3. CASE Next /\ Late(s) /\ Bounds(s)
    BY <2>3, LateStays, BoundsAnswer DEF IBounds
  <2>4. QED
    BY <2>1, <2>2, <2>3, GoneStays DEF IBounds
<1>3. QED
  BY <1>1, <1>2, PTL DEF Spec

(* The session's state stays within its bounds, whatever the client sends and *)
(* whenever the handler asks for a body, answers or fails to take it.         *)
THEOREM SessionIsTyped == Spec => []TypeOK
<1>1. (Good(s) /\ Tight(s)) \/ (Late(s) /\ Bounds(s)) => TypeOK
  <2>1. SUFFICES ASSUME (Good(s) /\ Tight(s)) \/ (Late(s) /\ Bounds(s)) PROVE TypeOK
    OBVIOUS
  <2>2. s \in State /\ Bounds(s) /\ s.events \in 0..2
    <3>1. s \in State /\ Bounds(s) /\ (Woken(s) \/ s.events = 0)
      BY <2>1 DEF Good, Sound, Tight, Late
    <3>2. QED
      BY <3>1 DEF Woken
  <2>3. {s.waitsPipe, s.consumer, s.length, s.body, s.must_be_made, s.got, s.waits,
         s.closes, s.close, s.running, s.talking, s.garbled, s.belated} \subseteq BOOLEAN
    BY <2>2 DEF State
  <2>4. s.work = NoWork \/ s.work \in [for : Nat \ {0}, from : {"headers", "body"}]
    BY <2>2 DEF State, Bounds
  <2>5. /\ s.in \in Seq(Lines) /\ Len(s.in) <= MaxIn
        /\ s.left \in 0..BodySize /\ s.rest \in 0..MaxRest + Piece
    BY <2>2 DEF State, Bounds
  <2>6. /\ s.parse \in Parses /\ s.coding \in {"none", "chunked"}
        /\ s.writer \in {"none", "answer", "later"} /\ s.status \in Statuses
        /\ s.nested \in 0..2 /\ s.timer \in {"activity", "keepalive"}
        /\ s.answered \in Nat /\ s.id \in Nat
        /\ s.end \in {"open", "closing", "ended"}
        /\ {s.lost, s.reported} \subseteq SUBSET Losses
    BY <2>2 DEF State
  <2>7. QED
    BY <2>2, <2>3, <2>4, <2>5, <2>6 DEF TypeOK, Parses, Statuses
<1>2. s = Gone => TypeOK
  <2>1. SUFFICES ASSUME s = Gone PROVE TypeOK
    OBVIOUS
  <2>2. {s.waitsPipe, s.consumer, s.length, s.body, s.must_be_made, s.got, s.waits,
         s.closes, s.close, s.running, s.talking, s.garbled, s.belated} \subseteq BOOLEAN
    BY <2>1 DEF Gone, Opened
  <2>3. /\ s.in \in Seq(Lines) /\ Len(s.in) <= MaxIn /\ s.events \in 0..2
        /\ s.left \in 0..BodySize /\ s.rest \in 0..MaxRest + Piece /\ s.work = NoWork
    BY <2>1, BoundFacts DEF Gone, Opened
  <2>4. QED
    BY <2>1, <2>2, <2>3 DEF Gone, Opened, TypeOK
<1>3. QED
  BY <1>1, <1>2, BoundsInvariance, PTL DEF IBounds
=============================================================================
