---------------------------- MODULE FtpSessionProofs ----------------------------
(***************************************************************************)
(* Proofs about FtpSession: type correctness, no lost wake-up of the       *)
(* consumer, no session without a timer; one final reply per command, work *)
(* that belongs to the command that executes, and logins that last.        *)
(*                                                                         *)
(* The handlers are compositions of a few methods.  What these have in     *)
(* common is the relation Calm(s, t): t keeps the input and the calls of s,*)
(* a line queued in s is still queued in t or its event is on its way, or  *)
(* t is shut down.  Each method is shown to be well typed and calm, Calm   *)
(* is transitive, and a calm step preserves the invariant; what remains    *)
(* for each action is what it does besides calling calm methods.           *)
(*                                                                         *)
(* What commands, replies and results have to do with each other is Good.  *)
(* It does not hold in the middle of a handler: a method finds the session *)
(* Answerable, its reply leaves it Sound, and the action makes it good.    *)
(***************************************************************************)
EXTENDS FtpSession, TLAPS

Calm(s, t) ==
  /\ t.input = s.input /\ t.calls = s.calls /\ t.auths = s.auths
  /\ s.timer => t.timer
  /\ s.shut => t.shut
  /\ t.recv # "idle" => s.recv # "idle"
  /\ t.queued => s.queued /\ t.cur = s.cur
  /\ ~t.shut => /\ t.waiting = s.waiting /\ t.recv = s.recv
                /\ s.event => t.event
                /\ s.queued => t.queued \/ t.event

HasCalls(s) == \E c \in AsyncCommands : s.calls[c] > 0

(* The inductive strengthening of NoLostWakeup: what waits is in flight, and  *)
(* the pipe thinks of the consumer as waiting only with a line or an event.   *)
Wake(s) ==
  /\ s.queued => s.cur # NoCommand
  /\ s.recv # "idle" => HasCalls(s)
  /\ ~s.shut /\ s.input # <<>> => s.event \/ s.queued \/ s.recv = "aborted"
  /\ ~s.shut /\ s.input = <<>> /\ s.waiting => s.event

Timed(s) == ~s.shut => s.timer \/ s.auths > 0

IInv == TypeOK /\ Wake(ses) /\ Timed(ses)

-----------------------------------------------------------------------------
(* Calm *)

LEMMA CalmReflexive == ASSUME NEW s PROVE Calm(s, s)
BY DEF Calm

(* Calm steps compose: a method that calls calm methods is calm.            *)
LEMMA CalmTransitive ==
  ASSUME NEW s, NEW t, NEW u, Calm(s, t), Calm(t, u) PROVE Calm(s, u)
BY DEF Calm

(* A calm step keeps a wake-up for every line left in the buffer.           *)
LEMMA CalmWake ==
  ASSUME NEW s, NEW t, Wake(s), Calm(s, t) PROVE Wake(t)
BY DEF Calm, Wake, HasCalls

(* A calm step leaves a timer running, or a login under way.                *)
LEMMA CalmTimed ==
  ASSUME NEW s, NEW t, Timed(s), Calm(s, t) PROVE Timed(t)
BY DEF Calm, Timed

-----------------------------------------------------------------------------
(* Methods *)

LEMMA Fields ==
  ASSUME NEW s \in State
  PROVE /\ s.input \in Seq(Lines)
        /\ s.cur \in Commands \cup {NoCommand}
        /\ s.recv \in ReceiveStates
        /\ s.calls \in [AsyncCommands -> Nat]
        /\ s.fails \in Nat
        /\ s.auths \in Nat
        /\ s.owed \in Int
BY DEF State

(* The Boolean fields of a state, which act_upon_command_reply() combines.  *)
LEMMA Flags ==
  ASSUME NEW s \in State
  PROVE /\ s.event \in BOOLEAN /\ s.waiting \in BOOLEAN /\ s.queued \in BOOLEAN
        /\ s.nested \in BOOLEAN /\ s.file \in BOOLEAN /\ s.timer \in BOOLEAN
        /\ s.shut \in BOOLEAN /\ s.user \in BOOLEAN /\ s.authOp \in BOOLEAN
        /\ s.authed \in BOOLEAN /\ s.handler \in BOOLEAN /\ s.info \in BOOLEAN
        /\ s.lookup \in BOOLEAN /\ s.prevErr \in BOOLEAN /\ s.failed \in BOOLEAN
        /\ s.flush \in BOOLEAN /\ s.disturbed \in BOOLEAN
BY DEF State

(* What shutdown() sets, and what it leaves alone.                          *)
LEMMA ShutdownFields ==
  ASSUME NEW s \in State, NEW r \in ReceiveStates
  PROVE [s EXCEPT !.recv = r, !.event = FALSE, !.waiting = FALSE, !.shut = TRUE]
          \in State
BY DEF State

(* shutdown() keeps the type of the state.                                  *)
LEMMA ShutdownType ==
  ASSUME NEW s \in State PROVE Shutdown(s) \in State
<1> DEFINE r == IF s.recv = "pending" THEN "aborted" ELSE s.recv
<1>1. r \in ReceiveStates
  BY Fields DEF ReceiveStates
<1> HIDE DEF r
<1>2. [s EXCEPT !.recv = r, !.event = FALSE, !.waiting = FALSE, !.shut = TRUE]
        \in State
  BY <1>1, ShutdownFields
<1> QED BY <1>2 DEF Shutdown, r

(* The fields a reply writes.                                                 *)
LEMMA ReplyFields ==
  ASSUME NEW s \in State, NEW c \in Commands \cup {NoCommand}, NEW e \in BOOLEAN,
         NEW q \in BOOLEAN, NEW f \in BOOLEAN, NEW n \in Nat, NEW o \in Int
  PROVE [s EXCEPT !.cur = c, !.event = e, !.queued = q, !.file = f,
                  !.fails = n, !.owed = o] \in State
BY ZenonT(60) DEF State

(* The history of owed replies stays an integer.                            *)
LEMMA OweType ==
  ASSUME NEW s \in State, NEW n \in Int PROVE Owe(s, n) \in Int
BY Fields DEF Owe

(* A reply keeps the type of the state.                                     *)
LEMMA ActType ==
  ASSUME NEW s \in State, NEW d \in 1..5
  PROVE act_upon_command_reply(s, d) \in State
<1> DEFINE c == IF d # 1 THEN NoCommand ELSE s.cur
           e == s.event \/ (d # 1 /\ s.queued /\ ~s.shut)
           q == s.queued /\ ~(d # 1)
           f == s.file /\ d \in {1, 3}
           n == IF d # 5 THEN 0 ELSE IF s.authed THEN s.fails ELSE s.fails + 1
           o == IF d # 1 THEN Owe(s, -1) ELSE s.owed
           t == [s EXCEPT !.cur = c, !.event = e, !.queued = q, !.file = f,
                          !.fails = n, !.owed = o]
<1>1. c \in Commands \cup {NoCommand}
  BY Fields
<1>2. e \in BOOLEAN /\ q \in BOOLEAN /\ f \in BOOLEAN
  BY Flags
<1>3. n \in Nat
  BY Fields
<1>4. o \in Int
  BY Fields, OweType
<1>5. t \in State
  <2> HIDE DEF c, e, q, f, n, o
  <2> QED BY <1>1, <1>2, <1>3, <1>4, ReplyFields, ZenonT(30)
<1>6. Shutdown(t) \in State
  BY <1>5, ShutdownType
<1>7. act_upon_command_reply(s, d)
        = IF t.fails = FailureLimit /\ t.fails > s.fails THEN Shutdown(t) ELSE t
  BY DEF act_upon_command_reply
<1> QED
  <2> HIDE DEF t
  <2> QED BY <1>5, <1>6, <1>7

(* A step that touches none of the fields Calm speaks of is calm.             *)
Same(s, t) ==
  /\ t.input = s.input /\ t.calls = s.calls /\ t.auths = s.auths
  /\ t.timer = s.timer /\ t.shut = s.shut /\ t.recv = s.recv
  /\ t.queued = s.queued /\ t.cur = s.cur
  /\ t.waiting = s.waiting /\ t.event = s.event

(* A step that changes none of the fields Wake and Timed read is calm.      *)
LEMMA SameCalm == ASSUME NEW s, NEW t, Same(s, t) PROVE Calm(s, t)
BY DEF Same, Calm

(* shutdown() is calm: nothing is read any more, and nothing is awaited.    *)
LEMMA ShutdownCalm ==
  ASSUME NEW s \in State PROVE Calm(s, Shutdown(s))
<1> DEFINE t == Shutdown(s)
<1>1. /\ t.input = s.input /\ t.calls = s.calls /\ t.auths = s.auths
      /\ t.timer = s.timer /\ t.shut = TRUE
      /\ t.queued = s.queued /\ t.cur = s.cur
      /\ t.recv = IF s.recv = "pending" THEN "aborted" ELSE s.recv
  BY DEF Shutdown, State
<1>2. Calm(s, t)
  <2> HIDE DEF t
  <2> QED BY <1>1 DEF Calm
<1> QED BY <1>2 DEF t

(* act_upon_command_reply(): a queued line gets its event.                    *)
LEMMA ActCalm ==
  ASSUME NEW s \in State, NEW d \in 1..5
  PROVE Calm(s, act_upon_command_reply(s, d))
<1> DEFINE c == IF d # 1 THEN NoCommand ELSE s.cur
           e == s.event \/ (d # 1 /\ s.queued /\ ~s.shut)
           q == s.queued /\ ~(d # 1)
           f == s.file /\ d \in {1, 3}
           n == IF d # 5 THEN 0 ELSE IF s.authed THEN s.fails ELSE s.fails + 1
           o == IF d # 1 THEN Owe(s, -1) ELSE s.owed
           t == [s EXCEPT !.cur = c, !.event = e, !.queued = q, !.file = f,
                          !.fails = n, !.owed = o]
           r == act_upon_command_reply(s, d)
<1>1. r = t \/ r = Shutdown(t)
  BY DEF act_upon_command_reply
<1>2. /\ c \in Commands \cup {NoCommand}
      /\ n \in Nat
      /\ o \in Int
  <2>1. c \in Commands \cup {NoCommand}
    BY Fields
  <2>2. n \in Nat
    BY Fields
  <2>3. o \in Int
    BY Fields, OweType
  <2> HIDE DEF c, n, o
  <2> QED BY <2>1, <2>2, <2>3
<1>3. e \in BOOLEAN /\ q \in BOOLEAN /\ f \in BOOLEAN
  BY Flags
<1>4. t \in State
  <2> HIDE DEF c, e, q, f, n, o
  <2> QED BY ZenonT(40), <1>2, <1>3, ReplyFields
<1>5. /\ t.input = s.input /\ t.calls = s.calls /\ t.auths = s.auths
      /\ t.timer = s.timer /\ t.shut = s.shut /\ t.recv = s.recv
      /\ t.waiting = s.waiting
      /\ t.queued = q /\ t.event = e /\ t.cur = c
  <2> HIDE DEF c, e, q, f, n, o
  <2> QED BY DEF State
<1>6. Calm(s, t)
  <2> HIDE DEF t
  <2>1. q => s.queued /\ c = s.cur
    OBVIOUS
  <2>2. s.event => e
    OBVIOUS
  <2>3. ~s.shut /\ s.queued => q \/ e
    OBVIOUS
  <2> HIDE DEF c, e, q
  <2> QED BY <1>5, <2>1, <2>2, <2>3 DEF Calm
<1>7. Calm(t, Shutdown(t))
  <2> HIDE DEF t
  <2> QED BY <1>4, ShutdownCalm
<1>8. Calm(s, Shutdown(t))
  <2> HIDE DEF t
  <2> QED BY <1>6, <1>7, CalmTransitive
<1> HIDE DEF t
<1> QED BY <1>1, <1>6, <1>8

(* respond<>() *)
LEMMA RespondCalm ==
  ASSUME NEW s \in State, NEW d \in 1..5
  PROVE respond(s, d) \in State /\ Calm(s, respond(s, d))
<1> DEFINE t == [s EXCEPT !.end = "nested_"]
<1>0. "nested_" \in Ends
  BY DEF Ends
<1>1. t \in State
  BY <1>0 DEF State
<1>2. Same(s, t)
  BY DEF State, Same
<1>3. Calm(s, t)
  BY <1>2, SameCalm
<1> QED BY <1>1, <1>3, ActType, ActCalm DEF respond

(* close_data_connection() *)
LEMMA CloseCalm ==
  ASSUME NEW s \in State
  PROVE close_data_connection(s) \in State /\ Calm(s, close_data_connection(s))
<1> DEFINE t == close_data_connection(s)
<1>0. "clear" \in DataChannels /\ "none" \in DataSockets /\ "none" \in ListenSockets
  BY DEF DataChannels, DataSockets, ListenSockets
<1>1. t \in State
  BY ZenonT(40), <1>0 DEF close_data_connection, State
<1>2. Same(s, t)
  BY DEF close_data_connection, State, Same
<1> QED BY <1>1, <1>2, SameCalm

(* handle_data_transfer() *)
LEMMA TransferCalm ==
  ASSUME NEW s \in State, NEW status, NEW error \in BOOLEAN
  PROVE /\ handle_data_transfer(s, status, error) \in State
        /\ Calm(s, handle_data_transfer(s, status, error))
<1> DEFINE bad == error \/ (s.handler /\ s.prevErr)
           digit == IF bad THEN 4 ELSE IF status = "started" THEN 1 ELSE 2
           r == respond(s, digit)
           a == [r EXCEPT !.prevErr = FALSE]
           b == [s EXCEPT !.prevErr = error]
           t == IF s.handler THEN a ELSE b
<1>1. r \in State /\ Calm(s, r)
  BY RespondCalm
<1>2. a \in State /\ Calm(s, a)
  <2> HIDE DEF r
  <2>1. a \in State
    BY <1>1 DEF State
  <2>2. Same(r, a)
    BY <1>1 DEF State, Same
  <2> QED BY <1>1, <2>1, <2>2, SameCalm, CalmTransitive
<1>3. b \in State /\ Calm(s, b)
  <2>1. b \in State
    BY DEF State
  <2>2. Same(s, b)
    BY DEF State, Same
  <2> QED BY <2>1, <2>2, SameCalm
<1>4. t \in State /\ Calm(s, t)
  <2> HIDE DEF a, b
  <2> QED BY <1>2, <1>3
<1>5. close_data_connection(t) \in State /\ Calm(s, close_data_connection(t))
  <2> HIDE DEF t
  <2> QED BY <1>4, CloseCalm, CalmTransitive
<1>6. handle_data_transfer(s, status, error)
        = IF bad \/ status = "stopped" THEN close_data_connection(t) ELSE t
  BY DEF handle_data_transfer
<1> QED
  <2> HIDE DEF t, bad
  <2> QED BY <1>4, <1>5, <1>6

(* setup_data_channel() *)
LEMMA SetupCalm ==
  ASSUME NEW s \in State
  PROVE setup_data_channel(s) \in State /\ Calm(s, setup_data_channel(s))
<1> DEFINE a == [s EXCEPT !.sock = "connecting"]
           b == [s EXCEPT !.chan = "attached", !.sock = "connected"]
<1>1. "attached" \in DataChannels /\ {"connecting", "connected"} \subseteq DataSockets
  BY DEF DataChannels, DataSockets
<1>2. a \in State /\ b \in State
  BY <1>1 DEF State
<1>3. Same(s, a) /\ Same(s, b)
  BY DEF State, Same
<1>4. Calm(s, a) /\ Calm(s, b)
  BY <1>3, SameCalm
<1> HIDE DEF a, b
<1>5. setup_data_channel(s) \in {a, b, s}
  BY DEF setup_data_channel, a, b
<1> QED BY <1>2, <1>4, <1>5, CalmReflexive

(* start_data_transfer() *)
LEMMA StartCalm ==
  ASSUME NEW s \in State, NEW connects \in BOOLEAN
  PROVE /\ start_data_transfer(s, connects) \in State
        /\ Calm(s, start_data_transfer(s, connects))
<1> DEFINE t == [s EXCEPT !.handler = TRUE]
           a == handle_data_transfer(t, "connecting", TRUE)
           b == handle_data_transfer(setup_data_channel(t), "started", FALSE)
<1>1. t \in State
  BY DEF State
<1>2. Same(s, t)
  BY DEF State, Same
<1>3. Calm(s, t)
  BY <1>2, SameCalm
<1> HIDE DEF t
<1>4. setup_data_channel(t) \in State /\ Calm(s, setup_data_channel(t))
  BY <1>1, <1>3, SetupCalm, CalmTransitive
<1>5. a \in State /\ Calm(s, a)
  BY <1>1, <1>3, TransferCalm, CalmTransitive
<1>6. b \in State /\ Calm(s, b)
  BY <1>4, TransferCalm, CalmTransitive
<1>7. start_data_transfer(s, connects) \in {a, b}
  BY DEF start_data_transfer, t
<1> HIDE DEF a, b
<1> QED BY <1>5, <1>6, <1>7

(* Replaced(): what PASV and PORT have in common.                             *)
LEMMA ReplacedCalm ==
  ASSUME NEW s \in State PROVE Replaced(s) \in State /\ Calm(s, Replaced(s))
<1> DEFINE c == IF s.chan = "attached" THEN "dangling" ELSE s.chan
           t == [s EXCEPT !.prevErr = FALSE, !.chan = c]
<1>1. c \in DataChannels
  BY DEF State, DataChannels
<1>2. t \in State
  <2> HIDE DEF c
  <2> QED BY <1>1 DEF State
<1>3. Same(s, t)
  <2> HIDE DEF c
  <2> QED BY DEF State, Same
<1>4. Replaced(s) = t
  BY DEF Replaced
<1> QED BY <1>2, <1>3, <1>4, SameCalm

(* The sockets and the flags of a lookup are not what Calm speaks of.         *)
LEMMA SocketsCalm ==
  ASSUME NEW s \in State, NEW k \in DataSockets, NEW l \in ListenSockets
  PROVE LET t == [s EXCEPT !.sock = k, !.listen = l] IN t \in State /\ Calm(s, t)
<1> DEFINE t == [s EXCEPT !.sock = k, !.listen = l]
<1>1. t \in State
  BY DEF State
<1>2. Same(s, t)
  BY DEF State, Same
<1> QED BY <1>1, <1>2, SameCalm

(* get_data_local_info() is calm, whatever its outcome.                     *)
LEMMA InfoCalm ==
  ASSUME NEW s \in State, NEW i \in BOOLEAN, NEW l \in BOOLEAN
  PROVE LET t == [s EXCEPT !.info = i, !.lookup = l] IN t \in State /\ Calm(s, t)
<1> DEFINE t == [s EXCEPT !.info = i, !.lookup = l]
<1>1. t \in State
  BY DEF State
<1>2. Same(s, t)
  BY DEF State, Same
<1> QED BY <1>1, <1>2, SameCalm

(* get_data_local_info(), for each of its outcomes.                           *)
LEMMA LocalInfoCalm ==
  ASSUME NEW s \in State,
         NEW outcome \in {"no_port", "last_port", "ready", "lookup", "no_host"}
  PROVE /\ get_data_local_info(s, outcome) \in State
        /\ Calm(s, get_data_local_info(s, outcome))
<1> DEFINE r == Replaced(s)
           t == [r EXCEPT !.sock = "none", !.listen = "open"]
           d == [t EXCEPT !.listen = "deaf"]
           a == [t EXCEPT !.info = TRUE, !.lookup = TRUE]
           b == [t EXCEPT !.info = FALSE, !.lookup = FALSE]
<1>1. r \in State /\ Calm(s, r)
  BY ReplacedCalm
<1>2. "none" \in DataSockets /\ {"open", "deaf"} \subseteq ListenSockets
  BY DEF DataSockets, ListenSockets
<1>3. t \in State /\ Calm(s, t)
  <2> HIDE DEF r
  <2> QED BY <1>1, <1>2, SocketsCalm, CalmTransitive
<1>4. d \in State /\ Calm(s, d)
  <2> HIDE DEF t
  <2>1. d \in State
    BY <1>2, <1>3 DEF State
  <2>2. Same(t, d)
    BY <1>3 DEF State, Same
  <2> QED BY <1>3, <2>1, <2>2, SameCalm, CalmTransitive
<1>5. a \in State /\ Calm(s, a)
  <2> HIDE DEF t
  <2> QED BY <1>3, InfoCalm, CalmTransitive
<1>6. b \in State /\ Calm(s, b)
  <2> HIDE DEF t
  <2> QED BY <1>3, InfoCalm, CalmTransitive
<1>7. get_data_local_info(s, outcome)
        \in {respond(d, 4), respond(t, 4), respond(t, 2), a, respond(b, 4)}
  BY DEF get_data_local_info
<1>8. respond(d, 4) \in State /\ Calm(s, respond(d, 4))
  <2> HIDE DEF d
  <2> QED BY <1>4, RespondCalm, CalmTransitive
<1>9. ASSUME NEW n \in 1..5 PROVE respond(t, n) \in State /\ Calm(s, respond(t, n))
  <2> HIDE DEF t
  <2> QED BY <1>3, RespondCalm, CalmTransitive
<1>10. respond(b, 4) \in State /\ Calm(s, respond(b, 4))
  <2> HIDE DEF b
  <2> QED BY <1>6, RespondCalm, CalmTransitive
<1> HIDE DEF d, t, a, b
<1>11. /\ respond(t, 2) \in State /\ Calm(s, respond(t, 2))
       /\ respond(t, 4) \in State /\ Calm(s, respond(t, 4))
  BY <1>9
<1> QED BY <1>5, <1>7, <1>8, <1>10, <1>11

(* set_data_peer_hostaddress() *)
LEMMA PeerCalm ==
  ASSUME NEW s \in State, NEW binds \in BOOLEAN
  PROVE /\ set_data_peer_hostaddress(s, binds) \in State
        /\ Calm(s, set_data_peer_hostaddress(s, binds))
<1> DEFINE r == Replaced(s)
           k == IF binds THEN "fresh" ELSE "none"
           t == [r EXCEPT !.listen = "none", !.sock = k]
           d == IF binds THEN 2 ELSE 4
<1>1. r \in State /\ Calm(s, r)
  BY ReplacedCalm
<1>2. "none" \in ListenSockets /\ k \in DataSockets
  BY DEF DataSockets, ListenSockets
<1>3. t \in State /\ Calm(s, t)
  <2> HIDE DEF r, k
  <2>1. t \in State
    BY <1>1, <1>2 DEF State
  <2>2. Same(r, t)
    BY <1>1 DEF State, Same
  <2> QED BY <1>1, <2>1, <2>2, SameCalm, CalmTransitive
<1>4. d \in 1..5
  OBVIOUS
<1>5. set_data_peer_hostaddress(s, binds) = respond(t, d)
  BY DEF set_data_peer_hostaddress
<1> HIDE DEF t, d
<1> QED BY <1>3, <1>4, <1>5, RespondCalm, CalmTransitive

(* data_socket_shutdown() *)
LEMMA SocketShutdownCalm ==
  ASSUME NEW s \in State, NEW flushed \in BOOLEAN
  PROVE /\ data_socket_shutdown(s, flushed) \in State
        /\ Calm(s, data_socket_shutdown(s, flushed))
<1> DEFINE k == IF s.flush THEN "stuck" ELSE "flushing"
           a == [s EXCEPT !.flush = TRUE]
           b == [s EXCEPT !.flush = TRUE, !.sock = k]
           h == handle_data_transfer(a, "stopped", s.failed)
<1>1. k \in DataSockets
  BY DEF DataSockets
<1>2. a \in State /\ b \in State
  <2> HIDE DEF k
  <2> QED BY <1>1 DEF State
<1>3. Same(s, a) /\ Same(s, b)
  <2> HIDE DEF k
  <2> QED BY DEF State, Same
<1>4. Calm(s, a) /\ Calm(s, b)
  BY <1>3, SameCalm
<1>5. s.failed \in BOOLEAN
  BY Flags
<1>6. h \in State /\ Calm(s, h)
  <2> HIDE DEF a
  <2> QED BY <1>2, <1>4, <1>5, TransferCalm, CalmTransitive
<1>7. data_socket_shutdown(s, flushed) = IF flushed THEN h ELSE b
  BY DEF data_socket_shutdown
<1> HIDE DEF b, h
<1> QED BY <1>2, <1>4, <1>6, <1>7

(* stop_processing_nested_adder() *)
LEMMA NestedCalm ==
  ASSUME NEW s \in State
  PROVE /\ stop_processing_nested_adder(s) \in State
        /\ Calm(s, stop_processing_nested_adder(s))
<1> DEFINE t == [s EXCEPT !.nested = FALSE]
<1>1. t \in State
  BY DEF State
<1>2. Same(s, t)
  BY DEF State, Same
<1> QED
  BY <1>1, <1>2, SameCalm, ActType, ActCalm, CalmTransitive
     DEF stop_processing_nested_adder

(* ABOR() *)
LEMMA AborCalm ==
  ASSUME NEW s \in State PROVE ABOR(s) \in State /\ Calm(s, ABOR(s))
<1> DEFINE a == stop_processing_nested_adder(s)
           b == close_data_connection(a)
           c == respond(b, 4)
           t == IF s.nested THEN c ELSE s
<1>1. a \in State /\ Calm(s, a)
  BY NestedCalm
<1>2. b \in State /\ Calm(s, b)
  <2> HIDE DEF a
  <2> QED BY <1>1, CloseCalm, CalmTransitive
<1>3. c \in State /\ Calm(s, c)
  <2> HIDE DEF b
  <2> QED BY <1>2, RespondCalm, CalmTransitive
<1>4. t \in State /\ Calm(s, t)
  <2> HIDE DEF c
  <2> QED BY <1>3, CalmReflexive
<1>5. ABOR(s) = respond(t, 2)
  BY DEF ABOR
<1> HIDE DEF t
<1> QED BY <1>4, <1>5, RespondCalm, CalmTransitive

(* Received() *)
LEMMA ReceivedCalm ==
  ASSUME NEW s \in State, NEW c \in AsyncCommands, NEW ok \in BOOLEAN,
         NEW connects \in BOOLEAN
  PROVE /\ Received(s, c, ok, connects) \in State
        /\ Calm(s, Received(s, c, ok, connects))
<1> DEFINE e == [s EXCEPT !.end = "nested_"]
           n == [s EXCEPT !.nested = TRUE]
<1>1. "nested_" \in Ends
  BY DEF Ends
<1>2. e \in State /\ n \in State
  BY <1>1 DEF State
<1>3. Same(s, e) /\ Same(s, n)
  BY DEF State, Same
<1>4. Calm(s, e) /\ Calm(s, n)
  BY <1>3, SameCalm
<1>5. Received(s, c, ok, connects)
        \in {respond(s, 5), respond(s, 2), start_data_transfer(s, connects), e, n}
  BY DEF Received, AsyncCommands
<1>6. \A d \in {2, 5} : respond(s, d) \in State /\ Calm(s, respond(s, d))
  BY RespondCalm
<1> HIDE DEF e, n
<1> QED BY <1>2, <1>4, <1>5, <1>6, StartCalm

(* handle_authenticate_user_response() sets the timer.                        *)
LEMMA ResponseCalm ==
  ASSUME NEW s \in State, NEW result \in {"user", "denied", "quota", "null"}
  PROVE LET t == handle_authenticate_user_response(s, result)
        IN t \in State /\ Calm(s, t) /\ t.timer
<1> DEFINE p == (result # "null")
           a == [s EXCEPT !.timer = TRUE, !.authOp = p]
           b == [s EXCEPT !.timer = TRUE]
           c == [s EXCEPT !.user = FALSE]
           d == IF result = "quota" THEN 4 ELSE 5
           r == respond(c, d)
           e == [r EXCEPT !.timer = TRUE]
           t == handle_authenticate_user_response(s, result)
<1>1. p \in BOOLEAN /\ d \in 1..5
  OBVIOUS
<1>2. a \in State /\ b \in State /\ c \in State
  <2> HIDE DEF p
  <2> QED BY ZenonT(40), <1>1 DEF State
<1>3. a.timer /\ b.timer
  <2> HIDE DEF p
  <2> QED BY DEF State
<1>4. Calm(s, a) /\ Calm(s, b) /\ Calm(s, c)
  <2> HIDE DEF p
  <2> QED BY DEF State, Calm
<1>5. r \in State /\ Calm(s, r)
  <2> HIDE DEF c, d
  <2> QED BY <1>1, <1>2, <1>4, RespondCalm, CalmTransitive
<1>6. e \in State /\ Calm(s, e) /\ e.timer
  <2> HIDE DEF r
  <2>1. e \in State
    BY <1>5 DEF State
  <2>2. Calm(r, e) /\ e.timer
    BY <1>5 DEF State, Calm
  <2> QED BY <1>5, <2>1, <2>2, CalmTransitive
<1>7. t \in {respond(a, 3), respond(b, 2), e}
  BY DEF handle_authenticate_user_response
<1> HIDE DEF a, b, e, t
<1>8. /\ respond(a, 3) \in State /\ Calm(a, respond(a, 3))
      /\ respond(b, 2) \in State /\ Calm(b, respond(b, 2))
  BY <1>2, RespondCalm
<1>9. respond(a, 3).timer /\ respond(b, 2).timer
  BY <1>3, <1>8 DEF Calm
<1>10. t \in State /\ Calm(s, t) /\ t.timer
  BY <1>4, <1>6, <1>7, <1>8, <1>9, CalmTransitive
<1> QED BY <1>10 DEF t

-----------------------------------------------------------------------------
(* Steps *)

(* A calm step preserves the invariant.                                       *)
LEMMA CalmStep ==
  ASSUME IInv, ses' \in State, Calm(ses, ses') PROVE IInv'
<1>1. Wake(ses')
  BY CalmWake DEF IInv
<1>2. Timed(ses')
  BY CalmTimed DEF IInv
<1> QED BY <1>1, <1>2 DEF IInv, TypeOK, Wake, Timed, HasCalls

(* What holds when process_buffer_line() has taken a line and not yet said    *)
(* whether it consumes it: the invariant, less what the pipe will see to.     *)
Ready(s) ==
  /\ s.input # <<>>
  /\ s.queued => s.cur # NoCommand
  /\ s.recv # "idle" => HasCalls(s)
  /\ ~s.shut => ~s.waiting
  /\ Timed(s)

(* A calm step keeps a line ready to be consumed ready.                     *)
LEMMA CalmReady ==
  ASSUME NEW s, NEW t, Ready(s), Calm(s, t) PROVE Ready(t)
BY DEF Calm, Ready, Timed, HasCalls

(* Consuming a line, in a ready state, restores the invariant.              *)
LEMMA ConsumedStep ==
  ASSUME NEW s \in State, Ready(s), Consumed(s) PROVE IInv'
<1> DEFINE more == Len(s.input) > 1 /\ ~s.shut
           e == s.event \/ more
           w == s.waiting \/ more
           i == Tail(s.input)
           t == [s EXCEPT !.input = i, !.event = e, !.waiting = w]
<1>1. ses' = t
  BY DEF Consumed
<1>2. i \in Seq(Lines) /\ (i # <<>> => Len(s.input) > 1)
  BY Fields DEF Ready
<1>3. e \in BOOLEAN /\ w \in BOOLEAN
  BY Flags
<1>4. t \in State
  <2> HIDE DEF i, e, w
  <2> QED BY <1>2, <1>3 DEF State
<1>5. /\ t.input = i /\ t.event = e /\ t.waiting = w
      /\ t.queued = s.queued /\ t.cur = s.cur /\ t.recv = s.recv
      /\ t.calls = s.calls /\ t.shut = s.shut /\ t.timer = s.timer
      /\ t.auths = s.auths
  <2> HIDE DEF i, e, w
  <2> QED BY DEF State
<1>6. ~s.shut /\ i # <<>> => e
  BY <1>2
<1>7. ~s.shut /\ i = <<>> /\ w => e
  <2>1. ~s.shut => ~s.waiting
    BY DEF Ready
  <2> QED BY <2>1
<1> HIDE DEF t, e, w, i
<1>8. Wake(t)
  BY <1>5, <1>6, <1>7 DEF Wake, Ready, HasCalls
<1>9. Timed(t)
  BY <1>5 DEF Ready, Timed
<1> QED BY <1>1, <1>4, <1>8, <1>9 DEF IInv, TypeOK, Wake, Timed, HasCalls

(* A line is offered to the consumer.                                         *)
LEMMA NowType == ASSUME TypeOK PROVE Now \in State
BY DEF TypeOK, Now, State

(* The history of a reply to come leaves the line ready.                    *)
LEMMA AnsweringReady ==
  ASSUME IInv, NEW l, Offered(l)
  PROVE Answering(Now) \in State /\ Ready(Answering(Now))
<1> DEFINE o == Owe(Now, 1)
           a == [Now EXCEPT !.disturbed = TRUE, !.owed = 0]
           b == [Now EXCEPT !.owed = o]
<1>1. Now \in State
  BY NowType DEF IInv
<1>2. o \in Int
  BY <1>1, OweType
<1>3. a \in State /\ b \in State
  <2> HIDE DEF o
  <2>1. 0 \in Int
    OBVIOUS
  <2>2. a \in State
    BY <1>1, <2>1 DEF State
  <2>3. b \in State
    BY <1>1, <1>2 DEF State
  <2> QED BY <2>2, <2>3
<1>4. Ready(Now)
  <2>1. /\ Now.input = ses.input /\ Now.queued = ses.queued /\ Now.cur = ses.cur
        /\ Now.recv = ses.recv /\ Now.calls = ses.calls /\ Now.waiting = FALSE
        /\ Now.timer = ses.timer /\ Now.shut = ses.shut /\ Now.auths = ses.auths
    BY DEF IInv, TypeOK, Now, State
  <2> QED BY <2>1 DEF IInv, Wake, Timed, Ready, HasCalls, Offered
<1>5. Same(Now, a) /\ Same(Now, b)
  <2> HIDE DEF o
  <2> QED BY <1>1 DEF State, Same
<1>6. Answering(Now) \in {a, b}
  BY DEF Answering, Disturb
<1> HIDE DEF a, b
<1> QED BY <1>3, <1>4, <1>5, <1>6, SameCalm, CalmReady

(* So does the start of a command.                                          *)
LEMMA StartedReady ==
  ASSUME IInv, NEW c \in Commands, Starts(c)
  PROVE Started \in State /\ Ready(Started)
<1> DEFINE a == Answering(Now)
<1>1. Offered(c) /\ Line = c
  BY DEF Starts, Offered
<1>2. a \in State /\ Ready(a)
  BY <1>1, AnsweringReady
<1>3. c # NoCommand
  BY DEF Commands, NoCommand
<1>4. Started = [a EXCEPT !.cur = c]
  BY <1>1 DEF Started
<1> HIDE DEF a
<1>5. Started \in State
  BY <1>2, <1>4 DEF State
<1>6. /\ Started.input = a.input /\ Started.queued = a.queued
      /\ Started.recv = a.recv /\ Started.calls = a.calls
      /\ Started.waiting = a.waiting /\ Started.timer = a.timer
      /\ Started.shut = a.shut /\ Started.auths = a.auths /\ Started.cur = c
  BY <1>2, <1>4 DEF State
<1> QED BY <1>2, <1>3, <1>5, <1>6 DEF Ready, Timed, HasCalls

(* A started command whose function is calm.                                  *)
LEMMA CalmCommand ==
  ASSUME IInv, NEW c \in Commands, Starts(c), NEW t \in State, Calm(Started, t),
         Consumed(t)
  PROVE IInv'
BY StartedReady, CalmReady, ConsumedStep

(* Lines refused keep the invariant.                                        *)
LEMMA RefuseStep == ASSUME IInv, Refuse PROVE IInv'
<1> DEFINE a == Answering(Now)
           r == respond(a, 5)
<1>1. PICK l : Offered(l)
  BY DEF Refuse
<1>2. a \in State /\ Ready(a)
  BY <1>1, AnsweringReady
<1>3. r \in State /\ Calm(a, r)
  <2> HIDE DEF a
  <2> QED BY <1>2, RespondCalm
<1>4. Consumed(r) \/ Consumed(Shutdown(r))
  BY DEF Refuse
<1> HIDE DEF a, r
<1>5. Ready(r)
  BY <1>2, <1>3, CalmReady
<1>6. Shutdown(r) \in State /\ Ready(Shutdown(r))
  BY <1>3, <1>5, ShutdownType, ShutdownCalm, CalmReady
<1> QED BY <1>3, <1>4, <1>5, <1>6, ConsumedStep

(* A postponed line: the command it waits for executes.                       *)
LEMMA QueueStep == ASSUME IInv, queue_new_cmd PROVE IInv'
<1> DEFINE a == [Now EXCEPT !.queued = TRUE]
           t == [a EXCEPT !.waiting = TRUE]
<1>1. Now \in State
  BY NowType DEF IInv
<1>2. a \in State /\ t \in State
  BY <1>1 DEF State
<1>3. ses' = t /\ ses.input # <<>> /\ ses.cur # NoCommand
  BY DEF queue_new_cmd, Postponed, Offered
<1>4. /\ t.input = ses.input /\ t.cur = ses.cur /\ t.recv = ses.recv
      /\ t.calls = ses.calls /\ t.timer = ses.timer /\ t.shut = ses.shut
      /\ t.auths = ses.auths /\ t.queued = TRUE
  BY DEF IInv, TypeOK, Now, State
<1> HIDE DEF t, a
<1>5. Wake(t) /\ Timed(t)
  BY <1>3, <1>4 DEF IInv, Wake, Timed, HasCalls
<1> QED BY <1>2, <1>3, <1>5 DEF IInv, TypeOK, Wake, Timed, HasCalls

(* A postponed ABOR: the aborted call is in flight.                           *)
LEMMA AbortStep == ASSUME IInv, AbortPendingCall PROVE IInv'
<1> DEFINE a == [Now EXCEPT !.recv = "aborted"]
           t == [a EXCEPT !.waiting = TRUE]
<1>1. Now \in State /\ "aborted" \in ReceiveStates
  BY NowType DEF IInv, ReceiveStates
<1>2. a \in State /\ t \in State
  BY <1>1 DEF State
<1>3. ses' = t /\ ses.input # <<>> /\ ses.recv = "pending"
  BY DEF AbortPendingCall, Postponed, Offered
<1>4. /\ t.input = ses.input /\ t.cur = ses.cur /\ t.recv = "aborted"
      /\ t.calls = ses.calls /\ t.timer = ses.timer /\ t.shut = ses.shut
      /\ t.auths = ses.auths /\ t.queued = ses.queued
  BY <1>1 DEF IInv, TypeOK, Now, State
<1> HIDE DEF t, a
<1>5. Wake(t) /\ Timed(t)
  BY <1>3, <1>4 DEF IInv, Wake, Timed, HasCalls
<1> QED BY <1>2, <1>3, <1>5 DEF IInv, TypeOK, Wake, Timed, HasCalls

(* A command refused for want of a login keeps the invariant.               *)
LEMMA NotLoggedInStep == ASSUME IInv, NotLoggedIn PROVE IInv'
<1>1. PICK c \in Commands : Starts(c) /\ Consumed(respond(Started, 5))
  BY DEF NotLoggedIn, NeedsAuth
<1>2. Started \in State
  BY <1>1, StartedReady
<1>3. respond(Started, 5) \in State /\ Calm(Started, respond(Started, 5))
  BY <1>2, RespondCalm
<1> QED BY <1>1, <1>3, CalmCommand

(* An operation of the authenticator begins: it is in flight, so the timer    *)
(* may stop.                                                                  *)
LEMMA OperationStep ==
  ASSUME NEW s \in State, Ready(s), NEW u \in BOOLEAN, NEW d \in BOOLEAN,
         Consumed([s EXCEPT !.user = u, !.authed = d, !.authOp = FALSE,
                            !.timer = FALSE, !.auths = @ + 1])
  PROVE IInv'
<1> DEFINE n == s.auths + 1
           t == [s EXCEPT !.user = u, !.authed = d, !.authOp = FALSE,
                          !.timer = FALSE, !.auths = n]
<1>1. n \in Nat /\ n > 0
  BY Fields
<1>2. t \in State
  <2> HIDE DEF n
  <2> QED BY ZenonT(40), <1>1 DEF State
<1>3. /\ t.input = s.input /\ t.queued = s.queued /\ t.cur = s.cur
      /\ t.recv = s.recv /\ t.calls = s.calls /\ t.waiting = s.waiting
      /\ t.shut = s.shut /\ t.auths = n
  <2> HIDE DEF n
  <2> QED BY DEF State
<1>4. Consumed(t)
  OBVIOUS
<1> HIDE DEF t, n
<1>5. Ready(t)
  BY <1>1, <1>3 DEF Ready, Timed, HasCalls
<1> QED BY <1>2, <1>4, <1>5, ConsumedStep

(* USER and PASS keep the invariant: they stop the timer only for a result owed. *)
LEMMA LoginStep == ASSUME IInv, Login PROVE IInv'
<1>1. {"USER", "PASS"} \subseteq Commands
  BY DEF Commands
<1>2. PICK c \in {"USER", "PASS"} : Starts(c)
  BY DEF Login
<1>3. Started \in State /\ Ready(Started)
  BY <1>1, <1>2, StartedReady
<1>4. respond(Started, 5) \in State /\ Calm(Started, respond(Started, 5))
  BY <1>3, RespondCalm
<1> DEFINE a == [Started EXCEPT !.authOp = FALSE]
           r == handle_authenticate_user_response(a, "null")
           o == [Started EXCEPT !.user = TRUE, !.authed = FALSE, !.authOp = FALSE,
                                !.timer = FALSE, !.auths = @ + 1]
           b == [Started EXCEPT !.authOp = FALSE, !.timer = FALSE, !.auths = @ + 1]
           q == [Started EXCEPT !.user = Started.user, !.authed = Started.authed,
                                !.authOp = FALSE, !.timer = FALSE, !.auths = @ + 1]
<1>5. a \in State /\ Same(Started, a)
  BY <1>3 DEF State, Same
<1>6. r \in State /\ Calm(Started, r)
  <2> HIDE DEF a
  <2>1. r \in State /\ Calm(a, r)
    BY <1>5, ResponseCalm
  <2> QED BY <1>5, <2>1, SameCalm, CalmTransitive
<1>7. \/ Consumed(respond(Started, 5)) \/ Consumed(r)
      \/ Consumed(o) \/ Consumed(b)
  BY DEF Login, USER, PASS
<1>8. b = q
  BY <1>3 DEF State
<1>9. CASE Consumed(o)
  BY <1>3, <1>9, OperationStep
<1>10. CASE Consumed(b)
  <2>1. Consumed(q)
    BY <1>8, <1>10
  <2>2. Started.user \in BOOLEAN /\ Started.authed \in BOOLEAN
    BY <1>3, Flags
  <2> QED BY <1>3, <2>1, <2>2, OperationStep
<1> HIDE DEF a, r, o, b, q
<1> QED BY <1>1, <1>2, <1>4, <1>6, <1>7, <1>9, <1>10, CalmCommand

(* Commands answered at once keep the invariant.                            *)
LEMMA AtOnceStep == ASSUME IInv, AnswerAtOnce PROVE IInv'
<1>1. {"NOOP", "QUIT", "ABOR"} \subseteq Commands
  BY DEF Commands
<1>2. PICK c \in {"NOOP", "QUIT", "ABOR"} : Starts(c)
  BY DEF AnswerAtOnce, Allowed
<1>3. Started \in State
  BY <1>1, <1>2, StartedReady
<1>4. CASE \E digit \in {2, 3, 5} : Consumed(respond(Started, digit))
  <2>1. PICK digit \in {2, 3, 5} : Consumed(respond(Started, digit))
    BY <1>4
  <2>2. /\ respond(Started, digit) \in State
        /\ Calm(Started, respond(Started, digit))
    BY <1>3, RespondCalm
  <2> QED BY <1>1, <1>2, <2>1, <2>2, CalmCommand
<1>5. CASE Consumed(QUIT(Started))
  <2>1. respond(Started, 2) \in State /\ Calm(Started, respond(Started, 2))
    BY <1>3, RespondCalm
  <2>2. QUIT(Started) \in State /\ Calm(Started, QUIT(Started))
    BY <2>1, ShutdownType, ShutdownCalm, CalmTransitive DEF QUIT
  <2> QED BY <1>1, <1>2, <1>5, <2>2, CalmCommand
<1>6. CASE Consumed(ABOR(Started))
  BY <1>1, <1>2, <1>3, <1>6, AborCalm, CalmCommand
<1> QED BY <1>4, <1>5, <1>6 DEF AnswerAtOnce

(* A call of the tvfs begins: it is in flight.                                *)
LEMMA CallStep == ASSUME IInv, StartCall PROVE IInv'
<1>1. PICK c \in AsyncCommands :
        Allowed(c) /\ (Consumed(respond(Started, 4)) \/ Consumed(Async(Started, c)))
  BY DEF StartCall
<1>2. c \in Commands /\ Starts(c)
  BY <1>1 DEF AsyncCommands, Commands, Allowed
<1>3. Started \in State /\ Ready(Started)
  BY <1>2, StartedReady
<1>4. CASE Consumed(respond(Started, 4))
  <2>1. respond(Started, 4) \in State /\ Calm(Started, respond(Started, 4))
    BY <1>3, RespondCalm
  <2> QED BY <1>2, <1>4, <2>1, CalmCommand
<1>5. CASE Consumed(Async(Started, c))
  <2> DEFINE f == [Started.calls EXCEPT ![c] = @ + 1]
             t == [Started EXCEPT !.recv = "pending", !.calls = f]
  <2>1. Started.calls \in [AsyncCommands -> Nat]
    BY <1>3, Fields
  <2>2. f \in [AsyncCommands -> Nat] /\ f[c] > 0
    BY <2>1
  <2>3. Async(Started, c) = t
    BY <1>3 DEF Async, State
  <2>4. "pending" \in ReceiveStates
    BY DEF ReceiveStates
  <2> HIDE DEF f
  <2>5. t \in State
    BY <1>3, <2>2, <2>4 DEF State
  <2>6. /\ t.input = Started.input /\ t.queued = Started.queued
        /\ t.cur = Started.cur /\ t.waiting = Started.waiting
        /\ t.shut = Started.shut /\ t.timer = Started.timer
        /\ t.auths = Started.auths /\ t.calls = f
    BY <1>3 DEF State
  <2> HIDE DEF t
  <2>7. HasCalls(t)
    BY <2>2, <2>6 DEF HasCalls
  <2>8. Ready(t)
    BY <1>3, <2>6, <2>7 DEF Ready, Timed
  <2> QED BY <1>5, <2>3, <2>5, <2>8, ConsumedStep
<1> QED BY <1>1, <1>4, <1>5

(* PASV, EPSV and PORT keep the invariant.                                  *)
LEMMA PrepareStep == ASSUME IInv, PrepareDataConnection PROVE IInv'
<1>1. {"EPSV", "PASV", "PORT"} \subseteq Commands
  BY DEF Commands
<1>2. PICK c \in {"EPSV", "PASV", "PORT"} : Starts(c)
  BY DEF PrepareDataConnection, Allowed
<1>3. Started \in State
  BY <1>1, <1>2, StartedReady
<1>4. CASE \E o \in {"no_port", "last_port", "ready", "lookup", "no_host"} :
             Consumed(get_data_local_info(Started, o))
  BY <1>1, <1>2, <1>3, <1>4, LocalInfoCalm, CalmCommand
<1>5. CASE \E binds \in BOOLEAN : Consumed(set_data_peer_hostaddress(Started, binds))
  BY <1>1, <1>2, <1>3, <1>5, PeerCalm, CalmCommand
<1> QED BY <1>4, <1>5 DEF PrepareDataConnection

(* A consumer event that finds no line keeps the invariant.                 *)
LEMMA NothingStep == ASSUME IInv, NothingOffered PROVE IInv'
<1>1. Now \in State
  BY NowType DEF IInv
<1>2. /\ Now.input = ses.input /\ Now.queued = ses.queued /\ Now.cur = ses.cur
      /\ Now.recv = ses.recv /\ Now.calls = ses.calls /\ Now.waiting = FALSE
      /\ Now.timer = ses.timer /\ Now.shut = ses.shut /\ Now.auths = ses.auths
  BY DEF IInv, TypeOK, Now, State
<1>3. ses' = Now /\ ses.input = <<>>
  BY DEF NothingOffered
<1>4. Wake(Now) /\ Timed(Now)
  BY <1>2, <1>3 DEF IInv, Wake, Timed, HasCalls
<1> QED BY <1>1, <1>3, <1>4 DEF IInv, TypeOK, Wake, Timed, HasCalls

(* A consumer event, whatever the line, keeps the invariant.                *)
LEMMA ConsumerStep == ASSUME IInv, ConsumerEvent PROVE IInv'
BY RefuseStep, QueueStep, AbortStep, NotLoggedInStep, LoginStep, AtOnceStep,
   CallStep, PrepareStep, NothingStep DEF ConsumerEvent

(* A line arrives: the pipe wakes a consumer it does not think to be waiting, *)
(* and one it thinks to be waiting for an empty buffer has an event.          *)
LEMMA AdderStep == ASSUME IInv, AdderEvent PROVE IInv'
<1>1. PICK l \in Lines :
        ses' = [ses EXCEPT !.input = Append(@, l), !.waiting = TRUE,
                           !.event = @ \/ ~ses.waiting]
  BY DEF AdderEvent
<1> DEFINE i == Append(ses.input, l)
           e == ses.event \/ ~ses.waiting
           t == [ses EXCEPT !.input = i, !.waiting = TRUE, !.event = e]
<1>2. ses \in State
  BY DEF IInv, TypeOK
<1>3. i \in Seq(Lines) /\ i # <<>>
  BY <1>2, Fields
<1>4. e \in BOOLEAN
  BY <1>2, Flags
<1>5. ses' = t
  BY <1>1
<1>6. t \in State
  <2> HIDE DEF i, e
  <2> QED BY <1>2, <1>3, <1>4 DEF State
<1>7. /\ t.input = i /\ t.event = e /\ t.queued = ses.queued /\ t.cur = ses.cur
      /\ t.recv = ses.recv /\ t.calls = ses.calls /\ t.timer = ses.timer
      /\ t.shut = ses.shut /\ t.auths = ses.auths
  <2> HIDE DEF i, e
  <2> QED BY <1>2 DEF State
<1>8. ~ses.shut => e \/ ses.queued \/ ses.recv = "aborted"
  BY <1>2, Flags DEF IInv, Wake
<1> HIDE DEF t, i, e
<1>9. Wake(t) /\ Timed(t)
  BY <1>3, <1>7, <1>8 DEF IInv, Wake, Timed, HasCalls
<1> QED BY <1>5, <1>6, <1>9 DEF IInv, TypeOK, Wake, Timed, HasCalls

(* The result of the authenticator starts the timer again.                    *)
LEMMA AuthStep == ASSUME IInv, AuthResult PROVE IInv'
<1>1. PICK r \in {"user", "denied", "quota"} :
        ses.auths > 0 /\ ses' = on_authenticator_operation_result(ses, r)
  BY DEF AuthResult
<1> DEFINE n == ses.auths - 1
           s == [ses EXCEPT !.auths = n]
           h == handle_authenticate_user_response(s, r)
           d == (ses.cur = "PASS" /\ r = "user")
           t == [h EXCEPT !.authed = d]
<1>2. ses' = t
  BY <1>1 DEF on_authenticator_operation_result
<1>3. ses \in State
  BY DEF IInv, TypeOK
<1>4. n \in Nat
  BY <1>1, <1>3, Fields
<1>5. s \in State
  <2> HIDE DEF n
  <2> QED BY <1>3, <1>4 DEF State
<1>6. Wake(s)
  <2>1. /\ s.input = ses.input /\ s.queued = ses.queued /\ s.cur = ses.cur
        /\ s.recv = ses.recv /\ s.calls = ses.calls /\ s.waiting = ses.waiting
        /\ s.event = ses.event /\ s.shut = ses.shut
    <3> HIDE DEF n
    <3> QED BY <1>3 DEF State
  <2> HIDE DEF s
  <2> QED BY <2>1 DEF IInv, Wake, HasCalls
<1>7. h \in State /\ Calm(s, h) /\ h.timer
  <2> HIDE DEF s
  <2> QED BY <1>5, ResponseCalm
<1>8. d \in BOOLEAN
  OBVIOUS
<1>9. t \in State /\ Same(h, t)
  <2> HIDE DEF h, d
  <2> QED BY ZenonT(40), <1>7, <1>8 DEF State, Same
<1> HIDE DEF s, h, t
<1>10. Wake(t)
  BY <1>6, <1>7, <1>9, SameCalm, CalmWake
<1>11. Timed(t)
  BY <1>7, <1>9 DEF Same, Timed
<1> QED BY <1>2, <1>9, <1>10, <1>11 DEF IInv, TypeOK, Wake, Timed, HasCalls

(* The result of a call: if it was aborted the consumer is woken.             *)
LEMMA CallResultStep == ASSUME IInv, CallResult PROVE IInv'
<1>1. PICK c \in AsyncCommands, ok \in BOOLEAN, connects \in BOOLEAN :
        LET s == [ses EXCEPT !.calls[c] = @ - 1,
                             !.file = @ \/ (c = "RETR" /\ ok)]
        IN /\ ses.calls[c] > 0
           /\ ses' = IF ses.recv = "aborted"
                       THEN [s EXCEPT !.recv = "idle", !.event = @ \/ ~ses.shut]
                       ELSE [Received(s, c, ok, connects) EXCEPT !.recv = "idle"]
  BY DEF CallResult
<1> DEFINE f == [ses.calls EXCEPT ![c] = @ - 1]
           b == ses.file \/ (c = "RETR" /\ ok)
           s == [ses EXCEPT !.calls = f, !.file = b]
           e == s.event \/ ~ses.shut
           t == [s EXCEPT !.recv = "idle", !.event = e]
           r == Received(s, c, ok, connects)
           u == [r EXCEPT !.recv = "idle"]
<1>2. ses \in State
  BY DEF IInv, TypeOK
<1>3. ses.calls[c] > 0 /\ ses.calls \in [AsyncCommands -> Nat]
  BY <1>1, <1>2, Fields
<1>4. f \in [AsyncCommands -> Nat]
  BY <1>3
<1>5. b \in BOOLEAN
  BY <1>2, Flags
<1>6. s \in State
  <2> HIDE DEF f, b
  <2> QED BY <1>2, <1>4, <1>5 DEF State
<1>7. s = [ses EXCEPT !.calls[c] = @ - 1, !.file = @ \/ (c = "RETR" /\ ok)]
  OBVIOUS
<1>8. ses' = IF ses.recv = "aborted" THEN t ELSE u
  <2> HIDE DEF s
  <2> QED BY <1>1, <1>7
<1>9. /\ s.input = ses.input /\ s.queued = ses.queued /\ s.cur = ses.cur
      /\ s.recv = ses.recv /\ s.waiting = ses.waiting /\ s.event = ses.event
      /\ s.shut = ses.shut /\ s.timer = ses.timer /\ s.auths = ses.auths
  <2> HIDE DEF f, b
  <2> QED BY <1>2 DEF State
<1>10. "idle" \in ReceiveStates
  BY DEF ReceiveStates
<1> HIDE DEF s
<1>11. CASE ses.recv = "aborted"
  <2>1. e \in BOOLEAN
    BY <1>6, Flags
  <2>2. t \in State
    <3> HIDE DEF e
    <3> QED BY <1>6, <1>10, <2>1 DEF State
  <2>3. /\ t.input = s.input /\ t.queued = s.queued /\ t.cur = s.cur
        /\ t.recv = "idle" /\ t.event = e /\ t.shut = s.shut
        /\ t.timer = s.timer /\ t.auths = s.auths
    <3> HIDE DEF e
    <3> QED BY <1>6 DEF State
  <2>4. ~ses.shut => e
    OBVIOUS
  <2> HIDE DEF t, e
  <2>5. Wake(t) /\ Timed(t)
    BY <1>9, <2>3, <2>4 DEF IInv, Wake, Timed
  <2>6. ses' = t
    BY <1>8, <1>11
  <2> QED BY <2>2, <2>5, <2>6 DEF IInv, TypeOK, Wake, Timed, HasCalls
<1>12. CASE ses.recv # "aborted"
  <2>1. r \in State /\ Calm(s, r)
    BY <1>6, ReceivedCalm
  <2> HIDE DEF r
  <2>2. u \in State
    BY <1>10, <2>1 DEF State
  <2>3. /\ u.input = r.input /\ u.queued = r.queued /\ u.cur = r.cur
        /\ u.recv = "idle" /\ u.event = r.event /\ u.shut = r.shut
        /\ u.waiting = r.waiting /\ u.timer = r.timer /\ u.auths = r.auths
    BY <2>1 DEF State
  <2> HIDE DEF u
  <2>4. Wake(u)
    BY <1>9, <1>12, <2>1, <2>3 DEF IInv, Wake, Calm
  <2>5. Timed(u)
    BY <1>9, <2>1, <2>3 DEF IInv, Timed, Calm
  <2>6. ses' = u
    BY <1>8, <1>12
  <2> QED BY <2>2, <2>4, <2>5, <2>6 DEF IInv, TypeOK, Wake, Timed, HasCalls
<1> QED BY <1>11, <1>12

(* The resolver's answer keeps the invariant.                               *)
LEMMA LookupStep == ASSUME IInv, LookupResult PROVE IInv'
<1> DEFINE s == [ses EXCEPT !.lookup = FALSE, !.info = FALSE]
           e == [ses EXCEPT !.end = "hostname_lookup"]
<1>1. ses \in State /\ "hostname_lookup" \in Ends
  BY DEF IInv, TypeOK, Ends
<1>2. s \in State /\ e \in State
  BY ZenonT(40), <1>1 DEF State
<1>3. Same(ses, s) /\ Same(ses, e)
  BY <1>1 DEF State, Same
<1>4. ses' = e \/ \E d \in {2, 4} : ses' = respond(s, d)
  BY DEF LookupResult
<1> HIDE DEF s, e
<1>5. \A d \in {2, 4} : respond(s, d) \in State /\ Calm(ses, respond(s, d))
  BY <1>2, <1>3, SameCalm, RespondCalm, CalmTransitive
<1> QED BY <1>2, <1>3, <1>4, <1>5, SameCalm, CalmStep

(* Every result that comes back keeps the invariant.                        *)
LEMMA ResultStep == ASSUME IInv, Result PROVE IInv'
<1>1. CASE NestedAdderEof
  <2>1. ses \in State /\ ses' = stop_processing_nested_adder(ses)
    BY <1>1 DEF IInv, TypeOK, NestedAdderEof
  <2> QED BY <2>1, NestedCalm, CalmStep
<1> QED BY <1>1, AuthStep, CallResultStep, LookupStep DEF Result

(* The events of the data connection: the sockets, then calm methods.         *)
LEMMA DataStep == ASSUME IInv, DataEvent PROVE IInv'
<1>1. ses \in State
  BY DEF IInv, TypeOK
<1>2. "none" \in ListenSockets /\ "connected" \in DataSockets
      /\ {"done", "clear"} \subseteq DataChannels /\ "destroyed_socket" \in Ends
  BY DEF ListenSockets, DataSockets, DataChannels, Ends
<1>3. CASE Accept \/ ConnectionEvent
  <2> DEFINE a == [ses EXCEPT !.listen = "none", !.sock = "connected"]
             b == [ses EXCEPT !.sock = "connected"]
  <2>1. a \in State /\ b \in State
    BY <1>1, <1>2 DEF State
  <2>2. Same(ses, a) /\ Same(ses, b)
    BY <1>1 DEF State, Same
  <2>3. ses' = setup_data_channel(a) \/ ses' = setup_data_channel(b)
    BY <1>3 DEF Accept, ConnectionEvent
  <2> HIDE DEF a, b
  <2> QED BY <2>1, <2>2, <2>3, SameCalm, SetupCalm, CalmTransitive, CalmStep
<1>4. CASE AcceptFails \/ SocketError
  <2>1. ses' = handle_data_transfer(ses, "connecting", TRUE)
    BY <1>4 DEF AcceptFails, SocketError
  <2> QED BY <1>1, <2>1, TransferCalm, CalmStep
<1>5. CASE TransferDone \/ DestroyedSocketUsed
  <2>1. PICK err \in BOOLEAN :
          \/ ses' = [ses EXCEPT !.chan = "done", !.failed = err]
          \/ ses' = [ses EXCEPT !.end = "destroyed_socket"]
    BY <1>5 DEF TransferDone, DestroyedSocketUsed
  <2> DEFINE a == [ses EXCEPT !.chan = "done", !.failed = err]
             b == [ses EXCEPT !.end = "destroyed_socket"]
  <2>2. a \in State /\ b \in State
    BY ZenonT(40), <1>1, <1>2 DEF State
  <2>3. Same(ses, a) /\ Same(ses, b)
    BY <1>1 DEF State, Same
  <2> QED BY <2>1, <2>2, <2>3, SameCalm, CalmStep
<1>6. CASE on_channel_done_event
  <2> DEFINE s == [ses EXCEPT !.chan = "clear"]
  <2>1. s \in State
    BY <1>1, <1>2 DEF State
  <2>2. Same(ses, s)
    BY <1>1 DEF State, Same
  <2>3. ses' = s \/ \E flushed \in BOOLEAN : ses' = data_socket_shutdown(s, flushed)
    BY <1>6 DEF on_channel_done_event
  <2> HIDE DEF s
  <2> QED BY <2>1, <2>2, <2>3, SameCalm, SocketShutdownCalm, CalmTransitive, CalmStep
<1>7. CASE WriteEvent
  <2>1. ses' = data_socket_shutdown(ses, TRUE)
    BY <1>7 DEF WriteEvent
  <2> QED BY <1>1, <2>1, SocketShutdownCalm, CalmStep
<1> QED BY <1>3, <1>4, <1>5, <1>6, <1>7 DEF DataEvent

(* A timer that expires shuts the session down.                               *)
LEMMA TimerStep == ASSUME IInv, TimerEvent PROVE IInv'
<1> DEFINE d == [ses EXCEPT !.disturbed = TRUE, !.owed = 0]
           s == [d EXCEPT !.timer = FALSE]
           a == [s EXCEPT !.auths = 0, !.authOp = FALSE]
           t == IF ses.authed THEN s ELSE a
           r == respond(t, 4)
<1>1. ses \in State /\ Wake(ses)
  BY DEF IInv, TypeOK
<1>2. d \in State
  <2>1. 0 \in Int
    OBVIOUS
  <2> QED BY <1>1, <2>1 DEF State
<1>3. s \in State
  <2> HIDE DEF d
  <2> QED BY <1>2 DEF State
<1>4. a \in State
  <2> HIDE DEF s
  <2>1. 0 \in Nat
    OBVIOUS
  <2> QED BY <1>3, <2>1 DEF State
<1>5. t \in State
  <2> HIDE DEF s, a
  <2> QED BY <1>3, <1>4
<1>6. /\ t.input = ses.input /\ t.queued = ses.queued /\ t.cur = ses.cur
      /\ t.recv = ses.recv /\ t.calls = ses.calls /\ t.waiting = ses.waiting
      /\ t.event = ses.event /\ t.shut = ses.shut
  BY <1>1 DEF State
<1>7. ses' = Shutdown(r)
  BY DEF TimerEvent, Disturb
<1> HIDE DEF t
<1>8. Wake(t)
  BY <1>1, <1>6 DEF Wake, HasCalls
<1>9. r \in State /\ Wake(r)
  BY <1>5, <1>8, RespondCalm, CalmWake
<1> HIDE DEF r
<1>10. Shutdown(r) \in State /\ Wake(Shutdown(r))
  BY <1>9, ShutdownType, ShutdownCalm, CalmWake
<1>11. Timed(Shutdown(r))
  BY <1>9 DEF Shutdown, State, Timed
<1> QED BY <1>7, <1>10, <1>11 DEF IInv, TypeOK, Wake, Timed, HasCalls

(* So does everything that ends the session.                                *)
LEMMA EndStep ==
  ASSUME IInv, ControlChannelDone \/ ClientLeaves \/ UserRemoved PROVE IInv'
<1> DEFINE t == [ses EXCEPT !.end = "quit"]
<1>1. ses \in State /\ "quit" \in Ends
  BY DEF IInv, TypeOK, Ends
<1>2. t \in State
  BY <1>1 DEF State
<1>3. Same(ses, t)
  BY <1>1 DEF State, Same
<1>4. ses' = t
  BY DEF ControlChannelDone, ClientLeaves, UserRemoved
<1> QED BY <1>2, <1>3, <1>4, SameCalm, CalmStep

(* set_socket() sets every member.                                            *)
LEMMA InitType == Connected \in State
<1>1. /\ <<>> \in Seq(Lines) /\ "idle" \in ReceiveStates /\ "alive" \in Ends
      /\ "none" \in ListenSockets /\ "none" \in DataSockets
      /\ "clear" \in DataChannels
  BY DEF ReceiveStates, Ends, ListenSockets, DataSockets, DataChannels
<1>2. [c \in AsyncCommands |-> 0] \in [AsyncCommands -> Nat]
  OBVIOUS
<1>3. 0 \in Nat /\ 0 \in Int
  OBVIOUS
<1> QED
  BY <1>1, <1>2, <1>3 DEF Connected, State

(* A refused client is shut down; any other one finds the timer running and   *)
(* the consumer's event queued.                                               *)
LEMMA InitIInv == ASSUME Init PROVE IInv
<1>4. Connected \in State
  BY InitType
<1>5. Wake(Connected) /\ Timed(Connected)
  BY DEF Connected, Wake, Timed
<1>6. /\ Shutdown(Connected) \in State
      /\ Wake(Shutdown(Connected)) /\ Timed(Shutdown(Connected))
  BY <1>4, <1>5, ShutdownType, ShutdownCalm, CalmWake, CalmTimed
<1> QED BY <1>4, <1>5, <1>6 DEF Init, IInv, TypeOK

(* The invariant is inductive.                                              *)
LEMMA NextIInv == ASSUME IInv, [Next]_ses PROVE IInv'
<1>1. CASE UNCHANGED ses
  BY <1>1 DEF IInv, TypeOK, Wake, Timed, HasCalls
<1>2. CASE Next
  BY <1>2, ConsumerStep, AdderStep, ResultStep, DataStep, TimerStep, EndStep
     DEF Next
<1> QED BY <1>1, <1>2

(* The inductive invariant holds in every reachable state.                    *)
THEOREM Invariance == Spec => []IInv
<1>1. Init => IInv
  BY InitIInv
<1>2. IInv /\ [Next]_ses => IInv'
  BY NextIInv
<1> QED BY <1>1, <1>2, PTL DEF Spec

(* The state of the commander and of the session stays within its type.       *)
THEOREM TypeCorrect == Spec => []TypeOK
<1>1. IInv => TypeOK
  BY DEF IInv
<1> QED BY <1>1, Invariance, PTL

(* A line left in the buffer of the control connection has a wake-up coming,  *)
(* however the events, the replies and the results are interleaved.           *)
THEOREM NoWakeupIsLost == Spec => []NoLostWakeup
<1>1. IInv => NoLostWakeup
  BY DEF IInv, Wake, HasCalls, NoLostWakeup, CallsInFlight
<1> QED BY <1>1, Invariance, PTL

(* A live session has its timer running, or a login at the authenticator.     *)
THEOREM EverySessionIsTimed == Spec => []AlwaysTimed
<1>1. IInv => AlwaysTimed
  BY DEF IInv, Timed, AlwaysTimed
<1> QED BY <1>1, Invariance, PTL

-----------------------------------------------------------------------------
(* Commands, and what works for them *)

(* Nothing wakes a session that was shut down, nor does it execute a command. *)
Closed(s) == s.shut => ~s.event /\ s.cur = NoCommand

OwesOne(s) ==
  ~s.disturbed /\ ~s.shut => s.owed = IF s.cur = NoCommand THEN 0 ELSE 1

(* While the session is not disturbed, one thing at a time works, for the     *)
(* command that executes; so there is nothing when none does.                 *)
Works(s) ==
  ~s.disturbed =>
    /\ \A c \in AsyncCommands : s.calls[c] > 0 =>
         s.cur = c /\ s.recv # "idle" /\ s.calls[c] = 1
    /\ s.auths > 0 => s.cur \in {"USER", "PASS"} /\ s.auths = 1 /\ ~s.authed
    /\ s.lookup => s.cur = "PASV"
    /\ s.nested => s.cur = "STAT" /\ ~HasCalls(s)
    /\ s.handler => s.cur = "RETR" /\ ~HasCalls(s) /\ s.file
    /\ s.chan # "clear" => s.handler /\ s.sock = "connected" /\ s.chan # "dangling"

(* Something will answer: a result that is awaited, or an ABOR at the head of *)
(* the buffer, once the aborted call, if it is still in flight, has returned. *)
Own(s) ==
  s.auths > 0 \/ s.lookup \/ s.nested \/ s.handler \/ (s.recv # "aborted" /\ HasCalls(s))

Overtaken(s) ==
  /\ s.input # <<>> /\ Head(s.input) = "ABOR" /\ s.cur \notin {"ABOR", "USER", "PASS"}
  /\ s.event \/ (s.recv = "aborted" /\ HasCalls(s))

Busy(s) == s.cur # NoCommand => Own(s) \/ Overtaken(s)

Firm(s) == Closed(s) /\ OwesOne(s) /\ Works(s)

Good(s) == s.end = "alive" => Firm(s) /\ Busy(s)

(* The same when the line at the head of the buffer is taken.                 *)
Sound(s) == s.end = "alive" => Firm(s) /\ (s.cur # NoCommand => Own(s))

(* A state in which a final reply answers the command that executes.          *)
Spare(s) == ~HasCalls(s) /\ s.auths = 0 /\ ~s.lookup /\ ~s.nested

Replying(s) ==
  /\ s.shut => ~s.event
  /\ ~s.disturbed => Spare(s) /\ (~s.shut => s.owed = 1)

Answerable(s) == Replying(s) /\ (~s.disturbed => ~s.handler /\ s.chan = "clear")

(* What none of these speaks of may change.                                   *)
Alike(s, t) ==
  /\ t.input = s.input /\ t.event = s.event /\ t.cur = s.cur /\ t.recv = s.recv
  /\ t.calls = s.calls /\ t.nested = s.nested /\ t.file = s.file /\ t.shut = s.shut
  /\ t.auths = s.auths /\ t.authed = s.authed /\ t.lookup = s.lookup
  /\ t.sock = s.sock /\ t.handler = s.handler /\ t.chan = s.chan /\ t.end = s.end
  /\ t.owed = s.owed /\ t.disturbed = s.disturbed

(* States that are alike are as good as each other.                           *)
LEMMA AlikeGood ==
  ASSUME NEW s, NEW t, Alike(s, t)
  PROVE  /\ Good(s) => Good(t)
         /\ Sound(s) => Sound(t)
         /\ Replying(s) => Replying(t)
         /\ Answerable(s) => Answerable(t)
<1>1. Firm(s) => Firm(t)
  BY DEF Alike, Firm, Closed, OwesOne, Works, HasCalls
<1>2. Own(s) => Own(t)
  BY DEF Alike, Own, HasCalls
<1>3. Overtaken(s) => Overtaken(t)
  BY DEF Alike, Overtaken, HasCalls
<1>4. Replying(s) => Replying(t)
  BY DEF Alike, Replying, Spare, HasCalls
<1>5. QED
  BY <1>1, <1>2, <1>3, <1>4 DEF Alike, Good, Sound, Busy, Answerable

(* A state that awaits a result is good, whatever the buffer holds.           *)
LEMMA SoundGood == ASSUME NEW s, Sound(s) PROVE Good(s)
BY DEF Sound, Good, Busy

(* What a final reply leaves behind.                                          *)
Replied(s, t) ==
  /\ t.cur = NoCommand
  /\ t.input = s.input /\ t.calls = s.calls /\ t.nested = s.nested
  /\ t.auths = s.auths /\ t.authed = s.authed /\ t.lookup = s.lookup
  /\ t.sock = s.sock /\ t.handler = s.handler /\ t.chan = s.chan /\ t.end = s.end
  /\ t.disturbed = s.disturbed
  /\ s.shut => t.shut
  /\ (s.shut => ~s.event) => (t.shut => ~t.event)
  /\ ~s.disturbed /\ ~s.shut => t.owed = s.owed - 1

(* shutdown() changes the input alone.                                        *)
LEMMA ShutdownKeeps ==
  ASSUME NEW s \in State
  PROVE  LET t == Shutdown(s)
         IN /\ t.cur = s.cur /\ t.calls = s.calls /\ t.nested = s.nested
            /\ t.input = s.input /\ t.file = s.file /\ t.auths = s.auths /\ t.authed = s.authed
            /\ t.lookup = s.lookup /\ t.sock = s.sock /\ t.handler = s.handler
            /\ t.chan = s.chan /\ t.end = s.end /\ t.disturbed = s.disturbed
            /\ t.owed = s.owed /\ t.shut = TRUE /\ t.event = FALSE
            /\ t.recv = IF s.recv = "pending" THEN "aborted" ELSE s.recv
BY DEF Shutdown, State

(* A final reply leaves no command executing; a preliminary one no trace.     *)
LEMMA ReplyIs ==
  ASSUME NEW s \in State, NEW d \in 1..5
  PROVE  LET t == act_upon_command_reply(s, d)
         IN /\ d # 1 => Replied(s, t)
            /\ d = 1 => Alike(s, t)
<1> DEFINE c == IF d # 1 THEN NoCommand ELSE s.cur
           e == s.event \/ (d # 1 /\ s.queued /\ ~s.shut)
           q == s.queued /\ ~(d # 1)
           f == s.file /\ d \in {1, 3}
           n == IF d # 5 THEN 0 ELSE IF s.authed THEN s.fails ELSE s.fails + 1
           o == IF d # 1 THEN Owe(s, -1) ELSE s.owed
           t == [s EXCEPT !.cur = c, !.event = e, !.queued = q, !.file = f,
                          !.fails = n, !.owed = o]
           r == act_upon_command_reply(s, d)
<1>1. r = IF t.fails = FailureLimit /\ t.fails > s.fails THEN Shutdown(t) ELSE t
  BY DEF act_upon_command_reply
<1>2. /\ c \in Commands \cup {NoCommand}
      /\ n \in Nat
      /\ o \in Int
  <2>1. c \in Commands \cup {NoCommand}
    BY Fields
  <2>2. n \in Nat
    BY Fields
  <2>3. o \in Int
    BY Fields, OweType
  <2> HIDE DEF c, n, o
  <2> QED BY <2>1, <2>2, <2>3
<1>3. e \in BOOLEAN /\ q \in BOOLEAN /\ f \in BOOLEAN
  BY Flags
<1>4. t \in State
  <2> HIDE DEF c, e, q, f, n, o
  <2> QED BY ZenonT(40), <1>2, <1>3, ReplyFields
<1>5. /\ t.input = s.input /\ t.calls = s.calls /\ t.auths = s.auths
      /\ t.shut = s.shut /\ t.recv = s.recv /\ t.nested = s.nested
      /\ t.authed = s.authed /\ t.lookup = s.lookup /\ t.sock = s.sock
      /\ t.handler = s.handler /\ t.chan = s.chan /\ t.end = s.end
      /\ t.disturbed = s.disturbed
      /\ t.cur = c /\ t.event = e /\ t.file = f /\ t.owed = o /\ t.fails = n
  <2> HIDE DEF c, e, q, f, n, o
  <2> QED BY DEF State
<1>6. ~s.disturbed /\ ~s.shut /\ d # 1 => o = s.owed - 1
  BY Fields DEF Owe
<1>7. d = 1 => c = s.cur /\ (e <=> s.event) /\ (f <=> s.file) /\ o = s.owed /\ n = 0
  OBVIOUS
<1>8. d # 1 => c = NoCommand /\ (s.shut /\ ~s.event => ~e)
  OBVIOUS
<1> HIDE DEF c, e, q, f, n, o, t
<1>9. CASE r = t
  <2>1. d # 1 => Replied(s, t)
    BY <1>5, <1>6, <1>8 DEF Replied
  <2>2. d = 1 => Alike(s, t)
    BY <1>3, <1>5, <1>7, Flags DEF Alike
  <2>3. QED
    BY <1>9, <2>1, <2>2
<1>10. CASE r # t
  <2>1. r = Shutdown(t) /\ n = FailureLimit
    BY <1>1, <1>5, <1>10
  <2>2. d # 1
    BY <1>7, <2>1, BoundsAssumption
  <2>3. Replied(s, Shutdown(t))
    BY <1>4, <1>5, <1>6, <1>8, <2>2, ShutdownKeeps DEF Replied
  <2>4. QED
    BY <2>1, <2>2, <2>3
<1>11. QED
  BY <1>9, <1>10

(* The command that executes is answered, and nothing works for it any more.  *)
LEMMA AnswerSound ==
  ASSUME NEW s, NEW t, Answerable(s), Replied(s, t), s.owed \in Int PROVE Sound(t)
<1>1. Closed(t)
  BY DEF Answerable, Replying, Replied, Closed
<1>2. OwesOne(t)
  BY DEF Answerable, Replying, Replied, OwesOne
<1>3. Works(t)
  <2>1. SUFFICES ASSUME ~t.disturbed PROVE Works(t)
    BY DEF Works
  <2>2. ~HasCalls(t) /\ t.auths = 0 /\ ~t.lookup /\ ~t.nested /\ ~t.handler /\ t.chan = "clear"
    BY <2>1 DEF Answerable, Replying, Spare, Replied, HasCalls
  <2>3. QED
    BY <2>2 DEF Works, HasCalls
<1>4. QED
  BY <1>1, <1>2, <1>3 DEF Sound, Firm, Replied

(* respond<>(), where nothing works but what it answers for.                  *)
LEMMA RespondSound ==
  ASSUME NEW s \in State, NEW d \in 2..5, Answerable(s)
  PROVE  /\ respond(s, d) \in State
         /\ Sound(respond(s, d))
         /\ respond(s, d).end = "alive" => respond(s, d).cur = NoCommand
<1>1. respond(s, d) \in State
  BY RespondCalm
<1>2. CASE s.nested
  <2>1. respond(s, d).end = "nested_"
    BY <1>2 DEF respond, State
  <2>2. QED
    BY <1>1, <2>1 DEF Sound
<1>3. CASE ~s.nested
  <2>1. Replied(s, respond(s, d))
    BY <1>3, ReplyIs DEF respond
  <2>2. s.owed \in Int
    BY Fields
  <2>3. QED
    BY <1>1, <2>1, <2>2, AnswerSound DEF Replied
<1>4. QED
  BY <1>2, <1>3

(* A session that executes nothing may be shut down.                          *)
LEMMA ShutdownSound ==
  ASSUME NEW s \in State, Sound(s), s.end = "alive" => s.cur = NoCommand
  PROVE  Sound(Shutdown(s))
<1> DEFINE t == Shutdown(s)
<1>1. /\ t.cur = s.cur /\ t.calls = s.calls /\ t.nested = s.nested
      /\ t.file = s.file /\ t.auths = s.auths /\ t.authed = s.authed
      /\ t.lookup = s.lookup /\ t.sock = s.sock /\ t.handler = s.handler
      /\ t.chan = s.chan /\ t.end = s.end /\ t.disturbed = s.disturbed
      /\ t.shut = TRUE /\ t.event = FALSE
  BY ShutdownKeeps
<1> HIDE DEF t
<1>2. (Closed(t) /\ OwesOne(t)) \/ t.end # "alive"
  BY <1>1 DEF Closed, OwesOne
<1>3. Works(t) \/ t.end # "alive"
  BY <1>1 DEF Sound, Firm, Works, HasCalls, AsyncCommands, NoCommand
<1>4. Sound(t)
  BY <1>1, <1>2, <1>3 DEF Sound, Firm
<1>5. QED
  BY <1>4 DEF t

(* Taking the line at the head of the buffer.                                 *)
LEMMA ConsumedGood ==
  ASSUME NEW s \in State, Sound(s), Consumed(s) PROVE Good(ses')
<1> DEFINE more == Len(s.input) > 1 /\ ~s.shut
           e == s.event \/ more
           w == s.waiting \/ more
           i == Tail(s.input)
           t == [s EXCEPT !.input = i, !.event = e, !.waiting = w]
<1>1. ses' = t
  BY DEF Consumed
<1>2. /\ t.cur = s.cur /\ t.calls = s.calls /\ t.nested = s.nested /\ t.recv = s.recv
      /\ t.file = s.file /\ t.auths = s.auths /\ t.authed = s.authed
      /\ t.lookup = s.lookup /\ t.sock = s.sock /\ t.handler = s.handler
      /\ t.chan = s.chan /\ t.end = s.end /\ t.disturbed = s.disturbed
      /\ t.owed = s.owed /\ t.shut = s.shut /\ t.event = e
  <2> HIDE DEF i, e, w
  <2> QED BY DEF State
<1>3. s.shut /\ ~s.event => ~e
  OBVIOUS
<1> HIDE DEF t, e
<1>4. Firm(s) => Firm(t)
  BY <1>2, <1>3 DEF Firm, Closed, OwesOne, Works, HasCalls
<1>5. Own(s) => Own(t)
  BY <1>2 DEF Own, HasCalls
<1>6. Good(t)
  BY <1>2, <1>4, <1>5 DEF Sound, Good, Busy
<1>7. QED
  BY <1>1, <1>6

(* The consumer event is taken off the queue.                                 *)
LEMMA NowKeeps ==
  ASSUME TypeOK
  PROVE  /\ Now.cur = ses.cur /\ Now.calls = ses.calls /\ Now.nested = ses.nested
         /\ Now.input = ses.input /\ Now.recv = ses.recv /\ Now.file = ses.file
         /\ Now.auths = ses.auths /\ Now.authed = ses.authed
         /\ Now.lookup = ses.lookup /\ Now.sock = ses.sock /\ Now.handler = ses.handler
         /\ Now.chan = ses.chan /\ Now.end = ses.end /\ Now.disturbed = ses.disturbed
         /\ Now.owed = ses.owed /\ Now.shut = ses.shut /\ Now.event = FALSE
BY DEF TypeOK, Now, State

(* A line answered while no command executes disturbs nobody, and nothing     *)
(* works then.                                                                *)
LEMMA AnsweringAnswerable ==
  ASSUME IInv, Good(ses), NEW l, Offered(l)
  PROVE  LET s == Answering(Now)
         IN /\ s \in State /\ Answerable(s) /\ ~s.shut /\ ~s.event /\ s.end = "alive"
            /\ s.recv = ses.recv /\ s.calls = ses.calls /\ s.input = ses.input
            /\ s.cur = ses.cur /\ s.nested = ses.nested /\ s.authed = ses.authed
<1> DEFINE s == Answering(Now)
           o == Owe(Now, 1)
<1>1. s \in State /\ TypeOK
  BY AnsweringReady DEF IInv
<1>2. ses.event /\ ses.end = "alive" /\ Firm(ses)
  BY DEF Offered, Alive, Good
<1>3. ~ses.shut
  BY <1>2 DEF Firm, Closed
<1>4. /\ s.cur = Now.cur /\ s.calls = Now.calls /\ s.nested = Now.nested
      /\ s.input = Now.input /\ s.recv = Now.recv /\ s.authed = Now.authed
      /\ s.auths = Now.auths /\ s.lookup = Now.lookup /\ s.handler = Now.handler
      /\ s.chan = Now.chan /\ s.end = Now.end /\ s.shut = Now.shut /\ s.event = Now.event
      /\ Now.cur # NoCommand => s.disturbed
      /\ Now.cur = NoCommand => s.disturbed = Now.disturbed /\ s.owed = o
  <2>1. Now \in State
    BY <1>1, NowType
  <2> HIDE DEF o
  <2>2. CASE Now.cur # NoCommand
    BY <2>1, <2>2 DEF Answering, Disturb, State
  <2>3. CASE Now.cur = NoCommand
    <3>1. s = [Now EXCEPT !.owed = o]
      BY <2>3 DEF Answering, o
    <3> HIDE DEF s
    <3>2. QED
      BY <2>1, <2>3, <3>1 DEF State
  <2>4. QED
    BY <2>2, <2>3
<1>5. ~Now.disturbed /\ ~Now.shut => o = Now.owed + 1
  BY DEF Owe
<1> HIDE DEF s, o
<1>6. Answerable(s)
  <2>1. SUFFICES ASSUME ~s.disturbed
                 PROVE  Spare(s) /\ s.owed = 1 /\ ~s.handler /\ s.chan = "clear"
    BY <1>1, <1>3, <1>4, NowKeeps DEF Answerable, Replying
  <2>2. ses.cur = NoCommand /\ ~ses.disturbed /\ s.owed = ses.owed + 1
    BY <1>1, <1>3, <1>4, <1>5, <2>1, NowKeeps
  <2>3. ses.owed = 0 /\ Works(ses)
    BY <1>2, <1>3, <2>2 DEF Firm, OwesOne
  <2>4. Spare(ses) /\ ~ses.handler /\ ses.chan = "clear"
    <3>1. ses.auths \in Nat
      BY <1>1, Fields DEF TypeOK
    <3>2. QED
      BY <2>2, <2>3, <3>1 DEF Works, Spare, HasCalls, AsyncCommands, NoCommand
  <2>5. QED
    BY <1>1, <1>4, <2>2, <2>3, <2>4, NowKeeps DEF Spare, HasCalls
<1>7. QED
  BY <1>1, <1>2, <1>3, <1>4, <1>6, NowKeeps DEF s

(* So a command starts with nothing else at work.                             *)
LEMMA StartedAnswerable ==
  ASSUME IInv, Good(ses), NEW c \in Commands, Starts(c)
  PROVE  /\ Started \in State /\ Answerable(Started) /\ ~Started.shut /\ ~Started.event
         /\ Started.end = "alive" /\ Started.cur = c /\ c # NoCommand
<1> DEFINE a == Answering(Now)
<1>1. Offered(c) /\ Line = c
  BY DEF Starts, Offered
<1>2. a \in State /\ Answerable(a) /\ ~a.shut /\ ~a.event /\ a.end = "alive"
  BY <1>1, AnsweringAnswerable
<1>3. Started = [a EXCEPT !.cur = c]
  BY <1>1 DEF Started
<1>4. Started \in State /\ c # NoCommand
  BY StartedReady DEF Commands, NoCommand
<1> HIDE DEF a
<1>5. /\ Started.calls = a.calls /\ Started.nested = a.nested /\ Started.auths = a.auths
      /\ Started.lookup = a.lookup /\ Started.handler = a.handler /\ Started.chan = a.chan
      /\ Started.end = a.end /\ Started.shut = a.shut /\ Started.event = a.event
      /\ Started.disturbed = a.disturbed /\ Started.owed = a.owed /\ Started.cur = c
  BY <1>2, <1>3 DEF State
<1>6. Answerable(Started)
  BY <1>2, <1>5 DEF Answerable, Replying, Spare, HasCalls
<1>7. QED
  BY <1>2, <1>4, <1>5, <1>6

(* Lines refused.                                                             *)
LEMMA RefuseGood == ASSUME IInv, Good(ses), Refuse PROVE Good(ses')
<1> DEFINE a == Answering(Now)
           r == respond(a, 5)
<1>1. PICK l : Offered(l)
  BY DEF Refuse
<1>2. a \in State /\ Answerable(a)
  BY <1>1, AnsweringAnswerable
<1>3. Consumed(r) \/ Consumed(Shutdown(r))
  BY DEF Refuse
<1> HIDE DEF a
<1>4. r \in State /\ Sound(r) /\ (r.end = "alive" => r.cur = NoCommand)
  BY <1>2, RespondSound
<1> HIDE DEF r
<1>5. Shutdown(r) \in State /\ Sound(Shutdown(r))
  BY <1>4, ShutdownType, ShutdownSound
<1>6. QED
  BY <1>3, <1>4, <1>5, ConsumedGood

(* A command that waits for another one: that one is not overtaken.           *)
LEMMA QueueGood == ASSUME IInv, Good(ses), queue_new_cmd PROVE Good(ses')
<1> DEFINE a == [Now EXCEPT !.queued = TRUE]
           t == [a EXCEPT !.waiting = TRUE]
<1>1. PICK c : Offered(c) /\ ~Overtakes(c) /\ ses' = t
  BY DEF queue_new_cmd, Postponed
<1>2. Now \in State /\ TypeOK
  BY NowType DEF IInv
<1>3. Alike(Now, t)
  BY <1>2 DEF State, Alike
<1>4. Firm(ses) /\ Busy(ses) /\ ~Overtaken(ses)
  BY <1>1 DEF Good, Offered, Alive, Line, Overtakes, Overtaken
<1>5. Firm(Now) /\ (Now.cur # NoCommand => Own(Now))
  BY <1>2, <1>4, NowKeeps DEF Firm, Closed, OwesOne, Works, Busy, Own, HasCalls
<1>6. Sound(Now)
  BY <1>5 DEF Sound
<1> HIDE DEF t
<1>7. QED
  BY <1>1, <1>3, <1>6, AlikeGood, SoundGood

(* ABOR during a call waits at the head of the buffer for its result.         *)
LEMMA AbortGood == ASSUME IInv, Good(ses), AbortPendingCall PROVE Good(ses')
<1> DEFINE a == [Now EXCEPT !.recv = "aborted"]
           t == [a EXCEPT !.waiting = TRUE]
<1>1. ses' = t /\ Offered("ABOR") /\ Overtakes("ABOR") /\ ses.recv = "pending"
  BY DEF AbortPendingCall, Postponed
<1>2. Now \in State /\ TypeOK /\ HasCalls(ses)
  BY <1>1, NowType DEF IInv, Wake
<1>3. /\ t.cur = Now.cur /\ t.calls = Now.calls /\ t.nested = Now.nested
      /\ t.file = Now.file /\ t.auths = Now.auths /\ t.authed = Now.authed
      /\ t.lookup = Now.lookup /\ t.sock = Now.sock /\ t.handler = Now.handler
      /\ t.chan = Now.chan /\ t.disturbed = Now.disturbed /\ t.input = Now.input
      /\ t.owed = Now.owed /\ t.shut = Now.shut /\ t.event = Now.event
      /\ t.recv = "aborted"
  BY <1>2 DEF State
<1> HIDE DEF t
<1>4. Firm(t)
  <2>1. Firm(ses)
    BY <1>1 DEF Good, Offered, Alive
  <2>2. QED
    BY ZenonT(60), <1>1, <1>2, <1>3, <2>1, NowKeeps DEF Firm, Closed, OwesOne, Works, HasCalls
<1>5. Overtaken(t)
  BY <1>1, <1>2, <1>3, NowKeeps DEF Overtaken, Offered, Overtakes, Line, HasCalls
<1>6. QED
  BY <1>1, <1>4, <1>5 DEF Good, Busy

(* A consumer event that finds no line.                                       *)
LEMMA NothingGood == ASSUME IInv, Good(ses), NothingOffered PROVE Good(ses')
<1>1. ses' = Now /\ ses.input = <<>> /\ TypeOK /\ Firm(ses) /\ Busy(ses)
  BY DEF NothingOffered, IInv, Alive, Good
<1>2. Firm(Now) /\ (Now.cur # NoCommand => Own(Now))
  BY <1>1, NowKeeps DEF Firm, Closed, OwesOne, Works, Busy, Overtaken, Own, HasCalls
<1>3. QED
  BY <1>1, <1>2 DEF Good, Busy

(* A line that arrives leaves the head of the buffer where it is.             *)
LEMMA AdderGood == ASSUME IInv, Good(ses), AdderEvent PROVE Good(ses')
<1>1. PICK l \in Lines :
        ses' = [ses EXCEPT !.input = Append(@, l), !.waiting = TRUE,
                           !.event = @ \/ ~ses.waiting]
  BY DEF AdderEvent
<1> DEFINE i == Append(ses.input, l)
           e == ses.event \/ ~ses.waiting
           t == [ses EXCEPT !.input = i, !.waiting = TRUE, !.event = e]
<1>2. ses \in State /\ ses.end = "alive" /\ ~ses.shut
  BY DEF IInv, TypeOK, AdderEvent, Alive
<1>3. ses.input \in Seq(Lines)
  BY <1>2, Fields
<1>4. ses.input # <<>> => i # <<>> /\ Head(i) = Head(ses.input)
  BY <1>3
<1>5. ses' = t
  BY <1>1
<1>6. /\ t.cur = ses.cur /\ t.calls = ses.calls /\ t.nested = ses.nested
      /\ t.recv = ses.recv /\ t.file = ses.file /\ t.auths = ses.auths /\ t.authed = ses.authed
      /\ t.lookup = ses.lookup /\ t.sock = ses.sock /\ t.handler = ses.handler
      /\ t.chan = ses.chan /\ t.disturbed = ses.disturbed /\ t.input = i
      /\ t.owed = ses.owed /\ t.shut = ses.shut /\ t.event = e
  <2> HIDE DEF i, e
  <2> QED BY <1>2 DEF State
<1>7. ses.event => e
  OBVIOUS
<1> HIDE DEF t, i, e
<1>8. Firm(ses) /\ Busy(ses)
  BY <1>2 DEF Good
<1>9. Firm(t)
  BY <1>2, <1>6, <1>8 DEF Firm, Closed, OwesOne, Works, HasCalls
<1>10. Own(ses) => Own(t)
  BY <1>6 DEF Own, HasCalls
<1>11. Overtaken(ses) => Overtaken(t)
  BY <1>4, <1>6, <1>7 DEF Overtaken, HasCalls
<1>12. QED
  BY <1>5, <1>6, <1>8, <1>9, <1>10, <1>11 DEF Good, Busy

(* A command that is answered as soon as it starts.                           *)
LEMMA AnsweredGood ==
  ASSUME IInv, Good(ses), NEW c \in Commands, Starts(c), NEW d \in 2..5,
         Consumed(respond(Started, d))
  PROVE  Good(ses')
BY StartedAnswerable, RespondSound, ConsumedGood

(* A command refused for want of a login.                                     *)
LEMMA NotLoggedInGood == ASSUME IInv, Good(ses), NotLoggedIn PROVE Good(ses')
<1>1. PICK c \in Commands : Starts(c) /\ Consumed(respond(Started, 5))
  BY DEF NotLoggedIn, NeedsAuth
<1>2. QED
  BY <1>1, AnsweredGood

(* Of a session that is disturbed only the wake-ups matter.                   *)
Noisy(s) == s.disturbed /\ (s.shut => ~s.event)

(* Replies keep it so.                                                        *)
LEMMA NoisyReply ==
  ASSUME NEW s \in State, Noisy(s), NEW d \in 2..5
  PROVE  Noisy(act_upon_command_reply(s, d)) /\ Noisy(respond(s, d))
<1>1. Noisy(act_upon_command_reply(s, d))
  BY ReplyIs DEF Noisy, Replied
<1>2. Noisy([s EXCEPT !.end = "nested_"])
  BY DEF Noisy, State
<1>3. QED
  BY <1>1, <1>2 DEF respond

(* What close_data_connection() leaves alone.                                 *)
LEMMA CloseKeeps ==
  ASSUME NEW s \in State
  PROVE  LET t == close_data_connection(s)
         IN /\ t.cur = s.cur /\ t.calls = s.calls /\ t.nested = s.nested
            /\ t.input = s.input /\ t.file = s.file /\ t.auths = s.auths /\ t.authed = s.authed
            /\ t.lookup = s.lookup /\ t.handler = FALSE /\ t.recv = s.recv
            /\ t.chan = "clear" /\ t.end = s.end /\ t.disturbed = s.disturbed
            /\ t.owed = s.owed /\ t.shut = s.shut /\ t.event = s.event
BY DEF close_data_connection, State

(* ABOR(): while a nested adder runs the session is disturbed.                *)
LEMMA AborSound ==
  ASSUME NEW s \in State, Answerable(s) PROVE ABOR(s) \in State /\ Sound(ABOR(s))
<1> DEFINE n == [s EXCEPT !.nested = FALSE]
           a == stop_processing_nested_adder(s)
           b == close_data_connection(a)
           c == respond(b, 4)
<1>1. CASE ~s.nested
  BY <1>1, RespondSound DEF ABOR
<1>2. CASE s.nested
  <2>1. s.disturbed /\ Noisy(s)
    BY <1>2, Flags DEF Answerable, Replying, Spare, Noisy
  <2>2. n \in State /\ Noisy(n)
    BY <2>1 DEF Noisy, State
  <2>3. a \in State /\ Noisy(a)
    <3> HIDE DEF n
    <3>1. a = act_upon_command_reply(n, 2)
      BY DEF stop_processing_nested_adder, n
    <3> HIDE DEF a
    <3>2. QED
      BY <2>2, <3>1, ActType, NoisyReply
  <2> HIDE DEF a
  <2>4. b \in State /\ Noisy(b)
    BY <2>3, CloseCalm, CloseKeeps DEF Noisy
  <2> HIDE DEF b
  <2>5. c \in State /\ Noisy(c)
    BY <2>4, RespondCalm, NoisyReply
  <2>6. ABOR(s) = respond(c, 2)
    BY <1>2 DEF ABOR, a, b
  <2> HIDE DEF c
  <2>7. Answerable(c)
    BY <2>5 DEF Noisy, Answerable, Replying
  <2>8. QED
    BY <2>5, <2>6, <2>7, RespondSound
<1>3. QED
  BY <1>1, <1>2

(* Commands answered at once.                                                 *)
LEMMA AtOnceGood == ASSUME IInv, Good(ses), AnswerAtOnce PROVE Good(ses')
<1>1. {"NOOP", "QUIT", "ABOR"} \subseteq Commands
  BY DEF Commands
<1>2. PICK c \in {"NOOP", "QUIT", "ABOR"} : Starts(c)
  BY DEF AnswerAtOnce, Allowed
<1>3. Started \in State /\ Answerable(Started)
  BY <1>1, <1>2, StartedAnswerable
<1>4. CASE \E digit \in {2, 3, 5} : Consumed(respond(Started, digit))
  BY <1>1, <1>2, <1>4, AnsweredGood
<1>5. CASE Consumed(QUIT(Started))
  <2> DEFINE r == respond(Started, 2)
  <2>1. r \in State /\ Sound(r) /\ (r.end = "alive" => r.cur = NoCommand)
    BY <1>3, RespondSound
  <2>2. Consumed(Shutdown(r))
    BY <1>5 DEF QUIT
  <2> HIDE DEF r
  <2>3. QED
    BY <2>1, <2>2, ShutdownType, ShutdownSound, ConsumedGood
<1>6. CASE Consumed(ABOR(Started))
  BY <1>3, <1>6, AborSound, ConsumedGood
<1>7. QED
  BY <1>4, <1>5, <1>6 DEF AnswerAtOnce

(* A result of the authenticator, or its absence, answers USER or PASS.       *)
LEMMA ResponseSound ==
  ASSUME NEW s \in State, Answerable(s), NEW result \in {"user", "denied", "quota", "null"}
  PROVE  LET t == handle_authenticate_user_response(s, result)
         IN t \in State /\ Sound(t) /\ (t.end = "alive" => t.cur = NoCommand)
<1> DEFINE p == (result # "null")
           a == [s EXCEPT !.timer = TRUE, !.authOp = p]
           b == [s EXCEPT !.timer = TRUE]
           c == [s EXCEPT !.user = FALSE]
           d == IF result = "quota" THEN 4 ELSE 5
           r == respond(c, d)
           e == [r EXCEPT !.timer = TRUE]
           t == handle_authenticate_user_response(s, result)
<1>1. p \in BOOLEAN /\ d \in 2..5
  OBVIOUS
<1>2. a \in State /\ b \in State /\ c \in State
  <2> HIDE DEF p
  <2> QED BY ZenonT(40), <1>1 DEF State
<1>3. Alike(s, a) /\ Alike(s, b) /\ Alike(s, c)
  <2> HIDE DEF p
  <2> QED BY DEF State, Alike
<1>4. t \in {respond(a, 3), respond(b, 2), e}
  BY DEF handle_authenticate_user_response
<1>5. t \in State
  BY ResponseCalm
<1> HIDE DEF a, b, c, d, t
<1>6. Answerable(a) /\ Answerable(b) /\ Answerable(c)
  BY <1>3, AlikeGood
<1>7. r \in State /\ Sound(r) /\ (r.end = "alive" => r.cur = NoCommand)
  BY <1>1, <1>2, <1>6, RespondSound
<1>8. Alike(r, e)
  <2> HIDE DEF r
  <2> QED BY <1>7 DEF State, Alike
<1> HIDE DEF r, e
<1>9. Sound(e) /\ (e.end = "alive" => e.cur = NoCommand)
  BY <1>7, <1>8, AlikeGood DEF Alike
<1>10. /\ Sound(respond(a, 3)) /\ (respond(a, 3).end = "alive" => respond(a, 3).cur = NoCommand)
       /\ Sound(respond(b, 2)) /\ (respond(b, 2).end = "alive" => respond(b, 2).cur = NoCommand)
  BY <1>2, <1>6, RespondSound
<1>11. Sound(t) /\ (t.end = "alive" => t.cur = NoCommand)
  BY <1>4, <1>9, <1>10
<1>12. QED
  BY <1>5, <1>11 DEF t

(* An operation of the authenticator begins, for the command that executes.   *)
LEMMA OperationGood ==
  ASSUME NEW s \in State, Answerable(s), ~s.shut, s.cur \in {"USER", "PASS"},
         NEW u \in BOOLEAN,
         Consumed([s EXCEPT !.user = u, !.authed = FALSE, !.authOp = FALSE,
                            !.timer = FALSE, !.auths = @ + 1])
  PROVE  Good(ses')
<1> DEFINE n == s.auths + 1
           t == [s EXCEPT !.user = u, !.authed = FALSE, !.authOp = FALSE,
                          !.timer = FALSE, !.auths = n]
<1>1. n \in Nat /\ n > 0 /\ (s.auths = 0 => n = 1)
  BY Fields
<1>2. t \in State
  <2> HIDE DEF n
  <2> QED BY ZenonT(40), <1>1 DEF State
<1>3. /\ t.cur = s.cur /\ t.calls = s.calls /\ t.nested = s.nested
      /\ t.auths = n /\ t.authed = FALSE /\ t.lookup = s.lookup /\ t.handler = s.handler
      /\ t.chan = s.chan /\ t.disturbed = s.disturbed /\ t.owed = s.owed
      /\ t.shut = s.shut
  <2> HIDE DEF n
  <2> QED BY DEF State
<1>4. Consumed(t)
  OBVIOUS
<1> HIDE DEF t, n
<1>5. Closed(t) /\ OwesOne(t)
  BY <1>3 DEF Closed, OwesOne, Answerable, Replying, NoCommand
<1>6. Works(t)
  BY <1>1, <1>3 DEF Works, Answerable, Replying, Spare, HasCalls
<1>7. Sound(t)
  BY <1>1, <1>3, <1>5, <1>6 DEF Sound, Firm, Own
<1>8. QED
  BY <1>2, <1>4, <1>7, ConsumedGood

(* USER and PASS.                                                             *)
LEMMA LoginGood == ASSUME IInv, Good(ses), Login PROVE Good(ses')
<1>1. {"USER", "PASS"} \subseteq Commands
  BY DEF Commands
<1>2. PICK c \in {"USER", "PASS"} :
        /\ Starts(c)
        /\ \/ c = "USER" /\ Consumed(USER(Started))
           \/ c = "PASS" /\ \E next \in BOOLEAN : Consumed(PASS(Started, next))
  BY DEF Login
<1>3. /\ Started \in State /\ Answerable(Started) /\ ~Started.shut /\ Started.cur = c
  BY <1>1, <1>2, StartedAnswerable
<1> DEFINE a == [Started EXCEPT !.authOp = FALSE]
           r == handle_authenticate_user_response(a, "null")
           o == [Started EXCEPT !.user = TRUE, !.authed = FALSE, !.authOp = FALSE,
                                !.timer = FALSE, !.auths = @ + 1]
           b == [Started EXCEPT !.authOp = FALSE, !.timer = FALSE, !.auths = @ + 1]
           q == [Started EXCEPT !.user = Started.user, !.authed = FALSE,
                                !.authOp = FALSE, !.timer = FALSE, !.auths = @ + 1]
<1>4. a \in State /\ Alike(Started, a)
  BY <1>3 DEF State, Alike
<1>5. r \in State /\ Sound(r)
  <2> HIDE DEF a
  <2> QED BY <1>3, <1>4, AlikeGood, ResponseSound
<1>6. \/ Consumed(respond(Started, 5)) \/ Consumed(r)
      \/ Consumed(o) \/ (Consumed(b) /\ ~Started.authed)
  BY <1>2 DEF USER, PASS
<1>7. ~Started.authed => b = q
  <2>1. Started.authed \in BOOLEAN
    BY <1>3, Flags
  <2>2. QED
    BY <1>3, <2>1 DEF State
<1>8. CASE Consumed(o)
  BY <1>2, <1>3, <1>8, OperationGood
<1>9. CASE Consumed(b) /\ ~Started.authed
  <2>1. Consumed(q)
    BY <1>7, <1>9
  <2>2. Started.user \in BOOLEAN
    BY <1>3, Flags
  <2>3. QED
    BY <1>2, <1>3, <2>1, <2>2, OperationGood
<1> HIDE DEF a, r, o, b, q
<1>10. QED
  BY <1>1, <1>2, <1>5, <1>6, <1>8, <1>9, AnsweredGood, ConsumedGood

(* A call of the tvfs begins, for the command that executes.                  *)
LEMMA CallGood == ASSUME IInv, Good(ses), StartCall PROVE Good(ses')
<1>1. PICK c \in AsyncCommands :
        Allowed(c) /\ (Consumed(respond(Started, 4)) \/ Consumed(Async(Started, c)))
  BY DEF StartCall
<1>2. c \in Commands /\ Starts(c)
  BY <1>1 DEF AsyncCommands, Commands, Allowed
<1>3. /\ Started \in State /\ Answerable(Started) /\ ~Started.shut
      /\ Started.cur = c /\ c # NoCommand
  BY <1>2, StartedAnswerable
<1>4. CASE Consumed(respond(Started, 4))
  BY <1>2, <1>4, AnsweredGood
<1>5. CASE Consumed(Async(Started, c))
  <2> DEFINE f == [Started.calls EXCEPT ![c] = @ + 1]
             t == [Started EXCEPT !.recv = "pending", !.calls = f]
  <2>1. Started.calls \in [AsyncCommands -> Nat]
    BY <1>3, Fields
  <2>2. /\ f \in [AsyncCommands -> Nat] /\ f[c] = Started.calls[c] + 1
        /\ \A x \in AsyncCommands : x # c => f[x] = Started.calls[x]
    BY <2>1
  <2>3. Async(Started, c) = t
    BY <1>3 DEF Async, State
  <2>4. "pending" \in ReceiveStates
    BY DEF ReceiveStates
  <2> HIDE DEF f
  <2>5. t \in State
    BY <1>3, <2>2, <2>4 DEF State
  <2>6. /\ t.cur = c /\ t.calls = f /\ t.nested = Started.nested
        /\ t.auths = Started.auths /\ t.lookup = Started.lookup
        /\ t.handler = Started.handler /\ t.chan = Started.chan
        /\ t.disturbed = Started.disturbed /\ t.owed = Started.owed
        /\ t.shut = Started.shut /\ t.recv = "pending"
    BY <1>3 DEF State
  <2> HIDE DEF t
  <2>7. Closed(t) /\ OwesOne(t)
    BY <1>3, <2>6 DEF Closed, OwesOne, Answerable, Replying
  <2>8. Works(t)
    <3>1. SUFFICES ASSUME ~t.disturbed PROVE Works(t)
      BY DEF Works
    <3>2. \A x \in AsyncCommands : Started.calls[x] = 0
      BY <1>3, <2>1, <2>6, <3>1 DEF Answerable, Replying, Spare, HasCalls
    <3>3. \A x \in AsyncCommands : t.calls[x] > 0 => x = c /\ t.calls[x] = 1
      BY <2>2, <2>6, <3>2
    <3>4. t.auths = 0 /\ ~t.lookup /\ ~t.nested /\ ~t.handler /\ t.chan = "clear"
      BY <1>3, <2>6, <3>1 DEF Answerable, Replying, Spare
    <3>5. QED
      BY <2>6, <3>3, <3>4 DEF Works
  <2>9. Own(t)
    <3>1. t.calls[c] > 0
      BY <1>1, <2>1, <2>2, <2>6
    <3>2. QED
      BY <1>1, <2>6, <3>1 DEF Own, HasCalls
  <2>10. Sound(t)
    BY <2>7, <2>8, <2>9 DEF Sound, Firm
  <2>11. QED
    BY <1>5, <2>3, <2>5, <2>10, ConsumedGood
<1>6. QED
  BY <1>1, <1>4, <1>5

(* PASV and PORT find no channel of a transfer that still goes on.            *)
LEMMA PreparedAnswerable ==
  ASSUME NEW s \in State, Answerable(s), NEW k \in DataSockets, NEW l \in ListenSockets
  PROVE  LET t == [Replaced(s) EXCEPT !.sock = k, !.listen = l]
         IN t \in State /\ Answerable(t) /\ t.cur = s.cur /\ t.shut = s.shut
<1> DEFINE r == Replaced(s)
           t == [r EXCEPT !.sock = k, !.listen = l]
           c == IF s.chan = "attached" THEN "dangling" ELSE s.chan
<1>1. r \in State
  BY ReplacedCalm
<1>2. r = [s EXCEPT !.prevErr = FALSE, !.chan = c]
  BY DEF Replaced
<1>3. s.chan = "clear" => c = "clear"
  OBVIOUS
<1> HIDE DEF c, r
<1>4. /\ r.cur = s.cur /\ r.calls = s.calls /\ r.nested = s.nested /\ r.auths = s.auths
      /\ r.lookup = s.lookup /\ r.handler = s.handler /\ r.chan = c
      /\ r.disturbed = s.disturbed /\ r.owed = s.owed /\ r.shut = s.shut /\ r.event = s.event
  BY <1>2 DEF State
<1>5. /\ t \in State
      /\ t.cur = r.cur /\ t.calls = r.calls /\ t.nested = r.nested /\ t.auths = r.auths
      /\ t.lookup = r.lookup /\ t.handler = r.handler /\ t.chan = r.chan
      /\ t.disturbed = r.disturbed /\ t.owed = r.owed /\ t.shut = r.shut /\ t.event = r.event
  BY <1>1 DEF State
<1> HIDE DEF t
<1>6. Answerable(t) /\ t.cur = s.cur /\ t.shut = s.shut
  BY <1>3, <1>4, <1>5 DEF Answerable, Replying, Spare, HasCalls
<1>7. QED
  BY <1>5, <1>6 DEF t, r

(* get_data_local_info(): an answer, or a lookup for PASV.                    *)
LEMMA LocalInfoSound ==
  ASSUME NEW s \in State, Answerable(s), ~s.shut, s.cur # NoCommand,
         NEW outcome \in {"no_port", "last_port", "ready", "lookup", "no_host"},
         outcome = "lookup" => s.cur = "PASV"
  PROVE  Sound(get_data_local_info(s, outcome))
<1> DEFINE t == [Replaced(s) EXCEPT !.sock = "none", !.listen = "open"]
           d == [t EXCEPT !.listen = "deaf"]
           a == [t EXCEPT !.info = TRUE, !.lookup = TRUE]
           b == [t EXCEPT !.info = FALSE, !.lookup = FALSE]
           g == get_data_local_info(s, outcome)
<1>1. "none" \in DataSockets /\ {"open", "deaf"} \subseteq ListenSockets
  BY DEF DataSockets, ListenSockets
<1>2. t \in State /\ Answerable(t) /\ t.cur = s.cur /\ t.shut = s.shut
  BY <1>1, PreparedAnswerable
<1>3. \/ g \in {respond(d, 4), respond(t, 4), respond(t, 2), respond(b, 4)}
      \/ g = a /\ s.cur = "PASV"
  BY DEF get_data_local_info
<1> HIDE DEF t, g
<1>4. d \in State /\ Alike(t, d)
  BY <1>1, <1>2 DEF State, Alike
<1>5. b \in State /\ Answerable(b)
  <2>1. /\ b \in State /\ b.cur = t.cur /\ b.calls = t.calls /\ b.nested = t.nested
        /\ b.auths = t.auths /\ b.lookup = FALSE /\ b.handler = t.handler /\ b.chan = t.chan
        /\ b.disturbed = t.disturbed /\ b.owed = t.owed /\ b.shut = t.shut /\ b.event = t.event
    BY ZenonT(60), <1>2 DEF State
  <2> HIDE DEF b
  <2>2. QED
    BY <1>2, <2>1 DEF Answerable, Replying, Spare, HasCalls
<1>6. s.cur = "PASV" => Sound(a)
  <2>1. /\ a.cur = t.cur /\ a.calls = t.calls /\ a.nested = t.nested
        /\ a.auths = t.auths /\ a.lookup = TRUE /\ a.handler = t.handler /\ a.chan = t.chan
        /\ a.disturbed = t.disturbed /\ a.owed = t.owed /\ a.shut = t.shut /\ a.event = t.event
    BY <1>2 DEF State
  <2> HIDE DEF a
  <2>2. Closed(a) /\ OwesOne(a)
    BY <1>2, <2>1 DEF Closed, OwesOne, Answerable, Replying
  <2>3. s.cur = "PASV" => Works(a)
    BY <1>2, <2>1 DEF Works, Answerable, Replying, Spare, HasCalls
  <2>4. QED
    BY <2>1, <2>2, <2>3 DEF Sound, Firm, Own
<1> HIDE DEF a, b, d
<1>7. Answerable(d)
  BY <1>2, <1>4, AlikeGood
<1>8. /\ Sound(respond(d, 4)) /\ Sound(respond(t, 4)) /\ Sound(respond(t, 2))
      /\ Sound(respond(b, 4))
  BY <1>2, <1>4, <1>5, <1>7, RespondSound
<1>9. Sound(g)
  BY <1>3, <1>6, <1>8
<1>10. QED
  BY <1>9 DEF g

(* PASV, EPSV and PORT.                                                       *)
LEMMA PrepareGood == ASSUME IInv, Good(ses), PrepareDataConnection PROVE Good(ses')
<1>1. {"EPSV", "PASV", "PORT"} \subseteq Commands
  BY DEF Commands
<1>2. PICK c \in {"EPSV", "PASV", "PORT"} :
        /\ Starts(c)
        /\ \/ \E o \in {"no_port", "last_port", "ready", "lookup", "no_host"} :
                (o = "lookup" => c = "PASV") /\ Consumed(get_data_local_info(Started, o))
           \/ \E binds \in BOOLEAN : Consumed(set_data_peer_hostaddress(Started, binds))
  BY DEF PrepareDataConnection, Allowed
<1>3. /\ Started \in State /\ Answerable(Started) /\ ~Started.shut
      /\ Started.cur = c /\ c # NoCommand
  BY <1>1, <1>2, StartedAnswerable
<1>4. CASE \E o \in {"no_port", "last_port", "ready", "lookup", "no_host"} :
             (o = "lookup" => c = "PASV") /\ Consumed(get_data_local_info(Started, o))
  <2>1. PICK o \in {"no_port", "last_port", "ready", "lookup", "no_host"} :
          (o = "lookup" => c = "PASV") /\ Consumed(get_data_local_info(Started, o))
    BY <1>4
  <2>2. get_data_local_info(Started, o) \in State
    BY <1>3, LocalInfoCalm
  <2>3. Sound(get_data_local_info(Started, o))
    BY <1>3, <2>1, LocalInfoSound
  <2>4. QED
    BY <2>1, <2>2, <2>3, ConsumedGood
<1>5. CASE \E binds \in BOOLEAN : Consumed(set_data_peer_hostaddress(Started, binds))
  <2>1. PICK binds \in BOOLEAN : Consumed(set_data_peer_hostaddress(Started, binds))
    BY <1>5
  <2> DEFINE k == IF binds THEN "fresh" ELSE "none"
             t == [Replaced(Started) EXCEPT !.sock = k, !.listen = "none"]
             u == [Replaced(Started) EXCEPT !.listen = "none", !.sock = k]
             d == IF binds THEN 2 ELSE 4
  <2>2. "none" \in ListenSockets /\ k \in DataSockets /\ d \in 2..5
    BY DEF DataSockets, ListenSockets
  <2>3. t \in State /\ Answerable(t)
    <3> HIDE DEF k
    <3> QED BY <1>3, <2>2, PreparedAnswerable
  <2>4. u = t
    <3>1. Replaced(Started) \in State
      BY <1>3, ReplacedCalm
    <3> HIDE DEF k
    <3>2. QED
      BY <3>1 DEF State
  <2>5. set_data_peer_hostaddress(Started, binds) = respond(u, d)
    BY DEF set_data_peer_hostaddress
  <2> HIDE DEF t, u, d
  <2>6. QED
    BY <2>1, <2>2, <2>3, <2>4, <2>5, RespondSound, ConsumedGood
<1>6. QED
  BY <1>2, <1>4, <1>5

(* A consumer event, whatever the line.                                       *)
LEMMA ConsumerGood == ASSUME IInv, Good(ses), ConsumerEvent PROVE Good(ses')
BY RefuseGood, QueueGood, AbortGood, NotLoggedInGood, LoginGood, AtOnceGood,
   CallGood, PrepareGood, NothingGood DEF ConsumerEvent

(* While the session is not disturbed, the command that executes says what is *)
(* not at work.                                                               *)
LEMMA Alone ==
  ASSUME NEW s \in State, Firm(s), ~s.disturbed
  PROVE  /\ s.cur \notin AsyncCommands => ~HasCalls(s)
         /\ s.cur \notin {"USER", "PASS"} => s.auths = 0
         /\ s.cur # "PASV" => ~s.lookup
         /\ s.cur # "STAT" => ~s.nested
         /\ s.cur # "RETR" => ~s.handler /\ s.chan = "clear"
         /\ s.handler => ~HasCalls(s)
         /\ s.nested => ~HasCalls(s)
         /\ s.cur # NoCommand /\ ~s.shut => s.owed = 1
<1>1. s.auths \in Nat
  BY Fields
<1>2. QED
  BY <1>1 DEF Firm, Works, OwesOne, HasCalls

(* handle_data_transfer() answers the transfer and ends it.                   *)
LEMMA TransferEnds ==
  ASSUME NEW s \in State, s.handler, Replying(s),
         NEW status \in {"connecting", "started", "stopped"}, NEW error \in BOOLEAN,
         error \/ s.prevErr \/ status = "stopped"
  PROVE  Sound(handle_data_transfer(s, status, error))
<1> DEFINE bad == error \/ (s.handler /\ s.prevErr)
           d == IF bad THEN 4 ELSE IF status = "started" THEN 1 ELSE 2
           r == respond(s, d)
           t == [r EXCEPT !.prevErr = FALSE]
           c == close_data_connection(t)
<1>1. handle_data_transfer(s, status, error) = c
  BY DEF handle_data_transfer
<1>2. d \in {2, 4}
  OBVIOUS
<1> HIDE DEF d, bad
<1>3. r \in State
  BY <1>2, RespondCalm
<1>4. CASE s.nested
  <2>1. r.end = "nested_"
    BY <1>4 DEF respond, State
  <2> HIDE DEF r
  <2>2. t \in State /\ t.end = "nested_"
    BY ZenonT(60), <1>3, <2>1 DEF State
  <2> HIDE DEF t
  <2>3. c.end = "nested_"
    BY <2>2, CloseKeeps
  <2>4. QED
    BY <1>1, <2>3 DEF Sound
<1>5. CASE ~s.nested
  <2>1. Replied(s, r)
    BY <1>2, <1>5, ReplyIs DEF respond
  <2> HIDE DEF r
  <2>2. t \in State /\ Alike(r, t)
    BY ZenonT(60), <1>3 DEF State, Alike
  <2> HIDE DEF t
  <2>3. /\ c.cur = r.cur /\ c.calls = r.calls /\ c.nested = r.nested /\ c.auths = r.auths
        /\ c.lookup = r.lookup /\ c.handler = FALSE /\ c.chan = "clear"
        /\ c.disturbed = r.disturbed /\ c.owed = r.owed /\ c.shut = r.shut /\ c.event = r.event
    BY <2>2, CloseKeeps DEF Alike
  <2> HIDE DEF c
  <2>4. s.owed \in Int
    BY Fields
  <2>5. Closed(c) /\ OwesOne(c)
    BY <2>1, <2>3, <2>4 DEF Replying, Replied, Closed, OwesOne
  <2>6. Works(c)
    BY <2>1, <2>3 DEF Replying, Spare, Replied, Works, HasCalls
  <2>7. Sound(c)
    BY <2>1, <2>3, <2>5, <2>6 DEF Sound, Firm, Replied
  <2>8. QED
    BY <1>1, <2>7
<1>6. QED
  BY <1>4, <1>5

(* Without a transfer there is nobody to answer.                              *)
LEMMA TransferIgnored ==
  ASSUME NEW s \in State, ~s.handler, Good(s),
         NEW status \in {"connecting", "started", "stopped"}, NEW error \in BOOLEAN,
         error \/ status = "stopped"
  PROVE  Good(handle_data_transfer(s, status, error))
<1> DEFINE t == [s EXCEPT !.prevErr = error]
           c == close_data_connection(t)
<1>1. handle_data_transfer(s, status, error) = c
  BY DEF handle_data_transfer
<1>2. t \in State /\ Alike(s, t)
  BY DEF State, Alike
<1> HIDE DEF t
<1>3. /\ c.cur = s.cur /\ c.calls = s.calls /\ c.nested = s.nested /\ c.auths = s.auths
      /\ c.lookup = s.lookup /\ c.handler = FALSE /\ c.chan = "clear"
      /\ c.disturbed = s.disturbed /\ c.owed = s.owed /\ c.shut = s.shut
      /\ c.event = s.event /\ c.recv = s.recv /\ c.input = s.input /\ c.end = s.end
      /\ c.authed = s.authed /\ c.file = s.file
  BY <1>2, CloseKeeps DEF Alike
<1> HIDE DEF c
<1>4. Firm(s) => Firm(c)
  BY <1>3 DEF Firm, Closed, OwesOne, Works, HasCalls
<1>5. Busy(s) => Busy(c)
  BY <1>3 DEF Busy, Own, Overtaken, HasCalls
<1>6. QED
  BY <1>1, <1>3, <1>4, <1>5 DEF Good

(* A transfer that is under way answers for its command.                      *)
LEMMA TransferReplying ==
  ASSUME NEW s \in State, Good(s), s.end = "alive", s.handler PROVE Replying(s)
<1>1. Firm(s)
  BY DEF Good
<1>2. s.shut => ~s.event
  BY <1>1 DEF Firm, Closed
<1>3. ~s.disturbed => s.cur = "RETR"
  BY <1>1 DEF Firm, Works
<1>4. ~s.disturbed => Spare(s) /\ (~s.shut => s.owed = 1)
  BY <1>1, <1>3, Alone DEF Spare, NoCommand
<1>5. QED
  BY <1>2, <1>4 DEF Replying

(* The end of the data connection, in a transfer or not.                      *)
LEMMA HandleGood ==
  ASSUME NEW s \in State, Good(s), s.end = "alive",
         NEW status \in {"connecting", "started", "stopped"}, NEW error \in BOOLEAN,
         error \/ status = "stopped"
  PROVE  Good(handle_data_transfer(s, status, error))
BY TransferReplying, TransferEnds, SoundGood, TransferIgnored

(* The announcement of a transfer is a preliminary reply.                     *)
LEMMA TransferStarts ==
  ASSUME NEW s \in State, s.handler, ~s.prevErr, Good(s)
  PROVE  Good(handle_data_transfer(s, "started", FALSE))
<1> DEFINE r == respond(s, 1)
           t == [r EXCEPT !.prevErr = FALSE]
<1>1. handle_data_transfer(s, "started", FALSE) = t
  BY DEF handle_data_transfer
<1>2. r \in State
  BY RespondCalm
<1>3. Good(r)
  <2>1. CASE s.nested
    <3>1. r.end = "nested_"
      BY <2>1 DEF respond, State
    <3>2. QED
      BY <3>1 DEF Good
  <2>2. CASE ~s.nested
    BY <2>2, ReplyIs, AlikeGood DEF respond
  <2>3. QED
    BY <2>1, <2>2
<1> HIDE DEF r
<1>4. Alike(r, t)
  BY <1>2 DEF State, Alike
<1>5. QED
  BY <1>1, <1>3, <1>4, AlikeGood

(* The socket may change while no channel uses it, or become connected.       *)
LEMMA SocketGood ==
  ASSUME NEW s \in State, Good(s), NEW k \in DataSockets, NEW l \in ListenSockets,
         s.chan = "clear" \/ k = "connected"
  PROVE  LET t == [s EXCEPT !.sock = k, !.listen = l] IN Good(t) /\ t.end = s.end
<1> DEFINE t == [s EXCEPT !.sock = k, !.listen = l]
<1>1. /\ t.cur = s.cur /\ t.calls = s.calls /\ t.nested = s.nested /\ t.auths = s.auths
      /\ t.lookup = s.lookup /\ t.handler = s.handler /\ t.chan = s.chan
      /\ t.disturbed = s.disturbed /\ t.owed = s.owed /\ t.shut = s.shut
      /\ t.event = s.event /\ t.recv = s.recv /\ t.input = s.input /\ t.end = s.end
      /\ t.authed = s.authed /\ t.file = s.file /\ t.sock = k
  BY DEF State
<1> HIDE DEF t
<1>2. Firm(s) => Firm(t)
  BY <1>1 DEF Firm, Closed, OwesOne, Works, HasCalls
<1>3. Busy(s) => Busy(t)
  BY <1>1 DEF Busy, Own, Overtaken, HasCalls
<1>4. Good(t) /\ t.end = s.end
  BY <1>1, <1>2, <1>3 DEF Good
<1>5. QED
  BY <1>4 DEF t

(* setup_data_channel(): the channel is attached to a connected socket, for   *)
(* the transfer that waits for it.                                            *)
LEMMA SetupGood ==
  ASSUME NEW s \in State, Good(s)
  PROVE  Good(setup_data_channel(s))
<1> DEFINE a == [s EXCEPT !.sock = "connecting"]
           b == [s EXCEPT !.chan = "attached", !.sock = "connected"]
<1>1. \/ setup_data_channel(s) = a /\ s.sock = "fresh"
      \/ setup_data_channel(s) = b /\ s.handler
      \/ setup_data_channel(s) = s
  BY DEF setup_data_channel
<1>2. /\ a.cur = s.cur /\ a.calls = s.calls /\ a.nested = s.nested /\ a.auths = s.auths
      /\ a.lookup = s.lookup /\ a.handler = s.handler /\ a.chan = s.chan
      /\ a.disturbed = s.disturbed /\ a.owed = s.owed /\ a.shut = s.shut
      /\ a.event = s.event /\ a.recv = s.recv /\ a.input = s.input /\ a.end = s.end
      /\ a.authed = s.authed /\ a.file = s.file
  BY DEF State
<1>3. /\ b.cur = s.cur /\ b.calls = s.calls /\ b.nested = s.nested /\ b.auths = s.auths
      /\ b.lookup = s.lookup /\ b.handler = s.handler /\ b.chan = "attached"
      /\ b.sock = "connected"
      /\ b.disturbed = s.disturbed /\ b.owed = s.owed /\ b.shut = s.shut
      /\ b.event = s.event /\ b.recv = s.recv /\ b.input = s.input /\ b.end = s.end
      /\ b.authed = s.authed /\ b.file = s.file
  BY DEF State
<1> HIDE DEF a, b
<1>4. s.sock = "fresh" /\ Firm(s) => Firm(a)
  BY <1>2 DEF Firm, Closed, OwesOne, Works, HasCalls
<1>5. s.handler /\ Firm(s) => Firm(b)
  BY <1>3 DEF Firm, Closed, OwesOne, Works, HasCalls
<1>6. Busy(s) => Busy(a) /\ Busy(b)
  BY <1>2, <1>3 DEF Busy, Own, Overtaken, HasCalls
<1>7. QED
  BY <1>1, <1>2, <1>3, <1>4, <1>5, <1>6 DEF Good

(* start_data_transfer(), for the RETR whose call has returned.               *)
LEMMA StartGood ==
  ASSUME NEW s \in State, Answerable(s), Closed(s), s.end = "alive",
         ~s.disturbed => s.cur = "RETR" /\ s.file, NEW connects \in BOOLEAN
  PROVE  Good(start_data_transfer(s, connects))
<1> DEFINE t == [s EXCEPT !.handler = TRUE]
           u == setup_data_channel(t)
<1>1. /\ t \in State
      /\ t.cur = s.cur /\ t.calls = s.calls /\ t.nested = s.nested /\ t.auths = s.auths
      /\ t.lookup = s.lookup /\ t.handler = TRUE /\ t.chan = s.chan
      /\ t.disturbed = s.disturbed /\ t.owed = s.owed /\ t.shut = s.shut
      /\ t.event = s.event /\ t.end = s.end /\ t.file = s.file
  BY DEF State
<1>2. \/ start_data_transfer(s, connects) = handle_data_transfer(t, "connecting", TRUE)
      \/ start_data_transfer(s, connects) = handle_data_transfer(u, "started", FALSE)
  BY DEF start_data_transfer
<1> HIDE DEF t
<1>3. Good(t)
  <2>1. Closed(t) /\ OwesOne(t)
    BY <1>1 DEF Closed, OwesOne, Answerable, Replying, NoCommand
  <2>2. Works(t)
    BY <1>1 DEF Answerable, Replying, Spare, Works, HasCalls
  <2>3. QED
    BY <1>1, <2>1, <2>2 DEF Good, Firm, Busy, Own
<1>4. Good(handle_data_transfer(t, "connecting", TRUE))
  BY <1>1, <1>3, HandleGood
<1>5. /\ u \in State /\ Good(u) /\ u.handler
      /\ u.end = "alive"
  <2>1. u \in State /\ Good(u)
    BY <1>1, <1>3, SetupCalm, SetupGood
  <2>2. u.handler = t.handler /\ u.end = t.end
    BY <1>1 DEF setup_data_channel, State
  <2>3. QED
    BY <1>1, <2>1, <2>2
<1> HIDE DEF u
<1>6. Good(handle_data_transfer(u, "started", FALSE))
  <2>1. CASE u.prevErr
    BY <1>5, <2>1, TransferReplying, TransferEnds, SoundGood
  <2>2. CASE ~u.prevErr
    BY <1>5, <2>2, TransferStarts
  <2>3. QED
    BY <2>1, <2>2
<1>7. QED
  BY <1>2, <1>4, <1>6

(* Nothing but a reply to another line, a timeout or an abort disturbs, and   *)
(* nothing but the login commands and their results changes who is logged in. *)
Kept(s, t) == t.disturbed = s.disturbed /\ t.authed = s.authed

(* A reply does neither.                                                      *)
LEMMA RespondKept ==
  ASSUME NEW s \in State, NEW d \in 1..5
  PROVE  /\ Kept(s, respond(s, d))
         /\ Kept(s, act_upon_command_reply(s, d))
<1>1. Kept(s, [s EXCEPT !.end = "nested_"])
  BY DEF State, Kept
<1>2. Kept(s, act_upon_command_reply(s, d))
  BY ReplyIs DEF Replied, Alike, Kept
<1>3. QED
  BY <1>1, <1>2 DEF respond

(* Nor does the end of a transfer, or the start of one.                       *)
LEMMA TransferKept ==
  ASSUME NEW s \in State, NEW status, NEW error \in BOOLEAN
  PROVE  Kept(s, handle_data_transfer(s, status, error))
<1> DEFINE bad == error \/ (s.handler /\ s.prevErr)
           d == IF bad THEN 4 ELSE IF status = "started" THEN 1 ELSE 2
           r == respond(s, d)
           y == [r EXCEPT !.prevErr = FALSE]
           z == [s EXCEPT !.prevErr = error]
           t == IF s.handler THEN y ELSE z
<1>1. handle_data_transfer(s, status, error) \in {t, close_data_connection(t)}
  BY DEF handle_data_transfer
<1>2. d \in 1..5
  OBVIOUS
<1> HIDE DEF d
<1>3. r \in State /\ Kept(s, r)
  BY <1>2, RespondKept, RespondCalm
<1> HIDE DEF r
<1>4. y \in State /\ Kept(r, y)
  BY ZenonT(60), <1>3 DEF State, Kept
<1>5. z \in State /\ Kept(s, z)
  BY DEF State, Kept
<1>6. t = IF s.handler THEN y ELSE z
  OBVIOUS
<1> HIDE DEF t, y, z
<1>7. t \in State /\ Kept(s, t)
  BY <1>3, <1>4, <1>5, <1>6 DEF Kept
<1>8. QED
  BY <1>1, <1>7, CloseKeeps DEF Kept

(* Nor does the set-up of the data connection.                                *)
LEMMA SetupKept == ASSUME NEW s \in State PROVE Kept(s, setup_data_channel(s))
BY DEF setup_data_channel, State, Kept

(* Nor does start_data_transfer().                                            *)
LEMMA StartKept ==
  ASSUME NEW s \in State, NEW connects \in BOOLEAN
  PROVE  Kept(s, start_data_transfer(s, connects))
<1> DEFINE t == [s EXCEPT !.handler = TRUE]
           u == setup_data_channel(t)
<1>1. t \in State /\ Kept(s, t)
  BY DEF State, Kept
<1>2. start_data_transfer(s, connects)
        \in {handle_data_transfer(t, "connecting", TRUE),
             handle_data_transfer(u, "started", FALSE)}
  BY DEF start_data_transfer
<1> HIDE DEF t
<1>3. u \in State /\ Kept(t, u)
  BY <1>1, SetupCalm, SetupKept
<1> HIDE DEF u
<1>4. /\ Kept(t, handle_data_transfer(t, "connecting", TRUE))
      /\ Kept(u, handle_data_transfer(u, "started", FALSE))
  BY <1>1, <1>3, TransferKept
<1>5. QED
  BY <1>1, <1>2, <1>3, <1>4 DEF Kept

(* Nor does the result of a call.                                             *)
LEMMA ReceivedKept ==
  ASSUME NEW s \in State, NEW c \in AsyncCommands, NEW ok \in BOOLEAN, NEW connects \in BOOLEAN
  PROVE  Kept(s, Received(s, c, ok, connects))
<1>1. /\ Kept(s, [s EXCEPT !.end = "nested_"])
      /\ Kept(s, [s EXCEPT !.nested = TRUE])
  BY DEF State, Kept
<1>2. Received(s, c, ok, connects)
        \in {respond(s, 5), respond(s, 2), start_data_transfer(s, connects),
             [s EXCEPT !.end = "nested_"], [s EXCEPT !.nested = TRUE]}
  BY DEF Received, AsyncCommands
<1>3. Kept(s, respond(s, 5)) /\ Kept(s, respond(s, 2))
  BY RespondKept
<1>4. Kept(s, start_data_transfer(s, connects))
  BY StartKept
<1>5. QED
  BY <1>1, <1>2, <1>3, <1>4

(* Received(): the command whose call has returned is answered, or its        *)
(* transfer or its listing goes on.                                           *)
LEMMA ReceivedGood ==
  ASSUME NEW s \in State, Answerable(s), Closed(s), s.end = "alive",
         NEW c \in AsyncCommands, NEW ok \in BOOLEAN, NEW connects \in BOOLEAN,
         ~s.disturbed => s.cur = c /\ (c = "RETR" /\ ok => s.file)
  PROVE  Good(Received(s, c, ok, connects))
<1> DEFINE e == [s EXCEPT !.end = "nested_"]
           n == [s EXCEPT !.nested = TRUE]
<1>1. \/ Received(s, c, ok, connects) \in {respond(s, 5), respond(s, 2), e}
      \/ Received(s, c, ok, connects) = start_data_transfer(s, connects) /\ c = "RETR" /\ ok
      \/ Received(s, c, ok, connects) = n /\ c = "STAT"
  BY DEF Received, AsyncCommands
<1>2. e.end = "nested_"
  BY DEF State
<1>3. /\ n.cur = s.cur /\ n.calls = s.calls /\ n.nested = TRUE /\ n.auths = s.auths
      /\ n.lookup = s.lookup /\ n.handler = s.handler /\ n.chan = s.chan
      /\ n.disturbed = s.disturbed /\ n.owed = s.owed /\ n.shut = s.shut
      /\ n.event = s.event
  BY DEF State
<1> HIDE DEF e, n
<1>4. Good(e)
  BY <1>2 DEF Good
<1>5. CASE c = "STAT"
  <2>1. Closed(n) /\ OwesOne(n)
    BY <1>3, <1>5 DEF Closed, OwesOne, Answerable, Replying, NoCommand
  <2>2. Works(n)
    BY <1>3, <1>5 DEF Answerable, Replying, Spare, Works, HasCalls
  <2>3. Good(n)
    BY <1>3, <2>1, <2>2 DEF Good, Firm, Busy, Own
  <2>4. QED
    BY <1>1, <1>4, <1>5, <2>3, RespondSound, SoundGood
<1>6. Good(respond(s, 5)) /\ Good(respond(s, 2))
  BY RespondSound, SoundGood
<1>7. CASE c = "RETR" /\ ok
  <2>1. ~s.disturbed => s.cur = "RETR" /\ s.file
    BY <1>7
  <2>2. Good(start_data_transfer(s, connects))
    BY <2>1, StartGood
  <2>3. QED
    BY <1>1, <1>4, <1>6, <1>7, <2>2
<1>8. QED
  BY <1>1, <1>4, <1>5, <1>6, <1>7

(* The result of a call: it is received, or it was aborted and the consumer   *)
(* is woken to find the ABOR.                                                 *)
LEMMA CallResultGood == ASSUME IInv, Good(ses), CallResult PROVE Good(ses')
<1>1. PICK c \in AsyncCommands, ok \in BOOLEAN, connects \in BOOLEAN :
        LET s == [ses EXCEPT !.calls[c] = @ - 1,
                             !.file = @ \/ (c = "RETR" /\ ok)]
        IN /\ ses.calls[c] > 0
           /\ ses' = IF ses.recv = "aborted"
                       THEN [s EXCEPT !.recv = "idle", !.event = @ \/ ~ses.shut]
                       ELSE [Received(s, c, ok, connects) EXCEPT !.recv = "idle"]
  BY DEF CallResult
<1> DEFINE f == [ses.calls EXCEPT ![c] = @ - 1]
           b == ses.file \/ (c = "RETR" /\ ok)
           s == [ses EXCEPT !.calls = f, !.file = b]
           e == s.event \/ ~ses.shut
           t == [s EXCEPT !.recv = "idle", !.event = e]
           r == Received(s, c, ok, connects)
           u == [r EXCEPT !.recv = "idle"]
<1>2. ses \in State /\ ses.end = "alive" /\ Firm(ses) /\ Busy(ses)
  BY DEF IInv, TypeOK, CallResult, Alive, Good
<1>3. ses.calls[c] > 0 /\ ses.calls \in [AsyncCommands -> Nat]
  BY <1>1, <1>2, Fields
<1>4. f \in [AsyncCommands -> Nat] /\ f[c] = ses.calls[c] - 1
      /\ \A x \in AsyncCommands : x # c => f[x] = ses.calls[x]
  BY <1>3
<1>5. b \in BOOLEAN /\ (ses.file => b) /\ (c = "RETR" /\ ok => b)
  BY <1>2, Flags
<1>6. s \in State
  <2> HIDE DEF f, b
  <2> QED BY <1>2, <1>4, <1>5 DEF State
<1>7. s = [ses EXCEPT !.calls[c] = @ - 1, !.file = @ \/ (c = "RETR" /\ ok)]
  OBVIOUS
<1>8. ses' = IF ses.recv = "aborted" THEN t ELSE u
  <2> HIDE DEF s
  <2> QED BY <1>1, <1>7
<1>9. /\ s.input = ses.input /\ s.cur = ses.cur /\ s.recv = ses.recv
      /\ s.event = ses.event /\ s.shut = ses.shut /\ s.auths = ses.auths
      /\ s.nested = ses.nested /\ s.authed = ses.authed /\ s.lookup = ses.lookup
      /\ s.sock = ses.sock /\ s.handler = ses.handler /\ s.chan = ses.chan
      /\ s.end = ses.end /\ s.owed = ses.owed /\ s.disturbed = ses.disturbed
      /\ s.calls = f /\ s.file = b
  <2> HIDE DEF f, b
  <2> QED BY <1>2 DEF State
<1> HIDE DEF s, f, b
<1>10. ~ses.disturbed =>
         /\ ses.cur = c /\ ~HasCalls(s) /\ ses.auths = 0 /\ ~ses.lookup /\ ~ses.nested
         /\ ~ses.handler /\ ses.chan = "clear" /\ ~ses.shut /\ ses.owed = 1
  <2>1. SUFFICES ASSUME ~ses.disturbed
                 PROVE  /\ ses.cur = c /\ ~HasCalls(s) /\ ses.auths = 0 /\ ~ses.lookup
                        /\ ~ses.nested /\ ~ses.handler /\ ses.chan = "clear"
                        /\ ~ses.shut /\ ses.owed = 1
    OBVIOUS
  <2>2. ses.cur = c /\ ses.calls[c] = 1 /\ HasCalls(ses)
    BY <1>2, <1>3, <2>1 DEF Firm, Works, HasCalls
  <2>3. \A x \in AsyncCommands : x # c => ses.calls[x] = 0
    BY <1>2, <1>3, <2>1, <2>2 DEF Firm, Works
  <2>4. ~HasCalls(s)
    BY <1>4, <1>9, <2>2, <2>3 DEF HasCalls
  <2>5. ses.cur \notin {"USER", "PASS", "PASV", NoCommand}
    BY <2>2 DEF AsyncCommands, NoCommand
  <2>6. ses.auths = 0 /\ ~ses.lookup /\ ~ses.nested /\ ~ses.handler
    BY <1>2, <2>1, <2>2, <2>5, Alone
  <2>7. ses.chan = "clear"
    BY <1>2, <2>1, <2>6 DEF Firm, Works
  <2>8. ~ses.shut
    BY <1>2, <2>5 DEF Firm, Closed
  <2>9. ses.owed = 1
    BY <1>2, <2>1, <2>5, <2>8, Alone
  <2>10. QED
    BY <2>2, <2>4, <2>6, <2>7, <2>8, <2>9
<1>11. CASE ses.recv = "aborted"
  <2>1. /\ t.input = s.input /\ t.cur = s.cur /\ t.recv = "idle" /\ t.event = e
        /\ t.shut = s.shut /\ t.auths = s.auths /\ t.calls = s.calls
        /\ t.nested = s.nested /\ t.authed = s.authed /\ t.lookup = s.lookup
        /\ t.sock = s.sock /\ t.handler = s.handler /\ t.chan = s.chan /\ t.file = s.file
        /\ t.end = s.end /\ t.owed = s.owed /\ t.disturbed = s.disturbed
    <3> HIDE DEF e
    <3> QED BY <1>6 DEF State
  <2>2. (e <=> ses.event \/ ~ses.shut)
    BY <1>9
  <2> HIDE DEF t, e
  <2>3. Closed(t)
    BY <1>2, <1>9, <2>1, <2>2 DEF Firm, Closed
  <2>4. OwesOne(t)
    BY <1>2, <1>9, <2>1 DEF Firm, OwesOne
  <2>5. Works(t)
    BY <1>9, <1>10, <2>1 DEF Works, HasCalls
  <2>6. Busy(t)
    <3>1. SUFFICES ASSUME t.cur # NoCommand PROVE Own(t) \/ Overtaken(t)
      BY DEF Busy
    <3>2. ~ses.shut /\ (Own(ses) \/ Overtaken(ses))
      BY <1>2, <1>9, <2>1, <3>1 DEF Firm, Closed, Busy
    <3>3. Own(ses) => Own(t)
      BY <1>9, <1>11, <2>1 DEF Own
    <3>4. Overtaken(ses) => Overtaken(t)
      BY <1>9, <2>1, <2>2, <3>2 DEF Overtaken
    <3>5. QED
      BY <3>2, <3>3, <3>4
  <2>7. QED
    BY <1>8, <1>11, <2>3, <2>4, <2>5, <2>6 DEF Good, Firm
<1>12. CASE ses.recv # "aborted"
  <2>1. Answerable(s)
    BY <1>2, <1>9, <1>10 DEF Answerable, Replying, Spare, Firm, Closed
  <2>2. Closed(s)
    BY <1>2, <1>9 DEF Firm, Closed
  <2>3. ~s.disturbed => s.cur = c /\ (c = "RETR" /\ ok => s.file)
    BY <1>5, <1>9, <1>10
  <2>4. Good(r)
    BY <1>2, <1>6, <1>9, <2>1, <2>2, <2>3, ReceivedGood
  <2>5. r \in State /\ Calm(s, r) /\ r.disturbed = s.disturbed
    BY <1>6, ReceivedCalm, ReceivedKept DEF Kept
  <2> HIDE DEF r
  <2>6. /\ u.input = r.input /\ u.cur = r.cur /\ u.recv = "idle" /\ u.event = r.event
        /\ u.shut = r.shut /\ u.auths = r.auths /\ u.calls = r.calls
        /\ u.nested = r.nested /\ u.authed = r.authed /\ u.lookup = r.lookup
        /\ u.sock = r.sock /\ u.handler = r.handler /\ u.chan = r.chan /\ u.file = r.file
        /\ u.end = r.end /\ u.owed = r.owed /\ u.disturbed = r.disturbed
    BY <2>5 DEF State
  <2> HIDE DEF u
  <2>7. ~r.disturbed => ~HasCalls(r)
    BY <1>9, <1>10, <2>5 DEF Calm, HasCalls
  <2>8. Firm(r) => Firm(u)
    BY <2>6, <2>7 DEF Firm, Closed, OwesOne, Works, HasCalls
  <2>9. Firm(r) /\ Busy(r) => Busy(u)
    <3>1. SUFFICES ASSUME Firm(r), Busy(r), r.cur # NoCommand PROVE Own(u) \/ Overtaken(u)
      BY <2>6 DEF Busy
    <3>2. r.recv # "aborted"
      BY <1>9, <1>12, <2>5, <3>1 DEF Calm, Firm, Closed
    <3>3. Own(r) => Own(u)
      BY <2>6 DEF Own, HasCalls
    <3>4. Overtaken(r) => Overtaken(u)
      BY <2>6, <3>2 DEF Overtaken
    <3>5. QED
      BY <3>1, <3>3, <3>4 DEF Busy
  <2>10. QED
    BY <1>8, <1>12, <2>4, <2>6, <2>8, <2>9 DEF Good
<1>13. QED
  BY <1>11, <1>12

(* A result of the authenticator answers USER or PASS, for which it works.    *)
LEMMA AuthGood == ASSUME IInv, Good(ses), AuthResult PROVE Good(ses')
<1>1. PICK r \in {"user", "denied", "quota"} :
        ses.auths > 0 /\ ses' = on_authenticator_operation_result(ses, r)
  BY DEF AuthResult
<1> DEFINE n == ses.auths - 1
           s == [ses EXCEPT !.auths = n]
           h == handle_authenticate_user_response(s, r)
           d == (ses.cur = "PASS" /\ r = "user")
           t == [h EXCEPT !.authed = d]
<1>2. ses' = t
  BY <1>1 DEF on_authenticator_operation_result
<1>3. ses \in State /\ ses.end = "alive" /\ Firm(ses)
  BY DEF IInv, TypeOK, AuthResult, Alive, Good
<1>4. n \in Nat /\ (ses.auths = 1 => n = 0)
  BY <1>1, <1>3, Fields
<1>5. s \in State
  <2> HIDE DEF n
  <2> QED BY <1>3, <1>4 DEF State
<1>6. /\ s.cur = ses.cur /\ s.calls = ses.calls /\ s.nested = ses.nested
      /\ s.lookup = ses.lookup /\ s.handler = ses.handler /\ s.chan = ses.chan
      /\ s.event = ses.event /\ s.shut = ses.shut /\ s.owed = ses.owed
      /\ s.disturbed = ses.disturbed /\ s.auths = n
  <2> HIDE DEF n
  <2> QED BY <1>3 DEF State
<1> HIDE DEF s
<1>7. Answerable(s)
  <2>1. CASE ses.disturbed
    BY <1>3, <1>6, <2>1 DEF Answerable, Replying, Firm, Closed
  <2>2. CASE ~ses.disturbed
    <3>1. ses.cur \in {"USER", "PASS"} /\ ses.auths = 1
      BY <1>1, <1>3, <2>2 DEF Firm, Works
    <3>2. ses.cur \notin AsyncCommands \cup {"PASV", "STAT", "RETR", NoCommand}
      BY <3>1 DEF AsyncCommands, NoCommand
    <3>3. /\ ~HasCalls(ses) /\ ~ses.lookup /\ ~ses.nested /\ ~ses.handler
          /\ ses.chan = "clear" /\ ~ses.shut /\ ses.owed = 1
      BY <1>3, <2>2, <3>2, Alone DEF Firm, Closed
    <3>4. QED
      BY <1>4, <1>6, <3>1, <3>3 DEF Answerable, Replying, Spare, HasCalls
  <2>3. QED
    BY <2>1, <2>2
<1>8. h \in State /\ Sound(h) /\ (h.end = "alive" => h.cur = NoCommand)
  BY <1>5, <1>7, ResponseSound
<1>9. d \in BOOLEAN
  OBVIOUS
<1> HIDE DEF h, d
<1>10. /\ t.event = h.event /\ t.cur = h.cur /\ t.recv = h.recv /\ t.calls = h.calls
       /\ t.nested = h.nested /\ t.file = h.file /\ t.shut = h.shut
       /\ t.auths = h.auths /\ t.lookup = h.lookup /\ t.sock = h.sock
       /\ t.handler = h.handler /\ t.chan = h.chan /\ t.end = h.end
       /\ t.owed = h.owed /\ t.disturbed = h.disturbed
  BY <1>8, <1>9 DEF State
<1> HIDE DEF t
<1>11. t.end = "alive" => t.cur = NoCommand /\ Firm(h)
  BY <1>8, <1>10 DEF Sound
<1>12. ASSUME t.end = "alive" PROVE Firm(t) /\ Busy(t)
  <2>1. Closed(t) /\ OwesOne(t)
    BY <1>10, <1>11, <1>12 DEF Firm, Closed, OwesOne
  <2>2. Works(t)
    BY <1>10, <1>11, <1>12 DEF Firm, Works, HasCalls, NoCommand
  <2>3. QED
    BY <1>11, <1>12, <2>1, <2>2 DEF Firm, Busy
<1>13. QED
  BY <1>2, <1>12 DEF Good

(* The end of STAT's listing is its final reply.                              *)
LEMMA NestedGood == ASSUME IInv, Good(ses), NestedAdderEof PROVE Good(ses')
<1> DEFINE s == [ses EXCEPT !.nested = FALSE]
           t == act_upon_command_reply(s, 2)
<1>1. ses \in State /\ ses.end = "alive" /\ Firm(ses) /\ ses.nested
  BY DEF IInv, TypeOK, NestedAdderEof, Alive, Good
<1>2. ses' = t
  BY DEF NestedAdderEof, stop_processing_nested_adder
<1>3. s \in State
  BY <1>1 DEF State
<1>4. /\ s.cur = ses.cur /\ s.calls = ses.calls /\ s.nested = FALSE
      /\ s.lookup = ses.lookup /\ s.handler = ses.handler /\ s.chan = ses.chan
      /\ s.event = ses.event /\ s.shut = ses.shut /\ s.owed = ses.owed
      /\ s.disturbed = ses.disturbed /\ s.auths = ses.auths
  BY <1>1 DEF State
<1> HIDE DEF s
<1>5. Answerable(s)
  <2>1. CASE ses.disturbed
    BY <1>1, <1>4, <2>1 DEF Answerable, Replying, Firm, Closed
  <2>2. CASE ~ses.disturbed
    <3>1. ses.cur = "STAT"
      BY <1>1, <2>2 DEF Firm, Works
    <3>2. /\ ~HasCalls(ses) /\ ~ses.lookup /\ ses.auths = 0 /\ ~ses.handler
          /\ ses.chan = "clear" /\ ~ses.shut /\ ses.owed = 1
      BY <1>1, <2>2, <3>1, Alone DEF Firm, Closed, NoCommand
    <3>3. QED
      BY <1>4, <3>2 DEF Answerable, Replying, Spare, HasCalls
  <2>3. QED
    BY <2>1, <2>2
<1>6. Replied(s, t) /\ s.owed \in Int
  BY <1>3, ReplyIs, Fields
<1> HIDE DEF t
<1>7. Sound(t)
  BY <1>5, <1>6, AnswerSound
<1>8. QED
  BY <1>2, <1>7, SoundGood

(* The answer of the resolver is the reply to PASV.                           *)
LEMMA LookupGood == ASSUME IInv, Good(ses), LookupResult PROVE Good(ses')
<1> DEFINE s == [ses EXCEPT !.lookup = FALSE, !.info = FALSE]
           e == [ses EXCEPT !.end = "hostname_lookup"]
<1>1. ses \in State /\ ses.end = "alive" /\ Firm(ses) /\ ses.lookup
  BY DEF IInv, TypeOK, LookupResult, Alive, Good
<1>2. ses' = e \/ \E d \in {2, 4} : ses' = respond(s, d)
  BY DEF LookupResult
<1>3. e.end = "hostname_lookup"
  BY <1>1 DEF State
<1>4. s \in State
  BY ZenonT(40), <1>1 DEF State
<1>5. /\ s.cur = ses.cur /\ s.calls = ses.calls /\ s.nested = ses.nested
      /\ s.lookup = FALSE /\ s.handler = ses.handler /\ s.chan = ses.chan
      /\ s.event = ses.event /\ s.shut = ses.shut /\ s.owed = ses.owed
      /\ s.disturbed = ses.disturbed /\ s.auths = ses.auths
  BY <1>1 DEF State
<1> HIDE DEF s, e
<1>6. Answerable(s)
  <2>1. CASE ses.disturbed
    BY <1>1, <1>5, <2>1 DEF Answerable, Replying, Firm, Closed
  <2>2. CASE ~ses.disturbed
    <3>1. ses.cur = "PASV"
      BY <1>1, <2>2 DEF Firm, Works
    <3>2. ses.cur \notin AsyncCommands \cup {"USER", "PASS", "STAT", "RETR", NoCommand}
      BY <3>1 DEF AsyncCommands, NoCommand
    <3>3. /\ ~HasCalls(ses) /\ ses.auths = 0 /\ ~ses.nested /\ ~ses.handler
          /\ ses.chan = "clear" /\ ~ses.shut /\ ses.owed = 1
      BY <1>1, <2>2, <3>2, Alone DEF Firm, Closed
    <3>4. QED
      BY <1>5, <3>3 DEF Answerable, Replying, Spare, HasCalls
  <2>3. QED
    BY <2>1, <2>2
<1>7. Good(respond(s, 2)) /\ Good(respond(s, 4))
  BY <1>4, <1>6, RespondSound, SoundGood
<1>8. Good(e)
  BY <1>3 DEF Good
<1>9. QED
  BY <1>2, <1>7, <1>8

(* Whatever result comes back.                                                *)
LEMMA ResultGood == ASSUME IInv, Good(ses), Result PROVE Good(ses')
BY AuthGood, CallResultGood, NestedGood, LookupGood DEF Result

(* A timer that expires disturbs the session, and ends it.                    *)
LEMMA TimerGood == ASSUME IInv, Good(ses), TimerEvent PROVE Good(ses')
<1> DEFINE d == [ses EXCEPT !.disturbed = TRUE, !.owed = 0]
           s == [d EXCEPT !.timer = FALSE]
           a == [s EXCEPT !.auths = 0, !.authOp = FALSE]
           t == IF ses.authed THEN s ELSE a
           r == respond(t, 4)
<1>1. ses \in State /\ Closed(ses)
  BY DEF IInv, TypeOK, TimerEvent, Alive, Good, Firm
<1>2. d \in State
  <2>1. 0 \in Int
    OBVIOUS
  <2> QED BY <1>1, <2>1 DEF State
<1>3. s \in State
  <2> HIDE DEF d
  <2> QED BY <1>2 DEF State
<1>4. a \in State
  <2> HIDE DEF s
  <2>1. 0 \in Nat
    OBVIOUS
  <2> QED BY <1>3, <2>1 DEF State
<1>5. t \in State
  <2> HIDE DEF s, a
  <2> QED BY <1>3, <1>4
<1>6. t.disturbed /\ t.shut = ses.shut /\ t.event = ses.event
  BY <1>1 DEF State
<1>7. ses' = Shutdown(r)
  BY DEF TimerEvent, Disturb
<1> HIDE DEF t
<1>8. Answerable(t)
  BY <1>1, <1>6 DEF Answerable, Replying, Closed
<1>9. r \in State /\ Sound(r) /\ (r.end = "alive" => r.cur = NoCommand)
  BY <1>5, <1>8, RespondSound
<1> HIDE DEF r
<1>10. QED
  BY <1>7, <1>9, ShutdownSound, SoundGood

(* Nothing is asked of a session that ended.                                  *)
LEMMA EndGood ==
  ASSUME IInv, ControlChannelDone \/ ClientLeaves \/ UserRemoved PROVE Good(ses')
<1>1. ses \in State /\ ses' = [ses EXCEPT !.end = "quit"]
  BY DEF IInv, TypeOK, ControlChannelDone, ClientLeaves, UserRemoved
<1>2. ses'.end = "quit"
  BY <1>1 DEF State
<1>3. QED
  BY <1>2 DEF Good

(* The socket is shut down at once, which ends the transfer, or keeps         *)
(* flushing, once the channel let go of it.                                   *)
LEMMA SocketShutdownGood ==
  ASSUME NEW s \in State, Good(s), s.end = "alive", NEW flushed \in BOOLEAN,
         flushed \/ s.chan = "clear"
  PROVE  Good(data_socket_shutdown(s, flushed))
<1> DEFINE k == IF s.flush THEN "stuck" ELSE "flushing"
           a == [s EXCEPT !.flush = TRUE]
           b == [a EXCEPT !.sock = k, !.listen = s.listen]
           c == [s EXCEPT !.flush = TRUE, !.sock = k]
<1>1. k \in DataSockets /\ s.failed \in BOOLEAN /\ s.listen \in ListenSockets
  BY DEF DataSockets, State
<1> HIDE DEF k
<1>2. a \in State
  BY DEF State
<1>3. Alike(s, a) /\ a.listen = s.listen
  BY DEF State, Alike
<1>4. Good(a) /\ a.end = "alive" /\ a.chan = s.chan
  BY <1>3, AlikeGood DEF Alike
<1>5. c = b
  BY DEF State
<1>6. data_socket_shutdown(s, flushed)
        = IF flushed THEN handle_data_transfer(a, "stopped", s.failed) ELSE c
  BY DEF data_socket_shutdown, k
<1> HIDE DEF a, c
<1>7. CASE flushed
  <2>1. Good(handle_data_transfer(a, "stopped", s.failed))
    BY <1>1, <1>2, <1>4, HandleGood
  <2>2. QED
    BY <1>6, <1>7, <2>1
<1>8. CASE ~flushed
  <2>1. Good(b)
    BY <1>1, <1>2, <1>4, <1>8, SocketGood
  <2>2. QED
    BY <1>5, <1>6, <1>8, <2>1
<1>9. QED
  BY <1>7, <1>8

(* The channel is attached to a connected socket by a client that connects,   *)
(* or by a connection that is made.                                           *)
LEMMA ConnectedGood ==
  ASSUME IInv, Good(ses), Accept \/ ConnectionEvent PROVE Good(ses')
<1> DEFINE a == [ses EXCEPT !.listen = "none", !.sock = "connected"]
           b == [ses EXCEPT !.sock = "connected"]
           x == [ses EXCEPT !.sock = "connected", !.listen = "none"]
           y == [ses EXCEPT !.sock = "connected", !.listen = ses.listen]
<1>1. ses \in State
  BY DEF IInv, TypeOK
<1>2. /\ "connected" \in DataSockets /\ "none" \in ListenSockets
      /\ ses.listen \in ListenSockets
  BY <1>1 DEF DataSockets, ListenSockets, State
<1>3. a = x /\ b = y
  BY <1>1 DEF State
<1>4. ses' = setup_data_channel(a) \/ ses' = setup_data_channel(b)
  BY DEF Accept, ConnectionEvent
<1>5. x \in State /\ Good(x)
  BY <1>1, <1>2, SocketsCalm, SocketGood
<1>6. y \in State /\ Good(y)
  BY <1>1, <1>2, SocketsCalm, SocketGood
<1> HIDE DEF a, b, x, y
<1>7. Good(setup_data_channel(x)) /\ Good(setup_data_channel(y))
  BY <1>5, <1>6, SetupGood
<1>8. QED
  BY <1>3, <1>4, <1>7

(* What the channel points to and what its done_event will say.               *)
LEMMA DoneGood ==
  ASSUME NEW s \in State, Good(s), NEW k \in DataChannels, NEW f \in BOOLEAN,
         k # "dangling",
         ~s.disturbed /\ k # "clear" => s.chan \in {"attached", "done", "dangling"}
  PROVE  LET t == [s EXCEPT !.chan = k, !.failed = f]
         IN t \in State /\ Good(t) /\ t.end = s.end /\ t.chan = k
<1> DEFINE t == [s EXCEPT !.chan = k, !.failed = f]
<1>1. t \in State
  BY DEF State
<1>2. /\ t.input = s.input /\ t.event = s.event /\ t.cur = s.cur /\ t.recv = s.recv
      /\ t.calls = s.calls /\ t.nested = s.nested /\ t.file = s.file /\ t.shut = s.shut
      /\ t.auths = s.auths /\ t.authed = s.authed /\ t.lookup = s.lookup
      /\ t.sock = s.sock /\ t.handler = s.handler /\ t.end = s.end
      /\ t.owed = s.owed /\ t.disturbed = s.disturbed /\ t.chan = k
  BY DEF State
<1> HIDE DEF t
<1>3. ASSUME s.end = "alive" PROVE Firm(t) /\ Busy(t)
  <2>1. Firm(s) /\ Busy(s)
    BY <1>3 DEF Good
  <2>2. Closed(t) /\ OwesOne(t)
    BY <1>2, <2>1 DEF Firm, Closed, OwesOne
  <2>3. Works(t)
    BY <1>2, <2>1 DEF Firm, Works, HasCalls
  <2>4. Busy(t)
    BY <1>2, <2>1 DEF Busy, Own, Overtaken, HasCalls
  <2>5. QED
    BY <2>2, <2>3, <2>4 DEF Firm
<1>4. QED
  BY <1>1, <1>2, <1>3 DEF Good, t

(* The channel is done with its socket: it lets go of it, and the socket is   *)
(* shut down.                                                                 *)
LEMMA ChannelDoneGood ==
  ASSUME IInv, Good(ses), on_channel_done_event PROVE Good(ses')
<1> DEFINE f == ses.failed
           s == [ses EXCEPT !.chan = "clear"]
           t == [ses EXCEPT !.chan = "clear", !.failed = f]
<1>1. ses \in State /\ ses.end = "alive"
  BY DEF IInv, TypeOK, on_channel_done_event, Alive
<1>2. "clear" \in DataChannels /\ f \in BOOLEAN
  BY <1>1 DEF DataChannels, State
<1>3. s = t
  BY <1>1 DEF State
<1>4. ses' = s \/ \E flushed \in BOOLEAN : ses' = data_socket_shutdown(s, flushed)
  BY DEF on_channel_done_event
<1> HIDE DEF s, f
<1>5. t \in State /\ Good(t) /\ t.end = "alive" /\ t.chan = "clear"
  BY ZenonT(60), <1>1, <1>2, DoneGood
<1> HIDE DEF t
<1>6. \A flushed \in BOOLEAN : Good(data_socket_shutdown(t, flushed))
  BY <1>5, SocketShutdownGood
<1>7. QED
  BY <1>3, <1>4, <1>5, <1>6

(* Whatever happens on the data connection.                                   *)
LEMMA DataGood == ASSUME IInv, Good(ses), DataEvent PROVE Good(ses')
<1>1. ses \in State /\ ses.end = "alive" /\ Firm(ses)
  BY DEF IInv, TypeOK, DataEvent, Accept, AcceptFails, ConnectionEvent, SocketError,
         TransferDone, DestroyedSocketUsed, on_channel_done_event, WriteEvent, Alive, Good
<1>2. CASE AcceptFails \/ SocketError
  <2>1. ses' = handle_data_transfer(ses, "connecting", TRUE)
    BY <1>2 DEF AcceptFails, SocketError
  <2>2. QED
    BY <1>1, <2>1, HandleGood
<1>3. CASE TransferDone \/ DestroyedSocketUsed
  <2>1. PICK err \in BOOLEAN :
          \/ ses' = [ses EXCEPT !.chan = "done", !.failed = err]
          \/ ses' = [ses EXCEPT !.end = "destroyed_socket"]
    BY <1>3 DEF TransferDone, DestroyedSocketUsed
  <2> DEFINE a == [ses EXCEPT !.chan = "done", !.failed = err]
             b == [ses EXCEPT !.end = "destroyed_socket"]
  <2>2. "done" \in DataChannels /\ ses.chan \in {"attached", "dangling"}
    BY <1>3 DEF DataChannels, TransferDone, DestroyedSocketUsed
  <2>3. Good(a)
    BY <1>1, <2>2, DoneGood
  <2>4. b.end = "destroyed_socket"
    BY <1>1 DEF State
  <2> HIDE DEF a, b
  <2>5. Good(b)
    BY <2>4 DEF Good
  <2>6. QED
    BY <2>1, <2>3, <2>5 DEF a, b
<1>4. CASE WriteEvent
  <2>1. ses' = data_socket_shutdown(ses, TRUE)
    BY <1>4 DEF WriteEvent
  <2>2. QED
    BY <1>1, <2>1, SocketShutdownGood
<1>5. QED
  BY <1>2, <1>3, <1>4, ConnectedGood, ChannelDoneGood DEF DataEvent

(* A session begins with nothing at work, and nothing owed.                   *)
LEMMA InitGood == ASSUME Init PROVE Good(ses)
<1>1. /\ Connected.cur = NoCommand /\ Connected.auths = 0 /\ ~Connected.lookup
      /\ ~Connected.nested /\ ~Connected.handler /\ Connected.chan = "clear"
      /\ ~Connected.shut /\ Connected.owed = 0
  BY DEF Connected
<1>2. ~HasCalls(Connected)
  BY DEF Connected, HasCalls
<1>3. Connected \in State
  BY InitType
<1>4. Sound(Connected)
  BY <1>1, <1>2 DEF Sound, Firm, Closed, OwesOne, Works, HasCalls
<1>5. Sound(Shutdown(Connected))
  BY <1>1, <1>3, <1>4, ShutdownSound
<1>6. QED
  BY <1>4, <1>5, SoundGood DEF Init

(* The invariant of the commands is inductive.                                *)
LEMMA NextGood == ASSUME IInv, Good(ses), [Next]_ses PROVE Good(ses')
<1>1. CASE UNCHANGED ses
  BY <1>1
<1>2. CASE Next
  BY <1>2, ConsumerGood, AdderGood, ResultGood, DataGood, TimerGood, EndGood DEF Next
<1>3. QED
  BY <1>1, <1>2

(* Every reachable state of a session is good.                                *)
THEOREM SessionsAreGood == Spec => []Good(ses)
<1>1. Init => Good(ses)
  BY InitGood
<1>2. IInv /\ Good(ses) /\ [Next]_ses => Good(ses)'
  BY NextGood
<1>3. QED
  BY <1>1, <1>2, Invariance, PTL DEF Spec

(* Exactly one final reply per command: while the session is not disturbed it *)
(* owes one when a command executes and none otherwise, whatever results,     *)
(* events of the data connection and lines come in between.                   *)
THEOREM OneReplyPerCommand == Spec => []OneFinalReply
<1>1. Good(ses) => OneFinalReply
  BY DEF Good, Firm, OwesOne, OneFinalReply, Alive
<1>2. QED
  BY <1>1, SessionsAreGood, PTL

(* Calls of the tvfs, of the authenticator and of the resolver, the listing   *)
(* and the transfer work for the command that executes: what they answer is   *)
(* not taken for the result of another one.                                   *)
THEOREM WorkIsForTheCommand == Spec => []WorkHasItsCommand
<1>1. Good(ses) => WorkHasItsCommand
  BY DEF Good, Firm, Works, HasCalls, WorkHasItsCommand, CallsInFlight, Alive
<1>2. QED
  BY <1>1, SessionsAreGood, PTL

(* A command that executes is waiting for something: no handler leaves it     *)
(* current with nothing in flight that would answer it.                       *)
THEOREM CommandsAreAnswered == Spec => []CommandHasWork
<1>1. Good(ses) => CommandHasWork
  BY DEF Good, Busy, Own, Overtaken, HasCalls, CommandHasWork, CallsInFlight, Alive
<1>2. QED
  BY <1>1, SessionsAreGood, PTL

(* While the channel moves data, its file and its socket are there: no event  *)
(* takes them away from a transfer that was not disturbed.                    *)
THEOREM TransfersAreIntact == Spec => []TransferIntact
<1>1. Good(ses) => TransferIntact
  BY DEF Good, Firm, Works, TransferIntact, Alive
<1>2. QED
  BY <1>1, SessionsAreGood, PTL

-----------------------------------------------------------------------------
(* The login *)

(* Taking a line out of the buffer changes the input alone.                   *)
LEMMA ConsumedKept ==
  ASSUME NEW s \in State, Consumed(s) PROVE ses'.authed = s.authed
<1> DEFINE more == Len(s.input) > 1 /\ ~s.shut
           e == s.event \/ more
           w == s.waiting \/ more
           i == Tail(s.input)
           t == [s EXCEPT !.input = i, !.event = e, !.waiting = w]
<1>1. ses' = t
  BY DEF Consumed
<1>2. t.authed = s.authed
  <2> HIDE DEF i, e, w
  <2> QED BY DEF State
<1>3. QED
  BY <1>1, <1>2

(* The authenticator's answer is answered; the login itself is the caller's.  *)
LEMMA ResponseKept ==
  ASSUME NEW s \in State, NEW result \in {"user", "denied", "quota", "null"}
  PROVE  Kept(s, handle_authenticate_user_response(s, result))
<1> DEFINE p == (result # "null")
           a == [s EXCEPT !.timer = TRUE, !.authOp = p]
           b == [s EXCEPT !.timer = TRUE]
           c == [s EXCEPT !.user = FALSE]
           d == IF result = "quota" THEN 4 ELSE 5
           r == respond(c, d)
           e == [r EXCEPT !.timer = TRUE]
           t == handle_authenticate_user_response(s, result)
<1>1. p \in BOOLEAN /\ d \in 1..5
  OBVIOUS
<1>2. a \in State /\ b \in State /\ c \in State
  <2> HIDE DEF p
  <2> QED BY ZenonT(40), <1>1 DEF State
<1>3. Kept(s, a) /\ Kept(s, b) /\ Kept(s, c)
  <2> HIDE DEF p
  <2> QED BY DEF State, Kept
<1>4. t \in {respond(a, 3), respond(b, 2), e}
  BY DEF handle_authenticate_user_response
<1> HIDE DEF a, b, c, d
<1>5. r \in State /\ Kept(c, r)
  BY <1>1, <1>2, RespondCalm, RespondKept
<1> HIDE DEF r
<1>6. Kept(r, e)
  BY <1>5 DEF State, Kept
<1> HIDE DEF e, t
<1>7. Kept(a, respond(a, 3)) /\ Kept(b, respond(b, 2))
  BY <1>2, RespondKept
<1>8. Kept(s, t)
  BY <1>3, <1>4, <1>5, <1>6, <1>7 DEF Kept
<1>9. QED
  BY <1>8 DEF t

(* shutdown() leaves the login alone.                                         *)
LEMMA ShutdownKept == ASSUME NEW s \in State PROVE Kept(s, Shutdown(s))
BY ShutdownKeeps DEF Kept

(* So do PASV, EPSV and PORT.                                                 *)
LEMMA PreparedKept ==
  ASSUME NEW s \in State, NEW k \in DataSockets, NEW l \in ListenSockets
  PROVE  LET t == [Replaced(s) EXCEPT !.sock = k, !.listen = l]
         IN t \in State /\ Kept(s, t)
<1> DEFINE r == Replaced(s)
           c == IF s.chan = "attached" THEN "dangling" ELSE s.chan
<1>1. r \in State
  BY ReplacedCalm
<1>2. r = [s EXCEPT !.prevErr = FALSE, !.chan = c]
  BY DEF Replaced
<1> HIDE DEF c, r
<1>3. Kept(s, r)
  BY <1>2 DEF State, Kept
<1>4. [r EXCEPT !.sock = k, !.listen = l] \in State
      /\ Kept(r, [r EXCEPT !.sock = k, !.listen = l])
  BY <1>1 DEF State, Kept
<1>5. QED
  BY <1>3, <1>4 DEF Kept, r

(* get_data_local_info() *)
LEMMA LocalInfoKept ==
  ASSUME NEW s \in State,
         NEW outcome \in {"no_port", "last_port", "ready", "lookup", "no_host"}
  PROVE  Kept(s, get_data_local_info(s, outcome))
<1> DEFINE t == [Replaced(s) EXCEPT !.sock = "none", !.listen = "open"]
           d == [t EXCEPT !.listen = "deaf"]
           a == [t EXCEPT !.info = TRUE, !.lookup = TRUE]
           b == [t EXCEPT !.info = FALSE, !.lookup = FALSE]
           g == get_data_local_info(s, outcome)
<1>1. "none" \in DataSockets /\ {"open", "deaf"} \subseteq ListenSockets
  BY DEF DataSockets, ListenSockets
<1>2. t \in State /\ Kept(s, t)
  BY <1>1, PreparedKept
<1>3. g \in {respond(d, 4), respond(t, 4), respond(t, 2), respond(b, 4), a}
  BY DEF get_data_local_info
<1> HIDE DEF t, g
<1>4. d \in State /\ Kept(t, d)
  BY <1>1, <1>2 DEF State, Kept
<1>5. b \in State /\ Kept(t, b)
  BY ZenonT(60), <1>2 DEF State, Kept
<1>6. Kept(t, a)
  BY <1>2 DEF State, Kept
<1> HIDE DEF a, b, d
<1>7. /\ Kept(d, respond(d, 4)) /\ Kept(t, respond(t, 4)) /\ Kept(t, respond(t, 2))
      /\ Kept(b, respond(b, 4))
  BY <1>2, <1>4, <1>5, RespondKept
<1>8. Kept(s, g)
  BY <1>2, <1>3, <1>4, <1>5, <1>6, <1>7 DEF Kept
<1>9. QED
  BY <1>8 DEF g

(* set_data_peer_hostaddress() *)
LEMMA PeerKept ==
  ASSUME NEW s \in State, NEW binds \in BOOLEAN
  PROVE  Kept(s, set_data_peer_hostaddress(s, binds))
<1> DEFINE k == IF binds THEN "fresh" ELSE "none"
           t == [Replaced(s) EXCEPT !.sock = k, !.listen = "none"]
           u == [Replaced(s) EXCEPT !.listen = "none", !.sock = k]
           d == IF binds THEN 2 ELSE 4
<1>1. "none" \in ListenSockets /\ k \in DataSockets /\ d \in 1..5
  BY DEF DataSockets, ListenSockets
<1>2. t \in State /\ Kept(s, t)
  <2> HIDE DEF k
  <2> QED BY <1>1, PreparedKept
<1>3. u = t
  <2>1. Replaced(s) \in State
    BY ReplacedCalm
  <2> HIDE DEF k
  <2>2. QED
    BY <2>1 DEF State
<1>4. set_data_peer_hostaddress(s, binds) = respond(u, d)
  BY DEF set_data_peer_hostaddress
<1> HIDE DEF t, u, d
<1>5. Kept(t, respond(t, d))
  BY <1>1, <1>2, RespondKept
<1>6. QED
  BY <1>2, <1>3, <1>4, <1>5 DEF Kept

(* So does ABOR, whatever it stops.                                           *)
LEMMA AborKept == ASSUME NEW s \in State PROVE Kept(s, ABOR(s))
<1> DEFINE n == [s EXCEPT !.nested = FALSE]
           a == act_upon_command_reply(n, 2)
           b == close_data_connection(a)
           c == respond(b, 4)
<1>1. n \in State /\ Kept(s, n)
  BY DEF State, Kept
<1>2. ABOR(s) = respond(IF s.nested THEN c ELSE s, 2)
  BY DEF ABOR, stop_processing_nested_adder
<1> HIDE DEF n
<1>3. a \in State /\ Kept(n, a)
  BY <1>1, ActType, RespondKept
<1> HIDE DEF a
<1>4. b \in State /\ Kept(a, b)
  BY <1>3, CloseCalm, CloseKeeps DEF Kept
<1> HIDE DEF b
<1>5. c \in State /\ Kept(b, c)
  BY <1>4, RespondCalm, RespondKept
<1> HIDE DEF c
<1>6. Kept(c, respond(c, 2)) /\ Kept(s, respond(s, 2))
  BY <1>5, RespondKept
<1>7. QED
  BY <1>1, <1>2, <1>3, <1>4, <1>5, <1>6 DEF Kept

(* So does the shutdown of the data connection's socket.                      *)
LEMMA SocketShutdownKept ==
  ASSUME NEW s \in State, NEW flushed \in BOOLEAN
  PROVE  Kept(s, data_socket_shutdown(s, flushed))
<1> DEFINE k == IF s.flush THEN "stuck" ELSE "flushing"
           a == [s EXCEPT !.flush = TRUE]
           c == [s EXCEPT !.flush = TRUE, !.sock = k]
<1>1. s.failed \in BOOLEAN
  BY DEF State
<1>2. data_socket_shutdown(s, flushed)
        = IF flushed THEN handle_data_transfer(a, "stopped", s.failed) ELSE c
  BY DEF data_socket_shutdown
<1> HIDE DEF k
<1>3. a \in State /\ Kept(s, a) /\ Kept(s, c)
  BY DEF State, Kept
<1> HIDE DEF a, c
<1>4. Kept(a, handle_data_transfer(a, "stopped", s.failed))
  BY <1>1, <1>3, TransferKept
<1>5. QED
  BY <1>2, <1>3, <1>4 DEF Kept

(* A command finds the login as it was when its line came.                    *)
LEMMA StartedKept ==
  ASSUME IInv, Good(ses), NEW c \in Commands, Starts(c)
  PROVE  Started.authed = ses.authed
<1> DEFINE a == Answering(Now)
<1>1. Offered(c)
  BY DEF Starts
<1>2. a \in State /\ a.authed = ses.authed
  BY <1>1, AnsweringAnswerable
<1>3. Started = [a EXCEPT !.cur = Line]
  BY DEF Started
<1> HIDE DEF a
<1>4. QED
  BY <1>2, <1>3 DEF State

(* No line logs a user out: USER and PASS are refused after the login.        *)
LEMMA ConsumerStays ==
  ASSUME IInv, Good(ses), ConsumerEvent, ses.authed PROVE ses'.authed
<1>1. CASE Refuse
  <2> DEFINE a == Answering(Now)
             r == respond(a, 5)
  <2>1. PICK l : Offered(l)
    BY <1>1 DEF Refuse
  <2>2. a \in State /\ a.authed = ses.authed
    BY <2>1, AnsweringAnswerable
  <2>3. Consumed(r) \/ Consumed(Shutdown(r))
    BY <1>1 DEF Refuse
  <2> HIDE DEF a
  <2>4. r \in State /\ Kept(a, r)
    BY <2>2, RespondCalm, RespondKept
  <2> HIDE DEF r
  <2>5. Shutdown(r) \in State /\ Kept(r, Shutdown(r))
    BY <2>4, ShutdownType, ShutdownKept
  <2>6. QED
    BY <2>2, <2>3, <2>4, <2>5, ConsumedKept DEF Kept
<1>2. CASE queue_new_cmd \/ AbortPendingCall \/ NothingOffered
  <2>1. ses \in State
    BY DEF IInv, TypeOK
  <2>2. \/ ses' = [[Now EXCEPT !.queued = TRUE] EXCEPT !.waiting = TRUE]
        \/ ses' = [[Now EXCEPT !.recv = "aborted"] EXCEPT !.waiting = TRUE]
        \/ ses' = Now
    BY <1>2 DEF queue_new_cmd, AbortPendingCall, NothingOffered, Postponed
  <2>3. ses'.authed = ses.authed
    BY <2>1, <2>2 DEF Now, State
  <2>4. QED
    BY <2>3
<1>3. CASE NotLoggedIn
  BY <1>3 DEF NotLoggedIn
<1>4. CASE \E c \in Commands : Starts(c) /\ \E t \in State : Kept(Started, t) /\ Consumed(t)
  BY <1>4, StartedKept, ConsumedKept DEF Kept
<1>5. ASSUME NEW c \in Commands, Starts(c)
      PROVE  Started \in State /\ Started.authed
  BY <1>5, StartedAnswerable, StartedKept
<1>6. CASE Login
  <2>1. {"USER", "PASS"} \subseteq Commands
    BY DEF Commands
  <2>2. PICK c \in {"USER", "PASS"} :
          /\ Starts(c)
          /\ \/ Consumed(USER(Started))
             \/ \E next \in BOOLEAN : Consumed(PASS(Started, next))
    BY <1>6 DEF Login
  <2>3. Started \in State /\ Started.authed
    BY <1>5, <2>1, <2>2
  <2>4. Consumed(respond(Started, 5))
    BY <2>2, <2>3 DEF USER, PASS
  <2>5. QED
    BY <1>4, <2>1, <2>2, <2>3, <2>4, RespondCalm, RespondKept
<1>7. CASE AnswerAtOnce
  <2>1. {"NOOP", "QUIT", "ABOR"} \subseteq Commands
    BY DEF Commands
  <2>2. PICK c \in {"NOOP", "QUIT", "ABOR"} : Starts(c)
    BY <1>7 DEF AnswerAtOnce, Allowed
  <2>3. Started \in State
    BY <1>5, <2>1, <2>2
  <2>4. PICK t \in {respond(Started, 2), respond(Started, 3), respond(Started, 5),
                    QUIT(Started), ABOR(Started)} : Consumed(t)
    BY <1>7 DEF AnswerAtOnce
  <2>5. ASSUME NEW d \in {2, 3, 5}
        PROVE  respond(Started, d) \in State /\ Kept(Started, respond(Started, d))
    BY <2>3, RespondCalm, RespondKept
  <2>6. QUIT(Started) \in State /\ Kept(Started, QUIT(Started))
    <3>1. respond(Started, 2) \in State /\ Kept(Started, respond(Started, 2))
      BY <2>5
    <3>2. QED
      BY <3>1, ShutdownType, ShutdownKept DEF QUIT, Kept
  <2>7. ABOR(Started) \in State /\ Kept(Started, ABOR(Started))
    BY <2>3, AborCalm, AborKept
  <2>8. t \in State /\ Kept(Started, t)
    BY <2>4, <2>5, <2>6, <2>7
  <2>9. QED
    BY <1>4, <2>1, <2>2, <2>4, <2>8
<1>8. CASE StartCall
  <2>1. PICK c \in AsyncCommands :
          Allowed(c) /\ (Consumed(respond(Started, 4)) \/ Consumed(Async(Started, c)))
    BY <1>8 DEF StartCall
  <2>2. c \in Commands /\ Starts(c)
    BY <2>1 DEF AsyncCommands, Commands, Allowed
  <2>3. Started \in State /\ Started.calls \in [AsyncCommands -> Nat]
    BY <1>5, <2>2, Fields
  <2>4. respond(Started, 4) \in State /\ Kept(Started, respond(Started, 4))
    BY <2>3, RespondCalm, RespondKept
  <2> DEFINE f == [Started.calls EXCEPT ![c] = @ + 1]
             t == [Started EXCEPT !.recv = "pending", !.calls = f]
  <2>5. Async(Started, c) = t
    BY <2>3 DEF Async, State
  <2>6. f \in [AsyncCommands -> Nat] /\ "pending" \in ReceiveStates
    BY <2>3 DEF ReceiveStates
  <2> HIDE DEF f
  <2>7. t \in State /\ Kept(Started, t)
    BY <2>3, <2>6 DEF State, Kept
  <2> HIDE DEF t
  <2>8. QED
    BY <1>4, <2>1, <2>2, <2>4, <2>5, <2>7
<1>9. CASE PrepareDataConnection
  <2>1. {"EPSV", "PASV", "PORT"} \subseteq Commands
    BY DEF Commands
  <2>2. PICK c \in {"EPSV", "PASV", "PORT"} :
          /\ Starts(c)
          /\ \/ \E o \in {"no_port", "last_port", "ready", "lookup", "no_host"} :
                  Consumed(get_data_local_info(Started, o))
             \/ \E binds \in BOOLEAN : Consumed(set_data_peer_hostaddress(Started, binds))
    BY <1>9 DEF PrepareDataConnection, Allowed
  <2>3. Started \in State
    BY <1>5, <2>1, <2>2
  <2>4. \A o \in {"no_port", "last_port", "ready", "lookup", "no_host"} :
          /\ get_data_local_info(Started, o) \in State
          /\ Kept(Started, get_data_local_info(Started, o))
    BY <2>3, LocalInfoCalm, LocalInfoKept
  <2>5. \A binds \in BOOLEAN :
          /\ set_data_peer_hostaddress(Started, binds) \in State
          /\ Kept(Started, set_data_peer_hostaddress(Started, binds))
    BY <2>3, PeerCalm, PeerKept
  <2>6. QED
    BY <1>4, <2>1, <2>2, <2>4, <2>5
<1>10. QED
  BY <1>1, <1>2, <1>3, <1>6, <1>7, <1>8, <1>9 DEF ConsumerEvent

(* No result does: none of the authenticator is awaited after the login,      *)
(* unless the session was disturbed.                                          *)
LEMMA ResultStays ==
  ASSUME IInv, Good(ses), Result, ses.authed, ~ses'.disturbed PROVE ses'.authed
<1>1. ses \in State
  BY DEF IInv, TypeOK
<1>2. CASE AuthResult
  <2>1. PICK r \in {"user", "denied", "quota"} :
          ses.auths > 0 /\ ses' = on_authenticator_operation_result(ses, r)
    BY <1>2 DEF AuthResult
  <2> DEFINE n == ses.auths - 1
             s == [ses EXCEPT !.auths = n]
             h == handle_authenticate_user_response(s, r)
             d == (ses.cur = "PASS" /\ r = "user")
             t == [h EXCEPT !.authed = d]
  <2>2. ses' = t
    BY <2>1 DEF on_authenticator_operation_result
  <2>3. ses.disturbed
    BY <1>2, <2>1 DEF AuthResult, Alive, Good, Firm, Works
  <2>4. n \in Nat
    BY <1>1, <2>1, Fields
  <2> HIDE DEF n
  <2>5. s \in State /\ s.disturbed = ses.disturbed
    BY <1>1, <2>4 DEF State
  <2> HIDE DEF s
  <2>6. h \in State /\ h.disturbed = s.disturbed
    BY <2>5, ResponseCalm, ResponseKept DEF Kept
  <2> HIDE DEF h, d
  <2>7. t.disturbed = h.disturbed
    BY <2>6 DEF State
  <2>8. QED
    BY <2>2, <2>3, <2>5, <2>6, <2>7
<1>3. CASE CallResult
  <2>1. PICK c \in AsyncCommands, ok \in BOOLEAN, connects \in BOOLEAN :
          LET s == [ses EXCEPT !.calls[c] = @ - 1,
                               !.file = @ \/ (c = "RETR" /\ ok)]
          IN /\ ses.calls[c] > 0
             /\ ses' = IF ses.recv = "aborted"
                         THEN [s EXCEPT !.recv = "idle", !.event = @ \/ ~ses.shut]
                         ELSE [Received(s, c, ok, connects) EXCEPT !.recv = "idle"]
    BY <1>3 DEF CallResult
  <2> DEFINE f == [ses.calls EXCEPT ![c] = @ - 1]
             b == ses.file \/ (c = "RETR" /\ ok)
             s == [ses EXCEPT !.calls = f, !.file = b]
             e == s.event \/ ~ses.shut
             t == [s EXCEPT !.recv = "idle", !.event = e]
             r == Received(s, c, ok, connects)
             u == [r EXCEPT !.recv = "idle"]
  <2>2. ses.calls[c] > 0 /\ ses.calls \in [AsyncCommands -> Nat]
    BY <1>1, <2>1, Fields
  <2>3. f \in [AsyncCommands -> Nat]
    BY <2>2
  <2>4. b \in BOOLEAN
    BY <1>1, Flags
  <2>5. s = [ses EXCEPT !.calls[c] = @ - 1, !.file = @ \/ (c = "RETR" /\ ok)]
    OBVIOUS
  <2>6. ses' = IF ses.recv = "aborted" THEN t ELSE u
    <3> HIDE DEF s
    <3> QED BY <2>1, <2>5
  <2> HIDE DEF f, b
  <2>7. s \in State /\ s.authed = ses.authed
    BY <1>1, <2>3, <2>4 DEF State
  <2> HIDE DEF s, e
  <2>8. t.authed = s.authed
    BY <2>7 DEF State
  <2>9. r \in State /\ r.authed = s.authed
    BY <2>7, ReceivedCalm, ReceivedKept DEF Kept
  <2> HIDE DEF r, t
  <2>10. u.authed = r.authed
    BY <2>9 DEF State
  <2> HIDE DEF u
  <2>11. QED
    BY <2>6, <2>7, <2>8, <2>9, <2>10
<1>4. CASE NestedAdderEof
  <2> DEFINE s == [ses EXCEPT !.nested = FALSE]
  <2>1. ses' = act_upon_command_reply(s, 2)
    BY <1>4 DEF NestedAdderEof, stop_processing_nested_adder
  <2>2. s \in State /\ s.authed = ses.authed
    BY <1>1 DEF State
  <2> HIDE DEF s
  <2>3. Kept(s, act_upon_command_reply(s, 2))
    BY <2>2, RespondKept
  <2>4. QED
    BY <2>1, <2>2, <2>3 DEF Kept
<1>5. CASE LookupResult
  <2> DEFINE s == [ses EXCEPT !.lookup = FALSE, !.info = FALSE]
             e == [ses EXCEPT !.end = "hostname_lookup"]
  <2>1. ses' = e \/ \E d \in {2, 4} : ses' = respond(s, d)
    BY <1>5 DEF LookupResult
  <2>2. s \in State
    BY ZenonT(40), <1>1 DEF State
  <2>3. s.authed = ses.authed /\ e.authed = ses.authed
    BY <1>1 DEF State
  <2> HIDE DEF s, e
  <2>4. \A d \in {2, 4} : Kept(s, respond(s, d))
    BY <2>2, RespondKept
  <2>5. QED
    BY <2>1, <2>3, <2>4 DEF Kept
<1>6. QED
  BY <1>2, <1>3, <1>4, <1>5 DEF Result

(* Nor does anything on the data connection.                                  *)
LEMMA DataStays ==
  ASSUME IInv, DataEvent, ses.authed PROVE ses'.authed
<1>1. ses \in State
  BY DEF IInv, TypeOK
<1>2. "none" \in ListenSockets /\ "connected" \in DataSockets /\ "clear" \in DataChannels
  BY DEF ListenSockets, DataSockets, DataChannels
<1>3. CASE Accept \/ ConnectionEvent
  <2> DEFINE a == [ses EXCEPT !.listen = "none", !.sock = "connected"]
             b == [ses EXCEPT !.sock = "connected"]
  <2>1. a \in State /\ Kept(ses, a)
    BY <1>1, <1>2 DEF State, Kept
  <2>2. b \in State /\ Kept(ses, b)
    BY <1>1, <1>2 DEF State, Kept
  <2>3. ses' = setup_data_channel(a) \/ ses' = setup_data_channel(b)
    BY <1>3 DEF Accept, ConnectionEvent
  <2> HIDE DEF a, b
  <2>4. QED
    BY <2>1, <2>2, <2>3, SetupKept DEF Kept
<1>4. CASE AcceptFails \/ SocketError
  <2>1. ses' = handle_data_transfer(ses, "connecting", TRUE)
    BY <1>4 DEF AcceptFails, SocketError
  <2>2. QED
    BY <1>1, <2>1, TransferKept DEF Kept
<1>5. CASE TransferDone \/ DestroyedSocketUsed
  <2>1. PICK err \in BOOLEAN :
          \/ ses' = [ses EXCEPT !.chan = "done", !.failed = err]
          \/ ses' = [ses EXCEPT !.end = "destroyed_socket"]
    BY <1>5 DEF TransferDone, DestroyedSocketUsed
  <2>2. QED
    BY <1>1, <2>1 DEF State
<1>6. CASE on_channel_done_event
  <2> DEFINE s == [ses EXCEPT !.chan = "clear"]
  <2>1. s \in State /\ Kept(ses, s)
    BY <1>1, <1>2 DEF State, Kept
  <2>2. ses' = s \/ \E flushed \in BOOLEAN : ses' = data_socket_shutdown(s, flushed)
    BY <1>6 DEF on_channel_done_event
  <2> HIDE DEF s
  <2>3. QED
    BY <2>1, <2>2, SocketShutdownKept DEF Kept
<1>7. CASE WriteEvent
  <2>1. ses' = data_socket_shutdown(ses, TRUE)
    BY <1>7 DEF WriteEvent
  <2>2. QED
    BY <1>1, <2>1, SocketShutdownKept DEF Kept
<1>8. QED
  BY <1>3, <1>4, <1>5, <1>6, <1>7 DEF DataEvent

(* A timeout disturbs; what else happens to a session leaves the login alone. *)
LEMMA RestStays ==
  ASSUME IInv, ses.authed, ~ses'.disturbed,
         AdderEvent \/ TimerEvent \/ ControlChannelDone \/ ClientLeaves \/ UserRemoved
  PROVE  ses'.authed
<1>1. ses \in State
  BY DEF IInv, TypeOK
<1>2. CASE AdderEvent
  <2>1. PICK l \in Lines :
          ses' = [ses EXCEPT !.input = Append(@, l), !.waiting = TRUE,
                             !.event = @ \/ ~ses.waiting]
    BY <1>2 DEF AdderEvent
  <2>2. QED
    BY <1>1, <2>1 DEF State
<1>3. CASE TimerEvent
  <2> DEFINE d == [ses EXCEPT !.disturbed = TRUE, !.owed = 0]
             s == [d EXCEPT !.timer = FALSE]
             r == respond(s, 4)
  <2>1. ses' = Shutdown(r)
    BY <1>3 DEF TimerEvent, Disturb
  <2>2. d \in State
    <3>1. 0 \in Int
      OBVIOUS
    <3>2. QED
      BY <1>1, <3>1 DEF State
  <2> HIDE DEF d
  <2>3. s \in State /\ s.authed = d.authed
    BY <2>2 DEF State
  <2> HIDE DEF s
  <2>4. r \in State /\ Kept(s, r)
    BY <2>3, RespondCalm, RespondKept
  <2> HIDE DEF r
  <2>5. ses'.authed = d.authed
    BY <2>1, <2>3, <2>4, ShutdownKept DEF Kept
  <2>6. d.authed = ses.authed
    BY <1>1 DEF State, d
  <2>7. QED
    BY <2>5, <2>6
<1>4. CASE ControlChannelDone \/ ClientLeaves \/ UserRemoved
  <2>1. ses' = [ses EXCEPT !.end = "quit"]
    BY <1>4 DEF ControlChannelDone, ClientLeaves, UserRemoved
  <2>2. QED
    BY <1>1, <2>1 DEF State
<1>5. QED
  BY <1>2, <1>3, <1>4

(* A user who logged in stays logged in: while the session is not disturbed,  *)
(* no command and no late result of the authenticator undoes the login.       *)
THEOREM LoginStays == Spec => StaysLoggedIn
<1>1. ASSUME IInv, Good(ses), [Next]_ses
      PROVE  [ses.authed /\ ~ses'.disturbed => ses'.authed]_ses
  <2>1. CASE Next
    BY <1>1, <2>1, ConsumerStays, ResultStays, DataStays, RestStays DEF Next
  <2>2. CASE UNCHANGED ses
    BY <2>2
  <2>3. QED
    BY <1>1, <2>1, <2>2
<1>2. QED
  BY <1>1, Invariance, SessionsAreGood, PTL DEF Spec, StaysLoggedIn
================================================================================
