------------------------------- MODULE FtpSession -------------------------------
(***************************************************************************)
(* One FTP session: ftp::commander, which reads command lines and replies, *)
(* and ftp::session, which owns the data connection and the login.  Both   *)
(* are event handlers of one event loop and call each other directly, so   *)
(* an action is one dispatched event with every call it makes.             *)
(*                                                                         *)
(* The state is the record ses.  An operator named after a method maps a   *)
(* state of the session to the one the method leaves behind.               *)
(*                                                                         *)
(* Commands are grouped by what they do to the state:                      *)
(*   CWD   any command answered by one asynchronous call of the tvfs       *)
(*   RETR  any command that opens a data transfer                          *)
(*   STAT  STAT of a path, whose reply is produced by a nested adder       *)
(*   NOOP  any command answered at once, a missing argument included       *)
(*   PASV  passive mode, with host_override to be looked up                *)
(*   EPSV  passive mode answered at once                                   *)
(*   PORT  PORT and EPRT                                                   *)
(* and the lines that are no command by how they are refused: "bad" lines  *)
(* at once, even while a command executes; "illegal" ones with a shutdown; *)
(* "unknown" ones in their turn.                                           *)
(***************************************************************************)
EXTENDS Integers, Sequences

CONSTANTS
  Lines,         \* the kinds of line the client sends
  MaxInput,      \* bound: lines received and not yet consumed
  MaxPending,    \* bound: asynchronous calls of one kind in flight
  FailureLimit   \* failed commands an unauthenticated client may send (5)

NoCommand == "none"
Commands  == {"USER", "PASS", "ABOR", "PASV", "EPSV", "PORT", "RETR", "STAT",
              "CWD", "NOOP", "QUIT"}
NeedsAuth == Commands \ {"USER", "PASS", "NOOP", "QUIT"}
AsyncCommands == {"CWD", "RETR", "STAT"}

ASSUME LinesAssumption == Lines \subseteq Commands \cup {"bad", "illegal", "unknown"}
ASSUME BoundsAssumption ==
  MaxInput \in Nat \ {0} /\ MaxPending \in Nat \ {0} /\ FailureLimit \in Nat \ {0}

VARIABLE ses

ReceiveStates == {"idle", "pending", "aborted"}
ListenSockets == {"none", "deaf", "open"}
DataSockets   == {"none", "fresh", "connecting", "connected", "flushing", "stuck"}
DataChannels  == {"clear", "attached", "dangling", "done"}
Ends == {"alive", "quit", "nested_", "hostname_lookup", "destroyed_socket"}

State == [
  (* input: lines in the buffer of the channel's in_ pipe.  event: a consumer *)
  (* event is queued.  waiting: the pipe's waiting_for_consumer_event_.       *)
  input : Seq(Lines), event : BOOLEAN, waiting : BOOLEAN,
  (* cur: current_cmd_.  queued: a_cmd_has_been_queued_.  recv: the state of  *)
  (* async_receive_.  calls: tvfs calls in flight.  nested: the streamed      *)
  (* adder runs a nested one.  file: file_ or the iterator over a directory   *)
  (* is open.  timer: timer_id_ is set.  shut: shutdown() was called.         *)
  cur : Commands \cup {NoCommand}, queued : BOOLEAN,
  recv : ReceiveStates, calls : [AsyncCommands -> Nat],
  nested : BOOLEAN, file : BOOLEAN, fails : Nat, timer : BOOLEAN, shut : BOOLEAN,
  (* user: user_ is not empty.  auths: results the authenticator still owes.  *)
  user : BOOLEAN, authOp : BOOLEAN, auths : Nat, authed : BOOLEAN,
  (* listen: data_listen_socket_; a "deaf" one exists and does not listen.    *)
  (* sock: data_socket_; a "stuck" one waits for a write event sent elsewhere.*)
  (* handler: data_transfer_handler_, set and cleared with the adder or the   *)
  (* consumer.  info: data_local_info_handler_.  lookup: one is in progress.  *)
  listen : ListenSockets, sock : DataSockets,
  handler : BOOLEAN, info : BOOLEAN, lookup : BOOLEAN,
  (* prevErr: previous_data_transfer_error_.  failed: the error of done_event.*)
  (* flush: data_shutting_down_.  chan: data_channel_; "dangling" when its    *)
  (* socket was destroyed under it, "done" when its done_event is queued.     *)
  prevErr : BOOLEAN, failed : BOOLEAN, flush : BOOLEAN,
  chan : DataChannels,
  (* end: how the session ended, quit() or the assertion that failed.         *)
  end : Ends,
  (* History.  owed: commands begun and not finally answered, kept until the  *)
  (* session is disturbed: until it sends a reply that is not the one its     *)
  (* executing command waits for (a refused line, a timeout, an abort).       *)
  owed : Int, disturbed : BOOLEAN]

(* shutdown(): no more input is consumed, and the channel flushes and closes. *)

Shutdown(s) ==
  [s EXCEPT !.recv = IF @ = "pending" THEN "aborted" ELSE @,
            !.event = FALSE, !.waiting = FALSE, !.shut = TRUE]

(* set_socket(): the consumer is attached and woken, the greeting sent; a     *)
(* refused client is shut down.                                               *)

Connected ==
  [input |-> <<>>, event |-> TRUE, waiting |-> TRUE,
   cur |-> NoCommand, queued |-> FALSE, recv |-> "idle",
   calls |-> [c \in AsyncCommands |-> 0], nested |-> FALSE, file |-> FALSE,
   fails |-> 0, timer |-> TRUE, shut |-> FALSE,
   user |-> FALSE, authOp |-> FALSE, auths |-> 0, authed |-> FALSE,
   listen |-> "none", sock |-> "none", handler |-> FALSE, info |-> FALSE,
   lookup |-> FALSE, prevErr |-> FALSE, failed |-> FALSE, flush |-> FALSE,
   chan |-> "clear", end |-> "alive", owed |-> 0, disturbed |-> FALSE]

Init == ses \in {Connected, Shutdown(Connected)}

Disturb(s) == [s EXCEPT !.disturbed = TRUE, !.owed = 0]

Owe(s, n) == IF s.disturbed \/ s.shut THEN s.owed ELSE s.owed + n

(* A line is about to be answered, in the middle of a command or not.         *)

Answering(s) ==
  IF s.cur # NoCommand THEN Disturb(s) ELSE [s EXCEPT !.owed = Owe(s, 1)]

-----------------------------------------------------------------------------
(* Replies.  A reply is its first digit.  Every reply but a preliminary one   *)
(* ends the command that executes, whoever sent it.                           *)

(* Variants: no event for the queued line; the file closed too early.         *)
ReplyWithoutWakeup(s, digit) ==
  [s EXCEPT !.cur = IF digit # 1 THEN NoCommand ELSE @,
            !.queued = @ /\ digit = 1,
            !.owed = IF digit # 1 THEN Owe(s, -1) ELSE @]

ReplyClosesFile(s, digit) ==
  [s EXCEPT !.cur = IF digit # 1 THEN NoCommand ELSE @, !.file = FALSE,
            !.event = @ \/ (digit # 1 /\ s.queued /\ ~s.shut),
            !.owed = IF digit # 1 THEN Owe(s, -1) ELSE @]

act_upon_command_reply(s, digit) ==
  LET ends == digit # 1
      t == [s EXCEPT !.cur = IF ends THEN NoCommand ELSE @,
                     !.event = @ \/ (ends /\ s.queued /\ ~s.shut),
                     !.queued = @ /\ ~ends,
                     !.file = @ /\ digit \in {1, 3},
                     !.fails = IF digit # 5 THEN 0
                               ELSE IF s.authed THEN @ ELSE @ + 1,
                     !.owed = IF ends THEN Owe(s, -1) ELSE @]
  IN IF t.fails = FailureLimit /\ t.fails > s.fails THEN Shutdown(t) ELSE t

(* respond<>() writes through buffer_stream(), which asserts !nested_.        *)

respond(s, digit) ==
  IF s.nested THEN [s EXCEPT !.end = "nested_"]
  ELSE act_upon_command_reply(s, digit)

-----------------------------------------------------------------------------
(* The data connection *)

(* Variant: the handler of the transfer is not forgotten.                     *)
CloseKeepsHandler(s) ==
  [s EXCEPT !.chan = "clear", !.sock = "none", !.listen = "none",
            !.info = FALSE, !.flush = FALSE]

close_data_connection(s) ==
  [s EXCEPT !.chan = "clear", !.sock = "none", !.listen = "none",
            !.info = FALSE, !.handler = FALSE, !.flush = FALSE]

(* An error nobody handles yet is kept, and later answers the transfer        *)
(* instead of its own status.                                                 *)

handle_data_transfer(s, status, error) ==
  LET bad == error \/ (s.handler /\ s.prevErr)
      digit == IF bad THEN 4 ELSE IF status = "started" THEN 1 ELSE 2
      t == IF s.handler THEN [respond(s, digit) EXCEPT !.prevErr = FALSE]
           ELSE [s EXCEPT !.prevErr = error]
  IN IF bad \/ status = "stopped" THEN close_data_connection(t) ELSE t

(* setup_data_channel() with a socket: a fresh one is connected, any other    *)
(* handed to the channel as soon as there is an adder or a consumer.          *)

setup_data_channel(s) ==
  IF s.sock = "fresh" THEN [s EXCEPT !.sock = "connecting"]
  ELSE IF s.sock # "none" /\ s.handler
    THEN [s EXCEPT !.chan = "attached", !.sock = "connected"]
    ELSE s

is_data_connection_setup(s) == s.sock # "none" \/ s.listen # "none"

(* connects: the outcome of connect() on a fresh socket.                      *)

start_data_transfer(s, connects) ==
  LET t == [s EXCEPT !.handler = TRUE]
  IN IF ~is_data_connection_setup(s) \/ (s.sock = "fresh" /\ ~connects)
       THEN handle_data_transfer(t, "connecting", TRUE)
       ELSE handle_data_transfer(setup_data_channel(t), "started", FALSE)

(* PASV and PORT replace the sockets, not what the channel points to.         *)

Replaced(s) ==
  [s EXCEPT !.prevErr = FALSE, !.chan = IF @ = "attached" THEN "dangling" ELSE @]

(* get_data_local_info(): bind() or every listen() may fail, or the last one  *)
(* succeed and not count, and the lookup may not start; whatever happens the  *)
(* listen socket object stays.                                                *)

(* Variants: a failure without an answer; an answer with the lookup begun.    *)
SilentPasvFailure(s, outcome) ==
  IF outcome = "ready"
    THEN respond([Replaced(s) EXCEPT !.sock = "none", !.listen = "open"], 2)
    ELSE [Replaced(s) EXCEPT !.sock = "none", !.listen = "deaf"]

LookupOutlivesAnswer(s, outcome) ==
  respond([Replaced(s) EXCEPT !.sock = "none", !.listen = "open",
                              !.info = TRUE, !.lookup = TRUE], 2)

get_data_local_info(s, outcome) ==
  LET t == [Replaced(s) EXCEPT !.sock = "none", !.listen = "open"]
  IN CASE outcome = "no_port" -> respond([t EXCEPT !.listen = "deaf"], 4)
       [] outcome = "last_port" -> respond(t, 4)
       [] outcome = "ready"   -> respond(t, 2)
       [] outcome = "lookup"  -> [t EXCEPT !.info = TRUE, !.lookup = TRUE]
       [] outcome = "no_host" ->
            respond([t EXCEPT !.info = FALSE, !.lookup = FALSE], 4)

set_data_peer_hostaddress(s, binds) ==
  respond([Replaced(s) EXCEPT !.listen = "none",
                              !.sock = IF binds THEN "fresh" ELSE "none"],
          IF binds THEN 2 ELSE 4)

(* The channel is done: the socket is shut down, at once or after a flush.    *)
(* The first call also makes the session the handler of the socket's events.  *)

data_socket_shutdown(s, flushed) ==
  IF flushed THEN handle_data_transfer([s EXCEPT !.flush = TRUE], "stopped", s.failed)
  ELSE [s EXCEPT !.flush = TRUE, !.sock = IF s.flush THEN "stuck" ELSE "flushing"]

-----------------------------------------------------------------------------
(* The login *)

(* handle_authenticate_user_response(): a result that finds another command   *)
(* than PASS executing is taken for the one USER waits for.                   *)

(* Variant: the login timer is not started again after USER.                  *)
UserResponseUntimed(s, result) ==
  IF s.cur # "PASS" THEN respond([s EXCEPT !.authOp = (result # "null")], 3)
  ELSE respond([s EXCEPT !.timer = TRUE, !.user = (result = "user")],
               IF result = "user" THEN 2 ELSE 5)

handle_authenticate_user_response(s, result) ==
  IF s.cur # "PASS"
    THEN respond([s EXCEPT !.timer = TRUE, !.authOp = (result # "null")], 3)
  ELSE IF result = "user" THEN respond([s EXCEPT !.timer = TRUE], 2)
  ELSE [respond([s EXCEPT !.user = FALSE], IF result = "quota" THEN 4 ELSE 5)
          EXCEPT !.timer = TRUE]

(* Its value becomes the session's user_.                                     *)

on_authenticator_operation_result(s, result) ==
  [handle_authenticate_user_response([s EXCEPT !.auths = @ - 1], result)
     EXCEPT !.authed = (s.cur = "PASS" /\ result = "user")]

(* Variants: USER answered before the authenticator; USER after the login.    *)
UserAnsweredAtOnce(s) ==
  respond([s EXCEPT !.user = TRUE, !.timer = FALSE, !.auths = @ + 1], 3)

UserAgain(s) ==
  [s EXCEPT !.user = TRUE, !.authed = FALSE, !.authOp = FALSE,
            !.timer = FALSE, !.auths = @ + 1]

USER(s) ==
  IF s.authed THEN respond(s, 5)
  ELSE [s EXCEPT !.user = TRUE, !.authed = FALSE, !.authOp = FALSE,
                 !.timer = FALSE, !.auths = @ + 1]

(* next() returns false when the operation's worker is gone.                  *)

PASS(s, next) ==
  IF ~s.user \/ s.authed THEN respond(s, 5)
  ELSE IF s.authOp /\ next
    THEN [s EXCEPT !.authOp = FALSE, !.timer = FALSE, !.auths = @ + 1]
    ELSE handle_authenticate_user_response([s EXCEPT !.authOp = FALSE], "null")

-----------------------------------------------------------------------------
(* The other commands *)

(* Variant: the reply is sent outside the callback.                           *)
AnsweredBeforeResult(s, cmd) ==
  respond([s EXCEPT !.recv = "pending", !.calls[cmd] = @ + 1], 2)

Async(s, cmd) == [s EXCEPT !.recv = "pending", !.calls[cmd] = @ + 1]

(* The end of a nested adder: STAT's handler writes the last line itself.     *)

stop_processing_nested_adder(s) ==
  act_upon_command_reply([s EXCEPT !.nested = FALSE], 2)

(* ABOR closes the data connection only if a nested adder was running.        *)

ABOR(s) ==
  respond(IF s.nested
            THEN respond(close_data_connection(stop_processing_nested_adder(s)), 4)
            ELSE s, 2)

QUIT(s) == Shutdown(respond(s, 2))

(* What a call of the tvfs leads to.                                          *)

Received(s, cmd, ok, connects) ==
  IF ~ok THEN respond(s, 5)
  ELSE CASE cmd = "CWD"  -> respond(s, 2)
         [] cmd = "RETR" -> start_data_transfer(s, connects)
         [] cmd = "STAT" -> IF s.nested THEN [s EXCEPT !.end = "nested_"]
                            ELSE [s EXCEPT !.nested = TRUE]

-----------------------------------------------------------------------------
(* The input.  A consumer event makes the pipe offer one line after another   *)
(* to process_buffer_line(); here each line is an event, since lines may also *)
(* arrive one by one.  A line is consumed, or left for the next event.        *)

Alive == ses.end = "alive"
Line  == Head(ses.input)
Now   == [ses EXCEPT !.event = FALSE, !.waiting = FALSE]

Offered(l) == Alive /\ ses.event /\ ses.input # <<>> /\ Line = l

Consumed(s) ==
  LET more == Len(s.input) > 1 /\ ~s.shut
  IN ses' = [s EXCEPT !.input = Tail(@), !.event = @ \/ more,
                      !.waiting = @ \/ more]

Postponed(s) == ses' = [s EXCEPT !.waiting = TRUE]

(* Lines refused on the spot, whatever executes, and lines that are no        *)
(* command, refused in their turn.                                            *)

Refuse ==
  \/ Offered("bad") /\ Consumed(respond(Answering(Now), 5))
  \/ Offered("illegal") /\ Consumed(Shutdown(respond(Answering(Now), 5)))
  \/ /\ Offered("unknown") /\ ses.cur = NoCommand
     /\ Consumed(respond(Answering(Now), 5))

(* queue_new_cmd(): one command executes at a time.  ABOR alone overtakes it, *)
(* unless it is a login command or an ABOR.                                   *)

Overtakes(c) == c = "ABOR" /\ ses.cur \notin {"ABOR", "USER", "PASS"}

queue_new_cmd ==
  /\ ses.cur # NoCommand
  /\ \E c \in Commands \cup {"unknown"} :
       /\ Offered(c) /\ ~Overtakes(c)
       /\ Postponed([Now EXCEPT !.queued = TRUE])

(* ABOR during a call of the tvfs: its result is to be dropped, and wakes the *)
(* consumer to read ABOR again.                                               *)

AbortPendingCall ==
  /\ Offered("ABOR") /\ Overtakes("ABOR")
  /\ ses.recv = "pending"
  /\ Postponed([Now EXCEPT !.recv = "aborted"])

(* Command c starts; Started is the state in which its function is called.    *)

Starts(c) ==
  /\ Offered(c)
  /\ ses.cur = NoCommand \/ Overtakes(c)
  /\ ~(c = "ABOR" /\ ses.recv = "pending")

Started == [Answering(Now) EXCEPT !.cur = Line]

Allowed(c) == Starts(c) /\ ses.authed

NotLoggedIn ==
  /\ ~ses.authed
  /\ \E c \in NeedsAuth : Starts(c) /\ Consumed(respond(Started, 5))

Login ==
  /\ ses.auths < MaxPending
  /\ \/ Starts("USER") /\ Consumed(USER(Started))
     \/ Starts("PASS") /\ \E next \in BOOLEAN : Consumed(PASS(Started, next))

AnswerAtOnce ==
  \/ Starts("NOOP") /\ \E digit \in {2, 3, 5} : Consumed(respond(Started, digit))
  \/ Starts("QUIT") /\ Consumed(QUIT(Started))
  \/ Allowed("ABOR") /\ Consumed(ABOR(Started))

StartCall ==
  \E c \in AsyncCommands :
    /\ Allowed(c)
    /\ IF c = "RETR" /\ ~is_data_connection_setup(ses)
         THEN Consumed(respond(Started, 4))
         ELSE ses.calls[c] < MaxPending /\ Consumed(Async(Started, c))

PrepareDataConnection ==
  \/ /\ Allowed("EPSV")
     /\ \E o \in {"no_port", "last_port", "ready"} : Consumed(get_data_local_info(Started, o))
  \/ /\ Allowed("PASV")
     /\ \E o \in {"no_port", "last_port", "lookup", "no_host"} :
          Consumed(get_data_local_info(Started, o))
  \/ /\ Allowed("PORT")
     /\ \E binds \in BOOLEAN : Consumed(set_data_peer_hostaddress(Started, binds))

NothingOffered == Alive /\ ses.event /\ ses.input = <<>> /\ ses' = Now

ConsumerEvent ==
  \/ Refuse \/ queue_new_cmd \/ AbortPendingCall \/ NotLoggedIn \/ Login
  \/ AnswerAtOnce \/ StartCall \/ PrepareDataConnection \/ NothingOffered

(* A line arrives: the consumer is told unless the pipe knows it to wait.     *)

AdderEvent ==
  /\ Alive /\ ~ses.shut /\ Len(ses.input) < MaxInput
  /\ \E l \in Lines :
       ses' = [ses EXCEPT !.input = Append(@, l), !.waiting = TRUE,
                          !.event = @ \/ ~ses.waiting]

-----------------------------------------------------------------------------
(* Results that come back through the event loop *)

AuthResult ==
  /\ Alive /\ ses.auths > 0
  /\ \E r \in {"user", "denied", "quota"} :
       ses' = on_authenticator_operation_result(ses, r)

(* async_abortable_receive: an aborted result is dropped and the consumer     *)
(* woken.  A file is open as soon as the tvfs opened it, aborted or not.      *)

(* Variant: an aborted result wakes nobody.                                   *)
SilentAbort ==
  /\ Alive
  /\ \E c \in AsyncCommands, ok \in BOOLEAN :
       LET s == [ses EXCEPT !.calls[c] = @ - 1, !.recv = "idle"]
       IN /\ ses.calls[c] > 0
          /\ ses' = IF ses.recv = "aborted" THEN s ELSE Received(s, c, ok, TRUE)

CallResult ==
  /\ Alive
  /\ \E c \in AsyncCommands, ok, connects \in BOOLEAN :
       LET s == [ses EXCEPT !.calls[c] = @ - 1,
                            !.file = @ \/ (c = "RETR" /\ ok)]
       IN /\ ses.calls[c] > 0
          /\ ses' = IF ses.recv = "aborted"
                      THEN [s EXCEPT !.recv = "idle", !.event = @ \/ ~ses.shut]
                      ELSE [Received(s, c, ok, connects) EXCEPT !.recv = "idle"]

NestedAdderEof ==
  /\ Alive /\ ses.nested
  /\ ses' = stop_processing_nested_adder(ses)

(* on_hostname_lookup_event() asserts that there is a handler and a socket.   *)

LookupResult ==
  LET s == [ses EXCEPT !.lookup = FALSE, !.info = FALSE]
  IN /\ Alive /\ ses.lookup
     /\ IF ~ses.info \/ ses.listen = "none"
          THEN ses' = [ses EXCEPT !.end = "hostname_lookup"]
          ELSE \E digit \in {2, 4} : ses' = respond(s, digit)

-----------------------------------------------------------------------------
(* Events of the data connection *)

(* The client connects to the listen socket, from its address or another, or  *)
(* accept() fails.                                                            *)

Accept ==
  /\ Alive /\ ses.listen = "open"
  /\ ses' = setup_data_channel([ses EXCEPT !.listen = "none", !.sock = "connected"])

AcceptFails ==
  /\ Alive /\ ses.listen = "open"
  /\ ses' = handle_data_transfer(ses, "connecting", TRUE)

ConnectionEvent ==
  /\ Alive /\ ses.sock = "connecting"
  /\ ses' = setup_data_channel([ses EXCEPT !.sock = "connected"])

(* An error on a socket whose events go to the session.                       *)

SocketError ==
  /\ Alive
  /\ \/ ses.sock \in {"connecting", "flushing"}
     \/ ses.sock = "connected" /\ ses.chan \notin {"attached", "done"}
  /\ ses' = handle_data_transfer(ses, "connecting", TRUE)

(* The channel ends the transfer, and queues its done_event.                  *)

TransferDone ==
  /\ Alive /\ ses.chan = "attached"
  /\ \E err \in BOOLEAN :
       ses' = [ses EXCEPT !.chan = "done", !.failed = err]

(* A pipe of the channel uses a socket that was destroyed: the process fails, *)
(* or the pipe meets an error.                                                *)

DestroyedSocketUsed ==
  /\ Alive /\ ses.chan = "dangling"
  /\ \/ ses' = [ses EXCEPT !.end = "destroyed_socket"]
     \/ ses' = [ses EXCEPT !.chan = "done", !.failed = TRUE]

on_channel_done_event ==
  /\ Alive /\ ses.chan = "done"
  /\ LET s == [ses EXCEPT !.chan = "clear"]
     IN IF s.sock = "none" THEN ses' = s
        ELSE \E flushed \in BOOLEAN : ses' = data_socket_shutdown(s, flushed)

WriteEvent ==
  /\ Alive /\ ses.sock = "flushing"
  /\ ses' = data_socket_shutdown(ses, TRUE)

-----------------------------------------------------------------------------
(* The end of the session *)

(* on_timer_event(), expired: a login under way is stopped.                   *)

TimerEvent ==
  /\ Alive /\ ses.timer
  /\ LET s == [Disturb(ses) EXCEPT !.timer = FALSE]
         t == IF ses.authed THEN s ELSE [s EXCEPT !.auths = 0, !.authOp = FALSE]
     IN ses' = Shutdown(respond(t, 4))

(* The control channel is done, after a shutdown or because the client left.  *)

ControlChannelDone == Alive /\ ses.shut /\ ses' = [ses EXCEPT !.end = "quit"]

ClientLeaves == Alive /\ ses' = [ses EXCEPT !.end = "quit"]

UserRemoved == Alive /\ ses.authed /\ ses' = [ses EXCEPT !.end = "quit"]

DataEvent ==
  \/ Accept \/ AcceptFails \/ ConnectionEvent \/ SocketError \/ TransferDone
  \/ DestroyedSocketUsed \/ on_channel_done_event \/ WriteEvent

Result == AuthResult \/ CallResult \/ NestedAdderEof \/ LookupResult

Next ==
  \/ ConsumerEvent \/ AdderEvent \/ Result \/ DataEvent
  \/ TimerEvent \/ ControlChannelDone \/ ClientLeaves \/ UserRemoved

Spec == Init /\ [][Next]_ses

(* What the event loop and a client that takes part in its transfers owe the  *)
(* session: queued events are dispatched, the tvfs, the authenticator and the *)
(* resolver answer, the client connects where it was told to and moves the    *)
(* data.  Nothing is asked of the timers, nor of any line being sent.         *)

Fairness ==
  /\ WF_ses(ConsumerEvent) /\ WF_ses(AuthResult) /\ WF_ses(CallResult)
  /\ WF_ses(NestedAdderEof) /\ WF_ses(LookupResult)
  /\ WF_ses(Accept) /\ WF_ses(ConnectionEvent) /\ WF_ses(TransferDone)
  /\ WF_ses(on_channel_done_event) /\ WF_ses(WriteEvent)
  /\ WF_ses(ControlChannelDone)

FairSpec == Spec /\ Fairness

-----------------------------------------------------------------------------
(* Properties *)

(* Type invariant of the commander's and the session's state.                 *)
TypeOK == ses \in State

CallsInFlight == \E c \in AsyncCommands : ses.calls[c] > 0

(* A line that stays in the buffer has a wake-up coming: the consumer event   *)
(* is queued, or the command it waits for still executes and its reply will   *)
(* send one, or the aborted call is still in flight and its result will.      *)
NoLostWakeup ==
  Alive /\ ~ses.shut /\ ses.input # <<>> =>
    \/ ses.event
    \/ ses.queued /\ ses.cur # NoCommand
    \/ ses.recv = "aborted" /\ CallsInFlight

(* Exactly one final reply per command: none is answered twice, none is       *)
(* forgotten, and no late result answers in the place of another command.     *)
OneFinalReply ==
  Alive /\ ~ses.disturbed /\ ~ses.shut =>
    ses.owed = IF ses.cur = NoCommand THEN 0 ELSE 1

(* Whatever works in the background works for the command that executes: its  *)
(* result cannot be taken for another one's.                                  *)
WorkHasItsCommand ==
  Alive /\ ~ses.disturbed =>
    /\ \A c \in AsyncCommands : ses.calls[c] > 0 =>
         ses.cur = c /\ ses.recv # "idle" /\ ses.calls[c] = 1
    /\ ses.auths > 0 => ses.cur \in {"USER", "PASS"} /\ ses.auths = 1
    /\ ses.lookup => ses.cur = "PASV"
    /\ ses.nested => ses.cur = "STAT"
    /\ ses.handler => ses.cur = "RETR" /\ ~CallsInFlight

(* A command that executes has something in flight that will answer it, and   *)
(* ABOR, USER or PASS are never left executing on their own.                  *)
CommandHasWork ==
  Alive /\ ses.cur # NoCommand =>
    \/ CallsInFlight \/ ses.auths > 0 \/ ses.lookup \/ ses.nested \/ ses.handler
    \/ ses.event

(* While the channel moves data the file it moves is open, and so is the      *)
(* socket; nothing but the transfer's own end takes them away.                *)
TransferIntact ==
  Alive /\ ~ses.disturbed /\ ses.chan # "clear" =>
    ses.file /\ ses.handler /\ ses.sock = "connected" /\ ses.chan # "dangling"

(* No session escapes the timeouts: unless the authenticator works on a       *)
(* login, for which the timer is stopped, the login or activity timer runs.   *)
AlwaysTimed == Alive /\ ~ses.shut => ses.timer \/ ses.auths > 0

(* A user who logged in stays logged in: no late result of the authenticator  *)
(* undoes the login.                                                          *)
StaysLoggedIn ==
  [][ses.authed /\ ~ses'.disturbed => ses'.authed]_ses

(* The transfer waits for a client on a listen socket that does not listen.   *)
WaitsForNobody == ses.handler /\ ses.sock = "none" /\ ses.listen = "deaf"

(* Lines are consumed: when the buffer is full, and the client thus cannot    *)
(* send any more, some line is eventually taken out of it, or the session     *)
(* ends.  The exceptions are a transfer that waits for nobody, and a socket   *)
(* whose write event goes to the channel that has already let go of it.       *)
FullBufferDrains ==
  Len(ses.input) = MaxInput ~>
    \/ Len(ses.input) < MaxInput \/ ~Alive \/ ses.shut
    \/ WaitsForNobody \/ ses.sock = "stuck"

(* streamed_adder.hpp: "You must not invoke buffer_stream() when processing a *)
(* nested adder": nothing is replied while STAT's listing is being produced.  *)
ReplyOutsideNestedAdder == ses.end # "nested_"

(* The assertion of on_hostname_lookup_event(): the answer of the resolver    *)
(* finds the handler and the listen socket it was asked for.                  *)
LookupFindsSocket == ses.end # "hostname_lookup"

(* setup_data_channel(): "Are we actually passively waiting for somebody to   *)
(* connect to us?": a transfer announced without a socket has a listen socket *)
(* that listens.                                                              *)
WaitsOnlyWhileListening == Alive => ~WaitsForNobody
================================================================================
