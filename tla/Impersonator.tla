----------------------------- MODULE Impersonator -----------------------------
(***************************************************************************)
(* impersonator::client, which does file operations as another user of    *)
(* the system by asking a process that runs as that user, with the caller *)
(* and the channel it asks through, and the process's own loop.           *)
(*                                                                         *)
(* Sessions call from their own threads: they take the caller out of the  *)
(* client's pool (of one, the default), put a request in its queue and    *)
(* give it back.  The caller and its channel run on the client's loop, in *)
(* the order of one queue of events, and a handler of theirs is one step: *)
(* a caller is destroyed only between two of them (remove_handler()).     *)
(* The process answers requests in order, and it may hang or die.         *)
(*                                                                         *)
(* An answer stands for the call it was made for.  How messages are cut   *)
(* into packets is left out but for one thing: a message may have been    *)
(* written in part, which is what makes the next one wait.                *)
(***************************************************************************)
EXTENDS Integers, FiniteSets, SequencesExt

CONSTANTS
    Calls,       \* the operations sessions ask for, each asked once
    CredsCalls,  \* those that are set_credentials()
    Kind,        \* Kind[c]: what the response to call c looks like
    Leavers,     \* calls whose session may go before the answer
    MaxCrashes,  \* processes that die by themselves
    NoCall

ASSUME ImpersonatorAssumption ==
    /\ CredsCalls \subseteq Calls
    /\ Leavers \subseteq Calls
    /\ DOMAIN Kind = Calls
    /\ MaxCrashes \in Nat
    /\ NoCall \notin Calls

VARIABLES
    step,      \* per call, what its session's thread does next
    inUse,     \* the call that holds the caller
    stored,    \* set_credentials_message_ is set
    gone,      \* calls whose session has gone: their receivers have no context
    answer,    \* per call, the request the answer it got was for, or DefaultAnswer
    caller,    \* the caller
    channel,   \* its channel
    armed,     \* readiness the process's socket will tell of
    events,    \* the client's loop
    proc,      \* the process, and the two ways of the socket
    crashes,   \* processes that have died by themselves
    expects,   \* history: calls made after set_credentials()
    without,   \* history: calls executed by a process that had no credentials
               \* though all that was to be sent to it was
    skipped,   \* history: credentials were not sent to this process (see Skips)
    dropped    \* history: calls that went with the caller that held them

sessionVars == <<step, inUse, stored, gone>>
historyVars == <<expects, without, skipped, dropped>>
vars == <<sessionVars, answer, caller, channel, armed, events, proc, crashes,
          historyVars>>

Request == [op : {"call", "creds", "preset"}, for : Calls]
NoRequest == [op |-> "none", for |-> NoCall]
DefaultAnswer == [op |-> "default", for |-> NoCall]

RequestOf(c) == IF c \in CredsCalls THEN "creds" ELSE "call"

\* The credentials that go ahead of a new process's first request ("preset")
\* and those of set_credentials() are answered by the same type of message.
Expected(r) == IF r.op = "call" THEN Kind[r.for] ELSE "set_credentials_response"

Socket(flag) == [kind |-> "socket", flag |-> flag]
Ready(op) == [kind |-> "ready", op |-> op]
Error == [kind |-> "error"]
LoopEvent == {Socket("read"), Socket("write"), Ready("send"), Ready("recv"), Error}

NewCaller == [sendq |-> <<>>, recvq |-> <<>>, timer |-> NoRequest]
NewChannel == [open |-> TRUE, out |-> NoRequest, in |-> <<>>, msg |-> NoRequest,
               ops |-> {"send", "recv"}, waiting |-> FALSE]
NewProc == [alive |-> TRUE, serving |-> NoRequest, creds |-> FALSE,
            toServer |-> <<>>, toClient |-> <<>>]
NoProc == [NewProc EXCEPT !.alive = FALSE]
NoChannel == [NewChannel EXCEPT !.open = FALSE]

Init ==
    /\ step = [c \in Calls |-> "idle"]
    /\ inUse = NoCall
    /\ stored = FALSE
    /\ gone = {}
    /\ answer = [c \in Calls |-> NoRequest]
    /\ caller = NewCaller
    /\ channel = NoChannel
    /\ armed = {}
    /\ events = <<>>
    /\ proc = NoProc
    /\ crashes = 0
    /\ expects = {}
    /\ without = {}
    /\ skipped = FALSE
    /\ dropped = {}

-----------------------------------------------------------------------------
(* Answers, and the end of a channel. *)

Pending == Range(caller.recvq) \cup Range(caller.sendq)

\* Whose receiver would be invoked: that of the preset is an empty function.
Receivers(rs) == {r.for : r \in {q \in rs : q.op # "preset"}} \ gone

\* rw_.reset(): the socket is closed, and ~process() takes its events back.
Reset == [channel EXCEPT !.open = FALSE]
WithoutSocket(evs) ==
    LET left[i \in 0 .. Len(evs)] ==
          IF i = 0 THEN <<>>
          ELSE IF evs[i].kind = "socket" THEN left[i - 1]
          ELSE Append(left[i - 1], evs[i])
    IN  left[Len(evs)]

SocketCloses ==
    /\ armed' = {}
    /\ proc' = NoProc

\* caller::on_error(): every request is responded to with a default value.
AnsweredByDefault(rs) ==
    [c \in Calls |-> IF c \in Receivers(rs) THEN DefaultAnswer ELSE answer[c]]

on_error(evs, rs) ==
    /\ answer' = AnsweredByDefault(rs)
    /\ caller' = NewCaller
    /\ channel' = Reset
    /\ SocketCloses
    /\ events' = WithoutSocket(evs)

-----------------------------------------------------------------------------
(* The sessions: client::call(). *)

\* get_caller: the caller is free; if it is alive it is taken as it is.
TakeCaller(c) ==
    /\ step[c] = "idle"
    /\ inUse = NoCall
    /\ channel.open
    /\ inUse' = c
    /\ step' = [step EXCEPT ![c] = "call"]
    /\ expects' = IF stored THEN expects \cup {c} ELSE expects
    /\ UNCHANGED <<stored, gone, answer, caller, channel, armed, events, proc,
                   crashes, without, skipped, dropped>>

\* What a destroyed caller still held: its receivers die without a word.
Lost == Receivers(Pending)

\* get_caller: the caller is dead, or there is none yet.  It is destroyed, with
\* the events on their way to it, and another is made with a new process.
(* Variant: the stored credentials are not sent. *)
SendsPresetVariant(c) == FALSE

\* A new caller is sent the stored credentials first.
SendsPreset(c) == stored /\ c \notin CredsCalls

MakeCaller(c) ==
    /\ step[c] = "idle"
    /\ inUse = NoCall
    /\ ~ channel.open
    /\ inUse' = c
    /\ step' = [step EXCEPT ![c] = IF SendsPreset(c) THEN "preset" ELSE "call"]
    /\ expects' = IF stored THEN expects \cup {c} ELSE expects
    /\ dropped' = dropped \cup Lost
    /\ caller' = NewCaller
    /\ channel' = NewChannel
    /\ armed' = {"read", "write"}
    /\ events' = <<>>
    /\ proc' = NewProc
    /\ skipped' = FALSE
    /\ UNCHANGED <<stored, gone, answer, crashes, without>>

(* Variant: the second request wakes the caller. *)
WakesVariant(queue) == Len(queue) = 2

\* caller::call(), under its mutex: the first request in the queue wakes it.
Wakes(queue) == Len(queue) = 1

Enqueue(r) ==
    LET queue == Append(caller.sendq, r) IN
    IF ~ channel.open
    THEN on_error(events, Pending \cup {r})
    ELSE /\ caller' = [caller EXCEPT !.sendq = queue]
         /\ events' = IF Wakes(queue) THEN Append(events, Ready("send")) ELSE events
         /\ UNCHANGED <<answer, channel, armed, proc>>

CallPreset(c) ==
    /\ step[c] = "preset"
    /\ step' = [step EXCEPT ![c] = "call"]
    /\ Enqueue([op |-> "preset", for |-> c])
    /\ UNCHANGED <<inUse, stored, gone, crashes, historyVars>>

\* The request itself, and the caller goes back to the pool.
Call(c) ==
    /\ step[c] = "call"
    /\ step' = [step EXCEPT ![c] = "made"]
    /\ inUse' = NoCall
    /\ stored' = (stored \/ c \in CredsCalls)
    /\ Enqueue([op |-> RequestOf(c), for |-> c])
    /\ UNCHANGED <<gone, crashes, historyVars>>

\* The session ends, and with it the context of its receivers.
Leave(c) ==
    /\ c \in Leavers \ gone
    /\ step[c] = "made"
    /\ answer[c] = NoRequest
    /\ gone' = gone \cup {c}
    /\ UNCHANGED <<step, inUse, stored, answer, caller, channel, armed, events,
                   proc, crashes, historyVars>>

-----------------------------------------------------------------------------
(* The channel, on the client's loop. *)

Dispatched(e) == events # <<>> /\ Head(events) = e

\* What follows an operation on rw_ in the channel's handler: an error closes
\* rw_ at once and tells the caller by an event; else the caller is told that
\* what it asked for is possible.
Fails ==
    /\ channel' = Reset
    /\ SocketCloses
    /\ events' = Append(WithoutSocket(Tail(events)), Error)

Tells(op, ch) ==
    IF op \in ch.ops
    THEN /\ channel' = [ch EXCEPT !.ops = @ \ {op}]
         /\ events' = Append(Tail(events), Ready(op))
    ELSE channel' = ch /\ events' = Tail(events)

\* The socket has room again, or had from the beginning.
on_write ==
    /\ Dispatched(Socket("write"))
    /\ \/ /\ channel.out = NoRequest
          /\ Tells("send", channel)
          /\ UNCHANGED <<armed, proc>>
       \/ /\ channel.out # NoRequest
          /\ proc.alive
          /\ Tells("send", [channel EXCEPT !.out = NoRequest])
          /\ proc' = [proc EXCEPT !.toServer = Append(@, channel.out)]
          /\ UNCHANGED armed
       \/ /\ channel.out # NoRequest
          /\ ~ proc.alive
          /\ Fails
    /\ UNCHANGED <<sessionVars, answer, caller, crashes, historyVars>>

(* Variant: another event is asked for in any case. *)
RearmedVariant(got) == armed \cup {"read"}

\* Nothing was left to read.
Rearmed(got) == IF got = <<>> THEN armed \cup {"read"} ELSE armed

\* on_read() takes one message out of what has been read, reading more only if
\* there is none, and asks for another event only if there is nothing to read.
on_read ==
    /\ Dispatched(Socket("read"))
    /\ LET got == channel.in \o proc.toClient
           ch == [channel EXCEPT !.waiting = FALSE] IN
       \/ /\ channel.in # <<>>
          /\ Tells("recv", [ch EXCEPT !.msg = Head(channel.in), !.in = Tail(@)])
          /\ UNCHANGED <<armed, proc>>
       \/ /\ channel.in = <<>> /\ got # <<>>
          /\ Tells("recv", [ch EXCEPT !.msg = Head(got), !.in = Tail(got)])
          /\ proc' = [proc EXCEPT !.toClient = <<>>]
          /\ armed' = Rearmed(got)
       \/ /\ got = <<>>
          /\ proc.alive
          /\ armed' = Rearmed(got)
          /\ IF channel.msg # NoRequest
             THEN Tells("recv", [ch EXCEPT !.waiting = TRUE])
             ELSE channel' = [ch EXCEPT !.waiting = TRUE] /\ events' = Tail(events)
          /\ UNCHANGED proc
       \/ /\ got = <<>>
          /\ ~ proc.alive
          /\ Fails
    /\ UNCHANGED <<sessionVars, answer, caller, crashes, historyVars>>

-----------------------------------------------------------------------------
(* The caller, on the client's loop. *)

\* channel::send(): only one message at a time, and while the process has not
\* read what is before it, this one may stay in out_buf_.
SendOutcomes(r) ==
    IF ~ proc.alive THEN {"error"}
    ELSE {"written"} \cup (IF proc.toServer # <<>> THEN {"partly"} ELSE {})

\* A request whose receiver has no context any more is not sent.
Skips(r) == r.for \in gone

\* on_can_send() takes the requests one by one, until the channel says EAGAIN or
\* fails.  A step of the model takes one, and the event stays at the head of the
\* queue for the rest of the loop: finer than the mutex lets it be.
TimerAfterSend(r) == IF caller.timer = NoRequest THEN r ELSE caller.timer

on_can_send ==
    /\ Dispatched(Ready("send"))
    /\ LET r == Head(caller.sendq)
           sent == [caller EXCEPT !.sendq = Tail(@), !.recvq = Append(@, r),
                                  !.timer = TimerAfterSend(r)] IN
       \/ /\ caller.sendq = <<>>
          /\ events' = Tail(events)
          /\ UNCHANGED <<answer, caller, channel, armed, proc, skipped>>
       \/ /\ caller.sendq # <<>>
          /\ Skips(r)
          /\ caller' = [caller EXCEPT !.sendq = Tail(@)]
          /\ skipped' = (skipped \/ r.op # "call")
          /\ UNCHANGED <<answer, channel, armed, events, proc>>
       \/ /\ caller.sendq # <<>>
          /\ ~ Skips(r)
          /\ channel.open
          /\ channel.out # NoRequest
          /\ channel' = [channel EXCEPT !.ops = @ \cup {"send"}]
          /\ events' = Tail(events)
          /\ UNCHANGED <<answer, caller, armed, proc, skipped>>
       \/ /\ caller.sendq # <<>>
          /\ ~ Skips(r)
          /\ channel.open
          /\ channel.out = NoRequest
          /\ \/ /\ "error" \in SendOutcomes(r)
                /\ on_error(Tail(events), Pending)
             \/ /\ "written" \in SendOutcomes(r)
                /\ caller' = sent
                /\ proc' = [proc EXCEPT !.toServer = Append(@, r)]
                /\ UNCHANGED <<answer, channel, armed, events>>
             \/ /\ "partly" \in SendOutcomes(r)
                /\ caller' = sent
                /\ channel' = [channel EXCEPT !.out = r]
                /\ armed' = armed \cup {"write"}
                /\ UNCHANGED <<answer, events, proc>>
          /\ UNCHANGED skipped
       \/ /\ caller.sendq # <<>>
          /\ ~ Skips(r)
          /\ ~ channel.open
          /\ on_error(Tail(events), Pending)
          /\ UNCHANGED skipped
    /\ UNCHANGED <<sessionVars, crashes, expects, without, dropped>>

\* channel::recv(): takes the message, and has the next one looked for unless
\* that has been asked for.
Looks(evs) == IF channel.waiting THEN evs ELSE Append(evs, Socket("read"))

(* Variant: the request that was sent last. *)
AwaitingVariant == Last(caller.recvq)

\* A response invokes the receiver of the request that has waited longest.
Awaiting == Head(caller.recvq)

Delivered(m) ==
    [c \in Calls |-> IF c \in Receivers({Awaiting}) THEN m ELSE answer[c]]

(* Variant: the timer is stopped by any response. *)
TimerAfterVariant(queue) == NoRequest

\* The timer is set for the next request that waits.
TimerAfter(queue) ==
    IF caller.timer = NoRequest \/ queue = <<>> THEN NoRequest ELSE Head(queue)

on_can_recv ==
    /\ Dispatched(Ready("recv"))
    /\ channel.open
    /\ LET m == channel.msg
           rest == Tail(caller.recvq)
           ch == [channel EXCEPT !.msg = NoRequest, !.waiting = TRUE,
                                 !.ops = @ \cup {"recv"}] IN
       \/ /\ m = NoRequest
          /\ channel' = ch
          /\ events' = Looks(Tail(events))
          /\ UNCHANGED <<answer, caller, armed, proc>>
       \/ /\ m # NoRequest
          /\ caller.recvq # <<>>
          /\ Expected(Awaiting) = Expected(m)
          /\ answer' = Delivered(m)
          /\ caller' = [caller EXCEPT !.recvq = rest, !.timer = TimerAfter(rest)]
          /\ channel' = ch
          /\ events' = Looks(Tail(events))
          /\ UNCHANGED <<armed, proc>>
       \* Never so: see AnswerIsForTheCall.
       \/ /\ m # NoRequest
          /\ \/ caller.recvq = <<>>
             \/ Expected(Awaiting) # Expected(m)
          /\ on_error(Tail(events), Pending)
    /\ UNCHANGED <<sessionVars, crashes, historyVars>>

\* The channel's error, or recv() from a channel that is closed.
on_channel_error ==
    /\ \/ Dispatched(Error)
       \/ ~ channel.open /\ Dispatched(Ready("recv"))
    /\ on_error(Tail(events), Pending)
    /\ UNCHANGED <<sessionVars, crashes, historyVars>>

\* The deadline of the request the timer was set for.
on_timer ==
    /\ caller.timer # NoRequest
    /\ on_error(events, Pending)
    /\ UNCHANGED <<sessionVars, crashes, historyVars>>

-----------------------------------------------------------------------------
(* The process and the socket. *)

\* The socket's thread posts what it was asked to tell, once.
SocketReady(flag) ==
    IF flag = "read" THEN proc.toClient # <<>> \/ ~ proc.alive
    ELSE proc.toServer = <<>> \/ ~ proc.alive

SocketEvent(flag) ==
    /\ flag \in armed
    /\ SocketReady(flag)
    /\ armed' = armed \ {flag}
    /\ events' = Append(events, Socket(flag))
    /\ UNCHANGED <<sessionVars, answer, caller, channel, proc, crashes, historyVars>>

\* server::run(): receives a request and dispatches it...
Serve ==
    /\ proc.alive
    /\ proc.serving = NoRequest
    /\ proc.toServer # <<>>
    /\ LET r == Head(proc.toServer) IN
         /\ proc' = [proc EXCEPT !.toServer = Tail(@), !.serving = r,
                                 !.creds = @ \/ r.op # "call"]
         /\ without' = IF r.op = "call" /\ ~ proc.creds /\ ~ skipped
                       THEN without \cup {r.for} ELSE without
    /\ UNCHANGED <<sessionVars, answer, caller, channel, armed, events, crashes,
                   expects, skipped, dropped>>

\* ... and sends what the backend has answered.
Respond ==
    /\ proc.alive
    /\ proc.serving # NoRequest
    /\ proc' = [proc EXCEPT !.serving = NoRequest,
                            !.toClient = Append(@, proc.serving)]
    /\ UNCHANGED <<sessionVars, answer, caller, channel, armed, events, crashes,
                   historyVars>>

\* The process dies: what it had not read is lost, what it wrote can be read.
Crash ==
    /\ proc.alive
    /\ crashes < MaxCrashes
    /\ crashes' = crashes + 1
    /\ proc' = [proc EXCEPT !.alive = FALSE, !.serving = NoRequest, !.toServer = <<>>]
    /\ UNCHANGED <<sessionVars, answer, caller, channel, armed, events, historyVars>>

-----------------------------------------------------------------------------
Session(c) == TakeCaller(c) \/ MakeCaller(c) \/ CallPreset(c) \/ Call(c)
Loop == on_write \/ on_read \/ on_can_send \/ on_can_recv \/ on_channel_error

Next ==
    \/ \E c \in Calls : Session(c) \/ Leave(c)
    \/ Loop
    \/ on_timer
    \/ \E flag \in {"read", "write"} : SocketEvent(flag)
    \/ Serve \/ Respond \/ Crash

\* Threads and loops run, the socket tells of what happens to it, and a timer
\* that is set goes off.  The process owes nothing: it may hang.
Fairness ==
    /\ \A c \in Calls : WF_vars(CallPreset(c) \/ Call(c))
    /\ WF_vars(Loop)
    /\ WF_vars(on_timer)
    /\ \A flag \in {"read", "write"} : WF_vars(SocketEvent(flag))

Spec == Init /\ [][Next]_vars /\ Fairness

-----------------------------------------------------------------------------
(* Properties. *)

\* Every variable keeps its type.
TypeOK ==
    LET Requests == Request \cup {NoRequest} IN
    /\ step \in [Calls -> {"idle", "preset", "call", "made"}]
    /\ inUse \in Calls \cup {NoCall}
    /\ stored \in BOOLEAN /\ skipped \in BOOLEAN
    /\ \A set \in {gone, expects, without, dropped} : set \subseteq Calls
    /\ answer \in [Calls -> Requests \cup {DefaultAnswer}]
    /\ caller \in [sendq : Seq(Request), recvq : Seq(Request), timer : Requests]
    /\ channel \in [open : BOOLEAN, out : Requests, in : Seq(Request), msg : Requests,
                    ops : SUBSET {"send", "recv"}, waiting : BOOLEAN]
    /\ armed \subseteq {"read", "write"}
    /\ events \in Seq(LoopEvent)
    /\ proc \in [alive : BOOLEAN, serving : Requests, creds : BOOLEAN,
                 toServer : Seq(Request), toClient : Seq(Request)]
    /\ crashes \in 0 .. MaxCrashes

\* Responses carry no name of their request: the receiver at the head of
\* recv_queue_ gets them (channel.cpp 350-399).  Whatever is skipped, timed out,
\* sent ahead or lost with a process, nobody gets the response to another call.
AnswerIsForTheCall ==
    \A c \in Calls :
        answer[c] \in {NoRequest, DefaultAnswer, [op |-> RequestOf(c), for |-> c]}

\* on_read() has room for one message, and does not look whether it is taken
\* (channel.cpp 171-221).  Nothing that makes it read again is under way until
\* the caller has taken the message.
MessageIsNotOverwritten ==
    channel.msg # NoRequest =>
        "read" \notin armed /\ Socket("read") \notin Range(events)

\* One timer serves every request that waits for its response, and is moved from
\* one to the next (channel.cpp 365-373, 434-441): it is that of the oldest.
OldestIsTimed ==
    caller.recvq # <<>> => caller.timer = Head(caller.recvq)

\* A process is remade behind the back of those who call (client.cpp 73-82).  An
\* operation that is asked for after set_credentials() is not done by a process
\* that has no credentials, unless they were withheld from it because the session
\* whose request made the process had gone (channel.cpp 423).
CredentialsFirst == without \cap expects = {}

\* Every operation is answered, by the process or by default, though the process
\* may hang, die or be full, unless the session has gone or the request was lost
\* with its caller (see NoCallLost).
EveryCallAnswered ==
    \A c \in Calls :
        (step[c] = "made") ~> (answer[c] # NoRequest \/ c \in gone \cup dropped)

\* "We cannot satisfy the requests, hence respond with the default values provided
\* by the backend interface" (channel.cpp 322): no request goes without a response.
NoCallLost == dropped = {}
=============================================================================
