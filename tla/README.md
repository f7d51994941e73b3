# A model of FileZilla Server

TLA+ modules for the core of FileZilla Server 1.11.1 (`src/Filezilla_Server_1.11.1_src/
filezilla-server-1.11.1/src/filezilla`, abbreviated `filezilla/` below), TLC
configurations that check them, and TLAPS proofs about them.

The server is event driven. Objects derived from `fz::event_handler` run on an event
loop; sessions are spread over several loops, hence threads. Within one session
everything is sequential but *reentrant*: the commander, the session, the pipes and the
receivers call each other directly and leave flags behind for the next event. The
errors such code invites are not data races but a flag that two callers understand
differently: a wake-up that nobody sends, a reply that ends somebody else's command, a
lease that is given back twice. That is what the models are about.

## Inventory

| part | state | operations | what makes it correct |
|---|---|---|---|
| `ftp/commander` | current command, queued flag, receive state, login operation, failure count, timers | one handler per FTP command, reply, abort, timer | every command gets one final reply; nothing read is forgotten; a login is not undone |
| `ftp/session` | data and listen socket, data channel, transfer handler, lookup, lease, user | PASV/PORT, transfer begin/end, socket events, login result, quit | a transfer keeps its socket and file; an answer finds what it was asked for |
| `port_randomizer` | three static tables shared by all sessions: mutexes, lease entries, listening flags | scan, lease, set_connected, release, prune | one listener per port; no port is lost; leases are counted |
| `channel`, `pipe` | a buffer, waiting flags, pending events, error | adder and consumer events | no wake-up lost between adder and consumer |
| `buffer_operator/*` | lines, nested adder, files, sockets | add to / consume from a buffer | nested adder exclusive; end of file reported once |
| `authentication/throttled_authenticator` | failure histories per user and address, waiting workers, two timers | authenticate, result, stop, timer | every login answered; delays bounded by the cap |
| `authentication/autobanner` | failure times per address, timer maps | failed login, is banned, timer | a ban needs a burst of failures and ends after its time |
| `authentication/file_based_authenticator` | users, groups, shared session users | authenticate, reload | a user removed or changed reaches its sessions; limits hold |
| `receiver/*` | handlers posted from other threads | send, receive, stop | delivered at most once, never after stop |
| `tcp/server`, `tcp/listener` | accepted sockets, sessions, their count | accept, turn, end of session, ban, cut | no socket forgotten, a ban cuts the sessions of its address |
| `http/server/session`, `http/message_consumer`, `http/handlers` | parser, transaction, body writer and reader, two timers | start line, header, body, response, timer | responses whole and in order, bodies whole, pipelined input read |
| `authentication/token_manager` | refresh tokens | refresh, revoke | a token is used once |
| `impersonator/*` | pool of callers, queues of requests, process | call, answer, timer, crash, remake | each call gets the answer to itself, credentials go first |
| `rmp/*` and `administration`, `acme/*`, `update/*` | requests in flight | request, response, timeout | an answer to each request |
| `tvfs/*` | mount tree, permissions | resolve, open, list | permissions of the nearest mount point |

The commander and the session of one connection call each other (`respond()` ends a
command and closes its file; `session::handle_data_transfer()` calls back the commander,
which replies). The session meets other sessions in the port manager, without going
through an event loop, and the authenticators, whose results come back as events. The
commander meets the network through the input pipe of its channel.

The hard behaviours: events that arrive while a command executes (ABOR, a time-out, a
refused line, an accept error); results of work that was abandoned; wake-ups between the
pipe and the commander; the listening stage of a port, entered under a mutex and left
without it; settings that change while a login is being answered; a process that dies with
requests in its queues; a body that is read while its handler is still being authorized. `PROJECT.json` lists them one by one, with their lines, under `hazards`.

## Modules

| module | models | status |
|---|---|---|
| `PortManager` | `port_randomizer.cpp` and the session's listen loop, accept and close | complete |
| `PortScan` | history variables over `PortManager`: what a whole scan promises | complete |
| `MCPortManager`, `MCPortScan` | the small instance, without and with the history | |
| `PortManagerProofs` | theorems on `PortManager` and `PortScan` | |
| `FtpSession` | `commander.cpp` and `session.cpp`: command queue, replies, login, data connection, end of session | the control of all of them but TLS |
| `MCFtpSession` | instances of `FtpSession` | |
| `FtpSessionProofs` | theorems on `FtpSession` | |
| `Autobanner` | `autobanner.cpp` and the timers it relies on | complete but for the `banned_event` |
| `MCAutobanner` | instances of `Autobanner` | |
| `ThrottledAuthenticator` | `throttled_authenticator.cpp` | complete but for the method 'none' |
| `MCThrottledAuthenticator` | the small instance | |
| `Channel` | `channel.cpp`, `pipe.cpp`, the socket adapter and the operators at both ends | complete but for the operators named below |
| `Transfer` | what a user of a data connection may rely on; `Channel` implements it | abstract specification |
| `MCChannel` | the small instance | |
| `ChannelProofs` | `Channel` implements `Transfer`; the lister is asked once; the last reply is sent | |
| `ChannelCareProofs` | in every use of a `Channel`: its state has its type; nobody is forgotten | |
| `SessionUsers` | `file_based_authenticator.cpp`'s shared users, `session_user`, the session that follows them | the control; no methods, no rate limits |
| `MCSessionUsers` | the settings an administrator chooses from | |
| `SessionUsersProofs` | theorems on `SessionUsers` | |
| `TcpServer` | `tcp/server.cpp`, `tcp/listener.cpp`, bans and `end_sessions()` | one fixed listener |
| `MCTcpServer` | the small instance | |
| `AdmissionProofs` | theorems on `ThrottledAuthenticator`, on `Autobanner` and on `TcpServer` | |
| `Impersonator` | `impersonator/client.cpp`, `channel.cpp`, the caller, the process | a pool of one, on Unix |
| `MCImpersonator` | the small instance | |
| `ImpersonatorProofs` | theorems on `Impersonator` | |
| `HttpSession` | `http/server/session.cpp`, `message_consumer.cpp`, transactions, the handlers' part in them | one connection, no TLS, no routing |
| `MCHttpSession` | the small instance | |
| `HttpSessionProofs` | theorems on `HttpSession` | |

The modules meet where the code does. What `FtpSession` takes its input pipe for (a line in
an event, another event while lines remain) and what `HttpSession` takes its two pipes for
is what `Channel` shows of pipes; `banned_event` and `is_banned()` in `TcpServer` are what
`Autobanner` produces; the receivers that `Impersonator` and `FtpSession` use are one-shot.

### PortManager

A session is a process: with `number_of_session_threads` set, sessions run on event loops,
hence threads, of their own. (It is 0 by default, and then they share the server's loop.)
`mutex_[p]`, `entries_[p]` and `connecting_[p]` are static in the
code and shared by all sessions here. The critical section of `do_get_port()` is two
steps, `TryPort` (entered with `connecting_[p].exchange(1)`) and `Decide` (prune, grant or
give the flag back), because `set_connected()` and the second half of `release()` write
`connecting_[p]` without the mutex, from any thread. Assigning a lease is two steps for
the same reason: `ReleaseEntry` under the mutex, `ReleasePort` without it. Every port of
the range can be the first of a scan (`first_port_` is random). The operating system may
refuse any port, and refuses one that another listen socket holds. A port of which a
lease is being released still counts as leased until its entry says otherwise.

Abstracted: an entry's peer is a model value; expiry is the clock plus `TimeWait`
(`SO_REUSEADDR` makes it 0 or the TIME_WAIT period in the code). Bounds: two sessions of
two peers, two ports (the range typed in reverse, 2 to 1, so that the normalisation is
exercised), two tries instead of 15, `TimeWait` 0 and a clock that stops at 1, so that an
entry is fresh or expired. Two ports are enough to wrap around, twice even, and two
sessions are enough for every race on one port.

### FtpSession

The record `ses` holds the fields of `commander`, of `session` and of the input pipe that
their control flow reads. An operator that carries the name of a method maps a state to
the one the method leaves; an action is one dispatched event with all the calls it makes.
Commands are grouped by control flow (the module's head lists the groups): there is one
representative per group, and a command that misses its argument is one that is answered
at once.

* *Input.* The pipe offers a line in a consumer event. `process_buffer_line()` consumes
  it or postpones it (`EAGAIN`), in which case the pipe sets `waiting_for_consumer_event_`
  and relies on a later event. In the code one event consumes up to `max_num_loops_`
  lines; here each line is an event of its own, queued again while lines remain, which
  only adds interleavings.
* *Replies.* `act_upon_command_reply()`: every reply but a 1xx ends the current command,
  closes its file unless it is a 3xx, wakes the consumer if a line was postponed, and
  counts failures. It asserts that no nested adder runs, through `buffer_stream()`.
* *Calls.* `calls[c]` counts asynchronous calls in flight of group `c`; `recv` is
  `async_receive_`'s state. An aborted call delivers nothing but a consumer event.
* *Data connection.* `listen`, `sock` and `chan` are the listen socket, the data socket
  and the channel. A `"deaf"` listen socket exists and does not listen; a `"dangling"`
  channel points to a socket that was destroyed; a `"stuck"` socket waits for a write
  event that goes to the channel, which has already let go of it. These are states of
  the program, found while modelling.
* *End.* `end` is how the session ended: `"quit"`, or the assertion that failed. An ended
  session stops, hence `CHECK_DEADLOCK FALSE` in its configurations.
* *History.* `owed` counts commands begun and not answered. `disturbed` becomes true at
  the first reply sent out of turn: a refused line while a command executes, an ABOR that
  overtakes one, a time-out. From there on the protocol itself no longer tells which reply
  belongs to which command, and the properties on the correspondence stop. Both are read
  by properties only.

Both time-outs are assumed to be configured (not 0), and assertions to be enabled, as in
the default build. Not modelled: AUTH/PBSZ/PROT and TLS on either connection, the
offset of REST, the names of RNFR/RNTO, the refusals `needs_security` and
`must_be_last_in_queue`, rate limits, options that change under a live session.

Bounds: `MaxInput` lines in the buffer (2 for the login, so that commands are pipelined,
1 for the data connection), `MaxPending` calls of a kind in flight, and a `FailureLimit`
of 3 where the code has 5, so that it is reached. `FtpData` starts just after the login,
in a state `FtpLogin` reaches, with the commands that touch the data connection.

Fairness (`Fairness` in `FtpSession`): a queued event is dispatched; tvfs, authenticator
and resolver answer; the client connects where it was told to and moves the data; a
finished channel reports it. The event loop serves its queue in order and the thread pool
runs what it is given, which justifies the first two; the third is the client's part,
without which only the activity timer ends a transfer. Nothing is assumed of the timers,
of any line being sent, or of the client leaving.

### Autobanner

`set_failed_login()`, `set_options()` and the timer handler each run under `mutex_` and are
one action each, but for two gaps that are steps of their own. `Report` is the test of
`max_login_failures()` before the lock is taken; the administrator may change the options
before `set_failed_login` goes on. `TimerExpires` is the event loop taking a timer off its
list, after which `stop_timer()` has no effect on it; `OnTimer` is its handler, which waits
for the mutex. `timerMap` is the two timer maps in one; as in the code, stopping a timer
leaves its entry behind. The IPv4 and the IPv6 tables have the same code and are one table.

Time is relative: a failure has an age, a timer the time it has left. Bounds: two
addresses, one reporting session (the function is atomic once it has the lock; a second
session would only hold one more address between test and lock), three timers at once (one
per address and one on its way to the handler; ids that nothing can fire are reused, where
the code takes fresh ones), ages up to 2, one more than the longest window, and three
options: a limit of 2, a limit of 3, and 0, which switches the autobanner off.

Fairness: time passes, a timer's event reaches the handler, and a timer that has expired is
taken off the list, even if other timers expire all the time (strong fairness per timer:
the loop fires all timers that expired, in one pass over the list).

### ThrottledAuthenticator

An attempt goes through the phases `none`, `waiting`, `asked`, `answered`, `held`: no worker,
in `waiting_workers_`, with the wrapped authenticator, result on its way to the session,
operation in the hands of the session. The session takes an operation further with `next`
(PASS after USER) or ends it with `stop`; `stop_ongoing_authentications` destroys the worker
in any phase. Each function holds `mutex_` throughout, hence one action each; a result that
the wrapped authenticator has sent and the worker has not handled yet counts as `asked`, as
it does in the code (`authenticating_`). The timer handler reads the clock before it waits
for the mutex, and may then set the timer a little late; here it reads it when it acts.

Failures and delays are kept per user and per address; both kinds are `Keys` of one
table, because the code treats them alike. A key without a history and one with an empty
history and no delay behave the same and are not told apart. `patience` is a history
variable: what is left of `Cap` since the attempt began to wait.

Bounds: two sessions of two peers that try one user (each history is shared in part),
two failures within a window of 2, a delay of 1 and a cap of 2, so that the cap is reached by
the second delay. Ages stop at the window. Fairness: time passes, the authentication timer
is served, the wrapped authenticator answers. Nothing is assumed of the clients, nor of the
purging timer.

### Channel and Transfer

`Channel` is two pipes, "in" and "out", around one socket, with the event loop's queue kept
in order, because the code relies on that order (`shutdown` goes behind the last reply). A
handler that loops over its buffer (`max_num_loops_`) is modelled one turn at a time, so that
the client reads, sends, closes or resets in between; no other event is dispatched
meanwhile. The pipe's fields carry the names `waitA`/`waitC` for `waiting_for_adder_event_`
and `waiting_for_consumer_event_`, `errA`/`errC` for the errors of the last turn. `sa` is the
socket adapter, `local` what the channel serves: the commander's line consumer with the
streamed adder and its nested lister, a file reader, or a file writer.

`Transfer` says what a session relies on: units are taken from a source, which may be empty
from the start, then given to a sink, and success means that everything was taken and given;
a transfer may fail at any time, and after its end the source does not matter. `ImplementsTransfer`
is `Transfer!Spec` under the refinement mapping at the end of `Channel`.

Bounds: two units of buffer (`MaxReadable`, `MaxFill`), so that a buffer can be full, two
turns per event where the code has 5, room for one unit in the socket, so that every write
can stop half-way; a file of two units, one list of entries, two units from the client (three
for an upload, one more than the buffer), and two transfers, so that a channel is used
again. Fairness: the loop dispatches its queue, work of other threads ends, the socket reports
that it can go on, and the client reads what it is sent; a client that does not read is
ended by the activity timer, which is in `FtpSession`.

### SessionUsers

A user object is shared by the sessions logged in under its name. It lives as long as
somebody holds it (`shared_ptr`) and is found through `weak_users_map_` (`weak`). What the
authenticator does under its mutex is one step; the session's handler of a login's result
takes that mutex three times and is three steps, `TakeResult` (count or refuse),
`Subscribe`, `Apply`, between which the administrator may change everything (`Reload`).
A change is announced (`Announce`) when the backend has taken the credentials, not before.
A `limited_copies_counter` has no count but that of its copies, so neither has the model:
`Copies(c)` counts the holders.

Bounds: two sessions, two names and the system user, one group, four settings among which
the administrator moves twice (limits of the group and of the user, a disabled user, one
that turns into a system user, another default token, a group that is named twice), three user objects at a time.
Fairness: each session's loop and the backend's threads go on, and the server destroys a
session that asked for it.

### TcpServer

Three kinds of threads: the listener (`Listener`) accepts, looks at the bans and puts the
socket into `accepted_`; the main loop (`Server`) makes sessions of them in turns of at
most `max_loops` sockets, in the order of one queue that also carries `ended_event` and
`banned_event`; sessions end by themselves or are cut. The event that wakes the server is
sent outside the mutex, `hands.step = "send"`.

Bounds: three sockets, two of one address and one of another address of the same network (the
autobanner counts per network and cuts per address), turns of two where the code has 10, one
`ended_event` for each session. Fairness: the listener finishes what it holds, the main loop
serves its queue, a session that was told to end does.

### Impersonator

Sessions call from their own threads and are two steps, `CallPreset` and `Call`, one for each
time they are inside the client: taking the caller from the pool (remaking it, with the
stored credentials ahead, if its channel is closed), and putting the request into its queue.
The caller and its channel run on the client's loop, one handler a step. The process serves
requests in order; it may hang for ever or die at any time, within `MaxCrashes`. Packets are
left out except that a message can be written in part.

Bounds: two calls whose responses have the same type, so that a mix-up is not noticed
by type, one `set_credentials()`, one crash by itself (processes that are timed out die
in addition), one session that leaves. Fairness: threads, loop, socket events and a timer that
is set. Nothing of the process.

### HttpSession

One connection. The state is one record, an operator with a method's name maps it to the one
the method leaves, and an action is one dispatched event. The client's input is a sequence of
line classes (a start line, the headers that matter, chunk sizes, an empty line, anything
else), each of which is also a piece of a body where one is due; `message` sends a line to
what its parser state makes of it. `got`, `waits`, `closes` are the request's flags
`got_end_of_message_`, `waiting_for_consumer_event_`, `close_connection_`;
`status` is the response's, of whose six values three can be seen between two events;
`must_be_made` is `shared_transaction_must_be_made_`. A handler chooses among `Doings`: answer,
answer and close, stream a file or a listing, work that answers later, receive a body and
answer, receive a body and then work. `work.for` is the request a result belongs to; one that
comes when its transaction has been detached changes nothing. Handlers answer by a chain of
`send_` methods that stops at the first refusal (`reply`), with one exception: a login's
`send_auth_tokens` ignores what they return, and its `send_body()` writes even when the
response has ended, which `belated` records (finding 11). `get_authorization_data`
(`authorizer.cpp:238-240`) ignores it too but answers while the handler is being called, with
the status still `waiting_for_code`, where it is `reply`. `rest` counts half pieces in
`body_buffer_`, for a file that takes less than it is given. `garbled`, `belated`,
`lost` and `reported` are history.

The pipe has up to five lines consumed at one event; here it is one, which adds
interleavings. Both time-outs are assumed to be set. `BodySize` 1 (a piece is all of a
Content-Length body; chunked ones have as many pieces as they like), `MaxIn` 2 lines in
the buffer and `MaxRequests` 1: the client stops sending once the second request has begun, by
when its lines fill the buffer behind the first. With `BodySize` 2 and `MaxRequests` 2, or three
requests and one line in the buffer, the same properties hold in some minutes. Fairness: events
are dispatched, work that was begun ends, the client reads what the nested adder sends. None is
assumed of the timers, nor of the client's input.

## Runs

| run | shows |
|---|---|
| `port_scan` | four invariants of the port manager, over every interleaving of two sessions |
| `ftp_login` | the command queue and the login, with pipelining, refused lines, aborts, time-outs |
| `ftp_data` | the data connection with ABOR, both modes, lookups, listings; the reader never stops |
| `autobanner` | failures are timed, bans need a burst and end, under changing options |
| `throttle` | one timer serves every waiting attempt within the cap; throttled ones are not asked at once; every attempt is answered |
| `channel` | no pipe forgets anybody, the last reply is sent, transfers end, and the channel implements `Transfer` |
| `users` | sessions use the settings in force and are told of changes; no name has more sessions than its limit |
| `tcp_server` | accepted sockets are served, and bans cut the sessions they should |
| `impersonator` | each call gets its own answer or the default, across time-outs, crashes and credentials |
| `lost_call` (violation) | a call can go with the caller that held it: see findings |
| `http` | responses in order but for late tokens, chunked bodies whole, the right timer, pipelined input read |
| `http_body` (violation) | a body can be reported whole that is not |

What the properties say in words stands above each definition. Some that deserve a note:

* `NoLostWakeup` is the contract between `pipe` and `commander`. It holds in every state,
  disturbed or not, and is proved.
* `FullBufferDrains` is its temporal counterpart: a full input buffer, which keeps the
  client from sending anything, even ABOR, is eventually read. Two exceptions are part of
  its statement because the code has them: a transfer that waits on a deaf listener, and a
  stuck socket (`data_shutting_down_` is left set when PASV or PORT replaces a socket
  being flushed). Only the activity timer ends these.
* `FreePortFirst` is the comment of `port_randomizer.hpp` made precise for concurrent
  scans: a used port is granted only if no port stayed free during the whole scan. Its
  companion `GivesUpOnlyIfAllListening` is proved; `CutSessionsLeave` holds on the instance
  of `tcp_server`. No run repeats them.
* `OnlyLatecomersEscape` says what a ban promises with two looks at two times: a socket that
  was between them when the sessions were cut becomes a session of a banned address.
* `AnswerIsForTheCall` is about a protocol whose responses name no request: order is all there
  is, across requests that were skipped, timed out or lost with a process.
* `ResponsesInOrder` also covers the assertion of `streamed_adder.hpp:53`, that nothing is
  streamed while a nested adder runs. Its exception is finding 11: the tokens of a login whose
  request was answered otherwise meanwhile, and nothing else, leave out of turn, and only
  from a session that is closing.
* `LimitHoldsForTheName` is about the name that logs in, while the code compares the limit kept
  in a shared user object with the copies of that object's counter. The two agree only
  if the object follows the settings (`updated`), is the only one under its name, across
  replacement and expiry, and gets a copy from each session it counts. What it does not say is that
  no login is refused below the limit: `RefusedAtTheLimit`, finding 8.
* `InputIsRead` has one exception, `AskedTooLate`: a handler that asks for a body after
  the message has ended is never told of its end, and only the activity timer helps.

## Findings

Two are shown by runs.

* `lost_call`: a caller that is found dead is destroyed with its queues, and the requests in
  them are never responded to, not even by default (`impersonator/client.cpp:73`).
* `http_body`: the end of a Content-Length body does not wait for what the file did not take
  (`http/message_consumer.cpp:110-118`): `reset()` clears it, and `on_end(true)` makes the
  file server answer 204. The same report follows when a shared link is authorized after the
  body has begun to come (`handlers/authorized_file_sharer.cpp:219-235`): what came before
  `receive_body()` went to `process_body_chunk()`, which drops it. If all of it came before,
  there is no answer until the activity time-out.

The others were met while modelling. The definition named with each states what one would
expect, and TLC refutes it when it is checked in place of the properties of a passing run of
its module, on the instance given.

1. `session.cpp:743` clears the listening flag, `:750` destroys the listen socket; between
   the two another session can be granted the port. It costs that session one try.
   (`GrantedPortNotListening`, `MCPortManager` with `Spec` and the constants of `PortScan.cfg`.)
2. `session.cpp:305` tests `num_tries_left <= 0` after the loop, which also holds when the
   last try succeeded: the client gets 425 and the socket stays open.
   (`RefusedOnlyIfNotListening`, as above.)
3. Time-outs (`commander.cpp:524`) and lines that are not UTF-8 (`:663`) are answered
   while STAT's listing is produced, which `streamed_adder.hpp:53` forbids by assertion.
   (`ReplyOutsideNestedAdder`, `FtpData.cfg` with the lines STAT, CWD and bad.)
4. `session.cpp:787` asserts that handler and listen socket still exist when the resolver
   answers; the socket is gone if the client connected meanwhile.
   (`LookupFindsSocket`, `FtpData.cfg`.)
5. `session.cpp:560` takes the existence of a listen socket for a client to wait for; a
   refused PASV leaves one behind. (`WaitsOnlyWhileListening`, `FtpData.cfg`.)
6. `autobanner.cpp:91` stops the timer of the address before a ban begins; if that timer has
   just expired, its event still finds the address in the timer map and lifts the ban at
   once. (`BanLasts`, `Autobanner.cfg` with one limit.)
7. `throttled_authenticator.cpp:285` does not set the timer anew for an attempt that is due
   earlier than the one it was armed for; the attempt waits longer than the log says (`:282`).
   (`DelayAsLogged`, `Throttle.cfg`.)
8. `file_based_authenticator.cpp:283`: the set that `sanitize()` looks for doubles in is made
   anew for each group, so a group that is named twice stays twice, and each session of the
   user counts twice against its limit: a login is refused below it. The comment on it
   says "remove references to non-existing or duplicated groups" (`:281`).
   (`RefusedAtTheLimit`, `SessionUsers.cfg`, or the shorter `Configs <- Twice`.)
9. `file_based_authenticator.cpp:661` makes the mount tree from the user's token, which is
   assigned two lines later: the home directory in it is that of the token before.
   (`HomeIsTheUsers`, `SessionUsers.cfg` with one session.)
10. `tcp/server.cpp:135` takes a session off the count before it looks whether it has it. A
    session that ends twice (two shutdowns) wraps the count around.
    (`CountIsSessions`, `TcpServer.cfg` with `MaxQuits = 2`.)
11. `handlers/authorizer.cpp:517-548` ignores what `send_status()` and `send_headers()` return,
    and `server/session.cpp:552` refuses a body only before the headers are due, not after the
    end of a response. A login that succeeds after its request was answered with 408 adds a second
    head and the tokens to the output, and while the session flushes it the client can read
    them. `server/responder.hpp:17-18` says that the methods return failure and that "in case of failure,
    the session gets closed", which it does. (`OneResponseEach`, `HttpSession.cfg`.)

## Proofs

`PortManagerProofs`. Constants are arbitrary: any sets of sessions and peers, any
integers as the configured range. The listening flag of a port cannot be understood from
the port alone, since it is cleared without the mutex. The inductive invariant says who
*holds* it: a session holds `p` if it decides on `p`, or was granted `p` and has not stored
the lease, or stores a lease of `p` without a connection. Held by two is impossible, and
`connecting_[p] = 1` exactly if somebody holds it. `TypeCorrect`, `ListeningStageIsExclusive`
and `NoPortIsLeaked` follow.
`LeasesCounted` is inductive beside it, for finitely many sessions (`FiniteAssumption`; the
process has as many as it has sockets): the proof tells who is *getting* a lease, between
the grant and the store, from who is *keeping* one, and a step moves one session from one
set to the other or in or out of them, as the entry's count goes up or down
(`LeasesAreCounted`). A release finds what it looks for because the count is right
(`KeptIsCounted`), and the other way round.
What a whole scan promises is proved over the histories of `PortScan`. `ScanInv` speaks of the
ports a scan has *seen* since it began or wrapped around: while it is strict none of them
stayed free, but for the one it is about to decide on; relaxed, nothing stayed free; and the
same of the listening stage once it would take anything. It needs the count of leases: a
port that a strict scan finds empty is nobody's only if entries count those who keep it.
`FreePortComesFirst` and `GivesUpLast` follow.

`FtpSessionProofs`. The invariant is the type, `Wake` (`NoLostWakeup` together with the
fact that a pipe that waits has an event coming) and `Timed`. Methods call each other in
many ways, so the proof does not go action by action over the record but through a
relation `Calm(s, t)` between the state before and after a method: it takes no wake-up
away without leaving one, and no timer. Calm is transitive; each method is shown calm
once, in the order in which they call each other; each action then is a composition.
`TypeCorrect`, `NoWakeupIsLost` and `EverySessionIsTimed` follow.
On top of it `Good` says what commands and replies have to do with each other, as long as the
session lives. `Closed`: one that was shut down executes nothing and is not woken. `OwesOne`: the
history `owed` is one exactly while a command executes. `Works`: while nothing disturbed the
session, one thing at a time is under way, and it is of the kind that the command that executes
started. `Busy`: that command waits for an answer of its `Own`, or is `Overtaken` by an ABOR at
the head of the buffer which the consumer is about to read. None of these is inductive alone: one
answer per command needs that nothing else is under way which could answer too, and that
needs the reply to come after the work it reports. Within a handler `Good` is not what holds: a
method is entered in a state that is `Answerable` (work over, reply owed) and its reply leaves a
state that is `Sound` (`AnswerSound`), which taking the line out of the buffer turns into a good
one. `OneReplyPerCommand`, `WorkIsForTheCommand`, `CommandsAreAnswered` and `TransfersAreIntact`
follow. `CommandsAreAnswered` holds for disturbed sessions as well; the others are not claimed
for them, since a reply to a refused line or a timeout does end a command whose work goes on.
`LoginStays` is an action property: methods leave the login alone (`Kept`), and what could
undo it, a result of the authenticator, is not awaited by a session that is logged in.

`AdmissionProofs`, first: for the throttled authenticator with any options with `Delay <= Cap` and at least one failure.
The timer is armed for one attempt and serves all. The bound on each is not what it was
told to wait but what is left of `Cap`: a timer armed earlier is due earlier, and no delay
exceeds the cap, so the timer is always due within everybody's patience; when it is set
anew, it is for the least of waits that are within theirs. `WaitsAreBounded` follows. For
`ThrottledAttemptsAreDelayed` the invariant `Slowed` says that delay and age together are at
least the lag while a history is full, which purging, pushing and time all preserve.

The same module has the theorems on the autobanner and, further down, on the server, which are
independent of these (their definitions have names of their own, `BanSpec`, `ServerSpec`, so that
one module can extend all three). Of the autobanner: the
invariant ties the handles to the timers: the timer of a handle is running or on its way, the
timer map leads from it to the address, and failures are recorded only for known addresses.
Since an id leads to one address, no two handles share a timer, which is what makes replacing
and erasing one harmless to the others. `BansTypeCorrect` and `FailuresTimed` follow.
`BansNeedBursts` is an action property, shown step by step from the same invariant: only
`set_failed_login` can make an address banned while the options stay.

`SessionUsersProofs`, for any sessions, names, groups and settings. Two invariants say that
the map of weak references and the users are two views of one thing: what the map finds is
alive and can be joined (`Found`), and whoever is alive and can be joined is what the map
finds under his name, with the settings in force (`Listed`). Users live by being held, and a
user who is alive but was let go has lost his id; so every step that ends a hold, replaces a
user or changes the settings has to keep both. `NamesAreShared` follows from `Listed`.
`Subscribed` says that a user's subscribers are the sessions that follow him, so that those
who are told are those who need to be, and `Owned` that a session's queue holds nothing but
its one result before it is counted, and changes of its own user after. Hence `Seen`: a
session with nothing left to hear, of a user about whom nobody has anything left to say, sees
him as he is, and `SettingsAreUsed`. For `LimitsAreKept` the invariant is `Counts`: a session that
counts holds a copy of its user's own counter, and a user keeps the limit of the settings he
was made or updated from. With `Listed`, the user whom a login meets is the one object
under his name and his limit is the one in force; all who are counted under the name hold him,
and there are at least as many copies of his counter as sessions that do (`CopiesCoverSessions`), so
that the comparison with the copies bounds the sessions. It is true of all settings: a group that is
named twice makes more copies than sessions, which errs on the side of refusing.

`AdmissionProofs`, last: the server and its listener, for any sockets, addresses, networks and turns. `Placed` says that a socket
is in one place: the listener's hands, `accepted_`, or the table, of which the place known
to each thread is a view. From there `NoSocketForgotten` is inductive (`Unforgotten`): only the
first socket put into `accepted_` sends an event, and every turn of the loop that leaves some
goes on. `Latecomers` needs `Cut`, which says the same of sockets as of sessions: whoever has passed
the listener's look, of an address whose ban the server has heard of, is on its way out or was
between the two looks when it heard.

`ImpersonatorProofs`, for any calls, with any of them skipped, timed out, sent ahead or lost
with a process. `Fifo` states why each call gets its own answer: what waits in `recvq` is, in
order, what is in six places that follow each other, the message the client has not taken,
the channel's input, the response on its way, the request the process works on, those on
their way to it, and the one being written.
The lemma `RequestsMove` says what every step does to that order (rests, is broken, renewed,
enqueued, withheld, written, parted, flushed, or taken), so that each invariant about it is
proved against nine kinds of steps and not against the actions. `Reading` and `Holder` give
`OneMessage`, `Timed` gives `OldestFirst`, and `Led` and `Covered` (credentials stand at the head
of whatever a new process is sent, and cover what comes behind them) give `CredentialsAhead`.

`HttpSessionProofs`. Methods are operators on states, so the proof goes by methods again.
Those that answer (`reply`, `send_auth_tokens`, `send_body`, `send_continue`, `shutdown`,
`maybe_accept_next_request`) leave the message that is being read alone and are related by
`Answers`, which is transitive; those that read are shown to keep `Good` one by one, and actions
are compositions. `Good` consists of: `Ordered`, which ties the response's status to what has
left (waiting: nothing of it; sending: its head, and the adder is not through; ended: all);
`Taken`, a new transaction is due only when request and response are over, and the keep-alive
timer is set exactly then; `Woken`, one event at most is on its way to the reader, none once
the session has shut down; `Whole`, the trailer is read only with `body_buffer_` empty. While a
transaction is being replaced `Taken` does not hold (the timer is still keep-alive), which
is why the request line must reset it. `InTheirOrder`, `NothingOfItIsLost` and `Timed` follow.
After tokens that came too late the order is gone and nothing of it is needed: the session is
closing, reads no more input and only waits for its channel (`Late`, the other mode of the invariant,
with the lemmas that no method leads out of it but by the session's end).
A session that has been destroyed does nothing more (`GoneStays`).
A second invariant on top of `Good`, `Tight`, gives the bounds of the state, `SessionIsTyped`. What is
kept of a body (`rest`, at most `MaxRest` and one more piece) is not bounded by a guard: it stays
small because a body is asked for once. `Once` says that whoever has asked takes the body, that nobody has
while somebody works for the headers or once somebody works for the body, and that a body asked for and
complete belongs to a response still due; `Asked` adds that before the handler is called nobody has asked.
So when data arrive either somebody takes them or, when he cannot, his failure closes the session. There is
one way out of `Asked`, found by trying to prove it: a handler may have answered on the headers of a request
that then turns out to have two lengths; the error is not reported (the response has begun) and the
request goes no further than its headers (`Refused`).

`ChannelProofs`, first: the refinement of `Transfer`, for any sizes of files and buffers, any client,
and any number of data connections one after the other. A channel serves a control connection
or data connections. Of the former it needs only that it never becomes one of the latter
(`Speaking`, until it is `Hushed`): none of its methods posts the event that opens one
(`Talks`), and its history does not change. Of the latter, `Move` is the invariant. `Ends` says
who can be there: nobody without a socket, one direction for the file, no shutdown handshake.
`Count` says that what was taken and not given is in the buffer as long as it has somebody to go
to. `Events` says what each queued event is worth, and this is what the refinement needs: "a pipe
is done, without an error" can be on its way only if it is the carrier, the source has nothing left
and everything was given, and that must stay so until the event is heard, whatever comes first;
a socket that is closed makes it worthless, since only the first pipe that is done is reported. The
event that opens the next connection stands last in the queue, and the one before has left
nothing behind by then. `Moves(x, y, g)` is the relation of a method to what it leaves, `Takes` and
`Gives` those of the operators that move units, and `Proceeds` spells out which step of
`Transfer` a step of the channel is. `DataIsTransferred` follows. `Without()`, which takes events
back, is a recursive function over the queue; what the proof needs of it is that it leaves
events that were there before and none of those taken back (`WithoutFacts`).

`ChannelProofs`, second: on a control connection the lister is not asked for entries while it
reads some, `ListerIsAskedOnce`. Nothing in `streamed_adder` or the lister sees to that; it is
the number and the order of the events on their way that does, and three parties send the one
that makes the adder ask: a reply, entries that arrive, and the drained buffer. The invariant
`Asking` has two parts. `Lined` is about the queue: one result per command and one list per
read; no call of the adder while a list is read; at most one between a listing command's result
and its first list; and, while a command is at work, every call stands before its result, so
that none is left when the result makes the lister begin. `Turn` is about the third party. The
consumer of the output calls the adder unless that waits already (`waiting_for_adder_event_`),
so between events the adder has to be `Content`, that is, to wait, or the session has just begun
and the call of its greeting is still to be heard (`First`); and in the adder's own loop, where
it does not wait, `Adding` counts the turns: the first asks or answers, the second takes note of
what was sent, the third has nothing more to say. That the loop gets there is the hypothesis
`2 < MaxLoops`: the code's channels have five and ten (`commander.cpp:432`, `session.hpp:233`).
With one turn per event TLC finds the lister asked twice; with two, the bound of the run, it
finds no violation, but the proof does not reach that far: the loop then ends with an adder
that neither waits nor is called. `Without()` has to keep the order here (`WithoutOrder`), and a
relation between a method and what it leaves (`Asks`) again makes the actions compositions.

`ChannelProofs`, third: the last reply is sent, `LastReplyIsSent`, by the invariant `Staying` on top
of `Asking`. `GoodbyeIsSent` says that nothing is lost of a session that was told to go and whose
client keeps still; what keeps it inductive is in two parts, before somebody says goodbye and
afterwards. Before, either the client is gone or the input is read no more (`Broken`, of which
no farewell counts as calm), or the session is `Fine` and `Still`: nothing was thrown away, the
socket is there and its output has its consumer, no pipe has an error, no event with an error
and no end of a pipe is on its way, and no shutdown. Afterwards (`Parting`) nobody answers any more:
no command is at work, the lister reads nothing, the input has lost its consumer; so what is
in the output is all there is, and either it has been written or everything that will write it
is still `Fine`, the shutdown among the events notwithstanding, since `on_shutdown_event()` waits
for an empty buffer. The methods are sorted by what they keep of that: `Later` (what is broken
stays so), `Keeps` (throws nothing away and announces no end), `Rests` (answers nothing), `Stays`
(both), which are transitive, so that the actions are compositions again. The consumer of
the input is the one that neither rests nor keeps, because a command of the client may be QUIT.
The lister is where `Asking` comes in: entries that were still on their way when the session is
told to go would be added behind the last reply, and `Lined` has them only while a list is read.

`ChannelCareProofs`: nobody is forgotten, `EverybodyIsRemembered`, in every use of a channel and for
any bounds (one turn per event included, where the lister fails). `NobodyIsForgotten` looks at the
moments when the loop has nothing to do and the queue is empty; what makes it inductive is
`Tending`, which holds at every moment. `Cared(x, D)` says who will call whom if those in `D` are
still to be called: `Written` of the output and its consumer, `Heard` of the input, its adder and
the postponed line, `Fed` of the file that is downloaded. An operator whose waiting flag is set
is called by an event on its way, by the socket, or (the reader that is throttled, the line that
is postponed) by the one it waits for. `D` is the receivers of the queue (`Due`) and, while a loop
runs, the loop itself (`Running`), since it tells the other operator of its pipe when it ends; that
it then has something to tell is `Looped`: a loop that has gone round has brought something. An
adder that an event has been taken for and that has not yet been called counts once more (`"first"`),
because a reply and the lister rely on that call and not on the loop. None of it holds of a
channel on its way out (`Going`: no socket, or a pipe that is done and an event that says so), which
is why that event must never be taken back before it is heard. `Sound` has two details without which a
step fails: `socket_adapter` never answers that there is nothing to write, and an adder that has
been taken off a data connection has not left its flag behind (`set_adder()` clears it): the
operators are used again, and the next one would wait for an event that never comes. Methods are
related by `Goes` (types, ends and events that end are kept) and `Minds` (`Cared` is kept, whoever
else is due), both transitive. `Ends`, of `ChannelProofs`, is used once: the next data connection
begins with nobody throttled and nothing postponed. `ChannelIsTyped` comes with it.

The library's induction theorems take an operator as a parameter and are out of the installed
provers' reach. Where a proof needs what a recursive function computes (taking a handler's
events out of the queue), `ImpersonatorProofs` and `ChannelProofs` have the principle for sets instead
(`AllNumbers`: a set of naturals with 0 and closed under successor is all of them), from the
well-foundedness of the naturals.

Only model-checked: every liveness property, which is outside the proof system's reach. Every other
property of a passing run is stated by a theorem.

## Plan

1. `PortManager`, `FtpSession` with their proofs: done.
2. `Autobanner`, `ThrottledAuthenticator` with their proofs: done.
3. `Channel` and its abstract specification `Transfer`: done.
4. `SessionUsers`, `TcpServer`, `Impersonator`, `HttpSession`: done.
5. `TcpServer`, `Impersonator`, `HttpSession` with their proofs: done.
6. The refinement of `Transfer` by `Channel`, proved: done.
7. The count of leases and the promises of a scan, proved: done.
8. One final reply per command, and what works for it, proved: done.
9. `SessionUsers` and the lister of `Channel`, proved: done.
10. The last reply of `Channel`, proved: done.
11. The waiting flags of `Channel`, proved: done.
12. The bounds of `HttpSession`'s state, proved: done.

## Not modelled

* The token manager, the authorizations' expiry and the router: the session's handlers are
  free to do what these would make them do; their own content is data.
* The administration protocol (`rmp`): its messages are dispatched by code generated from
  types, over the same channel; a session of it is the next candidate for a module.
* The ACME client and the update checker: linear conversations with outside servers.
* `tvfs`: path resolution and permissions are functions over a mount tree; their results are
  nondeterministic here.
* TLS and `securable_socket`: the protocol is libfilezilla's and GnuTLS's.
* Listeners that come and go (`address_list`, `set_address_infos`): `listener.cpp:109` relies
  on the order in which a thread is stopped and its object destroyed.
* Receivers across threads, apart from one-shot handles and their end in `Impersonator`.
* The administration interface (wxWidgets), the web user interface (a client of the HTTP
  server), the tools, service and server process (options wired to components), loggers,
  serialization, utilities, the event loop pool, the build. They are output, conversion,
  glue, or somebody else's code, and make up most of the lines of the repository.
