------------------------------ MODULE TcpServer ------------------------------
(***************************************************************************)
(* tcp::server with one listener, the sessions it makes, and the two ways *)
(* a session is cut from outside: the administrator's end_sessions() and  *)
(* the autobanner's banned_event.                                         *)
(*                                                                         *)
(* Three kinds of threads meet here.  The listener runs on a loop of its  *)
(* own and accepts; the server runs on the main loop, in the order of its *)
(* event queue, and turns accepted sockets into sessions; each session    *)
(* runs on a loop of the pool and tells the server when it has ended.     *)
(* What crosses from one to another is accepted_ (under the listener's    *)
(* mutex) and the main loop's queue.                                      *)
(*                                                                         *)
(* The set of listeners is fixed once the server runs.                    *)
(***************************************************************************)
EXTENDS Integers, FiniteSets, SequencesExt

CONSTANTS
    Sockets,     \* the connections peers will make, each made once
    Address,     \* the addresses they come from
    Peer,        \* Peer[s]: the address of socket s
    Network,     \* Network[a]: what the autobanner counts for a: an IPv4
                 \* address, or the high 64 bits of an IPv6 one
    MaxPerTurn,  \* sockets served before the other events get a turn (10)
    MaxQuits,    \* ended_events one session may send
    CountRange,  \* number of values of a std::size_t
    NoSocket, NoBan

ASSUME TcpServerAssumption ==
    /\ Peer \in [Sockets -> Address]
    /\ DOMAIN Network = Address
    /\ MaxPerTurn \in Nat \ {0}
    /\ MaxQuits \in Nat \ {0}
    /\ CountRange \in Nat \ {0}
    /\ NoSocket \notin Sockets
    /\ NoBan \notin Address

AllNetworks == {Network[a] : a \in Address}

VARIABLES
    status,    \* the listener's status_
    accepted,  \* its accepted_
    place,     \* where each socket is
    hands,     \* the listener thread: the socket it holds, and its next step
    events,    \* the main loop's queue
    turn,      \* the main loop: step, and the sockets this turn has served
    sessions,  \* sessions_
    count,     \* num_sessions_
    closing,   \* sessions told to shut down
    quits,     \* ended_events each session has sent
    banned,    \* per network, the address whose failures banned it, or NoBan
    early      \* history: sockets in flight when their address's sessions were cut

listenerVars == <<status, hands>>
sessionVars == <<sessions, count, closing, quits>>
bannedVars == <<banned, early>>
serverVars == <<listenerVars, accepted, place, events, turn, sessionVars, bannedVars>>

Connected == [kind |-> "connected"]
Ended(s) == [kind |-> "ended", session |-> s]
BannedEvent(a) == [kind |-> "banned", address |-> a]
Event == {Connected} \cup {Ended(s) : s \in Sockets}
                     \cup {BannedEvent(a) : a \in Address}

Idle == [step |-> "idle", served |-> 0]
Free == [step |-> "idle", socket |-> NoSocket]

ServerInit ==
    /\ status = "stopped"
    /\ accepted = <<>>
    /\ place = [s \in Sockets |-> "backlog"]
    /\ hands = Free
    /\ events = <<>>
    /\ turn = Idle
    /\ sessions = {}
    /\ count = 0
    /\ closing = {}
    /\ quits = [s \in Sockets |-> 0]
    /\ banned = [n \in AllNetworks |-> NoBan]
    /\ early = {}

-----------------------------------------------------------------------------
(* The listener. *)

\* try_listen(): the port is taken, and a timer will try again, or it is ours.
\* It is first called by start(), then by the timer.
TryListen ==
    /\ status # "started"
    /\ hands = Free
    /\ status' \in {"retrying", "started"}
    /\ UNCHANGED <<hands, accepted, place, events, turn, sessionVars, bannedVars>>

(* Variant: nobody is refused. *)
is_peer_allowedVariant(s) == TRUE

\* is_peer_allowed(): the autobanner knows the address by its network.
is_peer_allowed(s) == banned[Network[Peer[s]]] = NoBan

\* on_socket_event() up to the lock: the connection is taken from the system,
\* which may fail, and its peer's address is looked up once and for all.
Accept(s) ==
    /\ status = "started"
    /\ hands = Free
    /\ place[s] = "backlog"
    /\ \/ /\ is_peer_allowed(s)
          /\ hands' = [step |-> "push", socket |-> s]
          /\ place' = [place EXCEPT ![s] = "allowed"]
       \/ /\ hands' = hands
          /\ place' = [place EXCEPT ![s] = "gone"]
    /\ UNCHANGED <<status, accepted, events, turn, sessionVars, bannedVars>>

(* Variant: the event is sent for the second socket of a batch. *)
WakesVariant(queue) == Len(queue) = 2

\* Under the listener's mutex.  Whoever finds the queue empty wakes the server.
Wakes(queue) == Len(queue) = 1

Push ==
    /\ hands.step = "push"
    /\ accepted' = Append(accepted, hands.socket)
    /\ place' = [place EXCEPT ![hands.socket] = "accepted"]
    /\ hands' = IF Wakes(accepted') THEN [step |-> "send", socket |-> NoSocket]
                ELSE Free
    /\ UNCHANGED <<status, events, turn, sessionVars, bannedVars>>

\* target_handler_.send_event<connected_event>(), outside the mutex.
SendConnected ==
    /\ hands.step = "send"
    /\ events' = Append(events, Connected)
    /\ hands' = Free
    /\ UNCHANGED <<status, accepted, place, turn, sessionVars, bannedVars>>

-----------------------------------------------------------------------------
(* The server, on the main loop: one handler runs at a time. *)

Dispatched(kind) ==
    /\ turn = Idle
    /\ events # <<>>
    /\ Head(events).kind = kind

\* on_connected_event() starts, or comes back to its loop.
on_connected_event ==
    /\ Dispatched("connected")
    /\ turn' = [step |-> "take", served |-> 0]
    /\ events' = Tail(events)
    /\ UNCHANGED <<listenerVars, accepted, place, sessionVars, bannedVars>>

\* get_socket() found none: the handler returns.
NoneWaiting ==
    /\ turn.step = "take"
    /\ accepted = <<>>
    /\ turn' = Idle
    /\ UNCHANGED <<listenerVars, accepted, place, events, sessionVars, bannedVars>>

\* loop_count reaches zero once, at the last socket of the turn.
LastOfTurn(served) == served = MaxPerTurn

\* get_socket(), make_session() and the insertion.
TakeSocket ==
    /\ turn.step = "take"
    /\ accepted # <<>>
    /\ LET s == Head(accepted) IN
         /\ accepted' = Tail(accepted)
         /\ place' = [place EXCEPT ![s] = "session"]
         /\ sessions' = sessions \cup {s}
         /\ count' = (count + 1) % CountRange
    /\ turn' = [step |-> IF LastOfTurn(turn.served + 1) THEN "yield" ELSE "take",
                served |-> turn.served + 1]
    /\ UNCHANGED <<listenerVars, events, closing, quits, bannedVars>>

(* Variant: what waits is left to an event that nobody sends. *)
YieldTurnVariant ==
    /\ turn.step = "yield"
    /\ turn' = Idle
    /\ UNCHANGED <<listenerVars, accepted, place, events, sessionVars, bannedVars>>

\* has_socket(), which takes the listener's mutex anew: if more wait, they are
\* left to another event, else the loop goes on, and loop_count has wrapped.
YieldTurn ==
    /\ turn.step = "yield"
    /\ IF accepted # <<>>
       THEN turn' = Idle /\ events' = Append(events, Connected)
       ELSE turn' = [turn EXCEPT !.step = "take"] /\ UNCHANGED events
    /\ UNCHANGED <<listenerVars, accepted, place, sessionVars, bannedVars>>

\* on_session_ended_event(): counts first, looks for the session afterwards, and
\* destroys it.
Uncounted(s) == (count - 1) % CountRange

on_session_ended_event ==
    /\ Dispatched("ended")
    /\ LET s == Head(events).session IN
         /\ count' = Uncounted(s)
         /\ sessions' = sessions \ {s}
         /\ closing' = closing \ {s}
         /\ quits' = [quits EXCEPT ![s] = 0]
         /\ place' = [place EXCEPT ![s] = "gone"]
         /\ early' = early \ {s}
    /\ events' = Tail(events)
    /\ UNCHANGED <<listenerVars, accepted, turn, banned>>

\* ftp::server::on_banned_event(): the sessions of that very address.
CutBy(a) == {s \in sessions : Peer[s] = a}
InFlight(a) == {s \in Sockets : Peer[s] = a /\ place[s] \in {"allowed", "accepted"}}

on_banned_event ==
    /\ Dispatched("banned")
    /\ LET a == Head(events).address IN
         /\ closing' = closing \cup CutBy(a)
         /\ early' = early \cup InFlight(a)
    /\ events' = Tail(events)
    /\ UNCHANGED <<listenerVars, accepted, place, turn, sessions, count, quits, banned>>

\* end_sessions(): an administrator, on the same loop, names some sessions.
end_sessions(ids) ==
    /\ turn = Idle
    /\ ids # {} /\ ids \cap closing = {}
    /\ closing' = closing \cup ids
    /\ UNCHANGED <<listenerVars, accepted, place, events, turn, sessions, count,
                   quits, bannedVars>>

-----------------------------------------------------------------------------
(* A session, on its loop. *)

\* The channel is done, or something else made the session quit.
Quit(s) ==
    /\ s \in sessions
    /\ quits[s] < MaxQuits
    /\ quits' = [quits EXCEPT ![s] = @ + 1]
    /\ events' = Append(events, Ended(s))
    /\ UNCHANGED <<listenerVars, accepted, place, turn, sessions, count, closing,
                   bannedVars>>

\* A session that was told to shut down does so.
ShutDown(s) == s \in closing /\ quits[s] = 0 /\ Quit(s)

\* set_failed_login() by a session: its failures ban its network.
FailedLogin(s) ==
    /\ s \in sessions
    /\ quits[s] = 0
    /\ banned[Network[Peer[s]]] = NoBan
    /\ banned' = [banned EXCEPT ![Network[Peer[s]]] = Peer[s]]
    /\ events' = Append(events, BannedEvent(Peer[s]))
    /\ UNCHANGED <<listenerVars, accepted, place, turn, sessionVars, early>>

\* The ban's timer, on the main loop: what was queued when the ban began has been
\* handled by the time it ends.
BanEnds(n) ==
    /\ turn = Idle
    /\ banned[n] # NoBan
    /\ BannedEvent(banned[n]) \notin Range(events)
    /\ banned' = [banned EXCEPT ![n] = NoBan]
    /\ early' = {s \in early : Network[Peer[s]] # n}
    /\ UNCHANGED <<listenerVars, accepted, place, events, turn, sessionVars>>

-----------------------------------------------------------------------------
Listener == TryListen \/ (\E s \in Sockets : Accept(s)) \/ Push \/ SendConnected

Server ==
    \/ on_connected_event \/ NoneWaiting \/ TakeSocket \/ YieldTurn
    \/ on_session_ended_event
    \/ on_banned_event

ServerNext ==
    \/ Listener
    \/ Server
    \/ \E ids \in SUBSET sessions : end_sessions(ids)
    \/ \E s \in Sockets : Quit(s) \/ FailedLogin(s)
    \/ \E n \in AllNetworks : BanEnds(n)

\* Every loop runs what is in its queue.  Nothing makes a peer connect, a port
\* come free, a login fail, or a session end that nobody ends.
ServerFairness ==
    /\ WF_serverVars(Push \/ SendConnected)
    /\ WF_serverVars(Server)
    /\ \A s \in Sockets : WF_serverVars(ShutDown(s))

ServerSpec == ServerInit /\ [][ServerNext]_serverVars /\ ServerFairness

-----------------------------------------------------------------------------
(* Properties. *)

\* Every variable keeps its type.
ServerTypeOK ==
    /\ status \in {"stopped", "retrying", "started"}
    /\ accepted \in Seq(Sockets)
    /\ place \in [Sockets -> {"backlog", "allowed", "accepted", "session", "gone"}]
    /\ hands \in [step : {"idle", "push", "send"}, socket : Sockets \cup {NoSocket}]
    /\ events \in Seq(Event)
    /\ turn \in [step : {"idle", "take", "yield"}, served : Nat]
    /\ sessions \subseteq Sockets
    /\ count \in 0 .. CountRange - 1
    /\ closing \subseteq Sockets
    /\ quits \in [Sockets -> 0 .. MaxQuits]
    /\ banned \in [AllNetworks -> Address \cup {NoBan}]
    /\ early \subseteq Sockets

\* The event that serves accepted_ is sent outside the mutex that guards it and
\* only for the first socket of a batch (listener.cpp 162-176), and a turn may
\* stop before the queue is empty (server.cpp 119-125).  While a socket waits,
\* somebody is still about to look: an event is queued or about to be sent, or
\* the server is in its loop.
NoSocketForgotten ==
    accepted # <<>> =>
        \/ turn.step # "idle"
        \/ hands.step = "send"
        \/ \E i \in DOMAIN events : events[i] = Connected

\* get_number_of_sessions() "returns the number of sessions currently active"
\* (server.hpp 53).  It is counted apart from sessions_, and the administrator's
\* notifications are switched on and off by it.
CountIsSessions == count = Cardinality(sessions)

\* A ban looks at the peers twice, in two threads: when a socket is accepted, and
\* when the sessions of the banned address are cut (tcp/session.cpp 66,
\* ftp/server.cpp 163-171).  Once they have been, the only sessions of that
\* address that go on are those whose socket was between the two looks.
OnlyLatecomersEscape ==
    \A s \in sessions :
        LET a == Peer[s] IN
        (banned[Network[a]] = a /\ BannedEvent(a) \notin Range(events))
            => s \in closing \cup early

\* A socket that was let in becomes a session, however sockets, turns and other
\* events interleave.
EverySocketServed ==
    \A s \in Sockets : (place[s] = "allowed") ~> (place[s] \in {"session", "gone"})

\* The sessions an address has when it is banned, and those an administrator
\* ends, leave the server's table.
CutSessionsLeave ==
    \A s \in Sockets :
        (s \in sessions /\ (s \in closing \/ BannedEvent(Peer[s]) \in Range(events)))
            ~> (s \notin sessions)
=============================================================================
