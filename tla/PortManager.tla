------------------------------ MODULE PortManager ------------------------------
(***************************************************************************)
(* The passive-mode port manager (port_randomizer.cpp) together with the   *)
(* part of ftp::session that uses it: the listen loop of PASV/EPSV, the    *)
(* accept of the data connection and close_data_connection().              *)
(*                                                                         *)
(* The tables mutex_, entries_ and connecting_ are static: every session   *)
(* of the process shares them, and sessions run on several event loops,    *)
(* hence on several threads.  Each session is a process here.  A step is   *)
(* what a session does between two accesses to the shared tables; a        *)
(* critical section under mutex_[p] is one step unless it also touches     *)
(* connecting_[p], which other threads write without the mutex.            *)
(***************************************************************************)
EXTENDS Integers, FiniteSets

CONSTANTS
  Sessions,   \* FTP sessions that may open passive data connections
  Peers,      \* addresses of the clients
  PeerOf,     \* the client's address of each session
  ConfMin,    \* the configured passive range, as the administrator typed it
  ConfMax,
  MaxTries,   \* num_tries_left at the start of the listen loop (15)
  TimeWait,   \* how long a released entry stays busy, in ticks of the clock
  MaxClock,   \* bound: the clock stops there
  NoSession   \* the value of mutex[p] when nobody holds it

ASSUME SessionsAssumption == NoSession \notin Sessions
ASSUME FiniteAssumption   == IsFiniteSet(Sessions)
ASSUME PeersAssumption    == PeerOf \in [Sessions -> Peers]
ASSUME RangeAssumption    == ConfMin \in Int /\ ConfMax \in Int
ASSUME NumbersAssumption  ==
  MaxTries \in Nat \ {0} /\ TimeWait \in Nat /\ MaxClock \in Nat

VARIABLES
  mutex,       \* port -> the session inside the critical section
  entries,     \* port -> the peers that have an entry
  leases,      \* port -> peer -> leases_ of the entry
  expiry,      \* port -> peer -> expiry_ of the entry
  connecting,  \* port -> 0 or 1: the port is in its listening stage
  clock,       \* monotonic_clock
  pc,          \* session -> what it does next
  rnd,         \* session -> its port_randomizer
  triesLeft,   \* session -> num_tries_left
  got,         \* session -> port of the lease about to be assigned, 0 if none
  lease,       \* session -> data_port_lease_
  listening    \* session -> a listen socket is open on the lease's port

portVars    == <<mutex, entries, leases, expiry, connecting>>
sessionVars == <<pc, rnd, triesLeft, got, lease, listening>>
vars        == <<portVars, clock, sessionVars>>

-----------------------------------------------------------------------------
(* The constructor's normalisation of the range: swapped when reversed, both *)
(* ends clamped to 1..65535.                                                 *)

Clamp(p) == IF p <= 0 THEN 1 ELSE IF p > 65535 THEN 65535 ELSE p

MinPort == Clamp(IF ConfMin > ConfMax THEN ConfMax ELSE ConfMin)
MaxPort == Clamp(IF ConfMin > ConfMax THEN ConfMin ELSE ConfMax)
Ports   == MinPort .. MaxPort

PCs == {"idle", "scan", "inside", "assign", "assigned", "freeing", "freed",
        "closing", "closed", "listen", "refuse", "accepted"}

(* No randomizer exists outside the listen loop.                             *)
NoScan == [first |-> MinPort, prev |-> 0, other |-> FALSE, same |-> FALSE,
           now |-> 0]

NoLease == [port |-> 0, connected |-> FALSE]

Init ==
  /\ mutex = [p \in Ports |-> NoSession]
  /\ entries = [p \in Ports |-> {}]
  /\ leases = [p \in Ports |-> [q \in Peers |-> 0]]
  /\ expiry = [p \in Ports |-> [q \in Peers |-> 0]]
  /\ connecting = [p \in Ports |-> 0]
  /\ clock = 0
  /\ pc = [s \in Sessions |-> "idle"]
  /\ rnd = [s \in Sessions |-> NoScan]
  /\ triesLeft = [s \in Sessions |-> 0]
  /\ got = [s \in Sessions |-> 0]
  /\ lease = [s \in Sessions |-> NoLease]
  /\ listening = [s \in Sessions |-> FALSE]

Goto(s, l) == pc' = [pc EXCEPT ![s] = l]

-----------------------------------------------------------------------------
(* PASV: get_data_local_info() replaces the listen socket, builds a          *)
(* randomizer and enters the loop.  first_port_ is drawn from the range.     *)

Pasv(s) ==
  /\ pc[s] = "idle"
  /\ \E f \in Ports :
       rnd' = [rnd EXCEPT ![s] = [first |-> f, prev |-> 0, other |-> FALSE,
                                  same |-> FALSE, now |-> clock]]
  /\ triesLeft' = [triesLeft EXCEPT ![s] = MaxTries - 1]
  /\ listening' = [listening EXCEPT ![s] = FALSE]
  /\ Goto(s, "scan")
  /\ UNCHANGED <<portVars, clock, got, lease>>

(* The port do_get_port() looks at next, and whether the scan wrapped.       *)

NextPort(r) ==
  IF r.prev = 0 THEN r.first
  ELSE IF r.prev + 1 > MaxPort THEN MinPort ELSE r.prev + 1

Wrapped(r) == r.prev # 0 /\ NextPort(r) = r.first

(* Variant: the first wraparound relaxes both requirements.                   *)
RelaxAtOnce(r) == [r EXCEPT !.prev = NextPort(r), !.other = TRUE]

(* A wraparound relaxes one requirement, other peers first.                  *)
Relax(r) ==
  [r EXCEPT !.prev  = NextPort(r),
            !.other = @ \/ Wrapped(r),
            !.same  = @ \/ (Wrapped(r) /\ r.other)]

GivesUp(r) == Wrapped(r) /\ r.other /\ r.same

(* One round of do_get_port() up to connecting_[p].exchange(1).              *)

(* Variant: connecting_[p] is set without looking at its old value.           *)
TryPortUntested(s) ==
  LET p == NextPort(rnd[s])
  IN /\ pc[s] = "scan"
     /\ ~GivesUp(rnd[s])
     /\ mutex[p] = NoSession
     /\ rnd' = [rnd EXCEPT ![s] = Relax(@)]
     /\ connecting' = [connecting EXCEPT ![p] = 1]
     /\ mutex' = [mutex EXCEPT ![p] = s]
     /\ Goto(s, "inside")
     /\ UNCHANGED <<entries, leases, expiry, clock, triesLeft, got, lease,
                    listening>>

TryPort(s) ==
  LET r == rnd[s]
      p == NextPort(r)
  IN /\ pc[s] = "scan"
     /\ ~GivesUp(r)
     /\ mutex[p] = NoSession
     /\ rnd' = [rnd EXCEPT ![s] = Relax(r)]
     /\ IF connecting[p] = 0
          THEN /\ connecting' = [connecting EXCEPT ![p] = 1]
               /\ mutex' = [mutex EXCEPT ![p] = s]
               /\ Goto(s, "inside")
          ELSE UNCHANGED <<connecting, mutex, pc>>
     /\ UNCHANGED <<entries, leases, expiry, clock, triesLeft, got, lease,
                    listening>>

GiveUp(s) ==
  /\ pc[s] = "scan"
  /\ GivesUp(rnd[s])
  /\ rnd' = [rnd EXCEPT ![s].prev = NextPort(rnd[s])]
  /\ got' = [got EXCEPT ![s] = 0]
  /\ Goto(s, "assign")
  /\ UNCHANGED <<portVars, clock, triesLeft, lease, listening>>

(* prune(): entries nobody leases and whose TIME_WAIT is over are dropped,   *)
(* but only while the scan is strict.                                        *)

Pruned(r) ==
  LET p == r.prev
  IN IF r.other \/ r.same THEN entries[p]
     ELSE {q \in entries[p] : ~(leases[p][q] = 0 /\ expiry[p][q] < r.now)}

(* The rest of the critical section: the port is leased or given back.       *)

MayReuse(r, q) ==
  IF q \in Pruned(r) THEN r.same ELSE Pruned(r) = {} \/ r.other

(* Variant: a port that is not granted keeps its connecting_ flag.            *)
DecideLeaks(s) ==
  LET p == rnd[s].prev
      q == PeerOf[s]
      grants == MayReuse(rnd[s], q)
  IN /\ pc[s] = "inside"
     /\ mutex' = [mutex EXCEPT ![p] = NoSession]
     /\ entries' = [entries EXCEPT ![p] =
                      Pruned(rnd[s]) \cup (IF grants THEN {q} ELSE {})]
     /\ leases' = [leases EXCEPT ![p][q] = IF grants THEN @ + 1 ELSE @]
     /\ got' = [got EXCEPT ![s] = IF grants THEN p ELSE 0]
     /\ Goto(s, IF grants THEN "assign" ELSE "scan")
     /\ UNCHANGED <<connecting, expiry, clock, rnd, triesLeft, lease, listening>>

Decide(s) ==
  LET r == rnd[s]
      p == r.prev
      q == PeerOf[s]
  IN /\ pc[s] = "inside"
     /\ mutex' = [mutex EXCEPT ![p] = NoSession]
     /\ IF MayReuse(r, q)
          THEN /\ entries' = [entries EXCEPT ![p] = Pruned(r) \cup {q}]
               /\ leases' = [leases EXCEPT ![p][q] =
                               IF q \in Pruned(r) THEN @ + 1 ELSE 1]
               /\ got' = [got EXCEPT ![s] = p]
               /\ Goto(s, "assign")
               /\ UNCHANGED connecting
          ELSE /\ entries' = [entries EXCEPT ![p] = Pruned(r)]
               /\ connecting' = [connecting EXCEPT ![p] = 0]
               /\ Goto(s, "scan")
               /\ UNCHANGED <<leases, got>>
     /\ expiry' = [expiry EXCEPT ![p] =
                      [t \in Peers |-> IF t \in Pruned(r) THEN @[t] ELSE 0]]
     /\ UNCHANGED <<clock, rnd, triesLeft, lease, listening>>

-----------------------------------------------------------------------------
(* port_lease::operator=(&&): the old lease is released, under the mutex     *)
(* first and then, without it, in connecting_; only then is the new lease    *)
(* stored.  It is called with a fresh lease, after a failed listen() with an *)
(* empty one, and with an empty one by close_data_connection().              *)

(* Variant: leases_ is not decremented.                                       *)
ReleaseKeepsEntry(s, from, to) ==
  /\ pc[s] = from
  /\ Goto(s, to)
  /\ UNCHANGED <<portVars, clock, rnd, triesLeft, got, lease, listening>>

ReleaseEntry(s, from, to) ==
  LET p == lease[s].port
      q == PeerOf[s]
  IN /\ pc[s] = from
     /\ p # 0 => mutex[p] = NoSession
     /\ IF p # 0 /\ q \in entries[p] /\ leases[p][q] # 0
          THEN /\ leases' = [leases EXCEPT ![p][q] = @ - 1]
               /\ expiry' = [expiry EXCEPT ![p][q] = clock + TimeWait]
          ELSE UNCHANGED <<leases, expiry>>
     /\ Goto(s, to)
     /\ UNCHANGED <<mutex, entries, connecting, clock, rnd, triesLeft, got,
                    lease, listening>>

ReleasePort(s, from) ==
  LET p == lease[s].port
  IN /\ pc[s] = from
     /\ connecting' = IF p # 0 /\ ~lease[s].connected
                        THEN [connecting EXCEPT ![p] = 0]
                        ELSE connecting
     /\ lease' = [lease EXCEPT ![s] = [port |-> got[s], connected |-> FALSE]]
     /\ got' = [got EXCEPT ![s] = 0]
     /\ UNCHANGED <<mutex, entries, leases, expiry, clock, listening>>

AssignEntry(s) == ReleaseEntry(s, "assign", "assigned")

AssignPort(s) ==
  /\ ReleasePort(s, "assigned")
  /\ Goto(s, "listen")
  /\ UNCHANGED <<rnd, triesLeft>>

(* The loop is left, and with it the randomizer.                             *)

LeaveLoop(s, l) ==
  /\ rnd' = [rnd EXCEPT ![s] = NoScan]
  /\ triesLeft' = [triesLeft EXCEPT ![s] = 0]
  /\ Goto(s, l)

Refuse(s) == LeaveLoop(s, "refuse")

FreeEntry(s) == ReleaseEntry(s, "freeing", "freed")

(* After a failed listen() the loop's condition is tested again.             *)
FreePort(s) ==
  /\ ReleasePort(s, "freed")
  /\ IF triesLeft[s] > 0
       THEN /\ triesLeft' = [triesLeft EXCEPT ![s] = @ - 1]
            /\ rnd' = [rnd EXCEPT ![s].now = clock]
            /\ Goto(s, "scan")
       ELSE Refuse(s)

CloseEntry(s) == ReleaseEntry(s, "closing", "closed")

ClosePort(s) ==
  /\ ReleasePort(s, "closed")
  /\ Goto(s, "idle")
  /\ UNCHANGED <<rnd, triesLeft>>

-----------------------------------------------------------------------------
(* listen() on the leased port: a success leaves the loop, and the test      *)
(* num_tries_left <= 0 after the loop decides whether it counts.             *)

ListenSucceeds(s) ==
  /\ pc[s] = "listen"
  /\ lease[s].port # 0
  /\ \A t \in Sessions \ {s} :
       listening[t] => lease[t].port # lease[s].port   \* EADDRINUSE otherwise
  /\ listening' = [listening EXCEPT ![s] = TRUE]
  /\ LeaveLoop(s, IF triesLeft[s] <= 0 THEN "refuse" ELSE "idle")
  /\ UNCHANGED <<portVars, clock, got, lease>>

(* The operating system may refuse any port: another program may use it.     *)

ListenFails(s) ==
  /\ pc[s] = "listen"
  /\ lease[s].port # 0
  /\ Goto(s, "freeing")
  /\ UNCHANGED <<portVars, clock, rnd, triesLeft, got, lease, listening>>

NoPort(s) ==
  /\ pc[s] = "listen"
  /\ lease[s].port = 0
  /\ Refuse(s)
  /\ UNCHANGED <<portVars, clock, got, lease, listening>>

(* The handler is called without an address: the client gets a 425.          *)

Refused(s) ==
  /\ pc[s] = "refuse"
  /\ Goto(s, "idle")
  /\ UNCHANGED <<portVars, clock, rnd, triesLeft, got, lease, listening>>

(* A data connection arrives: set_connected() clears connecting_ without the *)
(* mutex, and a few statements later the listen socket is destroyed.         *)

Accept(s) ==
  /\ pc[s] = "idle"
  /\ listening[s]
  /\ connecting' = IF lease[s].connected
                     THEN connecting
                     ELSE [connecting EXCEPT ![lease[s].port] = 0]
  /\ lease' = [lease EXCEPT ![s].connected = TRUE]
  /\ Goto(s, "accepted")
  /\ UNCHANGED <<mutex, entries, leases, expiry, clock, rnd, triesLeft, got,
                 listening>>

Unlisten(s) ==
  /\ pc[s] = "accepted"
  /\ listening' = [listening EXCEPT ![s] = FALSE]
  /\ Goto(s, "idle")
  /\ UNCHANGED <<portVars, clock, rnd, triesLeft, got, lease>>

(* PORT/EPRT destroys the listen socket and keeps the lease.                 *)

ActiveMode(s) ==
  /\ pc[s] = "idle"
  /\ listening[s]
  /\ listening' = [listening EXCEPT ![s] = FALSE]
  /\ UNCHANGED <<portVars, clock, pc, rnd, triesLeft, got, lease>>

(* close_data_connection(): the listen socket goes before the lease.         *)

Close(s) ==
  /\ pc[s] = "idle"
  /\ lease[s].port # 0
  /\ listening' = [listening EXCEPT ![s] = FALSE]
  /\ Goto(s, "closing")
  /\ UNCHANGED <<portVars, clock, rnd, triesLeft, got, lease>>

Tick ==
  /\ clock < MaxClock
  /\ clock' = clock + 1
  /\ UNCHANGED <<portVars, sessionVars>>

SessionStep(s) ==
  \/ Pasv(s) \/ TryPort(s) \/ GiveUp(s) \/ Decide(s)
  \/ AssignEntry(s) \/ AssignPort(s)
  \/ FreeEntry(s) \/ FreePort(s)
  \/ CloseEntry(s) \/ ClosePort(s)
  \/ ListenSucceeds(s) \/ ListenFails(s) \/ NoPort(s) \/ Refused(s)
  \/ Accept(s) \/ Unlisten(s) \/ ActiveMode(s) \/ Close(s)

Next == Tick \/ \E s \in Sessions : SessionStep(s)

Spec == Init /\ [][Next]_vars

-----------------------------------------------------------------------------
(* Properties *)

Randomizers == [first : Ports, prev : Ports \cup {0}, other : BOOLEAN,
                same : BOOLEAN, now : Nat]

(* Type invariant of the port tables and of the sessions' scan state.        *)
TypeOK ==
  /\ mutex \in [Ports -> Sessions \cup {NoSession}]
  /\ entries \in [Ports -> SUBSET Peers]
  /\ leases \in [Ports -> [Peers -> Nat]]
  /\ expiry \in [Ports -> [Peers -> Nat]]
  /\ connecting \in [Ports -> {0, 1}]
  /\ clock \in Nat
  /\ pc \in [Sessions -> PCs]
  /\ rnd \in [Sessions -> Randomizers]
  /\ triesLeft \in [Sessions -> Nat]
  /\ got \in [Sessions -> Ports \cup {0}]
  /\ lease \in [Sessions -> [port : Ports \cup {0}, connected : BOOLEAN]]
  /\ listening \in [Sessions -> BOOLEAN]

(* The session is about to decide on p, or has been granted p and not yet    *)
(* stored the lease.                                                         *)
Claims(s, p) == (pc[s] = "inside" /\ rnd[s].prev = p) \/ got[s] = p

(* The session stores a lease of p on which no connection arrived yet.       *)
Awaits(s, p) == lease[s].port = p /\ ~lease[s].connected

(* The purpose of connecting_[]: a port is in its listening stage for one    *)
(* session at a time, whatever the interleaving of the scans with            *)
(* set_connected() and the second half of release(), which take no mutex.    *)
ListeningStageExclusive ==
  \A p \in Ports : \A s, t \in Sessions :
    /\ Claims(s, p) => ~Awaits(t, p)
    /\ s # t => ~(Claims(s, p) /\ Claims(t, p))
    /\ s # t => ~(Awaits(s, p) /\ Awaits(t, p))

(* connecting_[p] is never left at 1 without a session that will reset it:   *)
(* a leaked flag would take the port out of the passive range for good.      *)
NoLeakedPort ==
  \A p \in Ports : connecting[p] = 1 =>
    \E s \in Sessions : Claims(s, p) \/ Awaits(s, p)

(* leases_ of an entry counts the leases that exist: too low and prune()     *)
(* forgets a port in use, too high and the port is never free again.         *)
LeasesCounted ==
  \A p \in Ports, q \in Peers :
    (IF q \in entries[p] THEN leases[p][q] ELSE 0) =
      Cardinality({s \in Sessions : PeerOf[s] = q /\ got[s] = p})
      + Cardinality({s \in Sessions : /\ PeerOf[s] = q
                                      /\ lease[s].port = p
                                      /\ pc[s] \notin {"assigned", "freed", "closed"}})

(* port_randomizer.hpp: a used port is handed out "provided said port is not *)
(* in the listening stage": no other session's listen socket is open on it.  *)
GrantedPortNotListening ==
  \A s, t \in Sessions :
    s # t /\ got[s] # 0 /\ listening[t] => lease[t].port # got[s]

(* "Could not open listen port for passive data connection": a PASV is       *)
(* refused only if no listen socket was opened for it.                       *)
RefusedOnlyIfNotListening ==
  \A s \in Sessions : pc[s] = "refuse" => ~listening[s]
================================================================================
