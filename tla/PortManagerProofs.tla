--------------------------- MODULE PortManagerProofs ---------------------------
(* The listening stage of a passive port, for any range of ports and any      *)
(* number of sessions: type correctness, mutual exclusion, no leak, and the   *)
(* count of leases.                                                          *)
EXTENDS PortScan, FiniteSetTheorems, TLAPS

(* What ties connecting_[p] to the sessions: it is 1 exactly while a session  *)
(* claims p or awaits a connection on it; got is set only while a lease is    *)
(* being assigned, and the session inside the critical section is scanning.   *)
HoldersMarked ==
  \A p \in Ports : \A s \in Sessions :
    Claims(s, p) \/ Awaits(s, p) => connecting[p] = 1

GotOnlyInAssign ==
  \A s \in Sessions : got[s] # 0 => pc[s] \in {"assign", "assigned"}

InsideHasPort == \A s \in Sessions : pc[s] = "inside" => rnd[s].prev \in Ports

IInv ==
  /\ TypeOK
  /\ HoldersMarked
  /\ GotOnlyInAssign
  /\ InsideHasPort
  /\ ListeningStageExclusive
  /\ NoLeakedPort

(* The normalised range is a non-empty interval of valid port numbers.        *)
LEMMA PortsValid == MinPort \in Nat /\ MaxPort \in Nat
<1>1. \A p \in Int : Clamp(p) \in Nat
  BY DEF Clamp
<1> QED
  BY <1>1, RangeAssumption DEF MinPort, MaxPort

(* The normalised range starts above 0, the value that means no port.       *)
LEMMA MinPortPositive == MinPort > 0
<1>1. \A p \in Int : Clamp(p) > 0
  BY DEF Clamp
<1> QED
  BY <1>1, RangeAssumption DEF MinPort

(* The normalised range is never empty, whatever was typed.                 *)
LEMMA RangeNonEmpty == MinPort <= MaxPort
<1>1. \A p, q \in Int : p <= q => Clamp(p) <= Clamp(q)
  BY DEF Clamp
<1>2. CASE ConfMin > ConfMax
  BY <1>1, <1>2, RangeAssumption DEF MinPort, MaxPort
<1>3. CASE ~(ConfMin > ConfMax)
  BY <1>1, <1>3, RangeAssumption DEF MinPort, MaxPort
<1> QED
  BY <1>2, <1>3, Zenon

(* No port of the range is taken for "no port".                             *)
LEMMA PortsNonZero == 0 \notin Ports
BY PortsValid, MinPortPositive DEF Ports

(* The first port of the range is one.                                      *)
LEMMA MinPortIsPort == MinPort \in Ports
BY PortsValid, RangeNonEmpty DEF Ports

(* A scan only looks at ports of the range.                                   *)
LEMMA NextPortInRange ==
  ASSUME NEW r, r.prev \in Ports \cup {0}, r.first \in Ports
  PROVE  NextPort(r) \in Ports
<1>1. ASSUME r.prev \in Ports, r.prev + 1 <= MaxPort
      PROVE  r.prev + 1 \in Ports
  BY <1>1, PortsValid DEF Ports
<1> QED
  BY <1>1, MinPortIsPort, PortsValid, PortsNonZero DEF NextPort, Ports

(* A relaxed randomizer still points into the range.                          *)
LEMMA RelaxType ==
  ASSUME NEW r \in Randomizers
  PROVE  Relax(r) \in Randomizers /\ Relax(r).prev \in Ports
<1>1. NextPort(r) \in Ports
  BY NextPortInRange DEF Randomizers
<1> QED
  BY <1>1 DEF Relax, Randomizers

(* A randomizer keeps its type when the scan advances.                      *)
LEMMA RandomizerUpdate ==
  ASSUME NEW r \in Randomizers, NEW p \in Ports, NEW n \in Nat
  PROVE  /\ [r EXCEPT !.prev = p] \in Randomizers
         /\ [r EXCEPT !.now = n] \in Randomizers
BY DEF Randomizers

(* The three facts about the holders of a port.                               *)
Held == HoldersMarked /\ ListeningStageExclusive /\ NoLeakedPort

(* A session holds a port while it claims it or awaits a connection on it.    *)
Holds(s, p) == Claims(s, p) \/ Awaits(s, p)

(* What no step may do to a session and a port: hold it twice.                *)
HeldOnce(s, p) == ~(Claims(s, p) /\ Awaits(s, p))

(* A step that changes no holder and no flag keeps them.                      *)
LEMMA HeldFrame ==
  ASSUME Held, connecting' = connecting,
         \A s \in Sessions, p \in Ports :
           (Holds(s, p)' <=> Holds(s, p)) /\ HeldOnce(s, p)'
  PROVE  Held'
BY DEF Held, HoldersMarked, ListeningStageExclusive, NoLeakedPort, Holds, HeldOnce

(* A step that drops the hold of s on p and clears the flag of p keeps them:  *)
(* s was the only holder.                                                     *)
LEMMA HeldDrop ==
  ASSUME Held, connecting \in [Ports -> {0, 1}],
         NEW p0 \in Ports, NEW s0 \in Sessions,
         Holds(s0, p0), ~Holds(s0, p0)',
         connecting' = [connecting EXCEPT ![p0] = 0],
         \A s \in Sessions, p \in Ports : HeldOnce(s, p)',
         \A s \in Sessions, p \in Ports :
           s # s0 \/ p # p0 => (Holds(s, p)' <=> Holds(s, p))
  PROVE  Held'
<1>1. \A s \in Sessions : s # s0 => ~Holds(s, p0)
  BY DEF Held, ListeningStageExclusive, Holds
<1>2. \A s \in Sessions : ~Holds(s, p0)'
  BY <1>1
<1>3. \A p \in Ports : p # p0 => connecting'[p] = connecting[p]
  OBVIOUS
<1>4. connecting'[p0] = 0
  OBVIOUS
<1>5. HoldersMarked'
  BY <1>2, <1>3 DEF Held, HoldersMarked, Holds
<1>6. ListeningStageExclusive'
  BY <1>2 DEF Held, ListeningStageExclusive, Holds, HeldOnce
<1>7. NoLeakedPort'
  BY <1>3, <1>4 DEF Held, NoLeakedPort, Holds
<1> QED
  BY <1>5, <1>6, <1>7 DEF Held

(* A step that makes s the holder of a port whose flag was 0 keeps them.      *)
LEMMA HeldTake ==
  ASSUME Held, connecting \in [Ports -> {0, 1}],
         NEW p0 \in Ports, NEW s0 \in Sessions,
         connecting[p0] = 0,
         connecting' = [connecting EXCEPT ![p0] = 1],
         Holds(s0, p0)',
         \A s \in Sessions, p \in Ports : HeldOnce(s, p)',
         \A s \in Sessions, p \in Ports :
           s # s0 \/ p # p0 => (Holds(s, p)' <=> Holds(s, p))
  PROVE  Held'
<1>1. \A s \in Sessions : ~Holds(s, p0)
  BY DEF Held, HoldersMarked, Holds
<1>2. \A p \in Ports : p # p0 => connecting'[p] = connecting[p]
  OBVIOUS
<1>3. connecting'[p0] = 1
  OBVIOUS
<1>4. HoldersMarked'
  BY <1>1, <1>2, <1>3 DEF Held, HoldersMarked, Holds
<1>5. ListeningStageExclusive'
  BY <1>1 DEF Held, ListeningStageExclusive, Holds, HeldOnce
<1>6. NoLeakedPort'
  BY <1>2 DEF Held, NoLeakedPort, Holds
<1> QED
  BY <1>4, <1>5, <1>6 DEF Held

(* The tables of a new process satisfy the invariant.                       *)
LEMMA InitIInv == Init => IInv
<1> SUFFICES ASSUME Init PROVE IInv
  OBVIOUS
<1> USE DEF Init
<1>1. TypeOK
  BY MinPortIsPort DEF TypeOK, PCs, NoLease, NoScan, Randomizers
<1>2. \A s \in Sessions, p \in Ports : ~Claims(s, p) /\ ~Awaits(s, p)
  BY PortsNonZero DEF Claims, Awaits, NoLease
<1>3. GotOnlyInAssign /\ InsideHasPort
  BY DEF GotOnlyInAssign, InsideHasPort
<1>4. HoldersMarked /\ ListeningStageExclusive /\ NoLeakedPort
  BY <1>2 DEF HoldersMarked, ListeningStageExclusive, NoLeakedPort
<1> QED
  BY <1>1, <1>3, <1>4 DEF IInv

(* Every step keeps the types of the tables and of the scans.               *)
LEMMA TypeStep ==
  ASSUME TypeOK, InsideHasPort, [Next]_vars
  PROVE  TypeOK'
<1> USE DEF TypeOK, PCs, Goto, portVars
<1>1. ASSUME NEW s \in Sessions, Pasv(s) PROVE TypeOK'
  BY <1>1, NumbersAssumption DEF Pasv, Randomizers
<1>2. ASSUME NEW s \in Sessions, TryPort(s) PROVE TypeOK'
  BY ZenonT(40), <1>2, RelaxType DEF TryPort
<1>3. ASSUME NEW s \in Sessions, GiveUp(s) PROVE TypeOK'
  <2>1. NextPort(rnd[s]) \in Ports
    BY NextPortInRange DEF Randomizers
  <2>2. [rnd[s] EXCEPT !.prev = NextPort(rnd[s])] \in Randomizers
    BY <2>1, RandomizerUpdate
  <2>3. rnd' = [rnd EXCEPT ![s] = [rnd[s] EXCEPT !.prev = NextPort(rnd[s])]]
    BY <1>3 DEF GiveUp
  <2>4. rnd' \in [Sessions -> Randomizers]
    BY <2>2, <2>3
  <2> QED
    BY <1>3, <2>4 DEF GiveUp
<1>4. ASSUME NEW s \in Sessions, Decide(s) PROVE TypeOK'
  <2> DEFINE p == rnd[s].prev
             q == PeerOf[s]
  <2>1. p \in Ports /\ q \in Peers
    BY <1>4, PeersAssumption DEF Decide, InsideHasPort
  <2>2. Pruned(rnd[s]) \subseteq Peers
    BY <2>1 DEF Pruned
  <2>3. mutex' \in [Ports -> Sessions \cup {NoSession}] /\ pc' \in [Sessions -> PCs]
    BY <1>4 DEF Decide
  <2>4. entries' \in [Ports -> SUBSET Peers]
    <3>1. \/ entries' = [entries EXCEPT ![p] = Pruned(rnd[s]) \cup {q}]
          \/ entries' = [entries EXCEPT ![p] = Pruned(rnd[s])]
      BY <1>4 DEF Decide
    <3>2. Pruned(rnd[s]) \cup {q} \in SUBSET Peers /\ Pruned(rnd[s]) \in SUBSET Peers
      BY <2>1, <2>2
    <3>3. CASE entries' = [entries EXCEPT ![p] = Pruned(rnd[s]) \cup {q}]
      BY <3>2, <3>3
    <3>4. CASE entries' = [entries EXCEPT ![p] = Pruned(rnd[s])]
      BY <3>2, <3>4
    <3> QED
      BY <3>1, <3>3, <3>4
  <2>5. leases' \in [Ports -> [Peers -> Nat]]
    <3>1. (IF q \in Pruned(rnd[s]) THEN leases[p][q] + 1 ELSE 1) \in Nat
      BY <2>1
    <3>2. leases[p] \in [Peers -> Nat]
      BY <2>1
    <3> DEFINE n == IF q \in Pruned(rnd[s]) THEN leases[p][q] + 1 ELSE 1
    <3>3. \/ leases' = [leases EXCEPT ![p] = [@ EXCEPT ![q] = n]]
          \/ leases' = leases
      BY <1>4 DEF Decide
    <3> HIDE DEF n
    <3>4. [leases[p] EXCEPT ![q] = n] \in [Peers -> Nat]
      BY <2>1, <3>1, <3>2 DEF n
    <3>5. CASE leases' = [leases EXCEPT ![p] = [@ EXCEPT ![q] = n]]
      BY <2>1, <3>4, <3>5
    <3> QED
      BY <3>3, <3>5
  <2>6. expiry' \in [Ports -> [Peers -> Nat]]
    <3>1. [t \in Peers |-> IF t \in Pruned(rnd[s]) THEN expiry[p][t] ELSE 0]
            \in [Peers -> Nat]
      BY <2>1
    <3> QED
      BY <1>4, <2>1, <3>1 DEF Decide
  <2>7. connecting' \in [Ports -> {0, 1}]
    BY <1>4, <2>1 DEF Decide
  <2>8. got' \in [Sessions -> Ports \cup {0}]
    BY <1>4, <2>1 DEF Decide
  <2>9. UNCHANGED <<clock, rnd, triesLeft, lease, listening>>
    BY <1>4 DEF Decide
  <2> QED
    BY <2>3, <2>4, <2>5, <2>6, <2>7, <2>8, <2>9
<1>5. ASSUME NEW s \in Sessions, NEW from, NEW to \in PCs, ReleaseEntry(s, from, to)
      PROVE  TypeOK'
  <2> DEFINE p == lease[s].port
             q == PeerOf[s]
  <2>1. q \in Peers
    BY PeersAssumption
  <2>2. CASE p # 0 /\ q \in entries[p] /\ leases[p][q] # 0
    <3>1. p \in Ports /\ leases[p] \in [Peers -> Nat] /\ expiry[p] \in [Peers -> Nat]
      BY <2>2
    <3>2. leases[p][q] - 1 \in Nat /\ clock + TimeWait \in Nat
      BY <2>1, <2>2, <3>1, NumbersAssumption
    <3>3. leases' = [leases EXCEPT ![p] = [@ EXCEPT ![q] = leases[p][q] - 1]]
      BY <1>5, <2>2 DEF ReleaseEntry
    <3>4. expiry' = [expiry EXCEPT ![p] = [@ EXCEPT ![q] = clock + TimeWait]]
      BY <1>5, <2>2 DEF ReleaseEntry
    <3>5. leases' \in [Ports -> [Peers -> Nat]]
      BY <2>1, <3>1, <3>2, <3>3
    <3>6. expiry' \in [Ports -> [Peers -> Nat]]
      BY <2>1, <3>1, <3>2, <3>4
    <3> QED
      BY <1>5, <3>5, <3>6 DEF ReleaseEntry
  <2>3. CASE ~(p # 0 /\ q \in entries[p] /\ leases[p][q] # 0)
    BY <1>5, <2>3 DEF ReleaseEntry
  <2> QED
    BY <2>2, <2>3
<1>6. ASSUME NEW s \in Sessions, AssignPort(s) PROVE TypeOK'
  BY <1>6 DEF AssignPort, ReleasePort
<1>7. ASSUME NEW s \in Sessions, FreePort(s) PROVE TypeOK'
  <2>1. /\ connecting' \in [Ports -> {0, 1}] /\ got' \in [Sessions -> Ports \cup {0}]
        /\ lease' \in [Sessions -> [port : Ports \cup {0}, connected : BOOLEAN]]
        /\ UNCHANGED <<mutex, entries, leases, expiry, clock, listening>>
    BY <1>7 DEF FreePort, ReleasePort
  <2>2. CASE triesLeft[s] > 0
    <3>1. rnd' = [rnd EXCEPT ![s] = [rnd[s] EXCEPT !.now = clock]]
      BY <1>7, <2>2 DEF FreePort
    <3>2. [rnd[s] EXCEPT !.now = clock] \in Randomizers
      <4>1. rnd[s] \in Randomizers /\ clock \in Nat
        OBVIOUS
      <4>2. \E p \in Ports : TRUE
        BY MinPortIsPort
      <4> QED
        BY <4>1, <4>2, RandomizerUpdate
    <3>3. rnd' \in [Sessions -> Randomizers]
      BY <3>1, <3>2
    <3>4. triesLeft[s] - 1 \in Nat
      BY <2>2
    <3>5. triesLeft' \in [Sessions -> Nat]
      BY <1>7, <2>2, <3>4 DEF FreePort
    <3>6. pc' \in [Sessions -> PCs]
      BY <1>7, <2>2 DEF FreePort
    <3> QED
      BY <2>1, <3>3, <3>5, <3>6
  <2>3. CASE ~(triesLeft[s] > 0)
    <3>1. NoScan \in Randomizers
      BY MinPortIsPort DEF NoScan, Randomizers
    <3>2. LeaveLoop(s, "refuse")
      BY <1>7, <2>3 DEF FreePort, Refuse
    <3>3. rnd' \in [Sessions -> Randomizers]
      BY <3>1, <3>2 DEF LeaveLoop
    <3>4. triesLeft' \in [Sessions -> Nat]
      BY <3>2 DEF LeaveLoop
    <3>5. pc' \in [Sessions -> PCs]
      BY <3>2 DEF LeaveLoop
    <3> QED
      BY <2>1, <3>3, <3>4, <3>5
  <2> QED
    BY <2>2, <2>3
<1>8. ASSUME NEW s \in Sessions, ClosePort(s) PROVE TypeOK'
  BY <1>8 DEF ClosePort, ReleasePort
<1>9. ASSUME NEW s \in Sessions, ListenSucceeds(s) PROVE TypeOK'
  BY <1>9, MinPortIsPort DEF ListenSucceeds, LeaveLoop, NoScan, Randomizers
<1>10. ASSUME NEW s \in Sessions, ListenFails(s) \/ Refused(s) \/ Unlisten(s)
                                  \/ ActiveMode(s) \/ Close(s)
       PROVE  TypeOK'
  BY <1>10 DEF ListenFails, Refused, Unlisten, ActiveMode, Close
<1>11. ASSUME NEW s \in Sessions, NoPort(s) PROVE TypeOK'
  BY <1>11, MinPortIsPort DEF NoPort, Refuse, LeaveLoop, NoScan, Randomizers
<1>12. ASSUME NEW s \in Sessions, Accept(s) PROVE TypeOK'
  BY ZenonT(40), <1>12 DEF Accept
<1>13. CASE Tick
  BY <1>13 DEF Tick, sessionVars
<1>14. CASE UNCHANGED vars
  BY <1>14 DEF vars, sessionVars
<1> QED
  BY <1>1, <1>2, <1>3, <1>4, <1>5, <1>6, <1>7, <1>8, <1>9, <1>10, <1>11,
     <1>12, <1>13, <1>14
     DEF Next, SessionStep, AssignEntry, FreeEntry, CloseEntry

(* Which program counter holds a port through got, and that the scan of the   *)
(* session inside the critical section points at a port.                      *)
LEMMA PcStep ==
  ASSUME TypeOK, GotOnlyInAssign, InsideHasPort, [Next]_vars
  PROVE  GotOnlyInAssign' /\ InsideHasPort'
<1> USE DEF GotOnlyInAssign, InsideHasPort, Goto, portVars
<1> DEFINE G == GotOnlyInAssign' /\ InsideHasPort'
<1> USE DEF TypeOK
<1>1. ASSUME NEW s \in Sessions, Pasv(s) PROVE G
  BY <1>1 DEF Pasv
<1>2. ASSUME NEW s \in Sessions, TryPort(s) PROVE G
  <2>1. Relax(rnd[s]).prev \in Ports
    BY RelaxType
  <2> QED
    BY <1>2, <2>1 DEF TryPort
<1>3. ASSUME NEW s \in Sessions, GiveUp(s) PROVE G
  BY <1>3 DEF GiveUp
<1>4. ASSUME NEW s \in Sessions, Decide(s) PROVE G
  BY <1>4 DEF Decide
<1>5. ASSUME NEW s \in Sessions, AssignEntry(s) \/ FreeEntry(s) \/ CloseEntry(s)
      PROVE  G
  BY <1>5 DEF AssignEntry, FreeEntry, CloseEntry, ReleaseEntry
<1>6. ASSUME NEW s \in Sessions, AssignPort(s) PROVE G
  BY <1>6 DEF AssignPort, ReleasePort
<1>7. ASSUME NEW s \in Sessions, FreePort(s) PROVE G
  BY <1>7 DEF FreePort, ReleasePort, Refuse, LeaveLoop
<1>8. ASSUME NEW s \in Sessions, ClosePort(s) PROVE G
  BY <1>8 DEF ClosePort, ReleasePort
<1>9. ASSUME NEW s \in Sessions, ListenSucceeds(s) \/ NoPort(s) PROVE G
  BY <1>9 DEF ListenSucceeds, NoPort, Refuse, LeaveLoop
<1>10. ASSUME NEW s \in Sessions, ListenFails(s) \/ Refused(s) \/ Unlisten(s)
                                  \/ ActiveMode(s) \/ Close(s) \/ Accept(s)
       PROVE  G
  BY <1>10 DEF ListenFails, Refused, Unlisten, ActiveMode, Close, Accept
<1>11. CASE Tick
  BY <1>11 DEF Tick, sessionVars
<1>12. CASE UNCHANGED vars
  BY <1>12 DEF vars, sessionVars
<1> QED
  BY <1>1, <1>2, <1>3, <1>4, <1>5, <1>6, <1>7, <1>8, <1>9, <1>10, <1>11, <1>12
     DEF Next, SessionStep

(* The heart of the argument: a scan takes a port only when its flag is 0,    *)
(* hence when nobody holds it, and whoever clears the flag is the only holder *)
(* and stops being one in the same step.                                      *)
LEMMA HeldStep ==
  ASSUME TypeOK, GotOnlyInAssign, InsideHasPort, Held, [Next]_vars
  PROVE  Held'
<1> USE DEF Goto, portVars
<1>a. \A s \in Sessions, p \in Ports : HeldOnce(s, p)
  BY DEF Held, ListeningStageExclusive, HeldOnce
<1>b. ASSUME NEW s \in Sessions, pc[s] \notin {"assign", "assigned"}
      PROVE  got[s] = 0
  BY <1>b DEF GotOnlyInAssign
<1>c. ASSUME connecting' = connecting, lease' = lease, got' = got,
             \A s \in Sessions : pc[s] = "inside" <=> pc'[s] = "inside",
             \A s \in Sessions : pc[s] = "inside" => rnd'[s] = rnd[s]
      PROVE  Held'
  <2>1. \A s \in Sessions, p \in Ports :
          (Holds(s, p)' <=> Holds(s, p)) /\ HeldOnce(s, p)'
    BY <1>a, <1>c DEF Holds, HeldOnce, Claims, Awaits
  <2> QED
    BY <1>c, <2>1, HeldFrame
<1> USE PortsNonZero DEF TypeOK
<1>1. ASSUME NEW s \in Sessions, Pasv(s) PROVE Held'
  BY <1>1, <1>c DEF Pasv
<1>2. ASSUME NEW s \in Sessions, TryPort(s) PROVE Held'
  <2>1. PICK p \in Ports : p = NextPort(rnd[s])
    BY NextPortInRange DEF Randomizers
  <2>2. rnd' = [rnd EXCEPT ![s] = Relax(rnd[s])] /\ Relax(rnd[s]).prev = p
    BY <1>2, <2>1, RelaxType DEF TryPort, Relax, Randomizers
  <2>3. CASE connecting[p] = 0
    <3>1. /\ pc[s] = "scan" /\ pc' = [pc EXCEPT ![s] = "inside"]
          /\ connecting' = [connecting EXCEPT ![p] = 1]
          /\ got' = got /\ lease' = lease
      BY <1>2, <2>1, <2>3 DEF TryPort
    <3>2. rnd'[s].prev = p /\ \A t \in Sessions : t # s => rnd'[t] = rnd[t]
      BY <2>2
    <3>3. Holds(s, p)'
      BY <3>1, <3>2 DEF Holds, Claims
    <3>4. \A t \in Sessions, o \in Ports :
            t # s \/ o # p => (Holds(t, o)' <=> Holds(t, o)) /\ HeldOnce(t, o)'
      BY <1>a, <3>1, <3>2 DEF Holds, HeldOnce, Claims, Awaits
    <3>5. HeldOnce(s, p)'
      BY <2>1, <2>3, <3>1 DEF HeldOnce, Awaits, Held, HoldersMarked
    <3> QED
      BY ZenonT(40), <2>1, <2>3, <3>1, <3>3, <3>4, <3>5, HeldTake
  <2>4. CASE connecting[p] # 0
    BY <1>2, <1>c, <2>1, <2>2, <2>4 DEF TryPort
  <2> QED
    BY <2>3, <2>4
<1>3. ASSUME NEW s \in Sessions, GiveUp(s) PROVE Held'
  <2>1. got' = got
    BY <1>3, <1>b DEF GiveUp
  <2> QED
    BY <1>3, <1>c, <2>1 DEF GiveUp
<1>4. ASSUME NEW s \in Sessions, Decide(s) PROVE Held'
  <2>1. PICK p \in Ports : p = rnd[s].prev /\ got[s] = 0 /\ pc[s] = "inside"
    BY <1>4, <1>b DEF Decide, InsideHasPort
  <2>2. CASE MayReuse(rnd[s], PeerOf[s])
    <3>1. /\ pc' = [pc EXCEPT ![s] = "assign"] /\ got' = [got EXCEPT ![s] = p]
          /\ connecting' = connecting /\ lease' = lease /\ rnd' = rnd
      BY <1>4, <2>1, <2>2 DEF Decide
    <3>2. \A t \in Sessions, o \in Ports :
            (Holds(t, o)' <=> Holds(t, o)) /\ HeldOnce(t, o)'
      BY <1>a, <2>1, <3>1 DEF Holds, HeldOnce, Claims, Awaits
    <3> QED
      BY <3>1, <3>2, HeldFrame
  <2>3. CASE ~MayReuse(rnd[s], PeerOf[s])
    <3>1. /\ pc' = [pc EXCEPT ![s] = "scan"] /\ got' = got
          /\ connecting' = [connecting EXCEPT ![p] = 0]
          /\ lease' = lease /\ rnd' = rnd
      BY <1>4, <2>1, <2>3 DEF Decide
    <3>2. Holds(s, p) /\ ~Holds(s, p)'
      BY <1>a, <2>1, <3>1 DEF Holds, HeldOnce, Claims, Awaits
    <3>3. \A t \in Sessions, o \in Ports : HeldOnce(t, o)'
      BY <1>a, <2>1, <3>1 DEF HeldOnce, Claims, Awaits
    <3>4. \A t \in Sessions, o \in Ports :
            t # s \/ o # p => (Holds(t, o)' <=> Holds(t, o))
      BY <2>1, <3>1 DEF Holds, Claims, Awaits
    <3> QED
      BY <2>1, <3>1, <3>2, <3>3, <3>4, HeldDrop
  <2> QED
    BY <2>2, <2>3
<1>5. ASSUME NEW s \in Sessions, AssignEntry(s) \/ FreeEntry(s) \/ CloseEntry(s)
      PROVE  Held'
  BY <1>5, <1>c DEF AssignEntry, FreeEntry, CloseEntry, ReleaseEntry
<1>6. ASSUME NEW s \in Sessions, AssignPort(s) \/ FreePort(s) \/ ClosePort(s)
      PROVE  Held'
  <2>a. PICK p \in Ports \cup {0}, n \in Ports \cup {0} :
          p = lease[s].port /\ n = got[s]
    OBVIOUS
  <2>1. PICK l \in {"assigned", "freed", "closed"} : ReleasePort(s, l)
    BY <1>6 DEF AssignPort, FreePort, ClosePort
  <2>2. \A t \in Sessions : t # s => pc'[t] = pc[t] /\ rnd'[t] = rnd[t]
    BY <1>6 DEF AssignPort, FreePort, ClosePort, Refuse, LeaveLoop
  <2>3. pc[s] # "inside" /\ pc'[s] # "inside"
    BY <1>6, <2>1 DEF AssignPort, FreePort, ClosePort, ReleasePort, Refuse, LeaveLoop
  <2>4. /\ lease' = [lease EXCEPT ![s] = [port |-> n, connected |-> FALSE]]
        /\ got' = [got EXCEPT ![s] = 0]
    BY <2>1, <2>a DEF ReleasePort
  <2>5. \A t \in Sessions, o \in Ports : HeldOnce(t, o)'
    BY <1>a, <2>a, <2>2, <2>3, <2>4 DEF HeldOnce, Claims, Awaits
  <2>6. \A t \in Sessions, o \in Ports : t # s => (Holds(t, o)' <=> Holds(t, o))
    BY <2>2, <2>4 DEF Holds, Claims, Awaits
  <2>7. \A o \in Ports : Holds(s, o)' <=> n = o
    BY <2>3, <2>4 DEF Holds, Claims, Awaits
  <2>8. CASE p # 0 /\ ~lease[s].connected
    <3>1. p \in Ports /\ connecting' = [connecting EXCEPT ![p] = 0]
      BY <2>1, <2>a, <2>8 DEF ReleasePort
    <3>2. n # p
      BY <1>a, <2>a, <2>8, <3>1 DEF HeldOnce, Claims, Awaits
    <3>3. Holds(s, p) /\ ~Holds(s, p)'
      BY <2>a, <2>7, <2>8, <3>1, <3>2 DEF Holds, Awaits
    <3>4. \A o \in Ports : o # p => (Holds(s, o)' <=> Holds(s, o))
      BY <2>a, <2>3, <2>7 DEF Holds, Claims, Awaits
    <3>5. \A t \in Sessions, o \in Ports :
            t # s \/ o # p => (Holds(t, o)' <=> Holds(t, o))
      BY <2>6, <3>4
    <3> QED
      BY <2>5, <3>1, <3>3, <3>5, HeldDrop
  <2>9. CASE ~(p # 0 /\ ~lease[s].connected)
    <3>1. connecting' = connecting
      BY <2>1, <2>a, <2>9 DEF ReleasePort
    <3>2. \A o \in Ports : Holds(s, o)' <=> Holds(s, o)
      BY <2>a, <2>3, <2>7, <2>9 DEF Holds, Claims, Awaits
    <3> QED
      BY <2>5, <2>6, <3>1, <3>2, HeldFrame
  <2> QED
    BY <2>8, <2>9
<1>7. ASSUME NEW s \in Sessions, ListenSucceeds(s) \/ NoPort(s) PROVE Held'
  BY <1>7, <1>c DEF ListenSucceeds, NoPort, Refuse, LeaveLoop
<1>8. ASSUME NEW s \in Sessions, ListenFails(s) \/ Refused(s) \/ Unlisten(s)
                                 \/ ActiveMode(s) \/ Close(s)
      PROVE  Held'
  BY <1>8, <1>c DEF ListenFails, Refused, Unlisten, ActiveMode, Close
<1>9. ASSUME NEW s \in Sessions, Accept(s) PROVE Held'
  <2>a. PICK p \in Ports \cup {0} : p = lease[s].port
    OBVIOUS
  <2>1. /\ pc[s] = "idle" /\ pc' = [pc EXCEPT ![s] = "accepted"]
        /\ lease' = [lease EXCEPT ![s].connected = TRUE]
        /\ got' = got /\ rnd' = rnd
    BY <1>9 DEF Accept
  <2>2. lease'[s].port = p /\ lease'[s].connected
    BY <2>a, <2>1
  <2>3. \A t \in Sessions : t # s => lease'[t] = lease[t]
    BY <2>a, <2>1
  <2>4. \A t \in Sessions, o \in Ports : HeldOnce(t, o)'
    BY <1>a, <2>1, <2>a, <2>2, <2>3 DEF HeldOnce, Claims, Awaits
  <2>5. \A t \in Sessions, o \in Ports :
          t # s \/ o # p => (Holds(t, o)' <=> Holds(t, o))
    BY <2>1, <2>a, <2>2, <2>3 DEF Holds, Claims, Awaits
  <2>6. CASE p # 0 /\ ~lease[s].connected
    <3>1. p \in Ports /\ connecting' = [connecting EXCEPT ![p] = 0]
      BY <1>9, <2>a, <2>6 DEF Accept
    <3>2. Holds(s, p)
      BY <2>a, <2>6, <3>1 DEF Holds, Awaits
    <3>3. ~Holds(s, p)'
      BY <1>b, <2>1, <2>a, <2>2, <3>1 DEF Holds, Claims, Awaits
    <3> QED
      BY <2>4, <2>5, <3>1, <3>2, <3>3, HeldDrop
  <2>7. CASE ~(p # 0 /\ ~lease[s].connected)
    <3>1. connecting' = connecting
      BY <1>9, <2>a, <2>7 DEF Accept
    <3>2. \A o \in Ports : Holds(s, o)' <=> Holds(s, o)
      BY <2>1, <2>a, <2>2, <2>7 DEF Holds, Claims, Awaits
    <3> QED
      BY <2>4, <2>5, <3>1, <3>2, HeldFrame
  <2> QED
    BY <2>6, <2>7
<1>10. CASE Tick
  BY <1>10, <1>c DEF Tick, sessionVars
<1>11. CASE UNCHANGED vars
  BY <1>11, <1>c DEF vars, sessionVars
<1> QED
  BY <1>1, <1>2, <1>3, <1>4, <1>5, <1>6, <1>7, <1>8, <1>9, <1>10, <1>11
     DEF Next, SessionStep

-----------------------------------------------------------------------------
(* Every port and every session keep their types: in particular the scan of   *)
(* do_get_port() never indexes the port tables outside the configured range.  *)
THEOREM TypeCorrect == Spec => []TypeOK
<1>1. Init => TypeOK /\ GotOnlyInAssign /\ InsideHasPort
  BY InitIInv DEF IInv
<1>2. /\ TypeOK /\ GotOnlyInAssign /\ InsideHasPort
      /\ [Next]_vars
      => (TypeOK /\ GotOnlyInAssign /\ InsideHasPort)'
  BY TypeStep, PcStep
<1> QED
  BY <1>1, <1>2, PTL DEF Spec

(* The invariant holds in every state of every behaviour.                   *)
LEMMA Inductive == Spec => []IInv
<1>1. Init => IInv
  BY InitIInv
<1>2. IInv /\ [Next]_vars => IInv'
  <2> SUFFICES ASSUME IInv, [Next]_vars PROVE IInv'
    OBVIOUS
  <2>1. Held'
    BY HeldStep DEF IInv, Held
  <2> QED
    BY <2>1, TypeStep, PcStep DEF IInv, Held
<1> QED
  BY <1>1, <1>2, PTL DEF Spec

(* A passive port is in its listening stage for at most one session at a      *)
(* time, for every range of ports and every set of sessions.                  *)
THEOREM ListeningStageIsExclusive == Spec => []ListeningStageExclusive
<1>1. IInv => ListeningStageExclusive
  BY DEF IInv
<1> QED
  BY <1>1, Inductive, PTL

(* No interleaving of scans, accepts and releases leaves connecting_[p] at 1  *)
(* with nobody to reset it.                                                   *)
THEOREM NoPortIsLeaked == Spec => []NoLeakedPort
<1>1. IInv => NoLeakedPort
  BY DEF IInv
<1> QED
  BY <1>1, Inductive, PTL

-----------------------------------------------------------------------------
(* The count of leases *)

(* Who is about to store a lease of p, and who has stored one that its entry  *)
(* still counts.                                                              *)
Getting(p, q) == {s \in Sessions : PeerOf[s] = q /\ got[s] = p}

Keeping(p, q) ==
  {s \in Sessions : /\ PeerOf[s] = q /\ lease[s].port = p
                    /\ pc[s] \notin {"assigned", "freed", "closed"}}

(* What the entry of q says.                                                  *)
Counted(p, q) == IF q \in entries[p] THEN leases[p][q] ELSE 0

Right(p, q) == Counted(p, q) = Cardinality(Getting(p, q)) + Cardinality(Keeping(p, q))

(* LeasesCounted says so of every port and peer.                              *)
LEMMA CountedIsRight == LeasesCounted <=> \A p \in Ports, q \in Peers : Right(p, q)
BY DEF LeasesCounted, Right, Counted, Getting, Keeping

(* There are finitely many of them.                                           *)
LEMMA FewSessions ==
  ASSUME NEW p, NEW q
  PROVE  /\ IsFiniteSet(Getting(p, q)) /\ Cardinality(Getting(p, q)) \in Nat
         /\ IsFiniteSet(Keeping(p, q)) /\ Cardinality(Keeping(p, q)) \in Nat
<1>1. Getting(p, q) \in SUBSET Sessions /\ Keeping(p, q) \in SUBSET Sessions
  BY DEF Getting, Keeping
<1>2. IsFiniteSet(Getting(p, q)) /\ IsFiniteSet(Keeping(p, q))
  BY <1>1, FiniteAssumption, FS_Subset
<1>3. QED
  BY <1>2, FS_CardinalityType

(* A set with one more member.                                                *)
LEMMA OneMore ==
  ASSUME NEW A, IsFiniteSet(A), NEW x, x \notin A
  PROVE  Cardinality(A \cup {x}) = Cardinality(A) + 1
BY FS_AddElement

(* A set with one less.                                                       *)
LEMMA OneLess ==
  ASSUME NEW A, IsFiniteSet(A), NEW x, x \in A
  PROVE  Cardinality(A \ {x}) = Cardinality(A) - 1
BY FS_RemoveElement

(* Nothing changes for an entry whose count and whose sessions stay.          *)
LEMMA RightKept ==
  ASSUME NEW p, NEW q, Right(p, q), Counted(p, q)' = Counted(p, q),
         Getting(p, q)' = Getting(p, q), Keeping(p, q)' = Keeping(p, q)
  PROVE  Right(p, q)'
BY DEF Right

(* A lease is granted.                                                        *)
LEMMA RightGranted ==
  ASSUME NEW p, NEW q, Right(p, q), NEW s, s \notin Getting(p, q),
         Counted(p, q)' = Counted(p, q) + 1,
         Getting(p, q)' = Getting(p, q) \cup {s}, Keeping(p, q)' = Keeping(p, q)
  PROVE  Right(p, q)'
<1>1. Cardinality(Getting(p, q)') = Cardinality(Getting(p, q)) + 1
  BY FewSessions, OneMore
<1>2. QED
  BY <1>1, FewSessions DEF Right

(* A lease is released.                                                       *)
LEMMA RightReleased ==
  ASSUME NEW p, NEW q, Right(p, q), NEW s, s \in Keeping(p, q),
         Counted(p, q)' = Counted(p, q) - 1,
         Getting(p, q)' = Getting(p, q), Keeping(p, q)' = Keeping(p, q) \ {s}
  PROVE  Right(p, q)'
<1>1. Cardinality(Keeping(p, q)') = Cardinality(Keeping(p, q)) - 1
  BY FewSessions, OneLess
<1>2. QED
  BY <1>1, FewSessions DEF Right

(* A lease is stored.                                                         *)
LEMMA RightStored ==
  ASSUME NEW p, NEW q, Right(p, q), NEW s, s \in Getting(p, q), s \notin Keeping(p, q),
         Counted(p, q)' = Counted(p, q),
         Getting(p, q)' = Getting(p, q) \ {s}, Keeping(p, q)' = Keeping(p, q) \cup {s}
  PROVE  Right(p, q)'
<1>1. Cardinality(Keeping(p, q)') = Cardinality(Keeping(p, q)) + 1
  BY FewSessions, OneMore
<1>2. Cardinality(Getting(p, q)') = Cardinality(Getting(p, q)) - 1
  BY FewSessions, OneLess
<1>3. QED
  BY <1>1, <1>2, FewSessions DEF Right

(* An entry of which somebody keeps a lease counts it.                        *)
LEMMA KeptIsCounted ==
  ASSUME NEW p, NEW q, Right(p, q), NEW s, s \in Keeping(p, q),
         leases[p][q] \in Nat
  PROVE  q \in entries[p] /\ leases[p][q] > 0
<1>1. Cardinality(Keeping(p, q)) # 0
  BY FewSessions, FS_EmptySet
<1>2. Counted(p, q) > 0
  BY <1>1, FewSessions DEF Right, Counted
<1>3. QED
  BY <1>2 DEF Counted

(* Granting counts one more, releasing one less, storing none, and an entry   *)
(* that is pruned counts none.                                                *)
LEMMA CountStep ==
  ASSUME TypeOK, GotOnlyInAssign, InsideHasPort, LeasesCounted, [Next]_vars
  PROVE  LeasesCounted'
<1> DEFINE Stored == {"assigned", "freed", "closed"}
<1>r. \A p \in Ports, q \in Peers : Right(p, q)
  BY CountedIsRight
<1>q. ASSUME \A p \in Ports, q \in Peers : Right(p, q)' PROVE LeasesCounted'
  BY <1>q DEF LeasesCounted, Right, Counted, Getting, Keeping
<1>n. 0 \notin Ports /\ PeerOf \in [Sessions -> Peers]
  BY PortsNonZero, PeersAssumption
<1>c. ASSUME entries' = entries, leases' = leases, got' = got,
             \A s \in Sessions : lease'[s].port = lease[s].port,
             \A s \in Sessions : pc'[s] \in Stored <=> pc[s] \in Stored
      PROVE  LeasesCounted'
  <2>1. ASSUME NEW p \in Ports, NEW q \in Peers PROVE Right(p, q)'
    <3>1. Counted(p, q)' = Counted(p, q) /\ Getting(p, q)' = Getting(p, q)
      BY <1>c DEF Counted, Getting
    <3>2. Keeping(p, q)' = Keeping(p, q)
      BY <1>c DEF Keeping
    <3>3. QED
      BY <1>r, <3>1, <3>2, RightKept
  <2>2. QED
    BY <1>q, <2>1
<1>g. \A s \in Sessions : pc[s] \notin {"assign", "assigned"} => got[s] = 0
  BY DEF GotOnlyInAssign
<1> USE DEF Goto, portVars, TypeOK
<1>1. ASSUME NEW s \in Sessions, Pasv(s) \/ TryPort(s) PROVE LeasesCounted'
  BY <1>1, <1>c DEF Pasv, TryPort
<1>2. ASSUME NEW s \in Sessions, GiveUp(s) PROVE LeasesCounted'
  <2>1. got' = got
    BY <1>2, <1>g DEF GiveUp
  <2>2. QED
    BY <1>2, <1>c, <2>1 DEF GiveUp
<1>3. ASSUME NEW s \in Sessions, Decide(s) PROVE LeasesCounted'
  <2> DEFINE r == rnd[s]
             p0 == r.prev
             q0 == PeerOf[s]
             left == Pruned(r)
             n == IF q0 \in left THEN leases[p0][q0] + 1 ELSE 1
  <2>1. /\ p0 \in Ports /\ q0 \in Peers /\ got[s] = 0 /\ pc[s] = "inside" /\ lease' = lease
        /\ left \subseteq entries[p0]
        /\ \A q \in entries[p0] : q \notin left => leases[p0][q] = 0
    BY <1>3, <1>g, <1>n DEF Decide, InsideHasPort, Pruned
  <2>2. \/ /\ entries' = [entries EXCEPT ![p0] = left \cup {q0}]
           /\ leases' = [leases EXCEPT ![p0][q0] = n]
           /\ got' = [got EXCEPT ![s] = p0] /\ pc' = [pc EXCEPT ![s] = "assign"]
        \/ /\ entries' = [entries EXCEPT ![p0] = left]
           /\ leases' = leases /\ got' = got /\ pc' = [pc EXCEPT ![s] = "scan"]
    BY <1>3 DEF Decide
  <2> HIDE DEF left, r
  <2>3. leases[p0] \in [Peers -> Nat] /\ p0 # 0
    BY <1>n, <2>1
  <2> HIDE DEF q0, p0
  <2>4. CASE /\ entries' = [entries EXCEPT ![p0] = left]
             /\ leases' = leases /\ got' = got /\ pc' = [pc EXCEPT ![s] = "scan"]
    <3>1. ASSUME NEW p \in Ports, NEW q \in Peers PROVE Right(p, q)'
      <4>1. Counted(p, q)' = Counted(p, q)
        BY <2>1, <2>4 DEF Counted
      <4>2. Getting(p, q)' = Getting(p, q)
        BY <2>4 DEF Getting
      <4>3. Keeping(p, q)' = Keeping(p, q)
        BY <2>1, <2>4 DEF Keeping
      <4>4. QED
        BY <1>r, <4>1, <4>2, <4>3, RightKept
    <3>2. QED
      BY <1>q, <3>1
  <2>5. CASE /\ entries' = [entries EXCEPT ![p0] = left \cup {q0}]
             /\ leases' = [leases EXCEPT ![p0][q0] = n]
             /\ got' = [got EXCEPT ![s] = p0] /\ pc' = [pc EXCEPT ![s] = "assign"]
    <3>1. /\ entries'[p0] = left \cup {q0} /\ leases'[p0][q0] = n
          /\ \A q \in Peers : q # q0 => leases'[p0][q] = leases[p0][q]
          /\ \A p \in Ports : p # p0 => entries'[p] = entries[p] /\ leases'[p] = leases[p]
      BY <2>1, <2>3, <2>5
    <3>2. got'[s] = p0 /\ \A t \in Sessions : t # s => got'[t] = got[t]
      BY <2>5
    <3>3. \A t \in Sessions : pc'[t] \in Stored <=> pc[t] \in Stored
      BY <2>1, <2>5
    <3>4. n = Counted(p0, q0) + 1
      BY <2>1, <2>3 DEF Counted
    <3> HIDE DEF n
    <3>5. ASSUME NEW p \in Ports, NEW q \in Peers PROVE Right(p, q)'
      <4>1. Keeping(p, q)' = Keeping(p, q)
        BY <2>1, <3>3 DEF Keeping
      <4>2. CASE p = p0 /\ q = q0
        <5>1. Counted(p, q)' = Counted(p, q) + 1
          BY <3>1, <3>4, <4>2 DEF Counted
        <5>2. Getting(p, q)' = Getting(p, q) \cup {s} /\ s \notin Getting(p, q)
          BY <2>1, <2>3, <3>2, <4>2 DEF Getting, q0
        <5>3. QED
          BY <1>r, <4>1, <5>1, <5>2, RightGranted
      <4>3. CASE ~(p = p0 /\ q = q0)
        <5>1. Counted(p, q)' = Counted(p, q)
          BY <2>1, <3>1, <4>3 DEF Counted
        <5>2. Getting(p, q)' = Getting(p, q)
          BY <1>n, <2>1, <2>3, <3>2, <4>3 DEF Getting, q0
        <5>3. QED
          BY <1>r, <4>1, <5>1, <5>2, RightKept
      <4>4. QED
        BY <4>2, <4>3
    <3>6. QED
      BY <1>q, <3>5
  <2>6. QED
    BY <2>2, <2>4, <2>5
<1>4. ASSUME NEW s \in Sessions, NEW from \in {"assign", "freeing", "closing"},
             NEW to \in Stored, ReleaseEntry(s, from, to)
      PROVE  LeasesCounted'
  <2> DEFINE p0 == lease[s].port
             q0 == PeerOf[s]
  <2>1. /\ pc[s] = from /\ pc' = [pc EXCEPT ![s] = to]
        /\ entries' = entries /\ got' = got /\ lease' = lease /\ q0 \in Peers
        /\ p0 \in Ports \cup {0}
    BY <1>4, <1>n DEF ReleaseEntry
  <2>2. IF p0 # 0 /\ q0 \in entries[p0] /\ leases[p0][q0] # 0
        THEN leases' = [leases EXCEPT ![p0][q0] = leases[p0][q0] - 1] ELSE leases' = leases
    BY <1>4 DEF ReleaseEntry
  <2>3. pc[s] \notin Stored /\ pc'[s] \in Stored /\ \A t \in Sessions : t # s => pc'[t] = pc[t]
    BY <1>4, <2>1
  <2>4. \A p \in Ports, q \in Peers :
          /\ Getting(p, q)' = Getting(p, q)
          /\ Keeping(p, q)' = IF p = p0 /\ q = q0 THEN Keeping(p, q) \ {s} ELSE Keeping(p, q)
    BY <2>1, <2>3 DEF Getting, Keeping
  <2>5. CASE p0 = 0
    <3>1. ASSUME NEW p \in Ports, NEW q \in Peers PROVE Right(p, q)'
      <4>1. Keeping(p, q)' = Keeping(p, q) /\ Counted(p, q)' = Counted(p, q)
        BY <1>n, <2>1, <2>2, <2>4, <2>5 DEF Counted
      <4>2. QED
        BY <1>r, <2>4, <4>1, RightKept
    <3>2. QED
      BY <1>q, <3>1
  <2>6. CASE p0 # 0
    <3>1. s \in Keeping(p0, q0) /\ p0 \in Ports
      BY <2>1, <2>3, <2>6 DEF Keeping
    <3>2. leases[p0] \in [Peers -> Nat]
      BY <3>1
    <3>3. q0 \in entries[p0] /\ leases[p0][q0] > 0 /\ leases[p0][q0] \in Nat
      BY <1>r, <2>1, <3>1, <3>2, KeptIsCounted
    <3>4. leases' = [leases EXCEPT ![p0][q0] = leases[p0][q0] - 1]
      BY <2>2, <2>6, <3>3
    <3> HIDE DEF p0, q0
    <3>5. /\ leases'[p0][q0] = leases[p0][q0] - 1
          /\ \A q \in Peers : q # q0 => leases'[p0][q] = leases[p0][q]
          /\ \A p \in Ports : p # p0 => leases'[p] = leases[p]
      BY <2>1, <3>1, <3>2, <3>4
    <3>6. ASSUME NEW p \in Ports, NEW q \in Peers PROVE Right(p, q)'
      <4>1. CASE p = p0 /\ q = q0
        <5>1. Counted(p, q)' = Counted(p, q) - 1
          BY <2>1, <3>3, <3>5, <4>1 DEF Counted
        <5>2. QED
          BY <1>r, <2>4, <3>1, <4>1, <5>1, RightReleased
      <4>2. CASE ~(p = p0 /\ q = q0)
        <5>1. Counted(p, q)' = Counted(p, q)
          BY <2>1, <3>5, <4>2 DEF Counted
        <5>2. QED
          BY <1>r, <2>4, <4>2, <5>1, RightKept
      <4>3. QED
        BY <4>1, <4>2
    <3>7. QED
      BY <1>q, <3>6
  <2>7. QED
    BY <2>5, <2>6
<1>5. ASSUME NEW s \in Sessions, AssignPort(s) \/ FreePort(s) \/ ClosePort(s)
      PROVE  LeasesCounted'
  <2> DEFINE n == got[s]
             q0 == PeerOf[s]
  <2>1. PICK l \in Stored : ReleasePort(s, l)
    BY <1>5 DEF AssignPort, FreePort, ClosePort
  <2>2. /\ pc'[s] \notin Stored
        /\ \A t \in Sessions : t # s => pc'[t] = pc[t]
    BY <1>5 DEF AssignPort, FreePort, ClosePort, Refuse, LeaveLoop
  <2>3. /\ pc[s] \in Stored /\ entries' = entries /\ leases' = leases
        /\ lease' = [lease EXCEPT ![s] = [port |-> n, connected |-> FALSE]]
        /\ got' = [got EXCEPT ![s] = 0] /\ n \in Ports \cup {0} /\ q0 \in Peers
    BY <1>n, <2>1 DEF ReleasePort
  <2>4. /\ got'[s] = 0 /\ lease'[s].port = n
        /\ \A t \in Sessions : t # s => got'[t] = got[t] /\ lease'[t] = lease[t]
    BY <2>3
  <2>5. ASSUME NEW p \in Ports, NEW q \in Peers PROVE Right(p, q)'
    <3>1. Counted(p, q)' = Counted(p, q) /\ p # 0 /\ s \notin Keeping(p, q)
      BY <1>n, <2>3 DEF Counted, Keeping
    <3>2. CASE p = n /\ q = q0
      <4>1. s \in Getting(p, q) /\ Getting(p, q)' = Getting(p, q) \ {s}
        BY <2>4, <3>1, <3>2 DEF Getting
      <4>2. Keeping(p, q)' = Keeping(p, q) \cup {s}
        BY <2>2, <2>4, <3>2 DEF Keeping
      <4>3. QED
        BY <1>r, <3>1, <4>1, <4>2, RightStored
    <3>3. CASE ~(p = n /\ q = q0)
      <4>1. Getting(p, q)' = Getting(p, q)
        BY <2>4, <3>1, <3>3 DEF Getting
      <4>2. Keeping(p, q)' = Keeping(p, q)
        BY <2>2, <2>3, <2>4, <3>3 DEF Keeping
      <4>3. QED
        BY <1>r, <3>1, <4>1, <4>2, RightKept
    <3>4. QED
      BY <3>2, <3>3
  <2>6. QED
    BY <1>q, <2>5
<1>6. ASSUME NEW s \in Sessions, ListenSucceeds(s) \/ NoPort(s) PROVE LeasesCounted'
  BY <1>6, <1>c DEF ListenSucceeds, NoPort, Refuse, LeaveLoop
<1>7. ASSUME NEW s \in Sessions, ListenFails(s) \/ Refused(s) \/ Unlisten(s)
                                 \/ ActiveMode(s) \/ Close(s)
      PROVE  LeasesCounted'
  BY <1>7, <1>c DEF ListenFails, Refused, Unlisten, ActiveMode, Close
<1>8. ASSUME NEW s \in Sessions, Accept(s) PROVE LeasesCounted'
  <2>1. \A t \in Sessions : lease'[t].port = lease[t].port
    BY <1>8 DEF Accept
  <2>2. QED
    BY <1>8, <1>c, <2>1 DEF Accept
<1>9. CASE Tick
  BY <1>9, <1>c DEF Tick, sessionVars
<1>10. CASE UNCHANGED vars
  BY <1>10, <1>c DEF vars, sessionVars
<1>11. QED
  BY <1>1, <1>2, <1>3, <1>4, <1>5, <1>6, <1>7, <1>8, <1>9, <1>10
     DEF Next, SessionStep, AssignEntry, FreeEntry, CloseEntry

(* Nobody has a lease at first.                                               *)
LEMMA InitCounted == Init => LeasesCounted
<1> SUFFICES ASSUME Init PROVE LeasesCounted
  OBVIOUS
<1>1. ASSUME NEW p \in Ports, NEW q \in Peers PROVE Right(p, q)
  <2>1. Counted(p, q) = 0 /\ p # 0
    BY PortsNonZero DEF Init, Counted
  <2>2. Getting(p, q) = {} /\ Keeping(p, q) = {}
    BY <2>1 DEF Init, NoLease, Getting, Keeping
  <2>3. QED
    BY <2>1, <2>2, FS_EmptySet DEF Right
<1>2. QED
  BY <1>1, CountedIsRight

(* leases_ counts the leases that exist, for any range of ports and any       *)
(* finite number of sessions, though each is counted under the mutex, stored  *)
(* after it, and released in two steps (port_randomizer.cpp:76-112).          *)
THEOREM LeasesAreCounted == Spec => []LeasesCounted
<1>1. Init => LeasesCounted
  BY InitCounted
<1>2. IInv /\ LeasesCounted /\ [Next]_vars => LeasesCounted'
  BY CountStep DEF IInv
<1>3. QED
  BY <1>1, <1>2, Inductive, PTL DEF Spec

-----------------------------------------------------------------------------
(* What a scan promises *)

(* The ports a scan has looked at since it began, or since a wraparound.      *)
Seen(r) ==
  IF r.prev = 0 THEN {}
  ELSE IF r.first <= r.prev THEN r.first..r.prev
  ELSE (r.first..MaxPort) \cup (MinPort..r.prev)

(* The requirements are relaxed in order.                                     *)
InOrder == \A s \in Sessions : rnd[s].same => rnd[s].other

(* While the scan is strict no port it has seen stayed free, but for the one  *)
(* it is about to decide on; from the first wraparound on, none did.          *)
NoneMissed ==
  \A s \in Sessions :
    /\ stayedFree[s] \subseteq FreePorts(s)
    /\ ~rnd[s].other => \A p \in stayedFree[s] \cap Seen(rnd[s]) : pc[s] = "inside" /\ rnd[s].prev = p
    /\ rnd[s].other => stayedFree[s] = {}

(* A port that a strict scan was granted is nobody's.                         *)
FreshIsUnused ==
  \A s \in Sessions :
    pc[s] = "assign" /\ got[s] # 0 /\ ~rnd[s].other => \A q \in Peers : Keeping(got[s], q) = {}

(* The same of giving up: no port that a scan saw since it took whatever it   *)
(* could get stayed out of the listening stage.                               *)
NoneQuiet ==
  \A s \in Sessions :
    /\ stayedQuiet[s] \subseteq QuietPorts(s)
    /\ rnd[s].same => \A p \in stayedQuiet[s] \cap Seen(rnd[s]) : pc[s] = "inside" /\ rnd[s].prev = p
    /\ pc[s] = "assign" /\ got[s] = 0 => stayedQuiet[s] = {}

ScanInv == InOrder /\ NoneMissed /\ FreshIsUnused /\ NoneQuiet

(* A port of the range is between its ends.                                   *)
LEMMA PortsAre == MinPort \in Nat /\ MaxPort \in Nat /\ Ports = MinPort..MaxPort /\ MinPort > 0
BY PortsValid, MinPortPositive DEF Ports

(* A scan that has wrapped around has seen every port.                        *)
LEMMA SeenAll == ASSUME NEW r \in Randomizers, Wrapped(r) PROVE Seen(r) = Ports
<1>1. r.first \in Ports /\ r.prev \in Ports /\ r.prev # 0
  BY DEF Randomizers, Wrapped
<1> DEFINE f == r.first
           v == r.prev
<1>2. f = (IF v + 1 > MaxPort THEN MinPort ELSE v + 1)
  BY DEF Wrapped, NextPort
<1>3. Seen(r) = IF f <= v THEN f..v ELSE (f..MaxPort) \cup (MinPort..v)
  BY <1>1 DEF Seen
<1>4. f \in MinPort..MaxPort /\ v \in MinPort..MaxPort
  BY <1>1, PortsAre
<1> HIDE DEF f, v
<1>5. CASE v + 1 > MaxPort
  <2>1. v = MaxPort /\ f = MinPort /\ f <= v
    BY <1>2, <1>4, <1>5, PortsAre
  <2>2. QED
    BY <1>3, <2>1, PortsAre
<1>6. CASE ~(v + 1 > MaxPort)
  <2>1. f = v + 1 /\ ~(f <= v)
    BY <1>2, <1>4, <1>6, PortsAre
  <2>2. (f..MaxPort) \cup (MinPort..v) = MinPort..MaxPort
    BY <1>4, <2>1, PortsAre
  <2>3. QED
    BY <1>3, <2>1, <2>2, PortsAre
<1>7. QED
  BY <1>5, <1>6

(* And otherwise one port more than before.                                   *)
LEMMA SeenMore ==
  ASSUME NEW r \in Randomizers, ~Wrapped(r)
  PROVE  Seen(Relax(r)) = Seen(r) \cup {NextPort(r)}
<1>1. r.first \in Ports /\ r.prev \in Ports \cup {0}
  BY DEF Randomizers
<1> DEFINE f == r.first
           v == r.prev
           n == NextPort(r)
           w == Relax(r)
<1>2. w.first = f /\ w.prev = n /\ n \in Ports
  BY <1>1, NextPortInRange DEF Relax, Randomizers
<1>3. /\ n = IF v = 0 THEN f ELSE IF v + 1 > MaxPort THEN MinPort ELSE v + 1
      /\ v # 0 => n # f
  BY DEF NextPort, Wrapped
<1>4. Seen(r) = IF v = 0 THEN {} ELSE IF f <= v THEN f..v ELSE (f..MaxPort) \cup (MinPort..v)
  BY DEF Seen
<1>5. Seen(w) = IF n = 0 THEN {} ELSE IF f <= n THEN f..n ELSE (f..MaxPort) \cup (MinPort..n)
  BY <1>2 DEF Seen
<1>6. /\ f \in MinPort..MaxPort /\ n \in MinPort..MaxPort /\ n # 0
      /\ v = 0 \/ v \in MinPort..MaxPort
  BY <1>1, <1>2, PortsAre
<1> HIDE DEF f, v, n, w
<1>7. Seen(w) = Seen(r) \cup {n}
  <2>1. CASE v = 0
    BY <1>3, <1>4, <1>5, <1>6, <2>1, PortsAre
  <2>2. CASE v # 0 /\ v + 1 > MaxPort
    BY <1>3, <1>4, <1>5, <1>6, <2>2, PortsAre
  <2>3. CASE v # 0 /\ ~(v + 1 > MaxPort)
    BY <1>3, <1>4, <1>5, <1>6, <2>3, PortsAre
  <2>4. QED
    BY <2>1, <2>2, <2>3
<1>8. QED
  BY <1>7 DEF n, w

(* What a step does to the scan of a session, other than to look at a port:   *)
(* it leaves it, or there is none afterwards, or a new one.                   *)
Rests(s) ==
  /\ rnd'[s].first = rnd[s].first /\ rnd'[s].prev = rnd[s].prev
  /\ rnd'[s].other = rnd[s].other /\ rnd'[s].same = rnd[s].same
  /\ pc[s] = "inside" => pc'[s] = "inside"
  /\ ~ScanBegins(s)
  /\ pc'[s] = "assign" => pc[s] = "assign" /\ got'[s] = got[s]

Starts(s) ==
  rnd'[s].prev = 0 /\ ~rnd'[s].other /\ ~rnd'[s].same /\ pc'[s] # "assign"

(* A session does nothing to the scan of another one.                         *)
LEMMA OthersRest ==
  ASSUME TypeOK, NEW s \in Sessions, SessionStep(s)
  PROVE  \A t \in Sessions : t # s => /\ pc'[t] = pc[t] /\ rnd'[t] = rnd[t]
                                      /\ got'[t] = got[t] /\ lease'[t] = lease[t]
<1> USE DEF TypeOK, Goto, portVars
<1>1. CASE Pasv(s) \/ TryPort(s) \/ GiveUp(s)
  BY <1>1 DEF Pasv, TryPort, GiveUp
<1>2. CASE Decide(s)
  BY <1>2 DEF Decide
<1>3. CASE AssignEntry(s) \/ FreeEntry(s) \/ CloseEntry(s)
  BY <1>3 DEF AssignEntry, FreeEntry, CloseEntry, ReleaseEntry
<1>4. CASE AssignPort(s) \/ ClosePort(s)
  BY <1>4 DEF AssignPort, ClosePort, ReleasePort
<1>5. CASE FreePort(s)
  BY <1>5 DEF FreePort, ReleasePort, Refuse, LeaveLoop
<1>6. CASE ListenSucceeds(s) \/ NoPort(s)
  BY <1>6 DEF ListenSucceeds, NoPort, Refuse, LeaveLoop
<1>7. CASE ListenFails(s) \/ Refused(s) \/ Unlisten(s) \/ ActiveMode(s) \/ Close(s)
  BY <1>7 DEF ListenFails, Refused, Unlisten, ActiveMode, Close
<1>8. CASE Accept(s)
  BY <1>8 DEF Accept
<1>9. QED
  BY <1>1, <1>2, <1>3, <1>4, <1>5, <1>6, <1>7, <1>8 DEF SessionStep

(* What can happen to a scan.                                                 *)
LEMMA ScanSteps ==
  ASSUME TypeOK, [Next]_vars, NEW s \in Sessions
  PROVE  Rests(s) \/ Starts(s) \/ TryPort(s) \/ Decide(s) \/ GiveUp(s)
<1> USE DEF TypeOK, Goto, portVars
<1>1. ASSUME NEW t \in Sessions, SessionStep(t), t # s PROVE Rests(s)
  BY <1>1, OthersRest DEF Rests, ScanBegins
<1>2. CASE Tick \/ UNCHANGED vars
  BY <1>2 DEF Tick, vars, sessionVars, Rests, ScanBegins
<1>3. CASE Pasv(s)
  <2>1. PICK f \in Ports :
          rnd' = [rnd EXCEPT ![s] = [first |-> f, prev |-> 0, other |-> FALSE,
                                     same |-> FALSE, now |-> clock]]
    BY <1>3 DEF Pasv
  <2>2. QED
    BY <1>3, <2>1 DEF Pasv, Starts
<1>4. CASE AssignEntry(s) \/ FreeEntry(s) \/ CloseEntry(s)
  BY <1>4 DEF AssignEntry, FreeEntry, CloseEntry, ReleaseEntry, Rests, ScanBegins
<1>5. CASE AssignPort(s) \/ ClosePort(s)
  BY <1>5 DEF AssignPort, ClosePort, ReleasePort, Rests, ScanBegins
<1>6. CASE FreePort(s)
  <2>1. CASE triesLeft[s] > 0
    <3>1. rnd' = [rnd EXCEPT ![s] = [rnd[s] EXCEPT !.now = clock]]
      BY <1>6, <2>1 DEF FreePort
    <3>2. /\ rnd'[s].first = rnd[s].first /\ rnd'[s].prev = rnd[s].prev
          /\ rnd'[s].other = rnd[s].other /\ rnd'[s].same = rnd[s].same
      BY <3>1 DEF Randomizers
    <3>3. pc[s] = "freed" /\ pc'[s] = "scan"
      BY <1>6, <2>1 DEF FreePort, ReleasePort
    <3>4. QED
      BY <3>2, <3>3 DEF Rests, ScanBegins
  <2>2. CASE ~(triesLeft[s] > 0)
    BY <1>6, <2>2 DEF FreePort, Refuse, LeaveLoop, NoScan, Starts
  <2>3. QED
    BY <2>1, <2>2
<1>7. CASE ListenSucceeds(s) \/ NoPort(s)
  BY <1>7 DEF ListenSucceeds, NoPort, Refuse, LeaveLoop, NoScan, Starts
<1>8. CASE ListenFails(s) \/ Refused(s) \/ Unlisten(s) \/ ActiveMode(s) \/ Close(s)
  BY <1>8 DEF ListenFails, Refused, Unlisten, ActiveMode, Close, Rests, ScanBegins
<1>9. CASE Accept(s)
  BY <1>9 DEF Accept, Rests, ScanBegins
<1>10. QED
  BY <1>1, <1>2, <1>3, <1>4, <1>5, <1>6, <1>7, <1>8, <1>9 DEF Next, SessionStep

(* A session keeps a lease that it kept before or was about to store.         *)
LEMMA KeepingGrows ==
  ASSUME TypeOK, [Next]_vars, NEW p \in Ports, NEW q, NEW s \in Sessions, s \in Keeping(p, q)'
  PROVE  s \in Keeping(p, q) \/ (got[s] = p /\ pc[s] # "assign")
<1> USE DEF TypeOK, Goto, portVars
<1>1. PeerOf[s] = q /\ lease'[s].port = p /\ pc'[s] \notin {"assigned", "freed", "closed"}
  BY DEF Keeping
<1>2. ASSUME lease'[s].port = lease[s].port, pc[s] \notin {"assigned", "freed", "closed"}
      PROVE  s \in Keeping(p, q)
  BY <1>1, <1>2 DEF Keeping
<1>3. ASSUME NEW t \in Sessions, SessionStep(t), t # s PROVE s \in Keeping(p, q)
  BY <1>1, <1>3, OthersRest DEF Keeping
<1>4. CASE Tick \/ UNCHANGED vars
  BY <1>1, <1>4 DEF Tick, vars, sessionVars, Keeping
<1>5. CASE Pasv(s) \/ TryPort(s) \/ GiveUp(s)
  BY <1>2, <1>5 DEF Pasv, TryPort, GiveUp
<1>6. CASE Decide(s)
  BY <1>2, <1>6 DEF Decide
<1>7. CASE AssignEntry(s) \/ FreeEntry(s) \/ CloseEntry(s)
  BY <1>1, <1>2, <1>7 DEF AssignEntry, FreeEntry, CloseEntry, ReleaseEntry
<1>8. CASE AssignPort(s) \/ FreePort(s) \/ ClosePort(s)
  <2>1. PICK l \in {"assigned", "freed", "closed"} : ReleasePort(s, l)
    BY <1>8 DEF AssignPort, FreePort, ClosePort
  <2>2. lease'[s].port = got[s] /\ pc[s] = l
    BY <2>1 DEF ReleasePort
  <2>3. QED
    BY <1>1, <2>2
<1>9. CASE ListenSucceeds(s) \/ NoPort(s)
  BY <1>2, <1>9 DEF ListenSucceeds, NoPort, Refuse, LeaveLoop
<1>10. CASE ListenFails(s) \/ Refused(s) \/ Unlisten(s) \/ ActiveMode(s) \/ Close(s)
  BY <1>2, <1>10 DEF ListenFails, Refused, Unlisten, ActiveMode, Close
<1>11. CASE Accept(s)
  <2>1. lease'[s].port = lease[s].port
    BY <1>11 DEF Accept
  <2>2. QED
    BY <1>2, <1>11, <2>1 DEF Accept
<1>12. QED
  BY <1>3, <1>4, <1>5, <1>6, <1>7, <1>8, <1>9, <1>10, <1>11 DEF Next, SessionStep

(* The history forgets ports, and only a new scan makes it begin again.       *)
LEMMA HistoryShrinks ==
  ASSUME ScanNext, NEW s \in Sessions
  PROVE  /\ stayedFree'[s] \subseteq FreePorts(s)'
         /\ stayedQuiet'[s] \subseteq QuietPorts(s)'
         /\ ScanBegins(s) \/ (/\ stayedFree'[s] \subseteq stayedFree[s]
                              /\ stayedQuiet'[s] \subseteq stayedQuiet[s])
<1>1. /\ stayedFree'[s] = IF pc'[s] = "idle" THEN {}
                          ELSE FreePorts(s)'
                                 \cap (IF ScanBegins(s) THEN Ports ELSE stayedFree[s])
      /\ stayedQuiet'[s] = IF pc'[s] = "idle" THEN {}
                           ELSE QuietPorts(s)'
                                  \cap (IF ScanBegins(s) THEN Ports ELSE stayedQuiet[s])
  BY DEF ScanNext
<1>2. QED
  BY <1>1

(* The scan of one session keeps the promise.                                 *)
ScanOf(s) ==
  /\ rnd[s].same => rnd[s].other
  /\ stayedFree[s] \subseteq FreePorts(s)
  /\ ~rnd[s].other => \A p \in stayedFree[s] \cap Seen(rnd[s]) : pc[s] = "inside" /\ rnd[s].prev = p
  /\ rnd[s].other => stayedFree[s] = {}
  /\ pc[s] = "assign" /\ got[s] # 0 /\ ~rnd[s].other => \A q \in Peers : Keeping(got[s], q) = {}
  /\ stayedQuiet[s] \subseteq QuietPorts(s)
  /\ rnd[s].same => \A p \in stayedQuiet[s] \cap Seen(rnd[s]) : pc[s] = "inside" /\ rnd[s].prev = p
  /\ pc[s] = "assign" /\ got[s] = 0 => stayedQuiet[s] = {}

(* The invariant is that of every session.                                    *)
LEMMA ScanOfEach == ScanInv <=> \A s \in Sessions : ScanOf(s)
BY DEF ScanInv, InOrder, NoneMissed, FreshIsUnused, NoneQuiet, ScanOf

(* A port that nobody keeps stays so while a session claims it.               *)
LEMMA StaysUnused ==
  ASSUME IInv, [Next]_vars, NEW s \in Sessions, NEW p \in Ports, NEW q, Claims(s, p),
         pc[s] # "assign" => got[s] # p, Keeping(p, q) = {}
  PROVE  Keeping(p, q)' = {}
<1>1. SUFFICES ASSUME NEW t \in Sessions, t \in Keeping(p, q)' PROVE FALSE
  BY DEF Keeping
<1>2. got[t] = p /\ pc[t] # "assign"
  BY <1>1, KeepingGrows DEF IInv
<1>3. t # s /\ Claims(t, p)
  BY <1>2 DEF Claims
<1>4. QED
  BY <1>3 DEF IInv, ListeningStageExclusive

(* Nothing is promised of a scan that begins.                                 *)
LEMMA StartsKeeps ==
  ASSUME ScanNext, NEW s \in Sessions, Starts(s) PROVE ScanOf(s)'
<1>1. Seen(rnd[s])' = {}
  BY DEF Starts, Seen
<1>2. QED
  BY <1>1, HistoryShrinks DEF Starts, ScanOf

(* A session that does not look at a port keeps what its scan has shown.      *)
LEMMA RestsKeeps ==
  ASSUME IInv, NEW s \in Sessions, ScanOf(s), ScanNext, Rests(s) PROVE ScanOf(s)'
<1>1. Seen(rnd[s])' = Seen(rnd[s])
  BY DEF Rests, Seen
<1>2. /\ stayedFree'[s] \subseteq FreePorts(s)' /\ stayedQuiet'[s] \subseteq QuietPorts(s)'
      /\ stayedFree'[s] \subseteq stayedFree[s] /\ stayedQuiet'[s] \subseteq stayedQuiet[s]
  BY HistoryShrinks DEF Rests
<1>3. /\ rnd'[s].same => rnd'[s].other
      /\ rnd'[s].other => stayedFree'[s] = {}
      /\ pc'[s] = "assign" /\ got'[s] = 0 => stayedQuiet'[s] = {}
  BY <1>2 DEF Rests, ScanOf
<1>4. ~rnd'[s].other => \A p \in stayedFree'[s] \cap Seen(rnd[s]) : pc'[s] = "inside" /\ rnd'[s].prev = p
  BY <1>2 DEF Rests, ScanOf
<1>5. rnd'[s].same => \A p \in stayedQuiet'[s] \cap Seen(rnd[s]) : pc'[s] = "inside" /\ rnd'[s].prev = p
  BY <1>2 DEF Rests, ScanOf
<1>6. ASSUME pc'[s] = "assign", got'[s] # 0, ~rnd'[s].other, NEW q \in Peers
      PROVE  Keeping(got[s], q)' = {}
  <2>1. pc[s] = "assign" /\ got'[s] = got[s] /\ got[s] \in Ports /\ ~rnd[s].other
    BY <1>6 DEF Rests, IInv, TypeOK
  <2>2. PICK p \in Ports : p = got[s]
    BY <2>1
  <2>3. Keeping(p, q) = {} /\ Claims(s, p)
    BY <1>6, <2>1, <2>2 DEF ScanOf, Claims
  <2>4. Keeping(p, q)' = {}
    BY <2>1, <2>3, StaysUnused DEF ScanNext
  <2>5. QED
    BY <2>1, <2>2, <2>4 DEF Keeping
<1>7. QED
  BY <1>1, <1>2, <1>3, <1>4, <1>5, <1>6 DEF ScanOf

(* Looking at a port: it is seen, and either the session decides on it next   *)
(* or the port is in the listening stage.                                     *)
LEMMA TryKeeps ==
  ASSUME IInv, NEW s \in Sessions, ScanOf(s), ScanNext, TryPort(s) PROVE ScanOf(s)'
<1> DEFINE r == rnd[s]
           n == NextPort(r)
           At(p) == pc'[s] = "inside" /\ rnd'[s].prev = p
<1>1. /\ r \in Randomizers /\ n \in Ports /\ pc[s] = "scan" /\ ~GivesUp(r)
      /\ rnd'[s] = Relax(r)
  <2>1. r \in Randomizers /\ rnd \in [Sessions -> Randomizers]
    BY DEF IInv, TypeOK
  <2>2. n \in Ports
    <3>1. r.prev \in Ports \cup {0} /\ r.first \in Ports
      BY <2>1 DEF Randomizers
    <3>2. QED
      BY <3>1, NextPortInRange
  <2>3. pc[s] = "scan" /\ ~GivesUp(r) /\ rnd' = [rnd EXCEPT ![s] = Relax(r)]
    BY DEF TryPort
  <2>4. rnd'[s] = Relax(r)
    BY <2>1, <2>3
  <2>5. QED
    BY <2>1, <2>2, <2>3, <2>4
<1>2. /\ rnd'[s].first = r.first /\ rnd'[s].prev = n
      /\ rnd'[s].other = (r.other \/ Wrapped(r))
      /\ rnd'[s].same = (r.same \/ (Wrapped(r) /\ r.other))
  BY <1>1 DEF Relax, Randomizers
<1>3. pc'[s] \in {"inside", "scan"} /\ (pc'[s] = "inside" \/ connecting'[n] = 1)
  <2>1. connecting[n] \in {0, 1}
    BY <1>1 DEF IInv, TypeOK
  <2>2. QED
    BY <1>1, <2>1 DEF TryPort, Goto, IInv, TypeOK
<1>4. At(n) \/ n \notin QuietPorts(s)'
  BY <1>2, <1>3 DEF QuietPorts
<1>5. /\ stayedFree'[s] \subseteq FreePorts(s)' /\ stayedQuiet'[s] \subseteq QuietPorts(s)'
      /\ stayedFree'[s] \subseteq stayedFree[s] /\ stayedQuiet'[s] \subseteq stayedQuiet[s]
  BY <1>1, HistoryShrinks DEF ScanBegins
<1>6. FreePorts(s)' \subseteq QuietPorts(s)' /\ QuietPorts(s) \subseteq Ports
      /\ FreePorts(s) \subseteq QuietPorts(s)
  BY DEF FreePorts, QuietPorts
<1>7. At(n) \/ (n \notin stayedFree'[s] /\ n \notin stayedQuiet'[s])
  BY <1>4, <1>5, <1>6
<1>8. /\ r.same => r.other
      /\ stayedFree[s] \subseteq Ports /\ stayedQuiet[s] \subseteq Ports
      /\ ~r.other => stayedFree[s] \cap Seen(r) = {}
      /\ r.other => stayedFree[s] = {}
      /\ r.same => stayedQuiet[s] \cap Seen(r) = {}
  BY <1>1, <1>6 DEF ScanOf
<1>9. Seen(rnd[s])' = Seen(Relax(r))
  BY <1>1 DEF Seen
<1>10. /\ rnd'[s].same => rnd'[s].other
       /\ rnd'[s].other => stayedFree'[s] = {}
       /\ ~rnd'[s].other => \A p \in stayedFree'[s] \cap Seen(Relax(r)) : At(p)
       /\ rnd'[s].same => \A p \in stayedQuiet'[s] \cap Seen(Relax(r)) : At(p)
  <2> HIDE DEF r, n, At
  <2>1. CASE ~Wrapped(r)
    <3>1. Seen(Relax(r)) = Seen(r) \cup {n}
      BY <1>1, <2>1, SeenMore DEF n
    <3>2. rnd'[s].other = r.other /\ rnd'[s].same = r.same
      <4>1. r.other \in BOOLEAN /\ r.same \in BOOLEAN
        BY <1>1 DEF Randomizers
      <4>2. QED
        BY <1>2, <2>1, <4>1
    <3>3. QED
      BY <1>5, <1>7, <1>8, <3>1, <3>2
  <2>2. CASE Wrapped(r) /\ ~r.other
    <3>1. Seen(r) = Ports
      BY <1>1, <2>2, SeenAll
    <3>2. stayedFree'[s] = {} /\ rnd'[s].other /\ ~rnd'[s].same
      BY <1>2, <1>5, <1>8, <2>2, <3>1
    <3>3. QED
      BY <3>2
  <2>3. CASE Wrapped(r) /\ r.other
    <3>1. n = rnd'[s].first /\ n \in Nat /\ n # 0
      BY <1>1, <1>2, <2>3, PortsAre DEF Wrapped, n
    <3>2. Seen(Relax(r)) = {n}
      <4>1. Relax(r).first = n /\ Relax(r).prev = n
        BY <1>1, <1>2, <3>1
      <4>2. Seen(Relax(r)) = n..n
        BY <3>1, <4>1 DEF Seen
      <4>3. QED
        BY <3>1, <4>2
    <3>3. rnd'[s].other /\ stayedFree'[s] = {}
      BY <1>2, <1>5, <1>8, <2>3
    <3>4. QED
      BY <1>7, <3>2, <3>3
  <2>4. QED
    BY <2>1, <2>2, <2>3
<1>11. QED
  BY <1>3, <1>5, <1>9, <1>10 DEF ScanOf

(* A port that a strict scan finds without entries is nobody's.               *)
LEMMA EmptyIsUnused ==
  ASSUME TypeOK, LeasesCounted, NEW p \in Ports, NEW q \in Peers,
         q \in entries[p] => leases[p][q] = 0
  PROVE  Keeping(p, q) = {}
<1>1. Counted(p, q) = 0 /\ Right(p, q)
  BY CountedIsRight DEF Counted
<1>2. /\ Cardinality(Getting(p, q)) \in Nat /\ Cardinality(Keeping(p, q)) \in Nat
      /\ IsFiniteSet(Keeping(p, q))
  BY FewSessions
<1>3. Cardinality(Keeping(p, q)) = 0
  BY <1>1, <1>2 DEF Right
<1>4. QED
  BY <1>2, <1>3, FS_EmptySet

(* Deciding on a port: a grant puts it into the listening stage, and a strict *)
(* scan turns down only a port that is not free.                              *)
LEMMA DecideKeeps ==
  ASSUME IInv, LeasesCounted, NEW s \in Sessions, ScanOf(s), ScanNext, Decide(s) PROVE ScanOf(s)'
<1> DEFINE r == rnd[s]
           p == rnd[s].prev
           q0 == PeerOf[s]
<1>1. /\ r \in Randomizers /\ p \in Ports /\ p # 0 /\ pc[s] = "inside"
      /\ rnd' = rnd /\ q0 \in Peers
  BY PortsNonZero, PeersAssumption DEF IInv, InsideHasPort, TypeOK, Decide
<1>2. Claims(s, p) /\ connecting[p] = 1 /\ connecting \in [Ports -> {0, 1}]
  BY <1>1 DEF Claims, IInv, HoldersMarked, TypeOK
<1>3. /\ stayedFree'[s] \subseteq FreePorts(s)' /\ stayedQuiet'[s] \subseteq QuietPorts(s)'
      /\ stayedFree'[s] \subseteq stayedFree[s] /\ stayedQuiet'[s] \subseteq stayedQuiet[s]
  BY <1>1, HistoryShrinks DEF ScanBegins
<1>4. Seen(rnd[s])' = Seen(r)
  BY <1>1 DEF Seen
<1>5. /\ r.same => r.other
      /\ ~r.other => \A x \in stayedFree[s] \cap Seen(r) : p = x
      /\ r.other => stayedFree[s] = {}
      /\ r.same => \A x \in stayedQuiet[s] \cap Seen(r) : p = x
  BY DEF ScanOf
<1>6. r.other \in BOOLEAN /\ r.same \in BOOLEAN
  BY <1>1 DEF Randomizers
<1>7. CASE MayReuse(r, q0)
  <2>1. connecting' = connecting /\ got'[s] = p /\ pc'[s] = "assign"
    BY <1>7 DEF Decide, Goto, IInv, TypeOK
  <2>2. p \notin QuietPorts(s)'
    BY <1>2, <2>1 DEF QuietPorts
  <2>3. p \notin stayedFree'[s] /\ p \notin stayedQuiet'[s]
    BY <1>3, <2>2 DEF FreePorts
  <2>4. /\ ~r.other => stayedFree'[s] \cap Seen(r) = {}
        /\ r.same => stayedQuiet'[s] \cap Seen(r) = {}
        /\ r.other => stayedFree'[s] = {}
    BY <1>3, <1>5, <2>3
  <2>5. ASSUME ~r.other, NEW q \in Peers PROVE Keeping(got[s], q)' = {}
    <3>1. Pruned(r) = {}
      BY <1>5, <1>6, <1>7, <2>5 DEF MayReuse
    <3>2. q \in entries[p] => leases[p][q] = 0
      BY <1>5, <1>6, <2>5, <3>1 DEF Pruned
    <3>3. Keeping(p, q) = {}
      BY <1>1, <3>2, EmptyIsUnused DEF IInv
    <3>4. got[s] # p
      BY <1>1 DEF IInv, GotOnlyInAssign
    <3>5. Keeping(p, q)' = {}
      BY <1>1, <1>2, <3>3, <3>4, StaysUnused DEF ScanNext
    <3>6. QED
      BY <1>1, <2>1, <3>5 DEF Keeping
  <2>6. QED
    BY <1>1, <1>3, <1>4, <1>5, <2>1, <2>4, <2>5 DEF ScanOf
<1>8. CASE ~MayReuse(r, q0)
  <2>1. pc'[s] = "scan"
    BY <1>8 DEF Decide, Goto, IInv, TypeOK
  <2>2. ~r.same
    BY <1>5, <1>8 DEF MayReuse
  <2>3. ASSUME ~r.other PROVE p \notin stayedFree[s]
    <3>1. SUFFICES ASSUME p \in stayedFree[s] PROVE FALSE
      OBVIOUS
    <3>2. \A q \in entries[p] : leases[p][q] = 0 /\ expiry[p][q] < r.now
      BY <3>1 DEF ScanOf, FreePorts
    <3>3. Pruned(r) = {}
      BY <2>2, <2>3, <3>2 DEF Pruned
    <3>4. QED
      BY <1>8, <3>3 DEF MayReuse
  <2>4. ~r.other => stayedFree'[s] \cap Seen(r) = {}
    BY <1>3, <1>5, <2>3
  <2>5. r.other => stayedFree'[s] = {}
    BY <1>3, <1>5
  <2>6. QED
    BY <1>1, <1>3, <1>4, <2>1, <2>2, <2>4, <2>5 DEF ScanOf
<1>9. QED
  BY <1>7, <1>8

(* Giving up: the whole range was seen twice without a port to take.          *)
LEMMA GiveUpKeeps ==
  ASSUME IInv, NEW s \in Sessions, ScanOf(s), ScanNext, GiveUp(s) PROVE ScanOf(s)'
<1> DEFINE r == rnd[s]
<1>1. /\ r \in Randomizers /\ pc[s] = "scan" /\ pc'[s] = "assign" /\ got'[s] = 0
      /\ Wrapped(r) /\ r.other /\ r.same
  BY DEF IInv, TypeOK, GiveUp, GivesUp, Goto
<1>2. rnd'[s].other = r.other /\ rnd'[s].same = r.same
  <2>1. rnd' = [rnd EXCEPT ![s] = [r EXCEPT !.prev = NextPort(r)]] /\ rnd \in [Sessions -> Randomizers]
    BY DEF GiveUp, IInv, TypeOK
  <2>2. rnd'[s] = [r EXCEPT !.prev = NextPort(r)]
    BY <2>1
  <2>3. QED
    BY <1>1, <2>2 DEF Randomizers
<1>3. /\ stayedFree'[s] \subseteq FreePorts(s)' /\ stayedQuiet'[s] \subseteq QuietPorts(s)'
      /\ stayedFree'[s] \subseteq stayedFree[s] /\ stayedQuiet'[s] \subseteq stayedQuiet[s]
  BY <1>1, HistoryShrinks DEF ScanBegins
<1>4. Seen(r) = Ports
  BY <1>1, SeenAll
<1>5. stayedQuiet[s] \subseteq Ports /\ stayedQuiet[s] \cap Seen(r) = {} /\ stayedFree[s] = {}
  BY <1>1 DEF ScanOf, QuietPorts
<1>6. stayedFree'[s] = {} /\ stayedQuiet'[s] = {}
  BY <1>3, <1>4, <1>5
<1>7. QED
  BY <1>1, <1>2, <1>3, <1>6 DEF ScanOf

(* Every step keeps what every scan promises.                                 *)
LEMMA ScanStep ==
  ASSUME IInv, LeasesCounted, ScanInv, [ScanNext]_scanVars PROVE ScanInv'
<1>1. CASE UNCHANGED scanVars
  <2>1. ASSUME NEW s \in Sessions PROVE ScanOf(s)'
    <3>1. ScanOf(s)
      BY ScanOfEach
    <3>2. QED
      BY <1>1, <3>1 DEF scanVars, vars, portVars, sessionVars, ScanOf, FreePorts,
                        QuietPorts, Seen, Keeping
  <2>2. (\A s \in Sessions : ScanOf(s))'
    BY <2>1
  <2>3. QED
    BY <2>2 DEF ScanInv, InOrder, NoneMissed, FreshIsUnused, NoneQuiet, ScanOf
<1>2. CASE ScanNext
  <2>1. ASSUME NEW s \in Sessions PROVE ScanOf(s)'
    <3>1. ScanOf(s)
      BY ScanOfEach
    <3>2. Rests(s) \/ Starts(s) \/ TryPort(s) \/ Decide(s) \/ GiveUp(s)
      BY <1>2, ScanSteps DEF ScanNext, IInv
    <3>3. QED
      BY <1>2, <3>1, <3>2, RestsKeeps, StartsKeeps, TryKeeps, DecideKeeps, GiveUpKeeps
  <2>2. (\A s \in Sessions : ScanOf(s))'
    BY <2>1
  <2>3. QED
    BY <2>2 DEF ScanInv, InOrder, NoneMissed, FreshIsUnused, NoneQuiet, ScanOf
<1>3. QED
  BY <1>1, <1>2

(* All the invariants together are inductive.                                 *)
LEMMA ScanInductive == ScanSpec => [](IInv /\ LeasesCounted /\ ScanInv)
<1>1. ScanInit => ScanInv
  <2>1. ASSUME ScanInit, NEW s \in Sessions PROVE ScanOf(s)
    BY <2>1 DEF ScanInit, Init, NoScan, ScanOf
  <2>2. QED
    BY <2>1, ScanOfEach
<1>2. IInv /\ LeasesCounted /\ ScanInv /\ [ScanNext]_scanVars
        => (IInv /\ LeasesCounted /\ ScanInv)'
  <2>1. SUFFICES ASSUME IInv, LeasesCounted, ScanInv, [ScanNext]_scanVars
                 PROVE  IInv' /\ LeasesCounted' /\ ScanInv'
    OBVIOUS
  <2>2. [Next]_vars
    BY <2>1 DEF ScanNext, scanVars
  <2>3. TypeOK' /\ GotOnlyInAssign' /\ InsideHasPort'
    BY <2>1, <2>2, TypeStep, PcStep DEF IInv
  <2>4. IInv'
    BY <2>1, <2>2, <2>3, HeldStep DEF IInv, Held
  <2>5. LeasesCounted'
    BY <2>1, <2>2, CountStep DEF IInv
  <2>6. QED
    BY <2>1, <2>4, <2>5, ScanStep
<1>3. ScanInit => IInv /\ LeasesCounted
  BY InitIInv, InitCounted DEF ScanInit
<1>4. QED
  BY <1>1, <1>2, <1>3, PTL DEF ScanSpec

(* A port in use is handed out only if no port stayed free during the whole   *)
(* scan, whatever the other sessions take and release meanwhile               *)
(* (do_get_port(), port_randomizer.cpp:39-96).                              *)
THEOREM FreePortComesFirst == ScanSpec => []FreePortFirst
<1>1. IInv /\ LeasesCounted /\ ScanInv => FreePortFirst
  <2>1. SUFFICES ASSUME IInv, ScanInv, NEW s \in Sessions, pc[s] = "assign", got[s] # 0,
                        InUse(got[s]), ~rnd[s].other
                 PROVE  FALSE
    <3>1. ASSUME ScanInv, NEW s \in Sessions, rnd[s].other PROVE stayedFree[s] = {}
      BY <3>1 DEF ScanInv, NoneMissed
    <3>2. QED
      BY <3>1 DEF FreePortFirst
  <2>2. PICK p \in Ports : p = got[s]
    BY <2>1 DEF IInv, TypeOK
  <2>3. \A q \in Peers : Keeping(p, q) = {}
    BY <2>1, <2>2 DEF ScanInv, FreshIsUnused
  <2>4. {t \in Sessions : got[t] = p} = {s}
    <3>1. ASSUME NEW t \in Sessions, got[t] = p, t # s PROVE FALSE
      <4>1. Claims(s, p) /\ Claims(t, p)
        BY <2>2, <3>1 DEF Claims
      <4>2. QED
        BY <2>1, <3>1, <4>1 DEF IInv, ListeningStageExclusive
    <3>2. QED
      BY <2>2, <3>1
  <2>5. ~(Cardinality({t \in Sessions : got[t] = p}) > 1)
    BY <2>4, FS_Singleton
  <2>6. ASSUME NEW t \in Sessions, lease[t].port = p, pc[t] \notin {"assigned", "freed", "closed"}
        PROVE  FALSE
    <3>1. t \in Keeping(p, PeerOf[t]) /\ PeerOf[t] \in Peers
      BY <2>6, PeersAssumption DEF Keeping
    <3>2. QED
      BY <2>3, <3>1
  <2>7. QED
    BY <2>1, <2>2, <2>5, <2>6 DEF InUse
<1>2. QED
  BY <1>1, ScanInductive, PTL

(* get_port() gives up only if every port of the range was in the listening   *)
(* stage at some moment of the scan (port_randomizer.cpp:52-65).            *)
THEOREM GivesUpLast == ScanSpec => []GivesUpOnlyIfAllListening
<1>1. ScanInv => GivesUpOnlyIfAllListening
  BY DEF ScanInv, NoneQuiet, GivesUpOnlyIfAllListening
<1>2. QED
  BY <1>1, ScanInductive, PTL
================================================================================
