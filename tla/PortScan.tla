--------------------------------- MODULE PortScan ---------------------------------
(* What a scan of the passive range promises, stated over a history of the      *)
(* ports that never stopped being free, or idle, while it went on.              *)
EXTENDS PortManager

VARIABLES
  stayedFree,   \* session -> ports free ever since its scan began
  stayedQuiet   \* session -> ports never in the listening stage since then

scanVars == <<vars, stayedFree, stayedQuiet>>

(* What s itself is looking at does not count as listening for s.            *)
QuietPorts(s) ==
  {p \in Ports : connecting[p] = 0 \/ (pc[s] = "inside" /\ rnd[s].prev = p)}

(* A free port: not in the listening stage, and every entry of it is one     *)
(* that prune() drops.                                                       *)
FreePorts(s) ==
  {p \in QuietPorts(s) :
     \A q \in entries[p] : leases[p][q] = 0 /\ expiry[p][q] < rnd[s].now}

ScanBegins(s) == pc[s] = "idle" /\ pc'[s] = "scan"

ScanInit ==
  /\ Init
  /\ stayedFree = [s \in Sessions |-> {}]
  /\ stayedQuiet = [s \in Sessions |-> {}]

ScanNext ==
  /\ Next
  /\ stayedFree' = [s \in Sessions |->
       IF pc'[s] = "idle" THEN {}
       ELSE FreePorts(s)'
              \cap (IF ScanBegins(s) THEN Ports ELSE stayedFree[s])]
  /\ stayedQuiet' = [s \in Sessions |->
       IF pc'[s] = "idle" THEN {}
       ELSE QuietPorts(s)' \cap (IF ScanBegins(s) THEN Ports ELSE stayedQuiet[s])]

ScanSpec == ScanInit /\ [][ScanNext]_scanVars

(* The port just granted to s is in use: another lease of it exists.         *)
InUse(p) ==
  \/ Cardinality({s \in Sessions : got[s] = p}) > 1
  \/ \E s \in Sessions : lease[s].port = p /\ pc[s] \notin {"assigned", "freed", "closed"}

(* port_randomizer.hpp: "picks a random free port ... If there is no free    *)
(* port, it picks a used port": a port in use is handed out only if no port  *)
(* stayed free during the whole scan, whatever other sessions did meanwhile. *)
FreePortFirst ==
  \A s \in Sessions :
    pc[s] = "assign" /\ got[s] # 0 /\ InUse(got[s]) => stayedFree[s] = {}

(* "If there is no free port ... As last resort, it reuses a busy port":     *)
(* get_port() returns 0 only if every port of the range was in the listening *)
(* stage at some moment of the scan.                                         *)
GivesUpOnlyIfAllListening ==
  \A s \in Sessions :
    pc[s] = "assign" /\ got[s] = 0 => stayedQuiet[s] = {}
================================================================================
