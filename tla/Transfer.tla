------------------------------- MODULE Transfer -------------------------------
(***************************************************************************)
(* What a session may rely on when it moves a file over a data connection: *)
(* units are taken from the source one after the other, handed to the sink *)
(* one after the other, and a transfer that is reported as successful has  *)
(* taken everything and handed over everything it took.  A transfer can    *)
(* fail at any time.  Channel is shown to implement this.                  *)
(***************************************************************************)
EXTENDS Integers

VARIABLES
  outcome,    \* "idle", "running", "ok" or "failed"
  exhausted,  \* the source has nothing left
  taken,      \* units taken from the source
  given       \* units handed to the sink

vars == <<outcome, exhausted, taken, given>>

(* The source may be empty from the start.                                    *)

Init == outcome \in {"idle", "running"} /\ exhausted \in BOOLEAN /\ taken = 0 /\ given = 0

Begin ==
  /\ outcome # "running"
  /\ outcome' = "running"
  /\ exhausted' \in BOOLEAN
  /\ taken' = 0 /\ given' = 0

Take ==
  /\ outcome = "running" /\ ~exhausted
  /\ taken' > taken
  /\ exhausted' \in BOOLEAN
  /\ UNCHANGED <<outcome, given>>

RunDry ==
  /\ outcome = "running"
  /\ exhausted' = TRUE
  /\ UNCHANGED <<outcome, taken, given>>

Give ==
  /\ outcome = "running"
  /\ given' > given /\ given' <= taken
  /\ UNCHANGED <<outcome, exhausted, taken>>

Succeed ==
  /\ outcome = "running" /\ exhausted /\ given = taken
  /\ outcome' = "ok"
  /\ exhausted' \in BOOLEAN
  /\ UNCHANGED <<taken, given>>

Fail ==
  /\ outcome = "running"
  /\ outcome' = "failed"
  /\ exhausted' \in BOOLEAN
  /\ UNCHANGED <<taken, given>>

(* From the end on what the source still does is of no interest.              *)

Late ==
  /\ outcome # "running"
  /\ exhausted' \in BOOLEAN
  /\ UNCHANGED <<outcome, taken, given>>

Next == Begin \/ Take \/ RunDry \/ Give \/ Succeed \/ Fail \/ Late

Spec == Init /\ [][Next]_vars
=============================================================================
