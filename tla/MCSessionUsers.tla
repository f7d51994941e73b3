---------------------------- MODULE MCSessionUsers ----------------------------
(***************************************************************************)
(* Instances of SessionUsers.                                              *)
(***************************************************************************)
EXTENDS SessionUsers

User(state, groups, limit, own) == [state |-> state, groups |-> groups, limit |-> limit, own |-> own]

Absent == User("absent", <<>>, 0, NoToken)

Settings(ann, bob, sys, g, default) ==
  [users |-> [n \in {"ann", "bob", "sys"} |-> CASE n = "ann" -> ann [] n = "bob" -> bob [] OTHER -> sys],
   limits |-> [x \in {"g"} |-> g], default |-> default]

Off == User("disabled", <<>>, 0, NoToken)
On  == User("enabled", <<>>, 0, NoToken)
InG == User("enabled", <<"g">>, 0, NoToken)
InGG == User("enabled", <<"g", "g">>, 0, NoToken)

(* Two users in a group of one session; the group goes and bob is limited by  *)
(* himself; ann is disabled and bob is a system user; everybody uses the      *)
(* default impersonator, and ann is twice in a group of two, which sanitize()  *)
(* leaves as it is.                                                           *)

Four ==
  <<Settings(InG, InG, Off, 1, NoToken),
    Settings(InG, User("enabled", <<>>, 1, "bob"), Off, -1, NoToken),
    Settings(User("disabled", <<"g">>, 0, NoToken), Absent, On, 2, NoToken),
    Settings(InGG, InG, Off, 2, "svc")>>

(* Nothing but a group that is named twice.                                   *)

Twice == <<Settings(InGG, Absent, Off, 2, NoToken)>>
=============================================================================
