--------------------------- MODULE SessionUsersProofs ---------------------------
(***************************************************************************)
(* Theorems about the users of sessions, for any sessions, names and       *)
(* groups, and any settings an administrator may set.  What they rest on   *)
(* is that the map of weak references is a view of the users: what it      *)
(* finds can be joined, and whoever can be joined is found (Found and      *)
(* Listed); and that a user's subscribers are the sessions that follow     *)
(* him, so that a change is heard by those it concerns.                    *)
(***************************************************************************)
EXTENDS SessionUsers, FiniteSetTheorems, FunctionTheorems, SequenceTheorems, TLAPS

(* Those who hear of changes, and those who are counted.                      *)
Following == {"subscribed", "in", "quitting"}
Counting  == {"counted"} \cup Following
Phases    == {"out", "refused", "asked", "creating", "answered"} \cup Counting

(* The types of all the state.                                                *)
Tokens ==
  {NoToken} \cup Names \cup {Configs[c].default : c \in DOMAIN Configs}
    \cup UNION {{Configs[c].users[n].own : n \in AllNames} : c \in DOMAIN Configs}

Trees    == {None} \cup [of : DOMAIN Configs, home : Tokens]
Extras   == UNION {[D -> Limiters] : D \in SUBSET Nat}
Counters == ({"user"} \X Slots) \cup ({"group"} \X Limiters)
Copyings == UNION {[D -> Counters] : D \in SUBSET Nat}
Events   == ({"result"} \X (0..MaxUsers)) \cup ({"changed"} \X Slots)
Queues   == Seq(Events)

NamesOrNone == Names \cup {None}

UserStates ==
  [key : NamesOrNone, id : AllNames \cup {None}, token : Tokens, tree : Trees,
   limit : Nat, extra : Extras, subs : SUBSET Sessions]

SessionStates ==
  [at : Phases, name : NamesOrNone, user : 0..MaxUsers, copies : Copyings, queue : Queues,
   view : Trees]

Types ==
  /\ cfg \in DOMAIN Configs /\ reloads \in 0..MaxReloads
  /\ users \in [Slots -> UserStates]
  /\ weak \in [Names -> 0..MaxUsers]
  /\ limiter \in [Groups -> -1..MaxReloads] /\ quota \in [Limiters -> Nat]
  /\ sess \in [Sessions -> SessionStates]
  /\ pend \subseteq Slots

(* A limiter is there only for a group that is there.                         *)
Existing == \A g \in Groups : limiter[g] >= 0 => Configs[cfg].limits[g] >= 0

(* What a session has in its queue, and when it has a user and counters.      *)
Owns(x) ==
  /\ x.at \in {"out", "refused", "asked"} => x.user = 0
  /\ x.at \in {"creating"} \cup Counting => x.user # 0
  /\ x.at \in {"asked", "creating"} => x.name \in Names
  /\ x.at \notin {"answered"} \cup Following => x.queue = <<>>
  /\ x.at = "answered" => x.queue = <<<<"result", x.user>>>>
  /\ x.at \in Following => \A k \in DOMAIN x.queue : x.queue[k] = <<"changed", x.user>>
  /\ (0 \in DOMAIN x.copies) = (x.at \in Counting)
  /\ x.at \notin Counting => x.copies = <<>>

Owned == \A s \in Sessions : Owns(sess[s])

(* A user tells those, and only those, who follow him.                        *)
Subscribed ==
  \A i \in Slots, s \in Sessions :
    s \in users[i].subs <=> sess[s].user = i /\ sess[s].at \in Following

(* What the map finds is alive and may be joined.                             *)
Found ==
  \A n \in Names : weak[n] # 0 =>
    weak[n] \in Alive /\ users[weak[n]].key = n /\ users[weak[n]].id # None

(* A user who may be joined is the one the map finds, with the settings in force. *)
Listed ==
  \A i \in Alive : users[i].id # None =>
    /\ users[i].key \in Names /\ weak[users[i].key] = i
    /\ users[i].tree.of = cfg

(* A session that has nothing left to hear sees its user as he is.            *)
Sees(s) ==
  sess[s].at = "in" /\ Untold(s) =>
    users[sess[s].user].id # None /\ sess[s].view = users[sess[s].user].tree

Seen == \A s \in Sessions : Sees(s)

IInv == Types /\ Existing /\ Owned /\ Subscribed /\ Found /\ Listed /\ Seen
-----------------------------------------------------------------------------
(* The bounds, as numbers.                                                    *)
LEMMA Numbers ==
  /\ MaxUsers \in Nat /\ MaxUsers >= 1 /\ MaxReloads \in Nat
  /\ Slots \subseteq Nat /\ Slots = (0..MaxUsers) \ {0} /\ 0 \notin Slots
  /\ None \notin Names /\ None \notin AllNames /\ Names \subseteq AllNames
<1>1. MaxUsers \in Nat /\ MaxUsers >= 1 /\ MaxReloads \in Nat
  BY UsersAssumption, SMT DEF WellFormed
<1>2. Slots \subseteq Nat /\ Slots = (0..MaxUsers) \ {0} /\ 0 \notin Slots
  BY <1>1, SMT DEF Slots
<1>3. None \notin Names /\ None \notin AllNames /\ Names \subseteq AllNames
  BY UsersAssumption DEF WellFormed, AllNames
<1>4. QED
  BY <1>1, <1>2, <1>3

(* The empty sequence is a function into anything.                            *)
LEMMA EmptyFunction ==
  /\ DOMAIN <<>> = {}
  /\ \A T : <<>> \in UNION {[D -> T] : D \in SUBSET Nat}
<1>1. DOMAIN <<>> = {}
  BY SMT
<1>2. ASSUME NEW T PROVE <<>> \in UNION {[D -> T] : D \in SUBSET Nat}
  <2>1. <<>> \in [{} -> T]
    BY <1>1, SMT
  <2>2. QED
    BY <2>1
<1>3. QED
  BY <1>1, <1>2

(* A slot without a user is a user object in type.                            *)
LEMMA NoUserType == NoUser \in UserStates
<1>1. NoUser.extra \in Extras
  BY EmptyFunction DEF NoUser, Extras
<1>2. QED
  BY <1>1, SMT DEF NoUser, UserStates, Tokens, Trees, NamesOrNone

(* A new connection is a session that owns nothing.                           *)
LEMMA ConnectedType == Connected \in SessionStates /\ Owns(Connected)
<1>1. /\ <<>> \in Copyings
      /\ 0 \in 0..MaxUsers /\ <<>> \in Queues
      /\ 0 \notin DOMAIN <<>>
  <2>1. <<>> \in Copyings /\ 0 \notin DOMAIN <<>>
    BY EmptyFunction DEF Copyings
  <2>2. 0 \in 0..MaxUsers /\ <<>> \in Queues
    BY Numbers, SMT DEF Queues
  <2>3. QED
    BY <2>1, <2>2
<1>2. Connected \in SessionStates
  BY <1>1, SMT DEF Connected, SessionStates, Phases, Trees, NamesOrNone
<1>3. Owns(Connected)
  <2>1. /\ Connected.at = "out" /\ Connected.user = 0
        /\ Connected.queue = <<>> /\ Connected.copies = <<>>
    BY DEF Connected
  <2>2. Connected.at \notin {"creating", "answered", "asked"} \cup Counting
    BY <2>1 DEF Counting, Following
  <2>3. QED
    BY <1>1, <2>1, <2>2 DEF Owns, Counting
<1>4. QED
  BY <1>2, <1>3

(* What Owns() asks of a follower.                                            *)
LEMMA FollowerOwns ==
  ASSUME NEW x, x.at \in Following, x.user # 0, 0 \in DOMAIN x.copies,
         \A k \in DOMAIN x.queue : x.queue[k] = <<"changed", x.user>>
  PROVE  Owns(x)
<1>1. x.at \in Counting /\ x.at \notin {"out", "refused", "asked", "creating", "answered", "counted"}
  BY DEF Following, Counting
<1>2. QED
  BY <1>1, Zenon DEF Owns

(* Who is alive.                                                              *)
LEMMA AliveFacts ==
  ASSUME Types
  PROVE  /\ Alive \subseteq Slots
         /\ \A s \in Sessions : sess[s].user \in 0..MaxUsers
         /\ \A s \in Sessions : sess[s].user # 0 => sess[s].user \in Alive
<1>1. Alive \subseteq Slots
  BY DEF Alive
<1>2. ASSUME NEW s \in Sessions
      PROVE  sess[s].user \in 0..MaxUsers /\ (sess[s].user # 0 => sess[s].user \in Alive)
  <2>1. sess[s].user \in 0..MaxUsers
    BY DEF Types, SessionStates
  <2>2. sess[s].user # 0 => sess[s].user \in Slots
    BY <2>1, Numbers
  <2>3. QED
    BY <2>1, <2>2 DEF Alive, HeldBy
<1>3. QED
  BY <1>1, <1>2

(* What nobody is told leaves of a session.                                   *)
Told(x, is) ==
  IF x.user \in is /\ x.at \in Following
  THEN [x EXCEPT !.queue = Append(@, <<"changed", x.user>>)] ELSE x

Unheard(x) == \E k \in DOMAIN x.queue : x.queue[k] = <<"changed", x.user>>

(* A session that is told something has it in its queue, and what was there.  *)
LEMMA ToldFacts ==
  ASSUME NEW x \in SessionStates, Owns(x), NEW is \in SUBSET Slots
  PROVE  /\ Told(x, is) \in SessionStates /\ Owns(Told(x, is))
         /\ Told(x, is).at = x.at /\ Told(x, is).name = x.name /\ Told(x, is).user = x.user
         /\ Told(x, is).copies = x.copies /\ Told(x, is).view = x.view
         /\ Unheard(x) => Unheard(Told(x, is))
         /\ x.user \in is /\ x.at \in Following => Unheard(Told(x, is))
<1>1. CASE ~(x.user \in is /\ x.at \in Following)
  BY <1>1 DEF Told
<1>2. CASE x.user \in is /\ x.at \in Following
  <2> DEFINE e == <<"changed", x.user>>
             y == [x EXCEPT !.queue = Append(@, e)]
             n == Len(x.queue)
  <2>1. Told(x, is) = y
    BY <1>2 DEF Told
  <2>2. x.queue \in Seq(Events) /\ e \in Events
    BY <1>2 DEF SessionStates, Events, Queues
  <2>3. /\ Append(x.queue, e) \in Queues
        /\ n \in Nat /\ DOMAIN x.queue = 1..n /\ DOMAIN Append(x.queue, e) = 1..n + 1
        /\ \A k \in 1..n : Append(x.queue, e)[k] = x.queue[k]
        /\ Append(x.queue, e)[n + 1] = e
    BY <2>2, SMT DEF Queues
  <2>4. /\ y \in SessionStates /\ y.queue = Append(x.queue, e)
        /\ y.at = x.at /\ y.name = x.name /\ y.user = x.user
        /\ y.copies = x.copies /\ y.view = x.view
    <3> HIDE DEF e
    <3>1. QED
      BY <2>3, ZenonT(30) DEF SessionStates
  <2> HIDE DEF y
  <2>5. \A k \in DOMAIN x.queue : x.queue[k] = e
    BY <1>2 DEF Owns
  <2>6. ASSUME NEW k \in 1..n + 1 PROVE Append(x.queue, e)[k] = e
    <3>1. k \in 1..n \/ k = n + 1
      BY <2>3, SMT
    <3>2. QED
      BY <2>3, <2>5, <3>1
  <2>7. \A k \in DOMAIN y.queue : y.queue[k] = <<"changed", y.user>>
    BY <2>3, <2>4, <2>6
  <2>8. Owns(y)
    <3>1. x.user # 0 /\ 0 \in DOMAIN x.copies
      BY <1>2 DEF Owns, Counting
    <3>2. QED
      BY <1>2, <2>4, <2>7, <3>1, FollowerOwns
  <2>9. n + 1 \in 1..n + 1
    BY <2>3, SMT
  <2>10. Unheard(y)
    BY <2>3, <2>4, <2>9 DEF Unheard
  <2>11. QED
    BY <2>1, <2>4, <2>8, <2>10
<1>3. QED
  BY <1>1, <1>2

(* notify() tells those who follow one of the users.                          *)
LEMMA NotifiedFacts ==
  ASSUME NEW S \in [Sessions -> SessionStates], NEW is \in SUBSET Slots,
         \A i \in is, s \in Sessions : s \in users[i].subs <=> S[s].user = i /\ S[s].at \in Following
  PROVE  Notified(S, users, is) = [s \in Sessions |-> Told(S[s], is)]
<1>1. ASSUME NEW s \in Sessions
      PROVE  Notified(S, users, is)[s] = Told(S[s], is)
  <2>1. CASE \E i \in is : s \in users[i].subs
    <3> DEFINE j == CHOOSE i \in is : s \in users[i].subs
    <3>1. j \in is /\ s \in users[j].subs
      BY <2>1
    <3>2. j = S[s].user /\ S[s].at \in Following
      BY <3>1
    <3>3. Notified(S, users, is)[s] = [S[s] EXCEPT !.queue = Append(@, <<"changed", j>>)]
      BY <2>1 DEF Notified
    <3> HIDE DEF j
    <3>4. QED
      BY <3>1, <3>2, <3>3 DEF Told
  <2>2. CASE ~\E i \in is : s \in users[i].subs
    <3>1. Notified(S, users, is)[s] = S[s]
      BY <2>2 DEF Notified
    <3>2. QED
      BY <2>2, <3>1 DEF Told
  <2>3. QED
    BY <2>1, <2>2
<1>2. Notified(S, users, is) = [s \in Sessions |-> Notified(S, users, is)[s]]
  BY DEF Notified
<1>3. QED
  BY <1>1, <1>2
-----------------------------------------------------------------------------
(* Users who stay alive as they are keep what the map says of them.           *)
LEMMA UsersStay ==
  ASSUME IInv, cfg' = cfg, limiter' = limiter,
         \A i \in Alive' : /\ i \in Alive /\ users'[i].key = users[i].key
                           /\ users'[i].id = users[i].id /\ users'[i].tree = users[i].tree,
         \A n \in Names : weak'[n] # 0 => weak'[n] = weak[n] /\ weak'[n] \in Alive',
         \A n \in Names : weak[n] \in Alive' => weak'[n] = weak[n]
  PROVE  Existing' /\ Found' /\ Listed'
<1>1. Existing'
  BY DEF IInv, Existing
<1>2. Found'
  BY DEF IInv, Found
<1>3. Listed'
  BY DEF IInv, Listed
<1>4. QED
  BY <1>1, <1>2, <1>3

(* A session keeps its view of a user who does not change.                    *)
LEMMA SeesStays ==
  ASSUME NEW s \in Sessions, Sees(s),
         sess'[s].at = "in" => /\ sess[s].at = "in" /\ sess'[s].view = sess[s].view
                               /\ users'[sess[s].user].id = users[sess[s].user].id
                               /\ users'[sess[s].user].tree = users[sess[s].user].tree,
         sess'[s].user = sess[s].user,
         Unheard(sess[s]) => Unheard(sess'[s]),
         sess[s].user \in pend => sess[s].user \in pend' \/ Unheard(sess'[s])
  PROVE  Sees(s)'
<1> SUFFICES ASSUME sess'[s].at = "in", Untold(s)'
             PROVE  users'[sess'[s].user].id # None /\ sess'[s].view = users'[sess'[s].user].tree
  BY DEF Sees
<1>1. ~Unheard(sess'[s]) /\ sess'[s].user \notin pend'
  BY DEF Untold, Unheard
<1>2. Untold(s)
  BY <1>1 DEF Untold, Unheard
<1>3. QED
  BY <1>2 DEF Sees

(* One session moves, by itself or by joining a user who is alive.            *)
LEMMA OneSession ==
  ASSUME IInv, NEW s \in Sessions, NEW y \in SessionStates, Owns(y),
         UNCHANGED <<cfg, reloads, users, weak, limiter, quota, pend>>,
         sess' = [sess EXCEPT ![s] = y],
         y.user = sess[s].user \/ (sess[s].user = 0 /\ y.user \in Alive),
         y.at \in Following <=> sess[s].at \in Following,
         y.at = "in" /\ ~Unheard(y) /\ y.user \notin pend =>
           users[y.user].id # None /\ y.view = users[y.user].tree
  PROVE  IInv'
<1>1. Types'
  BY DEF IInv, Types
<1>2. sess'[s] = y /\ \A t \in Sessions : t # s => sess'[t] = sess[t]
  BY DEF IInv, Types
<1>3. Owned'
  BY <1>2 DEF IInv, Owned
<1>4. Alive' = Alive
  <2>1. ASSUME NEW i \in Slots PROVE HeldBy(sess, pend, i) <=> HeldBy(sess', pend', i)
    <3>1. CASE i = sess[s].user
      <4>1. y.user = i
        BY <3>1, Numbers
      <4>2. QED
        BY <1>2, <3>1, <4>1 DEF HeldBy
    <3>2. CASE i # sess[s].user /\ i = y.user
      BY <1>2, <3>2 DEF HeldBy, Alive
    <3>3. CASE i # sess[s].user /\ i # y.user
      BY <1>2, <3>3 DEF HeldBy
    <3>4. QED
      BY <3>1, <3>2, <3>3
  <2>2. QED
    BY <2>1 DEF Alive
<1>5. Existing' /\ Found' /\ Listed'
  BY <1>4 DEF IInv, Existing, Found, Listed
<1>6. y.at \in Following => y.user = sess[s].user
  BY DEF IInv, Owned, Owns, Counting
<1>7. Subscribed'
  <2> SUFFICES ASSUME NEW i \in Slots, NEW t \in Sessions
               PROVE  t \in users'[i].subs <=> sess'[t].user = i /\ sess'[t].at \in Following
    BY DEF Subscribed
  <2>1. t \in users[i].subs <=> sess[t].user = i /\ sess[t].at \in Following
    BY DEF IInv, Subscribed
  <2>2. QED
    BY <1>2, <1>6, <2>1
<1>8. Seen'
  <2> SUFFICES ASSUME NEW t \in Sessions PROVE Sees(t)'
    BY DEF Seen
  <2>1. CASE t = s
    BY <1>2, <2>1 DEF Sees, Untold, Unheard
  <2>2. CASE t # s
    BY <1>2, <2>2, SeesStays DEF IInv, Seen
  <2>3. QED
    BY <2>1, <2>2
<1>9. QED
  BY <1>1, <1>3, <1>5, <1>7, <1>8 DEF IInv

(* Some who were alive no longer are, and nobody else changes but in his      *)
(* subscribers.                                                               *)
LEMMA LivingFacts ==
  ASSUME IInv, Alive' \subseteq Alive, NEW U \in [Slots -> UserStates],
         users' = Living(U, sess', pend'), weak' = Valid(sess', pend'),
         cfg' = cfg, limiter' = limiter,
         \A i \in Slots : U[i].key = users[i].key /\ U[i].id = users[i].id /\ U[i].tree = users[i].tree
  PROVE  /\ users' \in [Slots -> UserStates] /\ weak' \in [Names -> 0..MaxUsers]
         /\ \A i \in Alive' : users'[i] = U[i]
         /\ \A i \in Slots : i \notin Alive' => users'[i] = NoUser
         /\ Existing' /\ Found' /\ Listed'
<1>1. /\ \A i \in Slots : users'[i] = IF i \in Alive' THEN U[i] ELSE NoUser
      /\ users' \in [Slots -> UserStates]
  BY NoUserType DEF Living, Alive
<1>2. \A n \in Names : weak[n] \in 0..MaxUsers /\ 0 \in 0..MaxUsers
  BY Numbers, SMT DEF IInv, Types
<1>3. ASSUME NEW n \in Names
      PROVE  /\ weak'[n] = weak[n] \/ weak'[n] = 0
             /\ weak'[n] # 0 => weak'[n] \in Alive'
             /\ weak[n] \in Alive' => weak'[n] = weak[n]
  <2>1. weak'[n] = IF HeldBy(sess', pend', weak[n]) THEN weak[n] ELSE 0
    BY DEF Valid
  <2>2. weak[n] # 0 => weak[n] \in Slots
    BY <1>2, Numbers
  <2>3. QED
    BY <2>1, <2>2 DEF Alive
<1>4. weak' \in [Names -> 0..MaxUsers]
  BY <1>2, <1>3 DEF Valid
<1>5. Alive' \subseteq Slots
  BY DEF Alive
<1>6. Existing' /\ Found' /\ Listed'
  <2>1. \A i \in Alive' : /\ i \in Alive /\ users'[i].key = users[i].key
                          /\ users'[i].id = users[i].id /\ users'[i].tree = users[i].tree
    BY <1>1, <1>5
  <2>2. QED
    BY <1>3, <2>1, UsersStay
<1>7. QED
  BY <1>1, <1>4, <1>5, <1>6
-----------------------------------------------------------------------------
(* The steps of a session                                                     *)

(* USER.                                                                      *)
LEMMA AskStep ==
  ASSUME IInv, NEW s \in Sessions, NEW n \in Names, Ask(s, n) PROVE IInv'
<1> DEFINE x == sess[s]
           y == [x EXCEPT !.at = "asked", !.name = n]
<1>1. x \in SessionStates /\ Owns(x)
  BY DEF IInv, Types, Owned
<1>2. n \in NamesOrNone /\ "asked" \in Phases
  BY DEF NamesOrNone, Phases
<1>3. /\ x.at \in {"out", "refused", "asked"}
      /\ sess' = [sess EXCEPT ![s] = y]
      /\ UNCHANGED <<cfg, reloads, users, weak, limiter, quota, pend>>
  BY DEF Ask
<1>4. /\ y \in SessionStates /\ y.at = "asked" /\ y.name = n /\ y.user = x.user
      /\ y.copies = x.copies /\ y.queue = x.queue
  BY <1>1, <1>2, ZenonT(30) DEF SessionStates
<1> HIDE DEF y
<1>5. x.at \notin {"creating", "answered"} \cup Counting
  BY <1>3 DEF Counting, Following
<1>6. y.at \notin {"creating", "answered"} \cup Counting
  BY <1>4 DEF Counting, Following
<1>7. x.user = 0 /\ x.queue = <<>> /\ x.copies = <<>> /\ 0 \notin DOMAIN x.copies
  BY <1>1, <1>3, <1>5 DEF Owns, Counting
<1>8. Owns(y)
  BY <1>4, <1>6, <1>7 DEF Owns, Counting
<1>9. x.at \notin Following /\ y.at \notin Following /\ y.at # "in"
  BY <1>4, <1>5, <1>6 DEF Counting
<1>10. QED
  BY <1>1, <1>3, <1>4, <1>8, <1>9, OneSession

(* PASS, of somebody who may not log in.                                      *)
LEMMA DenyStep == ASSUME IInv, NEW s \in Sessions, Deny(s) PROVE IInv'
<1> DEFINE x == sess[s]
           e == <<"result", 0>>
           y == [x EXCEPT !.at = "answered", !.queue = Append(@, e)]
<1>1. x \in SessionStates /\ Owns(x)
  BY DEF IInv, Types, Owned
<1>2. /\ x.at = "asked" /\ sess' = [sess EXCEPT ![s] = y]
      /\ UNCHANGED <<cfg, reloads, users, weak, limiter, quota, pend>>
  BY DEF Deny
<1>3. x.at \notin {"answered", "creating"} \cup Counting
  BY <1>2 DEF Counting, Following
<1>4. x.user = 0 /\ x.queue = <<>> /\ x.copies = <<>> /\ 0 \notin DOMAIN x.copies
  BY <1>1, <1>2, <1>3 DEF Owns, Counting
<1>5. Append(x.queue, e) = <<e>> /\ <<e>> \in Queues /\ "answered" \in Phases
  <2>1. e \in Events
    BY Numbers, SMT DEF Events
  <2>2. QED
    BY <1>4, <2>1, SMT DEF Queues, Phases
<1> HIDE DEF e
<1>6. /\ y \in SessionStates /\ y.at = "answered" /\ y.name = x.name /\ y.user = x.user
      /\ y.copies = x.copies /\ y.queue = <<e>>
  BY <1>1, <1>5, ZenonT(30) DEF SessionStates
<1> HIDE DEF y
<1>7. y.at \notin {"creating"} \cup Counting
  BY <1>6 DEF Counting, Following
<1>8. Owns(y)
  BY <1>4, <1>6, <1>7 DEF Owns, Counting, e
<1>9. x.at \notin Following /\ y.at \notin Following /\ y.at # "in"
  BY <1>3, <1>6, <1>7 DEF Counting
<1>10. QED
  BY <1>1, <1>2, <1>6, <1>8, <1>9, OneSession

(* The directories are made.                                                  *)
LEMMA CreatedStep == ASSUME IInv, NEW s \in Sessions, Created(s) PROVE IInv'
<1> DEFINE x == sess[s]
           e == <<"result", x.user>>
           y == [x EXCEPT !.at = "answered", !.queue = Append(@, e)]
<1>1. x \in SessionStates /\ Owns(x)
  BY DEF IInv, Types, Owned
<1>2. /\ x.at = "creating" /\ sess' = [sess EXCEPT ![s] = y]
      /\ UNCHANGED <<cfg, reloads, users, weak, limiter, quota, pend>>
  BY DEF Created
<1>3. x.at \notin {"answered"} \cup Counting
  BY <1>2 DEF Counting, Following
<1>4. x.queue = <<>> /\ x.copies = <<>> /\ 0 \notin DOMAIN x.copies
  BY <1>1, <1>2, <1>3 DEF Owns, Counting
<1>5. Append(x.queue, e) = <<e>> /\ <<e>> \in Queues /\ "answered" \in Phases
  <2>1. x.user \in 0..MaxUsers
    BY <1>1 DEF SessionStates
  <2>2. e \in Events
    BY <2>1 DEF Events
  <2>3. QED
    BY <1>4, <2>2, SMT DEF Queues, Phases
<1> HIDE DEF e
<1>6. /\ y \in SessionStates /\ y.at = "answered" /\ y.name = x.name /\ y.user = x.user
      /\ y.copies = x.copies /\ y.queue = <<e>>
  BY <1>1, <1>5, ZenonT(30) DEF SessionStates
<1> HIDE DEF y
<1>7. y.at \notin {"creating"} \cup Counting
  BY <1>6 DEF Counting, Following
<1>8. Owns(y)
  BY <1>4, <1>6, <1>7 DEF Owns, Counting, e
<1>9. x.at \notin Following /\ y.at \notin Following /\ y.at # "in"
  BY <1>3, <1>6, <1>7 DEF Counting
<1>10. QED
  BY <1>1, <1>2, <1>6, <1>8, <1>9, OneSession

(* What a follower makes of his user.                                         *)
LEMMA AppliedFacts ==
  ASSUME Types, NEW x \in SessionStates, Owns(x), x.at \in Following
  PROVE  /\ Applied(x) \in SessionStates /\ Owns(Applied(x))
         /\ Applied(x).at \in Following /\ Applied(x).user = x.user
         /\ Applied(x).at = "in" =>
              users[x.user].id # None /\ Applied(x).view = users[x.user].tree
<1>1. x.user \in Slots
  <2>1. x.user # 0 /\ x.user \in 0..MaxUsers
    BY DEF Owns, SessionStates, Counting
  <2>2. QED
    BY <2>1, Numbers
<1>2. users[x.user].tree \in Trees
  BY <1>1 DEF Types, UserStates
<1>3. {"in", "quitting"} \subseteq Phases
  BY DEF Phases, Counting, Following
<1>4. ASSUME NEW y \in SessionStates, y.at \in {"in", "quitting"}, y.name = x.name,
             y.user = x.user, y.copies = x.copies, y.queue = x.queue
      PROVE  y.at \in Following /\ Owns(y)
  <2>1. y.at \in Following
    BY <1>4 DEF Following
  <2>2. x.user # 0 /\ 0 \in DOMAIN x.copies /\ \A k \in DOMAIN x.queue : x.queue[k] = <<"changed", x.user>>
    BY Zenon DEF Owns, Counting
  <2>3. QED
    BY <1>4, <2>1, <2>2, FollowerOwns
<1>5. CASE users[x.user].id = None
  <2> DEFINE y == [x EXCEPT !.at = "quitting"]
  <2>1. Applied(x) = y
    BY <1>5 DEF Applied
  <2>2. /\ y \in SessionStates /\ y.at = "quitting" /\ y.name = x.name /\ y.user = x.user
        /\ y.copies = x.copies /\ y.queue = x.queue
    BY <1>3, ZenonT(30) DEF SessionStates
  <2> HIDE DEF y
  <2>3. QED
    BY <1>4, <2>1, <2>2
<1>6. CASE users[x.user].id # None
  <2> DEFINE t == users[x.user].tree
             y == [x EXCEPT !.at = "in", !.view = t]
  <2>1. Applied(x) = y
    BY <1>6 DEF Applied
  <2>2. t \in Trees
    BY <1>2
  <2> HIDE DEF t
  <2>3. /\ y \in SessionStates /\ y.at = "in" /\ y.name = x.name /\ y.user = x.user
        /\ y.copies = x.copies /\ y.queue = x.queue /\ y.view = t
    BY <1>3, <2>2, ZenonT(30) DEF SessionStates
  <2> HIDE DEF y
  <2>4. QED
    BY <1>4, <1>6, <2>1, <2>3 DEF t
<1>7. QED
  BY <1>5, <1>6

(* A session that has subscribed reads.                                       *)
LEMMA ApplyStep == ASSUME IInv, NEW s \in Sessions, Apply(s) PROVE IInv'
<1>1. sess[s] \in SessionStates /\ Owns(sess[s]) /\ Types
  BY DEF IInv, Types, Owned
<1>2. /\ sess[s].at \in Following /\ sess' = [sess EXCEPT ![s] = Applied(sess[s])]
      /\ UNCHANGED <<cfg, reloads, users, weak, limiter, quota, pend>>
  BY DEF Apply, Following
<1>3. /\ Applied(sess[s]) \in SessionStates /\ Owns(Applied(sess[s]))
      /\ Applied(sess[s]).at \in Following /\ Applied(sess[s]).user = sess[s].user
      /\ Applied(sess[s]).at = "in" =>
           users[sess[s].user].id # None /\ Applied(sess[s]).view = users[sess[s].user].tree
  BY <1>1, <1>2, AppliedFacts
<1>4. QED
  BY <1>2, <1>3, OneSession

(* A session is told of a change, and reads.                                  *)
LEMMA ChangedStep == ASSUME IInv, NEW s \in Sessions, Changed(s) PROVE IInv'
<1> DEFINE z == sess[s]
           q == Tail(z.queue)
           x == [z EXCEPT !.queue = q]
<1>1. z \in SessionStates /\ Owns(z) /\ Types
  BY DEF IInv, Types, Owned
<1>2. /\ z.at \in {"in", "quitting"} /\ z.queue # <<>>
      /\ sess' = [sess EXCEPT ![s] = IF Head(z.queue)[2] # x.user THEN x ELSE Applied(x)]
      /\ UNCHANGED <<cfg, reloads, users, weak, limiter, quota, pend>>
  BY DEF Changed
<1>3. /\ z.at \in Following /\ z.at \in Counting
      /\ z.at \notin {"out", "refused", "asked", "creating", "answered", "counted"}
  BY <1>2 DEF Following, Counting
<1>4. /\ z.user # 0 /\ 0 \in DOMAIN z.copies
      /\ \A k \in DOMAIN z.queue : z.queue[k] = <<"changed", z.user>>
  BY <1>1, <1>3, Zenon DEF Owns
<1>5. /\ q \in Queues /\ Head(z.queue) = z.queue[1] /\ 1 \in DOMAIN z.queue
      /\ \A k \in DOMAIN q : k + 1 \in DOMAIN z.queue /\ q[k] = z.queue[k + 1]
  <2>1. z.queue \in Seq(Events)
    BY <1>1 DEF SessionStates, Queues
  <2>2. Len(z.queue) \in Nat /\ Len(z.queue) >= 1 /\ DOMAIN z.queue = 1..Len(z.queue)
    BY <1>2, <2>1, SMT
  <2>3. /\ q \in Seq(Events) /\ Head(z.queue) = z.queue[1]
        /\ DOMAIN q = 1..Len(z.queue) - 1
        /\ \A k \in 1..Len(z.queue) - 1 : q[k] = z.queue[k + 1]
    BY <2>1, <2>2, <1>2, SMT
  <2>4. QED
    BY <2>2, <2>3, SMT DEF Queues
<1> HIDE DEF q
<1>6. /\ x \in SessionStates /\ x.at = z.at /\ x.name = z.name /\ x.user = z.user
      /\ x.copies = z.copies /\ x.queue = q
  BY <1>1, <1>5, ZenonT(30) DEF SessionStates
<1> HIDE DEF x
<1>7. \A k \in DOMAIN x.queue : x.queue[k] = <<"changed", x.user>>
  BY <1>4, <1>5, <1>6
<1>8. Owns(x)
  BY <1>3, <1>4, <1>6, <1>7, FollowerOwns
<1>9. Head(z.queue)[2] = x.user
  BY <1>4, <1>5, <1>6
<1>10. sess' = [sess EXCEPT ![s] = Applied(x)]
  BY <1>2, <1>9
<1>11. /\ Applied(x) \in SessionStates /\ Owns(Applied(x))
       /\ Applied(x).at \in Following /\ Applied(x).user = x.user
       /\ Applied(x).at = "in" =>
            users[x.user].id # None /\ Applied(x).view = users[x.user].tree
  BY <1>1, <1>3, <1>6, <1>8, AppliedFacts
<1>12. QED
  BY <1>2, <1>3, <1>6, <1>10, <1>11, OneSession

(* Somebody may lose a user, and with it perhaps the user's life.             *)
LEMMA OneLives ==
  ASSUME IInv, NEW s \in Sessions, NEW y \in SessionStates, Owns(y), y.at # "in",
         NEW U \in [Slots -> UserStates],
         \A i \in Slots : U[i].key = users[i].key /\ U[i].id = users[i].id /\ U[i].tree = users[i].tree,
         \A i \in Slots : \A t \in Sessions \ {s} : t \in U[i].subs <=> t \in users[i].subs,
         \A i \in Slots : s \in U[i].subs <=> y.user = i /\ y.at \in Following,
         sess' = [sess EXCEPT ![s] = y], y.user \in {sess[s].user, 0},
         users' = Living(U, sess', pend'), weak' = Valid(sess', pend'),
         UNCHANGED <<cfg, reloads, limiter, quota, pend>>
  PROVE  IInv'
<1>1. sess'[s] = y /\ \A t \in Sessions : t # s => sess'[t] = sess[t]
  BY DEF IInv, Types
<1>2. Alive' \subseteq Alive
  <2>1. ASSUME NEW i \in Slots, HeldBy(sess', pend', i) PROVE HeldBy(sess, pend, i)
    <3>1. i # 0
      BY Numbers
    <3>2. QED
      BY <1>1, <2>1, <3>1 DEF HeldBy
  <2>2. QED
    BY <2>1 DEF Alive
<1>3. /\ users' \in [Slots -> UserStates] /\ weak' \in [Names -> 0..MaxUsers]
      /\ \A i \in Alive' : users'[i] = U[i]
      /\ \A i \in Slots : i \notin Alive' => users'[i] = NoUser
      /\ Existing' /\ Found' /\ Listed'
  BY <1>2, LivingFacts
<1>4. Types'
  BY <1>3 DEF IInv, Types
<1>5. Owned'
  BY <1>1 DEF IInv, Owned
<1>6. \A t \in Sessions : sess'[t].user # 0 => sess'[t].user \in Alive'
  <2>1. Types' => \A t \in Sessions : sess'[t].user # 0 => sess'[t].user \in Slots
    BY Numbers DEF Types, SessionStates
  <2>2. QED
    BY <1>4, <2>1 DEF Alive, HeldBy
<1>7. Subscribed'
  <2> SUFFICES ASSUME NEW i \in Slots, NEW t \in Sessions
               PROVE  t \in users'[i].subs <=> sess'[t].user = i /\ sess'[t].at \in Following
    BY DEF Subscribed
  <2>1. t \in U[i].subs <=> sess'[t].user = i /\ sess'[t].at \in Following
    BY <1>1 DEF IInv, Subscribed
  <2>2. CASE i \in Alive'
    BY <1>3, <2>1, <2>2
  <2>3. CASE i \notin Alive'
    <3>1. sess'[t].user # i
      BY <1>6, <2>3, Numbers
    <3>2. NoUser.subs = {}
      BY DEF NoUser
    <3>3. users'[i].subs = {}
      BY <1>3, <2>3, <3>2
    <3>4. QED
      BY <3>1, <3>3
  <2>4. QED
    BY <2>2, <2>3
<1>8. Seen'
  <2> SUFFICES ASSUME NEW t \in Sessions, sess'[t].at = "in" PROVE Sees(t)'
    BY DEF Seen, Sees
  <2>1. t # s /\ sess'[t] = sess[t]
    BY <1>1
  <2>2. sess[t].user # 0
    <3>1. sess[t].at \in Counting
      BY <2>1 DEF Counting, Following
    <3>2. QED
      BY <3>1 DEF IInv, Owned, Owns
  <2>3. sess[t].user \in Alive' /\ sess[t].user \in Slots
    BY <1>2, <1>6, <2>1, <2>2 DEF Alive
  <2>4. /\ users'[sess[t].user].id = users[sess[t].user].id
        /\ users'[sess[t].user].tree = users[sess[t].user].tree
    BY <1>3, <2>3
  <2>5. QED
    BY <2>1, <2>4, SeesStays DEF IInv, Seen
<1>9. QED
  BY <1>3, <1>4, <1>5, <1>7, <1>8 DEF IInv

(* The limiters of a user are pairs of groups and times.                      *)
LEMMA CountedFacts ==
  ASSUME Types, NEW i \in Slots
  PROVE  /\ Counted(i) \in Copyings /\ 0 \in DOMAIN Counted(i)
<1> DEFINE x == users[i].extra
           D == {0} \cup DOMAIN x
<1>1. x \in Extras
  BY DEF Types, UserStates
<1>2. PICK E \in SUBSET Nat : x \in [E -> Limiters]
  BY <1>1 DEF Extras
<1>3. D \in SUBSET Nat /\ DOMAIN x = E /\ \A k \in E : x[k] \in Limiters
  <2>1. DOMAIN x = E /\ \A k \in E : x[k] \in Limiters
    BY <1>2
  <2>2. {0} \cup E \in SUBSET Nat
    BY SMT
  <2>3. QED
    BY <2>1, <2>2
<1>4. ASSUME NEW k \in D
      PROVE  (IF k = 0 THEN <<"user", i>> ELSE <<"group", x[k]>>) \in Counters
  BY <1>3 DEF Counters
<1>5. Counted(i) = [k \in D |-> IF k = 0 THEN <<"user", i>> ELSE <<"group", x[k]>>]
  BY DEF Counted
<1> HIDE DEF D
<1>6. Counted(i) \in [D -> Counters]
  BY <1>4, <1>5
<1>7. QED
  BY <1>3, <1>5, <1>6 DEF Copyings, D

(* A login's result is taken: counted, refused, or an error.                  *)
LEMMA TakeResultStep == ASSUME IInv, NEW s \in Sessions, TakeResult(s) PROVE IInv'
<1> DEFINE z == sess[s]
           q == Tail(z.queue)
           x == [z EXCEPT !.queue = q]
           i == Head(z.queue)[2]
           y1 == [x EXCEPT !.at = "out", !.name = None]
           y2 == [x EXCEPT !.at = "refused", !.user = 0, !.name = None]
           c  == Counted(i)
           y3 == [x EXCEPT !.at = "counted", !.copies = c]
           y  == IF i = 0 THEN y1 ELSE IF QuotaReached(i) THEN y2 ELSE y3
<1>1. z \in SessionStates /\ Owns(z) /\ Types
  BY DEF IInv, Types, Owned
<1>2. /\ z.at = "answered" /\ sess' = [sess EXCEPT ![s] = y]
      /\ users' = Living(users, sess', pend') /\ weak' = Valid(sess', pend')
      /\ UNCHANGED <<cfg, reloads, limiter, quota, pend>>
  BY DEF TakeResult
<1>3. z.at \notin {"out", "refused", "asked", "creating"} \cup Counting
  BY <1>2 DEF Counting, Following
<1>4. z.queue = <<<<"result", z.user>>>> /\ z.copies = <<>> /\ 0 \notin DOMAIN z.copies
  BY <1>1, <1>2, <1>3 DEF Owns
<1>5. i = z.user /\ q = <<>> /\ q \in Queues
  BY <1>4, SMT DEF Queues
<1>6. {"out", "refused", "counted"} \subseteq Phases /\ None \in NamesOrNone /\ 0 \in 0..MaxUsers
  BY Numbers, SMT DEF Phases, Counting, NamesOrNone
<1>7. z.user \in 0..MaxUsers /\ (i # 0 => i \in Slots)
  BY <1>1, <1>5, Numbers DEF SessionStates
<1>8. i # 0 => c \in Copyings /\ 0 \in DOMAIN c
  BY <1>1, <1>7, CountedFacts
<1>9. c # <<>> \/ i = 0
  BY <1>8, EmptyFunction
<1> HIDE DEF c, q
<1>10. /\ x \in SessionStates /\ x.user = z.user /\ x.copies = z.copies /\ x.queue = <<>>
  BY <1>1, <1>5, ZenonT(30) DEF SessionStates
<1> HIDE DEF x
<1>11. /\ y1 \in SessionStates /\ y1.at = "out" /\ y1.user = z.user
       /\ y1.copies = z.copies /\ y1.queue = <<>>
  BY <1>6, <1>10, ZenonT(30) DEF SessionStates
<1>12. /\ y2 \in SessionStates /\ y2.at = "refused" /\ y2.user = 0
       /\ y2.copies = z.copies /\ y2.queue = <<>>
  BY <1>6, <1>10, ZenonT(30) DEF SessionStates
<1>13. i # 0 => /\ y3 \in SessionStates /\ y3.at = "counted" /\ y3.user = z.user
                /\ y3.copies = c /\ y3.queue = <<>>
  BY <1>6, <1>8, <1>10, ZenonT(30) DEF SessionStates
<1>14. /\ "out" \notin {"asked", "creating", "answered"} \cup Counting
       /\ "refused" \notin {"asked", "creating", "answered"} \cup Counting
       /\ "counted" \notin {"out", "refused", "asked", "creating", "answered"} \cup Following
       /\ "counted" \in Counting /\ Following \subseteq Counting
  BY DEF Counting, Following
<1> HIDE DEF y1, y2, y3, i
<1>15. /\ y \in SessionStates /\ Owns(y) /\ y.at \notin Following /\ y.at # "in"
       /\ y.user \in {z.user, 0}
  <2>1. CASE i = 0
    <3>1. Owns(y1)
      BY <1>4, <1>5, <1>11, <1>14, <2>1 DEF Owns
    <3>2. QED
      BY <1>11, <1>14, <2>1, <3>1
  <2>2. CASE i # 0 /\ QuotaReached(i)
    <3>1. Owns(y2)
      BY <1>4, <1>12, <1>14 DEF Owns
    <3>2. QED
      BY <1>12, <1>14, <2>2, <3>1
  <2>3. CASE i # 0 /\ ~QuotaReached(i)
    <3>1. Owns(y3)
      BY <1>5, <1>8, <1>13, <1>14, <2>3 DEF Owns
    <3>2. QED
      BY <1>13, <1>14, <2>3, <3>1
  <2>4. QED
    BY <2>1, <2>2, <2>3
<1>16. ASSUME NEW j \in Slots PROVE s \in users[j].subs <=> y.user = j /\ y.at \in Following
  <2>1. z.at \notin Following
    BY <1>3, <1>14
  <2>2. QED
    BY <1>15, <2>1 DEF IInv, Subscribed
<1>17. users \in [Slots -> UserStates]
  BY <1>1 DEF Types
<1> HIDE DEF y
<1>18. QED
  BY <1>2, <1>15, <1>16, <1>17, OneLives

(* A session ends.                                                            *)
LEMMA LeaveStep == ASSUME IInv, NEW s \in Sessions, Leave(s) PROVE IInv'
<1> DEFINE U == [i \in Slots |-> [users[i] EXCEPT !.subs = @ \ {s}]]
<1>1. /\ sess' = [sess EXCEPT ![s] = Connected]
      /\ users' = Living(U, sess', pend') /\ weak' = Valid(sess', pend')
      /\ UNCHANGED <<cfg, reloads, limiter, quota, pend>>
  BY DEF Leave
<1>2. Connected \in SessionStates /\ Owns(Connected)
  BY ConnectedType
<1>3. Connected.at = "out" /\ Connected.user = 0
  BY DEF Connected
<1>4. ASSUME NEW i \in Slots
      PROVE  /\ U[i] \in UserStates /\ U[i].key = users[i].key /\ U[i].id = users[i].id
             /\ U[i].tree = users[i].tree /\ U[i].subs = users[i].subs \ {s}
  <2>1. users[i] \in UserStates
    BY DEF IInv, Types
  <2>2. users[i].subs \ {s} \in SUBSET Sessions
    BY <2>1 DEF UserStates
  <2> DEFINE v == users[i]
             S == v.subs \ {s}
             w == [v EXCEPT !.subs = S]
  <2>3. U[i] = w
    OBVIOUS
  <2> HIDE DEF S
  <2>4. w \in UserStates /\ w.key = v.key /\ w.id = v.id /\ w.tree = v.tree /\ w.subs = S
    BY <2>1, <2>2, ZenonT(30) DEF UserStates, S
  <2>5. QED
    BY <2>3, <2>4 DEF S
<1>5. U \in [Slots -> UserStates]
  BY <1>4
<1>6. Connected.at \notin Following /\ Connected.at # "in"
  BY <1>3 DEF Following
<1> HIDE DEF U
<1>7. \A i \in Slots : s \in U[i].subs <=> Connected.user = i /\ Connected.at \in Following
  BY <1>4, <1>6
<1>8. \A i \in Slots : \A t \in Sessions \ {s} : t \in U[i].subs <=> t \in users[i].subs
  BY <1>4
<1>9. \A i \in Slots : U[i].key = users[i].key /\ U[i].id = users[i].id /\ U[i].tree = users[i].tree
  BY <1>4
<1>10. Connected.user \in {sess[s].user, 0}
  BY <1>3
<1>11. QED
  BY <1>1, <1>2, <1>5, <1>6, <1>7, <1>8, <1>9, <1>10, OneLives

(* A session follows its user.                                                *)
LEMMA SubscribeStep == ASSUME IInv, NEW s \in Sessions, Subscribe(s) PROVE IInv'
<1> DEFINE x == sess[s]
           y == [x EXCEPT !.at = "subscribed"]
           u == x.user
           v == users[u]
           S == v.subs \cup {s}
           w == [v EXCEPT !.subs = S]
<1>1. x \in SessionStates /\ Owns(x)
  BY DEF IInv, Types, Owned
<1>2. /\ x.at = "counted" /\ sess' = [sess EXCEPT ![s] = y] /\ users' = [users EXCEPT ![u] = w]
      /\ UNCHANGED <<cfg, reloads, weak, limiter, quota, pend>>
  BY DEF Subscribe
<1>3. x.at \in Counting /\ x.at \notin {"out", "refused", "asked", "creating", "answered"} \cup Following
  BY <1>2 DEF Counting, Following
<1>4. u # 0 /\ x.queue = <<>> /\ 0 \in DOMAIN x.copies
  BY <1>1, <1>3 DEF Owns
<1>5. u \in Slots
  <2>1. u \in 0..MaxUsers
    BY <1>1 DEF SessionStates
  <2>2. QED
    BY <1>4, <2>1, Numbers
<1>6. "subscribed" \in Phases /\ "subscribed" \in Counting /\ "subscribed" \in Following
      /\ "subscribed" \notin {"out", "refused", "asked", "creating", "answered", "counted"}
  BY DEF Phases, Counting, Following
<1>7. v \in UserStates
  BY <1>5 DEF IInv, Types
<1>8. S \in SUBSET Sessions
  BY <1>7 DEF UserStates
<1> HIDE DEF S
<1>9. /\ w \in UserStates /\ w.key = v.key /\ w.id = v.id /\ w.tree = v.tree /\ w.subs = S
  BY <1>7, <1>8, ZenonT(30) DEF UserStates
<1>10. /\ y \in SessionStates /\ y.at = "subscribed" /\ y.user = u /\ y.copies = x.copies
       /\ y.queue = x.queue
  BY <1>1, <1>6, ZenonT(30) DEF SessionStates
<1> HIDE DEF y, w
<1>11. Owns(y)
  <2>1. \A k \in DOMAIN y.queue : y.queue[k] = <<"changed", y.user>>
    BY <1>4, <1>10, EmptyFunction
  <2>2. QED
    BY <1>4, <1>6, <1>10, <2>1, FollowerOwns
<1>12. sess'[s] = y /\ \A t \in Sessions : t # s => sess'[t] = sess[t]
  BY <1>2 DEF IInv, Types
<1>13. users'[u] = w /\ \A i \in Slots : i # u => users'[i] = users[i]
  BY <1>2, <1>5 DEF IInv, Types
<1>14. \A i \in Slots : users'[i].key = users[i].key /\ users'[i].id = users[i].id
                        /\ users'[i].tree = users[i].tree
  BY <1>9, <1>13
<1>15. \A t \in Sessions : sess'[t].user = sess[t].user
  BY <1>10, <1>12
<1>16. Alive' = Alive
  BY <1>2, <1>15 DEF Alive, HeldBy
<1>17. Types'
  <2>1. users' \in [Slots -> UserStates] /\ sess' \in [Sessions -> SessionStates]
    BY <1>2, <1>5, <1>9, <1>10 DEF IInv, Types
  <2>2. QED
    BY <1>2, <2>1 DEF IInv, Types
<1>18. Owned'
  BY <1>11, <1>12 DEF IInv, Owned
<1>19. Existing' /\ Found' /\ Listed'
  <2>1. Alive \subseteq Slots
    BY DEF Alive
  <2>2. \A n \in Names : weak'[n] = weak[n]
    BY <1>2
  <2>3. \A n \in Names : weak[n] # 0 => weak[n] \in Alive
    BY DEF IInv, Found
  <2>4. QED
    BY <1>2, <1>14, <1>16, <2>1, <2>2, <2>3, UsersStay
<1>20. Subscribed'
  <2> SUFFICES ASSUME NEW i \in Slots, NEW t \in Sessions
               PROVE  t \in users'[i].subs <=> sess'[t].user = i /\ sess'[t].at \in Following
    BY DEF Subscribed
  <2>1. t \in users[i].subs <=> sess[t].user = i /\ sess[t].at \in Following
    BY DEF IInv, Subscribed
  <2>2. CASE i = u
    <3>1. users'[i].subs = users[i].subs \cup {s}
      BY <1>9, <1>13, <2>2 DEF S
    <3>2. QED
      BY <1>6, <1>10, <1>12, <2>1, <2>2, <3>1
  <2>3. CASE i # u
    <3>1. users'[i].subs = users[i].subs
      BY <1>13, <2>3
    <3>2. QED
      BY <1>3, <1>10, <1>12, <2>1, <2>3, <3>1
  <2>4. QED
    BY <2>2, <2>3
<1>21. Seen'
  <2> SUFFICES ASSUME NEW t \in Sessions, sess'[t].at = "in" PROVE Sees(t)'
    BY DEF Seen, Sees
  <2>1. t # s /\ sess'[t] = sess[t]
    BY <1>10, <1>12
  <2>2. sess[t].user \in Slots
    <3>1. sess[t].at \in Counting
      BY <2>1 DEF Counting, Following
    <3>2. sess[t].user # 0 /\ sess[t].user \in 0..MaxUsers
      BY <3>1 DEF IInv, Owned, Owns, Types, SessionStates
    <3>3. QED
      BY <3>2, Numbers
  <2>3. QED
    BY <1>2, <1>14, <2>1, <2>2, SeesStays DEF IInv, Seen
<1>22. QED
  BY <1>17, <1>18, <1>19, <1>20, <1>21 DEF IInv

(* Sessions are told, and nothing else happens to them.                       *)
LEMMA ToldSessions ==
  ASSUME IInv, NEW is \in SUBSET Slots, sess' = Notified(sess, users, is)
  PROVE  /\ \A t \in Sessions : sess'[t] = Told(sess[t], is)
         /\ sess' \in [Sessions -> SessionStates] /\ Owned'
         /\ \A t \in Sessions :
              /\ sess'[t].at = sess[t].at /\ sess'[t].user = sess[t].user
              /\ sess'[t].copies = sess[t].copies /\ sess'[t].view = sess[t].view
              /\ Unheard(sess[t]) => Unheard(sess'[t])
              /\ sess[t].at \in Following /\ sess[t].user \in is => Unheard(sess'[t])
<1>1. sess \in [Sessions -> SessionStates] /\ \A t \in Sessions : Owns(sess[t])
  BY DEF IInv, Types, Owned
<1>2. \A i \in is, s \in Sessions : s \in users[i].subs <=> sess[s].user = i /\ sess[s].at \in Following
  BY DEF IInv, Subscribed
<1>3. sess' = [t \in Sessions |-> Told(sess[t], is)]
  BY <1>1, <1>2, NotifiedFacts
<1>4. \A t \in Sessions : sess'[t] = Told(sess[t], is)
  BY <1>3
<1>5. ASSUME NEW t \in Sessions
      PROVE  /\ sess'[t] \in SessionStates /\ Owns(sess'[t])
             /\ sess'[t].at = sess[t].at /\ sess'[t].user = sess[t].user
             /\ sess'[t].copies = sess[t].copies /\ sess'[t].view = sess[t].view
             /\ Unheard(sess[t]) => Unheard(sess'[t])
             /\ sess[t].at \in Following /\ sess[t].user \in is => Unheard(sess'[t])
  BY <1>1, <1>4, ToldFacts
<1>6. sess' \in [Sessions -> SessionStates]
  BY <1>3, <1>4, <1>5
<1>7. QED
  BY <1>4, <1>5, <1>6 DEF Owned

(* Who follows has a user.                                                    *)
LEMMA FollowersFacts ==
  ASSUME Types, Owned, NEW t \in Sessions, sess[t].at \in Following
  PROVE  sess[t].user \in Alive /\ sess[t].user \in Slots
<1>1. sess[t].user # 0 /\ sess[t].user \in 0..MaxUsers
  BY DEF Owned, Owns, Types, SessionStates, Counting
<1>2. sess[t].user \in Slots
  BY <1>1, Numbers
<1>3. QED
  BY <1>1, <1>2, AliveFacts

(* A change is announced.                                                     *)
LEMMA AnnounceStep == ASSUME IInv, NEW i \in Slots, Announce(i) PROVE IInv'
<1>1. /\ pend' = pend \ {i} /\ sess' = Notified(sess, users, {i})
      /\ users' = Living(users, sess', pend') /\ weak' = Valid(sess', pend')
      /\ UNCHANGED <<cfg, reloads, limiter, quota>>
  BY DEF Announce
<1>2. /\ sess' \in [Sessions -> SessionStates] /\ Owned'
      /\ \A t \in Sessions :
           /\ sess'[t].at = sess[t].at /\ sess'[t].user = sess[t].user
           /\ sess'[t].copies = sess[t].copies /\ sess'[t].view = sess[t].view
           /\ Unheard(sess[t]) => Unheard(sess'[t])
           /\ sess[t].at \in Following /\ sess[t].user \in {i} => Unheard(sess'[t])
  BY <1>1, ToldSessions
<1>3. Alive' \subseteq Alive
  BY <1>1, <1>2 DEF Alive, HeldBy
<1>4. users \in [Slots -> UserStates]
  BY DEF IInv, Types
<1>5. /\ users' \in [Slots -> UserStates] /\ weak' \in [Names -> 0..MaxUsers]
      /\ \A j \in Alive' : users'[j] = users[j]
      /\ \A j \in Slots : j \notin Alive' => users'[j] = NoUser
      /\ Existing' /\ Found' /\ Listed'
  BY <1>1, <1>3, <1>4, LivingFacts
<1>6. Types'
  BY <1>1, <1>2, <1>5 DEF IInv, Types
<1>7. \A t \in Sessions : sess'[t].user \in Slots => sess'[t].user \in Alive'
  BY DEF Alive, HeldBy
<1>8. Subscribed'
  <2> SUFFICES ASSUME NEW j \in Slots, NEW t \in Sessions
               PROVE  t \in users'[j].subs <=> sess'[t].user = j /\ sess'[t].at \in Following
    BY DEF Subscribed
  <2>1. t \in users[j].subs <=> sess[t].user = j /\ sess[t].at \in Following
    BY DEF IInv, Subscribed
  <2>2. CASE j \in Alive'
    BY <1>2, <1>5, <2>1, <2>2
  <2>3. CASE j \notin Alive'
    <3>1. sess'[t].user # j
      BY <1>7, <2>3
    <3>2. NoUser.subs = {}
      BY DEF NoUser
    <3>3. QED
      BY <1>5, <2>3, <3>1, <3>2
  <2>4. QED
    BY <2>2, <2>3
<1>9. Seen'
  <2> SUFFICES ASSUME NEW t \in Sessions, sess'[t].at = "in" PROVE Sees(t)'
    BY DEF Seen, Sees
  <2>1. sess[t].at = "in" /\ sess[t].at \in Following
    BY <1>2 DEF Following
  <2>2. sess[t].user \in Slots
    BY <2>1, FollowersFacts DEF IInv
  <2>3. sess[t].user \in Alive'
    BY <1>2, <1>7, <2>2
  <2>4. users'[sess[t].user] = users[sess[t].user]
    BY <1>5, <2>3
  <2>5. sess[t].user \in pend => sess[t].user \in pend' \/ Unheard(sess'[t])
    BY <1>1, <1>2, <2>1
  <2>6. QED
    BY <1>2, <2>1, <2>4, <2>5, SeesStays DEF IInv, Seen
<1>10. QED
  BY <1>2, <1>5, <1>6, <1>8, <1>9 DEF IInv
-----------------------------------------------------------------------------
(* The settings                                                               *)

(* The groups a user is in exist.                                             *)
LEMMA GroupFacts ==
  ASSUME NEW c \in DOMAIN Configs, NEW n \in AllNames
  PROVE  /\ References(c, n) \in SUBSET Nat /\ EntryOf(c, n).limit \in Nat
         /\ \A k \in References(c, n) : EntryOf(c, n).groups[k] \in GroupsOf(c, n)
         /\ GroupsOf(c, n) \subseteq Groups
         /\ \A g \in GroupsOf(c, n) : Configs[c].limits[g] >= 0
<1> DEFINE gs == EntryOf(c, n).groups
<1>1. gs \in Seq(Groups) /\ EntryOf(c, n).limit \in Nat
  BY UsersAssumption DEF WellFormed, EntryOf, AllNames
<1>2. References(c, n) = {k \in DOMAIN gs : Configs[c].limits[gs[k]] >= 0}
  BY DEF References
<1>3. GroupsOf(c, n) = {gs[k] : k \in References(c, n)}
  BY DEF GroupsOf
<1> HIDE DEF gs
<1>4. DOMAIN gs \in SUBSET Nat /\ \A k \in DOMAIN gs : gs[k] \in Groups
  BY <1>1, SMT
<1>5. QED
  BY <1>1, <1>2, <1>3, <1>4 DEF gs

(* Limiters that are made are for the groups that need one.                   *)
LEMMA MadeFacts ==
  ASSUME NEW lim \in [Groups -> -1..MaxReloads], NEW gs \in SUBSET Groups, NEW now \in 0..MaxReloads
  PROVE  /\ Made(lim, gs, now) \in [Groups -> -1..MaxReloads]
         /\ \A g \in gs : Made(lim, gs, now)[g] \in 0..MaxReloads
         /\ \A g \in Groups : Made(lim, gs, now)[g] >= 0 => lim[g] >= 0 \/ g \in gs
<1>1. \A g \in Groups : Made(lim, gs, now)[g] = IF lim[g] < 0 /\ g \in gs THEN now ELSE lim[g]
  BY DEF Made
<1>2. ASSUME NEW g \in Groups
      PROVE  /\ Made(lim, gs, now)[g] \in -1..MaxReloads
             /\ g \in gs => Made(lim, gs, now)[g] \in 0..MaxReloads
             /\ Made(lim, gs, now)[g] >= 0 => lim[g] >= 0 \/ g \in gs
  <2>1. lim[g] \in -1..MaxReloads /\ MaxReloads \in Nat
    BY Numbers
  <2>2. QED
    BY <1>1, <2>1, SMT
<1>3. Made(lim, gs, now) \in [Groups -> -1..MaxReloads]
  BY <1>2 DEF Made
<1>4. QED
  BY <1>2, <1>3

(* Limits are numbers.                                                        *)
LEMMA QuotasFacts ==
  ASSUME Types, NEW lim \in [Groups -> -1..MaxReloads], NEW c \in DOMAIN Configs,
         \A g \in Groups : lim[g] >= 0 => Configs[c].limits[g] >= 0
  PROVE  Quotas(lim, c) \in [Limiters -> Nat]
<1>1. ASSUME NEW l \in Limiters
      PROVE  (IF lim[l[1]] = l[2] THEN Configs[c].limits[l[1]] ELSE quota[l]) \in Nat
  <2>1. l[1] \in Groups /\ l[2] \in 0..MaxReloads /\ quota[l] \in Nat
    BY DEF Limiters, Types
  <2>2. Configs[c].limits[l[1]] \in Int
    BY <2>1, UsersAssumption DEF WellFormed
  <2>3. lim[l[1]] = l[2] => Configs[c].limits[l[1]] >= 0
    BY <2>1, Numbers, SMT
  <2>4. QED
    BY <2>1, <2>2, <2>3, SMT
<1>2. QED
  BY <1>1 DEF Quotas

(* A user with new settings is the same user.                                 *)
LEMMA UpdatedFacts ==
  ASSUME NEW u \in UserStates, u.id \in AllNames, NEW c \in DOMAIN Configs,
         NEW lim, \A g \in GroupsOf(c, u.id) : lim[g] \in 0..MaxReloads, NEW home \in Tokens
  PROVE  /\ updated(u, c, lim, home) \in UserStates
         /\ updated(u, c, lim, home).key = u.key /\ updated(u, c, lim, home).id = u.id
         /\ updated(u, c, lim, home).subs = u.subs /\ updated(u, c, lim, home).tree.of = c
<1> DEFINE gs == EntryOf(c, u.id).groups
           t  == [of |-> c, home |-> home]
           n  == EntryOf(c, u.id).limit
           e  == [k \in References(c, u.id) |-> <<gs[k], lim[gs[k]]>>]
           x  == [u EXCEPT !.tree = t, !.limit = n, !.extra = e]
<1>1. updated(u, c, lim, home) = x
  BY DEF updated
<1>2. t \in Trees /\ t.of = c /\ n \in Nat
  BY GroupFacts DEF Trees
<1>3. e \in Extras
  <2>1. \A k \in References(c, u.id) : <<gs[k], lim[gs[k]]>> \in Limiters
    BY GroupFacts DEF Limiters
  <2>2. References(c, u.id) \in SUBSET Nat
    BY GroupFacts
  <2> HIDE DEF gs
  <2>3. e \in [References(c, u.id) -> Limiters]
    BY <2>1
  <2>4. QED
    BY <2>2, <2>3 DEF Extras
<1> HIDE DEF t, n, e
<1>4. /\ x \in UserStates /\ x.key = u.key /\ x.id = u.id /\ x.token = u.token
      /\ x.subs = u.subs /\ x.tree = t /\ x.extra = e
  BY <1>2, <1>3, ZenonT(30) DEF UserStates
<1> HIDE DEF x
<1>5. QED
  BY <1>1, <1>2, <1>4 DEF e

(* The name and the token of a login.                                         *)
LEMMA EntryFacts ==
  ASSUME Types, NEW n \in Names
  PROVE  EntryFor(cfg, n) \in AllNames /\ TokenFor(cfg, n) \in Tokens
<1>1. EntryFor(cfg, n) \in AllNames /\ cfg \in DOMAIN Configs
  BY DEF EntryFor, AllNames, Types
<1>2. EntryOf(cfg, EntryFor(cfg, n)).own \in Tokens
  <2>1. Configs[cfg].users[EntryFor(cfg, n)].own \in {Configs[cfg].users[m].own : m \in AllNames}
    BY <1>1, Zenon
  <2>2. QED
    BY <1>1, <2>1, Zenon DEF EntryOf, Tokens
<1>3. n \in Tokens /\ Configs[cfg].default \in Tokens
  BY <1>1 DEF Tokens
<1>4. QED
  BY <1>1, <1>2, <1>3 DEF TokenFor

(* PASS, of somebody who shares the user there is.                            *)
LEMMA JoinStep ==
  ASSUME IInv, NEW s \in Sessions, Join(s, Shared(sess[s].name)), sess[s].at = "asked",
         UNCHANGED <<cfg, reloads, pend>>
  PROVE  IInv'
<1> DEFINE x == sess[s]
           i == weak[x.name]
           y == [x EXCEPT !.at = "creating", !.user = i]
<1>1. x \in SessionStates /\ Owns(x)
  BY DEF IInv, Types, Owned
<1>2. /\ i # 0 /\ sess' = [sess EXCEPT ![s] = y]
      /\ UNCHANGED <<cfg, reloads, users, weak, limiter, quota, pend>>
  BY DEF Join, Shared
<1>3. x.at \notin {"creating", "answered"} \cup Counting
  BY DEF Counting, Following
<1>4. x.name \in Names /\ x.user = 0 /\ x.queue = <<>> /\ x.copies = <<>> /\ 0 \notin DOMAIN x.copies
  BY <1>1, <1>3 DEF Owns, Counting
<1>5. i \in Alive /\ i \in 0..MaxUsers /\ "creating" \in Phases
  BY <1>2, <1>4 DEF IInv, Found, Types, Phases
<1> HIDE DEF i
<1>6. /\ y \in SessionStates /\ y.at = "creating" /\ y.user = i /\ y.name = x.name
      /\ y.copies = x.copies /\ y.queue = x.queue
  BY <1>1, <1>5, ZenonT(30) DEF SessionStates
<1> HIDE DEF y
<1>7. y.at \notin {"answered"} \cup Counting
  BY <1>6 DEF Counting, Following
<1>8. Owns(y)
  BY <1>2, <1>4, <1>6, <1>7 DEF Owns, Counting
<1>9. x.at \notin Following /\ y.at \notin Following /\ y.at # "in"
  BY <1>3, <1>6, <1>7 DEF Counting
<1>10. QED
  BY <1>2, <1>4, <1>5, <1>6, <1>8, <1>9, OneSession

(* PASS, of somebody for whom a user is made; the one there was is let go.    *)
LEMMA MakeStep ==
  ASSUME IInv, NEW s \in Sessions, Make(s, Shared(sess[s].name)), sess[s].at = "asked",
         UNCHANGED <<cfg, reloads, pend>>
  PROVE  IInv'
<1> DEFINE x   == sess[s]
           n   == x.name
           old == weak[n]
           e   == EntryFor(cfg, n)
           lim == Made(limiter, GroupsOf(cfg, e), reloads)
           i   == CHOOSE j \in Slots : j \notin Alive
           new == [NoUser EXCEPT !.key = n, !.id = e]
           made == updated(new, cfg, lim, NoToken)
           token == TokenFor(cfg, n)
           N    == [made EXCEPT !.token = token]
           told == IF old = 0 THEN sess ELSE Notified(sess, users, {old})
           left == IF old = 0 THEN users ELSE [users EXCEPT ![old].id = None]
           S    == told[s]
           y    == [S EXCEPT !.at = "creating", !.user = i]
<1>1. x \in SessionStates /\ Owns(x) /\ Types /\ Owned
  BY DEF IInv, Types, Owned
<1>2. /\ Slots \ Alive # {}
      /\ users' = [left EXCEPT ![i] = N] /\ weak' = [weak EXCEPT ![n] = i]
      /\ limiter' = lim /\ quota' = Quotas(lim, cfg)
      /\ sess' = [told EXCEPT ![s] = y]
  BY DEF Make, Shared
<1>3. i \in Slots /\ i \notin Alive /\ i # 0 /\ i \in 0..MaxUsers
  <2>1. \E j \in Slots : j \notin Alive
    BY <1>2
  <2>2. i \in Slots /\ i \notin Alive
    BY <2>1
  <2>3. QED
    BY <2>2, Numbers
<1> HIDE DEF i
<1>4. x.at \notin {"creating", "answered"} \cup Counting
  BY DEF Counting, Following
<1>5. n \in Names /\ x.user = 0 /\ x.queue = <<>> /\ x.copies = <<>> /\ 0 \notin DOMAIN x.copies
  BY <1>1, <1>4 DEF Owns, Counting
<1>6. e \in AllNames /\ token \in Tokens /\ cfg \in DOMAIN Configs /\ NoToken \in Tokens
  BY <1>1, <1>5, EntryFacts DEF Types, Tokens
<1>7. /\ lim \in [Groups -> -1..MaxReloads]
      /\ \A g \in GroupsOf(cfg, e) : lim[g] \in 0..MaxReloads
      /\ \A g \in Groups : lim[g] >= 0 => limiter[g] >= 0 \/ g \in GroupsOf(cfg, e)
  BY <1>1, <1>6, GroupFacts, MadeFacts DEF Types
<1> HIDE DEF lim
<1>8. \A g \in Groups : lim[g] >= 0 => Configs[cfg].limits[g] >= 0
  BY <1>6, <1>7, GroupFacts DEF IInv, Existing
<1>9. quota' \in [Limiters -> Nat]
  BY <1>1, <1>2, <1>6, <1>7, <1>8, QuotasFacts
<1>10. /\ N \in UserStates /\ N.key = n /\ N.id = e /\ N.subs = {} /\ N.tree.of = cfg
  <2>1. n \in NamesOrNone /\ e \in AllNames \cup {None} /\ NoUser.subs = {}
    BY <1>5, <1>6 DEF NamesOrNone, NoUser
  <2> HIDE DEF e, n
  <2>2. new \in UserStates /\ new.key = n /\ new.id = e /\ new.subs = {}
    BY <2>1, NoUserType, ZenonT(30) DEF UserStates
  <2> HIDE DEF new
  <2>3. /\ made \in UserStates /\ made.key = n /\ made.id = e /\ made.subs = {}
        /\ made.tree.of = cfg
    <3>1. new.id \in AllNames /\ \A g \in GroupsOf(cfg, new.id) : lim[g] \in 0..MaxReloads
      BY <1>6, <1>7, <2>2
    <3>2. /\ made \in UserStates /\ made.key = new.key /\ made.id = new.id
          /\ made.subs = new.subs /\ made.tree.of = cfg
      BY <1>6, <2>2, <3>1, UpdatedFacts
    <3>3. QED
      BY <2>2, <3>2
  <2> HIDE DEF made, token
  <2>4. N \in UserStates /\ N.key = made.key /\ N.id = made.id /\ N.subs = made.subs /\ N.tree = made.tree
    BY <1>6, <2>3, ZenonT(30) DEF UserStates
  <2>5. QED
    BY <2>3, <2>4
<1> HIDE DEF N, e, token
<1>11. e # None
  BY <1>6, Numbers
<1>12. old # 0 => old \in Alive /\ old \in Slots /\ users[old].key = n /\ old # i
  BY <1>3, <1>5 DEF IInv, Found, Alive
<1> DEFINE is == {old} \ {0}
<1>13. is \in SUBSET Slots
  BY <1>12
<1>14. /\ told \in [Sessions -> SessionStates]
       /\ \A t \in Sessions :
            /\ Owns(told[t])
            /\ told[t] = Told(sess[t], is)
            /\ told[t].at = sess[t].at /\ told[t].user = sess[t].user
            /\ told[t].copies = sess[t].copies /\ told[t].view = sess[t].view
            /\ Unheard(sess[t]) => Unheard(told[t])
            /\ sess[t].at \in Following /\ sess[t].user \in is => Unheard(told[t])
  <2>1. \A t \in Sessions : sess[t] \in SessionStates /\ Owns(sess[t])
    BY <1>1 DEF Types, Owned
  <2>2. \A j \in is, t \in Sessions : t \in users[j].subs <=> sess[t].user = j /\ sess[t].at \in Following
    BY <1>13 DEF IInv, Subscribed
  <2>3. told = [t \in Sessions |-> Told(sess[t], is)]
    <3>1. sess \in [Sessions -> SessionStates]
      BY <1>1 DEF Types
    <3>2. CASE old = 0
      <4>1. \A t \in Sessions : Told(sess[t], is) = sess[t]
        BY <3>2 DEF Told
      <4>2. QED
        BY <3>1, <3>2, <4>1
    <3>3. CASE old # 0
      <4>1. is = {old}
        BY <3>3
      <4> HIDE DEF is
      <4>2. Notified(sess, users, is) = [t \in Sessions |-> Told(sess[t], is)]
        BY <1>13, <2>2, <3>1, NotifiedFacts
      <4>3. QED
        BY <3>3, <4>1, <4>2
    <3>4. QED
      BY <3>2, <3>3
  <2> HIDE DEF told, is
  <2>4. \A t \in Sessions :
            /\ told[t] \in SessionStates /\ Owns(told[t])
            /\ told[t] = Told(sess[t], is)
            /\ told[t].at = sess[t].at /\ told[t].user = sess[t].user
            /\ told[t].copies = sess[t].copies /\ told[t].view = sess[t].view
            /\ Unheard(sess[t]) => Unheard(told[t])
            /\ sess[t].at \in Following /\ sess[t].user \in is => Unheard(told[t])
    BY <1>13, <2>1, <2>3, ToldFacts
  <2>5. QED
    BY <2>3, <2>4
<1>15. S = x
  BY <1>4, <1>14 DEF Told, Counting
<1> HIDE DEF told
<1>16. sess'[s] = y /\ \A t \in Sessions : t # s => sess'[t] = told[t]
  BY <1>2, <1>14
<1> HIDE DEF S
<1>17. "creating" \in Phases
  BY DEF Phases
<1>18. /\ y \in SessionStates /\ y.at = "creating" /\ y.user = i /\ y.name = n
       /\ y.copies = x.copies /\ y.queue = x.queue
  <2>1. S \in SessionStates /\ S.name = n /\ S.copies = x.copies /\ S.queue = x.queue
    BY <1>1, <1>15
  <2>2. /\ y \in SessionStates /\ y.at = "creating" /\ y.user = i /\ y.name = S.name
        /\ y.copies = S.copies /\ y.queue = S.queue
    BY <1>3, <1>17, <2>1, ZenonT(30) DEF SessionStates
  <2>3. QED
    BY <2>1, <2>2
<1> HIDE DEF y
<1>19. y.at \notin {"answered"} \cup Counting
  BY <1>18 DEF Counting, Following
<1>20. Owns(y)
  BY <1>3, <1>5, <1>18, <1>19 DEF Owns, Counting
<1>21. /\ users'[i] = N
       /\ \A j \in Slots : j # i => /\ users'[j].key = users[j].key /\ users'[j].subs = users[j].subs
                                    /\ users'[j].tree = users[j].tree
                                    /\ users'[j].id = IF j = old THEN None ELSE users[j].id
       /\ users' \in [Slots -> UserStates]
  <2>1. users \in [Slots -> UserStates] /\ None \in AllNames \cup {None} /\ 0 \notin Slots
    BY <1>1, Numbers DEF Types
  <2>2. /\ left \in [Slots -> UserStates]
        /\ \A j \in Slots : /\ left[j].key = users[j].key /\ left[j].subs = users[j].subs
                            /\ left[j].tree = users[j].tree
                            /\ left[j].id = IF j = old THEN None ELSE users[j].id
    <3>1. CASE old = 0
      BY <2>1, <3>1
    <3>2. CASE old # 0
      <4> DEFINE v == users[old]
                 w == [v EXCEPT !.id = None]
      <4>1. left = [users EXCEPT ![old] = w]
        BY <3>2
      <4>2. old \in Slots /\ v \in UserStates
        BY <1>12, <2>1, <3>2
      <4>3. w \in UserStates /\ w.key = v.key /\ w.subs = v.subs /\ w.tree = v.tree /\ w.id = None
        BY <2>1, <4>2, ZenonT(30) DEF UserStates
      <4> HIDE DEF w, left
      <4>4. left[old] = w /\ \A j \in Slots : j # old => left[j] = users[j]
        BY <2>1, <4>1, <4>2
      <4>5. left \in [Slots -> UserStates]
        BY <2>1, <4>1, <4>2, <4>3
      <4>6. QED
        BY <4>3, <4>4, <4>5
    <3>3. QED
      BY <3>1, <3>2
  <2> HIDE DEF left
  <2>3. users'[i] = N /\ \A j \in Slots : j # i => users'[j] = left[j]
    BY <1>2, <1>3, <2>2
  <2>4. users' \in [Slots -> UserStates]
    BY <1>2, <1>3, <1>10, <2>2
  <2>5. QED
    BY <2>2, <2>3, <2>4
<1> HIDE DEF left
<1>22. weak'[n] = i /\ weak' \in [Names -> 0..MaxUsers]
       /\ \A m \in Names : m # n => weak'[m] = weak[m]
  BY <1>1, <1>2, <1>3, <1>5 DEF Types
<1>23. \A t \in Sessions : t # s => /\ sess'[t].at = sess[t].at /\ sess'[t].user = sess[t].user
                                    /\ sess'[t].view = sess[t].view
                                    /\ Unheard(sess[t]) => Unheard(sess'[t])
  BY <1>14, <1>16
<1>24. Alive' = Alive \cup {i}
  <2>1. ASSUME NEW j \in Slots
        PROVE  HeldBy(sess', pend', j) <=> HeldBy(sess, pend, j) \/ j = i
    <3>1. j # 0
      BY Numbers
    <3>2. CASE HeldBy(sess, pend, j)
      <4>1. CASE j \in pend
        BY <4>1 DEF HeldBy
      <4>2. CASE j \notin pend
        <5>1. PICK t \in Sessions : sess[t].user = j
          BY <3>2, <4>2 DEF HeldBy
        <5>2. t # s
          BY <1>5, <3>1, <5>1
        <5>3. QED
          BY <1>23, <5>1, <5>2 DEF HeldBy
      <4>3. QED
        BY <4>1, <4>2
    <3>3. CASE j = i
      BY <1>16, <1>18, <3>3 DEF HeldBy
    <3>4. CASE ~HeldBy(sess, pend, j) /\ j # i
      <4>1. \A t \in Sessions : sess'[t].user # j
        BY <1>16, <1>18, <1>23, <3>4 DEF HeldBy
      <4>2. QED
        BY <3>4, <4>1 DEF HeldBy
    <3>5. QED
      BY <3>2, <3>3, <3>4
  <2>2. QED
    BY <1>3, <2>1 DEF Alive
<1>25. Types'
  <2>1. sess' \in [Sessions -> SessionStates]
    BY <1>2, <1>14, <1>18
  <2>2. QED
    BY <1>1, <1>2, <1>7, <1>9, <1>21, <1>22, <2>1 DEF Types
<1>26. Existing'
  BY <1>2, <1>8 DEF Existing
<1>27. Owned'
  BY <1>14, <1>16, <1>20 DEF Owned
<1>28. Subscribed'
  <2> SUFFICES ASSUME NEW j \in Slots, NEW t \in Sessions
               PROVE  t \in users'[j].subs <=> sess'[t].user = j /\ sess'[t].at \in Following
    BY DEF Subscribed
  <2>1. t \in users[j].subs <=> sess[t].user = j /\ sess[t].at \in Following
    BY DEF IInv, Subscribed
  <2>2. y.at \notin Following /\ x.at \notin Following
    BY <1>4, <1>19 DEF Counting
  <2>3. CASE j = i
    <3>1. sess[t].user # i
      BY <1>3, <1>1, AliveFacts
    <3>2. QED
      BY <1>10, <1>16, <1>21, <1>23, <2>2, <2>3, <3>1
  <2>4. CASE j # i
    BY <1>16, <1>21, <1>23, <2>1, <2>2, <2>4
  <2>5. QED
    BY <2>3, <2>4
<1>29. Found'
  <2> SUFFICES ASSUME NEW m \in Names, weak'[m] # 0
               PROVE  weak'[m] \in Alive' /\ users'[weak'[m]].key = m /\ users'[weak'[m]].id # None
    BY DEF Found
  <2>1. CASE m = n
    BY <1>10, <1>11, <1>21, <1>22, <1>24, <2>1
  <2>2. CASE m # n
    <3>1. weak'[m] = weak[m] /\ weak[m] # 0
      BY <1>22, <2>2
    <3>2. weak[m] \in Alive /\ weak[m] \in Slots /\ users[weak[m]].key = m /\ users[weak[m]].id # None
      BY <3>1, <1>1, AliveFacts DEF IInv, Found
    <3>3. weak[m] # i /\ weak[m] # old
      <4>1. weak[m] # i
        BY <1>3, <3>2
      <4>2. weak[m] # old
        BY <1>12, <2>2, <3>1, <3>2
      <4>3. QED
        BY <4>1, <4>2
    <3>4. QED
      BY <1>21, <1>24, <3>1, <3>2, <3>3
  <2>3. QED
    BY <2>1, <2>2
<1>30. Listed'
  <2> SUFFICES ASSUME NEW j \in Alive', users'[j].id # None
               PROVE  /\ users'[j].key \in Names /\ weak'[users'[j].key] = j
                      /\ users'[j].tree.of = cfg'
    BY DEF Listed
  <2>1. CASE j = i
    BY <1>5, <1>10, <1>21, <1>22, <2>1
  <2>2. CASE j # i
    <3>1. j \in Alive /\ j \in Slots
      BY <1>1, <1>24, <2>2, AliveFacts
    <3>2. j # old /\ users[j].id # None /\ users'[j].key = users[j].key /\ users'[j].tree = users[j].tree
      BY <1>21, <2>2, <3>1
    <3>3. users[j].key \in Names /\ weak[users[j].key] = j /\ users[j].tree.of = cfg
      BY <3>1, <3>2 DEF IInv, Listed
    <3>4. users[j].key # n
      BY <3>2, <3>3
    <3>5. QED
      BY <1>22, <3>2, <3>3, <3>4
  <2>3. QED
    BY <2>1, <2>2
<1>31. Seen'
  <2> SUFFICES ASSUME NEW t \in Sessions, sess'[t].at = "in" PROVE Sees(t)'
    BY DEF Seen, Sees
  <2>1. t # s
    BY <1>16, <1>18
  <2>2. sess[t].at = "in" /\ sess[t].at \in Following
    BY <1>23, <2>1 DEF Following
  <2>3. sess[t].user \in Alive /\ sess[t].user \in Slots
    BY <1>1, <2>2, FollowersFacts
  <2>4. CASE sess[t].user = old
    <3>1. Unheard(sess'[t])
      <4>1. old # 0
        BY <2>3, <2>4, Numbers
      <4>2. QED
        BY <1>14, <1>16, <2>1, <2>2, <2>4, <4>1
    <3>2. QED
      BY <3>1 DEF Sees, Untold, Unheard
  <2>5. CASE sess[t].user # old
    <3>1. sess[t].user # i
      BY <1>3, <2>3
    <3>2. /\ users'[sess[t].user].id = users[sess[t].user].id
          /\ users'[sess[t].user].tree = users[sess[t].user].tree
      BY <1>21, <2>3, <2>5, <3>1
    <3>3. QED
      BY <1>23, <2>1, <2>2, <3>2, SeesStays DEF IInv, Seen
  <2>6. QED
    BY <2>4, <2>5
<1>32. QED
  BY <1>25, <1>26, <1>27, <1>28, <1>29, <1>30, <1>31 DEF IInv

(* PASS, of somebody who may log in.                                          *)
LEMMA VerifyStep == ASSUME IInv, NEW s \in Sessions, Verify(s) PROVE IInv'
BY JoinStep, MakeStep DEF Verify

(* The administrator changes the settings.                                    *)
LEMMA ReloadStep == ASSUME IInv, NEW c \in DOMAIN Configs, Reload(c) PROVE IInv'
<1> DEFINE known == {i \in Alive : \E n \in Names : weak[n] = i}
           stay  == {i \in known : MayStay(c, i)}
           gone  == known \ stay
           kept  == Kept(limiter, c)
           need  == UNION {GroupsOf(c, users[i].id) : i \in stay}
           gs    == Made(kept, need, reloads + 1)
<1>1. /\ reloads < MaxReloads /\ cfg' = c /\ reloads' = reloads + 1
      /\ limiter' = gs /\ quota' = Quotas(gs, c)
      /\ users' = [i \in Slots |->
           IF i \in stay THEN updated(users[i], c, gs, users[i].token)
           ELSE IF i \in gone THEN [users[i] EXCEPT !.id = None] ELSE users[i]]
      /\ weak' = [n \in Names |-> IF weak[n] \in stay THEN weak[n] ELSE 0]
      /\ sess' = Notified(sess, users, gone)
      /\ pend' = pend \cup stay
  BY DEF Reload
<1>2. Types /\ Owned /\ users \in [Slots -> UserStates]
  BY DEF IInv, Types
<1>3. known \subseteq Alive /\ Alive \subseteq Slots /\ stay \subseteq known /\ gone \in SUBSET Slots
  BY DEF Alive
<1>4. \A i \in known : users[i].id # None /\ users[i].id \in AllNames
  <2> SUFFICES ASSUME NEW i \in known PROVE users[i].id # None /\ users[i].id \in AllNames
    OBVIOUS
  <2>1. PICK n \in Names : weak[n] = i
    OBVIOUS
  <2>2. i \in Slots /\ i # 0
    BY <1>3, Numbers
  <2>3. users[i].id # None
    BY <2>1, <2>2 DEF IInv, Found
  <2>4. users[i].id \in AllNames \cup {None}
    BY <1>2, <2>2 DEF UserStates
  <2>5. QED
    BY <2>3, <2>4
<1>5. \A i \in Alive : users[i].id # None => i \in known
  BY DEF IInv, Listed
<1>6. \A i \in Slots : i \in stay => i \notin gone
  OBVIOUS
<1> HIDE DEF known, stay, gone
<1>7. /\ kept \in [Groups -> -1..MaxReloads]
      /\ \A g \in Groups : kept[g] >= 0 => Configs[c].limits[g] >= 0
  <2>1. \A g \in Groups : kept[g] = IF Configs[c].limits[g] < 0 THEN -1 ELSE limiter[g]
    BY DEF Kept
  <2>2. ASSUME NEW g \in Groups
        PROVE  kept[g] \in -1..MaxReloads /\ (kept[g] >= 0 => Configs[c].limits[g] >= 0)
    <3>1. limiter[g] \in -1..MaxReloads /\ MaxReloads \in Nat /\ Configs[c].limits[g] \in Int
      BY <1>2, Numbers, UsersAssumption DEF Types, WellFormed
    <3>2. QED
      BY <2>1, <3>1, SMT
  <2>3. kept \in [Groups -> -1..MaxReloads]
    BY <2>2 DEF Kept
  <2>4. QED
    BY <2>2, <2>3
<1>8. need \in SUBSET Groups /\ \A g \in need : Configs[c].limits[g] >= 0
  <2> SUFFICES ASSUME NEW i \in stay, NEW g \in GroupsOf(c, users[i].id)
               PROVE  g \in Groups /\ Configs[c].limits[g] >= 0
    OBVIOUS
  <2>1. users[i].id \in AllNames
    BY <1>3, <1>4
  <2>2. QED
    BY <2>1, GroupFacts
<1>9. \A i \in stay : GroupsOf(c, users[i].id) \subseteq need
  OBVIOUS
<1>10. reloads + 1 \in 0..MaxReloads
  BY <1>1, <1>2, Numbers, SMT DEF Types
<1> HIDE DEF kept, need
<1>11. /\ gs \in [Groups -> -1..MaxReloads]
       /\ \A g \in need : gs[g] \in 0..MaxReloads
       /\ \A g \in Groups : gs[g] >= 0 => Configs[c].limits[g] >= 0
  BY <1>7, <1>8, <1>10, MadeFacts
<1> HIDE DEF gs
<1>12. quota' \in [Limiters -> Nat]
  BY <1>1, <1>2, <1>11, QuotasFacts
<1>13. ASSUME NEW i \in Slots
       PROVE  /\ users'[i] \in UserStates /\ users'[i].key = users[i].key
              /\ users'[i].subs = users[i].subs
              /\ i \in stay => users'[i].id = users[i].id /\ users'[i].tree.of = c
              /\ i \in gone => users'[i].id = None
              /\ i \notin stay /\ i \notin gone => users'[i] = users[i]
  <2> DEFINE u == users[i]
  <2>1. u \in UserStates
    BY <1>2
  <2>2. CASE i \in stay
    <3>1. users'[i] = updated(u, c, gs, u.token)
      BY <1>1, <2>2
    <3>2. u.id \in AllNames /\ u.token \in Tokens /\ \A g \in GroupsOf(c, u.id) : gs[g] \in 0..MaxReloads
      BY <1>3, <1>4, <1>9, <1>11, <2>1, <2>2 DEF UserStates
    <3> HIDE DEF u
    <3>3. /\ updated(u, c, gs, u.token) \in UserStates
          /\ updated(u, c, gs, u.token).key = u.key /\ updated(u, c, gs, u.token).id = u.id
          /\ updated(u, c, gs, u.token).subs = u.subs /\ updated(u, c, gs, u.token).tree.of = c
      BY <2>1, <3>2, UpdatedFacts
    <3>4. QED
      BY <1>6, <2>2, <3>1, <3>3 DEF u
  <2>3. CASE i \in gone
    <3> DEFINE w == [u EXCEPT !.id = None]
    <3>1. users'[i] = w /\ i \notin stay
      BY <1>1, <1>6, <2>3
    <3>2. w \in UserStates /\ w.key = u.key /\ w.subs = u.subs /\ w.id = None
      BY <2>1, ZenonT(30) DEF UserStates
    <3>3. QED
      BY <2>3, <3>1, <3>2
  <2>4. CASE i \notin stay /\ i \notin gone
    BY <1>1, <2>1, <2>4
  <2>5. QED
    BY <2>2, <2>3, <2>4
<1>14. users' \in [Slots -> UserStates]
  BY <1>1, <1>13
<1>15. /\ sess' \in [Sessions -> SessionStates] /\ Owned'
       /\ \A t \in Sessions :
            /\ sess'[t].at = sess[t].at /\ sess'[t].user = sess[t].user
            /\ sess'[t].copies = sess[t].copies /\ sess'[t].view = sess[t].view
            /\ Unheard(sess[t]) => Unheard(sess'[t])
            /\ sess[t].at \in Following /\ sess[t].user \in gone => Unheard(sess'[t])
  BY <1>1, <1>3, ToldSessions
<1>16. Alive' = Alive
  <2>1. ASSUME NEW i \in Slots PROVE HeldBy(sess', pend', i) <=> HeldBy(sess, pend, i)
    <3>1. i \in stay => HeldBy(sess, pend, i)
      BY <1>3 DEF Alive
    <3>2. QED
      BY <1>1, <1>15, <3>1 DEF HeldBy
  <2>2. QED
    BY <2>1 DEF Alive
<1>17. weak' \in [Names -> 0..MaxUsers] /\ \A n \in Names : weak'[n] = IF weak[n] \in stay THEN weak[n] ELSE 0
  <2>1. \A n \in Names : weak[n] \in 0..MaxUsers /\ 0 \in 0..MaxUsers
    BY <1>2, Numbers, SMT DEF Types
  <2>2. QED
    BY <1>1, <2>1
<1>18. Types'
  <2>1. pend' \subseteq Slots
    BY <1>1, <1>2, <1>3 DEF Types
  <2>2. QED
    BY <1>1, <1>10, <1>11, <1>12, <1>14, <1>15, <1>17, <2>1 DEF Types
<1>19. Existing'
  BY <1>1, <1>11 DEF Existing
<1>20. Subscribed'
  BY <1>13, <1>15 DEF IInv, Subscribed
<1>21. Found'
  <2> SUFFICES ASSUME NEW n \in Names, weak'[n] # 0
               PROVE  weak'[n] \in Alive' /\ users'[weak'[n]].key = n /\ users'[weak'[n]].id # None
    BY DEF Found
  <2>1. weak'[n] = weak[n] /\ weak[n] \in stay
    BY <1>17
  <2>2. weak[n] \in Alive /\ weak[n] \in Slots /\ weak[n] # 0
    BY <1>3, <2>1, Numbers
  <2>3. users[weak[n]].key = n /\ users[weak[n]].id # None
    BY <2>2 DEF IInv, Found
  <2>4. QED
    BY <1>13, <1>16, <2>1, <2>2, <2>3
<1>22. Listed'
  <2> SUFFICES ASSUME NEW i \in Alive', users'[i].id # None
               PROVE  /\ users'[i].key \in Names /\ weak'[users'[i].key] = i
                      /\ users'[i].tree.of = cfg'
    BY DEF Listed
  <2>1. i \in Alive /\ i \in Slots
    BY <1>3, <1>16
  <2>2. i \in stay
    <3>1. CASE i \in gone
      BY <1>13, <2>1, <3>1
    <3>2. CASE i \notin gone /\ i \notin stay
      <4>1. users[i].id # None
        BY <1>13, <2>1, <3>2
      <4>2. i \in known
        BY <1>5, <2>1, <4>1
      <4>3. QED
        BY <3>2, <4>2 DEF gone
    <3>3. QED
      BY <3>1, <3>2
  <2>3. users[i].key \in Names /\ weak[users[i].key] = i
    BY <1>3, <1>4, <2>1, <2>2 DEF IInv, Listed
  <2>4. users'[i].key = users[i].key /\ users'[i].tree.of = c
    BY <1>13, <2>1, <2>2
  <2>5. weak'[users[i].key] = i
    BY <1>17, <2>2, <2>3
  <2>6. cfg' = c
    BY <1>1
  <2>7. QED
    BY <2>3, <2>4, <2>5, <2>6
<1>23. Seen'
  <2> SUFFICES ASSUME NEW t \in Sessions, sess'[t].at = "in" PROVE Sees(t)'
    BY DEF Seen, Sees
  <2>1. sess[t].at = "in" /\ sess[t].at \in Following
    BY <1>15 DEF Following
  <2>2. sess[t].user \in Slots
    BY <1>2, <2>1, FollowersFacts
  <2>3. CASE sess[t].user \in gone
    <3>1. Unheard(sess'[t])
      BY <1>15, <2>1, <2>3
    <3>2. QED
      BY <3>1 DEF Sees, Untold, Unheard
  <2>4. CASE sess[t].user \in stay
    BY <1>1, <1>15, <2>4 DEF Sees, Untold
  <2>5. CASE sess[t].user \notin stay /\ sess[t].user \notin gone
    <3>1. users'[sess[t].user] = users[sess[t].user]
      BY <1>13, <2>2, <2>5
    <3>2. QED
      BY <1>1, <1>15, <2>1, <3>1, SeesStays DEF IInv, Seen
  <2>6. QED
    BY <2>3, <2>4, <2>5
<1>24. QED
  BY <1>15, <1>18, <1>19, <1>20, <1>21, <1>22, <1>23 DEF IInv

(* A step that changes nothing.                                               *)
LEMMA StutterStep == ASSUME IInv, UNCHANGED vars PROVE IInv'
<1>1. UNCHANGED <<cfg, reloads, users, weak, limiter, quota, sess, pend>>
  BY DEF vars
<1>2. Types'
  BY <1>1 DEF IInv, Types
<1>3. Alive' = Alive
  BY <1>1 DEF Alive, HeldBy
<1>4. Existing' /\ Owned' /\ Subscribed' /\ Found' /\ Listed'
  BY <1>1, <1>3 DEF IInv, Existing, Owned, Subscribed, Found, Listed
<1>5. Seen'
  BY <1>1 DEF IInv, Seen, Sees, Untold
<1>6. QED
  BY <1>2, <1>4, <1>5 DEF IInv

(* The invariant holds in every state of every behaviour.                     *)
LEMMA Invariance == Spec => []IInv
<1>1. Init => IInv
  <2> SUFFICES ASSUME Init PROVE IInv
    OBVIOUS
  <2>1. /\ cfg = 1 /\ reloads = 0 /\ pend = {}
        /\ users = [i \in Slots |-> NoUser] /\ weak = [n \in Names |-> 0]
        /\ limiter = [g \in Groups |-> -1] /\ quota = [l \in Limiters |-> 0]
        /\ sess = [s \in Sessions |-> Connected]
    BY DEF Init
  <2>2. Connected.at = "out" /\ Connected.user = 0 /\ Connected.at \notin Following
    BY DEF Connected, Following
  <2>3. NoUser.subs = {}
    BY DEF NoUser
  <2>4. Alive = {}
    BY <2>1, <2>2, Numbers DEF Alive, HeldBy
  <2>5. Types
    <3>1. 1 \in DOMAIN Configs /\ 0 \in 0..MaxReloads /\ 0 \in 0..MaxUsers /\ -1 \in -1..MaxReloads
      BY UsersAssumption, Numbers, SMT DEF WellFormed
    <3>2. QED
      BY <2>1, <3>1, NoUserType, ConnectedType DEF Types
  <2>6. Existing
    <3>1. \A g \in Groups : ~(limiter[g] >= 0)
      BY <2>1, SMT
    <3>2. QED
      BY <3>1 DEF Existing
  <2>7. Owned
    BY <2>1, ConnectedType DEF Owned
  <2>8. Subscribed
    BY <2>1, <2>2, <2>3 DEF Subscribed
  <2>9. Found /\ Listed
    BY <2>1, <2>4 DEF Found, Listed
  <2>10. Seen
    BY <2>1, <2>2 DEF Seen, Sees
  <2>11. QED
    BY <2>5, <2>6, <2>7, <2>8, <2>9, <2>10 DEF IInv
<1>2. IInv /\ [Next]_vars => IInv'
  <2> SUFFICES ASSUME IInv, [Next]_vars PROVE IInv'
    OBVIOUS
  <2>1. ASSUME NEW s \in Sessions,
               \/ \E n \in Names : Ask(s, n)
               \/ Deny(s) \/ Verify(s) \/ Created(s) \/ SessionStep(s) \/ Leave(s)
        PROVE  IInv'
    BY <2>1, AskStep, DenyStep, VerifyStep, CreatedStep, TakeResultStep, SubscribeStep, ApplyStep,
       ChangedStep, LeaveStep DEF SessionStep
  <2>2. ASSUME NEW c \in DOMAIN Configs, Reload(c) PROVE IInv'
    BY <2>2, ReloadStep
  <2>3. ASSUME NEW i \in Slots, Announce(i) PROVE IInv'
    BY <2>3, AnnounceStep
  <2>4. QED
    BY <2>1, <2>2, <2>3, StutterStep DEF Next
<1>3. QED
  BY <1>1, <1>2, PTL DEF Spec

(* The state of the authenticator and of the sessions keeps its type; who is  *)
(* counted, and nobody else, has counters.                                    *)
THEOREM UsersTypeCorrect == Spec => []TypeOK
<1>1. IInv => TypeOK
  <2> SUFFICES ASSUME IInv PROVE TypeOK
    OBVIOUS
  <2>1. ASSUME NEW i \in Slots
        PROVE  users[i].subs \subseteq Sessions /\ users[i].id \in AllNames \cup {None}
    <3>1. users[i] \in UserStates
      BY DEF IInv, Types
    <3>2. QED
      BY <3>1 DEF UserStates
  <2>2. ASSUME NEW s \in Sessions
        PROVE  /\ sess[s].at \in {"out", "refused", "asked", "creating", "answered", "counted",
                                  "subscribed", "in", "quitting"}
               /\ sess[s].user \in 0..MaxUsers
               /\ (sess[s].copies # <<>>) = (sess[s].at \in {"counted", "subscribed", "in", "quitting"})
    <3>1. sess[s].at \in Phases /\ sess[s].user \in 0..MaxUsers /\ Owns(sess[s])
      BY DEF IInv, Types, SessionStates, Owned
    <3>2. Counting = {"counted", "subscribed", "in", "quitting"}
      BY DEF Counting, Following
    <3>3. sess[s].copies # <<>> <=> sess[s].at \in Counting
      BY <3>1, EmptyFunction DEF Owns
    <3>4. QED
      BY <3>1, <3>2, <3>3 DEF Phases
  <2>3. QED
    BY <2>1, <2>2 DEF IInv, Types, TypeOK
<1>2. QED
  BY <1>1, Invariance, PTL

(* A session that nobody has anything to tell uses a user who still exists,   *)
(* with the settings in force, however logins and changes of the settings     *)
(* interleave.                                                                *)
THEOREM SettingsAreUsed == Spec => []UsesTheSettings
<1>1. IInv => UsesTheSettings
  <2> SUFFICES ASSUME IInv, NEW s \in Sessions, sess[s].at = "in", Untold(s)
               PROVE  /\ users[sess[s].user].id # None
                      /\ sess[s].view = users[sess[s].user].tree /\ sess[s].view.of = cfg
    BY DEF UsesTheSettings
  <2>1. sess[s].at \in Following
    BY DEF Following
  <2>2. sess[s].user \in Alive
    BY <2>1, FollowersFacts DEF IInv
  <2>3. users[sess[s].user].id # None /\ sess[s].view = users[sess[s].user].tree
    BY DEF IInv, Seen, Sees
  <2>4. users[sess[s].user].tree.of = cfg
    BY <2>2, <2>3 DEF IInv, Listed
  <2>5. QED
    BY <2>3, <2>4
<1>2. QED
  BY <1>1, Invariance, PTL

(* Two users who can be joined have two names: nobody has a count of sessions *)
(* or rate limits of his own under a name that others use.                    *)
THEOREM NamesAreShared == Spec => []OneUserPerName
<1>1. IInv => OneUserPerName
  BY DEF IInv, Listed, OneUserPerName
<1>2. QED
  BY <1>1, Invariance, PTL
-----------------------------------------------------------------------------
(* The limit of sessions                                                      *)

(* The limit of a user is that of the settings his mount tree is made of, and *)
(* his limiters are finitely many.                                            *)
AsSet(u) ==
  /\ u.id # None => u.limit = EntryOf(u.tree.of, u.id).limit
  /\ IsFiniteSet(DOMAIN u.extra)

(* Who counts has finitely many counters, of which the first is its user's.   *)
CountsUser(x) ==
  /\ IsFiniteSet(DOMAIN x.copies)
  /\ x.copies # <<>> => x.copies[0] = <<"user", x.user>>

Counts == (\A i \in Slots : AsSet(users[i])) /\ (\A s \in Sessions : CountsUser(sess[s]))

(* A step in which no login is decided.                                       *)
Undecided ==
  /\ \A i \in Slots : AsSet(users[i]) => AsSet(users'[i])
  /\ \A t \in Sessions :
       /\ \/ sess'[t].copies = sess[t].copies /\ sess'[t].user = sess[t].user
          \/ sess'[t].copies = <<>>
       /\ sess[t].at = "answered" => sess'[t].at # "counted"

(* Nothing is counted where there is nobody.                                  *)
LEMMA NothingCounts ==
  /\ AsSet(NoUser)
  /\ \A x : x.copies = <<>> => CountsUser(x)
<1>1. NoUser.id = None /\ NoUser.extra = <<>>
  BY DEF NoUser
<1>2. QED
  BY <1>1, EmptyFunction, FS_EmptySet DEF AsSet, CountsUser

(* Such a step does not change how anybody is counted.                        *)
LEMMA UndecidedStep == ASSUME Counts, Undecided PROVE Counts'
<1>1. ASSUME NEW s \in Sessions PROVE CountsUser(sess'[s])
  <2>1. CountsUser(sess[s])
    BY DEF Counts
  <2>2. CASE sess'[s].copies = <<>>
    BY <2>2, NothingCounts
  <2>3. CASE sess'[s].copies = sess[s].copies /\ sess'[s].user = sess[s].user
    BY <2>1, <2>3 DEF CountsUser
  <2>4. QED
    BY <2>2, <2>3 DEF Undecided
<1>2. QED
  BY <1>1 DEF Counts, Undecided

(* One session does something else than to be counted.                        *)
LEMMA OneUndecided ==
  ASSUME IInv, NEW s \in Sessions, NEW y, sess' = [sess EXCEPT ![s] = y],
         (y.copies = sess[s].copies /\ y.user = sess[s].user) \/ y.copies = <<>>,
         sess[s].at = "answered" => y.at # "counted",
         \A i \in Slots : AsSet(users[i]) => AsSet(users'[i])
  PROVE  Undecided
<1>1. sess'[s] = y /\ \A t \in Sessions : t # s => sess'[t] = sess[t]
  BY DEF IInv, Types
<1>2. \A t \in Sessions : sess[t].at = "answered" => sess[t].at # "counted"
  OBVIOUS
<1>3. QED
  BY <1>1, <1>2 DEF Undecided

(* The steps of a session but those that make or lose a user.                 *)
LEMMA SessionUndecided ==
  ASSUME IInv, NEW s \in Sessions,
         \/ \E n \in Names : Ask(s, n)
         \/ Deny(s) \/ Created(s) \/ Apply(s) \/ Changed(s)
         \/ Join(s, Shared(sess[s].name)) /\ sess[s].at = "asked"
  PROVE  Undecided
<1> DEFINE x == sess[s]
<1>1. x \in SessionStates /\ Owns(x)
  BY DEF IInv, Types, Owned
<1>2. ASSUME NEW n \in Names, Ask(s, n) PROVE Undecided
  <2> DEFINE y == [x EXCEPT !.at = "asked", !.name = n]
  <2>1. x.at # "answered" /\ sess' = [sess EXCEPT ![s] = y] /\ users' = users
    BY <1>2 DEF Ask
  <2>2. y.copies = x.copies /\ y.user = x.user
    BY <1>1, ZenonT(30) DEF SessionStates
  <2> HIDE DEF y
  <2>3. QED
    BY <2>1, <2>2, OneUndecided
<1>3. ASSUME Deny(s) PROVE Undecided
  <2> DEFINE q == Append(x.queue, <<"result", 0>>)
             y == [x EXCEPT !.at = "answered", !.queue = q]
  <2>1. x.at # "answered" /\ sess' = [sess EXCEPT ![s] = y] /\ users' = users
    BY <1>3 DEF Deny
  <2> HIDE DEF q
  <2>2. y.copies = x.copies /\ y.user = x.user
    BY <1>1, ZenonT(30) DEF SessionStates
  <2> HIDE DEF y
  <2>3. QED
    BY <2>1, <2>2, OneUndecided
<1>4. ASSUME Created(s) PROVE Undecided
  <2> DEFINE q == Append(x.queue, <<"result", x.user>>)
             y == [x EXCEPT !.at = "answered", !.queue = q]
  <2>1. x.at # "answered" /\ sess' = [sess EXCEPT ![s] = y] /\ users' = users
    BY <1>4 DEF Created
  <2> HIDE DEF q
  <2>2. y.copies = x.copies /\ y.user = x.user
    BY <1>1, ZenonT(30) DEF SessionStates
  <2> HIDE DEF y
  <2>3. QED
    BY <2>1, <2>2, OneUndecided
<1>5. ASSUME NEW z, z.copies = x.copies, z.user = x.user, z \in SessionStates
      PROVE  Applied(z).copies = x.copies /\ Applied(z).user = x.user
  <2> DEFINE t == users[z.user].tree
             y1 == [z EXCEPT !.at = "quitting"]
             y2 == [z EXCEPT !.at = "in", !.view = t]
  <2>1. Applied(z) = IF users[z.user].id = None THEN y1 ELSE y2
    BY DEF Applied
  <2> HIDE DEF t
  <2>2. y1.copies = z.copies /\ y2.copies = z.copies /\ y1.user = z.user /\ y2.user = z.user
    BY <1>5, ZenonT(30) DEF SessionStates
  <2> HIDE DEF y1, y2
  <2>3. QED
    BY <1>5, <2>1, <2>2
<1>6. ASSUME Apply(s) PROVE Undecided
  <2>1. x.at # "answered" /\ sess' = [sess EXCEPT ![s] = Applied(x)] /\ users' = users
    BY <1>6 DEF Apply
  <2>2. QED
    BY <1>1, <1>5, <2>1, OneUndecided
<1>7. ASSUME Changed(s) PROVE Undecided
  <2> DEFINE q == Tail(x.queue)
             z == [x EXCEPT !.queue = q]
             y == IF Head(x.queue)[2] # z.user THEN z ELSE Applied(z)
  <2>1. /\ x.at # "answered" /\ x.queue # <<>>
        /\ sess' = [sess EXCEPT ![s] = y] /\ users' = users
    BY <1>7 DEF Changed
  <2>2. q \in Queues
    BY <1>1, <2>1, SMT DEF SessionStates, Queues
  <2> HIDE DEF q
  <2>3. z \in SessionStates /\ z.copies = x.copies /\ z.user = x.user
    BY <1>1, <2>2, ZenonT(30) DEF SessionStates
  <2> HIDE DEF z
  <2>4. y.copies = x.copies /\ y.user = x.user
    BY <1>5, <2>3
  <2> HIDE DEF y
  <2>5. QED
    BY <2>1, <2>4, OneUndecided
<1>8. ASSUME Join(s, Shared(sess[s].name)), sess[s].at = "asked" PROVE Undecided
  <2> DEFINE i == Shared(sess[s].name)
             y == [x EXCEPT !.at = "creating", !.user = i]
  <2>1. x.at # "answered" /\ sess' = [sess EXCEPT ![s] = y] /\ users' = users
    BY <1>8 DEF Join
  <2>2. x.copies = <<>>
    <3>1. x.at \notin Counting
      BY <1>8 DEF Counting, Following
    <3>2. QED
      BY <1>1, <3>1 DEF Owns
  <2> HIDE DEF i
  <2>3. y.copies = x.copies
    BY <1>1, ZenonT(30) DEF SessionStates
  <2> HIDE DEF y
  <2>4. QED
    BY <2>1, <2>2, <2>3, OneUndecided
<1>9. QED
  BY <1>2, <1>3, <1>4, <1>6, <1>7, <1>8

(* A user who only has other subscribers, or can no longer be joined, is      *)
(* limited as before.                                                         *)
LEMMA SameLimit ==
  ASSUME NEW u \in UserStates, AsSet(u)
  PROVE  /\ \A S : AsSet([u EXCEPT !.subs = S])
         /\ AsSet([u EXCEPT !.id = None])
<1>1. ASSUME NEW S PROVE AsSet([u EXCEPT !.subs = S])
  <2> DEFINE w == [u EXCEPT !.subs = S]
  <2>1. w.id = u.id /\ w.limit = u.limit /\ w.tree = u.tree /\ w.extra = u.extra
    BY ZenonT(30) DEF UserStates
  <2> HIDE DEF w
  <2>2. AsSet(w)
    BY <2>1 DEF AsSet
  <2>3. QED
    BY <2>2 DEF w
<1>2. AsSet([u EXCEPT !.id = None])
  <2> DEFINE w == [u EXCEPT !.id = None]
  <2>1. w.id = None /\ w.extra = u.extra
    BY ZenonT(30) DEF UserStates
  <2> HIDE DEF w
  <2>2. AsSet(w)
    BY <2>1 DEF AsSet
  <2>3. QED
    BY <2>2 DEF w
<1>3. QED
  BY <1>1, <1>2

(* A session ends, and its counters go.                                       *)
LEMMA LeaveUndecided == ASSUME IInv, NEW s \in Sessions, Leave(s) PROVE Undecided
<1> DEFINE U == [i \in Slots |-> [users[i] EXCEPT !.subs = @ \ {s}]]
<1>1. /\ sess' = [sess EXCEPT ![s] = Connected]
      /\ users' = Living(U, sess', pend')
  BY DEF Leave
<1>2. Connected.at = "out" /\ Connected.copies = <<>>
  BY DEF Connected
<1>3. ASSUME NEW i \in Slots, AsSet(users[i]) PROVE AsSet(users'[i])
  <2> DEFINE v == users[i]
             S == v.subs \ {s}
             w == [v EXCEPT !.subs = S]
  <2>1. users'[i] = w \/ users'[i] = NoUser
    BY <1>1 DEF Living
  <2>2. v \in UserStates
    BY DEF IInv, Types
  <2> HIDE DEF S
  <2>3. AsSet(w)
    BY <1>3, <2>2, SameLimit
  <2> HIDE DEF w
  <2>4. QED
    BY <2>1, <2>3, NothingCounts
<1>4. QED
  BY <1>1, <1>2, <1>3, OneUndecided

(* Following a user does not change what he counts.                           *)
LEMMA SubscribeUndecided == ASSUME IInv, NEW s \in Sessions, Subscribe(s) PROVE Undecided
<1> DEFINE x == sess[s]
           y == [x EXCEPT !.at = "subscribed"]
           u == x.user
           v == users[u]
           S == v.subs \cup {s}
           w == [v EXCEPT !.subs = S]
<1>1. x \in SessionStates /\ users \in [Slots -> UserStates]
  BY DEF IInv, Types
<1>2. x.at = "counted" /\ sess' = [sess EXCEPT ![s] = y] /\ users' = [users EXCEPT ![u] = w]
  BY DEF Subscribe
<1>3. y.copies = x.copies /\ y.user = x.user /\ y.at = "subscribed"
  BY <1>1, ZenonT(30) DEF SessionStates
<1> HIDE DEF y
<1>4. ASSUME NEW i \in Slots, AsSet(users[i]) PROVE AsSet(users'[i])
  <2>1. CASE i = u
    <3>1. v \in UserStates /\ AsSet(v)
      BY <1>1, <1>4, <2>1
    <3> HIDE DEF S
    <3>2. AsSet(w)
      BY <3>1, SameLimit
    <3> HIDE DEF w
    <3>3. QED
      BY <1>1, <1>2, <2>1, <3>2
  <2>2. CASE i # u
    BY <1>1, <1>2, <1>4, <2>2
  <2>3. QED
    BY <2>1, <2>2
<1>5. QED
  BY <1>2, <1>3, <1>4, OneUndecided

(* What sessions keep when some of them are told.                             *)
LEMMA NotifiedKeeps ==
  ASSUME IInv, NEW is \in SUBSET Slots, NEW t \in Sessions
  PROVE  /\ Notified(sess, users, is)[t] \in SessionStates
         /\ Notified(sess, users, is)[t].at = sess[t].at
         /\ Notified(sess, users, is)[t].user = sess[t].user
         /\ Notified(sess, users, is)[t].copies = sess[t].copies
<1>1. sess \in [Sessions -> SessionStates] /\ Owns(sess[t])
  BY DEF IInv, Types, Owned
<1>2. \A i \in is, s \in Sessions : s \in users[i].subs <=> sess[s].user = i /\ sess[s].at \in Following
  BY DEF IInv, Subscribed
<1>3. Notified(sess, users, is)[t] = Told(sess[t], is)
  BY <1>1, <1>2, NotifiedFacts
<1>4. sess[t] \in SessionStates
  BY <1>1
<1>5. QED
  BY <1>1, <1>3, <1>4, ToldFacts

(* Being told of a change does not, either.                                   *)
LEMMA AnnounceUndecided == ASSUME IInv, NEW i \in Slots, Announce(i) PROVE Undecided
<1>1. sess' = Notified(sess, users, {i}) /\ users' = Living(users, sess', pend')
  BY DEF Announce
<1>2. {i} \in SUBSET Slots
  OBVIOUS
<1>3. \A t \in Sessions : /\ sess'[t].at = sess[t].at /\ sess'[t].copies = sess[t].copies
                          /\ sess'[t].user = sess[t].user
  BY <1>1, <1>2, NotifiedKeeps
<1>4. \A j \in Slots : users'[j] = users[j] \/ users'[j] = NoUser
  BY <1>1 DEF Living
<1>5. QED
  BY <1>3, <1>4, NothingCounts DEF Undecided

(* A user with new settings has their limit, and no more limiters than his    *)
(* entry names groups.                                                        *)
LEMMA UpdatedLimit ==
  ASSUME NEW u \in UserStates, u.id \in AllNames, NEW c \in DOMAIN Configs,
         NEW lim, NEW home
  PROVE  AsSet(updated(u, c, lim, home))
<1> DEFINE gs == EntryOf(c, u.id).groups
           t  == [of |-> c, home |-> home]
           n  == EntryOf(c, u.id).limit
           e  == [k \in References(c, u.id) |-> <<gs[k], lim[gs[k]]>>]
           x  == [u EXCEPT !.tree = t, !.limit = n, !.extra = e]
<1>1. updated(u, c, lim, home) = x
  BY DEF updated
<1>2. IsFiniteSet(DOMAIN e)
  <2>1. gs \in Seq(Groups)
    BY UsersAssumption DEF WellFormed, EntryOf, AllNames
  <2>2. DOMAIN gs = 1..Len(gs) /\ Len(gs) \in Nat
    BY <2>1, SMT
  <2>3. IsFiniteSet(DOMAIN gs)
    BY <2>2, FS_Interval, SMT
  <2>4. References(c, u.id) \in SUBSET (DOMAIN gs)
    BY DEF References
  <2>5. DOMAIN e = References(c, u.id)
    OBVIOUS
  <2>6. QED
    BY <2>3, <2>4, <2>5, FS_Subset
<1>3. t.of = c
  OBVIOUS
<1> HIDE DEF t, n, e
<1>4. x.id = u.id /\ x.limit = n /\ x.tree = t /\ x.extra = e
  BY ZenonT(30) DEF UserStates
<1> HIDE DEF x
<1>5. AsSet(x)
  BY <1>2, <1>3, <1>4 DEF AsSet, n
<1>6. QED
  BY <1>1, <1>5

(* New settings give a user their limit.                                      *)
LEMMA ReloadUndecided ==
  ASSUME IInv, NEW c \in DOMAIN Configs, Reload(c)
  PROVE  Undecided
<1> DEFINE known == {i \in Alive : \E n \in Names : weak[n] = i}
           stay  == {i \in known : MayStay(c, i)}
           gone  == known \ stay
           kept  == Kept(limiter, c)
           gs    == Made(kept, UNION {GroupsOf(c, users[i].id) : i \in stay}, reloads + 1)
<1>1. /\ users' = [i \in Slots |->
           IF i \in stay THEN updated(users[i], c, gs, users[i].token)
           ELSE IF i \in gone THEN [users[i] EXCEPT !.id = None] ELSE users[i]]
      /\ sess' = Notified(sess, users, gone)
  BY DEF Reload
<1> HIDE DEF gs
<1>2. users \in [Slots -> UserStates] /\ gone \in SUBSET Slots
  BY DEF IInv, Types, Alive
<1>3. ASSUME NEW i \in stay PROVE users[i].id \in AllNames /\ users[i] \in UserStates
  <2>1. PICK n \in Names : weak[n] = i
    OBVIOUS
  <2>2. i \in Slots /\ i # 0
    BY Numbers DEF Alive
  <2>3. users[i].id # None
    BY <2>1, <2>2 DEF IInv, Found
  <2>4. users[i].id \in AllNames \cup {None} /\ users[i] \in UserStates
    BY <1>2, <2>2 DEF UserStates
  <2>5. QED
    BY <2>3, <2>4
<1> HIDE DEF stay, gone
<1>4. ASSUME NEW i \in Slots, AsSet(users[i]) PROVE AsSet(users'[i])
  <2> DEFINE u == users[i]
             w == [u EXCEPT !.id = None]
  <2>1. CASE i \in stay
    BY <1>1, <1>3, <2>1, UpdatedLimit
  <2>2. CASE i \notin stay
    <3>1. AsSet(w)
      BY <1>2, <1>4, SameLimit
    <3>2. users'[i] = w \/ users'[i] = u
      BY <1>1, <2>2
    <3> HIDE DEF w
    <3>3. QED
      BY <1>4, <3>1, <3>2
  <2>3. QED
    BY <2>1, <2>2
<1>5. \A t \in Sessions : /\ sess'[t].at = sess[t].at /\ sess'[t].copies = sess[t].copies
                          /\ sess'[t].user = sess[t].user
  BY <1>1, <1>2, NotifiedKeeps
<1>6. QED
  BY <1>4, <1>5 DEF Undecided

(* So does a new user get it.                                                 *)
LEMMA MakeUndecided ==
  ASSUME IInv, NEW s \in Sessions, Make(s, Shared(sess[s].name)), sess[s].at = "asked"
  PROVE  Undecided
<1> DEFINE x   == sess[s]
           n   == x.name
           old == weak[n]
           e   == EntryFor(cfg, n)
           lim == Made(limiter, GroupsOf(cfg, e), reloads)
           i   == CHOOSE j \in Slots : j \notin Alive
           new == [NoUser EXCEPT !.key = n, !.id = e]
           made == updated(new, cfg, lim, NoToken)
           token == TokenFor(cfg, n)
           N    == [made EXCEPT !.token = token]
           told == IF old = 0 THEN sess ELSE Notified(sess, users, {old})
           left == IF old = 0 THEN users ELSE [users EXCEPT ![old].id = None]
           S    == told[s]
           y    == [S EXCEPT !.at = "creating", !.user = i]
<1>1. x \in SessionStates /\ Owns(x) /\ Types /\ users \in [Slots -> UserStates]
  BY DEF IInv, Types, Owned
<1>2. users' = [left EXCEPT ![i] = N] /\ sess' = [told EXCEPT ![s] = y]
  BY DEF Make, Shared
<1> HIDE DEF i
<1>3. n \in Names /\ x.copies = <<>>
  <2>1. x.at \notin Counting
    BY DEF Counting, Following
  <2>2. QED
    BY <1>1, <2>1 DEF Owns
<1>4. e \in AllNames /\ cfg \in DOMAIN Configs /\ NoToken \in Tokens
  BY <1>1, <1>3, EntryFacts DEF Types, Tokens
<1>5. /\ lim \in [Groups -> -1..MaxReloads]
      /\ \A g \in GroupsOf(cfg, e) : lim[g] \in 0..MaxReloads
  BY <1>1, <1>4, GroupFacts, MadeFacts DEF Types
<1> HIDE DEF lim
<1>6. AsSet(N)
  <2>1. n \in NamesOrNone /\ e \in AllNames \cup {None}
    BY <1>3, <1>4 DEF NamesOrNone
  <2> HIDE DEF e, n
  <2>2. new \in UserStates /\ new.id = e
    BY <2>1, NoUserType, ZenonT(30) DEF UserStates
  <2> HIDE DEF new
  <2>3. AsSet(made) /\ made \in UserStates
    BY <1>4, <1>5, <2>2, UpdatedLimit, UpdatedFacts
  <2> HIDE DEF made, token
  <2>4. N.id = made.id /\ N.limit = made.limit /\ N.tree = made.tree /\ N.extra = made.extra
    BY <2>3, ZenonT(30) DEF UserStates
  <2> HIDE DEF N
  <2>5. QED
    BY <2>3, <2>4 DEF AsSet
<1> HIDE DEF N, e, token
<1>7. ASSUME NEW j \in Slots, AsSet(users[j]) PROVE AsSet(users'[j])
  <2> DEFINE v == users[j]
             w == [v EXCEPT !.id = None]
  <2>1. AsSet(w)
    BY <1>1, <1>7, SameLimit
  <2>2. users'[j] \in {N, v, w}
    BY <1>1, <1>2
  <2> HIDE DEF w
  <2>3. QED
    BY <1>6, <1>7, <2>1, <2>2
<1>8. old # 0 => {old} \in SUBSET Slots
  BY <1>3 DEF IInv, Found, Alive
<1>9. ASSUME NEW t \in Sessions
      PROVE  /\ told[t] \in SessionStates /\ told[t].at = sess[t].at
             /\ told[t].copies = sess[t].copies /\ told[t].user = sess[t].user
  BY <1>1, <1>8, NotifiedKeeps DEF Types
<1>10. sess'[s] = y /\ \A t \in Sessions : t # s => sess'[t] = told[t]
  BY <1>1, <1>2 DEF Types, Notified
<1>11. y.copies = <<>>
  <2>1. S \in SessionStates /\ S.copies = <<>>
    BY <1>3, <1>9
  <2> HIDE DEF S
  <2>2. y.copies = S.copies
    BY <2>1, ZenonT(30) DEF SessionStates
  <2>3. QED
    BY <2>1, <2>2
<1> HIDE DEF y, told
<1>12. ASSUME NEW t \in Sessions
       PROVE  /\ \/ sess'[t].copies = sess[t].copies /\ sess'[t].user = sess[t].user
                 \/ sess'[t].copies = <<>>
              /\ sess[t].at = "answered" => sess'[t].at # "counted"
  BY <1>9, <1>10, <1>11
<1>13. QED
  BY <1>7, <1>12 DEF Undecided

(* PASS decides whose user a session gets, not whether he is full.            *)
LEMMA VerifyUndecided == ASSUME IInv, NEW s \in Sessions, Verify(s) PROVE Undecided
BY MakeUndecided, SessionUndecided DEF Verify

(* A step that changes nothing decides nothing.                               *)
LEMMA StutterUndecided == ASSUME UNCHANGED vars PROVE Undecided
BY DEF vars, Undecided

(* Every session that counts a user holds a copy of him: the copies that the  *)
(* limit is compared with are no fewer than the sessions.                     *)
LEMMA CopiesCoverSessions ==
  ASSUME IInv, Counts, NEW i \in Slots
  PROVE  LET H == {s \in Sessions : sess[s].copies # <<>> /\ sess[s].user = i}
         IN /\ IsFiniteSet(H) /\ Cardinality(H) \in Nat
            /\ Copies(<<"user", i>>) \in Nat /\ Cardinality(H) <= Copies(<<"user", i>>)
<1> DEFINE H == {s \in Sessions : sess[s].copies # <<>> /\ sess[s].user = i}
           c == <<"user", i>>
           P == UNION {{s} \X Places(s, c) : s \in Sessions}
           f == [s \in Sessions |-> DOMAIN sess[s].copies]
           R == {f[s] : s \in Sessions}
           g == [s \in H |-> <<s, 0>>]
<1>1. IsFiniteSet(Sessions)
  BY UsersAssumption DEF WellFormed
<1>2. IsFiniteSet(H) /\ Cardinality(H) \in Nat
  <2>1. H \in SUBSET Sessions
    OBVIOUS
  <2>2. QED
    BY <1>1, <2>1, FS_Subset, FS_CardinalityType
<1>3. IsFiniteSet(UNION R)
  <2>1. f \in Surjection(Sessions, R)
    BY Fun_IsSurj
  <2>2. \A T \in R : IsFiniteSet(T)
    BY DEF Counts, CountsUser
  <2> HIDE DEF R, f
  <2>3. IsFiniteSet(R)
    BY <1>1, <2>1, FS_Surjection
  <2>4. QED
    BY <2>2, <2>3, FS_UNION
<1>4. P \subseteq Sessions \X UNION R
  BY DEF Places
<1>5. ASSUME NEW s \in H PROVE <<s, 0>> \in P
  <2>1. sess[s].copies[0] = c
    BY DEF Counts, CountsUser
  <2>2. sess[s].at \in Counting
    BY DEF IInv, Owned, Owns
  <2>3. 0 \in DOMAIN sess[s].copies
    BY <2>2 DEF IInv, Owned, Owns
  <2>4. 0 \in Places(s, c)
    BY <2>1, <2>3 DEF Places
  <2>5. <<s, 0>> \in {s} \X Places(s, c)
    BY <2>4
  <2>6. QED
    BY <2>5
<1> HIDE DEF H, P, R
<1>6. IsFiniteSet(P) /\ Cardinality(P) \in Nat
  <2>1. IsFiniteSet(Sessions \X UNION R)
    BY <1>1, <1>3, FS_Product
  <2>2. QED
    BY <1>4, <2>1, FS_Subset, FS_CardinalityType
<1>7. g \in Injection(H, P)
  BY <1>5, Fun_IsInj
<1> HIDE DEF g
<1>8. Cardinality(H) <= Cardinality(P)
  BY <1>6, <1>7, FS_Injection
<1>9. QED
  BY <1>2, <1>6, <1>8 DEF Copies, P, H

(* The counters of a session are its user's and those of finitely many groups. *)
LEMMA CountedUser ==
  ASSUME Counts, NEW i \in Slots
  PROVE  IsFiniteSet(DOMAIN Counted(i)) /\ Counted(i)[0] = <<"user", i>>
<1>1. IsFiniteSet(DOMAIN users[i].extra)
  BY DEF Counts, AsSet
<1>2. DOMAIN Counted(i) = DOMAIN users[i].extra \cup {0}
  BY DEF Counted
<1>3. Counted(i)[0] = <<"user", i>>
  BY DEF Counted
<1>4. QED
  BY <1>1, <1>2, <1>3, FS_AddElement

(* A result is taken: the session is refused, or counted below the limit.     *)
LEMMA TakeResultCounts ==
  ASSUME IInv, Counts, NEW s \in Sessions, TakeResult(s)
  PROVE  /\ Counts'
         /\ \A t \in Sessions : t # s => sess'[t] = sess[t]
         /\ sess[s].at = "answered"
         /\ \A j \in Slots : users'[j] = users[j] \/ users'[j] = NoUser
         /\ sess'[s].at = "counted" =>
              /\ sess[s].user \in Slots /\ sess'[s].user = sess[s].user
              /\ ~ QuotaReached(sess[s].user)
<1> DEFINE z == sess[s]
           q == Tail(z.queue)
           x == [z EXCEPT !.queue = q]
           i == Head(z.queue)[2]
           y1 == [x EXCEPT !.at = "out", !.name = None]
           y2 == [x EXCEPT !.at = "refused", !.user = 0, !.name = None]
           c  == Counted(i)
           y3 == [x EXCEPT !.at = "counted", !.copies = c]
           y  == IF i = 0 THEN y1 ELSE IF QuotaReached(i) THEN y2 ELSE y3
<1>1. z \in SessionStates /\ Owns(z) /\ Types
  BY DEF IInv, Types, Owned
<1>2. /\ z.at = "answered" /\ sess' = [sess EXCEPT ![s] = y]
      /\ users' = Living(users, sess', pend')
  BY DEF TakeResult
<1>3. z.queue = <<<<"result", z.user>>>> /\ z.copies = <<>>
  <2>1. z.at \notin Counting
    BY <1>2 DEF Counting, Following
  <2>2. QED
    BY <1>1, <1>2, <2>1 DEF Owns
<1>4. i = z.user /\ q \in Queues
  BY <1>3, SMT DEF Queues
<1>5. i # 0 => i \in Slots
  BY <1>1, <1>4, Numbers DEF SessionStates
<1>6. i # 0 => IsFiniteSet(DOMAIN c) /\ c[0] = <<"user", i>>
  BY <1>5, CountedUser
<1> HIDE DEF c, q
<1>7. x \in SessionStates /\ x.copies = z.copies /\ x.user = z.user
  BY <1>1, <1>4, ZenonT(30) DEF SessionStates
<1> HIDE DEF x
<1>8. /\ y1.at = "out" /\ y1.copies = z.copies
      /\ y2.at = "refused" /\ y2.copies = z.copies
      /\ y3.copies = c /\ y3.user = z.user
  BY <1>7, ZenonT(30) DEF SessionStates
<1> HIDE DEF y1, y2, y3, i
<1>9. CountsUser(y)
  <2>1. CASE i # 0 /\ ~ QuotaReached(i)
    BY <1>4, <1>6, <1>8, <2>1 DEF CountsUser
  <2>2. CASE i = 0 \/ QuotaReached(i)
    BY <1>3, <1>8, <2>2, NothingCounts
  <2>3. QED
    BY <2>1, <2>2
<1>10. y.at = "counted" => i \in Slots /\ y.user = z.user /\ ~ QuotaReached(i)
  BY <1>5, <1>8
<1> HIDE DEF y
<1>11. sess'[s] = y /\ \A t \in Sessions : t # s => sess'[t] = sess[t]
  BY <1>1, <1>2 DEF Types
<1>12. \A j \in Slots : users'[j] = users[j] \/ users'[j] = NoUser
  BY <1>2 DEF Living
<1>13. Counts'
  BY <1>9, <1>11, <1>12, NothingCounts DEF Counts
<1>14. QED
  BY <1>2, <1>4, <1>10, <1>11, <1>12, <1>13

(* Whoever is logged in under the name then has the same user, so that all of *)
(* them are counted by the copies of that one.                                *)
LEMMA TakeResultLimits ==
  ASSUME IInv, IInv', Counts, NEW s \in Sessions, TakeResult(s), sess'[s].at = "counted",
         NEW n \in Names, Takes(s, n),
         EntryOf(cfg, users[sess[s].user].id).limit # 0
  PROVE  Cardinality(UnderName(n)') <= EntryOf(cfg, users[sess[s].user].id).limit
<1> DEFINE i == sess[s].user
           L == EntryOf(cfg, users[i].id).limit
           H == {r \in Sessions : sess[r].copies # <<>> /\ sess[r].user = i}
<1>1. /\ \A t \in Sessions : t # s => sess'[t] = sess[t]
      /\ \A j \in Slots : users'[j] = users[j] \/ users'[j] = NoUser
      /\ i \in Slots /\ sess'[s].user = i /\ ~ QuotaReached(i)
  BY TakeResultCounts
<1>2. users[i].key = n /\ users[i].id # None
  BY DEF Takes
<1>3. i \in Alive
  BY <1>1 DEF Alive, HeldBy
<1>4. users[i].limit = L /\ L \in Nat
  <2>1. users[i].tree.of = cfg
    BY <1>2, <1>3 DEF IInv, Listed
  <2>2. users[i].limit = EntryOf(users[i].tree.of, users[i].id).limit
    BY <1>1, <1>2 DEF Counts, AsSet
  <2>3. users[i].limit \in Nat
    BY <1>1 DEF IInv, Types, UserStates
  <2>4. QED
    BY <2>1, <2>2, <2>3
<1>5. /\ IsFiniteSet(H) /\ Cardinality(H) \in Nat
      /\ Copies(<<"user", i>>) \in Nat /\ Cardinality(H) <= Copies(<<"user", i>>)
  BY <1>1, CopiesCoverSessions
<1>6. ~ limit_reached(users[i].limit, <<"user", i>>)
  BY <1>1 DEF QuotaReached
<1>7. ~ (L <= Copies(<<"user", i>>))
  BY <1>4, <1>6 DEF limit_reached
<1>8. i \in Alive' /\ users'[i] = users[i]
  <2>1. i \in Alive'
    BY <1>1 DEF Alive, HeldBy
  <2>2. HeldBy(sess', pend', i)
    BY <1>1 DEF HeldBy
  <2>3. users' = Living(users, sess', pend')
    BY DEF TakeResult
  <2>4. QED
    BY <1>1, <2>1, <2>2, <2>3 DEF Living
<1>9. weak'[n] = i
  BY <1>2, <1>8 DEF IInv, Listed
<1>10. ASSUME NEW r \in Sessions, sess'[r].copies # <<>>,
              users'[sess'[r].user].id # None, users'[sess'[r].user].key = n
       PROVE  sess'[r].user = i
  <2>1. sess'[r].at \in Counting
    BY <1>10 DEF IInv, Owned, Owns
  <2>2. sess'[r].user # 0 /\ sess'[r].user \in 0..MaxUsers
    BY <2>1 DEF IInv, Owned, Owns, Types, SessionStates
  <2>3. sess'[r].user \in Slots
    BY <2>2, Numbers
  <2>4. sess'[r].user \in Alive'
    BY <2>3 DEF Alive, HeldBy
  <2>5. weak'[n] = sess'[r].user
    BY <1>10, <2>4 DEF IInv, Listed
  <2>6. QED
    BY <1>9, <2>5
<1>11. UnderName(n)' \in SUBSET (H \cup {s})
  <2>1. ASSUME NEW r \in UnderName(n)', r # s PROVE r \in H
    <3>1. /\ r \in Sessions /\ sess'[r].copies # <<>>
          /\ users'[sess'[r].user].id # None /\ users'[sess'[r].user].key = n
      BY DEF UnderName
    <3>2. sess'[r].user = i /\ sess'[r] = sess[r]
      BY <1>1, <1>10, <2>1, <3>1
    <3>3. QED
      BY <3>1, <3>2
  <2>2. QED
    BY <2>1
<1> HIDE DEF H
<1>12. IsFiniteSet(H \cup {s}) /\ Cardinality(H \cup {s}) <= Cardinality(H) + 1
  <2>1. IsFiniteSet(H \cup {s})
    BY <1>5, FS_AddElement
  <2>2. Cardinality(H \cup {s})
          = IF s \in H THEN Cardinality(H) ELSE Cardinality(H) + 1
    BY <1>5, FS_AddElement
  <2>3. Cardinality(H \cup {s}) <= Cardinality(H) + 1
    BY <1>5, <2>2, SMT
  <2>4. QED
    BY <2>1, <2>3
<1>13. /\ Cardinality(UnderName(n)') <= Cardinality(H \cup {s})
       /\ Cardinality(UnderName(n)') \in Nat /\ Cardinality(H \cup {s}) \in Nat
  BY <1>11, <1>12, FS_Subset, FS_CardinalityType
<1> HIDE DEF L
<1>14. Cardinality(UnderName(n)') <= L
  BY <1>4, <1>5, <1>7, <1>12, <1>13, SMT
<1>15. QED
  BY <1>14 DEF L

(* No other step counts a session.                                            *)
LEMMA LimitStep ==
  ASSUME IInv, IInv', Counts, [Next]_vars
  PROVE  /\ Counts'
         /\ \A s \in Sessions, n \in Names :
              LET limit == EntryOf(cfg, users[sess[s].user].id).limit
              IN Takes(s, n) /\ limit # 0 => Cardinality(UnderName(n)') <= limit
<1>1. Undecided \/ \E s \in Sessions : TakeResult(s)
  <2>1. ASSUME NEW s \in Sessions,
               \/ \E n \in Names : Ask(s, n)
               \/ Deny(s) \/ Verify(s) \/ Created(s) \/ SessionStep(s) \/ Leave(s),
               ~TakeResult(s)
        PROVE  Undecided
    BY <2>1, SessionUndecided, VerifyUndecided, SubscribeUndecided, LeaveUndecided DEF SessionStep
  <2>2. ASSUME NEW c \in DOMAIN Configs, Reload(c) PROVE Undecided
    BY <2>2, ReloadUndecided
  <2>3. ASSUME NEW i \in Slots, Announce(i) PROVE Undecided
    BY <2>3, AnnounceUndecided
  <2>4. QED
    BY <2>1, <2>2, <2>3, StutterUndecided DEF Next
<1>2. CASE Undecided
  <2>1. \A s \in Sessions, n \in Names : ~ Takes(s, n)
    BY <1>2 DEF Undecided, Takes
  <2>2. QED
    BY <1>2, <2>1, UndecidedStep
<1>3. ASSUME NEW r \in Sessions, TakeResult(r)
      PROVE  /\ Counts'
             /\ \A s \in Sessions, n \in Names :
                  LET limit == EntryOf(cfg, users[sess[s].user].id).limit
                  IN Takes(s, n) /\ limit # 0 => Cardinality(UnderName(n)') <= limit
  <2>1. Counts' /\ \A t \in Sessions : t # r => sess'[t] = sess[t]
    BY <1>3, TakeResultCounts
  <2>2. ASSUME NEW s \in Sessions, NEW n \in Names, Takes(s, n),
               EntryOf(cfg, users[sess[s].user].id).limit # 0
        PROVE  Cardinality(UnderName(n)') <= EntryOf(cfg, users[sess[s].user].id).limit
    <3>1. sess[s].at = "answered" /\ sess'[s].at = "counted"
      BY <2>2 DEF Takes
    <3>2. s = r
      BY <2>1, <3>1
    <3>3. QED
      BY <1>3, <2>2, <3>1, <3>2, TakeResultLimits
  <2>3. QED
    BY <2>1, <2>2
<1>4. QED
  BY <1>1, <1>2, <1>3

(* For any settings, when a session is counted no more sessions than the      *)
(* limit in force are logged in under its name.                               *)
THEOREM LimitsAreKept == Spec => LimitHoldsForTheName
<1>1. Init => Counts
  <2>1. Connected.copies = <<>>
    BY DEF Connected
  <2>2. QED
    BY <2>1, NothingCounts DEF Init, Counts
<1>2. IInv /\ IInv' /\ Counts /\ [Next]_vars => Counts'
  BY LimitStep
<1>3. Spec => []Counts
  BY <1>1, <1>2, Invariance, PTL DEF Spec
<1>4. IInv /\ IInv' /\ Counts /\ [Next]_vars =>
        [\A s \in Sessions, n \in Names :
           LET limit == EntryOf(cfg, users[sess[s].user].id).limit
           IN Takes(s, n) /\ limit # 0 => Cardinality(UnderName(n)') <= limit]_vars
  BY LimitStep
<1>5. QED
  BY <1>3, <1>4, Invariance, PTL DEF Spec, LimitHoldsForTheName
================================================================================
