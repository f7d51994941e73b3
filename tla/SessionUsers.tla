----------------------------- MODULE SessionUsers -----------------------------
(***************************************************************************)
(* The users of sessions: file_based_authenticator, which shares one user  *)
(* object between all sessions that are logged in under a name, the        *)
(* session_user that counts them, and the part of an FTP session that      *)
(* follows the changes an administrator makes meanwhile.                   *)
(*                                                                         *)
(* Whatever the authenticator does it does under its mutex, which is also  *)
(* the mutex of every shared user, and is one step here.  A session runs on *)
(* a thread of its own: the handler that takes a login's result is three   *)
(* steps, one for each time it takes the mutex.                            *)
(***************************************************************************)
EXTENDS Integers, Sequences, FiniteSets

CONSTANTS
  Sessions,
  Names,        \* the names that clients log in under
  System,       \* users::system_user_name
  Groups,
  Configs,      \* what the administrator may set; the first is loaded at start
  NoToken,      \* the empty impersonation token
  None,
  MaxReloads,   \* bound: how often the settings are set
  MaxUsers      \* bound: user objects alive at a time

(* An entry of users_ has a state ("absent" stands for a name that is not     *)
(* there), groups, a limit of sessions and a token of its own.                *)

WellFormed ==
  /\ IsFiniteSet(Sessions)
  /\ System \notin Names /\ {NoToken, None} \cap (Names \cup {System}) = {}
  /\ MaxReloads \in Nat /\ MaxUsers \in Nat \ {0}
  /\ 1 \in DOMAIN Configs
  /\ \A c \in DOMAIN Configs :
       /\ Configs[c].limits \in [Groups -> Int]
       /\ \A n \in Names \cup {System} :
            Configs[c].users[n].groups \in Seq(Groups) /\ Configs[c].users[n].limit \in Nat

ASSUME UsersAssumption == WellFormed

VARIABLES
  cfg,       \* index of the settings in force: users_ and groups_
  reloads,
  users,     \* the user objects, by slot
  weak,      \* weak_users_map_: name -> slot, 0 when there is none
  limiter,   \* group_limiters_: group -> the reload at which it was made, or -1
  quota,     \* limit of a group limiter
  sess,      \* sessions: login, user, counters, queue of events
  pend       \* slots whose backend works on a change before it is announced

vars == <<cfg, reloads, users, weak, limiter, quota, sess, pend>>

Slots    == 1..MaxUsers
Limiters == Groups \X (0..MaxReloads)
AllNames == Names \cup {System}

NoUser    == [key |-> None, id |-> None, token |-> NoToken, tree |-> None, limit |-> 0,
              extra |-> <<>>, subs |-> {}]
Connected == [at |-> "out", name |-> None, user |-> 0, copies |-> <<>>, queue |-> <<>>,
              view |-> None]

-----------------------------------------------------------------------------
(* Counters.  A user object and a group limiter are counted by the copies     *)
(* that session_user holds; limited_copies_counter has no other count.        *)

Places(s, c) == {k \in DOMAIN sess[s].copies : sess[s].copies[k] = c}

Copies(c) == Cardinality(UNION {{s} \X Places(s, c) : s \in Sessions})

limit_reached(limit, c) == limit # 0 /\ limit <= Copies(c)

QuotaReached(i) ==
  \/ limit_reached(users[i].limit, <<"user", i>>)
  \/ \E k \in DOMAIN users[i].extra :
       limit_reached(quota[users[i].extra[k]], <<"group", users[i].extra[k]>>)

-----------------------------------------------------------------------------
(* The entry that a name, or the id of a shared user, has in the settings.    *)

EntryOf(c, n) == Configs[c].users[n]

EntryFor(c, n) ==
  IF EntryOf(c, n).state # "absent" THEN n ELSE System

MayLogin(c, n) == EntryOf(c, EntryFor(c, n)).state = "enabled"

(* The token a login ends up with; a system user is impersonated as himself.  *)

TokenFor(c, n) ==
  LET e == EntryOf(c, EntryFor(c, n))
  IN IF EntryFor(c, n) = System THEN n
     ELSE IF e.own # NoToken THEN e.own ELSE Configs[c].default

(* sanitize() on the groups of a user: references to groups that do not exist *)
(* are removed, here by leaving out their places.  The set that is to find    *)
(* the repeated ones is made anew for every reference, and finds none.        *)

References(c, n) ==
  {k \in DOMAIN EntryOf(c, n).groups : Configs[c].limits[EntryOf(c, n).groups[k]] >= 0}

GroupsOf(c, n) == {EntryOf(c, n).groups[k] : k \in References(c, n)}

-----------------------------------------------------------------------------
(* Group limiters are kept while the group exists, and made on demand.        *)

Kept(lim, c) == [g \in Groups |-> IF Configs[c].limits[g] < 0 THEN -1 ELSE lim[g]]

Made(lim, gs, now) ==
  [g \in Groups |-> IF lim[g] < 0 /\ g \in gs THEN now ELSE lim[g]]

Quotas(lim, c) ==
  [l \in Limiters |-> IF lim[l[1]] = l[2] THEN Configs[c].limits[l[1]] ELSE quota[l]]

(* Variant: a user keeps the limit that he had.                               *)

updatedVariant(u, c, lim, home) ==
  LET gs == EntryOf(c, u.id).groups
  IN [u EXCEPT !.tree = [of |-> c, home |-> home],
               !.extra = [k \in References(c, u.id) |-> <<gs[k], lim[gs[k]]>>]]

(* update_shared_user(), with the token whose home the mount tree takes.      *)

updated(u, c, lim, home) ==
  LET gs == EntryOf(c, u.id).groups
  IN [u EXCEPT !.tree = [of |-> c, home |-> home],
               !.limit = EntryOf(c, u.id).limit,
               !.extra = [k \in References(c, u.id) |-> <<gs[k], lim[gs[k]]>>]]

-----------------------------------------------------------------------------
(* A user object lives while a session, a result on its way or a change that  *)
(* is being announced holds it; the map only has weak references.             *)

HeldBy(S, p, i) == i \in p \/ \E s \in Sessions : S[s].user = i

Living(us, S, p) == [i \in Slots |-> IF HeldBy(S, p, i) THEN us[i] ELSE NoUser]

Valid(S, p) == [n \in Names |-> IF HeldBy(S, p, weak[n]) THEN weak[n] ELSE 0]

Alive == {i \in Slots : HeldBy(sess, pend, i)}

(* Variant: the weak reference is never found alive.                          *)

SharedVariant(n) == 0

Shared(n) == weak[n]

(* Variant: only the first of them gets it.                                   *)

NotifiedVariant(S, us, is) ==
  LET first == CHOOSE s \in Sessions : \E i \in is : s \in us[i].subs
  IN IF \A i \in is : us[i].subs = {} THEN S
     ELSE [S EXCEPT ![first].queue = Append(@, <<"changed", S[first].user>>)]

(* notify(): the sessions that are subscribed get an event; each of them is   *)
(* subscribed to one user at most.                                            *)

Notified(S, us, is) ==
  [s \in Sessions |->
     IF \E i \in is : s \in us[i].subs
     THEN [S[s] EXCEPT !.queue = Append(@, <<"changed", CHOOSE i \in is : s \in us[i].subs>>)]
     ELSE S[s]]

-----------------------------------------------------------------------------
Init ==
  /\ cfg = 1 /\ reloads = 0
  /\ users = [i \in Slots |-> NoUser]
  /\ weak = [n \in Names |-> 0]
  /\ limiter = [g \in Groups |-> -1]
  /\ quota = [l \in Limiters |-> 0]
  /\ sess = [s \in Sessions |-> Connected]
  /\ pend = {}

(* USER: authenticate() makes a worker, whose first operation comes back with *)
(* the methods, or with an error that nobody looks at before PASS.            *)

Ask(s, n) ==
  /\ sess[s].at \in {"out", "refused", "asked"}
  /\ sess' = [sess EXCEPT ![s].at = "asked", ![s].name = n]
  /\ UNCHANGED <<cfg, reloads, users, weak, limiter, quota, pend>>

(* PASS: worker::authenticate() looks everything up again.                    *)

Deny(s) ==
  /\ sess[s].at = "asked"
  /\ sess' = [sess EXCEPT ![s].at = "answered", ![s].queue = Append(@, <<"result", 0>>)]
  /\ UNCHANGED <<cfg, reloads, users, weak, limiter, quota, pend>>

(* get_or_make_shared_user(): the one there is, or a new one if there is none *)
(* or its token is another; whoever holds that one is told to let it go.      *)
(* The directories of a new or an old one are then made, on another thread.   *)

Join(s, i) ==
  /\ i # 0 /\ users[i].token = TokenFor(cfg, sess[s].name)
  /\ sess' = [sess EXCEPT ![s].at = "creating", ![s].user = i]
  /\ UNCHANGED <<users, weak, limiter, quota>>

Make(s, old) ==
  LET n    == sess[s].name
      e    == EntryFor(cfg, n)
      lim  == Made(limiter, GroupsOf(cfg, e), reloads)
      i    == CHOOSE j \in Slots : j \notin Alive
      made == updated([NoUser EXCEPT !.key = n, !.id = e], cfg, lim, NoToken)
      told == IF old = 0 THEN sess ELSE Notified(sess, users, {old})
      left == IF old = 0 THEN users ELSE [users EXCEPT ![old].id = None]
  IN /\ old # 0 => users[old].token # TokenFor(cfg, n)
     /\ Slots \ Alive # {}
     /\ users' = [left EXCEPT ![i] = [made EXCEPT !.token = TokenFor(cfg, n)]]
     /\ weak' = [weak EXCEPT ![n] = i]
     /\ limiter' = lim /\ quota' = Quotas(lim, cfg)
     /\ sess' = [told EXCEPT ![s].at = "creating", ![s].user = i]

Verify(s) ==
  /\ sess[s].at = "asked" /\ MayLogin(cfg, sess[s].name)
  /\ LET i == Shared(sess[s].name) IN Join(s, i) \/ Make(s, i)
  /\ UNCHANGED <<cfg, reloads, pend>>

Created(s) ==
  /\ sess[s].at = "creating"
  /\ sess' = [sess EXCEPT ![s].at = "answered", ![s].queue = Append(@, <<"result", sess[s].user>>)]
  /\ UNCHANGED <<cfg, reloads, users, weak, limiter, quota, pend>>

-----------------------------------------------------------------------------
(* The session's thread.  session_user(op) counts, or refuses, and stops the  *)
(* operation; then the session subscribes, and then it reads.                 *)

Counted(i) ==
  [k \in {0} \cup DOMAIN users[i].extra |->
     IF k = 0 THEN <<"user", i>> ELSE <<"group", users[i].extra[k]>>]

TakeResult(s) ==
  LET i == Head(sess[s].queue)[2]
      x == [sess[s] EXCEPT !.queue = Tail(@)]
  IN /\ sess[s].at = "answered" /\ sess[s].queue # <<>> /\ Head(sess[s].queue)[1] = "result"
     /\ sess' = [sess EXCEPT ![s] =
          IF i = 0 THEN [x EXCEPT !.at = "out", !.name = None]
          ELSE IF QuotaReached(i) THEN [x EXCEPT !.at = "refused", !.user = 0, !.name = None]
          ELSE [x EXCEPT !.at = "counted", !.copies = Counted(i)]]
     /\ users' = Living(users, sess', pend) /\ weak' = Valid(sess', pend)
     /\ UNCHANGED <<cfg, reloads, limiter, quota, pend>>

Subscribe(s) ==
  /\ sess[s].at = "counted"
  /\ sess' = [sess EXCEPT ![s].at = "subscribed"]
  /\ users' = [users EXCEPT ![sess[s].user].subs = @ \cup {s}]
  /\ UNCHANGED <<cfg, reloads, weak, limiter, quota, pend>>

(* on_shared_user_changed_event()                                             *)

Applied(x) ==
  IF users[x.user].id = None THEN [x EXCEPT !.at = "quitting"]
  ELSE [x EXCEPT !.at = "in", !.view = users[x.user].tree]

Apply(s) ==
  /\ sess[s].at = "subscribed"
  /\ sess' = [sess EXCEPT ![s] = Applied(sess[s])]
  /\ UNCHANGED <<cfg, reloads, users, weak, limiter, quota, pend>>

Changed(s) ==
  LET x == [sess[s] EXCEPT !.queue = Tail(@)]
  IN /\ sess[s].at \in {"in", "quitting"} /\ sess[s].queue # <<>>
     /\ sess' = [sess EXCEPT ![s] = IF Head(sess[s].queue)[2] # x.user THEN x ELSE Applied(x)]
     /\ UNCHANGED <<cfg, reloads, users, weak, limiter, quota, pend>>

(* ~session(): the client left, timed out, or quit() was asked for.  Running  *)
(* attempts are stopped, with their results and their workers; the session    *)
(* unsubscribes and its counters go.  Then the next client connects.          *)

Leave(s) ==
  /\ sess[s].at \notin {"counted", "subscribed"} /\ sess[s] # Connected
  /\ sess' = [sess EXCEPT ![s] = Connected]
  /\ users' = Living([i \in Slots |-> [users[i] EXCEPT !.subs = @ \ {s}]], sess', pend)
  /\ weak' = Valid(sess', pend)
  /\ UNCHANGED <<cfg, reloads, limiter, quota, pend>>

-----------------------------------------------------------------------------
(* The administrator's thread: set_groups_and_users() and update().           *)

MayStay(c, i) ==
  LET e == EntryOf(c, users[i].id)
  IN /\ e.state = "enabled"
     /\ users[i].id = System \/ e.own # NoToken \/ users[i].token = Configs[c].default

Reload(c) ==
  LET known == {i \in Alive : \E n \in Names : weak[n] = i}
      stay  == {i \in known : MayStay(c, i)}
      gone  == known \ stay
      kept  == Kept(limiter, c)
      gs    == Made(kept, UNION {GroupsOf(c, users[i].id) : i \in stay}, reloads + 1)
  IN /\ reloads < MaxReloads /\ c # cfg
     /\ cfg' = c /\ reloads' = reloads + 1
     /\ limiter' = gs /\ quota' = Quotas(gs, c)
     /\ users' = [i \in Slots |->
          IF i \in stay THEN updated(users[i], c, gs, users[i].token)
          ELSE IF i \in gone THEN [users[i] EXCEPT !.id = None] ELSE users[i]]
     /\ weak' = [n \in Names |-> IF weak[n] \in stay THEN weak[n] ELSE 0]
     /\ sess' = Notified(sess, users, gone)
     /\ pend' = pend \cup stay

(* The backend took the credentials and made the directories.                 *)

(* Variant: nobody is told.                                                  *)

AnnounceVariant(i) ==
  /\ i \in pend
  /\ pend' = pend \ {i}
  /\ users' = Living(users, sess, pend') /\ weak' = Valid(sess, pend')
  /\ UNCHANGED <<cfg, reloads, limiter, quota, sess>>

Announce(i) ==
  /\ i \in pend
  /\ pend' = pend \ {i}
  /\ sess' = Notified(sess, users, {i})
  /\ users' = Living(users, sess', pend') /\ weak' = Valid(sess', pend')
  /\ UNCHANGED <<cfg, reloads, limiter, quota>>

-----------------------------------------------------------------------------
SessionStep(s) == TakeResult(s) \/ Subscribe(s) \/ Apply(s) \/ Changed(s)

Quits(s) == sess[s].at = "quitting" /\ Leave(s)

Next ==
  \/ \E s \in Sessions :
       \/ \E n \in Names : Ask(s, n)
       \/ Deny(s) \/ Verify(s) \/ Created(s) \/ SessionStep(s) \/ Leave(s)
  \/ \E c \in DOMAIN Configs : Reload(c)
  \/ \E i \in Slots : Announce(i)

Spec == Init /\ [][Next]_vars

(* Sessions and the backend's threads go on, and the server destroys a        *)
(* session that asked for its end.                                            *)

Fairness ==
  /\ \A s \in Sessions : WF_vars(SessionStep(s)) /\ WF_vars(Quits(s))
  /\ \A i \in Slots : WF_vars(Announce(i))

FairSpec == Spec /\ Fairness

-----------------------------------------------------------------------------
TypeOK ==
  /\ cfg \in DOMAIN Configs /\ reloads \in 0..MaxReloads
  /\ weak \in [Names -> 0..MaxUsers]
  /\ limiter \in [Groups -> -1..MaxReloads] /\ quota \in [Limiters -> Nat]
  /\ pend \subseteq Slots
  /\ \A i \in Slots : users[i].subs \subseteq Sessions /\ users[i].id \in AllNames \cup {None}
  /\ \A s \in Sessions :
       /\ sess[s].at \in {"out", "refused", "asked", "creating", "answered", "counted", "subscribed", "in", "quitting"}
       /\ sess[s].user \in 0..MaxUsers
       /\ (sess[s].copies # <<>>) = (sess[s].at \in {"counted", "subscribed", "in", "quitting"})

(* A session that nobody has anything to tell uses a user who still exists,   *)
(* with the settings in force: the change may come while the login is being   *)
(* answered, or the one before is still being announced                       *)
(* (file_based_authenticator.cpp:349-398, session.cpp:837-838).               *)

Untold(s) ==
  /\ \A k \in DOMAIN sess[s].queue : sess[s].queue[k] # <<"changed", sess[s].user>>
  /\ sess[s].user \notin pend

UsesTheSettings ==
  \A s \in Sessions : sess[s].at = "in" /\ Untold(s) =>
    /\ users[sess[s].user].id # None
    /\ sess[s].view = users[sess[s].user].tree /\ sess[s].view.of = cfg

(* Sessions under one name share one user, and with it rate limits and the    *)
(* count of sessions; a user who was replaced is one nobody can join.         *)

OneUserPerName ==
  \A i, j \in Alive :
    users[i].id # None /\ users[j].id # None /\ users[i].key = users[j].key => i = j

(* When a session is counted, no more sessions than the limit in force are     *)
(* logged in under its name, however often the user of that name was replaced,  *)
(* expired and was made again, or got another limit since the others logged in. *)
(* A session whose user was replaced is about to end and counts no more         *)
(* (file_based_authenticator.cpp:641-668, authentication/authenticator.cpp:60). *)

UnderName(n) ==
  {s \in Sessions : LET u == users[sess[s].user]
                    IN sess[s].copies # <<>> /\ u.id # None /\ u.key = n}

Takes(s, n) ==
  /\ sess[s].at = "answered" /\ sess'[s].at = "counted"
  /\ users[sess[s].user].key = n /\ users[sess[s].user].id # None

LimitHoldsForTheName ==
  [][\A s \in Sessions, n \in Names :
       LET limit == EntryOf(cfg, users[sess[s].user].id).limit
       IN Takes(s, n) /\ limit # 0 => Cardinality(UnderName(n)') <= limit]_vars

(* A login is refused for the quota if, and only if, as many sessions as the  *)
(* limit allows are counted for the user or for one of his groups: a session  *)
(* counts once.  A group that is named twice breaks this.                     *)

Holders(c) == {s \in Sessions : \E k \in DOMAIN sess[s].copies : sess[s].copies[k] = c}

Full(i) ==
  \/ users[i].limit # 0 /\ Cardinality(Holders(<<"user", i>>)) >= users[i].limit
  \/ \E k \in DOMAIN users[i].extra :
       LET l == users[i].extra[k]
       IN quota[l] # 0 /\ Cardinality(Holders(<<"group", l>>)) >= quota[l]

RefusedAtTheLimit ==
  [][\A s \in Sessions :
       sess[s].at = "answered" /\ sess'[s].at \in {"refused", "counted"}
         => (sess'[s].at = "refused") = Full(sess[s].user)]_vars

(* A change of the settings reaches every session: it takes them over, or it  *)
(* ends because its user is gone.                                             *)

ChangesArrive ==
  \A s \in Sessions :
    (sess[s].at = "in" /\ (users[sess[s].user].id = None \/ sess[s].view.of # cfg))
      ~> (sess[s].at # "in" \/ sess[s].view.of = cfg)

(* The home directory in a user's mount tree is that of the user who is       *)
(* impersonated.                                                              *)

HomeIsTheUsers ==
  \A s \in Sessions : sess[s].at = "in" => sess[s].view.home = users[sess[s].user].token
=============================================================================
