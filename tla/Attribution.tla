----------------------------- MODULE Attribution -----------------------------
(***************************************************************************)
(* Whose traffic a request is.  A request that names its user is believed. *)
(* One with a token is looked up in the identifier's cache, or else at the *)
(* backend (internal/auth Identifier): first among its sessions, then with *)
(* Users/Me.  What is still nobody's is guessed from the users the proxy   *)
(* remembers under the device, token, client and address keys of a request *)
(* (internal/proxy recentUsers, playbackUsers); whatever the outcome, it   *)
(* is remembered under all keys of the request.                            *)
(*                                                                         *)
(* Time is counted in ticks.  An entry carries the ticks it has left, and  *)
(* one that runs out is gone: the code keeps it in the identifier's cache  *)
(* and does not look at it.  The entries the identifier keeps under a user *)
(* id serve the user's name only and are left out.                         *)
(***************************************************************************)
EXTENDS Integers, Sequences, Functions

CONSTANTS
  Users, Tokens, Keys, Items,
  NoOne, NoToken, NoItem,  \* what a request without a user, ... has instead
  Blank,       \* the identity without an id that Users/Me may answer
  Shapes,      \* the kinds of requests: named user, token, keys, item
  Requests,    \* concurrent ServeHTTP calls
  CacheTTL,    \* ticks a cached identity lives
  RecentTTL,   \* ticks a remembered user lives
  Timeout      \* ticks the backend has to answer

Shape == [named : Users \cup {NoOne}, token : Tokens \cup {NoToken},
          keys : Seq(Keys), item : Items \cup {NoItem}]
ASSUME ShapesAssumption == Shapes \subseteq Shape
ASSUME NobodyAssumption ==
  /\ NoOne \notin Users /\ NoToken \notin Tokens /\ NoItem \notin Items
  /\ Blank \notin Users \cup {NoOne}
ASSUME TimesAssumption == CacheTTL \in Nat /\ RecentTTL \in Nat /\ Timeout \in Nat

VARIABLES
  request,        \* what each request is and where it is
  cache,          \* Identifier.cache: token -> entry
  recentUsers,    \* Proxy.recentUsers: key -> entry
  playbackUsers,  \* Proxy.playbackUsers: key and item -> entry
  said,           \* history: ticks since the backend named this user for this token
  seen,           \* history: ticks since a request with this key was this user's
  played          \* history: the same for a key and an item

memory  == <<cache, recentUsers, playbackUsers>>
history == <<said, seen, played>>
vars == <<request, cache, recentUsers, playbackUsers, said, seen, played>>

Places == Keys \X Items
NoEntry == [user |-> NoOne, left |-> 0]
Entry(u, ttl) == [user |-> u, left |-> ttl]
Idle == [at |-> "idle", shape |-> CHOOSE s \in Shapes : TRUE, user |-> NoOne, left |-> 0]
TooOld == CacheTTL + Timeout + 1   \* where the histories stop counting
LongAgo == RecentTTL + 1

Init ==
  /\ request = [q \in Requests |-> Idle]
  /\ cache = [t \in Tokens |-> NoEntry]
  /\ recentUsers = [k \in Keys |-> NoEntry]
  /\ playbackUsers = [p \in Places |-> NoEntry]
  /\ said = [t \in Tokens |-> [u \in Users |-> TooOld]]
  /\ seen = [k \in Keys |-> [u \in Users |-> LongAgo]]
  /\ played = [p \in Places |-> [u \in Users |-> LongAgo]]

KeysOf(q)   == Range(request[q].shape.keys)
TokenOf(q)  == request[q].shape.token
ItemOf(q)   == request[q].shape.item
PlacesOf(q) == {p \in Places : p[1] \in KeysOf(q) /\ p[2] = ItemOf(q)}

Moves(q, at, u, left) ==
  request' = [request EXCEPT ![q].at = at, ![q].user = u, ![q].left = left]
Ends(q) == request' = [request EXCEPT ![q] = Idle]

------------------------------------------------------------------------------
(* The identifier. *)

Starts(q, s, at, u, left) ==
  request' = [request EXCEPT ![q] = [at |-> at, shape |-> s, user |-> u, left |-> left]]

(* The three kinds of requests, up to the first thing each has to wait for. *)
NamesItsUser(q, s) ==
  s.named # NoOne /\ Starts(q, s, "remember", s.named, 0) /\ UNCHANGED cache
HasNoToken(q, s) ==
  s.named = NoOne /\ s.token = NoToken /\ Starts(q, s, "guess", NoOne, 0) /\ UNCHANGED cache

AddToCache(t, u) == cache' = [cache EXCEPT ![t] = Entry(u, CacheTTL)]

(* The identifier has found u: the request is its, or still nobody's.      *)
Finds(q, s, u) ==
  \/ u \in Users /\ Starts(q, s, "remember", u, 0)
  \/ u = Blank /\ Starts(q, s, "guess", NoOne, 0)

(* Mutant: every use makes a cached identity live longer. *)
GetFromCacheRenews(q, s) ==
  /\ s.named = NoOne /\ s.token # NoToken
  /\ LET u == cache[s.token].user IN
       IF u # NoOne THEN Finds(q, s, u) /\ AddToCache(s.token, u)
                    ELSE Starts(q, s, "sessions", NoOne, Timeout) /\ UNCHANGED cache

GetFromCache(q, s) ==
  /\ s.named = NoOne /\ s.token # NoToken
  /\ LET u == cache[s.token].user IN
       IF u # NoOne THEN Finds(q, s, u)
                    ELSE Starts(q, s, "sessions", NoOne, Timeout)
  /\ UNCHANGED cache

IdentifyUser(q) ==
  /\ request[q].at = "idle"
  /\ \E s \in Shapes : NamesItsUser(q, s) \/ HasNoToken(q, s) \/ GetFromCache(q, s)
  /\ UNCHANGED <<recentUsers, playbackUsers, history>>

(* The backend works out its answer, which travels on its own.  Whom it    *)
(* names is up to it: people sign in and out, and the sessions it lists    *)
(* are matched with the device and client name of the request.             *)
Answering(q, at, u) ==
  request' = [request EXCEPT ![q].user = u, ![q].at = at]
Answers(q) ==
  /\ \/ /\ request[q].at \in {"sessions", "me"}
        /\ \E u \in Users :
             /\ Answering(q, IF request[q].at = "me" THEN "meAnswered" ELSE "sessionsAnswered", u)
             /\ said' = [said EXCEPT ![TokenOf(q)][u] = 0]
     \/ request[q].at = "me" /\ Answering(q, "meAnswered", Blank) /\ UNCHANGED said
  /\ UNCHANGED <<memory, seen, played>>

(* An answer with a user ends the search; one without, and an error, go on *)
(* from the sessions to Users/Me and from there to the guess.  Users/Me    *)
(* answering with an empty id is cached like any other identity, and for   *)
(* the life of that entry nobody is asked again.                           *)
AnswerArrives(q) ==
  /\ request[q].at \in {"sessionsAnswered", "meAnswered"}
  /\ AddToCache(TokenOf(q), request[q].user)
  /\ \/ request[q].user \in Users /\ Moves(q, "remember", request[q].user, 0)
     \/ request[q].user = Blank /\ Moves(q, "guess", NoOne, 0)
  /\ UNCHANGED <<recentUsers, playbackUsers, history>>

QuerySessionUserFails(q) ==
  /\ request[q].at \in {"sessions", "sessionsAnswered"}
  /\ Moves(q, "me", NoOne, Timeout)
  /\ UNCHANGED <<memory, history>>

QueryEmbyAPIFails(q) ==
  /\ request[q].at \in {"me", "meAnswered"}
  /\ Moves(q, "guess", NoOne, 0)
  /\ UNCHANGED <<memory, history>>

------------------------------------------------------------------------------
(* The proxy's memory. *)

(* The first of these places that remembers somebody. *)
FirstKnown(table, places) ==
  LET known == {i \in DOMAIN places : table[places[i]].user # NoOne}
      first == CHOOSE i \in known : \A j \in known : i <= j
  IN  IF known = {} THEN NoOne ELSE table[places[first]].user

PlaybackUser(q) ==
  IF ItemOf(q) = NoItem THEN NoOne
  ELSE FirstKnown(playbackUsers,
         [i \in DOMAIN request[q].shape.keys |-> <<request[q].shape.keys[i], ItemOf(q)>>])
RecentUser(q) == FirstKnown(recentUsers, request[q].shape.keys)

(* Mutant: whoever was seen last goes before who plays the item. *)
RecentFirst(q) == IF RecentUser(q) # NoOne THEN RecentUser(q) ELSE PlaybackUser(q)

LookedUp(q) == IF PlaybackUser(q) # NoOne THEN PlaybackUser(q) ELSE RecentUser(q)

LookupRecentPlaybackUser(q) ==
  /\ request[q].at = "guess"
  /\ IF LookedUp(q) # NoOne THEN Moves(q, "remember", LookedUp(q), 0) ELSE Ends(q)
  /\ UNCHANGED <<memory, history>>

RememberRecentUser(q) ==
  /\ request[q].at = "remember"
  /\ LET u == request[q].user IN
       /\ recentUsers' = [k \in Keys |->
            IF k \in KeysOf(q) THEN Entry(u, RecentTTL) ELSE recentUsers[k]]
       /\ seen' = [k \in Keys |->
            IF k \in KeysOf(q) THEN [seen[k] EXCEPT ![u] = 0] ELSE seen[k]]
  /\ Moves(q, "rememberPlayback", request[q].user, 0)
  /\ UNCHANGED <<cache, playbackUsers, said, played>>

RememberPlaybackUser(q) ==
  /\ request[q].at = "rememberPlayback"
  /\ LET u == request[q].user IN
       /\ playbackUsers' = [p \in Places |->
            IF p \in PlacesOf(q) THEN Entry(u, RecentTTL) ELSE playbackUsers[p]]
       /\ played' = [p \in Places |->
            IF p \in PlacesOf(q) THEN [played[p] EXCEPT ![u] = 0] ELSE played[p]]
  /\ Ends(q)
  /\ UNCHANGED <<cache, recentUsers, said, seen>>

------------------------------------------------------------------------------
(* Time. *)

Querying(q) == request[q].at \in {"sessions", "sessionsAnswered", "me", "meAnswered"}

(* Mutant: an expired entry is not told from a live one. *)
AgedForEver(e) == IF e.left = 0 THEN e ELSE [e EXCEPT !.left = @ - 1]

(* An entry is looked at until its last tick is over. *)
Aged(e) == IF e.left = 0 THEN NoEntry ELSE [e EXCEPT !.left = @ - 1]
Older(age, cap) == IF age < cap THEN age + 1 ELSE cap

(* A tick, before which the queries that are out of time have failed. *)
Tick ==
  /\ \A q \in Requests : Querying(q) => request[q].left > 0
  /\ request' = [q \in Requests |->
       IF Querying(q) THEN [request[q] EXCEPT !.left = @ - 1] ELSE request[q]]
  /\ cache' = [t \in Tokens |-> Aged(cache[t])]
  /\ recentUsers' = [k \in Keys |-> Aged(recentUsers[k])]
  /\ playbackUsers' = [p \in Places |-> Aged(playbackUsers[p])]
  /\ said' = [t \in Tokens |-> [u \in Users |-> Older(said[t][u], TooOld)]]
  /\ seen' = [k \in Keys |-> [u \in Users |-> Older(seen[k][u], LongAgo)]]
  /\ played' = [p \in Places |-> [u \in Users |-> Older(played[p][u], LongAgo)]]

ServeHTTP(q) ==
  \/ IdentifyUser(q) \/ Answers(q) \/ AnswerArrives(q)
  \/ QuerySessionUserFails(q) \/ QueryEmbyAPIFails(q)
  \/ LookupRecentPlaybackUser(q) \/ RememberRecentUser(q) \/ RememberPlaybackUser(q)

Next == (\E q \in Requests : ServeHTTP(q)) \/ Tick

Spec == Init /\ [][Next]_vars

------------------------------------------------------------------------------
(* Properties. *)

(* This step settles whose request q is, coming from one of these states. *)
Settles(q, from) == request[q].at \in from /\ request'[q].at = "remember"

(* An identity taken from a token, cached or not and whatever lookups race *)
(* for it, is one the backend gave for this token within the life of a     *)
(* cache entry and the time of one query.                                  *)
TokensAreFresh ==
  [][\A q \in Requests :
       /\ Settles(q, {"idle", "sessionsAnswered", "meAnswered"})
       /\ request'[q].shape.named = NoOne
       => said[request'[q].shape.token][request'[q].user] <= CacheTTL + Timeout]_vars

(* A guess repeats the user of another request that shares a key with this *)
(* one, or a key and the item, and was remembered within the life of an    *)
(* entry, never longer ago.                                                *)
PlaysHere(q, u) == \E p \in PlacesOf(q) : played[p][u] <= RecentTTL
SeenHere(q, u)  == \E k \in KeysOf(q) : seen[k][u] <= RecentTTL
GuessesAreWitnessed ==
  [][\A q \in Requests :
       Settles(q, {"guess"}) =>
         PlaysHere(q, request'[q].user) \/ SeenHere(q, request'[q].user)]_vars

(* A stream without identity belongs to who plays its item: when requests  *)
(* for the item under its keys were all of one user of late, a guess is    *)
(* that user, whoever else was active behind the same keys since.          *)
ItemKeepsItsPlayer ==
  [][\A q \in Requests, u \in Users :
       /\ request[q].at = "guess" /\ request'[q].at # "guess"
       /\ PlaysHere(q, u) /\ \A v \in Users \ {u} : ~PlaysHere(q, v)
       => request'[q].user = u]_vars

==============================================================================
