-------------------------- MODULE AttributionProofs --------------------------
(***************************************************************************)
(* What holds of Attribution for all users, tokens, keys, kinds of         *)
(* requests and times to live.  The invariant ties each entry to the       *)
(* histories: the ticks an entry has left and the ticks since its user was *)
(* named add up to no more than the entry's life (and, for a cached        *)
(* identity, the time its query took), so that one that is still looked at *)
(* is fresh; and what the histories hold to be recent has an entry, so     *)
(* that a guess does not miss who plays the item.                          *)
(***************************************************************************)
EXTENDS Attribution, WellFoundedInduction, TLAPS

States == {"idle", "sessions", "sessionsAnswered", "me", "meAnswered", "guess",
           "remember", "rememberPlayback"}
Queries == {"sessions", "sessionsAnswered", "me", "meAnswered"}
Answered == {"sessionsAnswered", "meAnswered"}
SomeOne == Users \cup {NoOne}
Identities == Users \cup {NoOne, Blank}
EntriesOf(S) == [user : S, left : Nat]
Entries == EntriesOf(SomeOne)
Ages == [Users -> Nat]

(* A request, wherever it is. *)
RequestFits(r) ==
  /\ DOMAIN r = {"at", "shape", "user", "left"}
  /\ r.at \in States /\ r.user \in Identities
  /\ r.at # "idle" => r.shape \in Shapes
  /\ r.at \in Queries => r.shape.token \in Tokens /\ r.left \in 0 .. Timeout
  /\ r.at \in Answered => r.user \in Users \cup {Blank}
  /\ r.at \in {"remember", "rememberPlayback"} => r.user \in Users
Typed ==
  /\ request = [q \in Requests |-> request[q]] /\ \A q \in Requests : RequestFits(request[q])
  /\ cache \in [Tokens -> EntriesOf(Identities)]
  /\ recentUsers \in [Keys -> Entries] /\ playbackUsers \in [Places -> Entries]
  /\ said \in [Tokens -> Ages] /\ seen \in [Keys -> Ages] /\ played \in [Places -> Ages]

(* An entry that names a user is as recent as it says, up to this delay.   *)
Fresh(e, ages, ttl, delay) ==
  e.user \in Users => e.left <= ttl /\ ages[e.user] <= (ttl - e.left) + delay
(* Whoever was there within this time, there is an entry since.            *)
Kept(e, ages, ttl) ==
  \A u \in Users : ages[u] <= ttl => e.user # NoOne /\ ttl - ages[u] <= e.left

(* An answer is no older than its query. *)
AnswerFresh(r, ages) ==
  r.at \in Answered /\ r.user \in Users =>
    ages[r.shape.token][r.user] <= Timeout - r.left

CacheInv ==
  /\ \A q \in Requests : AnswerFresh(request[q], said)
  /\ \A t \in Tokens : Fresh(cache[t], said[t], CacheTTL, Timeout)
RecentInv == \A k \in Keys : Fresh(recentUsers[k], seen[k], RecentTTL, 0)
PlaybackInv ==
  \A p \in Places : /\ Fresh(playbackUsers[p], played[p], RecentTTL, 0)
                    /\ Kept(playbackUsers[p], played[p], RecentTTL)

IInv == Typed /\ CacheInv /\ RecentInv /\ PlaybackInv

------------------------------------------------------------------------------
(* Entries. *)

(* A user who is here now, and an entry that was made now. *)
LEMMA NewEntry ==
  ASSUME NEW u \in Users, NEW ttl \in Nat, NEW ages \in Ages
  PROVE  /\ Entry(u, ttl) \in Entries /\ [ages EXCEPT ![u] = 0] \in Ages
         /\ Fresh(Entry(u, ttl), [ages EXCEPT ![u] = 0], ttl, 0)
         /\ Kept(Entry(u, ttl), [ages EXCEPT ![u] = 0], ttl)
         /\ \A delay \in Nat : ages[u] <= delay => Fresh(Entry(u, ttl), ages, ttl, delay)
<1>1. PICK e : e = Entry(u, ttl) /\ e \in Entries /\ e.user = u /\ e.left = ttl
  <2>1. PICK e : e = Entry(u, ttl)
    OBVIOUS
  <2>2. e = [user |-> u, left |-> ttl] /\ u \in SomeOne
    BY <2>1 DEF Entry, SomeOne
  <2>3. e \in Entries /\ e.user = u /\ e.left = ttl
    BY <2>2 DEF Entries, EntriesOf
  <2>4. QED
    BY <2>1, <2>3
<1>2. PICK new \in Ages : new = [ages EXCEPT ![u] = 0]
  BY DEF Ages
<1>3. new[u] = 0
  BY <1>2 DEF Ages
<1>4. Fresh(e, new, ttl, 0)
  BY <1>1, <1>3 DEF Fresh
<1>5. Kept(e, new, ttl)
  BY <1>1, <1>2, NobodyAssumption DEF Kept, Ages
<1>6. \A delay \in Nat : ages[u] <= delay => Fresh(e, ages, ttl, delay)
  BY <1>1 DEF Fresh, Ages
<1>7. QED
  BY <1>1, <1>2, <1>4, <1>5, <1>6

(* An entry for the cache, which may say that there is no user.            *)
LEMMA NewIdentity ==
  ASSUME NEW u \in Users \cup {Blank}, NEW ttl \in Nat, NEW ages \in Ages, NEW delay \in Nat,
         u \in Users => ages[u] <= delay
  PROVE  Entry(u, ttl) \in EntriesOf(Identities) /\ Fresh(Entry(u, ttl), ages, ttl, delay)
<1>1. PICK e : e = Entry(u, ttl)
  OBVIOUS
<1>2. e = [user |-> u, left |-> ttl] /\ u \in Identities
  BY <1>1 DEF Entry, Identities
<1>3. e \in EntriesOf(Identities) /\ e.user = u /\ e.left = ttl
  BY <1>2 DEF EntriesOf
<1>4. u \in Users => ages[u] \in Nat /\ ages[u] <= (ttl - ttl) + delay
  BY DEF Ages
<1>5. Fresh(e, ages, ttl, delay)
  BY <1>3, <1>4 DEF Fresh
<1>6. QED
  BY <1>1, <1>3, <1>5

(* No entry, and nobody there. *)
LEMMA NoNewEntry ==
  ASSUME NEW ages, NEW ttl, NEW delay, NEW S, NoOne \in S
  PROVE  NoEntry \in EntriesOf(S) /\ Fresh(NoEntry, ages, ttl, delay)
  BY NobodyAssumption DEF NoEntry, EntriesOf, Fresh

(* A user who is seen again is no older. *)
LEMMA NamedAgain ==
  ASSUME NEW e \in EntriesOf(Identities), NEW ages \in Ages, NEW u \in Users, NEW ttl \in Nat,
         NEW delay \in Nat, Fresh(e, ages, ttl, delay)
  PROVE  [ages EXCEPT ![u] = 0] \in Ages /\ Fresh(e, [ages EXCEPT ![u] = 0], ttl, delay)
<1>1. PICK new \in Ages : new = [ages EXCEPT ![u] = 0]
  BY DEF Ages
<1>2. \A v \in Users : new[v] <= ages[v] /\ new[v] \in Nat /\ ages[v] \in Nat
  BY <1>1 DEF Ages
<1>3. e.left \in Nat
  BY DEF EntriesOf
<1>4. Fresh(e, new, ttl, delay)
  BY <1>2, <1>3 DEF Fresh
<1>5. QED
  BY <1>1, <1>4

(* A tick. *)
LEMMA AgedFits ==
  ASSUME NEW S, NoOne \in S, NEW e \in EntriesOf(S),
         NEW ages \in Ages, NEW ttl \in Nat, NEW delay \in Nat, NEW cap \in Nat,
         NEW new, new = [u \in Users |-> Older(ages[u], cap)]
  PROVE  /\ Aged(e) \in EntriesOf(S) /\ new \in Ages
         /\ Fresh(e, ages, ttl, delay) => Fresh(Aged(e), new, ttl, delay)
         /\ Kept(e, ages, ttl) /\ cap = ttl + 1 => Kept(Aged(e), new, ttl)
<1>1. \A u \in Users : /\ new[u] = IF ages[u] < cap THEN ages[u] + 1 ELSE cap
                       /\ new[u] \in Nat /\ ages[u] \in Nat
  BY DEF Older, Ages
<1>2. new \in Ages
  BY <1>1 DEF Ages
<1>3. e.user \in S /\ e.left \in Nat /\ DOMAIN e = {"user", "left"}
  BY DEF EntriesOf
<1>4. CASE e.left = 0
  <2>1. Aged(e) = NoEntry /\ Aged(e) \in EntriesOf(S)
    BY <1>4, NoNewEntry DEF Aged
  <2>2. Fresh(Aged(e), new, ttl, delay)
    BY <2>1, NoNewEntry
  <2>3. ASSUME Kept(e, ages, ttl), cap = ttl + 1, NEW u \in Users PROVE ~(new[u] <= ttl)
    <3>1. ages[u] <= ttl => ttl - ages[u] <= 0
      BY <1>4, <2>3 DEF Kept
    <3>2. QED
      BY <1>1, <2>3, <3>1
  <2>4. Kept(e, ages, ttl) /\ cap = ttl + 1 => Kept(Aged(e), new, ttl)
    BY <2>3 DEF Kept
  <2>5. QED
    BY <1>2, <2>1, <2>2, <2>4
<1>5. CASE e.left # 0
  <2>1. PICK a : a = Aged(e) /\ a \in EntriesOf(S) /\ a.user = e.user /\ a.left = e.left - 1
    <3>1. PICK a : a = [e EXCEPT !.left = @ - 1]
      OBVIOUS
    <3>2. a = Aged(e)
      BY <1>5, <3>1 DEF Aged
    <3>3. a.user = e.user /\ a.left = e.left - 1 /\ e.left - 1 \in Nat
      BY <1>3, <1>5, <3>1
    <3>4. a \in EntriesOf(S)
      BY <1>3, <3>1, <3>3 DEF EntriesOf
    <3>5. QED
      BY <3>2, <3>3, <3>4
  <2>2. Fresh(e, ages, ttl, delay) => Fresh(a, new, ttl, delay)
    BY <1>1, <1>3, <2>1 DEF Fresh
  <2>3. ASSUME Kept(e, ages, ttl), cap = ttl + 1, NEW u \in Users, new[u] <= ttl
        PROVE  a.user # NoOne /\ ttl - new[u] <= a.left
    <3>1. ages[u] <= ttl /\ new[u] = ages[u] + 1
      BY <1>1, <2>3
    <3>2. e.user # NoOne /\ ttl - ages[u] <= e.left
      BY <2>3, <3>1 DEF Kept
    <3>3. QED
      BY <1>1, <1>3, <2>1, <3>1, <3>2
  <2>4. Kept(e, ages, ttl) /\ cap = ttl + 1 => Kept(a, new, ttl)
    BY <2>3 DEF Kept
  <2>5. QED
    BY <1>2, <2>1, <2>2, <2>4
<1>6. QED
  BY <1>4, <1>5

(* Numbers have a least among them. *)
LEMMA LeastOf ==
  ASSUME NEW S, S \subseteq Nat, S # {}
  PROVE  \E i \in S : \A j \in S : i <= j
<1>1. PICK R : R = OpToRel(<, Nat)
  OBVIOUS
<1>2. \A i, j \in Nat : <<j, i>> \in R <=> j < i
  BY <1>1 DEF OpToRel
<1>3. IsWellFoundedOn(R, Nat)
  BY <1>1, NatLessThanWellFounded
<1>4. PICK i \in S : \A j \in S : ~(<<j, i>> \in R)
  BY <1>3, WFMin
<1>5. \A j \in S : i \in Nat /\ j \in Nat /\ ~(j < i)
  BY <1>2, <1>4
<1>6. \A j \in S : i <= j
  BY <1>5
<1>7. QED
  BY <1>4, <1>6

(* The first place that knows somebody is a place that knows somebody. *)
LEMMA FirstKnownFits ==
  ASSUME NEW table, NEW places, NEW n \in Nat, DOMAIN places = 1 .. n
  PROVE  /\ FirstKnown(table, places) # NoOne =>
              \E i \in 1 .. n : table[places[i]].user = FirstKnown(table, places)
         /\ (\E i \in 1 .. n : table[places[i]].user # NoOne) =>
              FirstKnown(table, places) # NoOne
<1>1. PICK known : known = {i \in DOMAIN places : table[places[i]].user # NoOne}
  OBVIOUS
<1>2. CASE known = {}
  <2>1. FirstKnown(table, places) = NoOne
    BY <1>1, <1>2 DEF FirstKnown
  <2>2. QED
    BY <1>1, <1>2, <2>1
<1>3. CASE known # {}
  <2>1. PICK first : first = CHOOSE i \in known : \A j \in known : i <= j
    OBVIOUS
  <2>2. first \in known
    <3>1. \E i \in known : \A j \in known : i <= j
      BY <1>1, <1>3, LeastOf
    <3>2. QED
      BY <2>1, <3>1
  <2>3. FirstKnown(table, places) = table[places[first]].user
    BY <1>1, <1>3, <2>1 DEF FirstKnown
  <2>4. QED
    BY <1>1, <2>2, <2>3
<1>4. QED
  BY <1>2, <1>3

------------------------------------------------------------------------------
(* Requests. *)

RequestsFit == request = [q \in Requests |-> request[q]]
               /\ \A q \in Requests : RequestFits(request[q]) /\ AnswerFresh(request[q], said)

(* One request goes on; that users are named again disturbs no other.      *)
LEMMA OneRequest ==
  ASSUME IInv, NEW q \in Requests, NEW r, RequestFits(r), AnswerFresh(r, said'),
         request' = [request EXCEPT ![q] = r], said' \in [Tokens -> Ages],
         \A t \in Tokens : \A u \in Users : said'[t][u] <= said[t][u]
  PROVE  RequestsFit'
<1>1. request' = [p \in Requests |-> request'[p]] /\ request'[q] = r
      /\ \A p \in Requests : p # q => request'[p] = request[p]
  BY DEF IInv, Typed
<1>2. ASSUME NEW p \in Requests, p # q
      PROVE  RequestFits(request'[p]) /\ AnswerFresh(request'[p], said')
  <2>1. PICK x : x = request'[p] /\ x = request[p]
    BY <1>1, <1>2
  <2>2. RequestFits(x) /\ AnswerFresh(x, said)
    BY <2>1 DEF IInv, Typed, CacheInv
  <2>3. ASSUME x.at \in Answered, x.user \in Users
        PROVE  said'[x.shape.token][x.user] <= Timeout - x.left
    <3>1. PICK t \in Tokens, u \in Users :
            t = x.shape.token /\ u = x.user /\ x.left \in 0 .. Timeout
      BY <2>2, <2>3 DEF RequestFits, Queries, Answered
    <3>2. said[t][u] <= Timeout - x.left /\ said'[t][u] <= said[t][u]
      BY <2>2, <2>3, <3>1 DEF AnswerFresh
    <3>3. said[t][u] \in Nat /\ said'[t][u] \in Nat /\ Timeout \in Nat /\ x.left \in Int
      BY <3>1, TimesAssumption DEF IInv, Typed, Ages
    <3>4. QED
      BY <3>1, <3>2, <3>3
  <2>4. QED
    BY <2>1, <2>2, <2>3 DEF AnswerFresh
<1>3. QED
  BY <1>1, <1>2 DEF RequestsFit

(* The same when nobody is named, for what a request may become. *)
LEMMA RequestGoesOn ==
  ASSUME IInv, NEW q \in Requests, NEW r, RequestFits(r), r.at \notin Answered,
         request' = [request EXCEPT ![q] = r], said' = said
  PROVE  RequestsFit'
<1>1. AnswerFresh(r, said')
  BY DEF AnswerFresh
<1>2. said' \in [Tokens -> Ages] /\ \A t \in Tokens : \A u \in Users : said'[t][u] <= said[t][u]
  BY DEF IInv, Typed, Ages
<1>3. QED
  BY <1>1, <1>2, OneRequest

LEMMA MovesRequest ==
  ASSUME IInv, NEW q \in Requests, NEW at \in States \ Answered, NEW u, NEW left,
         Moves(q, at, u, left), UNCHANGED said, request[q].at # "idle",
         u \in Identities, at \in {"remember", "rememberPlayback"} => u \in Users,
         at \in Queries => left \in 0 .. Timeout /\ request[q].at \in Queries
  PROVE  RequestsFit'
<1>1. RequestFits(request[q]) /\ DOMAIN request = Requests
  BY DEF IInv, Typed
<1>2. PICK r : r = [request[q] EXCEPT !.at = at, !.user = u, !.left = left]
  OBVIOUS
<1>3. request' = [request EXCEPT ![q] = r]
  BY <1>1, <1>2 DEF Moves
<1>4. /\ DOMAIN r = {"at", "shape", "user", "left"} /\ r.at = at /\ r.user = u /\ r.left = left
      /\ r.shape = request[q].shape
  BY <1>1, <1>2 DEF RequestFits
<1>5. RequestFits(r)
  BY <1>1, <1>4 DEF RequestFits
<1>6. QED
  BY <1>3, <1>4, <1>5, RequestGoesOn

LEMMA EndsRequest ==
  ASSUME IInv, NEW q \in Requests, Ends(q), UNCHANGED said
  PROVE  RequestsFit'
<1>1. /\ DOMAIN Idle = {"at", "shape", "user", "left"} /\ Idle.at = "idle" /\ Idle.user = NoOne
  BY DEF Idle
<1>2. RequestFits(Idle) /\ Idle.at \notin Answered
  BY <1>1 DEF RequestFits, States, Queries, Answered, Identities
<1>3. QED
  BY <1>2, RequestGoesOn DEF Ends

(* What the invariant needs when only the requests change. *)
LEMMA OnlyRequests ==
  ASSUME IInv, RequestsFit', UNCHANGED <<memory, history>>
  PROVE  IInv'
<1>1. /\ cache' = cache /\ recentUsers' = recentUsers /\ playbackUsers' = playbackUsers
      /\ said' = said /\ seen' = seen /\ played' = played
  BY DEF memory, history
<1>2. Typed'
  BY <1>1 DEF IInv, Typed, RequestsFit
<1>3. CacheInv'
  BY <1>1 DEF IInv, CacheInv, RequestsFit, Fresh
<1>4. RecentInv' /\ PlaybackInv'
  BY <1>1 DEF IInv, RecentInv, PlaybackInv, Fresh, Kept
<1>5. QED
  BY <1>2, <1>3, <1>4 DEF IInv

LEMMA IdentifyUserStep == ASSUME IInv, NEW q \in Requests, IdentifyUser(q) PROVE IInv'
<1>1. PICK s \in Shapes : NamesItsUser(q, s) \/ HasNoToken(q, s) \/ GetFromCache(q, s)
  BY DEF IdentifyUser
<1>2. s.named \in SomeOne /\ s.token \in Tokens \cup {NoToken}
  BY ShapesAssumption DEF Shape, SomeOne
<1>3. ASSUME NEW at \in States \ Answered, NEW u \in Identities, NEW left,
             Starts(q, s, at, u, left),
             at = "remember" => u \in Users, at # "rememberPlayback",
             at \in Queries => left \in 0 .. Timeout /\ s.token \in Tokens
      PROVE  RequestsFit'
  <2>1. PICK r : r = [at |-> at, shape |-> s, user |-> u, left |-> left]
    OBVIOUS
  <2>2. RequestFits(r) /\ r.at \notin Answered
    BY <1>3, <2>1 DEF RequestFits
  <2>3. QED
    BY <1>3, <2>1, <2>2, RequestGoesOn DEF Starts, IdentifyUser, history
<1>4. ASSUME NamesItsUser(q, s) PROVE RequestsFit'
  <2>1. s.named \in Users /\ Starts(q, s, "remember", s.named, 0)
    BY <1>2, <1>4 DEF NamesItsUser, SomeOne
  <2>2. QED
    BY <1>3, <2>1 DEF States, Answered, Queries, Identities
<1>5. ASSUME HasNoToken(q, s) PROVE RequestsFit'
  BY <1>3, <1>5 DEF HasNoToken, States, Answered, Queries, Identities
<1>6. ASSUME GetFromCache(q, s) PROVE RequestsFit'
  <2>1. PICK u : u = cache[s.token].user
    OBVIOUS
  <2>2. s.token \in Tokens /\ u \in Identities
    BY <1>2, <1>6, <2>1 DEF GetFromCache, IInv, Typed, EntriesOf
  <2>3. CASE u # NoOne
    <3>1. Finds(q, s, u)
      BY <1>6, <2>1, <2>3 DEF GetFromCache
    <3>2. CASE u \in Users /\ Starts(q, s, "remember", u, 0)
      BY <1>3, <2>2, <3>2 DEF States, Answered, Queries
    <3>3. CASE u = Blank /\ Starts(q, s, "guess", NoOne, 0)
      BY <1>3, <3>3 DEF States, Answered, Queries, Identities
    <3>4. QED
      BY <3>1, <3>2, <3>3 DEF Finds
  <2>4. CASE u = NoOne
    <3>1. Starts(q, s, "sessions", NoOne, Timeout)
      BY <1>6, <2>1, <2>4 DEF GetFromCache
    <3>2. Timeout \in 0 .. Timeout
      BY TimesAssumption
    <3>3. QED
      BY <1>3, <2>2, <3>1, <3>2 DEF States, Answered, Queries, Identities
  <2>5. QED
    BY <2>3, <2>4
<1>7. RequestsFit'
  BY <1>1, <1>4, <1>5, <1>6
<1>8. UNCHANGED <<memory, history>>
  BY DEF IdentifyUser, NamesItsUser, HasNoToken, GetFromCache, memory
<1>9. QED
  BY <1>7, <1>8, OnlyRequests

(* The backend names a user.                                               *)
LEMMA AnswersUser ==
  ASSUME IInv, NEW q \in Requests, Answers(q), NEW u \in Users, NEW at \in Answered,
         Answering(q, at, u), said' = [said EXCEPT ![TokenOf(q)][u] = 0]
  PROVE  IInv'
<1>2. PICK x : x = request[q] /\ RequestFits(x) /\ x.at \in {"sessions", "me"}
  BY DEF Answers, IInv, Typed
<1>3. PICK t \in Tokens : t = TokenOf(q) /\ t = x.shape.token
  BY <1>2 DEF TokenOf, RequestFits, Queries
<1>4. said \in [Tokens -> Ages]
  BY DEF IInv, Typed
<1>5. PICK ages \in Ages : ages = said[t]
  BY <1>4
<1>6. /\ said' = [said EXCEPT ![t] = [ages EXCEPT ![u] = 0]]
      /\ [ages EXCEPT ![u] = 0] \in Ages /\ [ages EXCEPT ![u] = 0][u] = 0
  BY <1>3, <1>5, <1>4 DEF Ages
<1>7. /\ said' \in [Tokens -> Ages] /\ said'[t] = [ages EXCEPT ![u] = 0]
      /\ \A d \in Tokens : d # t => said'[d] = said[d]
  BY <1>4, <1>6
<1>8. \A d \in Tokens : \A v \in Users : said'[d][v] <= said[d][v]
  <2>1. \A v \in Users : said'[t][v] <= said[t][v]
    BY <1>5, <1>7 DEF Ages
  <2>2. \A d \in Tokens : d # t => \A v \in Users : said'[d][v] <= said[d][v]
    BY <1>4, <1>7 DEF Ages
  <2>3. QED
    BY <2>1, <2>2
<1>9. PICK r : r = [x EXCEPT !.user = u, !.at = at]
  OBVIOUS
<1>10. request' = [request EXCEPT ![q] = r]
  <2>1. DOMAIN request = Requests
    BY DEF IInv, Typed
  <2>2. QED
    BY <1>2, <1>9, <2>1 DEF Answering
<1>11. /\ DOMAIN r = {"at", "shape", "user", "left"} /\ r.at \in Answered /\ r.user = u
       /\ r.left = x.left /\ r.shape = x.shape
  BY <1>2, <1>9 DEF RequestFits, Answered
<1>12. RequestFits(r)
  BY <1>2, <1>11 DEF RequestFits, States, Answered, Queries, Identities
<1>13. AnswerFresh(r, said')
  <2>1. said'[t][u] = 0
    BY <1>6, <1>7
  <2>2. x.left \in 0 .. Timeout
    BY <1>2 DEF RequestFits, Queries
  <2>3. 0 <= Timeout - x.left
    BY <2>2, TimesAssumption
  <2>4. QED
    BY <1>3, <1>11, <2>1, <2>3 DEF AnswerFresh
<1>14. RequestsFit'
  BY <1>7, <1>8, <1>10, <1>12, <1>13, OneRequest
<1>15. /\ cache' = cache /\ recentUsers' = recentUsers /\ playbackUsers' = playbackUsers
       /\ seen' = seen /\ played' = played
  BY DEF Answers, memory
<1>16. Typed'
  BY <1>7, <1>14, <1>15 DEF IInv, Typed, RequestsFit
<1>17. CacheInv'
  <2>1. ASSUME NEW d \in Tokens PROVE Fresh(cache[d], said'[d], CacheTTL, Timeout)
    <3>1. PICK e \in EntriesOf(Identities) : e = cache[d] /\ Fresh(e, said[d], CacheTTL, Timeout)
      BY DEF IInv, Typed, CacheInv
    <3>2. CASE d = t
      <4>1. Fresh(e, [ages EXCEPT ![u] = 0], CacheTTL, Timeout)
        BY <1>5, <3>1, <3>2, NamedAgain, TimesAssumption
      <4>2. QED
        BY <1>7, <3>1, <3>2, <4>1
    <3>3. CASE d # t
      BY <1>7, <3>1, <3>3
    <3>4. QED
      BY <3>2, <3>3
  <2>2. QED
    BY <1>14, <1>15, <2>1 DEF CacheInv, RequestsFit, Fresh
<1>18. RecentInv' /\ PlaybackInv'
  BY <1>15 DEF IInv, RecentInv, PlaybackInv, Fresh, Kept
<1>19. QED
  BY <1>16, <1>17, <1>18 DEF IInv

(* Users/Me answers with the identity that has no id.                      *)
LEMMA AnswersBlank ==
  ASSUME IInv, NEW q \in Requests, Answers(q), Answering(q, "meAnswered", Blank), UNCHANGED said
  PROVE  IInv'
<1>1. PICK x : x = request[q] /\ RequestFits(x) /\ x.at \in {"sessions", "me"}
  BY DEF Answers, IInv, Typed
<1>2. PICK r : r = [x EXCEPT !.user = Blank, !.at = "meAnswered"]
  OBVIOUS
<1>3. request' = [request EXCEPT ![q] = r]
  <2>1. DOMAIN request = Requests
    BY DEF IInv, Typed
  <2>2. QED
    BY <1>1, <1>2, <2>1 DEF Answering
<1>4. /\ DOMAIN r = {"at", "shape", "user", "left"} /\ r.at = "meAnswered" /\ r.user = Blank
      /\ r.left = x.left /\ r.shape = x.shape
  BY <1>1, <1>2 DEF RequestFits
<1>5. RequestFits(r)
  BY <1>1, <1>4 DEF RequestFits, States, Answered, Queries, Identities
<1>6. AnswerFresh(r, said')
  BY <1>4, NobodyAssumption DEF AnswerFresh
<1>7. said' \in [Tokens -> Ages] /\ \A t \in Tokens : \A u \in Users : said'[t][u] <= said[t][u]
  BY DEF IInv, Typed, Ages
<1>8. RequestsFit'
  BY <1>3, <1>5, <1>6, <1>7, OneRequest
<1>9. UNCHANGED <<memory, history>>
  BY DEF Answers, history
<1>10. QED
  BY <1>8, <1>9, OnlyRequests

LEMMA AnswersStep == ASSUME IInv, NEW q \in Requests, Answers(q) PROVE IInv'
<1>1. \/ \E u \in Users, at \in Answered :
            Answering(q, at, u) /\ said' = [said EXCEPT ![TokenOf(q)][u] = 0]
      \/ Answering(q, "meAnswered", Blank) /\ UNCHANGED said
  BY DEF Answers, Answered
<1>2. QED
  BY <1>1, AnswersUser, AnswersBlank

LEMMA AnswerArrivesStep == ASSUME IInv, NEW q \in Requests, AnswerArrives(q) PROVE IInv'
<1>1. PICK x : x = request[q] /\ RequestFits(x) /\ AnswerFresh(x, said) /\ x.at \in Answered
  BY DEF AnswerArrives, IInv, Typed, CacheInv, Answered
<1>2. PICK t \in Tokens, u \in Users \cup {Blank} :
        t = TokenOf(q) /\ t = x.shape.token /\ u = x.user /\ x.left \in 0 .. Timeout
  BY <1>1 DEF TokenOf, RequestFits, Queries, Answered
<1>3. /\ \/ u \in Users /\ Moves(q, "remember", u, 0)
         \/ Moves(q, "guess", NoOne, 0)
      /\ cache' = [cache EXCEPT ![t] = Entry(u, CacheTTL)]
      /\ recentUsers' = recentUsers /\ playbackUsers' = playbackUsers
      /\ said' = said /\ seen' = seen /\ played' = played
  BY <1>1, <1>2 DEF AnswerArrives, AddToCache, history
<1>4. RequestsFit'
  <2>1. /\ request[q].at # "idle" /\ u \in Identities /\ NoOne \in Identities
        /\ "remember" \in States \ Answered /\ "remember" \notin Queries
        /\ "guess" \in (States \ Answered) \ {"remember", "rememberPlayback"}
        /\ "guess" \notin Queries
    BY <1>1 DEF States, Answered, Queries, Identities
  <2>2. QED
    BY <1>3, <2>1, MovesRequest
<1>5. PICK ages \in Ages : ages = said[t]
  BY DEF IInv, Typed
<1>6. ASSUME u \in Users PROVE ages[u] <= Timeout
  <2>1. ages[u] <= Timeout - x.left /\ ages[u] \in Nat
    BY <1>1, <1>2, <1>5, <1>6 DEF AnswerFresh, Ages
  <2>2. QED
    BY <1>2, <2>1, TimesAssumption
<1>7. /\ Entry(u, CacheTTL) \in EntriesOf(Identities)
      /\ Fresh(Entry(u, CacheTTL), ages, CacheTTL, Timeout)
  BY <1>6, NewIdentity, TimesAssumption
<1>8. Typed'
  BY <1>3, <1>4, <1>7 DEF IInv, Typed, RequestsFit
<1>9. CacheInv'
  <2>1. ASSUME NEW d \in Tokens PROVE Fresh(cache'[d], said[d], CacheTTL, Timeout)
    BY <1>3, <1>5, <1>7 DEF IInv, Typed, CacheInv
  <2>2. QED
    BY <1>3, <1>4, <2>1 DEF CacheInv, RequestsFit, Fresh
<1>10. RecentInv' /\ PlaybackInv'
  BY <1>3 DEF IInv, RecentInv, PlaybackInv, Fresh, Kept
<1>11. QED
  BY <1>8, <1>9, <1>10 DEF IInv

LEMMA QueryFailsStep ==
  ASSUME IInv, NEW q \in Requests, QuerySessionUserFails(q) \/ QueryEmbyAPIFails(q)
  PROVE  IInv'
<1>1. Timeout \in 0 .. Timeout
  BY TimesAssumption
<1>2. UNCHANGED <<memory, history>> /\ said' = said
  BY DEF QuerySessionUserFails, QueryEmbyAPIFails, history
<1>3. CASE QuerySessionUserFails(q)
  <2>1. /\ Moves(q, "me", NoOne, Timeout) /\ request[q].at \in Queries /\ request[q].at # "idle"
        /\ "me" \in States \ Answered /\ NoOne \in Identities
    BY <1>3 DEF QuerySessionUserFails, Queries, States, Answered, Identities
  <2>2. RequestsFit'
    BY <1>1, <1>2, <2>1, MovesRequest
  <2>3. QED
    BY <1>2, <2>2, OnlyRequests
<1>4. CASE QueryEmbyAPIFails(q)
  <2>1. /\ Moves(q, "guess", NoOne, 0) /\ request[q].at # "idle" /\ "guess" \notin Queries
        /\ "guess" \in States \ Answered /\ NoOne \in Identities
    BY <1>4 DEF QueryEmbyAPIFails, Queries, States, Answered, Identities
  <2>2. RequestsFit'
    BY <1>2, <2>1, MovesRequest
  <2>3. QED
    BY <1>2, <2>2, OnlyRequests
<1>5. QED
  BY <1>3, <1>4

------------------------------------------------------------------------------
(* Guesses and what is remembered. *)

(* Where a request in search of its user has been looked for. *)
LEMMA ShapeOf ==
  ASSUME IInv, NEW q \in Requests, request[q].at # "idle"
  PROVE  /\ request[q].shape.keys \in Seq(Keys) /\ KeysOf(q) \subseteq Keys
         /\ ItemOf(q) \in Items \cup {NoItem}
<1>1. request[q].shape \in Shape
  BY ShapesAssumption DEF IInv, Typed, RequestFits
<1>2. request[q].shape.keys \in Seq(Keys) /\ ItemOf(q) \in Items \cup {NoItem}
  BY <1>1 DEF Shape, ItemOf
<1>3. QED
  BY <1>2 DEF KeysOf, Range

(* A recent user was remembered under a key of the request.                *)
LEMMA RecentUserFits ==
  ASSUME IInv, NEW q \in Requests, request[q].at # "idle", RecentUser(q) # NoOne
  PROVE  RecentUser(q) \in Users /\ SeenHere(q, RecentUser(q))
<1>1. PICK keys \in Seq(Keys) : keys = request[q].shape.keys
  BY ShapeOf
<1>2. Len(keys) \in Nat /\ DOMAIN keys = 1 .. Len(keys)
  OBVIOUS
<1>3. RecentUser(q) = FirstKnown(recentUsers, keys)
  BY <1>1 DEF RecentUser
<1>4. PICK i \in 1 .. Len(keys) : recentUsers[keys[i]].user = RecentUser(q)
  BY <1>2, <1>3, FirstKnownFits
<1>5. PICK k \in Keys : k = keys[i] /\ k \in KeysOf(q)
  BY <1>1, <1>2, ShapeOf DEF KeysOf, Range
<1>6. PICK u \in Users : u = RecentUser(q) /\ recentUsers[k].user = u
  BY <1>4, <1>5 DEF IInv, Typed, Entries, EntriesOf, SomeOne
<1>7. /\ recentUsers[k].left \in Nat /\ seen[k][u] \in Nat
      /\ seen[k][u] <= (RecentTTL - recentUsers[k].left) + 0
  BY <1>6 DEF IInv, Typed, Entries, EntriesOf, Ages, RecentInv, Fresh
<1>8. seen[k][u] <= RecentTTL
  BY <1>7, TimesAssumption
<1>9. QED
  BY <1>5, <1>6, <1>8 DEF SeenHere

(* So was a playing user, under a key and the item; and if there is any    *)
(* who played here of late, somebody is remembered.                        *)
LEMMA PlaybackUserFits ==
  ASSUME IInv, NEW q \in Requests, request[q].at # "idle"
  PROVE  /\ PlaybackUser(q) # NoOne =>
              PlaybackUser(q) \in Users /\ PlaysHere(q, PlaybackUser(q))
         /\ \A u \in Users : PlaysHere(q, u) => PlaybackUser(q) # NoOne
<1>1. PICK keys \in Seq(Keys), item \in Items \cup {NoItem} :
        keys = request[q].shape.keys /\ item = ItemOf(q)
  BY ShapeOf
<1>2. PICK n \in Nat : n = Len(keys) /\ DOMAIN keys = 1 .. n
  OBVIOUS
<1>3. PICK places : places = [i \in DOMAIN keys |-> <<keys[i], item>>]
  OBVIOUS
<1>4. DOMAIN places = 1 .. n /\ \A i \in 1 .. n : places[i] = <<keys[i], item>>
  BY <1>2, <1>3
<1>5. PlaybackUser(q) = IF item = NoItem THEN NoOne ELSE FirstKnown(playbackUsers, places)
  BY <1>1, <1>3 DEF PlaybackUser
<1>6. CASE item = NoItem
  <2>1. PlaysHere(q, NoOne) \in BOOLEAN /\ \A p \in Places : p[2] # item
    BY <1>6, NobodyAssumption DEF Places, PlaysHere
  <2>2. QED
    BY <1>1, <1>5, <1>6, <2>1 DEF PlaysHere, PlacesOf
<1>7. CASE item # NoItem
  <2>1. \A i \in 1 .. n : places[i] \in Places /\ places[i] \in PlacesOf(q)
    <3>1. ASSUME NEW i \in 1 .. n PROVE places[i] \in Places /\ places[i] \in PlacesOf(q)
      <4>1. PICK k \in Keys : k = keys[i] /\ k \in KeysOf(q)
        BY <1>1, <1>2, ShapeOf DEF KeysOf, Range
      <4>2. PICK p \in Places : p = places[i] /\ p = <<k, item>>
        BY <1>4, <1>7, <4>1 DEF Places
      <4>3. p[1] = k /\ p[2] = ItemOf(q)
        BY <1>1, <4>2
      <4>4. QED
        BY <4>1, <4>2, <4>3 DEF PlacesOf
    <3>2. QED
      BY <3>1
  <2>2. ASSUME NEW p \in PlacesOf(q) PROVE \E i \in 1 .. n : places[i] = p
    <3>1. PICK i \in 1 .. n : keys[i] = p[1]
      BY <1>1, <1>2 DEF PlacesOf, KeysOf, Range
    <3>2. p = <<p[1], p[2]>> /\ p[2] = item
      BY <1>1 DEF PlacesOf, Places
    <3>3. QED
      BY <1>4, <3>1, <3>2
  <2>3. /\ PlaybackUser(q) # NoOne =>
             \E i \in 1 .. n : playbackUsers[places[i]].user = PlaybackUser(q)
        /\ (\E i \in 1 .. n : playbackUsers[places[i]].user # NoOne) => PlaybackUser(q) # NoOne
    BY <1>4, <1>5, <1>7, FirstKnownFits
  <2>4. ASSUME PlaybackUser(q) # NoOne
        PROVE  PlaybackUser(q) \in Users /\ PlaysHere(q, PlaybackUser(q))
    <3>1. PICK p \in Places : p \in PlacesOf(q) /\ playbackUsers[p].user = PlaybackUser(q)
      BY <2>1, <2>3, <2>4
    <3>2. PICK u \in Users : u = PlaybackUser(q) /\ playbackUsers[p].user = u
      BY <2>4, <3>1 DEF IInv, Typed, Entries, EntriesOf, SomeOne
    <3>3. /\ playbackUsers[p].left \in Nat /\ played[p][u] \in Nat
          /\ played[p][u] <= (RecentTTL - playbackUsers[p].left) + 0
      BY <3>2 DEF IInv, Typed, Entries, EntriesOf, Ages, PlaybackInv, Fresh
    <3>4. played[p][u] <= RecentTTL
      BY <3>3, TimesAssumption
    <3>5. QED
      BY <3>1, <3>2, <3>4 DEF PlaysHere
  <2>5. ASSUME NEW u \in Users, PlaysHere(q, u) PROVE PlaybackUser(q) # NoOne
    <3>1. PICK p \in PlacesOf(q) : played[p][u] <= RecentTTL
      BY <2>5 DEF PlaysHere
    <3>2. playbackUsers[p].user # NoOne
      BY <3>1 DEF PlacesOf, IInv, PlaybackInv, Kept
    <3>3. QED
      BY <2>2, <2>3, <3>2
  <2>6. QED
    BY <2>4, <2>5
<1>8. QED
  BY <1>6, <1>7

LEMMA LookupStep == ASSUME IInv, NEW q \in Requests, LookupRecentPlaybackUser(q) PROVE IInv'
<1>1. /\ request[q].at = "guess" /\ UNCHANGED <<memory, history>> /\ said' = said
      /\ request[q].at # "idle"
  BY DEF LookupRecentPlaybackUser, history
<1>2. CASE LookedUp(q) # NoOne
  <2>1. LookedUp(q) \in Users /\ Moves(q, "remember", LookedUp(q), 0)
    BY <1>1, <1>2, RecentUserFits, PlaybackUserFits DEF LookedUp, LookupRecentPlaybackUser
  <2>2. "remember" \in States \ Answered /\ "remember" \notin Queries /\ LookedUp(q) \in Identities
    BY <2>1 DEF States, Answered, Queries, Identities
  <2>3. RequestsFit'
    BY <1>1, <2>1, <2>2, MovesRequest
  <2>4. QED
    BY <1>1, <2>3, OnlyRequests
<1>3. CASE LookedUp(q) = NoOne
  <2>1. Ends(q)
    BY <1>3 DEF LookupRecentPlaybackUser
  <2>2. QED
    BY <1>1, <2>1, EndsRequest, OnlyRequests
<1>4. QED
  BY <1>2, <1>3

LEMMA RememberRecentUserStep ==
  ASSUME IInv, NEW q \in Requests, RememberRecentUser(q)
  PROVE  IInv'
<1>1. PICK u \in Users :
        /\ u = request[q].user
        /\ recentUsers' = [k \in Keys |->
             IF k \in KeysOf(q) THEN Entry(u, RecentTTL) ELSE recentUsers[k]]
        /\ seen' = [k \in Keys |->
             IF k \in KeysOf(q) THEN [seen[k] EXCEPT ![u] = 0] ELSE seen[k]]
        /\ Moves(q, "rememberPlayback", u, 0)
        /\ request[q].at = "remember"
  BY DEF RememberRecentUser, IInv, Typed, RequestFits
<1>2. /\ cache' = cache /\ playbackUsers' = playbackUsers /\ said' = said /\ played' = played
  BY DEF RememberRecentUser
<1>3. RequestsFit'
  <2>1. /\ "rememberPlayback" \in States \ Answered /\ "rememberPlayback" \notin Queries
        /\ u \in Identities
    BY DEF States, Answered, Queries, Identities
  <2>2. QED
    BY <1>1, <1>2, <2>1, MovesRequest
<1>4. ASSUME NEW k \in Keys
      PROVE  /\ recentUsers'[k] \in Entries /\ seen'[k] \in Ages
             /\ Fresh(recentUsers'[k], seen'[k], RecentTTL, 0)
  <2>1. PICK ages \in Ages : ages = seen[k]
    BY DEF IInv, Typed
  <2>2. CASE k \in KeysOf(q)
    BY <1>1, <2>1, <2>2, NewEntry, TimesAssumption
  <2>3. CASE k \notin KeysOf(q)
    BY <1>1, <2>3 DEF IInv, Typed, RecentInv
  <2>4. QED
    BY <2>2, <2>3
<1>5. recentUsers' \in [Keys -> Entries] /\ seen' \in [Keys -> Ages]
  BY <1>1, <1>4
<1>6. Typed'
  BY <1>2, <1>3, <1>5 DEF IInv, Typed, RequestsFit
<1>7. CacheInv'
  BY <1>2, <1>3 DEF IInv, CacheInv, RequestsFit, Fresh
<1>8. RecentInv'
  BY <1>4 DEF RecentInv
<1>9. PlaybackInv'
  BY <1>2 DEF IInv, PlaybackInv, Fresh, Kept
<1>10. QED
  BY <1>6, <1>7, <1>8, <1>9 DEF IInv

LEMMA RememberPlaybackUserStep ==
  ASSUME IInv, NEW q \in Requests, RememberPlaybackUser(q)
  PROVE  IInv'
<1>1. PICK u \in Users :
        /\ u = request[q].user
        /\ playbackUsers' = [p \in Places |->
             IF p \in PlacesOf(q) THEN Entry(u, RecentTTL) ELSE playbackUsers[p]]
        /\ played' = [p \in Places |->
             IF p \in PlacesOf(q) THEN [played[p] EXCEPT ![u] = 0] ELSE played[p]]
        /\ Ends(q)
  BY DEF RememberPlaybackUser, IInv, Typed, RequestFits
<1>2. /\ cache' = cache /\ recentUsers' = recentUsers /\ said' = said /\ seen' = seen
  BY DEF RememberPlaybackUser
<1>3. RequestsFit'
  BY <1>1, <1>2, EndsRequest
<1>4. ASSUME NEW p \in Places
      PROVE  /\ playbackUsers'[p] \in Entries /\ played'[p] \in Ages
             /\ Fresh(playbackUsers'[p], played'[p], RecentTTL, 0)
             /\ Kept(playbackUsers'[p], played'[p], RecentTTL)
  <2>1. PICK ages \in Ages : ages = played[p]
    BY DEF IInv, Typed
  <2>2. CASE p \in PlacesOf(q)
    BY <1>1, <2>1, <2>2, NewEntry, TimesAssumption
  <2>3. CASE p \notin PlacesOf(q)
    BY <1>1, <2>3 DEF IInv, Typed, PlaybackInv
  <2>4. QED
    BY <2>2, <2>3
<1>5. playbackUsers' \in [Places -> Entries] /\ played' \in [Places -> Ages]
  BY <1>1, <1>4
<1>6. Typed'
  BY <1>2, <1>3, <1>5 DEF IInv, Typed, RequestsFit
<1>7. CacheInv'
  BY <1>2, <1>3 DEF IInv, CacheInv, RequestsFit, Fresh
<1>8. PlaybackInv'
  BY <1>4 DEF PlaybackInv
<1>9. RecentInv'
  BY <1>2 DEF IInv, RecentInv, Fresh
<1>10. QED
  BY <1>6, <1>7, <1>8, <1>9 DEF IInv

(* A tick leaves a query less time and makes its answer older.             *)
LEMMA TickStep == ASSUME IInv, Tick PROVE IInv'
<1>1. TooOld \in Nat /\ LongAgo \in Nat /\ LongAgo = RecentTTL + 1 /\ 0 \in Nat
      /\ CacheTTL \in Nat /\ RecentTTL \in Nat /\ Timeout \in Nat
      /\ NoOne \in SomeOne /\ NoOne \in Identities
  BY TimesAssumption DEF TooOld, LongAgo, SomeOne, Identities
<1>2. ASSUME NEW t \in Tokens
      PROVE  /\ cache'[t] \in EntriesOf(Identities) /\ said'[t] \in Ages
             /\ Fresh(cache'[t], said'[t], CacheTTL, Timeout)
             /\ \A u \in Users : said'[t][u] <= said[t][u] + 1
  <2>1. PICK e \in EntriesOf(Identities), ages \in Ages :
          e = cache[t] /\ ages = said[t] /\ Fresh(e, ages, CacheTTL, Timeout)
    BY DEF IInv, Typed, CacheInv
  <2>2. PICK new : new = [u \in Users |-> Older(ages[u], TooOld)]
    OBVIOUS
  <2>3. cache'[t] = Aged(e) /\ said'[t] = new
    BY <2>1, <2>2 DEF Tick
  <2>4. Aged(e) \in EntriesOf(Identities) /\ new \in Ages /\ Fresh(Aged(e), new, CacheTTL, Timeout)
    BY <1>1, <2>1, <2>2, AgedFits
  <2>5. \A u \in Users : new[u] <= ages[u] + 1
    BY <1>1, <2>2 DEF Older, Ages
  <2>6. QED
    BY <2>1, <2>3, <2>4, <2>5
<1>3. ASSUME NEW k \in Keys
      PROVE  /\ recentUsers'[k] \in Entries /\ seen'[k] \in Ages
             /\ Fresh(recentUsers'[k], seen'[k], RecentTTL, 0)
  <2>1. PICK e \in Entries, ages \in Ages :
          e = recentUsers[k] /\ ages = seen[k] /\ Fresh(e, ages, RecentTTL, 0)
    BY DEF IInv, Typed, RecentInv
  <2>2. PICK new : new = [u \in Users |-> Older(ages[u], LongAgo)]
    OBVIOUS
  <2>3. recentUsers'[k] = Aged(e) /\ seen'[k] = new
    BY <2>1, <2>2 DEF Tick
  <2>4. QED
    BY <1>1, <2>1, <2>2, <2>3, AgedFits DEF Entries
<1>4. ASSUME NEW p \in Places
      PROVE  /\ playbackUsers'[p] \in Entries /\ played'[p] \in Ages
             /\ Fresh(playbackUsers'[p], played'[p], RecentTTL, 0)
             /\ Kept(playbackUsers'[p], played'[p], RecentTTL)
  <2>1. PICK e \in Entries, ages \in Ages :
          /\ e = playbackUsers[p] /\ ages = played[p] /\ Fresh(e, ages, RecentTTL, 0)
          /\ Kept(e, ages, RecentTTL)
    BY DEF IInv, Typed, PlaybackInv
  <2>2. PICK new : new = [u \in Users |-> Older(ages[u], LongAgo)]
    OBVIOUS
  <2>3. playbackUsers'[p] = Aged(e) /\ played'[p] = new
    BY <2>1, <2>2 DEF Tick
  <2>4. QED
    BY <1>1, <2>1, <2>2, <2>3, AgedFits DEF Entries
<1>5. ASSUME NEW q \in Requests
      PROVE  RequestFits(request'[q]) /\ AnswerFresh(request'[q], said')
  <2>1. PICK x : x = request[q] /\ RequestFits(x) /\ AnswerFresh(x, said)
    BY DEF IInv, Typed, CacheInv
  <2>2. CASE x.at \in Queries
    <3>1. x.left > 0 /\ x.left \in 0 .. Timeout /\ Querying(q)
      BY <2>1, <2>2 DEF Tick, Querying, Queries, RequestFits
    <3>2. PICK r : r = [x EXCEPT !.left = @ - 1] /\ r = request'[q]
      BY <2>1, <3>1 DEF Tick
    <3>3. /\ DOMAIN r = {"at", "shape", "user", "left"} /\ r.at = x.at /\ r.user = x.user
          /\ r.left = x.left - 1 /\ r.shape = x.shape /\ r.left \in 0 .. Timeout
      BY <2>1, <3>1, <3>2, <1>1 DEF RequestFits
    <3>4. RequestFits(r)
      BY <2>1, <3>3 DEF RequestFits
    <3>5. ASSUME r.at \in Answered, r.user \in Users
          PROVE  said'[r.shape.token][r.user] <= Timeout - r.left
      <4>1. PICK t \in Tokens, u \in Users : t = x.shape.token /\ u = x.user
        BY <2>1, <2>2, <3>3, <3>5 DEF RequestFits
      <4>2. said[t][u] <= Timeout - x.left /\ said'[t][u] <= said[t][u] + 1
        BY <1>2, <2>1, <3>3, <3>5, <4>1 DEF AnswerFresh
      <4>3. said[t][u] \in Nat /\ said'[t][u] \in Nat
        BY <1>2, <4>1 DEF IInv, Typed, Ages
      <4>4. said'[t][u] <= Timeout - (x.left - 1)
        BY <1>1, <3>1, <4>2, <4>3
      <4>5. QED
        BY <3>3, <4>1, <4>4
    <3>6. QED
      BY <3>2, <3>4, <3>5 DEF AnswerFresh
  <2>3. CASE x.at \notin Queries
    <3>1. request'[q] = x
      BY <2>1, <2>3 DEF Tick, Querying, Queries
    <3>2. QED
      BY <2>1, <2>3, <3>1 DEF AnswerFresh, Answered, Queries
  <2>4. QED
    BY <2>2, <2>3
<1>6. /\ cache' \in [Tokens -> EntriesOf(Identities)] /\ said' \in [Tokens -> Ages]
      /\ recentUsers' \in [Keys -> Entries] /\ seen' \in [Keys -> Ages]
      /\ playbackUsers' \in [Places -> Entries] /\ played' \in [Places -> Ages]
      /\ request' = [q \in Requests |-> request'[q]]
  <2>1. /\ cache' = [t \in Tokens |-> cache'[t]] /\ said' = [t \in Tokens |-> said'[t]]
        /\ recentUsers' = [k \in Keys |-> recentUsers'[k]] /\ seen' = [k \in Keys |-> seen'[k]]
        /\ playbackUsers' = [p \in Places |-> playbackUsers'[p]]
        /\ played' = [p \in Places |-> played'[p]]
        /\ request' = [q \in Requests |-> request'[q]]
    BY DEF Tick
  <2>2. QED
    BY <1>2, <1>3, <1>4, <2>1
<1>7. Typed'
  BY <1>5, <1>6 DEF Typed
<1>8. CacheInv'
  BY <1>2, <1>5 DEF CacheInv
<1>9. RecentInv' /\ PlaybackInv'
  BY <1>3, <1>4 DEF RecentInv, PlaybackInv
<1>10. QED
  BY <1>7, <1>8, <1>9 DEF IInv

------------------------------------------------------------------------------
(* The theorems. *)

LEMMA InitIInv == Init => IInv
<1> SUFFICES ASSUME Init PROVE IInv
  OBVIOUS
<1>1. /\ NoEntry \in Entries /\ NoEntry \in EntriesOf(Identities)
      /\ \A ages, ttl, delay : Fresh(NoEntry, ages, ttl, delay)
  BY NoNewEntry DEF Entries, SomeOne, Identities
<1>2. /\ [u \in Users |-> TooOld] \in Ages /\ [u \in Users |-> LongAgo] \in Ages
      /\ ~(LongAgo <= RecentTTL)
  BY TimesAssumption DEF Ages, TooOld, LongAgo
<1>3. \A q \in Requests : RequestFits(request[q]) /\ AnswerFresh(request[q], said)
  <2>1. /\ DOMAIN Idle = {"at", "shape", "user", "left"} /\ Idle.at = "idle" /\ Idle.user = NoOne
    BY DEF Idle
  <2>2. RequestFits(Idle) /\ AnswerFresh(Idle, said)
    BY <2>1 DEF RequestFits, AnswerFresh, States, Queries, Answered, Identities
  <2>3. QED
    BY <2>2 DEF Init
<1>4. Typed
  BY <1>1, <1>2, <1>3 DEF Init, Typed
<1>5. CacheInv /\ RecentInv
  BY <1>1, <1>3 DEF Init, CacheInv, RecentInv
<1>6. PlaybackInv
  <2>1. Kept(NoEntry, [u \in Users |-> LongAgo], RecentTTL)
    BY <1>2 DEF Kept
  <2>2. QED
    BY <1>1, <2>1 DEF Init, PlaybackInv
<1>7. QED
  BY <1>4, <1>5, <1>6 DEF IInv

LEMMA InductiveStep == IInv /\ [Next]_vars => IInv'
<1> SUFFICES ASSUME IInv, [Next]_vars PROVE IInv'
  OBVIOUS
<1>1. ASSUME NEW q \in Requests, ServeHTTP(q) PROVE IInv'
  BY <1>1, IdentifyUserStep, AnswersStep, AnswerArrivesStep, QueryFailsStep, LookupStep,
     RememberRecentUserStep, RememberPlaybackUserStep DEF ServeHTTP
<1>2. CASE Tick
  BY <1>2, TickStep
<1>3. CASE UNCHANGED vars
  <2>1. UNCHANGED <<memory, history>> /\ request' = request /\ said' = said
    BY <1>3 DEF vars, memory, history
  <2>2. RequestsFit'
    BY <2>1 DEF IInv, Typed, CacheInv, RequestsFit
  <2>3. QED
    BY <2>1, <2>2, OnlyRequests
<1>4. QED
  BY <1>1, <1>2, <1>3 DEF Next

LEMMA Inductive == Spec => []IInv
BY InitIInv, InductiveStep, PTL DEF Spec

(* A request that is elsewhere after a step has made the step itself. *)
LEMMA WhoMoves ==
  ASSUME IInv, Next, NEW q \in Requests, request'[q].at # request[q].at
  PROVE  ServeHTTP(q)
<1>1. DOMAIN request = Requests
  BY DEF IInv, Typed
<1>2. ~Tick
  <2>1. SUFFICES ASSUME Tick PROVE request'[q].at = request[q].at
    OBVIOUS
  <2>2. DOMAIN request[q] = {"at", "shape", "user", "left"}
    BY DEF IInv, Typed, RequestFits
  <2>3. QED
    BY <2>1, <2>2 DEF Tick
<1>3. ASSUME NEW p \in Requests, ServeHTTP(p), p # q PROVE request'[q] = request[q]
  BY <1>1, <1>3 DEF ServeHTTP, IdentifyUser, NamesItsUser, HasNoToken, GetFromCache, Finds, Starts,
     Answers, Answering, AnswerArrives, QuerySessionUserFails, QueryEmbyAPIFails,
     LookupRecentPlaybackUser, RememberRecentUser, RememberPlaybackUser, Moves, Ends
<1>4. QED
  BY <1>2, <1>3 DEF Next

(* An identity that comes from a token is fresh: a cached one, because the *)
(* entry says since when, and an answer, because its query is in time.     *)
THEOREM TokenIdentitiesAreFresh == Spec => TokensAreFresh
<1> DEFINE IsFresh(q) ==
             /\ Settles(q, {"idle", "sessionsAnswered", "meAnswered"})
             /\ request'[q].shape.named = NoOne
             => said[request'[q].shape.token][request'[q].user] <= CacheTTL + Timeout
           Step == \A q \in Requests : IsFresh(q)
<1>1. ASSUME IInv, Next PROVE Step
  <2>1. SUFFICES ASSUME NEW q \in Requests,
                        Settles(q, {"idle", "sessionsAnswered", "meAnswered"}),
                        request'[q].shape.named = NoOne
                 PROVE  said[request'[q].shape.token][request'[q].user] <= CacheTTL + Timeout
    OBVIOUS
  <2>2. /\ ServeHTTP(q) /\ request'[q].at = "remember" /\ DOMAIN request = Requests
        /\ DOMAIN request[q] = {"at", "shape", "user", "left"}
    BY <1>1, <2>1, WhoMoves DEF Settles, IInv, Typed, RequestFits
  <2>3. CASE request[q].at = "idle"
    <3>1. IdentifyUser(q)
      BY <2>2, <2>3 DEF ServeHTTP, Answers, AnswerArrives, QuerySessionUserFails,
         QueryEmbyAPIFails, LookupRecentPlaybackUser, RememberRecentUser, RememberPlaybackUser
    <3>2. PICK s \in Shapes : NamesItsUser(q, s) \/ HasNoToken(q, s) \/ GetFromCache(q, s)
      BY <3>1 DEF IdentifyUser
    <3>3. ASSUME NEW at, NEW u, NEW left, Starts(q, s, at, u, left)
          PROVE  request'[q].at = at /\ request'[q].shape = s /\ request'[q].user = u
      BY <2>2, <3>3 DEF Starts
    <3>4. ~NamesItsUser(q, s) /\ ~HasNoToken(q, s)
      BY <2>1, <2>2, <3>3 DEF NamesItsUser, HasNoToken
    <3>5. PICK t, u : /\ t = s.token /\ u = cache[t].user /\ u \in Users /\ s.token # NoToken
                      /\ Starts(q, s, "remember", u, 0)
      BY <2>2, <3>2, <3>3, <3>4 DEF GetFromCache, Finds
    <3>6. t \in Tokens
      BY <3>5, ShapesAssumption DEF Shape
    <3>7. /\ cache[t].left \in Nat /\ said[t][u] \in Nat
          /\ said[t][u] <= (CacheTTL - cache[t].left) + Timeout
      BY <1>1, <3>5, <3>6 DEF IInv, Typed, CacheInv, Fresh, EntriesOf, Ages
    <3>8. said[t][u] <= CacheTTL + Timeout
      BY <3>7, TimesAssumption
    <3>9. QED
      BY <3>3, <3>5, <3>8
  <2>4. CASE request[q].at \in Answered
    <3>1. request[q].at \notin {"idle", "remember", "rememberPlayback", "guess", "sessions", "me"}
      BY <2>4 DEF Answered
    <3>2. AnswerArrives(q)
      <4>1. ~QuerySessionUserFails(q) /\ ~QueryEmbyAPIFails(q)
        BY <2>2 DEF QuerySessionUserFails, QueryEmbyAPIFails, Moves
      <4>2. QED
        BY <2>2, <3>1, <4>1 DEF ServeHTTP, IdentifyUser, Answers, LookupRecentPlaybackUser,
           RememberRecentUser, RememberPlaybackUser
    <3>3. /\ request'[q].user = request[q].user /\ request'[q].shape = request[q].shape
          /\ request[q].user \in Users
      BY <2>2, <3>2 DEF AnswerArrives, Moves
    <3>4. PICK t \in Tokens, u \in Users, left \in 0 .. Timeout :
            /\ t = request[q].shape.token /\ u = request[q].user
            /\ left = request[q].left
      BY <1>1, <2>4, <3>3 DEF IInv, Typed, RequestFits, Queries, Answered
    <3>5. said[t][u] <= Timeout - left /\ said[t][u] \in Nat
      BY <1>1, <2>4, <3>4 DEF IInv, Typed, CacheInv, AnswerFresh, Ages
    <3>6. said[t][u] <= CacheTTL + Timeout
      BY <3>5, TimesAssumption
    <3>7. QED
      BY <3>3, <3>4, <3>6
  <2>5. QED
    BY <2>1, <2>3, <2>4 DEF Settles, Answered
<1>2. [Next]_vars /\ IInv => [Step]_vars
  BY <1>1
<1>3. QED
  BY <1>2, Inductive, PTL DEF Spec, TokensAreFresh

(* A request that stops guessing has looked the users up. *)
LEMMA WhoGuesses ==
  ASSUME IInv, Next, NEW q \in Requests, request[q].at = "guess", request'[q].at # "guess"
  PROVE  /\ LookupRecentPlaybackUser(q)
         /\ LookedUp(q) # NoOne => request'[q].user = LookedUp(q)
         /\ LookedUp(q) = NoOne => request'[q].at = "idle"
<1>1. /\ ServeHTTP(q) /\ DOMAIN request = Requests
      /\ DOMAIN request[q] = {"at", "shape", "user", "left"}
  BY WhoMoves DEF IInv, Typed, RequestFits
<1>2. LookupRecentPlaybackUser(q)
  BY <1>1 DEF ServeHTTP, IdentifyUser, Answers, AnswerArrives, QuerySessionUserFails,
     QueryEmbyAPIFails, RememberRecentUser, RememberPlaybackUser
<1>3. LookedUp(q) # NoOne => request'[q].user = LookedUp(q)
  BY <1>1, <1>2 DEF LookupRecentPlaybackUser, Moves
<1>4. LookedUp(q) = NoOne => request'[q].at = "idle"
  BY <1>1, <1>2 DEF LookupRecentPlaybackUser, Ends, Idle
<1>5. QED
  BY <1>2, <1>3, <1>4

(* A guess is somebody who was under a key of the request, or under a key  *)
(* with its item, within the life of an entry.                             *)
THEOREM EveryGuessIsWitnessed == Spec => GuessesAreWitnessed
<1> DEFINE Step == \A q \in Requests :
             Settles(q, {"guess"}) =>
               PlaysHere(q, request'[q].user) \/ SeenHere(q, request'[q].user)
<1>1. ASSUME IInv, Next PROVE Step
  <2>1. SUFFICES ASSUME NEW q \in Requests, Settles(q, {"guess"})
                 PROVE  PlaysHere(q, request'[q].user) \/ SeenHere(q, request'[q].user)
    OBVIOUS
  <2>2. request[q].at = "guess" /\ request'[q].at = "remember" /\ request[q].at # "idle"
    BY <2>1 DEF Settles
  <2>3. LookedUp(q) # NoOne /\ request'[q].user = LookedUp(q)
    BY <1>1, <2>2, WhoGuesses
  <2>4. QED
    BY <1>1, <2>2, <2>3, PlaybackUserFits, RecentUserFits DEF LookedUp
<1>2. [Next]_vars /\ IInv => [Step]_vars
  BY <1>1
<1>3. QED
  BY <1>2, Inductive, PTL DEF Spec, GuessesAreWitnessed

(* When one user alone was under the keys of a request with its item, the  *)
(* entries name nobody else and one of them names that user.               *)
THEOREM StreamsStayWithTheirPlayer == Spec => ItemKeepsItsPlayer
<1> DEFINE Step == \A q \in Requests, u \in Users :
             /\ request[q].at = "guess" /\ request'[q].at # "guess"
             /\ PlaysHere(q, u) /\ \A v \in Users \ {u} : ~PlaysHere(q, v)
             => request'[q].user = u
<1>1. ASSUME IInv, Next PROVE Step
  <2>1. SUFFICES ASSUME NEW q \in Requests, NEW u \in Users,
                        request[q].at = "guess", request'[q].at # "guess",
                        PlaysHere(q, u), \A v \in Users \ {u} : ~PlaysHere(q, v)
                 PROVE  request'[q].user = u
    OBVIOUS
  <2>2. PlaybackUser(q) # NoOne /\ PlaybackUser(q) \in Users /\ PlaysHere(q, PlaybackUser(q))
    BY <1>1, <2>1, PlaybackUserFits
  <2>3. PlaybackUser(q) = u
    BY <2>1, <2>2
  <2>4. LookedUp(q) = u /\ LookedUp(q) # NoOne
    BY <2>2, <2>3 DEF LookedUp
  <2>5. QED
    BY <1>1, <2>1, <2>4, WhoGuesses
<1>2. [Next]_vars /\ IInv => [Step]_vars
  BY <1>1
<1>3. QED
  BY <1>2, Inductive, PTL DEF Spec, ItemKeepsItsPlayer

===============================================================================
