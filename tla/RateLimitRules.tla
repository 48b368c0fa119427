--------------------------- MODULE RateLimitRules ----------------------------
(***************************************************************************)
(* Rate limit rules live twice: as rows of the tables users, client_rules  *)
(* and servers (internal/ratelimit RulesManager), and as limiter objects   *)
(* in the maps of internal/ratelimit Manager.  Administrators' handlers    *)
(* write the row first and the limiter second, with no lock around the     *)
(* two; every proxied request reads the rows and then gets or creates the  *)
(* limiters.  A key is a user id, a client rule id or a server id; a rule  *)
(* is its limit (upload and download behave alike and are one number), and *)
(* 0 is the limit the documentation calls unlimited.                       *)
(***************************************************************************)
EXTENDS Integers, Sequences, FiniteSets

CONSTANTS
  Users, Clients, Servers,  \* the keys of the three tables
  NoKey,                    \* the key of a request that has none
  Admins,                   \* concurrent handlers of the admin API
  Requests,                 \* proxied requests, one ServeHTTP call each
  Limits,                   \* the limits an administrator may set, with 0
  MaxOps,                   \* bound: admin operations in one behaviour
  MaxMishaps,               \* bound: failed statements
  MaxLives                  \* bound: times the process is started

Keys == Users \cup Clients \cup Servers

ASSUME KeysAssumption ==
  /\ Users \cap Clients = {} /\ Users \cap Servers = {} /\ Clients \cap Servers = {}
  /\ NoKey \notin Keys
  /\ IsFiniteSet(Keys)
ASSUME LimitsAssumption == 0 \in Limits /\ Limits \subseteq Nat
ASSUME RulesBoundsAssumption ==
  MaxOps \in Nat /\ MaxMishaps \in Nat /\ MaxLives \in Nat \ {0}

NoRule == -1     \* no row with this key
None   == 0      \* no limiter object

VARIABLES
  table,          \* key -> limit of its row, or NoRule
  registry,       \* key -> its limiter object, or None
  limitOf,        \* the limiter objects made so far and their limits
  defaults,       \* Manager.defaultUpload/Download
  globalLimiter,  \* Manager.globalLimiter: an object, or None
  admin,          \* what each admin handler is doing
  request,        \* what each request is doing
  held,           \* request -> kind of limiter -> the object it took, or None
  ops, mishaps, lives,  \* bounded counters
  raced,          \* history: the last write of the key's row fell between
                  \* another handler's row and limiter
  loaded,         \* history: LoadRulesFromDB of this process read every rule
  outdated        \* history: request -> the held limiters that have left
                  \* the registry since

tables  == <<table, raced>>
memory  == <<registry, limitOf, defaults, globalLimiter>>
requests == <<request, held>>
counters == <<ops, mishaps, lives>>
vars == <<table, registry, limitOf, defaults, globalLimiter, admin, request,
          held, ops, mishaps, lives, raced, loaded, outdated>>

IdleAdmin == [at |-> "idle", key |-> NoKey, limit |-> 0]
Fresh == [at |-> "new", user |-> NoKey, client |-> NoKey, server |-> NoKey,
          rule |-> NoRule]
Kinds == {"user", "client", "server", "global"}

Init ==
  /\ table = [k \in Keys |-> NoRule]
  /\ registry = [k \in Keys |-> None]
  /\ defaults \in Limits
  /\ \E g \in Limits :
       /\ limitOf = IF g > 0 THEN <<g>> ELSE <<>>
       /\ globalLimiter = IF g > 0 THEN 1 ELSE None
  /\ admin = [a \in Admins |-> IdleAdmin]
  /\ request = [q \in Requests |-> Fresh]
  /\ held = [q \in Requests |-> [kind \in Kinds |-> None]]
  /\ ops = 0 /\ mishaps = 0 /\ lives = 1
  /\ raced = [k \in Keys |-> FALSE]
  /\ loaded = TRUE
  /\ outdated = [q \in Requests |-> {}]

------------------------------------------------------------------------------
(* The limiter registry; each operation runs under Manager.mu. *)

NewObject == Len(limitOf) + 1

(* GetUserLimiter and GetServerLimiter: an existing limiter as it is, or a *)
(* new one with this limit.                                                *)
GetLimiter(k, limit) ==
  IF registry[k] # None
    THEN UNCHANGED <<registry, limitOf>>
    ELSE /\ registry' = [registry EXCEPT ![k] = NewObject]
         /\ limitOf' = Append(limitOf, limit)

(* Mutant: an update replaces the limiter that requests hold. *)
UpdateLimiterReplaces(k, limit) ==
  /\ registry' = [registry EXCEPT ![k] = NewObject]
  /\ limitOf' = Append(limitOf, limit)

(* Mutant: an update stops at a limiter that exists. *)
UpdateLimiterKeeps(k, limit) == GetLimiter(k, limit)

(* UpdateUserLimiter and UpdateServerLimiter. *)
UpdateLimiter(k, limit) ==
  IF registry[k] # None
    THEN /\ limitOf' = [limitOf EXCEPT ![registry[k]] = limit]
         /\ UNCHANGED registry
    ELSE /\ registry' = [registry EXCEPT ![k] = NewObject]
         /\ limitOf' = Append(limitOf, limit)

(* What GetUserLimiter makes of the limit of a rule, or of no rule (0). *)
OrDefault(limit) == IF limit = 0 THEN defaults ELSE limit

(* These requests lose touch with the limiter of this kind they may hold. *)
Outdate(kind, who) ==
  outdated' = [q \in Requests |->
    IF q \in who THEN outdated[q] \cup {kind} ELSE outdated[q]]

------------------------------------------------------------------------------
(* Admin handlers. *)

Busy(a, at, k, limit) ==
  admin' = [admin EXCEPT ![a] = [at |-> at, key |-> k, limit |-> limit]]
Idle(a) == admin' = [admin EXCEPT ![a] = IdleAdmin]
Begins(a) == admin[a].at = "idle" /\ ops < MaxOps /\ ops' = ops + 1

(* Another handler has written the row of k and not yet its limiter. *)
InWindow(b, k) == admin[b].key = k /\ admin[b].at \in {"update", "remove"}
WriteRow(a, k, limit) ==
  /\ table' = [table EXCEPT ![k] = limit]
  /\ raced' = [raced EXCEPT ![k] = \E b \in Admins \ {a} : InWindow(b, k)]

(* SetUserRule, SetClientRule and SetServerRule: the row, *)
SetRule(a, k, limit) == WriteRow(a, k, limit) /\ Busy(a, "update", k, limit)

(* then the limiter. *)
UpdateAfterWrite(a) ==
  /\ admin[a].at = "update"
  /\ UpdateLimiter(admin[a].key, admin[a].limit)
  /\ Idle(a)
  /\ UNCHANGED <<tables, defaults, globalLimiter, requests, counters, loaded,
                 outdated>>

(* The handlers that save a rule; when the statement fails nothing changes. *)
Saves(a, keys) ==
  /\ Begins(a)
  /\ \E k \in keys, limit \in Limits : SetRule(a, k, limit)
  /\ UNCHANGED <<memory, requests, mishaps, lives, loaded, outdated>>

UpdateUserRule(a) == Saves(a, Users)
SaveClientRule(a) == Saves(a, Clients)
CreateServer(a)   == Saves(a, Servers)

(* DELETE of a user: the handler writes a rule with the defaults. *)
ResetUser(a) ==
  /\ Begins(a)
  /\ \E u \in Users : Busy(a, "reset", u, 0)
  /\ UNCHANGED <<tables, memory, requests, mishaps, lives, loaded, outdated>>

(* SyncUsers, one user of its list: only a user without a rule, or whose   *)
(* rule could not be read, goes on.                                        *)
CheckUser(a) ==
  /\ Begins(a)
  /\ \E u \in Users :
       /\ \/ table[u] = NoRule /\ mishaps' = mishaps
          \/ mishaps < MaxMishaps /\ mishaps' = mishaps + 1
       /\ Busy(a, "sync", u, 0)
  /\ UNCHANGED <<tables, memory, requests, lives, loaded, outdated>>

(* Both read the defaults, *)
ReadDefaults(a) ==
  /\ admin[a].at \in {"reset", "sync"}
  /\ Busy(a, IF admin[a].at = "reset" THEN "writeReset" ELSE "writeSync",
          admin[a].key, defaults)
  /\ UNCHANGED <<tables, memory, requests, counters, loaded, outdated>>

(* and write them with SetUserRule, *)
WriteDefaults(a) ==
  /\ admin[a].at \in {"writeReset", "writeSync"}
  /\ SetRule(a, admin[a].key, admin[a].limit)
  /\ UNCHANGED <<memory, requests, counters, loaded, outdated>>

(* which gives up if the statement fails. *)
WriteFails(a) ==
  /\ admin[a].at \in {"writeReset", "writeSync"}
  /\ mishaps < MaxMishaps /\ mishaps' = mishaps + 1
  /\ Idle(a)
  /\ UNCHANGED <<tables, memory, requests, ops, lives, loaded, outdated>>

(* DeleteClientRule: the row, *)
DeleteClientRow(a) ==
  /\ Begins(a)
  /\ \E c \in Clients : WriteRow(a, c, NoRule) /\ Busy(a, "remove", c, 0)
  /\ UNCHANGED <<memory, requests, mishaps, lives, loaded, outdated>>

(* then RemoveUserLimiter. *)
RemoveLimiter(a) ==
  /\ admin[a].at = "remove"
  /\ registry' = [registry EXCEPT ![admin[a].key] = None]
  /\ Outdate("client", {q \in Requests : request[q].client = admin[a].key})
  /\ Idle(a)
  /\ UNCHANGED <<tables, limitOf, defaults, globalLimiter, requests, counters,
                 loaded>>

(* DeleteServerRule deletes the row and leaves the limiter. *)
DeleteServer(a) ==
  /\ Begins(a)
  /\ \E s \in Servers : WriteRow(a, s, NoRule)
  /\ UNCHANGED <<memory, admin, requests, mishaps, lives, loaded, outdated>>

(* UpdateDefaultLimits: UpdateDefaults, *)
UpdateDefaults(a) ==
  /\ Begins(a)
  /\ defaults' \in Limits
  /\ \E g \in Limits : Busy(a, "global", NoKey, g)
  /\ UNCHANGED <<tables, registry, limitOf, globalLimiter, requests, mishaps,
                 lives, loaded, outdated>>

(* Mutant: a new global limiter for every update. *)
UpdateGlobalLimitReplaces(a) ==
  /\ admin[a].at = "global"
  /\ IF admin[a].limit = 0
       THEN globalLimiter' = None /\ Outdate("global", Requests) /\ UNCHANGED limitOf
       ELSE /\ globalLimiter' = NewObject
            /\ limitOf' = Append(limitOf, admin[a].limit)
            /\ UNCHANGED outdated
  /\ Idle(a)
  /\ UNCHANGED <<tables, registry, defaults, requests, counters, loaded>>

(* then UpdateGlobalLimit. *)
UpdateGlobalLimit(a) ==
  /\ admin[a].at = "global"
  /\ LET limit == admin[a].limit IN
       \/ /\ limit = 0
          /\ globalLimiter' = None /\ Outdate("global", Requests)
          /\ UNCHANGED limitOf
       \/ /\ limit > 0 /\ globalLimiter = None
          /\ globalLimiter' = NewObject /\ limitOf' = Append(limitOf, limit)
          /\ UNCHANGED outdated
       \/ /\ limit > 0 /\ globalLimiter # None
          /\ limitOf' = [limitOf EXCEPT ![globalLimiter] = limit]
          /\ UNCHANGED <<globalLimiter, outdated>>
  /\ Idle(a)
  /\ UNCHANGED <<tables, registry, defaults, requests, counters, loaded>>

Admin(a) ==
  \/ UpdateUserRule(a) \/ SaveClientRule(a) \/ CreateServer(a)
  \/ UpdateAfterWrite(a) \/ ResetUser(a) \/ CheckUser(a)
  \/ ReadDefaults(a) \/ WriteDefaults(a) \/ WriteFails(a)
  \/ DeleteClientRow(a) \/ RemoveLimiter(a) \/ DeleteServer(a)
  \/ UpdateDefaults(a) \/ UpdateGlobalLimit(a)

------------------------------------------------------------------------------
(* Requests: ServeHTTP from the identified user to the last limiter. *)

OrNoKey(S) == S \cup {NoKey}

(* Which user and client a request is identified as, and where it goes. *)
Arrive(q) ==
  /\ request[q].at = "new"
  /\ \E u \in OrNoKey(Users), c \in OrNoKey(Clients), s \in OrNoKey(Servers) :
       request' = [request EXCEPT ![q] =
         [Fresh EXCEPT !.at = "user", !.user = u, !.client = c, !.server = s]]
  /\ UNCHANGED <<held, tables, memory, admin, counters, loaded, outdated>>

(* The row of k as the request reads it: a failed read looks like no row.  *)
ReadRow(k, rule) ==
  \/ rule = table[k] /\ mishaps' = mishaps
  \/ rule = NoRule /\ mishaps < MaxMishaps /\ mishaps' = mishaps + 1

(* Mutant: the rule is used without looking whether there is one. *)
LookUnchecked(q, k, rule, getting, next) ==
  request' = [request EXCEPT
    ![q].at = IF k = NoKey THEN next ELSE getting, ![q].rule = rule]

(* A lookup step: without a key the request goes on, with one it remembers *)
(* the rule, and goes to get the limiter if the rule, or a user, is there. *)
Look(q, k, rule, getting, next) ==
  request' = [request EXCEPT
    ![q].at = IF k = NoKey \/ (rule = NoRule /\ k \notin Users) THEN next ELSE getting,
    ![q].rule = rule]

LookUp(q, k, getting, next) ==
  /\ \/ k = NoKey /\ mishaps' = mishaps /\ Look(q, k, NoRule, getting, next)
     \/ /\ k # NoKey
        /\ \E rule \in Limits \cup {NoRule} :
             ReadRow(k, rule) /\ Look(q, k, rule, getting, next)
  /\ UNCHANGED <<held, tables, memory, admin, ops, lives, loaded, outdated>>

GetUserRule(q) ==
  /\ request[q].at = "user"
  /\ LookUp(q, request[q].user, "userLimiter", "client")
MatchClientRule(q) ==
  /\ request[q].at = "client"
  /\ LookUp(q, request[q].client, "clientLimiter", "global")
GetServerRule(q) ==
  /\ request[q].at = "server"
  /\ LookUp(q, request[q].server, "serverLimiter", "forwarding")

(* Get or create, and hold. *)
Hold(q, kind, object, next) ==
  /\ request' = [request EXCEPT ![q].at = next]
  /\ held' = [held EXCEPT ![q][kind] = object]

GetUserLimiter(q) ==
  /\ request[q].at = "userLimiter"
  /\ LET rule == request[q].rule IN
     GetLimiter(request[q].user, OrDefault(IF rule = NoRule THEN 0 ELSE rule))
  /\ Hold(q, "user", registry'[request[q].user], "client")
  /\ UNCHANGED <<tables, defaults, globalLimiter, admin, counters, loaded, outdated>>

GetClientLimiter(q) ==
  /\ request[q].at = "clientLimiter"
  /\ GetLimiter(request[q].client, OrDefault(request[q].rule))
  /\ Hold(q, "client", registry'[request[q].client], "global")
  /\ outdated' = [outdated EXCEPT ![q] = @ \ {"client"}]
  /\ UNCHANGED <<tables, defaults, globalLimiter, admin, counters, loaded>>

GetGlobalLimiter(q) ==
  /\ request[q].at = "global"
  /\ Hold(q, "global", globalLimiter, "server")
  /\ outdated' = [outdated EXCEPT ![q] = @ \ {"global"}]
  /\ UNCHANGED <<tables, memory, admin, counters, loaded>>

GetServerLimiter(q) ==
  /\ request[q].at = "serverLimiter"
  /\ GetLimiter(request[q].server, request[q].rule)
  /\ Hold(q, "server", registry'[request[q].server], "forwarding")
  /\ UNCHANGED <<tables, defaults, globalLimiter, admin, counters, loaded, outdated>>

Respond(q) ==
  /\ request[q].at = "forwarding"
  /\ request' = [request EXCEPT ![q] = [Fresh EXCEPT !.at = "done"]]
  /\ held' = [held EXCEPT ![q] = [kind \in Kinds |-> None]]
  /\ UNCHANGED <<tables, memory, admin, counters, loaded, outdated>>

Request(q) ==
  \/ Arrive(q) \/ GetUserRule(q) \/ GetUserLimiter(q) \/ MatchClientRule(q)
  \/ GetClientLimiter(q) \/ GetGlobalLimiter(q) \/ GetServerRule(q)
  \/ GetServerLimiter(q) \/ Respond(q)

------------------------------------------------------------------------------
(* The process starts again: the memory is rebuilt from the configuration, *)
(* which may have been edited, and by LoadRulesFromDB, which loads users,  *)
(* servers and clients in this order.  A query that fails ends the load,   *)
(* which main only logs; one that breaks off amid its rows passes for      *)
(* complete, and the load goes on with the next.                           *)
Loads(keys, g) ==
  LET ruled == {k \in keys : table[k] # NoRule}
      first == IF g > 0 THEN 1 ELSE 0
  IN  \E order \in [1 .. Cardinality(ruled) -> ruled] :
        /\ \A k \in ruled : \E i \in DOMAIN order : order[i] = k
        /\ registry' = [k \in Keys |->
             IF k \in ruled
               THEN first + (CHOOSE i \in DOMAIN order : order[i] = k)
               ELSE None]
        /\ limitOf' = (IF g > 0 THEN <<g>> ELSE <<>>)
                        \o [i \in DOMAIN order |-> table[order[i]]]

(* All the rules, or those that the failures of one load, counted as one,  *)
(* have left.                                                              *)
LoadRulesFromDB(g) ==
  \/ Loads(Keys, g) /\ loaded' = TRUE /\ mishaps' = mishaps
  \/ /\ mishaps < MaxMishaps /\ mishaps' = mishaps + 1 /\ loaded' = FALSE
     /\ \E keys \in SUBSET Keys : Loads(keys, g)

Restart ==
  /\ lives < MaxLives /\ lives' = lives + 1
  /\ defaults' \in Limits
  /\ \E g \in Limits :
       /\ globalLimiter' = IF g > 0 THEN 1 ELSE None
       /\ LoadRulesFromDB(g)
  /\ admin' = [a \in Admins |-> IdleAdmin]
  /\ request' = [q \in Requests |->
       IF request[q].at = "new" THEN Fresh ELSE [Fresh EXCEPT !.at = "done"]]
  /\ held' = [q \in Requests |-> [kind \in Kinds |-> None]]
  /\ raced' = [k \in Keys |-> FALSE]
  /\ outdated' = [q \in Requests |-> {}]
  /\ UNCHANGED <<table, ops>>

Next ==
  \/ \E a \in Admins : Admin(a)
  \/ \E q \in Requests : Request(q)
  \/ Restart

Spec == Init /\ [][Next]_vars

------------------------------------------------------------------------------
(* Properties. *)

Objects == 1 .. Len(limitOf)

(* Every variable keeps its type; an object that is registered or held     *)
(* exists.                                                                 *)
TypeOK ==
  /\ table \in [Keys -> Limits \cup {NoRule}]
  /\ limitOf \in Seq(Limits)
  /\ registry \in [Keys -> Objects \cup {None}]
  /\ defaults \in Limits /\ globalLimiter \in Objects \cup {None}
  /\ admin \in [Admins ->
       [at : {"idle", "update", "reset", "sync", "writeReset", "writeSync",
              "remove", "global"},
        key : OrNoKey(Keys), limit : Limits]]
  /\ request \in [Requests ->
       [at : {"new", "user", "userLimiter", "client", "clientLimiter",
              "global", "server", "serverLimiter", "forwarding", "done"},
        user : OrNoKey(Users), client : OrNoKey(Clients),
        server : OrNoKey(Servers), rule : Limits \cup {NoRule}]]
  /\ held \in [Requests -> [Kinds -> Objects \cup {None}]]
  /\ ops \in 0 .. MaxOps /\ mishaps \in 0 .. MaxMishaps /\ lives \in 1 .. MaxLives
  /\ raced \in [Keys -> BOOLEAN] /\ loaded \in BOOLEAN
  /\ outdated \in [Requests -> SUBSET {"client", "global"}]

(* The traffic of a user, and of a server, is limited as a whole: every    *)
(* request in flight holds the very limiter the registry has for the key,  *)
(* so that requests share its tokens and every later update reaches them.  *)
SharedLimiters ==
  \A q \in Requests :
    /\ held[q]["user"] # None => held[q]["user"] = registry[request[q].user]
    /\ held[q]["server"] # None => held[q]["server"] = registry[request[q].server]

(* A request keeps a client's or the global limiter that is no longer the  *)
(* one in force only when the rule was deleted, or the limit switched off, *)
(* after the request took it.                                              *)
StaleOnlyAfterRemoval ==
  \A q \in Requests :
    /\ held[q]["client"] # None /\ "client" \notin outdated[q]
         => held[q]["client"] = registry[request[q].client]
    /\ held[q]["global"] # None /\ "global" \notin outdated[q]
         => held[q]["global"] = globalLimiter

Settled(k) == \A a \in Admins : ~InWindow(a, k)
Agrees(k) ==
  table[k] # NoRule /\ registry[k] # None => limitOf[registry[k]] = table[k]

(* Once no handler is between the row and the limiter of a key, the two    *)
(* agree, unless the last two writes of the row overlapped; a load at      *)
(* start that left rules out may only turn a rule of 0 into the defaults.  *)
(* Requests that create limiters from rows they read long ago do not break *)
(* this; only a user's limiter may also come from a row that could not be  *)
(* read.                                                                   *)
AgreesUnlessRaced ==
  \A k \in Clients \cup Servers :
    Settled(k) /\ ~raced[k] /\ (loaded \/ table[k] # 0) => Agrees(k)

==============================================================================
