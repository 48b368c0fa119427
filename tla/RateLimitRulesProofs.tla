------------------------ MODULE RateLimitRulesProofs -------------------------
(***************************************************************************)
(* What holds of RateLimitRules for all users, clients, servers, handlers, *)
(* requests and limits: the types, that the requests of a user and of a    *)
(* server share the limiter the registry has for it, that a request's      *)
(* client and global limiters are in force until they are removed, and     *)
(* that the rows and the limiters agree unless two writes overlap.  None   *)
(* is inductive alone.                                                     *)
(*   SharedLimiters: a handler that removes a limiter must be one that     *)
(* works on a client rule, an update must name a key, and a request that   *)
(* holds a limiter must still be that user's or server's (KeysFit).        *)
(*   StaleOnlyAfterRemoval: the same of clients (TakenFits).               *)
(*   AgreesUnlessRaced: no two keys may share an object (Distinct), an     *)
(* unraced write must have announced what the limiter will be (Announced), *)
(* and where a load left a rule out, and no limiter for it, the requests   *)
(* about to make one must have read the row as it is (Made).               *)
(***************************************************************************)
EXTENDS RateLimitRules, FiniteSetTheorems, SequenceTheorems, TLAPS

(* What handlers and requests work on fits what they are doing. *)
AdminFits(a) ==
  /\ admin[a].at = "update" => admin[a].key \in Keys
  /\ admin[a].at \in {"reset", "sync", "writeReset", "writeSync"}
       => admin[a].key \in Users
  /\ admin[a].at = "remove" => admin[a].key \in Clients

RequestFits(q) ==
  /\ request[q].at = "userLimiter" => request[q].user \in Users
  /\ request[q].at = "clientLimiter"
       => request[q].client \in Clients /\ request[q].rule \in Limits
  /\ request[q].at = "serverLimiter"
       => request[q].server \in Servers /\ request[q].rule \in Limits
  /\ request[q].at = "new" => held[q]["user"] = None /\ held[q]["server"] = None
  /\ held[q]["user"] # None => request[q].user \in Users
  /\ held[q]["server"] # None => request[q].server \in Servers

KeysFit == (\A a \in Admins : AdminFits(a)) /\ (\A q \in Requests : RequestFits(q))

IInv == TypeOK /\ KeysFit /\ SharedLimiters

(* What TypeOK says of the handlers and requests, one at a time. *)
AdminType ==
  [at : {"idle", "update", "reset", "sync", "writeReset", "writeSync",
         "remove", "global"},
   key : OrNoKey(Keys), limit : Limits]
RequestType ==
  [at : {"new", "user", "userLimiter", "client", "clientLimiter",
         "global", "server", "serverLimiter", "forwarding", "done"},
   user : OrNoKey(Users), client : OrNoKey(Clients),
   server : OrNoKey(Servers), rule : Limits \cup {NoRule}]
HeldType == [Requests -> [Kinds -> Objects \cup {None}]]

------------------------------------------------------------------------------
(* The registry. *)

(* What exists goes on existing while objects are only added. *)
LEMMA ObjectsStay ==
  ASSUME TypeOK, limitOf' \in Seq(Limits), Len(limitOf') >= Len(limitOf)
  PROVE  /\ held \in [Requests -> [Kinds -> Objects' \cup {None}]]
         /\ registry \in [Keys -> Objects' \cup {None}]
         /\ globalLimiter \in Objects' \cup {None}
<1>1. Len(limitOf) \in Nat /\ Len(limitOf') \in Nat
  BY DEF TypeOK
<1>2. Objects \cup {None} \subseteq Objects' \cup {None}
  BY <1>1 DEF Objects
<1>3. QED
  BY <1>2 DEF TypeOK

(* Getting or updating a limiter adds at most an object and gives the key  *)
(* one; the limiters of the other keys, and its own if it had one, stay.   *)
LEMMA GettingOrUpdating ==
  ASSUME TypeOK, NEW k \in Keys, NEW limit \in Limits,
         GetLimiter(k, limit) \/ UpdateLimiter(k, limit)
  PROVE  /\ limitOf' \in Seq(Limits) /\ Len(limitOf') >= Len(limitOf)
         /\ registry' \in [Keys -> Objects' \cup {None}]
         /\ \A j \in Keys : registry[j] # None => registry'[j] = registry[j]
         /\ registry'[k] # None
<1>1. /\ limitOf \in Seq(Limits) /\ Len(limitOf) \in Nat
      /\ registry \in [Keys -> Objects \cup {None}]
  BY DEF TypeOK
<1>2. CASE UNCHANGED <<registry, limitOf>> /\ registry[k] # None
  BY <1>1, <1>2 DEF Objects
<1>3. CASE /\ registry' = registry /\ registry[k] # None
           /\ limitOf' = [limitOf EXCEPT ![registry[k]] = limit]
  <2>1. registry[k] \in 1 .. Len(limitOf)
    BY <1>1, <1>3 DEF Objects
  <2>2. limitOf' \in Seq(Limits) /\ Len(limitOf') = Len(limitOf)
    BY <1>1, <1>3, <2>1
  <2>3. QED
    BY <1>1, <1>3, <2>2 DEF Objects
<1>4. CASE /\ registry[k] = None
           /\ registry' = [registry EXCEPT ![k] = NewObject]
           /\ limitOf' = Append(limitOf, limit)
  <2>1. limitOf' \in Seq(Limits) /\ Len(limitOf') = Len(limitOf) + 1
    BY <1>1, <1>4
  <2>2. NewObject \in Objects' /\ NewObject # None
    BY <1>1, <2>1 DEF NewObject, Objects, None
  <2>3. Objects \subseteq Objects'
    BY <1>1, <2>1 DEF Objects
  <2>4. registry' \in [Keys -> Objects' \cup {None}]
    BY <1>1, <1>4, <2>2, <2>3
  <2>5. QED
    BY <1>1, <1>4, <2>1, <2>2, <2>4
<1>5. QED
  BY <1>2, <1>3, <1>4 DEF GetLimiter, UpdateLimiter

(* Requests that hold the registered limiter of their user and server go   *)
(* on holding it while limiters of users and servers are only added.       *)
LEMMA SharingStays ==
  ASSUME IInv, UNCHANGED requests,
         \A j \in Users \cup Servers :
           registry[j] # None => registry'[j] = registry[j]
  PROVE  SharedLimiters' /\ \A q \in Requests : RequestFits(q)'
<1>1. \A q \in Requests : RequestFits(q)
  BY DEF IInv, KeysFit
<1>2. SharedLimiters'
  <2> SUFFICES ASSUME NEW q \in Requests
               PROVE  /\ held[q]["user"] # None
                           => held[q]["user"] = registry'[request[q].user]
                      /\ held[q]["server"] # None
                           => held[q]["server"] = registry'[request[q].server]
    BY DEF SharedLimiters, requests
  <2>1. CASE held[q]["user"] # None
    BY <1>1, <2>1 DEF IInv, SharedLimiters, RequestFits
  <2>2. CASE held[q]["server"] # None
    BY <1>1, <2>2 DEF IInv, SharedLimiters, RequestFits
  <2>3. QED
    <3>1. held[q]["user"] # None => held[q]["user"] = registry'[request[q].user]
      BY <2>1
    <3>2. held[q]["server"] # None => held[q]["server"] = registry'[request[q].server]
      BY <2>2
    <3>3. QED
      BY <3>1, <3>2
<1>3. QED
  BY <1>1, <1>2 DEF RequestFits, requests

------------------------------------------------------------------------------
(* Handlers. *)

(* An administrator's step that leaves requests and registry alone keeps   *)
(* the invariant if what the handler is doing stays fitting.               *)
LEMMA AdminMoves ==
  ASSUME IInv, NEW a \in Admins, UNCHANGED <<registry, requests>>,
         TypeOK', AdminFits(a)',
         \A b \in Admins \ {a} : admin'[b] = admin[b]
  PROVE  IInv'
<1>1. \A b \in Admins : AdminFits(b)'
  BY DEF IInv, KeysFit, AdminFits
<1>2. SharedLimiters' /\ \A q \in Requests : RequestFits(q)'
  BY SharingStays
<1>3. QED
  BY <1>1, <1>2 DEF IInv, KeysFit

(* Setting what a handler does sets that, and nothing of the others. *)
LEMMA BusyType ==
  ASSUME TypeOK, NEW a \in Admins, NEW at, NEW k \in OrNoKey(Keys),
         NEW limit \in Limits, Busy(a, at, k, limit),
         at \in {"idle", "update", "reset", "sync", "writeReset", "writeSync",
                 "remove", "global"}
  PROVE  /\ admin' \in [Admins -> AdminType]
         /\ admin'[a].at = at /\ admin'[a].key = k
         /\ \A b \in Admins \ {a} : admin'[b] = admin[b]
<1>1. admin \in [Admins -> AdminType]
  BY DEF TypeOK, AdminType
<1>2. [at |-> at, key |-> k, limit |-> limit] \in AdminType
  BY DEF AdminType
<1>3. QED
  BY <1>1, <1>2 DEF Busy

(* A handler that is done is idle, which fits everything. *)
LEMMA IdleType ==
  ASSUME TypeOK, NEW a \in Admins, Idle(a)
  PROVE  /\ admin' \in [Admins -> AdminType] /\ AdminFits(a)'
         /\ \A b \in Admins \ {a} : admin'[b] = admin[b]
<1>1. admin \in [Admins -> AdminType] /\ IdleAdmin \in AdminType
  BY LimitsAssumption DEF TypeOK, AdminType, IdleAdmin, OrNoKey
<1>2. admin' \in [Admins -> AdminType] /\ admin'[a].at = "idle"
  BY <1>1 DEF Idle, IdleAdmin
<1>3. QED
  BY <1>1, <1>2 DEF Idle, AdminFits

(* Writing a row writes a limit, or no rule. *)
LEMMA WriteRowType ==
  ASSUME TypeOK, NEW a \in Admins, NEW k \in Keys,
         NEW limit \in Limits \cup {NoRule}, WriteRow(a, k, limit)
  PROVE  table' \in [Keys -> Limits \cup {NoRule}] /\ raced' \in [Keys -> BOOLEAN]
<1>1. (\E b \in Admins \ {a} : InWindow(b, k)) \in BOOLEAN
  OBVIOUS
<1>2. QED
  BY <1>1 DEF WriteRow, TypeOK

(* No step of a handler takes a limiter away from a user or a server. *)
LEMMA AdminStep ==
  ASSUME IInv, NEW a \in Admins, Admin(a)
  PROVE  IInv'
<1> USE DEF tables, memory, requests, counters
<1>t. TypeOK /\ admin \in [Admins -> AdminType] /\ admin[a] \in AdminType
  BY DEF IInv, TypeOK, AdminType
<1>f. AdminFits(a)
  BY DEF IInv, KeysFit
<1>k. /\ Users \subseteq Keys /\ Clients \subseteq Keys /\ Servers \subseteq Keys
      /\ Keys \subseteq OrNoKey(Keys) /\ NoKey \in OrNoKey(Keys) /\ 0 \in Limits
  BY LimitsAssumption DEF Keys, OrNoKey
<1>b. Begins(a) => ops' \in 0 .. MaxOps
  BY <1>t, RulesBoundsAssumption DEF Begins, TypeOK
<1>m. mishaps < MaxMishaps /\ mishaps' = mishaps + 1 => mishaps' \in 0 .. MaxMishaps
  BY <1>t, RulesBoundsAssumption DEF TypeOK
<1>1. ASSUME NEW keys \in SUBSET Keys, Saves(a, keys)
      PROVE  IInv'
  <2>1. PICK k \in keys, limit \in Limits : SetRule(a, k, limit)
    BY <1>1 DEF Saves
  <2>2. table' \in [Keys -> Limits \cup {NoRule}] /\ raced' \in [Keys -> BOOLEAN]
    BY <1>t, <2>1, WriteRowType DEF SetRule
  <2>3. /\ admin' \in [Admins -> AdminType]
        /\ admin'[a].at = "update" /\ admin'[a].key = k
        /\ \A b \in Admins \ {a} : admin'[b] = admin[b]
    BY <1>t, <1>k, <2>1, BusyType DEF SetRule
  <2>4. TypeOK'
    BY <1>1, <1>t, <1>b, <2>2, <2>3 DEF Saves, TypeOK, AdminType, Objects
  <2>5. AdminFits(a)'
    BY <2>3 DEF AdminFits
  <2>6. QED
    BY <1>1, <2>3, <2>4, <2>5, AdminMoves DEF Saves
<1>2. CASE UpdateUserRule(a) \/ SaveClientRule(a) \/ CreateServer(a)
  BY <1>1, <1>2, <1>k DEF UpdateUserRule, SaveClientRule, CreateServer
<1>3. CASE UpdateAfterWrite(a)
  <2>1. admin[a].key \in Keys /\ admin[a].limit \in Limits
    BY <1>3, <1>t, <1>f DEF UpdateAfterWrite, AdminFits, AdminType
  <2>2. /\ limitOf' \in Seq(Limits) /\ Len(limitOf') >= Len(limitOf)
        /\ registry' \in [Keys -> Objects' \cup {None}]
        /\ \A j \in Keys : registry[j] # None => registry'[j] = registry[j]
    BY <1>3, <1>t, <2>1, GettingOrUpdating DEF UpdateAfterWrite
  <2>3. /\ admin' \in [Admins -> AdminType] /\ AdminFits(a)'
        /\ \A b \in Admins \ {a} : admin'[b] = admin[b]
    BY <1>3, <1>t, IdleType DEF UpdateAfterWrite
  <2>4. /\ held \in [Requests -> [Kinds -> Objects' \cup {None}]]
        /\ globalLimiter \in Objects' \cup {None}
    BY <1>t, <2>2, ObjectsStay
  <2>5. TypeOK'
    BY <1>3, <1>t, <2>2, <2>3, <2>4 DEF UpdateAfterWrite, TypeOK, AdminType
  <2>6. SharedLimiters' /\ \A q \in Requests : RequestFits(q)'
    BY <1>3, <1>k, <2>2, SharingStays DEF UpdateAfterWrite
  <2>7. \A b \in Admins : AdminFits(b)'
    BY <2>3 DEF IInv, KeysFit, AdminFits
  <2>8. QED
    BY <2>5, <2>6, <2>7 DEF IInv, KeysFit
<1>4. CASE ResetUser(a)
  <2>1. PICK u \in Users : Busy(a, "reset", u, 0)
    BY <1>4 DEF ResetUser
  <2>2. /\ admin' \in [Admins -> AdminType]
        /\ admin'[a].at = "reset" /\ admin'[a].key = u
        /\ \A b \in Admins \ {a} : admin'[b] = admin[b]
    BY <1>t, <1>k, <2>1, BusyType
  <2>3. TypeOK'
    BY <1>4, <1>t, <1>b, <2>2 DEF ResetUser, TypeOK, AdminType, Objects
  <2>4. QED
    BY <1>4, <2>2, <2>3, AdminMoves DEF ResetUser, AdminFits
<1>5. CASE CheckUser(a)
  <2>1. PICK u \in Users :
          /\ Busy(a, "sync", u, 0)
          /\ mishaps' = mishaps \/ (mishaps < MaxMishaps /\ mishaps' = mishaps + 1)
    BY <1>5 DEF CheckUser
  <2>2. /\ admin' \in [Admins -> AdminType]
        /\ admin'[a].at = "sync" /\ admin'[a].key = u
        /\ \A b \in Admins \ {a} : admin'[b] = admin[b]
    BY <1>t, <1>k, <2>1, BusyType
  <2>3. mishaps' \in 0 .. MaxMishaps
    BY <1>t, <1>m, <2>1 DEF TypeOK
  <2>4. TypeOK'
    BY <1>5, <1>t, <1>b, <2>2, <2>3 DEF CheckUser, TypeOK, AdminType, Objects
  <2>5. QED
    BY <1>5, <2>2, <2>4, AdminMoves DEF CheckUser, AdminFits
<1>6. CASE ReadDefaults(a)
  <2> DEFINE at == IF admin[a].at = "reset" THEN "writeReset" ELSE "writeSync"
  <2>1. admin[a].key \in Users /\ defaults \in Limits
    BY <1>6, <1>t, <1>f DEF ReadDefaults, AdminFits, TypeOK
  <2>2. Busy(a, at, admin[a].key, defaults) /\ at \in {"writeReset", "writeSync"}
    BY <1>6 DEF ReadDefaults
  <2>3. /\ admin' \in [Admins -> AdminType]
        /\ admin'[a].at = at /\ admin'[a].key = admin[a].key
        /\ \A b \in Admins \ {a} : admin'[b] = admin[b]
    <3> HIDE DEF at
    <3>1. QED
      BY <1>t, <1>k, <2>1, <2>2, BusyType
  <2>4. TypeOK'
    BY <1>6, <1>t, <2>3 DEF ReadDefaults, TypeOK, AdminType, Objects
  <2>5. AdminFits(a)'
    BY <2>1, <2>2, <2>3 DEF AdminFits
  <2>6. QED
    BY <1>6, <2>3, <2>4, <2>5, AdminMoves DEF ReadDefaults
<1>7. CASE WriteDefaults(a)
  <2>1. admin[a].key \in Users /\ admin[a].limit \in Limits
    BY <1>7, <1>t, <1>f DEF WriteDefaults, AdminFits, AdminType
  <2>2. table' \in [Keys -> Limits \cup {NoRule}] /\ raced' \in [Keys -> BOOLEAN]
    BY <1>7, <1>t, <1>k, <2>1, WriteRowType DEF WriteDefaults, SetRule
  <2>3. /\ admin' \in [Admins -> AdminType]
        /\ admin'[a].at = "update" /\ admin'[a].key = admin[a].key
        /\ \A b \in Admins \ {a} : admin'[b] = admin[b]
    BY <1>7, <1>t, <1>k, <2>1, BusyType DEF WriteDefaults, SetRule
  <2>4. TypeOK'
    BY <1>7, <1>t, <2>2, <2>3 DEF WriteDefaults, TypeOK, AdminType, Objects
  <2>5. QED
    BY <1>7, <1>k, <2>1, <2>3, <2>4, AdminMoves DEF WriteDefaults, AdminFits
<1>8. CASE WriteFails(a)
  <2>1. /\ admin' \in [Admins -> AdminType] /\ AdminFits(a)'
        /\ \A b \in Admins \ {a} : admin'[b] = admin[b]
    BY <1>8, <1>t, IdleType DEF WriteFails
  <2>2. TypeOK'
    BY <1>8, <1>t, <1>m, <2>1 DEF WriteFails, TypeOK, AdminType, Objects
  <2>3. QED
    BY <1>8, <2>1, <2>2, AdminMoves DEF WriteFails
<1>9. CASE DeleteClientRow(a)
  <2>1. PICK c \in Clients : WriteRow(a, c, NoRule) /\ Busy(a, "remove", c, 0)
    BY <1>9 DEF DeleteClientRow
  <2>2. table' \in [Keys -> Limits \cup {NoRule}] /\ raced' \in [Keys -> BOOLEAN]
    BY <1>t, <1>k, <2>1, WriteRowType
  <2>3. /\ admin' \in [Admins -> AdminType]
        /\ admin'[a].at = "remove" /\ admin'[a].key = c
        /\ \A b \in Admins \ {a} : admin'[b] = admin[b]
    BY <1>t, <1>k, <2>1, BusyType
  <2>4. TypeOK'
    BY <1>9, <1>t, <1>b, <2>2, <2>3 DEF DeleteClientRow, TypeOK, AdminType, Objects
  <2>5. QED
    BY <1>9, <2>3, <2>4, AdminMoves DEF DeleteClientRow, AdminFits
<1>10. CASE RemoveLimiter(a)
  <2>1. admin[a].key \in Clients
    BY <1>10, <1>f DEF RemoveLimiter, AdminFits
  <2>2. \A j \in Users \cup Servers : registry'[j] = registry[j]
    BY <1>10, <1>t, <1>k, <2>1, KeysAssumption DEF RemoveLimiter, TypeOK
  <2>3. /\ admin' \in [Admins -> AdminType] /\ AdminFits(a)'
        /\ \A b \in Admins \ {a} : admin'[b] = admin[b]
    BY <1>10, <1>t, IdleType DEF RemoveLimiter
  <2>4. registry' \in [Keys -> Objects' \cup {None}]
    BY <1>10, <1>t DEF RemoveLimiter, TypeOK, Objects
  <2>5. outdated' \in [Requests -> SUBSET {"client", "global"}]
    BY <1>10, <1>t DEF RemoveLimiter, Outdate, TypeOK
  <2>6. TypeOK'
    BY <1>10, <1>t, <2>3, <2>4, <2>5 DEF RemoveLimiter, TypeOK, AdminType, Objects
  <2>7. SharedLimiters' /\ \A q \in Requests : RequestFits(q)'
    BY <1>10, <2>2, SharingStays DEF RemoveLimiter
  <2>8. \A b \in Admins : AdminFits(b)'
    BY <2>3 DEF IInv, KeysFit, AdminFits
  <2>9. QED
    BY <2>6, <2>7, <2>8 DEF IInv, KeysFit
<1>11. CASE DeleteServer(a)
  <2>1. PICK s \in Servers : WriteRow(a, s, NoRule)
    BY <1>11 DEF DeleteServer
  <2>2. table' \in [Keys -> Limits \cup {NoRule}] /\ raced' \in [Keys -> BOOLEAN]
    BY <1>t, <1>k, <2>1, WriteRowType
  <2>3. TypeOK'
    BY <1>11, <1>t, <1>b, <2>2 DEF DeleteServer, TypeOK, AdminType, Objects
  <2>4. QED
    BY <1>11, <1>f, <2>3, AdminMoves DEF DeleteServer, AdminFits
<1>12. CASE UpdateDefaults(a)
  <2>1. PICK g \in Limits : Busy(a, "global", NoKey, g)
    BY <1>12 DEF UpdateDefaults
  <2>2. /\ admin' \in [Admins -> AdminType] /\ admin'[a].at = "global"
        /\ \A b \in Admins \ {a} : admin'[b] = admin[b]
    BY <1>t, <1>k, <2>1, BusyType
  <2>3. TypeOK'
    BY <1>12, <1>t, <1>b, <2>2 DEF UpdateDefaults, TypeOK, AdminType, Objects
  <2>4. QED
    BY <1>12, <2>2, <2>3, AdminMoves DEF UpdateDefaults, AdminFits
<1>13. CASE UpdateGlobalLimit(a)
  <2>1. /\ admin' \in [Admins -> AdminType] /\ AdminFits(a)'
        /\ \A b \in Admins \ {a} : admin'[b] = admin[b]
    BY <1>13, <1>t, IdleType DEF UpdateGlobalLimit
  <2>2. admin[a].limit \in Limits /\ limitOf \in Seq(Limits) /\ Len(limitOf) \in Nat
    BY <1>t DEF AdminType, TypeOK
  <2>3. /\ limitOf' \in Seq(Limits) /\ Len(limitOf') >= Len(limitOf)
        /\ globalLimiter' \in Objects' \cup {None}
    <3>1. globalLimiter \in 1 .. Len(limitOf) \cup {None}
      BY <1>t DEF TypeOK, Objects
    <3>2. CASE limitOf' = limitOf /\ globalLimiter' = None
      BY <2>2, <3>2
    <3>3. CASE globalLimiter' = NewObject /\ limitOf' = Append(limitOf, admin[a].limit)
      BY <2>2, <3>3 DEF NewObject, Objects
    <3>4. CASE /\ globalLimiter # None /\ globalLimiter' = globalLimiter
               /\ limitOf' = [limitOf EXCEPT ![globalLimiter] = admin[a].limit]
      BY <2>2, <3>1, <3>4 DEF Objects
    <3>5. QED
      BY <1>13, <3>2, <3>3, <3>4 DEF UpdateGlobalLimit
  <2>4. /\ held \in [Requests -> [Kinds -> Objects' \cup {None}]]
        /\ registry \in [Keys -> Objects' \cup {None}]
    BY <1>t, <2>3, ObjectsStay
  <2>5. outdated' \in [Requests -> SUBSET {"client", "global"}]
    BY <1>13, <1>t DEF UpdateGlobalLimit, Outdate, TypeOK
  <2>6. TypeOK'
    BY <1>13, <1>t, <2>1, <2>3, <2>4, <2>5 DEF UpdateGlobalLimit, TypeOK, AdminType
  <2>7. QED
    BY <1>13, <2>1, <2>6, AdminMoves DEF UpdateGlobalLimit
<1>14. QED
  BY <1>2, <1>3, <1>4, <1>5, <1>6, <1>7, <1>8, <1>9, <1>10, <1>11, <1>12, <1>13
     DEF Admin

------------------------------------------------------------------------------
(* Requests. *)

(* A step of one request that changes what it is doing and holds. *)
LEMMA RequestMoves ==
  ASSUME IInv, NEW q \in Requests,
         TypeOK', UNCHANGED admin, RequestFits(q)',
         \A p \in Requests \ {q} : request'[p] = request[p] /\ held'[p] = held[p],
         \A j \in Users \cup Servers :
           registry[j] # None => registry'[j] = registry[j],
         held'[q]["user"] # None => held'[q]["user"] = registry'[request'[q].user],
         held'[q]["server"] # None => held'[q]["server"] = registry'[request'[q].server]
  PROVE  IInv'
<1>1. \A p \in Requests : RequestFits(p)
  BY DEF IInv, KeysFit
<1>2. \A p \in Requests : RequestFits(p)'
  BY <1>1 DEF RequestFits
<1>3. \A b \in Admins : AdminFits(b)'
  BY DEF IInv, KeysFit, AdminFits
<1>4. SharedLimiters'
  <2> SUFFICES ASSUME NEW p \in Requests, p # q
               PROVE  /\ held[p]["user"] # None
                           => held[p]["user"] = registry'[request[p].user]
                      /\ held[p]["server"] # None
                           => held[p]["server"] = registry'[request[p].server]
    BY DEF SharedLimiters
  <2>1. held[p]["user"] # None => held[p]["user"] = registry'[request[p].user]
    BY <1>1 DEF IInv, SharedLimiters, RequestFits
  <2>2. held[p]["server"] # None => held[p]["server"] = registry'[request[p].server]
    BY <1>1 DEF IInv, SharedLimiters, RequestFits
  <2>3. QED
    BY <2>1, <2>2
<1>5. QED
  BY <1>2, <1>3, <1>4 DEF IInv, KeysFit

(* A lookup changes where the request is and the rule it remembers. *)
LEMMA LookingUp ==
  ASSUME IInv, NEW q \in Requests, NEW k, NEW getting, NEW next,
         getting \in {"userLimiter", "clientLimiter", "serverLimiter"},
         next \in {"client", "global", "forwarding"},
         getting = "userLimiter" => k = request[q].user,
         getting = "clientLimiter" => k = request[q].client,
         getting = "serverLimiter" => k = request[q].server,
         LookUp(q, k, getting, next), request[q].at # "new"
  PROVE  IInv'
<1> USE DEF tables, memory, requests, counters
<1>t. TypeOK /\ request \in [Requests -> RequestType]
  BY DEF IInv, TypeOK, RequestType
<1>1. PICK rule \in Limits \cup {NoRule} :
        /\ Look(q, k, rule, getting, next)
        /\ k # NoKey \/ rule = NoRule
        /\ mishaps' = mishaps \/ (mishaps < MaxMishaps /\ mishaps' = mishaps + 1)
  BY DEF LookUp, ReadRow
<1> DEFINE at == IF k = NoKey \/ (rule = NoRule /\ k \notin Users) THEN next ELSE getting
<1>2. request' = [request EXCEPT ![q] = [request[q] EXCEPT !.at = at, !.rule = rule]]
  BY <1>1, <1>t DEF Look
<1>3. /\ request[q] \in RequestType
      /\ at \in {"client", "global", "forwarding", "userLimiter", "clientLimiter",
                 "serverLimiter"}
  BY <1>t
<1>4. [request[q] EXCEPT !.at = at, !.rule = rule] \in RequestType
  <2> HIDE DEF at
  <2>1. QED
    BY <1>3 DEF RequestType
<1>5. request' \in [Requests -> RequestType]
  BY <1>2, <1>4, <1>t
<1>6. /\ request'[q].at = at /\ request'[q].rule = rule
      /\ request'[q].user = request[q].user
      /\ request'[q].client = request[q].client
      /\ request'[q].server = request[q].server
      /\ \A p \in Requests \ {q} : request'[p] = request[p]
  <2> HIDE DEF at
  <2>1. QED
    BY <1>2, <1>t DEF RequestType
<1>7. held' = held /\ registry' = registry
  BY DEF LookUp
<1>8. mishaps' \in 0 .. MaxMishaps
  BY <1>1, <1>t, RulesBoundsAssumption DEF TypeOK
<1>9. TypeOK'
  BY <1>t, <1>5, <1>8 DEF LookUp, TypeOK, RequestType, Objects
<1>10. /\ request[q].user \in OrNoKey(Users)
       /\ request[q].client \in OrNoKey(Clients)
       /\ request[q].server \in OrNoKey(Servers)
  BY <1>3 DEF RequestType
<1>11. RequestFits(q)'
  <2>1. RequestFits(q)
    BY DEF IInv, KeysFit
  <2>2. at = "userLimiter" => request'[q].user \in Users
    BY <1>6, <1>10 DEF OrNoKey
  <2>3. at = "clientLimiter" => request'[q].client \in Clients /\ rule \in Limits
    BY <1>6, <1>10, KeysAssumption DEF OrNoKey
  <2>4. at = "serverLimiter" => request'[q].server \in Servers /\ rule \in Limits
    BY <1>6, <1>10, KeysAssumption DEF OrNoKey
  <2>5. at # "new"
    OBVIOUS
  <2> HIDE DEF at
  <2>6. QED
    BY <1>6, <1>7, <2>1, <2>2, <2>3, <2>4, <2>5 DEF RequestFits
<1>12. /\ held'[q]["user"] # None => held'[q]["user"] = registry'[request'[q].user]
       /\ held'[q]["server"] # None => held'[q]["server"] = registry'[request'[q].server]
  BY <1>6, <1>7 DEF IInv, SharedLimiters
<1>13. admin' = admin
  BY DEF LookUp
<1>14. QED
  BY <1>6, <1>7, <1>9, <1>11, <1>12, <1>13, RequestMoves

(* Holding an object changes where the request is and that kind only. *)
LEMMA HoldingType ==
  ASSUME TypeOK, NEW q \in Requests, NEW kind \in Kinds,
         NEW object \in Objects' \cup {None}, NEW next, Hold(q, kind, object, next),
         next \in {"client", "global", "server", "forwarding"},
         limitOf' \in Seq(Limits), Len(limitOf') >= Len(limitOf)
  PROVE  /\ request' \in [Requests -> RequestType]
         /\ held' \in [Requests -> [Kinds -> Objects' \cup {None}]]
         /\ request'[q].at = next /\ request'[q].user = request[q].user
         /\ request'[q].client = request[q].client
         /\ request'[q].server = request[q].server
         /\ held'[q][kind] = object
         /\ \A other \in Kinds \ {kind} : held'[q][other] = held[q][other]
         /\ \A p \in Requests \ {q} : request'[p] = request[p] /\ held'[p] = held[p]
<1>t. request \in [Requests -> RequestType]
  BY DEF TypeOK, RequestType
<1>h. held \in [Requests -> [Kinds -> Objects' \cup {None}]]
  BY ObjectsStay
<1>1. /\ request' = [request EXCEPT ![q] = [request[q] EXCEPT !.at = next]]
      /\ held' = [held EXCEPT ![q] = [held[q] EXCEPT ![kind] = object]]
  BY DEF Hold
<1>2. /\ [request[q] EXCEPT !.at = next] \in RequestType
      /\ request[q] \in RequestType
  BY <1>t DEF RequestType
<1>3. [held[q] EXCEPT ![kind] = object] \in [Kinds -> Objects' \cup {None}]
  BY <1>h
<1>4. /\ request' \in [Requests -> RequestType]
      /\ held' \in [Requests -> [Kinds -> Objects' \cup {None}]]
  BY <1>1, <1>2, <1>3, <1>t, <1>h
<1>5. /\ request'[q].at = next /\ request'[q].user = request[q].user
      /\ request'[q].client = request[q].client
      /\ request'[q].server = request[q].server
  BY <1>1, <1>2, <1>t DEF RequestType
<1>6. /\ held'[q][kind] = object
      /\ \A other \in Kinds \ {kind} : held'[q][other] = held[q][other]
  BY <1>1, <1>3, <1>h
<1>7. \A p \in Requests \ {q} : request'[p] = request[p] /\ held'[p] = held[p]
  BY <1>1, <1>t, <1>h
<1>8. QED
  BY <1>4, <1>5, <1>6, <1>7

(* A request looks rules up, takes limiters, forwards and responds. *)
LEMMA RequestStep ==
  ASSUME IInv, NEW q \in Requests, Request(q)
  PROVE  IInv'
<1> USE DEF tables, memory, requests, counters
<1>t. TypeOK /\ request \in [Requests -> RequestType] /\ request[q] \in RequestType
  BY DEF IInv, TypeOK, RequestType
<1>f. RequestFits(q)
  BY DEF IInv, KeysFit
<1>s. /\ held[q]["user"] # None => held[q]["user"] = registry[request[q].user]
      /\ held[q]["server"] # None => held[q]["server"] = registry[request[q].server]
  BY DEF IInv, SharedLimiters
<1>k. Users \subseteq Keys /\ Clients \subseteq Keys /\ Servers \subseteq Keys
  BY DEF Keys
<1>n. limitOf \in Seq(Limits) /\ Len(limitOf) \in Nat
  BY <1>t DEF TypeOK
<1>i. "user" \in Kinds /\ "client" \in Kinds /\ "server" \in Kinds /\ "global" \in Kinds
  BY DEF Kinds
<1>1. CASE Arrive(q)
  <2>1. PICK u \in OrNoKey(Users), c \in OrNoKey(Clients), s \in OrNoKey(Servers) :
          request' = [request EXCEPT ![q] =
            [Fresh EXCEPT !.at = "user", !.user = u, !.client = c, !.server = s]]
    BY <1>1 DEF Arrive
  <2> DEFINE new == [Fresh EXCEPT !.at = "user", !.user = u, !.client = c, !.server = s]
  <2>2. new \in RequestType /\ new.at = "user"
    BY DEF Fresh, RequestType, OrNoKey
  <2>3. /\ request' \in [Requests -> RequestType] /\ request'[q] = new
        /\ \A p \in Requests \ {q} : request'[p] = request[p]
    BY <1>t, <2>1, <2>2
  <2>4. held[q]["user"] = None /\ held[q]["server"] = None
    BY <1>1, <1>f DEF Arrive, RequestFits
  <2>5. held' = held /\ registry' = registry /\ admin' = admin
    BY <1>1 DEF Arrive
  <2>6. TypeOK'
    BY <1>1, <1>t, <2>3 DEF Arrive, TypeOK, RequestType, Objects
  <2>7. RequestFits(q)'
    BY <2>2, <2>3, <2>4, <2>5 DEF RequestFits
  <2>8. QED
    BY <2>3, <2>4, <2>5, <2>6, <2>7, RequestMoves
<1>2. CASE GetUserRule(q)
  BY <1>2, LookingUp DEF GetUserRule
<1>3. CASE MatchClientRule(q)
  BY <1>3, LookingUp DEF MatchClientRule
<1>4. CASE GetServerRule(q)
  BY <1>4, LookingUp DEF GetServerRule
<1>5. ASSUME NEW k \in Keys, NEW limit \in Limits, NEW kind \in {"user", "client", "server"},
             NEW next \in {"client", "global", "forwarding"},
             GetLimiter(k, limit), Hold(q, kind, registry'[k], next),
             kind = "user" => k = request[q].user /\ k \in Users,
             kind = "server" => k = request[q].server /\ k \in Servers,
             UNCHANGED <<tables, defaults, globalLimiter, admin, counters, loaded>>,
             outdated' \in [Requests -> SUBSET {"client", "global"}]
      PROVE  IInv'
  <2>1. /\ limitOf' \in Seq(Limits) /\ Len(limitOf') >= Len(limitOf)
        /\ registry' \in [Keys -> Objects' \cup {None}]
        /\ \A j \in Keys : registry[j] # None => registry'[j] = registry[j]
    BY <1>t, <1>5, GettingOrUpdating
  <2>2. kind \in Kinds /\ registry'[k] \in Objects' \cup {None}
    BY <1>i, <2>1
  <2>3. /\ request' \in [Requests -> RequestType]
        /\ held' \in [Requests -> [Kinds -> Objects' \cup {None}]]
        /\ request'[q].at = next /\ request'[q].user = request[q].user
        /\ request'[q].client = request[q].client
        /\ request'[q].server = request[q].server
        /\ held'[q][kind] = registry'[k]
        /\ \A other \in Kinds \ {kind} : held'[q][other] = held[q][other]
        /\ \A p \in Requests \ {q} : request'[p] = request[p] /\ held'[p] = held[p]
    BY <1>t, <1>5, <2>1, <2>2, HoldingType
  <2>4. globalLimiter \in Objects' \cup {None}
    BY <1>t, <2>1, ObjectsStay
  <2>5. TypeOK'
    BY <1>5, <1>t, <2>1, <2>3, <2>4 DEF TypeOK, RequestType
  <2>6. held'[q]["user"] # None =>
          held'[q]["user"] = registry'[request'[q].user] /\ request'[q].user \in Users
    <3>1. CASE kind = "user"
      BY <1>5, <2>3, <3>1
    <3>2. CASE kind # "user"
      <4>1. held'[q]["user"] = held[q]["user"]
        BY <1>i, <2>3, <3>2
      <4>2. QED
        BY <1>f, <1>s, <1>k, <2>1, <2>3, <4>1 DEF RequestFits
    <3>3. QED
      BY <3>1, <3>2
  <2>7. held'[q]["server"] # None =>
          held'[q]["server"] = registry'[request'[q].server] /\ request'[q].server \in Servers
    <3>1. CASE kind = "server"
      BY <1>5, <2>3, <3>1
    <3>2. CASE kind # "server"
      <4>1. held'[q]["server"] = held[q]["server"]
        BY <1>i, <2>3, <3>2
      <4>2. QED
        BY <1>f, <1>s, <1>k, <2>1, <2>3, <4>1 DEF RequestFits
    <3>3. QED
      BY <3>1, <3>2
  <2>8. RequestFits(q)'
    BY <2>3, <2>6, <2>7 DEF RequestFits
  <2>9. QED
    BY <1>5, <1>k, <2>1, <2>3, <2>5, <2>6, <2>7, <2>8, RequestMoves
<1>6. CASE GetUserLimiter(q)
  <2>1. request[q].user \in Users /\ request[q].rule \in Limits \cup {NoRule}
    BY <1>6, <1>t, <1>f DEF GetUserLimiter, RequestFits, RequestType
  <2>2. OrDefault(IF request[q].rule = NoRule THEN 0 ELSE request[q].rule) \in Limits
    BY <1>t, <2>1, LimitsAssumption DEF OrDefault, TypeOK
  <2>3. outdated' \in [Requests -> SUBSET {"client", "global"}]
    BY <1>6, <1>t DEF GetUserLimiter, TypeOK
  <2>4. QED
    BY <1>5, <1>6, <1>k, <2>1, <2>2, <2>3 DEF GetUserLimiter
<1>7. CASE GetClientLimiter(q)
  <2>1. request[q].client \in Clients /\ request[q].rule \in Limits
    BY <1>7, <1>f DEF GetClientLimiter, RequestFits
  <2>2. OrDefault(request[q].rule) \in Limits
    BY <1>t, <2>1 DEF OrDefault, TypeOK
  <2>3. outdated' \in [Requests -> SUBSET {"client", "global"}]
    BY <1>7, <1>t DEF GetClientLimiter, TypeOK
  <2>4. QED
    BY <1>5, <1>7, <1>k, <2>1, <2>2, <2>3 DEF GetClientLimiter
<1>8. CASE GetGlobalLimiter(q)
  <2>1. /\ limitOf' = limitOf /\ globalLimiter \in Objects' \cup {None}
        /\ registry' = registry /\ admin' = admin
    BY <1>8, <1>t DEF GetGlobalLimiter, TypeOK, Objects
  <2>2. Hold(q, "global", globalLimiter, "server")
    BY <1>8 DEF GetGlobalLimiter
  <2>3. /\ request' \in [Requests -> RequestType]
        /\ held' \in [Requests -> [Kinds -> Objects' \cup {None}]]
        /\ request'[q].at = "server" /\ request'[q].user = request[q].user
        /\ request'[q].server = request[q].server
        /\ held'[q]["user"] = held[q]["user"] /\ held'[q]["server"] = held[q]["server"]
        /\ \A p \in Requests \ {q} : request'[p] = request[p] /\ held'[p] = held[p]
    <3> DEFINE kind == "global"
               next == "server"
               object == globalLimiter
    <3>1. /\ limitOf' \in Seq(Limits) /\ Len(limitOf') >= Len(limitOf)
          /\ kind \in Kinds /\ "user" \in Kinds \ {kind} /\ "server" \in Kinds \ {kind}
          /\ next \in {"client", "global", "server", "forwarding"} /\ next = "server"
          /\ object \in Objects' \cup {None}
          /\ Hold(q, kind, object, next)
      BY <1>i, <1>n, <2>1, <2>2
    <3> HIDE DEF kind, next, object
    <3>2. /\ request' \in [Requests -> RequestType]
          /\ held' \in [Requests -> [Kinds -> Objects' \cup {None}]]
          /\ request'[q].at = next /\ request'[q].user = request[q].user
          /\ request'[q].server = request[q].server
          /\ \A other \in Kinds \ {kind} : held'[q][other] = held[q][other]
          /\ \A p \in Requests \ {q} : request'[p] = request[p] /\ held'[p] = held[p]
      BY <1>t, <3>1, HoldingType
    <3>3. QED
      BY <3>1, <3>2
  <2>4. outdated' \in [Requests -> SUBSET {"client", "global"}]
    BY <1>8, <1>t DEF GetGlobalLimiter, TypeOK
  <2>5. TypeOK'
    BY <1>8, <1>t, <2>3, <2>4 DEF GetGlobalLimiter, TypeOK, RequestType, Objects
  <2>6. RequestFits(q)'
    BY <1>f, <2>3 DEF RequestFits
  <2>7. QED
    BY <1>s, <2>1, <2>3, <2>5, <2>6, RequestMoves
<1>9. CASE GetServerLimiter(q)
  <2>1. request[q].server \in Servers /\ request[q].rule \in Limits
    BY <1>9, <1>f DEF GetServerLimiter, RequestFits
  <2>2. outdated' \in [Requests -> SUBSET {"client", "global"}]
    BY <1>9, <1>t DEF GetServerLimiter, TypeOK
  <2>3. QED
    BY <1>5, <1>9, <1>k, <2>1, <2>2 DEF GetServerLimiter
<1>10. CASE Respond(q)
  <2>1. [Fresh EXCEPT !.at = "done"] \in RequestType /\ [Fresh EXCEPT !.at = "done"].at = "done"
    BY DEF Fresh, RequestType, OrNoKey
  <2>2. [kind \in Kinds |-> None] \in [Kinds -> Objects \cup {None}]
    OBVIOUS
  <2>3. /\ request' \in [Requests -> RequestType] /\ request'[q].at = "done"
        /\ held' \in HeldType
        /\ held'[q]["user"] = None /\ held'[q]["server"] = None
        /\ \A p \in Requests \ {q} : request'[p] = request[p] /\ held'[p] = held[p]
    BY <1>10, <1>t, <1>i, <2>1, <2>2 DEF Respond, TypeOK, HeldType
  <2>4. TypeOK'
    BY <1>10, <1>t, <2>3 DEF Respond, TypeOK, RequestType, HeldType, Objects
  <2>5. RequestFits(q)'
    BY <2>3 DEF RequestFits
  <2>6. registry' = registry /\ admin' = admin
    BY <1>10 DEF Respond
  <2>7. QED
    BY <2>3, <2>4, <2>5, <2>6, RequestMoves
<1>11. QED
  BY <1>1, <1>2, <1>3, <1>4, <1>6, <1>7, <1>8, <1>9, <1>10 DEF Request

------------------------------------------------------------------------------
(* Starting, and the theorems. *)

(* LoadRulesFromDB registers one new object for every rule it loads. *)
LEMMA Loading ==
  ASSUME TypeOK, NEW keys \in SUBSET Keys, NEW g \in Limits, Loads(keys, g)
  PROVE  /\ limitOf' \in Seq(Limits)
         /\ registry' \in [Keys -> Objects' \cup {None}]
         /\ g > 0 => 1 \in Objects'
<1> DEFINE ruled == {k \in keys : table[k] # NoRule}
           n == Cardinality(ruled)
           first == IF g > 0 THEN 1 ELSE 0
           global == IF g > 0 THEN <<g>> ELSE <<>>
<1>1. PICK order \in [1 .. n -> ruled] :
        /\ \A k \in ruled : \E i \in DOMAIN order : order[i] = k
        /\ registry' = [k \in Keys |->
             IF k \in ruled
               THEN first + (CHOOSE i \in DOMAIN order : order[i] = k)
               ELSE None]
        /\ limitOf' = global \o [i \in DOMAIN order |-> table[order[i]]]
  BY DEF Loads
<1> DEFINE loadedLimits == [i \in 1 .. n |-> table[order[i]]]
<1>2. n \in Nat
  <2>1. ruled \in SUBSET Keys
    OBVIOUS
  <2>2. IsFiniteSet(ruled)
    BY <2>1, KeysAssumption, FS_Subset
  <2>3. QED
    BY <2>2, FS_CardinalityType
<1> HIDE DEF n
<1>3. \A k \in ruled : table[k] \in Limits
  BY DEF TypeOK
<1>4. loadedLimits \in Seq(Limits) /\ Len(loadedLimits) = n
  <2>1. \A i \in 1 .. n : table[order[i]] \in Limits
    BY <1>1, <1>3
  <2>2. QED
    BY <1>2, <2>1
<1>5. global \in Seq(Limits) /\ Len(global) = first
  OBVIOUS
<1>6. limitOf' = global \o loadedLimits
  BY <1>1
<1>7. limitOf' \in Seq(Limits) /\ Len(limitOf') = first + n
  <2> HIDE DEF global, loadedLimits, first
  <2>1. QED
    BY <1>4, <1>5, <1>6, ConcatProperties
<1>8. \A k \in ruled : first + (CHOOSE i \in DOMAIN order : order[i] = k) \in Objects'
  <2> TAKE k \in ruled
  <2>1. (CHOOSE i \in DOMAIN order : order[i] = k) \in 1 .. n
    BY <1>1
  <2>2. QED
    BY <1>2, <1>7, <2>1 DEF Objects
<1>9. registry' \in [Keys -> Objects' \cup {None}]
  <2> HIDE DEF first, ruled
  <2>1. QED
    BY <1>1, <1>8
<1>10. g > 0 => 1 \in Objects'
  BY <1>2, <1>7 DEF Objects
<1>11. QED
  BY <1>7, <1>9, <1>10

(* A new process has no handler and no request in progress. *)
LEMMA RestartStep == ASSUME IInv, Restart PROVE IInv'
<1>t. TypeOK /\ request \in [Requests -> RequestType]
  BY DEF IInv, TypeOK, RequestType
<1>1. PICK g \in Limits :
        globalLimiter' = (IF g > 0 THEN 1 ELSE None) /\ LoadRulesFromDB(g)
  BY DEF Restart
<1>2. PICK keys \in SUBSET Keys : Loads(keys, g)
  BY <1>1 DEF LoadRulesFromDB, Keys
<1>3. /\ limitOf' \in Seq(Limits)
      /\ registry' \in [Keys -> Objects' \cup {None}]
      /\ globalLimiter' \in Objects' \cup {None}
  BY <1>1, <1>2, <1>t, Loading
<1>4. loaded' \in BOOLEAN /\ mishaps' \in 0 .. MaxMishaps
  <2>1. mishaps \in 0 .. MaxMishaps
    BY <1>t DEF TypeOK
  <2>2. CASE loaded' = TRUE /\ mishaps' = mishaps
    BY <2>1, <2>2
  <2>3. CASE mishaps < MaxMishaps /\ mishaps' = mishaps + 1 /\ loaded' = FALSE
    <3>1. mishaps' \in 0 .. MaxMishaps
      BY <2>1, <2>3, RulesBoundsAssumption
    <3>2. QED
      BY <2>3, <3>1
  <2>4. QED
    BY <1>1, <2>2, <2>3 DEF LoadRulesFromDB
<1>5. lives' \in 1 .. MaxLives /\ ops' \in 0 .. MaxOps /\ defaults' \in Limits
      /\ table' \in [Keys -> Limits \cup {NoRule}]
  BY <1>t, RulesBoundsAssumption DEF Restart, TypeOK
<1>6. /\ admin' \in [Admins -> AdminType] /\ \A a \in Admins : admin'[a].at = "idle"
  BY LimitsAssumption DEF Restart, IdleAdmin, AdminType, OrNoKey
<1>7. /\ request' \in [Requests -> RequestType]
      /\ \A q \in Requests : request'[q].at \in {"new", "done"}
  <2>1. Fresh \in RequestType /\ [Fresh EXCEPT !.at = "done"] \in RequestType
    BY DEF Fresh, RequestType, OrNoKey
  <2>2. Fresh.at = "new" /\ [Fresh EXCEPT !.at = "done"].at = "done"
    BY DEF Fresh
  <2>3. QED
    BY <2>1, <2>2 DEF Restart
<1>8. /\ held' \in [Requests -> [Kinds -> Objects' \cup {None}]]
      /\ \A q \in Requests : held'[q]["user"] = None /\ held'[q]["server"] = None
  BY DEF Restart, Kinds
<1>9. /\ raced' \in [Keys -> BOOLEAN]
      /\ outdated' \in [Requests -> SUBSET {"client", "global"}]
  BY DEF Restart
<1>10. TypeOK'
  BY <1>3, <1>4, <1>5, <1>6, <1>7, <1>8, <1>9 DEF TypeOK, AdminType, RequestType
<1>11. KeysFit'
  BY <1>6, <1>7, <1>8 DEF KeysFit, AdminFits, RequestFits
<1>12. SharedLimiters'
  BY <1>8 DEF SharedLimiters
<1>13. QED
  BY <1>10, <1>11, <1>12 DEF IInv

(* The first process starts over empty tables. *)
LEMMA InvariantInit == Init => IInv
<1> SUFFICES ASSUME Init PROVE IInv
  OBVIOUS
<1>1. PICK g \in Limits :
        /\ limitOf = IF g > 0 THEN <<g>> ELSE <<>>
        /\ globalLimiter = IF g > 0 THEN 1 ELSE None
  BY DEF Init
<1>2. limitOf \in Seq(Limits) /\ globalLimiter \in Objects \cup {None}
  BY <1>1 DEF Objects
<1>3. admin \in [Admins -> AdminType] /\ \A a \in Admins : admin[a].at = "idle"
  BY LimitsAssumption DEF Init, IdleAdmin, AdminType, OrNoKey
<1>4. request \in [Requests -> RequestType] /\ \A q \in Requests : request[q].at = "new"
  BY DEF Init, Fresh, RequestType, OrNoKey
<1>5. /\ held \in HeldType
      /\ \A q \in Requests : held[q]["user"] = None /\ held[q]["server"] = None
  BY DEF Init, Kinds, HeldType
<1>6. TypeOK
  BY <1>2, <1>3, <1>4, <1>5, RulesBoundsAssumption
     DEF Init, TypeOK, AdminType, RequestType, HeldType
<1>7. KeysFit
  BY <1>3, <1>4, <1>5 DEF KeysFit, AdminFits, RequestFits
<1>8. SharedLimiters
  BY <1>5 DEF SharedLimiters
<1>9. QED
  BY <1>6, <1>7, <1>8 DEF IInv

(* The invariant is inductive and holds of every behaviour. *)
LEMMA RulesInvariance == Spec => []IInv
<1>1. IInv /\ [Next]_vars => IInv'
  <2> SUFFICES ASSUME IInv, [Next]_vars PROVE IInv'
    OBVIOUS
  <2>1. CASE UNCHANGED vars
    BY <2>1 DEF vars, IInv, TypeOK, KeysFit, AdminFits, RequestFits,
                SharedLimiters, Objects
  <2>2. CASE Next
    BY <2>2, AdminStep, RequestStep, RestartStep DEF Next
  <2>3. QED
    BY <2>1, <2>2
<1>2. QED
  BY <1>1, InvariantInit, PTL DEF Spec

(* Rows, limiters, handlers and requests keep their types, and every       *)
(* limiter that is registered or held exists.                              *)
THEOREM RulesTypeCorrect == Spec => []TypeOK
<1>1. IInv => TypeOK
  BY DEF IInv
<1>2. QED
  BY <1>1, RulesInvariance, PTL

(* However administrators' updates, deletions, syncs and restarts fall     *)
(* between the lookups of the requests, all requests of a user and of a    *)
(* server share one limiter, the one the next update reaches.              *)
THEOREM OneLimiterPerKey == Spec => []SharedLimiters
<1>1. IInv => SharedLimiters
  BY DEF IInv
<1>2. QED
  BY <1>1, RulesInvariance, PTL

------------------------------------------------------------------------------
(* The limiters of clients and the global one, which requests may outlive. *)

(* A request that has not begun holds none, and one that holds a client's  *)
(* limiter is that client's.                                               *)
TakenFits(q) ==
  /\ request[q].at = "new" => held[q]["client"] = None /\ held[q]["global"] = None
  /\ held[q]["client"] # None => request[q].client \in Clients

TakenInv == (\A q \in Requests : TakenFits(q)) /\ StaleOnlyAfterRemoval

(* StaleOnlyAfterRemoval of one request. *)
Current(q) ==
  /\ held[q]["client"] # None /\ "client" \notin outdated[q]
       => held[q]["client"] = registry[request[q].client]
  /\ held[q]["global"] # None /\ "global" \notin outdated[q]
       => held[q]["global"] = globalLimiter

LEMMA StaleIsNotCurrent == StaleOnlyAfterRemoval <=> \A q \in Requests : Current(q)
BY DEF StaleOnlyAfterRemoval, Current

(* A step that leaves the requests alone and marks those whose limiter it  *)
(* takes out of force.                                                     *)
LEMMA TakenStays ==
  ASSUME TakenInv, UNCHANGED requests,
         \A q \in Requests : outdated[q] \subseteq outdated'[q],
         \A q \in Requests :
           \/ request[q].client \notin Clients
           \/ registry[request[q].client] = None
           \/ registry'[request[q].client] = registry[request[q].client]
           \/ "client" \in outdated'[q],
         \A q \in Requests :
           \/ globalLimiter = None \/ globalLimiter' = globalLimiter
           \/ "global" \in outdated'[q]
  PROVE  TakenInv'
<1>1. UNCHANGED <<request, held>>
  BY DEF requests
<1>2. \A q \in Requests : TakenFits(q)'
  BY <1>1 DEF TakenInv, TakenFits
<1>3. ASSUME NEW q \in Requests
      PROVE  Current(q)'
  <2>1. Current(q) /\ TakenFits(q)
    BY StaleIsNotCurrent DEF TakenInv
  <2>2. held[q]["client"] # None /\ "client" \notin outdated'[q]
          => held[q]["client"] = registry'[request[q].client]
    BY <2>1 DEF Current, TakenFits
  <2>3. held[q]["global"] # None /\ "global" \notin outdated'[q]
          => held[q]["global"] = globalLimiter'
    BY <2>1 DEF Current
  <2>4. QED
    BY <1>1, <2>2, <2>3 DEF Current
<1>4. StaleOnlyAfterRemoval'
  BY <1>3 DEF StaleOnlyAfterRemoval, Current
<1>5. QED
  BY <1>2, <1>4 DEF TakenInv

(* A step of one request that takes no limiter out of force. *)
LEMMA TakingOne ==
  ASSUME TakenInv, NEW q \in Requests, TakenFits(q)', Current(q)',
         globalLimiter' = globalLimiter,
         \A c \in Clients : registry[c] # None => registry'[c] = registry[c],
         \A p \in Requests \ {q} :
           request'[p] = request[p] /\ held'[p] = held[p] /\ outdated'[p] = outdated[p]
  PROVE  TakenInv'
<1>1. \A p \in Requests : TakenFits(p)'
  BY DEF TakenInv, TakenFits
<1>2. ASSUME NEW p \in Requests \ {q}
      PROVE  Current(p)'
  <2>1. Current(p) /\ TakenFits(p)
    BY StaleIsNotCurrent DEF TakenInv
  <2>2. held[p]["client"] # None /\ "client" \notin outdated[p]
          => held[p]["client"] = registry'[request[p].client]
    BY <2>1 DEF Current, TakenFits
  <2>3. held[p]["global"] # None /\ "global" \notin outdated[p]
          => held[p]["global"] = globalLimiter'
    BY <2>1 DEF Current
  <2>4. request'[p] = request[p] /\ held'[p] = held[p] /\ outdated'[p] = outdated[p]
    OBVIOUS
  <2>5. QED
    BY <2>2, <2>3, <2>4 DEF Current
<1>3. StaleOnlyAfterRemoval'
  BY <1>2 DEF StaleOnlyAfterRemoval, Current
<1>4. QED
  BY <1>1, <1>3 DEF TakenInv

(* Removing a client's limiter and switching the global limit off are the  *)
(* only steps of a handler that take a limiter out of force.               *)
LEMMA AdminTakes ==
  ASSUME IInv, TakenInv, NEW a \in Admins, Admin(a)
  PROVE  TakenInv'
<1> USE DEF tables, memory, requests, counters
<1>t. /\ TypeOK /\ admin \in [Admins -> AdminType] /\ admin[a] \in AdminType
      /\ outdated \in [Requests -> SUBSET {"client", "global"}]
      /\ registry \in [Keys -> Objects \cup {None}]
  BY DEF IInv, TypeOK, AdminType
<1>f. AdminFits(a)
  BY DEF IInv, KeysFit
<1>k. Clients \subseteq Keys
  BY DEF Keys
<1>1. ASSUME UNCHANGED <<requests, registry, globalLimiter, outdated>>
      PROVE  TakenInv'
  BY <1>1, TakenStays
<1>2. CASE \/ UpdateUserRule(a) \/ SaveClientRule(a) \/ CreateServer(a)
           \/ ResetUser(a) \/ CheckUser(a) \/ ReadDefaults(a) \/ WriteDefaults(a)
           \/ WriteFails(a) \/ DeleteClientRow(a) \/ DeleteServer(a)
           \/ UpdateDefaults(a)
  BY <1>1, <1>2 DEF UpdateUserRule, SaveClientRule, CreateServer, Saves,
     ResetUser, CheckUser, ReadDefaults, WriteDefaults, WriteFails,
     DeleteClientRow, DeleteServer, UpdateDefaults
<1>3. CASE UpdateAfterWrite(a)
  <2>1. admin[a].key \in Keys /\ admin[a].limit \in Limits
    BY <1>3, <1>t, <1>f DEF UpdateAfterWrite, AdminFits, AdminType
  <2>2. \A j \in Keys : registry[j] # None => registry'[j] = registry[j]
    BY <1>3, <1>t, <2>1, GettingOrUpdating DEF UpdateAfterWrite
  <2>3. UNCHANGED <<requests, globalLimiter, outdated>>
    BY <1>3 DEF UpdateAfterWrite
  <2>4. QED
    BY <1>k, <2>2, <2>3, TakenStays
<1>4. CASE RemoveLimiter(a)
  <2>1. \A q \in Requests :
          /\ outdated[q] \subseteq outdated'[q]
          /\ request[q].client = admin[a].key => "client" \in outdated'[q]
    BY <1>4, <1>t DEF RemoveLimiter, Outdate
  <2>2. \A c \in Clients : c # admin[a].key => registry'[c] = registry[c]
    BY <1>4, <1>t, <1>k DEF RemoveLimiter
  <2>3. UNCHANGED <<requests, globalLimiter>>
    BY <1>4 DEF RemoveLimiter
  <2>4. QED
    BY <2>1, <2>2, <2>3, TakenStays
<1>5. CASE UpdateGlobalLimit(a)
  <2>1. \A q \in Requests :
          /\ outdated[q] \subseteq outdated'[q]
          /\ \/ globalLimiter = None \/ globalLimiter' = globalLimiter
             \/ "global" \in outdated'[q]
    <3>1. CASE UNCHANGED outdated /\ (globalLimiter = None \/ globalLimiter' = globalLimiter)
      BY <3>1
    <3>2. CASE Outdate("global", Requests)
      BY <1>t, <3>2 DEF Outdate
    <3>3. QED
      BY <1>5, <3>1, <3>2 DEF UpdateGlobalLimit
  <2>2. UNCHANGED <<requests, registry>>
    BY <1>5 DEF UpdateGlobalLimit
  <2>3. QED
    BY <2>1, <2>2, TakenStays
<1>6. QED
  BY <1>2, <1>3, <1>4, <1>5 DEF Admin

(* A request that takes a limiter takes the one in force; a lookup, and    *)
(* the limiters of users and servers, change nothing of that.              *)
LEMMA RequestTakes ==
  ASSUME IInv, TakenInv, NEW q \in Requests, Request(q)
  PROVE  TakenInv'
<1> USE DEF tables, memory, requests, counters
<1>t. /\ TypeOK /\ request \in [Requests -> RequestType] /\ request[q] \in RequestType
      /\ held \in HeldType
      /\ outdated \in [Requests -> SUBSET {"client", "global"}]
  BY DEF IInv, TypeOK, RequestType, HeldType
<1>f. RequestFits(q) /\ TakenFits(q) /\ Current(q)
  BY StaleIsNotCurrent DEF IInv, KeysFit, TakenInv
<1>k. Users \subseteq Keys /\ Clients \subseteq Keys /\ Servers \subseteq Keys
  BY DEF Keys
<1>i. "user" \in Kinds /\ "client" \in Kinds /\ "server" \in Kinds /\ "global" \in Kinds
  BY DEF Kinds
<1>1. CASE Arrive(q)
  <2>1. UNCHANGED <<registry, globalLimiter, outdated, held>>
    BY <1>1 DEF Arrive
  <2>2. \A p \in Requests \ {q} : request'[p] = request[p]
    BY <1>1, <1>t DEF Arrive
  <2>3. held[q]["client"] = None /\ held[q]["global"] = None
    BY <1>1, <1>f DEF Arrive, TakenFits
  <2>4. TakenFits(q)' /\ Current(q)'
    BY <2>1, <2>3 DEF TakenFits, Current
  <2>5. QED
    BY <2>1, <2>2, <2>4, TakingOne
<1>2. ASSUME NEW k, NEW getting, NEW next, LookUp(q, k, getting, next),
             getting # "new", next # "new"
      PROVE  TakenInv'
  <2>1. UNCHANGED <<registry, globalLimiter, outdated, held>>
    BY <1>2 DEF LookUp
  <2>2. PICK rule : Look(q, k, rule, getting, next)
    BY <1>2 DEF LookUp
  <2>3. PICK at \in {getting, next} :
          request' = [request EXCEPT ![q] = [request[q] EXCEPT !.at = at, !.rule = rule]]
    BY <1>t, <2>2 DEF Look
  <2>4. /\ request'[q].at = at /\ request'[q].client = request[q].client
        /\ \A p \in Requests \ {q} : request'[p] = request[p]
    BY <1>t, <2>3 DEF RequestType
  <2>5. TakenFits(q)' /\ Current(q)'
    BY <1>2, <1>f, <2>1, <2>4 DEF TakenFits, Current
  <2>6. QED
    BY <2>1, <2>4, <2>5, TakingOne
<1>3. CASE GetUserRule(q) \/ MatchClientRule(q) \/ GetServerRule(q)
  BY <1>2, <1>3 DEF GetUserRule, MatchClientRule, GetServerRule
<1>4. ASSUME NEW k \in Keys, NEW limit \in Limits, NEW kind \in {"user", "client", "server"},
             NEW next \in {"client", "global", "forwarding"},
             GetLimiter(k, limit), Hold(q, kind, registry'[k], next),
             kind = "client" => k = request[q].client /\ k \in Clients,
             globalLimiter' = globalLimiter,
             kind # "client" => outdated' = outdated,
             kind = "client" => outdated' = [outdated EXCEPT ![q] = @ \ {"client"}]
      PROVE  TakenInv'
  <2>1. /\ limitOf' \in Seq(Limits) /\ Len(limitOf') >= Len(limitOf)
        /\ registry' \in [Keys -> Objects' \cup {None}]
        /\ \A j \in Keys : registry[j] # None => registry'[j] = registry[j]
    BY <1>t, <1>4, GettingOrUpdating
  <2>2. /\ kind \in Kinds /\ registry'[k] \in Objects' \cup {None}
        /\ Hold(q, kind, registry'[k], next)
        /\ next \in {"client", "global", "server", "forwarding"}
    BY <1>4, <1>i, <2>1
  <2>3. /\ request' \in [Requests -> RequestType]
        /\ held' \in [Requests -> [Kinds -> Objects' \cup {None}]]
        /\ request'[q].at = next /\ request'[q].user = request[q].user
        /\ request'[q].client = request[q].client
        /\ request'[q].server = request[q].server
        /\ held'[q][kind] = registry'[k]
        /\ \A other \in Kinds \ {kind} : held'[q][other] = held[q][other]
        /\ \A p \in Requests \ {q} : request'[p] = request[p] /\ held'[p] = held[p]
    BY <1>t, <2>1, <2>2, HoldingType
  <2>4. \A p \in Requests \ {q} : outdated'[p] = outdated[p]
    BY <1>4, <1>t
  <2>5. "global" \in outdated'[q] <=> "global" \in outdated[q]
    BY <1>4, <1>t
  <2>6. held'[q]["global"] = held[q]["global"]
    BY <1>i, <2>3
  <2>7. CASE kind = "client"
    <3>1. held'[q]["client"] = registry'[request'[q].client] /\ request'[q].client \in Clients
      BY <1>4, <2>3, <2>7
    <3>2. TakenFits(q)' /\ Current(q)'
      BY <1>4, <1>f, <2>3, <2>5, <2>6, <3>1 DEF TakenFits, Current
    <3>3. QED
      BY <1>4, <1>k, <2>1, <2>3, <2>4, <3>2, TakingOne
  <2>8. CASE kind # "client"
    <3>1. held'[q]["client"] = held[q]["client"] /\ outdated' = outdated
      BY <1>4, <1>i, <2>3, <2>8
    <3>2. TakenFits(q)' /\ Current(q)'
      BY <1>4, <1>f, <1>k, <2>1, <2>3, <2>6, <3>1 DEF TakenFits, Current
    <3>3. QED
      BY <1>4, <1>k, <2>1, <2>3, <2>4, <3>2, TakingOne
  <2>9. QED
    BY <2>7, <2>8
<1>5. CASE GetUserLimiter(q)
  <2>1. request[q].user \in Users /\ request[q].rule \in Limits \cup {NoRule}
    BY <1>5, <1>t, <1>f DEF GetUserLimiter, RequestFits, RequestType
  <2>2. OrDefault(IF request[q].rule = NoRule THEN 0 ELSE request[q].rule) \in Limits
    BY <1>t, <2>1, LimitsAssumption DEF OrDefault, TypeOK
  <2>3. QED
    BY <1>4, <1>5, <1>k, <2>1, <2>2 DEF GetUserLimiter
<1>6. CASE GetClientLimiter(q)
  <2>1. request[q].client \in Clients /\ request[q].rule \in Limits
    BY <1>6, <1>f DEF GetClientLimiter, RequestFits
  <2>2. OrDefault(request[q].rule) \in Limits
    BY <1>t, <2>1 DEF OrDefault, TypeOK
  <2>3. QED
    BY <1>4, <1>6, <1>k, <2>1, <2>2 DEF GetClientLimiter
<1>7. CASE GetServerLimiter(q)
  <2>1. request[q].server \in Servers /\ request[q].rule \in Limits
    BY <1>7, <1>f DEF GetServerLimiter, RequestFits
  <2>2. QED
    BY <1>4, <1>7, <1>k, <2>1 DEF GetServerLimiter
<1>8. CASE GetGlobalLimiter(q)
  <2>1. UNCHANGED <<registry, limitOf, globalLimiter>>
    BY <1>8 DEF GetGlobalLimiter
  <2>2. /\ request' = [request EXCEPT ![q] = [request[q] EXCEPT !.at = "server"]]
        /\ held' = [held EXCEPT ![q] = [held[q] EXCEPT !["global"] = globalLimiter]]
        /\ outdated' = [outdated EXCEPT ![q] = outdated[q] \ {"global"}]
    BY <1>8 DEF GetGlobalLimiter, Hold
  <2>3. /\ request'[q].at = "server" /\ request'[q].client = request[q].client
        /\ held'[q]["global"] = globalLimiter /\ held'[q]["client"] = held[q]["client"]
        /\ "client" \in outdated'[q] <=> "client" \in outdated[q]
    BY <1>t, <1>i, <2>2 DEF RequestType, HeldType
  <2>4. \A p \in Requests \ {q} :
          request'[p] = request[p] /\ held'[p] = held[p] /\ outdated'[p] = outdated[p]
    BY <1>t, <2>2 DEF HeldType
  <2>5. TakenFits(q)' /\ Current(q)'
    BY <1>f, <2>1, <2>3 DEF TakenFits, Current
  <2>6. QED
    BY <2>1, <2>4, <2>5, TakingOne
<1>9. CASE Respond(q)
  <2>1. UNCHANGED <<registry, globalLimiter, outdated>>
    BY <1>9 DEF Respond
  <2>2. /\ held'[q]["client"] = None /\ held'[q]["global"] = None
        /\ \A p \in Requests \ {q} : request'[p] = request[p] /\ held'[p] = held[p]
    BY <1>9, <1>t, <1>i DEF Respond, HeldType
  <2>3. TakenFits(q)' /\ Current(q)'
    BY <2>2 DEF TakenFits, Current
  <2>4. QED
    BY <2>1, <2>2, <2>3, TakingOne
<1>10. QED
  BY <1>1, <1>3, <1>5, <1>6, <1>7, <1>8, <1>9 DEF Request

(* However deletions, updates and switching the global limit off and on    *)
(* fall between a request's steps, what it holds of its client and of the  *)
(* whole is in force until that limiter itself is removed.                 *)
THEOREM OnlyRemovalOutdates == Spec => []StaleOnlyAfterRemoval
<1>1. Init => TakenInv
  <2> SUFFICES ASSUME Init PROVE TakenInv
    OBVIOUS
  <2>1. \A q \in Requests : held[q]["client"] = None /\ held[q]["global"] = None
    BY DEF Init, Kinds
  <2>2. QED
    BY <2>1 DEF TakenInv, TakenFits, StaleOnlyAfterRemoval
<1>2. IInv /\ TakenInv /\ [Next]_vars => TakenInv'
  <2> SUFFICES ASSUME IInv, TakenInv, [Next]_vars PROVE TakenInv'
    OBVIOUS
  <2>1. CASE UNCHANGED vars
    BY <2>1 DEF vars, TakenInv, TakenFits, StaleOnlyAfterRemoval
  <2>2. CASE Restart
    <3>1. \A q \in Requests : held'[q]["client"] = None /\ held'[q]["global"] = None
      BY <2>2 DEF Restart, Kinds
    <3>2. QED
      BY <3>1 DEF TakenInv, TakenFits, StaleOnlyAfterRemoval
  <2>3. QED
    BY <2>1, <2>2, AdminTakes, RequestTakes DEF Next
<1>3. TakenInv => StaleOnlyAfterRemoval
  BY DEF TakenInv
<1>4. QED
  BY <1>1, <1>2, <1>3, RulesInvariance, PTL DEF Spec

------------------------------------------------------------------------------
(* The rows and the limiters made of them.                                 *)

(* No two keys share a limiter, nor does a key with the global limit.      *)
Distinct ==
  \A k \in Keys : registry[k] # None =>
    /\ registry[k] # globalLimiter
    /\ \A j \in Keys : registry[j] = registry[k] => j = k

(* After a write of k's row that fell into no other handler's work, the    *)
(* handler that wrote it is the only one at k, and about to bring the      *)
(* limiter to what the row says.                                           *)
Announced(k) ==
  ~raced[k] => \A a \in Admins : InWindow(a, k) =>
    /\ admin[a].at = "update" => admin[a].limit = table[k]
    /\ admin[a].at = "remove" => table[k] = NoRule
    /\ \A b \in Admins : InWindow(b, k) => b = a

(* Request q has read the row of k and is about to make a limiter of it.   *)
Waits(q, k) ==
  \/ request[q].at = "clientLimiter" /\ request[q].client = k
  \/ request[q].at = "serverLimiter" /\ request[q].server = k

Quiet(k) == Settled(k) /\ ~raced[k] /\ table[k] # NoRule

(* Then k has the limiter of its row; or none, which an incomplete load    *)
(* left out, and whoever is about to make one has read the row as it is.   *)
Made(k) ==
  Quiet(k) =>
    /\ registry[k] # None /\ (loaded \/ table[k] # 0) => limitOf[registry[k]] = table[k]
    /\ registry[k] = None =>
         ~loaded /\ \A q \in Requests : Waits(q, k) => request[q].rule = table[k]

AgreementInv ==
  Distinct /\ \A k \in Clients \cup Servers : Announced(k) /\ Made(k)

(* A step elsewhere: it leaves k's row and limiter as they are, no handler *)
(* comes to k or leaves it, and who comes to wait for k has read its row.  *)
LEMMA Elsewhere ==
  ASSUME NEW k, Announced(k), Made(k),
         UNCHANGED loaded,
         table'[k] = table[k], raced'[k] = raced[k], registry'[k] = registry[k],
         registry[k] # None => limitOf'[registry[k]] = limitOf[registry[k]],
         \A b \in Admins :
           admin'[b] = admin[b] \/ (~InWindow(b, k) /\ ~InWindow(b, k)'),
         \A q \in Requests : Waits(q, k)' =>
           \/ request'[q].rule = table[k]
           \/ Waits(q, k) /\ request'[q].rule = request[q].rule
  PROVE  Announced(k)' /\ Made(k)'
<1>1. \A b \in Admins :
        /\ InWindow(b, k)' <=> InWindow(b, k)
        /\ InWindow(b, k) => admin'[b] = admin[b]
  BY DEF InWindow
<1>2. Announced(k)'
  BY <1>1 DEF Announced
<1>3. Quiet(k)' => Quiet(k)
  BY <1>1 DEF Quiet, Settled
<1>4. Made(k)'
  BY <1>3 DEF Made
<1>5. QED
  BY <1>2, <1>4

(* Getting or updating a limiter touches no other one, and afterwards the  *)
(* key has the limiter of this limit, or the one it had if that is kept.   *)
LEMMA OnlyThisLimiter ==
  ASSUME TypeOK, Distinct, NEW k \in Keys, NEW limit \in Limits,
         GetLimiter(k, limit) \/ UpdateLimiter(k, limit),
         UNCHANGED globalLimiter
  PROVE  /\ Distinct'
         /\ \A j \in Keys \ {k} :
              /\ registry'[j] = registry[j]
              /\ registry[j] # None => limitOf'[registry[j]] = limitOf[registry[j]]
         /\ registry'[k] # None
         /\ \/ limitOf'[registry'[k]] = limit
            \/ /\ GetLimiter(k, limit) /\ registry[k] # None
               /\ UNCHANGED <<registry, limitOf>>
<1>1. /\ limitOf \in Seq(Limits) /\ Len(limitOf) \in Nat
      /\ registry \in [Keys -> (1 .. Len(limitOf)) \cup {None}]
      /\ globalLimiter \in (1 .. Len(limitOf)) \cup {None}
  BY DEF TypeOK, Objects
<1>2. CASE GetLimiter(k, limit) /\ registry[k] # None
  BY <1>1, <1>2 DEF GetLimiter, Distinct
<1>3. CASE /\ registry[k] # None /\ registry' = registry
           /\ limitOf' = [limitOf EXCEPT ![registry[k]] = limit]
  <2>1. Distinct'
    BY <1>3 DEF Distinct
  <2>2. registry[k] \in 1 .. Len(limitOf)
    BY <1>1, <1>3
  <2>3. limitOf'[registry[k]] = limit
    BY <1>1, <1>3, <2>2
  <2>4. \A j \in Keys \ {k} :
          registry[j] # None => limitOf'[registry[j]] = limitOf[registry[j]]
    <3> SUFFICES ASSUME NEW j \in Keys \ {k}, registry[j] # None
                 PROVE  limitOf'[registry[j]] = limitOf[registry[j]]
      OBVIOUS
    <3>1. registry[j] # registry[k] /\ registry[j] \in 1 .. Len(limitOf)
      BY <1>1, <1>3 DEF Distinct
    <3>2. QED
      BY <1>1, <1>3, <2>2, <3>1
  <2>5. QED
    BY <1>3, <2>1, <2>3, <2>4
<1>4. CASE /\ registry[k] = None
           /\ registry' = [registry EXCEPT ![k] = NewObject]
           /\ limitOf' = Append(limitOf, limit)
  <2>1. /\ registry'[k] = Len(limitOf) + 1
        /\ \A j \in Keys \ {k} : registry'[j] = registry[j]
    BY <1>1, <1>4 DEF NewObject
  <2>2. /\ limitOf'[Len(limitOf) + 1] = limit
        /\ \A i \in 1 .. Len(limitOf) : limitOf'[i] = limitOf[i]
    BY <1>1, <1>4
  <2>3. Distinct'
    <3> SUFFICES ASSUME NEW i \in Keys, registry'[i] # None
                 PROVE  /\ registry'[i] # globalLimiter
                        /\ \A j \in Keys : registry'[j] = registry'[i] => j = i
      BY DEF Distinct
    <3>1. CASE i = k
      BY <1>1, <2>1, <3>1 DEF None
    <3>2. CASE i # k
      BY <1>1, <2>1, <3>2 DEF Distinct, None
    <3>3. QED
      BY <3>1, <3>2
  <2>4. QED
    BY <1>1, <2>1, <2>2, <2>3 DEF None
<1>5. QED
  BY <1>2, <1>3, <1>4 DEF GetLimiter, UpdateLimiter

(* A step of a handler away from rows and limiters. *)
LEMMA OnlyHandling ==
  ASSUME AgreementInv, NEW a \in Admins,
         UNCHANGED <<table, raced, registry, limitOf, globalLimiter, request, loaded>>,
         \A b \in Admins \ {a} : admin'[b] = admin[b],
         admin[a].at \notin {"update", "remove"},
         admin'[a].at \notin {"update", "remove"}
  PROVE  AgreementInv'
<1>1. Distinct'
  BY DEF AgreementInv, Distinct
<1>2. ASSUME NEW k \in Clients \cup Servers
      PROVE  Announced(k)' /\ Made(k)'
  <2>1. Announced(k) /\ Made(k)
    BY DEF AgreementInv
  <2>2. \A b \in Admins :
          admin'[b] = admin[b] \/ (~InWindow(b, k) /\ ~InWindow(b, k)')
    BY DEF InWindow
  <2>3. \A q \in Requests : Waits(q, k)' =>
          Waits(q, k) /\ request'[q].rule = request[q].rule
    BY DEF Waits
  <2>4. QED
    BY <2>1, <2>2, <2>3, Elsewhere
<1>3. QED
  BY <1>1, <1>2 DEF AgreementInv

(* Writing a row announces the limiter, unless another handler is there.   *)
LEMMA Writing ==
  ASSUME IInv, AgreementInv, NEW a \in Admins, NEW j \in Keys,
         NEW limit \in Limits \cup {NoRule}, WriteRow(a, j, limit),
         UNCHANGED <<registry, limitOf, globalLimiter, request, loaded>>,
         \A b \in Admins \ {a} : admin'[b] = admin[b],
         admin[a].at \notin {"update", "remove"},
         \/ /\ admin'[a].at = "update" /\ admin'[a].key = j
            /\ admin'[a].limit = limit
         \/ admin'[a].at = "remove" /\ admin'[a].key = j /\ limit = NoRule
         \/ UNCHANGED admin /\ limit = NoRule
  PROVE  AgreementInv'
<1>t. table \in [Keys -> Limits \cup {NoRule}] /\ raced \in [Keys -> BOOLEAN]
  BY DEF IInv, TypeOK
<1>1. Distinct'
  BY DEF AgreementInv, Distinct
<1>2. table'[j] = limit /\ raced'[j] = \E b \in Admins \ {a} : InWindow(b, j)
  BY <1>t DEF WriteRow
<1>3. \A b \in Admins \ {a} : InWindow(b, j)' <=> InWindow(b, j)
  BY DEF InWindow
<1>4. Announced(j)'
  <2> SUFFICES ASSUME ~raced'[j], NEW b \in Admins, InWindow(b, j)'
               PROVE  /\ admin'[b].at = "update" => admin'[b].limit = table'[j]
                      /\ admin'[b].at = "remove" => table'[j] = NoRule
                      /\ \A c \in Admins : InWindow(c, j)' => c = b
    BY DEF Announced
  <2>1. \A c \in Admins : InWindow(c, j)' => c = a
    BY <1>2, <1>3
  <2>2. InWindow(a, j)' /\ b = a
    BY <2>1
  <2>3. QED
    BY <1>2, <2>1, <2>2 DEF InWindow
<1>5. Made(j)'
  <2>1. table'[j] = NoRule \/ InWindow(a, j)'
    BY <1>2 DEF InWindow
  <2>2. QED
    BY <2>1 DEF Made, Quiet, Settled
<1>6. ASSUME NEW k \in Clients \cup Servers, k # j
      PROVE  Announced(k)' /\ Made(k)'
  <2>1. Announced(k) /\ Made(k)
    BY DEF AgreementInv
  <2>2. table'[k] = table[k] /\ raced'[k] = raced[k]
    BY <1>6, <1>t DEF WriteRow, Keys
  <2>3. \A b \in Admins :
          admin'[b] = admin[b] \/ (~InWindow(b, k) /\ ~InWindow(b, k)')
    BY <1>6 DEF InWindow
  <2>4. \A q \in Requests : Waits(q, k)' =>
          Waits(q, k) /\ request'[q].rule = request[q].rule
    BY DEF Waits
  <2>5. QED
    BY <2>1, <2>2, <2>3, <2>4, Elsewhere
<1>7. QED
  BY <1>1, <1>4, <1>5, <1>6 DEF AgreementInv

(* A handler that leaves k's window leaves the others where they are. *)
LEMMA Leaving ==
  ASSUME NEW a \in Admins, NEW k, Announced(k), InWindow(a, k), ~InWindow(a, k)',
         table'[k] = table[k], raced'[k] = raced[k],
         \A b \in Admins \ {a} : admin'[b] = admin[b]
  PROVE  /\ Announced(k)'
         /\ Quiet(k)' =>
              /\ admin[a].at = "update" /\ admin[a].limit = table[k]
              /\ ~raced[k]
<1>1. \A b \in Admins : InWindow(b, k)' => InWindow(b, k) /\ admin'[b] = admin[b]
  BY DEF InWindow
<1>2. Announced(k)'
  BY <1>1 DEF Announced
<1>3. Quiet(k)' => ~raced[k] /\ table[k] # NoRule
  BY DEF Quiet
<1>4. admin[a].at \in {"update", "remove"}
  BY DEF InWindow
<1>5. QED
  BY <1>2, <1>3, <1>4 DEF Announced

(* The steps of administrators: what a handler announced, its next step    *)
(* does, and no step touches the limiter of another key.                   *)
LEMMA AdminAgrees ==
  ASSUME IInv, AgreementInv, NEW a \in Admins, Admin(a)
  PROVE  AgreementInv'
<1> USE DEF tables, memory, requests, counters
<1>t. /\ TypeOK /\ admin \in [Admins -> AdminType] /\ admin[a] \in AdminType
      /\ registry \in [Keys -> Objects \cup {None}]
  BY DEF IInv, TypeOK, AdminType
<1>f. AdminFits(a)
  BY DEF IInv, KeysFit
<1>k. /\ Users \subseteq Keys /\ Clients \subseteq Keys /\ Servers \subseteq Keys
      /\ Keys \subseteq OrNoKey(Keys) /\ NoKey \in OrNoKey(Keys) /\ 0 \in Limits
  BY LimitsAssumption DEF Keys, OrNoKey
<1>1. ASSUME NEW k \in Keys, NEW limit \in Limits, SetRule(a, k, limit),
             admin[a].at \notin {"update", "remove"},
             UNCHANGED <<registry, limitOf, globalLimiter, request, loaded>>
      PROVE  AgreementInv'
  <2>1. /\ WriteRow(a, k, limit) /\ limit \in Limits \cup {NoRule}
        /\ admin' = [admin EXCEPT ![a] = [at |-> "update", key |-> k, limit |-> limit]]
    BY <1>1 DEF SetRule, Busy
  <2>2. /\ admin'[a].at = "update" /\ admin'[a].key = k /\ admin'[a].limit = limit
        /\ \A b \in Admins \ {a} : admin'[b] = admin[b]
    BY <1>t, <2>1
  <2>3. QED
    BY <1>1, <2>1, <2>2, Writing
<1>2. CASE UpdateUserRule(a) \/ SaveClientRule(a) \/ CreateServer(a)
  <2>1. PICK k \in Keys, limit \in Limits : SetRule(a, k, limit)
    BY <1>2, <1>k DEF UpdateUserRule, SaveClientRule, CreateServer, Saves
  <2>2. /\ admin[a].at \notin {"update", "remove"}
        /\ UNCHANGED <<registry, limitOf, globalLimiter, request, loaded>>
    BY <1>2 DEF UpdateUserRule, SaveClientRule, CreateServer, Saves, Begins
  <2>3. QED
    BY <1>1, <2>1, <2>2
<1>3. CASE WriteDefaults(a)
  <2>1. admin[a].key \in Keys /\ admin[a].limit \in Limits
    BY <1>3, <1>t, <1>f, <1>k DEF WriteDefaults, AdminFits, AdminType
  <2>2. /\ SetRule(a, admin[a].key, admin[a].limit)
        /\ admin[a].at \notin {"update", "remove"}
        /\ UNCHANGED <<registry, limitOf, globalLimiter, request, loaded>>
    BY <1>3 DEF WriteDefaults
  <2>3. QED
    BY <1>1, <2>1, <2>2
<1>4. ASSUME NEW at, NEW key, NEW limit, at \notin {"update", "remove"},
             Busy(a, at, key, limit), admin[a].at \notin {"update", "remove"},
             UNCHANGED <<table, raced, registry, limitOf, globalLimiter, request, loaded>>
      PROVE  AgreementInv'
  <2>1. admin'[a].at = at /\ \A b \in Admins \ {a} : admin'[b] = admin[b]
    BY <1>4, <1>t DEF Busy
  <2>2. QED
    BY <1>4, <2>1, OnlyHandling
<1>5. CASE ResetUser(a) \/ CheckUser(a) \/ ReadDefaults(a) \/ UpdateDefaults(a)
  <2>1. PICK at \in {"reset", "sync", "writeReset", "writeSync", "global"} :
          \E key, limit : Busy(a, at, key, limit)
    BY <1>5 DEF ResetUser, CheckUser, ReadDefaults, UpdateDefaults
  <2>2. /\ admin[a].at \notin {"update", "remove"}
        /\ UNCHANGED <<table, raced, registry, limitOf, globalLimiter, request, loaded>>
    BY <1>5 DEF ResetUser, CheckUser, ReadDefaults, UpdateDefaults, Begins
  <2>3. QED
    BY <1>4, <2>1, <2>2
<1>6. ASSUME Idle(a)
      PROVE  /\ admin'[a].at = "idle"
             /\ \A b \in Admins \ {a} : admin'[b] = admin[b]
             /\ \A k : ~InWindow(a, k)'
  <2>1. admin'[a] = IdleAdmin /\ \A b \in Admins \ {a} : admin'[b] = admin[b]
    BY <1>6, <1>t DEF Idle
  <2>2. QED
    BY <2>1 DEF IdleAdmin, InWindow
<1>7. CASE WriteFails(a)
  <2>1. /\ Idle(a) /\ admin[a].at \notin {"update", "remove"}
        /\ UNCHANGED <<table, raced, registry, limitOf, globalLimiter, request, loaded>>
    BY <1>7 DEF WriteFails
  <2>2. QED
    BY <1>6, <2>1, OnlyHandling
<1>8. CASE DeleteClientRow(a)
  <2>1. PICK c \in Clients : WriteRow(a, c, NoRule) /\ Busy(a, "remove", c, 0)
    BY <1>8 DEF DeleteClientRow
  <2>2. /\ admin'[a].at = "remove" /\ admin'[a].key = c
        /\ \A b \in Admins \ {a} : admin'[b] = admin[b]
    BY <1>t, <2>1 DEF Busy
  <2>3. /\ c \in Keys /\ admin[a].at \notin {"update", "remove"}
        /\ UNCHANGED <<registry, limitOf, globalLimiter, request, loaded>>
    BY <1>8, <1>k DEF DeleteClientRow, Begins
  <2>4. QED
    BY <2>1, <2>2, <2>3, Writing
<1>9. CASE DeleteServer(a)
  <2>1. PICK s \in Servers : WriteRow(a, s, NoRule)
    BY <1>9 DEF DeleteServer
  <2>2. /\ s \in Keys /\ admin[a].at \notin {"update", "remove"} /\ UNCHANGED admin
        /\ UNCHANGED <<registry, limitOf, globalLimiter, request, loaded>>
    BY <1>9, <1>k DEF DeleteServer, Begins
  <2>3. QED
    BY <2>1, <2>2, Writing
<1>10. CASE UpdateAfterWrite(a)
  <2> DEFINE j == admin[a].key
             limit == admin[a].limit
  <2>1. j \in Keys /\ limit \in Limits
    BY <1>10, <1>t, <1>f DEF UpdateAfterWrite, AdminFits, AdminType
  <2>2. /\ Distinct'
        /\ \A k \in Keys \ {j} :
             /\ registry'[k] = registry[k]
             /\ registry[k] # None => limitOf'[registry[k]] = limitOf[registry[k]]
        /\ registry'[j] # None
        /\ \/ limitOf'[registry'[j]] = limit
           \/ GetLimiter(j, limit) /\ registry[j] # None /\ UNCHANGED <<registry, limitOf>>
    BY <1>10, <1>t, <2>1, OnlyThisLimiter DEF UpdateAfterWrite, AgreementInv
  <2>3. limitOf'[registry'[j]] = limit
    <3>1. registry[j] # None => limitOf' = [limitOf EXCEPT ![registry[j]] = limit]
      BY <1>10 DEF UpdateAfterWrite, UpdateLimiter
    <3>2. registry[j] # None => registry[j] \in 1 .. Len(limitOf)
      BY <1>t, <2>1 DEF Objects
    <3>3. limitOf \in Seq(Limits)
      BY <1>t DEF TypeOK
    <3>4. QED
      BY <2>2, <3>1, <3>2, <3>3
  <2>4. /\ UNCHANGED <<table, raced, request, loaded>>
        /\ admin[a].at = "update" /\ Idle(a)
    BY <1>10 DEF UpdateAfterWrite
  <2>5. ASSUME NEW k \in Clients \cup Servers
        PROVE  Announced(k)' /\ Made(k)'
    <3>1. Announced(k) /\ Made(k) /\ k \in Keys
      BY <1>k DEF AgreementInv
    <3>2. CASE k = j
      <4>1. InWindow(a, k)
        BY <2>4, <3>2 DEF InWindow
      <4>2. Announced(k)' /\ (Quiet(k)' => admin[a].limit = table[k])
        BY <1>6, <2>4, <3>1, <4>1, Leaving
      <4>3. QED
        BY <2>2, <2>3, <2>4, <3>2, <4>2 DEF Made
    <3>3. CASE k # j
      <4>1. \A b \in Admins :
              admin'[b] = admin[b] \/ (~InWindow(b, k) /\ ~InWindow(b, k)')
        BY <1>6, <2>4, <3>3 DEF InWindow
      <4>2. \A q \in Requests : Waits(q, k)' =>
              Waits(q, k) /\ request'[q].rule = request[q].rule
        BY <2>4 DEF Waits
      <4>3. /\ registry'[k] = registry[k]
            /\ registry[k] # None => limitOf'[registry[k]] = limitOf[registry[k]]
        BY <2>2, <3>1, <3>3
      <4>4. QED
        BY <2>4, <3>1, <4>1, <4>2, <4>3, Elsewhere
    <3>4. QED
      BY <3>2, <3>3
  <2>6. QED
    BY <2>2, <2>5 DEF AgreementInv
<1>11. CASE RemoveLimiter(a)
  <2> DEFINE j == admin[a].key
  <2>1. /\ UNCHANGED <<table, raced, request, loaded, limitOf, globalLimiter>>
        /\ admin[a].at = "remove" /\ Idle(a)
        /\ j \in Clients /\ j \in Keys
        /\ registry' = [registry EXCEPT ![j] = None]
    BY <1>11, <1>f, <1>k DEF RemoveLimiter, AdminFits
  <2>2. registry'[j] = None /\ \A k \in Keys \ {j} : registry'[k] = registry[k]
    BY <1>t, <2>1
  <2>3. Distinct'
    BY <2>1, <2>2 DEF AgreementInv, Distinct
  <2>4. ASSUME NEW k \in Clients \cup Servers
        PROVE  Announced(k)' /\ Made(k)'
    <3>1. Announced(k) /\ Made(k) /\ k \in Keys
      BY <1>k DEF AgreementInv
    <3>2. CASE k = j
      <4>1. InWindow(a, k)
        BY <2>1, <3>2 DEF InWindow
      <4>2. Announced(k)' /\ ~Quiet(k)'
        BY <1>6, <2>1, <3>1, <4>1, Leaving
      <4>3. QED
        BY <4>2 DEF Made
    <3>3. CASE k # j
      <4>1. \A b \in Admins :
              admin'[b] = admin[b] \/ (~InWindow(b, k) /\ ~InWindow(b, k)')
        BY <1>6, <2>1, <3>3 DEF InWindow
      <4>2. \A q \in Requests : Waits(q, k)' =>
              Waits(q, k) /\ request'[q].rule = request[q].rule
        BY <2>1 DEF Waits
      <4>3. QED
        BY <2>1, <2>2, <3>1, <3>3, <4>1, <4>2, Elsewhere
    <3>4. QED
      BY <3>2, <3>3
  <2>5. QED
    BY <2>3, <2>4 DEF AgreementInv
<1>12. CASE UpdateGlobalLimit(a)
  <2>1. /\ UNCHANGED <<table, raced, request, loaded, registry>>
        /\ admin[a].at = "global" /\ Idle(a)
    BY <1>12 DEF UpdateGlobalLimit
  <2>2. /\ limitOf \in Seq(Limits) /\ Len(limitOf) \in Nat /\ admin[a].limit \in Limits
        /\ registry \in [Keys -> (1 .. Len(limitOf)) \cup {None}]
        /\ globalLimiter \in (1 .. Len(limitOf)) \cup {None}
    BY <1>t DEF TypeOK, Objects, AdminType
  <2>3. \A k \in Keys : registry[k] # None =>
          globalLimiter' # registry[k] /\ limitOf'[registry[k]] = limitOf[registry[k]]
    <3> SUFFICES ASSUME NEW k \in Keys, registry[k] # None
                 PROVE  /\ globalLimiter' # registry[k]
                        /\ limitOf'[registry[k]] = limitOf[registry[k]]
      OBVIOUS
    <3>1. registry[k] \in 1 .. Len(limitOf) /\ registry[k] # globalLimiter
      BY <2>2 DEF AgreementInv, Distinct
    <3>2. CASE globalLimiter' = None /\ limitOf' = limitOf
      BY <3>1, <3>2
    <3>3. CASE globalLimiter' = NewObject /\ limitOf' = Append(limitOf, admin[a].limit)
      BY <2>2, <3>1, <3>3 DEF NewObject
    <3>4. CASE /\ globalLimiter # None /\ globalLimiter' = globalLimiter
               /\ limitOf' = [limitOf EXCEPT ![globalLimiter] = admin[a].limit]
      BY <2>2, <3>1, <3>4
    <3>5. QED
      BY <1>12, <3>2, <3>3, <3>4 DEF UpdateGlobalLimit
  <2>4. Distinct'
    BY <2>1, <2>3 DEF AgreementInv, Distinct
  <2>5. ASSUME NEW k \in Clients \cup Servers
        PROVE  Announced(k)' /\ Made(k)'
    <3>1. Announced(k) /\ Made(k) /\ k \in Keys
      BY <1>k DEF AgreementInv
    <3>2. \A b \in Admins :
            admin'[b] = admin[b] \/ (~InWindow(b, k) /\ ~InWindow(b, k)')
      BY <1>6, <2>1 DEF InWindow
    <3>3. \A q \in Requests : Waits(q, k)' =>
            Waits(q, k) /\ request'[q].rule = request[q].rule
      BY <2>1 DEF Waits
    <3>4. QED
      BY <2>1, <2>3, <3>1, <3>2, <3>3, Elsewhere
  <2>6. QED
    BY <2>4, <2>5 DEF AgreementInv
<1>13. QED
  BY <1>2, <1>3, <1>5, <1>7, <1>8, <1>9, <1>10, <1>11, <1>12 DEF Admin

(* A step of one request that leaves rows, limiters and handlers alone and *)
(* comes to wait for a limiter only with the rule it has just read.        *)
LEMMA OnlyRequesting ==
  ASSUME AgreementInv, NEW q \in Requests,
         UNCHANGED <<table, raced, registry, limitOf, globalLimiter, admin, loaded>>,
         \A p \in Requests \ {q} : request'[p] = request[p],
         \A k \in Clients \cup Servers : Waits(q, k)' => request'[q].rule = table[k]
  PROVE  AgreementInv'
<1>1. Distinct'
  BY DEF AgreementInv, Distinct
<1>2. ASSUME NEW k \in Clients \cup Servers
      PROVE  Announced(k)' /\ Made(k)'
  <2>1. Announced(k) /\ Made(k)
    BY DEF AgreementInv
  <2>2. \A p \in Requests : Waits(p, k)' =>
          \/ request'[p].rule = table[k]
          \/ Waits(p, k) /\ request'[p].rule = request[p].rule
    BY DEF Waits
  <2>3. QED
    BY <2>1, <2>2, Elsewhere
<1>3. QED
  BY <1>1, <1>2 DEF AgreementInv

(* A request that gets a limiter makes one only if there is none, and then *)
(* of the row as it is, or of no key of a client or server.                *)
LEMMA GettingAgrees ==
  ASSUME IInv, AgreementInv, NEW q \in Requests, NEW j \in Keys, NEW limit \in Limits,
         GetLimiter(j, limit), UNCHANGED <<tables, globalLimiter, admin, loaded>>,
         j \in Users \/ Waits(q, j),
         Waits(q, j) => limit = request[q].rule \/ request[q].rule = 0,
         \A p \in Requests \ {q} : request'[p] = request[p],
         \A k \in Clients \cup Servers : ~Waits(q, k)'
  PROVE  AgreementInv'
<1>t. TypeOK
  BY DEF IInv
<1>k. Clients \subseteq Keys /\ Servers \subseteq Keys
  BY DEF Keys
<1>u. UNCHANGED <<table, raced>>
  BY DEF tables
<1>1. /\ Distinct'
      /\ \A k \in Keys \ {j} :
           /\ registry'[k] = registry[k]
           /\ registry[k] # None => limitOf'[registry[k]] = limitOf[registry[k]]
      /\ registry'[j] # None
      /\ \/ limitOf'[registry'[j]] = limit
         \/ registry[j] # None /\ UNCHANGED <<registry, limitOf>>
  BY <1>t, OnlyThisLimiter DEF AgreementInv
<1>2. ASSUME NEW k \in Clients \cup Servers
      PROVE  Announced(k)' /\ Made(k)'
  <2>1. Announced(k) /\ Made(k) /\ k \in Keys
    BY <1>k DEF AgreementInv
  <2>2. \A p \in Requests : Waits(p, k)' =>
          Waits(p, k) /\ request'[p].rule = request[p].rule
    BY DEF Waits
  <2>3. CASE k # j \/ UNCHANGED <<registry, limitOf>>
    <3>1. /\ registry'[k] = registry[k]
          /\ registry[k] # None => limitOf'[registry[k]] = limitOf[registry[k]]
      BY <1>1, <2>1, <2>3
    <3>2. QED
      BY <1>u, <2>1, <2>2, <3>1, Elsewhere
  <2>4. CASE k = j /\ registry[j] = None
    <3>1. Waits(q, j)
      BY <2>4, KeysAssumption
    <3>2. Announced(k)'
      BY <1>u, <2>1 DEF Announced, InWindow
    <3>3. Quiet(k)' => Quiet(k)
      BY <1>u DEF Quiet, Settled, InWindow
    <3>4. Quiet(k) => ~loaded /\ request[q].rule = table[k]
      BY <2>1, <2>4, <3>1 DEF Made
    <3>5. limitOf'[registry'[k]] = limit
      BY <1>1, <2>4
    <3>6. Made(k)'
      BY <1>1, <1>u, <2>4, <3>1, <3>3, <3>4, <3>5 DEF Made
    <3>7. QED
      BY <3>2, <3>6
  <2>5. QED
    BY <1>1, <2>3, <2>4 DEF GetLimiter
<1>3. QED
  BY <1>1, <1>2 DEF AgreementInv

LEMMA RequestAgrees ==
  ASSUME IInv, AgreementInv, NEW q \in Requests, Request(q)
  PROVE  AgreementInv'
<1> USE DEF tables, memory, requests, counters
<1>t. TypeOK /\ request \in [Requests -> RequestType] /\ request[q] \in RequestType
  BY DEF IInv, TypeOK, RequestType
<1>f. RequestFits(q)
  BY DEF IInv, KeysFit
<1>k. /\ Users \subseteq Keys /\ Clients \subseteq Keys /\ Servers \subseteq Keys
      /\ \A k \in Clients \cup Servers : k \notin Users
  BY KeysAssumption DEF Keys
<1>1. CASE Arrive(q) \/ GetGlobalLimiter(q) \/ Respond(q)
  <2>1. UNCHANGED <<table, raced, registry, limitOf, globalLimiter, admin, loaded>>
    BY <1>1 DEF Arrive, GetGlobalLimiter, Respond
  <2>2. /\ request'[q].at \in {"user", "server", "done"}
        /\ \A p \in Requests \ {q} : request'[p] = request[p]
    <3>1. CASE Arrive(q)
      BY <1>t, <3>1 DEF Arrive, Fresh
    <3>2. CASE GetGlobalLimiter(q)
      BY <1>t, <3>2 DEF GetGlobalLimiter, Hold, RequestType
    <3>3. CASE Respond(q)
      BY <1>t, <3>3 DEF Respond, Fresh
    <3>4. QED
      BY <1>1, <3>1, <3>2, <3>3
  <2>3. QED
    BY <2>1, <2>2, OnlyRequesting DEF Waits
<1>2. ASSUME NEW k, NEW getting, NEW next, LookUp(q, k, getting, next),
             next \notin {"clientLimiter", "serverLimiter"},
             getting = "clientLimiter" => k = request[q].client,
             getting = "serverLimiter" => k = request[q].server
      PROVE  AgreementInv'
  <2>1. UNCHANGED <<table, raced, registry, limitOf, globalLimiter, admin, loaded>>
    BY <1>2 DEF LookUp
  <2>2. PICK rule : Look(q, k, rule, getting, next) /\ (rule = table[k] \/ rule = NoRule)
    BY <1>2 DEF LookUp, ReadRow
  <2> DEFINE at == IF k = NoKey \/ (rule = NoRule /\ k \notin Users) THEN next ELSE getting
  <2>3. request' = [request EXCEPT ![q] = [request[q] EXCEPT !.at = at, !.rule = rule]]
    BY <1>t, <2>2 DEF Look
  <2>4. /\ request'[q].at = at /\ request'[q].rule = rule
        /\ request'[q].client = request[q].client
        /\ request'[q].server = request[q].server
        /\ \A p \in Requests \ {q} : request'[p] = request[p]
    <3> HIDE DEF at
    <3>1. QED
      BY <1>t, <2>3 DEF RequestType
  <2>5. ASSUME NEW j \in Clients \cup Servers, Waits(q, j)'
        PROVE  request'[q].rule = table[j]
    <3>1. at = getting /\ k = j
      BY <1>2, <2>4, <2>5 DEF Waits
    <3>2. rule # NoRule \/ k \in Users \/ getting = next
      BY <3>1
    <3>3. QED
      BY <1>2, <1>k, <2>2, <2>4, <2>5, <3>1, <3>2 DEF Waits
  <2>6. QED
    BY <2>1, <2>4, <2>5, OnlyRequesting
<1>3. CASE GetUserRule(q) \/ MatchClientRule(q) \/ GetServerRule(q)
  BY <1>2, <1>3 DEF GetUserRule, MatchClientRule, GetServerRule
<1>4. ASSUME NEW kind \in Kinds, NEW object, NEW next \in {"client", "global", "forwarding"},
             Hold(q, kind, object, next)
      PROVE  /\ \A p \in Requests \ {q} : request'[p] = request[p]
             /\ \A k \in Clients \cup Servers : ~Waits(q, k)'
  <2>1. request' = [request EXCEPT ![q] = [request[q] EXCEPT !.at = next]]
    BY <1>4 DEF Hold
  <2>2. request'[q].at = next /\ \A p \in Requests \ {q} : request'[p] = request[p]
    BY <1>t, <2>1 DEF RequestType
  <2>3. QED
    BY <2>2 DEF Waits
<1>5. CASE GetUserLimiter(q)
  <2>1. request[q].user \in Users /\ request[q].rule \in Limits \cup {NoRule}
    BY <1>5, <1>t, <1>f DEF GetUserLimiter, RequestFits, RequestType
  <2>2. PICK limit \in Limits : GetLimiter(request[q].user, limit)
    <3>1. OrDefault(IF request[q].rule = NoRule THEN 0 ELSE request[q].rule) \in Limits
      BY <1>t, <2>1, LimitsAssumption DEF OrDefault, TypeOK
    <3>2. QED
      BY <1>5, <3>1 DEF GetUserLimiter
  <2>3. ~Waits(q, request[q].user)
    BY <1>5 DEF GetUserLimiter, Waits
  <2>4. /\ UNCHANGED <<tables, globalLimiter, admin, loaded>>
        /\ \A p \in Requests \ {q} : request'[p] = request[p]
        /\ \A k \in Clients \cup Servers : ~Waits(q, k)'
    BY <1>4, <1>5 DEF GetUserLimiter, Kinds
  <2>5. QED
    BY <1>k, <2>1, <2>2, <2>3, <2>4, GettingAgrees
<1>6. CASE GetClientLimiter(q)
  <2>1. request[q].client \in Clients /\ request[q].rule \in Limits
    BY <1>6, <1>f DEF GetClientLimiter, RequestFits
  <2>2. PICK limit \in Limits :
          /\ GetLimiter(request[q].client, limit)
          /\ limit = request[q].rule \/ request[q].rule = 0
    BY <1>6, <1>t, <2>1 DEF GetClientLimiter, OrDefault, TypeOK
  <2>3. Waits(q, request[q].client)
    BY <1>6 DEF GetClientLimiter, Waits
  <2>4. /\ UNCHANGED <<tables, globalLimiter, admin, loaded>>
        /\ \A p \in Requests \ {q} : request'[p] = request[p]
        /\ \A k \in Clients \cup Servers : ~Waits(q, k)'
    BY <1>4, <1>6 DEF GetClientLimiter, Kinds
  <2>5. QED
    BY <1>k, <2>1, <2>2, <2>3, <2>4, GettingAgrees
<1>7. CASE GetServerLimiter(q)
  <2>1. request[q].server \in Servers /\ request[q].rule \in Limits
    BY <1>7, <1>f DEF GetServerLimiter, RequestFits
  <2>2. GetLimiter(request[q].server, request[q].rule) /\ Waits(q, request[q].server)
    BY <1>7 DEF GetServerLimiter, Waits
  <2>3. /\ UNCHANGED <<tables, globalLimiter, admin, loaded>>
        /\ \A p \in Requests \ {q} : request'[p] = request[p]
        /\ \A k \in Clients \cup Servers : ~Waits(q, k)'
    BY <1>4, <1>7 DEF GetServerLimiter, Kinds
  <2>4. QED
    BY <1>k, <2>1, <2>2, <2>3, GettingAgrees
<1>8. QED
  BY <1>1, <1>3, <1>5, <1>6, <1>7 DEF Request

(* LoadRulesFromDB gives every rule it loads a limiter of its own, with    *)
(* the row's limit; a load that succeeds loads them all.                   *)
LEMMA LoadingAgrees ==
  ASSUME IInv, NEW keys \in SUBSET Keys, NEW g \in Limits, Loads(keys, g),
         globalLimiter' = (IF g > 0 THEN 1 ELSE None)
  PROVE  /\ Distinct'
         /\ \A k \in Keys :
              IF k \in keys /\ table[k] # NoRule
                THEN registry'[k] # None /\ limitOf'[registry'[k]] = table[k]
                ELSE registry'[k] = None
<1> DEFINE ruled == {k \in keys : table[k] # NoRule}
           n == Cardinality(ruled)
           first == IF g > 0 THEN 1 ELSE 0
           global == IF g > 0 THEN <<g>> ELSE <<>>
<1>t. table \in [Keys -> Limits \cup {NoRule}]
  BY DEF IInv, TypeOK
<1>1. PICK order \in [1 .. n -> ruled] :
        /\ \A k \in ruled : \E i \in DOMAIN order : order[i] = k
        /\ registry' = [k \in Keys |->
             IF k \in ruled
               THEN first + (CHOOSE i \in DOMAIN order : order[i] = k)
               ELSE None]
        /\ limitOf' = global \o [i \in DOMAIN order |-> table[order[i]]]
  BY DEF Loads
<1>2. n \in Nat
  <2>1. IsFiniteSet(ruled)
    BY KeysAssumption, FS_Subset
  <2>2. QED
    BY <2>1, FS_CardinalityType
<1> HIDE DEF n
<1> DEFINE loadedLimits == [i \in 1 .. n |-> table[order[i]]]
           place == [k \in ruled |-> CHOOSE i \in 1 .. n : order[i] = k]
<1>3. \A k \in ruled : place[k] \in 1 .. n /\ order[place[k]] = k
  <2> TAKE k \in ruled
  <2>1. \E i \in 1 .. n : order[i] = k
    BY <1>1
  <2>2. QED
    BY <2>1
<1>4. /\ \A k \in ruled : registry'[k] = first + place[k]
      /\ \A k \in Keys \ ruled : registry'[k] = None
  BY <1>1
<1> HIDE DEF place
<1>5. loadedLimits \in Seq(Limits) /\ Len(loadedLimits) = n
  <2>1. \A i \in 1 .. n : table[order[i]] \in Limits
    BY <1>1, <1>t
  <2>2. QED
    BY <1>2, <2>1
<1>6. global \in Seq(Limits) /\ Len(global) = first /\ first \in {0, 1}
  OBVIOUS
<1>7. limitOf' = global \o loadedLimits
  BY <1>1
<1>8. \A i \in 1 .. n : limitOf'[first + i] = loadedLimits[i]
  <2> HIDE DEF global, loadedLimits, first
  <2>1. \A i \in 1 .. first + n : limitOf'[i] =
          IF i <= first THEN global[i] ELSE loadedLimits[i - first]
    BY <1>5, <1>6, <1>7, ConcatProperties
  <2> TAKE i \in 1 .. n
  <2>2. PICK j \in 1 .. first + n : j = first + i /\ ~(j <= first) /\ j - first = i
    BY <1>2, <1>6
  <2>3. limitOf'[j] = loadedLimits[j - first]
    BY <2>1, <2>2
  <2>4. QED
    BY <2>2, <2>3
<1>9. ASSUME NEW k \in ruled
      PROVE  registry'[k] # None /\ limitOf'[registry'[k]] = table[k]
  <2>1. place[k] \in 1 .. n /\ order[place[k]] = k /\ registry'[k] = first + place[k]
    BY <1>3, <1>4
  <2>2. limitOf'[first + place[k]] = loadedLimits[place[k]]
    BY <1>8, <2>1
  <2>3. loadedLimits[place[k]] = table[k]
    BY <2>1
  <2>4. QED
    <3> HIDE DEF loadedLimits
    <3>1. QED
      BY <1>2, <1>6, <2>1, <2>2, <2>3 DEF None
<1>10. Distinct'
  <2> SUFFICES ASSUME NEW k \in Keys, registry'[k] # None
               PROVE  /\ registry'[k] # globalLimiter'
                      /\ \A j \in Keys : registry'[j] = registry'[k] => j = k
    BY DEF Distinct
  <2>1. k \in ruled /\ place[k] \in 1 .. n /\ registry'[k] = first + place[k]
    BY <1>3, <1>4
  <2>2. registry'[k] # globalLimiter'
    BY <1>2, <2>1 DEF None
  <2>3. ASSUME NEW j \in Keys, registry'[j] = registry'[k]
        PROVE  j = k
    <3>1. j \in ruled /\ place[j] \in 1 .. n /\ registry'[j] = first + place[j]
      BY <1>3, <1>4, <2>3
    <3>2. place[j] = place[k]
      BY <1>2, <1>6, <2>1, <2>3, <3>1
    <3>3. QED
      BY <1>3, <2>1, <3>1, <3>2
  <2>4. QED
    BY <2>2, <2>3
<1>11. QED
  BY <1>4, <1>9, <1>10

LEMMA RestartAgrees == ASSUME IInv, Restart PROVE AgreementInv'
<1>1. PICK g \in Limits :
        globalLimiter' = (IF g > 0 THEN 1 ELSE None) /\ LoadRulesFromDB(g)
  BY DEF Restart
<1>2. PICK keys \in SUBSET Keys : Loads(keys, g) /\ (loaded' => keys = Keys)
  BY <1>1 DEF LoadRulesFromDB, Keys
<1>3. /\ Distinct'
      /\ \A k \in Keys :
           IF k \in keys /\ table[k] # NoRule
             THEN registry'[k] # None /\ limitOf'[registry'[k]] = table[k]
             ELSE registry'[k] = None
  BY <1>1, <1>2, LoadingAgrees
<1>4. UNCHANGED table
  BY DEF Restart
<1>5. \A b \in Admins, k \in Keys : ~InWindow(b, k)'
  BY DEF Restart, IdleAdmin, InWindow
<1>6. \A q \in Requests, k \in Keys : ~Waits(q, k)'
  BY DEF Restart, Fresh, Waits
<1>7. ASSUME NEW k \in Clients \cup Servers
      PROVE  Announced(k)' /\ Made(k)'
  <2>1. k \in Keys
    BY DEF Keys
  <2>2. Announced(k)'
    BY <1>5, <2>1 DEF Announced
  <2>3. CASE registry'[k] = None
    <3>1. table[k] # NoRule => ~loaded'
      BY <1>2, <1>3, <2>1, <2>3
    <3>2. QED
      BY <1>4, <1>6, <2>1, <2>2, <2>3, <3>1 DEF Made, Quiet
  <2>4. CASE registry'[k] # None
    BY <1>3, <1>4, <2>1, <2>2, <2>4 DEF Made
  <2>5. QED
    BY <2>3, <2>4
<1>8. QED
  BY <1>3, <1>7 DEF AgreementInv

(* The row of a client or a server and its limiter agree whenever no       *)
(* handler is between the two, unless the last writes overlapped or a load *)
(* failed over a rule of 0: requests that make limiters of rows they read  *)
(* long ago, and restarts at any point, do not come between them.          *)
THEOREM RowsAndLimitersAgree == Spec => []AgreesUnlessRaced
<1>1. Init => AgreementInv
  <2> SUFFICES ASSUME Init PROVE AgreementInv
    OBVIOUS
  <2>1. \A k \in Keys : registry[k] = None /\ table[k] = NoRule
    BY DEF Init
  <2>2. \A b \in Admins, k \in Keys : ~InWindow(b, k)
    BY DEF Init, IdleAdmin, InWindow
  <2>3. Distinct
    BY <2>1 DEF Distinct
  <2>4. ASSUME NEW k \in Clients \cup Servers
        PROVE  Announced(k) /\ Made(k)
    BY <2>1, <2>2 DEF Announced, Made, Quiet, Keys
  <2>5. QED
    BY <2>3, <2>4 DEF AgreementInv
<1>2. IInv /\ AgreementInv /\ [Next]_vars => AgreementInv'
  <2> SUFFICES ASSUME IInv, AgreementInv, [Next]_vars PROVE AgreementInv'
    OBVIOUS
  <2>1. CASE UNCHANGED vars
    BY <2>1 DEF vars, AgreementInv, Distinct, Announced, Made, Quiet, Settled,
                InWindow, Waits
  <2>2. QED
    BY <2>1, AdminAgrees, RequestAgrees, RestartAgrees DEF Next
<1>3. AgreementInv => AgreesUnlessRaced
  <2> SUFFICES ASSUME AgreementInv, NEW k \in Clients \cup Servers,
                      Settled(k), ~raced[k], loaded \/ table[k] # 0
               PROVE  Agrees(k)
    BY DEF AgreesUnlessRaced
  <2>1. Made(k)
    BY DEF AgreementInv
  <2>2. QED
    BY <2>1 DEF Made, Quiet, Agrees
<1>4. QED
  BY <1>1, <1>2, <1>3, RulesInvariance, PTL DEF Spec

==============================================================================
