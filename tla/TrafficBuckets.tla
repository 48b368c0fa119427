---------------------------- MODULE TrafficBuckets ----------------------------
(***************************************************************************)
(* Where the panel counts a record (internal/stats).  The lists of users   *)
(* and of clients group the rows of traffic_stats in SQL and the records   *)
(* that are still in memory in Go, and put the two together; the figures   *)
(* of one user or one client are queried on their own.  A record starts in *)
(* memory, becomes a row, and is looked at by the cleanup of every later   *)
(* start (SchemaMigration).                                                *)
(*                                                                         *)
(* Counts stand for bytes too.  The time window, the order of the lists,   *)
(* display names and upper case are left out: all that is recent is shown. *)
(* A path is of one of three kinds: public for Go and SQL ("/Web/x"),      *)
(* "nested" for a path that ends in a nested /sessions ("/x/Sessions"),    *)
(* which only the LIKE of the SQL text takes for public, and any other.    *)
(* StatsTracker has the steps of a flush that are one step here.           *)
(***************************************************************************)
EXTENDS SchemaMigration, FiniteSetsExt

CONSTANTS
  Users,       \* ids of users
  Clients,     \* names of clients
  MaxRecords   \* bound: records in memory or stored by this version

VARIABLES
  live,     \* Tracker.pendingRecords and activeTransfers
  counted   \* history: where a stored record was counted before, by row id

bucketVars == <<live, counted>>
allVars == <<vars, bucketVars>>

UnknownUser == "__unknown__"
PublicRequests == "__public__"
UnknownClient == "__unknown_client__"
Paths == {"public", "nested", "item"}
DisplayedUnknown == "name:unknown client"

(* The keys of the lists are nobody's name, neither of a record's user or  *)
(* client nor in the rows of former versions; and a version that wrote the *)
(* kind of its traffic wrote public for requests without a user only.      *)
Says(row, c) == Name(ValueIn(row, c))
RightlyNamed(row) ==
  /\ Says(row, "user_id") \notin {UnknownUser, PublicRequests}
  /\ Says(row, "traffic_kind") = "public" => Says(row, "user_id") = NoName
  /\ \A c \in {"client_id", "client_name", "device_name"} : Says(row, c) # UnknownClient
ASSUME NamesAssumption ==
  /\ Users \cap {NoName, UnknownUser, PublicRequests} = {}
  /\ Clients \cap {NoName, UnknownClient, DisplayedUnknown} = {}
  /\ \A c \in Clients : "client:" \o c # UnknownClient
  /\ \A rs \in FormerRows : \A id \in DOMAIN rs : RightlyNamed(rs[id])

InitBuckets == Init /\ live = <<>> /\ counted = <<>>

------------------------------------------------------------------------------
(* Records in memory. *)

ClassifyTraffic(user, path) ==
  IF user # NoName THEN "user" ELSE IF path = "public" THEN "public" ELSE "unknown"

(* Mutant: the kind of the traffic is not looked at. *)
UserKeyByName(record) == IF record.user = NoName THEN UnknownUser ELSE record.user

(* normalizeUserKey and normalizeClientKey; a client is known by its name. *)
UserKey(record) ==
  IF record.kind = "public" THEN PublicRequests
  ELSE IF record.user = NoName THEN UnknownUser ELSE record.user
ClientKey(record) == IF record.client = NoName THEN UnknownClient ELSE record.client

InMemory(Key(_), key) == Cardinality({i \in DOMAIN live : Key(live[i]) = key})

------------------------------------------------------------------------------
(* Rows. *)

Rows == view.rows
Among(Pred(_)) == Cardinality({id \in DOMAIN Rows : Pred(Rows[id])})

LooksPublic(row) ==
  \/ Name(row["traffic_kind"]) = "public"
  \/ Blank(row["user_id"]) /\ Name(row["request_path"]) \in {"public", "nested"}

RowUserKey(row) ==
  IF LooksPublic(row) THEN PublicRequests
  ELSE IF Blank(row["user_id"]) THEN UnknownUser ELSE Name(row["user_id"])

(* The client_key rows are grouped by: quotes make a difference here. *)
ClientGroup(row) ==
  IF Blank(row["client_id"]) /\ Blank(row["client_name"]) THEN <<"unknown", Null>>
  ELSE IF ~Blank(row["client_name"]) THEN <<"name", row["client_name"]>>
  ELSE <<"id", row["client_id"]>>
GroupOf(group) == {id \in DOMAIN Rows : ClientGroup(Rows[id]) = group}

(* normalizeClientStat: a group goes by its client's name, else by that of *)
(* a device, else by the client's id.                                      *)
ClientOfGroup(group) ==
  LET devices == {Name(Rows[id]["device_name"]) : id \in GroupOf(group)} \ {NoName}
  IN  IF group[1] = "unknown" THEN UnknownClient
      ELSE IF group[1] = "id" /\ devices # {} THEN CHOOSE d \in devices : TRUE
      ELSE Name(group[2])
RowClientKey(row) == ClientOfGroup(ClientGroup(row))

------------------------------------------------------------------------------
(* The lists. *)

Counts(keys, Row(_)) ==
  {[id |-> k, count |-> Cardinality({id \in DOMAIN Rows : Row(Rows[id]) = k})] : k \in keys}
KeysOf(Row(_)) == {Row(Rows[id]) : id \in DOMAIN Rows}

(* addLiveTraffic: a record in memory joins the entry whose key is its own, *)
(* the key being made anew from the entry, or starts an entry.              *)
AddLiveTraffic(stats, Key(_), KeyOfEntry(_)) ==
  LET new == {Key(live[i]) : i \in DOMAIN live} \ {KeyOfEntry(s.id) : s \in stats}
  IN  {[s EXCEPT !.count = @ + InMemory(Key, KeyOfEntry(s.id))] : s \in stats}
      \cup {[id |-> k, count |-> InMemory(Key, k), started |-> "live"] : k \in new}

ItsID(id) == id
GetAllUserStats == AddLiveTraffic(Counts(KeysOf(RowUserKey), RowUserKey), UserKey, ItsID)

(* The entry of the unknown client carries the name it is shown under, and *)
(* an entry with a name is looked up by its name.                          *)
KeyOfClientEntry(id) == IF id = UnknownClient THEN DisplayedUnknown ELSE id

(* Mutant: the groups of the SQL text are listed as they come. *)
TableClientsByGroup ==
  {[id |-> ClientOfGroup(g), count |-> Cardinality(GroupOf(g)), group |-> g] :
     g \in KeysOf(ClientGroup)}

TableClients == Counts(KeysOf(RowClientKey), RowClientKey)
GetAllClientStats == AddLiveTraffic(TableClients, ClientKey, KeyOfClientEntry)

(* Mutant: the query for the unknown user does not look at the kind. *)
StoredForAnyKind(user) ==
  IF user = UnknownUser THEN Among(LAMBDA row : Blank(row["user_id"]))
  ELSE IF user = PublicRequests THEN Among(LooksPublic)
  ELSE Among(LAMBDA row : row["user_id"] = Text(user))

(* One user, and the unknown client, by queries of their own. *)
StoredFor(user) ==
  IF user = UnknownUser
  THEN Among(LAMBDA row : Blank(row["user_id"]) /\ Name(row["traffic_kind"]) # "public")
  ELSE IF user = PublicRequests THEN Among(LooksPublic)
  ELSE Among(LAMBDA row : row["user_id"] = Text(user))
GetUserStats(user) == StoredFor(user) + InMemory(UserKey, user)

GetUnknownClientStats ==
  Among(LAMBDA row : Blank(row["client_id"]) /\ Blank(row["client_name"]))
  + InMemory(ClientKey, UnknownClient)

------------------------------------------------------------------------------
(* Steps. *)

Record(user, client, path) ==
  /\ Serving /\ Cardinality(DOMAIN counted) + Len(live) < MaxRecords
  /\ live' = Append(live, [user |-> user, client |-> client, path |-> path,
                           kind |-> ClassifyTraffic(user, path)])
  /\ UNCHANGED <<vars, counted>>

(* A row holds '' where a record has nothing. *)
RowOf(record) ==
  LET values == [user_id |-> record.user,
                 client_id |-> IF record.client = NoName THEN NoName
                               ELSE "client:" \o record.client,
                 client_name |-> record.client,
                 request_path |-> record.path,
                 traffic_kind |-> record.kind]
  IN  [c \in Columns |-> Text(IF c \in DOMAIN values THEN values[c] ELSE NoName)]

Flush ==
  /\ Serving /\ live # <<>>
  /\ disk' = [disk EXCEPT !.rows = @ \o [i \in DOMAIN live |-> RowOf(live[i])]]
  /\ view' = disk'
  /\ entered' = entered \o [i \in DOMAIN live |-> RowOf(live[i])]
  /\ counted' = [id \in DOMAIN counted \cup (Len(Rows) + 1 .. Len(Rows) + Len(live)) |->
                   IF id \in DOMAIN counted THEN counted[id]
                   ELSE [user |-> UserKey(live[id - Len(Rows)]),
                         client |-> ClientKey(live[id - Len(Rows)])]]
  /\ live' = <<>>
  /\ UNCHANGED <<inTx, running, rest, ends>>

NextBuckets ==
  \/ (Proceed \/ Start) /\ UNCHANGED bucketVars
  \/ ProcessEnds /\ live' = <<>> /\ UNCHANGED counted
  \/ \E u \in Users \cup {NoName}, c \in Clients \cup {NoName}, p \in Paths : Record(u, c, p)
  \/ Flush

SpecBuckets == InitBuckets /\ [][NextBuckets]_allVars /\ Fairness

------------------------------------------------------------------------------
(* Properties. *)

Total(stats) == MapThenSumSet(LAMBDA s : s.count, stats)
Entries(stats, key) == {s \in stats : s.id = key}

(* Each list counts every record exactly once, whether it is stored, in    *)
(* memory, or was stored by a former version; nothing is listed twice, but *)
(* for the unknown client: its records in memory have an entry of their    *)
(* own, since the key made from its entry is that of its display name.     *)
EachRecordOnce ==
  Serving =>
    LET users == GetAllUserStats
        clients == GetAllClientStats
    IN  /\ Total(users) = Len(Rows) + Len(live)
        /\ Total(clients) = Len(Rows) + Len(live)
        /\ \A s, t \in users : s.id = t.id => s = t
        /\ \A s, t \in clients : s.id = t.id /\ s # t => s.id = UnknownClient
        /\ Cardinality(Entries(clients, UnknownClient)) <= 2

(* The figures of one user, and of the unknown client, are those of the    *)
(* lists; but those of the unknown user also count the rows that the list, *)
(* and the figures of public requests, know to be public by their path     *)
(* only: rows of former versions without a kind, and nested paths.         *)
DetailFollowsList ==
  Serving =>
    LET Both(row) == Blank(row["user_id"]) /\ Name(row["traffic_kind"]) # "public"
                     /\ LooksPublic(row)
    IN  /\ \A u \in Users \cup {UnknownUser, PublicRequests} :
             GetUserStats(u) = Total(Entries(GetAllUserStats, u))
                               + (IF u = UnknownUser THEN Among(Both) ELSE 0)
        /\ GetUnknownClientStats = Total(Entries(GetAllClientStats, UnknownClient))

(* A record stays where it was counted first: being flushed and going      *)
(* through the cleanup of later starts moves it to no other user or client, *)
(* except that a nested path without a user turns from unknown to public   *)
(* when it is stored.                                                      *)
BucketsStay ==
  Serving =>
    \A id \in DOMAIN counted :
      /\ RowClientKey(Rows[id]) = counted[id].client
      /\ \/ RowUserKey(Rows[id]) = counted[id].user
         \/ /\ counted[id].user = UnknownUser /\ RowUserKey(Rows[id]) = PublicRequests
            /\ Name(Rows[id]["request_path"]) = "nested"

(* ListTrafficEntries scans user_id into a string, which takes no NULL; so *)
(* a page shows its rows, those of unknown users among them, only if there *)
(* is none (TestListTrafficEntriesSearchesUnknownUsers).                   *)
PageLists == Serving => \A id \in DOMAIN Rows : Rows[id]["user_id"] # Null

==============================================================================
