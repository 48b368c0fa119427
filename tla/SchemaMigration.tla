--------------------------- MODULE SchemaMigration ---------------------------
(***************************************************************************)
(* What every start of the process does to the database before it serves   *)
(* (internal/database Init): create the tables that are missing, add the   *)
(* columns a former version did not have, rebuild traffic_stats without    *)
(* the column client_ip, rewrite malformed names, create the indexes.      *)
(*                                                                         *)
(* A start runs one statement after the other over one connection: each    *)
(* commits by itself unless a transaction is open.  The process may end    *)
(* between any two of them, and a statement may fail, which ends it too    *)
(* (Init returns the error, main calls log.Fatalf); it is then started     *)
(* again and finds what was committed.                                     *)
(*                                                                         *)
(* A row has the columns the code adds or rewrites, and user_id.  A value  *)
(* is NULL or a name with some layers of stray quotes and backslashes      *)
(* around it.                                                              *)
(***************************************************************************)
EXTENDS Integers, Sequences, FiniteSets

CONSTANTS
  FormerColumns,  \* which of the added columns a former database may have
  FormerRows,     \* the rows it may have, as sequences
  MaxEnds         \* bound: times the process ends

Null == <<>>
Text(name) == <<name, 0>>
NoName == ""
Name(v) == IF v = Null THEN NoName ELSE v[1]
Blank(v) == Name(v) = NoName

Added == <<"client_id", "client_name", "device_id", "device_name", "user_agent",
           "request_path", "traffic_kind">>
AddedColumns == {Added[i] : i \in DOMAIN Added}
Columns == AddedColumns \cup {"user_id"}
Tables == {"users", "servers", "client_rules", "traffic_stats"}
ASSUME FormerAssumption ==
  /\ FormerColumns \subseteq SUBSET AddedColumns
  /\ \A rs \in FormerRows : Len(rs) \in Nat /\ DOMAIN rs = 1 .. Len(rs)
Index == [idx_client_rules_match |-> {}, idx_traffic_stats_user |-> {"user_id"},
          idx_traffic_stats_client |-> {"client_id"}, idx_traffic_stats_timestamp |-> {}]

VARIABLES
  disk,     \* the database as committed
  view,     \* the database as the connection sees it
  inTx,     \* a transaction is open
  running,  \* the process runs
  rest,     \* the statements a start has still to run; none: it serves
  ends,     \* how often the process has ended
  entered   \* history: each row as it was first stored, id -> row

startVars == <<disk, view, inTx, running, rest>>
vars == <<disk, view, inTx, running, rest, ends, entered>>

Serving == running /\ rest = <<>>

(* The rows of a table with fewer or more columns: a new one is NULL, but   *)
(* traffic_kind, which is ''.                                               *)
ValueIn(row, c) ==
  IF c \in DOMAIN row THEN row[c] ELSE IF c = "traffic_kind" THEN Text(NoName) ELSE Null
WithColumns(rows, columns) ==
  [id \in DOMAIN rows |-> [c \in columns |-> ValueIn(rows[id], c)]]

------------------------------------------------------------------------------
(* The statements of a start. *)

Do(what, on) == [do |-> what, on |-> on]
Each(what, ons) == [i \in DOMAIN ons |-> Do(what, ons[i])]

(* Mutant: the four statements of the rebuild each commit by themselves. *)
RebuildInSteps == <<Do("create_copy", "all"), Do("fill_copy", "all"),
                    Do("drop_old", "all"), Do("rename_copy", "all")>>

Rebuild == <<Do("begin", "all"), Do("create_copy", "all"), Do("fill_copy", "all"),
             Do("drop_old", "all"), Do("rename_copy", "all"), Do("commit", "all")>>

CreateIndexes == Each("create_index", <<"idx_client_rules_match", "idx_traffic_stats_user",
                        "idx_traffic_stats_client", "idx_traffic_stats_timestamp">>)
CreateMissing == Each("create_table", <<"users", "servers", "client_rules", "traffic_stats">>)

(* Mutant: the indexes are created with the tables. *)
CreateTablesIndexesFirst ==
  CreateMissing \o CreateIndexes \o Each("add_column", Added)
  \o <<Do("drop_cache", "all"), Do("look_for_client_ip", "all"), Do("read_rows", "all")>>

CreateTables ==
  CreateMissing \o Each("add_column", Added)
  \o <<Do("drop_cache", "all"), Do("look_for_client_ip", "all"), Do("read_rows", "all")>>
  \o CreateIndexes

(* A new database, or one of a former version: the added columns may be    *)
(* there or not, and so may client_ip, the cache and the newest table.     *)
NoDatabase == [tables |-> {}, columns |-> {}, rows |-> Null, copy |-> Null, indexes |-> {}]
Former(columns, rows, tables) ==
  [tables |-> tables \cup {"traffic_stats"}, columns |-> columns,
   rows |-> WithColumns(rows, columns), copy |-> Null, indexes |-> {}]

Init ==
  /\ \/ disk = NoDatabase
     \/ \E cs \in FormerColumns, ip \in {{}, {"client_ip"}}, rs \in FormerRows,
           ts \in {{"client_rules"}, {"ip_geo_cache"}} :
          disk = Former({"user_id"} \cup cs \cup ip, rs, {"users", "servers"} \cup ts)
  /\ view = disk
  /\ entered = disk.rows
  /\ inTx = FALSE /\ running = TRUE /\ rest = CreateTables /\ ends = 0

------------------------------------------------------------------------------
(* One action per statement.  A statement SQLite would refuse (a table that *)
(* exists, a column that does not) does not happen: that start goes no      *)
(* further, and neither does the next.                                      *)

Upcoming(what) == running /\ rest # <<>> /\ Head(rest).do = what
On == Head(rest).on

(* The statement leaves the database as db, and the statements then follow. *)
Executes(db, then) ==
  /\ view' = db
  /\ disk' = IF inTx THEN disk ELSE db
  /\ rest' = then
  /\ UNCHANGED <<inTx, running, ends, entered>>

CreateTable ==
  /\ Upcoming("create_table")
  /\ Executes(IF On \in view.tables THEN view
              ELSE IF On = "traffic_stats"
              THEN [view EXCEPT !.tables = @ \cup {On}, !.columns = Columns, !.rows = Null]
              ELSE [view EXCEPT !.tables = @ \cup {On}], Tail(rest))

(* isDuplicateColumnError: a column that is there already is no error. *)
AddColumn ==
  /\ Upcoming("add_column")
  /\ Executes([view EXCEPT !.columns = @ \cup {On},
                           !.rows = WithColumns(@, view.columns \cup {On})], Tail(rest))

DropCache ==
  /\ Upcoming("drop_cache")
  /\ Executes([view EXCEPT !.tables = @ \ {"ip_geo_cache"}], Tail(rest))

(* cleanupDeprecatedSchema: the rebuild follows only if it is needed. *)
TableHasColumn ==
  /\ Upcoming("look_for_client_ip")
  /\ Executes(view, (IF "client_ip" \in view.columns THEN Rebuild ELSE <<>>) \o Tail(rest))

CreateCopy ==
  /\ Upcoming("create_copy") /\ "traffic_stats_new" \notin view.tables
  /\ Executes([view EXCEPT !.tables = @ \cup {"traffic_stats_new"}, !.copy = Null], Tail(rest))

FillCopy ==
  /\ Upcoming("fill_copy") /\ Columns \subseteq view.columns
  /\ Executes([view EXCEPT !.copy = WithColumns(view.rows, Columns)], Tail(rest))

DropOld ==
  /\ Upcoming("drop_old")
  /\ Executes([view EXCEPT !.tables = @ \ {"traffic_stats"}, !.rows = Null, !.columns = {},
                           !.indexes = @ \cap {"idx_client_rules_match"}], Tail(rest))

RenameCopy ==
  /\ Upcoming("rename_copy") /\ "traffic_stats" \notin view.tables
  /\ Executes([view EXCEPT !.tables = (@ \ {"traffic_stats_new"}) \cup {"traffic_stats"},
                           !.columns = Columns, !.rows = view.copy, !.copy = Null], Tail(rest))

(* Mutant: normalizeEmbyHeaderValue takes off one layer only. *)
NormalizeNullableOnce(v) ==
  IF Blank(v) THEN Null ELSE IF v[2] = 0 THEN v ELSE <<v[1], v[2] - 1>>

(* normalizeNullableHeaderValue: what is blank becomes NULL; the loop of   *)
(* normalizeEmbyHeaderValue ends when nothing is left to take off.         *)
NormalizeNullable(v) == IF Blank(v) THEN Null ELSE Text(v[1])

Rewritten == {"user_id", "client_name", "device_id"}
Normalized(row) ==
  [c \in DOMAIN row |-> IF c \in Rewritten THEN NormalizeNullable(row[c]) ELSE row[c]]

(* The rows that change, in each order the query may return them in. *)
Malformed(rows) ==
  LET changed == {id \in DOMAIN rows : Normalized(rows[id]) # rows[id]}
  IN  {ids \in [1 .. Cardinality(changed) -> changed] : {ids[i] : i \in DOMAIN ids} = changed}

(* cleanupMalformedTrafficStats reads all rows, and then writes the changed *)
(* ones in a transaction.                                                   *)
ReadRows ==
  /\ Upcoming("read_rows") /\ Rewritten \subseteq view.columns
  /\ \E ids \in Malformed(view.rows) :
       Executes(view, (IF ids = <<>> THEN <<>>
                       ELSE <<Do("begin", "all")>> \o Each("rewrite_row", ids)
                            \o <<Do("commit", "all")>>) \o Tail(rest))

RewriteRow ==
  /\ Upcoming("rewrite_row")
  /\ Executes([view EXCEPT !.rows[On] = Normalized(@)], Tail(rest))

Begin ==
  /\ Upcoming("begin")
  /\ inTx' = TRUE
  /\ rest' = Tail(rest)
  /\ UNCHANGED <<disk, view, running, ends, entered>>

Commit ==
  /\ Upcoming("commit")
  /\ inTx' = FALSE
  /\ disk' = view
  /\ rest' = Tail(rest)
  /\ UNCHANGED <<view, running, ends, entered>>

CreateIndex ==
  /\ Upcoming("create_index") /\ Index[On] \subseteq view.columns
  /\ Executes([view EXCEPT !.indexes = @ \cup {On}], Tail(rest))

Proceed ==
  \/ CreateTable \/ AddColumn \/ DropCache \/ TableHasColumn
  \/ CreateCopy \/ FillCopy \/ DropOld \/ RenameCopy
  \/ ReadRows \/ RewriteRow \/ Begin \/ Commit \/ CreateIndex

(* The process ends: a crash, a stop, or a statement that fails. *)
ProcessEnds ==
  /\ running /\ ends < MaxEnds
  /\ ends' = ends + 1
  /\ running' = FALSE
  /\ view' = disk
  /\ inTx' = FALSE
  /\ rest' = <<>>
  /\ UNCHANGED <<disk, entered>>

Start ==
  /\ ~running
  /\ running' = TRUE
  /\ rest' = CreateTables
  /\ UNCHANGED <<disk, view, inTx, ends, entered>>

Next == Proceed \/ ProcessEnds \/ Start

(* A start goes on, and a process that ended is started again (restart:    *)
(* unless-stopped in docker-compose.yml).                                  *)
Fairness == WF_vars(Proceed) /\ WF_vars(Start)

Spec == Init /\ [][Next]_vars /\ Fairness

------------------------------------------------------------------------------
(* Properties. *)

(* No migration loses or alters history, wherever it is cut off: what is   *)
(* on disk has every row ever stored, under its id and with the same names *)
(* but for their quotes; only client_ip may be gone.                       *)
RowsSurvive ==
  /\ DOMAIN entered = DOMAIN disk.rows
  /\ \A id \in DOMAIN entered : \A c \in DOMAIN entered[id] \ {"client_ip"} :
       Name(disk.rows[id][c]) = Name(entered[id][c])

(* Whatever database it was started on, and however often earlier starts   *)
(* were cut off, the process serves only on the current schema, with all   *)
(* indexes, nothing left of a rebuild or of former versions, no name left  *)
(* malformed and no transaction left open.                                 *)
ServesCurrentSchema ==
  Serving =>
    /\ view = disk /\ ~inTx
    /\ disk.tables = Tables /\ disk.columns = Columns
    /\ disk.indexes = DOMAIN Index
    /\ \A id \in DOMAIN disk.rows : \A c \in Rewritten :
         disk.rows[id][c] # Null => disk.rows[id][c] = Text(Name(disk.rows[id][c]))

(* No database keeps the process from serving: after the last interruption *)
(* a start gets through, since every statement finds what it needs.        *)
EveryStartServes == ~Serving ~> Serving

==============================================================================
