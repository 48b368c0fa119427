------------------------- MODULE TrafficBucketsProofs -------------------------
(***************************************************************************)
(* What holds of SchemaMigration, and of TrafficBuckets on top of it, for  *)
(* every former database, all users and all clients.                       *)
(*                                                                         *)
(* Of a start: the invariant has four parts: which statement may follow    *)
(* which, and which of them are in a transaction (RestInv, TxInv); that    *)
(* the rows as the connection sees them, as they are on disk, or, while    *)
(* the table is dropped, as they are in its copy carry all that was ever   *)
(* stored (RowsInv); and that whatever the schema lacks is done by a       *)
(* statement that is still to come (TodoInv).                              *)
(*                                                                         *)
(* Of the records: they go on being stored between the starts, so that the *)
(* promises of SchemaMigration must hold of rows that come later as well,  *)
(* and a stored record stays with the user and the client it was counted   *)
(* for in memory.  To the invariant it adds that the rows are lists (a     *)
(* flush appends to them), and that what was counted is what the row says  *)
(* as it was first stored; that no start makes it say another name is      *)
(* RowsSurvive.                                                            *)
(*                                                                         *)
(* Of the lists: each is the stored records by key with those in memory    *)
(* added to them, so that it counts every record once as long as no two    *)
(* entries add the same key.  For that, and for what the queries for one   *)
(* user read, the invariant says that no row carries the name of a key.    *)
(***************************************************************************)
EXTENDS TrafficBuckets, Functions, FiniteSetTheorems, SequenceTheorems, Sums, TLAPS

(* What the statements of a start are about. *)
Plain == {"drop_cache", "look_for_client_ip", "read_rows", "begin", "commit",
          "create_copy", "fill_copy", "drop_old", "rename_copy"}
Statements ==
  [do : {"create_table"}, on : Tables] \cup [do : {"add_column"}, on : AddedColumns]
  \cup [do : {"create_index"}, on : DOMAIN Index]
  \cup [do : {"rewrite_row"}, on : DOMAIN entered] \cup [do : Plain, on : {"all"}]

(* Which statement may come after which; a start ends with an index. *)
Follows(what) ==
  IF what = "create_table" THEN {"create_table", "add_column"}
  ELSE IF what = "add_column" THEN {"add_column", "drop_cache"}
  ELSE IF what = "drop_cache" THEN {"look_for_client_ip"}
  ELSE IF what = "look_for_client_ip" THEN {"read_rows"}
  ELSE IF what = "begin" THEN {"create_copy", "rewrite_row"}
  ELSE IF what = "create_copy" THEN {"fill_copy"}
  ELSE IF what = "fill_copy" THEN {"drop_old"}
  ELSE IF what = "drop_old" THEN {"rename_copy"}
  ELSE IF what = "rename_copy" THEN {"commit"}
  ELSE IF what = "commit" THEN {"read_rows", "create_index"}
  ELSE IF what = "rewrite_row" THEN {"rewrite_row", "commit"}
  ELSE {"create_index"}

(* What happens to the schema happens before the rows are read; what may   *)
(* happen several times in a row.                                          *)
Early == {"create_table", "add_column", "drop_cache", "look_for_client_ip", "create_copy",
          "fill_copy", "drop_old", "rename_copy"}
Repeated == {"create_table", "add_column", "create_index", "rewrite_row"}
Precedes(a, b) ==
  (a = "create_index" => b = "create_index") /\ (a = "read_rows" => b \notin Early)

(* What the statements of a sequence do: the first, the last, all of them. *)
What(st) == st.do
First(s) == What(Head(s))
Last(s) == What(s[Len(s)])
Kinds(s) == {What(st) : st \in Range(s)}

Chained(s) ==
  /\ \A i \in 1 .. Len(s) - 1 : What(s[i + 1]) \in Follows(What(s[i]))
  /\ \A i, j \in 1 .. Len(s) : i < j => Precedes(What(s[i]), What(s[j]))
Ordered(s) == Chained(s) /\ (s # <<>> => Last(s) = "create_index")

Todo(what, on) == Do(what, on) \in Range(rest)
TodoAny(what) == what \in Kinds(rest)

(* The statements that run in a transaction, of the rebuild or of the      *)
(* rewriting; the rebuild goes on from one to the next.                    *)
TxSteps == {"create_copy", "fill_copy", "drop_old", "rename_copy", "rewrite_row", "commit"}

InOrder(r) ==
  /\ r \in Seq(Statements) /\ Ordered(r)
  /\ Kinds(r) \cap Early # {} => "read_rows" \in Kinds(r)
  /\ r # <<>> /\ First(r) # "create_index" =>
       \A x \in DOMAIN Index : Do("create_index", x) \in Range(r)
RestInv == InOrder(rest)

TxInv ==
  /\ inTx \in BOOLEAN /\ running \in BOOLEAN
  /\ ~running => rest = <<>>
  /\ ~inTx => view = disk
  /\ inTx <=> rest # <<>> /\ First(rest) \in TxSteps

Carries(rows) ==
  /\ DOMAIN rows = DOMAIN entered
  /\ \A id \in DOMAIN entered : \A c \in DOMAIN entered[id] \ {"client_ip"} :
       c \in DOMAIN rows[id] /\ Name(rows[id][c]) = Name(entered[id][c])

Kept(tables, columns, rows) ==
  /\ \A id \in DOMAIN rows : DOMAIN rows[id] = columns
  /\ Carries(rows)
  /\ "traffic_stats" \in tables => "user_id" \in columns
  /\ "traffic_stats" \notin tables => DOMAIN entered = {}

Fields == {"tables", "columns", "rows", "copy", "indexes"}
Known(db) ==
  /\ DOMAIN db = Fields
  /\ db.tables \subseteq Tables \cup {"ip_geo_cache", "traffic_stats_new"}
  /\ db.columns \subseteq Columns \cup {"client_ip"}
  /\ db.indexes \subseteq DOMAIN Index

RowsInv ==
  /\ IsFiniteSet(DOMAIN entered)
  /\ \A id \in DOMAIN entered : DOMAIN entered[id] \subseteq Columns \cup {"client_ip"}
  /\ Known(disk) /\ "traffic_stats_new" \notin disk.tables
  /\ Kept(disk.tables, disk.columns, disk.rows)
  /\ Known(view)
  /\ "traffic_stats_new" \in view.tables =>
       Upcoming("fill_copy") \/ Upcoming("drop_old") \/ Upcoming("rename_copy")
  /\ Upcoming("rename_copy") \/ Kept(view.tables, view.columns, view.rows)
  /\ Upcoming("drop_old") \/ Upcoming("rename_copy") =>
       Kept({"traffic_stats"}, Columns, view.copy)

Clean(row) == \A c \in Rewritten : row[c] # Null => row[c] = Text(Name(row[c]))

TodoTables ==
  \A t \in Tables :
    \/ t \in view.tables \/ Todo("create_table", t)
    \/ t = "traffic_stats" /\ Upcoming("rename_copy")
TodoColumns ==
  \A c \in AddedColumns :
    c \in view.columns \/ Todo("add_column", c) \/ Upcoming("rename_copy")
TodoFormer ==
  /\ "ip_geo_cache" \in view.tables => TodoAny("drop_cache")
  /\ "client_ip" \in view.columns => TodoAny("look_for_client_ip") \/ TodoAny("drop_old")
TodoIndexes == \A x \in DOMAIN Index : x \in view.indexes \/ Todo("create_index", x)
TodoRows ==
  \A id \in DOMAIN view.rows :
    TodoAny("read_rows") \/ Todo("rewrite_row", id) \/ Clean(view.rows[id])
TodoInv == running => TodoTables /\ TodoColumns /\ TodoFormer /\ TodoIndexes /\ TodoRows

IInv == RestInv /\ TxInv /\ RowsInv /\ TodoInv

------------------------------------------------------------------------------
(* Sequences of statements. *)

(* The first statement and the others. *)
LEMMA TailFacts ==
  ASSUME NEW S, NEW s \in Seq(S), s # <<>>
  PROVE  /\ Tail(s) \in Seq(S) /\ Head(s) \in S /\ Head(s) = s[1]
         /\ Len(s) \in Nat \ {0} /\ Len(Tail(s)) = Len(s) - 1
         /\ \A i \in 1 .. Len(s) - 1 : Tail(s)[i] = s[i + 1]
  OBVIOUS

(* What is in a sequence is its first statement or among the others. *)
LEMMA RangeTail ==
  ASSUME NEW S, NEW s \in Seq(S), s # <<>>
  PROVE  /\ Range(s) = {Head(s)} \cup Range(Tail(s))
         /\ Kinds(s) = {First(s)} \cup Kinds(Tail(s))
<1>1. \A i \in DOMAIN s : i = 1 \/ (i - 1 \in DOMAIN Tail(s) /\ s[i] = Tail(s)[i - 1])
  BY TailFacts
<1>2. \A i \in DOMAIN Tail(s) : i + 1 \in DOMAIN s /\ s[i + 1] = Tail(s)[i]
  BY TailFacts
<1>3. s[1] = Head(s) /\ 1 \in DOMAIN s
  BY TailFacts
<1>4. Range(s) = {Head(s)} \cup Range(Tail(s))
  BY <1>1, <1>2, <1>3 DEF Range
<1>5. QED
  BY <1>4 DEF Kinds, First

(* What is in two sequences, one after the other, is in one of them. *)
LEMMA RangeConcat ==
  ASSUME NEW S, NEW s \in Seq(S), NEW t \in Seq(S)
  PROVE  /\ Range(s \o t) = Range(s) \cup Range(t)
         /\ Kinds(s \o t) = Kinds(s) \cup Kinds(t)
<1>1. Range(s \o t) = Range(s) \cup Range(t)
  BY RangeConcatenation
<1>2. QED
  BY <1>1 DEF Kinds

(* An ordered sequence goes on with a statement that may follow, and ends  *)
(* with an index only.                                                     *)
LEMMA OrderedTail ==
  ASSUME NEW S, NEW s \in Seq(S), s # <<>>, Ordered(s)
  PROVE  /\ Ordered(Tail(s))
         /\ Tail(s) = <<>> => First(s) = "create_index"
         /\ Tail(s) # <<>> => First(Tail(s)) \in Follows(First(s))
         /\ \A k \in Kinds(Tail(s)) : Precedes(First(s), k)
<1> SUFFICES ASSUME NEW t, t = Tail(s)
             PROVE  /\ Ordered(t)
                    /\ t = <<>> => First(s) = "create_index"
                    /\ t # <<>> => First(t) \in Follows(First(s))
                    /\ \A k \in Kinds(t) : Precedes(First(s), k)
  OBVIOUS
<1>1. /\ t \in Seq(S) /\ Head(s) = s[1] /\ Len(s) \in Nat \ {0} /\ Len(t) = Len(s) - 1
      /\ \A i \in 1 .. Len(s) - 1 : t[i] = s[i + 1]
  BY TailFacts
<1>2. \A i \in 1 .. Len(t) - 1 : What(t[i + 1]) \in Follows(What(t[i]))
  <2> SUFFICES ASSUME NEW i \in 1 .. Len(t) - 1 PROVE What(t[i + 1]) \in Follows(What(t[i]))
    OBVIOUS
  <2>1. t[i] = s[i + 1] /\ t[i + 1] = s[(i + 1) + 1] /\ i + 1 \in 1 .. Len(s) - 1
    BY <1>1
  <2>2. QED
    BY <2>1 DEF Ordered, Chained
<1>3. \A i, j \in 1 .. Len(t) : i < j => Precedes(What(t[i]), What(t[j]))
  <2> SUFFICES ASSUME NEW i \in 1 .. Len(t), NEW j \in 1 .. Len(t), i < j
               PROVE  Precedes(What(t[i]), What(t[j]))
    OBVIOUS
  <2>1. /\ t[i] = s[i + 1] /\ t[j] = s[j + 1] /\ i + 1 < j + 1
        /\ i + 1 \in 1 .. Len(s) /\ j + 1 \in 1 .. Len(s)
    BY <1>1
  <2>2. QED
    BY <2>1 DEF Ordered, Chained
<1>4. \A i \in DOMAIN t : Precedes(What(s[1]), What(t[i]))
  <2> SUFFICES ASSUME NEW i \in DOMAIN t PROVE Precedes(What(s[1]), What(t[i]))
    OBVIOUS
  <2>1. t[i] = s[i + 1] /\ 1 < i + 1 /\ 1 \in 1 .. Len(s) /\ i + 1 \in 1 .. Len(s)
    BY <1>1
  <2>2. QED
    BY <2>1 DEF Ordered, Chained
<1>5. Last(s) = "create_index"
  BY DEF Ordered
<1>6. t = <<>> => Len(s) = 1
  BY <1>1
<1>7. t # <<>> =>
        /\ 1 \in 1 .. Len(s) - 1 /\ t[Len(t)] = s[Len(s)] /\ Head(t) = s[1 + 1]
  BY <1>1
<1>8. t # <<>> => What(Head(t)) \in Follows(What(s[1]))
  BY <1>7 DEF Ordered, Chained
<1>9. QED
  BY <1>1, <1>2, <1>3, <1>4, <1>5, <1>6, <1>7, <1>8
  DEF Ordered, Chained, First, Last, Kinds, Range

(* One sequence may come before another, if its last statement may come    *)
(* before the first of the other and none is too early.                    *)
LEMMA OrderedConcat ==
  ASSUME NEW S, NEW s \in Seq(S), NEW t \in Seq(S), s # <<>>, t # <<>>,
         Chained(s), Ordered(t), First(t) \in Follows(Last(s)),
         \A a \in Kinds(s), b \in Kinds(t) : Precedes(a, b)
  PROVE  /\ s \o t \in Seq(S) /\ s \o t # <<>> /\ Ordered(s \o t) /\ First(s \o t) = First(s)
         /\ Range(s \o t) = Range(s) \cup Range(t) /\ Kinds(s \o t) = Kinds(s) \cup Kinds(t)
<1>0. Range(s \o t) = Range(s) \cup Range(t) /\ Kinds(s \o t) = Kinds(s) \cup Kinds(t)
  BY RangeConcat
<1> SUFFICES ASSUME NEW u, u = s \o t
             PROVE  u \in Seq(S) /\ u # <<>> /\ Ordered(u) /\ First(u) = First(s)
  BY <1>0
<1>1. /\ u \in Seq(S) /\ Len(u) = Len(s) + Len(t) /\ Len(s) \in Nat \ {0} /\ Len(t) \in Nat \ {0}
      /\ \A i \in 1 .. Len(s) : u[i] = s[i]
      /\ \A i \in Len(s) + 1 .. Len(u) : u[i] = t[i - Len(s)]
  OBVIOUS
<1>2. DOMAIN s = 1 .. Len(s) /\ DOMAIN t = 1 .. Len(t) /\ Head(t) = t[1]
  OBVIOUS
<1>3. ASSUME NEW i \in 1 .. Len(u) - 1 PROVE What(u[i + 1]) \in Follows(What(u[i]))
  <2>1. CASE i < Len(s)
    <3>1. i \in 1 .. Len(s) - 1 /\ u[i] = s[i] /\ u[i + 1] = s[i + 1]
      BY <1>1, <2>1
    <3>2. QED
      BY <3>1 DEF Chained
  <2>2. CASE i = Len(s)
    <3>1. u[i] = s[Len(s)] /\ u[i + 1] = t[1]
      BY <1>1, <2>2
    <3>2. QED
      BY <1>2, <3>1 DEF First, Last
  <2>3. CASE i > Len(s)
    <3>1. i - Len(s) \in 1 .. Len(t) - 1 /\ u[i] = t[i - Len(s)] /\ u[i + 1] = t[(i - Len(s)) + 1]
      BY <1>1, <2>3
    <3>2. QED
      BY <3>1 DEF Ordered, Chained
  <2>4. QED
    BY <1>1, <2>1, <2>2, <2>3
<1>4. ASSUME NEW i \in 1 .. Len(u), NEW j \in 1 .. Len(u), i < j
      PROVE  Precedes(What(u[i]), What(u[j]))
  <2>1. CASE j <= Len(s)
    <3>1. i \in 1 .. Len(s) /\ j \in 1 .. Len(s) /\ u[i] = s[i] /\ u[j] = s[j]
      BY <1>1, <1>4, <2>1
    <3>2. QED
      BY <1>4, <3>1 DEF Chained
  <2>2. CASE i <= Len(s) /\ j > Len(s)
    <3>1. j - Len(s) \in DOMAIN t /\ u[j] = t[j - Len(s)] /\ i \in DOMAIN s /\ u[i] = s[i]
      BY <1>1, <1>2, <2>2
    <3>2. What(u[i]) \in Kinds(s) /\ What(u[j]) \in Kinds(t)
      BY <3>1 DEF Kinds, Range
    <3>3. QED
      BY <3>2
  <2>3. CASE i > Len(s)
    <3>1. /\ i - Len(s) \in 1 .. Len(t) /\ j - Len(s) \in 1 .. Len(t) /\ i - Len(s) < j - Len(s)
          /\ u[i] = t[i - Len(s)] /\ u[j] = t[j - Len(s)]
      BY <1>1, <1>4, <2>3
    <3>2. QED
      BY <3>1 DEF Ordered, Chained
  <2>4. QED
    BY <1>1, <2>1, <2>2, <2>3
<1>5. u[Len(u)] = t[Len(t)] /\ u # <<>> /\ Head(u) = s[1] /\ Head(s) = s[1]
  BY <1>1
<1>6. Last(t) = "create_index"
  BY DEF Ordered
<1>7. QED
  BY <1>1, <1>3, <1>4, <1>5, <1>6 DEF Ordered, Chained, First, Last

(* One statement for each of several things. *)
LEMMA EachDoes ==
  ASSUME NEW w, NEW T, NEW ons \in Seq(T), ons # <<>>
  PROVE  /\ DOMAIN Each(w, ons) = 1 .. Len(ons) /\ Len(ons) \in Nat \ {0}
         /\ \A i \in 1 .. Len(ons) : Each(w, ons)[i] = Do(w, ons[i])
         /\ \A i \in 1 .. Len(ons) : What(Each(w, ons)[i]) = w
<1>1. Len(ons) \in Nat \ {0} /\ DOMAIN ons = 1 .. Len(ons)
  OBVIOUS
<1>2. \A x : What(Do(w, x)) = w
  BY DEF What, Do
<1>3. QED
  BY <1>1, <1>2 DEF Each

(* They are statements, as many as there are things. *)
Are(w, T, S) == \A x \in T : Do(w, x) \in S
LEMMA EachIsSeq ==
  ASSUME NEW S, NEW w, NEW T, NEW ons \in Seq(T), ons # <<>>, Are(w, T, S)
  PROVE  /\ Each(w, ons) \in Seq(S) /\ Len(Each(w, ons)) = Len(ons)
         /\ Each(w, ons) # <<>> /\ Head(Each(w, ons)) = Each(w, ons)[1]
<1>1. /\ Each(w, ons) = [i \in 1 .. Len(ons) |-> Do(w, ons[i])]
      /\ \A i \in 1 .. Len(ons) : ons[i] \in T
  BY DEF Each
<1>2. Len(ons) \in Nat \ {0}
  OBVIOUS
<1>3. QED
  BY <1>1, <1>2 DEF Are

(* All of them do the same, to one of the things each. *)
LEMMA EachKinds ==
  ASSUME NEW w, NEW T, NEW ons \in Seq(T), ons # <<>>
  PROVE  /\ Kinds(Each(w, ons)) = {w} /\ First(Each(w, ons)) = w /\ Last(Each(w, ons)) = w
         /\ \A x \in Range(ons) : Do(w, x) \in Range(Each(w, ons))
<1>1. DOMAIN ons = 1 .. Len(ons)
  OBVIOUS
<1>2. Kinds(Each(w, ons)) = {w} /\ \A x \in Range(ons) : Do(w, x) \in Range(Each(w, ons))
  <2>1. 1 \in DOMAIN Each(w, ons)
    BY EachDoes
  <2>2. QED
    BY <1>1, <2>1, EachDoes DEF Kinds, Range
<1>3. First(Each(w, ons)) = w /\ Last(Each(w, ons)) = w
  <2>0. PICK S : S = {Do(w, x) : x \in T}
    OBVIOUS
  <2>1. Are(w, T, S)
    BY <2>0 DEF Are
  <2>2. Len(Each(w, ons)) = Len(ons) /\ Head(Each(w, ons)) = Each(w, ons)[1]
    BY <2>1, EachIsSeq
  <2>3. 1 \in 1 .. Len(ons) /\ Len(ons) \in 1 .. Len(ons)
    BY EachDoes
  <2>4. QED
    BY <2>2, <2>3, EachDoes DEF First, Last
<1>4. QED
  BY <1>2, <1>3

(* Such statements are in order if they may repeat. *)
LEMMA EachChained ==
  ASSUME NEW w \in Repeated, NEW T, NEW ons \in Seq(T), ons # <<>>
  PROVE  Chained(Each(w, ons))
<1>1. w \in Follows(w) /\ Precedes(w, w)
  BY DEF Repeated, Follows, Precedes
<1>2. Len(Each(w, ons)) = Len(ons)
  <2>0. PICK S : S = {Do(w, x) : x \in T}
    OBVIOUS
  <2>1. Are(w, T, S)
    BY <2>0 DEF Are
  <2>2. QED
    BY <2>1, EachIsSeq
<1>3. ASSUME NEW n \in Nat, NEW i \in 1 .. n - 1 PROVE i \in 1 .. n /\ i + 1 \in 1 .. n
  OBVIOUS
<1>4. PICK n \in Nat : n = Len(ons)
  BY EachDoes
<1>5. \A i \in 1 .. n : What(Each(w, ons)[i]) = w
  BY <1>4, EachDoes
<1>6. \A i \in 1 .. n - 1 : What(Each(w, ons)[i + 1]) = w /\ What(Each(w, ons)[i]) = w
  BY <1>3, <1>5
<1>7. QED
  BY <1>1, <1>2, <1>4, <1>5, <1>6 DEF Chained

(* Statements that end a start, and those that may come before them. *)
Rightly(s) == s \in Seq(Statements) /\ s # <<>> /\ Ordered(s)
MayLead(what, s) == First(s) \in Follows(what) /\ \A k \in Kinds(s) : Precedes(what, k)

(* Such statements, before others. *)
AreBefore(w, ons, t, s) == s = Each(w, ons) \o t
LEMMA EachBefore ==
  ASSUME NEW T, NEW w, NEW ons \in Seq(T), NEW t, NEW s, AreBefore(w, ons, t, s),
         ons # <<>>, Are(w, T, Statements), w \in Repeated, Rightly(t), MayLead(w, t)
  PROVE  /\ Rightly(s) /\ First(s) = w
         /\ \A x \in Range(ons) : Do(w, x) \in Range(s)
         /\ Range(t) \subseteq Range(s) /\ Kinds(s) = {w} \cup Kinds(t)
<1>1. PICK e : e = Each(w, ons)
  OBVIOUS
<1>2. t \in Seq(Statements) /\ t # <<>> /\ Ordered(t)
  BY DEF Rightly
<1>3. /\ e \in Seq(Statements) /\ e # <<>> /\ Chained(e)
      /\ Kinds(e) = {w} /\ First(e) = w /\ Last(e) = w
      /\ \A x \in Range(ons) : Do(w, x) \in Range(e)
  BY <1>1, EachIsSeq, EachKinds, EachChained
<1>4. First(t) \in Follows(Last(e)) /\ \A a \in Kinds(e), b \in Kinds(t) : Precedes(a, b)
  BY <1>3 DEF MayLead
<1>5. /\ e \o t \in Seq(Statements) /\ e \o t # <<>> /\ Ordered(e \o t) /\ First(e \o t) = w
      /\ Range(e \o t) = Range(e) \cup Range(t) /\ Kinds(e \o t) = Kinds(e) \cup Kinds(t)
  BY <1>2, <1>3, <1>4, OrderedConcat
<1>6. QED
  BY <1>1, <1>3, <1>5 DEF Rightly, AreBefore

(* One statement before others. *)
IsBefore(st, t, s) == s = <<st>> \o t
LEMMA OneBefore ==
  ASSUME NEW st \in Statements, NEW t, NEW s, IsBefore(st, t, s),
         Rightly(t), MayLead(What(st), t)
  PROVE  /\ Rightly(s) /\ First(s) = What(st)
         /\ Range(s) = {st} \cup Range(t) /\ Kinds(s) = {What(st)} \cup Kinds(t)
<1>1. PICK e : e = <<st>>
  OBVIOUS
<1>2. /\ e \in Seq(Statements) /\ e # <<>> /\ Range(e) = {st}
      /\ Len(e) = 1 /\ Head(e) = st /\ e[1] = st
  BY <1>1 DEF Range
<1>3. Chained(e)
  BY <1>2 DEF Chained
<1>4. Kinds(e) = {What(st)} /\ First(e) = What(st) /\ Last(e) = What(st)
  BY <1>2 DEF Kinds, First, Last
<1>5. t \in Seq(Statements) /\ t # <<>> /\ Ordered(t)
  BY DEF Rightly
<1>6. First(t) \in Follows(Last(e)) /\ \A a \in Kinds(e), b \in Kinds(t) : Precedes(a, b)
  BY <1>4 DEF MayLead
<1>7. /\ e \o t \in Seq(Statements) /\ e \o t # <<>> /\ Ordered(e \o t)
      /\ First(e \o t) = What(st)
      /\ Range(e \o t) = Range(e) \cup Range(t) /\ Kinds(e \o t) = Kinds(e) \cup Kinds(t)
  BY <1>2, <1>3, <1>4, <1>5, <1>6, OrderedConcat
<1>8. QED
  BY <1>1, <1>2, <1>4, <1>7 DEF Rightly, IsBefore

------------------------------------------------------------------------------
(* The statements a start has before it, and those it adds as it goes. *)

(* Statements one after the other, taken one at a time. *)
LEMMA OneByOne ==
  ASSUME NEW S, NEW x \in S, NEW r \in Seq(S), NEW q \in Seq(S), NEW t \in Seq(S),
         Len(q) = Len(r) + 1, q[1] = x, \A i \in 1 .. Len(r) : q[i + 1] = r[i]
  PROVE  IsBefore(x, r \o t, q \o t)
<1>1. PICK a : a = <<x>>
  OBVIOUS
<1>2. PICK p : p = a \o r
  OBVIOUS
<1>3. a \in Seq(S) /\ Len(a) = 1 /\ a[1] = x
  BY <1>1
<1>4. /\ p \in Seq(S) /\ Len(p) = Len(r) + 1 /\ Len(r) \in Nat
      /\ \A i \in 1 .. Len(p) : p[i] = IF i <= Len(a) THEN a[i] ELSE r[i - Len(a)]
  <2>1. Len(r) \in Nat
    OBVIOUS
  <2>2. /\ a \o r \in Seq(S) /\ Len(a \o r) = Len(a) + Len(r)
        /\ \A i \in 1 .. Len(a) + Len(r) : (a \o r)[i] = IF i <= Len(a) THEN a[i] ELSE r[i - Len(a)]
    BY <1>3, ConcatProperties, Zenon
  <2>3. QED
    BY <1>2, <1>3, <2>1, <2>2
<1>5. \A i \in 1 .. Len(p) : p[i] = q[i]
  <2> SUFFICES ASSUME NEW i \in 1 .. Len(p) PROVE p[i] = q[i]
    OBVIOUS
  <2>1. CASE i = 1
    BY <1>3, <1>4, <2>1
  <2>2. CASE i # 1
    <3>1. i - 1 \in 1 .. Len(r) /\ p[i] = r[i - 1] /\ (i - 1) + 1 = i
      BY <1>3, <1>4, <2>2
    <3>2. q[(i - 1) + 1] = r[i - 1]
      BY <3>1
    <3>3. QED
      BY <3>1, <3>2
  <2>3. QED
    BY <2>1, <2>2
<1>6. p = q
  BY <1>4, <1>5, SeqEqual
<1>7. (a \o r) \o t = a \o (r \o t)
  BY <1>3, ConcatAssociative
<1>8. QED
  BY <1>1, <1>2, <1>6, <1>7 DEF IsBefore

(* The indexes end every start. *)
LEMMA IndexStatements ==
  /\ CreateIndexes \in Seq(Statements) /\ CreateIndexes # <<>> /\ Ordered(CreateIndexes)
  /\ First(CreateIndexes) = "create_index" /\ Kinds(CreateIndexes) = {"create_index"}
  /\ \A x \in DOMAIN Index : Do("create_index", x) \in Range(CreateIndexes)
<1>1. PICK ons : ons = <<"idx_client_rules_match", "idx_traffic_stats_user",
                        "idx_traffic_stats_client", "idx_traffic_stats_timestamp">>
  OBVIOUS
<1>2. ons \in Seq(DOMAIN Index) /\ ons # <<>>
  BY <1>1 DEF Index
<1>3. DOMAIN Index \subseteq Range(ons)
  <2>1. DOMAIN ons = 1 .. 4
    BY <1>1
  <2>2. {ons[1], ons[2], ons[3], ons[4]} = DOMAIN Index
    BY <1>1 DEF Index
  <2>3. QED
    BY <2>1, <2>2 DEF Range
<1>4. CreateIndexes = Each("create_index", ons)
  BY <1>1 DEF CreateIndexes
<1>5. Are("create_index", DOMAIN Index, Statements)
  BY DEF Are, Statements, Do
<1>6. "create_index" \in Repeated
  BY DEF Repeated
<1>7. CreateIndexes \in Seq(Statements) /\ CreateIndexes # <<>>
  BY <1>2, <1>4, <1>5, EachIsSeq
<1>8. /\ First(CreateIndexes) = "create_index" /\ Last(CreateIndexes) = "create_index"
      /\ Kinds(CreateIndexes) = {"create_index"}
      /\ \A x \in Range(ons) : Do("create_index", x) \in Range(CreateIndexes)
  BY <1>2, <1>4, EachKinds
<1>9. Chained(CreateIndexes)
  BY <1>2, <1>4, <1>6, EachChained
<1>10. QED
  BY <1>3, <1>7, <1>8, <1>9 DEF Ordered

(* What the statements of a start are about, in their order. *)
LEMMA AddedSequence ==
  Added \in Seq(AddedColumns) /\ Added # <<>> /\ Range(Added) = AddedColumns
<1>1. PICK s : s = Added
  OBVIOUS
<1>2. Len(s) = 7 /\ DOMAIN s = 1 .. 7 /\ AddedColumns = {s[i] : i \in DOMAIN s}
  BY <1>1 DEF Added, AddedColumns
<1>3. s = [i \in 1 .. 7 |-> s[i]] /\ s # <<>>
  BY <1>1 DEF Added
<1>4. s \in Seq(AddedColumns)
  BY <1>2, <1>3
<1>5. QED
  BY <1>1, <1>2, <1>3, <1>4 DEF Range

LEMMA TableSequence ==
  \E ons : /\ CreateMissing = Each("create_table", ons)
           /\ ons \in Seq(Tables) /\ ons # <<>> /\ Range(ons) = Tables
<1>1. PICK s : s = <<"users", "servers", "client_rules", "traffic_stats">>
  OBVIOUS
<1>2. DOMAIN s = 1 .. 4 /\ Len(s) = 4
  BY <1>1
<1>3. /\ s[1] = "users" /\ s[2] = "servers" /\ s[3] = "client_rules"
      /\ s[4] = "traffic_stats" /\ s # <<>>
  BY <1>1
<1>4. Range(s) = {s[1], s[2], s[3], s[4]}
  BY <1>2 DEF Range
<1>5. Range(s) = Tables
  BY <1>3, <1>4 DEF Tables
<1>6. s \in Seq(Tables)
  <2>1. s = [i \in 1 .. 4 |-> s[i]] /\ \A i \in 1 .. 4 : s[i] \in Tables
    BY <1>1, <1>2, <1>3 DEF Tables
  <2>2. QED
    BY <2>1
<1>7. QED
  BY <1>1, <1>3, <1>5, <1>6 DEF CreateMissing

(* A start has something to do for whatever a database may lack or have    *)
(* too much, and does it in order.                                         *)
LEMMA StartStatements ==
  /\ Rightly(CreateTables) /\ First(CreateTables) = "create_table"
  /\ {"drop_cache", "look_for_client_ip", "read_rows"} \subseteq Kinds(CreateTables)
  /\ \A t \in Tables : Do("create_table", t) \in Range(CreateTables)
  /\ \A c \in AddedColumns : Do("add_column", c) \in Range(CreateTables)
  /\ \A x \in DOMAIN Index : Do("create_index", x) \in Range(CreateTables)
<1>1. PICK drop, look, read :
        /\ drop = Do("drop_cache", "all") /\ look = Do("look_for_client_ip", "all")
        /\ read = Do("read_rows", "all")
  OBVIOUS
<1>2. /\ drop \in Statements /\ look \in Statements /\ read \in Statements
      /\ What(drop) = "drop_cache" /\ What(look) = "look_for_client_ip"
      /\ What(read) = "read_rows"
  BY <1>1 DEF Statements, Plain, Do, What
<1>3. PICK c4 : c4 = CreateIndexes
  OBVIOUS
<1>4. Rightly(c4) /\ First(c4) = "create_index" /\ Kinds(c4) = {"create_index"}
  BY <1>3, IndexStatements DEF Rightly
<1>5. PICK c3 : IsBefore(read, c4, c3)
  BY DEF IsBefore
<1>6. /\ Rightly(c3) /\ First(c3) = "read_rows" /\ Range(c3) = {read} \cup Range(c4)
      /\ Kinds(c3) = {"read_rows"} \cup Kinds(c4)
  <2>1. MayLead(What(read), c4)
    BY <1>2, <1>4 DEF MayLead, Follows, Precedes, Early
  <2>2. QED
    BY <1>2, <1>4, <1>5, <2>1, OneBefore
<1>7. PICK c2 : IsBefore(look, c3, c2)
  BY DEF IsBefore
<1>8. /\ Rightly(c2) /\ First(c2) = "look_for_client_ip" /\ Range(c2) = {look} \cup Range(c3)
      /\ Kinds(c2) = {"look_for_client_ip"} \cup Kinds(c3)
  <2>1. MayLead(What(look), c3)
    BY <1>2, <1>4, <1>6 DEF MayLead, Follows, Precedes, Early
  <2>2. QED
    BY <1>2, <1>6, <1>7, <2>1, OneBefore
<1>9. PICK c1 : IsBefore(drop, c2, c1)
  BY DEF IsBefore
<1>10. /\ Rightly(c1) /\ First(c1) = "drop_cache" /\ Range(c1) = {drop} \cup Range(c2)
       /\ Kinds(c1) = {"drop_cache"} \cup Kinds(c2)
  <2>1. MayLead(What(drop), c2)
    BY <1>2, <1>4, <1>6, <1>8 DEF MayLead, Follows, Precedes, Early
  <2>2. QED
    BY <1>2, <1>8, <1>9, <2>1, OneBefore
<1>11. PICK b : AreBefore("add_column", Added, c1, b)
  BY DEF AreBefore
<1>12. /\ Rightly(b) /\ First(b) = "add_column"
       /\ \A c \in AddedColumns : Do("add_column", c) \in Range(b)
       /\ Range(c1) \subseteq Range(b) /\ Kinds(b) = {"add_column"} \cup Kinds(c1)
  <2>1. MayLead("add_column", c1)
    BY <1>4, <1>6, <1>8, <1>10 DEF MayLead, Follows, Precedes, Early
  <2>2. Are("add_column", AddedColumns, Statements) /\ "add_column" \in Repeated
    BY DEF Are, Statements, Do, Repeated
  <2>3. QED
    BY <1>10, <1>11, <2>1, <2>2, AddedSequence, EachBefore
<1>13. PICK a, ons : /\ CreateMissing = Each("create_table", ons)
                     /\ ons \in Seq(Tables) /\ ons # <<>> /\ Range(ons) = Tables
                     /\ AreBefore("create_table", ons, b, a)
  BY TableSequence DEF AreBefore
<1>14. Are("create_table", Tables, Statements) /\ "create_table" \in Repeated
  BY DEF Are, Statements, Do, Repeated
<1>15. /\ Rightly(a) /\ First(a) = "create_table"
       /\ \A t \in Tables : Do("create_table", t) \in Range(a)
       /\ Range(b) \subseteq Range(a) /\ Kinds(a) = {"create_table"} \cup Kinds(b)
  <2>1. MayLead("create_table", b)
    BY <1>4, <1>6, <1>8, <1>10, <1>12 DEF MayLead, Follows, Precedes, Early
  <2>2. QED
    BY <1>12, <1>13, <1>14, <2>1, EachBefore
<1>16. CreateTables = a
  <2>1. PICK m, e, d, l, r : /\ m = CreateMissing /\ e = Each("add_column", Added)
                             /\ d = <<drop>> /\ l = <<look>> /\ r = <<read>>
    OBVIOUS
  <2>2. d \in Seq(Statements) /\ l \in Seq(Statements) /\ r \in Seq(Statements)
    BY <1>2, <2>1
  <2>3. m \in Seq(Statements)
    BY <1>13, <1>14, <2>1, EachIsSeq
  <2>4. e \in Seq(Statements)
    <3>1. Are("add_column", AddedColumns, Statements)
      BY DEF Are, Statements, Do
    <3>2. QED
      BY <2>1, <3>1, AddedSequence, EachIsSeq
  <2>5. c4 \in Seq(Statements)
    BY <1>4 DEF Rightly
  <2>6. PICK dlr, lr : dlr = <<drop, look, read>> /\ lr = <<look, read>>
    OBVIOUS
  <2>7. dlr \in Seq(Statements) /\ lr \in Seq(Statements)
    BY <1>2, <2>6
  <2>8. IsBefore(look, r \o c4, lr \o c4)
    <3>1. Len(lr) = Len(r) + 1 /\ lr[1] = look /\ \A i \in 1 .. Len(r) : lr[i + 1] = r[i]
      BY <2>1, <2>6
    <3>2. QED
      BY <1>2, <2>2, <2>5, <2>7, <3>1, OneByOne
  <2>9. IsBefore(drop, lr \o c4, dlr \o c4)
    <3>1. /\ Len(lr) = 2 /\ Len(dlr) = 3 /\ lr[1] = look /\ lr[2] = read
          /\ dlr[1] = drop /\ dlr[2] = look /\ dlr[3] = read
      BY <2>6
    <3>2. Len(dlr) = Len(lr) + 1 /\ \A i \in 1 .. Len(lr) : dlr[i + 1] = lr[i]
      BY <3>1
    <3>3. QED
      BY <1>2, <2>5, <2>7, <3>1, <3>2, OneByOne
  <2>10. dlr \o c4 = c1
    BY <1>5, <1>7, <1>9, <2>1, <2>8, <2>9 DEF IsBefore
  <2>11. PICK me, d4 : me = m \o e /\ d4 = dlr \o c4
    OBVIOUS
  <2>12. me \in Seq(Statements) /\ d4 \in Seq(Statements)
    BY <2>3, <2>4, <2>5, <2>7, <2>11
  <2>13. (me \o dlr) \o c4 = me \o d4
    <3>1. (me \o dlr) \o c4 = me \o (dlr \o c4)
      BY <2>5, <2>7, <2>12, ConcatAssociative
    <3>2. QED
      BY <2>11, <3>1
  <2>14. me \o d4 = m \o (e \o d4)
    <3>1. (m \o e) \o d4 = m \o (e \o d4)
      BY <2>3, <2>4, <2>12, ConcatAssociative
    <3>2. QED
      BY <2>11, <3>1
  <2>15. CreateTables = (me \o dlr) \o c4
    BY <1>1, <1>3, <2>1, <2>6, <2>11 DEF CreateTables
  <2>16. e \o c1 = b /\ m \o b = a
    BY <1>11, <1>13, <2>1 DEF AreBefore
  <2>17. QED
    BY <2>10, <2>11, <2>13, <2>14, <2>15, <2>16
<1>17. /\ \A c \in AddedColumns : Do("add_column", c) \in Range(a)
       /\ {"drop_cache", "look_for_client_ip", "read_rows"} \subseteq Kinds(a)
       /\ Range(c4) \subseteq Range(a)
  BY <1>6, <1>8, <1>10, <1>12, <1>15
<1>18. QED
  BY <1>3, <1>15, <1>16, <1>17, IndexStatements

(* One statement of those about no table, column, index or row.            *)
LEMMA PlainBefore ==
  ASSUME NEW what \in Plain, what # "read_rows", NEW t, NEW s, Rightly(t),
         First(t) \in Follows(what), IsBefore(Do(what, "all"), t, s)
  PROVE  /\ Rightly(s) /\ First(s) = what
         /\ Range(t) \subseteq Range(s) /\ Kinds(s) = {what} \cup Kinds(t)
<1>1. PICK st : st = Do(what, "all")
  OBVIOUS
<1>2. st \in Statements /\ What(st) = what
  BY <1>1 DEF Statements, Do, What
<1>3. what # "create_index"
  BY DEF Plain
<1>4. MayLead(What(st), t) /\ IsBefore(st, t, s)
  BY <1>1, <1>2, <1>3 DEF MayLead, Precedes
<1>5. QED
  BY <1>2, <1>4, OneBefore

(* The rebuild comes before the reading of the rows, in its order.         *)
LEMMA RebuildBefore ==
  ASSUME NEW t, Rightly(t), First(t) = "read_rows"
  PROVE  LET s == Rebuild \o t
         IN  /\ Rightly(s) /\ First(s) = "begin" /\ "drop_old" \in Kinds(s)
             /\ Range(t) \subseteq Range(s) /\ Kinds(t) \subseteq Kinds(s)
<1>1. PICK b, c, f, d, r, m :
        /\ b = Do("begin", "all") /\ c = Do("create_copy", "all") /\ f = Do("fill_copy", "all")
        /\ d = Do("drop_old", "all") /\ r = Do("rename_copy", "all") /\ m = Do("commit", "all")
  OBVIOUS
<1>2. /\ b \in Statements /\ c \in Statements /\ f \in Statements
      /\ d \in Statements /\ r \in Statements /\ m \in Statements
  BY <1>1 DEF Statements, Plain, Do
<1>3. PICK q1, q2, q3, q4, q5, q6 :
        /\ q1 = <<m>> /\ q2 = <<r, m>> /\ q3 = <<d, r, m>> /\ q4 = <<f, d, r, m>>
        /\ q5 = <<c, f, d, r, m>> /\ q6 = <<b, c, f, d, r, m>>
  OBVIOUS
<1>4. /\ q1 \in Seq(Statements) /\ q2 \in Seq(Statements) /\ q3 \in Seq(Statements)
      /\ q4 \in Seq(Statements) /\ q5 \in Seq(Statements) /\ q6 \in Seq(Statements)
  BY <1>2, <1>3
<1>5. t \in Seq(Statements)
  BY DEF Rightly
<1>6. IsBefore(m, t, q1 \o t)
  BY <1>3 DEF IsBefore
<1>7. IsBefore(r, q1 \o t, q2 \o t)
  <2>1. Len(q2) = Len(q1) + 1 /\ q2[1] = r /\ \A i \in 1 .. Len(q1) : q2[i + 1] = q1[i]
    BY <1>3
  <2>2. QED
    BY <1>2, <1>4, <1>5, <2>1, OneByOne
<1>8. IsBefore(d, q2 \o t, q3 \o t)
  <2>1. Len(q3) = Len(q2) + 1 /\ q3[1] = d /\ \A i \in 1 .. Len(q2) : q3[i + 1] = q2[i]
    BY <1>3
  <2>2. QED
    BY <1>2, <1>4, <1>5, <2>1, OneByOne
<1>9. IsBefore(f, q3 \o t, q4 \o t)
  <2>1. Len(q4) = Len(q3) + 1 /\ q4[1] = f /\ \A i \in 1 .. Len(q3) : q4[i + 1] = q3[i]
    BY <1>3
  <2>2. QED
    BY <1>2, <1>4, <1>5, <2>1, OneByOne
<1>10. IsBefore(c, q4 \o t, q5 \o t)
  <2>1. Len(q5) = Len(q4) + 1 /\ q5[1] = c /\ \A i \in 1 .. Len(q4) : q5[i + 1] = q4[i]
    BY <1>3
  <2>2. QED
    BY <1>2, <1>4, <1>5, <2>1, OneByOne
<1>11. IsBefore(b, q5 \o t, q6 \o t)
  <2>1. Len(q6) = Len(q5) + 1 /\ q6[1] = b /\ \A i \in 1 .. Len(q5) : q6[i + 1] = q5[i]
    BY <1>3
  <2>2. QED
    BY <1>2, <1>4, <1>5, <2>1, OneByOne
<1>12. PICK t1, t2, t3, t4, t5, t6 :
         /\ t1 = q1 \o t /\ t2 = q2 \o t /\ t3 = q3 \o t
         /\ t4 = q4 \o t /\ t5 = q5 \o t /\ t6 = q6 \o t
  OBVIOUS
<1> USE <1>1, <1>12 DEF Plain, Follows
<1>13. /\ Rightly(t1) /\ First(t1) = "commit"
       /\ Range(t) \subseteq Range(t1) /\ Kinds(t) \subseteq Kinds(t1)
  BY <1>6, PlainBefore
<1>14. /\ Rightly(t2) /\ First(t2) = "rename_copy"
       /\ Range(t1) \subseteq Range(t2) /\ Kinds(t1) \subseteq Kinds(t2)
  BY <1>7, <1>13, PlainBefore
<1>15. /\ Rightly(t3) /\ First(t3) = "drop_old" /\ Range(t2) \subseteq Range(t3)
       /\ Kinds(t3) = {"drop_old"} \cup Kinds(t2)
  BY <1>8, <1>14, PlainBefore
<1>16. /\ Rightly(t4) /\ First(t4) = "fill_copy"
       /\ Range(t3) \subseteq Range(t4) /\ Kinds(t3) \subseteq Kinds(t4)
  BY <1>9, <1>15, PlainBefore
<1>17. /\ Rightly(t5) /\ First(t5) = "create_copy"
       /\ Range(t4) \subseteq Range(t5) /\ Kinds(t4) \subseteq Kinds(t5)
  BY <1>10, <1>16, PlainBefore
<1>18. /\ Rightly(t6) /\ First(t6) = "begin"
       /\ Range(t5) \subseteq Range(t6) /\ Kinds(t5) \subseteq Kinds(t6)
  BY <1>11, <1>17, PlainBefore
<1>19. Rebuild \o t = t6
  BY <1>3 DEF Rebuild
<1>20. QED
  BY <1>13, <1>14, <1>15, <1>16, <1>17, <1>18, <1>19

(* So does the rewriting of rows, one statement for each, before the       *)
(* indexes.                                                                *)
LEMMA RewriteBefore ==
  ASSUME NEW t, Rightly(t), First(t) = "create_index",
         NEW ids \in Seq(DOMAIN entered), ids # <<>>
  PROVE  LET s == (<<Do("begin", "all")>> \o Each("rewrite_row", ids)
                   \o <<Do("commit", "all")>>) \o t
         IN  /\ Rightly(s) /\ First(s) = "begin"
             /\ Range(t) \subseteq Range(s)
             /\ Kinds(s) = {"begin", "rewrite_row", "commit"} \cup Kinds(t)
             /\ \A id \in Range(ids) : Do("rewrite_row", id) \in Range(s)
<1>1. PICK b, m, bs, e, ms : /\ b = Do("begin", "all") /\ m = Do("commit", "all")
                             /\ bs = <<b>> /\ e = Each("rewrite_row", ids) /\ ms = <<m>>
  OBVIOUS
<1>2. b \in Statements /\ m \in Statements
  BY <1>1 DEF Statements, Plain, Do
<1>3. Are("rewrite_row", DOMAIN entered, Statements) /\ "rewrite_row" \in Repeated
  BY DEF Are, Statements, Do, Repeated
<1>4. bs \in Seq(Statements) /\ ms \in Seq(Statements) /\ t \in Seq(Statements)
  BY <1>1, <1>2 DEF Rightly
<1>5. e \in Seq(Statements)
  BY <1>1, <1>3, EachIsSeq
<1>6. PICK t1, t2, t3 : t1 = ms \o t /\ t2 = e \o t1 /\ t3 = bs \o t2
  OBVIOUS
<1>7. t1 \in Seq(Statements) /\ bs \o e \in Seq(Statements)
  BY <1>4, <1>5, <1>6
<1>8. ((bs \o e) \o ms) \o t = t3
  <2>1. PICK be : be = bs \o e
    OBVIOUS
  <2>2. be \in Seq(Statements)
    BY <1>7, <2>1
  <2>3. (be \o ms) \o t = be \o (ms \o t)
    BY <1>4, <2>2, ConcatAssociative
  <2>4. (bs \o e) \o t1 = bs \o (e \o t1)
    <3>1. bs \in Seq(Statements) /\ t1 \in Seq(Statements)
      BY <1>4, <1>7
    <3>2. QED
      BY <1>5, <3>1, ConcatAssociative
  <2>5. QED
    BY <1>6, <2>1, <2>3, <2>4
<1>9. /\ IsBefore(Do("commit", "all"), t, t1) /\ IsBefore(Do("begin", "all"), t2, t3)
      /\ AreBefore("rewrite_row", ids, t1, t2)
  BY <1>1, <1>6 DEF IsBefore, AreBefore
<1>10. /\ Rightly(t1) /\ First(t1) = "commit" /\ Range(t) \subseteq Range(t1)
       /\ Kinds(t1) = {"commit"} \cup Kinds(t)
  BY <1>9, PlainBefore DEF Plain, Follows
<1>11. /\ Rightly(t2) /\ First(t2) = "rewrite_row" /\ Range(t1) \subseteq Range(t2)
       /\ Kinds(t2) = {"rewrite_row"} \cup Kinds(t1)
       /\ \A id \in Range(ids) : Do("rewrite_row", id) \in Range(t2)
  <2>1. MayLead("rewrite_row", t1)
    BY <1>10 DEF MayLead, Follows, Precedes
  <2>2. QED
    BY <1>3, <1>9, <1>10, <2>1, EachBefore
<1>12. /\ Rightly(t3) /\ First(t3) = "begin" /\ Range(t2) \subseteq Range(t3)
       /\ Kinds(t3) = {"begin"} \cup Kinds(t2)
  BY <1>9, <1>11, PlainBefore DEF Plain, Follows
<1>13. QED
  BY <1>1, <1>8, <1>10, <1>11, <1>12

------------------------------------------------------------------------------
(* The statements to come. *)

(* When a statement is done, those behind it are still in order, and every *)
(* other statement is still to come.                                       *)
LEMMA Behind ==
  ASSUME NEW r, InOrder(r), r # <<>>
  PROVE  /\ InOrder(Tail(r))
         /\ Tail(r) = <<>> => First(r) = "create_index"
         /\ Tail(r) # <<>> => First(Tail(r)) \in Follows(First(r))
         /\ \A st \in Range(r) : st = Head(r) \/ st \in Range(Tail(r))
         /\ \A what \in Kinds(r) : what = First(r) \/ what \in Kinds(Tail(r))
<1>1. r \in Seq(Statements) /\ Ordered(r)
  BY DEF InOrder
<1>2. PICK t : t = Tail(r)
  OBVIOUS
<1>3. t \in Seq(Statements)
  BY <1>1, <1>2
<1>4. Range(r) = {Head(r)} \cup Range(t) /\ Kinds(r) = {First(r)} \cup Kinds(t)
  BY <1>1, <1>2, RangeTail
<1>5. /\ Ordered(t)
      /\ t = <<>> => First(r) = "create_index"
      /\ t # <<>> => First(t) \in Follows(First(r))
      /\ \A k \in Kinds(t) : Precedes(First(r), k)
  BY <1>1, <1>2, OrderedTail
<1>6. Kinds(t) \cap Early # {} => "read_rows" \in Kinds(t)
  BY <1>4, <1>5 DEF InOrder, Precedes
<1>7. t # <<>> /\ First(t) # "create_index" =>
        \A x \in DOMAIN Index : Do("create_index", x) \in Range(t)
  <2> HAVE t # <<>> /\ First(t) # "create_index"
  <2>1. First(t) \in Kinds(t)
    BY <1>3, RangeTail
  <2>2. First(r) # "create_index"
    BY <1>5, <2>1 DEF Precedes
  <2>3. \A x : Do("create_index", x) # Head(r)
    BY <2>2 DEF First, What, Do
  <2>4. QED
    BY <1>4, <2>2, <2>3 DEF InOrder
<1>8. QED
  BY <1>2, <1>3, <1>4, <1>5, <1>6, <1>7 DEF InOrder

(* A first statement has the form of its kind. *)
LEMMA HeadFacts ==
  ASSUME NEW r, InOrder(r), r # <<>>
  PROVE  /\ Head(r) = Do(First(r), Head(r).on) /\ First(r) \in Kinds(r)
         /\ First(r) = "create_table" => Head(r).on \in Tables
         /\ First(r) = "add_column" => Head(r).on \in AddedColumns
         /\ First(r) = "create_index" => Head(r).on \in DOMAIN Index
         /\ First(r) = "rewrite_row" => Head(r).on \in DOMAIN entered
<1>1. Head(r) \in Statements /\ First(r) \in Kinds(r)
  BY RangeTail, TailFacts DEF InOrder
<1>2. QED
  BY <1>1 DEF Statements, Plain, First, What, Do

(* What a start begins with is in order. *)
LEMMA StartInOrder == InOrder(CreateTables)
  BY StartStatements DEF InOrder, Rightly

(* Statements are in order if they end a start, have the indexes in them,  *)
(* and the reading of the rows if they change the schema.                  *)
LEMMA RebuildInOrder ==
  ASSUME NEW r, InOrder(r), r # <<>>, First(r) = "look_for_client_ip"
  PROVE  /\ InOrder(Rebuild \o Tail(r)) /\ "drop_old" \in Kinds(Rebuild \o Tail(r))
         /\ Rebuild \o Tail(r) # <<>> /\ First(Rebuild \o Tail(r)) = "begin"
         /\ Range(Tail(r)) \subseteq Range(Rebuild \o Tail(r))
         /\ Kinds(Tail(r)) \subseteq Kinds(Rebuild \o Tail(r))
<1>1. PICK t, s : t = Tail(r) /\ s = Rebuild \o t
  OBVIOUS
<1>2. /\ InOrder(t) /\ t # <<>> /\ First(t) = "read_rows"
  BY <1>1, Behind DEF Follows
<1>3. Rightly(t) /\ "read_rows" \in Kinds(t)
  BY <1>2, HeadFacts DEF InOrder, Rightly
<1>4. /\ Rightly(s) /\ First(s) = "begin" /\ "drop_old" \in Kinds(s)
      /\ Range(t) \subseteq Range(s) /\ Kinds(t) \subseteq Kinds(s)
  BY <1>1, <1>2, <1>3, RebuildBefore
<1>5. \A x \in DOMAIN Index : Do("create_index", x) \in Range(s)
  BY <1>2, <1>4 DEF InOrder
<1>6. QED
  BY <1>1, <1>3, <1>4, <1>5 DEF InOrder, Rightly

LEMMA RewriteInOrder ==
  ASSUME NEW r, InOrder(r), r # <<>>, First(r) = "read_rows",
         NEW ids \in Seq(DOMAIN entered), ids # <<>>,
         NEW s, s = (<<Do("begin", "all")>> \o Each("rewrite_row", ids)
                     \o <<Do("commit", "all")>>) \o Tail(r)
  PROVE  /\ InOrder(s) /\ s # <<>> /\ First(s) = "begin"
         /\ Range(Tail(r)) \subseteq Range(s) /\ Kinds(Tail(r)) \subseteq Kinds(s)
         /\ \A id \in Range(ids) : Do("rewrite_row", id) \in Range(s)
<1>1. PICK t : t = Tail(r)
  OBVIOUS
<1>2. /\ InOrder(t) /\ t # <<>> /\ First(t) = "create_index"
  BY <1>1, Behind DEF Follows
<1>3. Rightly(t)
  BY <1>2 DEF InOrder, Rightly
<1>4. /\ Rightly(s) /\ First(s) = "begin"
      /\ Range(t) \subseteq Range(s)
      /\ Kinds(s) = {"begin", "rewrite_row", "commit"} \cup Kinds(t)
      /\ \A id \in Range(ids) : Do("rewrite_row", id) \in Range(s)
  BY <1>1, <1>2, <1>3, RewriteBefore
<1>5. \A k \in Kinds(t) : Precedes("read_rows", k)
  BY <1>1, OrderedTail DEF InOrder
<1>6. Kinds(s) \cap Early = {}
  BY <1>4, <1>5 DEF Precedes, Early
<1>7. \A x \in DOMAIN Index : Do("create_index", x) \in Range(t)
  <2>1. \A x : Do("create_index", x) # Head(r)
    BY DEF First, What, Do
  <2>2. QED
    BY <1>1, <2>1, Behind DEF InOrder
<1>8. QED
  BY <1>1, <1>4, <1>6, <1>7 DEF InOrder, Rightly

------------------------------------------------------------------------------
(* A step. *)

(* The statements that go on with the next one, whatever they do.          *)
Passes(k) ==
  Upcoming(k) /\ rest' = Tail(rest) /\ running' = running /\ entered' = entered

(* What such a step leaves to come.                                        *)
LEMMA PassesFacts ==
  ASSUME RestInv, NEW k, Passes(k)
  PROVE  /\ running' /\ rest # <<>> /\ First(rest) = k
         /\ RestInv'
         /\ rest' = <<>> => k = "create_index"
         /\ rest' # <<>> => First(rest') \in Follows(k)
         /\ \A w, x : Todo(w, x) /\ (w # k \/ x # On) => Todo(w, x)'
         /\ \A w : TodoAny(w) /\ w # k => TodoAny(w)'
<1>1. running' /\ rest # <<>> /\ First(rest) = k /\ InOrder(rest)
  BY DEF Passes, Upcoming, First, What, RestInv
<1>2. PICK t : t = rest'
  OBVIOUS
<1>3. /\ InOrder(t)
      /\ t = <<>> => k = "create_index"
      /\ t # <<>> => First(t) \in Follows(k)
      /\ \A st \in Range(rest) : st = Head(rest) \/ st \in Range(t)
      /\ \A what \in Kinds(rest) : what = First(rest) \/ what \in Kinds(t)
  BY <1>1, <1>2, Behind DEF Passes
<1>4. Statements' = Statements
  BY DEF Passes, Statements
<1>5. RestInv'
  BY <1>2, <1>3, <1>4 DEF RestInv, InOrder
<1>6. Head(rest) = Do(k, On)
  BY <1>1, HeadFacts DEF On
<1>7. \A w, x : Todo(w, x) /\ (w # k \/ x # On) => Todo(w, x)'
  <2> SUFFICES ASSUME NEW w, NEW x, Do(w, x) \in Range(rest), w # k \/ x # On
               PROVE  Do(w, x) \in Range(rest')
    BY DEF Todo
  <2>1. Do(w, x) # Do(k, On)
    BY DEF Do
  <2>2. QED
    BY <1>2, <1>3, <1>6, <2>1
<1>8. \A w : TodoAny(w) /\ w # k => TodoAny(w)'
  BY <1>1, <1>2, <1>3 DEF TodoAny
<1>9. QED
  BY <1>1, <1>2, <1>3, <1>5, <1>7, <1>8

(* Each statement but two goes on with the next.                           *)
LEMMA MostPass ==
  /\ CreateTable => Passes("create_table")
  /\ AddColumn => Passes("add_column")
  /\ DropCache => Passes("drop_cache")
  /\ CreateCopy => Passes("create_copy")
  /\ FillCopy => Passes("fill_copy")
  /\ DropOld => Passes("drop_old")
  /\ RenameCopy => Passes("rename_copy")
  /\ RewriteRow => Passes("rewrite_row")
  /\ Begin => Passes("begin")
  /\ Commit => Passes("commit")
  /\ CreateIndex => Passes("create_index")
  BY DEF CreateTable, AddColumn, DropCache, CreateCopy, FillCopy, DropOld, RenameCopy, RewriteRow,
         Begin, Commit, CreateIndex, Executes, Passes

(* The rebuild is added, or nothing is. *)
LEMMA LookFacts ==
  ASSUME RestInv, TableHasColumn
  PROVE  /\ running' /\ rest # <<>> /\ First(rest) = "look_for_client_ip"
         /\ RestInv'
         /\ rest' # <<>> /\ First(rest') \in {"begin", "read_rows"}
         /\ \A w, x : Todo(w, x) /\ w # "look_for_client_ip" => Todo(w, x)'
         /\ \A w : TodoAny(w) /\ w # "look_for_client_ip" => TodoAny(w)'
         /\ "client_ip" \in view.columns => TodoAny("drop_old")'
<1>1. /\ running' /\ rest # <<>> /\ First(rest) = "look_for_client_ip" /\ InOrder(rest)
      /\ entered' = entered
  BY DEF TableHasColumn, Executes, Upcoming, First, What, RestInv
<1>2. PICK t, s : t = Tail(rest) /\ s = rest'
  OBVIOUS
<1>3. /\ InOrder(t) /\ t # <<>> /\ First(t) = "read_rows"
      /\ \A st \in Range(rest) : st = Head(rest) \/ st \in Range(t)
      /\ \A what \in Kinds(rest) : what = First(rest) \/ what \in Kinds(t)
  BY <1>1, <1>2, Behind DEF Follows
<1>4. Statements' = Statements
  BY <1>1 DEF Statements
<1>5. /\ InOrder(s) /\ s # <<>> /\ First(s) \in {"begin", "read_rows"}
      /\ Range(t) \subseteq Range(s) /\ Kinds(t) \subseteq Kinds(s)
      /\ "client_ip" \in view.columns => "drop_old" \in Kinds(s)
  <2>1. CASE "client_ip" \in view.columns
    <3>1. s = Rebuild \o Tail(rest)
      BY <1>2, <2>1 DEF TableHasColumn, Executes
    <3>2. QED
      BY <1>1, <1>2, <3>1, RebuildInOrder
  <2>2. CASE "client_ip" \notin view.columns
    <3>1. t \in Seq(Statements)
      BY <1>3 DEF InOrder
    <3>2. s = <<>> \o t
      BY <1>2, <2>2 DEF TableHasColumn, Executes
    <3>3. s = t
      BY <3>1, <3>2, ConcatEmptySeq
    <3>4. QED
      BY <1>3, <2>2, <3>3
  <2>3. QED
    BY <2>1, <2>2
<1>6. RestInv'
  BY <1>2, <1>4, <1>5 DEF RestInv, InOrder
<1>7. \A w, x : Todo(w, x) /\ w # "look_for_client_ip" => Todo(w, x)'
  <2> SUFFICES ASSUME NEW w, NEW x, Do(w, x) \in Range(rest), w # "look_for_client_ip"
               PROVE  Do(w, x) \in Range(rest')
    BY DEF Todo
  <2>1. Do(w, x) # Head(rest)
    BY <1>1 DEF Do, First, What
  <2>2. QED
    BY <1>2, <1>3, <1>5, <2>1
<1>8. \A w : TodoAny(w) /\ w # "look_for_client_ip" => TodoAny(w)'
  BY <1>1, <1>2, <1>3, <1>5 DEF TodoAny
<1>9. "client_ip" \in view.columns => TodoAny("drop_old")'
  BY <1>2, <1>5 DEF TodoAny
<1>10. QED
  BY <1>1, <1>2, <1>5, <1>6, <1>7, <1>8, <1>9

(* The rows that change are put in a sequence; there are finitely many. *)
Changed(rows) == {id \in DOMAIN rows : Normalized(rows[id]) # rows[id]}
LEMMA MalformedFacts ==
  ASSUME NEW rows, IsFiniteSet(DOMAIN rows), NEW ids \in Malformed(rows)
  PROVE  ids \in Seq(DOMAIN rows) /\ Range(ids) = Changed(rows)
<1>1. PICK C : C = Changed(rows)
  OBVIOUS
<1>2. ids \in [1 .. Cardinality(C) -> C] /\ {ids[i] : i \in DOMAIN ids} = C
  BY <1>1 DEF Malformed, Changed
<1>3. C \subseteq DOMAIN rows
  BY <1>1 DEF Changed
<1>4. Cardinality(C) \in Nat
  BY <1>3, FS_Subset, FS_CardinalityType
<1>5. ids \in Seq(DOMAIN rows)
  BY <1>2, <1>3, <1>4
<1>6. QED
  BY <1>1, <1>2, <1>5 DEF Range

(* The rewriting of the rows that change is added, or nothing is. *)
LEMMA ReadFacts ==
  ASSUME RestInv, ReadRows, IsFiniteSet(DOMAIN view.rows), DOMAIN view.rows = DOMAIN entered
  PROVE  /\ running' /\ rest # <<>> /\ First(rest) = "read_rows"
         /\ RestInv'
         /\ rest' # <<>> /\ First(rest') \in {"begin", "create_index"}
         /\ \A w, x : Todo(w, x) /\ w # "read_rows" => Todo(w, x)'
         /\ \A w : TodoAny(w) /\ w # "read_rows" => TodoAny(w)'
         /\ \A id \in Changed(view.rows) : Todo("rewrite_row", id)'
<1>1. /\ running' /\ rest # <<>> /\ First(rest) = "read_rows" /\ InOrder(rest)
      /\ entered' = entered
  BY DEF ReadRows, Executes, Upcoming, First, What, RestInv
<1>2. PICK t, s : t = Tail(rest) /\ s = rest'
  OBVIOUS
<1>3. /\ InOrder(t) /\ t # <<>> /\ First(t) = "create_index"
      /\ \A st \in Range(rest) : st = Head(rest) \/ st \in Range(t)
      /\ \A what \in Kinds(rest) : what = First(rest) \/ what \in Kinds(t)
  BY <1>1, <1>2, Behind DEF Follows
<1>4. Statements' = Statements
  BY <1>1 DEF Statements
<1>5. PICK ids \in Malformed(view.rows) :
        s = (IF ids = <<>> THEN <<>>
             ELSE <<Do("begin", "all")>> \o Each("rewrite_row", ids)
                  \o <<Do("commit", "all")>>) \o Tail(rest)
  BY <1>2 DEF ReadRows, Executes
<1>6. ids \in Seq(DOMAIN entered) /\ Range(ids) = Changed(view.rows)
  BY MalformedFacts
<1>7. /\ InOrder(s) /\ s # <<>> /\ First(s) \in {"begin", "create_index"}
      /\ Range(t) \subseteq Range(s) /\ Kinds(t) \subseteq Kinds(s)
      /\ \A id \in Range(ids) : Do("rewrite_row", id) \in Range(s)
  <2>1. CASE ids # <<>>
    <3>1. s = (<<Do("begin", "all")>> \o Each("rewrite_row", ids)
               \o <<Do("commit", "all")>>) \o Tail(rest)
      BY <1>5, <2>1
    <3>2. QED
      BY <1>1, <1>2, <1>6, <2>1, <3>1, RewriteInOrder
  <2>2. CASE ids = <<>>
    <3>1. t \in Seq(Statements)
      BY <1>3 DEF InOrder
    <3>2. s = <<>> \o t
      BY <1>2, <1>5, <2>2
    <3>3. s = t
      BY <3>1, <3>2, ConcatEmptySeq
    <3>4. Range(ids) = {}
      BY <2>2 DEF Range
    <3>5. QED
      BY <1>3, <3>3, <3>4
  <2>3. QED
    BY <2>1, <2>2
<1>8. RestInv'
  BY <1>2, <1>4, <1>7 DEF RestInv, InOrder
<1>9. \A w, x : Todo(w, x) /\ w # "read_rows" => Todo(w, x)'
  <2> SUFFICES ASSUME NEW w, NEW x, Do(w, x) \in Range(rest), w # "read_rows"
               PROVE  Do(w, x) \in Range(rest')
    BY DEF Todo
  <2>1. Do(w, x) # Head(rest)
    BY <1>1 DEF Do, First, What
  <2>2. QED
    BY <1>2, <1>3, <1>7, <2>1
<1>10. \A w : TodoAny(w) /\ w # "read_rows" => TodoAny(w)'
  BY <1>1, <1>2, <1>3, <1>7 DEF TodoAny
<1>11. \A id \in Changed(view.rows) : Todo("rewrite_row", id)'
  BY <1>2, <1>6, <1>7 DEF Todo
<1>12. QED
  BY <1>1, <1>2, <1>7, <1>8, <1>9, <1>10, <1>11

(* The kinds of statements that go on with the next one and leave the      *)
(* transaction as it is.                                                   *)
Simple == {"create_table", "add_column", "drop_cache", "create_copy", "fill_copy", "drop_old",
           "rename_copy", "rewrite_row", "create_index"}
LEMMA ExecutesFacts ==
  /\ CreateTable \/ AddColumn \/ DropCache \/ CreateCopy \/ FillCopy \/ DropOld
     \/ RenameCopy \/ RewriteRow \/ CreateIndex
       => (\E k \in Simple : Passes(k)) /\ inTx' = inTx /\ (~inTx => view' = disk')
  /\ TableHasColumn \/ ReadRows => inTx' = inTx /\ (~inTx => view' = disk')
<1> USE DEF Executes
<1>1. /\ CreateTable \/ AddColumn \/ DropCache \/ CreateCopy \/ FillCopy \/ DropOld
         \/ RenameCopy \/ RewriteRow \/ CreateIndex
           => \E k \in Simple : Passes(k)
  BY MostPass DEF Simple
<1>2. CreateTable \/ AddColumn \/ DropCache => inTx' = inTx /\ (~inTx => view' = disk')
  BY DEF CreateTable, AddColumn, DropCache
<1>3. CreateCopy \/ FillCopy \/ DropOld => inTx' = inTx /\ (~inTx => view' = disk')
  BY DEF CreateCopy, FillCopy, DropOld
<1>4. RenameCopy \/ RewriteRow \/ CreateIndex => inTx' = inTx /\ (~inTx => view' = disk')
  BY DEF RenameCopy, RewriteRow, CreateIndex
<1>5. TableHasColumn \/ ReadRows => inTx' = inTx /\ (~inTx => view' = disk')
  BY DEF TableHasColumn, ReadRows
<1>6. QED
  BY <1>1, <1>2, <1>3, <1>4, <1>5

(* What the first part of the invariant says of the next state.            *)
LEMMA RestStep ==
  ASSUME IInv, Next
  PROVE  RestInv'
<1> USE DEF IInv
<1>1. CASE TableHasColumn
  BY <1>1, LookFacts
<1>2. CASE ReadRows
  <2>1. DOMAIN view.rows = DOMAIN entered /\ IsFiniteSet(DOMAIN view.rows)
    BY <1>2 DEF ReadRows, Upcoming, RowsInv, Kept, Carries
  <2>2. QED
    BY <1>2, <2>1, ReadFacts
<1>3. CASE ProcessEnds
  <2>1. Range(<<>>) = {} /\ Kinds(<<>>) = {} /\ <<>> \in Seq(Statements')
    BY DEF Range, Kinds
  <2>2. Ordered(<<>>)
    BY DEF Ordered, Chained
  <2>3. rest' = <<>>
    BY <1>3 DEF ProcessEnds
  <2>4. QED
    BY <2>1, <2>2, <2>3 DEF RestInv, InOrder
<1>4. CASE Start
  <2>1. Statements' = Statements /\ rest' = CreateTables
    BY <1>4 DEF Start, Statements
  <2>2. QED
    BY <2>1, StartInOrder DEF RestInv, InOrder
<1>5. QED
  BY <1>1, <1>2, <1>3, <1>4, MostPass, PassesFacts DEF Next, Proceed

(* A transaction begins with a begin, and ends with a commit or the process. *)
LEMMA TxStep ==
  ASSUME IInv, Next
  PROVE  TxInv'
<1>1. RestInv /\ TxInv
  BY DEF IInv
<1>2. ASSUME NEW k \in Simple, Passes(k), inTx' = inTx, ~inTx => view' = disk'
      PROVE  TxInv'
  <2>1. /\ running' /\ rest # <<>> /\ First(rest) = k /\ running
        /\ rest' = <<>> => k = "create_index"
        /\ rest' # <<>> => First(rest') \in Follows(k)
    BY <1>1, <1>2, PassesFacts DEF Passes, Upcoming
  <2>2. inTx <=> k \in TxSteps
    BY <1>1, <2>1 DEF TxInv
  <2>3. CASE k \in TxSteps
    <3>1. rest' # <<>> /\ First(rest') \in TxSteps
      BY <2>1, <2>3 DEF Follows, TxSteps, Simple
    <3>2. QED
      BY <1>1, <1>2, <2>1, <2>2, <2>3, <3>1 DEF TxInv, Passes
  <2>4. CASE k \notin TxSteps
    <3>1. rest' # <<>> => First(rest') \notin TxSteps
      BY <2>1, <2>4 DEF Follows, TxSteps, Simple
    <3>2. QED
      BY <1>1, <1>2, <2>1, <2>2, <2>4, <3>1 DEF TxInv, Passes
  <2>5. QED
    BY <2>3, <2>4
<1>3. CASE TableHasColumn
  <2>1. /\ running' /\ rest # <<>> /\ First(rest) = "look_for_client_ip"
        /\ rest' # <<>> /\ First(rest') \notin TxSteps
    BY <1>1, <1>3, LookFacts DEF TxSteps
  <2>2. ~inTx' /\ inTx' \in BOOLEAN /\ view' = disk' /\ running' \in BOOLEAN
    BY <1>1, <1>3, <2>1, ExecutesFacts DEF TxInv, TxSteps, TableHasColumn, Executes
  <2>3. QED
    BY <2>1, <2>2 DEF TxInv
<1>4. CASE ReadRows
  <2>1. DOMAIN view.rows = DOMAIN entered /\ IsFiniteSet(DOMAIN view.rows)
    BY <1>4 DEF IInv, ReadRows, Upcoming, RowsInv, Kept, Carries
  <2>2. /\ running' /\ rest # <<>> /\ First(rest) = "read_rows"
        /\ rest' # <<>> /\ First(rest') \notin TxSteps
    BY <1>1, <1>4, <2>1, ReadFacts DEF TxSteps
  <2>3. ~inTx' /\ inTx' \in BOOLEAN /\ view' = disk' /\ running' \in BOOLEAN
    BY <1>1, <1>4, <2>2, ExecutesFacts DEF TxInv, TxSteps, ReadRows, Executes
  <2>4. QED
    BY <2>2, <2>3 DEF TxInv
<1>5. CASE Begin
  <2>1. /\ running' /\ rest' # <<>> /\ First(rest') \in Follows("begin")
    BY <1>1, <1>5, MostPass, PassesFacts
  <2>2. inTx' = TRUE /\ running' \in BOOLEAN
    BY <1>1, <1>5 DEF Begin, TxInv
  <2>3. QED
    BY <2>1, <2>2 DEF TxInv, Follows, TxSteps
<1>6. CASE Commit
  <2>1. /\ running' /\ rest' # <<>> /\ First(rest') \in Follows("commit")
    BY <1>1, <1>6, MostPass, PassesFacts
  <2>2. inTx' = FALSE /\ view' = disk' /\ running' \in BOOLEAN
    BY <1>1, <1>6 DEF Commit, TxInv
  <2>3. QED
    BY <2>1, <2>2 DEF TxInv, Follows, TxSteps
<1>7. CASE ProcessEnds
  BY <1>7 DEF ProcessEnds, TxInv
<1>8. CASE Start
  <2>1. rest' # <<>> /\ First(rest') = "create_table"
    BY <1>8, StartStatements DEF Start, Rightly
  <2>2. ~inTx' /\ inTx' \in BOOLEAN /\ view' = disk' /\ running' = TRUE
    BY <1>1, <1>8 DEF Start, TxInv
  <2>3. QED
    BY <2>1, <2>2 DEF TxInv, TxSteps
<1>9. QED
  BY <1>2, <1>3, <1>4, <1>5, <1>6, <1>7, <1>8, ExecutesFacts DEF Next, Proceed

------------------------------------------------------------------------------
(* The rows. *)

(* The next statement is the first of those to come. *)
LEMMA UpcomingIsFirst ==
  ASSUME NEW w
  PROVE  /\ Upcoming(w) <=> running /\ rest # <<>> /\ First(rest) = w
         /\ Upcoming(w)' <=> running' /\ rest' # <<>> /\ First(rest') = w
  BY DEF Upcoming, First, What

(* Rows keep their names when they get more columns. *)
LEMMA WithColumnsCarries ==
  ASSUME NEW rows, Carries(rows), NEW columns,
         \A id \in DOMAIN entered : DOMAIN entered[id] \ {"client_ip"} \subseteq columns
  PROVE  /\ Carries(WithColumns(rows, columns))
         /\ \A id \in DOMAIN WithColumns(rows, columns) :
              DOMAIN WithColumns(rows, columns)[id] = columns
  BY DEF Carries, WithColumns, ValueIn

(* A name is the same without the quotes around it. *)
LEMMA NormalizedName ==
  ASSUME NEW v
  PROVE  Name(NormalizeNullable(v)) = Name(v)
<1>1. \A name : Text(name) # Null /\ Text(name)[1] = name
  BY DEF Text, Null
<1>2. QED
  BY <1>1 DEF NormalizeNullable, Blank, Name

(* A step that leaves the connection no table half rebuilt keeps the rows, *)
(* if they are kept in what the connection sees, and on disk.              *)
LEMMA Settled ==
  ASSUME RowsInv, entered' = entered,
         Known(view'), "traffic_stats_new" \notin view'.tables,
         Kept(view'.tables, view'.columns, view'.rows),
         disk' = disk \/ disk' = view',
         rest' # <<>> => First(rest') \notin {"drop_old", "rename_copy"}
  PROVE  RowsInv'
<1>1. ~Upcoming("drop_old")' /\ ~Upcoming("rename_copy")'
  BY UpcomingIsFirst
<1>2. /\ Known(view)' /\ "traffic_stats_new" \notin view'.tables
      /\ Kept(view.tables, view.columns, view.rows)'
  BY DEF Known, Kept, Carries
<1>3. Known(disk)' /\ "traffic_stats_new" \notin disk'.tables
  BY DEF RowsInv, Known
<1>4. Kept(disk.tables, disk.columns, disk.rows)'
  BY DEF RowsInv, Kept, Carries
<1>5. /\ IsFiniteSet(DOMAIN entered)'
      /\ (\A id \in DOMAIN entered : DOMAIN entered[id] \subseteq Columns \cup {"client_ip"})'
  BY DEF RowsInv
<1>6. QED
  BY <1>1, <1>2, <1>3, <1>4, <1>5 DEF RowsInv

(* Before a statement outside a rebuild no table is half rebuilt. *)
LEMMA Whole ==
  ASSUME IInv, NEW k, Upcoming(k), k \notin {"fill_copy", "drop_old", "rename_copy"}
  PROVE  /\ Known(view) /\ "traffic_stats_new" \notin view.tables
         /\ Kept(view.tables, view.columns, view.rows)
         /\ RowsInv
  BY UpcomingIsFirst DEF IInv, RowsInv

(* What happens to the tables before the rows are read keeps the rows.     *)
LEMMA TablesKeepRows ==
  ASSUME IInv, CreateTable \/ AddColumn \/ DropCache \/ CreateIndex
  PROVE  RowsInv'
<1>1. PICK k \in {"create_table", "add_column", "drop_cache", "create_index"} : Passes(k)
  BY MostPass
<1>2. /\ Known(view) /\ "traffic_stats_new" \notin view.tables
      /\ Kept(view.tables, view.columns, view.rows) /\ RowsInv
  BY <1>1, Whole DEF Passes
<1>3. /\ RestInv /\ TxInv /\ rest # <<>> /\ First(rest) = k /\ InOrder(rest)
      /\ rest' # <<>> => First(rest') \notin {"drop_old", "rename_copy"}
      /\ rest' # <<>> => First(rest') \in Follows(k)
  BY <1>1, PassesFacts DEF IInv, Follows, RestInv
<1>4. entered' = entered /\ disk' = view'
  <2>1. ~inTx
    BY <1>3 DEF TxInv, TxSteps
  <2>2. QED
    BY <1>1, <2>1, ExecutesFacts DEF Passes
<1>5. /\ Known(view') /\ "traffic_stats_new" \notin view'.tables
      /\ Kept(view'.tables, view'.columns, view'.rows)
  <2>1. CASE CreateTable
    <3>1. On \in Tables
      BY <1>3, <2>1, HeadFacts, UpcomingIsFirst DEF CreateTable, On
    <3>2. CASE On \in view.tables
      BY <1>2, <2>1, <3>2 DEF CreateTable, Executes
    <3>3. CASE On \notin view.tables /\ On # "traffic_stats"
      <4>1. view' = [view EXCEPT !.tables = @ \cup {On}]
        BY <2>1, <3>3 DEF CreateTable, Executes
      <4>2. QED
        BY <1>2, <3>1, <3>3, <4>1 DEF Known, Kept, Tables, Fields
    <3>4. CASE On \notin view.tables /\ On = "traffic_stats"
      <4>1. view' = [view EXCEPT !.tables = @ \cup {On}, !.columns = Columns, !.rows = Null]
        BY <2>1, <3>4 DEF CreateTable, Executes
      <4>2. Known(view') /\ "traffic_stats_new" \notin view'.tables
        BY <1>2, <3>1, <4>1 DEF Known, Tables, Fields
      <4>3. view'.columns = Columns /\ view'.rows = Null /\ DOMAIN entered = {}
        BY <1>2, <3>4, <4>1 DEF Known, Kept, Fields
      <4>4. DOMAIN Null = {}
        BY DEF Null
      <4>5. QED
        BY <4>2, <4>3, <4>4 DEF Kept, Carries, Columns
    <3>5. QED
      BY <3>2, <3>3, <3>4
  <2>2. CASE AddColumn
    <3>1. On \in AddedColumns
      BY <1>3, <2>2, HeadFacts, UpcomingIsFirst DEF AddColumn, On
    <3>2. view' = [view EXCEPT !.columns = @ \cup {On},
                               !.rows = WithColumns(@, view.columns \cup {On})]
      BY <2>2 DEF AddColumn, Executes
    <3>3. /\ DOMAIN view' = Fields /\ view'.tables = view.tables /\ view'.indexes = view.indexes
          /\ view'.columns = view.columns \cup {On}
          /\ view'.rows = WithColumns(view.rows, view.columns \cup {On})
      BY <1>2, <3>2 DEF Known, Fields
    <3>4. \A id \in DOMAIN entered :
            DOMAIN entered[id] \ {"client_ip"} \subseteq view.columns \cup {On}
      BY <1>2 DEF Kept, Carries
    <3>5. /\ Carries(view'.rows)
          /\ \A id \in DOMAIN view'.rows : DOMAIN view'.rows[id] = view'.columns
      BY <1>2, <3>3, <3>4, WithColumnsCarries DEF Kept
    <3>6. QED
      BY <1>2, <3>1, <3>3, <3>5 DEF Known, Kept, Columns
  <2>3. CASE DropCache
    <3>1. view' = [view EXCEPT !.tables = @ \ {"ip_geo_cache"}]
      BY <2>3 DEF DropCache, Executes
    <3>2. QED
      BY <1>2, <3>1 DEF Known, Kept, Fields
  <2>4. CASE CreateIndex
    <3>1. On \in DOMAIN Index
      BY <1>3, <2>4, HeadFacts, UpcomingIsFirst DEF CreateIndex, On
    <3>2. view' = [view EXCEPT !.indexes = @ \cup {On}]
      BY <2>4 DEF CreateIndex, Executes
    <3>3. QED
      BY <1>2, <3>1, <3>2 DEF Known, Kept, Fields
  <2>5. QED
    BY <2>1, <2>2, <2>3, <2>4
<1>6. QED
  BY <1>2, <1>3, <1>4, <1>5, Settled

(* A rebuild has the rows in the old table, or in the copy.                *)
LEMMA RebuildKeepsRows ==
  ASSUME IInv, CreateCopy \/ FillCopy \/ DropOld \/ RenameCopy
  PROVE  RowsInv'
<1>1. PICK k \in {"create_copy", "fill_copy", "drop_old", "rename_copy"} : Passes(k)
  BY MostPass
<1>2. /\ RestInv /\ TxInv /\ RowsInv /\ running' /\ rest # <<>> /\ First(rest) = k
      /\ rest' # <<>> /\ First(rest') \in Follows(k)
  BY <1>1, PassesFacts DEF IInv
<1>3. entered' = entered /\ disk' = disk /\ Known(view)
  <2>1. inTx
    BY <1>2 DEF TxInv, TxSteps
  <2>2. disk' = disk
    BY <2>1 DEF CreateCopy, FillCopy, DropOld, RenameCopy, Executes
  <2>3. QED
    BY <1>1, <1>2, <2>2 DEF Passes, RowsInv
<1>4. /\ IsFiniteSet(DOMAIN entered)'
      /\ (\A id \in DOMAIN entered : DOMAIN entered[id] \subseteq Columns \cup {"client_ip"})'
      /\ Known(disk)' /\ ("traffic_stats_new" \notin disk.tables)'
      /\ Kept(disk.tables, disk.columns, disk.rows)'
  BY <1>2, <1>3 DEF RowsInv, Known, Kept, Carries
<1>5. \A w : Upcoming(w)' <=> First(rest') = w
  BY <1>2, UpcomingIsFirst
<1>6. CASE CreateCopy
  <2>1. Upcoming("create_copy") /\ First(rest) = "create_copy"
    BY <1>6, UpcomingIsFirst DEF CreateCopy
  <2>2. First(rest') = "fill_copy"
    BY <1>2, <2>1 DEF Follows
  <2>3. Kept(view.tables, view.columns, view.rows)
    BY <2>1, Whole
  <2>4. view' = [view EXCEPT !.tables = @ \cup {"traffic_stats_new"}, !.copy = Null]
    BY <1>6 DEF CreateCopy, Executes
  <2>5. Known(view)' /\ Kept(view.tables, view.columns, view.rows)'
    BY <1>3, <2>3, <2>4 DEF Known, Kept, Carries, Fields
  <2>6. QED
    BY <1>4, <1>5, <2>2, <2>5 DEF RowsInv
<1>7. CASE FillCopy
  <2>1. Upcoming("fill_copy") /\ First(rest) = "fill_copy"
    BY <1>7, UpcomingIsFirst DEF FillCopy
  <2>2. First(rest') = "drop_old"
    BY <1>2, <2>1 DEF Follows
  <2>3. Kept(view.tables, view.columns, view.rows)
    BY <1>2, <2>1, UpcomingIsFirst DEF RowsInv
  <2>4. view' = [view EXCEPT !.copy = WithColumns(view.rows, Columns)]
    BY <1>7 DEF FillCopy, Executes
  <2>5. /\ DOMAIN view' = Fields /\ view'.tables = view.tables /\ view'.indexes = view.indexes
        /\ view'.columns = view.columns /\ view'.rows = view.rows
        /\ view'.copy = WithColumns(view.rows, Columns)
    BY <1>3, <2>4 DEF Known, Fields
  <2>6. Known(view)' /\ Kept(view.tables, view.columns, view.rows)'
    BY <1>3, <2>3, <2>5 DEF Known, Kept, Carries
  <2>7. /\ Carries(view'.copy)
        /\ \A id \in DOMAIN view'.copy : DOMAIN view'.copy[id] = Columns
    <3>1. \A id \in DOMAIN entered : DOMAIN entered[id] \ {"client_ip"} \subseteq Columns
      BY <1>2 DEF RowsInv
    <3>2. QED
      BY <2>3, <2>5, <3>1, WithColumnsCarries DEF Kept
  <2>8. Kept({"traffic_stats"}, Columns, view.copy)'
    BY <1>3, <2>7 DEF Kept, Carries, Columns
  <2>9. QED
    BY <1>4, <1>5, <2>2, <2>6, <2>8 DEF RowsInv
<1>8. CASE DropOld
  <2>1. Upcoming("drop_old") /\ First(rest) = "drop_old"
    BY <1>8, UpcomingIsFirst DEF DropOld
  <2>2. First(rest') = "rename_copy"
    BY <1>2, <2>1 DEF Follows
  <2>3. Kept({"traffic_stats"}, Columns, view.copy)
    BY <1>2, <2>1 DEF RowsInv
  <2>4. view' = [view EXCEPT !.tables = @ \ {"traffic_stats"}, !.rows = Null, !.columns = {},
                             !.indexes = @ \cap {"idx_client_rules_match"}]
    BY <1>8 DEF DropOld, Executes
  <2>5. Known(view)' /\ view'.copy = view.copy
    BY <1>3, <2>4 DEF Known, Fields
  <2>6. Kept({"traffic_stats"}, Columns, view.copy)'
    BY <1>3, <2>3, <2>5 DEF Kept, Carries
  <2>7. QED
    BY <1>4, <1>5, <2>2, <2>5, <2>6 DEF RowsInv
<1>9. CASE RenameCopy
  <2>1. Upcoming("rename_copy") /\ First(rest) = "rename_copy"
    BY <1>9, UpcomingIsFirst DEF RenameCopy
  <2>2. First(rest') = "commit"
    BY <1>2, <2>1 DEF Follows
  <2>3. Kept({"traffic_stats"}, Columns, view.copy)
    BY <1>2, <2>1 DEF RowsInv
  <2>4. view' = [view EXCEPT !.tables = (@ \ {"traffic_stats_new"}) \cup {"traffic_stats"},
                             !.columns = Columns, !.rows = view.copy, !.copy = Null]
    BY <1>9 DEF RenameCopy, Executes
  <2>5. /\ DOMAIN view' = Fields /\ view'.indexes = view.indexes
        /\ view'.tables = (view.tables \ {"traffic_stats_new"}) \cup {"traffic_stats"}
        /\ view'.columns = Columns /\ view'.rows = view.copy
    BY <1>3, <2>4 DEF Known, Fields
  <2>6. Known(view') /\ "traffic_stats_new" \notin view'.tables
    BY <1>3, <2>5 DEF Known, Tables
  <2>7. Kept(view'.tables, view'.columns, view'.rows)
    BY <2>3, <2>5 DEF Kept
  <2>8. QED
    BY <1>2, <1>3, <2>2, <2>6, <2>7, Settled
<1>10. QED
  BY <1>6, <1>7, <1>8, <1>9

(* The rewriting of rows keeps them, and so does all else. *)
LEMMA RowsStep ==
  ASSUME IInv, Next
  PROVE  RowsInv'
<1>1. RestInv /\ TxInv /\ RowsInv
  BY DEF IInv
<1>2. CASE CreateTable \/ AddColumn \/ DropCache \/ CreateIndex
  BY <1>2, TablesKeepRows
<1>3. CASE CreateCopy \/ FillCopy \/ DropOld \/ RenameCopy
  BY <1>3, RebuildKeepsRows
<1>4. CASE TableHasColumn
  <2>1. First(rest') \in {"begin", "read_rows"}
    BY <1>1, <1>4, LookFacts
  <2>2. /\ view' = view /\ (disk' = disk \/ disk' = view') /\ entered' = entered
        /\ Upcoming("look_for_client_ip")
    BY <1>4 DEF TableHasColumn, Executes
  <2>3. QED
    BY <2>1, <2>2, Whole, Settled
<1>5. CASE ReadRows
  <2>1. /\ view' = view /\ (disk' = disk \/ disk' = view') /\ entered' = entered
        /\ Upcoming("read_rows")
    BY <1>5 DEF ReadRows, Executes
  <2>2. Kept(view.tables, view.columns, view.rows)
    BY <2>1, Whole
  <2>3. First(rest') \in {"begin", "create_index"}
    BY <1>1, <1>5, <2>2, ReadFacts DEF RowsInv, Kept, Carries
  <2>4. QED
    BY <2>1, <2>3, Whole, Settled
<1>6. CASE RewriteRow
  <2>1. Passes("rewrite_row") /\ Upcoming("rewrite_row")
    BY <1>6, MostPass DEF RewriteRow
  <2>2. First(rest') \in Follows("rewrite_row") /\ rest # <<>> /\ First(rest) = "rewrite_row"
    BY <1>1, <2>1, PassesFacts
  <2>3. inTx
    BY <1>1, <2>2 DEF TxInv, TxSteps
  <2>4. entered' = entered /\ disk' = disk
    BY <1>6, <2>3 DEF RewriteRow, Executes
  <2>5. /\ Known(view) /\ "traffic_stats_new" \notin view.tables
        /\ Kept(view.tables, view.columns, view.rows)
    BY <2>1, Whole
  <2>6. On \in DOMAIN entered
    BY <1>1, <2>2, HeadFacts DEF RestInv, On
  <2>7. view' = [view EXCEPT !.rows[On] = Normalized(@)]
    BY <1>6 DEF RewriteRow, Executes
  <2>8. /\ DOMAIN view' = Fields /\ view'.tables = view.tables /\ view'.indexes = view.indexes
        /\ view'.columns = view.columns
        /\ view'.rows = [view.rows EXCEPT ![On] = Normalized(@)]
    BY <2>5, <2>7 DEF Known, Fields
  <2>9. \A row : /\ DOMAIN Normalized(row) = DOMAIN row
                 /\ \A c \in DOMAIN row : Name(Normalized(row)[c]) = Name(row[c])
    BY NormalizedName DEF Normalized
  <2>10. Kept(view'.tables, view'.columns, view'.rows)
    BY <2>5, <2>6, <2>8, <2>9 DEF Kept, Carries
  <2>11. Known(view') /\ "traffic_stats_new" \notin view'.tables
    BY <2>5, <2>8 DEF Known
  <2>12. QED
    BY <1>1, <2>2, <2>4, <2>10, <2>11, Settled DEF Follows
<1>7. CASE Begin \/ Commit
  <2>1. PICK k \in {"begin", "commit"} : Passes(k)
    BY <1>7, MostPass
  <2>2. /\ rest' # <<>> => First(rest') \notin {"drop_old", "rename_copy"}
    BY <1>1, <2>1, PassesFacts DEF Follows
  <2>3. view' = view /\ (disk' = disk \/ disk' = view') /\ entered' = entered
    BY <1>7 DEF Begin, Commit
  <2>4. QED
    BY <2>1, <2>2, <2>3, Whole, Settled DEF Passes
<1>8. CASE ProcessEnds
  BY <1>1, <1>8, Settled DEF ProcessEnds, RowsInv
<1>9. CASE Start
  <2>1. rest' # <<>> /\ First(rest') = "create_table"
    BY <1>9, StartStatements DEF Start, Rightly
  <2>2. view' = disk /\ disk' = disk /\ entered' = entered
    BY <1>1, <1>9 DEF Start, TxInv
  <2>3. QED
    BY <1>1, <2>1, <2>2, Settled DEF RowsInv
<1>10. QED
  BY <1>2, <1>3, <1>4, <1>5, <1>6, <1>7, <1>8, <1>9 DEF Next, Proceed

------------------------------------------------------------------------------
(* What is still to do. *)

(* While the schema changes, the rows are still to be read.                *)
LEMMA EarlyReadsLater ==
  ASSUME RestInv, NEW k \in Early, Passes(k)
  PROVE  TodoRows'
<1>1. rest # <<>> /\ First(rest) = k /\ InOrder(rest) /\ k # "read_rows"
  BY UpcomingIsFirst DEF Passes, RestInv, Early
<1>2. TodoAny("read_rows")
  BY <1>1, HeadFacts DEF InOrder, TodoAny
<1>3. QED
  BY <1>1, <1>2, PassesFacts DEF TodoRows

(* What stays to do when a statement takes nothing away from the schema,   *)
(* and adds what it is for.                                                *)
LEMMA LessToDo ==
  ASSUME IInv, NEW k, Passes(k), k # "rename_copy",
         view.tables \ {"ip_geo_cache"} \subseteq view'.tables,
         "ip_geo_cache" \in view'.tables => "ip_geo_cache" \in view.tables /\ k # "drop_cache",
         k = "create_table" => On \in view'.tables,
         view.columns \subseteq view'.columns \/ Columns \subseteq view'.columns,
         "client_ip" \in view'.columns => "client_ip" \in view.columns /\ k # "drop_old",
         k = "add_column" => On \in view'.columns,
         k # "look_for_client_ip",
         view.indexes \subseteq view'.indexes,
         k = "create_index" => On \in view'.indexes
  PROVE  TodoTables' /\ TodoColumns' /\ TodoFormer' /\ TodoIndexes'
<1>1. /\ running /\ First(rest) = k /\ RestInv /\ ~Upcoming("rename_copy")
      /\ TodoTables /\ TodoColumns /\ TodoFormer /\ TodoIndexes
  BY UpcomingIsFirst DEF Passes, IInv, TodoInv
<1>2. /\ \A w, x : Todo(w, x) /\ (w # k \/ x # On) => Todo(w, x)'
      /\ \A w : TodoAny(w) /\ w # k => TodoAny(w)'
  BY <1>1, PassesFacts
<1>3. TodoTables'
  BY <1>1, <1>2 DEF TodoTables, Tables
<1>4. TodoColumns'
  BY <1>1, <1>2 DEF TodoColumns, Columns
<1>5. TodoFormer'
  BY <1>1, <1>2 DEF TodoFormer
<1>6. TodoIndexes'
  BY <1>1, <1>2 DEF TodoIndexes
<1>7. QED
  BY <1>3, <1>4, <1>5, <1>6

(* Before the rebuild, what a statement is for is done. *)
LEMMA TablesToDo ==
  ASSUME IInv, CreateTable \/ AddColumn \/ DropCache \/ CreateIndex
  PROVE  TodoInv'
<1>1. RestInv /\ RowsInv /\ TodoInv
  BY DEF IInv
<1>2. CASE CreateTable
  <2>1. Passes("create_table") /\ Known(view) /\ First(rest) = "create_table" /\ rest # <<>>
    BY <1>1, <1>2, MostPass, PassesFacts DEF RowsInv
  <2>2. On \in Tables
    BY <1>1, <2>1, HeadFacts DEF On, RestInv
  <2>3. /\ view'.tables = view.tables \cup {On} /\ view'.indexes = view.indexes
        /\ view'.columns = view.columns \/ view'.columns = Columns
    BY <1>2, <2>1 DEF CreateTable, Executes, Known, Fields
  <2>4. TodoTables' /\ TodoColumns' /\ TodoFormer' /\ TodoIndexes'
    BY <2>1, <2>2, <2>3, LessToDo DEF Tables, Columns, AddedColumns, Added
  <2>5. QED
    BY <1>1, <2>1, <2>4, EarlyReadsLater DEF TodoInv, Early
<1>3. CASE AddColumn
  <2>1. Passes("add_column") /\ Known(view) /\ First(rest) = "add_column" /\ rest # <<>>
    BY <1>1, <1>3, MostPass, PassesFacts DEF RowsInv
  <2>2. On \in AddedColumns
    BY <1>1, <2>1, HeadFacts DEF On, RestInv
  <2>3. /\ view'.tables = view.tables /\ view'.indexes = view.indexes
        /\ view'.columns = view.columns \cup {On}
    BY <1>3, <2>1 DEF AddColumn, Executes, Known, Fields
  <2>4. TodoTables' /\ TodoColumns' /\ TodoFormer' /\ TodoIndexes'
    BY <2>1, <2>2, <2>3, LessToDo DEF AddedColumns, Added
  <2>5. QED
    BY <1>1, <2>1, <2>4, EarlyReadsLater DEF TodoInv, Early
<1>4. CASE DropCache
  <2>1. Passes("drop_cache") /\ Known(view)
    BY <1>1, <1>4, MostPass DEF RowsInv
  <2>2. /\ view'.tables = view.tables \ {"ip_geo_cache"} /\ view'.indexes = view.indexes
        /\ view'.columns = view.columns
    BY <1>4, <2>1 DEF DropCache, Executes, Known, Fields
  <2>3. TodoTables' /\ TodoColumns' /\ TodoFormer' /\ TodoIndexes'
    BY <2>1, <2>2, LessToDo
  <2>4. QED
    BY <1>1, <2>1, <2>3, EarlyReadsLater DEF TodoInv, Early
<1>5. CASE CreateIndex
  <2>1. Passes("create_index") /\ Known(view) /\ running
    BY <1>1, <1>5, MostPass DEF RowsInv, Passes, Upcoming
  <2>2. /\ view'.tables = view.tables /\ view'.indexes = view.indexes \cup {On}
        /\ view'.columns = view.columns /\ view'.rows = view.rows
    BY <1>5, <2>1 DEF CreateIndex, Executes, Known, Fields
  <2>3. TodoTables' /\ TodoColumns' /\ TodoFormer' /\ TodoIndexes'
    BY <2>1, <2>2, LessToDo
  <2>4. TodoRows'
    BY <1>1, <2>1, <2>2, PassesFacts DEF TodoInv, TodoRows, Clean
  <2>5. QED
    BY <2>3, <2>4 DEF TodoInv
<1>6. QED
  BY <1>2, <1>3, <1>4, <1>5

(* The rebuild takes the table, its columns and their indexes away, and    *)
(* brings them back; the indexes are still to be made.                     *)
LEMMA RebuildToDo ==
  ASSUME IInv, CreateCopy \/ FillCopy \/ DropOld \/ RenameCopy
  PROVE  TodoInv'
<1>1. RestInv /\ RowsInv /\ TodoInv
  BY DEF IInv
<1>2. CASE CreateCopy
  <2>1. Passes("create_copy") /\ Known(view)
    BY <1>1, <1>2, MostPass DEF RowsInv
  <2>2. /\ view'.tables = view.tables \cup {"traffic_stats_new"}
        /\ view'.indexes = view.indexes /\ view'.columns = view.columns
    BY <1>2, <2>1 DEF CreateCopy, Executes, Known, Fields
  <2>3. TodoTables' /\ TodoColumns' /\ TodoFormer' /\ TodoIndexes'
    BY <2>1, <2>2, LessToDo
  <2>4. QED
    BY <1>1, <2>1, <2>3, EarlyReadsLater DEF TodoInv, Early
<1>3. CASE FillCopy
  <2>1. Passes("fill_copy") /\ Known(view)
    BY <1>1, <1>3, MostPass DEF RowsInv
  <2>2. /\ view'.tables = view.tables /\ view'.indexes = view.indexes
        /\ view'.columns = view.columns
    BY <1>3, <2>1 DEF FillCopy, Executes, Known, Fields
  <2>3. TodoTables' /\ TodoColumns' /\ TodoFormer' /\ TodoIndexes'
    BY <2>1, <2>2, LessToDo
  <2>4. QED
    BY <1>1, <2>1, <2>3, EarlyReadsLater DEF TodoInv, Early
<1>4. CASE DropOld
  <2>1. Passes("drop_old") /\ Known(view) /\ running
    BY <1>1, <1>4, MostPass DEF RowsInv, Passes, Upcoming
  <2>2. /\ First(rest) = "drop_old" /\ rest # <<>> /\ running'
        /\ rest' # <<>> /\ First(rest') \in Follows("drop_old")
        /\ \A w, x : Todo(w, x) /\ (w # "drop_old" \/ x # On) => Todo(w, x)'
        /\ \A w : TodoAny(w) /\ w # "drop_old" => TodoAny(w)'
    BY <1>1, <2>1, PassesFacts
  <2>3. /\ view'.tables = view.tables \ {"traffic_stats"} /\ view'.columns = {}
        /\ view'.indexes \subseteq view.indexes
    BY <1>4, <2>1 DEF DropOld, Executes, Known, Fields
  <2>4. Upcoming("rename_copy")' /\ ~Upcoming("rename_copy")
    BY <2>2, UpcomingIsFirst DEF Follows
  <2>5. TodoTables' /\ TodoColumns'
    BY <1>1, <2>1, <2>2, <2>3, <2>4 DEF TodoInv, TodoTables, TodoColumns
  <2>6. TodoFormer'
    BY <1>1, <2>1, <2>2, <2>3 DEF TodoInv, TodoFormer
  <2>7. TodoIndexes'
    BY <1>1, <2>2 DEF TodoIndexes, RestInv, InOrder, Todo
  <2>8. TodoRows'
    BY <1>1, <2>1, EarlyReadsLater DEF Early
  <2>9. QED
    BY <2>5, <2>6, <2>7, <2>8 DEF TodoInv
<1>5. CASE RenameCopy
  <2>1. Passes("rename_copy") /\ Known(view) /\ running
    BY <1>1, <1>5, MostPass DEF RowsInv, Passes, Upcoming
  <2>2. /\ \A w, x : Todo(w, x) /\ (w # "rename_copy" \/ x # On) => Todo(w, x)'
        /\ \A w : TodoAny(w) /\ w # "rename_copy" => TodoAny(w)'
    BY <1>1, <2>1, PassesFacts
  <2>3. /\ view'.tables = (view.tables \ {"traffic_stats_new"}) \cup {"traffic_stats"}
        /\ view'.columns = Columns /\ view'.indexes = view.indexes
    BY <1>5, <2>1 DEF RenameCopy, Executes, Known, Fields
  <2>4. TodoTables'
    BY <1>1, <2>1, <2>2, <2>3 DEF TodoInv, TodoTables, Tables
  <2>5. TodoColumns'
    BY <2>3 DEF TodoColumns, Columns
  <2>6. TodoFormer'
    BY <1>1, <2>1, <2>2, <2>3 DEF TodoInv, TodoFormer, Columns, AddedColumns, Added
  <2>7. TodoIndexes'
    BY <1>1, <2>1, <2>2, <2>3 DEF TodoInv, TodoIndexes
  <2>8. TodoRows'
    BY <1>1, <2>1, EarlyReadsLater DEF Early
  <2>9. QED
    BY <2>4, <2>5, <2>6, <2>7, <2>8 DEF TodoInv
<1>6. QED
  BY <1>2, <1>3, <1>4, <1>5

(* A row that normalizing leaves alone is clean, and so is one normalized. *)
LEMMA NormalizedIsClean ==
  ASSUME NEW row, Rewritten \subseteq DOMAIN row
  PROVE  Clean(Normalized(row)) /\ (Normalized(row) = row => Clean(row))
<1>1. \A name : Text(name) # Null /\ Name(Text(name)) = name
  BY DEF Text, Null, Name
<1>2. ASSUME NEW v, NEW w, w = NormalizeNullable(v) PROVE w # Null => w = Text(Name(w))
  BY <1>1, <1>2 DEF NormalizeNullable
<1>3. \A c \in Rewritten : Normalized(row)[c] = NormalizeNullable(row[c])
  BY DEF Normalized
<1>4. QED
  BY <1>2, <1>3 DEF Clean

(* Every other step does what it is for, too. *)
LEMMA TodoStep ==
  ASSUME IInv, Next
  PROVE  TodoInv'
<1>1. RestInv /\ TxInv /\ RowsInv /\ TodoInv
  BY DEF IInv
<1>2. CASE CreateTable \/ AddColumn \/ DropCache \/ CreateIndex
  BY <1>2, TablesToDo
<1>3. CASE CreateCopy \/ FillCopy \/ DropOld \/ RenameCopy
  BY <1>3, RebuildToDo
<1>4. CASE TableHasColumn
  <2>1. view' = view /\ running /\ Upcoming("look_for_client_ip")
    BY <1>4 DEF TableHasColumn, Executes, Upcoming
  <2>2. ~Upcoming("rename_copy")
    BY <2>1, UpcomingIsFirst
  <2>3. /\ \A w, x : Todo(w, x) /\ w # "look_for_client_ip" => Todo(w, x)'
        /\ \A w : TodoAny(w) /\ w # "look_for_client_ip" => TodoAny(w)'
        /\ "client_ip" \in view.columns => TodoAny("drop_old")'
    BY <1>1, <1>4, LookFacts
  <2>4. TodoTables' /\ TodoColumns' /\ TodoIndexes'
    BY <1>1, <2>1, <2>2, <2>3 DEF TodoInv, TodoTables, TodoColumns, TodoIndexes
  <2>5. TodoFormer'
    BY <1>1, <2>1, <2>3 DEF TodoInv, TodoFormer
  <2>6. TodoRows'
    BY <1>1, <2>1, <2>3 DEF TodoInv, TodoRows, Clean
  <2>7. QED
    BY <2>4, <2>5, <2>6 DEF TodoInv
<1>5. CASE ReadRows
  <2>1. view' = view /\ running /\ Upcoming("read_rows") /\ Rewritten \subseteq view.columns
    BY <1>5 DEF ReadRows, Executes, Upcoming
  <2>2. ~Upcoming("rename_copy")
    BY <2>1, UpcomingIsFirst
  <2>3. Kept(view.tables, view.columns, view.rows)
    BY <2>1, Whole
  <2>4. /\ \A w, x : Todo(w, x) /\ w # "read_rows" => Todo(w, x)'
        /\ \A w : TodoAny(w) /\ w # "read_rows" => TodoAny(w)'
        /\ \A id \in Changed(view.rows) : Todo("rewrite_row", id)'
    BY <1>1, <1>5, <2>3, ReadFacts DEF RowsInv, Kept, Carries
  <2>5. TodoTables' /\ TodoColumns' /\ TodoIndexes'
    BY <1>1, <2>1, <2>2, <2>4 DEF TodoInv, TodoTables, TodoColumns, TodoIndexes
  <2>6. TodoFormer'
    BY <1>1, <2>1, <2>4 DEF TodoInv, TodoFormer
  <2>7. TodoRows'
    <3>1. \A id \in DOMAIN view.rows : id \in Changed(view.rows) \/ Clean(view.rows[id])
      BY <2>1, <2>3, NormalizedIsClean DEF Changed, Kept
    <3>2. QED
      BY <2>1, <2>4, <3>1 DEF TodoRows, Clean
  <2>8. QED
    BY <2>5, <2>6, <2>7 DEF TodoInv
<1>6. CASE RewriteRow
  <2>1. Passes("rewrite_row") /\ Upcoming("rewrite_row") /\ running
    BY <1>6, MostPass DEF RewriteRow, Upcoming
  <2>2. /\ Known(view) /\ Kept(view.tables, view.columns, view.rows)
    BY <2>1, Whole
  <2>3. /\ rest # <<>> /\ First(rest) = "rewrite_row"
        /\ \A w, x : Todo(w, x) /\ (w # "rewrite_row" \/ x # On) => Todo(w, x)'
        /\ \A w : TodoAny(w) /\ w # "rewrite_row" => TodoAny(w)'
    BY <1>1, <2>1, PassesFacts
  <2>4. ~Upcoming("rename_copy")
    BY <2>1, UpcomingIsFirst
  <2>5. view' = [view EXCEPT !.rows[On] = Normalized(@)]
    BY <1>6 DEF RewriteRow, Executes
  <2>6. /\ view'.tables = view.tables /\ view'.indexes = view.indexes
        /\ view'.columns = view.columns
        /\ view'.rows = [view.rows EXCEPT ![On] = Normalized(@)]
    BY <2>2, <2>5 DEF Known, Fields
  <2>7. TodoTables' /\ TodoColumns' /\ TodoFormer' /\ TodoIndexes'
    BY <2>1, <2>6, LessToDo
  <2>8. TodoRows'
    <3>1. CASE TodoAny("read_rows")
      BY <2>3, <3>1 DEF TodoRows
    <3>2. CASE ~TodoAny("read_rows")
      <4>1. Kinds(rest) \cap Early = {}
        BY <1>1, <3>2 DEF RestInv, InOrder, TodoAny
      <4>2. \A w, x : Todo(w, x) => w \in Kinds(rest)
        BY DEF Todo, Kinds, What, Do
      <4>3. \A w \in Early : \A x : ~Todo(w, x)
        BY <4>1, <4>2
      <4>4. AddedColumns \subseteq view.columns /\ "traffic_stats" \in view.tables
        BY <1>1, <2>1, <2>4, <4>3 DEF TodoInv, TodoTables, TodoColumns, Early, Tables
      <4>5. Rewritten \subseteq view.columns
        BY <2>2, <4>4 DEF Kept, Rewritten, AddedColumns, Added
      <4>6. On \in DOMAIN view.rows
        BY <1>1, <2>2, <2>3, HeadFacts DEF RestInv, On, Kept, Carries
      <4>7. Clean(Normalized(view.rows[On]))
        BY <2>2, <4>5, <4>6, NormalizedIsClean DEF Kept
      <4>8. /\ DOMAIN view'.rows = DOMAIN view.rows
            /\ view'.rows[On] = Normalized(view.rows[On])
            /\ \A id \in DOMAIN view.rows : id # On => view'.rows[id] = view.rows[id]
        BY <2>6, <4>6
      <4>9. ASSUME NEW id \in DOMAIN view.rows
            PROVE  Todo("rewrite_row", id)' \/ Clean(view'.rows[id])
        <5>1. CASE id = On
          BY <4>7, <4>8, <5>1
        <5>2. CASE id # On
          BY <1>1, <2>1, <2>3, <3>2, <4>8, <5>2 DEF TodoInv, TodoRows
        <5>3. QED
          BY <5>1, <5>2
      <4>10. QED
        BY <4>8, <4>9 DEF TodoRows, Clean
    <3>3. QED
      BY <3>1, <3>2
  <2>9. QED
    BY <2>7, <2>8 DEF TodoInv
<1>7. CASE Begin \/ Commit
  <2>1. PICK k \in {"begin", "commit"} : Passes(k)
    BY <1>7, MostPass
  <2>2. view' = view /\ running
    BY <1>7 DEF Begin, Commit, Upcoming
  <2>3. TodoTables' /\ TodoColumns' /\ TodoFormer' /\ TodoIndexes'
    BY <2>1, <2>2, LessToDo
  <2>4. TodoRows'
    BY <1>1, <2>1, <2>2, PassesFacts DEF TodoInv, TodoRows, Clean
  <2>5. QED
    BY <2>3, <2>4 DEF TodoInv
<1>8. CASE ProcessEnds
  BY <1>8 DEF ProcessEnds, TodoInv
<1>9. CASE Start
  <2>1. rest' = CreateTables /\ view' = view
    BY <1>9 DEF Start
  <2>2. TodoTables' /\ TodoColumns' /\ TodoFormer' /\ TodoIndexes' /\ TodoRows'
    BY <2>1, StartStatements
    DEF TodoTables, TodoColumns, TodoFormer, TodoIndexes, TodoRows, Todo, TodoAny
  <2>3. QED
    BY <2>2 DEF TodoInv
<1>10. QED
  BY <1>2, <1>3, <1>4, <1>5, <1>6, <1>7, <1>8, <1>9 DEF Next, Proceed

------------------------------------------------------------------------------
(* The theorems. *)

(* Every former database is a good one to start on. *)
LEMMA InitIInv == Init => IInv
<1> SUFFICES ASSUME Init PROVE IInv
  OBVIOUS
<1>1. /\ view = disk /\ entered = disk.rows /\ inTx = FALSE /\ running = TRUE
      /\ rest = CreateTables
  BY DEF Init
<1>2. rest # <<>> /\ First(rest) = "create_table"
  BY <1>1, StartStatements DEF Rightly
<1>3. RestInv
  BY <1>1, StartInOrder DEF RestInv
<1>4. TxInv
  BY <1>1, <1>2 DEF TxInv, TxSteps
<1>5. TodoInv
  BY <1>1, StartStatements
  DEF TodoInv, TodoTables, TodoColumns, TodoFormer, TodoIndexes, TodoRows, Todo, TodoAny
<1>6. /\ Known(disk) /\ "traffic_stats_new" \notin disk.tables
      /\ IsFiniteSet(DOMAIN disk.rows)
      /\ \A id \in DOMAIN disk.rows : DOMAIN disk.rows[id] = disk.columns
      /\ disk.columns \subseteq Columns \cup {"client_ip"}
      /\ IF "traffic_stats" \in disk.tables THEN "user_id" \in disk.columns
                                           ELSE DOMAIN disk.rows = {}
  <2>1. CASE disk = NoDatabase
    <3>1. DOMAIN Null = {} /\ disk.rows = Null
      BY <2>1 DEF Null, NoDatabase
    <3>2. QED
      BY <2>1, <3>1, FS_EmptySet DEF NoDatabase, Known, Fields
  <2>2. CASE disk # NoDatabase
    <3>1. PICK cs \in FormerColumns, ip \in {{}, {"client_ip"}}, rs \in FormerRows,
               ts \in {{"client_rules"}, {"ip_geo_cache"}} :
            disk = Former({"user_id"} \cup cs \cup ip, rs, {"users", "servers"} \cup ts)
      BY <2>2 DEF Init
    <3>2. PICK columns : columns = {"user_id"} \cup cs \cup ip
      OBVIOUS
    <3>3. /\ DOMAIN disk = Fields
          /\ disk.tables = {"users", "servers"} \cup ts \cup {"traffic_stats"}
          /\ disk.columns = columns /\ disk.indexes = {} /\ disk.rows = WithColumns(rs, columns)
      BY <3>1, <3>2 DEF Former, Fields
    <3>4. columns \subseteq Columns \cup {"client_ip"} /\ "user_id" \in columns
      BY <3>2, FormerAssumption DEF Columns
    <3>5. /\ DOMAIN disk.rows = DOMAIN rs
          /\ \A id \in DOMAIN disk.rows : DOMAIN disk.rows[id] = columns
      BY <3>3 DEF WithColumns
    <3>6. Known(disk) /\ "traffic_stats_new" \notin disk.tables /\ "traffic_stats" \in disk.tables
      BY <3>3, <3>4 DEF Known, Tables
    <3>7. IsFiniteSet(DOMAIN disk.rows)
      BY <3>5, FormerAssumption, FS_Interval
    <3>8. QED
      BY <3>3, <3>4, <3>5, <3>6, <3>7
  <2>3. QED
    BY <2>1, <2>2
<1>7. Kept(disk.tables, disk.columns, disk.rows)
  BY <1>1, <1>6 DEF Kept, Carries
<1>8. RowsInv
  <2>1. ~Upcoming("drop_old") /\ ~Upcoming("rename_copy")
    BY <1>2, UpcomingIsFirst
  <2>2. QED
    BY <1>1, <1>6, <1>7, <2>1 DEF RowsInv
<1>9. QED
  BY <1>3, <1>4, <1>5, <1>8 DEF IInv

(* Every statement, every end and every start of the process keeps it.     *)
LEMMA InductiveStep == IInv /\ [Next]_vars => IInv'
<1> SUFFICES ASSUME IInv, [Next]_vars PROVE IInv'
  OBVIOUS
<1>1. CASE Next
  BY <1>1, RestStep, TxStep, RowsStep, TodoStep DEF IInv
<1>2. CASE UNCHANGED vars
  <2>1. /\ rest' = rest /\ entered' = entered /\ running' = running /\ inTx' = inTx
        /\ view' = view /\ disk' = disk
    BY <1>2 DEF vars
  <2>2. RestInv' /\ TxInv'
    BY <2>1 DEF IInv, RestInv, InOrder, Statements, TodoAny, TxInv
  <2>3. RowsInv'
    BY <2>1 DEF IInv, RowsInv, Known, Kept, Carries, Upcoming
  <2>4. TodoInv'
    BY <2>1 DEF IInv, TodoInv, TodoTables, TodoColumns, TodoFormer, TodoIndexes, TodoRows,
                Todo, TodoAny, Upcoming, Clean
  <2>5. QED
    BY <2>2, <2>3, <2>4 DEF IInv
<1>3. QED
  BY <1>1, <1>2

(* The invariant holds whatever happens. *)
LEMMA Inductive == Spec => []IInv
BY InductiveStep, InitIInv, PTL DEF Spec

(* What the invariant says of the disk at any time, and once nothing is    *)
(* left to do.                                                             *)
LEMMA InvariantPromises == IInv => RowsSurvive /\ ServesCurrentSchema
<1> SUFFICES ASSUME IInv PROVE RowsSurvive /\ ServesCurrentSchema
  OBVIOUS
<1>1. RowsSurvive
  BY DEF IInv, RowsInv, Kept, Carries, RowsSurvive
<1>2. ServesCurrentSchema
  <2> SUFFICES ASSUME Serving
               PROVE  /\ view = disk /\ ~inTx
                      /\ disk.tables = Tables /\ disk.columns = Columns
                      /\ disk.indexes = DOMAIN Index
                      /\ \A id \in DOMAIN disk.rows : Clean(disk.rows[id])
    BY DEF ServesCurrentSchema, Clean
  <2>1. running /\ rest = <<>>
    BY DEF Serving
  <2>2. view = disk /\ ~inTx
    BY <2>1 DEF IInv, TxInv
  <2>3. Range(rest) = {} /\ Kinds(rest) = {}
    BY <2>1 DEF Range, Kinds
  <2>4. (\A w : ~Upcoming(w)) /\ (\A w, x : ~Todo(w, x)) /\ (\A w : ~TodoAny(w))
    BY <2>1, <2>3 DEF Upcoming, Todo, TodoAny
  <2>5. /\ Tables \subseteq view.tables /\ "ip_geo_cache" \notin view.tables
        /\ AddedColumns \subseteq view.columns /\ "client_ip" \notin view.columns
        /\ DOMAIN Index \subseteq view.indexes
    BY <2>1, <2>4 DEF IInv, TodoInv, TodoTables, TodoColumns, TodoFormer, TodoIndexes
  <2>6. \A id \in DOMAIN view.rows : Clean(view.rows[id])
    BY <2>1, <2>4 DEF IInv, TodoInv, TodoRows
  <2>7. /\ Known(view) /\ "traffic_stats_new" \notin view.tables
        /\ Kept(view.tables, view.columns, view.rows)
    BY <2>4 DEF IInv, RowsInv
  <2>8. view.tables = Tables
    BY <2>5, <2>7 DEF Known
  <2>9. view.columns = Columns
    BY <2>5, <2>7, <2>8 DEF Known, Kept, Columns, Tables
  <2>10. view.indexes = DOMAIN Index
    BY <2>5, <2>7 DEF Known
  <2>11. QED
    BY <2>2, <2>6, <2>8, <2>9, <2>10
<1>3. QED
  BY <1>1, <1>2

(* RowsSurvive: wherever a migration is cut off, what is on disk has every *)
(* row ever stored, under its id and with its names (the rebuild of        *)
(* cleanupDeprecatedSchema and the rewriting of                            *)
(* cleanupMalformedTrafficStats are in transactions).                      *)
THEOREM NoRowIsLost == Spec => []RowsSurvive
BY InvariantPromises, Inductive, PTL

(* ServesCurrentSchema: once Init has returned, the schema is the current  *)
(* one, whatever database the process was started on and however often     *)
(* earlier starts were cut off.                                            *)
THEOREM SchemaIsCurrent == Spec => []ServesCurrentSchema
BY InvariantPromises, Inductive, PTL

-------------------------------------------------------------------------------
(* Records that are stored between the starts. *)

(* The records that can be in memory. *)
Records ==
  {r \in [user : Users \cup {NoName}, client : Clients \cup {NoName}, path : Paths,
          kind : {"user", "public", "unknown"}] :
     r.kind = ClassifyTraffic(r.user, r.path)}

IsFunction(f) == f = [i \in DOMAIN f |-> f[i]]
Listed(rows) == IsFunction(rows) /\ \A id \in DOMAIN rows : RightlyNamed(rows[id])
RowsAreLists ==
  /\ IsFunction(entered) /\ \E n \in Nat : DOMAIN entered = 1 .. n
  /\ Listed(disk.rows) /\ Listed(disk.copy)
  /\ Listed(view.rows) /\ Listed(view.copy)

CountedIs(id, record) ==
  /\ entered[id] = RowOf(record)
  /\ counted[id] = [user |-> UserKey(record), client |-> ClientKey(record)]
CountedInv ==
  /\ live \in Seq(Records)
  /\ \A id \in DOMAIN counted :
       id \in DOMAIN entered /\ \E record \in Records : CountedIs(id, record)

BucketsInv == IInv /\ RowsAreLists /\ CountedInv

------------------------------------------------------------------------------
(* Rows and lists of them. *)

(* The columns that rows are counted by, or rewritten in. *)
LEMMA AddedHas ==
  {"client_id", "client_name", "device_id", "request_path", "traffic_kind"} \subseteq AddedColumns
<1>1. PICK s : s = Added
  OBVIOUS
<1>2. /\ DOMAIN s = 1 .. 7 /\ s[1] = "client_id" /\ s[2] = "client_name"
      /\ s[3] = "device_id" /\ s[6] = "request_path" /\ s[7] = "traffic_kind"
  BY <1>1 DEF Added
<1>3. AddedColumns = {s[i] : i \in DOMAIN s}
  BY <1>1 DEF AddedColumns
<1>4. {s[1], s[2], s[3], s[6], s[7]} \subseteq AddedColumns
  BY <1>2, <1>3
<1>5. QED
  BY <1>2, <1>4

(* What a row says of the record it is made of. *)
LEMMA RowFacts ==
  ASSUME NEW record
  PROVE  /\ DOMAIN RowOf(record) = Columns
         /\ \A c \in Columns : \E name : RowOf(record)[c] = Text(name)
         /\ RowOf(record)["user_id"] = Text(record.user)
         /\ RowOf(record)["client_name"] = Text(record.client)
         /\ RowOf(record)["request_path"] = Text(record.path)
         /\ RowOf(record)["traffic_kind"] = Text(record.kind)
         /\ record.client = NoName => RowOf(record)["client_id"] = Text(NoName)
<1>1. PICK values :
        /\ values = [user_id |-> record.user,
                 client_id |-> IF record.client = NoName THEN NoName
                               ELSE "client:" \o record.client,
                 client_name |-> record.client,
                 request_path |-> record.path,
                 traffic_kind |-> record.kind]
        /\ RowOf(record) =
             [c \in Columns |-> Text(IF c \in DOMAIN values THEN values[c] ELSE NoName)]
  BY DEF RowOf
<1>2. /\ DOMAIN values = {"user_id", "client_id", "client_name", "request_path", "traffic_kind"}
      /\ values["user_id"] = record.user /\ values["client_name"] = record.client
      /\ values["request_path"] = record.path /\ values["traffic_kind"] = record.kind
      /\ record.client = NoName => values["client_id"] = NoName
  BY <1>1
<1>3. {"user_id", "client_id", "client_name", "request_path", "traffic_kind"} \subseteq Columns
  BY AddedHas DEF Columns
<1>4. QED
  BY <1>1, <1>2, <1>3

(* No record says the key of a list. *)
LEMMA RowNames ==
  ASSUME NEW record \in Records
  PROVE  RightlyNamed(RowOf(record))
<1>1. PICK row, id :
        /\ row = RowOf(record)
        /\ id = IF record.client = NoName THEN NoName ELSE "client:" \o record.client
  OBVIOUS
<1>2. "client_id" \in Columns /\ "device_name" \in Columns /\ "user_id" \in Columns
      /\ "client_name" \in Columns /\ "traffic_kind" \in Columns
  <2>1. "device_name" \in AddedColumns
    <3>1. PICK s : s = Added
      OBVIOUS
    <3>2. 4 \in DOMAIN s /\ s[4] = "device_name"
      BY <3>1 DEF Added
    <3>3. AddedColumns = {s[i] : i \in DOMAIN s}
      BY <3>1 DEF AddedColumns
    <3>4. QED
      BY <3>2, <3>3
  <2>2. QED
    BY <2>1, AddedHas DEF Columns
<1>3. row["client_id"] = Text(id) /\ row["device_name"] = Text(NoName)
  <2>1. PICK values :
          /\ values = [user_id |-> record.user, client_id |-> id,
                       client_name |-> record.client, request_path |-> record.path,
                       traffic_kind |-> record.kind]
          /\ row = [c \in Columns |-> Text(IF c \in DOMAIN values THEN values[c] ELSE NoName)]
    BY <1>1 DEF RowOf
  <2>2. /\ values["client_id"] = id /\ "client_id" \in DOMAIN values
        /\ "device_name" \notin DOMAIN values
    BY <2>1
  <2>3. QED
    BY <1>2, <2>1, <2>2
<1>4. \A name : Name(Text(name)) = name
  BY DEF Name, Text, Null
<1>5. /\ Says(row, "user_id") = record.user /\ Says(row, "client_name") = record.client
      /\ Says(row, "traffic_kind") = record.kind
      /\ Says(row, "client_id") = id /\ Says(row, "device_name") = NoName
  BY <1>1, <1>2, <1>3, <1>4, RowFacts DEF Says, ValueIn
<1>6. /\ record.user \in Users \cup {NoName} /\ record.client \in Clients \cup {NoName}
      /\ record.kind = "public" => record.user = NoName
  BY DEF Records, ClassifyTraffic
<1>7. /\ NoName # UnknownUser /\ NoName # PublicRequests /\ NoName # UnknownClient
  BY DEF NoName, UnknownUser, PublicRequests, UnknownClient
<1>8. id # UnknownClient
  BY <1>1, <1>6, <1>7, NamesAssumption
<1>9. record.user \notin {UnknownUser, PublicRequests} /\ record.client # UnknownClient
  BY <1>6, <1>7, NamesAssumption
<1>10. RightlyNamed(row)
  BY <1>5, <1>6, <1>7, <1>8, <1>9 DEF RightlyNamed
<1>11. QED
  BY <1>1, <1>10

(* A list with another behind it. *)
LEMMA Appended ==
  ASSUME NEW f, NEW g, NEW n \in Nat, NEW m \in Nat,
         IsFunction(f), DOMAIN f = 1 .. n, IsFunction(g), DOMAIN g = 1 .. m
  PROVE  /\ Len(f) = n /\ Len(g) = m
         /\ IsFunction(f \o g) /\ DOMAIN (f \o g) = 1 .. n + m
         /\ \A i \in 1 .. n : (f \o g)[i] = f[i]
         /\ \A i \in n + 1 .. n + m : i - n \in 1 .. m /\ (f \o g)[i] = g[i - n]
<1>1. PICK S : S = {f[i] : i \in 1 .. n} \cup {g[i] : i \in 1 .. m}
  OBVIOUS
<1>2. f \in [1 .. n -> S] /\ g \in [1 .. m -> S]
  BY <1>1 DEF IsFunction
<1>3. f \in Seq(S) /\ g \in Seq(S) /\ Len(f) = n /\ Len(g) = m
  BY <1>2
<1>4. /\ f \o g \in Seq(S) /\ Len(f \o g) = n + m
      /\ \A i \in 1 .. n + m : (f \o g)[i] = IF i <= n THEN f[i] ELSE g[i - n]
  BY <1>3, ConcatProperties
<1>5. PICK h \in Seq(S) : h = f \o g /\ Len(h) = n + m
  BY <1>4
<1>6. DOMAIN h = 1 .. n + m /\ IsFunction(h)
  <2>1. \A s \in Seq(S) : DOMAIN s = 1 .. Len(s) /\ s = [i \in 1 .. Len(s) |-> s[i]]
    OBVIOUS
  <2>2. QED
    BY <1>5, <2>1 DEF IsFunction
<1>7. DOMAIN (f \o g) = 1 .. n + m /\ IsFunction(f \o g)
  BY <1>5, <1>6
<1>8. \A i \in 1 .. n : i \in 1 .. n + m /\ i <= n
  OBVIOUS
<1>9. \A i \in n + 1 .. n + m : i \in 1 .. n + m /\ ~(i <= n) /\ i - n \in 1 .. m
  OBVIOUS
<1>10. QED
  BY <1>3, <1>4, <1>7, <1>8, <1>9

------------------------------------------------------------------------------
(* The steps. *)

(* No statement gives a row a name it did not have. *)
LEMMA NamesStay ==
  ASSUME NEW row, RightlyNamed(row), NEW other,
         \A c \in DOMAIN other : Name(other[c]) = Says(row, c)
  PROVE  RightlyNamed(other)
<1>1. Name(Null) = NoName /\ Name(Text(NoName)) = NoName
  BY DEF Name, Null, Text
<1>2. \A c : Says(other, c) = Says(row, c) \/ Says(other, c) = NoName
  BY <1>1 DEF Says, ValueIn
<1>3. /\ NoName # UnknownUser /\ NoName # PublicRequests /\ NoName # UnknownClient
      /\ NoName # "public"
  BY DEF NoName, UnknownUser, PublicRequests, UnknownClient
<1>4. QED
  BY <1>2, <1>3 DEF RightlyNamed

LEMMA FunctionFacts ==
  /\ Listed(Null) /\ DOMAIN Null = {}
  /\ \A rows, columns : DOMAIN WithColumns(rows, columns) = DOMAIN rows
                        /\ IsFunction(WithColumns(rows, columns))
  /\ \A rows, columns : (\A id \in DOMAIN rows : RightlyNamed(rows[id]))
                           => Listed(WithColumns(rows, columns))
<1>1. Listed(Null) /\ DOMAIN Null = {}
  BY DEF Listed, IsFunction, Null
<1>2. \A rows, columns : DOMAIN WithColumns(rows, columns) = DOMAIN rows
                         /\ IsFunction(WithColumns(rows, columns))
  BY DEF IsFunction, WithColumns
<1>3. ASSUME NEW rows, NEW columns, \A id \in DOMAIN rows : RightlyNamed(rows[id])
      PROVE  Listed(WithColumns(rows, columns))
  <2>1. ASSUME NEW id \in DOMAIN rows PROVE RightlyNamed(WithColumns(rows, columns)[id])
    <3>1. PICK row : row = [c \in columns |-> ValueIn(rows[id], c)]
      OBVIOUS
    <3>2. \A c \in DOMAIN row : Name(row[c]) = Says(rows[id], c)
      BY <3>1 DEF Says
    <3>3. RightlyNamed(row)
      BY <1>3, <3>2, NamesStay
    <3>4. QED
      BY <3>1, <3>3 DEF WithColumns
  <2>2. QED
    BY <1>2, <2>1 DEF Listed
<1>4. QED
  BY <1>1, <1>2, <1>3

(* No statement makes anything but a list of the rows.                     *)
LEMMA ListsStep == IInv /\ RowsAreLists /\ [Next]_vars => RowsAreLists'
<1> SUFFICES ASSUME IInv, RowsAreLists, [Next]_vars PROVE RowsAreLists'
  OBVIOUS
<1>e. entered' = entered
  BY DEF Next, Proceed, ProcessEnds, Start, Executes, CreateTable, AddColumn, DropCache,
         TableHasColumn, CreateCopy, FillCopy, DropOld, RenameCopy, ReadRows, RewriteRow,
         Begin, Commit, CreateIndex, vars
<1>d. disk' = disk \/ disk' = view'
  BY DEF Next, Proceed, ProcessEnds, Start, Executes, CreateTable, AddColumn, DropCache,
         TableHasColumn, CreateCopy, FillCopy, DropOld, RenameCopy, ReadRows, RewriteRow,
         Begin, Commit, CreateIndex, vars
<1>v. DOMAIN view = Fields
  BY DEF IInv, RowsInv, Known
<1>f. /\ Listed(view.rows) /\ Listed(view.copy)
      /\ Listed(disk.rows) /\ Listed(disk.copy)
  BY DEF RowsAreLists
<1>w. \A columns : Listed(WithColumns(view.rows, columns))
  <2>1. \A id \in DOMAIN view.rows : RightlyNamed(view.rows[id])
    BY <1>f DEF Listed
  <2>2. QED
    BY <2>1, FunctionFacts
<1>1. ASSUME NEW rows, NEW copy, view'.rows = rows, view'.copy = copy,
             Listed(rows), Listed(copy)
      PROVE  RowsAreLists'
  <2>1. Listed(view.rows)' /\ Listed(view.copy)'
    BY <1>1 DEF Listed, IsFunction
  <2>2. Listed(disk.rows)' /\ Listed(disk.copy)'
    BY <1>d, <1>f, <2>1 DEF Listed, IsFunction
  <2>3. (IsFunction(entered) /\ \E n \in Nat : DOMAIN entered = 1 .. n)'
    BY <1>e DEF RowsAreLists, IsFunction
  <2>4. QED
    BY <2>1, <2>2, <2>3 DEF RowsAreLists
<1>2. ASSUME view'.rows = view.rows, view'.copy = view.copy PROVE RowsAreLists'
  BY <1>1, <1>2, <1>f
<1>3. CASE CreateTable
  <2>1. CASE On \in view.tables
    BY <1>2, <1>3, <2>1 DEF CreateTable, Executes
  <2>2. CASE On \notin view.tables /\ On = "traffic_stats"
    <3>1. view'.rows = Null /\ view'.copy = view.copy
      BY <1>3, <1>v, <2>2 DEF CreateTable, Executes, Fields
    <3>2. QED
      BY <1>1, <1>f, <3>1, FunctionFacts
  <2>3. CASE On \notin view.tables /\ On # "traffic_stats"
    BY <1>2, <1>3, <1>v, <2>3 DEF CreateTable, Executes, Fields
  <2>4. QED
    BY <2>1, <2>2, <2>3
<1>4. CASE AddColumn
  <2>1. /\ view'.rows = WithColumns(view.rows, view.columns \cup {On})
        /\ view'.copy = view.copy
    BY <1>4, <1>v DEF AddColumn, Executes, Fields
  <2>2. Listed(WithColumns(view.rows, view.columns \cup {On}))
    BY <1>w
  <2>3. QED
    BY <1>1, <1>f, <2>1, <2>2
<1>5. CASE DropCache \/ CreateIndex \/ TableHasColumn \/ ReadRows
  BY <1>2, <1>5, <1>v DEF DropCache, CreateIndex, TableHasColumn, ReadRows, Executes, Fields
<1>6. CASE CreateCopy
  <2>1. view'.rows = view.rows /\ view'.copy = Null
    BY <1>6, <1>v DEF CreateCopy, Executes, Fields
  <2>2. QED
    BY <1>1, <1>f, <2>1, FunctionFacts
<1>7. CASE FillCopy
  <2>1. view'.rows = view.rows /\ view'.copy = WithColumns(view.rows, Columns)
    BY <1>7, <1>v DEF FillCopy, Executes, Fields
  <2>2. Listed(WithColumns(view.rows, Columns))
    BY <1>w
  <2>3. QED
    BY <1>1, <1>f, <2>1, <2>2
<1>8. CASE DropOld
  <2>1. view'.rows = Null /\ view'.copy = view.copy
    BY <1>8, <1>v DEF DropOld, Executes, Fields
  <2>2. QED
    BY <1>1, <1>f, <2>1, FunctionFacts
<1>9. CASE RenameCopy
  <2>1. view'.rows = view.copy /\ view'.copy = Null
    BY <1>9, <1>v DEF RenameCopy, Executes, Fields
  <2>2. QED
    BY <1>1, <1>f, <2>1, FunctionFacts
<1>10. CASE RewriteRow
  <2>1. /\ view'.rows = [view.rows EXCEPT ![On] = Normalized(@)]
        /\ view'.copy = view.copy
    BY <1>10, <1>v DEF RewriteRow, Executes, Fields
  <2>2. Listed([view.rows EXCEPT ![On] = Normalized(@)])
    <3>1. PICK rows : rows = view.rows
      OBVIOUS
    <3>2. ASSUME NEW row, RightlyNamed(row) PROVE RightlyNamed(Normalized(row))
      <4>1. \A c \in DOMAIN Normalized(row) : Name(Normalized(row)[c]) = Says(row, c)
        BY NormalizedName DEF Normalized, Says, ValueIn
      <4>2. QED
        BY <3>2, <4>1, NamesStay
    <3>3. IsFunction(rows) /\ \A id \in DOMAIN rows : RightlyNamed(rows[id])
      BY <1>f, <3>1 DEF Listed
    <3>4. Listed([rows EXCEPT ![On] = Normalized(@)])
      BY <3>2, <3>3 DEF Listed, IsFunction
    <3>5. QED
      BY <3>1, <3>4
  <2>3. QED
    BY <1>1, <1>f, <2>1, <2>2
<1>11. CASE Begin \/ Commit \/ Start \/ UNCHANGED vars
  BY <1>2, <1>11 DEF Begin, Commit, Start, vars
<1>12. CASE ProcessEnds
  <2>1. view' = disk
    BY <1>12 DEF ProcessEnds
  <2>2. QED
    BY <1>1, <1>f, <2>1
<1>13. QED
  BY <1>3, <1>4, <1>5, <1>6, <1>7, <1>8, <1>9, <1>10, <1>11, <1>12 DEF Next, Proceed

(* A step of a start, or an end, stores nothing.                           *)
LEMMA EnteredStays == [Next]_vars => entered' = entered
  BY DEF Next, Proceed, ProcessEnds, Start, Executes, CreateTable, AddColumn, DropCache,
         TableHasColumn, CreateCopy, FillCopy, DropOld, RenameCopy, ReadRows, RewriteRow,
         Begin, Commit, CreateIndex, vars

(* A record is put down with the kind of its user and path. *)
LEMMA RecordStep ==
  ASSUME BucketsInv, NEW u \in Users \cup {NoName}, NEW c \in Clients \cup {NoName},
         NEW p \in Paths, Record(u, c, p)
  PROVE  CountedInv'
<1>1. PICK record : record = [user |-> u, client |-> c, path |-> p,
                              kind |-> ClassifyTraffic(u, p)]
  OBVIOUS
<1>2. record \in Records
  BY <1>1 DEF Records, ClassifyTraffic
<1>3. live' = Append(live, record) /\ UNCHANGED <<entered, counted>>
  BY <1>1 DEF Record, vars
<1>4. live \in Seq(Records)
  BY DEF BucketsInv, CountedInv
<1>5. live' \in Seq(Records)
  BY <1>2, <1>3, <1>4
<1>6. QED
  BY <1>3, <1>5 DEF BucketsInv, CountedInv, CountedIs

(* A flush puts the rows behind those there are, on disk and in history.   *)
LEMMA FlushFacts ==
  ASSUME BucketsInv, Flush
  PROVE  \E n \in Nat, m \in Nat :
           /\ DOMAIN entered = 1 .. n /\ DOMAIN live = 1 .. m
           /\ Len(Rows) = n /\ Len(live) = m
           /\ DOMAIN entered' = 1 .. n + m /\ DOMAIN disk.rows' = 1 .. n + m
           /\ IsFunction(entered)' /\ IsFunction(disk.rows)'
           /\ \A i \in 1 .. n : entered'[i] = entered[i] /\ disk'.rows[i] = disk.rows[i]
           /\ \A i \in n + 1 .. n + m :
                /\ i - n \in DOMAIN live
                /\ entered'[i] = RowOf(live[i - n]) /\ disk'.rows[i] = RowOf(live[i - n])
<1>1. running /\ rest = <<>> /\ view = disk /\ ~inTx
  BY DEF Flush, Serving, BucketsInv, IInv, TxInv
<1>2. PICK n \in Nat : DOMAIN entered = 1 .. n
  BY DEF BucketsInv, RowsAreLists
<1>3. live \in Seq(Records)
  BY DEF BucketsInv, CountedInv
<1>4. PICK m \in Nat : m = Len(live) /\ DOMAIN live = 1 .. m
  BY <1>3
<1>5. PICK new : new = [i \in DOMAIN live |-> RowOf(live[i])]
  OBVIOUS
<1>6. IsFunction(new) /\ DOMAIN new = 1 .. m /\ \A i \in 1 .. m : new[i] = RowOf(live[i])
  BY <1>4, <1>5 DEF IsFunction
<1>7. IsFunction(entered) /\ IsFunction(disk.rows) /\ DOMAIN disk.rows = 1 .. n
  BY <1>2 DEF BucketsInv, RowsAreLists, Listed, IInv, RowsInv, Kept, Carries
<1>8. /\ entered' = entered \o new
      /\ disk' = [disk EXCEPT !.rows = disk.rows \o new]
  BY <1>5 DEF Flush
<1>9. disk'.rows = disk.rows \o new
  BY <1>8 DEF BucketsInv, IInv, RowsInv, Known, Fields
<1>10. /\ Len(disk.rows) = n
       /\ IsFunction(disk.rows \o new) /\ DOMAIN (disk.rows \o new) = 1 .. n + m
       /\ \A i \in 1 .. n : (disk.rows \o new)[i] = disk.rows[i]
       /\ \A i \in n + 1 .. n + m : i - n \in 1 .. m /\ (disk.rows \o new)[i] = new[i - n]
  BY <1>6, <1>7, Appended
<1>11. /\ IsFunction(entered \o new) /\ DOMAIN (entered \o new) = 1 .. n + m
       /\ \A i \in 1 .. n : (entered \o new)[i] = entered[i]
       /\ \A i \in n + 1 .. n + m : i - n \in 1 .. m /\ (entered \o new)[i] = new[i - n]
  BY <1>2, <1>6, <1>7, Appended
<1>12. Len(Rows) = n
  BY <1>1, <1>10 DEF Rows
<1>13. IsFunction(entered)' /\ IsFunction(disk.rows)'
  BY <1>8, <1>9, <1>10, <1>11 DEF IsFunction
<1>14. \A i \in 1 .. n : entered'[i] = entered[i] /\ disk'.rows[i] = disk.rows[i]
  BY <1>8, <1>9, <1>10, <1>11
<1>15. ASSUME NEW i \in n + 1 .. n + m
       PROVE  /\ i - n \in DOMAIN live
              /\ entered'[i] = RowOf(live[i - n]) /\ disk'.rows[i] = RowOf(live[i - n])
  <2>1. PICK j : j = i - n
    OBVIOUS
  <2>2. j \in 1 .. m /\ new[j] = RowOf(live[j])
    BY <1>6, <1>10, <2>1
  <2>3. entered'[i] = new[j] /\ disk'.rows[i] = new[j]
    BY <1>8, <1>9, <1>10, <1>11, <2>1
  <2>4. QED
    BY <1>4, <2>1, <2>2, <2>3
<1>16. Len(live) = m
  BY <1>4
<1>17. DOMAIN entered' = 1 .. n + m /\ DOMAIN disk'.rows = 1 .. n + m
  BY <1>8, <1>9, <1>10, <1>11
<1>18. QED
  BY <1>2, <1>4, <1>12, <1>13, <1>14, <1>15, <1>16, <1>17

LEMMA FlushStep == ASSUME BucketsInv, Flush PROVE BucketsInv'
<1>1. /\ running /\ rest = <<>> /\ view = disk /\ ~inTx
      /\ UNCHANGED <<inTx, running, rest>> /\ view' = disk' /\ live' = <<>>
      /\ IInv /\ RowsAreLists /\ CountedInv
  BY DEF Flush, Serving, BucketsInv, IInv, TxInv
<1>2. /\ ServesCurrentSchema /\ Serving
  BY <1>1, InvariantPromises DEF Serving
<1>3. PICK n \in Nat, m \in Nat :
        /\ DOMAIN entered = 1 .. n /\ DOMAIN live = 1 .. m
        /\ Len(Rows) = n /\ Len(live) = m
        /\ DOMAIN entered' = 1 .. n + m /\ DOMAIN disk.rows' = 1 .. n + m
        /\ IsFunction(entered)' /\ IsFunction(disk.rows)'
        /\ \A i \in 1 .. n : entered'[i] = entered[i] /\ disk'.rows[i] = disk.rows[i]
        /\ \A i \in n + 1 .. n + m :
             /\ i - n \in DOMAIN live
             /\ entered'[i] = RowOf(live[i - n]) /\ disk'.rows[i] = RowOf(live[i - n])
  BY FlushFacts
<1>4. \A i \in 1 .. n + m : i \in 1 .. n \/ i \in n + 1 .. n + m
  OBVIOUS
<1>5. /\ DOMAIN disk' = Fields /\ disk'.tables = disk.tables
      /\ disk'.columns = disk.columns /\ disk'.indexes = disk.indexes
      /\ disk'.copy = disk.copy
  BY <1>1 DEF Flush, IInv, RowsInv, Known, Fields
<1>6. RestInv' /\ TxInv'
  <2>1. rest' = <<>> /\ Ordered(<<>>) /\ Kinds(<<>>) = {}
    BY <1>1 DEF Ordered, Chained, Kinds, Range
  <2>2. <<>> \in Seq(Statements')
    OBVIOUS
  <2>3. RestInv'
    BY <2>1, <2>2 DEF RestInv, InOrder
  <2>4. TxInv'
    BY <1>1, <2>1 DEF TxInv, IInv
  <2>5. QED
    BY <2>3, <2>4
<1>7. Kept(disk.tables, disk.columns, disk.rows)'
  <2>1. Kept(disk.tables, disk.columns, disk.rows) /\ "traffic_stats" \in disk.tables
        /\ disk.columns = Columns
    BY <1>1, <1>2 DEF IInv, RowsInv, ServesCurrentSchema, Tables
  <2>2. \A i \in 1 .. n + m : DOMAIN disk'.rows[i] = Columns
    <3>1. \A i \in 1 .. n : DOMAIN disk.rows[i] = Columns
      BY <1>3, <2>1 DEF Kept, Carries
    <3>2. \A i \in n + 1 .. n + m : DOMAIN disk'.rows[i] = Columns
      BY <1>3, RowFacts
    <3>3. QED
      BY <1>3, <1>4, <3>1, <3>2
  <2>3. Carries(disk.rows)'
    <3> SUFFICES ASSUME NEW i \in 1 .. n + m, NEW c \in DOMAIN entered'[i] \ {"client_ip"}
                 PROVE  /\ c \in DOMAIN disk'.rows[i]
                        /\ Name(disk'.rows[i][c]) = Name(entered'[i][c])
      BY <1>3 DEF Carries
    <3>1. CASE i \in 1 .. n
      BY <1>3, <2>1, <3>1 DEF Kept, Carries
    <3>2. CASE i \in n + 1 .. n + m
      BY <1>3, <3>2
    <3>3. QED
      BY <1>4, <3>1, <3>2
  <2>4. QED
    BY <1>3, <1>5, <2>1, <2>2, <2>3 DEF Kept
<1>8. RowsInv'
  <2>1. IsFiniteSet(DOMAIN entered)'
    BY <1>3, FS_Interval
  <2>2. \A i \in 1 .. n + m : DOMAIN entered'[i] \subseteq Columns \cup {"client_ip"}
    <3>1. \A i \in 1 .. n : DOMAIN entered[i] \subseteq Columns \cup {"client_ip"}
      BY <1>1, <1>3 DEF IInv, RowsInv
    <3>2. \A i \in n + 1 .. n + m : DOMAIN entered'[i] = Columns
      BY <1>3, RowFacts
    <3>3. QED
      BY <1>3, <1>4, <3>1, <3>2
  <2>3. Known(disk)' /\ "traffic_stats_new" \notin disk'.tables
    BY <1>1, <1>5 DEF IInv, RowsInv, Known
  <2>4. \A w : ~Upcoming(w)'
    BY <1>1 DEF Upcoming
  <2>5. Known(view)' /\ "traffic_stats_new" \notin view'.tables
        /\ Kept(view.tables, view.columns, view.rows)'
    BY <1>1, <1>7, <2>3 DEF Known, Kept, Carries
  <2>6. QED
    BY <1>3, <1>7, <2>1, <2>2, <2>3, <2>4, <2>5 DEF RowsInv
<1>9. TodoInv'
  <2>1. /\ Tables \subseteq view'.tables /\ AddedColumns \subseteq view'.columns
        /\ "ip_geo_cache" \notin view'.tables /\ "client_ip" \notin view'.columns
        /\ DOMAIN Index \subseteq view'.indexes
    BY <1>1, <1>2, <1>5 DEF ServesCurrentSchema, Tables, Columns, AddedColumns, IInv, TodoInv,
       TodoFormer, TodoAny, Kinds, Range
  <2>2. \A i \in 1 .. n + m : Clean(disk'.rows[i])
    <3>1. \A i \in 1 .. n : Clean(disk.rows[i])
      BY <1>1, <1>2, <1>3 DEF ServesCurrentSchema, Clean, IInv, RowsInv, Kept, Carries
    <3>2. ASSUME NEW i \in n + 1 .. n + m
          PROVE  Clean(disk'.rows[i])
      <4>0. PICK record : disk'.rows[i] = RowOf(record)
        BY <1>3
      <4>1. \A c \in Columns : \E name : disk'.rows[i][c] = Text(name)
        BY <4>0, RowFacts
      <4>2. \A name : Text(name) = Text(Name(Text(name)))
        BY DEF Text, Name, Null
      <4>3. Rewritten \subseteq Columns
        BY AddedHas DEF Rewritten, Columns
      <4>4. QED
        BY <4>1, <4>2, <4>3 DEF Clean
    <3>3. QED
      BY <1>3, <1>4, <3>1, <3>2
  <2>3. \A i \in DOMAIN view'.rows : Clean(view'.rows[i])
    BY <1>1, <1>3, <2>2
  <2>4. QED
    BY <2>1, <2>3 DEF TodoInv, TodoTables, TodoColumns, TodoFormer, TodoIndexes, TodoRows,
                      Clean
<1>10. RowsAreLists'
  <2>1. Listed(disk.copy)'
    BY <1>1, <1>5 DEF RowsAreLists, Listed, IsFunction
  <2>2. PICK k \in Nat : k = n + m
    OBVIOUS
  <2>3. DOMAIN entered' = 1 .. k
    BY <1>3, <2>2
  <2>4. Listed(disk.rows)'
    <3>1. \A i \in 1 .. n : RightlyNamed(disk'.rows[i])
      <4>1. DOMAIN disk.rows = 1 .. n
        BY <1>1, <1>3 DEF IInv, RowsInv, Kept, Carries
      <4>2. \A i \in DOMAIN disk.rows : RightlyNamed(disk.rows[i])
        BY <1>1 DEF RowsAreLists, Listed
      <4>3. QED
        BY <1>3, <4>1, <4>2
    <3>2. \A i \in n + 1 .. n + m : RightlyNamed(disk'.rows[i])
      <4>1. \A i \in DOMAIN live : live[i] \in Records
        BY <1>1 DEF CountedInv
      <4>2. QED
        BY <1>3, <4>1, RowNames
    <3>3. \A i \in DOMAIN disk'.rows : RightlyNamed(disk'.rows[i])
      BY <1>3, <1>4, <3>1, <3>2
    <3>4. QED
      BY <1>3, <3>3 DEF Listed, IsFunction
  <2>5. Listed(view.copy)' /\ Listed(view.rows)'
    BY <1>1, <2>1, <2>4 DEF Listed, IsFunction
  <2>6. QED
    BY <1>3, <2>1, <2>3, <2>4, <2>5 DEF RowsAreLists
<1>11. CountedInv'
  <2>1. /\ DOMAIN counted' = DOMAIN counted \cup (n + 1 .. n + m)
        /\ \A id \in DOMAIN counted : counted'[id] = counted[id]
        /\ \A id \in (n + 1 .. n + m) \ DOMAIN counted :
             counted'[id] = [user |-> UserKey(live[id - n]), client |-> ClientKey(live[id - n])]
    BY <1>3 DEF Flush
  <2>2. ASSUME NEW id \in DOMAIN counted
        PROVE  id \in DOMAIN entered' /\ \E record \in Records : CountedIs(id, record)'
    <3>1. /\ id \in 1 .. n /\ entered'[id] = entered[id] /\ counted'[id] = counted[id]
          /\ \E record \in Records : CountedIs(id, record)
      BY <1>1, <1>3, <2>1 DEF CountedInv
    <3>2. QED
      BY <1>3, <3>1 DEF CountedIs
  <2>3. ASSUME NEW id \in (n + 1 .. n + m) \ DOMAIN counted
        PROVE  id \in DOMAIN entered' /\ \E record \in Records : CountedIs(id, record)'
    <3>1. PICK record \in Records : record = live[id - n]
      BY <1>1, <1>3 DEF CountedInv
    <3>2. entered'[id] = RowOf(record) /\ id \in DOMAIN entered'
      BY <1>3, <3>1
    <3>3. CountedIs(id, record)'
      BY <2>1, <3>1, <3>2 DEF CountedIs
    <3>4. QED
      BY <3>2, <3>3
  <2>4. live' \in Seq(Records)
    BY <1>1
  <2>5. QED
    BY <2>1, <2>2, <2>3, <2>4 DEF CountedInv
<1>12. QED
  BY <1>6, <1>8, <1>9, <1>10, <1>11 DEF BucketsInv, IInv

------------------------------------------------------------------------------
(* The theorems. *)

(* A former database is a list of rows; nothing has been counted yet.      *)
LEMMA InitBucketsInv == InitBuckets => BucketsInv
<1> SUFFICES ASSUME InitBuckets PROVE BucketsInv
  OBVIOUS
<1>1. Init /\ live = <<>> /\ counted = <<>> /\ view = disk /\ entered = disk.rows
  BY DEF InitBuckets, Init
<1>2. IInv
  BY <1>1, InitIInv
<1>3. /\ Listed(disk.rows) /\ Listed(disk.copy)
      /\ \E n \in Nat : DOMAIN disk.rows = 1 .. n
  <2>1. CASE disk = NoDatabase
    <3>1. disk.rows = Null /\ disk.copy = Null /\ 1 .. 0 = {} /\ 0 \in Nat
      BY <2>1 DEF NoDatabase
    <3>2. DOMAIN disk.rows = 1 .. 0
      BY <3>1, FunctionFacts
    <3>3. QED
      BY <3>1, <3>2, FunctionFacts
  <2>2. CASE disk # NoDatabase
    <3>1. PICK cs \in FormerColumns, ip \in {{}, {"client_ip"}}, rs \in FormerRows,
               ts \in {{"client_rules"}, {"ip_geo_cache"}} :
            disk = Former({"user_id"} \cup cs \cup ip, rs, {"users", "servers"} \cup ts)
      BY <1>1, <2>2 DEF Init
    <3>2. PICK columns : disk.rows = WithColumns(rs, columns) /\ disk.copy = Null
      BY <3>1 DEF Former
    <3>3. DOMAIN disk.rows = 1 .. Len(rs) /\ Len(rs) \in Nat
      BY <3>2, FormerAssumption DEF WithColumns
    <3>4. \A id \in DOMAIN rs : RightlyNamed(rs[id])
      BY NamesAssumption
    <3>5. Listed(disk.rows) /\ Listed(disk.copy)
      BY <3>2, <3>4, FunctionFacts
    <3>6. QED
      BY <3>3, <3>5
  <2>3. QED
    BY <2>1, <2>2
<1>4. RowsAreLists
  BY <1>1, <1>3 DEF RowsAreLists, Listed
<1>5. CountedInv
  BY <1>1 DEF CountedInv
<1>6. QED
  BY <1>2, <1>4, <1>5 DEF BucketsInv

(* Every step of a start, every end, every record and every flush keeps it. *)
LEMMA BucketsStep == BucketsInv /\ [NextBuckets]_allVars => BucketsInv'
<1> SUFFICES ASSUME BucketsInv, [NextBuckets]_allVars PROVE BucketsInv'
  OBVIOUS
<1>1. ASSUME [Next]_vars, counted' = counted, live' \in Seq(Records)
      PROVE  BucketsInv'
  <2>1. IInv' /\ RowsAreLists'
    BY <1>1, InductiveStep, ListsStep DEF BucketsInv
  <2>2. entered' = entered
    BY <1>1, EnteredStays
  <2>3. CountedInv'
    BY <1>1, <2>2 DEF BucketsInv, CountedInv, CountedIs
  <2>4. QED
    BY <2>1, <2>3 DEF BucketsInv
<1>2. live \in Seq(Records)
  BY DEF BucketsInv, CountedInv
<1>3. CASE (Proceed \/ Start) /\ UNCHANGED bucketVars
  BY <1>1, <1>2, <1>3 DEF Next, bucketVars
<1>4. CASE ProcessEnds /\ live' = <<>> /\ UNCHANGED counted
  BY <1>1, <1>4 DEF Next
<1>5. ASSUME NEW u \in Users \cup {NoName}, NEW c \in Clients \cup {NoName}, NEW p \in Paths,
             Record(u, c, p)
      PROVE  BucketsInv'
  <2>1. UNCHANGED <<vars, counted>>
    BY <1>5 DEF Record
  <2>2. CountedInv'
    BY <1>5, RecordStep
  <2>3. QED
    BY <1>1, <2>1, <2>2 DEF CountedInv
<1>6. CASE Flush
  BY <1>6, FlushStep
<1>7. CASE UNCHANGED allVars
  BY <1>1, <1>2, <1>7 DEF allVars, bucketVars
<1>8. QED
  BY <1>3, <1>4, <1>5, <1>6, <1>7 DEF NextBuckets

LEMMA InductiveBuckets == SpecBuckets => []BucketsInv
BY InitBucketsInv, BucketsStep, PTL DEF SpecBuckets

(* A row that says what its record said is counted where the record was.   *)
LEMMA CountedAlike ==
  ASSUME NEW record \in Records, NEW row,
         Name(row["user_id"]) = record.user, Name(row["client_name"]) = record.client,
         Name(row["request_path"]) = record.path, Name(row["traffic_kind"]) = record.kind,
         record.client = NoName => Name(row["client_id"]) = NoName
  PROVE  /\ RowClientKey(row) = ClientKey(record)
         /\ \/ RowUserKey(row) = UserKey(record)
            \/ /\ UserKey(record) = UnknownUser /\ RowUserKey(row) = PublicRequests
               /\ Name(row["request_path"]) = "nested"
<1>1. record.kind = ClassifyTraffic(record.user, record.path)
  BY DEF Records
<1>2. RowClientKey(row) = ClientKey(record)
  <2>1. CASE record.client = NoName
    <3>0. Blank(row["client_id"]) /\ Blank(row["client_name"])
      BY <2>1 DEF Blank
    <3>1. PICK group : group = ClientGroup(row) /\ group = <<"unknown", Null>>
      BY <3>0 DEF ClientGroup
    <3>2. ClientOfGroup(group) = UnknownClient
      BY <3>1 DEF ClientOfGroup
    <3>3. QED
      BY <2>1, <3>1, <3>2 DEF RowClientKey, ClientKey
  <2>2. CASE record.client # NoName
    <3>0. ~Blank(row["client_name"])
      BY <2>2 DEF Blank
    <3>1. PICK group : group = ClientGroup(row) /\ group = <<"name", row["client_name"]>>
      BY <3>0 DEF ClientGroup
    <3>2. ClientOfGroup(group) = Name(group[2])
      BY <3>1 DEF ClientOfGroup
    <3>3. QED
      BY <2>2, <3>1, <3>2 DEF RowClientKey, ClientKey
  <2>3. QED
    BY <2>1, <2>2
<1>3. CASE record.user # NoName
  <2>1. record.kind = "user" /\ ~LooksPublic(row) /\ ~Blank(row["user_id"])
    BY <1>1, <1>3 DEF ClassifyTraffic, LooksPublic, Blank
  <2>2. QED
    BY <1>2, <1>3, <2>1 DEF RowUserKey, UserKey
<1>4. CASE record.user = NoName /\ record.path = "public"
  <2>1. record.kind = "public" /\ LooksPublic(row)
    BY <1>1, <1>4 DEF ClassifyTraffic, LooksPublic
  <2>2. QED
    BY <1>2, <2>1 DEF RowUserKey, UserKey
<1>5. CASE record.user = NoName /\ record.path # "public"
  <2>1. /\ record.kind = "unknown" /\ Blank(row["user_id"])
        /\ LooksPublic(row) => Name(row["request_path"]) = "nested"
    BY <1>1, <1>5 DEF ClassifyTraffic, LooksPublic, Blank
  <2>2. QED
    BY <1>2, <1>5, <2>1 DEF RowUserKey, UserKey
<1>6. QED
  BY <1>3, <1>4, <1>5

(* The names that a row in memory says are those of its record.            *)
LEMMA CountedNames ==
  ASSUME BucketsInv, Serving, NEW id \in DOMAIN counted
  PROVE  \E record \in Records :
           /\ counted[id] = [user |-> UserKey(record), client |-> ClientKey(record)]
           /\ Name(Rows[id]["user_id"]) = record.user
           /\ Name(Rows[id]["client_name"]) = record.client
           /\ Name(Rows[id]["request_path"]) = record.path
           /\ Name(Rows[id]["traffic_kind"]) = record.kind
           /\ record.client = NoName => Name(Rows[id]["client_id"]) = NoName
<1>1. PICK record \in Records : CountedIs(id, record)
  BY DEF BucketsInv, CountedInv
<1>2. id \in DOMAIN entered /\ entered[id] = RowOf(record)
  BY <1>1 DEF BucketsInv, CountedInv, CountedIs
<1>3. RowsSurvive /\ view = disk
  BY InvariantPromises DEF BucketsInv, ServesCurrentSchema
<1>4. \A c \in Columns \ {"client_ip"} : Name(Rows[id][c]) = Name(RowOf(record)[c])
  BY <1>2, <1>3, RowFacts DEF RowsSurvive, Rows
<1>5. {"user_id", "client_id", "client_name", "request_path", "traffic_kind"}
        \subseteq Columns \ {"client_ip"}
  BY AddedHas DEF Columns
<1>6. \A name : Name(Text(name)) = name
  BY DEF Text, Name, Null
<1>7. /\ Name(Rows[id]["user_id"]) = record.user
      /\ Name(Rows[id]["client_name"]) = record.client
      /\ Name(Rows[id]["request_path"]) = record.path
      /\ Name(Rows[id]["traffic_kind"]) = record.kind
  BY <1>4, <1>5, <1>6, RowFacts
<1>8. record.client = NoName => Name(Rows[id]["client_id"]) = NoName
  BY <1>4, <1>5, <1>6, RowFacts
<1>9. QED
  BY <1>1, <1>7, <1>8 DEF CountedIs

LEMMA InvariantStays == BucketsInv => BucketsStay
<1> SUFFICES ASSUME BucketsInv, Serving, NEW id \in DOMAIN counted
             PROVE  /\ RowClientKey(Rows[id]) = counted[id].client
                    /\ \/ RowUserKey(Rows[id]) = counted[id].user
                       \/ /\ counted[id].user = UnknownUser
                          /\ RowUserKey(Rows[id]) = PublicRequests
                          /\ Name(Rows[id]["request_path"]) = "nested"
  BY DEF BucketsStay
<1>1. PICK row : row = Rows[id]
  OBVIOUS
<1>2. PICK record \in Records :
        /\ counted[id] = [user |-> UserKey(record), client |-> ClientKey(record)]
        /\ Name(row["user_id"]) = record.user /\ Name(row["client_name"]) = record.client
        /\ Name(row["request_path"]) = record.path /\ Name(row["traffic_kind"]) = record.kind
        /\ record.client = NoName => Name(row["client_id"]) = NoName
  BY <1>1, CountedNames
<1>3. /\ RowClientKey(row) = ClientKey(record)
      /\ \/ RowUserKey(row) = UserKey(record)
         \/ /\ UserKey(record) = UnknownUser /\ RowUserKey(row) = PublicRequests
            /\ Name(row["request_path"]) = "nested"
  BY <1>2, CountedAlike
<1>4. counted[id].user = UserKey(record) /\ counted[id].client = ClientKey(record)
  BY <1>2
<1>5. QED
  BY <1>1, <1>3, <1>4

(* BucketsStay: a record that was flushed is listed under the user and the *)
(* client it was listed under in memory, after any number of restarts, but *)
(* for the nested paths that the SQL text alone takes for public.          *)
THEOREM RecordsStayInTheirBuckets == SpecBuckets => []BucketsStay
BY InductiveBuckets, InvariantStays, PTL

(* RowsSurvive and ServesCurrentSchema, when records are stored between    *)
(* the starts as well.                                                     *)
THEOREM StoredRecordsSurvive == SpecBuckets => []RowsSurvive
<1>1. BucketsInv => RowsSurvive
  BY InvariantPromises DEF BucketsInv
<1>2. QED
  BY <1>1, InductiveBuckets, PTL

THEOREM SchemaStaysCurrent == SpecBuckets => []ServesCurrentSchema
<1>1. BucketsInv => ServesCurrentSchema
  BY InvariantPromises DEF BucketsInv
<1>2. QED
  BY <1>1, InductiveBuckets, PTL

------------------------------------------------------------------------------
(* Totals. *)

(* A total is a sum. *)
Totals(S, g) ==
  g = [s \in SUBSET S |-> IF s = {} THEN 0 ELSE Pick(s).count + g[s \ {Pick(s)}]]
LEMMA TotalIs ==
  ASSUME NEW stats, IsFiniteSet(stats), NEW f, f \in [stats -> Nat],
         \A s \in stats : f[s] = s.count
  PROVE  Total(stats) = SumOver(f, stats)
<1>1. Total(stats) = (CHOOSE g : Totals(stats, g))[stats]
  BY DEF Total, MapThenSumSet, MapThenFoldSet, Totals, Pick
<1>2. SumOver(f, stats) = (CHOOSE g : SumsBy(f, stats, g))[stats]
  BY SumIs DEF SumOver
<1>3. ASSUME NEW g PROVE SumsBy(f, stats, g) <=> Totals(stats, g)
  <2>1. \A s \in SUBSET stats : s # {} => f[Pick(s)] = Pick(s).count
    BY PickIsOne
  <2>2. [s \in SUBSET stats |-> IF s = {} THEN 0 ELSE Pick(s).count + g[s \ {Pick(s)}]]
          = [s \in SUBSET stats |-> IF s = {} THEN 0 ELSE f[Pick(s)] + g[s \ {Pick(s)}]]
    BY <2>1
  <2>3. QED
    BY <2>2 DEF SumsBy, Totals
<1>4. \E g : SumsBy(f, stats, g)
  <2>1. \A s \in stats : f[s] \in Int
    OBVIOUS
  <2>2. QED
    BY <2>1, SumsExist
<1>5. PICK g : g = CHOOSE h : SumsBy(f, stats, h)
  OBVIOUS
<1>6. PICK t : t = CHOOSE h : Totals(stats, h)
  OBVIOUS
<1>7. SumsBy(f, stats, g)
  BY <1>4, <1>5
<1>8. Totals(stats, t)
  BY <1>3, <1>4, <1>6
<1>9. g[stats] = t[stats]
  BY <1>3, <1>7, <1>8, SumsAgree
<1>10. QED
  BY <1>1, <1>2, <1>5, <1>6, <1>9

(* That of two entries at most. *)
LEMMA SmallTotals ==
  /\ Total({}) = 0
  /\ \A s : s.count \in Nat => Total({s}) = s.count
  /\ \A s, t : s # t /\ s.count \in Nat /\ t.count \in Nat
                 => Total({s, t}) = s.count + t.count
<1>1. Total({}) = 0
  <2>1. PICK f \in [{} -> Nat] : f = [x \in {} |-> 0]
    OBVIOUS
  <2>2. IsFiniteSet({}) /\ {} \in SUBSET {}
    BY FS_EmptySet
  <2>3. SumOver(f, {}) = 0
    BY <2>1, <2>2, SumWith
  <2>4. QED
    BY <2>1, <2>2, <2>3, TotalIs
<1>2. ASSUME NEW s, s.count \in Nat PROVE Total({s}) = s.count
  <2>1. PICK f : f = [x \in {s} |-> x.count]
    OBVIOUS
  <2>2. f \in [{s} -> Nat] /\ IsFiniteSet({s}) /\ {s} \in SUBSET {s} /\ f[s] = s.count
    BY <1>2, <2>1, FS_Singleton
  <2>3. SumOver(f, {s}) = f[s] + SumOver(f, {s} \ {s}) /\ SumOver(f, {}) = 0
    BY <2>2, SumWith
  <2>4. {s} \ {s} = {}
    OBVIOUS
  <2>5. Total({s}) = SumOver(f, {s})
    BY <2>1, <2>2, TotalIs
  <2>6. QED
    BY <1>2, <2>2, <2>3, <2>4, <2>5
<1>3. ASSUME NEW s, NEW t, s # t, s.count \in Nat, t.count \in Nat
      PROVE  Total({s, t}) = s.count + t.count
  <2>1. PICK f : f = [x \in {s, t} |-> x.count]
    OBVIOUS
  <2>2. f \in [{s, t} -> Nat] /\ f[s] = s.count /\ f[t] = t.count
    BY <1>3, <2>1
  <2>3. IsFiniteSet({s, t})
    <3>1. IsFiniteSet({s}) /\ IsFiniteSet({t}) /\ {s, t} = {s} \cup {t}
      BY FS_Singleton
    <3>2. QED
      BY <3>1, FS_Union
  <2>4. /\ {s, t} \in SUBSET {s, t} /\ {t} \in SUBSET {s, t}
        /\ {s, t} \ {s} = {t} /\ {t} \ {t} = {}
    BY <1>3
  <2>5. \A y \in {s, t} : SumOver(f, {s, t}) = f[y] + SumOver(f, {s, t} \ {y})
    BY <2>2, <2>3, <2>4, SumWith
  <2>6. \A y \in {t} : SumOver(f, {t}) = f[y] + SumOver(f, {t} \ {y})
    BY <2>2, <2>3, <2>4, SumWith
  <2>7. SumOver(f, {}) = 0
    BY <2>2, <2>3, <2>4, SumWith
  <2>8. SumOver(f, {s, t}) = f[s] + (f[t] + 0)
    BY <2>4, <2>5, <2>6, <2>7
  <2>9. Total({s, t}) = SumOver(f, {s, t})
    BY <2>1, <2>2, <2>3, TotalIs
  <2>10. QED
    BY <1>3, <2>2, <2>8, <2>9
<1>4. QED
  BY <1>1, <1>2, <1>3

(* A list: the rows D have the keys r, the records E in memory the keys q, *)
(* and e is the key an entry of the table is looked up by.                 *)
Keys(D, r) == {r[x] : x \in D}
NewKeys(D, r, E, q, e) == Keys(E, q) \ {e[k] : k \in Keys(D, r)}
InTable(D, r, E, q, e, k) ==
  [id |-> k, count |-> Cardinality(Of(D, r, k)) + Cardinality(Of(E, q, e[k]))]
OnlyLive(E, q, k) == [id |-> k, count |-> Cardinality(Of(E, q, k)), started |-> "live"]
OfTable(D, r, E, q, e) == {InTable(D, r, E, q, e, k) : k \in Keys(D, r)}
OfMemory(D, r, E, q, e) == {OnlyLive(E, q, k) : k \in NewKeys(D, r, E, q, e)}

LEMMA EntriesOf ==
  ASSUME NEW D, IsFiniteSet(D), NEW r, NEW E, IsFiniteSet(E), NEW q, NEW e
  PROVE  /\ \A k : Cardinality(Of(D, r, k)) \in Nat /\ Cardinality(Of(E, q, k)) \in Nat
         /\ \A k : InTable(D, r, E, q, e, k).id = k /\ OnlyLive(E, q, k).id = k
         /\ \A k : InTable(D, r, E, q, e, k).count
                     = Cardinality(Of(D, r, k)) + Cardinality(Of(E, q, e[k]))
         /\ \A k : OnlyLive(E, q, k).count = Cardinality(Of(E, q, k))
         /\ \A j, k : InTable(D, r, E, q, e, j) # OnlyLive(E, q, k)
         /\ IsFiniteSet(Keys(D, r)) /\ IsFiniteSet(Keys(E, q))
<1>1. \A k : Of(D, r, k) \in SUBSET D /\ Of(E, q, k) \in SUBSET E
  BY DEF Of
<1>2. \A k : Cardinality(Of(D, r, k)) \in Nat /\ Cardinality(Of(E, q, k)) \in Nat
  BY <1>1, Smaller
<1>3. ASSUME NEW j, NEW k PROVE InTable(D, r, E, q, e, j) # OnlyLive(E, q, k)
  <2>1. /\ DOMAIN InTable(D, r, E, q, e, j) = {"id", "count"}
        /\ DOMAIN OnlyLive(E, q, k) = {"id", "count", "started"}
    BY DEF InTable, OnlyLive
  <2>2. "started" \notin {"id", "count"} /\ "started" \in {"id", "count", "started"}
    OBVIOUS
  <2>3. QED
    BY <2>1, <2>2
<1>4. IsFiniteSet(Keys(D, r))
  BY FiniteImage DEF Keys
<1>5. IsFiniteSet(Keys(E, q))
  BY FiniteImage DEF Keys
<1>6. /\ \A k : InTable(D, r, E, q, e, k).id = k /\ OnlyLive(E, q, k).id = k
      /\ \A k : InTable(D, r, E, q, e, k).count
                  = Cardinality(Of(D, r, k)) + Cardinality(Of(E, q, e[k]))
      /\ \A k : OnlyLive(E, q, k).count = Cardinality(Of(E, q, k))
  BY DEF InTable, OnlyLive
<1>7. QED
  BY <1>2, <1>3, <1>4, <1>5, <1>6

(* It counts each row and each record once, if no two of its entries are   *)
(* looked up by the key of one record.                                     *)
LEMMA ListTotal ==
  ASSUME NEW D, IsFiniteSet(D), NEW r, NEW E, IsFiniteSet(E), NEW q, NEW e,
         \A j, k \in Keys(D, r) : e[j] = e[k] /\ e[j] \in Keys(E, q) => j = k
  PROVE  Total(OfTable(D, r, E, q, e) \cup OfMemory(D, r, E, q, e))
           = Cardinality(D) + Cardinality(E)
<1>1. PICK K, N, A, B :
        /\ K = Keys(D, r) /\ N = NewKeys(D, r, E, q, e)
        /\ A = OfTable(D, r, E, q, e) /\ B = OfMemory(D, r, E, q, e)
  OBVIOUS
<1>2. PICK M, T : M = {k \in K : e[k] \in Keys(E, q)} /\ T = {e[k] : k \in K} \cup N
  OBVIOUS
<1>3. PICK n, m, p, s :
        /\ n = [k \in K |-> Cardinality(Of(D, r, k))]
        /\ m = [k \in T |-> Cardinality(Of(E, q, k))]
        /\ p = [k \in K |-> Cardinality(Of(E, q, e[k]))]
        /\ s = [k \in K |-> Cardinality(Of(D, r, k)) + Cardinality(Of(E, q, e[k]))]
  OBVIOUS
<1>4. /\ n \in [K -> Nat] /\ m \in [T -> Nat] /\ p \in [K -> Nat] /\ s \in [K -> Nat]
  <2>1. /\ \A k : Cardinality(Of(D, r, k)) \in Nat
        /\ \A k : Cardinality(Of(E, q, k)) \in Nat
    BY EntriesOf
  <2>2. /\ \A k : Cardinality(Of(E, q, e[k])) \in Nat
        /\ \A k : Cardinality(Of(D, r, k)) + Cardinality(Of(E, q, e[k])) \in Nat
    BY <2>1
  <2>3. n \in [K -> Nat]
    BY <1>3, <2>1
  <2>4. m \in [T -> Nat]
    BY <1>3, <2>1
  <2>5. p \in [K -> Nat]
    BY <1>3, <2>2
  <2>6. s \in [K -> Nat]
    BY <1>3, <2>2
  <2>7. QED
    BY <2>3, <2>4, <2>5, <2>6
<1>5. IsFiniteSet(K) /\ IsFiniteSet(T) /\ IsFiniteSet(N)
  <2>1. IsFiniteSet(K)
    BY <1>1, EntriesOf
  <2>2. IsFiniteSet({e[k] : k \in K})
    BY <2>1, FiniteImage
  <2>3. IsFiniteSet(N)
    <3>1. N \subseteq Keys(E, q) /\ IsFiniteSet(Keys(E, q))
      BY <1>1, EntriesOf DEF NewKeys
    <3>2. QED
      BY <3>1, FS_Subset
  <2>4. QED
    BY <1>2, <2>1, <2>2, <2>3, FS_Union
<1>6. SumOver(n, K) = Cardinality(D)
  <2>1. SumOver(n, K) = Cardinality({x \in D : r[x] \in K})
    <3>1. \A k \in K : n[k] = Cardinality(Of(D, r, k))
      BY <1>3
    <3>2. QED
      BY <1>4, <1>5, <3>1, SumOfKinds
  <2>2. {x \in D : r[x] \in K} = D
    BY <1>1 DEF Keys
  <2>3. QED
    BY <2>1, <2>2
<1>7. SumOver(p, K) = SumOver(p, M)
  <2>1. M \in SUBSET K /\ K \ M \in SUBSET K /\ M \cap (K \ M) = {} /\ M \cup (K \ M) = K
    BY <1>2
  <2>2. \A k \in K \ M : p[k] = 0
    <3>1. ASSUME NEW k \in K \ M PROVE Of(E, q, e[k]) = {}
      BY <1>2 DEF Of, Keys
    <3>2. QED
      BY <1>3, <3>1, FS_EmptySet
  <2>3. SumOver(p, K \ M) = 0
    BY <1>4, <1>5, <2>1, <2>2, SumZeros
  <2>4. SumOver(p, M \cup (K \ M)) = SumOver(p, M) + SumOver(p, K \ M) /\ SumOver(p, M) \in Nat
    <3>1. PICK X : X = K \ M
      OBVIOUS
    <3>2. M \in SUBSET K /\ X \in SUBSET K /\ M \cap X = {} /\ p \in [K -> Nat] /\ IsFiniteSet(K)
      BY <1>4, <1>5, <2>1, <3>1
    <3>3. SumOver(p, M \cup X) = SumOver(p, M) + SumOver(p, X)
      BY <3>2, SumUnion
    <3>4. SumOver(p, M) \in Nat
      BY <3>2, SumLess
    <3>5. QED
      BY <3>1, <3>3, <3>4
  <2>5. QED
    BY <2>1, <2>3, <2>4
<1>8. PICK L : L = {e[k] : k \in M}
  OBVIOUS
<1>9. SumOver(p, M) = SumOver(m, L)
  <2>1. PICK g : g = [k \in K |-> e[k]]
    OBVIOUS
  <2>2. g \in [K -> T]
    BY <1>2, <2>1
  <2>3. \A k \in M : p[k] = m[g[k]]
    BY <1>2, <1>3, <2>1
  <2>4. \A j, k \in M : g[j] = g[k] => j = k
    BY <1>1, <1>2, <2>1
  <2>5. M \in SUBSET K
    BY <1>2
  <2>6. SumOver(p, M) = SumOver(m, {g[k] : k \in M})
    BY <1>4, <1>5, <2>2, <2>3, <2>4, <2>5, SumRenamed
  <2>7. {g[k] : k \in M} = L
    BY <1>8, <2>1, <2>5
  <2>8. QED
    BY <2>6, <2>7
<1>21. \A k \in T : m[k] = Cardinality(Of(E, q, k))
  BY <1>3
<1>10. SumOver(m, L) + SumOver(m, N) = Cardinality(E)
  <2>1. L \in SUBSET T /\ N \in SUBSET T /\ L \cap N = {} /\ L \cup N \in SUBSET T
    BY <1>1, <1>2, <1>8 DEF NewKeys
  <2>2. SumOver(m, L \cup N) = SumOver(m, L) + SumOver(m, N)
    BY <1>4, <1>5, <2>1, SumUnion
  <2>3. SumOver(m, L \cup N) = Cardinality({x \in E : q[x] \in L \cup N})
    BY <1>4, <1>5, <1>21, <2>1, SumOfKinds
  <2>4. {x \in E : q[x] \in L \cup N} = E
    BY <1>1, <1>2, <1>8 DEF Keys, NewKeys
  <2>5. QED
    BY <2>2, <2>3, <2>4
<1>22. /\ \A k : Cardinality(Of(D, r, k)) \in Nat
       /\ \A k : Cardinality(Of(E, q, k)) \in Nat
       /\ \A k : InTable(D, r, E, q, e, k).id = k /\ OnlyLive(E, q, k).id = k
       /\ \A k : InTable(D, r, E, q, e, k).count
                   = Cardinality(Of(D, r, k)) + Cardinality(Of(E, q, e[k]))
       /\ \A k : OnlyLive(E, q, k).count = Cardinality(Of(E, q, k))
  <2>1. /\ \A k : Cardinality(Of(D, r, k)) \in Nat
        /\ \A k : Cardinality(Of(E, q, k)) \in Nat
    BY EntriesOf
  <2>2. \A k : InTable(D, r, E, q, e, k).id = k /\ OnlyLive(E, q, k).id = k
    BY DEF InTable, OnlyLive
  <2>3. \A k : InTable(D, r, E, q, e, k).count
                  = Cardinality(Of(D, r, k)) + Cardinality(Of(E, q, e[k]))
    BY DEF InTable
  <2>4. \A k : OnlyLive(E, q, k).count = Cardinality(Of(E, q, k))
    BY DEF OnlyLive
  <2>5. QED
    BY <2>1, <2>2, <2>3, <2>4
<1>11. A \cap B = {} /\ IsFiniteSet(A) /\ IsFiniteSet(B)
  <2>1. A = {InTable(D, r, E, q, e, k) : k \in K} /\ B = {OnlyLive(E, q, k) : k \in N}
    BY <1>1 DEF OfTable, OfMemory
  <2>2. IsFiniteSet(A)
    <3>1. PICK g : g = [k \in K |-> InTable(D, r, E, q, e, k)]
      OBVIOUS
    <3>2. A = {g[k] : k \in K}
      BY <2>1, <3>1
    <3>3. QED
      BY <1>5, <3>2, FiniteImage
  <2>3. IsFiniteSet(B)
    <3>1. PICK g : g = [k \in N |-> OnlyLive(E, q, k)]
      OBVIOUS
    <3>2. B = {g[k] : k \in N}
      BY <2>1, <3>1
    <3>3. QED
      BY <1>5, <3>2, FiniteImage
  <2>4. A \cap B = {}
    BY <2>1, EntriesOf
  <2>5. QED
    BY <2>2, <2>3, <2>4
<1>12. PICK R, f : R = A \cup B /\ f = [x \in R |-> x.count]
  OBVIOUS
<1>13. f \in [R -> Nat] /\ IsFiniteSet(R)
  <2>1. \A x \in A : x.count \in Nat
    <3>1. \A k : InTable(D, r, E, q, e, k).count \in Nat
      BY <1>22
    <3>2. QED
      BY <1>1, <3>1 DEF OfTable
  <2>2. \A x \in B : x.count \in Nat
    <3>1. \A k : OnlyLive(E, q, k).count \in Nat
      BY <1>22
    <3>2. QED
      BY <1>1, <3>1 DEF OfMemory
  <2>3. QED
    BY <1>11, <1>12, <2>1, <2>2, FS_Union
<1>14. SumOver(s, K) = SumOver(f, A)
  <2>1. PICK g : g = [k \in K |-> InTable(D, r, E, q, e, k)]
    OBVIOUS
  <2>2. {g[k] : k \in K} = A /\ K \in SUBSET K
    BY <1>1, <2>1 DEF OfTable
  <2>3. g \in [K -> R]
    BY <1>12, <2>1, <2>2
  <2>4. \A k \in K : s[k] = f[g[k]]
    BY <1>3, <1>12, <1>22, <2>1, <2>3
  <2>5. \A j, k \in K : g[j] = g[k] => j = k
    BY <1>22, <2>1
  <2>6. SumOver(s, K) = SumOver(f, {g[k] : k \in K})
    BY <1>4, <1>5, <1>13, <2>2, <2>3, <2>4, <2>5, SumRenamed
  <2>7. QED
    BY <2>2, <2>6
<1>15. SumOver(m, N) = SumOver(f, B)
  <2>1. PICK g, h : /\ g = [k \in N |-> OnlyLive(E, q, k)]
                    /\ h = [k \in N |-> Cardinality(Of(E, q, k))]
    OBVIOUS
  <2>2. {g[k] : k \in N} = B /\ N \in SUBSET N /\ N \in SUBSET T
    BY <1>1, <1>2, <2>1 DEF OfMemory
  <2>3. g \in [N -> R]
    BY <1>12, <2>1, <2>2
  <2>4. h \in [N -> Nat]
    BY <2>1, EntriesOf
  <2>5. \A k \in N : h[k] = f[g[k]]
    BY <1>12, <1>22, <2>1, <2>3
  <2>6. \A j, k \in N : g[j] = g[k] => j = k
    BY <1>22, <2>1
  <2>7. SumOver(h, N) = SumOver(f, {g[k] : k \in N})
    BY <1>5, <1>13, <2>2, <2>3, <2>4, <2>5, <2>6, SumRenamed
  <2>8. SumOver(h, N) = Cardinality({x \in E : q[x] \in N})
    BY <1>5, <2>1, <2>2, <2>4, SumOfKinds
  <2>9. SumOver(m, N) = Cardinality({x \in E : q[x] \in N})
    BY <1>4, <1>5, <1>21, <2>2, SumOfKinds
  <2>10. QED
    BY <2>2, <2>7, <2>8, <2>9
<1>16. SumOver(s, K) = SumOver(n, K) + SumOver(p, K)
  <2>1. \A k \in K : s[k] = n[k] + p[k]
    BY <1>3
  <2>2. QED
    BY <1>4, <1>5, <2>1, SumPlus
<1>17. Total(R) = SumOver(f, A) + SumOver(f, B)
  <2>1. A \in SUBSET R /\ B \in SUBSET R
    BY <1>12
  <2>2. SumOver(f, A \cup B) = SumOver(f, A) + SumOver(f, B)
    BY <1>11, <1>13, <2>1, SumUnion
  <2>3. Total(R) = SumOver(f, R)
    BY <1>12, <1>13, TotalIs
  <2>4. QED
    BY <1>12, <2>2, <2>3
<1>18. SumOver(m, L) \in Int /\ SumOver(m, N) \in Int /\ Cardinality(D) \in Int
  <2>1. L \in SUBSET T /\ N \in SUBSET T
    BY <1>2, <1>8
  <2>2. SumOver(m, L) \in Int /\ SumOver(m, N) \in Int
    BY <1>4, <1>5, <2>1, SumWith
  <2>3. QED
    BY <2>2, FS_CardinalityType
<1>19. QED
  <2>1. PICK a \in Int, b \in Int, d \in Int :
          a = SumOver(m, L) /\ b = SumOver(m, N) /\ d = Cardinality(D)
    BY <1>18
  <2>2. Total(R) = (d + a) + b
    BY <1>6, <1>7, <1>9, <1>14, <1>15, <1>16, <1>17, <2>1
  <2>3. Cardinality(E) = a + b
    BY <1>10, <2>1
  <2>4. Total(R) = Cardinality(D) + Cardinality(E)
    BY <2>1, <2>2, <2>3
  <2>5. QED
    BY <1>1, <1>12, <2>4

(* The entries of one key. *)
LEMMA ListEntries ==
  ASSUME NEW D, IsFiniteSet(D), NEW r, NEW E, IsFiniteSet(E), NEW q, NEW e, NEW k
  PROVE  Total(Entries(OfTable(D, r, E, q, e) \cup OfMemory(D, r, E, q, e), k))
           = Cardinality(Of(D, r, k))
             + (IF k \in Keys(D, r) THEN Cardinality(Of(E, q, e[k])) ELSE 0)
             + (IF k \in NewKeys(D, r, E, q, e) THEN Cardinality(Of(E, q, k)) ELSE 0)
<1>a. PICK a \in Nat, b \in Nat, c \in Nat :
        /\ a = Cardinality(Of(D, r, k)) /\ b = Cardinality(Of(E, q, e[k]))
        /\ c = Cardinality(Of(E, q, k))
  <2>1. /\ \A j : Cardinality(Of(D, r, j)) \in Nat
        /\ \A j : Cardinality(Of(E, q, j)) \in Nat
    BY EntriesOf
  <2>2. /\ Cardinality(Of(D, r, k)) \in Nat /\ Cardinality(Of(E, q, e[k])) \in Nat
        /\ Cardinality(Of(E, q, k)) \in Nat
    BY <2>1
  <2>3. QED
    BY <2>2
<1>b. PICK s, t, S :
        /\ s = InTable(D, r, E, q, e, k) /\ t = OnlyLive(E, q, k)
        /\ S = Entries(OfTable(D, r, E, q, e) \cup OfMemory(D, r, E, q, e), k)
  OBVIOUS
<1>1. /\ s = InTable(D, r, E, q, e, k) /\ t = OnlyLive(E, q, k)
      /\ S = Entries(OfTable(D, r, E, q, e) \cup OfMemory(D, r, E, q, e), k)
      /\ a = Cardinality(Of(D, r, k)) /\ b = Cardinality(Of(E, q, e[k]))
      /\ c = Cardinality(Of(E, q, k))
  BY <1>a, <1>b
<1>2. s.count = a + b /\ t.count = c /\ s.id = k /\ t.id = k /\ s # t
  <2>1. s.count = a + b /\ s.id = k
    BY <1>1 DEF InTable
  <2>2. t.count = c /\ t.id = k
    BY <1>1 DEF OnlyLive
  <2>3. \A i, j : InTable(D, r, E, q, e, i) # OnlyLive(E, q, j)
    BY EntriesOf
  <2>4. s # t
    BY <1>1, <2>3
  <2>5. QED
    BY <2>1, <2>2, <2>4
<1>3. S = {x \in {s} : k \in Keys(D, r)} \cup {x \in {t} : k \in NewKeys(D, r, E, q, e)}
  <2>1. /\ \A j : InTable(D, r, E, q, e, j).id = j
        /\ \A j : OnlyLive(E, q, j).id = j
    BY DEF InTable, OnlyLive
  <2>2. {x \in OfTable(D, r, E, q, e) : x.id = k} = {x \in {s} : k \in Keys(D, r)}
    BY <1>1, <2>1 DEF OfTable
  <2>3. {x \in OfMemory(D, r, E, q, e) : x.id = k}
          = {x \in {t} : k \in NewKeys(D, r, E, q, e)}
    BY <1>1, <2>1 DEF OfMemory
  <2>4. S = {x \in OfTable(D, r, E, q, e) : x.id = k}
              \cup {x \in OfMemory(D, r, E, q, e) : x.id = k}
    BY <1>1 DEF Entries
  <2>5. QED
    BY <2>2, <2>3, <2>4
<1>4. k \notin Keys(D, r) => a = 0
  <2>1. k \notin Keys(D, r) => Of(D, r, k) = {}
    BY DEF Of, Keys
  <2>2. QED
    BY <1>1, <2>1, FS_EmptySet
<1>5. Total({}) = 0 /\ Total({s}) = a + b /\ Total({t}) = c /\ Total({s, t}) = (a + b) + c
  BY <1>2, SmallTotals
<1>6. Total(S) = a + (IF k \in Keys(D, r) THEN b ELSE 0)
                   + (IF k \in NewKeys(D, r, E, q, e) THEN c ELSE 0)
  <2>1. CASE k \in Keys(D, r) /\ k \in NewKeys(D, r, E, q, e)
    <3>1. S = {s, t}
      BY <1>3, <2>1
    <3>2. QED
      BY <1>5, <2>1, <3>1
  <2>2. CASE k \in Keys(D, r) /\ k \notin NewKeys(D, r, E, q, e)
    <3>1. S = {s}
      BY <1>3, <2>2
    <3>2. QED
      BY <1>5, <2>2, <3>1
  <2>3. CASE k \notin Keys(D, r) /\ k \in NewKeys(D, r, E, q, e)
    <3>1. S = {t}
      BY <1>3, <2>3
    <3>2. QED
      BY <1>4, <1>5, <2>3, <3>1
  <2>4. CASE k \notin Keys(D, r) /\ k \notin NewKeys(D, r, E, q, e)
    <3>1. S = {}
      BY <1>3, <2>4
    <3>2. QED
      BY <1>4, <1>5, <2>4, <3>1
  <2>5. QED
    BY <2>1, <2>2, <2>3, <2>4
<1>7. QED
  BY <1>1, <1>6

------------------------------------------------------------------------------
(* The lists of the panel.  Which key a stored record and a record in      *)
(* memory is listed under, and which key of memory each entry adds.        *)

UserKeyOf == [id \in DOMAIN Rows |-> RowUserKey(Rows[id])]
LiveUserKey == [i \in DOMAIN live |-> UserKey(live[i])]
UserEntryKey == [k \in Keys(DOMAIN Rows, UserKeyOf) |-> k]
ClientKeyOf == [id \in DOMAIN Rows |-> RowClientKey(Rows[id])]
LiveClientKey == [i \in DOMAIN live |-> ClientKey(live[i])]
ClientEntryKey == [k \in Keys(DOMAIN Rows, ClientKeyOf) |-> KeyOfClientEntry(k)]

UserList ==
  OfTable(DOMAIN Rows, UserKeyOf, DOMAIN live, LiveUserKey, UserEntryKey)
  \cup OfMemory(DOMAIN Rows, UserKeyOf, DOMAIN live, LiveUserKey, UserEntryKey)
ClientList ==
  OfTable(DOMAIN Rows, ClientKeyOf, DOMAIN live, LiveClientKey, ClientEntryKey)
  \cup OfMemory(DOMAIN Rows, ClientKeyOf, DOMAIN live, LiveClientKey, ClientEntryKey)

(* The lists of the users and of the clients are lists by key. *)
LEMMA UsersAsList ==
  /\ GetAllUserStats = UserList
  /\ \A k : InMemory(UserKey, k) = Cardinality(Of(DOMAIN live, LiveUserKey, k))
  /\ \A k : {id \in DOMAIN Rows : RowUserKey(Rows[id]) = k} = Of(DOMAIN Rows, UserKeyOf, k)
<1>1. PICK K, Q :
        K = Keys(DOMAIN Rows, UserKeyOf) /\ Q = Keys(DOMAIN live, LiveUserKey)
  OBVIOUS
<1>2. K = KeysOf(RowUserKey) /\ Q = {UserKey(live[i]) : i \in DOMAIN live}
  BY <1>1 DEF Keys, KeysOf, UserKeyOf, LiveUserKey
<1>3. \A k : {id \in DOMAIN Rows : RowUserKey(Rows[id]) = k} = Of(DOMAIN Rows, UserKeyOf, k)
  BY DEF Of, UserKeyOf
<1>4. \A k : InMemory(UserKey, k) = Cardinality(Of(DOMAIN live, LiveUserKey, k))
  <2>1. \A k : {i \in DOMAIN live : UserKey(live[i]) = k} = Of(DOMAIN live, LiveUserKey, k)
    BY DEF Of, LiveUserKey
  <2>2. QED
    BY <2>1 DEF InMemory
<1>5. PICK stats : stats = Counts(KeysOf(RowUserKey), RowUserKey)
  OBVIOUS
<1>6. stats = {[id |-> k, count |-> Cardinality(Of(DOMAIN Rows, UserKeyOf, k))] : k \in K}
  BY <1>2, <1>3, <1>5 DEF Counts
<1>7. {ItsID(s.id) : s \in stats} = K /\ {UserEntryKey[k] : k \in K} = K
  <2>1. \A k \in K : [id |-> k, count |-> Cardinality(Of(DOMAIN Rows, UserKeyOf, k))].id = k
    OBVIOUS
  <2>2. {ItsID(s.id) : s \in stats} = K
    BY <1>6, <2>1 DEF ItsID
  <2>3. \A k \in K : UserEntryKey[k] = k
    BY <1>1 DEF UserEntryKey
  <2>4. QED
    BY <2>2, <2>3
<1>8. {[s EXCEPT !.count = @ + InMemory(UserKey, ItsID(s.id))] : s \in stats}
        = OfTable(DOMAIN Rows, UserKeyOf, DOMAIN live, LiveUserKey, UserEntryKey)
  <2>1. ASSUME NEW k \in K
        PROVE  [[id |-> k, count |-> Cardinality(Of(DOMAIN Rows, UserKeyOf, k))]
                  EXCEPT !.count = @ + InMemory(UserKey, ItsID(k))]
               = InTable(DOMAIN Rows, UserKeyOf, DOMAIN live, LiveUserKey, UserEntryKey, k)
    <3>1. UserEntryKey[k] = k /\ ItsID(k) = k
      BY <1>1, <2>1 DEF UserEntryKey, ItsID
    <3>2. QED
      BY <1>4, <3>1 DEF InTable
  <2>2. PICK T : T = OfTable(DOMAIN Rows, UserKeyOf, DOMAIN live, LiveUserKey, UserEntryKey)
    OBVIOUS
  <2>3. T = {InTable(DOMAIN Rows, UserKeyOf, DOMAIN live, LiveUserKey, UserEntryKey, k) : k \in K}
    BY <1>1, <2>2 DEF OfTable
  <2>4. ASSUME NEW s \in stats
        PROVE  [s EXCEPT !.count = @ + InMemory(UserKey, ItsID(s.id))] \in T
    <3>1. PICK k \in K : s = [id |-> k, count |-> Cardinality(Of(DOMAIN Rows, UserKeyOf, k))]
      BY <1>6
    <3>2. s.id = k
      BY <3>1
    <3>3. [s EXCEPT !.count = @ + InMemory(UserKey, ItsID(s.id))]
            = InTable(DOMAIN Rows, UserKeyOf, DOMAIN live, LiveUserKey, UserEntryKey, k)
      BY <2>1, <3>1, <3>2
    <3>4. QED
      BY <2>3, <3>3
  <2>5. ASSUME NEW k \in K
        PROVE  \E s \in stats : [s EXCEPT !.count = @ + InMemory(UserKey, ItsID(s.id))]
                 = InTable(DOMAIN Rows, UserKeyOf, DOMAIN live, LiveUserKey, UserEntryKey, k)
    <3>1. PICK s \in stats : s = [id |-> k, count |-> Cardinality(Of(DOMAIN Rows, UserKeyOf, k))]
      BY <1>6
    <3>2. s.id = k
      BY <3>1
    <3>3. QED
      BY <2>1, <3>1, <3>2
  <2>6. PICK j : j = [s \in stats |-> [s EXCEPT !.count = @ + InMemory(UserKey, ItsID(s.id))]]
    OBVIOUS
  <2>7. {j[s] : s \in stats} = T
    <3>1. \A s \in stats : j[s] \in T
      BY <2>4, <2>6
    <3>2. \A x \in T : \E s \in stats : x = j[s]
      BY <2>3, <2>5, <2>6
    <3>3. QED
      BY <3>1, <3>2
  <2>8. {[s EXCEPT !.count = @ + InMemory(UserKey, ItsID(s.id))] : s \in stats}
          = {j[s] : s \in stats}
    BY <2>6
  <2>9. QED
    BY <2>2, <2>7, <2>8
<1>9. {[id |-> k, count |-> InMemory(UserKey, k), started |-> "live"] :
          k \in Q \ {ItsID(s.id) : s \in stats}}
        = OfMemory(DOMAIN Rows, UserKeyOf, DOMAIN live, LiveUserKey, UserEntryKey)
  BY <1>1, <1>4, <1>7 DEF OfMemory, OnlyLive, NewKeys
<1>10. GetAllUserStats = UserList
  BY <1>2, <1>5, <1>8, <1>9 DEF GetAllUserStats, AddLiveTraffic, UserList
<1>11. QED
  BY <1>3, <1>4, <1>10

LEMMA ClientsAsList ==
  /\ GetAllClientStats = ClientList
  /\ \A k : InMemory(ClientKey, k) = Cardinality(Of(DOMAIN live, LiveClientKey, k))
  /\ \A k : {id \in DOMAIN Rows : RowClientKey(Rows[id]) = k} = Of(DOMAIN Rows, ClientKeyOf, k)
<1>1. PICK K, Q :
        K = Keys(DOMAIN Rows, ClientKeyOf) /\ Q = Keys(DOMAIN live, LiveClientKey)
  OBVIOUS
<1>2. K = KeysOf(RowClientKey) /\ Q = {ClientKey(live[i]) : i \in DOMAIN live}
  BY <1>1 DEF Keys, KeysOf, ClientKeyOf, LiveClientKey
<1>3. \A k : {id \in DOMAIN Rows : RowClientKey(Rows[id]) = k} = Of(DOMAIN Rows, ClientKeyOf, k)
  BY DEF Of, ClientKeyOf
<1>4. \A k : InMemory(ClientKey, k) = Cardinality(Of(DOMAIN live, LiveClientKey, k))
  <2>1. \A k : {i \in DOMAIN live : ClientKey(live[i]) = k} = Of(DOMAIN live, LiveClientKey, k)
    BY DEF Of, LiveClientKey
  <2>2. QED
    BY <2>1 DEF InMemory
<1>5. PICK stats : stats = Counts(KeysOf(RowClientKey), RowClientKey)
  OBVIOUS
<1>6. stats = {[id |-> k, count |-> Cardinality(Of(DOMAIN Rows, ClientKeyOf, k))] : k \in K}
  BY <1>2, <1>3, <1>5 DEF Counts
<1>7. {KeyOfClientEntry(s.id) : s \in stats} = {ClientEntryKey[k] : k \in K}
  <2>1. \A k \in K : [id |-> k, count |-> Cardinality(Of(DOMAIN Rows, ClientKeyOf, k))].id = k
    OBVIOUS
  <2>2. {KeyOfClientEntry(s.id) : s \in stats} = {KeyOfClientEntry(k) : k \in K}
    BY <1>6, <2>1
  <2>3. \A k \in K : ClientEntryKey[k] = KeyOfClientEntry(k)
    BY <1>1 DEF ClientEntryKey
  <2>4. QED
    BY <2>2, <2>3
<1>8. {[s EXCEPT !.count = @ + InMemory(ClientKey, KeyOfClientEntry(s.id))] : s \in stats}
        = OfTable(DOMAIN Rows, ClientKeyOf, DOMAIN live, LiveClientKey, ClientEntryKey)
  <2>1. ASSUME NEW k \in K
        PROVE  [[id |-> k, count |-> Cardinality(Of(DOMAIN Rows, ClientKeyOf, k))]
                  EXCEPT !.count = @ + InMemory(ClientKey, KeyOfClientEntry(k))]
               = InTable(DOMAIN Rows, ClientKeyOf, DOMAIN live, LiveClientKey, ClientEntryKey, k)
    <3>1. ClientEntryKey[k] = KeyOfClientEntry(k)
      BY <1>1, <2>1 DEF ClientEntryKey
    <3>2. QED
      BY <1>4, <3>1 DEF InTable
  <2>2. PICK T : T = OfTable(DOMAIN Rows, ClientKeyOf, DOMAIN live, LiveClientKey, ClientEntryKey)
    OBVIOUS
  <2>3. T = {InTable(DOMAIN Rows, ClientKeyOf, DOMAIN live, LiveClientKey, ClientEntryKey, k) :
               k \in K}
    BY <1>1, <2>2 DEF OfTable
  <2>4. ASSUME NEW s \in stats
        PROVE  [s EXCEPT !.count = @ + InMemory(ClientKey, KeyOfClientEntry(s.id))] \in T
    <3>1. PICK k \in K : s = [id |-> k, count |-> Cardinality(Of(DOMAIN Rows, ClientKeyOf, k))]
      BY <1>6
    <3>2. s.id = k
      BY <3>1
    <3>3. [s EXCEPT !.count = @ + InMemory(ClientKey, KeyOfClientEntry(s.id))]
            = InTable(DOMAIN Rows, ClientKeyOf, DOMAIN live, LiveClientKey, ClientEntryKey, k)
      BY <2>1, <3>1, <3>2
    <3>4. QED
      BY <2>3, <3>3
  <2>5. ASSUME NEW k \in K
        PROVE  \E s \in stats : [s EXCEPT !.count = @ + InMemory(ClientKey, KeyOfClientEntry(s.id))]
                 = InTable(DOMAIN Rows, ClientKeyOf, DOMAIN live, LiveClientKey, ClientEntryKey, k)
    <3>1. PICK s \in stats : s = [id |-> k, count |-> Cardinality(Of(DOMAIN Rows, ClientKeyOf, k))]
      BY <1>6
    <3>2. s.id = k
      BY <3>1
    <3>3. QED
      BY <2>1, <3>1, <3>2
  <2>6. PICK j :
          j = [s \in stats |->
                 [s EXCEPT !.count = @ + InMemory(ClientKey, KeyOfClientEntry(s.id))]]
    OBVIOUS
  <2>7. {j[s] : s \in stats} = T
    <3>1. \A s \in stats : j[s] \in T
      BY <2>4, <2>6
    <3>2. \A x \in T : \E s \in stats : x = j[s]
      BY <2>3, <2>5, <2>6
    <3>3. QED
      BY <3>1, <3>2
  <2>8. {[s EXCEPT !.count = @ + InMemory(ClientKey, KeyOfClientEntry(s.id))] : s \in stats}
          = {j[s] : s \in stats}
    BY <2>6
  <2>9. QED
    BY <2>2, <2>7, <2>8
<1>9. {[id |-> k, count |-> InMemory(ClientKey, k), started |-> "live"] :
          k \in Q \ {KeyOfClientEntry(s.id) : s \in stats}}
        = OfMemory(DOMAIN Rows, ClientKeyOf, DOMAIN live, LiveClientKey, ClientEntryKey)
  BY <1>1, <1>4, <1>7 DEF OfMemory, OnlyLive, NewKeys
<1>10. GetAllClientStats = ClientList
  BY <1>2, <1>5, <1>8, <1>9 DEF GetAllClientStats, TableClients, AddLiveTraffic, ClientList
<1>11. QED
  BY <1>3, <1>4, <1>10

(* While the server serves, both the table and the memory are finite, and  *)
(* their rows carry names that are none of the keys.                       *)
LEMMA ListFacts ==
  ASSUME BucketsInv, Serving
  PROVE  /\ IsFiniteSet(DOMAIN Rows) /\ Cardinality(DOMAIN Rows) = Len(Rows)
         /\ IsFiniteSet(DOMAIN live) /\ Cardinality(DOMAIN live) = Len(live)
         /\ \A k \in Keys(DOMAIN live, LiveClientKey) : k # DisplayedUnknown
         /\ \A id \in DOMAIN Rows : RightlyNamed(Rows[id]) /\ Clean(Rows[id])
<1>1. view = disk /\ running /\ rest = <<>>
  BY DEF BucketsInv, IInv, TxInv, Serving
<1>2. PICK n \in Nat : DOMAIN disk.rows = 1 .. n
  BY DEF BucketsInv, RowsAreLists, IInv, RowsInv, Kept, Carries
<1>3. PICK rows : rows = disk.rows
  OBVIOUS
<1>4. Len(rows) = n
  <2>1. IsFunction(rows) /\ DOMAIN rows = 1 .. n
    BY <1>2, <1>3 DEF BucketsInv, RowsAreLists, Listed
  <2>2. QED
    BY <2>1, Appended
<1>5. \A k \in Nat : IsFiniteSet(1 .. k) /\ Cardinality(1 .. k) = k
  <2>1. ASSUME NEW k \in Nat PROVE IsFiniteSet(1 .. k) /\ Cardinality(1 .. k) = k
    <3>1. /\ IsFiniteSet(1 .. k)
          /\ Cardinality(1 .. k) = IF 1 > k THEN 0 ELSE k - 1 + 1
      BY FS_Interval
    <3>2. QED
      BY <3>1
  <2>2. QED
    BY <2>1
<1>6. IsFiniteSet(DOMAIN Rows) /\ Cardinality(DOMAIN Rows) = Len(Rows)
  BY <1>1, <1>2, <1>3, <1>4, <1>5 DEF Rows
<1>7. live \in Seq(Records)
  BY DEF BucketsInv, CountedInv
<1>8. IsFiniteSet(DOMAIN live) /\ Cardinality(DOMAIN live) = Len(live)
  <2>1. PICK m \in Nat : DOMAIN live = 1 .. m /\ Len(live) = m
    BY <1>7
  <2>2. QED
    BY <1>5, <2>1
<1>9. \A k \in Keys(DOMAIN live, LiveClientKey) : k # DisplayedUnknown
  <2>1. ASSUME NEW i \in DOMAIN live PROVE ClientKey(live[i]) # DisplayedUnknown
    <3>1. live[i] \in Records
      BY <1>7
    <3>2. live[i].client \in Clients \cup {NoName}
      BY <3>1 DEF Records
    <3>3. UnknownClient # DisplayedUnknown
      BY DEF UnknownClient, DisplayedUnknown
    <3>4. QED
      BY <3>2, <3>3, NamesAssumption DEF ClientKey
  <2>2. QED
    BY <2>1 DEF Keys, LiveClientKey
<1>10. \A id \in DOMAIN Rows : RightlyNamed(Rows[id])
  BY DEF BucketsInv, RowsAreLists, Listed, Rows
<1>11. \A id \in DOMAIN Rows : Clean(Rows[id])
  <2>1. ServesCurrentSchema
    BY InvariantPromises DEF BucketsInv
  <2>2. QED
    BY <1>1, <2>1 DEF ServesCurrentSchema, Rows, Clean
<1>12. QED
  BY <1>6, <1>8, <1>9, <1>10, <1>11

(* Which key an entry is looked up by. *)
LEMMA EntryKeys ==
  /\ \A k \in Keys(DOMAIN Rows, UserKeyOf) : UserEntryKey[k] = k
  /\ \A k \in Keys(DOMAIN Rows, ClientKeyOf) :
       ClientEntryKey[k] = IF k = UnknownClient THEN DisplayedUnknown ELSE k
  BY DEF UserEntryKey, ClientEntryKey, KeyOfClientEntry

(* A key has two entries only if it is one of the table's and of a record  *)
(* that does not find it there.                                            *)
LEMMA ListedTwice ==
  ASSUME NEW D, NEW r, NEW E, NEW q, NEW e,
         NEW s \in OfTable(D, r, E, q, e) \cup OfMemory(D, r, E, q, e),
         NEW t \in OfTable(D, r, E, q, e) \cup OfMemory(D, r, E, q, e),
         s.id = t.id, s # t
  PROVE  s.id \in Keys(D, r) /\ s.id \in NewKeys(D, r, E, q, e)
<1>1. \A k : InTable(D, r, E, q, e, k).id = k /\ OnlyLive(E, q, k).id = k
  BY DEF InTable, OnlyLive
<1>2. \A x \in OfTable(D, r, E, q, e) :
        x.id \in Keys(D, r) /\ x = InTable(D, r, E, q, e, x.id)
  BY <1>1 DEF OfTable
<1>3. \A x \in OfMemory(D, r, E, q, e) :
        x.id \in NewKeys(D, r, E, q, e) /\ x = OnlyLive(E, q, x.id)
  BY <1>1 DEF OfMemory
<1>4. QED
  BY <1>2, <1>3

(* EachRecordOnce follows from what the lists are. *)
LEMMA ListsCountOnce == BucketsInv => EachRecordOnce
<1> SUFFICES ASSUME BucketsInv, Serving
             PROVE  /\ Total(UserList) = Len(Rows) + Len(live)
                    /\ Total(ClientList) = Len(Rows) + Len(live)
                    /\ \A s, t \in UserList : s.id = t.id => s = t
                    /\ \A s, t \in ClientList : s.id = t.id /\ s # t => s.id = UnknownClient
                    /\ Cardinality(Entries(ClientList, UnknownClient)) <= 2
  BY UsersAsList, ClientsAsList DEF EachRecordOnce
<1>1. PICK D, E : D = DOMAIN Rows /\ E = DOMAIN live
  OBVIOUS
<1>2. /\ IsFiniteSet(D) /\ Cardinality(D) = Len(Rows)
      /\ IsFiniteSet(E) /\ Cardinality(E) = Len(live)
      /\ \A k \in Keys(E, LiveClientKey) : k # DisplayedUnknown
  BY <1>1, ListFacts
<1>3. PICK r, q, e : r = UserKeyOf /\ q = LiveUserKey /\ e = UserEntryKey
  OBVIOUS
<1>4. PICK u, v, w : u = ClientKeyOf /\ v = LiveClientKey /\ w = ClientEntryKey
  OBVIOUS
<1>5. /\ UserList = OfTable(D, r, E, q, e) \cup OfMemory(D, r, E, q, e)
      /\ \A k \in Keys(D, r) : e[k] = k
  BY <1>1, <1>3, EntryKeys DEF UserList
<1>6. /\ ClientList = OfTable(D, u, E, v, w) \cup OfMemory(D, u, E, v, w)
      /\ \A k \in Keys(D, u) : w[k] = IF k = UnknownClient THEN DisplayedUnknown ELSE k
      /\ \A k \in Keys(E, v) : k # DisplayedUnknown
  BY <1>1, <1>2, <1>4, EntryKeys DEF ClientList
<1>7. Total(UserList) = Len(Rows) + Len(live)
  <2>1. \A j, k \in Keys(D, r) : e[j] = e[k] /\ e[j] \in Keys(E, q) => j = k
    BY <1>5
  <2>2. Total(OfTable(D, r, E, q, e) \cup OfMemory(D, r, E, q, e))
          = Cardinality(D) + Cardinality(E)
    BY <1>2, <2>1, ListTotal
  <2>3. QED
    BY <1>2, <1>5, <2>2
<1>8. Total(ClientList) = Len(Rows) + Len(live)
  <2>1. \A j, k \in Keys(D, u) : w[j] = w[k] /\ w[j] \in Keys(E, v) => j = k
    BY <1>6
  <2>2. Total(OfTable(D, u, E, v, w) \cup OfMemory(D, u, E, v, w))
          = Cardinality(D) + Cardinality(E)
    BY <1>2, <2>1, ListTotal
  <2>3. QED
    BY <1>2, <1>6, <2>2
<1>9. ASSUME NEW s \in UserList, NEW t \in UserList, s.id = t.id PROVE s = t
  <2>1. \A k \in Keys(D, r) : k \notin NewKeys(D, r, E, q, e)
    BY <1>5 DEF NewKeys
  <2>2. QED
    BY <1>5, <1>9, <2>1, ListedTwice
<1>10. ASSUME NEW s \in ClientList, NEW t \in ClientList, s.id = t.id, s # t
       PROVE  s.id = UnknownClient
  <2>1. \A k \in Keys(D, u) : k \in NewKeys(D, u, E, v, w) => k = UnknownClient
    BY <1>6 DEF NewKeys
  <2>2. QED
    BY <1>6, <1>10, <2>1, ListedTwice
<1>11. Cardinality(Entries(ClientList, UnknownClient)) <= 2
  <2>1. PICK a, b, S :
          /\ a = InTable(D, u, E, v, w, UnknownClient)
          /\ b = OnlyLive(E, v, UnknownClient)
          /\ S = Entries(ClientList, UnknownClient)
    OBVIOUS
  <2>2. \A k : /\ InTable(D, u, E, v, w, k).id = k
               /\ OnlyLive(E, v, k).id = k
    BY DEF InTable, OnlyLive
  <2>3. S \subseteq {a, b}
    BY <1>6, <2>1, <2>2 DEF Entries, OfTable, OfMemory
  <2>4. IsFiniteSet({a}) /\ Cardinality({a}) = 1 /\ IsFiniteSet({b}) /\ Cardinality({b}) = 1
    BY FS_Singleton
  <2>5. /\ IsFiniteSet({a} \cup {b})
        /\ Cardinality({a} \cup {b})
             = Cardinality({a}) + Cardinality({b}) - Cardinality({a} \cap {b})
    BY <2>4, FS_Union
  <2>6. Cardinality({a} \cap {b}) \in Nat
    <3>1. IsFiniteSet({a} \cap {b})
      BY <2>4, FS_Intersection
    <3>2. QED
      BY <3>1, FS_CardinalityType
  <2>7. {a, b} = {a} \cup {b}
    OBVIOUS
  <2>8. /\ Cardinality(S) \in Nat /\ Cardinality({a, b}) \in Nat
        /\ Cardinality(S) <= Cardinality({a, b})
    BY <2>3, <2>5, <2>7, Smaller
  <2>9. QED
    BY <2>1, <2>4, <2>5, <2>6, <2>7, <2>8
<1>12. QED
  BY <1>7, <1>8, <1>9, <1>10, <1>11

(* What the queries for one user ask of a row is which key it has. *)
Presents(row) ==
  {"user_id", "traffic_kind", "client_id", "client_name", "device_name"} \subseteq DOMAIN row
LEMMA RowUsers ==
  ASSUME NEW row, Presents(row), RightlyNamed(row), Clean(row)
  PROVE  /\ RowUserKey(row) = PublicRequests <=> LooksPublic(row)
         /\ RowUserKey(row) = UnknownUser <=>
              /\ Blank(row["user_id"]) /\ Name(row["traffic_kind"]) # "public"
              /\ ~LooksPublic(row)
         /\ \A u \in Users : RowUserKey(row) = u <=> row["user_id"] = Text(u)
<1>1. PICK user, kind : user = row["user_id"] /\ kind = row["traffic_kind"]
  OBVIOUS
<1>2. Says(row, "user_id") = Name(user) /\ Says(row, "traffic_kind") = Name(kind)
  BY <1>1 DEF Presents, Says, ValueIn
<1>3. /\ Name(user) # UnknownUser /\ Name(user) # PublicRequests
      /\ Name(kind) = "public" => Blank(user)
  BY <1>2 DEF RightlyNamed, Blank
<1>4. /\ LooksPublic(row) => Blank(user)
      /\ Name(kind) = "public" => LooksPublic(row)
  BY <1>1, <1>3 DEF LooksPublic
<1>5. RowUserKey(row) = IF LooksPublic(row) THEN PublicRequests
                        ELSE IF Blank(user) THEN UnknownUser ELSE Name(user)
  BY <1>1 DEF RowUserKey
<1>6. UnknownUser # PublicRequests
  BY DEF UnknownUser, PublicRequests
<1>7. ASSUME NEW u \in Users PROVE RowUserKey(row) = u <=> user = Text(u)
  <2>1. u # UnknownUser /\ u # PublicRequests /\ u # NoName
    BY NamesAssumption
  <2>2. Name(Text(u)) = u /\ Name(Null) = NoName
    BY DEF Name, Text, Null
  <2>3. user # Null => user = Text(Name(user))
    BY <1>1 DEF Clean, Rewritten
  <2>4. CASE user = Text(u)
    <3>1. ~Blank(user) /\ Name(user) = u
      BY <2>1, <2>2, <2>4 DEF Blank
    <3>2. QED
      BY <1>4, <1>5, <2>4, <3>1
  <2>5. CASE RowUserKey(row) = u
    <3>1. Name(user) = u /\ user # Null
      BY <1>5, <2>1, <2>2, <2>5
    <3>2. QED
      BY <2>3, <2>5, <3>1
  <2>6. QED
    BY <2>4, <2>5
<1>8. RowUserKey(row) = PublicRequests <=> LooksPublic(row)
  BY <1>3, <1>5, <1>6
<1>9. RowUserKey(row) = UnknownUser <=>
        Blank(user) /\ Name(kind) # "public" /\ ~LooksPublic(row)
  BY <1>3, <1>4, <1>5, <1>6
<1>10. QED
  BY <1>1, <1>7, <1>8, <1>9

(* And so for the unknown client. *)
LEMMA RowClients ==
  ASSUME \A id \in DOMAIN Rows : RightlyNamed(Rows[id]) /\ Presents(Rows[id]),
         NEW id \in DOMAIN Rows
  PROVE  RowClientKey(Rows[id]) = UnknownClient <=>
           Blank(Rows[id]["client_id"]) /\ Blank(Rows[id]["client_name"])
<1>1. PICK row, g : row = Rows[id] /\ g = ClientGroup(row)
  OBVIOUS
<1>2. PICK devices : devices = {Name(Rows[i]["device_name"]) : i \in GroupOf(g)} \ {NoName}
  OBVIOUS
<1>3. RowClientKey(row) = IF g[1] = "unknown" THEN UnknownClient
                          ELSE IF g[1] = "id" /\ devices # {} THEN CHOOSE d \in devices : TRUE
                          ELSE Name(g[2])
  BY <1>1, <1>2 DEF RowClientKey, ClientOfGroup
<1>4. \A i \in DOMAIN Rows :
        /\ Name(Rows[i]["device_name"]) # UnknownClient
        /\ Name(Rows[i]["client_name"]) # UnknownClient
        /\ Name(Rows[i]["client_id"]) # UnknownClient
  BY DEF RightlyNamed, Presents, Says, ValueIn
<1>5. \A d \in devices : d # UnknownClient
  BY <1>2, <1>4 DEF GroupOf
<1>6. devices # {} => (CHOOSE d \in devices : TRUE) \in devices
  OBVIOUS
<1>7. CASE Blank(row["client_id"]) /\ Blank(row["client_name"])
  <2>1. g[1] = "unknown"
    BY <1>1, <1>7 DEF ClientGroup
  <2>2. QED
    BY <1>1, <1>3, <1>7, <2>1
<1>8. CASE ~Blank(row["client_name"])
  <2>1. g[1] = "name" /\ g[2] = row["client_name"]
    BY <1>1, <1>8 DEF ClientGroup
  <2>2. RowClientKey(row) # UnknownClient
    BY <1>1, <1>3, <1>4, <2>1
  <2>3. QED
    BY <1>1, <1>8, <2>2
<1>9. CASE ~Blank(row["client_id"]) /\ Blank(row["client_name"])
  <2>1. g[1] = "id" /\ g[2] = row["client_id"]
    BY <1>1, <1>9 DEF ClientGroup
  <2>2. RowClientKey(row) # UnknownClient
    BY <1>1, <1>3, <1>4, <1>5, <1>6, <2>1
  <2>3. QED
    BY <1>1, <1>9, <2>2
<1>10. QED
  BY <1>7, <1>8, <1>9

LEMMA RowsPresent ==
  ASSUME BucketsInv, Serving
  PROVE  \A id \in DOMAIN Rows :
           Presents(Rows[id]) /\ RightlyNamed(Rows[id]) /\ Clean(Rows[id])
<1>1. view = disk /\ ServesCurrentSchema
  BY InvariantPromises DEF BucketsInv, IInv, TxInv, Serving
<1>2. \A id \in DOMAIN Rows : DOMAIN Rows[id] = Columns
  BY <1>1 DEF BucketsInv, IInv, RowsInv, Kept, ServesCurrentSchema, Rows
<1>3. "device_name" \in AddedColumns
  <2>1. PICK s : s = Added
    OBVIOUS
  <2>2. 4 \in DOMAIN s /\ s[4] = "device_name"
    BY <2>1 DEF Added
  <2>3. QED
    BY <2>1, <2>2 DEF AddedColumns
<1>4. \A id \in DOMAIN Rows : Presents(Rows[id])
  BY <1>2, <1>3, AddedHas DEF Columns, Presents
<1>5. QED
  BY <1>4, ListFacts

(* DetailFollowsList follows. *)
LEMMA DetailsFollow == BucketsInv => DetailFollowsList
<1> DEFINE Both(row) == Blank(row["user_id"]) /\ Name(row["traffic_kind"]) # "public"
                        /\ LooksPublic(row)
<1> SUFFICES ASSUME BucketsInv, Serving
             PROVE  /\ \A u \in Users \cup {UnknownUser, PublicRequests} :
                         GetUserStats(u) = Total(Entries(UserList, u))
                                           + (IF u = UnknownUser THEN Among(Both) ELSE 0)
                    /\ GetUnknownClientStats = Total(Entries(ClientList, UnknownClient))
  BY UsersAsList, ClientsAsList DEF DetailFollowsList
<1>1. PICK D, E : D = DOMAIN Rows /\ E = DOMAIN live
  OBVIOUS
<1>2. /\ IsFiniteSet(D) /\ IsFiniteSet(E)
      /\ \A k \in Keys(E, LiveClientKey) : k # DisplayedUnknown
  BY <1>1, ListFacts
<1>3. PICK r, q, e : r = UserKeyOf /\ q = LiveUserKey /\ e = UserEntryKey
  OBVIOUS
<1>4. PICK u, v, w : u = ClientKeyOf /\ v = LiveClientKey /\ w = ClientEntryKey
  OBVIOUS
<1>5. /\ UserList = OfTable(D, r, E, q, e) \cup OfMemory(D, r, E, q, e)
      /\ \A k \in Keys(D, r) : e[k] = k
  BY <1>1, <1>3, EntryKeys DEF UserList
<1>6. /\ ClientList = OfTable(D, u, E, v, w) \cup OfMemory(D, u, E, v, w)
      /\ \A k \in Keys(D, u) : w[k] = IF k = UnknownClient THEN DisplayedUnknown ELSE k
      /\ \A k \in Keys(E, v) : k # DisplayedUnknown
  BY <1>1, <1>2, <1>4, EntryKeys DEF ClientList
<1>7. /\ \A f, k : k \notin Keys(E, f) => Cardinality(Of(E, f, k)) = 0
      /\ \A f, k : Cardinality(Of(E, f, k)) \in Nat
  <2>1. \A f, k : Of(E, f, k) \in SUBSET E /\ (k \notin Keys(E, f) => Of(E, f, k) = {})
    BY DEF Of, Keys
  <2>2. QED
    BY <1>2, <2>1, Smaller, FS_EmptySet
<1>8. \A f, k : Cardinality(Of(D, f, k)) \in Nat
  <2>1. \A f, k : Of(D, f, k) \in SUBSET D
    BY DEF Of
  <2>2. QED
    BY <1>2, <2>1, Smaller
<1>9. ASSUME NEW k
      PROVE  Total(Entries(UserList, k)) = Cardinality(Of(D, r, k)) + InMemory(UserKey, k)
  <2>1. Total(Entries(OfTable(D, r, E, q, e) \cup OfMemory(D, r, E, q, e), k))
          = Cardinality(Of(D, r, k))
             + (IF k \in Keys(D, r) THEN Cardinality(Of(E, q, e[k])) ELSE 0)
             + (IF k \in NewKeys(D, r, E, q, e) THEN Cardinality(Of(E, q, k)) ELSE 0)
    BY <1>2, ListEntries
  <2>2. InMemory(UserKey, k) = Cardinality(Of(E, q, k))
    BY <1>1, <1>3, UsersAsList
  <2>3. /\ k \in Keys(D, r) => k \notin NewKeys(D, r, E, q, e)
        /\ k \notin Keys(D, r) /\ k \in Keys(E, q) => k \in NewKeys(D, r, E, q, e)
        /\ k \notin Keys(E, q) => k \notin NewKeys(D, r, E, q, e)
    BY <1>5 DEF NewKeys
  <2>4. k \notin Keys(E, q) => Cardinality(Of(E, q, k)) = 0
    BY <1>7
  <2>5. Cardinality(Of(D, r, k)) \in Nat /\ Cardinality(Of(E, q, k)) \in Nat
    BY <1>7, <1>8
  <2>6. k \in Keys(D, r) => e[k] = k
    BY <1>5
  <2>7. QED
    BY <1>5, <2>1, <2>2, <2>3, <2>4, <2>5, <2>6
<1>10. \A id \in D : Presents(Rows[id]) /\ RightlyNamed(Rows[id]) /\ Clean(Rows[id])
  BY <1>1, RowsPresent
<1>11. \A k : Of(D, r, k) = {id \in D : RowUserKey(Rows[id]) = k}
  BY <1>1, <1>3, UsersAsList
<1>12. ASSUME NEW k \in Users \cup {UnknownUser, PublicRequests}
       PROVE  StoredFor(k) = Cardinality(Of(D, r, k)) + (IF k = UnknownUser THEN Among(Both) ELSE 0)
  <2>1. UnknownUser # PublicRequests /\ UnknownUser \notin Users /\ PublicRequests \notin Users
    BY NamesAssumption DEF UnknownUser, PublicRequests
  <2>2. CASE k \in Users
    <3>1. {id \in D : Rows[id]["user_id"] = Text(k)} = Of(D, r, k)
      BY <1>10, <1>11, <2>2, RowUsers
    <3>2. StoredFor(k) = Cardinality({id \in D : Rows[id]["user_id"] = Text(k)})
      BY <1>1, <2>1, <2>2 DEF StoredFor, Among
    <3>3. k # UnknownUser
      BY <2>1, <2>2
    <3>4. (IF k = UnknownUser THEN Among(Both) ELSE 0) = 0
      BY <3>3
    <3>5. PICK n \in Nat : n = Cardinality(Of(D, r, k))
      BY <1>8
    <3>6. StoredFor(k) = Cardinality(Of(D, r, k))
      BY <3>1, <3>2
    <3>7. n + 0 = n
      OBVIOUS
    <3>8. QED
      BY <3>4, <3>5, <3>6, <3>7
  <2>3. CASE k = PublicRequests
    <3>1. {id \in D : LooksPublic(Rows[id])} = Of(D, r, k)
      BY <1>10, <1>11, <2>3, RowUsers
    <3>2. StoredFor(k) = Cardinality({id \in D : LooksPublic(Rows[id])})
      BY <1>1, <2>1, <2>3 DEF StoredFor, Among
    <3>3. k # UnknownUser
      BY <2>1, <2>3
    <3>4. (IF k = UnknownUser THEN Among(Both) ELSE 0) = 0
      BY <3>3
    <3>5. PICK n \in Nat : n = Cardinality(Of(D, r, k))
      BY <1>8
    <3>6. StoredFor(k) = Cardinality(Of(D, r, k))
      BY <3>1, <3>2
    <3>7. n + 0 = n
      OBVIOUS
    <3>8. QED
      BY <3>4, <3>5, <3>6, <3>7
  <2>4. CASE k = UnknownUser
    <3>1. PICK X, Y, Z :
            /\ X = {id \in D : /\ Blank(Rows[id]["user_id"])
                             /\ Name(Rows[id]["traffic_kind"]) # "public"}
            /\ Y = Of(D, r, k)
            /\ Z = {id \in D : Both(Rows[id])}
      OBVIOUS
    <3>2. Y = {id \in X : ~LooksPublic(Rows[id])}
      BY <1>10, <1>11, <2>4, <3>1, RowUsers
    <3>3. Z = {id \in X : LooksPublic(Rows[id])}
      BY <3>1
    <3>4. X = Y \cup Z /\ Y \cap Z = {}
      BY <3>2, <3>3
    <3>5. IsFiniteSet(Y) /\ IsFiniteSet(Z)
      <4>1. Y \subseteq D /\ Z \subseteq D
        BY <3>1 DEF Of
      <4>2. QED
        BY <1>2, <4>1, FS_Subset
    <3>6. Cardinality(X) = Cardinality(Y) + Cardinality(Z)
      BY <3>4, <3>5, DisjointUnion
    <3>7. StoredFor(k) = Cardinality(X)
      BY <1>1, <2>4, <3>1 DEF StoredFor, Among
    <3>8. Among(Both) = Cardinality(Z)
      BY <1>1, <3>1 DEF Among
    <3>9. QED
      BY <2>4, <3>1, <3>6, <3>7, <3>8
  <2>5. QED
    BY <2>2, <2>3, <2>4
<1>13. ASSUME NEW k \in Users \cup {UnknownUser, PublicRequests}
       PROVE  GetUserStats(k) = Total(Entries(UserList, k))
                                + (IF k = UnknownUser THEN Among(Both) ELSE 0)
  <2>1. GetUserStats(k) = StoredFor(k) + InMemory(UserKey, k)
    BY DEF GetUserStats
  <2>2. InMemory(UserKey, k) = Cardinality(Of(E, q, k))
    BY <1>1, <1>3, UsersAsList
  <2>3. Among(Both) \in Nat
    <3>1. {id \in D : Both(Rows[id])} \in SUBSET D
      OBVIOUS
    <3>2. Cardinality({id \in D : Both(Rows[id])}) \in Nat
      BY <1>2, <3>1, Smaller
    <3>3. QED
      BY <1>1, <3>2 DEF Among
  <2>4. PICK a \in Nat, b \in Nat, c \in Nat :
          /\ a = Cardinality(Of(D, r, k)) /\ b = InMemory(UserKey, k)
          /\ c = IF k = UnknownUser THEN Among(Both) ELSE 0
    BY <1>7, <1>8, <2>2, <2>3
  <2>5. StoredFor(k) = a + c /\ Total(Entries(UserList, k)) = a + b
    BY <1>9, <1>12, <2>4
  <2>6. QED
    BY <2>1, <2>4, <2>5
<1>14. GetUnknownClientStats = Total(Entries(ClientList, UnknownClient))
  <2>1. PICK k : k = UnknownClient
    OBVIOUS
  <2>2. Total(Entries(OfTable(D, u, E, v, w) \cup OfMemory(D, u, E, v, w), k))
          = Cardinality(Of(D, u, k))
             + (IF k \in Keys(D, u) THEN Cardinality(Of(E, v, w[k])) ELSE 0)
             + (IF k \in NewKeys(D, u, E, v, w) THEN Cardinality(Of(E, v, k)) ELSE 0)
    BY <1>2, ListEntries
  <2>3. k \in Keys(D, u) => Cardinality(Of(E, v, w[k])) = 0
    BY <1>6, <1>7, <2>1
  <2>4. k \in NewKeys(D, u, E, v, w) <=> k \in Keys(E, v)
    <3>1. UnknownClient # DisplayedUnknown
      BY DEF UnknownClient, DisplayedUnknown
    <3>2. \A j \in Keys(D, u) : w[j] # k
      BY <1>6, <2>1, <3>1
    <3>3. QED
      BY <3>2 DEF NewKeys
  <2>5. k \notin Keys(E, v) => Cardinality(Of(E, v, k)) = 0
    BY <1>7
  <2>6. Cardinality(Of(D, u, k)) \in Nat /\ Cardinality(Of(E, v, k)) \in Nat
    BY <1>7, <1>8
  <2>7. Total(Entries(ClientList, k)) = Cardinality(Of(D, u, k)) + Cardinality(Of(E, v, k))
    BY <1>6, <2>2, <2>3, <2>4, <2>5, <2>6
  <2>8. InMemory(ClientKey, k) = Cardinality(Of(E, v, k))
    BY <1>1, <1>4, ClientsAsList
  <2>9. Of(D, u, k) = {id \in D : Blank(Rows[id]["client_id"]) /\ Blank(Rows[id]["client_name"])}
    <3>1. Of(D, u, k) = {id \in D : RowClientKey(Rows[id]) = k}
      BY <1>1, <1>4, ClientsAsList
    <3>2. \A id \in D : RowClientKey(Rows[id]) = k <=>
             Blank(Rows[id]["client_id"]) /\ Blank(Rows[id]["client_name"])
      BY <1>1, <1>10, <2>1, RowClients
    <3>3. QED
      BY <3>1, <3>2
  <2>10. QED
    BY <1>1, <2>1, <2>7, <2>8, <2>9 DEF GetUnknownClientStats, Among
<1>15. QED
  BY <1>13, <1>14

(* EachRecordOnce: each list counts every record exactly once, and lists   *)
(* nothing twice but the unknown client, for all records, databases and    *)
(* starts.                                                                 *)
THEOREM ListsCountEachRecord == SpecBuckets => []EachRecordOnce
BY InductiveBuckets, ListsCountOnce, PTL

(* DetailFollowsList: the figures of one user, and of the unknown client,  *)
(* are those of the lists, but for what SQL alone takes for public.        *)
THEOREM DetailsAgreeWithLists == SpecBuckets => []DetailFollowsList
BY InductiveBuckets, DetailsFollow, PTL
===============================================================================
