------------------------- MODULE StatsTrackerProofs --------------------------
(***************************************************************************)
(* What holds of StatsTracker, and of the readers of TrafficReaders beside *)
(* it, for every set of requests and every bound.                          *)
(* The invariant is IInv: the types, the shape the flusher's variables     *)
(* have in each of its states, and the two accounting properties together: *)
(* that nothing is accounted for twice rests on the fact that every record *)
(* belongs to a handler that has booked it, and a handler books once.      *)
(* The rest follows from it: no loss without a cause, since a record is    *)
(* dropped by a failed statement or at the end of a process only; the      *)
(* figures of a record, since a booked record is final and only moves; and *)
(* the live table, which a handler joins and leaves with its transfer.     *)
(*   StatsTracker implements TrafficLedger: under the refinement mapping   *)
(* Account, every step of a handler, the flusher, an administrator or main *)
(* is one move of the ledger or leaves it as it is.                        *)
(*   Last, all of it goes on holding under readers who delete what they    *)
(* were shown: IInv carries over to SpecReaders, because every step of the *)
(* readers is a step of the tracker or none.  CountedAtMostTwice rests on  *)
(* what has been stored never being pending again, CalmSummaryIsExact on   *)
(* the flusher's hands being empty, and PageNamesItsRows on AUTOINCREMENT: *)
(* no row ever gets an id that has been given before.                      *)
(***************************************************************************)
EXTENDS TrafficReaders, TLAPS

(* What the flusher's variables look like outside a flush. *)
FlusherShape ==
  /\ flusher # "tx" => txRows = <<>>
  /\ flusher \in {"waiting", "returned"} => batch = <<>>
  /\ flusher # "tx" => nextRec = 1
  /\ server = "down" => flusher = "returned" /\ pendingRecords = <<>>

IInv == TypeOK /\ FlusherShape /\ AccountedOnce /\ NothingVanishes

------------------------------------------------------------------------------
(* Sequences of records. *)

(* An empty list holds no request. *)
LEMMA EmptyReqs ==
  /\ <<>> \in Seq(Record) /\ Len(<<>>) = 0
  /\ Reqs(<<>>, 1) = {} /\ Distinct(<<>>, 1)
  BY DEF Reqs, Distinct

(* A record names a request. *)
LEMMA RecordReq ==
  ASSUME NEW rec \in Record PROVE rec.req \in Requests
  BY DEF Record

(* What a list of records names is requests. *)
LEMMA ReqsAreRequests ==
  ASSUME NEW s \in Seq(Record), NEW n \in Nat \ {0}
  PROVE  Reqs(s, n) \subseteq Requests
<1>1. \A i \in n .. Len(s) : s[i] \in Record
  OBVIOUS
<1>2. QED
  BY <1>1 DEF Reqs, Record

(* Appending a record adds its request, and only a new one keeps the list  *)
(* free of repetitions.                                                    *)
LEMMA AppendReqs ==
  ASSUME NEW s \in Seq(Record), NEW rec \in Record
  PROVE  /\ Append(s, rec) \in Seq(Record)
         /\ Reqs(Append(s, rec), 1) = Reqs(s, 1) \cup {rec.req}
         /\ Distinct(s, 1) /\ rec.req \notin Reqs(s, 1) => Distinct(Append(s, rec), 1)
<1> DEFINE t == Append(s, rec)
<1>1. /\ t \in Seq(Record) /\ Len(t) = Len(s) + 1 /\ Len(s) \in Nat
      /\ \A i \in 1 .. Len(s) : t[i] = s[i]
      /\ t[Len(s) + 1] = rec
  OBVIOUS
<1>2. Reqs(t, 1) = Reqs(s, 1) \cup {rec.req}
  BY <1>1 DEF Reqs
<1>3. ASSUME Distinct(s, 1), rec.req \notin Reqs(s, 1)
      PROVE  Distinct(t, 1)
  <2> SUFFICES ASSUME NEW i \in 1 .. Len(t), NEW j \in 1 .. Len(t),
                      t[i].req = t[j].req
               PROVE  i = j
    BY DEF Distinct
  <2>1. CASE i \in 1 .. Len(s) /\ j \in 1 .. Len(s)
    BY <1>1, <1>3, <2>1 DEF Distinct
  <2>2. CASE i = Len(s) + 1 /\ j = Len(s) + 1
    BY <2>2
  <2>3. CASE i \in 1 .. Len(s) /\ j = Len(s) + 1
    BY <1>1, <1>3, <2>3 DEF Reqs
  <2>4. CASE i = Len(s) + 1 /\ j \in 1 .. Len(s)
    BY <1>1, <1>3, <2>4 DEF Reqs
  <2>5. QED
    BY <1>1, <2>1, <2>2, <2>3, <2>4
<1>4. QED
  BY <1>1, <1>2, <1>3

(* Stepping over a record removes its request from what is left. *)
LEMMA NextReqs ==
  ASSUME NEW s \in Seq(Record), NEW n \in 1 .. Len(s)
  PROVE  /\ s[n] \in Record
         /\ Reqs(s, n) = Reqs(s, n + 1) \cup {s[n].req}
         /\ Distinct(s, n) => Distinct(s, n + 1) /\ s[n].req \notin Reqs(s, n + 1)
<1>1. s[n] \in Record /\ Len(s) \in Nat
  OBVIOUS
<1>2. n .. Len(s) = {n} \cup (n + 1) .. Len(s)
  BY <1>1
<1>3. Reqs(s, n) = Reqs(s, n + 1) \cup {s[n].req}
  BY <1>2 DEF Reqs
<1>4. ASSUME Distinct(s, n)
      PROVE  Distinct(s, n + 1) /\ s[n].req \notin Reqs(s, n + 1)
  BY <1>2, <1>4 DEF Distinct, Reqs
<1>5. QED
  BY <1>1, <1>3, <1>4

(* Past its end a list holds nothing. *)
LEMMA PastEnd ==
  ASSUME NEW s \in Seq(Record), NEW n \in Nat, n > Len(s)
  PROVE  Reqs(s, n) = {} /\ Distinct(s, n)
  BY DEF Reqs, Distinct

------------------------------------------------------------------------------
(* Types and shape. *)

Typing == TypeOK /\ FlusherShape

(* The process starts with empty lists and an empty table. *)
LEMMA TypingInit == Init => Typing
<1> SUFFICES ASSUME Init PROVE Typing
  OBVIOUS
<1>1. DOMAIN rows = {} /\ DOMAIN activeTransfers = {}
  BY DEF Init, NoRows
<1>2. nextRec \in 1 .. Len(batch) + 1 /\ mishaps \in 0 .. MaxMishaps /\ lives \in 1 .. MaxLives
  BY EmptyReqs, BoundsAssumption DEF Init
<1>3. /\ pendingRecords \in Seq(Record) /\ batch \in Seq(Record)
      /\ txRows \in Seq(Record)
  BY EmptyReqs DEF Init
<1>4. TypeOK
  BY <1>1, <1>2, <1>3 DEF Init, TypeOK
<1>5. QED
  BY <1>4 DEF Init, Typing, FlusherShape

(* Adding a chunk to a live entry gives a live entry. *)
LEMMA OneMoreChunk ==
  ASSUME NEW e \in [in : Nat, out : Nat]
  PROVE  [e EXCEPT !.out = @ + 1] \in [in : Nat, out : Nat]
<1>1. e.out + 1 \in Nat /\ e.in \in Nat
  OBVIOUS
<1>2. [e EXCEPT !.out = @ + 1] = [in |-> e.in, out |-> e.out + 1]
  OBVIOUS
<1>3. QED
  BY <1>1, <1>2

(* A handler adds well-formed records and counters only. *)
LEMMA TypingHandler ==
  ASSUME Typing, NEW r \in Requests, Handler(r)
  PROVE  Typing'
<1> USE DEF Typing, TypeOK, FlusherShape, memoryVars, flushVars, tableVars,
            mainVars, handlerVars
<1>1. CASE Refuse(r)
  BY <1>1 DEF Refuse, Alive
<1>2. CASE StartTransfer(r)
  BY <1>2 DEF StartTransfer, Alive
<1>3. CASE WriteChunk(r)
  BY <1>3 DEF WriteChunk, Alive
<1>4. CASE AddTransferProgress(r)
  <2>1. CASE r \in DOMAIN activeTransfers
    <3>1. activeTransfers[r] \in [in : Nat, out : Nat]
      BY <2>1
    <3>2. [activeTransfers[r] EXCEPT !.out = @ + 1] \in [in : Nat, out : Nat]
      BY <3>1, OneMoreChunk
    <3>3. activeTransfers' =
            [activeTransfers EXCEPT ![r] = [activeTransfers[r] EXCEPT !.out = @ + 1]]
      BY <1>4, <2>1 DEF AddTransferProgress
    <3>4. /\ DOMAIN activeTransfers' = DOMAIN activeTransfers
          /\ \A q \in DOMAIN activeTransfers' : activeTransfers'[q] \in [in : Nat, out : Nat]
      BY <3>2, <3>3
    <3>5. QED
      BY <1>4, <3>4 DEF AddTransferProgress, Alive
  <2>2. CASE r \notin DOMAIN activeTransfers
    BY <1>4, <2>2 DEF AddTransferProgress, Alive
  <2>3. QED
    BY <2>1, <2>2
<1>5. CASE EndResponse(r)
  BY <1>5 DEF EndResponse, Alive
<1>6. CASE RecordStats(r)
  <2>1. [req |-> r, in |-> bytesRead[r], out |-> bytesWritten[r]] \in Record
    BY DEF Record
  <2>2. pendingRecords' \in Seq(Record)
    BY <1>6, <2>1, AppendReqs DEF RecordStats
  <2>3. QED
    BY <1>6, <2>2 DEF RecordStats, Alive
<1>7. CASE FinishTransfer(r)
  BY <1>7 DEF FinishTransfer, Alive
<1>8. CASE WriteFails(r)
  BY <1>8 DEF WriteFails, Alive
<1>9. QED
  BY <1>1, <1>2, <1>3, <1>4, <1>5, <1>6, <1>7, <1>8 DEF Handler

(* The flusher leaves its variables in the shape its place demands. *)
LEMMA TypingFlusher == ASSUME Typing, Flusher PROVE Typing'
<1> USE DEF Typing, TypeOK, FlusherShape, FlushReturns, InTx, memoryVars,
            flushVars, tableVars, mainVars, handlerVars
<1>1. CASE FlushTake
  BY <1>1 DEF FlushTake, Alive
<1>2. CASE FlushBegin
  BY <1>2 DEF FlushBegin, Alive
<1>3. CASE FlushBeginFails
  <2>1. Batched \subseteq Requests
    BY ReqsAreRequests DEF Batched
  <2>2. mishaps' \in 0 .. MaxMishaps
    BY <1>3, BoundsAssumption DEF FlushBeginFails
  <2>3. QED
    BY <1>3, <2>1, <2>2 DEF FlushBeginFails, Alive
<1>4. CASE InsertRow
  BY <1>4 DEF InsertRow, Alive
<1>5. CASE InsertFails
  <2>a. nextRec \in 1 .. Len(batch) /\ Len(batch) \in Nat
    BY <1>5 DEF InsertFails
  <2>b. batch \in Seq(Record)
    OBVIOUS
  <2>c. batch[nextRec] \in Record
    BY <2>a, <2>b
  <2>d. batch[nextRec].req \in Requests
    BY <2>c, RecordReq
  <2>1. batch[nextRec].req \in Requests /\ nextRec + 1 \in 1 .. Len(batch) + 1
    BY <2>a, <2>d
  <2>2. mishaps' \in 0 .. MaxMishaps
    BY <1>5, BoundsAssumption DEF InsertFails
  <2>3. QED
    BY <1>5, <2>1, <2>2 DEF InsertFails, Alive
<1>6. CASE FlushCommit
  <2>1. /\ lastRowID \in Nat /\ Len(txRows) \in Nat
        /\ \A id \in NewRowIDs : txRows[id - lastRowID] \in Record
    BY DEF NewRowIDs, SequenceValue
  <2>2. DOMAIN rows' \subseteq 1 .. lastRowID'
    BY <1>6, <2>1 DEF FlushCommit, NewRowIDs, SequenceValue
  <2>3. \A id \in DOMAIN rows' : rows'[id] \in Record
    BY <1>6, <2>1 DEF FlushCommit, SequenceValue
  <2>4. lastRowID' \in Nat
    BY <1>6, <2>1 DEF FlushCommit, SequenceValue
  <2>5. QED
    <3>1. batch' \in Seq(Record) /\ txRows' \in Seq(Record) /\ nextRec' \in 1 .. Len(batch') + 1
      BY <1>6, EmptyReqs DEF FlushCommit
    <3>2. flusher' \in {"waiting", "returned"} /\ batch' = <<>> /\ txRows' = <<>> /\ nextRec' = 1
      BY <1>6 DEF FlushCommit
    <3>3. QED
      BY <1>6, <2>2, <2>3, <2>4, <3>1, <3>2 DEF FlushCommit, Alive
<1>7. CASE CommitFails
  <2>1. Staged \subseteq Requests
    BY ReqsAreRequests DEF Staged
  <2>2. mishaps' \in 0 .. MaxMishaps
    BY <1>7, BoundsAssumption DEF CommitFails
  <2>3. QED
    BY <1>7, <2>1, <2>2 DEF CommitFails, Alive
<1>8. QED
  BY <1>1, <1>2, <1>3, <1>4, <1>5, <1>6, <1>7 DEF Flusher, FlushStep

(* A deletion removes rows and names requests. *)
LEMMA TypingDelete == ASSUME Typing, DeleteTrafficEntries PROVE Typing'
<1> PICK ids \in SUBSET DOMAIN rows : DeleteRows(ids)
  BY DEF DeleteTrafficEntries
<1>1. {rows[id].req : id \in ids} \subseteq Requests
  BY DEF Typing, TypeOK, Record
<1>2. QED
  BY <1>1 DEF DeleteRows, Typing, TypeOK, FlusherShape, memoryVars, flushVars,
              mainVars, handlerVars

LEMMA UnsettledAreRequests == ASSUME Typing PROVE Unsettled \subseteq Requests
<1>1. /\ pendingRecords \in Seq(Record) /\ batch \in Seq(Record) /\ txRows \in Seq(Record)
      /\ 1 \in Nat \ {0} /\ nextRec \in Nat \ {0}
  BY DEF Typing, TypeOK
<1>2. Pending \subseteq Requests /\ Batched \subseteq Requests /\ Staged \subseteq Requests
  BY <1>1, ReqsAreRequests DEF Pending, Batched, Staged
<1>3. QED
  BY <1>2 DEF Unsettled

(* Stopping, ending and starting the process keep types and shape. *)
LEMMA TypingMain == ASSUME Typing, Main PROVE Typing'
<1> USE DEF Typing, TypeOK, FlusherShape, mainOnly, memoryVars, flushVars,
            tableVars, mainVars, handlerVars
<1>1. CASE StopTracker
  BY <1>1 DEF StopTracker
<1>2. CASE CloseDatabase
  BY <1>2 DEF CloseDatabase
<1>3. ASSUME ProcessEnds, mishaps' \in 0 .. MaxMishaps
      PROVE  Typing'
  <2>1. Unsettled \subseteq Requests
    BY UnsettledAreRequests
  <2>2. QED
    <3>1. /\ batch' \in Seq(Record) /\ txRows' \in Seq(Record)
          /\ pendingRecords' \in Seq(Record) /\ nextRec' \in 1 .. Len(batch') + 1
      BY <1>3, EmptyReqs DEF ProcessEnds
    <3>2. pc' \in [Requests -> {"arrived", "refused", "streaming", "wrote",
                                "recording", "finishing", "done", "cut"}]
      BY <1>3 DEF ProcessEnds
    <3>3. DOMAIN activeTransfers' = {}
      BY <1>3 DEF ProcessEnds
    <3>4. lost' \subseteq Requests
      BY <1>3, <2>1 DEF ProcessEnds
    <3>5. QED
      BY <1>3, <3>1, <3>2, <3>3, <3>4 DEF ProcessEnds
<1>4. CASE Exit
  <2>1. mishaps' \in 0 .. MaxMishaps
    BY <1>4 DEF Exit
  <2>2. QED
    BY <1>3, <1>4, <2>1 DEF Exit
<1>5. CASE Crash
  <2>1. mishaps' \in 0 .. MaxMishaps
    BY <1>5, BoundsAssumption DEF Crash
  <2>2. QED
    BY <1>3, <1>5, <2>1 DEF Crash
<1>6. CASE Start
  BY <1>6, BoundsAssumption DEF Start
<1>7. QED
  BY <1>1, <1>2, <1>4, <1>5, <1>6 DEF Main

(* Every step of the system keeps types and shape. *)
LEMMA TypingStep == Typing /\ [Next]_vars => Typing'
<1> SUFFICES ASSUME Typing, [Next]_vars PROVE Typing'
  OBVIOUS
<1>1. CASE UNCHANGED vars
  BY <1>1 DEF vars, Typing, TypeOK, FlusherShape
<1>2. QED
  BY <1>1, TypingHandler, TypingFlusher, TypingDelete, TypingMain DEF Next

(* Every variable of the tracker keeps its type, whatever the requests do  *)
(* and however many mishaps and restarts there are.                        *)
THEOREM TypeCorrect == Spec => []TypeOK
<1>1. Typing => TypeOK
  BY DEF Typing
<1>2. QED
  BY <1>1, TypingInit, TypingStep, PTL DEF Spec

------------------------------------------------------------------------------
(* Accounting. *)

Accounting == AccountedOnce /\ NothingVanishes

RecordVars == <<pendingRecords, batch, nextRec, txRows, rows, lost, erased>>

(* A step that moves no record and books no request keeps the accounts. *)
LEMMA SameRecords ==
  ASSUME Accounting, UNCHANGED RecordVars, Booked' = Booked
  PROVE  Accounting'
<1>1. /\ Pending' = Pending /\ Batched' = Batched /\ Staged' = Staged
      /\ Stored' = Stored /\ lost' = lost /\ erased' = erased
  BY DEF RecordVars, Pending, Batched, Staged, Stored
<1>2. AccountedOnce'
  BY <1>1 DEF Accounting, AccountedOnce, RecordVars
<1>3. NothingVanishes'
  BY <1>1 DEF Accounting, NothingVanishes, Unsettled
<1>4. QED
  BY <1>2, <1>3 DEF Accounting

(* At the start nothing is booked and nothing is accounted for. *)
LEMMA AccountingInit == Init => Accounting
<1> SUFFICES ASSUME Init PROVE Accounting
  OBVIOUS
<1>1. Pending = {} /\ Batched = {} /\ Staged = {} /\ Stored = {}
  BY EmptyReqs DEF Init, Pending, Batched, Staged, Stored, NoRows
<1>2. Booked = {}
  BY DEF Init, Booked
<1>3. /\ Distinct(pendingRecords, 1) /\ Distinct(batch, nextRec) /\ Distinct(txRows, 1)
      /\ DOMAIN rows = {}
  BY EmptyReqs DEF Init, NoRows
<1>4. QED
  BY <1>1, <1>2, <1>3
  DEF Init, Accounting, AccountedOnce, NothingVanishes, Unsettled, PairwiseDisjoint

(* A handler books its request when it appends the record, and then only. *)
LEMMA AccountingHandler ==
  ASSUME Typing, Accounting, NEW r \in Requests, Handler(r)
  PROVE  Accounting'
<1> USE DEF memoryVars, flushVars, tableVars, mainVars, handlerVars
<1>t. /\ pc \in [Requests -> {"arrived", "refused", "streaming", "wrote",
                              "recording", "finishing", "done", "cut"}]
      /\ bytesRead \in [Requests -> Nat] /\ bytesWritten \in [Requests -> Nat]
      /\ pendingRecords \in Seq(Record)
  BY DEF Typing, TypeOK
<1>1. CASE Refuse(r)
  <2>1. Booked' = Booked
    BY <1>1, <1>t DEF Refuse, Booked, Moved
  <2>2. QED
    BY <1>1, <2>1, SameRecords DEF Refuse, RecordVars
<1>2. CASE StartTransfer(r)
  <2>1. Booked' = Booked
    BY <1>2, <1>t DEF StartTransfer, Booked, Moved
  <2>2. QED
    BY <1>2, <2>1, SameRecords DEF StartTransfer, RecordVars
<1>3. CASE WriteChunk(r)
  <2>1. Booked' = Booked
    BY <1>3, <1>t DEF WriteChunk, Booked, Moved
  <2>2. QED
    BY <1>3, <2>1, SameRecords DEF WriteChunk, RecordVars
<1>4. CASE AddTransferProgress(r)
  <2>1. Booked' = Booked
    BY <1>4, <1>t DEF AddTransferProgress, Booked, Moved
  <2>2. QED
    BY <1>4, <2>1, SameRecords DEF AddTransferProgress, RecordVars
<1>5. CASE EndResponse(r)
  <2>1. Booked' = Booked
    BY <1>5, <1>t DEF EndResponse, Booked, Moved
  <2>2. QED
    BY <1>5, <2>1, SameRecords DEF EndResponse, RecordVars
<1>6. CASE RecordStats(r)
  <2> DEFINE rec == [req |-> r, in |-> bytesRead[r], out |-> bytesWritten[r]]
  <2>1. CASE ~Moved(r)
    <3>1. Booked' = Booked
      BY <1>6, <2>1, <1>t DEF RecordStats, Booked, Moved
    <3>2. QED
      BY <1>6, <2>1, <3>1, SameRecords DEF RecordStats, RecordVars
  <2>2. CASE Moved(r)
    <3>1. Booked' = Booked \cup {r} /\ r \notin Booked
      BY <1>6, <2>2, <1>t DEF RecordStats, Booked, Moved
    <3>2. rec \in Record /\ rec.req = r
      BY <1>t DEF Record
    <3>3. pendingRecords' = Append(pendingRecords, rec)
      BY <1>6, <2>2 DEF RecordStats
    <3>4. r \notin Pending \cup Batched \cup Staged \cup Stored \cup lost \cup erased
      BY <3>1 DEF Accounting, NothingVanishes, Unsettled
    <3>5. Pending' = Pending \cup {r} /\ Distinct(pendingRecords', 1)
      <4>1. Distinct(pendingRecords, 1) /\ r \notin Reqs(pendingRecords, 1)
        BY <3>4 DEF Accounting, AccountedOnce, Pending
      <4>2. QED
        BY <1>t, <3>2, <3>3, <4>1, AppendReqs DEF Pending
    <3>6. /\ Batched' = Batched /\ Staged' = Staged /\ Stored' = Stored
          /\ lost' = lost /\ erased' = erased /\ rows' = rows
          /\ batch' = batch /\ nextRec' = nextRec /\ txRows' = txRows
      BY <1>6 DEF RecordStats, Batched, Staged, Stored
    <3>7. AccountedOnce'
      BY <3>4, <3>5, <3>6 DEF Accounting, AccountedOnce, PairwiseDisjoint
    <3>8. NothingVanishes'
      BY <3>1, <3>5, <3>6 DEF Accounting, NothingVanishes, Unsettled
    <3>9. QED
      BY <3>7, <3>8 DEF Accounting
  <2>3. QED
    BY <2>1, <2>2
<1>7. CASE FinishTransfer(r)
  <2>1. Booked' = Booked
    BY <1>7, <1>t DEF FinishTransfer, Booked, Moved
  <2>2. QED
    BY <1>7, <2>1, SameRecords DEF FinishTransfer, RecordVars
<1>8. CASE WriteFails(r)
  <2>1. Booked' = Booked
    BY <1>8, <1>t DEF WriteFails, Booked, Moved
  <2>2. QED
    BY <1>8, <2>1, SameRecords DEF WriteFails, RecordVars
<1>9. QED
  BY <1>1, <1>2, <1>3, <1>4, <1>5, <1>6, <1>7, <1>8 DEF Handler

(* The flusher moves records along, and drops the ones it could not write. *)
LEMMA AccountingFlusher ==
  ASSUME Typing, Accounting, Flusher PROVE Accounting'
<1> USE DEF memoryVars, flushVars, tableVars, mainVars, handlerVars
<1>t. /\ pendingRecords \in Seq(Record) /\ batch \in Seq(Record)
      /\ txRows \in Seq(Record) /\ nextRec \in 1 .. Len(batch) + 1
      /\ Len(batch) \in Nat /\ Len(txRows) \in Nat
      /\ lastRowID \in Nat /\ DOMAIN rows \subseteq 1 .. lastRowID
  BY DEF Typing, TypeOK
<1>s. FlusherShape
  BY DEF Typing
<1>b. UNCHANGED handlerVars => Booked' = Booked
  BY DEF Booked, Moved
<1>e. Reqs(<<>>, 1) = {} /\ Distinct(<<>>, 1)
  BY EmptyReqs
<1>r. FlushReturns => /\ Batched' = {} /\ Staged' = {}
                      /\ Distinct(batch', nextRec') /\ Distinct(txRows', 1)
  BY <1>e DEF FlushReturns, Batched, Staged
<1>1. CASE FlushTake
  <2>1. Batched = {} /\ Pending' = {} /\ Batched' = Pending
    BY <1>1, <1>s, <1>e DEF FlushTake, FlusherShape, Pending, Batched
  <2>2. /\ Staged' = Staged /\ Stored' = Stored /\ lost' = lost
        /\ erased' = erased /\ Booked' = Booked
    BY <1>1, <1>b DEF FlushTake, Staged, Stored
  <2>3. Distinct(pendingRecords', 1) /\ Distinct(batch', nextRec') /\ Distinct(txRows', 1)
    BY <1>1, <1>s, <1>e DEF FlushTake, FlusherShape, Accounting, AccountedOnce
  <2>4. AccountedOnce'
    BY <1>1, <2>1, <2>2, <2>3 DEF FlushTake, Accounting, AccountedOnce, PairwiseDisjoint
  <2>5. QED
    BY <2>1, <2>2, <2>4 DEF Accounting, NothingVanishes, Unsettled
<1>2. CASE FlushBegin
  BY <1>2, <1>b, SameRecords DEF FlushBegin, RecordVars
<1>3. CASE FlushBeginFails
  <2>1. Staged = {}
    BY <1>3, <1>s, <1>e DEF FlushBeginFails, FlusherShape, Staged
  <2>2. /\ Pending' = Pending /\ Stored' = Stored /\ lost' = lost \cup Batched
        /\ erased' = erased /\ Booked' = Booked
        /\ rows' = rows /\ pendingRecords' = pendingRecords
    BY <1>3, <1>b DEF FlushBeginFails, Pending, Stored
  <2>3. /\ Batched' = {} /\ Staged' = {}
        /\ Distinct(batch', nextRec') /\ Distinct(txRows', 1)
    BY <1>3, <1>r DEF FlushBeginFails
  <2>4. AccountedOnce'
    BY <2>2, <2>3 DEF Accounting, AccountedOnce, PairwiseDisjoint
  <2>5. QED
    BY <2>1, <2>2, <2>3, <2>4 DEF Accounting, NothingVanishes, Unsettled
<1>4. CASE InsertRow
  <2> DEFINE q == batch[nextRec].req
  <2>1. nextRec \in 1 .. Len(batch)
    BY <1>4, <1>t DEF InsertRow
  <2>2. /\ batch[nextRec] \in Record
        /\ Batched = Reqs(batch, nextRec + 1) \cup {q}
        /\ Distinct(batch, nextRec + 1) /\ q \notin Reqs(batch, nextRec + 1)
    BY <1>t, <2>1, NextReqs DEF Batched, Accounting, AccountedOnce
  <2>3. Batched = Batched' \cup {q} /\ q \notin Batched' /\ Distinct(batch', nextRec')
    BY <1>4, <2>2 DEF InsertRow, Batched
  <2>4. q \notin Staged
    BY <2>3 DEF Accounting, AccountedOnce, PairwiseDisjoint
  <2>5. Staged' = Staged \cup {q} /\ Distinct(txRows', 1)
    BY <1>4, <1>t, <2>2, <2>4, AppendReqs DEF InsertRow, Staged, Accounting, AccountedOnce
  <2>6. /\ Pending' = Pending /\ Stored' = Stored /\ lost' = lost
        /\ erased' = erased /\ Booked' = Booked
        /\ rows' = rows /\ pendingRecords' = pendingRecords
    BY <1>4, <1>b DEF InsertRow, Pending, Stored
  <2>7. AccountedOnce'
    BY <2>3, <2>5, <2>6 DEF Accounting, AccountedOnce, PairwiseDisjoint
  <2>8. QED
    BY <2>3, <2>5, <2>6, <2>7 DEF Accounting, NothingVanishes, Unsettled
<1>5. CASE InsertFails
  <2> DEFINE q == batch[nextRec].req
  <2>1. nextRec \in 1 .. Len(batch)
    BY <1>5, <1>t DEF InsertFails
  <2>2. /\ Batched = Reqs(batch, nextRec + 1) \cup {q}
        /\ Distinct(batch, nextRec + 1) /\ q \notin Reqs(batch, nextRec + 1)
    BY <1>t, <2>1, NextReqs DEF Batched, Accounting, AccountedOnce
  <2>3. Batched = Batched' \cup {q} /\ q \notin Batched' /\ Distinct(batch', nextRec')
    BY <1>5, <2>2 DEF InsertFails, Batched
  <2>4. /\ Pending' = Pending /\ Staged' = Staged /\ Stored' = Stored
        /\ lost' = lost \cup {q} /\ erased' = erased /\ Booked' = Booked
        /\ rows' = rows /\ pendingRecords' = pendingRecords /\ txRows' = txRows
    BY <1>5, <1>b DEF InsertFails, Pending, Staged, Stored
  <2>5. AccountedOnce'
    BY <2>3, <2>4 DEF Accounting, AccountedOnce, PairwiseDisjoint
  <2>6. QED
    BY <2>3, <2>4, <2>5 DEF Accounting, NothingVanishes, Unsettled
<1>6. CASE FlushCommit
  <2> DEFINE L == Len(txRows)
             new == (lastRowID + 1) .. (lastRowID + L)
  <2>1. Batched = {}
    BY <1>6, <1>t, PastEnd DEF FlushCommit, Batched
  <2>2. rows' = [id \in DOMAIN rows \cup new |->
                   IF id \in new THEN txRows[id - lastRowID] ELSE rows[id]]
    BY <1>6 DEF FlushCommit, NewRowIDs, SequenceValue
  <2>3. \A id \in DOMAIN rows : id \notin new
    BY <1>t
  <2>4. /\ DOMAIN rows' = DOMAIN rows \cup new
        /\ \A id \in DOMAIN rows : rows'[id] = rows[id]
        /\ \A id \in new : rows'[id] = txRows[id - lastRowID]
    BY <2>2, <2>3
  <2>5. /\ \A id \in new : id - lastRowID \in 1 .. L
        /\ \A i \in 1 .. L : lastRowID + i \in new /\ (lastRowID + i) - lastRowID = i
    BY <1>t
  <2>6. {rows'[id].req : id \in new} = Staged
    BY <2>4, <2>5 DEF Staged, Reqs
  <2>7. Stored' = Stored \cup Staged
    BY <2>4, <2>6 DEF Stored
  <2>8. \A i, j \in DOMAIN rows' : rows'[i].req = rows'[j].req => i = j
    <3> SUFFICES ASSUME NEW i \in DOMAIN rows', NEW j \in DOMAIN rows',
                        rows'[i].req = rows'[j].req
                 PROVE  i = j
      OBVIOUS
    <3>1. CASE i \in DOMAIN rows /\ j \in DOMAIN rows
      BY <2>4, <3>1 DEF Accounting, AccountedOnce
    <3>2. CASE i \in new /\ j \in new
      <4>1. txRows[i - lastRowID].req = txRows[j - lastRowID].req
        BY <2>4, <3>2
      <4>2. i - lastRowID = j - lastRowID
        BY <2>5, <3>2, <4>1 DEF Accounting, AccountedOnce, Distinct
      <4>3. QED
        BY <1>t, <3>2, <4>2
    <3>3. Stored \cap Staged = {}
      BY DEF Accounting, AccountedOnce, PairwiseDisjoint
    <3>4. CASE i \in DOMAIN rows /\ j \in new
      <4>1. rows'[i].req \in Stored /\ rows'[j].req \in Staged
        BY <2>4, <2>6, <3>4 DEF Stored
      <4>2. QED
        BY <3>3, <4>1
    <3>5. CASE i \in new /\ j \in DOMAIN rows
      <4>1. rows'[j].req \in Stored /\ rows'[i].req \in Staged
        BY <2>4, <2>6, <3>5 DEF Stored
      <4>2. QED
        BY <3>3, <4>1
    <3>6. QED
      BY <2>4, <3>1, <3>2, <3>4, <3>5
  <2>9. /\ Pending' = Pending /\ lost' = lost /\ erased' = erased
        /\ Booked' = Booked /\ pendingRecords' = pendingRecords
        /\ Batched' = {} /\ Staged' = {}
        /\ Distinct(batch', nextRec') /\ Distinct(txRows', 1)
    BY <1>6, <1>b, <1>r DEF FlushCommit, Pending
  <2>10. AccountedOnce'
    BY <2>7, <2>8, <2>9 DEF Accounting, AccountedOnce, PairwiseDisjoint
  <2>11. QED
    BY <2>1, <2>7, <2>9, <2>10 DEF Accounting, NothingVanishes, Unsettled
<1>7. CASE CommitFails
  <2>1. Batched = {}
    BY <1>7, <1>t, PastEnd DEF CommitFails, Batched
  <2>2. /\ Pending' = Pending /\ Stored' = Stored /\ lost' = lost \cup Staged
        /\ erased' = erased /\ Booked' = Booked
        /\ rows' = rows /\ pendingRecords' = pendingRecords
    BY <1>7, <1>b DEF CommitFails, Pending, Stored
  <2>3. /\ Batched' = {} /\ Staged' = {}
        /\ Distinct(batch', nextRec') /\ Distinct(txRows', 1)
    BY <1>7, <1>r DEF CommitFails
  <2>4. AccountedOnce'
    BY <2>2, <2>3 DEF Accounting, AccountedOnce, PairwiseDisjoint
  <2>5. QED
    BY <2>1, <2>2, <2>3, <2>4 DEF Accounting, NothingVanishes, Unsettled
<1>8. QED
  BY <1>1, <1>2, <1>3, <1>4, <1>5, <1>6, <1>7 DEF Flusher, FlushStep

(* Deleted rows leave the table for the list of erased requests. *)
LEMMA AccountingDelete ==
  ASSUME Typing, Accounting, DeleteTrafficEntries PROVE Accounting'
<1> PICK ids \in SUBSET DOMAIN rows : DeleteRows(ids)
  BY DEF DeleteTrafficEntries
<1> DEFINE gone == {rows[id].req : id \in ids}
<1>1. /\ rows' = [id \in DOMAIN rows \ ids |-> rows[id]]
      /\ erased' = erased \cup gone
      /\ UNCHANGED <<pc, bytesRead, bytesWritten, pendingRecords, batch,
                     nextRec, txRows, lost>>
  BY DEF DeleteRows, handlerVars, memoryVars, flushVars
<1>2. /\ Pending' = Pending /\ Batched' = Batched /\ Staged' = Staged
      /\ Booked' = Booked
  BY <1>1 DEF Pending, Batched, Staged, Booked, Moved
<1>3. \A i, j \in DOMAIN rows : rows[i].req = rows[j].req => i = j
  BY DEF Accounting, AccountedOnce
<1>4. Stored = Stored' \cup gone /\ Stored' \cap gone = {}
  BY <1>1, <1>3 DEF Stored
<1>5. \A i, j \in DOMAIN rows' : rows'[i].req = rows'[j].req => i = j
  BY <1>1, <1>3
<1>6. AccountedOnce'
  BY <1>1, <1>2, <1>4, <1>5 DEF Accounting, AccountedOnce, PairwiseDisjoint
<1>7. QED
  BY <1>1, <1>2, <1>4, <1>6 DEF Accounting, NothingVanishes, Unsettled

(* The end of a process drops what is not settled, and nothing else; the   *)
(* other steps of main touch no record.                                    *)
LEMMA AccountingMain ==
  ASSUME Typing, Accounting, Main PROVE Accounting'
<1> USE DEF mainOnly, memoryVars, flushVars, tableVars, mainVars, handlerVars
<1>1. CASE StopTracker \/ CloseDatabase \/ Start
  <2>1. Booked' = Booked
    BY <1>1 DEF StopTracker, CloseDatabase, Start, Booked, Moved
  <2>2. QED
    BY <1>1, <2>1, SameRecords DEF StopTracker, CloseDatabase, Start, RecordVars
<1>2. CASE ProcessEnds
  <2>1. pc \in [Requests -> {"arrived", "refused", "streaming", "wrote",
                             "recording", "finishing", "done", "cut"}]
    BY DEF Typing, TypeOK
  <2>2. Booked' = Booked
    BY <1>2, <2>1 DEF ProcessEnds, Booked, Moved
  <2>3. /\ Pending' = {} /\ Batched' = {} /\ Staged' = {}
        /\ Distinct(pendingRecords', 1) /\ Distinct(batch', nextRec') /\ Distinct(txRows', 1)
    BY <1>2, EmptyReqs DEF ProcessEnds, Pending, Batched, Staged
  <2>4. /\ Stored' = Stored /\ erased' = erased /\ rows' = rows
        /\ lost' = lost \cup Unsettled
    BY <1>2 DEF ProcessEnds, Stored
  <2>5. AccountedOnce'
    BY <2>3, <2>4 DEF Accounting, AccountedOnce, PairwiseDisjoint, Unsettled
  <2>6. NothingVanishes'
    BY <2>2, <2>3, <2>4 DEF Accounting, NothingVanishes, Unsettled
  <2>7. QED
    BY <2>5, <2>6 DEF Accounting
<1>3. QED
  BY <1>1, <1>2 DEF Main, Exit, Crash

(* The invariant is inductive: types and accounting, step by step. *)
LEMMA InvariantStep == IInv /\ [Next]_vars => IInv'
<1> SUFFICES ASSUME IInv, [Next]_vars PROVE IInv'
  OBVIOUS
<1>1. Typing /\ Accounting
  BY DEF IInv, Typing, Accounting
<1>2. Typing'
  BY <1>1, TypingStep
<1>3. Accounting'
  <2>1. CASE UNCHANGED vars
    <3>1. Booked' = Booked
      BY <2>1 DEF vars, Booked, Moved
    <3>2. QED
      BY <1>1, <2>1, <3>1, SameRecords DEF vars, RecordVars
  <2>2. QED
    BY <1>1, <2>1, AccountingHandler, AccountingFlusher, AccountingDelete,
       AccountingMain DEF Next
<1>4. QED
  BY <1>2, <1>3 DEF IInv, Typing, Accounting

(* The invariant holds of every behaviour. *)
LEMMA Invariance == Spec => []IInv
<1>1. Init => IInv
  BY TypingInit, AccountingInit DEF IInv, Typing, Accounting
<1>2. QED
  BY <1>1, InvariantStep, PTL DEF Spec

(* No request is ever accounted for twice, across the pending list, the    *)
(* flusher's batch, its transaction and the table, with any failures,      *)
(* deletions, crashes and restarts.                                        *)
THEOREM NoDoubleAccounting == Spec => []AccountedOnce
<1>1. IInv => AccountedOnce
  BY DEF IInv
<1>2. QED
  BY <1>1, Invariance, PTL

(* What a handler booked is always somewhere: waiting, stored, erased by   *)
(* an administrator, or dropped at one of the places that drop records.    *)
THEOREM Conservation == Spec => []NothingVanishes
<1>1. IInv => NothingVanishes
  BY DEF IInv
<1>2. QED
  BY <1>1, Invariance, PTL

------------------------------------------------------------------------------
(* What is dropped, and why. *)

(* Every step that drops a record is a failed statement, a crash, or comes *)
(* at the end of a process; none of these is ever forgotten.               *)
LEMMA LossStep == TypeOK /\ LossHasACause /\ [Next]_vars => LossHasACause'
<1> SUFFICES ASSUME TypeOK, LossHasACause, [Next]_vars, lost' # {}
             PROVE  mishaps' > 0 \/ lives' > 1 \/ server' \in {"closed", "down"}
  BY DEF LossHasACause
<1> USE DEF memoryVars, flushVars, tableVars, mainVars, handlerVars, mainOnly
<1>1. mishaps \in Nat /\ lives \in Nat /\ lives >= 1
  BY BoundsAssumption DEF TypeOK
<1>2. CASE UNCHANGED <<lost, mishaps, server, lives>>
  BY <1>2 DEF LossHasACause
<1>3. CASE FlushBeginFails \/ InsertFails \/ CommitFails
  BY <1>1, <1>3 DEF FlushBeginFails, InsertFails, CommitFails
<1>4. CASE StopTracker \/ CloseDatabase \/ Start
  BY <1>1, <1>4 DEF StopTracker, CloseDatabase, Start, LossHasACause
<1>5. CASE Exit \/ Crash
  BY <1>5 DEF Exit, Crash, ProcessEnds
<1>6. ASSUME NEW r \in Requests, Handler(r)
      PROVE  UNCHANGED <<lost, mishaps, server, lives>>
  BY <1>6 DEF Handler, Refuse, StartTransfer, WriteChunk, WriteFails, AddTransferProgress,
              EndResponse, RecordStats, FinishTransfer
<1>7. CASE FlushTake \/ FlushBegin \/ InsertRow \/ FlushCommit
  BY <1>2, <1>7 DEF FlushTake, FlushBegin, InsertRow, FlushCommit
<1>8. CASE DeleteTrafficEntries
  BY <1>2, <1>8 DEF DeleteTrafficEntries, DeleteRows
<1>9. CASE UNCHANGED vars
  BY <1>2, <1>9 DEF vars
<1>10. QED
  BY <1>2, <1>3, <1>4, <1>5, <1>6, <1>7, <1>8, <1>9 DEF Next, Flusher, FlushStep, Main

(* A serving portal whose database is healthy never drops a record.        *)
THEOREM NoLossWithoutCause == Spec => []LossHasACause
<1>1. Init => LossHasACause
  BY DEF Init, LossHasACause
<1>2. QED
  BY <1>1, TypeCorrect, LossStep, PTL DEF Spec

------------------------------------------------------------------------------
(* What the records say. *)

(* Nobody has written to a client whose request has not been answered yet. *)
NothingWrittenYet == \A r \in Requests : pc[r] = "arrived" => bytesWritten[r] = 0

(* The counters of a booked request are final. *)
LEMMA BookedIsFinal ==
  ASSUME IInv, [Next]_vars, NEW r \in Booked
  PROVE  /\ r \in Booked' /\ r \in Requests
         /\ bytesRead'[r] = bytesRead[r] /\ bytesWritten'[r] = bytesWritten[r]
<1> USE DEF memoryVars, flushVars, tableVars, mainVars, handlerVars, mainOnly
<1>1. /\ r \in Requests /\ pc[r] \in {"finishing", "done"} /\ Moved(r)
      /\ DOMAIN pc = Requests
      /\ bytesRead \in [Requests -> Nat] /\ bytesWritten \in [Requests -> Nat]
  BY DEF Booked, IInv, TypeOK
<1> SUFFICES /\ bytesRead'[r] = bytesRead[r] /\ bytesWritten'[r] = bytesWritten[r]
             /\ pc'[r] \in {"finishing", "done"}
  BY <1>1 DEF Booked, Moved
<1>2. CASE UNCHANGED handlerVars
  BY <1>1, <1>2
<1>3. ASSUME NEW q \in Requests, Handler(q)
      PROVE  /\ bytesRead'[r] = bytesRead[r] /\ bytesWritten'[r] = bytesWritten[r]
             /\ pc'[r] \in {"finishing", "done"}
  BY <1>1, <1>3 DEF IInv, TypeOK, Handler, Refuse, StartTransfer, WriteChunk,
     WriteFails, AddTransferProgress, EndResponse, RecordStats, FinishTransfer
<1>4. CASE ProcessEnds
  BY <1>1, <1>4 DEF ProcessEnds
<1>5. CASE Flusher \/ DeleteTrafficEntries \/ StopTracker \/ CloseDatabase \/ Start
  BY <1>2, <1>5 DEF Flusher, FlushStep, FlushTake, FlushBegin, FlushBeginFails, InsertRow,
     InsertFails, FlushCommit, CommitFails, DeleteTrafficEntries, DeleteRows,
     StopTracker, CloseDatabase, Start
<1>6. QED
  BY <1>2, <1>3, <1>4, <1>5 DEF Next, Main, Exit, Crash, vars

(* A record that says what a booked request moved. *)
Exact(rec) == rec.in = bytesRead[rec.req] /\ rec.out = bytesWritten[rec.req]
Final(rec) == rec.req \in Booked /\ Exact(rec)

(* All records are final, wherever they are: those of the batch included   *)
(* that have been inserted already, or could not be.                       *)
RecordsAreFinal ==
  /\ \A i \in DOMAIN pendingRecords : Final(pendingRecords[i])
  /\ \A i \in DOMAIN batch : Final(batch[i])
  /\ \A i \in DOMAIN txRows : Final(txRows[i])
  /\ \A id \in DOMAIN rows : Final(rows[id])

(* Once final, a record stays so. *)
LEMMA FinalStays ==
  ASSUME IInv, [Next]_vars, NEW rec, Final(rec)
  PROVE  Final(rec)'
<1>1. rec.req \in Booked /\ Exact(rec)
  BY DEF Final
<1>2. rec.req \in Booked' /\ bytesRead'[rec.req] = bytesRead[rec.req]
      /\ bytesWritten'[rec.req] = bytesWritten[rec.req]
  BY <1>1, BookedIsFinal
<1>3. QED
  BY <1>1, <1>2 DEF Final, Exact

(* A handler appends a final record, if any. *)
LEMMA HandlerAddsFinal ==
  ASSUME IInv, RecordsAreFinal, NEW r \in Requests, Handler(r)
  PROVE  RecordsAreFinal'
<1> USE DEF memoryVars, flushVars, tableVars, mainVars, handlerVars
<1>1. [Next]_vars
  BY DEF Next
<1>2. UNCHANGED <<batch, txRows, rows>>
  BY DEF Handler, Refuse, StartTransfer, WriteChunk, WriteFails, AddTransferProgress,
         EndResponse, RecordStats, FinishTransfer
<1>3. CASE UNCHANGED pendingRecords
  BY <1>1, <1>2, <1>3, FinalStays DEF RecordsAreFinal
<1>4. CASE RecordStats(r) /\ Moved(r)
  <2> PICK rec \in Record : rec = [req |-> r, in |-> bytesRead[r], out |-> bytesWritten[r]]
    BY DEF Record, IInv, TypeOK
  <2>1. pendingRecords' = Append(pendingRecords, rec) /\ pendingRecords \in Seq(Record)
    BY <1>4 DEF RecordStats, IInv, TypeOK
  <2>2. Final(rec)'
    <3>1. UNCHANGED <<bytesRead, bytesWritten>> /\ pc' = [pc EXCEPT ![r] = "finishing"]
      BY <1>4 DEF RecordStats
    <3>2. r \in Booked'
      BY <1>4, <3>1 DEF Booked, Moved, IInv, TypeOK
    <3>3. QED
      BY <3>1, <3>2 DEF Final, Exact
  <2>3. \A i \in DOMAIN pendingRecords' :
          \/ pendingRecords'[i] = rec
          \/ i \in DOMAIN pendingRecords /\ pendingRecords'[i] = pendingRecords[i]
    BY <2>1
  <2>4. \A i \in DOMAIN pendingRecords' : Final(pendingRecords[i])'
    <3> SUFFICES ASSUME NEW i \in DOMAIN pendingRecords' PROVE Final(pendingRecords[i])'
      OBVIOUS
    <3>1. CASE pendingRecords'[i] = rec
      BY <2>2, <3>1 DEF Final, Exact
    <3>2. CASE i \in DOMAIN pendingRecords /\ pendingRecords'[i] = pendingRecords[i]
      <4>1. Final(pendingRecords[i])
        BY <3>2 DEF RecordsAreFinal
      <4> DEFINE old == pendingRecords[i]
      <4>2. \A q \in Booked : /\ q \in Booked' /\ bytesRead'[q] = bytesRead[q]
                              /\ bytesWritten'[q] = bytesWritten[q]
        BY <1>1, BookedIsFinal
      <4>3. QED
        BY <3>2, <4>1, <4>2 DEF Final, Exact
    <3>3. QED
      BY <2>3, <3>1, <3>2
  <2>5. QED
    BY <1>1, <1>2, <2>4, FinalStays DEF RecordsAreFinal
<1>5. QED
  BY <1>3, <1>4 DEF Handler, Refuse, StartTransfer, WriteChunk, WriteFails, AddTransferProgress,
                    EndResponse, RecordStats, FinishTransfer

(* Where a record can be. *)
Somewhere ==
  {pendingRecords[i] : i \in DOMAIN pendingRecords} \cup {batch[i] : i \in DOMAIN batch}
  \cup {txRows[i] : i \in DOMAIN txRows} \cup {rows[id] : id \in DOMAIN rows}

(* RecordsAreFinal speaks of the records in the four places and no others. *)
LEMMA FinalSomewhere == RecordsAreFinal <=> \A rec \in Somewhere : Final(rec)
  BY DEF RecordsAreFinal, Somewhere

(* A step that makes no record keeps all of them final. *)
LEMMA MovingKeepsFinal ==
  ASSUME IInv, RecordsAreFinal, [Next]_vars, Somewhere' \subseteq Somewhere
  PROVE  RecordsAreFinal'
<1>1. \A rec \in Somewhere : Final(rec)'
  BY FinalSomewhere, FinalStays
<1>2. \A rec \in Somewhere' : Final(rec)'
  BY <1>1
<1>3. QED
  BY <1>2 DEF RecordsAreFinal, Somewhere, Final, Exact

(* Every other step moves records or removes them: from the pending list   *)
(* to the batch, the transaction and the table.                            *)
LEMMA RecordsOnlyMove ==
  ASSUME TypeOK, Flusher \/ DeleteTrafficEntries \/ Main \/ UNCHANGED vars
  PROVE  Somewhere' \subseteq Somewhere
<1> USE DEF memoryVars, flushVars, tableVars, mainVars, handlerVars, mainOnly, FlushReturns
<1>t. /\ pendingRecords \in Seq(Record) /\ batch \in Seq(Record)
      /\ txRows \in Seq(Record) /\ nextRec \in 1 .. Len(batch) + 1
      /\ Len(batch) \in Nat /\ Len(txRows) \in Nat
      /\ lastRowID \in Nat /\ DOMAIN rows \subseteq 1 .. lastRowID
  BY DEF TypeOK
<1>1. CASE FlushTake
  BY <1>1 DEF FlushTake, Somewhere
<1>2. CASE UNCHANGED <<pendingRecords, batch, txRows, rows>>
  BY <1>2 DEF Somewhere
<1>3. CASE FlushBeginFails \/ CommitFails \/ ProcessEnds
  <2>1. DOMAIN batch' = {} /\ DOMAIN txRows' = {} /\ rows' = rows
        /\ (DOMAIN pendingRecords' = {} \/ pendingRecords' = pendingRecords)
    BY <1>3 DEF FlushBeginFails, CommitFails, ProcessEnds
  <2>2. QED
    BY <2>1 DEF Somewhere
<1>4. CASE InsertRow
  <2>1. nextRec \in DOMAIN batch /\ batch[nextRec] \in Record
    BY <1>4, <1>t DEF InsertRow
  <2>2. \A i \in DOMAIN txRows' :
          txRows'[i] = batch[nextRec] \/ (i \in DOMAIN txRows /\ txRows'[i] = txRows[i])
    BY <1>4, <1>t, <2>1 DEF InsertRow
  <2>3. UNCHANGED <<pendingRecords, batch, rows>>
    BY <1>4 DEF InsertRow
  <2>4. QED
    BY <2>1, <2>2, <2>3 DEF Somewhere
<1>5. CASE FlushCommit
  <2>1. DOMAIN batch' = {} /\ DOMAIN txRows' = {} /\ pendingRecords' = pendingRecords
    BY <1>5 DEF FlushCommit
  <2>2. \A id \in NewRowIDs : id - SequenceValue \in DOMAIN txRows
    BY <1>t DEF NewRowIDs, SequenceValue
  <2>3. \A id \in DOMAIN rows' :
          \/ \E i \in DOMAIN txRows : rows'[id] = txRows[i]
          \/ id \in DOMAIN rows /\ rows'[id] = rows[id]
    BY <1>5, <2>2 DEF FlushCommit
  <2>4. QED
    BY <2>1, <2>3 DEF Somewhere
<1>6. CASE DeleteTrafficEntries
  BY <1>6 DEF DeleteTrafficEntries, DeleteRows, Somewhere
<1>7. CASE FlushBegin \/ InsertFails \/ StopTracker \/ CloseDatabase \/ Start \/ UNCHANGED vars
  BY <1>2, <1>7 DEF FlushBegin, InsertFails, StopTracker, CloseDatabase, Start, vars
<1>8. QED
  BY <1>1, <1>3, <1>4, <1>5, <1>6, <1>7 DEF Flusher, FlushStep, Main, Exit, Crash

(* Every step keeps the records final: those of the handlers add one that  *)
(* is, and the others only move them.                                      *)
LEMMA FinalStep == IInv /\ RecordsAreFinal /\ [Next]_vars => RecordsAreFinal'
  BY HandlerAddsFinal, RecordsOnlyMove, MovingKeepsFinal DEF Next, IInv

(* What a handler has counted is what it has sent, except after a Write    *)
(* that failed half way, which ends the response.                          *)
Counted(r) ==
  /\ sent[r] \in {2 * bytesWritten[r], 2 * bytesWritten[r] + 1}
  /\ pc[r] \in {"arrived", "refused", "streaming", "wrote"} => sent[r] = 2 * bytesWritten[r]
SentIsCounted == \A r \in Requests : Counted(r)

LEMMA CountedHandler ==
  ASSUME TypeOK, SentIsCounted, NEW q \in Requests, Handler(q), NEW r \in Requests
  PROVE  Counted(r)'
<1>t. /\ bytesWritten \in [Requests -> Nat] /\ sent \in [Requests -> Nat]
      /\ DOMAIN pc = Requests /\ Counted(r)
  BY DEF TypeOK, SentIsCounted
<1>1. CASE UNCHANGED <<bytesWritten, sent>>
  <2>1. pc'[r] \in {"arrived", "refused", "streaming", "wrote"}
          => pc[r] \in {"arrived", "refused", "streaming", "wrote"}
    BY <1>1, <1>t DEF Handler, Refuse, StartTransfer, WriteChunk, WriteFails,
       AddTransferProgress, EndResponse, RecordStats, FinishTransfer
  <2>2. QED
    BY <1>1, <1>t, <2>1 DEF Counted
<1>2. CASE WriteChunk(q)
  BY <1>2, <1>t DEF WriteChunk, Counted
<1>3. CASE WriteFails(q)
  BY <1>3, <1>t DEF WriteFails, Counted
<1>4. QED
  BY <1>1, <1>2, <1>3 DEF Handler, Refuse, StartTransfer, AddTransferProgress,
     EndResponse, RecordStats, FinishTransfer

LEMMA CountedStep == TypeOK /\ SentIsCounted /\ [Next]_vars => SentIsCounted'
<1> SUFFICES ASSUME TypeOK, SentIsCounted, [Next]_vars, NEW r \in Requests
             PROVE  Counted(r)'
  BY DEF SentIsCounted
<1> USE DEF memoryVars, flushVars, tableVars, mainVars, handlerVars, mainOnly
<1>1. CASE UNCHANGED handlerVars
  BY <1>1 DEF SentIsCounted, Counted
<1>2. CASE ProcessEnds
  BY <1>2 DEF ProcessEnds, SentIsCounted, Counted
<1>3. CASE Flusher \/ DeleteTrafficEntries \/ StopTracker \/ CloseDatabase \/ Start
  BY <1>1, <1>3 DEF Flusher, FlushStep, FlushTake, FlushBegin, FlushBeginFails, InsertRow,
     InsertFails, FlushCommit, CommitFails, DeleteTrafficEntries, DeleteRows,
     StopTracker, CloseDatabase, Start
<1>4. QED
  BY <1>1, <1>2, <1>3, CountedHandler DEF Next, Main, Exit, Crash, vars

(* The full chunks among what was sent are the ones that were counted.     *)
LEMMA FullChunks ==
  ASSUME NEW n \in Nat, NEW s \in {2 * n, 2 * n + 1}
  PROVE  s \div 2 = n
  OBVIOUS

LEMMA FinalIsExact ==
  ASSUME TypeOK, SentIsCounted, NEW rec, Final(rec)
  PROVE  rec.in = bytesRead[rec.req] /\ rec.out = sent[rec.req] \div 2
<1>1. rec.req \in Requests /\ Exact(rec)
  BY DEF Final, Booked
<1>2. /\ bytesWritten[rec.req] \in Nat
      /\ sent[rec.req] \in {2 * bytesWritten[rec.req], 2 * bytesWritten[rec.req] + 1}
  BY <1>1 DEF TypeOK, SentIsCounted, Counted
<1>3. sent[rec.req] \div 2 = bytesWritten[rec.req]
  BY <1>2, FullChunks
<1>4. QED
  BY <1>1, <1>3 DEF Exact

(* A record carries what its request moved, from the deferred call that    *)
(* made it to the table, across flushes, failures, crashes and restarts:   *)
(* every chunk its client was sent in full, and no more.                   *)
THEOREM ExactRecords == Spec => []RecordsAreExact
<1>1. Init => RecordsAreFinal /\ SentIsCounted
  BY DEF Init, NoRows, RecordsAreFinal, SentIsCounted, Counted
<1>2. TypeOK /\ SentIsCounted /\ RecordsAreFinal => RecordsAreExact
  BY FinalIsExact DEF RecordsAreFinal, RecordsAreExact
<1>3. QED
  BY <1>1, <1>2, Invariance, TypeCorrect, FinalStep, CountedStep, PTL DEF Spec

------------------------------------------------------------------------------
(* The live table. *)

LiveInv == TypeOK /\ NothingWrittenYet /\ ActiveIsInFlight

(* A handler's step keeps the live table that of the transfers in flight.  *)
LEMMA LiveHandler ==
  ASSUME LiveInv, NEW r \in Requests, Handler(r)
  PROVE  NothingWrittenYet' /\ ActiveIsInFlight'
<1> USE DEF LiveInv, TypeOK, NothingWrittenYet, ActiveIsInFlight, InFlight, memoryVars
<1>1. CASE Refuse(r)
  BY <1>1 DEF Refuse
<1>2. CASE StartTransfer(r)
  BY <1>2 DEF StartTransfer
<1>3. CASE WriteChunk(r)
  BY <1>3 DEF WriteChunk
<1>4. CASE AddTransferProgress(r)
  BY <1>4 DEF AddTransferProgress
<1>5. CASE EndResponse(r)
  BY <1>5 DEF EndResponse
<1>6. CASE RecordStats(r)
  BY <1>6 DEF RecordStats
<1>7. CASE FinishTransfer(r)
  BY <1>7 DEF FinishTransfer
<1>8. CASE WriteFails(r)
  BY <1>8 DEF WriteFails
<1>9. QED
  BY <1>1, <1>2, <1>3, <1>4, <1>5, <1>6, <1>7, <1>8 DEF Handler

(* So does every other step: a restart empties both.                       *)
LEMMA LiveStep ==
  ASSUME LiveInv, [Next]_vars
  PROVE  NothingWrittenYet' /\ ActiveIsInFlight'
<1> USE DEF memoryVars, flushVars, tableVars, mainVars, handlerVars, mainOnly
<1>1. CASE UNCHANGED <<handlerVars, activeTransfers>>
  BY <1>1 DEF LiveInv, NothingWrittenYet, ActiveIsInFlight, InFlight
<1>2. CASE ProcessEnds
  <2>1. InFlight' = {}
    BY <1>2 DEF ProcessEnds, InFlight, LiveInv, TypeOK
  <2>2. \A r \in Requests : pc'[r] = "arrived" => pc[r] = "arrived"
    BY <1>2 DEF ProcessEnds
  <2>3. QED
    BY <1>2, <2>1, <2>2 DEF ProcessEnds, LiveInv, NothingWrittenYet, ActiveIsInFlight
<1>3. CASE Flusher \/ DeleteTrafficEntries \/ StopTracker \/ CloseDatabase \/ Start
  BY <1>1, <1>3 DEF Flusher, FlushStep, FlushTake, FlushBegin, FlushBeginFails, InsertRow,
     InsertFails, FlushCommit, CommitFails, DeleteTrafficEntries, DeleteRows,
     StopTracker, CloseDatabase, Start
<1>4. QED
  BY <1>1, <1>2, <1>3, LiveHandler DEF Next, Main, Exit, Crash, vars

(* No exit of ServeHTTP leaks an entry of the live table, and no entry     *)
(* shows more or less than its handler has counted, but for the last chunk. *)
THEOREM LiveTableIsExact == Spec => []ActiveIsInFlight
<1>1. Init => LiveInv
  BY TypingInit DEF Init, LiveInv, NothingWrittenYet, ActiveIsInFlight, InFlight, Typing
<1>2. LiveInv /\ TypeOK' /\ [Next]_vars => LiveInv'
  BY LiveStep DEF LiveInv
<1>3. LiveInv => ActiveIsInFlight
  BY DEF LiveInv
<1>4. QED
  BY <1>1, <1>2, <1>3, TypeCorrect, PTL DEF Spec

------------------------------------------------------------------------------
(* The ledger.  The four lemmas about moves say what a change of the sets  *)
(* of records means for it; the lemmas after them say which change each    *)
(* step makes.  Both rest on the invariant: it is because a request is in  *)
(* at most one of the sets that Account is a status and not a choice.      *)

Accounts == [r \in Requests |-> Account(r)]

(* What a step may be, seen from the ledger. *)
LedgerStep == [Ledger!Next]_Accounts

(* Where a record is decides what the ledger says; this is all it reads. *)
LEMMA AccountIsDecided ==
  ASSUME Accounting, NEW r
  PROVE  /\ r \in Stored => Account(r) = "stored"
         /\ r \in erased => Account(r) = "erased"
         /\ r \in lost => Account(r) = "lost"
         /\ r \in Unsettled => Account(r) = "booked"
         /\ r \notin Stored \cup erased \cup lost \cup Unsettled => Account(r) = "open"
  BY DEF Accounting, AccountedOnce, PairwiseDisjoint, Unsettled, Account

(* A step that moves no record between the sets is a stutter. *)
LEMMA Stutters ==
  ASSUME Unsettled' = Unsettled, Stored' = Stored, lost' = lost, erased' = erased
  PROVE  LedgerStep
<1>1. \A r \in Requests : Account(r)' = Account(r)
  BY DEF Account
<1>2. QED
  BY <1>1 DEF LedgerStep, Accounts

(* Records that were settled by a failure are lost in one move. *)
LEMMA Loses ==
  ASSUME Accounting, Accounting', NEW S \in SUBSET Requests, S \subseteq Unsettled,
         Unsettled' = Unsettled \ S, lost' = lost \cup S,
         Stored' = Stored, erased' = erased
  PROVE  LedgerStep
<1>1. CASE S = {}
  BY <1>1, Stutters
<1>2. CASE S # {}
  <2>1. \A r \in S : Account(r) = "booked"
    BY AccountIsDecided
  <2>2. \A r \in Requests : Account(r)' = IF r \in S THEN "lost" ELSE Account(r)
    <3>1. TAKE r \in Requests
    <3>2. CASE r \in S
      <4>1. r \notin Stored' /\ r \notin erased' /\ r \in lost'
        BY <3>2 DEF Accounting, AccountedOnce, PairwiseDisjoint, Unsettled
      <4>2. QED
        BY <3>2, <4>1 DEF Account
    <3>3. CASE r \notin S
      BY <3>3 DEF Account
    <3>4. QED
      BY <3>2, <3>3
  <2>3. Ledger!Lose(S)
    BY <1>2, <2>1, <2>2 DEF Ledger!Lose, Ledger!Move
  <2>4. QED
    BY <2>3 DEF LedgerStep, Ledger!Next
<1>3. QED
  BY <1>1, <1>2

(* Committed records are stored in one move. *)
LEMMA Stores ==
  ASSUME Accounting, Accounting', NEW S \in SUBSET Requests, S \subseteq Unsettled,
         Unsettled' = Unsettled \ S, Stored' = Stored \cup S,
         lost' = lost, erased' = erased
  PROVE  LedgerStep
<1>1. CASE S = {}
  BY <1>1, Stutters
<1>2. CASE S # {}
  <2>1. \A r \in S : Account(r) = "booked"
    BY AccountIsDecided
  <2>2. \A r \in Requests : Account(r)' = IF r \in S THEN "stored" ELSE Account(r)
    <3>1. TAKE r \in Requests
    <3>2. CASE r \in S
      <4>1. r \in Stored' /\ r \notin erased' /\ r \notin lost' /\ r \notin Unsettled'
        BY <3>2 DEF Accounting, AccountedOnce, PairwiseDisjoint, Unsettled
      <4>2. QED
        BY <3>2, <4>1 DEF Account
    <3>3. CASE r \notin S
      <4>1. /\ r \in Stored' <=> r \in Stored
            /\ r \in erased' <=> r \in erased
            /\ r \in lost' <=> r \in lost
            /\ r \in Unsettled' <=> r \in Unsettled
        BY <3>3
      <4>2. Account(r)' = Account(r)
        BY <4>1 DEF Account
      <4>3. QED
        BY <3>3, <4>2
    <3>4. QED
      BY <3>2, <3>3
  <2>3. Ledger!Store(S)
    BY <1>2, <2>1, <2>2 DEF Ledger!Store, Ledger!Move
  <2>4. QED
    BY <2>3 DEF LedgerStep, Ledger!Next
<1>3. QED
  BY <1>1, <1>2

(* Deleted rows are erased in one move. *)
LEMMA Erases ==
  ASSUME Accounting, Accounting', NEW S \in SUBSET Requests, S \subseteq Stored,
         Stored' = Stored \ S, erased' = erased \cup S,
         lost' = lost, Unsettled' = Unsettled
  PROVE  LedgerStep
<1>1. CASE S = {}
  BY <1>1, Stutters
<1>2. CASE S # {}
  <2>1. \A r \in S : Account(r) = "stored"
    BY AccountIsDecided
  <2>2. \A r \in Requests : Account(r)' = IF r \in S THEN "erased" ELSE Account(r)
    <3>1. TAKE r \in Requests
    <3>2. CASE r \in S
      <4>1. r \notin Stored' /\ r \in erased' /\ r \notin lost' /\ r \notin Unsettled'
        BY <3>2 DEF Accounting, AccountedOnce, PairwiseDisjoint, Unsettled
      <4>2. QED
        BY <3>2, <4>1 DEF Account
    <3>3. CASE r \notin S
      <4>1. /\ r \in Stored' <=> r \in Stored
            /\ r \in erased' <=> r \in erased
            /\ r \in lost' <=> r \in lost
            /\ r \in Unsettled' <=> r \in Unsettled
        BY <3>3
      <4>2. Account(r)' = Account(r)
        BY <4>1 DEF Account
      <4>3. QED
        BY <3>3, <4>2
    <3>4. QED
      BY <3>2, <3>3
  <2>3. Ledger!Erase(S)
    BY <1>2, <2>1, <2>2 DEF Ledger!Erase, Ledger!Move
  <2>4. QED
    BY <2>3 DEF LedgerStep, Ledger!Next
<1>3. QED
  BY <1>1, <1>2

(* A handler's deferred call books its request, if it moved anything. *)
LEMMA Books ==
  ASSUME Accounting, NEW q \in Requests, q \notin Booked,
         Unsettled' = Unsettled \cup {q}, Stored' = Stored,
         lost' = lost, erased' = erased
  PROVE  LedgerStep
<1>1. q \notin Stored \cup erased \cup lost \cup Unsettled
  BY DEF Accounting, NothingVanishes
<1>2. Account(q) = "open"
  BY <1>1, AccountIsDecided
<1>3. \A r \in Requests : Account(r)' = IF r \in {q} THEN "booked" ELSE Account(r)
  <2>1. Account(q)' = "booked"
    BY <1>1 DEF Account
  <2>2. \A r \in Requests \ {q} : Account(r)' = Account(r)
    BY DEF Account
  <2>3. QED
    BY <2>1, <2>2
<1>4. Ledger!Book(q)
  BY <1>2, <1>3 DEF Ledger!Book, Ledger!Move
<1>5. QED
  BY <1>4 DEF LedgerStep, Ledger!Next

------------------------------------------------------------------------------
(* The steps. *)

(* Only the deferred call of a handler touches a record. *)
LEMMA HandlerStep ==
  ASSUME Typing, Accounting, NEW r \in Requests, Handler(r) PROVE LedgerStep
<1> USE DEF memoryVars, flushVars, tableVars, mainVars, handlerVars
<1>1. CASE RecordStats(r) /\ Moved(r)
  <2> DEFINE rec == [req |-> r, in |-> bytesRead[r], out |-> bytesWritten[r]]
  <2>1. rec \in Record /\ rec.req = r /\ pendingRecords \in Seq(Record)
    BY DEF Typing, TypeOK, Record
  <2>2. Pending' = Pending \cup {r}
    <3>1. pendingRecords' = Append(pendingRecords, rec)
      BY <1>1 DEF RecordStats
    <3>2. QED
      BY <2>1, <3>1, AppendReqs DEF Pending
  <2>3. Batched' = Batched /\ Staged' = Staged /\ Stored' = Stored
    BY <1>1 DEF RecordStats, Batched, Staged, Stored
  <2>4. Unsettled' = Unsettled \cup {r}
    BY <2>2, <2>3 DEF Unsettled
  <2>5. r \notin Booked
    BY <1>1 DEF RecordStats, Booked
  <2>6. lost' = lost /\ erased' = erased
    BY <1>1 DEF RecordStats
  <2>7. QED
    BY <2>3, <2>4, <2>5, <2>6, Books
<1>2. CASE ~(RecordStats(r) /\ Moved(r))
  <2>1. UNCHANGED <<pendingRecords, batch, nextRec, txRows, rows, lost, erased>>
    BY <1>2 DEF Handler, Refuse, StartTransfer, WriteChunk, WriteFails, AddTransferProgress,
                EndResponse, RecordStats, FinishTransfer
  <2>2. QED
    BY <2>1, Stutters DEF Unsettled, Pending, Batched, Staged, Stored
<1>3. QED
  BY <1>1, <1>2

(* The flusher moves records towards the table, or loses them. *)
LEMMA FlusherStep ==
  ASSUME Typing, Accounting, Accounting', Flusher PROVE LedgerStep
<1> USE DEF memoryVars, flushVars, tableVars, mainVars, handlerVars
<1>t. /\ pendingRecords \in Seq(Record) /\ batch \in Seq(Record)
      /\ txRows \in Seq(Record) /\ nextRec \in 1 .. Len(batch) + 1
      /\ Len(batch) \in Nat /\ Len(txRows) \in Nat
      /\ lastRowID \in Nat /\ DOMAIN rows \subseteq 1 .. lastRowID
  BY DEF Typing, TypeOK
<1>u. Batched \subseteq Requests /\ Staged \subseteq Requests
  BY <1>t, ReqsAreRequests DEF Batched, Staged
<1>s. FlusherShape
  BY DEF Typing
<1>e. Reqs(<<>>, 1) = {}
  BY EmptyReqs
<1>d. Pending \cap Batched = {} /\ Pending \cap Staged = {} /\ Batched \cap Staged = {}
  BY DEF Accounting, AccountedOnce, PairwiseDisjoint
<1>r. FlushReturns => Batched' = {} /\ Staged' = {}
  BY <1>e DEF FlushReturns, Batched, Staged
<1>1. CASE FlushTake
  <2>1. /\ Batched = {} /\ Pending' = {} /\ Batched' = Pending
        /\ Staged' = Staged /\ Stored' = Stored /\ lost' = lost /\ erased' = erased
    BY <1>1, <1>s, <1>e DEF FlushTake, FlusherShape, Pending, Batched, Staged, Stored
  <2>2. QED
    BY <2>1, Stutters DEF Unsettled
<1>2. CASE FlushBegin
  BY <1>2, Stutters DEF FlushBegin, Unsettled, Pending, Batched, Staged, Stored
<1>3. CASE FlushBeginFails
  <2>1. Staged = {} /\ Batched' = {} /\ Staged' = {}
    BY <1>3, <1>s, <1>e, <1>r DEF FlushBeginFails, FlusherShape, Staged
  <2>2. /\ Pending' = Pending /\ Stored' = Stored
        /\ lost' = lost \cup Batched /\ erased' = erased
    BY <1>3 DEF FlushBeginFails, Pending, Stored
  <2>3. Unsettled' = Unsettled \ Batched /\ Batched \subseteq Unsettled
    BY <1>d, <2>1, <2>2 DEF Unsettled
  <2>4. QED
    BY <1>u, <2>2, <2>3, Loses
<1>4. CASE InsertRow
  <2>1. nextRec \in 1 .. Len(batch)
    BY <1>4, <1>t DEF InsertRow
  <2>2. /\ batch[nextRec] \in Record
        /\ Batched = Reqs(batch, nextRec + 1) \cup {batch[nextRec].req}
    BY <1>t, <2>1, NextReqs DEF Batched
  <2>3. Staged' = Staged \cup {batch[nextRec].req}
    BY <1>4, <1>t, <2>2, AppendReqs DEF InsertRow, Staged
  <2>4. /\ Batched' = Reqs(batch, nextRec + 1) /\ Pending' = Pending
        /\ Stored' = Stored /\ lost' = lost /\ erased' = erased
    BY <1>4 DEF InsertRow, Batched, Pending, Stored
  <2>5. QED
    BY <2>2, <2>3, <2>4, Stutters DEF Unsettled
<1>5. CASE InsertFails
  <2> DEFINE q == batch[nextRec].req
  <2>1. nextRec \in 1 .. Len(batch)
    BY <1>5, <1>t DEF InsertFails
  <2>2. Batched = Reqs(batch, nextRec + 1) \cup {q} /\ q \notin Reqs(batch, nextRec + 1)
    BY <1>t, <2>1, NextReqs DEF Batched, Accounting, AccountedOnce
  <2>3. /\ Batched' = Reqs(batch, nextRec + 1) /\ Pending' = Pending
        /\ Staged' = Staged /\ Stored' = Stored
        /\ lost' = lost \cup {q} /\ erased' = erased
    BY <1>5 DEF InsertFails, Batched, Pending, Staged, Stored
  <2>4. Unsettled' = Unsettled \ {q} /\ {q} \subseteq Unsettled
    BY <1>d, <2>2, <2>3 DEF Unsettled
  <2>5. {q} \in SUBSET Requests
    BY <1>u, <2>2
  <2>6. QED
    BY <2>3, <2>4, <2>5, Loses
<1>6. CASE FlushCommit
  <2> DEFINE new == (lastRowID + 1) .. (lastRowID + Len(txRows))
  <2>1. Batched = {} /\ Batched' = {} /\ Staged' = {}
    BY <1>6, <1>t, <1>r, PastEnd DEF FlushCommit, Batched
  <2>2. rows' = [id \in DOMAIN rows \cup new |->
                   IF id \in new THEN txRows[id - lastRowID] ELSE rows[id]]
    BY <1>6 DEF FlushCommit, NewRowIDs, SequenceValue
  <2>3. \A id \in DOMAIN rows : id \notin new
    BY <1>t
  <2>4. /\ DOMAIN rows' = DOMAIN rows \cup new
        /\ \A id \in DOMAIN rows : rows'[id] = rows[id]
        /\ \A id \in new : rows'[id] = txRows[id - lastRowID]
    BY <2>2, <2>3
  <2>5. /\ \A id \in new : id - lastRowID \in 1 .. Len(txRows)
        /\ \A i \in 1 .. Len(txRows) :
             lastRowID + i \in new /\ (lastRowID + i) - lastRowID = i
    BY <1>t
  <2>6. {rows'[id].req : id \in new} = Staged
    BY <2>4, <2>5 DEF Staged, Reqs
  <2>7. Stored' = Stored \cup Staged
    BY <2>4, <2>6 DEF Stored
  <2>8. Pending' = Pending /\ lost' = lost /\ erased' = erased
    BY <1>6 DEF FlushCommit, Pending
  <2>9. Unsettled' = Unsettled \ Staged /\ Staged \subseteq Unsettled
    BY <1>d, <2>1, <2>8 DEF Unsettled
  <2>10. QED
    BY <1>u, <2>7, <2>8, <2>9, Stores
<1>7. CASE CommitFails
  <2>1. Batched = {} /\ Batched' = {} /\ Staged' = {}
    BY <1>7, <1>t, <1>r, PastEnd DEF CommitFails, Batched
  <2>2. /\ Pending' = Pending /\ Stored' = Stored
        /\ lost' = lost \cup Staged /\ erased' = erased
    BY <1>7 DEF CommitFails, Pending, Stored
  <2>3. Unsettled' = Unsettled \ Staged /\ Staged \subseteq Unsettled
    BY <1>d, <2>1, <2>2 DEF Unsettled
  <2>4. QED
    BY <1>u, <2>2, <2>3, Loses
<1>8. QED
  BY <1>1, <1>2, <1>3, <1>4, <1>5, <1>6, <1>7 DEF Flusher, FlushStep

(* A deletion erases stored records. *)
LEMMA DeleteStep ==
  ASSUME Typing, Accounting, Accounting', DeleteTrafficEntries
  PROVE  LedgerStep
<1> PICK ids \in SUBSET DOMAIN rows : DeleteRows(ids)
  BY DEF DeleteTrafficEntries
<1> DEFINE gone == {rows[id].req : id \in ids}
<1>1. /\ rows' = [id \in DOMAIN rows \ ids |-> rows[id]]
      /\ erased' = erased \cup gone
      /\ UNCHANGED <<pendingRecords, batch, nextRec, txRows, lost>>
  BY DEF DeleteRows, handlerVars, memoryVars, flushVars
<1>2. Unsettled' = Unsettled
  BY <1>1 DEF Unsettled, Pending, Batched, Staged
<1>3. \A i, j \in DOMAIN rows : rows[i].req = rows[j].req => i = j
  BY DEF Accounting, AccountedOnce
<1>4. Stored' = Stored \ gone /\ gone \subseteq Stored
  BY <1>1, <1>3 DEF Stored
<1>5. gone \in SUBSET Requests
  BY DEF Typing, TypeOK, Record
<1>6. QED
  BY <1>1, <1>2, <1>4, <1>5, Erases

(* The end of a process loses what is not settled. *)
LEMMA MainStep ==
  ASSUME Typing, Accounting, Accounting', Main PROVE LedgerStep
<1> USE DEF mainOnly, memoryVars, flushVars, tableVars, mainVars, handlerVars
<1>1. CASE StopTracker \/ CloseDatabase \/ Start
  BY <1>1, Stutters DEF StopTracker, CloseDatabase, Start, Unsettled, Pending,
                        Batched, Staged, Stored
<1>2. CASE ProcessEnds
  <2>1. Pending' = {} /\ Batched' = {} /\ Staged' = {}
    BY <1>2, EmptyReqs DEF ProcessEnds, Pending, Batched, Staged
  <2>2. Stored' = Stored /\ erased' = erased /\ lost' = lost \cup Unsettled
    BY <1>2 DEF ProcessEnds, Stored
  <2>3. Unsettled' = Unsettled \ Unsettled
    BY <2>1 DEF Unsettled
  <2>4. Unsettled \in SUBSET Requests
    <3>1. Pending \subseteq Requests /\ Staged \subseteq Requests
      <4>1. pendingRecords \in Seq(Record) /\ txRows \in Seq(Record) /\ 1 \in Nat \ {0}
        BY DEF Typing, TypeOK
      <4>2. QED
        BY <4>1, ReqsAreRequests DEF Pending, Staged
    <3>2. Batched \subseteq Requests
      <4>1. batch \in Seq(Record) /\ nextRec \in Nat \ {0}
        BY DEF Typing, TypeOK
      <4>2. QED
        BY <4>1, ReqsAreRequests DEF Batched
    <3>3. QED
      BY <3>1, <3>2 DEF Unsettled
  <2>5. QED
    BY <2>2, <2>3, <2>4, Loses
<1>3. QED
  BY <1>1, <1>2 DEF Main, Exit, Crash

(* The tracker, its flusher, the deletions and the shutdown of the process *)
(* together implement the ledger: for any number of requests, failures and *)
(* restarts no record goes back to an earlier stage, is stored twice, is   *)
(* stored after it was dropped, or comes back after its deletion.          *)
THEOREM TrackerImplementsLedger == Spec => ImplementsLedger
<1>1. Init => Ledger!Init
  <2> SUFFICES ASSUME Init PROVE Ledger!Init
    OBVIOUS
  <2>1. Stored = {} /\ erased = {} /\ lost = {} /\ Unsettled = {}
    BY EmptyReqs DEF Init, NoRows, Stored, Unsettled, Pending, Batched, Staged
  <2>2. QED
    BY <2>1 DEF Account, Ledger!Init
<1>2. IInv /\ IInv' /\ [Next]_vars => LedgerStep
  <2> SUFFICES ASSUME IInv, IInv', [Next]_vars PROVE LedgerStep
    OBVIOUS
  <2>1. Typing /\ Accounting /\ Accounting'
    BY DEF IInv, Typing, Accounting
  <2>2. CASE UNCHANGED vars
    BY <2>2, Stutters DEF vars, Unsettled, Pending, Batched, Staged, Stored
  <2>3. CASE Next
    BY <2>1, <2>3, HandlerStep, FlusherStep, DeleteStep, MainStep DEF Next
  <2>4. QED
    BY <2>2, <2>3
<1>3. QED
  BY <1>1, <1>2, Invariance, PTL DEF Spec, ImplementsLedger, Ledger!Spec, LedgerStep, Accounts

------------------------------------------------------------------------------
(* The readers. *)

(* A step of the readers is one of the tracker, or leaves it alone.        *)
LEMMA ReadersTrack == [NextReaders]_allVars => [Next]_vars
<1> SUFFICES ASSUME [NextReaders]_allVars PROVE [Next]_vars
  OBVIOUS
<1>1. CASE SumTable \/ AddLive \/ Respond \/ ListTrafficEntries
  BY <1>1 DEF SumTable, AddLive, Respond, ListTrafficEntries
<1>2. CASE DeleteListed
  BY <1>2 DEF DeleteListed, DeleteTrafficEntries, DeleteRows, Next
<1>3. CASE Track
  BY <1>3 DEF Track, Next
<1>4. CASE UNCHANGED allVars
  BY <1>4 DEF allVars
<1>5. QED
  BY <1>1, <1>2, <1>3, <1>4 DEF NextReaders

LEMMA ReadersInvariance == SpecReaders => []IInv
<1>1. InitReaders => IInv
  BY TypingInit, AccountingInit DEF InitReaders, IInv, Typing, Accounting
<1>2. IInv /\ [NextReaders]_allVars => IInv'
  BY ReadersTrack, InvariantStep
<1>3. QED
  BY <1>1, <1>2, PTL DEF SpecReaders

LEMMA ReadersLive == SpecReaders => []ActiveIsInFlight
<1>1. InitReaders => LiveInv
  BY TypingInit DEF InitReaders, Init, LiveInv, NothingWrittenYet,
                    ActiveIsInFlight, InFlight, Typing
<1>2. LiveInv /\ IInv' /\ [NextReaders]_allVars => LiveInv'
  BY ReadersTrack, LiveStep DEF LiveInv, IInv
<1>3. LiveInv => ActiveIsInFlight
  BY DEF LiveInv
<1>4. QED
  BY <1>1, <1>2, <1>3, ReadersInvariance, PTL DEF SpecReaders

------------------------------------------------------------------------------
(* Rows. *)

(* What a step does to the table: nothing; or the flusher, in its          *)
(* transaction, adds rows with ids never given before; or rows go, and     *)
(* their requests are erased.                                              *)
Commits ==
  /\ flusher = "tx" /\ flusher' # "tx"
  /\ lastRowID' \in Nat /\ lastRowID' >= lastRowID
  /\ UNCHANGED erased
  /\ DOMAIN rows \subseteq DOMAIN rows' /\ DOMAIN rows' \subseteq 1 .. lastRowID'
  /\ \A id \in DOMAIN rows' :
       IF id \in 1 .. lastRowID
         THEN id \in DOMAIN rows /\ rows'[id] = rows[id]
         ELSE rows'[id] \in Record
Deletes ==
  /\ lastRowID' = lastRowID
  /\ DOMAIN rows' \subseteq DOMAIN rows
  /\ \A id \in DOMAIN rows' : rows'[id] = rows[id]
  /\ erased \subseteq erased'
  /\ \A id \in DOMAIN rows \ DOMAIN rows' : rows[id].req \in erased'

LEMMA Deleting ==
  ASSUME NEW ids, DeleteRows(ids) PROVE Deletes
  BY DEF DeleteRows, Deletes

LEMMA Committing == ASSUME IInv, FlushCommit PROVE Commits
<1>1. /\ lastRowID \in Nat /\ Len(txRows) \in Nat
      /\ DOMAIN rows \subseteq 1 .. lastRowID
      /\ txRows \in Seq(Record)
  BY DEF IInv, TypeOK
<1>2. /\ NewRowIDs = (lastRowID + 1) .. (lastRowID + Len(txRows))
      /\ lastRowID' = lastRowID + Len(txRows)
      /\ rows' = [id \in DOMAIN rows \cup NewRowIDs |->
                    IF id \in NewRowIDs THEN txRows[id - lastRowID] ELSE rows[id]]
  BY DEF FlushCommit, NewRowIDs, SequenceValue
<1>3. \A id \in NewRowIDs : id \notin 1 .. lastRowID /\ txRows[id - lastRowID] \in Record
  <2> TAKE id \in NewRowIDs
  <2>1. id - lastRowID \in 1 .. Len(txRows)
    BY <1>1, <1>2
  <2>2. txRows[id - lastRowID] \in Record
    BY <1>1, <2>1
  <2>3. QED
    BY <1>1, <1>2, <2>2
<1>4. DOMAIN rows' = DOMAIN rows \cup NewRowIDs
  BY <1>2
<1>5. DOMAIN rows' \subseteq 1 .. lastRowID'
  BY <1>1, <1>2, <1>4
<1>6. \A id \in DOMAIN rows' :
        IF id \in 1 .. lastRowID
          THEN id \in DOMAIN rows /\ rows'[id] = rows[id]
          ELSE rows'[id] \in Record
  BY <1>1, <1>2, <1>3, <1>4
<1>7. /\ flusher = "tx" /\ flusher' # "tx" /\ UNCHANGED erased
      /\ lastRowID' \in Nat /\ lastRowID' >= lastRowID
  BY <1>1, <1>2 DEF FlushCommit, FlushReturns, InTx
<1>8. QED
  BY <1>4, <1>5, <1>6, <1>7 DEF Commits

LEMMA TableStep ==
  ASSUME IInv, [NextReaders]_allVars
  PROVE  UNCHANGED <<rows, lastRowID, erased>> \/ Commits \/ Deletes
<1> USE DEF memoryVars, flushVars, tableVars, mainVars, handlerVars, mainOnly
<1>1. CASE SumTable \/ AddLive \/ Respond \/ ListTrafficEntries \/ UNCHANGED allVars
  BY <1>1 DEF SumTable, AddLive, Respond, ListTrafficEntries, allVars, vars
<1>2. CASE DeleteListed
  BY <1>2, Deleting DEF DeleteListed
<1>3. ASSUME NEW r \in Requests, Handler(r)
      PROVE  UNCHANGED <<rows, lastRowID, erased>>
  BY <1>3 DEF Handler, Refuse, StartTransfer, WriteChunk, WriteFails, AddTransferProgress,
              EndResponse, RecordStats, FinishTransfer
<1>4. CASE FlushTake \/ FlushBegin \/ FlushBeginFails \/ InsertRow \/ InsertFails \/ CommitFails
  BY <1>4 DEF FlushTake, FlushBegin, FlushBeginFails, InsertRow, InsertFails, CommitFails
<1>5. CASE FlushCommit
  BY <1>5, Committing
<1>6. CASE Main
  BY <1>6 DEF Main, StopTracker, CloseDatabase, Exit, Crash, ProcessEnds, Start
<1>7. QED
  BY <1>1, <1>2, <1>3, <1>4, <1>5, <1>6 DEF NextReaders, Track, Flusher, FlushStep

(* What was stored once is stored or erased for ever. *)
LEMMA StoredStays ==
  ASSUME IInv, [NextReaders]_allVars
  PROVE  Stored \cup erased \subseteq (Stored \cup erased)'
<1>1. CASE UNCHANGED <<rows, lastRowID, erased>>
  BY <1>1 DEF Stored
<1>2. CASE Commits
  <2>1. \A id \in DOMAIN rows : id \in DOMAIN rows' /\ rows'[id] = rows[id]
    BY <1>2 DEF Commits, IInv, TypeOK
  <2>2. QED
    BY <1>2, <2>1 DEF Commits, Stored
<1>3. CASE Deletes
  BY <1>3 DEF Deletes, Stored
<1>4. QED
  BY <1>1, <1>2, <1>3, TableStep

------------------------------------------------------------------------------
(* Pages. *)

PageInv == DOMAIN listed \subseteq 1 .. lastRowID /\ PageNamesItsRows

LEMMA PageStep == IInv /\ PageInv /\ [NextReaders]_allVars => PageInv'
<1> SUFFICES ASSUME IInv, PageInv, [NextReaders]_allVars PROVE PageInv'
  OBVIOUS
<1>t. DOMAIN rows \subseteq 1 .. lastRowID /\ lastRowID \in Nat
  BY DEF IInv, TypeOK
<1>1. CASE ListTrafficEntries
  BY <1>1, <1>t DEF ListTrafficEntries, vars, PageInv, PageNamesItsRows
<1>2. CASE UNCHANGED listed
  <2>1. CASE UNCHANGED <<rows, lastRowID, erased>>
    BY <1>2, <2>1 DEF PageInv, PageNamesItsRows
  <2>2. CASE Commits
    <3>1. DOMAIN listed \subseteq 1 .. lastRowID'
      BY <1>t, <2>2 DEF Commits, PageInv
    <3>2. \A id \in DOMAIN listed \cap DOMAIN rows' : listed[id] = rows'[id]
      BY <2>2 DEF Commits, PageInv, PageNamesItsRows
    <3>3. QED
      BY <1>2, <3>1, <3>2 DEF PageInv, PageNamesItsRows
  <2>3. CASE Deletes
    BY <1>2, <2>3 DEF Deletes, PageInv, PageNamesItsRows
  <2>4. QED
    BY <2>1, <2>2, <2>3, TableStep
<1>3. QED
  BY <1>1, <1>2 DEF NextReaders, SumTable, AddLive, Respond, DeleteListed, Track,
                    allVars, readerVars

(* However long a list stays open in the browser, over flushes, deletions, *)
(* failed transactions and restarts, its ids name the rows it showed.      *)
THEOREM PagesKeepTheirRows == SpecReaders => []PageNamesItsRows
<1>1. InitReaders => PageInv
  BY DEF InitReaders, Init, NoRows, PageInv, PageNamesItsRows
<1>2. PageInv => PageNamesItsRows
  BY DEF PageInv
<1>3. QED
  BY <1>1, <1>2, PageStep, ReadersInvariance, PTL DEF SpecReaders

------------------------------------------------------------------------------
(* Summaries. *)

(* Between its statement and its critical section a summary has counted    *)
(* once what was stored, and stored it was; and in calm, what is stored.   *)
SummaryInv ==
  /\ summary \in {"idle", "summed", "answered"}
  /\ counted \in [Requests -> 0 .. 2]
  /\ summary = "idle" => \A r \in Requests : counted[r] = 0
  /\ summary = "summed" => \A r \in Requests :
       counted[r] = 0 \/ (counted[r] = 1 /\ r \in Stored \cup erased)
  /\ calm /\ summary = "summed" =>
       flusher \in {"waiting", "returned"} /\ counted = Tally(Stored)

LEMMA Tallies ==
  ASSUME NEW S
  PROVE  /\ Tally(S) \in [Requests -> {0, 1}]
         /\ \A r \in Requests : Tally(S)[r] = IF r \in S THEN 1 ELSE 0
  BY DEF Tally

(* Adding the live records counts nothing that is stored as pending too.   *)
LEMMA AddingLive ==
  ASSUME IInv, SummaryInv, AddLive
  PROVE  /\ summary' = "answered" /\ counted' \in [Requests -> 0 .. 2]
         /\ \A r \in Requests : counted'[r] =
              counted[r] + Tally(Pending)[r] + Tally(DOMAIN activeTransfers)[r]
<1>1. /\ summary = "summed" /\ summary' = "answered"
      /\ counted' = [r \in Requests |->
           counted[r] + Tally(Pending)[r] + Tally(DOMAIN activeTransfers)[r]]
  BY DEF AddLive
<1>2. \A r \in Requests :
        counted[r] + Tally(Pending)[r] + Tally(DOMAIN activeTransfers)[r] \in 0 .. 2
  <2> TAKE r \in Requests
  <2>1. CASE counted[r] = 0
    <3>1. Tally(Pending)[r] \in {0, 1} /\ Tally(DOMAIN activeTransfers)[r] \in {0, 1}
      BY Tallies
    <3>2. QED
      BY <2>1, <3>1
  <2>2. CASE counted[r] = 1 /\ r \in Stored \cup erased
    <3>1. r \notin Pending
      BY <2>2 DEF IInv, AccountedOnce, PairwiseDisjoint
    <3>2. Tally(Pending)[r] = 0 /\ Tally(DOMAIN activeTransfers)[r] \in {0, 1}
      BY <3>1, Tallies
    <3>3. QED
      BY <2>2, <3>2
  <2>3. QED
    BY <1>1, <2>1, <2>2 DEF SummaryInv
<1>3. QED
  BY <1>1, <1>2

(* A step of the tracker that leaves the flusher waiting, or returned,     *)
(* leaves the table alone.                                                 *)
LEMMA CalmTrack ==
  ASSUME Track, flusher \in {"waiting", "returned"}, flusher' = flusher
  PROVE  UNCHANGED rows
<1> USE DEF memoryVars, flushVars, tableVars, mainVars, handlerVars, mainOnly
<1>1. ASSUME NEW r \in Requests, Handler(r)
      PROVE  UNCHANGED rows
  BY <1>1 DEF Handler, Refuse, StartTransfer, WriteChunk, WriteFails, AddTransferProgress,
              EndResponse, RecordStats, FinishTransfer
<1>2. CASE Flusher
  BY <1>2 DEF Flusher, FlushStep, FlushTake, FlushBegin, FlushBeginFails, InsertRow,
              InsertFails, FlushCommit, CommitFails, InTx
<1>3. CASE Main
  BY <1>3 DEF Main, StopTracker, CloseDatabase, Exit, Crash, ProcessEnds, Start
<1>4. QED
  BY <1>1, <1>2, <1>3 DEF Track

LEMMA SummaryStep == IInv /\ SummaryInv /\ [NextReaders]_allVars => SummaryInv'
<1> SUFFICES ASSUME IInv, SummaryInv, [NextReaders]_allVars PROVE SummaryInv'
  OBVIOUS
<1>1. CASE SumTable
  <2>1. /\ summary' = "summed" /\ counted' = Tally(Stored)
        /\ calm' = (flusher \in {"waiting", "returned"})
        /\ UNCHANGED <<rows, erased, flusher>>
    BY <1>1 DEF SumTable, vars
  <2>2. Stored' = Stored
    BY <2>1 DEF Stored
  <2>3. /\ counted' \in [Requests -> {0, 1}]
        /\ \A r \in Requests : counted'[r] = IF r \in Stored THEN 1 ELSE 0
    BY <2>1, Tallies
  <2>4. counted' = Tally(Stored)'
    BY <2>1, <2>2 DEF Tally
  <2>5. counted' \in [Requests -> 0 .. 2]
    BY <2>3
  <2>6. \A r \in Requests :
          counted'[r] = 0 \/ (counted'[r] = 1 /\ r \in Stored' \cup erased')
    BY <2>2, <2>3
  <2>7. calm' => flusher' \in {"waiting", "returned"}
    BY <2>1
  <2>8. QED
    BY <2>1, <2>4, <2>5, <2>6, <2>7 DEF SummaryInv
<1>2. CASE AddLive
  BY <1>2, AddingLive DEF SummaryInv
<1>3. CASE summary' = "idle" /\ counted' = Tally({})
  BY <1>3, Tallies DEF SummaryInv
<1>4. CASE UNCHANGED <<summary, counted>> /\ ~calm'
  BY <1>4, StoredStays DEF SummaryInv
<1>5. CASE UNCHANGED <<summary, counted, calm, rows, flusher>>
  <2>1. Stored' = Stored
    BY <1>5 DEF Stored
  <2>2. Tally(Stored)' = Tally(Stored)
    BY <2>1 DEF Tally
  <2>3. QED
    BY <1>5, <2>2, StoredStays DEF SummaryInv
<1>6. CASE Track
  <2>1. CASE server' = "down"
    BY <1>3, <1>6, <2>1 DEF Track
  <2>2. CASE server' # "down" /\ ~(calm /\ flusher' = flusher)
    BY <1>4, <1>6, <2>2 DEF Track
  <2>3. CASE server' # "down" /\ calm /\ flusher' = flusher
    <3>1. UNCHANGED <<summary, counted>> /\ calm' = calm
      BY <1>6, <2>3 DEF Track
    <3>2. CASE summary = "summed"
      BY <1>5, <1>6, <2>3, <3>1, <3>2, CalmTrack DEF SummaryInv
    <3>3. CASE summary # "summed"
      BY <3>1, <3>3 DEF SummaryInv
    <3>4. QED
      BY <3>2, <3>3
  <2>4. QED
    BY <2>1, <2>2, <2>3
<1>7. QED
  BY <1>1, <1>2, <1>3, <1>4, <1>5, <1>6
     DEF NextReaders, Respond, ListTrafficEntries, DeleteListed, allVars, vars, readerVars

LEMMA SummaryInvariance == SpecReaders => []SummaryInv
<1>1. InitReaders => SummaryInv
  BY DEF InitReaders, SummaryInv
<1>2. QED
  BY <1>1, SummaryStep, ReadersInvariance, PTL DEF SpecReaders

(* However the handlers and the flusher move a record between the two      *)
(* halves of a summary, and whatever is deleted, it counts no request more *)
(* than twice.                                                             *)
THEOREM NoTripleCounting == SpecReaders => []CountedAtMostTwice
<1>1. SummaryInv => CountedAtMostTwice
  <2> SUFFICES ASSUME SummaryInv, NEW r \in Requests PROVE counted[r] <= 2
    BY DEF CountedAtMostTwice
  <2>1. counted[r] \in 0 .. 2
    BY DEF SummaryInv
  <2>2. QED
    BY <2>1
<1>2. QED
  BY <1>1, SummaryInvariance, PTL

(* A summary whose two halves no flush and no deletion comes between       *)
(* counts every transfer in flight and every record that is left once.     *)
THEOREM CalmSummariesAreExact == SpecReaders => CalmSummaryIsExact
<1> DEFINE Exactly ==
      AddLive /\ calm =>
        \A r \in Requests :
          pc[r] # "finishing" =>
            counted'[r] = Tally(InFlight \cup (Booked \ (erased \cup lost)))[r]
<1>1. IInv /\ ActiveIsInFlight /\ SummaryInv => Exactly
  <2> SUFFICES ASSUME IInv, ActiveIsInFlight, SummaryInv, AddLive, calm,
                      NEW r \in Requests, pc[r] # "finishing"
               PROVE  counted'[r] = Tally(InFlight \cup (Booked \ (erased \cup lost)))[r]
    OBVIOUS
  <2>1. /\ flusher \in {"waiting", "returned"}
        /\ counted[r] = IF r \in Stored THEN 1 ELSE 0
    BY Tallies DEF SummaryInv, AddLive
  <2>2. Batched = {} /\ Staged = {}
    BY <2>1, EmptyReqs DEF IInv, FlusherShape, Batched, Staged
  <2>3. r \in Booked <=> r \in Pending \/ r \in Stored \/ r \in erased \/ r \in lost
    BY <2>2 DEF IInv, NothingVanishes, Unsettled
  <2>4. /\ ~(r \in Pending /\ r \in Stored) /\ ~(r \in Pending /\ r \in erased)
        /\ ~(r \in Pending /\ r \in lost) /\ ~(r \in Stored /\ r \in erased)
        /\ ~(r \in Stored /\ r \in lost)
    BY DEF IInv, AccountedOnce, PairwiseDisjoint
  <2>5. ~(r \in InFlight /\ r \in Booked)
    BY DEF InFlight, Booked
  <2>6. counted'[r] = (IF r \in Stored THEN 1 ELSE 0) + (IF r \in Pending THEN 1 ELSE 0)
                      + (IF r \in InFlight THEN 1 ELSE 0)
    BY <2>1, AddingLive, Tallies DEF ActiveIsInFlight
  <2>7. Tally(InFlight \cup (Booked \ (erased \cup lost)))[r]
          = IF r \in InFlight \/ (r \in Booked /\ r \notin erased /\ r \notin lost)
              THEN 1 ELSE 0
    BY Tallies
  <2>8. QED
    BY <2>3, <2>4, <2>5, <2>6, <2>7
<1>2. QED
  BY <1>1, ReadersInvariance, ReadersLive, SummaryInvariance, PTL DEF CalmSummaryIsExact

==============================================================================
