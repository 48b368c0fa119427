---------------------------- MODULE StatsTracker -----------------------------
(***************************************************************************)
(* The life of a traffic record: from the handler of a proxied request     *)
(* (internal/proxy ServeHTTP) through the tracker's memory                 *)
(* (internal/stats Tracker) and the flusher's transaction to a row of      *)
(* traffic_stats, with the process stopping, crashing and starting again.  *)
(*                                                                         *)
(* Each handler, the flusher and main are separate goroutines: one action  *)
(* is what one of them does between two points where another can be seen   *)
(* (a critical section of Tracker.mu, a statement of the database, a step  *)
(* of main).  Bytes are counted in chunks; a record is its request and the *)
(* two counters, the names it also carries are left out.                   *)
(***************************************************************************)
EXTENDS Integers, Sequences

CONSTANTS
  Requests,    \* proxied requests, one ServeHTTP call each
  MaxChunks,   \* bound: chunks of a response body
  MaxMishaps,  \* bound: failed statements plus crashes
  MaxLives     \* bound: times the process is started

ASSUME BoundsAssumption ==
  /\ MaxChunks \in Nat
  /\ MaxMishaps \in Nat
  /\ MaxLives \in Nat \ {0}

VARIABLES
  pc,               \* where each handler is
  bytesRead,        \* its local byte counters
  bytesWritten,
  sent,             \* history: what its client was sent, in halves of a chunk
  activeTransfers,  \* Tracker.activeTransfers: request -> its counters
  pendingRecords,   \* Tracker.pendingRecords
  flusher,          \* where the flusher goroutine is
  lastFlush,        \* it is in the flush that precedes its return
  batch,            \* the local variable records of flush
  nextRec,          \* index of the batch's record to insert next
  txRows,           \* records inserted by the open transaction, in id order
  rows,             \* the committed table traffic_stats: id -> record
  lastRowID,        \* AUTOINCREMENT's committed sequence value
  server,           \* where main is
  mishaps, lives,   \* bounded counters
  lost, erased      \* history: requests whose record was dropped, or deleted

handlerVars == <<pc, bytesRead, bytesWritten, sent>>
memoryVars  == <<activeTransfers, pendingRecords>>
flushVars   == <<flusher, lastFlush, batch, nextRec, txRows>>
tableVars   == <<rows, lastRowID>>
mainVars    == <<server, lives>>
vars == <<pc, bytesRead, bytesWritten, sent, activeTransfers,
          pendingRecords, flusher, lastFlush, batch, nextRec, txRows, rows,
          lastRowID, server, mishaps, lives, lost, erased>>

Record == [req : Requests, in : Nat, out : Nat]
NoRows == [id \in {} |-> id]

Alive == server # "down"
InTx  == flusher = "tx"        \* the transaction holds the only connection

(* The requests with a record in each of the places a record can be. *)
Reqs(s, from) == {s[i].req : i \in from .. Len(s)}
Pending   == Reqs(pendingRecords, 1)
Batched   == Reqs(batch, nextRec)
Staged    == Reqs(txRows, 1)
Stored    == {rows[id].req : id \in DOMAIN rows}
Unsettled == Pending \cup Batched \cup Staged

Init ==
  /\ pc = [r \in Requests |-> "arrived"]
  /\ bytesRead = [r \in Requests |-> 0]
  /\ bytesWritten = [r \in Requests |-> 0]
  /\ sent = [r \in Requests |-> 0]
  /\ activeTransfers = [r \in {} |-> r]
  /\ pendingRecords = <<>>
  /\ flusher = "waiting" /\ lastFlush = FALSE
  /\ batch = <<>> /\ nextRec = 1 /\ txRows = <<>>
  /\ rows = NoRows /\ lastRowID = 0
  /\ server = "serving" /\ mishaps = 0 /\ lives = 1
  /\ lost = {} /\ erased = {}

------------------------------------------------------------------------------
(* Handlers. *)

(* Every return before the backend answered: nothing is recorded. *)
Refuse(r) ==
  /\ Alive /\ pc[r] = "arrived"
  /\ pc' = [pc EXCEPT ![r] = "refused"]
  /\ UNCHANGED <<bytesRead, bytesWritten, sent, memoryVars, flushVars, tableVars,
                 mainVars, mishaps, lost, erased>>

(* RoundTrip succeeded: shouldRecord is set and the transfer is live. *)
StartTransfer(r) ==
  /\ Alive /\ pc[r] = "arrived"
  /\ \E n \in {0, 1} :
       /\ bytesRead' = [bytesRead EXCEPT ![r] = n]
       /\ activeTransfers' =
            [q \in DOMAIN activeTransfers \cup {r} |->
               IF q = r THEN [in |-> n, out |-> 0] ELSE activeTransfers[q]]
  /\ pc' = [pc EXCEPT ![r] = "streaming"]
  /\ UNCHANGED <<bytesWritten, sent, pendingRecords, flushVars, tableVars,
                 mainVars, mishaps, lost, erased>>

(* One successful Write: a chunk of the stream, or a whole rewritten body. *)
WriteChunk(r) ==
  /\ Alive /\ pc[r] = "streaming" /\ bytesWritten[r] < MaxChunks
  /\ bytesWritten' = [bytesWritten EXCEPT ![r] = @ + 1]
  /\ sent' = [sent EXCEPT ![r] = @ + 2]
  /\ pc' = [pc EXCEPT ![r] = "wrote"]
  /\ UNCHANGED <<bytesRead, memoryVars, flushVars, tableVars, mainVars,
                 mishaps, lost, erased>>

(* A Write that failed with a part of its bytes sent: the handler returns  *)
(* before it counts them.                                                  *)
WriteFails(r) ==
  /\ Alive /\ pc[r] = "streaming"
  /\ sent' = [sent EXCEPT ![r] = @ + 1]
  /\ pc' = [pc EXCEPT ![r] = "recording"]
  /\ UNCHANGED <<bytesRead, bytesWritten, memoryVars, flushVars, tableVars,
                 mainVars, mishaps, lost, erased>>

AddTransferProgress(r) ==
  /\ Alive /\ pc[r] = "wrote"
  /\ activeTransfers' =
       IF r \in DOMAIN activeTransfers
         THEN [activeTransfers EXCEPT ![r].out = @ + 1]
         ELSE activeTransfers
  /\ pc' = [pc EXCEPT ![r] = "streaming"]
  /\ UNCHANGED <<bytesRead, bytesWritten, sent, pendingRecords, flushVars,
                 tableVars, mainVars, mishaps, lost, erased>>

(* Mutant: a return that is not covered by the deferred function. *)
EndResponseSkipsDefer(r) ==
  /\ Alive /\ pc[r] = "streaming"
  /\ pc' = [pc EXCEPT ![r] = "done"]
  /\ UNCHANGED <<bytesRead, bytesWritten, sent, memoryVars, flushVars, tableVars,
                 mainVars, mishaps, lost, erased>>

(* End of body, read error, a Write that sent nothing, cancelled limiter   *)
(* wait: each is a return that runs the deferred function.                 *)
EndResponse(r) ==
  /\ Alive /\ pc[r] = "streaming"
  /\ pc' = [pc EXCEPT ![r] = "recording"]
  /\ UNCHANGED <<bytesRead, bytesWritten, sent, memoryVars, flushVars, tableVars,
                 mainVars, mishaps, lost, erased>>

Moved(r) == bytesRead[r] # 0 \/ bytesWritten[r] # 0

(* Mutant: defer p.recordStats(...) evaluates its arguments too early. *)
RecordStatsEarlyArguments(r) ==
  /\ Alive /\ pc[r] = "recording"
  /\ pendingRecords' = IF bytesRead[r] = 0 THEN pendingRecords
       ELSE Append(pendingRecords, [req |-> r, in |-> bytesRead[r], out |-> 0])
  /\ pc' = [pc EXCEPT ![r] = "finishing"]
  /\ UNCHANGED <<bytesRead, bytesWritten, sent, activeTransfers, flushVars,
                 tableVars, mainVars, mishaps, lost, erased>>

(* Mutant: the list is replaced where it should grow. *)
RecordStatsOverwrites(r) ==
  /\ Alive /\ pc[r] = "recording"
  /\ pendingRecords' = IF Moved(r)
       THEN <<[req |-> r, in |-> bytesRead[r], out |-> bytesWritten[r]]>>
       ELSE pendingRecords
  /\ pc' = [pc EXCEPT ![r] = "finishing"]
  /\ UNCHANGED <<bytesRead, bytesWritten, sent, activeTransfers, flushVars,
                 tableVars, mainVars, mishaps, lost, erased>>

RecordStats(r) ==
  /\ Alive /\ pc[r] = "recording"
  /\ pendingRecords' =
       IF Moved(r)
         THEN Append(pendingRecords,
                [req |-> r, in |-> bytesRead[r], out |-> bytesWritten[r]])
         ELSE pendingRecords
  /\ pc' = [pc EXCEPT ![r] = "finishing"]
  /\ UNCHANGED <<bytesRead, bytesWritten, sent, activeTransfers, flushVars,
                 tableVars, mainVars, mishaps, lost, erased>>

FinishTransfer(r) ==
  /\ Alive /\ pc[r] = "finishing"
  /\ activeTransfers' =
       [q \in DOMAIN activeTransfers \ {r} |-> activeTransfers[q]]
  /\ pc' = [pc EXCEPT ![r] = "done"]
  /\ UNCHANGED <<bytesRead, bytesWritten, sent, pendingRecords, flushVars,
                 tableVars, mainVars, mishaps, lost, erased>>

------------------------------------------------------------------------------
(* The flusher goroutine.  An error of the database is a mishap; errors    *)
(* of Exec and Commit are not looked at, the others return at once.        *)

(* Mutant: the swap forgets to empty the pending list. *)
FlushTakeKeepsPending ==
  /\ Alive /\ flusher = "waiting" /\ pendingRecords # <<>>
  /\ flusher' = "taken" /\ batch' = pendingRecords
  /\ UNCHANGED <<handlerVars, memoryVars, lastFlush, nextRec, txRows,
                 tableVars, mainVars, mishaps, lost, erased>>

(* The ticker fired, or stopCh is closed; flush swaps the pending list.    *)
(* A tick with nothing pending changes nothing and is left out.            *)
FlushTake ==
  /\ Alive /\ flusher = "waiting"
  /\ \E stop \in BOOLEAN :
       /\ stop => server \in {"stopped", "closed"}
       /\ stop \/ pendingRecords # <<>>
       /\ lastFlush' = stop
       /\ flusher' = IF pendingRecords = <<>> THEN "returned" ELSE "taken"
  /\ batch' = pendingRecords
  /\ pendingRecords' = <<>>
  /\ UNCHANGED <<handlerVars, activeTransfers, nextRec, txRows, tableVars,
                 mainVars, mishaps, lost, erased>>

(* Mutant: a failed flush ends the loop. *)
FlushReturnsForGood ==
  /\ flusher' = "returned"
  /\ batch' = <<>> /\ nextRec' = 1 /\ txRows' = <<>>

(* Mutant: the next batch starts where the last one ended. *)
FlushReturnsKeepsIndex ==
  /\ flusher' = IF lastFlush THEN "returned" ELSE "waiting"
  /\ batch' = <<>> /\ nextRec' = nextRec /\ txRows' = <<>>

(* flush returns: to the loop, or out of the goroutine. *)
FlushReturns ==
  /\ flusher' = IF lastFlush THEN "returned" ELSE "waiting"
  /\ batch' = <<>> /\ nextRec' = 1 /\ txRows' = <<>>

(* Begin and Prepare; the pool's one connection is held from here. *)
FlushBegin ==
  /\ Alive /\ flusher = "taken" /\ server # "closed"
  /\ flusher' = "tx"
  /\ UNCHANGED <<handlerVars, memoryVars, lastFlush, batch, nextRec, txRows,
                 tableVars, mainVars, mishaps, lost, erased>>

(* Mutant: a stopping tracker does not bother to write. *)
FlushBeginFailsOnStop ==
  /\ Alive /\ flusher = "taken" /\ server \in {"stopped", "closed"}
  /\ lost' = lost \cup Batched
  /\ FlushReturns
  /\ UNCHANGED <<handlerVars, memoryVars, lastFlush, tableVars, mainVars,
                 mishaps, erased>>

(* Begin or Prepare failed, always so on a closed database. *)
FlushBeginFails ==
  /\ Alive /\ flusher = "taken"
  /\ \/ server = "closed" /\ mishaps' = mishaps
     \/ mishaps < MaxMishaps /\ mishaps' = mishaps + 1
  /\ lost' = lost \cup Batched
  /\ FlushReturns
  /\ UNCHANGED <<handlerVars, memoryVars, lastFlush, tableVars, mainVars,
                 erased>>

InsertRow ==
  /\ Alive /\ InTx /\ nextRec <= Len(batch)
  /\ txRows' = Append(txRows, batch[nextRec])
  /\ nextRec' = nextRec + 1
  /\ UNCHANGED <<handlerVars, memoryVars, flusher, lastFlush, batch,
                 tableVars, mainVars, mishaps, lost, erased>>

InsertFails ==
  /\ Alive /\ InTx /\ nextRec <= Len(batch) /\ mishaps < MaxMishaps
  /\ mishaps' = mishaps + 1
  /\ lost' = lost \cup {batch[nextRec].req}
  /\ nextRec' = nextRec + 1
  /\ UNCHANGED <<handlerVars, memoryVars, flusher, lastFlush, batch, txRows,
                 tableVars, mainVars, erased>>

(* Mutant: a plain INTEGER PRIMARY KEY continues from the largest id left. *)
HighestLeft ==
  IF rows = NoRows THEN 0
  ELSE CHOOSE id \in DOMAIN rows : \A other \in DOMAIN rows : other <= id

(* AUTOINCREMENT continues from the largest id ever committed. *)
SequenceValue == lastRowID
NewRowIDs == (SequenceValue + 1) .. (SequenceValue + Len(txRows))

FlushCommit ==
  /\ Alive /\ InTx /\ nextRec > Len(batch)
  /\ rows' = [id \in DOMAIN rows \cup NewRowIDs |->
                IF id \in NewRowIDs THEN txRows[id - SequenceValue] ELSE rows[id]]
  /\ lastRowID' = SequenceValue + Len(txRows)
  /\ FlushReturns
  /\ UNCHANGED <<handlerVars, memoryVars, lastFlush, mainVars, mishaps,
                 lost, erased>>

CommitFails ==
  /\ Alive /\ InTx /\ nextRec > Len(batch) /\ mishaps < MaxMishaps
  /\ mishaps' = mishaps + 1
  /\ lost' = lost \cup Staged
  /\ FlushReturns
  /\ UNCHANGED <<handlerVars, memoryVars, lastFlush, tableVars, mainVars,
                 erased>>

------------------------------------------------------------------------------
(* The administrator's deletions: one entry, a list of ids, a filter, the  *)
(* rows older than a date, or everything.  Each is one statement, which    *)
(* waits for the connection and fails once the database is closed.         *)
DeleteRows(ids) ==
  /\ server \in {"serving", "stopped"} /\ ~InTx
  /\ ids # {} /\ ids \subseteq DOMAIN rows
  /\ rows' = [id \in DOMAIN rows \ ids |-> rows[id]]
  /\ erased' = erased \cup {rows[id].req : id \in ids}
  /\ UNCHANGED <<handlerVars, memoryVars, flushVars, lastRowID, mainVars,
                 mishaps, lost>>

DeleteTrafficEntries == \E ids \in SUBSET DOMAIN rows : DeleteRows(ids)

------------------------------------------------------------------------------
(* main: ListenAndServe returns after server.Close (a signal, or a restart *)
(* asked from the panel), then the deferred calls run, then the process    *)
(* ends.  server.Close does not wait for the handlers, Stop does not wait  *)
(* for the flusher, and Close does not wait for an open transaction.       *)
mainOnly == <<handlerVars, memoryVars, flushVars, tableVars, lives, mishaps,
              lost, erased>>

StopTracker   == server = "serving" /\ server' = "stopped" /\ UNCHANGED mainOnly
CloseDatabase == server = "stopped" /\ server' = "closed" /\ UNCHANGED mainOnly

(* The memory of the process goes, and with it what was not committed. *)
ProcessEnds ==
  /\ server' = "down"
  /\ pc' = [r \in Requests |->
              CASE pc[r] \in {"streaming", "wrote", "recording"} -> "cut"
                [] pc[r] = "finishing" -> "done"
                [] OTHER -> pc[r]]
  /\ activeTransfers' = [r \in {} |-> r] /\ pendingRecords' = <<>>
  /\ flusher' = "returned" /\ lastFlush' = FALSE
  /\ batch' = <<>> /\ nextRec' = 1 /\ txRows' = <<>>
  /\ lost' = lost \cup Unsettled
  /\ UNCHANGED <<bytesRead, bytesWritten, sent, tableVars, lives, erased>>

Exit  == server = "closed" /\ ProcessEnds /\ UNCHANGED mishaps
Crash == Alive /\ mishaps < MaxMishaps /\ mishaps' = mishaps + 1 /\ ProcessEnds

(* A new process over the same database: NewTracker starts its flusher. *)
Start ==
  /\ server = "down" /\ lives < MaxLives
  /\ server' = "serving" /\ lives' = lives + 1
  /\ flusher' = "waiting"
  /\ UNCHANGED <<handlerVars, memoryVars, lastFlush, batch, nextRec, txRows,
                 tableVars, mishaps, lost, erased>>

------------------------------------------------------------------------------
Handler(r) ==
  \/ Refuse(r) \/ StartTransfer(r) \/ WriteChunk(r) \/ WriteFails(r)
  \/ AddTransferProgress(r) \/ EndResponse(r) \/ RecordStats(r) \/ FinishTransfer(r)

FlushStep ==
  \/ FlushBegin \/ FlushBeginFails \/ InsertRow \/ InsertFails
  \/ FlushCommit \/ CommitFails

Flusher == FlushTake \/ FlushStep

Main == StopTracker \/ CloseDatabase \/ Exit \/ Crash \/ Start

Next == (\E r \in Requests : Handler(r)) \/ Flusher \/ DeleteTrafficEntries \/ Main

(* The ticker of a running flusher fires and its flush returns; main runs  *)
(* its deferred calls to the end.  Backends, clients and administrators    *)
(* owe nothing.                                                            *)
Fairness ==
  /\ WF_vars(FlushTake) /\ WF_vars(FlushStep)
  /\ WF_vars(CloseDatabase) /\ WF_vars(Exit)

Spec == Init /\ [][Next]_vars /\ Fairness

------------------------------------------------------------------------------
(* Properties. *)

(* Every variable keeps its type. *)
TypeOK ==
  /\ pc \in [Requests -> {"arrived", "refused", "streaming", "wrote",
                          "recording", "finishing", "done", "cut"}]
  /\ bytesRead \in [Requests -> Nat] /\ bytesWritten \in [Requests -> Nat]
  /\ sent \in [Requests -> Nat]
  /\ DOMAIN activeTransfers \subseteq Requests
  /\ \A r \in DOMAIN activeTransfers : activeTransfers[r] \in [in : Nat, out : Nat]
  /\ pendingRecords \in Seq(Record)
  /\ flusher \in {"waiting", "taken", "tx", "returned"}
  /\ lastFlush \in BOOLEAN
  /\ batch \in Seq(Record) /\ nextRec \in 1 .. Len(batch) + 1
  /\ txRows \in Seq(Record)
  /\ lastRowID \in Nat
  /\ DOMAIN rows \subseteq 1 .. lastRowID
  /\ \A id \in DOMAIN rows : rows[id] \in Record
  /\ server \in {"serving", "stopped", "closed", "down"}
  /\ mishaps \in 0 .. MaxMishaps /\ lives \in 1 .. MaxLives
  /\ lost \subseteq Requests /\ erased \subseteq Requests

(* A request is accounted for once: no two records of it exist anywhere in *)
(* the pending list, the flusher's batch, its transaction and the table,   *)
(* and none that was deleted or dropped comes back.                        *)
Distinct(s, from) ==
  \A i, j \in from .. Len(s) : s[i].req = s[j].req => i = j
PairwiseDisjoint(A, B, C, D, E, F) ==
  /\ A \cap B = {} /\ A \cap C = {} /\ A \cap D = {} /\ A \cap E = {} /\ A \cap F = {}
  /\ B \cap C = {} /\ B \cap D = {} /\ B \cap E = {} /\ B \cap F = {}
  /\ C \cap D = {} /\ C \cap E = {} /\ C \cap F = {}
  /\ D \cap E = {} /\ D \cap F = {} /\ E \cap F = {}
AccountedOnce ==
  /\ Distinct(pendingRecords, 1) /\ Distinct(batch, nextRec) /\ Distinct(txRows, 1)
  /\ \A i, j \in DOMAIN rows : rows[i].req = rows[j].req => i = j
  /\ PairwiseDisjoint(Pending, Batched, Staged, Stored, lost, erased)

(* The requests whose handler booked its bytes: Record was called for them *)
(* and did not return at its 0/0 test.                                     *)
Booked == {r \in Requests : pc[r] \in {"finishing", "done"} /\ Moved(r)}

(* Nothing vanishes: what a handler booked is waiting, stored, deleted by  *)
(* an administrator, or was dropped where the code is known to drop it.    *)
NothingVanishes == Booked = Unsettled \cup Stored \cup erased \cup lost

(* A record is dropped only after a failed statement or a crash, or at the *)
(* end of a process: a serving portal with a healthy database drops none.  *)
LossHasACause ==
  lost # {} => mishaps > 0 \/ lives > 1 \/ server \in {"closed", "down"}

(* A record carries what its request moved, wherever it is, to the last    *)
(* full chunk the client was sent: the counters are read by the deferred   *)
(* call after their last change.  The part of its bytes that a failed      *)
(* Write did send is the one thing it leaves out.                          *)
RecordsAreExact ==
  LET Exact(rec) == rec.in = bytesRead[rec.req] /\ rec.out = sent[rec.req] \div 2
  IN  /\ \A i \in DOMAIN pendingRecords : Exact(pendingRecords[i])
      /\ \A i \in DOMAIN batch : Exact(batch[i])
      /\ \A i \in DOMAIN txRows : Exact(txRows[i])
      /\ \A id \in DOMAIN rows : Exact(rows[id])

(* The live table shows the transfers in flight, all of them and no other, *)
(* and trails a handler's own counter by at most the chunk it just wrote:  *)
(* no exit of ServeHTTP leaks an entry.                                    *)
InFlight == {r \in Requests : pc[r] \in {"streaming", "wrote", "recording", "finishing"}}
ActiveIsInFlight ==
  /\ DOMAIN activeTransfers = InFlight
  /\ \A r \in InFlight :
       /\ activeTransfers[r].in = bytesRead[r]
       /\ activeTransfers[r].out = bytesWritten[r] - (IF pc[r] = "wrote" THEN 1 ELSE 0)

(* The abstract ledger, and where each request stands in it. *)
Account(r) ==
  CASE r \in Stored    -> "stored"
    [] r \in erased    -> "erased"
    [] r \in lost      -> "lost"
    [] r \in Unsettled -> "booked"
    [] OTHER           -> "open"

Ledger == INSTANCE TrafficLedger WITH account <- [r \in Requests |-> Account(r)]

(* The tracker implements the ledger: no record goes back to an earlier    *)
(* stage, is stored twice or survives its deletion.                        *)
ImplementsLedger == Ledger!Spec

(* A booked record does not wait for ever: it reaches the table or is      *)
(* known to be dropped, even when the process is shutting down.            *)
BookedSettles == Ledger!BookedSettles

(* What main's comment calls a graceful shutdown: with no failed statement *)
(* and no crash, stopping the process loses no record.                     *)
GracefulShutdownKeepsRecords == mishaps = 0 => lost = {}

==============================================================================
