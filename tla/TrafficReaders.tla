--------------------------- MODULE TrafficReaders ----------------------------
(***************************************************************************)
(* The panel reading the traffic while StatsTracker moves it.  A summary   *)
(* adds what the table holds to what the tracker's memory holds, with one  *)
(* statement and then one critical section, and nothing in between keeps   *)
(* a record where it was.  A page of entries is read once and its ids are  *)
(* deleted later.  The time window and the search filter are left out:     *)
(* every row is in the window.                                             *)
(***************************************************************************)
EXTENDS StatsTracker

CONSTANTS
  MaxReads   \* bound: summaries and pages read in one behaviour

ASSUME ReadsAssumption == MaxReads \in Nat

VARIABLES
  summary,   \* where the summary's handler is
  counted,   \* how often it has counted each request
  listed,    \* the page in the browser: id -> record
  calm,      \* history: nothing left the tracker's memory or the table
             \* since the table was summed
  reads      \* bounded counter

readerVars == <<summary, counted, listed, calm, reads>>
allVars == <<vars, readerVars>>

DatabaseFree == server \in {"serving", "stopped"} /\ ~InTx

InitReaders ==
  /\ Init
  /\ summary = "idle" /\ counted = [r \in Requests |-> 0]
  /\ listed = NoRows
  /\ calm = FALSE
  /\ reads = 0

Tally(S) == [r \in Requests |-> IF r \in S THEN 1 ELSE 0]

(* The SELECT SUM ... FROM traffic_stats. *)
SumTable ==
  /\ DatabaseFree /\ summary = "idle" /\ reads < MaxReads
  /\ summary' = "summed" /\ reads' = reads + 1
  /\ counted' = Tally(Stored)
  /\ calm' = (flusher \in {"waiting", "returned"})
  /\ UNCHANGED <<vars, listed>>

(* Mutant: the summary uses snapshotActiveTransfers. *)
AddLiveActiveOnly ==
  /\ Alive /\ summary = "summed"
  /\ summary' = "answered"
  /\ counted' = [r \in Requests |-> counted[r] + Tally(DOMAIN activeTransfers)[r]]
  /\ UNCHANGED <<vars, listed, calm, reads>>

(* snapshotLiveRecords: the pending records and the active transfers. *)
AddLive ==
  /\ Alive /\ summary = "summed"
  /\ summary' = "answered"
  /\ counted' = [r \in Requests |->
       counted[r] + Tally(Pending)[r] + Tally(DOMAIN activeTransfers)[r]]
  /\ UNCHANGED <<vars, listed, calm, reads>>

(* The answer has been sent; the handler is free for the next one. *)
Respond ==
  /\ summary = "answered"
  /\ summary' = "idle"
  /\ counted' = Tally({}) /\ calm' = FALSE
  /\ UNCHANGED <<vars, listed, reads>>

ListTrafficEntries ==
  /\ DatabaseFree /\ reads < MaxReads
  /\ reads' = reads + 1
  /\ listed' = rows
  /\ UNCHANGED <<vars, summary, counted, calm>>

(* The administrator deletes entries of the page, which the ids name. *)
DeleteListed ==
  /\ \E ids \in SUBSET DOMAIN listed : DeleteRows(ids \cap DOMAIN rows)
  /\ calm' = FALSE
  /\ UNCHANGED <<summary, counted, listed, reads>>

(* A step of the tracker; a summary in progress dies with its process. *)
Track ==
  /\ (\E r \in Requests : Handler(r)) \/ Flusher \/ Main
  /\ IF server' = "down"
       THEN summary' = "idle" /\ counted' = Tally({}) /\ calm' = FALSE
       ELSE /\ calm' = (calm /\ flusher' = flusher)
            /\ UNCHANGED <<summary, counted>>
  /\ UNCHANGED <<listed, reads>>

NextReaders ==
  SumTable \/ AddLive \/ Respond \/ ListTrafficEntries \/ DeleteListed \/ Track

SpecReaders == InitReaders /\ [][NextReaders]_allVars

------------------------------------------------------------------------------
(* Properties. *)

(* However the handlers and the flusher move a record while a summary is   *)
(* taken, it counts a request at most twice.                               *)
CountedAtMostTwice == \A r \in Requests : counted[r] <= 2

(* A summary taken while no flush runs and nothing is deleted is exact:    *)
(* it counts once every transfer in flight and every booked record that is *)
(* not gone, except a transfer between its Record and its FinishTransfer.  *)
CalmSummaryIsExact ==
  [][ AddLive /\ calm =>
        \A r \in Requests :
          pc[r] # "finishing" =>
            counted'[r] = Tally(InFlight \cup (Booked \ (erased \cup lost)))[r]
    ]_allVars

(* An id of a page names the same record for ever or none: a list kept     *)
(* open in the browser across flushes, deletions and restarts never makes  *)
(* the panel delete a record it did not show.                              *)
PageNamesItsRows ==
  \A id \in DOMAIN listed \cap DOMAIN rows : listed[id] = rows[id]

==============================================================================
