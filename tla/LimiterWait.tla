---------------------------- MODULE LimiterWait ------------------------------
(***************************************************************************)
(* Waiting for bandwidth (internal/ratelimit Limiter): a stream of the     *)
(* proxy asks each of its limiters in turn before it writes what it read,  *)
(* in chunks of at most the limiter's burst, while an administrator        *)
(* changes the limits.  A Limiter points to a token bucket of              *)
(* golang.org/x/time/rate, or to none when it does not limit; upload and   *)
(* download behave alike and one direction is modelled.                    *)
(*                                                                         *)
(* The bucket is external, modelled as it is used here: it gains limit     *)
(* tokens per second up to its burst; WaitN takes its tokens at once, in   *)
(* advance if need be, and sleeps until they are due.  Time passes in      *)
(* ticks of 1/Scale second, a byte is Scale tokens (so that a tick brings  *)
(* limit tokens), and a sleep ends at the tick at which or before which    *)
(* its tokens are due.                                                     *)
(***************************************************************************)
EXTENDS Integers, Sequences, FiniteSets, Functions

CONSTANTS
  Requests,   \* streams
  Limiters,
  Chain,      \* request -> the limiters it holds, in the order of ServeHTTP
  Limits,     \* the limits an administrator may set; 0 is no limit
  Initial,    \* the limits the limiters may start with
  MaxRead,    \* bound: bytes of one read from the backend
  MaxUpdates, \* bound: limits set in one behaviour
  MaxCancels, \* bound: clients gone during a wait
  Scale       \* ticks of a second

ASSUME RequestsAssumption == IsFiniteSet(Requests)
ASSUME ChainAssumption ==
  Chain \in [Requests -> Seq(Limiters)] /\ \A r \in Requests : Chain[r] # <<>>
ASSUME LimitsAssumption ==
  /\ 0 \in Limits /\ Limits \subseteq Nat
  /\ Scale \in Nat \ {0}
  /\ \A limit \in Limits \ {0} : Scale % limit = 0
  /\ Initial \subseteq [Limiters -> Limits]
ASSUME WaitBoundsAssumption == MaxRead \in Nat \ {0} /\ MaxUpdates \in Nat /\ MaxCancels \in Nat

VARIABLES
  buckets,   \* limiter -> the buckets made for it so far
  current,   \* limiter -> which of them it points to, or None
  wait,      \* request -> where it is in its waits
  updater,   \* the UpdateLimits in progress; Manager.mu admits one
  updates, cancels   \* bounded counters

admin == <<updater, updates, cancels>>
vars == <<buckets, current, wait, updater, updates, cancels>>

None == 0
NoUpdate == [at |-> "idle"]
NotWaiting == [at |-> "idle", nth |-> 1, n |-> 0, bucket |-> None, burst |-> 0,
               remaining |-> 0, chunk |-> 0, due |-> 0, limit |-> 0,
               paid |-> 0, changed |-> FALSE, metered |-> FALSE]

(* rate.NewLimiter(limit, limit): full.  The history meter counts in       *)
(* tokens what the bucket let through, and leaks at its limit.  It starts  *)
(* again, without the waits in progress, when the limits are set and when  *)
(* the bucket gets back tokens of a wait it does not count, or of one      *)
(* others were queued behind: what is reserved next may then be due before *)
(* them, and be given back twice.                                          *)
NewBucket(limit) ==
  [limit |-> limit, burst |-> limit, tokens |-> limit * Scale, lastEvent |-> 0, meter |-> 0]

Least(a, b) == IF a <= b THEN a ELSE b
Most(a, b)  == IF a >= b THEN a ELSE b

(* Ticks until a bucket with this limit has gained so many tokens. *)
TicksFor(tokens, limit) == (tokens + limit - 1) \div limit

Init ==
  /\ \E limit \in Initial :
       /\ buckets = [l \in Limiters |->
                       IF limit[l] > 0 THEN <<NewBucket(limit[l])>> ELSE <<>>]
       /\ current = [l \in Limiters |-> IF limit[l] > 0 THEN 1 ELSE None]
  /\ wait = [r \in Requests |-> NotWaiting]
  /\ updater = NoUpdate /\ updates = 0 /\ cancels = 0

------------------------------------------------------------------------------
(* A stream: read, wait for every limiter, write. *)

Limiter(r) == Chain[r][wait[r].nth]
Bucket(r)  == buckets[Limiter(r)][wait[r].bucket]

(* The stream has read n bytes; one whose wait failed was closed, and its  *)
(* name stands for the next stream.                                        *)
Read(r) ==
  /\ wait[r].at \in {"idle", "cancelled", "refused"}
  /\ \E n \in 1 .. MaxRead :
       wait' = [wait EXCEPT ![r] = [NotWaiting EXCEPT !.at = "look", !.n = n]]
  /\ UNCHANGED <<buckets, current, admin>>

(* WaitDownloadWithContext: no bucket, no wait; else waitWithChunks reads  *)
(* the burst once.                                                         *)
Look(r) ==
  /\ wait[r].at = "look"
  /\ LET k == current[Limiter(r)] IN
     wait' = [wait EXCEPT ![r] =
       IF k = None
         THEN [@ EXCEPT !.at = "allowed", !.bucket = None, !.paid = wait[r].n]
         ELSE [@ EXCEPT !.at = "loop", !.bucket = k, !.remaining = wait[r].n,
                 !.burst = buckets[Limiter(r)][k].burst,
                 !.paid = 0, !.changed = FALSE]]
  /\ UNCHANGED <<buckets, current, admin>>

(* Mutant: limiter.WaitN(ctx, n) with no chunks. *)
WholeRead(r) == wait[r].remaining

NextChunk(r) == Least(wait[r].remaining, wait[r].burst)

(* Mutant: a Wait for a single token instead. *)
OneToken(r) == 1

(* What the wait costs, in bytes. *)
Cost(r) == NextChunk(r)

(* Mutant: no loop, the first chunk is all. *)
ChunkAllowedOnce(w, chunk) ==
  [w EXCEPT !.at = "allowed", !.remaining = @ - chunk, !.paid = @ + chunk,
            !.chunk = 0, !.due = 0, !.limit = 0, !.metered = FALSE]

(* Mutant: the loop forgets to subtract the chunk. *)
ChunkAllowedForgets(w, chunk) ==
  [w EXCEPT !.at = "loop", !.chunk = 0, !.due = 0, !.limit = 0, !.metered = FALSE]

(* WaitN returned nil: the loop goes on with what remains. *)
ChunkAllowed(w, chunk) ==
  [w EXCEPT !.at = IF w.remaining = chunk THEN "allowed" ELSE "loop",
            !.remaining = @ - chunk, !.paid = @ + chunk,
            !.chunk = 0, !.due = 0, !.limit = 0, !.metered = FALSE]

(* WaitN: the tokens are taken; if they are there the wait is over. *)
WaitN(r) ==
  /\ wait[r].at = "loop" /\ NextChunk(r) <= Bucket(r).burst
  /\ LET b      == Bucket(r)
         chunk  == NextChunk(r)
         tokens == b.tokens - Cost(r) * Scale
         due    == TicksFor(Most(0, -tokens), b.limit)
         w      == [wait[r] EXCEPT !.changed = FALSE]
     IN  /\ buckets' = [buckets EXCEPT ![Limiter(r)][wait[r].bucket] =
              [b EXCEPT !.tokens = tokens, !.lastEvent = due,
                        !.meter = IF due = 0 THEN @ + chunk * Scale ELSE @]]
         /\ wait' = [wait EXCEPT ![r] =
              IF due = 0 THEN ChunkAllowed(w, chunk)
              ELSE [w EXCEPT !.at = "sleeping", !.chunk = chunk,
                             !.due = due, !.limit = b.limit, !.metered = TRUE]]
  /\ UNCHANGED <<current, admin>>

(* The tokens are due. *)
Wake(r) ==
  /\ wait[r].at = "sleeping" /\ wait[r].due <= 0
  /\ wait' = [wait EXCEPT ![r] = ChunkAllowed(@, @.chunk)]
  /\ UNCHANGED <<buckets, current, admin>>

(* WaitN of more than the burst fails at once. *)
ExceedsBurst(r) ==
  /\ wait[r].at = "loop" /\ NextChunk(r) > Bucket(r).burst
  /\ wait' = [wait EXCEPT ![r] = [NotWaiting EXCEPT !.at = "refused", !.changed = wait[r].changed]]
  /\ UNCHANGED <<buckets, current, admin>>

(* The waits in progress at a bucket, when its meter starts again. *)
Waiting(r, l, k) ==
  wait[r].at \in {"loop", "sleeping"} /\ Limiter(r) = l /\ wait[r].bucket = k
Unmetered(l, k) ==
  [r \in Requests |->
    IF Waiting(r, l, k) THEN [wait[r] EXCEPT !.metered = FALSE] ELSE wait[r]]

(* The client is gone.  Reservation.Cancel gives back the tokens that no   *)
(* later reservation was made behind.                                      *)
Restored(w, b) ==
  IF w.due < 0 THEN 0
  ELSE Most(0, w.chunk * Scale - w.limit * (b.lastEvent - w.due))

Cancel(r) ==
  /\ wait[r].at \in {"loop", "sleeping"}
  /\ cancels < MaxCancels /\ cancels' = cancels + 1
  /\ LET w    == wait[r]
         b    == Bucket(r)
         back == IF w.at = "sleeping" THEN Restored(w, b) ELSE 0
         prev == w.due - TicksFor(w.chunk * Scale, w.limit)
         last  == w.due = b.lastEvent
         again == back > 0 /\ ~(w.metered /\ last)
     IN  /\ buckets' = IF back = 0 THEN buckets
              ELSE [buckets EXCEPT ![Limiter(r)][w.bucket] =
                [b EXCEPT !.tokens = Least(b.burst * Scale, @ + back),
                          !.lastEvent = IF last /\ prev >= 0 THEN prev ELSE @,
                          !.meter = IF again THEN 0
                                    ELSE IF w.due = 0 THEN @ - w.chunk * Scale ELSE @]]
         /\ wait' = [IF again THEN Unmetered(Limiter(r), w.bucket) ELSE wait
                      EXCEPT ![r] = [NotWaiting EXCEPT !.at = "cancelled"]]
  /\ UNCHANGED <<current, updater, updates>>

(* On to the next limiter, or to the write. *)
Proceed(r) ==
  /\ wait[r].at = "allowed"
  /\ wait' = [wait EXCEPT ![r] =
       IF @.nth < Len(Chain[r])
         THEN [NotWaiting EXCEPT !.at = "look", !.n = wait[r].n,
                                 !.nth = wait[r].nth + 1]
         ELSE NotWaiting]
  /\ UNCHANGED <<buckets, current, admin>>

------------------------------------------------------------------------------
(* A tick passes. *)

(* What the meter of a bucket counts in this tick: sleeps that are over. *)
DueNow(l, k) == {r \in Requests : Waiting(r, l, k) /\ wait[r].metered /\ wait[r].due = 1}
MeteredNow(l, k) == SumFunctionOnSet([r \in Requests |-> wait[r].chunk * Scale], DueNow(l, k))

Tick ==
  /\ buckets' = [l \in Limiters |-> [k \in DOMAIN buckets[l] |->
       LET b == buckets[l][k] IN
       [b EXCEPT !.tokens = Least(b.burst * Scale, @ + b.limit),
                 !.lastEvent = Most(0, @ - 1),
                 !.meter = Most(0, @ - b.limit) + MeteredNow(l, k)]]]
  /\ wait' = [r \in Requests |->
       IF wait[r].at = "sleeping"
         THEN [wait[r] EXCEPT !.due = Most(-1, @ - 1)]
         ELSE wait[r]]
  /\ UNCHANGED <<current, admin>>

------------------------------------------------------------------------------
(* UpdateLimits: the limit, and in a second critical section of the bucket *)
(* the burst.                                                              *)

(* The meter starts again, without the waits under the old limits. *)
Remeter(l, k, bucket) ==
  /\ buckets' = [buckets EXCEPT ![l][k] = [bucket EXCEPT !.meter = 0]]
  /\ wait' = [r \in Requests |->
       IF Waiting(r, l, k) THEN [wait[r] EXCEPT !.changed = TRUE, !.metered = FALSE]
                           ELSE wait[r]]

UpdateLimits ==
  /\ updater.at = "idle" /\ updates < MaxUpdates /\ updates' = updates + 1
  /\ UNCHANGED cancels
  /\ \E l \in Limiters, limit \in Limits :
       \/ /\ limit = 0
          /\ current' = [current EXCEPT ![l] = None]
          /\ UNCHANGED <<buckets, wait, updater>>
       \/ /\ limit > 0 /\ current[l] = None
          /\ buckets' = [buckets EXCEPT ![l] = Append(@, NewBucket(limit))]
          /\ current' = [current EXCEPT ![l] = Len(buckets[l]) + 1]
          /\ UNCHANGED <<wait, updater>>
       \/ /\ limit > 0 /\ current[l] # None
          /\ Remeter(l, current[l], [buckets[l][current[l]] EXCEPT !.limit = limit])
          /\ updater' = [at |-> "burst", limiter |-> l, limit |-> limit]
          /\ UNCHANGED current

SetBurst ==
  /\ updater.at = "burst"
  /\ LET l == updater.limiter
         k == current[l]
     IN  Remeter(l, k, [buckets[l][k] EXCEPT !.burst = updater.limit,
                          !.tokens = Least(@, updater.limit * Scale)])
  /\ updater' = NoUpdate
  /\ UNCHANGED <<current, updates, cancels>>

------------------------------------------------------------------------------
Stream(r) ==
  Read(r) \/ Look(r) \/ WaitN(r) \/ Wake(r) \/ ExceedsBurst(r) \/ Cancel(r) \/ Proceed(r)

Next == (\E r \in Requests : Stream(r)) \/ Tick \/ UpdateLimits \/ SetBurst

(* Time passes, and a stream that can go on in its wait does; whether it   *)
(* reads again, is cancelled or sees other limits is nobody's duty.        *)
Fairness ==
  /\ WF_vars(Tick)
  /\ \A r \in Requests :
       WF_vars(Look(r) \/ WaitN(r) \/ Wake(r) \/ ExceedsBurst(r) \/ Proceed(r))

Spec == Init /\ [][Next]_vars /\ Fairness

------------------------------------------------------------------------------
(* Properties. *)

(* However many streams share a limiter, and whatever they read at a time, *)
(* what it lets through in t seconds under one limit is at most its burst  *)
(* plus t times the limit: the meter, which leaks at the limit, never      *)
(* holds more than the burst.  It holds as long as no wait that is given   *)
(* up gives back tokens others were queued behind.                         *)
RateBound ==
  \A l \in Limiters : \A k \in DOMAIN buckets[l] :
    buckets[l][k].meter <= buckets[l][k].burst * Scale

(* A read passes a limiter only when all its bytes were paid for. *)
PaidInFull == \A r \in Requests : wait[r].at = "allowed" => wait[r].paid = wait[r].n

(* Whatever the size of a read, a wait is refused only when the limits     *)
(* changed under it: that is what the chunks are for.                      *)
RefusedOnlyByAChange ==
  \A r \in Requests : wait[r].at = "refused" => wait[r].changed

(* Every wait ends: no stream is starved by the others or by an update. *)
WaitsEnd ==
  \A r \in Requests :
    wait[r].at \in {"look", "loop", "sleeping"} ~>
      wait[r].at \notin {"look", "loop", "sleeping"}

==============================================================================
