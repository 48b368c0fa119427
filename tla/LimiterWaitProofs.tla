-------------------------- MODULE LimiterWaitProofs ---------------------------
(***************************************************************************)
(* What holds of LimiterWait for every set of streams, every chain of      *)
(* limiters and all limits.  A wait keeps account of its chunks: what was  *)
(* paid and what remains are what was read.  And its chunks fit the bucket *)
(* they are taken from, unless the limits changed under the wait: the      *)
(* burst it looked up is no more than the bucket's, or the chunk it sleeps *)
(* for is its last.  And the waits at a bucket form a queue (QueuesInv),   *)
(* which it lets through no faster than its limit.                         *)
(***************************************************************************)
EXTENDS LimiterWait, Sums, SequenceTheorems, TLAPS

States == {"idle", "look", "loop", "sleeping", "allowed", "cancelled", "refused"}
WaitFields == {"at", "nth", "n", "bucket", "burst", "remaining", "chunk", "due", "limit",
               "paid", "changed", "metered"}
BucketFields == {"limit", "burst", "tokens", "lastEvent", "meter"}

IsList(f) == \E n \in Nat : DOMAIN f = 1 .. n /\ f = [i \in 1 .. n |-> f[i]]

(* The buckets a limiter had are a list, and each has a limit and a burst. *)
GoodBucket(b) ==
  /\ DOMAIN b = BucketFields
  /\ b.limit \in Limits \ {0} /\ b.burst \in Nat \ {0}
  /\ b.tokens \in Int /\ b.lastEvent \in Int
GoodBuckets(bs) ==
  /\ bs = [l \in Limiters |-> bs[l]]
  /\ \A l \in Limiters : IsList(bs[l])
  /\ \A l \in Limiters : \A k \in DOMAIN bs[l] : GoodBucket(bs[l][k])

(* The update in progress is of a bucket that is in use. *)
AdminInv ==
  /\ current \in [Limiters -> Nat]
  /\ \A l \in Limiters : current[l] # None => current[l] \in DOMAIN buckets[l]
  /\ updater.at = "burst" =>
       /\ updater.limiter \in Limiters /\ current[updater.limiter] # None
       /\ updater.limit \in Nat \ {0}

(* What a wait has become so far, of a stream with this chain. *)
Typed(w, chain) ==
  /\ DOMAIN w = WaitFields
  /\ w.at \in States /\ w.nth \in 1 .. Len(chain)
  /\ w.n \in Nat /\ w.bucket \in Nat /\ w.burst \in Nat
  /\ w.remaining \in Int /\ w.paid \in Int
  /\ w.chunk \in Nat /\ w.due \in Int /\ w.limit \in Nat
Accounted(w) ==
  /\ w.at \in {"look", "loop", "sleeping", "allowed"} => w.n > 0
  /\ w.at \in {"loop", "sleeping"} =>
       w.paid + w.remaining = w.n /\ w.remaining > 0 /\ w.burst > 0
  /\ w.metered => w.at = "sleeping"
  /\ w.at = "sleeping" => 0 < w.chunk /\ w.chunk <= w.remaining /\ 0 < w.limit
  /\ w.at = "allowed" => w.paid = w.n
  /\ w.at = "refused" => w.changed
ChunksFit(w, bs) ==
  w.at \in {"loop", "sleeping"} =>
    /\ w.bucket \in DOMAIN bs
    /\ \/ w.changed
       \/ w.burst <= bs[w.bucket].burst
       \/ w.at = "sleeping" /\ w.chunk = w.remaining
Good(w, r, bs) == Typed(w, Chain[r]) /\ Accounted(w) /\ ChunksFit(w, bs[Chain[r][w.nth]])
WaitInv ==
  /\ wait = [r \in Requests |-> wait[r]]
  /\ \A r \in Requests : Good(wait[r], r, buckets)

IInv == GoodBuckets(buckets) /\ AdminInv /\ WaitInv

------------------------------------------------------------------------------
(* Lists of buckets. *)

(* Another bucket comes behind the others. *)
LEMMA AppendedBucket ==
  ASSUME NEW f, NEW x, IsList(f)
  PROVE  /\ IsList(Append(f, x)) /\ Len(f) + 1 \in Nat \ {0} /\ Len(f) + 1 \notin DOMAIN f
         /\ DOMAIN Append(f, x) = DOMAIN f \cup {Len(f) + 1}
         /\ Append(f, x)[Len(f) + 1] = x
         /\ \A k \in DOMAIN f : Append(f, x)[k] = f[k]
<1>1. PICK n \in Nat : DOMAIN f = 1 .. n /\ f = [i \in 1 .. n |-> f[i]]
  BY DEF IsList
<1>2. PICK S : S = {f[i] : i \in 1 .. n} \cup {x}
  OBVIOUS
<1>3. f \in Seq(S) /\ Len(f) = n /\ x \in S
  <2>1. f \in [1 .. n -> S] /\ x \in S
    BY <1>1, <1>2
  <2>2. QED
    BY <2>1
<1>4. PICK g \in Seq(S) : g = Append(f, x)
  BY <1>3, AppendProperties
<1>5. /\ Len(g) = n + 1 /\ g[n + 1] = x /\ DOMAIN g = 1 .. n + 1
      /\ \A k \in 1 .. n : g[k] = f[k]
  BY <1>3, <1>4
<1>6. g = [i \in 1 .. n + 1 |-> g[i]]
  BY <1>5
<1>7. IsList(g)
  <2>1. PICK m \in Nat : m = n + 1
    OBVIOUS
  <2>2. DOMAIN g = 1 .. m /\ g = [i \in 1 .. m |-> g[i]]
    BY <1>5, <1>6, <2>1
  <2>3. QED
    BY <2>2 DEF IsList
<1>8. 1 .. n + 1 = 1 .. n \cup {n + 1}
  OBVIOUS
<1>9. QED
  BY <1>1, <1>3, <1>4, <1>5, <1>7, <1>8

(* The buckets stay, and one more may come: their bursts are what they were. *)
Extends(bs, new) ==
  \A l \in Limiters : \A k \in DOMAIN bs[l] :
    k \in DOMAIN new[l] /\ new[l][k].burst = bs[l][k].burst

(* A wait minds neither other buckets nor its own, as long as the burst    *)
(* stays.                                                                  *)
LEMMA GoodStays ==
  ASSUME NEW r \in Requests, NEW w, NEW bs, NEW new, Good(w, r, bs), Extends(bs, new)
  PROVE  Good(w, r, new)
<1>1. PICK l \in Limiters : l = Chain[r][w.nth]
  BY ChainAssumption DEF Good, Typed
<1>2. \A k \in DOMAIN bs[l] : k \in DOMAIN new[l] /\ new[l][k].burst = bs[l][k].burst
  BY DEF Extends
<1>3. QED
  BY <1>1, <1>2 DEF Good, ChunksFit

(* Replacing one bucket. *)
Replaces(bs, l, k, b, new) == new = [bs EXCEPT ![l][k] = b]
LEMMA BucketReplaced ==
  ASSUME NEW bs, NEW l \in Limiters, NEW k \in DOMAIN bs[l], NEW b, NEW new, GoodBuckets(bs),
         GoodBucket(b), Replaces(bs, l, k, b, new)
  PROVE  /\ GoodBuckets(new)
         /\ \A i \in Limiters : DOMAIN new[i] = DOMAIN bs[i]
         /\ new[l][k] = b
         /\ \A i \in Limiters : \A j \in DOMAIN bs[i] : i # l \/ j # k => new[i][j] = bs[i][j]
<1>2. PICK f : f = [bs[l] EXCEPT ![k] = b]
  OBVIOUS
<1>3. /\ DOMAIN bs = Limiters /\ DOMAIN new = Limiters /\ new[l] = f
      /\ \A i \in Limiters : i # l => new[i] = bs[i]
      /\ new = [i \in Limiters |-> new[i]]
  BY <1>2 DEF GoodBuckets, Replaces
<1>4. PICK n \in Nat : DOMAIN bs[l] = 1 .. n /\ bs[l] = [i \in 1 .. n |-> bs[l][i]]
  BY DEF GoodBuckets, IsList
<1>5. /\ DOMAIN f = 1 .. n /\ f[k] = b
      /\ \A j \in 1 .. n : j # k => f[j] = bs[l][j]
      /\ f = [i \in 1 .. n |-> f[i]]
  BY <1>2, <1>4
<1>6. IsList(f)
  BY <1>5 DEF IsList
<1>7. \A i \in Limiters : IsList(new[i])
  BY <1>3, <1>6 DEF GoodBuckets
<1>8. \A i \in Limiters : \A j \in DOMAIN new[i] :
        GoodBucket(new[i][j])
  <2> SUFFICES ASSUME NEW i \in Limiters, NEW j \in DOMAIN new[i]
               PROVE  GoodBucket(new[i][j])
    OBVIOUS
  <2>1. CASE i = l /\ j = k
    BY <1>3, <1>5, <2>1
  <2>2. CASE i = l /\ j # k
    BY <1>3, <1>4, <1>5, <2>2 DEF GoodBuckets
  <2>3. CASE i # l
    BY <1>3, <2>3 DEF GoodBuckets
  <2>4. QED
    BY <2>1, <2>2, <2>3
<1>9. GoodBuckets(new)
  BY <1>3, <1>7, <1>8 DEF GoodBuckets
<1>10. \A i \in Limiters : \A j \in DOMAIN bs[i] : i # l \/ j # k => new[i][j] = bs[i][j]
  BY <1>3, <1>4, <1>5
<1>11. \A i \in Limiters : DOMAIN new[i] = DOMAIN bs[i]
  BY <1>3, <1>4, <1>5
<1>12. QED
  BY <1>3, <1>5, <1>9, <1>10, <1>11

(* One that keeps its burst is a bucket as before, to every wait.          *)
LEMMA BurstKept ==
  ASSUME NEW bs, NEW l \in Limiters, NEW k \in DOMAIN bs[l], NEW b, NEW new, GoodBuckets(bs),
         GoodBucket(b), b.burst = bs[l][k].burst, Replaces(bs, l, k, b, new)
  PROVE  /\ GoodBuckets(new) /\ Extends(bs, new)
         /\ \A i \in Limiters : DOMAIN new[i] = DOMAIN bs[i]
<1>3. /\ GoodBuckets(new)
      /\ \A i \in Limiters : DOMAIN new[i] = DOMAIN bs[i]
      /\ new[l][k] = b
      /\ \A i \in Limiters : \A j \in DOMAIN bs[i] : i # l \/ j # k => new[i][j] = bs[i][j]
  BY BucketReplaced
<1>4. Extends(bs, new)
  <2> SUFFICES ASSUME NEW i \in Limiters, NEW j \in DOMAIN bs[i]
               PROVE  j \in DOMAIN new[i] /\ new[i][j].burst = bs[i][j].burst
    BY DEF Extends
  <2>1. CASE i = l /\ j = k
    BY <1>3, <2>1
  <2>2. CASE i # l \/ j # k
    BY <1>3, <2>2
  <2>3. QED
    BY <2>1, <2>2
<1>5. QED
  BY <1>3, <1>4

------------------------------------------------------------------------------
(* The steps of a stream. *)

(* Where a wait is, there is a limiter and, once it looked, a bucket.      *)
LEMMA Located ==
  ASSUME IInv, NEW r \in Requests
  PROVE  /\ Limiter(r) \in Limiters /\ wait[r].nth \in 1 .. Len(Chain[r])
         /\ Len(Chain[r]) \in Nat \ {0}
         /\ wait[r].at \in {"loop", "sleeping"} =>
              /\ wait[r].bucket \in DOMAIN buckets[Limiter(r)]
              /\ GoodBucket(Bucket(r))
<1>1. Good(wait[r], r, buckets)
  BY DEF IInv, WaitInv
<1>2. wait[r].nth \in 1 .. Len(Chain[r]) /\ Chain[r] \in Seq(Limiters) /\ Chain[r] # <<>>
  BY <1>1, ChainAssumption DEF Good, Typed
<1>3. Limiter(r) \in Limiters /\ Len(Chain[r]) \in Nat \ {0}
  BY <1>2 DEF Limiter
<1>4. QED
  BY <1>1, <1>2, <1>3 DEF Good, ChunksFit, Limiter, Bucket, IInv, GoodBuckets

(* A step that puts one wait right and keeps all bursts is right.          *)
LEMMA OneWaits ==
  ASSUME IInv, NEW r \in Requests, NEW w, Good(w, r, buckets),
         wait' = [wait EXCEPT ![r] = w],
         GoodBuckets(buckets'), Extends(buckets, buckets'),
         UNCHANGED <<current, updater>>
  PROVE  IInv'
<1>1. AdminInv'
  <2>1. \A l \in Limiters : DOMAIN buckets[l] \subseteq DOMAIN buckets'[l]
    BY DEF Extends
  <2>2. QED
    BY <2>1 DEF IInv, AdminInv
<1>2. WaitInv'
  <2>1. wait' = [q \in Requests |-> wait'[q]] /\ wait'[r] = w
        /\ \A q \in Requests : q # r => wait'[q] = wait[q]
    BY DEF IInv, WaitInv
  <2>2. ASSUME NEW q \in Requests PROVE Good(wait'[q], q, buckets')
    <3>1. PICK v : v = wait'[q] /\ Good(v, q, buckets)
      BY <2>1 DEF IInv, WaitInv
    <3>2. QED
      BY <3>1, GoodStays
  <2>3. QED
    BY <2>1, <2>2 DEF WaitInv
<1>3. QED
  BY <1>1, <1>2 DEF IInv

(* No step leaves the buckets less than they were. *)
LEMMA SameBuckets == GoodBuckets(buckets) /\ buckets' = buckets =>
                       GoodBuckets(buckets') /\ Extends(buckets, buckets')
  BY DEF Extends

(* A stream that does not wait, or no longer. *)
LEMMA Fresh ==
  ASSUME NEW r \in Requests, NEW w, DOMAIN w = WaitFields,
         w.at \in {"idle", "look", "cancelled", "refused"},
         w.nth \in 1 .. Len(Chain[r]), w.n \in Nat,
         w.bucket = NotWaiting.bucket, w.burst = NotWaiting.burst,
         w.remaining = NotWaiting.remaining, w.chunk = NotWaiting.chunk,
         w.paid = NotWaiting.paid, w.due = NotWaiting.due, w.limit = NotWaiting.limit,
         ~w.metered, w.at = "refused" => w.changed, w.at = "look" => w.n > 0
  PROVE  Good(w, r, buckets)
<1>1. Typed(w, Chain[r])
  BY DEF Typed, States, NotWaiting, None
<1>2. QED
  BY <1>1 DEF Good, Accounted, ChunksFit

(* A chunk that was waited for leaves the wait right: the read is paid for *)
(* or its rest is still to come, in chunks that fit if this was not all.   *)
LEMMA ChunkPaid ==
  ASSUME NEW r \in Requests, NEW w, Typed(w, Chain[r]), NEW chunk \in Nat \ {0},
         w.paid + w.remaining = w.n, w.n > 0, chunk <= w.remaining, w.burst > 0,
         NEW bs, w.bucket \in DOMAIN bs[Chain[r][w.nth]],
         w.changed \/ w.burst <= bs[Chain[r][w.nth]][w.bucket].burst \/ chunk = w.remaining
  PROVE  Good(ChunkAllowed(w, chunk), r, bs)
<1>1. PICK v : v = ChunkAllowed(w, chunk)
  OBVIOUS
<1>2. DOMAIN w = WaitFields
  BY DEF Typed
<1>3. /\ DOMAIN v = WaitFields
      /\ v.at = IF w.remaining = chunk THEN "allowed" ELSE "loop"
      /\ v.remaining = w.remaining - chunk /\ v.paid = w.paid + chunk /\ v.chunk = 0
      /\ v.nth = w.nth /\ v.n = w.n /\ v.bucket = w.bucket /\ v.burst = w.burst
      /\ v.changed = w.changed /\ v.due = 0 /\ v.limit = 0 /\ ~v.metered
  BY <1>1, <1>2 DEF ChunkAllowed, WaitFields
<1>4. Typed(v, Chain[r])
  BY <1>3 DEF Typed, States
<1>5. Accounted(v)
  <2>1. w.paid \in Int /\ w.remaining \in Int /\ w.n \in Nat
    BY DEF Typed
  <2>2. /\ v.n > 0 /\ v.burst > 0 /\ v.paid + v.remaining = v.n
        /\ v.at = "loop" => v.remaining > 0
        /\ v.at = "allowed" => v.paid = v.n
        /\ v.at \in {"loop", "allowed"}
    BY <1>3, <2>1
  <2>3. QED
    BY <1>3, <2>2 DEF Accounted
<1>6. ChunksFit(v, bs[Chain[r][v.nth]])
  BY <1>3 DEF ChunksFit
<1>7. QED
  BY <1>1, <1>4, <1>5, <1>6 DEF Good

(* The next chunk is what remains, or a whole burst. *)
LEMMA NextIs ==
  ASSUME IInv, NEW r \in Requests, wait[r].at = "loop"
  PROVE  /\ NextChunk(r) \in Nat \ {0}
         /\ NextChunk(r) <= wait[r].burst /\ NextChunk(r) <= wait[r].remaining
         /\ NextChunk(r) = wait[r].remaining \/ NextChunk(r) = wait[r].burst
  BY DEF NextChunk, Least, IInv, WaitInv, Good, Typed, Accounted

(* The wait for a debt is as long as it takes to gain it. *)
LEMMA TicksAre ==
  ASSUME NEW limit \in Nat \ {0}, NEW x \in Int
  PROVE  /\ TicksFor(x, limit) \in Int
         /\ TicksFor(Most(0, -x), limit) = Most(0, -(x \div limit))
  BY DEF TicksFor, Most

LEMMA ReadStep == ASSUME IInv, NEW r \in Requests, Read(r) PROVE IInv'
<1>1. PICK n \in 1 .. MaxRead :
        wait' = [wait EXCEPT ![r] = [NotWaiting EXCEPT !.at = "look", !.n = n]]
  BY DEF Read
<1>2. PICK w : w = [NotWaiting EXCEPT !.at = "look", !.n = n]
  OBVIOUS
<1>3. /\ DOMAIN w = WaitFields /\ w.at = "look" /\ w.n = n /\ w.nth = 1
      /\ w.bucket = NotWaiting.bucket /\ w.burst = NotWaiting.burst
      /\ w.remaining = NotWaiting.remaining /\ w.chunk = NotWaiting.chunk
      /\ w.paid = NotWaiting.paid /\ w.due = NotWaiting.due /\ w.limit = NotWaiting.limit
      /\ ~w.metered /\ w.changed = FALSE
  BY <1>2 DEF NotWaiting, WaitFields
<1>4. n \in Nat /\ 1 \in 1 .. Len(Chain[r])
  BY Located, WaitBoundsAssumption
<1>5. Good(w, r, buckets)
  BY <1>3, <1>4, Fresh
<1>6. QED
  BY <1>1, <1>2, <1>5, SameBuckets, OneWaits DEF Read, admin, IInv

LEMMA LookStep == ASSUME IInv, NEW r \in Requests, Look(r) PROVE IInv'
<1>1. PICK l \in Limiters : l = Limiter(r)
  BY Located
<1>2. PICK w : w = wait[r]
  OBVIOUS
<1>3. /\ Typed(w, Chain[r]) /\ DOMAIN w = WaitFields /\ w.at = "look" /\ l = Chain[r][w.nth]
      /\ w.n > 0 /\ ~w.metered
  BY <1>1, <1>2 DEF Look, Limiter, IInv, WaitInv, Good, Typed, Accounted
<1>4. DOMAIN wait = Requests
  BY DEF IInv, WaitInv
<1>5. CASE current[l] = None
  <2>1. PICK v : v = [w EXCEPT !.at = "allowed", !.bucket = None, !.paid = w.n]
    OBVIOUS
  <2>2. wait' = [wait EXCEPT ![r] = v]
    BY <1>1, <1>2, <1>4, <1>5, <2>1 DEF Look
  <2>3. /\ DOMAIN v = WaitFields /\ v.at = "allowed" /\ v.bucket = 0 /\ v.paid = v.n
        /\ v.n = w.n /\ v.nth = w.nth /\ v.burst = w.burst /\ v.remaining = w.remaining
        /\ v.chunk = w.chunk /\ v.due = w.due /\ v.limit = w.limit
        /\ ~v.metered /\ v.changed = w.changed
    BY <1>3, <2>1 DEF WaitFields, None
  <2>4. Good(v, r, buckets)
    BY <1>3, <2>3 DEF Good, Typed, Accounted, ChunksFit, States
  <2>5. QED
    BY <2>2, <2>4, SameBuckets, OneWaits DEF Look, admin, IInv
<1>6. CASE current[l] # None
  <2>1. PICK k : k = current[l]
    OBVIOUS
  <2>2. k \in Nat /\ k \in DOMAIN buckets[l] /\ buckets[l][k].burst \in Nat \ {0}
    BY <1>6, <2>1 DEF IInv, AdminInv, GoodBuckets, GoodBucket
  <2>3. PICK v : v = [w EXCEPT !.at = "loop", !.bucket = k, !.remaining = w.n,
                               !.burst = buckets[l][k].burst, !.paid = 0, !.changed = FALSE]
    OBVIOUS
  <2>4. wait' = [wait EXCEPT ![r] = v]
    BY <1>1, <1>2, <1>4, <1>6, <2>1, <2>3 DEF Look
  <2>5. /\ DOMAIN v = WaitFields /\ v.at = "loop" /\ v.bucket = k /\ v.paid = 0
        /\ v.n = w.n /\ v.nth = w.nth /\ v.burst = buckets[l][k].burst /\ v.remaining = w.n
        /\ v.chunk = w.chunk /\ v.due = w.due /\ v.limit = w.limit
        /\ ~v.metered /\ v.changed = FALSE
    BY <1>3, <2>3 DEF WaitFields
  <2>6. Typed(v, Chain[r]) /\ Accounted(v)
    BY <1>3, <2>2, <2>5 DEF Typed, Accounted, States
  <2>7. ChunksFit(v, buckets[Chain[r][v.nth]])
    BY <1>3, <2>2, <2>5 DEF ChunksFit
  <2>8. Good(v, r, buckets)
    BY <2>6, <2>7 DEF Good
  <2>9. QED
    BY <2>4, <2>8, SameBuckets, OneWaits DEF Look, admin, IInv
<1>7. QED
  BY <1>5, <1>6

LEMMA WaitNStep == ASSUME IInv, NEW r \in Requests, WaitN(r) PROVE IInv'
<1>1. PICK l \in Limiters : l = Limiter(r)
  BY Located
<1>2. PICK b, chunk, tokens, due, w :
        /\ b = Bucket(r) /\ chunk = NextChunk(r) /\ tokens = b.tokens - Cost(r) * Scale
        /\ due = TicksFor(Most(0, -tokens), b.limit) /\ w = [wait[r] EXCEPT !.changed = FALSE]
  OBVIOUS
<1>3. /\ wait[r].at = "loop" /\ wait[r].bucket \in DOMAIN buckets[l]
      /\ b = buckets[l][wait[r].bucket] /\ GoodBucket(b)
      /\ chunk <= b.burst
  BY <1>1, <1>2, Located DEF WaitN, Bucket
<1>12. tokens \in Int /\ due \in Int
  BY <1>2, <1>3, NextIs, TicksAre, LimitsAssumption DEF WaitN, Cost, GoodBucket, Most
<1>4. GoodBuckets(buckets') /\ Extends(buckets, buckets')
  <2>1. PICK new : new = [b EXCEPT !.tokens = tokens, !.lastEvent = due,
                             !.meter = IF due = 0 THEN @ + chunk * Scale ELSE @]
    OBVIOUS
  <2>2. Replaces(buckets, l, wait[r].bucket, new, buckets')
    BY <1>1, <1>2, <2>1 DEF WaitN, Replaces
  <2>3. GoodBucket(new) /\ new.burst = buckets[l][wait[r].bucket].burst
    BY <1>3, <1>12, <2>1 DEF GoodBucket, BucketFields
  <2>4. QED
    BY <1>3, <2>2, <2>3, BurstKept DEF IInv
<1>5. /\ Good(wait[r], r, buckets) /\ Typed(wait[r], Chain[r]) /\ l = Chain[r][wait[r].nth]
      /\ wait[r].paid + wait[r].remaining = wait[r].n /\ wait[r].burst > 0 /\ wait[r].n > 0
  BY <1>1, <1>3 DEF IInv, WaitInv, Good, Accounted, Limiter
<1>6. /\ DOMAIN w = WaitFields /\ w.at = "loop" /\ w.changed = FALSE
      /\ w.nth = wait[r].nth /\ w.n = wait[r].n /\ w.bucket = wait[r].bucket
      /\ w.burst = wait[r].burst /\ w.remaining = wait[r].remaining /\ w.chunk = wait[r].chunk
      /\ w.due = wait[r].due /\ w.limit = wait[r].limit /\ w.paid = wait[r].paid
  BY <1>2, <1>3, <1>5 DEF Typed, WaitFields
<1>7. Typed(w, Chain[r])
  BY <1>5, <1>6 DEF Typed, States
<1>8. /\ chunk \in Nat \ {0} /\ chunk <= w.remaining
      /\ chunk = w.remaining \/ w.burst <= buckets[l][w.bucket].burst
  BY <1>2, <1>3, <1>6, NextIs
<1>9. CASE due = 0
  <2>1. wait' = [wait EXCEPT ![r] = ChunkAllowed(w, chunk)]
    BY <1>2, <1>9 DEF WaitN
  <2>2. Good(ChunkAllowed(w, chunk), r, buckets)
    BY <1>3, <1>5, <1>6, <1>7, <1>8, ChunkPaid
  <2>3. QED
    BY <1>4, <2>1, <2>2, OneWaits DEF WaitN, admin
<1>10. CASE due # 0
  <2>1. PICK v : v = [w EXCEPT !.at = "sleeping", !.chunk = chunk,
                               !.due = due, !.limit = b.limit, !.metered = TRUE]
    OBVIOUS
  <2>2. wait' = [wait EXCEPT ![r] = v]
    BY <1>2, <1>10, <2>1 DEF WaitN
  <2>3. /\ DOMAIN v = WaitFields /\ v.at = "sleeping" /\ v.changed = FALSE
        /\ v.nth = w.nth /\ v.n = w.n /\ v.bucket = w.bucket /\ v.burst = w.burst
        /\ v.remaining = w.remaining /\ v.chunk = chunk /\ v.paid = w.paid
        /\ v.due = due /\ v.limit = b.limit /\ v.metered = TRUE
    BY <1>6, <2>1 DEF WaitFields
  <2>4. Typed(v, Chain[r]) /\ Accounted(v)
    <3>1. b.limit \in Nat \ {0}
      BY <1>3, LimitsAssumption DEF GoodBucket
    <3>2. Typed(v, Chain[r])
      BY <1>7, <1>8, <1>12, <2>3, <3>1 DEF Typed, States
    <3>3. Accounted(v)
      <4>1. /\ v.paid + v.remaining = v.n /\ v.n > 0 /\ v.burst > 0
            /\ v.chunk > 0 /\ v.chunk <= v.remaining /\ v.limit > 0 /\ v.remaining > 0
        <5>1. w.remaining \in Int
          BY <1>7 DEF Typed
        <5>2. QED
          BY <1>5, <1>6, <1>8, <2>3, <3>1, <5>1
      <4>2. QED
        BY <2>3, <4>1 DEF Accounted
    <3>4. QED
      BY <3>2, <3>3
  <2>5. ChunksFit(v, buckets[Chain[r][v.nth]])
    BY <1>3, <1>5, <1>6, <1>8, <2>3 DEF ChunksFit
  <2>6. Good(v, r, buckets)
    BY <2>4, <2>5 DEF Good
  <2>7. QED
    BY <1>4, <2>2, <2>6, OneWaits DEF WaitN, admin
<1>11. QED
  BY <1>9, <1>10

LEMMA WakeStep == ASSUME IInv, NEW r \in Requests, Wake(r) PROVE IInv'
<1>1. PICK w : w = wait[r]
  OBVIOUS
<1>2. /\ Good(w, r, buckets) /\ w.at = "sleeping" /\ Typed(w, Chain[r])
      /\ w.paid + w.remaining = w.n /\ w.n > 0 /\ w.burst > 0
      /\ w.chunk > 0 /\ w.chunk <= w.remaining
  BY <1>1 DEF Wake, IInv, WaitInv, Good, Accounted
<1>3. /\ w.bucket \in DOMAIN buckets[Chain[r][w.nth]] /\ w.chunk \in Nat \ {0}
      /\ \/ w.changed \/ w.burst <= buckets[Chain[r][w.nth]][w.bucket].burst
         \/ w.chunk = w.remaining
  BY <1>2 DEF Good, ChunksFit, Typed
<1>4. Good(ChunkAllowed(w, w.chunk), r, buckets)
  BY <1>2, <1>3, ChunkPaid
<1>5. wait' = [wait EXCEPT ![r] = ChunkAllowed(w, w.chunk)]
  BY <1>1 DEF Wake, IInv, WaitInv
<1>6. QED
  BY <1>4, <1>5, SameBuckets, OneWaits DEF Wake, admin, IInv

LEMMA ExceedsBurstStep == ASSUME IInv, NEW r \in Requests, ExceedsBurst(r) PROVE IInv'
<1>1. PICK w : w = [NotWaiting EXCEPT !.at = "refused", !.changed = wait[r].changed]
  OBVIOUS
<1>2. /\ DOMAIN w = WaitFields /\ w.at = "refused" /\ w.n = 0 /\ w.nth = 1
      /\ w.bucket = NotWaiting.bucket /\ w.burst = NotWaiting.burst
      /\ w.remaining = NotWaiting.remaining /\ w.chunk = NotWaiting.chunk
      /\ w.paid = NotWaiting.paid /\ w.due = NotWaiting.due /\ w.limit = NotWaiting.limit
      /\ ~w.metered /\ w.changed = wait[r].changed
  BY <1>1 DEF NotWaiting, WaitFields
<1>3. wait[r].changed
  <2>1. Bucket(r).burst \in Nat /\ NextChunk(r) > Bucket(r).burst /\ wait[r].at = "loop"
    BY Located DEF ExceedsBurst, GoodBucket
  <2>2. wait[r].changed \/ wait[r].burst <= Bucket(r).burst
    BY <2>1 DEF IInv, WaitInv, Good, ChunksFit, Bucket, Limiter
  <2>3. NextChunk(r) \in Nat /\ NextChunk(r) <= wait[r].burst /\ wait[r].burst \in Nat
    BY <2>1, NextIs DEF IInv, WaitInv, Good, Typed
  <2>4. QED
    BY <2>1, <2>2, <2>3
<1>4. 1 \in 1 .. Len(Chain[r])
  BY Located
<1>5. w.changed /\ w.n \in Nat
  BY <1>2, <1>3
<1>6. Good(w, r, buckets)
  BY <1>2, <1>4, <1>5, Fresh
<1>7. QED
  BY <1>1, <1>6, SameBuckets, OneWaits DEF ExceedsBurst, admin, IInv

(* A wait is right, if it was, when the meter starts again: whether it is  *)
(* told that the limits changed or not.                                    *)
LEMMA StillGood ==
  ASSUME NEW r \in Requests, NEW w, Good(w, r, buckets), NEW v,
         \/ v = [w EXCEPT !.metered = FALSE]
         \/ v = [w EXCEPT !.changed = TRUE, !.metered = FALSE]
  PROVE  /\ Good(v, r, buckets) /\ v.metered = FALSE
         /\ v = [w EXCEPT !.changed = TRUE, !.metered = FALSE] => v.changed = TRUE
<1>1. DOMAIN w = WaitFields
  BY DEF Good, Typed
<1>2. /\ DOMAIN v = WaitFields /\ v.at = w.at
      /\ v.changed = w.changed \/ v.changed = TRUE
      /\ v.nth = w.nth /\ v.n = w.n /\ v.bucket = w.bucket /\ v.burst = w.burst
      /\ v.remaining = w.remaining /\ v.chunk = w.chunk /\ v.paid = w.paid
      /\ v.due = w.due /\ v.limit = w.limit /\ v.metered = FALSE
  BY <1>1 DEF WaitFields
<1>3. v = [w EXCEPT !.changed = TRUE, !.metered = FALSE] => v.changed = TRUE
  BY <1>1 DEF WaitFields
<1>4. Typed(v, Chain[r]) /\ Accounted(v) /\ ChunksFit(v, buckets[Chain[r][v.nth]])
  BY <1>2 DEF Good, Typed, Accounted, ChunksFit
<1>5. QED
  BY <1>2, <1>3, <1>4 DEF Good

LEMMA UnmeteredWaits ==
  ASSUME WaitInv, NEW l, NEW k
  PROVE  /\ DOMAIN Unmetered(l, k) = Requests
         /\ \A r \in Requests : Good(Unmetered(l, k)[r], r, buckets)
<1>1. ASSUME NEW r \in Requests PROVE Good(Unmetered(l, k)[r], r, buckets)
  <2>1. Good(wait[r], r, buckets)
    BY DEF WaitInv
  <2>2. PICK v : v = [wait[r] EXCEPT !.metered = FALSE]
    OBVIOUS
  <2>3. Good(v, r, buckets)
    BY <2>1, <2>2, StillGood
  <2>4. QED
    BY <2>1, <2>2, <2>3 DEF Unmetered
<1>2. QED
  BY <1>1 DEF Unmetered

LEMMA CancelStep == ASSUME IInv, NEW r \in Requests, Cancel(r) PROVE IInv'
<1>1. PICK w : w = [NotWaiting EXCEPT !.at = "cancelled"]
  OBVIOUS
<1>2. /\ DOMAIN w = WaitFields /\ w.at = "cancelled" /\ w.n = 0 /\ w.nth = 1
      /\ w.bucket = NotWaiting.bucket /\ w.burst = NotWaiting.burst
      /\ w.remaining = NotWaiting.remaining /\ w.chunk = NotWaiting.chunk
      /\ w.paid = NotWaiting.paid /\ w.due = NotWaiting.due /\ w.limit = NotWaiting.limit
      /\ ~w.metered
  BY <1>1 DEF NotWaiting, WaitFields
<1>3. 1 \in 1 .. Len(Chain[r])
  BY Located
<1>4. Good(w, r, buckets)
  BY <1>2, <1>3, Fresh
<1>5. PICK l, k, b :
        /\ l = Limiter(r) /\ k = wait[r].bucket /\ b = Bucket(r) /\ b = buckets[l][k]
        /\ l \in Limiters /\ k \in DOMAIN buckets[l] /\ GoodBucket(b)
  BY Located DEF Cancel, Bucket
<1>14. Typed(wait[r], Chain[r])
  BY DEF IInv, WaitInv, Good
<1>13. /\ Restored(wait[r], b) \in Int
       /\ \A y \in Int : Least(b.burst * Scale, b.tokens + y) \in Int
       /\ wait[r].at = "sleeping" => TicksFor(wait[r].chunk * Scale, wait[r].limit) \in Int
  <2>1. /\ wait[r].chunk * Scale \in Int /\ wait[r].due \in Int /\ wait[r].limit \in Nat
        /\ wait[r].at = "sleeping" => wait[r].limit \in Nat \ {0}
    BY <1>14, LimitsAssumption DEF Typed, IInv, WaitInv, Good, Accounted
  <2>2. b.lastEvent \in Int /\ b.tokens \in Int /\ b.burst * Scale \in Int
    BY <1>5, LimitsAssumption DEF GoodBucket
  <2>3. Restored(wait[r], b) \in Int
    <3>1. wait[r].limit * (b.lastEvent - wait[r].due) \in Int
      BY <2>1, <2>2
    <3>2. QED
      BY <2>1, <3>1 DEF Restored, Most
  <2>4. \A y \in Int : Least(b.burst * Scale, b.tokens + y) \in Int
    BY <2>2 DEF Least
  <2>5. QED
    BY <2>1, <2>3, <2>4, TicksAre
<1>6. GoodBuckets(buckets') /\ Extends(buckets, buckets')
  <2>1. CASE buckets' = buckets
    BY <2>1, SameBuckets DEF IInv
  <2>2. CASE buckets' # buckets
    <3>1. PICK tokens, lastEvent, meter :
            /\ buckets' = [buckets EXCEPT ![l][k] =
                 [b EXCEPT !.tokens = tokens, !.lastEvent = lastEvent, !.meter = meter]]
            /\ tokens \in Int /\ lastEvent \in Int
      <4>1. PICK back, prev :
              /\ back = Restored(wait[r], b) /\ wait[r].at = "sleeping"
              /\ prev = wait[r].due - TicksFor(wait[r].chunk * Scale, wait[r].limit)
              /\ \E meter :
                   buckets' = [buckets EXCEPT ![l][k] =
                     [b EXCEPT !.tokens = Least(b.burst * Scale, b.tokens + back),
                               !.lastEvent = IF wait[r].due = b.lastEvent /\ prev >= 0
                                               THEN prev ELSE b.lastEvent,
                               !.meter = meter]]
        BY <1>5, <2>2 DEF Cancel
      <4>2. back \in Int /\ prev \in Int
        <5>1. wait[r].due \in Int
          BY <1>14 DEF Typed
        <5>2. TicksFor(wait[r].chunk * Scale, wait[r].limit) \in Int
          BY <1>13, <4>1
        <5>3. QED
          BY <1>13, <4>1, <5>1, <5>2
      <4>3. PICK tokens \in Int, lastEvent \in Int :
              /\ tokens = Least(b.burst * Scale, b.tokens + back)
              /\ lastEvent = IF wait[r].due = b.lastEvent /\ prev >= 0 THEN prev ELSE b.lastEvent
        <5>1. b.lastEvent \in Int
          BY <1>5 DEF GoodBucket
        <5>2. QED
          BY <1>13, <4>2, <5>1
      <4>4. PICK meter :
              buckets' = [buckets EXCEPT ![l][k] =
                [b EXCEPT !.tokens = tokens, !.lastEvent = lastEvent, !.meter = meter]]
        BY <4>1, <4>3
      <4>5. QED
        BY <4>3, <4>4
    <3>2. PICK new : new = [b EXCEPT !.tokens = tokens, !.lastEvent = lastEvent, !.meter = meter]
      OBVIOUS
    <3>3. Replaces(buckets, l, k, new, buckets')
      BY <3>1, <3>2 DEF Replaces
    <3>4. GoodBucket(new) /\ new.burst = buckets[l][k].burst
      BY <1>5, <3>1, <3>2 DEF GoodBucket, BucketFields
    <3>5. QED
      BY <1>5, <3>3, <3>4, BurstKept DEF IInv
  <2>3. QED
    BY <2>1, <2>2
<1>7. PICK others :
        /\ others = wait \/ others = Unmetered(l, k)
        /\ wait' = [others EXCEPT ![r] = w]
  BY <1>1, <1>5 DEF Cancel
<1>8. DOMAIN others = Requests /\ \A q \in Requests : Good(others[q], q, buckets)
  BY <1>7, UnmeteredWaits DEF IInv, WaitInv
<1>9. /\ wait' = [q \in Requests |-> wait'[q]]
      /\ \A q \in Requests : Good(wait'[q], q, buckets)
  BY <1>4, <1>7, <1>8
<1>10. \A q \in Requests : Good(wait'[q], q, buckets')
  <2>1. ASSUME NEW q \in Requests PROVE Good(wait'[q], q, buckets')
    <3>1. PICK v : v = wait'[q] /\ Good(v, q, buckets)
      BY <1>9
    <3>2. QED
      BY <1>6, <3>1, GoodStays
  <2>2. QED
    BY <2>1
<1>11. AdminInv'
  BY <1>6 DEF Cancel, IInv, AdminInv, Extends
<1>12. QED
  BY <1>6, <1>9, <1>10, <1>11 DEF IInv, WaitInv

LEMMA ProceedStep == ASSUME IInv, NEW r \in Requests, Proceed(r) PROVE IInv'
<1>1. PICK w : w = wait[r]
  OBVIOUS
<1>2. Typed(w, Chain[r]) /\ DOMAIN wait = Requests /\ w.n > 0
  BY <1>1 DEF Proceed, IInv, WaitInv, Good, Accounted
<1>3. CASE w.nth < Len(Chain[r])
  <2>1. PICK v : v = [NotWaiting EXCEPT !.at = "look", !.n = w.n, !.nth = w.nth + 1]
    OBVIOUS
  <2>2. wait' = [wait EXCEPT ![r] = v]
    BY <1>1, <1>2, <1>3, <2>1 DEF Proceed
  <2>3. /\ DOMAIN v = WaitFields /\ v.at = "look" /\ v.n = w.n /\ v.nth = w.nth + 1
        /\ v.bucket = NotWaiting.bucket /\ v.burst = NotWaiting.burst
        /\ v.remaining = NotWaiting.remaining /\ v.chunk = NotWaiting.chunk
        /\ v.paid = NotWaiting.paid /\ v.due = NotWaiting.due /\ v.limit = NotWaiting.limit
        /\ ~v.metered
    BY <2>1 DEF NotWaiting, WaitFields
  <2>4. v.n \in Nat /\ v.n > 0 /\ v.nth \in 1 .. Len(Chain[r])
    BY <1>2, <1>3, <2>3, Located DEF Typed
  <2>5. Good(v, r, buckets)
    BY <2>3, <2>4, Fresh
  <2>6. QED
    BY <2>2, <2>5, SameBuckets, OneWaits DEF Proceed, admin, IInv
<1>4. CASE ~(w.nth < Len(Chain[r]))
  <2>1. wait' = [wait EXCEPT ![r] = NotWaiting]
    BY <1>1, <1>2, <1>4 DEF Proceed
  <2>2. DOMAIN NotWaiting = WaitFields /\ NotWaiting.at = "idle" /\ NotWaiting.n = 0
        /\ NotWaiting.nth = 1 /\ ~NotWaiting.metered
    BY DEF NotWaiting, WaitFields
  <2>3. 1 \in 1 .. Len(Chain[r])
    BY Located
  <2>4. Good(NotWaiting, r, buckets)
    BY <2>2, <2>3, Fresh
  <2>5. QED
    BY <2>1, <2>4, SameBuckets, OneWaits DEF Proceed, admin, IInv
<1>5. QED
  BY <1>3, <1>4

------------------------------------------------------------------------------
(* Time, and other limits. *)

LEMMA TickStep == ASSUME IInv, Tick PROVE IInv'
<1>1. /\ buckets' = [l \in Limiters |-> buckets'[l]]
      /\ \A l \in Limiters :
           /\ DOMAIN buckets'[l] = DOMAIN buckets[l]
           /\ buckets'[l] = [k \in DOMAIN buckets[l] |-> buckets'[l][k]]
  BY DEF Tick
<1>2. ASSUME NEW l \in Limiters, NEW k \in DOMAIN buckets[l]
      PROVE  GoodBucket(buckets'[l][k]) /\ buckets'[l][k].burst = buckets[l][k].burst
  <2>1. PICK tokens, lastEvent, meter :
          /\ buckets'[l][k] = [buckets[l][k] EXCEPT !.tokens = tokens, !.lastEvent = lastEvent,
                                                    !.meter = meter]
          /\ tokens = Least(buckets[l][k].burst * Scale,
                            buckets[l][k].tokens + buckets[l][k].limit)
          /\ lastEvent = Most(0, buckets[l][k].lastEvent - 1)
    BY DEF Tick
  <2>2. GoodBucket(buckets[l][k])
    BY DEF IInv, GoodBuckets
  <2>3. tokens \in Int /\ lastEvent \in Int
    BY <2>1, <2>2, LimitsAssumption DEF GoodBucket, Least, Most
  <2>4. QED
    BY <2>1, <2>2, <2>3 DEF GoodBucket, BucketFields
<1>3. Extends(buckets, buckets')
  BY <1>1, <1>2 DEF Extends
<1>4. GoodBuckets(buckets')
  <2>1. ASSUME NEW l \in Limiters PROVE IsList(buckets'[l])
    <3>1. PICK n \in Nat : DOMAIN buckets[l] = 1 .. n
      BY DEF IInv, GoodBuckets, IsList
    <3>2. DOMAIN buckets'[l] = 1 .. n /\ buckets'[l] = [k \in 1 .. n |-> buckets'[l][k]]
      BY <1>1, <3>1
    <3>3. QED
      BY <3>2 DEF IsList
  <2>2. QED
    BY <1>1, <1>2, <2>1 DEF IInv, GoodBuckets
<1>5. AdminInv'
  BY <1>1 DEF Tick, admin, IInv, AdminInv
<1>6. ASSUME NEW r \in Requests PROVE Good(wait'[r], r, buckets)
  <2>1. PICK w : w = wait[r]
    OBVIOUS
  <2>2. Good(w, r, buckets) /\ DOMAIN w = WaitFields
    BY <2>1 DEF IInv, WaitInv, Good, Typed
  <2>3. CASE w.at = "sleeping"
    <3>1. PICK due \in Int : wait'[r] = [w EXCEPT !.due = due]
      <4>1. w.due \in Int /\ Most(-1, w.due - 1) \in Int
        BY <2>2 DEF Good, Typed, Most
      <4>2. wait'[r] = [w EXCEPT !.due = Most(-1, w.due - 1)]
        BY <2>1, <2>3 DEF Tick
      <4>3. QED
        BY <4>1, <4>2
    <3>2. PICK v : v = wait'[r]
      OBVIOUS
    <3>3. /\ DOMAIN v = WaitFields /\ v.at = w.at /\ v.changed = w.changed
          /\ v.nth = w.nth /\ v.n = w.n /\ v.bucket = w.bucket /\ v.burst = w.burst
          /\ v.remaining = w.remaining /\ v.chunk = w.chunk /\ v.paid = w.paid
          /\ v.limit = w.limit /\ v.due \in Int /\ v.metered = w.metered
      BY <2>2, <3>1, <3>2 DEF WaitFields
    <3>4. Typed(v, Chain[r]) /\ Accounted(v) /\ ChunksFit(v, buckets[Chain[r][v.nth]])
      BY <2>2, <3>3 DEF Good, Typed, Accounted, ChunksFit
    <3>5. QED
      BY <3>2, <3>4 DEF Good
  <2>4. CASE w.at # "sleeping"
    BY <2>1, <2>2, <2>4 DEF Tick
  <2>5. QED
    BY <2>3, <2>4
<1>7. ASSUME NEW r \in Requests PROVE Good(wait'[r], r, buckets')
  <2>1. PICK v : v = wait'[r] /\ Good(v, r, buckets)
    BY <1>6
  <2>2. QED
    BY <1>3, <2>1, GoodStays
<1>8. wait' = [r \in Requests |-> wait'[r]]
  BY DEF Tick
<1>9. QED
  BY <1>4, <1>5, <1>7, <1>8 DEF IInv, WaitInv

(* When a bucket is changed, even its burst, the waits at it are told.     *)
LEMMA Remetered ==
  ASSUME IInv, NEW l \in Limiters, NEW k \in DOMAIN buckets[l], NEW b, Remeter(l, k, b),
         GoodBucket(b)
  PROVE  /\ GoodBuckets(buckets') /\ WaitInv'
         /\ \A i \in Limiters : DOMAIN buckets'[i] = DOMAIN buckets[i]
<1>1. PICK new : new = [b EXCEPT !.meter = 0]
  OBVIOUS
<1>2. GoodBucket(new)
  BY <1>1 DEF GoodBucket, BucketFields
<1>3. Replaces(buckets, l, k, new, buckets')
  BY <1>1 DEF Remeter, Replaces
<1>4. /\ GoodBuckets(buckets')
      /\ \A i \in Limiters : DOMAIN buckets'[i] = DOMAIN buckets[i]
      /\ \A i \in Limiters : \A j \in DOMAIN buckets[i] :
           i # l \/ j # k => buckets'[i][j] = buckets[i][j]
  BY <1>2, <1>3, BucketReplaced DEF IInv
<1>6. ASSUME NEW r \in Requests PROVE Good(wait'[r], r, buckets')
  <2>1. Good(wait[r], r, buckets) /\ Limiter(r) \in Limiters
    BY Located DEF IInv, WaitInv
  <2>2. CASE Waiting(r, l, k)
    <3>1. PICK v : v = wait'[r] /\ v = [wait[r] EXCEPT !.changed = TRUE, !.metered = FALSE]
      BY <2>2 DEF Remeter
    <3>2. Good(v, r, buckets) /\ v.changed = TRUE
      BY <2>1, <3>1, StillGood
    <3>3. Chain[r][v.nth] \in Limiters
      BY <3>2, ChainAssumption DEF Good, Typed
    <3>4. ChunksFit(v, buckets'[Chain[r][v.nth]])
      BY <1>4, <3>2, <3>3 DEF Good, ChunksFit
    <3>5. QED
      BY <3>1, <3>2, <3>4 DEF Good
  <2>3. CASE ~Waiting(r, l, k)
    <3>1. wait'[r] = wait[r]
      BY <2>3 DEF Remeter
    <3>2. PICK v : v = wait[r]
      OBVIOUS
    <3>3. PICK i \in Limiters : i = Chain[r][v.nth]
      BY <2>1, <3>2 DEF Limiter
    <3>4. Typed(v, Chain[r]) /\ Accounted(v) /\ ChunksFit(v, buckets[i])
      BY <2>1, <3>2, <3>3 DEF Good
    <3>5. v.at \in {"loop", "sleeping"} => i # l \/ v.bucket # k
      BY <2>3, <3>2, <3>3 DEF Limiter, Waiting
    <3>6. ChunksFit(v, buckets'[i])
      BY <1>4, <3>4, <3>5 DEF ChunksFit
    <3>7. QED
      BY <3>1, <3>2, <3>3, <3>4, <3>6 DEF Good
  <2>4. QED
    BY <2>2, <2>3
<1>7. wait' = [r \in Requests |-> wait'[r]]
  BY DEF Remeter
<1>8. QED
  BY <1>4, <1>6, <1>7 DEF WaitInv

LEMMA UpdateLimitsStep == ASSUME IInv, UpdateLimits PROVE IInv'
<1>1. PICK l \in Limiters, limit \in Limits :
       \/ /\ limit = 0
          /\ current' = [current EXCEPT ![l] = None]
          /\ UNCHANGED <<buckets, wait, updater>>
       \/ /\ limit > 0 /\ current[l] = None
          /\ buckets' = [buckets EXCEPT ![l] = Append(@, NewBucket(limit))]
          /\ current' = [current EXCEPT ![l] = Len(buckets[l]) + 1]
          /\ UNCHANGED <<wait, updater>>
       \/ /\ limit > 0 /\ current[l] # None
          /\ Remeter(l, current[l], [buckets[l][current[l]] EXCEPT !.limit = limit])
          /\ updater' = [at |-> "burst", limiter |-> l, limit |-> limit]
          /\ UNCHANGED current
  BY DEF UpdateLimits
<1>2. updater.at = "idle" /\ limit \in Nat /\ GoodBuckets(buckets) /\ AdminInv /\ WaitInv
  BY LimitsAssumption DEF UpdateLimits, IInv
<1>3. CASE /\ limit = 0
           /\ current' = [current EXCEPT ![l] = None]
           /\ UNCHANGED <<buckets, wait, updater>>
  <2>1. AdminInv'
    BY <1>2, <1>3 DEF AdminInv, None
  <2>2. WaitInv' /\ GoodBuckets(buckets')
    BY <1>2, <1>3 DEF WaitInv
  <2>3. QED
    BY <2>1, <2>2 DEF IInv
<1>4. CASE /\ limit > 0 /\ current[l] = None
           /\ buckets' = [buckets EXCEPT ![l] = Append(@, NewBucket(limit))]
           /\ current' = [current EXCEPT ![l] = Len(buckets[l]) + 1]
           /\ UNCHANGED <<wait, updater>>
  <2>1. PICK b : b = NewBucket(limit)
    OBVIOUS
  <2>2. GoodBucket(b)
    BY <1>2, <1>4, <2>1, LimitsAssumption DEF NewBucket, GoodBucket, BucketFields
  <2>3. PICK f : f = Append(buckets[l], b)
    OBVIOUS
  <2>4. PICK n \in Nat \ {0} :
          /\ n = Len(buckets[l]) + 1 /\ IsList(f) /\ DOMAIN f = DOMAIN buckets[l] \cup {n}
          /\ f[n] = b /\ \A k \in DOMAIN buckets[l] : f[k] = buckets[l][k]
    BY <1>2, <2>3, AppendedBucket DEF GoodBuckets
  <2>5. /\ DOMAIN buckets' = Limiters /\ buckets' = [i \in Limiters |-> buckets'[i]]
        /\ buckets'[l] = f /\ \A i \in Limiters : i # l => buckets'[i] = buckets[i]
    BY <1>2, <1>4, <2>1, <2>3 DEF GoodBuckets
  <2>6. Extends(buckets, buckets')
    BY <2>4, <2>5 DEF Extends
  <2>7. GoodBuckets(buckets')
    <3>1. \A i \in Limiters : IsList(buckets'[i])
      BY <1>2, <2>4, <2>5 DEF GoodBuckets
    <3>2. ASSUME NEW i \in Limiters, NEW k \in DOMAIN buckets'[i]
          PROVE  GoodBucket(buckets'[i][k])
      <4>1. CASE i = l /\ k = n
        BY <2>2, <2>4, <2>5, <4>1
      <4>2. CASE i = l /\ k # n
        BY <1>2, <2>4, <2>5, <4>2 DEF GoodBuckets
      <4>3. CASE i # l
        BY <1>2, <2>5, <4>3 DEF GoodBuckets
      <4>4. QED
        BY <4>1, <4>2, <4>3
    <3>3. QED
      BY <2>5, <3>1, <3>2 DEF GoodBuckets
  <2>8. AdminInv'
    <3>1. current' \in [Limiters -> Nat]
      BY <1>2, <1>4, <2>4 DEF AdminInv
    <3>2. ASSUME NEW i \in Limiters, current'[i] # None
          PROVE  current'[i] \in DOMAIN buckets'[i]
      BY <1>2, <1>4, <2>4, <2>5, <3>2 DEF AdminInv
    <3>3. QED
      BY <1>2, <1>4, <3>1, <3>2 DEF AdminInv
  <2>9. WaitInv'
    <3>1. ASSUME NEW r \in Requests PROVE Good(wait[r], r, buckets')
      BY <1>2, <2>6, GoodStays DEF WaitInv
    <3>2. QED
      BY <1>2, <1>4, <3>1 DEF WaitInv
  <2>10. QED
    BY <2>7, <2>8, <2>9 DEF IInv
<1>5. CASE /\ limit > 0 /\ current[l] # None
           /\ Remeter(l, current[l], [buckets[l][current[l]] EXCEPT !.limit = limit])
           /\ updater' = [at |-> "burst", limiter |-> l, limit |-> limit]
           /\ UNCHANGED current
  <2>1. PICK k \in DOMAIN buckets[l] : k = current[l]
    BY <1>2, <1>5 DEF AdminInv
  <2>2. PICK b : b = [buckets[l][k] EXCEPT !.limit = limit]
    OBVIOUS
  <2>3. GoodBucket(buckets[l][k])
    BY <1>2 DEF GoodBuckets
  <2>4. GoodBucket(b)
    BY <1>1, <1>2, <1>5, <2>2, <2>3 DEF GoodBucket, BucketFields
  <2>5. Remeter(l, k, b)
    BY <1>5, <2>1, <2>2
  <2>6. /\ GoodBuckets(buckets') /\ WaitInv'
        /\ \A i \in Limiters : DOMAIN buckets'[i] = DOMAIN buckets[i]
    BY <2>4, <2>5, Remetered
  <2>7. AdminInv'
    BY <1>2, <1>5, <2>6 DEF AdminInv
  <2>8. QED
    BY <2>6, <2>7 DEF IInv
<1>6. QED
  BY <1>1, <1>3, <1>4, <1>5

LEMMA SetBurstStep == ASSUME IInv, SetBurst PROVE IInv'
<1>1. GoodBuckets(buckets) /\ AdminInv /\ WaitInv
  BY DEF IInv
<1>2. PICK l \in Limiters : l = updater.limiter
  BY <1>1 DEF SetBurst, AdminInv
<1>3. PICK k \in DOMAIN buckets[l] : k = current[l]
  BY <1>1, <1>2 DEF SetBurst, AdminInv
<1>4. PICK b, tokens :
        /\ tokens = Least(buckets[l][k].tokens, updater.limit * Scale)
        /\ b = [buckets[l][k] EXCEPT !.burst = updater.limit, !.tokens = tokens]
        /\ Remeter(l, k, b)
  BY <1>2, <1>3 DEF SetBurst
<1>5. GoodBucket(buckets[l][k]) /\ updater.limit \in Nat \ {0}
  BY <1>1 DEF GoodBuckets, SetBurst, AdminInv
<1>6. GoodBucket(b)
  <2>1. tokens \in Int
    BY <1>4, <1>5, LimitsAssumption DEF Least, GoodBucket
  <2>2. QED
    BY <1>4, <1>5, <2>1 DEF GoodBucket, BucketFields
<1>7. /\ GoodBuckets(buckets') /\ WaitInv'
      /\ \A i \in Limiters : DOMAIN buckets'[i] = DOMAIN buckets[i]
  BY <1>4, <1>6, Remetered
<1>8. AdminInv'
  BY <1>1, <1>7 DEF SetBurst, NoUpdate, AdminInv
<1>9. QED
  BY <1>7, <1>8 DEF IInv

------------------------------------------------------------------------------
(* Together. *)

LEMMA InitIInv == Init => IInv
<1> SUFFICES ASSUME Init PROVE IInv
  OBVIOUS
<1>1. PICK limit \in Initial :
        /\ buckets = [l \in Limiters |->
                        IF limit[l] > 0 THEN <<NewBucket(limit[l])>> ELSE <<>>]
        /\ current = [l \in Limiters |-> IF limit[l] > 0 THEN 1 ELSE None]
  BY DEF Init
<1>2. \A l \in Limiters : limit[l] \in Nat
  BY LimitsAssumption
<1>3. GoodBuckets(buckets)
  <2>1. ASSUME NEW l \in Limiters
        PROVE  /\ IsList(buckets[l])
               /\ \A k \in DOMAIN buckets[l] :
                    GoodBucket(buckets[l][k])
    <3>1. CASE limit[l] > 0
      <4>1. PICK b : b = NewBucket(limit[l])
        OBVIOUS
      <4>2. GoodBucket(b)
        BY <1>2, <3>1, <4>1, LimitsAssumption DEF NewBucket, GoodBucket, BucketFields
      <4>3. PICK f : f = buckets[l] /\ f = <<b>>
        BY <1>1, <3>1, <4>1
      <4>4. DOMAIN f = 1 .. 1 /\ f = [i \in 1 .. 1 |-> f[i]] /\ f[1] = b
        BY <4>3
      <4>5. IsList(f)
        BY <4>4 DEF IsList
      <4>6. QED
        BY <4>2, <4>3, <4>4, <4>5
    <3>2. CASE ~(limit[l] > 0)
      <4>1. PICK f : f = buckets[l] /\ f = <<>>
        BY <1>1, <3>2
      <4>2. PICK n \in Nat : DOMAIN f = 1 .. n /\ f = [i \in 1 .. n |-> f[i]] /\ n = 0
        BY <4>1
      <4>3. IsList(f)
        BY <4>2 DEF IsList
      <4>4. DOMAIN f = {}
        BY <4>1
      <4>5. QED
        BY <4>1, <4>3, <4>4
    <3>3. QED
      BY <3>1, <3>2
  <2>2. buckets = [l \in Limiters |-> buckets[l]]
    BY <1>1
  <2>3. QED
    BY <2>1, <2>2 DEF GoodBuckets
<1>4. AdminInv
  <2>1. current \in [Limiters -> Nat]
    BY <1>1 DEF None
  <2>2. ASSUME NEW l \in Limiters, current[l] # None PROVE current[l] \in DOMAIN buckets[l]
    <3>1. limit[l] > 0 /\ current[l] = 1
      BY <1>1, <2>2
    <3>2. PICK b : buckets[l] = <<b>>
      BY <1>1, <3>1
    <3>3. QED
      BY <3>1, <3>2
  <2>3. updater.at = "idle"
    BY DEF Init, NoUpdate
  <2>4. QED
    BY <2>1, <2>2, <2>3 DEF AdminInv
<1>5. WaitInv
  <2>1. ASSUME NEW r \in Requests PROVE Good(NotWaiting, r, buckets)
    <3>1. DOMAIN NotWaiting = WaitFields /\ NotWaiting.at = "idle" /\ NotWaiting.n = 0
          /\ NotWaiting.nth = 1 /\ ~NotWaiting.metered
      BY DEF NotWaiting, WaitFields
    <3>2. 1 \in 1 .. Len(Chain[r])
      BY ChainAssumption
    <3>3. QED
      BY <3>1, <3>2, Fresh
  <2>2. wait = [r \in Requests |-> NotWaiting]
    BY DEF Init
  <2>3. QED
    BY <2>1, <2>2 DEF WaitInv
<1>6. QED
  BY <1>3, <1>4, <1>5 DEF IInv

LEMMA InductiveStep == IInv /\ [Next]_vars => IInv'
<1> SUFFICES ASSUME IInv, [Next]_vars PROVE IInv'
  OBVIOUS
<1>1. ASSUME NEW r \in Requests, Stream(r) PROVE IInv'
  BY <1>1, ReadStep, LookStep, WaitNStep, WakeStep, ExceedsBurstStep, CancelStep, ProceedStep
  DEF Stream
<1>2. CASE Tick
  BY <1>2, TickStep
<1>3. CASE UpdateLimits
  BY <1>3, UpdateLimitsStep
<1>4. CASE SetBurst
  BY <1>4, SetBurstStep
<1>5. CASE UNCHANGED vars
  BY <1>5 DEF vars, IInv, AdminInv, WaitInv
<1>6. QED
  BY <1>1, <1>2, <1>3, <1>4, <1>5 DEF Next

LEMMA Inductive == Spec => []IInv
BY InitIInv, InductiveStep, PTL DEF Spec

(* PaidInFull: however a read is cut into chunks (waitWithChunks), and     *)
(* whatever happens to the limits meanwhile, it passes a limiter only when *)
(* the chunks that were waited for add up to it.                           *)
THEOREM ReadsArePaidInFull == Spec => []PaidInFull
<1>1. IInv => PaidInFull
  BY DEF IInv, WaitInv, Good, Accounted, PaidInFull
<1>2. QED
  BY <1>1, Inductive, PTL

(* RefusedOnlyByAChange: a read of any size gets through, if the limits    *)
(* stay; only WaitN of a burst that was lowered under the wait can fail.   *)
THEOREM OnlyAChangeRefuses == Spec => []RefusedOnlyByAChange
<1>1. IInv => RefusedOnlyByAChange
  BY DEF IInv, WaitInv, Good, Accounted, RefusedOnlyByAChange
<1>2. QED
  BY <1>1, Inductive, PTL

------------------------------------------------------------------------------
(***************************************************************************)
(* A queue at a bucket, counted in units of the limit, which is what the   *)
(* bucket gains in a tick: it holds at most beta and has t of them, or     *)
(* owes -t; its meter is m; what is taken next is due after what is due at *)
(* e; and i of the set S waits for p[i], due in d[i] ticks, or is over     *)
(* since if that is negative.  What the meter shows and what is due up to  *)
(* a point x, together, is what the bucket may let through by then, and    *)
(* whoever is due behind i is so by as much as it waits for.  That holds   *)
(* of the points where somebody is due, of now, and of the one when the    *)
(* bucket owes nothing.  The meter alone would not be inductive: a tick    *)
(* adds to it what is due.                                                 *)
(***************************************************************************)
Through(S, d, x) == {s \in S : 1 <= d[s] /\ d[s] <= x}
Between(S, d, i, x) == {s \in S \ {i} : d[i] <= d[s] /\ d[s] <= x}
Fits(beta, m, p, d, S, x) ==
  /\ m + SumOver(p, Through(S, d, x)) <= beta + x
  /\ \A i \in S : 0 <= d[i] /\ d[i] <= x => SumOver(p, Between(S, d, i, x)) <= x - d[i]
Queue(beta, m, t, e, p, d, S) ==
  /\ beta \in Nat /\ m \in Int /\ t \in Int /\ e \in Int /\ t <= beta
  /\ Fits(beta, m, p, d, S, 0) /\ Fits(beta, m, p, d, S, -t)
  /\ \A i \in S : p[i] <= beta
  /\ \A i \in S : 0 <= d[i] => d[i] <= -t /\ -t <= e /\ Fits(beta, m, p, d, S, d[i])

Sizes == [Requests -> Nat]
Dues == [Requests -> Int]

(* What the waits of streams come to. *)
LEMMA SumsAreNat ==
  ASSUME NEW p, p \in Sizes, NEW S \in SUBSET Requests PROVE SumOver(p, S) \in Nat
  BY SumLess, RequestsAssumption DEF Sizes

LEMMA SumOne ==
  ASSUME NEW p, p \in Sizes, NEW S \in SUBSET Requests, NEW y \in S
  PROVE  SumOver(p, S \ {y}) \in Nat /\ p[y] \in Nat /\ SumOver(p, S) = p[y] + SumOver(p, S \ {y})
  BY SumWith, SumsAreNat, RequestsAssumption DEF Sizes

LEMMA SumMonotone ==
  ASSUME NEW p, p \in Sizes, NEW T \in SUBSET Requests, NEW S \in SUBSET T
  PROVE  SumOver(p, S) <= SumOver(p, T) /\ SumOver(p, S) \in Nat /\ SumOver(p, T) \in Nat
  BY SumLess, RequestsAssumption DEF Sizes

LEMMA SumOfNone == ASSUME NEW p, p \in Sizes PROVE SumOver(p, {}) = 0
  BY SumWith, RequestsAssumption DEF Sizes

(* A queue depends on no other waits. *)
LEMMA FitsSame ==
  ASSUME NEW p, p \in Sizes, NEW q, q \in Sizes, NEW d, NEW c,
         NEW S \in SUBSET Requests, \A s \in S : p[s] = q[s] /\ d[s] = c[s],
         NEW beta, NEW m, NEW x, Fits(beta, m, p, d, S, x)
  PROVE  Fits(beta, m, q, c, S, x)
<1>1. Through(S, c, x) = Through(S, d, x) /\ Through(S, d, x) \in SUBSET S
  BY DEF Through
<1>2. SumOver(q, Through(S, c, x)) = SumOver(p, Through(S, d, x))
  <2>1. PICK A \in SUBSET Requests : A = Through(S, d, x) /\ A = Through(S, c, x)
    BY <1>1
  <2>2. \A s \in A : p[s] = q[s]
    BY <1>1, <2>1
  <2>3. QED
    BY <2>1, <2>2, SumSame, RequestsAssumption DEF Sizes
<1>3. ASSUME NEW i \in S PROVE SumOver(q, Between(S, c, i, x)) = SumOver(p, Between(S, d, i, x))
  <2>1. PICK A \in SUBSET Requests : A = Between(S, d, i, x) /\ A = Between(S, c, i, x)
    BY DEF Between
  <2>2. \A s \in A : p[s] = q[s]
    BY <2>1 DEF Between
  <2>3. QED
    BY <2>1, <2>2, SumSame, RequestsAssumption DEF Sizes
<1>4. QED
  BY <1>2, <1>3 DEF Fits

LEMMA QueueSame ==
  ASSUME NEW p, p \in Sizes, NEW q, q \in Sizes, NEW d, NEW c,
         NEW S \in SUBSET Requests, \A s \in S : p[s] = q[s] /\ d[s] = c[s],
         NEW beta, NEW m, NEW t, NEW e, Queue(beta, m, t, e, p, d, S)
  PROVE  Queue(beta, m, t, e, q, c, S)
<1>1. \A x : Fits(beta, m, p, d, S, x) => Fits(beta, m, q, c, S, x)
  BY FitsSame
<1>2. QED
  BY <1>1 DEF Queue

(* A new or changed bucket has none. *)
LEMMA QueueRestarts ==
  ASSUME NEW p, p \in Sizes, NEW d, NEW beta \in Nat, NEW t \in Int, t <= beta, NEW e \in Int
  PROVE  Queue(beta, 0, t, e, p, d, {})
<1>1. \A x : Through({}, d, x) = {}
  BY DEF Through
<1>2. \A x \in Int : 0 <= beta + x => Fits(beta, 0, p, d, {}, x)
  BY <1>1, SumOfNone DEF Fits
<1>3. QED
  BY <1>2 DEF Queue

(* Somebody leaves. *)
LEMMA FitsWithout ==
  ASSUME NEW p, p \in Sizes, NEW d, NEW beta \in Nat, NEW m \in Int, NEW n \in Int, n <= m,
         NEW S \in SUBSET Requests, NEW T \in SUBSET S,
         NEW x \in Int, Fits(beta, m, p, d, S, x), d \in Dues
  PROVE  Fits(beta, n, p, d, T, x)
<1>1. n + SumOver(p, Through(T, d, x)) <= beta + x
  <2>1. PICK A \in SUBSET Requests : A = Through(S, d, x)
    BY DEF Through
  <2>2. PICK B \in SUBSET A : B = Through(T, d, x)
    BY <2>1 DEF Through
  <2>3. SumOver(p, B) <= SumOver(p, A) /\ SumOver(p, B) \in Nat /\ SumOver(p, A) \in Nat
    BY SumMonotone
  <2>4. m + SumOver(p, A) <= beta + x
    BY <2>1 DEF Fits
  <2>5. QED
    BY <2>2, <2>3, <2>4
<1>2. ASSUME NEW i \in T, 0 <= d[i], d[i] <= x PROVE SumOver(p, Between(T, d, i, x)) <= x - d[i]
  <2>1. PICK A \in SUBSET Requests : A = Between(S, d, i, x)
    BY DEF Between
  <2>2. PICK B \in SUBSET A : B = Between(T, d, i, x)
    BY <2>1 DEF Between
  <2>3. SumOver(p, B) <= SumOver(p, A) /\ SumOver(p, B) \in Nat /\ SumOver(p, A) \in Nat
    BY SumMonotone
  <2>4. SumOver(p, A) <= x - d[i] /\ d[i] \in Int
    BY <1>2, <2>1 DEF Fits, Dues
  <2>5. QED
    BY <2>2, <2>3, <2>4
<1>3. QED
  BY <1>1, <1>2 DEF Fits

LEMMA QueueShortens ==
  ASSUME NEW p, p \in Sizes, NEW d, d \in Dues, NEW S \in SUBSET Requests, NEW T \in SUBSET S,
         NEW beta, NEW m, NEW t, NEW e, Queue(beta, m, t, e, p, d, S)
  PROVE  Queue(beta, m, t, e, p, d, T)
<1>1. beta \in Nat /\ m \in Int /\ t \in Int
  BY DEF Queue
<1>2. \A x \in Int : Fits(beta, m, p, d, S, x) => Fits(beta, m, p, d, T, x)
  BY <1>1, FitsWithout
<1>3. \A i \in T : d[i] \in Int
  BY DEF Dues
<1>4. QED
  BY <1>1, <1>2, <1>3 DEF Queue

(* What is there is taken at once. *)
LEMMA QueuePays ==
  ASSUME NEW p, p \in Sizes, NEW d, d \in Dues, NEW S \in SUBSET Requests,
         NEW beta, NEW m, NEW t, NEW e, Queue(beta, m, t, e, p, d, S),
         NEW n \in Nat \ {0}, n <= t
  PROVE  Queue(beta, m + n, t - n, 0, p, d, S)
<1>1. /\ beta \in Nat /\ m \in Int /\ t \in Int /\ t <= beta
      /\ m + SumOver(p, Through(S, d, -t)) <= beta + (-t)
      /\ \A i \in S : d[i] \in Int /\ ~(0 <= d[i])
      /\ \A i \in S : p[i] <= beta
  BY DEF Queue, Fits, Dues
<1>2. \A x : Through(S, d, x) = {}
  BY <1>1 DEF Through
<1>3. m <= beta - t
  BY <1>1, <1>2, SumOfNone
<1>4. ASSUME NEW x \in Int, m + n <= beta + x PROVE Fits(beta, m + n, p, d, S, x)
  <2>1. SumOver(p, Through(S, d, x)) = 0
    BY <1>2, SumOfNone
  <2>2. QED
    BY <1>1, <1>4, <2>1 DEF Fits
<1>5. Fits(beta, m + n, p, d, S, 0) /\ Fits(beta, m + n, p, d, S, -(t - n))
  BY <1>1, <1>3, <1>4
<1>6. QED
  BY <1>1, <1>5 DEF Queue

(* What is not is waited for, behind all who wait already. *)
LEMMA QueueTakes ==
  ASSUME NEW p, p \in Sizes, NEW d, d \in Dues, NEW S \in SUBSET Requests,
         NEW beta, NEW m, NEW t, NEW e, Queue(beta, m, t, e, p, d, S),
         NEW r \in Requests \ S, p[r] \in Nat \ {0}, p[r] <= beta,
         d[r] = p[r] - t, d[r] > 0
  PROVE  Queue(beta, m, t - p[r], d[r], p, d, S \cup {r})
<1>1. PICK T \in SUBSET Requests : T = S \cup {r}
  OBVIOUS
<1>2. PICK n \in Nat \ {0} : n = p[r]
  OBVIOUS
<1>3. /\ beta \in Nat /\ m \in Int /\ t \in Int /\ t <= beta
      /\ Fits(beta, m, p, d, S, 0) /\ Fits(beta, m, p, d, S, -t)
      /\ \A i \in S : p[i] <= beta
      /\ \A i \in S : 0 <= d[i] => d[i] <= -t /\ Fits(beta, m, p, d, S, d[i])
      /\ \A i \in Requests : d[i] \in Int
  BY DEF Queue, Dues
<1>4. PICK y \in Int : y = -t /\ d[r] = y + n /\ -(t - n) = y + n
  BY <1>2, <1>3
<1>5. \A i \in S : d[i] <= y \/ ~(0 <= d[i])
  BY <1>3, <1>4
\* Who is due before r waits as before.
<1>6. ASSUME NEW x \in Int, x < y + n, Fits(beta, m, p, d, S, x) PROVE Fits(beta, m, p, d, T, x)
  <2>1. Through(T, d, x) = Through(S, d, x)
    BY <1>1, <1>3, <1>4, <1>6 DEF Through
  <2>2. \A i \in T : d[i] <= x => i \in S
    BY <1>1, <1>3, <1>4, <1>6
  <2>3. \A i \in S : Between(T, d, i, x) = Between(S, d, i, x)
    BY <1>1, <1>3, <1>4, <1>6 DEF Between
  <2>4. QED
    BY <1>6, <2>1, <2>2, <2>3 DEF Fits
<1>7. Fits(beta, m, p, d, T, y + n)
  <2>1. m + SumOver(p, Through(T, d, y + n)) <= beta + (y + n)
    <3>1. PICK A \in SUBSET Requests : A = Through(S, d, y)
      BY DEF Through
    <3>2. PICK B \in SUBSET Requests : B = Through(T, d, y + n)
      BY DEF Through
    <3>3. r \in B /\ B \ {r} = A
      BY <1>1, <1>3, <1>4, <1>5, <3>1, <3>2 DEF Through
    <3>4. SumOver(p, B) = n + SumOver(p, A) /\ SumOver(p, A) \in Nat
      BY <1>2, <3>3, SumOne
    <3>5. m + SumOver(p, A) <= beta + y
      BY <1>3, <1>4, <3>1 DEF Fits
    <3>6. QED
      BY <1>3, <3>2, <3>4, <3>5
  <2>2. ASSUME NEW i \in T, 0 <= d[i], d[i] <= y + n
        PROVE  SumOver(p, Between(T, d, i, y + n)) <= (y + n) - d[i]
    <3>1. CASE i = r
      <4>1. Between(T, d, i, y + n) = {}
        BY <1>1, <1>3, <1>4, <1>5, <3>1 DEF Between
      <4>2. SumOver(p, Between(T, d, i, y + n)) = 0
        BY <4>1, SumOfNone
      <4>3. (y + n) - d[i] = 0
        BY <1>4, <3>1
      <4>4. QED
        BY <4>2, <4>3
    <3>2. CASE i # r
      <4>1. PICK A \in SUBSET Requests : A = Between(S, d, i, y)
        BY DEF Between
      <4>2. PICK B \in SUBSET Requests : B = Between(T, d, i, y + n)
        BY DEF Between
      <4>3. i \in S /\ d[i] <= y
        BY <1>1, <1>5, <2>2, <3>2
      <4>4. r \in B /\ B \ {r} = A
        BY <1>1, <1>3, <1>4, <1>5, <2>2, <3>2, <4>1, <4>2, <4>3 DEF Between
      <4>5. SumOver(p, B) = n + SumOver(p, A) /\ SumOver(p, A) \in Nat
        BY <1>2, <4>4, SumOne
      <4>6. SumOver(p, A) <= y - d[i]
        BY <1>3, <1>4, <2>2, <4>1, <4>3 DEF Fits
      <4>7. d[i] \in Int
        BY <1>3
      <4>8. QED
        BY <4>2, <4>5, <4>6, <4>7
    <3>3. QED
      BY <3>1, <3>2
  <2>3. QED
    BY <2>1, <2>2 DEF Fits
<1>8. Fits(beta, m, p, d, T, 0)
  BY <1>3, <1>4, <1>6
<1>9. ASSUME NEW i \in T, 0 <= d[i]
      PROVE  d[i] <= y + n /\ Fits(beta, m, p, d, T, d[i])
  <2>1. CASE i = r
    BY <1>4, <1>7, <2>1
  <2>2. CASE i # r
    <3>1. i \in S /\ d[i] \in Int /\ d[i] <= y
      BY <1>1, <1>3, <1>4, <1>9, <2>2
    <3>2. d[i] < y + n /\ Fits(beta, m, p, d, S, d[i])
      BY <1>3, <1>9, <3>1
    <3>3. QED
      BY <1>6, <3>1, <3>2
  <2>3. QED
    BY <2>1, <2>2
<1>10. \A i \in T : p[i] <= beta
  BY <1>1, <1>3
<1>11. t - n \in Int /\ t - n <= beta /\ d[r] \in Int
  BY <1>3
<1>12. Queue(beta, m, t - n, d[r], p, d, T)
  BY <1>3, <1>4, <1>7, <1>8, <1>9, <1>10, <1>11 DEF Queue
<1>13. QED
  BY <1>1, <1>2, <1>12

(* The last of the queue gives up. *)
LEMMA QueueGetsBack ==
  ASSUME NEW p, p \in Sizes, NEW d, d \in Dues, NEW S \in SUBSET Requests,
         NEW beta, NEW m, NEW t, NEW e, Queue(beta, m, t, e, p, d, S),
         NEW r \in S, p[r] \in Nat \ {0}, 0 <= d[r], d[r] = e
  PROVE  Queue(beta, IF d[r] = 0 THEN m - p[r] ELSE m, Least(beta, t + p[r]),
               IF d[r] - p[r] >= 0 THEN d[r] - p[r] ELSE e, p, d, S \ {r})
<1>1. PICK T \in SUBSET S : T = S \ {r}
  OBVIOUS
<1>2. PICK n \in Nat \ {0} : n = p[r]
  OBVIOUS
<1>3. /\ beta \in Nat /\ m \in Int /\ t \in Int /\ t <= beta
      /\ Fits(beta, m, p, d, S, 0) /\ Fits(beta, m, p, d, S, d[r])
      /\ \A i \in S : p[i] <= beta
      /\ \A i \in S : 0 <= d[i] => d[i] <= -t /\ -t <= e /\ Fits(beta, m, p, d, S, d[i])
      /\ \A i \in Requests : d[i] \in Int
  BY DEF Queue, Dues
<1>4. PICK y \in Nat : y = -t /\ d[r] = y /\ e = y
  BY <1>3
<1>5. PICK k \in Int : k = IF d[r] = 0 THEN m - n ELSE m
  <2>1. m \in Int /\ m - n \in Int
    BY <1>3
  <2>2. QED
    BY <2>1
<1>6. k <= m
  BY <1>3, <1>5
<1>7. PICK u \in Int : u = Least(beta, t + n)
  BY <1>3 DEF Least
<1>8. u <= beta /\ u <= t + n /\ (u = beta \/ u = t + n)
  BY <1>3, <1>7 DEF Least
<1>9. ASSUME NEW i \in T, 0 <= d[i] PROVE d[i] <= y - n
  <2>1. PICK A \in SUBSET Requests : A = Between(S, d, i, y)
    BY DEF Between
  <2>2. i # r /\ d[i] <= y
    BY <1>1, <1>3, <1>4, <1>9
  <2>3. r \in A
    BY <1>3, <1>4, <2>1, <2>2 DEF Between
  <2>4. SumOver(p, A) <= y - d[i]
    BY <1>1, <1>3, <1>4, <1>9, <2>1, <2>2 DEF Fits
  <2>5. SumOver(p, A \ {r}) \in Nat /\ SumOver(p, A) = n + SumOver(p, A \ {r})
    BY <1>2, <2>3, SumOne
  <2>6. d[i] \in Int
    BY <1>3
  <2>7. QED
    BY <2>4, <2>5, <2>6
<1>10. Fits(beta, k, p, d, T, 0)
  BY <1>3, <1>6, FitsWithout
<1>11. \A i \in T : 0 <= d[i] => Fits(beta, k, p, d, T, d[i])
  BY <1>1, <1>3, <1>6, FitsWithout
<1>12. k + SumOver(p, Through(T, d, y - n)) <= beta + (y - n)
  <2>1. PICK A \in SUBSET Requests : A = Through(S, d, y)
    BY DEF Through
  <2>2. PICK B \in SUBSET Requests : B = Through(T, d, y - n)
    BY <1>1 DEF Through
  <2>3. m + SumOver(p, A) <= beta + y
    BY <1>3, <1>4, <2>1 DEF Fits
  <2>4. CASE y = 0
    <3>1. k = m - n
      BY <1>4, <1>5, <2>4
    <3>2. B = {} /\ A = {}
      BY <1>1, <1>3, <2>1, <2>2, <2>4 DEF Through
    <3>3. SumOver(p, B) = 0 /\ SumOver(p, A) = 0
      BY <3>2, SumOfNone
    <3>4. QED
      BY <1>3, <2>2, <2>3, <3>1, <3>3
  <2>5. CASE y # 0
    <3>1. r \in A /\ B \subseteq A \ {r}
      BY <1>1, <1>3, <1>4, <2>1, <2>2, <2>5 DEF Through
    <3>2. SumOver(p, A \ {r}) \in Nat /\ SumOver(p, A) = n + SumOver(p, A \ {r})
      BY <1>2, <3>1, SumOne
    <3>3. SumOver(p, B) <= SumOver(p, A \ {r}) /\ SumOver(p, B) \in Nat
      BY <3>1, SumMonotone
    <3>4. QED
      BY <1>3, <1>6, <2>2, <2>3, <3>2, <3>3
  <2>6. QED
    BY <2>4, <2>5
<1>13. ASSUME NEW i \in T, 0 <= d[i], d[i] <= y - n
       PROVE  SumOver(p, Between(T, d, i, y - n)) <= (y - n) - d[i]
  <2>1. PICK A \in SUBSET Requests : A = Between(S, d, i, y)
    BY DEF Between
  <2>2. PICK B \in SUBSET Requests : B = Between(T, d, i, y - n)
    BY <1>1 DEF Between
  <2>3. d[i] \in Int
    BY <1>3
  <2>4. r \in A /\ B \subseteq A \ {r}
    BY <1>1, <1>3, <1>4, <1>13, <2>1, <2>2 DEF Between
  <2>5. SumOver(p, A \ {r}) \in Nat /\ SumOver(p, A) = n + SumOver(p, A \ {r})
    BY <1>2, <2>4, SumOne
  <2>6. SumOver(p, B) <= SumOver(p, A \ {r}) /\ SumOver(p, B) \in Nat
    BY <2>4, SumMonotone
  <2>7. SumOver(p, A) <= y - d[i]
    BY <1>1, <1>3, <1>4, <1>13, <2>1, <2>3 DEF Fits
  <2>8. QED
    BY <2>2, <2>3, <2>5, <2>6, <2>7
<1>14. Fits(beta, k, p, d, T, y - n)
  BY <1>12, <1>13 DEF Fits
<1>15. Fits(beta, k, p, d, T, -u)
  <2>1. CASE u = t + n
    <3>1. -u = y - n
      BY <1>3, <1>4, <2>1
    <3>2. QED
      BY <1>14, <3>1
  <2>2. CASE u # t + n
    <3>1. -u = -beta /\ -beta <= 0 /\ y - n <= -beta
      BY <1>3, <1>4, <1>8, <2>2
    <3>2. Through(T, d, y - n) = {} /\ Through(T, d, -u) = {}
      BY <1>1, <1>3, <3>1 DEF Through
    <3>3. k <= beta + (y - n) /\ SumOver(p, Through(T, d, -u)) = 0
      <4>1. SumOver(p, Through(T, d, y - n)) = 0 /\ SumOver(p, Through(T, d, -u)) = 0
        BY <3>2, SumOfNone
      <4>2. QED
        BY <1>3, <1>12, <4>1
    <3>4. k + SumOver(p, Through(T, d, -u)) <= beta + (-u)
      BY <1>3, <3>1, <3>3
    <3>5. \A i \in T : ~(0 <= d[i] /\ d[i] <= -u) \/ -u = 0
      BY <1>1, <1>3, <3>1
    <3>6. QED
      BY <1>10, <3>4, <3>5 DEF Fits
  <2>3. QED
    BY <2>1, <2>2
<1>16. PICK f \in Int : f = IF y - n >= 0 THEN y - n ELSE y
  OBVIOUS
<1>17. \A i \in T : 0 <= d[i] => d[i] <= -u
  BY <1>1, <1>3, <1>4, <1>8, <1>9
<1>18. -u <= f
  BY <1>3, <1>4, <1>8, <1>16
<1>19. Queue(beta, k, u, f, p, d, T)
  BY <1>1, <1>3, <1>8, <1>10, <1>11, <1>15, <1>17, <1>18 DEF Queue
<1>20. QED
  BY <1>1, <1>2, <1>4, <1>5, <1>7, <1>16, <1>19

(* A tick passes. *)
LEMMA QueueTicks ==
  ASSUME NEW p, p \in Sizes, NEW d, d \in Dues, NEW c, c \in Dues, NEW S \in SUBSET Requests,
         \A s \in S : c[s] = Most(-1, d[s] - 1),
         NEW beta, NEW m, NEW t, NEW e, Queue(beta, m, t, e, p, d, S)
  PROVE  Queue(beta, Most(0, m - 1) + SumOver(p, {s \in S : d[s] = 1}), Least(beta, t + 1),
               Most(0, e - 1), p, c, S)
<1>1. /\ beta \in Nat /\ m \in Int /\ t \in Int /\ t <= beta /\ e \in Int
      /\ Fits(beta, m, p, d, S, 0) /\ Fits(beta, m, p, d, S, -t)
      /\ \A i \in S : p[i] <= beta
      /\ \A i \in S : 0 <= d[i] => d[i] <= -t /\ -t <= e /\ Fits(beta, m, p, d, S, d[i])
      /\ \A i \in Requests : d[i] \in Int /\ c[i] \in Int
  BY DEF Queue, Dues
<1>2. \A i \in S : /\ d[i] \in Int /\ c[i] \in Int
                   /\ 0 <= c[i] => d[i] = c[i] + 1
                   /\ 1 <= d[i] => d[i] = c[i] + 1
  BY <1>1 DEF Most
<1>3. PICK now \in SUBSET Requests : now = {s \in S : d[s] = 1}
  OBVIOUS
<1>4. PICK n \in Nat : n = SumOver(p, now)
  BY SumsAreNat
<1>5. PICK k \in Int, u \in Int, f \in Int :
        k = Most(0, m - 1) + n /\ u = Least(beta, t + 1) /\ f = Most(0, e - 1)
  BY <1>1 DEF Least, Most
<1>6. /\ m >= 1 => k = n + (m - 1)
      /\ m <= 0 => k = n
      /\ t + 1 <= beta => u = t + 1
      /\ t >= beta => u = beta
      /\ e >= 1 => f = e - 1
      /\ e <= 0 => f = 0
  BY <1>1, <1>5 DEF Least, Most
\* A queue is let through one by one, the first of it within the burst.
<1>7. ASSUME NEW x \in Int, 1 <= x, Fits(beta, m, p, d, S, x)
      PROVE  Most(0, m - 1) + SumOver(p, Through(S, d, x)) <= beta + (x - 1)
  <2>1. PICK A \in SUBSET Requests : A = Through(S, d, x)
    BY DEF Through
  <2>2. m + SumOver(p, A) <= beta + x /\ SumOver(p, A) \in Nat
    BY <1>7, <2>1, SumsAreNat DEF Fits
  <2>3. CASE m >= 1
    BY <1>1, <2>1, <2>2, <2>3 DEF Most
  <2>4. CASE m <= 0 /\ A = {}
    <3>1. SumOver(p, A) = 0 /\ Most(0, m - 1) = 0
      BY <1>1, <2>4, SumOfNone DEF Most
    <3>2. QED
      BY <1>1, <1>7, <2>1, <3>1
  <2>5. CASE m <= 0 /\ A # {}
    <3>1. PICK K : K = {d[s] : s \in A}
      OBVIOUS
    <3>2. K \subseteq Nat /\ K # {}
      <4>1. \A s \in A : d[s] \in Nat
        BY <1>1, <2>1 DEF Through
      <4>2. QED
        BY <2>5, <3>1, <4>1
    <3>3. PICK i \in K : \A j \in K : i <= j
      BY <3>2, LeastOf
    <3>4. PICK a \in A : \A s \in A : d[a] <= d[s]
      BY <3>1, <3>3
    <3>5. a \in S /\ d[a] \in Int /\ 1 <= d[a] /\ d[a] <= x
      BY <1>1, <2>1, <3>4 DEF Through
    <3>6. A \ {a} = Between(S, d, a, x)
      BY <1>1, <1>7, <2>1, <3>4, <3>5 DEF Through, Between
    <3>7. SumOver(p, A \ {a}) <= x - d[a]
      <4>1. 0 <= d[a]
        BY <3>5
      <4>2. SumOver(p, Between(S, d, a, x)) <= x - d[a]
        BY <1>7, <3>5, <4>1 DEF Fits
      <4>3. QED
        BY <3>6, <4>2
    <3>8. /\ SumOver(p, A) = p[a] + SumOver(p, A \ {a}) /\ SumOver(p, A \ {a}) \in Nat
          /\ p[a] \in Nat /\ p[a] <= beta
      BY <1>1, <3>5, SumOne
    <3>9. Most(0, m - 1) = 0
      BY <1>1, <2>5 DEF Most
    <3>10. QED
      BY <1>1, <1>7, <2>1, <3>5, <3>7, <3>8, <3>9
  <2>6. QED
    BY <1>1, <2>3, <2>4, <2>5
<1>8. ASSUME NEW x \in Int, 1 <= x, Fits(beta, m, p, d, S, x) PROVE Fits(beta, k, p, c, S, x - 1)
  <2>1. k + SumOver(p, Through(S, c, x - 1)) <= beta + (x - 1)
    <3>1. PICK A \in SUBSET Requests : A = Through(S, d, x)
      BY DEF Through
    <3>2. PICK B \in SUBSET Requests : B = Through(S, c, x - 1)
      BY DEF Through
    <3>3. A = now \cup B /\ now \cap B = {}
      <4>1. ASSUME NEW s \in S
            PROVE  /\ 1 <= d[s] /\ d[s] <= x <=> d[s] = 1 \/ (1 <= c[s] /\ c[s] <= x - 1)
                   /\ ~(d[s] = 1 /\ 1 <= c[s])
        BY <1>2, <1>8
      <4>2. QED
        BY <1>3, <3>1, <3>2, <4>1 DEF Through
    <3>4. SumOver(p, now \cup B) = SumOver(p, now) + SumOver(p, B) /\ SumOver(p, B) \in Nat
      BY <3>3, SumUnion, RequestsAssumption DEF Sizes
    <3>5. Most(0, m - 1) + SumOver(p, A) <= beta + (x - 1)
      BY <1>7, <1>8, <3>1
    <3>6. PICK b \in Nat, v \in Int : b = SumOver(p, B) /\ v = Most(0, m - 1)
      BY <1>1, <3>4 DEF Most
    <3>7. v + (n + b) <= beta + (x - 1) /\ k = v + n
      BY <1>4, <1>5, <3>3, <3>4, <3>5, <3>6
    <3>8. QED
      BY <1>1, <3>2, <3>6, <3>7
  <2>2. ASSUME NEW i \in S, 0 <= c[i], c[i] <= x - 1
        PROVE  SumOver(p, Between(S, c, i, x - 1)) <= (x - 1) - c[i]
    <3>1. d[i] = c[i] + 1 /\ c[i] \in Int
      BY <1>2, <2>2
    <3>2. Between(S, c, i, x - 1) = Between(S, d, i, x)
      <4>1. ASSUME NEW s \in S
            PROVE  d[i] <= d[s] /\ d[s] <= x <=> c[i] <= c[s] /\ c[s] <= x - 1
        BY <1>2, <1>8, <2>2, <3>1
      <4>2. QED
        BY <4>1 DEF Between
    <3>3. SumOver(p, Between(S, d, i, x)) <= x - d[i]
      BY <1>8, <2>2, <3>1 DEF Fits
    <3>4. x - d[i] = (x - 1) - c[i]
      BY <3>1
    <3>5. QED
      BY <3>2, <3>3, <3>4
  <2>3. QED
    BY <2>1, <2>2 DEF Fits
<1>9. Fits(beta, k, p, c, S, 0)
  <2>1. CASE now = {}
    <3>1. n = 0
      BY <1>4, <2>1, SumOfNone
    <3>2. Through(S, d, 0) = {} /\ Through(S, c, 0) = {}
      BY <1>1 DEF Through
    <3>3. m <= beta /\ SumOver(p, Through(S, c, 0)) = 0
      <4>1. SumOver(p, Through(S, d, 0)) = 0 /\ SumOver(p, Through(S, c, 0)) = 0
        BY <3>2, SumOfNone
      <4>2. m + SumOver(p, Through(S, d, 0)) <= beta + 0
        BY <1>1 DEF Fits
      <4>3. QED
        BY <1>1, <4>1, <4>2
    <3>4. \A i \in S : ~(0 <= c[i] /\ c[i] <= 0)
      BY <1>2, <1>3, <2>1
    <3>5. k + SumOver(p, Through(S, c, 0)) <= beta + 0
      BY <1>1, <1>6, <3>1, <3>3
    <3>6. QED
      BY <3>4, <3>5 DEF Fits
  <2>2. CASE now # {}
    <3>1. PICK i \in S : d[i] = 1
      BY <1>3, <2>2
    <3>2. Fits(beta, m, p, d, S, 1)
      BY <1>1, <3>1
    <3>3. Fits(beta, k, p, c, S, 1 - 1)
      BY <1>8, <3>2
    <3>4. QED
      BY <3>3
  <2>3. QED
    BY <2>1, <2>2
<1>10. ASSUME NEW i \in S, 0 <= c[i]
       PROVE  c[i] <= -u /\ -u <= f /\ Fits(beta, k, p, c, S, c[i])
  <2>1. d[i] = c[i] + 1 /\ c[i] \in Int
    BY <1>2, <1>10
  <2>2. d[i] <= -t /\ -t <= e /\ Fits(beta, m, p, d, S, d[i])
    BY <1>1, <1>10, <2>1
  <2>3. Fits(beta, k, p, c, S, d[i] - 1) /\ d[i] - 1 = c[i]
    BY <1>8, <1>10, <2>1, <2>2
  <2>4. QED
    BY <1>1, <1>6, <1>10, <2>1, <2>2, <2>3
<1>11. Fits(beta, k, p, c, S, -u)
  <2>1. CASE -t >= 1
    <3>1. -u = -t - 1
      BY <1>1, <1>6, <2>1
    <3>2. Fits(beta, k, p, c, S, (-t) - 1)
      BY <1>1, <1>8, <2>1
    <3>3. QED
      BY <3>1, <3>2
  <2>2. CASE ~(-t >= 1)
    <3>1. now = {}
      BY <1>1, <1>3, <2>2
    <3>2. n = 0
      BY <1>4, <3>1, SumOfNone
    <3>3. -u <= 0
      BY <1>1, <1>6, <2>2
    <3>4. Through(S, d, -t) = {} /\ Through(S, c, -u) = {}
      BY <1>1, <1>2, <2>2, <3>3 DEF Through
    <3>5. m <= beta + (-t) /\ SumOver(p, Through(S, c, -u)) = 0
      <4>1. m + SumOver(p, Through(S, d, -t)) <= beta + (-t)
        BY <1>1 DEF Fits
      <4>2. SumOver(p, Through(S, d, -t)) = 0 /\ SumOver(p, Through(S, c, -u)) = 0
        BY <3>4, SumOfNone
      <4>3. QED
        BY <1>1, <4>1, <4>2
    <3>6. k + SumOver(p, Through(S, c, -u)) <= beta + (-u)
      BY <1>1, <1>6, <3>2, <3>5
    <3>7. \A i \in S : ~(0 <= c[i])
      <4>1. ASSUME NEW i \in S, 0 <= c[i] PROVE FALSE
        <5>1. 0 <= d[i] /\ 1 <= d[i] /\ d[i] \in Int
          BY <1>2, <4>1
        <5>2. QED
          BY <1>1, <2>2, <5>1
      <4>2. QED
        BY <4>1
    <3>8. QED
      BY <3>6, <3>7 DEF Fits
  <2>3. QED
    BY <2>1, <2>2
<1>12. u <= beta
  BY <1>1, <1>6
<1>13. Queue(beta, k, u, f, p, c, S)
  BY <1>1, <1>9, <1>10, <1>11, <1>12 DEF Queue
<1>14. QED
  BY <1>3, <1>4, <1>5, <1>13

------------------------------------------------------------------------------
(* The waits at a bucket. *)

(* A bucket never holds more than its burst. *)
LEMMA QuotientOfLeast ==
  ASSUME NEW n \in Nat \ {0}, NEW x \in Int, NEW y \in Int, NEW z \in Int, z = n * y
  PROVE  Least(z, x) \div n = Least(y, x \div n)
<1>1. PICK q \in Int : q = x \div n /\ n * q <= x /\ x < n * q + n
  BY Quotient
<1>2. n * q \in Int /\ n * (q + 1) = n * q + n
  OBVIOUS
<1>3. CASE z <= x
  <2>1. ~(n * (q + 1) <= n * y)
    BY <1>1, <1>2, <1>3
  <2>2. y <= q
    BY <2>1, TimesMore
  <2>3. Least(z, x) = z /\ Least(y, q) = y
    BY <1>3, <2>2 DEF Least
  <2>4. (0 + n * y) \div n = (0 \div n) + y
    BY QuotientAdds
  <2>5. 0 \div n = 0 /\ 0 + n * y = z
    OBVIOUS
  <2>6. QED
    BY <1>1, <2>3, <2>4, <2>5
<1>4. CASE ~(z <= x)
  <2>1. n * q <= n * y
    BY <1>1, <1>2, <1>4
  <2>2. q <= y
    BY <2>1, TimesMore
  <2>3. Least(z, x) = x /\ Least(y, q) = q
    BY <1>4, <2>2 DEF Least
  <2>4. QED
    BY <1>1, <2>3
<1>5. QED
  BY <1>3, <1>4

(* A byte, in what the bucket gains in a tick. *)
Unit(b) == Scale \div b.limit

(* The waits that count, as a queue. *)
Bytes(ws, u) == [r \in Requests |-> ws[r].chunk * u]
DueOf(ws) == [r \in Requests |-> ws[r].due]
Counted(ws, l, k) ==
  {r \in Requests : ws[r].metered /\ Chain[r][ws[r].nth] = l /\ ws[r].bucket = k}

(* They wait under the limit of their bucket, and queue for it. *)
Fair(b, ws, l, k) ==
  /\ b.tokens <= b.burst * Scale
  /\ \A r \in Counted(ws, l, k) : ws[r].limit = b.limit
  /\ \E m \in Int :
       /\ b.meter = b.limit * m
       /\ Queue(b.burst * Unit(b), m, b.tokens \div b.limit, b.lastEvent,
                Bytes(ws, Unit(b)), DueOf(ws), Counted(ws, l, k))
QueuesInv == \A l \in Limiters : \A k \in DOMAIN buckets[l] : Fair(buckets[l][k], wait, l, k)

Timed(ws) == \A r \in Requests : ws[r].chunk \in Nat /\ ws[r].due \in Int

(* Tokens, in units of a bucket. *)
LEMMA UnitOf ==
  ASSUME NEW b, GoodBucket(b)
  PROVE  /\ Unit(b) \in Nat \ {0} /\ b.limit \in Nat \ {0} /\ Scale = b.limit * Unit(b)
         /\ b.burst * Unit(b) \in Nat /\ b.burst * Scale = b.limit * (b.burst * Unit(b))
         /\ \A n \in Int : n * Unit(b) \in Int /\ n * Scale = b.limit * (n * Unit(b))
<1>1. PICK limit \in Limits \ {0} : limit = b.limit /\ limit \in Nat \ {0} /\ Scale % limit = 0
  BY LimitsAssumption DEF GoodBucket
<1>2. Scale \in Nat \ {0} /\ b.burst \in Nat
  BY LimitsAssumption DEF GoodBucket
<1>3. PICK u \in Int : u = Scale \div limit /\ Scale = limit * u
  <2>1. Scale = limit * (Scale \div limit) + (Scale % limit)
    BY <1>1, <1>2
  <2>2. Scale \div limit \in Int /\ limit * (Scale \div limit) \in Int
    BY <1>1, <1>2
  <2>3. QED
    BY <1>1, <1>2, <2>1, <2>2
<1>4. u \in Nat \ {0}
  <2>1. u <= 0 <=> limit * u <= limit * 0
    BY <1>1, TimesMore
  <2>2. limit * 0 = 0
    BY <1>1
  <2>3. QED
    BY <1>2, <1>3, <2>1, <2>2
<1>5. ASSUME NEW n \in Int PROVE n * u \in Int /\ n * Scale = limit * (n * u)
  <2>1. n * (limit * u) = limit * (n * u)
    BY <1>1
  <2>2. QED
    BY <1>3, <2>1
<1>6. b.limit = limit /\ Unit(b) = u
  BY <1>1, <1>3 DEF Unit
<1>7. PICK n \in Nat : n = b.burst /\ n * u \in Nat /\ n * Scale = limit * (n * u)
  <2>1. PICK n \in Nat : n = b.burst
    BY <1>2
  <2>2. n * u \in Nat
    BY <1>4
  <2>3. n * Scale = limit * (n * u)
    BY <1>5
  <2>4. QED
    BY <2>1, <2>2, <2>3
<1>8. QED
  BY <1>1, <1>3, <1>4, <1>5, <1>6, <1>7

(* What is queued for is a number. *)
LEMMA BytesAre ==
  ASSUME NEW ws, Timed(ws), NEW u \in Nat
  PROVE  /\ Bytes(ws, u) \in Sizes /\ DueOf(ws) \in Dues
         /\ \A r \in Requests : Bytes(ws, u)[r] = ws[r].chunk * u /\ DueOf(ws)[r] = ws[r].due
         /\ \A l, k : Counted(ws, l, k) \in SUBSET Requests
  BY DEF Timed, Bytes, DueOf, Sizes, Dues, Counted

(* The waits it counts may become fewer. *)
LEMMA FairFewer ==
  ASSUME NEW b, GoodBucket(b), NEW ws, Timed(ws), NEW vs, Timed(vs), NEW l, NEW k,
         Fair(b, ws, l, k), Counted(vs, l, k) \subseteq Counted(ws, l, k),
         \A r \in Counted(vs, l, k) : vs[r] = ws[r]
  PROVE  Fair(b, vs, l, k)
<1>1. PICK u \in Nat : u = Unit(b)
  BY UnitOf
<1>2. PICK m \in Int :
        /\ b.meter = b.limit * m
        /\ Queue(b.burst * u, m, b.tokens \div b.limit, b.lastEvent,
                 Bytes(ws, u), DueOf(ws), Counted(ws, l, k))
  BY <1>1 DEF Fair
<1>3. PICK p \in Sizes, q \in Sizes : p = Bytes(ws, u) /\ q = Bytes(vs, u)
  BY BytesAre
<1>4. PICK d \in Dues, c \in Dues : d = DueOf(ws) /\ c = DueOf(vs)
  BY <1>1, BytesAre
<1>5. PICK S \in SUBSET Requests : S = Counted(ws, l, k)
  BY <1>1, BytesAre
<1>6. PICK T \in SUBSET S : T = Counted(vs, l, k)
  BY <1>5
<1>7. T \in SUBSET Requests /\ \A s \in T : p[s] = q[s] /\ d[s] = c[s]
  BY <1>3, <1>4, <1>5, <1>6, BytesAre
<1>8. PICK beta, t : beta = b.burst * u /\ t = b.tokens \div b.limit
  OBVIOUS
<1>9. Queue(beta, m, t, b.lastEvent, p, d, T)
  BY <1>2, <1>3, <1>4, <1>5, <1>8, QueueShortens
<1>10. Queue(beta, m, t, b.lastEvent, q, c, T)
  BY <1>7, <1>9, QueueSame
<1>11. b.tokens <= b.burst * Scale /\ \A r \in T : vs[r].limit = b.limit
  BY <1>5, <1>6 DEF Fair
<1>12. QED
  BY <1>1, <1>2, <1>3, <1>4, <1>6, <1>8, <1>10, <1>11 DEF Fair

(* A bucket whose meter starts. *)
LEMMA FairRestarts ==
  ASSUME NEW b, GoodBucket(b), b.tokens <= b.burst * Scale, b.meter = 0,
         NEW ws, Timed(ws), NEW l, NEW k, Counted(ws, l, k) = {}
  PROVE  Fair(b, ws, l, k)
<1>1. PICK u \in Nat \ {0}, limit \in Nat \ {0} :
        u = Unit(b) /\ limit = b.limit /\ b.burst * Scale = limit * (b.burst * u)
  BY UnitOf DEF GoodBucket
<1>2. PICK beta \in Nat : beta = b.burst * u
  BY <1>1, UnitOf
<1>3. PICK t \in Int : t = b.tokens \div limit /\ limit * t <= b.tokens
  BY <1>1, Quotient DEF GoodBucket
<1>4. t <= beta
  <2>1. limit * t <= limit * beta
    <3>1. PICK x \in Int, y \in Int, z \in Int : x = limit * t /\ y = b.tokens /\ z = limit * beta
      BY DEF GoodBucket
    <3>2. y <= z /\ x <= y
      BY <1>1, <1>2, <1>3, <3>1
    <3>3. QED
      BY <3>1, <3>2
  <2>2. QED
    BY <2>1, TimesMore
<1>5. b.lastEvent \in Int
  BY DEF GoodBucket
<1>6. Bytes(ws, u) \in Sizes
  BY <1>1, BytesAre
<1>7. Queue(beta, 0, t, b.lastEvent, Bytes(ws, u), DueOf(ws), {})
  BY <1>4, <1>5, <1>6, QueueRestarts
<1>8. b.meter = b.limit * 0
  BY <1>1
<1>9. QED
  BY <1>1, <1>2, <1>3, <1>7, <1>8 DEF Fair

(* WaitN, of what is there. *)
Pays(b, n, new) ==
  /\ GoodBucket(new) /\ new.limit = b.limit /\ new.burst = b.burst
  /\ new.tokens = b.tokens - n * Scale /\ new.lastEvent = 0
  /\ new.meter = b.meter + n * Scale
LEMMA FairPays ==
  ASSUME NEW b, GoodBucket(b), NEW new, NEW n \in Nat \ {0}, Pays(b, n, new),
         NEW ws, Timed(ws), NEW l, NEW k, Fair(b, ws, l, k), n * Unit(b) <= b.tokens \div b.limit
  PROVE  Fair(new, ws, l, k)
<1>1. PICK u \in Nat \ {0}, limit \in Nat \ {0} :
        /\ u = Unit(b) /\ limit = b.limit /\ u = Unit(new) /\ limit = new.limit
        /\ n * Scale = limit * (n * u)
  BY UnitOf DEF Pays, Unit
<1>2. PICK m \in Int :
        /\ b.meter = limit * m
        /\ Queue(b.burst * u, m, b.tokens \div limit, b.lastEvent,
                 Bytes(ws, u), DueOf(ws), Counted(ws, l, k))
  BY <1>1 DEF Fair
<1>3. PICK p \in Sizes, d \in Dues, S \in SUBSET Requests :
        p = Bytes(ws, u) /\ d = DueOf(ws) /\ S = Counted(ws, l, k)
  BY <1>1, BytesAre
<1>4. PICK x \in Nat \ {0} : x = n * u
  OBVIOUS
<1>5. PICK beta, t, e : beta = b.burst * u /\ t = b.tokens \div limit /\ e = b.lastEvent
  OBVIOUS
<1>6. Queue(beta, m + x, t - x, 0, p, d, S)
  BY <1>1, <1>2, <1>3, <1>4, <1>5, QueuePays
<1>7. new.tokens \div limit = t - x
  <2>1. b.tokens \in Int /\ -x \in Int /\ new.tokens = b.tokens + limit * (-x)
    <3>1. limit * (-x) = -(limit * x) /\ limit * x \in Int
      OBVIOUS
    <3>2. PICK y \in Int : y = limit * x /\ n * Scale = y
      BY <1>1, <1>4, <3>1
    <3>3. QED
      BY <3>1, <3>2 DEF Pays, GoodBucket
  <2>2. new.tokens \div limit = t + (-x)
    BY <1>5, <2>1, QuotientAdds
  <2>3. t \in Int
    BY <1>5, <2>1, Quotient
  <2>4. QED
    BY <2>2, <2>3
<1>8. new.meter = limit * (m + x)
  <2>1. limit * (m + x) = limit * m + limit * x
    OBVIOUS
  <2>2. QED
    BY <1>1, <1>2, <1>4, <2>1 DEF Pays
<1>9. new.tokens <= new.burst * Scale
  <2>1. n * Scale >= 0 /\ n * Scale \in Int
    BY LimitsAssumption
  <2>2. b.tokens <= b.burst * Scale /\ b.burst * Scale \in Int /\ b.tokens \in Int
    BY LimitsAssumption DEF Fair, GoodBucket
  <2>3. QED
    BY <2>1, <2>2 DEF Pays
<1>10. \A r \in S : ws[r].limit = limit
  BY <1>1, <1>3 DEF Fair
<1>11. m + x \in Int /\ new.burst * u = beta /\ new.lastEvent = 0
  BY <1>5 DEF Pays
<1>12. QED
  BY <1>1, <1>3, <1>6, <1>7, <1>8, <1>9, <1>10, <1>11 DEF Fair

(* And of what is not. *)
Takes(b, n, new) ==
  /\ GoodBucket(new) /\ new.limit = b.limit /\ new.burst = b.burst
  /\ new.tokens = b.tokens - n * Scale /\ new.lastEvent = n * Unit(b) - (b.tokens \div b.limit)
  /\ new.meter = b.meter
Sleeps(b, n, w) == w.chunk = n /\ w.due = n * Unit(b) - (b.tokens \div b.limit) /\ w.limit = b.limit
LEMMA FairTakes ==
  ASSUME NEW b, GoodBucket(b), NEW new, NEW n \in Nat \ {0}, n <= b.burst, Takes(b, n, new),
         NEW ws, Timed(ws), NEW vs, Timed(vs), NEW l, NEW k, Fair(b, ws, l, k),
         NEW r \in Requests, Sleeps(b, n, vs[r]), vs[r].due > 0,
         r \notin Counted(ws, l, k), Counted(vs, l, k) = Counted(ws, l, k) \cup {r},
         \A q \in Requests : q # r => vs[q] = ws[q]
  PROVE  Fair(new, vs, l, k)
<1>1. PICK u \in Nat \ {0}, limit \in Nat \ {0} :
        /\ u = Unit(b) /\ limit = b.limit /\ u = Unit(new) /\ limit = new.limit
        /\ n * Scale = limit * (n * u)
  BY UnitOf DEF Takes, Unit
<1>2. PICK m \in Int :
        /\ b.meter = limit * m
        /\ Queue(b.burst * u, m, b.tokens \div limit, b.lastEvent,
                 Bytes(ws, u), DueOf(ws), Counted(ws, l, k))
  BY <1>1 DEF Fair
<1>3. PICK p \in Sizes, d \in Dues, S \in SUBSET Requests :
        p = Bytes(ws, u) /\ d = DueOf(ws) /\ S = Counted(ws, l, k)
  BY <1>1, BytesAre
<1>4. PICK q \in Sizes, c \in Dues : q = Bytes(vs, u) /\ c = DueOf(vs)
  BY <1>1, BytesAre
<1>5. PICK x \in Nat \ {0} : x = n * u
  OBVIOUS
<1>6. PICK beta, t, e : beta = b.burst * u /\ t = b.tokens \div limit /\ e = b.lastEvent
  OBVIOUS
<1>7. Queue(beta, m, t, e, q, c, S)
  <2>1. \A s \in S : p[s] = q[s] /\ d[s] = c[s]
    BY <1>3, <1>4, BytesAre
  <2>2. QED
    BY <1>2, <1>3, <1>4, <1>6, <2>1, QueueSame
<1>8. q[r] = x /\ c[r] = x - t /\ c[r] > 0
  BY <1>1, <1>4, <1>5, <1>6, BytesAre DEF Sleeps
<1>9. x <= beta
  <2>1. b.burst \in Int /\ u * n <= u * b.burst
    BY <1>1, TimesMore DEF GoodBucket
  <2>2. n * u = u * n /\ b.burst * u = u * b.burst
    BY <2>1
  <2>3. QED
    BY <1>5, <1>6, <2>1, <2>2
<1>10. Queue(beta, m, t - x, x - t, q, c, S \cup {r})
  <2>1. r \in Requests \ S /\ q[r] \in Nat \ {0} /\ q[r] <= beta
    BY <1>3, <1>5, <1>8, <1>9
  <2>2. c[r] = q[r] - t
    BY <1>8
  <2>3. Queue(beta, m, t - q[r], c[r], q, c, S \cup {r})
    BY <1>4, <1>7, <1>8, <2>1, <2>2, QueueTakes
  <2>4. QED
    BY <1>8, <2>3
<1>11. b.tokens \in Int /\ new.tokens \in Int /\ new.tokens = b.tokens - limit * x
  BY <1>1, <1>5 DEF Takes, GoodBucket
<1>12. new.tokens \div limit = t - x
  <2>1. new.tokens = b.tokens + limit * (-x)
    BY <1>11
  <2>2. new.tokens \div limit = t + (-x)
    BY <1>6, <1>11, <2>1, QuotientAdds
  <2>3. t \in Int
    BY <1>6, <1>11, Quotient
  <2>4. QED
    BY <2>2, <2>3
<1>13. new.tokens <= new.burst * Scale
  <2>1. n * Scale >= 0 /\ n * Scale \in Int
    BY LimitsAssumption
  <2>2. b.tokens <= b.burst * Scale /\ b.burst * Scale \in Int /\ b.tokens \in Int
    BY LimitsAssumption DEF Fair, GoodBucket
  <2>3. QED
    BY <2>1, <2>2 DEF Takes
<1>14. \A s \in S \cup {r} : vs[s].limit = limit
  BY <1>1, <1>3 DEF Fair, Sleeps
<1>15. new.burst * u = beta /\ new.lastEvent = x - t /\ new.meter = limit * m
  BY <1>1, <1>2, <1>5, <1>6 DEF Takes
<1>16. S \cup {r} = Counted(vs, l, k)
  BY <1>3
<1>17. QED
  BY <1>1, <1>4, <1>10, <1>12, <1>13, <1>14, <1>15, <1>16 DEF Fair

(* Reservation.Cancel of the last that was made. *)
GivesBack(b, w, new) ==
  /\ GoodBucket(new) /\ new.limit = b.limit /\ new.burst = b.burst
  /\ new.tokens = Least(b.burst * Scale, b.tokens + w.chunk * Scale)
  /\ new.lastEvent = IF w.due - w.chunk * Unit(b) >= 0 THEN w.due - w.chunk * Unit(b)
                     ELSE b.lastEvent
  /\ new.meter = IF w.due = 0 THEN b.meter - w.chunk * Scale ELSE b.meter
LEMMA FairGetsBack ==
  ASSUME NEW b, GoodBucket(b), NEW ws, Timed(ws), NEW l, NEW k, Fair(b, ws, l, k),
         NEW r \in Counted(ws, l, k), NEW new, GivesBack(b, ws[r], new),
         ws[r].chunk > 0, 0 <= ws[r].due, ws[r].due = b.lastEvent,
         NEW vs, Timed(vs), Counted(vs, l, k) = Counted(ws, l, k) \ {r},
         \A q \in Counted(vs, l, k) : vs[q] = ws[q]
  PROVE  Fair(new, vs, l, k)
<1>1. PICK n \in Nat \ {0} : n = ws[r].chunk /\ r \in Requests
  BY DEF Counted, Timed
<1>2. PICK u \in Nat \ {0}, limit \in Nat \ {0} :
        /\ u = Unit(b) /\ limit = b.limit /\ u = Unit(new) /\ limit = new.limit
        /\ n * Scale = limit * (n * u) /\ b.burst * Scale = limit * (b.burst * u)
  BY UnitOf DEF GivesBack, Unit
<1>3. PICK m \in Int :
        /\ b.meter = limit * m
        /\ Queue(b.burst * u, m, b.tokens \div limit, b.lastEvent,
                 Bytes(ws, u), DueOf(ws), Counted(ws, l, k))
  BY <1>2 DEF Fair
<1>4. PICK p \in Sizes, d \in Dues, S \in SUBSET Requests :
        p = Bytes(ws, u) /\ d = DueOf(ws) /\ S = Counted(ws, l, k)
  BY <1>2, BytesAre
<1>5. PICK q \in Sizes, c \in Dues : q = Bytes(vs, u) /\ c = DueOf(vs)
  BY <1>2, BytesAre
<1>6. PICK x \in Nat \ {0} : x = n * u
  OBVIOUS
<1>7. PICK beta \in Nat, t \in Int, e \in Int :
        beta = b.burst * u /\ t = b.tokens \div limit /\ e = b.lastEvent
  BY <1>3 DEF Queue
<1>8. Queue(beta, m, t, e, p, d, S)
  BY <1>3, <1>4, <1>7
<1>9. p[r] = x /\ d[r] = e /\ d[r] = ws[r].due /\ 0 <= e
  BY <1>1, <1>2, <1>4, <1>6, <1>7, BytesAre
<1>10. PICK v \in Int, f \in Int :
         /\ v = IF e = 0 THEN m - x ELSE m
         /\ f = IF e - x >= 0 THEN e - x ELSE e
  <2>1. m - x \in Int /\ e - x \in Int
    BY <1>8
  <2>2. QED
    BY <1>8, <2>1
<1>11. PICK T \in SUBSET S : T = S \ {r}
  OBVIOUS
<1>12. Queue(beta, v, Least(beta, t + x), f, p, d, T)
  <2>1. r \in S /\ p[r] \in Nat \ {0} /\ 0 <= d[r] /\ d[r] = e
    BY <1>4, <1>9
  <2>2. Queue(beta, IF d[r] = 0 THEN m - p[r] ELSE m, Least(beta, t + p[r]),
              IF d[r] - p[r] >= 0 THEN d[r] - p[r] ELSE e, p, d, S \ {r})
    BY <1>8, <2>1, QueueGetsBack
  <2>3. QED
    BY <1>9, <1>10, <1>11, <2>2
<1>13. Queue(beta, v, Least(beta, t + x), f, q, c, T)
  <2>1. T \in SUBSET Requests /\ \A s \in T : p[s] = q[s] /\ d[s] = c[s]
    BY <1>2, <1>4, <1>5, <1>11, BytesAre
  <2>2. PICK y : y = Least(beta, t + x)
    OBVIOUS
  <2>3. Queue(beta, v, y, f, p, d, T)
    BY <1>12, <2>2
  <2>4. Queue(beta, v, y, f, q, c, T)
    BY <2>1, <2>3, QueueSame
  <2>5. QED
    BY <2>2, <2>4
<1>14. b.tokens \in Int /\ new.tokens = Least(limit * beta, b.tokens + limit * x)
  BY <1>1, <1>2, <1>6, <1>7 DEF GivesBack, GoodBucket
<1>15. new.tokens \div limit = Least(beta, t + x)
  <2>1. PICK y \in Int : y = b.tokens + limit * x
    BY <1>14
  <2>2. y \div limit = t + x
    BY <1>7, <1>14, <2>1, QuotientAdds
  <2>3. Least(limit * beta, y) \div limit = Least(beta, y \div limit)
    <3>1. PICK z \in Int : z = limit * beta
      OBVIOUS
    <3>2. beta \in Int
      OBVIOUS
    <3>3. Least(z, y) \div limit = Least(beta, y \div limit)
      BY <3>1, <3>2, QuotientOfLeast
    <3>4. QED
      BY <3>1, <3>3
  <2>4. QED
    BY <1>14, <2>1, <2>2, <2>3
<1>16. new.tokens <= new.burst * Scale
  <2>1. limit * beta \in Int /\ b.tokens + limit * x \in Int
    BY <1>8, <1>14
  <2>2. new.tokens <= limit * beta
    BY <1>14, <2>1 DEF Least
  <2>3. QED
    BY <1>2, <1>7, <2>2 DEF GivesBack
<1>17. new.meter = limit * v
  <2>1. limit * (m - x) = limit * m - limit * x
    OBVIOUS
  <2>2. new.meter = IF e = 0 THEN b.meter - n * Scale ELSE b.meter
    BY <1>1, <1>9 DEF GivesBack
  <2>3. QED
    BY <1>2, <1>3, <1>6, <1>10, <2>1, <2>2
<1>18. new.lastEvent = f /\ new.burst * u = beta
  BY <1>1, <1>2, <1>6, <1>7, <1>9, <1>10 DEF GivesBack
<1>19. T = Counted(vs, l, k) /\ \A s \in T : vs[s].limit = limit
  <2>1. T = Counted(vs, l, k)
    BY <1>4, <1>11
  <2>2. \A s \in T : vs[s] = ws[s] /\ s \in Counted(ws, l, k)
    BY <1>4, <1>11, <2>1
  <2>3. QED
    BY <1>2, <2>1, <2>2 DEF Fair
<1>20. QED
  BY <1>2, <1>5, <1>13, <1>15, <1>16, <1>17, <1>18, <1>19 DEF Fair

(* A tick. *)
DueIn(ws, l, k) == {r \in Counted(ws, l, k) : ws[r].due = 1}
Ticks(b, ws, l, k, new) ==
  /\ GoodBucket(new) /\ new.limit = b.limit /\ new.burst = b.burst
  /\ new.tokens = Least(b.burst * Scale, b.tokens + b.limit)
  /\ new.lastEvent = Most(0, b.lastEvent - 1)
  /\ new.meter = Most(0, b.meter - b.limit)
                   + SumOver([r \in Requests |-> ws[r].chunk * Scale], DueIn(ws, l, k))
LEMMA FairTicks ==
  ASSUME NEW b, GoodBucket(b), NEW ws, Timed(ws), NEW l, NEW k, Fair(b, ws, l, k),
         NEW new, Ticks(b, ws, l, k, new), NEW vs, Timed(vs),
         Counted(vs, l, k) = Counted(ws, l, k),
         \A q \in Counted(ws, l, k) :
           /\ vs[q].due = Most(-1, ws[q].due - 1)
           /\ vs[q].chunk = ws[q].chunk /\ vs[q].limit = ws[q].limit
  PROVE  Fair(new, vs, l, k)
<1>1. PICK u \in Nat \ {0}, limit \in Nat \ {0} :
        /\ u = Unit(b) /\ limit = b.limit /\ u = Unit(new) /\ limit = new.limit
        /\ b.burst * Scale = limit * (b.burst * u)
        /\ \A n \in Int : n * u \in Int /\ n * Scale = limit * (n * u)
  BY UnitOf DEF Ticks, Unit
<1>2. PICK m \in Int :
        /\ b.meter = limit * m
        /\ Queue(b.burst * u, m, b.tokens \div limit, b.lastEvent,
                 Bytes(ws, u), DueOf(ws), Counted(ws, l, k))
  BY <1>1 DEF Fair
<1>3. PICK p \in Sizes, d \in Dues, S \in SUBSET Requests :
        p = Bytes(ws, u) /\ d = DueOf(ws) /\ S = Counted(ws, l, k)
  BY <1>1, BytesAre
<1>4. PICK q \in Sizes, c \in Dues : q = Bytes(vs, u) /\ c = DueOf(vs)
  BY <1>1, BytesAre
<1>5. PICK beta \in Nat, t \in Int, e \in Int :
        beta = b.burst * u /\ t = b.tokens \div limit /\ e = b.lastEvent
  BY <1>2 DEF Queue
<1>6. Queue(beta, m, t, e, p, d, S)
  BY <1>2, <1>3, <1>5
<1>7. PICK now \in SUBSET Requests : now = DueIn(ws, l, k) /\ now = {s \in S : d[s] = 1}
  <2>1. \A s \in S : d[s] = ws[s].due
    BY <1>1, <1>3, BytesAre
  <2>2. DueIn(ws, l, k) = {s \in S : d[s] = 1}
    BY <1>3, <2>1 DEF DueIn
  <2>3. QED
    BY <2>2
<1>8. PICK n \in Nat : n = SumOver(p, now)
  BY SumsAreNat
<1>9. PICK v \in Int : v = Most(0, m - 1) + n
  BY DEF Most
<1>10. Queue(beta, v, Least(beta, t + 1), Most(0, e - 1), q, c, S)
  <2>1. \A s \in S : c[s] = Most(-1, d[s] - 1)
    BY <1>1, <1>3, <1>4, BytesAre
  <2>2. Queue(beta, Most(0, m - 1) + SumOver(p, {s \in S : d[s] = 1}), Least(beta, t + 1),
              Most(0, e - 1), p, c, S)
    BY <1>6, <2>1, QueueTicks
  <2>3. \A s \in S : p[s] = q[s] /\ c[s] = c[s]
    BY <1>1, <1>3, <1>4, BytesAre
  <2>4. PICK y, f : y = Least(beta, t + 1) /\ f = Most(0, e - 1)
    OBVIOUS
  <2>5. Queue(beta, v, y, f, p, c, S)
    BY <1>7, <1>8, <1>9, <2>2, <2>4
  <2>6. Queue(beta, v, y, f, q, c, S)
    BY <2>3, <2>5, QueueSame
  <2>7. QED
    BY <2>4, <2>6
<1>11. new.tokens \div limit = Least(beta, t + 1) /\ new.tokens <= new.burst * Scale
  <2>1. PICK y \in Int : y = b.tokens + limit * 1 /\ b.tokens \in Int /\ y = b.tokens + limit
    BY DEF GoodBucket
  <2>2. y \div limit = t + 1
    BY <1>5, <2>1, QuotientAdds
  <2>3. Least(limit * beta, y) \div limit = Least(beta, y \div limit)
    <3>1. PICK z \in Int : z = limit * beta
      OBVIOUS
    <3>2. beta \in Int
      OBVIOUS
    <3>3. Least(z, y) \div limit = Least(beta, y \div limit)
      BY <3>1, <3>2, QuotientOfLeast
    <3>4. QED
      BY <3>1, <3>3
  <2>4. new.tokens = Least(limit * beta, y) /\ new.burst * Scale = limit * beta
    BY <1>1, <1>5, <2>1 DEF Ticks
  <2>5. limit * beta \in Int
    BY <1>6
  <2>6. QED
    BY <2>1, <2>2, <2>3, <2>4, <2>5 DEF Least
<1>12. new.meter = limit * v
  <2>1. PICK h : h = [r \in Requests |-> ws[r].chunk * Scale]
    OBVIOUS
  <2>2. h \in [Requests -> Nat] /\ \A r \in now : h[r] = limit * p[r]
    <3>1. ASSUME NEW r \in Requests PROVE h[r] \in Nat /\ h[r] = limit * p[r]
      <4>1. PICK y \in Nat : y = ws[r].chunk
        BY DEF Timed
      <4>2. h[r] = y * Scale /\ p[r] = y * u
        BY <1>1, <1>3, <2>1, <4>1, BytesAre
      <4>3. y * Scale = limit * (y * u) /\ y * Scale \in Nat
        BY <1>1, LimitsAssumption
      <4>4. QED
        BY <4>2, <4>3
    <3>2. QED
      BY <2>1, <3>1
  <2>3. SumOver(h, now) = limit * n
    <3>1. p \in [Requests -> Nat] /\ limit \in Nat
      BY DEF Sizes
    <3>2. QED
      BY <1>8, <2>2, <3>1, SumScaled, RequestsAssumption
  <2>4. Most(0, limit * m - limit) = limit * Most(0, m - 1)
    <3>1. PICK y \in Int : y = m - 1 /\ limit * m - limit = limit * y
      <4>1. limit * (m - 1) = limit * m - limit
        OBVIOUS
      <4>2. QED
        BY <4>1
    <3>2. 0 <= y <=> limit * 0 <= limit * y
      BY TimesMore
    <3>3. limit * 0 = 0 /\ limit * y \in Int
      OBVIOUS
    <3>4. QED
      BY <3>1, <3>2, <3>3 DEF Most
  <2>5. new.meter = limit * Most(0, m - 1) + limit * n
    BY <1>1, <1>2, <1>7, <2>1, <2>3, <2>4 DEF Ticks
  <2>6. PICK y \in Int : y = Most(0, m - 1)
    BY DEF Most
  <2>7. limit * (y + n) = limit * y + limit * n
    OBVIOUS
  <2>8. QED
    BY <1>9, <2>5, <2>6, <2>7
<1>13. \A s \in S : vs[s].limit = limit
  BY <1>1, <1>3 DEF Fair
<1>14. new.lastEvent = Most(0, e - 1) /\ new.burst * u = beta /\ S = Counted(vs, l, k)
  BY <1>3, <1>5 DEF Ticks
<1>15. QED
  BY <1>1, <1>4, <1>10, <1>11, <1>12, <1>13, <1>14 DEF Fair

------------------------------------------------------------------------------
(* The steps. *)

(* It is so in every state. *)
LEMMA TimedWaits ==
  ASSUME NEW ws, NEW bs, \A r \in Requests : Good(ws[r], r, bs)
  PROVE  Timed(ws)
  BY DEF Good, Typed, Timed

LEMMA TimedNow == ASSUME IInv PROVE Timed(wait)
  BY TimedWaits DEF IInv, WaitInv

LEMMA TimedThen == ASSUME IInv' PROVE Timed(wait')
  BY TimedWaits DEF IInv, WaitInv

(* Who is counted sleeps at the bucket. *)
LEMMA CountedSleep ==
  ASSUME IInv, NEW l, NEW k, NEW r \in Counted(wait, l, k)
  PROVE  /\ r \in Requests /\ wait[r].metered /\ wait[r].at = "sleeping"
         /\ l = Limiter(r) /\ k = wait[r].bucket /\ k \in DOMAIN buckets[l]
         /\ wait[r].chunk > 0 /\ Waiting(r, l, k)
<1>1. r \in Requests /\ wait[r].metered /\ l = Limiter(r) /\ k = wait[r].bucket
  BY DEF Counted, Limiter
<1>2. Good(wait[r], r, buckets)
  BY <1>1 DEF IInv, WaitInv
<1>3. wait[r].at = "sleeping" /\ wait[r].chunk > 0
  BY <1>1, <1>2 DEF Good, Accounted
<1>4. k \in DOMAIN buckets[l]
  BY <1>1, <1>2, <1>3 DEF Good, ChunksFit, Limiter
<1>5. QED
  BY <1>1, <1>3, <1>4 DEF Waiting

(* A bucket minds no wait that is not counted at it. *)
Elsewhere(w, r, l, k) == ~w.metered \/ Chain[r][w.nth] # l \/ w.bucket # k
LEMMA OthersFair ==
  ASSUME NEW b, GoodBucket(b), NEW ws, Timed(ws), NEW vs, Timed(vs), NEW l, NEW k,
         Fair(b, ws, l, k),
         \A r \in Requests : vs[r] = ws[r] \/ Elsewhere(vs[r], r, l, k)
  PROVE  Fair(b, vs, l, k)
<1>1. ASSUME NEW r \in Counted(vs, l, k) PROVE vs[r] = ws[r] /\ r \in Counted(ws, l, k)
  <2>1. r \in Requests /\ ~Elsewhere(vs[r], r, l, k)
    BY DEF Counted, Elsewhere
  <2>2. QED
    BY <2>1 DEF Counted
<1>2. QED
  BY <1>1, FairFewer

(* Nobody queues who did not, and some may leave. *)
LEMMA NoneNew ==
  ASSUME IInv, IInv', QueuesInv, buckets' = buckets,
         \A r \in Requests : wait'[r] = wait[r] \/ ~wait'[r].metered
  PROVE  QueuesInv'
<1>1. \A l, k : \A r \in Requests : wait'[r] = wait[r] \/ Elsewhere(wait'[r], r, l, k)
  BY DEF Elsewhere
<1>2. Timed(wait) /\ Timed(wait')
  BY TimedNow, TimedThen
<1>3. ASSUME NEW l \in Limiters, NEW k \in DOMAIN buckets[l] PROVE Fair(buckets[l][k], wait', l, k)
  <2>1. GoodBucket(buckets[l][k]) /\ Fair(buckets[l][k], wait, l, k)
    BY DEF IInv, GoodBuckets, QueuesInv
  <2>2. QED
    BY <1>1, <1>2, <2>1, OthersFair
<1>4. QED
  BY <1>3 DEF QueuesInv

(* One bucket changes, and only those at it may be new in a queue. *)
LEMMA OneChanges ==
  ASSUME IInv, IInv', QueuesInv, NEW l \in Limiters, NEW k \in DOMAIN buckets[l],
         NEW b, GoodBucket(b), Replaces(buckets, l, k, b, buckets'), Fair(b, wait', l, k),
         \A r \in Requests : \/ wait'[r] = wait[r] \/ ~wait'[r].metered
                             \/ Chain[r][wait'[r].nth] = l /\ wait'[r].bucket = k
  PROVE  QueuesInv'
<1>1. Timed(wait) /\ Timed(wait')
  BY TimedNow, TimedThen
<1>2. /\ \A i \in Limiters : DOMAIN buckets'[i] = DOMAIN buckets[i]
      /\ buckets'[l][k] = b
      /\ \A i \in Limiters : \A j \in DOMAIN buckets[i] :
           i # l \/ j # k => buckets'[i][j] = buckets[i][j]
  BY BucketReplaced DEF IInv
<1>3. ASSUME NEW i \in Limiters, NEW j \in DOMAIN buckets[i] PROVE Fair(buckets'[i][j], wait', i, j)
  <2>1. CASE i = l /\ j = k
    BY <1>2, <2>1
  <2>2. CASE i # l \/ j # k
    <3>1. GoodBucket(buckets[i][j]) /\ Fair(buckets[i][j], wait, i, j)
      BY DEF IInv, GoodBuckets, QueuesInv
    <3>2. \A r \in Requests : wait'[r] = wait[r] \/ Elsewhere(wait'[r], r, i, j)
      BY <2>2 DEF Elsewhere
    <3>3. Fair(buckets[i][j], wait', i, j)
      BY <1>1, <3>1, <3>2, OthersFair
    <3>4. QED
      BY <1>2, <2>2, <3>3
  <2>3. QED
    BY <2>1, <2>2
<1>4. QED
  BY <1>2, <1>3 DEF QueuesInv

(* The steps in which nothing is taken of a bucket. *)
LEMMA UncountedQueues ==
  ASSUME IInv, IInv', QueuesInv, NEW r \in Requests,
         Read(r) \/ Look(r) \/ Wake(r) \/ ExceedsBurst(r) \/ Proceed(r)
  PROVE  QueuesInv'
<1>1. DOMAIN wait[r] = WaitFields /\ DOMAIN wait = Requests
  BY DEF IInv, WaitInv, Good, Typed
<1>2. buckets' = buckets /\ \A q \in Requests : q # r => wait'[q] = wait[q]
  BY <1>1 DEF Read, Look, Wake, ExceedsBurst, Proceed
<1>3. wait'[r].at # "sleeping"
  <2>1. CASE Read(r) \/ ExceedsBurst(r)
    BY <1>1, <2>1 DEF Read, ExceedsBurst, NotWaiting
  <2>2. CASE Proceed(r)
    BY <1>1, <2>2 DEF Proceed, NotWaiting
  <2>3. CASE Look(r)
    BY <1>1, <2>3 DEF Look, WaitFields
  <2>4. CASE Wake(r)
    BY <1>1, <2>4 DEF Wake, ChunkAllowed, WaitFields
  <2>5. QED
    BY <2>1, <2>2, <2>3, <2>4
<1>4. ~wait'[r].metered
  BY <1>3 DEF IInv, WaitInv, Good, Accounted
<1>5. QED
  BY <1>2, <1>4, NoneNew

(* WaitN takes what is there, or queues. *)
LEMMA WaitNQueues ==
  ASSUME IInv, IInv', QueuesInv, NEW r \in Requests, WaitN(r)
  PROVE  QueuesInv'
<1>1. PICK l \in Limiters, k \in Nat : l = Limiter(r) /\ k = wait[r].bucket
  BY Located DEF IInv, WaitInv, Good, Typed
<1>2. PICK b : b = Bucket(r) /\ GoodBucket(b) /\ k \in DOMAIN buckets[l] /\ b = buckets[l][k]
  BY <1>1, Located DEF WaitN, Bucket
<1>3. PICK n \in Nat \ {0} : n = NextChunk(r) /\ n <= b.burst
  BY <1>2, NextIs DEF WaitN
<1>4. PICK tokens, due, w :
        /\ tokens = b.tokens - Cost(r) * Scale /\ due = TicksFor(Most(0, -tokens), b.limit)
        /\ w = [wait[r] EXCEPT !.changed = FALSE]
  OBVIOUS
<1>5. PICK new : new = [b EXCEPT !.tokens = tokens, !.lastEvent = due,
                          !.meter = IF due = 0 THEN @ + n * Scale ELSE @]
  OBVIOUS
<1>6. /\ Replaces(buckets, l, k, new, buckets')
      /\ wait' = [wait EXCEPT ![r] =
              IF due = 0 THEN ChunkAllowed(w, n)
              ELSE [w EXCEPT !.at = "sleeping", !.chunk = n,
                             !.due = due, !.limit = b.limit, !.metered = TRUE]]
  BY <1>1, <1>2, <1>3, <1>4, <1>5 DEF WaitN, Replaces
<1>7. /\ DOMAIN wait = Requests /\ DOMAIN wait[r] = WaitFields /\ DOMAIN b = BucketFields
      /\ ~wait[r].metered
  BY <1>2 DEF IInv, WaitInv, Good, Typed, Accounted, GoodBucket, WaitN
<1>8. \A q \in Requests : q # r => wait'[q] = wait[q]
  BY <1>6, <1>7
<1>9. PICK u \in Nat \ {0}, limit \in Nat \ {0} :
        /\ u = Unit(b) /\ limit = b.limit /\ n * Scale = limit * (n * u)
  BY <1>2, UnitOf
<1>10. PICK x \in Nat \ {0} : x = n * u
  OBVIOUS
<1>11. PICK t \in Int : t = b.tokens \div limit /\ b.tokens \in Int
  BY <1>2, <1>9, Quotient DEF GoodBucket
<1>12. tokens = b.tokens - n * Scale /\ tokens \in Int /\ tokens \div limit = t - x
  <2>1. tokens = b.tokens - n * Scale
    BY <1>3, <1>4 DEF Cost
  <2>2. limit * (-x) = -(limit * x) /\ limit * x \in Int
    OBVIOUS
  <2>3. tokens = b.tokens + limit * (-x) /\ tokens \in Int
    BY <1>9, <1>10, <1>11, <2>1, <2>2
  <2>4. tokens \div limit = t + (-x)
    BY <1>11, <2>3, QuotientAdds
  <2>5. QED
    BY <2>1, <2>3, <2>4
<1>13. due = Most(0, x - t)
  <2>1. TicksFor(Most(0, -tokens), limit) = Most(0, -(tokens \div limit))
    BY <1>12, TicksAre
  <2>2. -(t - x) = x - t
    OBVIOUS
  <2>3. QED
    BY <1>4, <1>9, <1>12, <2>1, <2>2
<1>14. Timed(wait) /\ Timed(wait') /\ Fair(b, wait, l, k)
  BY <1>2, TimedNow, TimedThen DEF QueuesInv
<1>15. /\ DOMAIN new = BucketFields /\ new.limit = b.limit /\ new.burst = b.burst
       /\ new.tokens = tokens /\ new.lastEvent = due
       /\ new.meter = IF due = 0 THEN b.meter + n * Scale ELSE b.meter
  BY <1>5, <1>7 DEF BucketFields
<1>16. GoodBucket(new)
  <2>1. due \in Int
    BY <1>13 DEF Most
  <2>2. QED
    BY <1>2, <1>12, <1>15, <2>1 DEF GoodBucket
<1>17. CASE due = 0
  <2>1. wait'[r] = ChunkAllowed(w, n)
    BY <1>6, <1>7, <1>17
  <2>2. ~wait'[r].metered
    BY <1>4, <1>7, <2>1 DEF ChunkAllowed, WaitFields
  <2>3. Fair(b, wait', l, k)
    <3>1. \A q \in Requests : wait'[q] = wait[q] \/ Elsewhere(wait'[q], q, l, k)
      BY <1>8, <2>2 DEF Elsewhere
    <3>2. QED
      BY <1>2, <1>14, <3>1, OthersFair
  <2>4. Pays(b, n, new)
    BY <1>12, <1>15, <1>16, <1>17 DEF Pays
  <2>5. n * Unit(b) <= b.tokens \div b.limit
    BY <1>9, <1>10, <1>11, <1>13, <1>17 DEF Most
  <2>6. Fair(new, wait', l, k)
    BY <1>2, <1>14, <2>3, <2>4, <2>5, FairPays
  <2>7. QED
    BY <1>2, <1>6, <1>8, <1>16, <2>2, <2>6, OneChanges
<1>18. CASE due # 0
  <2>1. due = x - t /\ due > 0
    BY <1>13, <1>18 DEF Most
  <2>2. wait'[r] = [w EXCEPT !.at = "sleeping", !.chunk = n,
                             !.due = due, !.limit = b.limit, !.metered = TRUE]
    BY <1>6, <1>7, <1>18
  <2>3. /\ wait'[r].chunk = n /\ wait'[r].due = due /\ wait'[r].limit = b.limit
        /\ wait'[r].metered /\ wait'[r].bucket = k /\ wait'[r].nth = wait[r].nth
    BY <1>1, <1>4, <1>7, <2>2 DEF WaitFields
  <2>4. Chain[r][wait'[r].nth] = l
    BY <1>1, <2>3 DEF Limiter
  <2>5. r \notin Counted(wait, l, k) /\ Counted(wait', l, k) = Counted(wait, l, k) \cup {r}
    BY <1>7, <1>8, <2>3, <2>4 DEF Counted
  <2>6. Takes(b, n, new)
    BY <1>9, <1>10, <1>11, <1>12, <1>15, <1>16, <1>18, <2>1 DEF Takes
  <2>7. Sleeps(b, n, wait'[r]) /\ wait'[r].due > 0
    BY <1>9, <1>10, <1>11, <2>1, <2>3 DEF Sleeps
  <2>8. Fair(new, wait', l, k)
    BY <1>2, <1>3, <1>8, <1>14, <2>5, <2>6, <2>7, FairTakes
  <2>9. \A q \in Requests : \/ wait'[q] = wait[q] \/ ~wait'[q].metered
                            \/ Chain[q][wait'[q].nth] = l /\ wait'[q].bucket = k
    BY <1>8, <2>3, <2>4
  <2>10. QED
    BY <1>2, <1>6, <1>16, <2>8, <2>9, OneChanges
<1>19. QED
  BY <1>17, <1>18

(* Ticks of a whole number of them. *)
LEMMA TicksForUnits ==
  ASSUME NEW limit \in Nat \ {0}, NEW y \in Int, NEW z, z = limit * y
  PROVE  TicksFor(z, limit) = y
<1>1. PICK x \in Int : x = limit - 1 /\ 0 <= x /\ x < limit
  OBVIOUS
<1>2. (x + limit * y) \div limit = (x \div limit) + y
  BY QuotientAdds
<1>3. x \div limit = 0
  <2>1. limit * 0 <= x /\ x < limit * 0 + limit
    BY <1>1
  <2>2. QED
    BY <2>1, Quotient
<1>4. limit * y \in Int /\ z + limit - 1 = x + limit * y
  BY <1>1
<1>5. QED
  BY <1>2, <1>3, <1>4 DEF TicksFor

(* What is given back by the last that was reserved, and what starts the   *)
(* meter again.                                                            *)
LEMMA CancelQueues ==
  ASSUME IInv, IInv', QueuesInv, NEW r \in Requests, Cancel(r)
  PROVE  QueuesInv'
<1>1. PICK l \in Limiters, k \in Nat : l = Limiter(r) /\ k = wait[r].bucket
  BY Located DEF IInv, WaitInv, Good, Typed
<1>2. PICK b : b = Bucket(r) /\ GoodBucket(b) /\ k \in DOMAIN buckets[l] /\ b = buckets[l][k]
  BY <1>1, Located DEF Cancel, Bucket
<1>3. PICK w : w = wait[r]
  OBVIOUS
<1>4. PICK back, prev, last, again :
        /\ back = IF w.at = "sleeping" THEN Restored(w, b) ELSE 0
        /\ prev = w.due - TicksFor(w.chunk * Scale, w.limit)
        /\ last = (w.due = b.lastEvent)
        /\ again = (back > 0 /\ ~(w.metered /\ last))
  OBVIOUS
<1>5. PICK new : new = [b EXCEPT !.tokens = Least(b.burst * Scale, @ + back),
                          !.lastEvent = IF last /\ prev >= 0 THEN prev ELSE @,
                          !.meter = IF again THEN 0
                                    ELSE IF w.due = 0 THEN @ - w.chunk * Scale ELSE @]
  OBVIOUS
<1>6. PICK gone : gone = [NotWaiting EXCEPT !.at = "cancelled"]
  OBVIOUS
<1>7. /\ IF back = 0 THEN buckets' = buckets ELSE Replaces(buckets, l, k, new, buckets')
      /\ wait' = [IF again THEN Unmetered(l, k) ELSE wait EXCEPT ![r] = gone]
  BY <1>1, <1>2, <1>3, <1>4, <1>5, <1>6 DEF Cancel, Replaces
<1>8. /\ DOMAIN wait = Requests /\ DOMAIN b = BucketFields
      /\ w.chunk \in Nat /\ w.due \in Int /\ w.limit \in Nat
      /\ w.metered => w.chunk > 0
  BY <1>2, <1>3 DEF IInv, WaitInv, Good, Typed, Accounted, GoodBucket
<1>9. ~gone.metered
  BY <1>6 DEF NotWaiting
<1>10. Timed(wait) /\ Timed(wait') /\ Fair(b, wait, l, k)
  BY <1>2, TimedNow, TimedThen DEF QueuesInv
<1>11. wait'[r] = gone
  BY <1>7, <1>8 DEF Unmetered
<1>12. CASE back = 0
  <2>1. ~(back > 0)
    BY <1>12
  <2>2. ~again
    BY <1>4, <2>1
  <2>3. \A q \in Requests : wait'[q] = wait[q] \/ ~wait'[q].metered
    BY <1>7, <1>8, <1>9, <2>2
  <2>4. QED
    BY <1>7, <1>12, <2>3, NoneNew
<1>13. CASE back # 0
  <2>1. /\ w.at = "sleeping" /\ back = Restored(w, b) /\ back > 0 /\ w.due >= 0 /\ back \in Int
        /\ back = Most(0, w.chunk * Scale - w.limit * (b.lastEvent - w.due))
    <3>1. w.at = "sleeping" /\ back = Restored(w, b)
      BY <1>4, <1>13
    <3>2. /\ ~(w.due < 0)
          /\ back = Most(0, w.chunk * Scale - w.limit * (b.lastEvent - w.due))
      BY <1>13, <3>1 DEF Restored
    <3>3. PICK y \in Int : y = w.chunk * Scale - w.limit * (b.lastEvent - w.due)
      <4>1. w.chunk * Scale \in Int /\ b.lastEvent - w.due \in Int
        BY <1>2, <1>8, LimitsAssumption DEF GoodBucket
      <4>2. w.limit * (b.lastEvent - w.due) \in Int
        BY <1>8, <4>1
      <4>3. QED
        BY <4>1, <4>2
    <3>4. back \in Int /\ back > 0
      BY <1>13, <3>2, <3>3 DEF Most
    <3>5. QED
      BY <1>8, <3>1, <3>2, <3>4
  <2>2. /\ DOMAIN new = BucketFields /\ new.limit = b.limit /\ new.burst = b.burst
        /\ new.tokens = Least(b.burst * Scale, b.tokens + back)
        /\ new.lastEvent = IF last /\ prev >= 0 THEN prev ELSE b.lastEvent
        /\ new.meter = IF again THEN 0
                        ELSE IF w.due = 0 THEN b.meter - w.chunk * Scale ELSE b.meter
    BY <1>5, <1>8 DEF BucketFields
  <2>3. Replaces(buckets, l, k, new, buckets')
    BY <1>7, <1>13
  <2>4. GoodBucket(new) /\ new.tokens <= new.burst * Scale
    <3>1. buckets'[l][k] = new /\ DOMAIN buckets'[l] = DOMAIN buckets[l]
      <4>1. GoodBuckets(buckets) /\ b.burst * Scale \in Int /\ b.tokens + back \in Int
        BY <1>2, <2>1, LimitsAssumption DEF IInv, GoodBucket
      <4>2. DOMAIN buckets = Limiters
        BY <4>1 DEF GoodBuckets
      <4>3. QED
        BY <1>2, <2>3, <4>2 DEF Replaces
    <3>2. GoodBucket(new)
      BY <1>2, <3>1 DEF IInv, GoodBuckets
    <3>3. PICK y \in Int, z \in Int : y = b.burst * Scale /\ z = b.tokens + back
      BY <1>2, <2>1, LimitsAssumption DEF GoodBucket
    <3>4. Least(y, z) <= y
      BY DEF Least
    <3>5. QED
      BY <2>2, <3>2, <3>3, <3>4
  <2>5. CASE again
    <3>1. \A q \in Requests : wait'[q] = IF q = r THEN gone
                              ELSE IF Waiting(q, l, k) THEN [wait[q] EXCEPT !.metered = FALSE]
                              ELSE wait[q]
      BY <1>7, <2>5 DEF Unmetered
    <3>2. \A q \in Requests : wait'[q] = wait[q] \/ ~wait'[q].metered
      <4>1. \A q \in Requests : DOMAIN wait[q] = WaitFields
        BY DEF IInv, WaitInv, Good, Typed
      <4>2. QED
        BY <1>9, <3>1, <4>1 DEF WaitFields
    <3>3. Counted(wait', l, k) = {}
      <4>1. ASSUME NEW q \in Counted(wait', l, k) PROVE FALSE
        <5>1. q \in Requests /\ wait'[q].metered
          BY DEF Counted
        <5>2. wait'[q] = wait[q]
          BY <3>2, <5>1
        <5>3. q \in Counted(wait, l, k)
          BY <5>2 DEF Counted
        <5>4. Waiting(q, l, k) /\ DOMAIN wait[q] = WaitFields
          BY <5>1, <5>3, CountedSleep DEF IInv, WaitInv, Good, Typed
        <5>5. ~wait'[q].metered
          BY <1>9, <3>1, <5>1, <5>4 DEF WaitFields
        <5>6. QED
          BY <5>1, <5>5
      <4>2. QED
        BY <4>1
    <3>4. new.meter = 0
      BY <2>2, <2>5
    <3>5. Fair(new, wait', l, k)
      BY <1>10, <2>4, <3>3, <3>4, FairRestarts
    <3>6. QED
      BY <1>2, <2>3, <2>4, <3>2, <3>5, OneChanges
  <2>6. CASE ~again
    <3>1. w.metered /\ w.due = b.lastEvent /\ last
      BY <1>4, <2>1, <2>6
    <3>2. r \in Counted(wait, l, k)
      BY <1>1, <1>3, <3>1 DEF Counted, Limiter
    <3>3. w.limit = b.limit
      BY <1>3, <1>10, <3>2 DEF Fair
    <3>4. \A q \in Requests : q # r => wait'[q] = wait[q]
      BY <1>7, <2>6
    <3>5. Counted(wait', l, k) = Counted(wait, l, k) \ {r}
      BY <1>9, <1>11, <3>4 DEF Counted
    <3>6. GivesBack(b, wait[r], new)
      <4>1. back = w.chunk * Scale
        <5>1. b.lastEvent - w.due = 0 /\ w.limit * 0 = 0
          BY <1>8, <3>1
        <5>2. w.chunk * Scale \in Int
          BY <1>8, LimitsAssumption
        <5>3. back = Most(0, w.chunk * Scale)
          BY <2>1, <5>1, <5>2
        <5>4. QED
          BY <2>1, <5>2, <5>3 DEF Most
      <4>2. TicksFor(w.chunk * Scale, w.limit) = w.chunk * Unit(b)
        <5>1. PICK y \in Int : y = w.chunk * Unit(b) /\ w.chunk * Scale = b.limit * y
          BY <1>2, <1>8, UnitOf
        <5>2. b.limit \in Nat \ {0}
          BY <1>2, UnitOf
        <5>3. QED
          BY <3>3, <5>1, <5>2, TicksForUnits
      <4>3. QED
        BY <1>3, <1>4, <2>2, <2>4, <2>6, <3>1, <4>1, <4>2 DEF GivesBack
    <3>7. \A q \in Counted(wait', l, k) : wait'[q] = wait[q]
      BY <3>4, <3>5 DEF Counted
    <3>8. wait[r].chunk > 0 /\ 0 <= wait[r].due /\ wait[r].due = b.lastEvent
      BY <1>3, <1>8, <2>1, <3>1
    <3>9. Fair(new, wait', l, k)
      BY <1>2, <1>10, <3>2, <3>5, <3>6, <3>7, <3>8, FairGetsBack
    <3>10. \A q \in Requests : wait'[q] = wait[q] \/ ~wait'[q].metered
      BY <1>9, <1>11, <3>4
    <3>11. QED
      BY <1>2, <2>3, <2>4, <3>9, <3>10, OneChanges
  <2>7. QED
    BY <2>5, <2>6
<1>14. QED
  BY <1>12, <1>13

(* A tick brings everybody nearer, and lets through who is due. *)
LEMMA TickQueues == ASSUME IInv, IInv', QueuesInv, Tick PROVE QueuesInv'
<1>1. Timed(wait) /\ Timed(wait')
  BY TimedNow, TimedThen
<1>2. ASSUME NEW l \in Limiters, NEW k \in DOMAIN buckets[l]
      PROVE  Fair(buckets'[l][k], wait', l, k) /\ DOMAIN buckets'[l] = DOMAIN buckets[l]
  <2>1. PICK b : b = buckets[l][k]
    OBVIOUS
  <2>2. PICK new : new = [b EXCEPT !.tokens = Least(b.burst * Scale, @ + b.limit),
                            !.lastEvent = Most(0, @ - 1),
                            !.meter = Most(0, @ - b.limit) + MeteredNow(l, k)]
    OBVIOUS
  <2>3. buckets'[l][k] = new /\ DOMAIN buckets'[l] = DOMAIN buckets[l]
    BY <2>1, <2>2 DEF Tick
  <2>4. GoodBucket(b) /\ GoodBucket(new) /\ Fair(b, wait, l, k)
    BY <2>1, <2>3 DEF IInv, GoodBuckets, QueuesInv
  <2>5. ASSUME NEW q \in Requests
        PROVE  /\ wait'[q] = IF wait[q].at = "sleeping"
                             THEN [wait[q] EXCEPT !.due = Most(-1, @ - 1)] ELSE wait[q]
               /\ DOMAIN wait[q] = WaitFields
               /\ wait'[q].metered = wait[q].metered /\ wait'[q].nth = wait[q].nth
               /\ wait'[q].bucket = wait[q].bucket
               /\ wait'[q].chunk = wait[q].chunk /\ wait'[q].limit = wait[q].limit
               /\ wait[q].at = "sleeping" => wait'[q].due = Most(-1, wait[q].due - 1)
    <3>1. wait'[q] = IF wait[q].at = "sleeping"
                     THEN [wait[q] EXCEPT !.due = Most(-1, @ - 1)] ELSE wait[q]
      BY DEF Tick
    <3>2. DOMAIN wait[q] = WaitFields
      BY DEF IInv, WaitInv, Good, Typed
    <3>3. QED
      BY <3>1, <3>2 DEF WaitFields
  <2>6. Counted(wait', l, k) = Counted(wait, l, k)
    BY <2>5 DEF Counted
  <2>7. \A q \in Counted(wait, l, k) :
          /\ wait'[q].due = Most(-1, wait[q].due - 1)
          /\ wait'[q].chunk = wait[q].chunk /\ wait'[q].limit = wait[q].limit
    BY <2>5, CountedSleep
  <2>8. DueNow(l, k) = DueIn(wait, l, k)
    <3>1. ASSUME NEW q \in DueNow(l, k) PROVE q \in DueIn(wait, l, k)
      BY DEF DueNow, DueIn, Counted, Waiting, Limiter
    <3>2. ASSUME NEW q \in DueIn(wait, l, k) PROVE q \in DueNow(l, k)
      <4>1. q \in Counted(wait, l, k) /\ wait[q].due = 1
        BY DEF DueIn
      <4>2. QED
        BY <4>1, CountedSleep DEF DueNow
    <3>3. QED
      BY <3>1, <3>2
  <2>9. Ticks(b, wait, l, k, new)
    <3>1. DOMAIN b = BucketFields
      BY <2>4 DEF GoodBucket
    <3>2. MeteredNow(l, k) = SumOver([r \in Requests |-> wait[r].chunk * Scale], DueIn(wait, l, k))
      BY <2>8 DEF MeteredNow, SumOver
    <3>3. PICK y : y = MeteredNow(l, k)
      OBVIOUS
    <3>4. /\ new.limit = b.limit /\ new.burst = b.burst
          /\ new.tokens = Least(b.burst * Scale, b.tokens + b.limit)
          /\ new.lastEvent = Most(0, b.lastEvent - 1)
          /\ new.meter = Most(0, b.meter - b.limit) + y
      BY <2>2, <3>1, <3>3 DEF BucketFields
    <3>5. QED
      BY <2>4, <3>2, <3>3, <3>4 DEF Ticks
  <2>10. Fair(new, wait', l, k)
    BY <1>1, <2>4, <2>6, <2>7, <2>9, FairTicks
  <2>11. QED
    BY <2>3, <2>10
<1>3. \A l \in Limiters : DOMAIN buckets'[l] = DOMAIN buckets[l]
  BY DEF Tick
<1>4. QED
  BY <1>2, <1>3 DEF QueuesInv

(* Other limits start the meter again, without those who waited before. *)
LEMMA RemeteredQueues ==
  ASSUME IInv, IInv', QueuesInv, NEW l \in Limiters, NEW k \in DOMAIN buckets[l], NEW b,
         GoodBucket(b), b.tokens <= b.burst * Scale, Remeter(l, k, b)
  PROVE  QueuesInv'
<1>1. PICK new : new = [b EXCEPT !.meter = 0]
  OBVIOUS
<1>2. GoodBucket(new) /\ new.meter = 0 /\ new.tokens <= new.burst * Scale
  BY <1>1 DEF GoodBucket, BucketFields
<1>3. Replaces(buckets, l, k, new, buckets')
  BY <1>1 DEF Remeter, Replaces
<1>4. ASSUME NEW q \in Requests
      PROVE  /\ wait'[q] = wait[q] \/ ~wait'[q].metered
             /\ Waiting(q, l, k) => ~wait'[q].metered
  <2>1. wait'[q] = IF Waiting(q, l, k) THEN [wait[q] EXCEPT !.changed = TRUE, !.metered = FALSE]
                   ELSE wait[q]
    BY DEF Remeter
  <2>2. DOMAIN wait[q] = WaitFields
    BY DEF IInv, WaitInv, Good, Typed
  <2>3. QED
    BY <2>1, <2>2 DEF WaitFields
<1>5. Counted(wait', l, k) = {}
  <2>1. ASSUME NEW q \in Counted(wait', l, k) PROVE FALSE
    <3>1. q \in Requests /\ wait'[q].metered
      BY DEF Counted
    <3>2. wait'[q] = wait[q]
      BY <1>4, <3>1
    <3>3. q \in Counted(wait, l, k)
      BY <3>2 DEF Counted
    <3>4. QED
      BY <1>4, <3>1, <3>3, CountedSleep
  <2>2. QED
    BY <2>1
<1>6. Fair(new, wait', l, k)
  BY <1>2, <1>5, TimedThen, FairRestarts
<1>7. QED
  BY <1>2, <1>3, <1>4, <1>6, OneChanges

(* A new bucket is full, and nobody waits at it. *)
LEMMA NewIsFair ==
  ASSUME NEW limit \in Limits \ {0}, NEW ws, Timed(ws), NEW l, NEW k, Counted(ws, l, k) = {}
  PROVE  Fair(NewBucket(limit), ws, l, k)
<1>1. PICK b : b = NewBucket(limit)
  OBVIOUS
<1>2. /\ DOMAIN b = BucketFields /\ b.limit = limit /\ b.burst = limit
      /\ b.tokens = limit * Scale /\ b.lastEvent = 0 /\ b.meter = 0
  BY <1>1 DEF NewBucket, BucketFields
<1>3. limit \in Nat \ {0} /\ limit * Scale \in Int
  BY LimitsAssumption
<1>4. GoodBucket(b) /\ b.tokens <= b.burst * Scale
  BY <1>2, <1>3 DEF GoodBucket
<1>5. QED
  BY <1>1, <1>2, <1>4, FairRestarts

LEMMA UpdateLimitsQueues == ASSUME IInv, IInv', QueuesInv, UpdateLimits PROVE QueuesInv'
<1>1. PICK l \in Limiters, limit \in Limits :
       \/ /\ limit = 0
          /\ current' = [current EXCEPT ![l] = None]
          /\ UNCHANGED <<buckets, wait, updater>>
       \/ /\ limit > 0 /\ current[l] = None
          /\ buckets' = [buckets EXCEPT ![l] = Append(@, NewBucket(limit))]
          /\ current' = [current EXCEPT ![l] = Len(buckets[l]) + 1]
          /\ UNCHANGED <<wait, updater>>
       \/ /\ limit > 0 /\ current[l] # None
          /\ Remeter(l, current[l], [buckets[l][current[l]] EXCEPT !.limit = limit])
          /\ updater' = [at |-> "burst", limiter |-> l, limit |-> limit]
          /\ UNCHANGED current
  BY DEF UpdateLimits
<1>2. limit \in Nat /\ GoodBuckets(buckets) /\ AdminInv
  BY LimitsAssumption DEF IInv
<1>3. CASE buckets' = buckets /\ wait' = wait
  BY <1>3, NoneNew
<1>4. CASE /\ limit > 0
           /\ buckets' = [buckets EXCEPT ![l] = Append(@, NewBucket(limit))]
           /\ wait' = wait
  <2>1. PICK b : b = NewBucket(limit)
    OBVIOUS
  <2>2. PICK f : f = Append(buckets[l], b)
    OBVIOUS
  <2>3. PICK n \in Nat \ {0} :
          /\ n \notin DOMAIN buckets[l] /\ DOMAIN f = DOMAIN buckets[l] \cup {n}
          /\ f[n] = b /\ \A k \in DOMAIN buckets[l] : f[k] = buckets[l][k]
    BY <1>2, <2>2, AppendedBucket DEF GoodBuckets
  <2>4. buckets'[l] = f /\ \A i \in Limiters : i # l => buckets'[i] = buckets[i]
    BY <1>2, <1>4, <2>1, <2>2 DEF GoodBuckets
  <2>5. Counted(wait, l, n) = {}
    BY <2>3, CountedSleep
  <2>6. Fair(b, wait, l, n)
    BY <1>4, <2>1, <2>5, TimedNow, NewIsFair
  <2>7. ASSUME NEW i \in Limiters, NEW k \in DOMAIN buckets'[i]
        PROVE  Fair(buckets'[i][k], wait, i, k)
    <3>1. CASE i = l /\ k = n
      BY <2>3, <2>4, <2>6, <3>1
    <3>2. CASE i = l /\ k # n
      <4>1. k \in DOMAIN buckets[l] /\ buckets'[i][k] = buckets[l][k]
        BY <2>3, <2>4, <3>2
      <4>2. QED
        BY <3>2, <4>1 DEF QueuesInv
    <3>3. CASE i # l
      BY <2>4, <3>3 DEF QueuesInv
    <3>4. QED
      BY <3>1, <3>2, <3>3
  <2>8. QED
    BY <1>4, <2>7 DEF QueuesInv
<1>5. CASE /\ limit > 0 /\ current[l] # None
           /\ Remeter(l, current[l], [buckets[l][current[l]] EXCEPT !.limit = limit])
  <2>1. PICK k \in DOMAIN buckets[l] : k = current[l]
    BY <1>2, <1>5 DEF AdminInv
  <2>2. PICK b : b = [buckets[l][k] EXCEPT !.limit = limit]
    OBVIOUS
  <2>3. GoodBucket(buckets[l][k]) /\ Fair(buckets[l][k], wait, l, k)
    BY <1>2 DEF GoodBuckets, QueuesInv
  <2>4. GoodBucket(b) /\ b.tokens <= b.burst * Scale
    BY <1>1, <1>2, <1>5, <2>2, <2>3 DEF GoodBucket, BucketFields, Fair
  <2>5. Remeter(l, k, b)
    BY <1>5, <2>1, <2>2
  <2>6. QED
    BY <2>4, <2>5, RemeteredQueues
<1>6. QED
  BY <1>1, <1>3, <1>4, <1>5

LEMMA SetBurstQueues == ASSUME IInv, IInv', QueuesInv, SetBurst PROVE QueuesInv'
<1>1. GoodBuckets(buckets) /\ AdminInv
  BY DEF IInv
<1>2. PICK l \in Limiters : l = updater.limiter
  BY <1>1 DEF SetBurst, AdminInv
<1>3. PICK k \in DOMAIN buckets[l] : k = current[l]
  BY <1>1, <1>2 DEF SetBurst, AdminInv
<1>4. PICK b, tokens :
        /\ tokens = Least(buckets[l][k].tokens, updater.limit * Scale)
        /\ b = [buckets[l][k] EXCEPT !.burst = updater.limit, !.tokens = tokens]
        /\ Remeter(l, k, b)
  BY <1>2, <1>3 DEF SetBurst
<1>5. GoodBucket(buckets[l][k]) /\ updater.limit \in Nat \ {0}
  BY <1>1 DEF GoodBuckets, SetBurst, AdminInv
<1>6. tokens \in Int /\ tokens <= updater.limit * Scale
  <2>1. PICK x \in Int, y \in Int : x = buckets[l][k].tokens /\ y = updater.limit * Scale
    BY <1>5, LimitsAssumption DEF GoodBucket
  <2>2. Least(x, y) \in Int /\ Least(x, y) <= y
    BY DEF Least
  <2>3. QED
    BY <1>4, <2>1, <2>2
<1>7. DOMAIN b = BucketFields /\ b.burst = updater.limit /\ b.tokens = tokens
      /\ b.limit = buckets[l][k].limit /\ b.lastEvent = buckets[l][k].lastEvent
  BY <1>4, <1>5 DEF GoodBucket, BucketFields
<1>8. GoodBucket(b) /\ b.tokens <= b.burst * Scale
  BY <1>5, <1>6, <1>7 DEF GoodBucket
<1>9. QED
  BY <1>4, <1>8, RemeteredQueues

LEMMA InitQueues == Init => QueuesInv
<1> SUFFICES ASSUME Init PROVE QueuesInv
  OBVIOUS
<1>1. IInv
  BY InitIInv
<1>2. PICK limit \in Initial :
        buckets = [l \in Limiters |->
                     IF limit[l] > 0 THEN <<NewBucket(limit[l])>> ELSE <<>>]
  BY DEF Init
<1>3. ASSUME NEW l \in Limiters, NEW k \in DOMAIN buckets[l] PROVE Fair(buckets[l][k], wait, l, k)
  <2>1. Counted(wait, l, k) = {}
    BY DEF Init, NotWaiting, Counted
  <2>2. limit[l] \in Nat
    BY LimitsAssumption
  <2>3. CASE limit[l] > 0
    <3>1. limit[l] \in Limits \ {0}
      BY <2>2, <2>3, LimitsAssumption
    <3>2. PICK b : b = NewBucket(limit[l]) /\ buckets[l] = <<b>>
      BY <1>2, <2>3
    <3>3. buckets[l][k] = b
      BY <3>2
    <3>4. Fair(b, wait, l, k)
      BY <1>1, <2>1, <3>1, <3>2, TimedNow, NewIsFair
    <3>5. QED
      BY <3>3, <3>4
  <2>4. CASE ~(limit[l] > 0)
    BY <1>2, <2>4
  <2>5. QED
    BY <2>3, <2>4
<1>4. QED
  BY <1>3 DEF QueuesInv

LEMMA QueuesStep == IInv /\ IInv' /\ QueuesInv /\ [Next]_vars => QueuesInv'
<1> SUFFICES ASSUME IInv, IInv', QueuesInv, [Next]_vars PROVE QueuesInv'
  OBVIOUS
<1>1. ASSUME NEW r \in Requests, Stream(r) PROVE QueuesInv'
  BY <1>1, UncountedQueues, WaitNQueues, CancelQueues DEF Stream
<1>2. CASE Tick
  BY <1>2, TickQueues
<1>3. CASE UpdateLimits
  BY <1>3, UpdateLimitsQueues
<1>4. CASE SetBurst
  BY <1>4, SetBurstQueues
<1>5. CASE UNCHANGED vars
  BY <1>5, NoneNew DEF vars
<1>6. QED
  BY <1>1, <1>2, <1>3, <1>4, <1>5 DEF Next

(* Nothing is due up to now: the meter itself is within the burst. *)
LEMMA FairIsBounded ==
  ASSUME NEW b, GoodBucket(b), NEW ws, Timed(ws), NEW l, NEW k, Fair(b, ws, l, k)
  PROVE  b.meter <= b.burst * Scale
<1>1. PICK u \in Nat \ {0}, limit \in Nat \ {0} :
        u = Unit(b) /\ limit = b.limit /\ b.burst * Scale = limit * (b.burst * u)
  BY UnitOf
<1>2. PICK m \in Int :
        /\ b.meter = limit * m
        /\ Queue(b.burst * u, m, b.tokens \div limit, b.lastEvent,
                 Bytes(ws, u), DueOf(ws), Counted(ws, l, k))
  BY <1>1 DEF Fair
<1>3. PICK p \in Sizes, d \in Dues, S \in SUBSET Requests :
        p = Bytes(ws, u) /\ d = DueOf(ws) /\ S = Counted(ws, l, k)
  BY <1>1, BytesAre
<1>4. PICK beta \in Nat : beta = b.burst * u
  BY <1>2 DEF Queue
<1>5. m + SumOver(p, Through(S, d, 0)) <= beta + 0
  BY <1>2, <1>3, <1>4 DEF Queue, Fits
<1>6. SumOver(p, Through(S, d, 0)) \in Nat
  BY SumsAreNat DEF Through
<1>7. m <= beta
  BY <1>5, <1>6
<1>8. limit * m <= limit * beta
  BY <1>7, TimesMore
<1>9. QED
  BY <1>1, <1>2, <1>4, <1>8

(* RateBound: however many streams share a limiter (a user's, a client's,  *)
(* the global one), and in whatever chunks waitWithChunks cuts what they   *)
(* read, what its bucket lets through never exceeds its burst plus what it *)
(* gained meanwhile.                                                       *)
THEOREM BurstIsTheBound == Spec => []RateBound
<1>1. Init => QueuesInv
  BY InitQueues
<1>2. IInv /\ QueuesInv => RateBound
  <2> SUFFICES ASSUME IInv, QueuesInv, NEW l \in Limiters, NEW k \in DOMAIN buckets[l]
               PROVE  buckets[l][k].meter <= buckets[l][k].burst * Scale
    BY DEF RateBound
  <2>1. GoodBucket(buckets[l][k]) /\ Fair(buckets[l][k], wait, l, k)
    BY DEF IInv, GoodBuckets, QueuesInv
  <2>2. QED
    BY <2>1, TimedNow, FairIsBounded
<1>3. QED
  BY <1>1, <1>2, Inductive, QueuesStep, PTL DEF Spec

===============================================================================
