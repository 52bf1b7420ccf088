-------------------------- MODULE ProcessorProofs --------------------------
(***************************************************************************)
(* Proofs about Processor.tla, for any files, engines, chunk sizes and     *)
(* number of calls.                                                        *)
(***************************************************************************)
EXTENDS Processor, FiniteSetTheorems, SequenceTheorems, TLAPS

-----------------------------------------------------------------------------
(* Ranks and shard counts, for any file, engine and chunk size.            *)

(* Multiplication by a chunk size, in the three forms the proofs use.      *)
LEMMA TimesNext == \A n, c \in Int : (n + 1) * c = n * c + c
  OBVIOUS

LEMMA TimesType == \A n, c \in Nat : n * c \in Nat
  OBVIOUS

LEMMA TimesMono ==
  ASSUME NEW n \in Nat, NEW m \in Nat, NEW c \in Nat, n <= m
  PROVE  n * c <= m * c
  OBVIOUS

LEMMA TimesStrict ==
  ASSUME NEW n \in Nat, NEW m \in Nat, NEW c \in Nat \ {0}, n * c < m * c
  PROVE  n < m
  <1> SUFFICES ASSUME m <= n PROVE FALSE
    OBVIOUS
  <1> QED
    BY TimesMono

LEMMA TimesGap ==
  ASSUME NEW n \in Nat, NEW m \in Nat, NEW c \in Nat, n < m
  PROVE  n * c + c <= m * c
  BY TimesNext, n + 1 \in Nat, n + 1 <= m, TimesMono

LEMMA TimesAtLeast ==
  ASSUME NEW n \in Nat, NEW c \in Nat \ {0}
  PROVE  n <= n * c
  OBVIOUS

-----------------------------------------------------------------------------
LEMMA CountedFinite ==
  ASSUME NEW engine, NEW lines \in Seq(LineKinds), NEW i \in Nat
  PROVE  /\ IsFiniteSet(CountedUpTo(engine, lines, i))
         /\ Rank(engine, lines, i) \in Nat
         /\ Rank(engine, lines, i) <= i
  <1>1. IsFiniteSet(1 .. i) /\ Cardinality(1 .. i) = i
    BY FS_Interval
  <1>2. CountedUpTo(engine, lines, i) \in SUBSET (1 .. i)
    BY DEF CountedUpTo
  <1> QED
    BY <1>1, <1>2, FS_Subset, FS_CardinalityType DEF Rank

(* Reading one more line adds one to the rank exactly when it is counted.  *)
LEMMA RankStep ==
  ASSUME NEW engine, NEW lines \in Seq(LineKinds), NEW i \in Nat
  PROVE  Rank(engine, lines, i + 1) =
            IF lines[i + 1] \in Counted(engine) THEN Rank(engine, lines, i) + 1
                                                ELSE Rank(engine, lines, i)
  <1> DEFINE C(k) == CountedUpTo(engine, lines, k)
  <1>1. IsFiniteSet(C(i)) /\ i + 1 \notin C(i)
    <2>1. IsFiniteSet(C(i))
      BY CountedFinite
    <2>2. i + 1 \notin 1 .. i
      OBVIOUS
    <2> QED
      BY <2>1, <2>2 DEF CountedUpTo
  <1>2. CASE lines[i + 1] \in Counted(engine)
    <2>1. C(i + 1) = C(i) \cup {i + 1}
      BY <1>2 DEF CountedUpTo
    <2> QED
      BY <1>1, <1>2, <2>1, FS_AddElement DEF Rank
  <1>3. CASE lines[i + 1] \notin Counted(engine)
    <2>1. C(i + 1) = C(i)
      BY <1>3 DEF CountedUpTo
    <2> QED
      BY <1>3, <2>1 DEF Rank
  <1> QED
    BY <1>2, <1>3

LEMMA RankMono ==
  ASSUME NEW engine, NEW lines \in Seq(LineKinds), NEW i \in Nat, NEW j \in Nat, i <= j
  PROVE  Rank(engine, lines, i) <= Rank(engine, lines, j)
  <1>1. CountedUpTo(engine, lines, i) \in SUBSET CountedUpTo(engine, lines, j)
    BY DEF CountedUpTo
  <1> QED
    BY <1>1, CountedFinite, FS_Subset DEF Rank

LEMMA RankStrict ==
  ASSUME NEW engine, NEW lines \in Seq(LineKinds), NEW i \in Nat, NEW j \in Nat,
         i < j, lines[j] \in Counted(engine)
  PROVE  Rank(engine, lines, i) < Rank(engine, lines, j)
  <1>1. j - 1 \in Nat /\ i <= j - 1 /\ (j - 1) + 1 = j
    OBVIOUS
  <1>2. Rank(engine, lines, j) = Rank(engine, lines, j - 1) + 1
    BY <1>1, RankStep
  <1> QED
    BY <1>1, <1>2, RankMono, CountedFinite

LEMMA RankZero == ASSUME NEW engine, NEW lines PROVE Rank(engine, lines, 0) = 0
  <1>1. CountedUpTo(engine, lines, 0) = {}
    BY DEF CountedUpTo
  <1> QED
    BY <1>1, FS_EmptySet DEF Rank

-----------------------------------------------------------------------------
(* Every file has a number of shards.                                      *)
LEMMA Rounding ==
  ASSUME NEW r \in Nat, NEW c \in Nat \ {0}
  PROVE  \E n \in 0 .. r : r <= n * c /\ n * c < r + c
  <1> DEFINE n == (r + c - 1) \div c
             m == (r + c - 1) % c
  <1>1. n \in Int /\ m \in 0 .. c - 1 /\ r + c - 1 = c * n + m
    OBVIOUS
  <1>2. n * c = c * n /\ n * c \in Int
    BY <1>1
  <1>3. r <= n * c /\ n * c < r + c
    BY <1>1, <1>2
  <1> HIDE DEF n, m
  <1>4. n >= 0
    <2> SUFFICES ASSUME n < 0 PROVE FALSE
      BY <1>1
    <2>1. n * c < 0
      BY <1>1
    <2> QED
      BY <1>2, <1>3, <2>1
  <1>5. n <= r
    <2> SUFFICES ASSUME r + 1 <= n PROVE FALSE
      BY <1>1
    <2>1. (r + 1) * c <= n * c
      BY <1>1, <1>4, TimesMono
    <2>2. (r + 1) * c = r * c + c /\ r <= r * c
      BY TimesNext, TimesAtLeast
    <2> QED
      BY <1>2, <1>3, <2>1, <2>2, TimesType
  <1> QED
    <2>1. n \in 0 .. r
      BY <1>1, <1>4, <1>5
    <2> WITNESS n \in 0 .. r
    <2> QED
      BY <1>3

LEMMA ShardsDef ==
  ASSUME NEW engine, NEW chunk \in Nat \ {0}, NEW lines \in Seq(LineKinds)
  PROVE  LET n == Shards(engine, chunk, lines)
             r == Rank(engine, lines, Len(lines))
         IN  /\ n \in 0 .. Len(lines)
             /\ r <= n * chunk
             /\ n * chunk < r + chunk
  <1> DEFINE r == Rank(engine, lines, Len(lines))
             P(n) == r <= n * chunk /\ n * chunk < r + chunk
  <1>1. Len(lines) \in Nat /\ r \in Nat /\ r <= Len(lines)
    BY CountedFinite
  <1>2. PICK n \in 0 .. r : P(n)
    BY <1>1, Rounding
  <1>3. n \in 0 .. Len(lines)
    BY <1>1, <1>2
  <1>4. \E k \in 0 .. Len(lines) : P(k)
    BY <1>2, <1>3
  <1>5. Shards(engine, chunk, lines) = CHOOSE k \in 0 .. Len(lines) : P(k)
    BY DEF Shards
  <1> HIDE DEF r, P
  <1>6. Shards(engine, chunk, lines) \in 0 .. Len(lines) /\ P(Shards(engine, chunk, lines))
    BY <1>4, <1>5
  <1> QED
    BY <1>6 DEF P, r

-----------------------------------------------------------------------------
(* The inductive invariant.                                                *)

InCall == pc \in {"scan", "write", "report"}
R(i) == Rank(job.engine, job.lines, i)
Wanted(i) == job.lines[i] \in Counted(job.engine)

(* The shard index and the place in the chunk always add up to the number  *)
(* of counted lines read, and a chunk is written only when it is full or   *)
(* the file has ended.                                                     *)
Counting ==
    InCall =>
        /\ shardN * job.chunk + inChunk = R(pos)
        /\ pc = "scan" => inChunk < job.chunk
        /\ pc # "scan" =>
              /\ inChunk > 0
              /\ shardN >= start
              /\ inChunk < job.chunk => pos = Len(job.lines)

(* The buffer holds the counted lines read since the last boundary, and    *)
(* nothing while fast-forwarding.                                          *)
Buffered ==
    InCall =>
        /\ shardN < start => buf = {}
        /\ shardN >= start =>
              /\ buf = {i \in 1 .. pos : Wanted(i) /\ shardN * job.chunk < R(i)}
              /\ buf = {} <=> inChunk = 0

(* What has been handed over continues what is kept, within the shards of  *)
(* the file, and completes them once the scan is over.                     *)
HandedOver ==
    /\ ShardsExact
    /\ pc \notin {"idle", "finished"} => start = Len(kept) /\ start + Len(out) <= Total
    /\ InCall => Len(out) = IF shardN < start THEN 0 ELSE shardN - start
    /\ pc = "done" => start + Len(out) = Total

KeptIsPrefix ==
    /\ kept = [i \in 1 .. Len(kept) |-> Shard(i - 1)]
    /\ Len(kept) <= Total
    /\ pc = "finished" => Len(kept) = Total

Inv == TypeOK /\ Counting /\ Buffered /\ HandedOver /\ KeptIsPrefix

-----------------------------------------------------------------------------
LEMMA JobType ==
  ASSUME job \in Jobs
  PROVE  /\ job.engine \in Engines /\ job.chunk \in Nat \ {0}
         /\ job.lines \in Seq(LineKinds) /\ Len(job.lines) \in Nat
  BY JobsAssumption

LEMMA RankTypes ==
  ASSUME job \in Jobs, NEW i \in Nat
  PROVE  R(i) \in Nat /\ R(i) <= i
  BY JobType, CountedFinite DEF R

LEMMA RankOfFile ==
  ASSUME job \in Jobs, NEW i \in 0 .. Len(job.lines)
  PROVE  R(i) <= R(Len(job.lines)) /\ R(Len(job.lines)) \in Nat
  <1>1. i \in Nat /\ Len(job.lines) \in Nat /\ i <= Len(job.lines)
    BY JobType
  <1> QED
    BY <1>1, JobType, RankTypes, RankMono DEF R

LEMMA TotalType ==
  ASSUME job \in Jobs
  PROVE  /\ Total \in 0 .. Len(job.lines)
         /\ R(Len(job.lines)) <= Total * job.chunk
         /\ Total * job.chunk < R(Len(job.lines)) + job.chunk
  BY JobType, ShardsDef DEF Total, R, Lines

LEMMA ShardIsRows == ASSUME NEW n PROVE Shard(n) \in SUBSET DOMAIN job.lines
  BY DEF Shard, ShardRecords, Lines

(* An index that the counted lines reach is one of the file's paths.       *)
LEMMA IndexFits ==
  ASSUME job \in Jobs, NEW n \in Nat, NEW i \in 0 .. Len(job.lines), n * job.chunk <= R(i)
  PROVE  n \in Paths /\ n <= Total
  <1>1. job.chunk \in Nat \ {0} /\ i \in Nat /\ Len(job.lines) \in Nat
    BY JobType
  <1>2. R(i) \in Nat /\ R(i) <= i /\ R(i) <= R(Len(job.lines))
    BY <1>1, RankTypes, RankOfFile
  <1>3. n <= n * job.chunk /\ n * job.chunk \in Nat
    BY <1>1, TimesAtLeast, TimesType
  <1>4. n \in Paths
    BY <1>1, <1>2, <1>3 DEF Paths, Lines
  <1>5. Total \in Nat /\ Total * job.chunk \in Nat /\ R(Len(job.lines)) <= Total * job.chunk
    BY <1>1, TotalType, TimesType
  <1>6. n <= Total
    <2> SUFFICES ASSUME Total < n PROVE FALSE
      BY <1>5
    <2>1. Total * job.chunk + job.chunk <= n * job.chunk
      BY <1>1, <1>5, TimesGap
    <2>2. R(Len(job.lines)) \in Nat
      BY <1>1, RankTypes
    <2> DEFINE a == n * job.chunk
               c == job.chunk
               t == Total * job.chunk
               r == R(Len(job.lines))
    <2>3. /\ a \in Nat /\ t \in Nat /\ r \in Nat /\ c \in Nat \ {0} /\ R(i) \in Nat
          /\ t + c <= a /\ a <= R(i) /\ R(i) <= r /\ r <= t
      BY <1>1, <1>2, <1>3, <1>5, <2>1, <2>2
    <2> HIDE DEF a, c, t, r
    <2> QED
      BY ONLY <2>3
  <1> QED
    BY <1>4, <1>6

(* One more index fits while the chunk being filled is not empty.          *)
LEMMA NextFits ==
  ASSUME job \in Jobs, NEW n \in Nat, NEW c \in Nat, c > 0, NEW i \in 0 .. Len(job.lines),
         n * job.chunk + c = R(i)
  PROVE  n + 1 \in Paths /\ n + 1 <= Total
  <1>1. job.chunk \in Nat \ {0} /\ i \in Nat /\ Len(job.lines) \in Nat
    BY JobType
  <1>2. R(i) \in Nat /\ R(i) <= i /\ R(i) <= R(Len(job.lines)) /\ R(Len(job.lines)) \in Nat
    BY <1>1, RankTypes, RankOfFile
  <1>3. n <= n * job.chunk /\ n * job.chunk \in Nat
    BY <1>1, TimesAtLeast, TimesType
  <1>4. n + 1 \in Paths
    BY <1>1, <1>2, <1>3 DEF Paths, Lines
  <1>5. Total \in Nat /\ Total * job.chunk \in Nat /\ R(Len(job.lines)) <= Total * job.chunk
    BY <1>1, TotalType, TimesType
  <1>6. n * job.chunk < Total * job.chunk
    <2> DEFINE a == n * job.chunk
               t == Total * job.chunk
               r == R(Len(job.lines))
    <2>1. /\ a \in Nat /\ t \in Nat /\ r \in Nat /\ R(i) \in Nat
          /\ a + c = R(i) /\ R(i) <= r /\ r <= t
      BY <1>2, <1>3, <1>5
    <2> HIDE DEF a, t, r
    <2>2. c \in Nat /\ c > 0
      OBVIOUS
    <2>3. a < t
      BY ONLY <2>1, <2>2
    <2> QED
      BY <2>3 DEF a, t
  <1>7. n < Total
    BY <1>1, <1>5, <1>6, TimesStrict
  <1> QED
    BY <1>4, <1>5, <1>7

(* The rows of a chunk that is written are those of the file's shard.      *)
LEMMA ChunkIsShard ==
  ASSUME Inv, pc \in {"write", "report"}
  PROVE  RowsOf(buf) = Shard(shardN)
  <1> DEFINE c == job.chunk
             n == shardN
  <1>1. /\ job.engine \in Engines /\ c \in Nat \ {0} /\ n \in Nat /\ pos \in Nat /\ inChunk \in Nat
        /\ job.lines \in Seq(LineKinds) /\ Len(job.lines) \in Nat /\ pos <= Len(job.lines)
        /\ inChunk <= c
    BY JobType DEF Inv, TypeOK, Paths, Lines
  <1>2. /\ n * c + inChunk = R(pos) /\ n >= start
        /\ inChunk < c => pos = Len(job.lines)
    BY DEF Inv, Counting, InCall
  <1>3. buf = {i \in 1 .. pos : Wanted(i) /\ n * c < R(i)}
    BY <1>2 DEF Inv, Buffered, InCall
  <1>4. n * c \in Nat
    BY <1>1, TimesType
  <1>5. \A i \in 1 .. Len(job.lines) : R(i) \in Nat
    <2> TAKE i \in 1 .. Len(job.lines)
    <2>1. i \in Nat /\ job \in Jobs
      BY DEF Inv, TypeOK
    <2> QED
      BY <2>1, RankTypes
  <1>6. \A i \in 1 .. pos : R(i) <= n * c + c
    <2> TAKE i \in 1 .. pos
    <2> DEFINE a == n * c
    <2>1. R(i) <= R(pos)
      BY <1>1, RankMono DEF R
    <2>2. i \in 1 .. Len(job.lines)
      BY <1>1
    <2>3. R(i) \in Nat /\ a \in Nat /\ c \in Nat /\ inChunk \in Nat /\ inChunk <= c
          /\ a + inChunk = R(pos)
      BY <1>1, <1>2, <1>4, <1>5, <2>2
    <2> HIDE DEF a, c
    <2>4. R(i) <= a + c
      BY ONLY <2>1, <2>3
    <2> QED
      BY <2>4 DEF a
  <1>7. \A i \in 1 .. Len(job.lines) : Wanted(i) /\ R(i) <= n * c + c => i <= pos
    <2> SUFFICES ASSUME NEW i \in 1 .. Len(job.lines), Wanted(i), R(i) <= n * c + c, pos < i
                 PROVE  FALSE
      BY <1>1
    <2>1. R(pos) < R(i)
      BY <1>1, RankStrict DEF R, Wanted
    <2>2. inChunk = c
      BY <1>1, <1>2
    <2> DEFINE a == n * c
    <2>3. R(i) \in Nat /\ R(pos) = a + c /\ a \in Nat /\ c \in Nat /\ R(i) <= a + c
      BY <1>1, <1>2, <1>4, <1>5, <2>2
    <2> HIDE DEF a, c
    <2> QED
      BY ONLY <2>1, <2>3
  <1>8. \A i \in 1 .. Len(job.lines) : job.lines[i] = "row" => Wanted(i)
    BY <1>1 DEF Wanted, Counted
  <1>9. Shard(n) = {i \in 1 .. Len(job.lines) :
                      job.lines[i] = "row" /\ n * c < R(i) /\ R(i) <= n * c + c}
    BY <1>1 DEF Shard, ShardRecords, R, Lines
  <1>10. RowsOf(buf) = {i \in buf : job.lines[i] = "row"}
    BY DEF RowsOf, Lines
  <1> HIDE DEF c, n
  <1>11. RowsOf(buf) \subseteq Shard(n)
    BY <1>1, <1>3, <1>6, <1>9, <1>10
  <1>12. Shard(n) \subseteq RowsOf(buf)
    BY <1>1, <1>3, <1>7, <1>8, <1>9, <1>10
  <1> QED
    BY <1>11, <1>12 DEF n

-----------------------------------------------------------------------------
(* The invariant holds at the start and is kept by every action.           *)
USE DEF Lines, scan

LEMMA InitInv == Init => Inv
  <1> SUFFICES ASSUME Init PROVE Inv
    OBVIOUS
  <1> USE DEF Init
  <1>1. Len(job.lines) \in Nat /\ job.chunk \in Nat \ {0} /\ Total \in Nat
    BY JobType, TotalType
  <1>2. TypeOK
    BY <1>1, CallsAssumption DEF TypeOK, Paths
  <1>3. Counting /\ Buffered
    BY DEF Counting, Buffered, InCall
  <1>4. HandedOver
    BY DEF HandedOver, ShardsExact, InCall
  <1>5. KeptIsPrefix
    BY <1>1 DEF KeptIsPrefix
  <1> QED
    BY <1>2, <1>3, <1>4, <1>5 DEF Inv

(* What the caller keeps of a prefix of out continues the list of shards.  *)
LEMMA KeepPrefix ==
  ASSUME Inv, start = Len(kept), NEW k \in 0 .. Len(out), start + Len(out) <= Total
  PROVE  /\ KeptAfter(k) \in Seq(SUBSET DOMAIN job.lines)
         /\ Len(KeptAfter(k)) = Len(kept) + k
         /\ KeptAfter(k) = [i \in 1 .. Len(kept) + k |-> Shard(i - 1)]
  <1> DEFINE tail == [i \in 1 .. k |-> out[i].recs]
  <1>1. /\ kept \in Seq(SUBSET DOMAIN job.lines)
        /\ out \in Seq([n : Paths, recs : SUBSET DOMAIN job.lines])
        /\ k \in Nat /\ Len(kept) \in Nat /\ k <= Len(out)
    BY DEF Inv, TypeOK
  <1>2. \A i \in 1 .. k : i \in DOMAIN out /\ out[i].recs = Shard(Len(kept) + i - 1)
    <2> TAKE i \in 1 .. k
    <2>1. i \in 1 .. Len(out) /\ DOMAIN out = 1 .. Len(out)
      BY <1>1
    <2>2. out[i].recs = Shard(start + i - 1)
      BY <2>1 DEF Inv, HandedOver, ShardsExact
    <2> QED
      BY <2>1, <2>2
  <1>3. tail \in Seq(SUBSET DOMAIN job.lines) /\ Len(tail) = k
    <2> DEFINE S == SUBSET DOMAIN job.lines
    <2>1. \A i \in 1 .. k : out[i].recs \in S
      BY <1>2, ShardIsRows
    <2> HIDE DEF S
    <2>2. tail \in [1 .. k -> S]
      BY <2>1
    <2> HIDE DEF tail
    <2>3. tail \in Seq(S) /\ Len(tail) = k
      BY ONLY <2>2, <1>1
    <2> QED
      BY <2>3 DEF S
  <1>4. \A i \in 1 .. Len(kept) : kept[i] = Shard(i - 1)
    BY DEF Inv, KeptIsPrefix
  <1>5. KeptAfter(k) = kept \o tail
    BY DEF KeptAfter
  <1> HIDE DEF tail
  <1>6. kept \o tail \in Seq(SUBSET DOMAIN job.lines) /\ Len(kept \o tail) = Len(kept) + k
    BY <1>1, <1>3
  <1>7. \A i \in 1 .. Len(kept) + k : (kept \o tail)[i] = Shard(i - 1)
    <2> TAKE i \in 1 .. Len(kept) + k
    <2>1. CASE i <= Len(kept)
      BY <1>1, <1>3, <1>4, <2>1
    <2>2. CASE i > Len(kept)
      <3>1. i - Len(kept) \in 1 .. k
        BY <1>1, <2>2
      <3>2. (kept \o tail)[i] = tail[i - Len(kept)]
        BY <1>1, <1>3, <2>2, <3>1
      <3>3. tail[i - Len(kept)] = out[i - Len(kept)].recs
        BY <3>1 DEF tail
      <3>4. Len(kept) + (i - Len(kept)) - 1 = i - 1
        BY <1>1
      <3> QED
        BY <1>2, <3>1, <3>2, <3>3, <3>4
    <2>3. i <= Len(kept) \/ i > Len(kept)
      BY <1>1
    <2> QED
      BY <2>1, <2>2, <2>3
  <1>8. kept \o tail = [i \in 1 .. Len(kept) + k |-> (kept \o tail)[i]]
    <2> DEFINE s == kept \o tail
               n == Len(kept) + k
    <2>1. s \in Seq(SUBSET DOMAIN job.lines) /\ Len(s) = n
      BY <1>6
    <2> HIDE DEF s, n
    <2>2. s = [i \in 1 .. n |-> s[i]]
      BY <2>1
    <2> QED
      BY <2>2 DEF s, n
  <1> QED
    BY <1>5, <1>6, <1>7, <1>8

LEMMA CallInv == ASSUME Inv, Call PROVE Inv'
  <1> USE DEF Call, Seed
  <1>1. TypeOK'
    BY JobType, CallsAssumption DEF Inv, TypeOK, Paths
  <1>2. Counting' /\ Buffered'
    <2>1. Rank(job.engine, job.lines, 0) = 0 /\ job.chunk \in Nat \ {0} /\ 0 * job.chunk = 0
      BY RankZero, JobType DEF Inv, TypeOK
    <2>2. start' \in Nat
      BY DEF Inv, TypeOK
    <2> QED
      BY <2>1, <2>2 DEF Counting, Buffered, InCall, R
  <1>3. HandedOver' /\ KeptIsPrefix'
    <2>1. Len(kept) \in Nat /\ Len(kept) <= Total /\ Total \in Nat
      BY TotalType DEF Inv, TypeOK, KeptIsPrefix
    <2> QED
      BY <2>1 DEF Inv, HandedOver, KeptIsPrefix, ShardsExact, InCall, Total, Shard
  <1> QED
    BY <1>1, <1>2, <1>3 DEF Inv

LEMMA SkipLineInv == ASSUME Inv, SkipLine PROVE Inv'
  <1> USE DEF SkipLine, Reading, IsCounted
  <1>1. TypeOK'
    BY JobType DEF Inv, TypeOK, Paths
  <1>2. pos \in Nat /\ pos + 1 <= Len(job.lines) /\ job \in Jobs
    BY JobType DEF Inv, TypeOK
  <1>3. R(pos + 1) = R(pos) /\ ~Wanted(pos + 1)
    BY <1>2, JobType, RankStep DEF R, Wanted
  <1>4. Counting'
    BY <1>3 DEF Inv, Counting, InCall, R
  <1>5. Buffered'
    <2>1. {i \in 1 .. pos + 1 : Wanted(i) /\ shardN * job.chunk < R(i)}
              = {i \in 1 .. pos : Wanted(i) /\ shardN * job.chunk < R(i)}
      BY <1>2, <1>3
    <2> QED
      BY <2>1 DEF Inv, Buffered, InCall, R, Wanted
  <1>6. HandedOver' /\ KeptIsPrefix'
    BY DEF Inv, HandedOver, KeptIsPrefix, ShardsExact, InCall, Total, Shard
  <1> QED
    BY <1>1, <1>4, <1>5, <1>6 DEF Inv

(* One more counted line, within the chunk and at its end.                 *)
LEMMA CountOn ==
  ASSUME NEW p \in Nat, NEW c \in Nat, NEW r, p + c = r
  PROVE  p + (c + 1) = r + 1 /\ (p + (c + 1)) + 0 = r + 1
  OBVIOUS

LEMMA FastForwardInv == ASSUME Inv, FastForward PROVE Inv'
  <1> USE DEF FastForward, Reading, IsCounted, PastChunk
  <1>1. /\ pos \in Nat /\ pos + 1 \in 0 .. Len(job.lines) /\ job \in Jobs
        /\ shardN \in Nat /\ inChunk \in Nat /\ start \in Nat /\ job.chunk \in Nat \ {0}
    BY JobType DEF Inv, TypeOK, Paths
  <1>2. R(pos + 1) = R(pos) + 1
    BY <1>1, JobType, RankStep DEF R
  <1>3. shardN * job.chunk + inChunk = R(pos) /\ inChunk < job.chunk /\ buf = {}
    BY DEF Inv, Counting, Buffered, InCall
  <1>4. shardN * job.chunk \in Nat /\ (shardN + 1) * job.chunk = shardN * job.chunk + job.chunk
    <2>1. shardN \in Nat /\ job.chunk \in Nat /\ shardN \in Int /\ job.chunk \in Int
      BY <1>1
    <2> QED
      BY ONLY <2>1, TimesType, TimesNext
  <1>p. /\ shardN * job.chunk + (inChunk + 1) = R(pos) + 1
        /\ (shardN * job.chunk + (inChunk + 1)) + 0 = R(pos) + 1
    <2> DEFINE p == shardN * job.chunk
               r == R(pos)
    <2>1. p \in Nat /\ inChunk \in Nat /\ p + inChunk = r
      BY <1>1, <1>3, <1>4
    <2> HIDE DEF p, r
    <2>2. p + (inChunk + 1) = r + 1 /\ (p + (inChunk + 1)) + 0 = r + 1
      BY ONLY <2>1, CountOn
    <2> QED
      BY <2>2 DEF p, r
  <1>5. /\ shardN' \in Nat /\ inChunk' \in Nat /\ inChunk' < job.chunk
        /\ shardN' * job.chunk \in Nat /\ shardN' * job.chunk + inChunk' = R(pos + 1)
        /\ shardN' >= start => inChunk' = 0 /\ shardN' = start
    <2>1. CASE PastChunk
      <3>1. shardN' = shardN + 1 /\ inChunk' = 0 /\ inChunk + 1 = job.chunk
        BY <1>1, <1>3, <2>1
      <3>2. shardN' * job.chunk = shardN * job.chunk + job.chunk
        BY <1>4, <3>1
      <3>3. shardN' >= start => shardN' = start
        BY <1>1, <3>1
      <3>4. shardN' * job.chunk + inChunk' = R(pos + 1)
        BY <1>2, <1>p, <3>1, <3>2
      <3>5. shardN' * job.chunk \in Nat /\ shardN' \in Nat /\ inChunk' \in Nat /\ inChunk' < job.chunk
        BY <1>1, <3>1, TimesType
      <3> QED
        BY <3>1, <3>3, <3>4, <3>5
    <2>2. CASE ~PastChunk
      <3>1. shardN' = shardN /\ inChunk' = inChunk + 1 /\ inChunk + 1 < job.chunk
        BY <1>1, <1>3, <2>2
      <3>2. ~(shardN' >= start)
        BY <1>1, <3>1
      <3>3. shardN' * job.chunk + inChunk' = R(pos + 1)
        BY <1>2, <1>p, <3>1
      <3>4. shardN' * job.chunk \in Nat /\ shardN' \in Nat /\ inChunk' \in Nat /\ inChunk' < job.chunk
        BY <1>1, <1>4, <3>1
      <3> QED
        BY <3>2, <3>3, <3>4
    <2> QED
      BY <2>1, <2>2
  <1>c. Counting'
    BY <1>1, <1>5 DEF Counting, InCall, R
  <1>6. shardN' * job.chunk <= R(pos + 1)
    BY <1>5
  <1>7. shardN' \in Paths
    BY <1>1, <1>5, <1>6, IndexFits
  <1>8. TypeOK'
    <2>1. shardN' \in Paths /\ inChunk' \in 0 .. job.chunk /\ buf' \subseteq 1 .. pos'
      BY <1>1, <1>3, <1>5, <1>7
    <2>2. pos' \in 0 .. Len(job.lines)
      BY <1>1
    <2>3. UNCHANGED <<job, kept, calls, pc, start, out, decoder, disk>>
      OBVIOUS
    <2> QED
      BY ONLY Inv, <2>1, <2>2, <2>3 DEF Inv, TypeOK, Paths, Lines
  <1>9. Buffered'
    <2>1. CASE shardN' < start
      BY <1>1, <1>3, <2>1 DEF Buffered, InCall
    <2>2. CASE shardN' >= start
      <3>1. inChunk' = 0 /\ shardN' * job.chunk = R(pos + 1)
        BY <1>1, <1>5, <2>2
      <3>2. \A i \in 1 .. pos + 1 : ~(shardN' * job.chunk < R(i))
        <4> TAKE i \in 1 .. pos + 1
        <4>1. R(i) <= R(pos + 1) /\ R(i) \in Nat /\ R(pos + 1) \in Nat
          BY <1>1, JobType, RankMono, CountedFinite DEF R
        <4> QED
          BY <3>1, <4>1
      <3> QED
        BY <1>1, <1>3, <2>2, <3>1, <3>2 DEF Buffered, InCall, R
    <2> QED
      BY <1>1, <1>5, <2>1, <2>2
  <1>10. HandedOver' /\ KeptIsPrefix'
    <2>1. out = <<>> /\ shardN' <= start
      BY <1>1, <1>5 DEF Inv, HandedOver, InCall, TypeOK
    <2> QED
      BY <1>1, <2>1 DEF Inv, HandedOver, KeptIsPrefix, ShardsExact, InCall, Total, Shard
  <1> QED
    BY <1>c, <1>8, <1>9, <1>10 DEF Inv

LEMMA BufferLineInv == ASSUME Inv, BufferLine PROVE Inv'
  <1> USE DEF BufferLine, Reading, IsCounted, PastChunk
  <1>1. /\ pos \in Nat /\ pos + 1 \in 0 .. Len(job.lines) /\ job \in Jobs
        /\ shardN \in Nat /\ inChunk \in Nat /\ start \in Nat /\ job.chunk \in Nat \ {0}
        /\ buf \subseteq 1 .. pos
    BY JobType DEF Inv, TypeOK, Paths
  <1>2. R(pos + 1) = R(pos) + 1 /\ Wanted(pos + 1)
    BY <1>1, JobType, RankStep DEF R, Wanted
  <1>3. /\ shardN * job.chunk + inChunk = R(pos) /\ inChunk < job.chunk
        /\ buf = {i \in 1 .. pos : Wanted(i) /\ shardN * job.chunk < R(i)}
    BY DEF Inv, Counting, Buffered, InCall
  <1>4. shardN * job.chunk \in Nat
    BY <1>1, TimesType
  <1>5. Counting'
    <2> DEFINE a == shardN * job.chunk
               c == job.chunk
               r == R(pos)
    <2>1. a \in Nat /\ inChunk \in Nat /\ c \in Nat /\ a + inChunk = r /\ inChunk < c
      BY <1>1, <1>3, <1>4
    <2> HIDE DEF a, c, r
    <2>2. /\ a + (inChunk + 1) = r + 1 /\ inChunk + 1 > 0
          /\ ~(inChunk + 1 >= c) => inChunk + 1 < c
          /\ inChunk + 1 >= c => ~(inChunk + 1 < c)
      BY ONLY <2>1
    <2>3. /\ shardN' = shardN /\ start' = start /\ job' = job /\ shardN >= start
          /\ inChunk' = inChunk + 1 /\ pos' = pos + 1
          /\ pc' = IF inChunk + 1 >= c THEN "write" ELSE "scan"
      BY DEF c
    <2>4. shardN * job.chunk + inChunk' = R(pos + 1)
      BY <1>2, <2>2, <2>3 DEF a, r
    <2>5. /\ pc' = "scan" => inChunk' < job.chunk
          /\ pc' # "scan" => ~(inChunk' < job.chunk)
      BY <2>2, <2>3 DEF c
    <2> QED
      BY ONLY <2>2, <2>3, <2>4, <2>5 DEF Counting, InCall, R
  <1>6. TypeOK'
    <2>1. inChunk' \in 0 .. job.chunk /\ pos' \in 0 .. Len(job.lines)
      <3>1. inChunk < job.chunk /\ inChunk' = inChunk + 1 /\ pos' = pos + 1
        BY <1>3
      <3> QED
        BY ONLY <1>1, <3>1
    <2>2. buf' \subseteq 1 .. pos'
      BY ONLY <1>1, BufferLine DEF BufferLine
    <2>3. pc' \in {"scan", "write"}
      OBVIOUS
    <2>4. UNCHANGED <<job, kept, calls, start, shardN, out, decoder, disk>> /\ TypeOK
      BY DEF Inv
    <2> QED
      BY ONLY <2>1, <2>2, <2>3, <2>4 DEF TypeOK, Paths
  <1>7. Buffered'
    <2>1. shardN * job.chunk < R(pos + 1)
      <3> DEFINE a == shardN * job.chunk
                 r == R(pos)
      <3>1. a \in Nat /\ inChunk \in Nat /\ a + inChunk = r
        BY <1>1, <1>3, <1>4
      <3> HIDE DEF a, r
      <3>2. a < r + 1
        BY ONLY <3>1
      <3> QED
        BY <1>2, <3>2 DEF a, r
    <2>2. buf' = {i \in 1 .. pos + 1 : Wanted(i) /\ shardN * job.chunk < R(i)}
      BY <1>1, <1>2, <1>3, <2>1
    <2> QED
      BY <1>1, <2>2 DEF Buffered, InCall, R, Wanted
  <1>8. HandedOver' /\ KeptIsPrefix'
    BY DEF Inv, HandedOver, KeptIsPrefix, ShardsExact, InCall, Total, Shard
  <1> QED
    BY <1>5, <1>6, <1>7, <1>8 DEF Inv

LEMMA EndOfFileInv == ASSUME Inv, EndOfFile PROVE Inv'
  <1> USE DEF EndOfFile, AfterScan
  <1>1. /\ job \in Jobs /\ Len(job.lines) \in Nat /\ job.chunk \in Nat \ {0}
        /\ shardN \in Nat /\ inChunk \in Nat /\ start \in Nat /\ pos = Len(job.lines)
        /\ Total \in Nat /\ start <= Total
    BY JobType, TotalType DEF Inv, TypeOK, Paths, HandedOver, KeptIsPrefix
  <1>2. shardN * job.chunk + inChunk = R(pos) /\ inChunk < job.chunk
    BY DEF Inv, Counting, InCall
  <1>3. TypeOK'
    <2>1. decoder' \in BOOLEAN
      BY Zenon DEF HoldsForLast
    <2>2. pc' \in {"done", "write"} /\ UNCHANGED <<job, kept, calls, scan, out, disk>>
      OBVIOUS
    <2> QED
      BY ONLY Inv, <2>1, <2>2 DEF Inv, TypeOK, Paths, Lines, scan
  <1>4. Counting'
    BY <1>1 DEF Inv, Counting, Buffered, InCall, R
  <1>5. Buffered'
    BY DEF Inv, Buffered, InCall, R, Wanted
  <1>6. buf = {} => start + Len(out) = Total
    <2> SUFFICES ASSUME buf = {} PROVE start + Len(out) = Total
      OBVIOUS
    <2>1. /\ R(pos) \in Nat /\ R(pos) <= Total * job.chunk
          /\ Total * job.chunk < R(pos) + job.chunk
      BY <1>1, TotalType, RankTypes
    <2>2. shardN * job.chunk \in Nat /\ Total * job.chunk \in Nat
      BY <1>1, TimesType
    <2>3. CASE shardN >= start
      <3>1. inChunk = 0 /\ Len(out) = shardN - start
        BY <1>1, <2>3 DEF Inv, Buffered, HandedOver, InCall
      <3>2. shardN * job.chunk = R(pos)
        BY <1>2, <2>2, <3>1
      <3>3. shardN <= Total
        BY <1>1, <3>1 DEF Inv, HandedOver
      <3>4. ~(shardN < Total)
        <4> SUFFICES ASSUME shardN < Total PROVE FALSE
          OBVIOUS
        <4>1. shardN * job.chunk + job.chunk <= Total * job.chunk
          BY <1>1, TimesGap
        <4> DEFINE a == shardN * job.chunk
                   c == job.chunk
                   t == Total * job.chunk
        <4>2. /\ a \in Nat /\ t \in Nat /\ c \in Nat
              /\ a + c <= t /\ a = R(pos) /\ t < R(pos) + c
          BY <1>1, <2>1, <2>2, <3>2, <4>1
        <4> HIDE DEF a, c, t
        <4> QED
          BY ONLY <4>2
      <3> QED
        BY <1>1, <3>1, <3>3, <3>4
    <2>4. CASE shardN < start
      <3>1. Len(out) = 0
        BY <2>4 DEF Inv, HandedOver, InCall
      <3>2. ~(start < Total)
        <4> SUFFICES ASSUME start < Total PROVE FALSE
          OBVIOUS
        <4>1. start * job.chunk + job.chunk <= Total * job.chunk /\ start * job.chunk \in Nat
          BY <1>1, TimesGap, TimesType
        <4>2. shardN * job.chunk + job.chunk <= start * job.chunk
          BY <1>1, <2>4, TimesGap
        <4> DEFINE a == shardN * job.chunk
                   b == start * job.chunk
                   t == Total * job.chunk
                   c == job.chunk
        <4>3. /\ a \in Nat /\ b \in Nat /\ t \in Nat /\ c \in Nat /\ inChunk \in Nat
              /\ a + inChunk = R(pos) /\ t < R(pos) + c /\ inChunk < c
              /\ b + c <= t /\ a + c <= b
          BY <1>1, <1>2, <2>1, <2>2, <4>1, <4>2
        <4> HIDE DEF a, b, c, t
        <4> QED
          BY ONLY <4>3
      <3> QED
        BY <1>1, <3>1, <3>2
    <2> QED
      BY <1>1, <2>3, <2>4
  <1>7. HandedOver' /\ KeptIsPrefix'
    BY <1>6 DEF Inv, HandedOver, KeptIsPrefix, ShardsExact, InCall, Total, Shard
  <1> QED
    BY <1>3, <1>4, <1>5, <1>7 DEF Inv

LEMMA RowsType == Inv => RowsOf(buf) \in SUBSET DOMAIN job.lines
  <1> SUFFICES ASSUME Inv PROVE RowsOf(buf) \in SUBSET DOMAIN job.lines
    OBVIOUS
  <1>1. buf \subseteq 1 .. pos /\ pos \in 0 .. Len(job.lines) /\ Len(job.lines) \in Nat
    BY JobType DEF Inv, TypeOK
  <1>2. job.lines \in Seq(LineKinds)
    BY JobType DEF Inv, TypeOK
  <1> QED
    <2>1. DOMAIN job.lines = 1 .. Len(job.lines)
      BY <1>2
    <2>2. 1 .. pos \subseteq 1 .. Len(job.lines)
      BY <1>1
    <2> QED
      BY <1>1, <2>1, <2>2 DEF RowsOf

LEMMA WriteShardInv == ASSUME Inv, WriteShard PROVE Inv'
  <1> USE DEF WriteShard
  <1>1. TypeOK'
    BY RowsType DEF Inv, TypeOK, Paths
  <1>2. Counting' /\ Buffered'
    BY DEF Inv, Counting, Buffered, InCall, R, Wanted
  <1>3. HandedOver' /\ KeptIsPrefix'
    BY DEF Inv, HandedOver, KeptIsPrefix, ShardsExact, InCall, Total, Shard
  <1> QED
    BY <1>1, <1>2, <1>3 DEF Inv

LEMMA ReportInv == ASSUME Inv, Report PROVE Inv'
  <1> USE DEF Report, NextIndex
  <1>1. /\ job \in Jobs /\ Len(job.lines) \in Nat /\ job.chunk \in Nat \ {0}
        /\ shardN \in Nat /\ inChunk \in Nat /\ inChunk > 0 /\ inChunk <= job.chunk
        /\ start \in Nat /\ pos \in 0 .. Len(job.lines) /\ shardN >= start
        /\ inChunk < job.chunk => pos = Len(job.lines)
    BY JobType DEF Inv, TypeOK, Paths, Counting, InCall
  <1>2. shardN * job.chunk + inChunk = R(pos) /\ R(pos) \in Nat
    BY <1>1, RankTypes DEF Inv, Counting, InCall
  <1>3. shardN + 1 \in Paths /\ shardN + 1 <= Total /\ Total \in Nat
    BY <1>1, <1>2, NextFits, TotalType
  <1>4. /\ out \in Seq([n : Paths, recs : SUBSET DOMAIN job.lines])
        /\ Len(out) \in Nat /\ Len(out) = shardN - start
    BY <1>1 DEF Inv, TypeOK, HandedOver, InCall
  <1>5. RowsOf(buf) = Shard(shardN)
    BY ChunkIsShard
  <1>6. /\ out' \in Seq([n : Paths, recs : SUBSET DOMAIN job.lines])
        /\ Len(out') = Len(out) + 1
        /\ \A i \in 1 .. Len(out) : out'[i] = out[i]
        /\ out'[Len(out) + 1] = [n |-> shardN, recs |-> Shard(shardN)]
    <2>1. Reported \in [n : Paths, recs : SUBSET DOMAIN job.lines]
      BY RowsType DEF Reported, Inv, TypeOK
    <2>2. Reported = [n |-> shardN, recs |-> Shard(shardN)]
      BY <1>5 DEF Reported
    <2> QED
      BY <1>4, <2>1, <2>2
  <1>7. /\ shardN' = shardN + 1 /\ inChunk' = 0 /\ buf' = {}
        /\ UNCHANGED <<job, kept, calls, start, pos, disk>>
    OBVIOUS
  <1>8. \/ inChunk = job.chunk /\ pc' = "scan" /\ decoder' = decoder
        \/ inChunk < job.chunk /\ pc' = "done" /\ decoder' = FALSE
    BY <1>1
  <1>9. TypeOK'
    <2>1. job' \in Jobs /\ kept' \in Seq(SUBSET DOMAIN job'.lines) /\ calls' \in 0 .. MaxCalls
      BY <1>7 DEF Inv, TypeOK
    <2>2. decoder' \in BOOLEAN /\ pc' \in {"scan", "done"}
      BY <1>8 DEF Inv, TypeOK
    <2>3. out' \in Seq([n : Paths', recs : SUBSET DOMAIN job'.lines])
      BY <1>6, <1>7 DEF Paths
    <2>4. disk' \in [Paths' -> (SUBSET DOMAIN job'.lines) \cup {Absent, Torn}]
      BY <1>7 DEF Inv, TypeOK, Paths
    <2>5. /\ shardN' \in Paths' /\ inChunk' \in 0 .. job'.chunk /\ buf' \subseteq 1 .. pos'
          /\ start' \in Nat /\ pos' \in 0 .. Len(job'.lines)
      BY <1>1, <1>3, <1>7 DEF Paths
    <2> QED
      BY ONLY <2>1, <2>2, <2>3, <2>4, <2>5 DEF TypeOK, Paths, Lines
  <1>10. shardN' * job.chunk \in Nat /\ shardN' * job.chunk = shardN * job.chunk + job.chunk
    BY <1>1, <1>7, TimesNext, TimesType
  <1>11. pc' = "scan" => shardN' * job.chunk = R(pos)
    BY <1>1, <1>2, <1>8, <1>10
  <1>12. Counting'
    BY ONLY <1>1, <1>2, <1>7, <1>8, <1>10, <1>11 DEF Counting, InCall, R
  <1>13. Buffered'
    <2>1. pc' = "scan" => \A i \in 1 .. pos : ~(shardN' * job.chunk < R(i))
      <3> SUFFICES ASSUME pc' = "scan", NEW i \in 1 .. pos PROVE ~(shardN' * job.chunk < R(i))
        OBVIOUS
      <3>1. R(i) <= R(pos) /\ R(i) \in Nat
        BY <1>1, JobType, RankMono, CountedFinite DEF R
      <3> QED
        BY <1>2, <1>10, <1>11, <3>1
    <2> QED
      BY ONLY <1>1, <1>7, <1>8, <2>1 DEF Buffered, InCall, R, Wanted
  <1>14. ShardsExact'
    <2> SUFFICES ASSUME NEW i \in 1 .. Len(out) + 1
                 PROVE  /\ out'[i].n = start + i - 1
                        /\ out'[i].recs = Shard(start + i - 1)
      BY <1>6, <1>7 DEF ShardsExact, Shard
    <2>1. CASE i = Len(out) + 1
      <3>1. start + i - 1 = shardN
        BY <1>1, <1>4, <2>1
      <3> QED
        BY <1>6, <2>1, <3>1
    <2>2. CASE i \in 1 .. Len(out)
      <3>1. i \in DOMAIN out
        BY <1>4, <2>2
      <3>2. out[i].n = start + i - 1 /\ out[i].recs = Shard(start + i - 1)
        BY <3>1 DEF Inv, HandedOver, ShardsExact
      <3> QED
        BY <1>6, <2>2, <3>2
    <2> QED
      BY <1>4, <2>1, <2>2
  <1>15. start = Len(kept)
    BY DEF Inv, HandedOver
  <1>16. start + Len(out') = shardN + 1
    BY <1>1, <1>4, <1>6
  <1>17. pc' = "done" => shardN + 1 = Total
    <2> SUFFICES ASSUME pc' = "done", shardN + 1 < Total PROVE FALSE
      BY <1>1, <1>3
    <2>1. pos = Len(job.lines)
      BY <1>1, <1>8
    <2>2. Total * job.chunk < R(pos) + job.chunk /\ Total * job.chunk \in Nat
      BY <1>1, <1>3, <2>1, TotalType, TimesType
    <2>3. (shardN + 1) * job.chunk + job.chunk <= Total * job.chunk
      BY <1>1, <1>3, shardN + 1 \in Nat, TimesGap
    <2> DEFINE a == (shardN + 1) * job.chunk
               b == shardN * job.chunk
               t == Total * job.chunk
               c == job.chunk
               r == R(pos)
    <2>4. a = b + c /\ b + inChunk = r /\ t < r + c /\ a + c <= t
      BY <1>2, <1>7, <1>10, <2>2, <2>3
    <2>5. b \in Nat /\ t \in Nat /\ c \in Nat /\ r \in Nat /\ inChunk \in Nat /\ inChunk <= c
      BY <1>1, <1>2, <2>2, TimesType
    <2> HIDE DEF a, b, t, c, r
    <2> QED
      BY ONLY <2>4, <2>5
  <1>18. HandedOver'
    BY <1>1, <1>3, <1>6, <1>7, <1>8, <1>14, <1>15, <1>16, <1>17 DEF HandedOver, InCall, Total
  <1>19. KeptIsPrefix'
    BY <1>7, <1>8 DEF Inv, KeptIsPrefix, Total, Shard
  <1> QED
    BY <1>9, <1>12, <1>13, <1>18, <1>19 DEF Inv

LEMMA FailureInv ==
  ASSUME Inv, OpenFails \/ ScanFails \/ WriteFails \/ ReportFails
  PROVE  Inv'
  <1>1. CASE OpenFails
    <2> USE <1>1 DEF OpenFails
    <2>1. TypeOK'
      BY CallsAssumption DEF Inv, TypeOK, Paths
    <2> QED
      BY <2>1 DEF Inv, Counting, Buffered, HandedOver, KeptIsPrefix, ShardsExact, InCall, R,
                  Wanted, Total, Shard
  <1>2. CASE ScanFails \/ WriteFails \/ ReportFails
    <2>1. /\ pc \in {"scan", "write", "report"} /\ pc' = "failed" /\ decoder' = FALSE
          /\ UNCHANGED <<job, kept, calls, start, pos, shardN, inChunk, buf, out>>
      BY <1>2 DEF ScanFails, WriteFails, ReportFails, scan
    <2>2. disk' \in [Paths -> (SUBSET DOMAIN job.lines) \cup {Absent, Torn}]
      BY <1>2, RowsType DEF ScanFails, WriteFails, ReportFails, Inv, TypeOK
    <2>3. TypeOK'
      BY ONLY Inv, <2>1, <2>2 DEF Inv, TypeOK, Paths, Lines
    <2>4. Counting' /\ Buffered'
      BY <2>1 DEF Counting, Buffered, InCall
    <2>5. HandedOver' /\ KeptIsPrefix'
      BY ONLY Inv, <2>1 DEF Inv, HandedOver, KeptIsPrefix, ShardsExact, InCall, Total, Shard, Lines
    <2> QED
      BY <2>3, <2>4, <2>5 DEF Inv
  <1> QED
    BY <1>1, <1>2

(* Recover, Return and Crash extend what is kept.                          *)
LEMMA KeepInv ==
  ASSUME Inv, Recover \/ Return \/ Crash
  PROVE  Inv'
  <1>1. /\ start = Len(kept) /\ start + Len(out) <= Total /\ Len(out) \in Nat
        /\ start \in Nat /\ Total \in Nat
    BY JobType, TotalType DEF Inv, TypeOK, HandedOver, Recover, Return, Crash
  <1>2. PICK k \in 0 .. Len(out) : kept' = KeptAfter(k) /\ (Return => k = Len(out))
    <2>1. CASE Recover \/ Crash
      BY <2>1 DEF Recover, Crash, Return
    <2>2. CASE Return
      BY <1>1, <2>2 DEF Return
    <2> QED
      BY <2>1, <2>2
  <1>3. /\ kept' \in Seq(SUBSET DOMAIN job.lines)
        /\ Len(kept') = Len(kept) + k
        /\ kept' = [i \in 1 .. Len(kept) + k |-> Shard(i - 1)]
    BY <1>1, <1>2, KeepPrefix
  <1>4. /\ pc' \in {"idle", "finished"} /\ UNCHANGED <<job, calls, start, pos, shardN, inChunk, buf, out>>
        /\ pc' = "finished" => Return
        /\ Return => pc = "done"
    BY DEF Recover, Return, Crash, scan
  <1>5. disk' \in [Paths -> (SUBSET DOMAIN job.lines) \cup {Absent, Torn}] /\ decoder' \in BOOLEAN
    BY DEF Recover, Return, Crash, Inv, TypeOK
  <1>6. TypeOK'
    BY ONLY Inv, <1>3, <1>4, <1>5 DEF Inv, TypeOK, Paths, Lines
  <1>7. Counting' /\ Buffered'
    BY <1>4 DEF Counting, Buffered, InCall
  <1>8. HandedOver'
    BY ONLY Inv, <1>4 DEF Inv, HandedOver, ShardsExact, InCall, Total, Shard, Lines
  <1>9. KeptIsPrefix'
    <2>1. Len(kept') <= Total
      BY <1>1, <1>2, <1>3
    <2>2. pc' = "finished" => Len(kept') = Total
      BY <1>1, <1>2, <1>3, <1>4 DEF Inv, HandedOver
    <2> QED
      BY <1>3, <1>4, <2>1, <2>2 DEF KeptIsPrefix, Total, Shard
  <1> QED
    BY <1>6, <1>7, <1>8, <1>9 DEF Inv

LEMMA NextInv == Inv /\ [Next]_vars => Inv'
  <1> SUFFICES ASSUME Inv, [Next]_vars PROVE Inv'
    OBVIOUS
  <1>1. CASE Progress
    BY <1>1, CallInv, SkipLineInv, FastForwardInv, BufferLineInv, EndOfFileInv, WriteShardInv,
       ReportInv, KeepInv DEF Progress
  <1>2. CASE Failure
    BY <1>2, FailureInv, KeepInv DEF Failure
  <1>3. CASE UNCHANGED vars
    BY <1>3 DEF vars, scan, Inv, TypeOK, Counting, Buffered, HandedOver, KeptIsPrefix,
                ShardsExact, InCall, R, Wanted, Total, Shard, Paths
  <1> QED
    BY <1>1, <1>2, <1>3 DEF Next

LEMMA AlwaysInv == Spec => []Inv
  BY InitInv, NextInv, PTL DEF Spec

-----------------------------------------------------------------------------
(* The variables of the scan keep their types in every reachable state.    *)
THEOREM ScanTypeCorrect == Spec => []TypeOK
  <1>1. Inv => TypeOK
    BY DEF Inv
  <1> QED
    BY <1>1, AlwaysInv, PTL

(* For every file, engine and chunk size, and through any failures and     *)
(* resumptions, the shards handed over by a call are exactly those the     *)
(* file determines, in order and without a gap.                            *)
THEOREM ShardsAreExact == Spec => []ShardsExact
  <1>1. Inv => ShardsExact
    BY DEF Inv, HandedOver
  <1> QED
    BY <1>1, AlwaysInv, PTL

(* What is behind the paths that were handed over: the shard, and nothing  *)
(* is written there again in the same call, which writes at its own index. *)
Behind ==
    /\ ReportedOnDisk
    /\ pc = "report" => disk[shardN] = RowsOf(buf)

LEMMA WritesElsewhere ==
  ASSUME Inv, pc = "write"
  PROVE  /\ shardN \in DOMAIN disk
         /\ \A i \in DOMAIN out : out[i].n # shardN
  <1>1. /\ out \in Seq([n : Paths, recs : SUBSET DOMAIN job.lines])
        /\ shardN \in Paths /\ disk \in [Paths -> (SUBSET DOMAIN job.lines) \cup {Absent, Torn}]
        /\ start \in Nat /\ shardN \in Nat
    BY JobType DEF Inv, TypeOK, Paths
  <1>2. shardN >= start /\ Len(out) = shardN - start
    BY <1>1 DEF Inv, Counting, HandedOver, InCall
  <1>3. \A i \in DOMAIN out : i \in 1 .. Len(out) /\ out[i].n = start + i - 1
    BY <1>1 DEF Inv, HandedOver, ShardsExact
  <1> QED
    BY <1>1, <1>2, <1>3

LEMMA BehindStep ==
  ASSUME Inv, Behind, [Next]_vars
  PROVE  Behind'
  <1> USE DEF Behind, ReportedOnDisk
  <1>1. CASE Call \/ Recover \/ Crash \/ OpenFails
    BY <1>1 DEF Call, Recover, Crash, OpenFails
  <1>2. CASE SkipLine \/ FastForward \/ BufferLine \/ EndOfFile \/ ScanFails \/ ReportFails \/ Return
    <2>1. pc # "idle" /\ pc' # "report" /\ UNCHANGED <<out, disk>>
      BY <1>2 DEF SkipLine, FastForward, BufferLine, EndOfFile, ScanFails, ReportFails, Return,
                  Reading, AfterScan
    <2> QED
      BY <2>1
  <1>3. CASE WriteShard \/ WriteFails
    <2>1. /\ pc = "write" /\ UNCHANGED <<out, shardN, buf, job>>
          /\ \E s : disk' = [disk EXCEPT ![shardN] = s] /\ (WriteShard => s = RowsOf(buf))
      BY <1>3 DEF WriteShard, WriteFails
    <2>2. pc' = "report" => WriteShard
      BY <1>3 DEF WriteShard, WriteFails
    <2>3. \A i \in DOMAIN out : disk'[out[i].n] = disk[out[i].n]
      BY <2>1, WritesElsewhere
    <2>4. WriteShard => disk'[shardN] = RowsOf(buf)
      BY <2>1, WritesElsewhere
    <2> QED
      BY <2>1, <2>2, <2>3, <2>4 DEF RowsOf
  <1>4. CASE Report
    <2>1. /\ out \in Seq([n : Paths, recs : SUBSET DOMAIN job.lines])
          /\ shardN \in Paths /\ Reported \in [n : Paths, recs : SUBSET DOMAIN job.lines]
      BY RowsType DEF Inv, TypeOK, Reported
    <2>2. \A i \in DOMAIN Append(out, Reported) :
             \/ i \in DOMAIN out /\ Append(out, Reported)[i] = out[i]
             \/ Append(out, Reported)[i] = Reported
      BY <2>1, AppendProperties
    <2>3. out' = Append(out, Reported) /\ disk' = disk /\ pc' # "report" /\ pc = "report"
      BY <1>4 DEF Report
    <2>4. disk[Reported.n] = Reported.recs
      BY <2>3 DEF Reported
    <2> QED
      BY <2>2, <2>3, <2>4
  <1>5. CASE UNCHANGED vars
    BY <1>5 DEF vars, RowsOf
  <1> QED
    BY <1>1, <1>2, <1>3, <1>4, <1>5 DEF Next, Progress, Failure

(* A shard that OnShard accepted stays whole on disk until the call has    *)
(* returned, whatever fails in between and whatever an earlier call left   *)
(* behind its path (process_go.go:32-81).                                  *)
THEOREM ReportedStaysOnDisk == Spec => []ReportedOnDisk
  <1>1. Init => Behind
    BY DEF Init, Behind, ReportedOnDisk
  <1>2. Inv /\ Behind /\ [Next]_vars => Behind'
    BY BehindStep
  <1>3. Behind => ReportedOnDisk
    BY DEF Behind
  <1> QED
    BY <1>1, <1>2, <1>3, AlwaysInv, PTL DEF Spec

LEMMA ListLength ==
  ASSUME job \in Jobs
  PROVE  Len(ShardList) = Total /\ \A n \in 0 .. Total : \A i \in 1 .. n : ShardList[i] = Shard(i - 1)
  BY TotalType, Total \in Nat DEF ShardList

(* A file is cut the same way however often its processing is interrupted: *)
(* the scan implements ShardStream.                                        *)
THEOREM ImplementsStream == Spec => Streams
  <1>1. Init => Stream!Init
    BY DEF Init, Stream!Init
  <1>2. Inv /\ Inv' /\ [Next]_vars => [Stream!Next]_Stream!vars
    <2> SUFFICES ASSUME Inv, Inv', [Next]_vars
                 PROVE  Stream!Next \/ UNCHANGED <<ShardList, kept, (pc = "finished")>>
      BY DEF Stream!vars
    <2>0. job' = job /\ job \in Jobs /\ Total \in Nat /\ ShardList' = ShardList
      <3>1. job' = job
        BY DEF Next, Progress, Failure, vars, Call, SkipLine, FastForward, BufferLine, EndOfFile,
               WriteShard, Report, Recover, Return, OpenFails, ScanFails, WriteFails,
               ReportFails, Crash
      <3> QED
        BY <3>1, TotalType DEF Inv, TypeOK, ShardList, Total, Shard
    <2>1. CASE Recover \/ Crash
      <3>1. job' = job /\ pc # "finished" /\ pc' # "finished"
        BY <2>1 DEF Recover, Crash
      <3>2. Len(kept') \in Len(kept) .. Total
        <4>1. start = Len(kept) /\ start + Len(out) <= Total
          BY <2>1 DEF Inv, HandedOver, Recover, Crash
        <4>2. PICK k \in 0 .. Len(out) : kept' = KeptAfter(k)
          BY <2>1 DEF Recover, Crash
        <4>3. Len(kept') = Len(kept) + k
          BY <4>1, <4>2, KeepPrefix
        <4>4. Len(kept) \in Nat /\ Len(out) \in Nat /\ Total \in Nat
          BY TotalType DEF Inv, TypeOK
        <4> QED
          BY <4>1, <4>2, <4>3, <4>4
      <3>3. kept' = [i \in 1 .. Len(kept') |-> Shard(i - 1)]
        BY <3>1 DEF Inv, KeptIsPrefix, Shard
      <3>4. Stream!Keep
        <4>1. Len(kept') <= Total /\ Len(kept') \in 0 .. Total
          BY <2>0, <3>2 DEF Inv, TypeOK
        <4>2. kept' = [i \in 1 .. Len(kept') |-> ShardList[i]]
          BY <2>0, <3>3, <4>1, ListLength
        <4>3. Len(ShardList) = Total
          BY <2>0, ListLength
        <4> QED
          BY <2>0, <3>1, <3>2, <4>2, <4>3 DEF Stream!Keep, Stream!FirstShards
      <3> QED
        BY <3>4 DEF Stream!Next
    <2>2. CASE Return
      <3>1. job' = job /\ pc # "finished" /\ pc' = "finished"
        BY <2>2 DEF Return
      <3>2. kept' = [i \in 1 .. Total |-> Shard(i - 1)]
        BY <3>1 DEF Inv, KeptIsPrefix, Total, Shard
      <3>3. Stream!Finish
        <4>1. kept' = [i \in 1 .. Total |-> ShardList[i]] /\ Len(ShardList) = Total
          BY <2>0, <3>2, ListLength
        <4> QED
          BY <2>0, <3>1, <4>1 DEF Stream!Finish, Stream!FirstShards
      <3> QED
        BY <3>3 DEF Stream!Next
    <2>3. CASE UNCHANGED <<job, kept>> /\ (pc = "finished") = (pc' = "finished")
      BY <2>0, <2>3
    <2>4. \/ Recover \/ Crash \/ Return
          \/ UNCHANGED <<job, kept>> /\ (pc = "finished") = (pc' = "finished")
      BY DEF Next, Progress, Failure, vars, Call, SkipLine, FastForward, BufferLine, EndOfFile,
             AfterScan, WriteShard, Report, OpenFails, ScanFails, WriteFails, ReportFails, Reading
    <2> QED
      BY <2>1, <2>2, <2>3, <2>4
  <1> QED
    BY <1>1, <1>2, AlwaysInv, PTL DEF Spec, Streams, Stream!Spec
=============================================================================
