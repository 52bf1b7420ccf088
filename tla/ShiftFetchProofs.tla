-------------------------- MODULE ShiftFetchProofs --------------------------
(***************************************************************************)
(* Proofs about ShiftFetch.tla, for any archive, window, calendar, page    *)
(* size, number of workers and of retries.                                 *)
(***************************************************************************)
EXTENDS ShiftFetch, FiniteSetTheorems, SequenceTheorems, TLAPS

-----------------------------------------------------------------------------
(* The inductive invariant.                                                *)

Lies(r, lo, hi) == lo < api[r] /\ api[r] < hi
Holds(s, r) == \E j \in DOMAIN s : s[j] = r
Rising(s) == \A j, k \in DOMAIN s : j < k => s[j] < s[k]

(* A bucket's file is what the archive has between its start and its       *)
(* cursor, in order and without repeats, the tail of a second that a page  *)
(* cut in two excepted; and once the bucket is done, all of the bucket.    *)
FileOK(m) ==
    /\ slot[m].stage # "idle" => m \in Buckets
    /\ From(m) <= slot[m].cursor
    /\ Rising(slot[m].got)
    /\ \A j \in DOMAIN slot[m].got : /\ Lies(slot[m].got[j], From(m), To(m))
                                     /\ api[slot[m].got[j]] <= slot[m].cursor
    /\ \A r \in Records : /\ Alone(r) /\ Lies(r, From(m), To(m))
                          /\ api[r] <= slot[m].cursor \/ slot[m].stage = "done"
                          => Holds(slot[m].got, r)

(* A bucket that failed is known to the group; nothing is joined before    *)
(* every bucket is done; success is reported once all are joined, and a    *)
(* fetch that was cancelled or blocked had a bucket that failed.           *)
GroupOK ==
    /\ (\E m \in Months : slot[m].stage = "failed") => err # "none"
    /\ joined # {} => err = "none" /\ Ended = Buckets
    /\ result = "ok" => err = "none" /\ Ended = Buckets /\ joined = Buckets
    /\ result \in {"cancelled", "blocked"} => err # "none"

(* What was joined is a prefix of the buckets and what the writer got is   *)
(* from their files, in order, and all of them unless the call failed.     *)
OutOK ==
    /\ \A m \in joined : \A k \in Buckets : k < m => k \in joined
    /\ Rising(out)
    /\ \A i \in DOMAIN out : \E m \in joined : Holds(slot[m].got, out[i])
    /\ result # "error" => \A m \in joined : \A j \in DOMAIN slot[m].got : Holds(out, slot[m].got[j])

Inv == TypeOK /\ (\A m \in Months : FileOK(m)) /\ GroupOK /\ OutOK
-----------------------------------------------------------------------------
(* Sets of numbers.                                                        *)

(* A set of indices has a least element.                                   *)
LEMMA LeastIndex ==
  ASSUME NEW n \in Nat, NEW T \in SUBSET (1 .. n), T # {}
  PROVE  \E i \in T : \A k \in T : i <= k
  <1> DEFINE U == {i \in 1 .. n : \A j \in 1 .. i : j \notin T}
             c == Cardinality(U)
  <1>1. IsFiniteSet(U) /\ c \in Nat
    <2>1. U \in SUBSET (1 .. n)
      OBVIOUS
    <2> HIDE DEF U
    <2>2. IsFiniteSet(1 .. n)
      BY 1 \in Int, n \in Int, FS_Interval
    <2> QED
      BY <2>1, <2>2, FS_Subset, FS_CardinalityType
  <1>2. U \in SUBSET (1 .. c)
    <2> SUFFICES ASSUME NEW u \in U PROVE u \in 1 .. c
      OBVIOUS
    <2>1. (1 .. u) \in SUBSET U
      OBVIOUS
    <2>2. Cardinality(1 .. u) = u
      BY FS_Interval
    <2>3. u <= c
      BY <1>1, <2>1, <2>2, FS_Subset
    <2> QED
      BY <1>1, <2>3
  <1>3. U = 1 .. c
    <2> HIDE DEF U
    <2>1. IsFiniteSet(1 .. c) /\ Cardinality(1 .. c) = c
      BY <1>1, 1 \in Int, c \in Int, FS_Interval
    <2> QED
      BY <1>2, <2>1, FS_Subset
  <1> HIDE DEF c
  <1>4. PICK t \in T : TRUE
    OBVIOUS
  <1>5. t \notin U /\ t \in 1 .. n
    OBVIOUS
  <1>6. c + 1 \in 1 .. n /\ c + 1 \notin U
    <2>1. ~(n <= c)
      BY <1>3, <1>5
    <2> QED
      BY <1>1, <1>3, <2>1
  <1>7. \A j \in 1 .. c : j \notin T
    BY <1>3
  <1>8. c + 1 \in T
    <2>1. PICK j \in 1 .. c + 1 : j \in T
      BY <1>6
    <2> QED
      BY <1>1, <1>7, <2>1
  <1>9. \A k \in T : c + 1 <= k
    BY <1>1, <1>7
  <1> QED
    BY <1>8, <1>9

(* A set of indices without holes holds its first, second, ... elements.   *)
LEMMA NoHoles ==
  ASSUME NEW n \in Nat, NEW T \in SUBSET (1 .. n), NEW first \in T, \A k \in T : first <= k,
         \A i, k \in T : \A j \in i .. k : j \in T,
         NEW c \in 1 .. Cardinality(T)
  PROVE  first + c - 1 \in T
  <1>1. IsFiniteSet(T) /\ Cardinality(T) \in Nat
    <2>1. IsFiniteSet(1 .. n)
      BY 1 \in Int, n \in Int, FS_Interval
    <2> QED
      BY <2>1, FS_Subset, FS_CardinalityType
  <1>2. SUFFICES ASSUME first + c - 1 \notin T PROVE FALSE
    OBVIOUS
  <1>3. first \in Int /\ c \in Int /\ T \in SUBSET Int
    BY <1>1
  <1>4. T \in SUBSET (first .. first + c - 2)
    <2> SUFFICES ASSUME NEW k \in T, first + c - 1 <= k PROVE FALSE
      BY <1>3
    <2>1. first + c - 1 \in first .. k
      BY <1>1, <1>3
    <2> QED
      BY <1>2, <2>1
  <1>5. /\ IsFiniteSet(first .. first + c - 2)
        /\ Cardinality(first .. first + c - 2) = c - 1
    <2> DEFINE last == first + c - 2
    <2>1. last \in Int /\ (IF first > last THEN 0 ELSE last - first + 1) = c - 1
      BY <1>1, <1>3
    <2> HIDE DEF last
    <2>2. /\ IsFiniteSet(first .. last)
          /\ Cardinality(first .. last) = IF first > last THEN 0 ELSE last - first + 1
      BY ONLY <1>3, <2>1, FS_Interval
    <2> QED
      BY <2>1, <2>2 DEF last
  <1>6. Cardinality(T) <= c - 1
    BY <1>4, <1>5, FS_Subset
  <1> QED
    BY <1>1, <1>6

-----------------------------------------------------------------------------
(* The calendar, the window and the archive.                               *)

LEMMA Calendar ==
  /\ Len(MonthStart) \in Nat /\ Len(MonthStart) >= 2
  /\ \A i \in 1 .. Len(MonthStart) : MonthStart[i] \in Int
  /\ \A i, j \in 1 .. Len(MonthStart) : i <= j => MonthStart[i] <= MonthStart[j]
  /\ \A m \in Months : m \in 1 .. Len(MonthStart) /\ m + 1 \in 1 .. Len(MonthStart)
  BY CalendarAssumption DEF Months

LEMMA Window ==
  ASSUME TypeOK
  PROVE  /\ span.after \in Int /\ span.before \in Int
         /\ MonthStart[1] <= span.after
         /\ span.before <= MonthStart[Len(MonthStart)]
  <1>1. PICK args \in Spans : span = Clamped(args)
    BY DEF TypeOK
  <1>2. /\ args.after \in Int /\ args.before \in Int /\ MinEpoch \in Int /\ Now \in Int
        /\ args.before <= MonthStart[Len(MonthStart)]
    BY SpansAssumption, FetchAssumption
  <1>3. /\ span.after = Later(args.after, MinEpoch)
        /\ span.before = IF args.before <= 0 THEN Now ELSE args.before
    BY <1>1 DEF Clamped
  <1> QED
    BY <1>2, <1>3, Calendar, CalendarAssumption DEF Later

LEMMA Edges ==
  ASSUME TypeOK, NEW m \in Months
  PROVE  /\ From(m) \in Int /\ To(m) \in Int
         /\ span.after <= From(m) /\ MonthStart[m] <= From(m)
         /\ To(m) <= span.before /\ To(m) <= MonthStart[m + 1]
         /\ \A t \in Int : /\ span.after <= t /\ MonthStart[m] <= t => From(m) <= t
                           /\ t < span.before /\ t < MonthStart[m + 1] => t < To(m)
  BY Window, Calendar DEF From, To, Later, Earlier

(* Buckets do not overlap and come in time order.                          *)
LEMMA BucketsInOrder ==
  ASSUME TypeOK, NEW k \in Months, NEW m \in Months, k < m
  PROVE  To(k) <= From(m)
  <1>1. MonthStart[k + 1] <= MonthStart[m]
    <2>1. k \in Int /\ m \in Int /\ k + 1 <= m
      BY DEF Months
    <2> QED
      BY <2>1, Calendar
  <1>2. /\ To(k) \in Int /\ From(m) \in Int /\ MonthStart[k + 1] \in Int /\ MonthStart[m] \in Int
        /\ To(k) <= MonthStart[k + 1] /\ MonthStart[m] <= From(m)
    BY Edges, Calendar
  <1> QED
    BY <1>1, <1>2

(* Every second of the window lies in a bucket.                            *)
LEMMA InSomeBucket ==
  ASSUME TypeOK, NEW t \in Int, span.after <= t, t < span.before
  PROVE  \E m \in Buckets : From(m) <= t /\ t < To(m)
  <1> DEFINE n == Len(MonthStart)
             T == {i \in 1 .. n : t < MonthStart[i]}
  <1>1. n \in T
    BY Window, Calendar
  <1>2. PICK i \in T : \A k \in T : i <= k
    BY <1>1, Calendar, LeastIndex, T \in SUBSET (1 .. n)
  <1>3. i # 1 /\ i \in 1 .. n
    BY Window, Calendar
  <1> DEFINE m == i - 1
  <1>4. m \in Months /\ m + 1 = i /\ m \in 1 .. n /\ ~(i <= m)
    BY <1>3, Calendar DEF Months
  <1>5. MonthStart[m] <= t /\ t < MonthStart[m + 1]
    BY <1>2, <1>4, Calendar
  <1> HIDE DEF m
  <1>6. From(m) <= t /\ t < To(m)
    BY <1>4, <1>5, Edges
  <1>7. m \in Buckets
    BY <1>4, <1>6, Edges DEF Buckets
  <1> QED
    BY <1>6, <1>7

LEMMA Archive ==
  ASSUME TypeOK
  PROVE  /\ api \in Seq(Int) /\ Len(api) \in Nat /\ Records = 1 .. Len(api)
         /\ \A r \in Records : r \in Int /\ api[r] \in Int
         /\ \A r, s \in Records : /\ r <= s => api[r] <= api[s]
                                  /\ api[r] < api[s] => r < s
  <1>1. api \in Seq(Int) /\ \A i, j \in DOMAIN api : i < j => api[i] <= api[j]
    BY ArchivesAssumption DEF TypeOK
  <1>2. Len(api) \in Nat /\ Records = 1 .. Len(api)
    BY <1>1 DEF Records
  <1>3. \A r \in Records : r \in Int /\ api[r] \in Int
    BY <1>1, <1>2
  <1>4. \A r, s \in Records : r <= s => api[r] <= api[s]
    BY <1>1, <1>3 DEF Records
  <1>5. \A r, s \in Records : api[r] < api[s] => r < s
    BY <1>3, <1>4
  <1> QED
    BY <1>1, <1>2, <1>3, <1>4, <1>5

(* Nothing the invariant says of the archive and the window changes.       *)
LEMMA Fixed ==
  ASSUME UNCHANGED <<api, span>>
  PROVE  /\ Records' = Records /\ Buckets' = Buckets
         /\ \A m : From(m)' = From(m) /\ To(m)' = To(m)
         /\ \A r : Alone(r)' = Alone(r)
         /\ \A r, lo, hi : Lies(r, lo, hi)' = Lies(r, lo, hi)
  BY DEF Records, Buckets, From, To, Alone, Lies

-----------------------------------------------------------------------------
(* The invariant holds at the start and is kept by every action.           *)

LEMMA InitInv == Init => Inv
  <1> SUFFICES ASSUME Init PROVE Inv
    OBVIOUS
  <1>1. TypeOK
    <2>1. api \in Archives /\ span \in {Clamped(args) : args \in Spans}
      BY DEF Init
    <2>2. \A m \in Months : From(m) \in Int
      <3>1. PICK args \in Spans : span = Clamped(args)
        BY <2>1
      <3>2. span.after \in Int
        BY <3>1, SpansAssumption, FetchAssumption DEF Clamped, Later
      <3> QED
        BY <3>2, Calendar DEF From, Later
    <2>3. MaxRetries \in Nat /\ <<>> \in Seq(Records)
      BY FetchAssumption
    <2>4. slot \in [Months -> [stage : {"idle", "send", "asked", "backoff", "done", "failed"},
                              cursor : Int, tries : 0 .. MaxRetries, got : Seq(Records)]]
      BY <2>2, <2>3 DEF Init
    <2>5. out \in Seq(Records) /\ joined \in SUBSET Buckets
      BY <2>3 DEF Init
    <2> QED
      BY <2>1, <2>4, <2>5 DEF Init, TypeOK
  <1>2. \A m \in Months : FileOK(m)
    <2> TAKE m \in Months
    <2>1. /\ slot[m].stage = "idle" /\ slot[m].cursor = From(m) /\ slot[m].got = <<>>
      BY DEF Init
    <2>2. \A r \in Records : Lies(r, From(m), To(m)) => ~(api[r] <= slot[m].cursor)
      BY <1>1, <2>1, Archive, Edges DEF Lies
    <2>3. From(m) <= From(m)
      BY <1>1, Edges
    <2> QED
      BY <2>1, <2>2, <2>3 DEF FileOK, Rising
  <1>3. GroupOK
    BY DEF Init, GroupOK, Ended
  <1>4. OutOK
    BY DEF Init, OutOK, Rising
  <1> QED
    BY <1>1, <1>2, <1>3, <1>4 DEF Inv

Stages == {"idle", "send", "asked", "backoff", "done", "failed"}

(* Bucket m goes from one stage to another and keeps its file.             *)
Moves(m, stage) ==
    /\ slot' \in [Months -> [stage : Stages, cursor : Int, tries : 0 .. MaxRetries, got : Seq(Records)]]
    /\ \A k \in Months \ {m} : slot'[k] = slot[k]
    /\ slot'[m].stage = stage /\ slot'[m].cursor = slot[m].cursor /\ slot'[m].got = slot[m].got

Open(m) == m \in Buckets /\ slot[m].stage \notin {"done", "failed"}

(* While a bucket is open, nothing has been joined.                        *)
LEMMA NothingJoined ==
  ASSUME Inv, NEW m \in Months, Open(m)
  PROVE  joined = {} /\ DOMAIN out = {} /\ result # "ok"
  <1>1. m \in Buckets /\ m \notin Ended
    BY DEF Open, Ended
  <1>2. joined = {} /\ result # "ok"
    BY <1>1 DEF Inv, GroupOK
  <1> QED
    BY <1>2 DEF Inv, OutOK

(* A step of an open bucket leaves the group and the writer as they should *)
(* be if the group hears of a failure.                                     *)
LEMMA OpenStep ==
  ASSUME Inv, NEW m \in Months, Open(m), UNCHANGED <<api, span, joined, out, result>>,
         (\E k \in Months : slot'[k].stage = "failed") => err' # "none",
         err # "none" => err' # "none"
  PROVE  GroupOK' /\ OutOK'
  <1>1. joined = {} /\ DOMAIN out = {} /\ result # "ok"
    BY NothingJoined
  <1>2. GroupOK'
    BY <1>1 DEF Inv, GroupOK
  <1> QED
    BY <1>1, <1>2 DEF OutOK, Rising

LEMMA MoveStep ==
  ASSUME Inv, NEW m \in Months, NEW stage \in Stages \ {"idle"}, Open(m), Moves(m, stage),
         UNCHANGED <<api, span, cancelled, joined, out, result>>,
         err' \in {"none", "cancelled", "blocked", "error"}, err # "none" => err' # "none",
         stage = "failed" => err' # "none",
         stage = "done" => \A r \in Records : Lies(r, slot[m].cursor, To(m)) => FALSE
  PROVE  Inv'
  <1>1. TypeOK'
    BY Fixed DEF Inv, TypeOK, Moves, Stages, Months
  <1>2. (\E k \in Months : slot'[k].stage = "failed") => err' # "none"
    BY DEF Inv, GroupOK, Moves
  <1>3. ASSUME NEW k \in Months PROVE FileOK(k)'
    <2>1. FileOK(k)
      BY DEF Inv
    <2>2. CASE k # m
      BY <2>1, <2>2, Fixed DEF FileOK, Moves
    <2>3. CASE k = m
      <3>1. /\ slot'[m].stage = stage /\ slot'[m].cursor = slot[m].cursor
            /\ slot'[m].got = slot[m].got /\ m \in Buckets
        BY DEF Moves, Open
      <3>2. \A r \in Records : /\ Lies(r, From(m), To(m))
                               /\ api[r] <= slot[m].cursor \/ stage = "done"
                              => api[r] <= slot[m].cursor
        <4>1. slot[m].cursor \in Int /\ \A r \in Records : api[r] \in Int
          BY Archive DEF Inv, TypeOK
        <4> QED
          BY <4>1 DEF Lies
      <3> QED
        BY <2>1, <2>3, <3>1, <3>2, Fixed DEF FileOK
    <2> QED
      BY <2>2, <2>3
  <1> QED
    BY <1>1, <1>2, <1>3, OpenStep DEF Inv, Months

(* Setting a bucket's stage leaves its file alone.                         *)
LEMMA StageSet ==
  ASSUME Inv, NEW m \in Months, NEW stage \in Stages,
         slot' = [slot EXCEPT ![m].stage = stage]
  PROVE  Moves(m, stage)
  BY DEF Inv, TypeOK, Moves, Stages

LEMMA FailStep ==
  ASSUME Inv, NEW m \in Months, Open(m), NEW kind \in {"cancelled", "blocked", "error"},
         Fail(m, kind)
  PROVE  Inv'
  <1>1. /\ slot' = [slot EXCEPT ![m].stage = "failed"]
        /\ err' = IF err = "none" THEN kind ELSE err
        /\ UNCHANGED <<api, span, cancelled, joined, out, result>>
    BY DEF Fail
  <1>2. Moves(m, "failed")
    BY <1>1, StageSet DEF Stages
  <1>3. err \in {"none", "cancelled", "blocked", "error"}
    BY DEF Inv, TypeOK
  <1> QED
    BY <1>1, <1>2, <1>3, MoveStep DEF Stages

(* The steps that only set a bucket's stage, and those that make it fail.  *)
LEMMA StageSteps ==
  ASSUME Inv, NEW m \in Months, Launch(m) \/ Send(m) \/ EmptyPage(m) \/ BackoffOver(m)
  PROVE  Inv'
  <1>1. PICK stage \in {"send", "asked", "done"} :
             /\ slot' = [slot EXCEPT ![m].stage = stage]
             /\ UNCHANGED <<api, span, cancelled, err, joined, out, result>>
             /\ stage = "done" => Matches(m) = {}
    BY DEF Launch, Send, EmptyPage, BackoffOver
  <1>2. Moves(m, stage)
    BY <1>1, StageSet DEF Stages
  <1>3. Open(m)
    <2>1. CASE Launch(m)
      BY <2>1 DEF Launch, IsNext, Idle, Open
    <2>2. CASE slot[m].stage \in {"send", "asked", "backoff"}
      BY <2>2 DEF Inv, FileOK, Open
    <2> QED
      BY <2>1, <2>2 DEF Send, EmptyPage, BackoffOver
  <1>4. err \in {"none", "cancelled", "blocked", "error"}
    BY DEF Inv, TypeOK
  <1>5. stage = "done" => \A r \in Records : Lies(r, slot[m].cursor, To(m)) => FALSE
    BY <1>1 DEF Matches, Lies
  <1> QED
    BY <1>1, <1>2, <1>3, <1>4, <1>5, MoveStep DEF Stages

LEMMA FailSteps ==
  ASSUME Inv, NEW m \in Months, LaunchFails(m) \/ Interrupted(m) \/ PageUnusable(m) \/ Refused(m)
  PROVE  Inv'
  <1>1. PICK kind \in {"cancelled", "blocked", "error"} : Fail(m, kind)
    BY DEF LaunchFails, Interrupted, PageUnusable, Refused
  <1>2. Open(m)
    <2>1. CASE LaunchFails(m)
      BY <2>1 DEF LaunchFails, IsNext, Idle, Open
    <2>2. CASE slot[m].stage \in {"send", "asked", "backoff"}
      BY <2>2 DEF Inv, FileOK, Open
    <2> QED
      BY <2>1, <2>2 DEF Interrupted, PageUnusable, Refused
  <1> QED
    BY <1>1, <1>2, FailStep

(* A failed request is counted and waited out, or is the last one.         *)
LEMMA RequestFailsStep ==
  ASSUME Inv, NEW m \in Months, RequestFails(m)
  PROVE  Inv'
  <1>1. slot[m].stage = "asked" /\ Open(m)
    BY DEF RequestFails, Inv, FileOK, Open
  <1>2. CASE \E kind \in {"blocked", "error"} : Fail(m, kind)
    BY <1>1, <1>2, FailStep
  <1>3. CASE /\ ~Exhausted(Tries(m))
             /\ slot' = [slot EXCEPT ![m].stage = "backoff", ![m].tries = Tries(m)]
             /\ UNCHANGED <<api, span, cancelled, err, joined, out, result>>
    <2>1. Tries(m) \in 0 .. MaxRetries
      BY <1>3, FetchAssumption DEF Exhausted, Tries, Inv, TypeOK
    <2>2. Moves(m, "backoff")
      BY <1>3, <2>1 DEF Inv, TypeOK, Moves, Stages
    <2>3. err \in {"none", "cancelled", "blocked", "error"}
      BY DEF Inv, TypeOK
    <2> QED
      BY <1>1, <1>3, <2>2, <2>3, MoveStep DEF Stages
  <1> QED
    BY <1>2, <1>3 DEF RequestFails

-----------------------------------------------------------------------------
(* A page.                                                                 *)

LEMMA Concat ==
  ASSUME NEW s \in Seq(Records), NEW t \in Seq(Records)
  PROVE  /\ s \o t \in Seq(Records)
         /\ \A r : Holds(s \o t, r) <=> Holds(s, r) \/ Holds(t, r)
         /\ /\ Rising(s) /\ Rising(t)
            /\ \A j \in DOMAIN s, k \in DOMAIN t : s[j] < t[k]
            => Rising(s \o t)
  <1> DEFINE u == s \o t
  <1>1. /\ u \in Seq(Records) /\ Len(u) = Len(s) + Len(t)
        /\ \A i \in 1 .. Len(s) + Len(t) : u[i] = IF i <= Len(s) THEN s[i] ELSE t[i - Len(s)]
    BY ConcatProperties
  <1>2. /\ Len(s) \in Nat /\ Len(t) \in Nat
        /\ DOMAIN s = 1 .. Len(s) /\ DOMAIN t = 1 .. Len(t) /\ DOMAIN u = 1 .. Len(s) + Len(t)
    BY <1>1, LenProperties
  <1> HIDE DEF u
  <1>3. \A j \in DOMAIN s : j \in DOMAIN u /\ u[j] = s[j]
    BY <1>1, <1>2
  <1>4. \A k \in DOMAIN t : Len(s) + k \in DOMAIN u /\ u[Len(s) + k] = t[k]
    BY <1>1, <1>2
  <1>5. \A i \in DOMAIN u : \/ i \in DOMAIN s /\ u[i] = s[i]
                            \/ i - Len(s) \in DOMAIN t /\ u[i] = t[i - Len(s)]
    BY <1>1, <1>2
  <1>6. \A r : Holds(u, r) <=> Holds(s, r) \/ Holds(t, r)
    BY <1>3, <1>4, <1>5 DEF Holds
  <1>7. ASSUME Rising(s), Rising(t), \A j \in DOMAIN s, k \in DOMAIN t : s[j] < t[k],
               NEW i \in DOMAIN u, NEW k \in DOMAIN u, i < k
        PROVE  u[i] < u[k]
    <2>1. CASE k \in DOMAIN s /\ u[k] = s[k]
      <3>1. i \in DOMAIN s /\ u[i] = s[i]
        BY <1>2, <1>3, <1>7, <2>1
      <3> QED
        BY <1>7, <2>1, <3>1 DEF Rising
    <2>2. CASE k - Len(s) \in DOMAIN t /\ u[k] = t[k - Len(s)]
      <3>1. CASE i \in DOMAIN s /\ u[i] = s[i]
        BY <1>7, <2>2, <3>1
      <3>2. CASE i - Len(s) \in DOMAIN t /\ u[i] = t[i - Len(s)]
        <4>1. i - Len(s) < k - Len(s)
          BY <1>2, <1>7
        <4> QED
          BY <1>7, <2>2, <3>2, <4>1 DEF Rising
      <3> QED
        BY <1>5, <3>1, <3>2
    <2> QED
      BY <1>5, <2>1, <2>2
  <1> QED
    BY <1>1, <1>6, <1>7 DEF Rising, u

(* A page holds the first matching records, in order and without a gap.    *)
LEMMA PageOfMatches ==
  ASSUME Inv, NEW m \in Months, Matches(m) # {}, NEW page \in Page(m)
  PROVE  /\ page \in Seq(Records) /\ Len(page) \in DOMAIN page /\ Rising(page)
         /\ \A j \in DOMAIN page : page[j] \in Matches(m) /\ page[j] <= page[Len(page)]
         /\ \A r \in Matches(m) : r <= page[Len(page)] => Holds(page, r)
  <1> DEFINE M == Matches(m)
             first == CHOOSE i \in M : \A k \in M : i <= k
             fits == Earlier(PageSize, Cardinality(M))
  <1>1. /\ Len(api) \in Nat /\ Records = 1 .. Len(api) /\ M \in SUBSET (1 .. Len(api))
        /\ \A r \in Records : r \in Int /\ api[r] \in Int
        /\ \A r, s \in Records : r <= s => api[r] <= api[s]
        /\ slot[m].cursor \in Int /\ To(m) \in Int
    BY Archive, Edges DEF Inv, TypeOK, Matches
  <1>2. \A i, k \in M : \A j \in i .. k : j \in M
    <2> SUFFICES ASSUME NEW i \in M, NEW k \in M, NEW j \in i .. k PROVE j \in M
      OBVIOUS
    <2>1. j \in Records /\ i \in Records /\ k \in Records /\ i <= j /\ j <= k
      BY <1>1
    <2>2. api[i] <= api[j] /\ api[j] <= api[k]
      BY <1>1, <2>1
    <2>3. slot[m].cursor < api[i] /\ api[k] < To(m)
      BY DEF Matches
    <2> QED
      BY <1>1, <2>1, <2>2, <2>3 DEF Matches
  <1>3. IsFiniteSet(M) /\ Cardinality(M) \in Nat
    <2>1. IsFiniteSet(1 .. Len(api))
      BY <1>1, FS_Interval
    <2> QED
      BY <1>1, <2>1, FS_Subset, FS_CardinalityType
  <1>4. first \in M /\ \A k \in M : first <= k
    <2>1. \E i \in M : \A k \in M : i <= k
      BY <1>1, LeastIndex
    <2> QED
      BY <2>1
  <1>5. PICK n \in 1 .. fits : page = [j \in 1 .. n |-> first + j - 1]
    BY DEF Page
  <1>6. n \in Nat \ {0} /\ n <= Cardinality(M)
    BY <1>3, FetchAssumption DEF Earlier
  <1> HIDE DEF M, first, fits
  <1>7. \A c \in 1 .. n : first + c - 1 \in M
    <2> TAKE c \in 1 .. n
    <2>1. c \in 1 .. Cardinality(M)
      BY <1>3, <1>6
    <2> QED
      BY <1>1, <1>2, <1>4, <2>1, NoHoles
  <1>8. first \in Int /\ M \in SUBSET Records
    BY <1>1, <1>4
  <1>9. /\ page \in Seq(Records) /\ Len(page) = n /\ DOMAIN page = 1 .. n
        /\ \A j \in 1 .. n : page[j] = first + j - 1
    <2>1. page \in [1 .. n -> Records]
      BY <1>5, <1>7, <1>8
    <2> QED
      BY <1>5, <1>6, <2>1
  <1>10. Rising(page)
    BY <1>6, <1>8, <1>9 DEF Rising
  <1>11. \A j \in DOMAIN page : page[j] \in M /\ page[j] <= page[Len(page)]
    <2>1. page[Len(page)] = first + n - 1
      BY <1>6, <1>9
    <2>2. \A j \in 1 .. n : page[j] \in M /\ page[j] <= first + n - 1
      BY <1>6, <1>7, <1>8, <1>9
    <2> QED
      BY <1>9, <2>1, <2>2
  <1>12. ASSUME NEW r \in M, r <= page[Len(page)] PROVE Holds(page, r)
    <2>1. r \in Int /\ first <= r /\ r <= first + n - 1
      BY <1>1, <1>4, <1>6, <1>8, <1>9, <1>12
    <2>2. r - first + 1 \in 1 .. n /\ first + (r - first + 1) - 1 = r
      BY <1>6, <1>8, <2>1
    <2> QED
      BY <1>9, <2>2 DEF Holds
  <1> QED
    BY <1>6, <1>9, <1>10, <1>11, <1>12 DEF M

LEMMA PageStep ==
  ASSUME Inv, NEW m \in Months, PageArrives(m)
  PROVE  Inv'
  <1> DEFINE got == slot[m].got
             cursor == slot[m].cursor
  <1>1. PICK page \in Page(m) :
             LET next == NextCursor(cursor, api[page[Len(page)]])
             IN  slot' = [slot EXCEPT ![m] =
                     [stage  |-> IF next >= To(m) THEN "done" ELSE "send",
                      cursor |-> next, tries |-> 0, got |-> got \o page]]
    BY DEF PageArrives
  <1>2. /\ Matches(m) # {} /\ slot[m].stage = "asked"
        /\ UNCHANGED <<api, span, cancelled, err, joined, out, result>>
    BY DEF PageArrives
  <1>3. FileOK(m) /\ Open(m)
    BY <1>2 DEF Inv, FileOK, Open
  <1> DEFINE last == page[Len(page)]
  <1>4. /\ page \in Seq(Records) /\ Len(page) \in DOMAIN page /\ Rising(page)
        /\ \A j \in DOMAIN page : page[j] \in Matches(m) /\ page[j] <= last
        /\ \A r \in Matches(m) : r <= last => Holds(page, r)
    BY <1>2, PageOfMatches
  <1>5. /\ got \in Seq(Records) /\ cursor \in Int /\ From(m) \in Int /\ To(m) \in Int
        /\ \A r \in Records : r \in Int /\ api[r] \in Int
        /\ \A r, s \in Records : /\ r <= s => api[r] <= api[s]
                                 /\ api[r] < api[s] => r < s
    BY Archive, Edges DEF Inv, TypeOK
  <1>6. \A r \in Matches(m) : r \in Records /\ cursor < api[r] /\ api[r] < To(m)
    BY DEF Matches
  <1>7. /\ last \in Records /\ cursor < api[last] /\ api[last] < To(m)
        /\ NextCursor(cursor, api[last]) = api[last] /\ ~(api[last] >= To(m))
    BY <1>4, <1>5, <1>6 DEF NextCursor
  <1>8. slot' = [slot EXCEPT ![m] = [stage |-> "send", cursor |-> api[last], tries |-> 0,
                                     got |-> got \o page]]
    BY <1>1, <1>7
  <1>9. /\ got \o page \in Seq(Records)
        /\ \A r : Holds(got \o page, r) <=> Holds(got, r) \/ Holds(page, r)
        /\ Rising(got \o page)
    <2>1. \A j \in DOMAIN got : got[j] \in Records /\ api[got[j]] <= cursor
      BY <1>3, <1>5 DEF FileOK
    <2>2. \A j \in DOMAIN got, k \in DOMAIN page : got[j] < page[k]
      <3> TAKE j \in DOMAIN got, k \in DOMAIN page
      <3>1. page[k] \in Records /\ cursor < api[page[k]]
        BY <1>4, <1>6
      <3>2. api[got[j]] < api[page[k]]
        BY <1>5, <2>1, <3>1
      <3> QED
        BY <1>5, <2>1, <3>1, <3>2
    <2>3. Rising(got)
      BY <1>3 DEF FileOK
    <2> QED
      BY <1>4, <1>5, <2>2, <2>3, Concat
  <1> HIDE DEF last
  <1>10. /\ slot' \in [Months -> [stage : Stages, cursor : Int, tries : 0 .. MaxRetries, got : Seq(Records)]]
         /\ \A k \in Months \ {m} : slot'[k] = slot[k]
         /\ slot'[m].stage = "send" /\ slot'[m].cursor = api[last] /\ slot'[m].got = got \o page
    <2>1. slot \in [Months -> [stage : Stages, cursor : Int, tries : 0 .. MaxRetries, got : Seq(Records)]]
      BY DEF Inv, TypeOK, Stages
    <2> DEFINE new == [stage |-> "send", cursor |-> api[last], tries |-> 0, got |-> got \o page]
    <2>2. new \in [stage : Stages, cursor : Int, tries : 0 .. MaxRetries, got : Seq(Records)]
      BY <1>5, <1>7, <1>9, FetchAssumption DEF Stages
    <2>3. new.stage = "send" /\ new.cursor = api[last] /\ new.got = got \o page
      OBVIOUS
    <2> HIDE DEF new
    <2>4. slot' = [slot EXCEPT ![m] = new]
      BY <1>8 DEF new
    <2> QED
      BY <2>1, <2>2, <2>3, <2>4
  <1>11. TypeOK'
    BY <1>2, <1>10, Fixed DEF Inv, TypeOK, Stages, Months
  <1>12. FileOK(m)'
    <2>1. \A r : Holds(got \o page, r) =>
                   r \in Records /\ Lies(r, From(m), To(m)) /\ api[r] <= api[last]
      <3> SUFFICES ASSUME NEW r, Holds(got \o page, r)
                   PROVE  r \in Records /\ Lies(r, From(m), To(m)) /\ api[r] <= api[last]
        OBVIOUS
      <3>1. CASE Holds(got, r)
        <4>1. PICK j \in DOMAIN got : got[j] = r
          BY <3>1 DEF Holds
        <4>2. r \in Records
          BY <1>5, <4>1
        <4>3. Lies(r, From(m), To(m)) /\ api[r] <= cursor
          BY <1>3, <4>1 DEF FileOK
        <4> QED
          BY <1>5, <1>7, <4>2, <4>3
      <3>2. CASE Holds(page, r)
        <4>1. r \in Matches(m) /\ r \in Records /\ r <= last
          BY <1>4, <1>6, <3>2 DEF Holds, last
        <4>2. From(m) <= cursor
          BY <1>3 DEF FileOK
        <4> QED
          BY <1>5, <1>6, <1>7, <4>1, <4>2 DEF Lies
      <3> QED
        BY <1>9, <3>1, <3>2
    <2>2. \A r \in Records : Alone(r) /\ Lies(r, From(m), To(m)) /\ api[r] <= api[last]
                             => Holds(got \o page, r)
      <3> SUFFICES ASSUME NEW r \in Records, Alone(r), Lies(r, From(m), To(m)), api[r] <= api[last]
                   PROVE  Holds(got \o page, r)
        OBVIOUS
      <3>1. CASE api[r] <= cursor
        BY <1>3, <1>9, <3>1 DEF FileOK
      <3>2. CASE cursor < api[r]
        <4>1. r \in Matches(m)
          BY <3>2 DEF Matches, Lies
        <4>2. r <= last
          <5> SUFFICES ASSUME last < r PROVE FALSE
            BY <1>5, <1>7
          <5>1. api[last] = api[r]
            BY <1>5, <1>7
          <5>2. last = r
            BY <1>7, <5>1 DEF Alone
          <5> QED
            BY <1>5, <5>2
        <4> QED
          BY <1>4, <1>9, <4>1, <4>2 DEF last
      <3> QED
        BY <1>5, <3>1, <3>2
    <2>3. \A j \in DOMAIN (got \o page) : Holds(got \o page, (got \o page)[j])
      BY DEF Holds
    <2> QED
      <3> DEFINE file == got \o page
      <3>1. /\ slot'[m].stage = "send" /\ slot'[m].cursor = api[last] /\ slot'[m].got = file
            /\ m \in Buckets /\ Rising(file)
        BY <1>3, <1>9, <1>10 DEF Open
      <3>2. From(m) <= api[last]
        BY <1>3, <1>5, <1>7 DEF FileOK
      <3>3. \A j \in DOMAIN file : Lies(file[j], From(m), To(m)) /\ api[file[j]] <= api[last]
        BY <2>1, <2>3
      <3> HIDE DEF file
      <3>4. UNCHANGED <<api, span>>
        BY <1>2
      <3> QED
        BY <2>2, <3>1, <3>2, <3>3, <3>4, Fixed DEF FileOK, file
  <1>13. ASSUME NEW k \in Months, k # m PROVE FileOK(k)'
    BY <1>2, <1>10, <1>13, Fixed DEF Inv, FileOK
  <1>14. (\E k \in Months : slot'[k].stage = "failed") => err' # "none"
    BY <1>2, <1>10 DEF Inv, GroupOK
  <1> QED
    BY <1>2, <1>3, <1>11, <1>12, <1>13, <1>14, OpenStep DEF Inv, Months

-----------------------------------------------------------------------------
(* Joining, returning and cancelling.                                      *)

(* FileOK speaks of the archive, the window and the buckets alone.         *)
LEMMA FilesStay ==
  ASSUME \A m \in Months : FileOK(m), UNCHANGED <<api, span, slot>>
  PROVE  \A m \in Months : FileOK(m)'
  BY Fixed DEF FileOK

LEMMA EndedStays == ASSUME UNCHANGED <<api, span, slot>> PROVE Ended' = Ended
  BY Fixed DEF Ended

(* The bucket joined next, in whole or in part, lies after all that were   *)
(* joined.                                                                 *)
LEMMA JoinStep ==
  ASSUME Inv, NEW m \in Months, Join(m) \/ JoinFails(m)
  PROVE  Inv'
  <1> DEFINE got == slot[m].got
  <1>1. /\ err = "none" /\ Ended = Buckets /\ result = "running"
        /\ m \in Buckets \ joined /\ \A k \in Buckets \ joined : m <= k
        /\ joined' = joined \cup {m}
        /\ UNCHANGED <<api, span, slot, cancelled, err>>
    BY DEF Join, JoinFails, Ready, AllEnded, JoinNext
  <1>2. /\ out \in Seq(Records) /\ joined \in SUBSET Buckets /\ got \in Seq(Records)
        /\ \A k \in Buckets : k \in Int /\ k \in Months
        /\ \A k \in Months : slot[k].got \in Seq(Records)
    <2>1. TypeOK
      BY DEF Inv
    <2> QED
      BY ONLY <2>1, m \in Months DEF TypeOK, Buckets, Months
  <1>2a. \E part \in Seq(Records) :
              /\ out' = out \o part
              /\ \A j \in DOMAIN part : j \in DOMAIN got /\ part[j] = got[j]
              /\ (part = got /\ result' = result) \/ result' = "error"
    <2>1. CASE Join(m)
      BY <1>2, <2>1 DEF Join
    <2>2. CASE JoinFails(m)
      <3>1. PICK n \in 0 .. Len(got) : out' = out \o SubSeq(got, 1, n)
        BY <2>2 DEF JoinFails
      <3>2. /\ Len(got) \in Nat /\ DOMAIN got = 1 .. Len(got)
            /\ \A i \in 1 .. n : got[i] \in Records
        BY <1>2, LenProperties
      <3> DEFINE part == SubSeq(got, 1, n)
      <3>3. /\ part \in Seq(Records)
            /\ Len(part) = IF 1 <= n THEN n - 1 + 1 ELSE 0
            /\ \A i \in 1 .. n - 1 + 1 : part[i] = got[1 + i - 1]
        BY <3>2, SubSeqProperties
      <3>4. DOMAIN part = 1 .. Len(part)
        BY <3>3, LenProperties
      <3> HIDE DEF part
      <3>5. \A j \in DOMAIN part : j \in DOMAIN got /\ part[j] = got[j]
        BY <3>2, <3>3, <3>4
      <3>6. result' = "error" /\ out' = out \o part
        BY <2>2, <3>1 DEF JoinFails, part
      <3> QED
        BY <3>3, <3>5, <3>6
    <2> QED
      BY <2>1, <2>2
  <1>2b. PICK part \in Seq(Records) :
              /\ out' = out \o part
              /\ \A j \in DOMAIN part : j \in DOMAIN got /\ part[j] = got[j]
              /\ (part = got /\ result' = result) \/ result' = "error"
    BY <1>2a
  <1>3. \A k \in joined : k < m
    <2> SUFFICES ASSUME NEW k \in joined, ~(k < m) PROVE FALSE
      OBVIOUS
    <2>1. m < k
      BY <1>1, <1>2
    <2> QED
      BY <1>1, <2>1 DEF Inv, OutOK
  <1>4. FileOK(m) /\ \A k \in joined : FileOK(k)
    BY <1>2 DEF Inv
  <1>5. \A i \in DOMAIN out, j \in DOMAIN got : out[i] < got[j]
    <2> TAKE i \in DOMAIN out, j \in DOMAIN got
    <2>1. PICK k \in joined : Holds(slot[k].got, out[i])
      BY DEF Inv, OutOK
    <2>2. k \in Months /\ k < m /\ To(k) <= From(m)
      BY <1>2, <1>3, <2>1, BucketsInOrder DEF Inv
    <2>3. api[out[i]] < To(k) /\ From(m) < api[got[j]]
      BY <1>4, <2>1 DEF FileOK, Holds, Lies
    <2>4. out[i] \in Records /\ got[j] \in Records
      BY <1>2
    <2>5. /\ To(k) \in Int /\ From(m) \in Int /\ api[out[i]] \in Int /\ api[got[j]] \in Int
      BY <2>2, <2>4, Archive, Edges DEF Inv
    <2>6. api[out[i]] < api[got[j]]
      BY <2>2, <2>3, <2>5
    <2> QED
      BY <2>4, <2>6, Archive DEF Inv
  <1>6. /\ out' \in Seq(Records) /\ Rising(out')
        /\ \A r : Holds(out', r) <=> Holds(out, r) \/ Holds(part, r)
    <2>1. Rising(out) /\ Rising(got)
      BY <1>4 DEF Inv, OutOK, FileOK
    <2>2. Rising(part)
      BY <1>2b, <2>1 DEF Rising
    <2>3. \A i \in DOMAIN out, j \in DOMAIN part : out[i] < part[j]
      BY <1>2b, <1>5
    <2> QED
      BY <1>2b, <1>2, <2>1, <2>2, <2>3, Concat
  <1>7. TypeOK'
    BY <1>1, <1>2, <1>2b, <1>6, Fixed DEF Inv, TypeOK, Months
  <1>8. \A k \in Months : FileOK(k)'
    BY <1>1, FilesStay DEF Inv
  <1>9. GroupOK'
    BY <1>1, <1>2b, EndedStays, Fixed DEF Inv, GroupOK
  <1>10. OutOK'
    <2>1. \A k \in joined' : \A l \in Buckets : l < k => l \in joined'
      <3> SUFFICES ASSUME NEW k \in joined', NEW l \in Buckets, l < k PROVE l \in joined'
        OBVIOUS
      <3>1. CASE k = m
        BY <1>1, <1>2, <3>1
      <3>2. CASE k \in joined
        BY <1>1, <3>2 DEF Inv, OutOK
      <3> QED
        BY <1>1, <3>1, <3>2
    <2>2. \A i \in DOMAIN out' : \E k \in joined' : Holds(slot[k].got, out'[i])
      <3> TAKE i \in DOMAIN out'
      <3>1. Holds(out', out'[i])
        BY DEF Holds
      <3>2. CASE Holds(part, out'[i])
        <4>1. Holds(got, out'[i])
          BY <1>2b, <3>2 DEF Holds
        <4> QED
          BY <1>1, <4>1
      <3>3. CASE Holds(out, out'[i])
        BY <1>1, <3>3 DEF Inv, OutOK, Holds
      <3> QED
        BY <1>6, <3>1, <3>2, <3>3
    <2>3. ASSUME result' # "error", NEW k \in joined'
          PROVE  \A j \in DOMAIN slot[k].got : Holds(out', slot[k].got[j])
      <3>0. part = got /\ result # "error"
        BY <1>1, <1>2b, <2>3
      <3> TAKE j \in DOMAIN slot[k].got
      <3>1. CASE k = m
        BY <1>6, <3>0, <3>1 DEF Holds
      <3>2. CASE k \in joined
        BY <1>6, <3>0, <3>2 DEF Inv, OutOK
      <3> QED
        BY <1>1, <3>1, <3>2
    <2> QED
      BY <1>1, <1>6, <2>1, <2>2, <2>3, Fixed DEF OutOK
  <1> QED
    BY <1>7, <1>8, <1>9, <1>10 DEF Inv, Months

LEMMA ReturnStep ==
  ASSUME Inv, GroupFails \/ JoinedAll
  PROVE  Inv'
  <1>1. /\ UNCHANGED <<api, span, slot, cancelled, err, joined, out>>
        /\ result' \in {"ok", "cancelled", "blocked", "error"}
        /\ result # "error"
        /\ result' = "ok" => err = "none" /\ Ended = Buckets /\ joined = Buckets
        /\ result' \in {"cancelled", "blocked"} => err # "none"
    BY DEF GroupFails, JoinedAll, Return, Ready, AllEnded, Inv, TypeOK
  <1>2. TypeOK'
    BY <1>1, Fixed DEF Inv, TypeOK, Months
  <1>3. \A m \in Months : FileOK(m)'
    BY <1>1, FilesStay DEF Inv
  <1>4. GroupOK'
    BY <1>1, EndedStays, Fixed DEF Inv, GroupOK
  <1>5. OutOK'
    BY <1>1, Fixed DEF Inv, OutOK, Rising
  <1> QED
    BY <1>2, <1>3, <1>4, <1>5 DEF Inv, Months

LEMMA CancelStep ==
  ASSUME Inv, Cancel \/ UNCHANGED vars
  PROVE  Inv'
  <1>1. UNCHANGED <<api, span, slot, err, joined, out, result>> /\ cancelled' \in BOOLEAN
    BY DEF Cancel, vars, Inv, TypeOK
  <1>2. TypeOK'
    BY <1>1, Fixed DEF Inv, TypeOK, Months
  <1>3. \A m \in Months : FileOK(m)'
    BY <1>1, FilesStay DEF Inv
  <1>4. GroupOK'
    BY <1>1, EndedStays, Fixed DEF Inv, GroupOK
  <1>5. OutOK'
    BY <1>1, Fixed DEF Inv, OutOK, Rising
  <1> QED
    BY <1>2, <1>3, <1>4, <1>5 DEF Inv, Months

LEMMA NextInv == Inv /\ [Next]_vars => Inv'
  <1> SUFFICES ASSUME Inv, [Next]_vars PROVE Inv'
    OBVIOUS
  <1>1. ASSUME NEW m \in Months, Bucket(m) PROVE Inv'
    BY <1>1, StageSteps, FailSteps, RequestFailsStep, PageStep DEF Bucket
  <1>2. ASSUME NEW m \in Months, Launch(m) \/ LaunchFails(m) \/ Join(m) \/ JoinFails(m)
        PROVE  Inv'
    BY <1>2, StageSteps, FailSteps, JoinStep
  <1>3. CASE GroupFails \/ JoinedAll
    BY <1>3, ReturnStep
  <1>4. CASE Cancel \/ UNCHANGED vars
    BY <1>4, CancelStep
  <1> QED
    BY <1>1, <1>2, <1>3, <1>4 DEF Next, Caller

LEMMA AlwaysInv == Spec => []Inv
  BY InitInv, NextInv, PTL DEF Spec

-----------------------------------------------------------------------------
(* Type correctness of the fetch (parallel.go:30-171, subreddit.go:37-120).*)
THEOREM FetchTypeCorrect == Spec => []TypeOK
  <1>1. Inv => TypeOK
    BY DEF Inv
  <1> QED
    BY <1>1, AlwaysInv, PTL

(* Whatever order the buckets finish in and however often their pages are  *)
(* retried, the writer gets each record of the window at most once and in  *)
(* time order (parallel.go:26-29, 106-122).                                *)
THEOREM WriterGetsEachOnce == Spec => []EachRecordOnce
  <1>1. Inv => EachRecordOnce
    <2> SUFFICES ASSUME Inv PROVE EachRecordOnce
      OBVIOUS
    <2>1. ASSUME NEW i \in DOMAIN out
          PROVE  span.after < api[out[i]] /\ api[out[i]] < span.before
      <3>1. PICK m \in joined : Holds(slot[m].got, out[i])
        BY DEF Inv, OutOK
      <3>2. m \in Months /\ FileOK(m)
        BY <3>1 DEF Inv, TypeOK, Buckets
      <3>3. From(m) < api[out[i]] /\ api[out[i]] < To(m)
        BY <3>1, <3>2 DEF FileOK, Holds, Lies
      <3>4. /\ span.after <= From(m) /\ To(m) <= span.before
            /\ From(m) \in Int /\ To(m) \in Int /\ span.after \in Int /\ span.before \in Int
        BY <3>2, Edges, Window DEF Inv
      <3>5. out[i] \in Records
        BY DEF Inv, TypeOK
      <3>6. api[out[i]] \in Int
        BY <3>5, Archive DEF Inv
      <3> QED
        BY <3>3, <3>4, <3>6
    <2> QED
      BY <2>1 DEF Inv, OutOK, Rising, EachRecordOnce
  <1> QED
    BY <1>1, AlwaysInv, PTL

(* Nothing reaches the writer before every bucket is complete nor of a     *)
(* call that was cancelled or blocked, and a call that succeeds has        *)
(* written all that its buckets received (parallel.go:99-122).             *)
THEOREM WriterGetsAllOrNothing == Spec => []AllOrNothing
  <1>1. Inv => AllOrNothing
    <2> SUFFICES ASSUME Inv PROVE AllOrNothing
      OBVIOUS
    <2>1. ASSUME out # <<>> PROVE err = "none" /\ Ended = Buckets
      <3>1. DOMAIN out # {}
        <4>1. out \in Seq(Records)
          BY DEF Inv, TypeOK
        <4>2. Len(out) \in Nat \ {0} /\ DOMAIN out = 1 .. Len(out)
          BY <2>1, <4>1, EmptySeq, LenProperties
        <4> QED
          BY <4>2
      <3>2. joined # {}
        BY <3>1 DEF Inv, OutOK
      <3> QED
        BY <3>2 DEF Inv, GroupOK
    <2>2. result \in {"cancelled", "blocked"} => out = <<>>
      BY <2>1 DEF Inv, GroupOK
    <2>3. ASSUME result = "ok", NEW m \in Buckets, NEW j \in DOMAIN slot[m].got
          PROVE  \E i \in DOMAIN out : out[i] = slot[m].got[j]
      <3>1. joined = Buckets
        BY <2>3 DEF Inv, GroupOK
      <3>2. Holds(out, slot[m].got[j])
        BY <2>3, <3>1 DEF Inv, OutOK
      <3> QED
        BY <3>2 DEF Holds
    <2> QED
      BY <2>1, <2>2, <2>3 DEF AllOrNothing
  <1> QED
    BY <1>1, AlwaysInv, PTL

(* A call that succeeds lacks no record of the window but those in a       *)
(* bucket's first second and those that share their second with another    *)
(* (subreddit.go:101-107).                                                 *)
THEOREM OnlyBoundariesAreLost == Spec => []OnlyBoundariesLost
  <1>1. Inv => OnlyBoundariesLost
    <2> SUFFICES ASSUME Inv, result = "ok", NEW i \in Wanted, ~IsStart(i), Alone(i)
                 PROVE  \E j \in DOMAIN out : out[j] = i
      BY DEF OnlyBoundariesLost
    <2>1. i \in Records /\ span.after <= api[i] /\ api[i] < span.before
      BY DEF Wanted
    <2>2. api[i] \in Int
      BY <2>1, Archive DEF Inv
    <2>3. PICK m \in Buckets : From(m) <= api[i] /\ api[i] < To(m)
      BY <2>1, <2>2, InSomeBucket DEF Inv
    <2>4. m \in Months /\ From(m) \in Int
      BY Edges DEF Inv, Buckets
    <2>5. Lies(i, From(m), To(m))
      BY <2>2, <2>3, <2>4 DEF IsStart, Lies
    <2>6. /\ err = "none" /\ Ended = Buckets /\ joined = Buckets
          /\ slot[m].stage # "failed"
      BY <2>4 DEF Inv, GroupOK
    <2>7. slot[m].stage = "done"
      BY <2>6 DEF Ended
    <2>8. Holds(slot[m].got, i)
      BY <2>1, <2>4, <2>5, <2>7 DEF Inv, FileOK
    <2>9. Holds(out, i)
      BY <2>6, <2>8 DEF Inv, OutOK, Holds
    <2> QED
      BY <2>9 DEF Holds
  <1> QED
    BY <1>1, AlwaysInv, PTL
=============================================================================
