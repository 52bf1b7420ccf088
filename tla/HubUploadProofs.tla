-------------------------- MODULE HubUploadProofs --------------------------
(***************************************************************************)
(* Proofs about HubUpload.tla, for any number of operations, batch size    *)
(* and number of attempts.                                                 *)
(***************************************************************************)
EXTENDS HubUpload, TLAPS

-----------------------------------------------------------------------------
(* The inductive invariant.                                                *)

FirstOps(n) == {i \in Ops : i <= n * BatchSize}

Running == result = "running"

(* A call that runs is at a batch that exists and has an attempt left; the *)
(* branch holds the batches done, or one more, and all once it succeeded.  *)
Ahead ==
    /\ Running <=> pc # "returned"
    /\ Running => batch * BatchSize < NumOps /\ attempt < MaxAttempts
    /\ result # "ok" => main = FirstOps(batch) \/ main = FirstOps(batch + 1)
    /\ result = "ok" => main = Ops

(* The objects the batch's commit will reference are stored or still to be *)
(* sent.                                                                   *)
Negotiated ==
    /\ pc \in {"put", "putting"} => Large(batch) \subseteq store \cup toPut
    /\ pc \in {"post", "posting"} => Large(batch) \subseteq store

(* A commit that was given up had its objects stored, and is of the batch  *)
(* at hand or of one that has landed since.                                *)
Abandoned ==
    \A n \in lateCommits : Large(n) \subseteq store /\ (n = batch \/ OpsOf(n) \subseteq main)

Inv == TypeOK /\ Ahead /\ Negotiated /\ Abandoned /\ NoDanglingPointer

-----------------------------------------------------------------------------
LEMMA NextMultiple ==
  ASSUME NEW n \in Nat
  PROVE  /\ n * BatchSize \in Nat
         /\ (n + 1) * BatchSize = n * BatchSize + BatchSize
         /\ n <= n * BatchSize
  BY UploadAssumption

(* Applying a batch extends the batches before it by exactly itself.       *)
LEMMA BatchExtends ==
  ASSUME NEW n \in Nat
  PROVE  FirstOps(n) \cup OpsOf(n) = FirstOps(n + 1) /\ FirstOps(n + 1) \cup OpsOf(n) = FirstOps(n + 1)
  <1> DEFINE a == n * BatchSize
             b == (n + 1) * BatchSize
  <1>1. a \in Nat /\ b \in Nat /\ b = a + BatchSize /\ BatchSize \in Nat
    BY NextMultiple, UploadAssumption
  <1>2. \A i \in Ops : i \in Nat
    BY UploadAssumption DEF Ops
  <1>3. /\ FirstOps(n) = {i \in Ops : i <= a} /\ FirstOps(n + 1) = {i \in Ops : i <= b}
        /\ OpsOf(n) = {i \in Ops : a < i /\ i <= a + BatchSize}
    BY DEF FirstOps, OpsOf
  <1> HIDE DEF a, b
  <1>4. \A i \in Ops : i <= b <=> i <= a \/ (a < i /\ i <= a + BatchSize)
    BY ONLY <1>1, <1>2
  <1>5. FirstOps(n) \cup OpsOf(n) = FirstOps(n + 1)
    BY ONLY <1>3, <1>4
  <1>6. OpsOf(n) \subseteq FirstOps(n + 1)
    BY ONLY <1>3, <1>4
  <1> QED
    BY <1>5, <1>6

LEMMA LastCoversAll ==
  ASSUME NEW n \in Nat
  PROVE  FirstOps(n) = Ops <=> n * BatchSize >= NumOps
  <1>1. n * BatchSize \in Nat /\ NumOps \in Nat \ {0} /\ NumOps \in Ops
    BY NextMultiple, UploadAssumption DEF Ops
  <1>2. \A i \in Ops : i \in Nat /\ i <= NumOps
    BY UploadAssumption DEF Ops
  <1> DEFINE a == n * BatchSize
  <1>3. FirstOps(n) = {i \in Ops : i <= a} /\ a \in Nat
    BY <1>1 DEF FirstOps
  <1> HIDE DEF a
  <1>4. FirstOps(n) = Ops => NumOps <= a
    BY ONLY <1>1, <1>3
  <1>5. NumOps <= a => \A i \in Ops : i <= a
    BY ONLY <1>1, <1>2, <1>3
  <1>6. NumOps <= a => FirstOps(n) = Ops
    BY ONLY <1>3, <1>5
  <1>7. NumOps <= a <=> a >= NumOps
    BY <1>1, <1>3
  <1> QED
    BY <1>4, <1>6, <1>7 DEF a

LEMMA LargeIsOps == ASSUME NEW n PROVE Large(n) \in SUBSET Ops /\ OpsOf(n) \in SUBSET Ops
  BY DEF Large, OpsOf

-----------------------------------------------------------------------------
LEMMA InitInv == Init => Inv
  <1> SUFFICES ASSUME Init PROVE Inv
    OBVIOUS
  <1> USE DEF Init
  <1>1. TypeOK
    <2>1. 0 \in 0 .. NumOps /\ 0 \in 0 .. MaxAttempts
      BY UploadAssumption, AttemptsAssumption
    <2> QED
      BY <2>1 DEF TypeOK, Sending, Waiting
  <1>2. 0 * BatchSize = 0
    BY UploadAssumption
  <1>3. FirstOps(0) = {}
    BY <1>2, UploadAssumption DEF FirstOps, Ops
  <1>4. Ahead
    BY <1>2, <1>3, UploadAssumption, AttemptsAssumption DEF Ahead, Running
  <1>5. Negotiated /\ Abandoned /\ NoDanglingPointer
    BY DEF Negotiated, Abandoned, NoDanglingPointer
  <1> QED
    BY <1>1, <1>4, <1>5 DEF Inv

LEMMA ClassifyType ==
  ASSUME NEW a \in HTTPErrors \cup NetErrors
  PROVE  Classify(a) \in ErrKinds
  BY DEF Classify, ClassifyHTTP, ClassifyNet, ErrKinds, HTTPErrors, NetErrors

(* An attempt that fails leaves the branch, the store and the batch in     *)
(* order, and what it leaves with the hub is accounted for.                *)
LEMMA FailInv ==
  ASSUME Inv, NEW k \in ErrKinds, Fail(k), pc # "returned", pc # "wait",
         UNCHANGED <<kind, cancelled, main, store>>,
         latePuts' \in SUBSET Ops,
         \/ UNCHANGED lateCommits
         \/ pc = "posting" /\ lateCommits' = lateCommits \cup {batch}
  PROVE  Inv'
  <1>1. batch \in 0 .. NumOps /\ Running
    BY DEF Inv, TypeOK, Ahead
  <1>2. /\ batch' = batch /\ attempt' = attempt /\ toPut' = {} /\ err' = k
        /\ \/ pc' = "wait" /\ result' = "running"
           \/ pc' = "returned" /\ result' = "error"
    BY <1>1 DEF Fail, Finish, Running
  <1>3. lateCommits' \in SUBSET (0 .. NumOps)
    BY <1>1 DEF Inv, TypeOK
  <1>4. TypeOK'
    BY <1>2, <1>3 DEF Inv, TypeOK, Sending, Waiting
  <1>5. Ahead'
    BY <1>1, <1>2 DEF Inv, Ahead, Running, FirstOps
  <1>6. Negotiated'
    BY <1>2 DEF Negotiated
  <1>7. Abandoned'
    BY <1>2 DEF Inv, Negotiated, Abandoned, Large, OpsOf
  <1>8. NoDanglingPointer'
    BY DEF Inv, NoDanglingPointer
  <1> QED
    BY <1>4, <1>5, <1>6, <1>7, <1>8 DEF Inv

LEMMA CommittedInv == ASSUME Inv, Committed PROVE Inv'
  <1> USE DEF Committed, NextBatch
  <1>1. /\ batch \in Nat /\ Running /\ batch * BatchSize < NumOps /\ pc = "posting"
        /\ main = FirstOps(batch) \/ main = FirstOps(batch + 1)
    BY DEF Inv, TypeOK, Ahead, Running
  <1>2. main' = FirstOps(batch + 1)
    BY <1>1, BatchExtends
  <1>3. /\ (batch + 1) * BatchSize \in Nat /\ batch + 1 \in Nat /\ NumOps \in Nat
        /\ batch <= batch * BatchSize /\ batch * BatchSize \in Nat
    BY <1>1, NextMultiple, UploadAssumption
  <1>4. batch + 1 \in 0 .. NumOps
    BY <1>1, <1>3
  <1>5. /\ batch' = batch + 1 /\ attempt' = 0 /\ err' = "none" /\ toPut' = {} /\ store' = store
        /\ main' = main \cup OpsOf(batch) /\ latePuts' = latePuts /\ lateCommits' = lateCommits
        /\ kind' = kind /\ cancelled' = cancelled
        /\ \/ pc' = "returned" /\ result' = "ok" /\ (batch + 1) * BatchSize >= NumOps
           \/ pc' = "top" /\ result' = "running" /\ (batch + 1) * BatchSize < NumOps
    BY <1>1, <1>3 DEF IsLast, Finish, Running, late
  <1>6. TypeOK'
    BY ONLY Inv, <1>2, <1>4, <1>5, AttemptsAssumption DEF Inv, TypeOK, Sending, Waiting, FirstOps, Ops
  <1>7. Ahead'
    <2>1. 0 < MaxAttempts
      BY AttemptsAssumption
    <2> QED
      BY ONLY <1>2, <1>3, <1>5, <2>1, LastCoversAll DEF Ahead, Running, FirstOps
  <1>8. Negotiated' /\ NoDanglingPointer'
    BY <1>1, <1>5 DEF Inv, Negotiated, NoDanglingPointer, Large
  <1>9. Abandoned'
    BY <1>5 DEF Inv, Abandoned, Large, OpsOf
  <1> QED
    BY <1>6, <1>7, <1>8, <1>9 DEF Inv

(* Steps that touch neither the hub nor the batch, and after which what    *)
(* the commit will reference is still accounted for.                       *)
LEMMA QuietInv ==
  ASSUME Inv, UNCHANGED <<kind, batch, main, late>>, store \subseteq store', store' \in SUBSET Ops,
         attempt' \in 0 .. MaxAttempts, toPut' \in SUBSET Ops,
         err' \in ErrKinds \cup {"none"}, cancelled' \in BOOLEAN,
         pc' \in Sending \cup Waiting \cup {"top", "wait", "returned"},
         result' \in {"running", "error", "cancelled"}, Running,
         Running' <=> pc' # "returned", Running' => attempt' < MaxAttempts,
         pc' \in {"put", "putting"} => Large(batch) \subseteq store' \cup toPut',
         pc' \in {"post", "posting"} => Large(batch) \subseteq store'
  PROVE  Inv'
  <1>1. TypeOK'
    BY DEF Inv, TypeOK, late
  <1>2. Ahead'
    BY DEF Inv, Ahead, Running, FirstOps
  <1>3. Negotiated' /\ NoDanglingPointer'
    BY DEF Inv, Negotiated, NoDanglingPointer, Large
  <1>4. Abandoned'
    BY DEF Inv, Abandoned, Large, OpsOf, late
  <1> QED
    BY <1>1, <1>2, <1>3, <1>4 DEF Inv

(* A commit that lands late extends the branch by the batch at hand, or    *)
(* repeats one that is there.                                              *)
LEMMA LateInv == ASSUME Inv, LatePut \/ LateCommit PROVE Inv'
  <1>1. CASE LatePut
    <2>1. PICK o \in latePuts : store' = store \cup {o} /\ latePuts' = latePuts \ {o}
      BY <1>1 DEF LatePut
    <2>2. UNCHANGED <<kind, batch, attempt, pc, toPut, err, result, cancelled, main, lateCommits>>
      BY <1>1 DEF LatePut, client
    <2>3. store' \in SUBSET Ops /\ latePuts' \in SUBSET Ops /\ store \subseteq store'
      BY <2>1 DEF Inv, TypeOK
    <2>4. TypeOK'
      BY <2>2, <2>3 DEF Inv, TypeOK
    <2>5. Ahead' /\ Negotiated' /\ Abandoned' /\ NoDanglingPointer'
      BY <2>2, <2>3 DEF Inv, Ahead, Running, FirstOps, Negotiated, Abandoned, NoDanglingPointer,
                        Large, OpsOf
    <2> QED
      BY <2>4, <2>5 DEF Inv
  <1>2. CASE LateCommit
    <2>1. PICK n \in lateCommits : main' = main \cup OpsOf(n) /\ lateCommits' = lateCommits \ {n}
      BY <1>2 DEF LateCommit
    <2>2. UNCHANGED <<kind, batch, attempt, pc, toPut, err, result, cancelled, store, latePuts>>
      BY <1>2 DEF LateCommit, client
    <2>3. OpsOf(n) \in SUBSET Ops /\ Large(n) = {i \in OpsOf(n) : kind[i] = "lfs"}
      BY DEF OpsOf, Large
    <2>4. TypeOK'
      BY <2>1, <2>2, <2>3 DEF Inv, TypeOK
    <2>5. Ahead'
      <3>1. batch \in Nat
        BY DEF Inv, TypeOK
      <3>2. CASE n = batch
        BY <2>1, <2>2, <2>3, <3>1, <3>2, BatchExtends DEF Inv, Ahead, Running, FirstOps
      <3>3. CASE OpsOf(n) \subseteq main
        BY <2>1, <2>2, <3>3 DEF Inv, Ahead, Running, FirstOps
      <3> QED
        BY <2>1, <3>2, <3>3 DEF Inv, Abandoned
    <2>6. Negotiated' /\ Abandoned'
      BY <2>1, <2>2 DEF Inv, Negotiated, Abandoned, Large, OpsOf
    <2>7. NoDanglingPointer'
      BY <2>1, <2>2, <2>3 DEF Inv, Abandoned, NoDanglingPointer
    <2> QED
      BY <2>4, <2>5, <2>6, <2>7 DEF Inv
  <1> QED
    BY <1>1, <1>2

LEMMA WorkInv == ASSUME Inv, Work PROVE Inv'
  <1> USE DEF Sending, Waiting, hub, late
  <1>1. CASE Begin
    <2>1. pc' = "ask" \/ (pc' = "post" /\ Large(batch) = {})
      BY <1>1 DEF Begin, FirstRequest
    <2> QED
      BY <1>1, <2>1, QuietInv DEF Begin, Inv, TypeOK, Ahead, Running
  <1>2. CASE BeginCancelled
    BY <1>2, QuietInv DEF BeginCancelled, Finish, Inv, TypeOK, Ahead, Running
  <1>3. CASE ReadFails
    BY <1>3, FailInv DEF ReadFails, ErrKinds, Inv, TypeOK
  <1>4. CASE Send
    <2>1. \/ pc = "ask" /\ pc' = "asking"
          \/ pc = "put" /\ pc' = "putting"
          \/ pc = "post" /\ pc' = "posting"
      BY <1>4 DEF Send, MaySend
    <2>2. UNCHANGED <<kind, batch, attempt, toPut, err, result, cancelled, main, store, late>>
      BY <1>4 DEF Send
    <2> QED
      BY <2>1, <2>2, QuietInv DEF Inv, TypeOK, Ahead, Negotiated, Running
  <1>5. CASE SendCancelled
    BY <1>5, FailInv DEF SendCancelled, ErrKinds, Inv, TypeOK
  <1>6. CASE HubAsks
    <2>1. /\ toPut' = Large(batch) \ store
          /\ \/ pc' = "post" /\ toPut' = {}
             \/ pc' = "put"
      BY <1>6 DEF HubAsks, AfterPut
    <2>2. toPut' \in SUBSET Ops
      BY <2>1, LargeIsOps
    <2>3. pc = "asking" /\ UNCHANGED <<kind, batch, attempt, err, result, cancelled, main, store, late>>
      BY <1>6 DEF HubAsks
    <2> QED
      BY <2>1, <2>2, <2>3, QuietInv DEF Inv, TypeOK, Ahead, Running
  <1>7. CASE Stored
    <2>1. PICK o \in toPut : store' = store \cup {o} /\ toPut' = toPut \ {o}
      BY <1>7 DEF Stored
    <2>2. \/ pc' = "post" /\ toPut' = {}
          \/ pc' = "put"
      BY <1>7 DEF Stored, AfterPut
    <2>3. /\ pc = "putting"
          /\ UNCHANGED <<kind, batch, attempt, err, result, cancelled, main, late>>
      BY <1>7 DEF Stored
    <2>4. Large(batch) \subseteq store' \cup toPut'
      BY <2>1, <2>3 DEF Inv, Negotiated
    <2>5. store \subseteq store' /\ store' \in SUBSET Ops /\ toPut' \in SUBSET Ops
      BY <2>1 DEF Inv, TypeOK
    <2> QED
      BY <2>2, <2>3, <2>4, <2>5, QuietInv DEF Inv, TypeOK, Ahead, Running
  <1>8. CASE Committed
    BY <1>8, CommittedInv
  <1>9. CASE Refused
    <2>1. PICK a \in HTTPErrors \ {"5xx"} : Fail(Classify(a))
      BY <1>9 DEF Refused
    <2>2. Classify(a) \in ErrKinds
      BY <2>1, ClassifyType
    <2> QED
      BY <1>9, <2>1, <2>2, FailInv DEF Refused, Inv, TypeOK
  <1>10. CASE Lost
    <2>1. PICK a \in NetErrors \cup {"5xx"} : Fail(Classify(a))
      BY <1>10 DEF Lost
    <2>2. Classify(a) \in ErrKinds
      BY <2>1, ClassifyType DEF HTTPErrors
    <2> QED
      BY <1>10, <2>1, <2>2, FailInv DEF Lost, Unheard, Inv, TypeOK
  <1>11. CASE Interrupted
    BY <1>11, FailInv DEF Interrupted, Unheard, ErrKinds, Inv, TypeOK
  <1>12. CASE BackoffOver
    <2>1. attempt \in Nat /\ MaxAttempts \in Nat \ {0} /\ attempt < MaxAttempts /\ Running
      BY <1>12, AttemptsAssumption DEF BackoffOver, Inv, TypeOK, Ahead
    <2>2. CASE attempt + 1 < MaxAttempts
      BY <1>12, <2>1, <2>2, QuietInv DEF BackoffOver, TriesLeft, NextAttempt, Inv, TypeOK, Running
    <2>3. CASE attempt + 1 >= MaxAttempts
      BY <1>12, <2>1, <2>3, QuietInv DEF BackoffOver, TriesLeft, NextAttempt, ReturnsError,
                                         Finish, Inv, TypeOK, Running
    <2> QED
      BY <2>1, <2>2, <2>3
  <1>13. CASE BackoffCancelled
    BY <1>13, QuietInv DEF BackoffCancelled, Finish, Inv, TypeOK, Ahead, Running
  <1> QED
    BY <1>1, <1>2, <1>3, <1>4, <1>5, <1>6, <1>7, <1>8, <1>9, <1>10, <1>11, <1>12, <1>13
    DEF Work, Answer

LEMMA NextInv == Inv /\ [Next]_vars => Inv'
  <1> SUFFICES ASSUME Inv, [Next]_vars PROVE Inv'
    OBVIOUS
  <1>1. CASE Work
    BY <1>1, WorkInv
  <1>2. CASE Cancel
    BY <1>2, QuietInv DEF Cancel, client, hub, Inv, TypeOK, Ahead, Negotiated, Running
  <1>3. CASE UNCHANGED vars
    BY <1>3 DEF vars, client, hub, late, Inv, TypeOK, Ahead, Negotiated, Abandoned,
                NoDanglingPointer, Running, FirstOps, Large, OpsOf
  <1>4. CASE LatePut \/ LateCommit
    BY <1>4, LateInv
  <1> QED
    BY <1>1, <1>2, <1>3, <1>4 DEF Next

LEMMA AlwaysInv == Spec => []Inv
  BY InitInv, NextInv, PTL DEF Spec

-----------------------------------------------------------------------------
(* The variables of an upload keep their types in every reachable state.   *)
THEOREM UploadTypeCorrect == Spec => []TypeOK
  <1>1. Inv => TypeOK
    BY DEF Inv
  <1> QED
    BY <1>1, AlwaysInv, PTL

(* For any number of operations and attempts, and whatever the hub answers *)
(* or fails to, no commit references an object that is not stored.         *)
THEOREM PointersResolve == Spec => []NoDanglingPointer
  <1>1. Inv => NoDanglingPointer
    BY DEF Inv
  <1> QED
    BY <1>1, AlwaysInv, PTL

(* An upload lands batch by batch and in order, and reports success only   *)
(* when all of it has landed: HubUpload implements BatchUpload.            *)
THEOREM ImplementsBatches == Spec => UploadsInOrder
  <1>1. Init => Upload!Init
    BY DEF Init, Upload!Init, Outcome
  <1>2. Inv /\ [Next]_vars => [Upload!Next]_Upload!vars
    <2> SUFFICES ASSUME Inv, [Next]_vars
                 PROVE  Upload!Next \/ UNCHANGED <<main, batch, Outcome>>
      BY DEF Upload!vars
    <2> USE DEF Upload!Next, Upload!FirstBatches, Upload!Ops
    <2>1. batch \in Nat /\ FirstOps(batch + 1) = {i \in 1 .. NumOps : i <= (batch + 1) * BatchSize}
      BY DEF Inv, TypeOK, FirstOps, Ops
    <2>2. CASE Committed
      <3>1. /\ result = "running" /\ (main = FirstOps(batch) \/ main = FirstOps(batch + 1))
            /\ main' = main \cup OpsOf(batch) /\ batch' = batch + 1 /\ pc = "posting"
        BY <2>2 DEF Committed, NextBatch, Inv, Ahead, Running
      <3>2. main' = FirstOps(batch + 1)
        BY <2>1, <3>1, BatchExtends
      <3>3. result' = IF FirstOps(batch + 1) = Ops THEN "ok" ELSE "running"
        <4>1. FirstOps(batch + 1) = Ops <=> IsLast
          BY <2>1, batch + 1 \in Nat, LastCoversAll DEF IsLast
        <4>2. result' = IF IsLast THEN "ok" ELSE result
          BY <2>2 DEF Committed, NextBatch, Finish
        <4>3. result = "running"
          BY <2>2 DEF Committed, Inv, Ahead, Running
        <4> QED
          BY <4>1, <4>2, <4>3
      <3>4. Outcome = "running" /\ Outcome' = IF FirstOps(batch + 1) = Ops THEN "ok" ELSE "running"
        BY <2>2, <3>3 DEF Outcome, Committed, Inv, Ahead, Running
      <3> QED
        BY <2>1, <3>1, <3>2, <3>4 DEF Upload!Applied, Ops
    <2>3. CASE LateCommit
      <3>1. PICK n \in lateCommits : main' = main \cup OpsOf(n)
        BY <2>3 DEF LateCommit
      <3>2. UNCHANGED <<batch, result>> /\ Outcome' = Outcome
        BY <2>3 DEF LateCommit, client, Outcome
      <3>3. CASE main' = main
        BY <3>2, <3>3
      <3>4. CASE n = batch /\ result = "ok"
        BY <3>1, <3>2, <3>4 DEF Inv, Ahead, OpsOf
      <3>5. CASE n = batch /\ result # "ok"
        <4>1. main' = FirstOps(batch + 1)
          BY <2>1, <3>1, <3>5, BatchExtends DEF Inv, Ahead
        <4>2. Outcome # "ok"
          BY <3>5 DEF Outcome
        <4> QED
          BY <2>1, <3>2, <4>1, <4>2 DEF Upload!AppliedUnheard
      <3> QED
        BY <3>1, <3>3, <3>4, <3>5 DEF Inv, Abandoned
    <2>4. CASE result = "running" /\ UNCHANGED <<batch, main>> /\ result' \in {"error", "cancelled"}
      <3>1. Outcome = "running" /\ Outcome' = "failed"
        BY <2>4 DEF Outcome
      <3> QED
        BY <2>4, <3>1 DEF Upload!GiveUp
    <2>5. CASE UNCHANGED <<batch, main, result>>
      BY <2>5 DEF Outcome
    <2>6. ASSUME Refused \/ Lost \/ Interrupted \/ ReadFails \/ SendCancelled
          PROVE  result = "running" /\ UNCHANGED <<batch, main>> /\ result' \in {"running", "error"}
      BY <2>6 DEF Refused, Lost, Interrupted, ReadFails, SendCancelled, Unheard, Fail, Finish, Inv,
                  Ahead, Running, Waiting, Sending, hub
    <2>7. ASSUME BeginCancelled \/ BackoffOver \/ BackoffCancelled
          PROVE  /\ result = "running" /\ UNCHANGED <<batch, main>>
                 /\ result' \in {"running", "error", "cancelled"}
      BY <2>7 DEF BeginCancelled, BackoffOver, BackoffCancelled, ReturnsError, Finish, Inv, Ahead,
                  Running, hub
    <2>8. ASSUME Begin \/ Send \/ HubAsks \/ Stored \/ LatePut \/ Cancel \/ UNCHANGED vars
          PROVE  UNCHANGED <<batch, main, result>>
      BY <2>8 DEF Begin, Send, HubAsks, Stored, LatePut, Cancel, vars, client, hub
    <2> QED
      BY <2>2, <2>3, <2>4, <2>5, <2>6, <2>7, <2>8 DEF Next, Work, Answer
  <1> QED
    BY <1>1, <1>2, AlwaysInv, PTL DEF Spec, UploadsInOrder, Upload!Spec

-----------------------------------------------------------------------------
(* No request is under way and none will be sent.                          *)
Stopped(n) == cancelled /\ pc \notin Waiting /\ Cardinality(Reach) = n

LEMMA ReachKept ==
  ASSUME UNCHANGED <<main, lateCommits>> \/ LateCommit
  PROVE  Reach' = Reach
  <1>1. CASE UNCHANGED <<main, lateCommits>>
    BY <1>1 DEF Reach, OpsOf
  <1>2. CASE LateCommit
    <2>1. PICK n \in lateCommits : main' = main \cup OpsOf(n) /\ lateCommits' = lateCommits \ {n}
      BY <1>2 DEF LateCommit
    <2>2. Reach' = main' \cup UNION {OpsOf(k) : k \in lateCommits'}
      BY DEF Reach, OpsOf
    <2> QED
      BY <2>1, <2>2 DEF Reach
  <1> QED
    BY <1>1, <1>2

LEMMA StaysStopped ==
  ASSUME NEW n, Stopped(n), [Next]_vars
  PROVE  Stopped(n)'
  <1>1. cancelled /\ pc \notin Waiting
    BY DEF Stopped
  <1>2. /\ cancelled' /\ pc' \notin Waiting
        /\ UNCHANGED <<main, lateCommits>> \/ LateCommit
    <2> USE DEF Waiting, hub, late, client
    <2>1. CASE Begin \/ BeginCancelled \/ ReadFails \/ Send \/ SendCancelled
      BY <1>1, <2>1 DEF Begin, BeginCancelled, ReadFails, Send, MaySend, SendCancelled, Fail, Finish,
                        Sending
    <2>2. CASE Answer
      BY <1>1, <2>2 DEF Answer, HubAsks, Stored, Committed, Refused, Lost, Interrupted, Unheard
    <2>3. CASE BackoffOver \/ BackoffCancelled
      BY <1>1, <2>3 DEF BackoffOver, BackoffCancelled, ReturnsError, Finish
    <2>4. CASE LatePut \/ LateCommit
      BY <1>1, <2>4 DEF LatePut, LateCommit
    <2>5. CASE Cancel \/ UNCHANGED vars
      BY <1>1, <2>5 DEF Cancel, vars
    <2> QED
      BY <2>1, <2>2, <2>3, <2>4, <2>5 DEF Next, Work
  <1>3. Reach' = Reach
    BY <1>2, ReachKept
  <1> QED
    BY <1>2, <1>3 DEF Stopped, Waiting

(* Once the context is done and no request is under way, the branch gets   *)
(* nothing for good but what was given up before: no attempt, retry or     *)
(* later batch changes it (hf.go:157-159, 164-183).                        *)
THEOREM CancelFreezesHub == Spec => CancelStopsHub
  <1> SUFFICES ASSUME NEW n \in 0 .. NumOps
               PROVE  Spec => [](cancelled /\ pc \notin Waiting /\ Cardinality(Reach) = n
                                   => [](Cardinality(Reach) = n))
    BY DEF CancelStopsHub
  <1>1. Stopped(n) /\ [Next]_vars => Stopped(n)'
    BY StaysStopped
  <1>2. Stopped(n) => Cardinality(Reach) = n
    BY DEF Stopped
  <1>3. cancelled /\ pc \notin Waiting /\ Cardinality(Reach) = n => Stopped(n)
    BY DEF Stopped
  <1> QED
    BY <1>1, <1>2, <1>3, PTL DEF Spec
=============================================================================
