-------------------------- MODULE PublisherProofs --------------------------
(***************************************************************************)
(* Proofs about Publisher.tla, for any months, layouts, options, batch     *)
(* sizes and number of faults.                                             *)
(***************************************************************************)
EXTENDS Publisher, TLAPS

USE DEF Active, ShardIds

-----------------------------------------------------------------------------
(* The shape of an entry, a row and a job, in the form the provers use.    *)

LEMMA ZeroValues == NoRow \in Row /\ NoEntry \in Entry /\ NoJob \in Job
  BY DEF NoRow, Row, NoEntry, Entry, NoJob, Job, Stages

(* Rows counted so far plus those of the next shard are the rows before    *)
(* the shard after it, and a shard has no negative number of rows.         *)
LEMMA ShardRows ==
  ASSUME TypeOK, Active, NEW m \in Months, NEW n \in Nat, n < Count(m)
  PROVE  /\ n \in ShardIds
         /\ Before(m, n) \in Nat
         /\ Before(m, n + 1) \in Nat
         /\ RowsOfShard(m, n) \in Nat
         /\ Before(m, n) + RowsOfShard(m, n) = Before(m, n + 1)
  <1>1. run \in Options /\ run.layout \in Layouts
    BY RunsAssumption DEF TypeOK
  <1>2. Count(m) \in 0 .. MaxShards /\ MaxShards \in Nat
    BY <1>1, LayoutsAssumption, NumbersAssumption DEF Count
  <1>3. n \in 0 .. MaxShards /\ n + 1 \in 0 .. MaxShards /\ n \in 0 .. MaxShards - 1
    BY <1>2
  <1>4. /\ Before(m, n) \in Nat
        /\ Before(m, n + 1) \in Nat
        /\ Before(m, n) <= Before(m, n + 1)
    BY <1>1, <1>3, LayoutsAssumption DEF Before
  <1> QED
    BY <1>3, <1>4 DEF RowsOfShard

(* What the hub client puts in one commit never exceeds what is left.      *)
LEMMA CommitSize ==
  ASSUME TypeOK, NEW m \in Months, Left(m) > 0
  PROVE  OpsInCommit(m) \in Nat /\ OpsInCommit(m) <= Left(m) /\ OpsInCommit(m) > 0
  BY NumbersAssumption DEF OpsInCommit, Left, TypeOK, Job

-----------------------------------------------------------------------------
LEMMA TypeInit == Init => TypeOK
  BY ZeroValues, NumbersAssumption DEF Init, TypeOK

(* Moving a job to another stage keeps every job a job.                    *)
LEMMA MoveType ==
  ASSUME TypeOK, NEW m \in Months, NEW s \in Stages, Move(m, s)
  PROVE  job' \in [Months -> Job]
  BY DEF Move, TypeOK, Job

LEMMA UpdateType ==
  ASSUME TypeOK, NEW m \in Months, NEW j \in Job, job' = [job EXCEPT ![m] = j]
  PROVE  job' \in [Months -> Job]
  BY DEF TypeOK

LEMMA JobFields ==
  ASSUME TypeOK, NEW m \in Months
  PROVE  /\ job[m] \in Job
         /\ job[m].next \in Nat /\ job[m].rows \in Nat
         /\ job[m].flushed \in Nat /\ job[m].sent \in Nat
  BY DEF TypeOK, Job

LEMMA FaultType == ASSUME TypeOK, Fault PROVE faults' \in 0 .. MaxFaults
  BY NumbersAssumption DEF TypeOK, Fault

LEMMA HubApplyType ==
  ASSUME TypeOK, Active, NEW m \in Months, HubApply(m)
  PROVE  hub' \in [Months -> [ShardIds -> Layouts \cup {Absent}]]
  <1>1. run.layout \in Layouts
    BY RunsAssumption DEF TypeOK
  <1> QED
    BY <1>1 DEF HubApply, TypeOK

LEMMA TypeStep == TypeOK /\ [Next]_vars => TypeOK'
  <1> SUFFICES ASSUME TypeOK, [Next]_vars PROVE TypeOK'
    OBVIOUS
  <1> USE DEF disk, remote
  <1>1. ASSUME NEW o \in Options, StartRun(o) \/ StartRunUnreadable(o)
        PROVE  TypeOK'
    <2>1. job' \in [Months -> Job]
      BY <1>1, ZeroValues DEF StartRun, StartRunUnreadable, BeginRun, NoJob, Job, Stages
    <2>2. mem' \in [Months -> Entry]
      BY <1>1, ZeroValues DEF StartRun, StartRunUnreadable, TypeOK
    <2>3. faults' \in 0 .. MaxFaults
      BY <1>1, FaultType DEF StartRun, StartRunUnreadable, TypeOK
    <2> QED
      BY <1>1, <2>1, <2>2, <2>3 DEF TypeOK, StartRun, StartRunUnreadable, BeginRun
  <1>2. ASSUME NEW m \in Months, Download(m) PROVE TypeOK'
    <2>1. job' \in [Months -> Job]
      BY <1>2, MoveType DEF Download, Stages
    <2> QED
      BY <1>2, <2>1 DEF Download, TypeOK
  <1>3. ASSUME NEW m \in Months, StartProcess(m) PROVE TypeOK'
    <2>1. ResumeSeed(m) \in Entry
      BY ZeroValues DEF ResumeSeed, TypeOK
    <2>2. job' \in [Months -> Job]
      BY <1>3, <2>1 DEF StartProcess, TypeOK, Job, Entry, Stages
    <2> QED
      BY <1>3, <2>2 DEF StartProcess, TypeOK
  <1>4. ASSUME NEW m \in Months, WriteShard(m) PROVE TypeOK'
    <2> DEFINE s == IF BatchFull(m, job[m].next + 1) THEN "batch" ELSE "processing"
               r == job[m].rows + RowsOfShard(m, job[m].next)
    <2>1. job[m].next \in Nat /\ job[m].rows \in Nat /\ job[m].next + 1 \in Nat
      BY DEF TypeOK, Job
    <2>2. job[m].next \in ShardIds /\ RowsOfShard(m, job[m].next) \in Nat
      BY <1>4, <2>1, ShardRows DEF WriteShard
    <2>3. job' \in [Months -> Job]
      <3>1. s \in Stages /\ r \in Nat
        BY <2>1, <2>2 DEF Stages
      <3>2. job' = [job EXCEPT ![m].next = job[m].next + 1, ![m].rows = r, ![m].stage = s]
        BY <1>4 DEF WriteShard
      <3> DEFINE next == [job[m] EXCEPT !.next = job[m].next + 1, !.rows = r, !.stage = s]
      <3> HIDE DEF s, r
      <3>3. next \in Job
        BY <2>1, <3>1, JobFields DEF Job
      <3>4. job' = [job EXCEPT ![m] = next]
        BY <3>2
      <3> HIDE DEF next
      <3> QED
        BY <3>3, <3>4, UpdateType
    <2>4. local' \in [Months -> SUBSET ShardIds]
      BY <1>4, <2>2 DEF WriteShard, TypeOK
    <2> QED
      BY <1>4, <2>3, <2>4 DEF WriteShard, TypeOK
  <1>5. ASSUME NEW m \in Months, FinishScan(m) PROVE TypeOK'
    <2>1. job' \in [Months -> Job]
      BY <1>5, MoveType DEF FinishScan, AfterScan, Stages
    <2> QED
      BY <1>5, <2>1 DEF FinishScan, TypeOK
  <1>6. ASSUME NEW m \in Months, StartUpload(m) PROVE TypeOK'
    <2>1. job' \in [Months -> Job]
      <3> DEFINE next == [job[m] EXCEPT !.stage = "uploading", !.sent = 0]
      <3>1. next \in Job
        BY JobFields DEF Job, Stages
      <3>2. job' = [job EXCEPT ![m] = next]
        BY <1>6 DEF StartUpload
      <3> HIDE DEF next
      <3> QED
        BY <3>1, <3>2, UpdateType
    <2> QED
      BY <1>6, <2>1 DEF StartUpload, TypeOK
  <1>7. ASSUME NEW m \in Months, HubCommit(m) PROVE TypeOK'
    <2>1. job[m].sent + OpsInCommit(m) \in Nat
      BY <1>7, CommitSize DEF HubCommit, TypeOK, Job
    <2>2. job' \in [Months -> Job]
      <3> DEFINE next == [job[m] EXCEPT !.sent = job[m].sent + OpsInCommit(m)]
      <3>1. next \in Job
        BY <2>1, JobFields DEF Job
      <3>2. job' = [job EXCEPT ![m] = next]
        BY <1>7 DEF HubCommit
      <3> HIDE DEF next
      <3> QED
        BY <3>1, <3>2, UpdateType
    <2>3. hub' \in [Months -> [ShardIds -> Layouts \cup {Absent}]]
      BY <1>7, HubApplyType DEF HubCommit
    <2> QED
      BY <1>7, <2>2, <2>3 DEF HubCommit, TypeOK
  <1>8. ASSUME NEW m \in Months, HubCommitAnswerLost(m) PROVE TypeOK'
    <2>1. hub' \in [Months -> [ShardIds -> Layouts \cup {Absent}]]
      BY <1>8, HubApplyType DEF HubCommitAnswerLost
    <2>2. faults' \in 0 .. MaxFaults
      BY <1>8, FaultType DEF HubCommitAnswerLost
    <2> QED
      BY <1>8, <2>1, <2>2 DEF HubCommitAnswerLost, TypeOK
  <1>9. ASSUME NEW m \in Months, EndUpload(m) PROVE TypeOK'
    <2>1. job' \in [Months -> Job]
      BY <1>9, MoveType DEF EndUpload, Stages
    <2> QED
      BY <1>9, <2>1 DEF EndUpload, TypeOK
  <1>10. ASSUME NEW m \in Months, SetProgress(m) PROVE TypeOK'
    <2>1. job' \in [Months -> Job]
      BY <1>10, MoveType DEF SetProgress, Stages
    <2>2. job[m].next \in Nat /\ job[m].rows \in Nat /\ run.layout \in Layouts
      BY <1>10, RunsAssumption DEF SetProgress, TypeOK, Job
    <2>3. mem' \in [Months -> Entry]
      BY <1>10, <2>2 DEF SetProgress, SetEntry, TypeOK, Entry
    <2>4. progress' \in [Months -> Entry] /\ faults' \in 0 .. MaxFaults
      BY <1>10, <2>3, FaultType DEF SetProgress, TypeOK
    <2> QED
      BY <1>10, <2>1, <2>3, <2>4 DEF SetProgress, TypeOK
  <1>11. ASSUME NEW m \in Months, DropBatch(m) PROVE TypeOK'
    <2>1. job' \in [Months -> Job]
      <3> DEFINE next == [job[m] EXCEPT !.stage = "processing", !.flushed = job[m].next]
      <3>1. next \in Job
        BY JobFields DEF Job, Stages
      <3>2. job' = [job EXCEPT ![m] = next]
        BY <1>11 DEF DropBatch, ClearBatch
      <3> HIDE DEF next
      <3> QED
        BY <3>1, <3>2, UpdateType
    <2>2. local' \in [Months -> SUBSET ShardIds]
      BY <1>11 DEF DropBatch, TypeOK
    <2> QED
      BY <1>11, <2>1, <2>2 DEF DropBatch, TypeOK
  <1>12. ASSUME NEW m \in Months, AppendStats(m) PROVE TypeOK'
    <2>1. job' \in [Months -> Job]
      BY <1>12, MoveType DEF AppendStats, Stages
    <2>2. FinalRow(m) \in Row
      BY DEF FinalRow, Row, TypeOK, Job
    <2>3. ledger' \in [Months -> Row]
      BY <1>12, <2>2 DEF AppendStats, MergeRow, TypeOK
    <2> QED
      BY <1>12, <2>1, <2>3 DEF AppendStats, TypeOK
  <1>13. ASSUME NEW m \in Months, PushLedger(m) \/ PushAnswerLost(m) PROVE TypeOK'
    <2>1. job' \in [Months -> Job]
      BY <1>13, MoveType DEF PushLedger, PushAnswerLost, Stages
    <2>2. faults' \in 0 .. MaxFaults
      BY <1>13, FaultType DEF PushLedger, PushAnswerLost, TypeOK
    <2> QED
      BY <1>13, <2>1, <2>2 DEF PushLedger, PushAnswerLost, TypeOK
  <1>14. ASSUME NEW m \in Months, ClearProgress(m) PROVE TypeOK'
    <2>1. job' \in [Months -> Job]
      BY <1>14, MoveType DEF ClearProgress, Stages
    <2>2. mem' \in [Months -> Entry]
      BY <1>14, ZeroValues DEF ClearProgress, ClearEntry, TypeOK
    <2>3. progress' \in [Months -> Entry] /\ faults' \in 0 .. MaxFaults
      BY <1>14, <2>2, FaultType DEF ClearProgress, TypeOK
    <2> QED
      BY <1>14, <2>1, <2>2, <2>3 DEF ClearProgress, TypeOK
  <1>15. ASSUME NEW m \in Months, Cleanup(m) PROVE TypeOK'
    <2>1. job' \in [Months -> Job]
      BY <1>15, MoveType DEF Cleanup, Stages
    <2>2. zst' \subseteq Months /\ local' \in [Months -> SUBSET ShardIds]
      BY <1>15 DEF Cleanup, TypeOK
    <2> QED
      BY <1>15, <2>1, <2>2 DEF Cleanup, TypeOK
  <1>16. ASSUME NEW m \in Months, StageFails(m) PROVE TypeOK'
    <2>1. job' \in [Months -> Job]
      BY <1>16, MoveType DEF StageFails, Stages
    <2>2. faults' \in 0 .. MaxFaults
      BY <1>16, FaultType DEF StageFails
    <2> QED
      BY <1>16, <2>1, <2>2 DEF StageFails, ReleaseMu, TypeOK
  <1>17. ASSUME EndRun, faults' \in 0 .. MaxFaults PROVE TypeOK'
    BY <1>17, ZeroValues DEF EndRun, TypeOK
  <1>18. CASE Return \/ Crash
    BY <1>17, <1>18, FaultType DEF Return, Crash, TypeOK
  <1>19. CASE UNCHANGED vars
    BY <1>19 DEF vars, TypeOK
  <1> QED
    BY <1>1, <1>2, <1>3, <1>4, <1>5, <1>6, <1>7, <1>8, <1>9, <1>10, <1>11, <1>12,
       <1>13, <1>14, <1>15, <1>16, <1>18, <1>19 DEF Next, JobStep

(* Every variable keeps its type, however runs interleave, fail and crash  *)
(* (publish.go): the state TypeOK describes is all a publish ever holds.   *)
THEOREM TypeCorrect == Spec => []TypeOK
  BY TypeInit, TypeStep, PTL DEF Spec

-----------------------------------------------------------------------------
(* The argument for the ledgers.  All runs cut months by one layout l.     *)
(* The invariant follows a shard on its way: nothing but shards of l is on *)
(* the hub; what an entry of the progress ledger counts is there; and a    *)
(* job's flushed prefix, extended by what the current upload has sent, is  *)
(* there.  The last makes the entry written after a batch true, and the    *)
(* row written after the last batch.                                       *)

HubOf(l) ==
  \A m \in Months, n \in ShardIds :
      hub[m][n] # Absent => hub[m][n] = l /\ n < ShardCount[l][m]

Backed(l, m, e) ==
  e # NoEntry => /\ e.engine = EngineOf[l]
                 /\ e.shards <= ShardCount[l][m]
                 /\ e.rows = RowsBefore[l][m][e.shards]
                 /\ OnHub(m, l, e.shards)

EntriesOf(l) == \A m \in Months : Backed(l, m, progress[m]) /\ Backed(l, m, mem[m])

InScan == {"processing", "batch", "uploading", "uploaded", "recorded"}

JobOf(l, m) ==
  /\ job[m].stage \in InScan \cup {"processed"} =>
        /\ job[m].flushed <= job[m].next
        /\ job[m].next <= ShardCount[l][m]
        /\ job[m].rows = RowsBefore[l][m][job[m].next]
        /\ OnHub(m, l, job[m].flushed)
  /\ job[m].stage \in InScan => Batch(m) \subseteq local[m]
  /\ job[m].stage = "uploading" =>
        /\ job[m].flushed + job[m].sent <= job[m].next
        /\ OnHub(m, l, job[m].flushed + job[m].sent)
  /\ job[m].stage \in {"uploaded", "recorded"} => OnHub(m, l, job[m].next)
  /\ job[m].stage = "processed" =>
        /\ job[m].next = ShardCount[l][m]
        /\ run.commit => OnHub(m, l, job[m].next)

Inv(l) == TypeOK /\ HubOf(l) /\ EntriesOf(l) /\ \A m \in Months : JobOf(l, m)

OneLayout(l) == l \in Layouts /\ \A o \in Options : o.layout = l

(* What the hub holds of l it keeps.                                       *)
HubKeeps(l) == \A m \in Months, i \in ShardIds : hub[m][i] = l => hub'[m][i] = l

LEMMA LayoutOfRun ==
  ASSUME NEW l, OneLayout(l), TypeOK, Active
  PROVE  /\ run.layout = l /\ l \in Layouts
         /\ \A m \in Months : /\ Count(m) = ShardCount[l][m]
                              /\ ShardCount[l][m] \in 0 .. MaxShards
                              /\ \A n : Before(m, n) = RowsBefore[l][m][n]
  <1>1. run.layout = l /\ l \in Layouts
    BY DEF OneLayout, TypeOK
  <1> QED
    BY <1>1, LayoutsAssumption DEF Count, Before

LEMMA OnHubKeeps ==
  ASSUME NEW l, HubKeeps(l), NEW m \in Months, NEW n, OnHub(m, l, n)
  PROVE  OnHub(m, l, n)'
  BY DEF HubKeeps, OnHub

(* Only a hub commit changes the hub, and it writes shards of the month    *)
(* being committed, below the month's end.                                 *)
LEMMA HubApplyKeeps ==
  ASSUME NEW l, OneLayout(l), Inv(l), Active, NEW m \in Months,
         job[m].stage = "uploading", Left(m) > 0, HubApply(m)
  PROVE  /\ HubOf(l)' /\ HubKeeps(l)
         /\ \A i \in ShardIds :
               i < job[m].flushed + job[m].sent + OpsInCommit(m) => hub'[m][i] = l
  <1> DEFINE first == job[m].flushed + job[m].sent
             last == first + OpsInCommit(m) - 1
  <1>1. first \in Nat /\ job[m].next \in Nat
    BY DEF Inv, TypeOK, Job
  <1>2. OpsInCommit(m) \in Nat /\ OpsInCommit(m) <= job[m].next - first
    BY CommitSize DEF Inv, Left
  <1>3. /\ job[m].next <= ShardCount[l][m]
        /\ ShardCount[l][m] \in Nat
        /\ run.layout = l
        /\ OnHub(m, l, first)
    BY LayoutOfRun, NumbersAssumption DEF Inv, JobOf, InScan
  <1>4. \A k \in Months, n \in ShardIds :
           hub'[k][n] = IF k = m /\ n \in first .. last THEN l ELSE hub[k][n]
    BY <1>3 DEF HubApply, Inv, TypeOK
  <1>5. ShardIds \subseteq Nat
    BY NumbersAssumption
  <1>6. HubOf(l)'
    BY <1>1, <1>2, <1>3, <1>4, <1>5 DEF Inv, HubOf
  <1>7. HubKeeps(l)
    BY <1>4 DEF HubKeeps
  <1>8. \A i \in ShardIds : i < first + OpsInCommit(m) => hub'[m][i] = l
    BY <1>1, <1>2, <1>3, <1>4, <1>5 DEF OnHub
  <1> QED
    BY <1>6, <1>7, <1>8

LEMMA HubStep ==
  ASSUME NEW l, OneLayout(l), Inv(l), [Next]_vars
  PROVE  HubOf(l)' /\ HubKeeps(l)
  <1>1. ASSUME NEW m \in Months, HubCommit(m) \/ HubCommitAnswerLost(m)
        PROVE  HubOf(l)' /\ HubKeeps(l)
    BY <1>1, HubApplyKeeps DEF HubCommit, HubCommitAnswerLost
  <1>2. CASE UNCHANGED hub
    BY <1>2 DEF Inv, HubOf, HubKeeps
  <1> QED
    BY <1>1, <1>2 DEF Next, JobStep, vars, disk, remote, StartRun, StartRunUnreadable, BeginRun,
       Download, StartProcess, WriteShard, FinishScan, StartUpload, EndUpload, SetProgress,
       DropBatch, AppendStats, PushLedger, PushAnswerLost, ClearProgress, Cleanup, StageFails,
       Return, Crash, EndRun

LEMMA EntriesStep ==
  ASSUME NEW l, OneLayout(l), Inv(l), [Next]_vars, HubKeeps(l)
  PROVE  EntriesOf(l)'
  <1> USE DEF disk, remote
  <1> DEFINE Kept(e, m) == e \in {mem[m], progress[m], NoEntry}
  <1>1. ASSUME \A m \in Months : Kept(mem'[m], m) /\ Kept(progress'[m], m)
        PROVE  EntriesOf(l)'
    BY <1>1 DEF HubKeeps, Inv, EntriesOf, Backed, OnHub
  <1>2. ASSUME NEW k \in Months, SetProgress(k) PROVE EntriesOf(l)'
    <2> DEFINE new == [engine |-> EngineOf[l], shards |-> job[k].next, rows |-> job[k].rows]
    <2>1. run.layout = l
      BY <1>2, LayoutOfRun DEF SetProgress, Inv
    <2>2. Backed(l, k, new)
      BY <1>2 DEF SetProgress, Inv, JobOf, InScan, Backed
    <2>3. \A m \in Months : mem'[m] = IF m = k THEN new ELSE mem[m]
      BY <1>2, <2>1 DEF SetProgress, SetEntry, Inv, TypeOK
    <2>4. progress' = mem' \/ progress' = progress
      BY <1>2 DEF SetProgress
    <2>5. UNCHANGED hub
      BY <1>2 DEF SetProgress
    <2>6. ASSUME NEW m \in Months
          PROVE  /\ (mem'[m] = new /\ m = k) \/ mem'[m] = mem[m]
                 /\ (progress'[m] = new /\ m = k) \/ progress'[m] \in {mem[m], progress[m]}
      BY <2>3, <2>4
    <2> HIDE DEF new
    <2> QED
      BY <2>2, <2>5, <2>6 DEF Inv, EntriesOf, Backed, OnHub
  <1>3. ASSUME NEW k \in Months, ClearProgress(k) PROVE EntriesOf(l)'
    <2>1. \A m \in Months : mem'[m] = IF m = k THEN NoEntry ELSE mem[m]
      BY <1>3 DEF ClearProgress, ClearEntry, Inv, TypeOK
    <2>2. progress' = mem' \/ progress' = progress
      BY <1>3 DEF ClearProgress
    <2> QED
      BY <1>1, <2>1, <2>2
  <1>4. ASSUME NEW o \in Options, StartRun(o) \/ StartRunUnreadable(o)
        PROVE  EntriesOf(l)'
    BY <1>1, <1>4 DEF StartRun, StartRunUnreadable, BeginRun, Inv, TypeOK
  <1>5. CASE EndRun
    BY <1>1, <1>5 DEF EndRun
  <1>6. CASE UNCHANGED <<mem, progress>>
    BY <1>1, <1>6
  <1> QED
    BY <1>2, <1>3, <1>4, <1>5, <1>6 DEF Next, JobStep, vars, Download, StartProcess,
       WriteShard, FinishScan, StartUpload, HubCommit, HubCommitAnswerLost, EndUpload,
       DropBatch, AppendStats, PushLedger, PushAnswerLost, Cleanup, StageFails, Return, Crash

-----------------------------------------------------------------------------
(* A job no step touches keeps its part of the invariant, as long as its   *)
(* shard files stay.                                                       *)
LEMMA JobFrame ==
  ASSUME NEW l, NEW m \in Months, JobOf(l, m), HubKeeps(l),
         job'[m] = job[m], run' = run, local'[m] = local[m]
  PROVE  JobOf(l, m)'
  BY DEF JobOf, OnHub, HubKeeps, Batch

(* A job outside its scan has nothing to keep.                             *)
LEMMA JobIdle ==
  ASSUME NEW l, NEW m \in Months, job'[m].stage \notin InScan \cup {"processed"}
  PROVE  JobOf(l, m)'
  BY DEF JobOf, InScan

LEMMA MoveStage ==
  ASSUME TypeOK, NEW m \in Months, NEW s, Move(m, s)
  PROVE  /\ job'[m] = [job[m] EXCEPT !.stage = s]
         /\ job'[m].stage = s
         /\ job'[m].flushed = job[m].flushed
         /\ job'[m].next = job[m].next
         /\ job'[m].rows = job[m].rows
         /\ \A k \in Months \ {m} : job'[k] = job[k]
  BY DEF Move, TypeOK, Job

LEMMA SeedStep ==
  ASSUME NEW l, OneLayout(l), Inv(l), NEW m \in Months, StartProcess(m)
  PROVE  JobOf(l, m)'
  <1> DEFINE seed == ResumeSeed(m)
  <1>1. run.layout = l /\ ShardCount[l][m] \in Nat /\ RowsBefore[l][m][0] = 0
    BY LayoutOfRun, LayoutsAssumption, NumbersAssumption DEF StartProcess, Inv, OneLayout
  <1>2. EngineOf[l] # NoEngine
    BY LayoutsAssumption DEF OneLayout
  <1>3. /\ seed.shards \in Nat
        /\ seed.shards <= ShardCount[l][m]
        /\ seed.rows = RowsBefore[l][m][seed.shards]
        /\ OnHub(m, l, seed.shards)
    <2>1. CASE seed = NoEntry
      BY <1>1, <2>1, NumbersAssumption DEF NoEntry, OnHub
    <2>2. CASE seed = mem[m] /\ mem[m] # NoEntry
      BY <2>2 DEF Inv, EntriesOf, Backed, TypeOK, Entry
    <2> QED
      BY <2>1, <2>2 DEF ResumeSeed
  <1>4. job'[m] = [stage |-> "processing", flushed |-> seed.shards, next |-> seed.shards,
                   rows |-> seed.rows, sent |-> 0]
    BY DEF StartProcess, Inv, TypeOK
  <1>5. Batch(m)' = {}
    BY <1>3, <1>4 DEF Batch
  <1>6. UNCHANGED hub
    BY DEF StartProcess, remote
  <1> HIDE DEF seed
  <1> QED
    BY <1>3, <1>4, <1>5, <1>6 DEF JobOf, OnHub, InScan

LEMMA WriteStep ==
  ASSUME NEW l, OneLayout(l), Inv(l), NEW m \in Months, WriteShard(m)
  PROVE  JobOf(l, m)'
  <1> DEFINE s == IF BatchFull(m, job[m].next + 1) THEN "batch" ELSE "processing"
             r == job[m].rows + RowsOfShard(m, job[m].next)
             n == job[m].next
  <1>0. Active /\ TypeOK /\ Count(m) = ShardCount[l][m] /\ ShardCount[l][m] \in 0 .. MaxShards
    BY LayoutOfRun DEF WriteShard, Inv
  <1>1. n \in Nat /\ job[m].flushed \in Nat /\ n < ShardCount[l][m] /\ ShardCount[l][m] \in Nat
    BY <1>0, NumbersAssumption DEF WriteShard, TypeOK, Job
  <1>2. r = RowsBefore[l][m][n + 1]
    BY <1>1, ShardRows, LayoutOfRun DEF WriteShard, Inv, JobOf, InScan
  <1>3. /\ job'[m] = [job[m] EXCEPT !.next = n + 1, !.rows = r, !.stage = s]
        /\ local'[m] = local[m] \cup {n}
        /\ UNCHANGED hub
    BY DEF WriteShard, Inv, TypeOK, remote
  <1>4. /\ job'[m].next = n + 1
        /\ job'[m].rows = RowsBefore[l][m][n + 1]
        /\ job'[m].stage \in {"batch", "processing"}
        /\ job'[m].flushed = job[m].flushed
    <2> HIDE DEF r, n
    <2> QED
      BY <1>2, <1>3 DEF Inv, TypeOK, Job
  <1>5. /\ job[m].flushed <= n
        /\ OnHub(m, l, job[m].flushed)
        /\ Batch(m) \subseteq local[m]
    BY DEF WriteShard, Inv, JobOf, InScan
  <1>6. Batch(m)' \subseteq local'[m]
    BY <1>1, <1>3, <1>4, <1>5 DEF Batch
  <1>7. OnHub(m, l, job[m].flushed)'
    BY <1>3, <1>4, <1>5 DEF OnHub
  <1> HIDE DEF n
  <1> QED
    BY <1>1, <1>4, <1>5, <1>6, <1>7 DEF JobOf, InScan

LEMMA HubCommitStep ==
  ASSUME NEW l, OneLayout(l), Inv(l), NEW m \in Months, HubCommit(m)
  PROVE  JobOf(l, m)'
  <1>1. /\ HubKeeps(l)
        /\ \A i \in ShardIds :
              i < job[m].flushed + job[m].sent + OpsInCommit(m) => hub'[m][i] = l
    BY HubApplyKeeps DEF HubCommit
  <1>2. OpsInCommit(m) \in Nat /\ OpsInCommit(m) <= Left(m)
    BY CommitSize DEF HubCommit, Inv
  <1>3. job'[m] = [job[m] EXCEPT !.sent = @ + OpsInCommit(m)]
    BY DEF HubCommit, Inv, TypeOK
  <1>4. /\ job'[m].flushed = job[m].flushed
        /\ job'[m].next = job[m].next
        /\ job'[m].rows = job[m].rows
        /\ job'[m].stage = "uploading"
        /\ job'[m].sent = job[m].sent + OpsInCommit(m)
    BY <1>3 DEF HubCommit, Inv, TypeOK, Job
  <1>5. /\ job[m].flushed \in Nat /\ job[m].next \in Nat /\ job[m].sent \in Nat
        /\ job[m].flushed <= job[m].next
        /\ job[m].next <= ShardCount[l][m]
        /\ job[m].rows = RowsBefore[l][m][job[m].next]
        /\ OnHub(m, l, job[m].flushed)
        /\ Batch(m) \subseteq local[m]
    BY DEF HubCommit, Inv, JobOf, InScan, TypeOK, Job
  <1>6. job'[m].flushed + job'[m].sent <= job'[m].next
    BY <1>2, <1>4, <1>5 DEF Left
  <1>7. OnHub(m, l, job[m].flushed + job[m].sent)' /\ OnHub(m, l, job[m].flushed)'
    <2>1. job'[m].flushed + job'[m].sent = job[m].flushed + job[m].sent + OpsInCommit(m)
      BY <1>2, <1>4, <1>5
    <2> QED
      BY <1>1, <1>4, <1>5, <2>1 DEF OnHub, HubKeeps
  <1>8. Batch(m)' \subseteq local'[m]
    BY <1>4, <1>5 DEF HubCommit, Batch, disk
  <1> QED
    BY <1>4, <1>5, <1>6, <1>7, <1>8 DEF JobOf, InScan

LEMMA JobsStep ==
  ASSUME NEW l, OneLayout(l), Inv(l), [Next]_vars, HubKeeps(l), NEW m \in Months
  PROVE  JobOf(l, m)'
  <1> USE DEF disk, remote
  <1>1. JobOf(l, m) /\ TypeOK
    BY DEF Inv
  <1>2. ASSUME NEW k \in Months, JobStep(k) \/ HubCommitAnswerLost(k) \/ PushAnswerLost(k) \/ StageFails(k),
               k # m
        PROVE  job'[m] = job[m] /\ run' = run /\ local'[m] = local[m]
    BY <1>1, <1>2 DEF TypeOK, Move, JobStep, Download, StartProcess, WriteShard, FinishScan, StartUpload,
       HubCommit, EndUpload, SetProgress, DropBatch, ClearBatch, AppendStats, PushLedger,
       ClearProgress, Cleanup, HubCommitAnswerLost, PushAnswerLost, StageFails
  <1>3. CASE StartProcess(m)
    BY <1>3, SeedStep
  <1>4. CASE WriteShard(m)
    BY <1>4, WriteStep
  <1>5. CASE HubCommit(m)
    BY <1>5, HubCommitStep
  <1>6. CASE HubCommitAnswerLost(m)
    BY <1>1, <1>6, JobFrame DEF HubCommitAnswerLost
  <1>7. CASE FinishScan(m)
    <2>1. /\ job[m].flushed \in Nat /\ job[m].next \in Nat
          /\ job[m].next = ShardCount[l][m]
      <3>1. Active /\ Count(m) = ShardCount[l][m] /\ ShardCount[l][m] \in 0 .. MaxShards
        BY <1>1, <1>7, LayoutOfRun DEF FinishScan
      <3>2. job[m].flushed \in Nat /\ job[m].next \in Nat
        BY <1>1 DEF TypeOK, Job
      <3>3. job[m].next >= ShardCount[l][m] /\ job[m].next <= ShardCount[l][m]
        BY <1>1, <1>7, <3>1 DEF FinishScan, JobOf, InScan
      <3> QED
        BY <3>1, <3>2, <3>3, NumbersAssumption
    <2>2. Batch(m) = {} => job[m].flushed = job[m].next
      BY <1>1, <1>7, <2>1 DEF FinishScan, JobOf, InScan, Batch
    <2>3. UNCHANGED <<hub, run, local>>
      BY <1>7 DEF FinishScan
    <2>4. Batch(m)' = Batch(m)
      BY <1>1, <1>7, MoveStage DEF FinishScan, Batch
    <2>5. CASE job'[m].stage = "batch"
      BY <1>1, <1>7, <2>3, <2>4, <2>5, MoveStage DEF FinishScan, JobOf, InScan, OnHub
    <2>6. CASE job'[m].stage = "processed" /\ (run.commit => Batch(m) = {})
      BY <1>1, <1>7, <2>1, <2>2, <2>3, <2>6, MoveStage DEF FinishScan, JobOf, InScan, OnHub
    <2> QED
      BY <1>1, <1>7, <2>5, <2>6, MoveStage DEF FinishScan, AfterScan
  <1>8. CASE StartUpload(m)
    <2>1. job'[m] = [job[m] EXCEPT !.stage = "uploading", !.sent = 0]
      BY <1>1, <1>8 DEF StartUpload, TypeOK
    <2>2. /\ job'[m].stage = "uploading" /\ job'[m].sent = 0
          /\ job'[m].flushed = job[m].flushed /\ job'[m].flushed \in Nat
          /\ job'[m].next = job[m].next
          /\ job'[m].rows = job[m].rows
      BY <1>1, <2>1 DEF TypeOK, Job
    <2>3. job'[m].flushed + job'[m].sent = job[m].flushed
      BY <2>2
    <2> QED
      BY <1>1, <1>8, <2>2, <2>3 DEF StartUpload, JobOf, InScan, OnHub, Batch
  <1>9. CASE EndUpload(m)
    <2>1. job[m].flushed + job[m].sent = job[m].next
      BY <1>1, <1>9 DEF EndUpload, UploadDone, Left, TypeOK, Job
    <2>2. /\ job'[m].stage = "uploaded" /\ job'[m].flushed = job[m].flushed
          /\ job'[m].next = job[m].next /\ job'[m].rows = job[m].rows
      BY <1>1, <1>9, MoveStage DEF EndUpload
    <2>3. UNCHANGED <<hub, run, local>>
      BY <1>9 DEF EndUpload
    <2> QED
      BY <1>1, <1>9, <2>1, <2>2, <2>3 DEF EndUpload, JobOf, InScan, OnHub, Batch
  <1>10. CASE SetProgress(m)
    <2>1. /\ job'[m].stage = "recorded" /\ job'[m].flushed = job[m].flushed
          /\ job'[m].next = job[m].next /\ job'[m].rows = job[m].rows
      BY <1>1, <1>10, MoveStage DEF SetProgress
    <2>2. job[m].stage = "uploaded" /\ UNCHANGED <<hub, run, local>>
      BY <1>10 DEF SetProgress
    <2> QED
      BY <1>1, <2>1, <2>2 DEF JobOf, InScan, OnHub, Batch
  <1>11. CASE DropBatch(m)
    <2>1. job'[m] = [job[m] EXCEPT !.stage = "processing", !.flushed = job[m].next]
      BY <1>1, <1>11 DEF DropBatch, ClearBatch, TypeOK
    <2>2. /\ job'[m].stage = "processing"
          /\ job'[m].flushed = job[m].next
          /\ job'[m].next = job[m].next /\ job'[m].next \in Nat
          /\ job'[m].rows = job[m].rows
      BY <1>1, <2>1 DEF TypeOK, Job
    <2>3. Batch(m)' = {}
      BY <2>2 DEF Batch
    <2> QED
      BY <1>1, <1>11, <2>2, <2>3 DEF DropBatch, JobOf, InScan, OnHub
  <1>12. CASE \/ Download(m) \/ AppendStats(m) \/ PushLedger(m) \/ PushAnswerLost(m)
              \/ ClearProgress(m) \/ Cleanup(m) \/ StageFails(m)
    <2>1. job'[m].stage \in {"downloaded", "ledgered", "pushed", "failed", "cleared", "done"}
      BY <1>1, <1>12, MoveStage DEF Download, AppendStats, PushLedger, PushAnswerLost,
         ClearProgress, Cleanup, StageFails
    <2> QED
      BY <2>1, JobIdle DEF InScan
  <1>13. ASSUME NEW o \in Options, StartRun(o) \/ StartRunUnreadable(o)
         PROVE  JobOf(l, m)'
    <2>1. job'[m].stage \in {"queued", "idle"}
      BY <1>13 DEF StartRun, StartRunUnreadable, BeginRun, NoJob
    <2> QED
      BY <2>1, JobIdle DEF InScan
  <1>14. CASE EndRun
    <2>1. job'[m].stage = "idle"
      BY <1>14 DEF EndRun, NoJob
    <2> QED
      BY <2>1, JobIdle DEF InScan
  <1>15. CASE UNCHANGED vars
    BY <1>1, <1>15, JobFrame DEF vars
  <1>16. ASSUME NEW k \in Months,
                JobStep(k) \/ HubCommitAnswerLost(k) \/ PushAnswerLost(k) \/ StageFails(k)
         PROVE  JobOf(l, m)'
    <2>1. CASE k # m
      BY <1>1, <1>2, <1>16, <2>1, JobFrame
    <2>2. CASE k = m
      BY <1>3, <1>4, <1>5, <1>6, <1>7, <1>8, <1>9, <1>10, <1>11, <1>12, <1>16, <2>2 DEF JobStep
    <2> QED
      BY <2>1, <2>2
  <1> QED
    BY <1>13, <1>14, <1>15, <1>16 DEF Next, Return, Crash

LEMMA InvInit == ASSUME NEW l, OneLayout(l) PROVE Init => Inv(l)
  BY TypeInit DEF Init, Inv, HubOf, EntriesOf, Backed, JobOf, NoJob, InScan

LEMMA InvStep == ASSUME NEW l, OneLayout(l) PROVE Inv(l) /\ [Next]_vars => Inv(l)'
  <1> SUFFICES ASSUME Inv(l), [Next]_vars PROVE Inv(l)'
    OBVIOUS
  <1>1. TypeOK'
    BY TypeStep DEF Inv
  <1>2. HubOf(l)' /\ HubKeeps(l)
    BY HubStep
  <1>3. EntriesOf(l)'
    BY <1>2, EntriesStep
  <1>4. \A m \in Months : JobOf(l, m)'
    BY <1>2, JobsStep
  <1> QED
    BY <1>1, <1>2, <1>3, <1>4 DEF Inv

LEMMA InvHolds == ASSUME NEW l, OneLayout(l) PROVE Spec => []Inv(l)
  <1>1. Init => Inv(l)
    BY InvInit
  <1>2. Inv(l) /\ [Next]_vars => Inv(l)'
    BY InvStep
  <1> QED
    BY <1>1, <1>2, PTL DEF Spec

(* As long as every run cuts months the same way, dry runs included, what  *)
(* a resume relies on (publish.go:480) is on the hub: a crash anywhere in  *)
(* commitBatch costs a repeated upload, never a missing shard.             *)
THEOREM ProgressIsBacked ==
  ASSUME NEW l, OneLayout(l) PROVE Spec => []ProgressBacked
  <1>1. Inv(l) => ProgressBacked
    BY DEF Inv, EntriesOf, Backed, ProgressBacked, EntryBacked, OneLayout
  <1> QED
    BY <1>1, InvHolds, PTL

(* The hub client never finds a file of its batch gone (publish.go:432).   *)
THEOREM BatchesOnDisk ==
  ASSUME NEW l, OneLayout(l) PROVE Spec => []BatchOnDisk
  <1>1. Inv(l) => BatchOnDisk
    BY DEF Inv, JobOf, BatchOnDisk, InScan
  <1> QED
    BY <1>1, InvHolds, PTL

-----------------------------------------------------------------------------
(* The ledgers themselves.  A month whose job has not reached its ledger   *)
(* row has none, because the work list left out the months that had one;   *)
(* and the hub's ledger only ever holds copies of local rows.              *)
BeforeRow == {"queued", "downloaded", "processing", "batch", "uploading", "uploaded",
              "recorded", "processed"}

RowsInv ==
  \A m \in Months : /\ job[m].stage \in BeforeRow => ~ledger[m].committed
                    /\ job[m].stage \in InCommit => ledger[m].committed
                    /\ hubLedger[m].committed => hubLedger[m] = ledger[m]

LEMMA RowsInit == Init => RowsInv
  BY DEF Init, RowsInv, NoJob, NoRow, BeforeRow, InCommit

(* What a step that leaves both ledgers alone must do to the stages.       *)
LEMMA RowsFrame ==
  ASSUME TypeOK, RowsInv, UNCHANGED <<ledger, hubLedger>>,
         \A m \in Months :
            \/ job'[m].stage = job[m].stage
            \/ job'[m].stage \notin BeforeRow \cup InCommit
            \/ job[m].stage \in BeforeRow /\ job'[m].stage \in BeforeRow
            \/ job[m].stage \in InCommit /\ job'[m].stage \in InCommit
            \/ job'[m].stage \in BeforeRow /\ ~ledger[m].committed
  PROVE  RowsInv'
  BY DEF RowsInv, BeforeRow, InCommit

LEMMA RowsStep ==
  ASSUME TypeOK, RowsInv, [Next]_vars
  PROVE  /\ RowsInv'
         /\ \A m \in Months : /\ ledger[m].committed => ledger'[m] = ledger[m]
                              /\ hubLedger[m].committed => hubLedger'[m] = hubLedger[m]
  <1> USE DEF disk, remote
  <1> DEFINE Kept == \A m \in Months :
                /\ ledger[m].committed => ledger'[m] = ledger[m]
                /\ hubLedger[m].committed => hubLedger'[m] = hubLedger[m]
  <1>1. ASSUME NEW k \in Months, AppendStats(k) PROVE RowsInv' /\ Kept
    <2>1. /\ job'[k].stage = "ledgered"
          /\ \A m \in Months \ {k} : job'[m] = job[m]
      BY <1>1, MoveStage DEF AppendStats
    <2>2. /\ ledger'[k].committed
          /\ \A m \in Months \ {k} : ledger'[m] = ledger[m]
          /\ UNCHANGED hubLedger
      BY <1>1 DEF AppendStats, MergeRow, FinalRow, TypeOK
    <2>3. ~ledger[k].committed /\ ~hubLedger[k].committed
      BY <1>1 DEF AppendStats, RowsInv, BeforeRow
    <2> QED
      BY <2>1, <2>2, <2>3 DEF RowsInv, BeforeRow, InCommit
  <1>2. ASSUME NEW k \in Months, PushLedger(k) \/ PushAnswerLost(k) PROVE RowsInv' /\ Kept
    <2>1. /\ job'[k].stage \in {"pushed", "failed"}
          /\ \A m \in Months \ {k} : job'[m] = job[m]
      BY <1>2, MoveStage DEF PushLedger, PushAnswerLost
    <2>2. UNCHANGED ledger /\ (hubLedger' = ledger \/ hubLedger' = hubLedger)
      BY <1>2 DEF PushLedger, PushAnswerLost
    <2>3. ledger[k].committed
      BY <1>2 DEF PushLedger, PushAnswerLost, RowsInv, InCommit
    <2> QED
      BY <2>1, <2>2, <2>3 DEF RowsInv, BeforeRow, InCommit
  <1>3. ASSUME NEW o \in Options, StartRun(o) \/ StartRunUnreadable(o) PROVE RowsInv' /\ Kept
    <2>1. \A m \in Months : job'[m].stage = "idle" \/ (job'[m].stage = "queued" /\ ~ledger[m].committed)
      <3> TAKE m \in Months
      <3>1. job'[m] = IF m \in WorkList(o) THEN [NoJob EXCEPT !.stage = "queued"] ELSE NoJob
        BY <1>3 DEF StartRun, StartRunUnreadable, BeginRun
      <3>2. m \in WorkList(o) => ~ledger[m].committed
        BY DEF WorkList, CommittedSet
      <3>3. CASE m \in WorkList(o)
        <4>1. job'[m] = [NoJob EXCEPT !.stage = "queued"]
          BY <3>1, <3>3
        <4>2. job'[m].stage = "queued"
          BY <4>1 DEF NoJob
        <4> QED
          BY <3>2, <3>3, <4>2
      <3>4. CASE m \notin WorkList(o)
        BY <3>1, <3>4 DEF NoJob
      <3> QED
        BY <3>3, <3>4
    <2>2. UNCHANGED <<ledger, hubLedger>>
      BY <1>3 DEF StartRun, StartRunUnreadable, BeginRun
    <2> QED
      BY <2>1, <2>2, RowsFrame DEF BeforeRow, InCommit
  <1>4. CASE EndRun
    <2>1. \A m \in Months : job'[m].stage = "idle"
      BY <1>4 DEF EndRun, NoJob
    <2> QED
      BY <1>4, <2>1, RowsFrame DEF EndRun, BeforeRow, InCommit
  <1>5. ASSUME NEW k \in Months,
               \/ Download(k) \/ FinishScan(k) \/ EndUpload(k) \/ SetProgress(k)
               \/ ClearProgress(k) \/ Cleanup(k) \/ StageFails(k)
        PROVE  RowsInv' /\ Kept
    <2>1. \A m \in Months \ {k} : job'[m] = job[m]
      BY <1>5, MoveStage DEF Download, FinishScan, EndUpload, SetProgress, ClearProgress,
         Cleanup, StageFails
    <2>2. \/ job[k].stage \in BeforeRow /\ job'[k].stage \in BeforeRow
          \/ job[k].stage \in InCommit /\ job'[k].stage \in InCommit
          \/ job'[k].stage \notin BeforeRow \cup InCommit
      <3>1. CASE ClearProgress(k)
        BY <1>5, <3>1, MoveStage DEF ClearProgress, BeforeRow, InCommit
      <3>2. CASE Cleanup(k) \/ StageFails(k)
        <4>1. job'[k].stage = "done" \/ job'[k].stage = "failed"
          BY <3>2, MoveStage DEF Cleanup, StageFails
        <4> QED
          BY <4>1 DEF BeforeRow, InCommit
      <3>3. CASE Download(k) \/ FinishScan(k) \/ EndUpload(k) \/ SetProgress(k)
        BY <1>5, <3>3, MoveStage
           DEF Download, FinishScan, AfterScan, EndUpload, SetProgress, BeforeRow, InCommit
      <3> QED
        BY <1>5, <3>1, <3>2, <3>3
    <2>3. UNCHANGED <<ledger, hubLedger>>
      BY <1>5 DEF Download, FinishScan, EndUpload, SetProgress, ClearProgress, Cleanup, StageFails
    <2> QED
      BY <2>1, <2>2, <2>3, RowsFrame
  <1>6. ASSUME NEW k \in Months,
               \/ StartProcess(k) \/ WriteShard(k) \/ StartUpload(k) \/ HubCommit(k)
               \/ DropBatch(k) \/ HubCommitAnswerLost(k)
        PROVE  RowsInv' /\ Kept
    <2>1. \A m \in Months : \/ job'[m].stage = job[m].stage
                            \/ job[m].stage \in BeforeRow /\ job'[m].stage \in BeforeRow
      <3>1. CASE StartProcess(k)
        BY <3>1 DEF StartProcess, TypeOK, BeforeRow
      <3>2. CASE WriteShard(k)
        <4>1. \A m \in Months : m # k => job'[m] = job[m]
          BY <3>2 DEF WriteShard, TypeOK
        <4>2. job'[k].stage \in {"batch", "processing"} /\ job[k].stage = "processing"
          BY <3>2 DEF WriteShard, TypeOK, Job
        <4> QED
          BY <4>1, <4>2 DEF BeforeRow
      <3>3. CASE StartUpload(k)
        BY <3>3 DEF StartUpload, TypeOK, Job, BeforeRow
      <3>4. CASE HubCommit(k)
        BY <3>4 DEF HubCommit, TypeOK, Job
      <3>5. CASE DropBatch(k)
        BY <3>5 DEF DropBatch, ClearBatch, TypeOK, Job, BeforeRow
      <3>6. CASE HubCommitAnswerLost(k)
        BY <3>6 DEF HubCommitAnswerLost
      <3> QED
        BY <1>6, <3>1, <3>2, <3>3, <3>4, <3>5, <3>6
    <2>2. UNCHANGED <<ledger, hubLedger>>
      BY <1>6 DEF StartProcess, WriteShard, StartUpload, HubCommit, DropBatch, HubCommitAnswerLost
    <2> QED
      BY <2>1, <2>2, RowsFrame
  <1>7. CASE UNCHANGED vars
    BY <1>7, RowsFrame DEF vars
  <1> QED
    BY <1>1, <1>2, <1>3, <1>4, <1>5, <1>6, <1>7 DEF Next, JobStep, Return, Crash

(* Once a month has a ledger row, local or on the hub, the row stays as it *)
(* is through every failure and restart (stats.go:136): a month is         *)
(* published once.                                                         *)
THEOREM RowsAreKept == Spec => LedgerKeepsRows
  <1>1. TypeOK /\ RowsInv /\ [Next]_vars =>
           [\A m \in Months :
              /\ ledger[m].committed => ledger'[m] = ledger[m]
              /\ hubLedger[m].committed => hubLedger'[m] = hubLedger[m]]_vars
    BY RowsStep
  <1>2. TypeOK /\ RowsInv /\ [Next]_vars => RowsInv'
    BY RowsStep
  <1> QED
    BY <1>1, <1>2, TypeCorrect, RowsInit, PTL DEF Spec, LedgerKeepsRows

-----------------------------------------------------------------------------
(* When no run is a dry run, a row is only appended by a job whose shards  *)
(* are all on the hub, and local data only goes after it.                  *)
CommitOnly == \A o \in Options : o.commit

RowOf(l, m, row) ==
  row.committed => /\ row.shards = ShardCount[l][m]
                   /\ row.rows = RowsBefore[l][m][row.shards]
                   /\ OnHub(m, l, row.shards)

LedgersOf(l) ==
  \A m \in Months : /\ RowOf(l, m, ledger[m])
                    /\ RowOf(l, m, hubLedger[m])
                    /\ \A n \in local[m] : n < ShardCount[l][m]

LEMMA LedgersStep ==
  ASSUME NEW l, OneLayout(l), CommitOnly, Inv(l), LedgersOf(l), HubKeeps(l), [Next]_vars
  PROVE  LedgersOf(l)'
  <1> USE DEF disk, remote
  <1> DEFINE LocalOf(f) == \A m \in Months : \A n \in f[m] : n < ShardCount[l][m]
  <1>1. ASSUME UNCHANGED <<ledger, hubLedger>> \/ (UNCHANGED ledger /\ hubLedger' = ledger),
               LocalOf(local')
        PROVE  LedgersOf(l)'
    BY <1>1 DEF LedgersOf, RowOf, OnHub, HubKeeps
  <1>2. LocalOf(local)
    BY DEF LedgersOf
  <1>3. ASSUME NEW k \in Months, AppendStats(k) PROVE LedgersOf(l)'
    <2>1. run.commit /\ job[k].stage = "processed"
      BY <1>3 DEF AppendStats, CommitOnly, Inv, TypeOK
    <2>2. RowOf(l, k, FinalRow(k))
      BY <2>1 DEF RowOf, FinalRow, Inv, JobOf
    <2>3. \A m \in Months : ledger'[m] = IF m = k THEN FinalRow(k) ELSE ledger[m]
      BY <1>3 DEF AppendStats, MergeRow, Inv, TypeOK
    <2>4. UNCHANGED <<hub, hubLedger, local>>
      BY <1>3 DEF AppendStats
    <2>5. ASSUME NEW m \in Months PROVE RowOf(l, m, ledger[m])'
      BY <2>2, <2>3, <2>4 DEF LedgersOf, RowOf, OnHub
    <2> QED
      BY <2>4, <2>5 DEF LedgersOf, RowOf, OnHub
  <1>4. ASSUME NEW k \in Months, WriteShard(k) PROVE LedgersOf(l)'
    <2>1. job[k].next < ShardCount[l][k]
      BY <1>4, LayoutOfRun DEF WriteShard, Inv
    <2>2. \A m \in Months : local'[m] = IF m = k THEN local[k] \cup {job[k].next} ELSE local[m]
      BY <1>4 DEF WriteShard, Inv, TypeOK
    <2>3. LocalOf(local')
      BY <1>2, <2>1, <2>2
    <2> QED
      BY <1>1, <1>4, <2>3 DEF WriteShard
  <1>5. ASSUME NEW k \in Months, DropBatch(k) \/ Cleanup(k) PROVE LedgersOf(l)'
    <2>1. \A m \in Months : local'[m] \subseteq local[m]
      BY <1>5 DEF DropBatch, Cleanup, Inv, TypeOK
    <2> QED
      BY <1>1, <1>2, <1>5, <2>1 DEF DropBatch, Cleanup
  <1>6. ASSUME NEW k \in Months, PushLedger(k) \/ PushAnswerLost(k) PROVE LedgersOf(l)'
    <2>1. UNCHANGED local
      BY <1>6 DEF PushLedger, PushAnswerLost
    <2>2. UNCHANGED <<ledger, hubLedger>> \/ (UNCHANGED ledger /\ hubLedger' = ledger)
      BY <1>6 DEF PushLedger, PushAnswerLost
    <2> QED
      BY <1>1, <1>2, <2>1, <2>2
  <1>7. CASE UNCHANGED <<ledger, hubLedger, local>>
    BY <1>1, <1>2, <1>7
  <1> QED
    BY <1>3, <1>4, <1>5, <1>6, <1>7 DEF Next, JobStep, vars, StartRun, StartRunUnreadable,
       BeginRun, Download, StartProcess, FinishScan, StartUpload, HubCommit,
       HubCommitAnswerLost, EndUpload, SetProgress, ClearProgress, StageFails, Return, Crash,
       EndRun

LEMMA LedgersHold ==
  ASSUME NEW l, OneLayout(l), CommitOnly PROVE Spec => [](Inv(l) /\ RowsInv /\ LedgersOf(l))
  <1>1. Init => LedgersOf(l)
    BY DEF Init, LedgersOf, RowOf, NoRow
  <1>2. Inv(l) /\ LedgersOf(l) /\ [Next]_vars => LedgersOf(l)'
    BY LedgersStep, HubStep
  <1>3. Inv(l) /\ RowsInv /\ [Next]_vars => RowsInv'
    BY RowsStep DEF Inv
  <1> QED
    BY <1>1, <1>2, <1>3, RowsInit, InvHolds, PTL DEF Spec

(* Committing runs of one layout: a month in stats.csv, here or on the     *)
(* hub, is on the hub shard for shard and row for row, through any number  *)
(* of failed uploads, lost answers, crashes and resumes (stats.go:161).    *)
THEOREM LedgerIsTrue ==
  ASSUME NEW l, OneLayout(l), CommitOnly PROVE Spec => []LedgerTrue
  <1>1. Inv(l) /\ LedgersOf(l) => LedgerTrue
    BY DEF LedgersOf, RowOf, LedgerTrue, RowTrue, OneLayout
  <1> QED
    BY <1>1, LedgersHold, PTL

(* A committing publish never deletes a .zst or a shard file the hub does  *)
(* not have (publish.go:446, 566).                                         *)
THEOREM DropsArePublished ==
  ASSUME NEW l, OneLayout(l), CommitOnly PROVE Spec => DropsOnlyPublished
  <1> DEFINE Drops == \A m \in Months : /\ m \in zst \ zst' => MonthOnHub(m)
                                        /\ \A n \in local[m] \ local'[m] : hub[m][n] # Absent
  <1>1. Inv(l) /\ RowsInv /\ LedgersOf(l) /\ [Next]_vars => [Drops]_vars
    <2> SUFFICES ASSUME Inv(l), RowsInv, LedgersOf(l), Next PROVE Drops
      OBVIOUS
    <2> USE DEF disk, remote
    <2>0. /\ Absent \notin Layouts /\ l \in Layouts
          /\ \A m \in Months : /\ ShardCount[l][m] \in 0 .. MaxShards
                               /\ local[m] \subseteq ShardIds
      BY LayoutsAssumption DEF OneLayout, Inv, TypeOK
    <2>1. ASSUME NEW k \in Months, DropBatch(k) PROVE Drops
      <3>1. \A m \in Months : local[m] \ local'[m] \subseteq IF m = k THEN Batch(k) ELSE {}
        BY <2>1 DEF DropBatch, Inv, TypeOK
      <3>2. UNCHANGED zst
        BY <2>1 DEF DropBatch
      <3>3. OnHub(k, l, job[k].next) /\ job[k].next \in Nat /\ job[k].flushed \in Nat
        BY <2>1 DEF DropBatch, Inv, JobOf, TypeOK, Job
      <3>4. ASSUME NEW n \in local[k], n \in Batch(k) PROVE hub[k][n] # Absent
        BY <2>0, <3>3, <3>4 DEF OnHub, Batch
      <3> QED
        BY <3>1, <3>2, <3>4
    <2>2. ASSUME NEW k \in Months, Cleanup(k) PROVE Drops
      <3>1. ledger[k].committed
        BY <2>2 DEF Cleanup, RowsInv, InCommit
      <3>2. OnHub(k, l, ShardCount[l][k])
        BY <3>1 DEF LedgersOf, RowOf
      <3>3. MonthOnHub(k)
        BY <2>0, <3>2 DEF MonthOnHub
      <3>4. \A n \in local[k] : hub[k][n] # Absent
        BY <2>0, <3>2 DEF LedgersOf, OnHub
      <3>5. \A m \in Months : m # k => local'[m] = local[m]
        BY <2>2 DEF Cleanup, Inv, TypeOK
      <3>6. zst \ zst' \subseteq {k}
        BY <2>2 DEF Cleanup
      <3> QED
        BY <3>3, <3>4, <3>5, <3>6
    <2>3. CASE UNCHANGED <<zst, local>>
      BY <2>3
    <2>4. ASSUME NEW k \in Months, WriteShard(k) \/ Download(k) PROVE Drops
      BY <2>4 DEF WriteShard, Download, Inv, TypeOK
    <2> QED
      BY <2>1, <2>2, <2>3, <2>4 DEF Next, JobStep, StartRun, StartRunUnreadable, BeginRun,
         StartProcess, FinishScan, StartUpload, HubCommit, HubCommitAnswerLost, EndUpload,
         SetProgress, AppendStats, PushLedger, PushAnswerLost, ClearProgress, StageFails,
         Return, Crash, EndRun
  <1> QED
    BY <1>1, LedgersHold, PTL DEF Spec, DropsOnlyPublished
=============================================================================
