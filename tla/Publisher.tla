----------------------------- MODULE Publisher -----------------------------
(***************************************************************************)
(* What a publish leaves behind (src/arctic/publish.go, progress.go,       *)
(* stats.go): a month goes through download, process, batched hub commits, *)
(* ledger row, README push and cleanup, and a run can end between any two  *)
(* of these steps.  The next run starts from what is durable: the files on *)
(* disk, the two local ledgers and the dataset on the hub.                 *)
(*                                                                         *)
(* Several months are in flight at once.  Which worker carries which month *)
(* is the subject of Pipeline.tla; here every interleaving of the months'  *)
(* steps is allowed, except what the publisher's mutexes exclude.          *)
(***************************************************************************)
EXTENDS Naturals, FiniteSets

CONSTANTS
    Months,       \* the (month, type) pairs: the keys of both ledgers
    Layouts,      \* ways to cut a month into shards: an engine and a ChunkLines
    EngineOf,     \* the engine of each layout
    ShardCount,   \* ShardCount[l][m]: shards of month m under layout l
    RowsBefore,   \* RowsBefore[l][m][n]: rows in the first n of those shards
    MaxShards,    \* no month has more shards than this
    Options,      \* what a run may be started with: [commit, keep, layout, want]
    CommitEvery,  \* cfg.CommitEveryShards; 0 commits a month's shards all at once
    HubBatch,     \* files the hub client puts in one hub commit
    MaxFaults,    \* bound on failures and crashes in a behaviour
    NoRun, Absent, NoEngine, Free

ShardIds == 0 .. MaxShards - 1

ASSUME RunsAssumption ==
    /\ NoRun \notin Options
    /\ \A o \in Options : /\ o.commit \in BOOLEAN
                          /\ o.keep \in BOOLEAN
                          /\ o.layout \in Layouts
                          /\ o.want \subseteq Months

ASSUME LayoutsAssumption ==
    /\ Absent \notin Layouts
    /\ \A l \in Layouts :
        /\ EngineOf[l] # NoEngine
        /\ \A m \in Months :
            /\ ShardCount[l][m] \in 0 .. MaxShards
            /\ RowsBefore[l][m][0] = 0
            /\ \A n \in 0 .. MaxShards : RowsBefore[l][m][n] \in Nat
            /\ \A n \in 0 .. MaxShards - 1 : RowsBefore[l][m][n] <= RowsBefore[l][m][n + 1]

ASSUME NumbersAssumption ==
    /\ MaxShards \in Nat
    /\ CommitEvery \in Nat
    /\ HubBatch \in Nat \ {0}
    /\ MaxFaults \in Nat
    /\ Free \notin Months

VARIABLES
    zst,        \* months whose .zst is on disk
    local,      \* local[m]: indices of the shard files in the staging directory
    ledger,     \* stats.csv on disk, one row per month
    progress,   \* publish-progress.json on disk
    hub,        \* hub[m][n]: layout of the file at data/<type>/YYYY/MM/<n>.parquet
    hubLedger,  \* stats.csv on the hub
    run,        \* the options of the run in progress, or NoRun
    mem,        \* publisher.progress, the in-memory copy of the progress ledger
    job,        \* the publishJob of each month, with where its worker stands
    commitMu,   \* the month whose commit holds publisher.commitMu, or Free
    faults      \* failures and crashes so far

disk == <<zst, local, ledger, progress>>
remote == <<hub, hubLedger>>
vars == <<zst, local, ledger, progress, hub, hubLedger, run, mem, job, commitMu, faults>>

-----------------------------------------------------------------------------
(* Ledger rows and progress entries.  The Go zero values stand for what is *)
(* missing: a row without a CommittedAt, an entry whose engine is empty.   *)

Row == [committed : BOOLEAN, shards : Nat, rows : Nat]
NoRow == [committed |-> FALSE, shards |-> 0, rows |-> 0]

Entry == [engine : {EngineOf[l] : l \in Layouts} \cup {NoEngine}, shards : Nat, rows : Nat]
NoEntry == [engine |-> NoEngine, shards |-> 0, rows |-> 0]

Stages == {"idle", "queued", "downloaded", "processing", "batch", "uploading",
           "uploaded", "recorded", "processed", "ledgered", "pushed", "cleared",
           "done", "failed"}
Finished == {"idle", "done", "failed"}
InCommit == {"ledgered", "pushed", "cleared"}

(* flushed: first shard not yet in a committed batch; next: the index the  *)
(* next shard gets (job.result.Shards); rows: job.result.Records; sent:    *)
(* files of the current batch already committed by the hub client.         *)
Job == [stage : Stages, flushed : Nat, next : Nat, rows : Nat, sent : Nat]
NoJob == [stage |-> "idle", flushed |-> 0, next |-> 0, rows |-> 0, sent |-> 0]

CommittedSet == {m \in Months : ledger[m].committed}

Batch(m) == job[m].flushed .. job[m].next - 1
Count(m) == ShardCount[run.layout][m]
Before(m, n) == RowsBefore[run.layout][m][n]
Active == run # NoRun

Move(m, stage) == job' = [job EXCEPT ![m].stage = stage]
Fault == faults < MaxFaults /\ faults' = faults + 1

-----------------------------------------------------------------------------
Init ==
    /\ zst = {}
    /\ local = [m \in Months |-> {}]
    /\ ledger = [m \in Months |-> NoRow]
    /\ progress = [m \in Months |-> NoEntry]
    /\ hub = [m \in Months |-> [n \in ShardIds |-> Absent]]
    /\ hubLedger = [m \in Months |-> NoRow]
    /\ run = NoRun
    /\ mem = [m \in Months |-> NoEntry]
    /\ job = [m \in Months |-> NoJob]
    /\ commitMu = Free
    /\ faults = 0

(* Publish: read the stats ledger, queue every wanted month without a      *)
(* committed row, load the progress ledger (an unreadable one counts as    *)
(* empty).                                                                 *)
WorkList(o) == o.want \ CommittedSet

BeginRun(o) ==
    /\ ~Active
    /\ WorkList(o) # {}
    /\ run' = o
    /\ job' = [m \in Months |->
                  IF m \in WorkList(o) THEN [NoJob EXCEPT !.stage = "queued"] ELSE NoJob]
    /\ UNCHANGED <<disk, remote, commitMu>>

StartRun(o) == BeginRun(o) /\ mem' = progress /\ UNCHANGED faults

StartRunUnreadable(o) ==
    BeginRun(o) /\ mem' = [m \in Months |-> NoEntry] /\ Fault

-----------------------------------------------------------------------------
(* download *)
Download(m) ==
    /\ Active /\ job[m].stage = "queued"
    /\ zst' = zst \cup {m}
    /\ Move(m, "downloaded")
    /\ UNCHANGED <<local, ledger, progress, remote, run, mem, commitMu, faults>>

(* process: seed the job from the month's progress entry, when the entry   *)
(* was written by the engine of this run (resumeSeed).                     *)
ResumeSeed(m) ==
    IF mem[m].engine = EngineOf[run.layout] THEN mem[m] ELSE NoEntry

StartProcess(m) ==
    /\ Active /\ job[m].stage = "downloaded"
    /\ LET seed == ResumeSeed(m)
       IN  job' = [job EXCEPT ![m] =
              [stage |-> "processing", flushed |-> seed.shards, next |-> seed.shards,
               rows |-> seed.rows, sent |-> 0]]
    /\ UNCHANGED <<disk, remote, run, mem, commitMu, faults>>

RowsOfShardSwapped(m, n) == Before(m, n) - Before(m, n + 1)

RowsOfShard(m, n) == Before(m, n + 1) - Before(m, n)

BatchFull(m, n) == run.commit /\ CommitEvery > 0 /\ n - job[m].flushed >= CommitEvery

(* One shard is written under its final name, then onShard counts it and,  *)
(* in a committing run, adds it to the batch; a full batch is committed    *)
(* before the scan goes on.                                                *)
WriteShard(m) ==
    /\ Active /\ job[m].stage = "processing"
    /\ job[m].next < Count(m)
    /\ local' = [local EXCEPT ![m] = @ \cup {job[m].next}]
    /\ job' = [job EXCEPT
          ![m].next = @ + 1,
          ![m].rows = @ + RowsOfShard(m, job[m].next),
          ![m].stage = IF BatchFull(m, job[m].next + 1) THEN "batch" ELSE "processing"]
    /\ UNCHANGED <<zst, ledger, progress, remote, run, mem, commitMu, faults>>

(* The scan is over: the trailing shards form a last batch, unless there   *)
(* are none; a dry run has no batches.                                     *)
AfterScanNoFlush(m) == "processed"

AfterScan(m) == IF run.commit /\ Batch(m) # {} THEN "batch" ELSE "processed"

FinishScan(m) ==
    /\ Active /\ job[m].stage = "processing"
    /\ job[m].next >= Count(m)
    /\ Move(m, AfterScan(m))
    /\ UNCHANGED <<disk, remote, run, mem, commitMu, faults>>

-----------------------------------------------------------------------------
(* commitBatch: upload under commitMu, record the progress, drop the local *)
(* copies, in that order.  The hub applies each hub commit atomically, but *)
(* a batch of shards can take several of them.                             *)
StartUpload(m) ==
    /\ Active /\ job[m].stage = "batch" /\ commitMu = Free
    /\ commitMu' = m
    /\ job' = [job EXCEPT ![m].stage = "uploading", ![m].sent = 0]
    /\ UNCHANGED <<disk, remote, run, mem, faults>>

Left(m) == job[m].next - (job[m].flushed + job[m].sent)
OpsInCommit(m) == IF Left(m) < HubBatch THEN Left(m) ELSE HubBatch

HubApply(m) ==
    LET first == job[m].flushed + job[m].sent
    IN  hub' = [hub EXCEPT ![m] = [n \in ShardIds |->
                   IF n \in first .. first + OpsInCommit(m) - 1 THEN run.layout ELSE hub[m][n]]]

HubCommit(m) ==
    /\ Active /\ job[m].stage = "uploading" /\ Left(m) > 0
    /\ HubApply(m)
    /\ job' = [job EXCEPT ![m].sent = @ + OpsInCommit(m)]
    /\ UNCHANGED <<disk, hubLedger, run, mem, commitMu, faults>>

(* The hub applied the commit and the answer was lost: the client counts   *)
(* nothing and commits the same files again, or gives up.                  *)
HubCommitAnswerLost(m) ==
    /\ Active /\ job[m].stage = "uploading" /\ Left(m) > 0
    /\ HubApply(m)
    /\ Fault
    /\ UNCHANGED <<disk, hubLedger, run, mem, job, commitMu>>

FirstCommitDone(m) == job[m].sent > 0

UploadDone(m) == Left(m) = 0

EndUpload(m) ==
    /\ Active /\ job[m].stage = "uploading" /\ UploadDone(m)
    /\ commitMu' = Free
    /\ Move(m, "uploaded")
    /\ UNCHANGED <<disk, remote, run, mem, faults>>

(* setProgress: the entry of this month changes in memory, and the whole   *)
(* map is written out; a failed write only logs a warning.                 *)
SetEntry(m) ==
    mem' = [mem EXCEPT ![m] = [engine |-> EngineOf[run.layout],
                               shards |-> job[m].next, rows |-> job[m].rows]]

SetProgress(m) ==
    /\ Active /\ job[m].stage = "uploaded"
    /\ SetEntry(m)
    /\ \/ progress' = mem' /\ UNCHANGED faults
       \/ UNCHANGED progress /\ Fault
    /\ Move(m, "recorded")
    /\ UNCHANGED <<zst, local, ledger, remote, run, commitMu>>

KeepBatch(m) == [job EXCEPT ![m].stage = "processing"]

ClearBatch(m) == [job EXCEPT ![m].stage = "processing", ![m].flushed = job[m].next]

DropBatch(m) ==
    /\ Active /\ job[m].stage = "recorded"
    /\ local' = IF run.keep THEN local ELSE [local EXCEPT ![m] = @ \ Batch(m)]
    /\ job' = ClearBatch(m)
    /\ UNCHANGED <<zst, ledger, progress, remote, run, mem, commitMu, faults>>

-----------------------------------------------------------------------------
(* commit: one month at a time (statsMu, and a single commit worker).      *)
FinalRow(m) == [committed |-> TRUE, shards |-> job[m].next, rows |-> job[m].rows]

OnlyRow(m) == [[k \in Months |-> NoRow] EXCEPT ![m] = FinalRow(m)]

MergeRow(m) == [ledger EXCEPT ![m] = FinalRow(m)]

AppendStats(m) ==
    /\ Active /\ job[m].stage = "processed"
    /\ \A k \in Months : job[k].stage \notin InCommit
    /\ ledger' = MergeRow(m)
    /\ Move(m, "ledgered")
    /\ UNCHANGED <<zst, local, progress, remote, run, mem, commitMu, faults>>

(* stats.csv and README.md go to the hub in one commit of two files; the   *)
(* hub gets the local file as it is now.  A dry run only wrote the files.  *)
PushLedger(m) ==
    /\ Active /\ job[m].stage = "ledgered"
    /\ IF run.commit
       THEN commitMu = Free /\ hubLedger' = ledger
       ELSE UNCHANGED hubLedger
    /\ Move(m, "pushed")
    /\ UNCHANGED <<disk, hub, run, mem, commitMu, faults>>

PushAnswerLost(m) ==
    /\ Active /\ job[m].stage = "ledgered" /\ run.commit /\ commitMu = Free
    /\ hubLedger' = ledger
    /\ Move(m, "failed")
    /\ Fault
    /\ UNCHANGED <<disk, hub, run, mem, commitMu>>

ClearEntry(m) == mem' = [mem EXCEPT ![m] = NoEntry]

ClearProgress(m) ==
    /\ Active /\ job[m].stage = "pushed"
    /\ ClearEntry(m)
    /\ \/ progress' = (IF mem[m] = NoEntry THEN progress ELSE mem') /\ UNCHANGED faults
       \/ mem[m] # NoEntry /\ UNCHANGED progress /\ Fault
    /\ Move(m, "cleared")
    /\ UNCHANGED <<zst, local, ledger, remote, run, commitMu>>

Cleanup(m) ==
    /\ Active /\ job[m].stage = "cleared"
    /\ IF run.keep
       THEN UNCHANGED <<zst, local>>
       ELSE zst' = zst \ {m} /\ local' = [local EXCEPT ![m] = {}]
    /\ Move(m, "done")
    /\ UNCHANGED <<ledger, progress, remote, run, mem, commitMu, faults>>

-----------------------------------------------------------------------------
(* A stage returns an error: the month is skipped for the rest of the run. *)
(* Every stage that calls out can fail; what it did before stays done.     *)
KeepMu(m) == commitMu

ReleaseMu(m) == IF commitMu = m THEN Free ELSE commitMu

CanFail == {"queued", "downloaded", "processing", "uploading", "processed", "ledgered"}

StageFails(m) ==
    /\ Active /\ job[m].stage \in CanFail
    /\ Fault
    /\ Move(m, "failed")
    /\ commitMu' = ReleaseMu(m)
    /\ UNCHANGED <<disk, remote, run, mem>>

EndRun ==
    /\ run' = NoRun
    /\ job' = [m \in Months |-> NoJob]
    /\ mem' = [m \in Months |-> NoEntry]
    /\ commitMu' = Free
    /\ UNCHANGED <<disk, remote>>

Return == Active /\ (\A m \in Months : job[m].stage \in Finished) /\ EndRun /\ UNCHANGED faults

(* The process dies, is killed, or is cancelled by the user, the watchdog  *)
(* or a fatal error, anywhere.                                             *)
Crash == Active /\ EndRun /\ Fault

JobStep(m) ==
    \/ Download(m) \/ StartProcess(m) \/ WriteShard(m) \/ FinishScan(m)
    \/ StartUpload(m) \/ HubCommit(m) \/ EndUpload(m) \/ SetProgress(m) \/ DropBatch(m)
    \/ AppendStats(m) \/ PushLedger(m) \/ ClearProgress(m) \/ Cleanup(m)

Next ==
    \/ \E o \in Options : StartRun(o) \/ StartRunUnreadable(o)
    \/ \E m \in Months : JobStep(m)
    \/ \E m \in Months : HubCommitAnswerLost(m) \/ PushAnswerLost(m) \/ StageFails(m)
    \/ Return
    \/ Crash

Spec == Init /\ [][Next]_vars

(* The workers of a run keep taking steps (goroutines are scheduled, and    *)
(* every call they make has a timeout or the watchdog behind it).  Nobody  *)
(* owes a new run: the guide's loop starts one after exit code 75 only     *)
(* (docs/content/guides/publishing.md:71).  Nor is a fault ever owed.      *)
Fairness == WF_vars(Return \/ \E m \in Months : JobStep(m))

FairSpec == Spec /\ Fairness

-----------------------------------------------------------------------------
TypeOK ==
    /\ zst \subseteq Months
    /\ local \in [Months -> SUBSET ShardIds]
    /\ ledger \in [Months -> Row]
    /\ progress \in [Months -> Entry]
    /\ hub \in [Months -> [ShardIds -> Layouts \cup {Absent}]]
    /\ hubLedger \in [Months -> Row]
    /\ run \in Options \cup {NoRun}
    /\ mem \in [Months -> Entry]
    /\ job \in [Months -> Job]
    /\ commitMu \in Months \cup {Free}
    /\ faults \in 0 .. MaxFaults

(* The first n shards of m are on the hub, all cut by layout l.            *)
OnHub(m, l, n) == \A i \in ShardIds : i < n => hub[m][i] = l

(* A ledger row is true: the whole month is on the hub, cut one way, and   *)
(* the row counts its shards and rows.  CommittedSet relies on it to skip  *)
(* the month forever (stats.go:161).                                       *)
RowTrue(m, row) ==
    \E l \in Layouts : /\ row.shards = ShardCount[l][m]
                       /\ row.rows = RowsBefore[l][m][row.shards]
                       /\ OnHub(m, l, row.shards)

LedgerTrue ==
    \A m \in Months : /\ ledger[m].committed => RowTrue(m, ledger[m])
                      /\ hubLedger[m].committed => RowTrue(m, hubLedger[m])

(* What the next run will resume from (publish.go:480) is backed by the    *)
(* hub: the shards an entry counts are there, cut by the entry's engine,   *)
(* and its rows are theirs.                                                *)
EntryBacked(m, e) ==
    e # NoEntry => \E l \in Layouts : /\ EngineOf[l] = e.engine
                                      /\ e.shards <= ShardCount[l][m]
                                      /\ e.rows = RowsBefore[l][m][e.shards]
                                      /\ OnHub(m, l, e.shards)

ProgressBacked == \A m \in Months : EntryBacked(m, progress[m]) /\ EntryBacked(m, mem[m])

(* The hub client opens the batch's files only when it gets to them, after *)
(* waiting for commitMu: nobody has removed them by then (publish.go:432). *)
BatchOnDisk ==
    \A m \in Months : job[m].stage \in {"batch", "uploading"} => Batch(m) \subseteq local[m]

(* Local data goes only once the hub has it: the .zst when every shard of  *)
(* the month is on the hub, a shard file when that shard is.               *)
MonthOnHub(m) == \E l \in Layouts : OnHub(m, l, ShardCount[l][m])

DropsOnlyPublished ==
    [][\A m \in Months :
          /\ m \in zst \ zst' => MonthOnHub(m)
          /\ \A n \in local[m] \ local'[m] : hub[m][n] # Absent]_vars

(* A ledger row, local or on the hub, is never lost or rewritten.          *)
LedgerKeepsRows ==
    [][\A m \in Months :
          /\ ledger[m].committed => ledger'[m] = ledger[m]
          /\ hubLedger[m].committed => hubLedger'[m] = hubLedger[m]]_vars

(* Whatever earlier runs and faults left on disk and on the hub, a         *)
(* committing run that meets no further fault publishes every month that   *)
(* it was started for and has not skipped.                                 *)
Published(m) == ledger[m].committed /\ MonthOnHub(m)

Pending(m) == Active /\ run.commit /\ job[m].stage \notin {"idle", "failed"}

CleanRunPublishes ==
    \A m \in Months, f \in 0 .. MaxFaults :
        (Pending(m) /\ faults = f) ~> (Published(m) \/ faults > f)
=============================================================================
