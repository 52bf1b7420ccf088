------------------------------ MODULE Pipeline ------------------------------
(***************************************************************************)
(* How a publish schedules its months (src/arctic/publish.go): the feeder, *)
(* the download, process and commit workers and the channels between them  *)
(* (runPipeline), or one worker that takes each month through all stages   *)
(* (runSequential); the decoder gate and the commit mutex they contend     *)
(* for; the watchdog; and what the run returns.                            *)
(*                                                                         *)
(* What a stage does to the disk and the hub is the subject of             *)
(* Publisher.tla; here a stage is an outcome and the time around it.       *)
(***************************************************************************)
EXTENDS Integers, Sequences, FiniteSets

CONSTANTS
    N,             \* number of months to do: jobs are 1..N, in work-list order
    Modes,         \* the runs considered: [sequential, commit, keep], as
                   \* budget.Sequential, opts.HFCommit and opts.Keep say
    Downloaders,   \* one download worker per budget.MaxDownloads
    Processors,    \* one process worker per budget.MaxProcess
    Committer,     \* the commit worker
    Solo,          \* the worker of a sequential run
    MaxDecodes,    \* slots of the decoder gate
    DiskRoom,      \* .zst files staged before free disk is below the floor
    StallTicks,    \* watchdog ticks without progress that make a stall
    MaxFaults,     \* bound on failing stages
    Free

Jobs == 1 .. N
DownCap == Cardinality(Downloaders) + 1
ProcCap == Cardinality(Processors) + 1
CommCap == 2

Workers == Downloaders \cup Processors \cup {Committer, Solo}

ASSUME CapsAssumption ==
    /\ N \in Nat /\ MaxDecodes \in Nat \ {0} /\ DiskRoom \in Nat
    /\ StallTicks \in Nat \ {0} /\ MaxFaults \in Nat
    /\ Modes \subseteq [sequential : BOOLEAN, commit : BOOLEAN, keep : BOOLEAN]
    /\ Free \notin Downloaders \cup Processors \cup {Committer, Solo}

(* A worker has one role, and every pool has a worker: the budget is never *)
(* below one download and one processing worker (BudgetProofs.tla).        *)
ASSUME RolesAssumption ==
    /\ IsFiniteSet(Downloaders) /\ Downloaders # {}
    /\ IsFiniteSet(Processors) /\ Processors # {}
    /\ Downloaders \cap Processors = {} /\ Committer # Solo
    /\ {Committer, Solo} \cap (Downloaders \cup Processors) = {}

VARIABLES
    mode,        \* the mode of this run
    fed,         \* jobs the feeder (or the sequential loop) has handed out
    downCh, procCh, commCh,   \* the three channels
    closed,      \* the channels that have been closed
    at,          \* at[w]: where worker w stands
    holds,       \* holds[w]: the job w works on, 0 when none
    decoders,    \* tokens in decodeGate
    commitMu,    \* the worker inside p.commitMu, or Free
    staged,      \* jobs whose .zst is on disk
    fate,        \* fate[j]: what became of job j
    idle,        \* watchdog ticks since the last markProgress
    stalled,     \* p.stalled
    user,        \* the caller's context is cancelled
    fatal,       \* the commit worker returned a fatal hub error
    result,      \* what Publish returned
    faults

vars == <<mode, fed, downCh, procCh, commCh, closed, at, holds, decoders, commitMu, staged, fate,
          idle, stalled, user, fatal, result, faults>>
chans == <<downCh, procCh, commCh, closed>>
signals == <<stalled, user, fatal>>

(* gctx: done when the caller, the watchdog or a failed worker cancels it. *)
Cancelled == stalled \/ user \/ fatal

Fates == {"todo", "published", "skipped", "uncommitted", "dropped"}

Stops == {"recv", "disk", "download", "toProcess", "gate", "scan", "scanUpload", "scanned",
          "tail", "tailUpload", "toCommit", "ledger", "exit"}

Sequential == mode.sequential
HFCommit == mode.commit
Keep == mode.keep
TakesPart(w) == Sequential <=> w = Solo

Init ==
    /\ mode \in Modes
    /\ fed = 0
    /\ downCh = <<>> /\ procCh = <<>> /\ commCh = <<>>
    /\ closed = {}
    /\ at = [w \in Workers |-> IF TakesPart(w) THEN "recv" ELSE "exit"]
    /\ holds = [w \in Workers |-> 0]
    /\ decoders = 0
    /\ commitMu = Free
    /\ staged = {}
    /\ fate = [j \in Jobs |-> "todo"]
    /\ idle = 0
    /\ stalled = FALSE /\ user = FALSE /\ fatal = FALSE
    /\ result = "running"
    /\ faults = 0

Running == result = "running"
Job(w) == holds[w]

Go(w, stop) == at' = [at EXCEPT ![w] = stop]

LeaveHolding(w, f) == Go(w, "recv") /\ fate' = [fate EXCEPT ![Job(w)] = f] /\ UNCHANGED holds

(* The worker drops its job, which ends as f, and asks for the next one.   *)
Leave(w, f) ==
    /\ Go(w, "recv")
    /\ holds' = [holds EXCEPT ![w] = 0]
    /\ fate' = [fate EXCEPT ![Job(w)] = f]

MarkProgress == idle' = 0

(* A stage returns an error because it failed or because its context is    *)
(* done.                                                                   *)
StageError == IF Cancelled THEN UNCHANGED faults
                           ELSE faults < MaxFaults /\ faults' = faults + 1

-----------------------------------------------------------------------------
(* The feeder.  A select between a ready send and a done context may take  *)
(* either.                                                                 *)
Feed ==
    /\ Running /\ ~Sequential /\ "down" \notin closed
    /\ fed < N /\ Len(downCh) < DownCap
    /\ fed' = fed + 1
    /\ downCh' = Append(downCh, fed + 1)
    /\ UNCHANGED <<mode, procCh, commCh, closed, at, holds, decoders, commitMu, staged, fate, idle,
                   signals, result, faults>>

FeederStops ==
    /\ Running /\ ~Sequential /\ "down" \notin closed
    /\ fed = N \/ Cancelled
    /\ closed' = closed \cup {"down"}
    /\ fate' = [j \in Jobs |-> IF j > fed THEN "dropped" ELSE fate[j]]
    /\ UNCHANGED <<mode, fed, downCh, procCh, commCh, at, holds, decoders, commitMu, staged, idle,
                   signals, result, faults>>

(* A worker receives a job; when the context is done it drains the channel *)
(* without working.                                                        *)
Receive(w, ch, first) ==
    /\ Running /\ at[w] = "recv" /\ ch # <<>>
    /\ IF Cancelled
       THEN /\ fate' = [fate EXCEPT ![Head(ch)] = "dropped"]
            /\ UNCHANGED <<at, holds>>
       ELSE /\ Go(w, first)
            /\ holds' = [holds EXCEPT ![w] = Head(ch)]
            /\ UNCHANGED fate
    /\ UNCHANGED <<mode, fed, closed, decoders, commitMu, staged, idle, signals, result, faults>>

ReceiveDownload(w) ==
    w \in Downloaders /\ Receive(w, downCh, "disk") /\ downCh' = Tail(downCh)
        /\ UNCHANGED <<procCh, commCh>>

ReceiveProcess(w) ==
    w \in Processors /\ Receive(w, procCh, "gate") /\ procCh' = Tail(procCh)
        /\ UNCHANGED <<downCh, commCh>>

ReceiveCommit(w) ==
    w = Committer /\ Receive(w, commCh, "ledger") /\ commCh' = Tail(commCh)
        /\ UNCHANGED <<downCh, procCh>>

(* The range over a closed, drained channel ends.                          *)
Source(w) == CASE w \in Downloaders -> <<"down", downCh>>
               [] w \in Processors  -> <<"proc", procCh>>
               [] w = Committer     -> <<"comm", commCh>>

WorkerExits(w) ==
    /\ Running /\ ~Sequential /\ at[w] = "recv"
    /\ Source(w)[1] \in closed /\ Source(w)[2] = <<>>
    /\ Go(w, "exit")
    /\ UNCHANGED <<mode, fed, chans, holds, decoders, commitMu, staged, fate, idle, signals, result,
                   faults>>

(* A closer waits for the workers that send on a channel, then closes it.  *)
AfterFirst(ws) == \E w \in ws : at[w] = "exit"

AfterAll(ws) == \A w \in ws : at[w] = "exit"

Close(name, ws) ==
    /\ Running /\ ~Sequential /\ name \notin closed
    /\ AfterAll(ws)
    /\ closed' = closed \cup {name}
    /\ UNCHANGED <<mode, fed, downCh, procCh, commCh, at, holds, decoders, commitMu, staged, fate,
                   idle, signals, result, faults>>

-----------------------------------------------------------------------------
(* waitForDisk: the pipeline's download workers hold while free disk is    *)
(* below the floor, keeping the watchdog's clock fresh at every poll.      *)
NoFloor == TRUE

Room == Cardinality(staged) < DiskRoom

DiskOK(w) ==
    /\ Running /\ at[w] = "disk" /\ Room
    /\ Go(w, "download")
    /\ UNCHANGED <<mode, fed, chans, holds, decoders, commitMu, staged, fate, idle, signals, result,
                   faults>>

DiskPoll(w) ==
    /\ Running /\ at[w] = "disk" /\ ~Room /\ ~Cancelled
    /\ MarkProgress
    /\ UNCHANGED <<mode, fed, chans, at, holds, decoders, commitMu, staged, fate, signals, result,
                   faults>>

DiskCancel(w) ==
    /\ Running /\ at[w] = "disk" /\ ~Room /\ Cancelled
    /\ Leave(w, "dropped")
    /\ UNCHANGED <<mode, fed, chans, decoders, commitMu, staged, idle, signals, result, faults>>

Downloaded(w) ==
    /\ Running /\ at[w] = "download"
    /\ staged' = staged \cup {Job(w)}
    /\ Go(w, IF Sequential THEN "gate" ELSE "toProcess")
    /\ UNCHANGED <<mode, fed, chans, holds, decoders, commitMu, fate, idle, signals, result, faults>>

DownloadFails(w) ==
    /\ Running /\ at[w] = "download"
    /\ StageError
    /\ Leave(w, "skipped")
    /\ UNCHANGED <<mode, fed, chans, decoders, commitMu, staged, idle, signals, result>>

Send(w, stop, ch, cap) ==
    /\ Running /\ at[w] = stop /\ Len(ch) < cap
    /\ Go(w, "recv")
    /\ holds' = [holds EXCEPT ![w] = 0]
    /\ UNCHANGED <<mode, fed, closed, decoders, commitMu, staged, fate, idle, signals, result, faults>>

SendProcess(w) == Send(w, "toProcess", procCh, ProcCap) /\ procCh' = Append(procCh, Job(w))
                    /\ UNCHANGED <<downCh, commCh>>
SendCommit(w)  == Send(w, "toCommit", commCh, CommCap) /\ commCh' = Append(commCh, Job(w))
                    /\ UNCHANGED <<downCh, procCh>>

SendCancelled(w) ==
    /\ Running /\ at[w] \in {"toProcess", "toCommit"} /\ ~Sequential /\ Cancelled
    /\ Leave(w, "dropped")
    /\ UNCHANGED <<mode, fed, chans, decoders, commitMu, staged, idle, signals, result, faults>>

-----------------------------------------------------------------------------
(* process: take a decoder token (a wait no context ends), scan, and, when *)
(* committing, upload full batches from inside the scan with the token     *)
(* held, then the trailing batch after giving it back.                     *)
AcquireDecoder(w) ==
    /\ Running /\ at[w] = "gate" /\ decoders < MaxDecodes
    /\ decoders' = decoders + 1
    /\ Go(w, "scan")
    /\ UNCHANGED <<mode, fed, chans, holds, commitMu, staged, fate, idle, signals, result, faults>>

BatchFull(w) ==
    /\ Running /\ at[w] = "scan" /\ HFCommit
    /\ Go(w, "scanUpload")
    /\ UNCHANGED <<mode, fed, chans, holds, decoders, commitMu, staged, fate, idle, signals, result,
                   faults>>

ReleaseDecoder == decoders' = decoders - 1

(* The scan reached the end of the file.                                   *)
ScanEnds(w) ==
    /\ Running /\ at[w] \in {"scan", "scanned"}
    /\ ReleaseDecoder
    /\ MarkProgress
    /\ Go(w, "tail")
    /\ UNCHANGED <<mode, fed, chans, holds, commitMu, staged, fate, signals, result, faults>>

TailBatch(w) ==
    /\ Running /\ at[w] = "tail" /\ HFCommit
    /\ Go(w, "tailUpload")
    /\ UNCHANGED <<mode, fed, chans, holds, decoders, commitMu, staged, fate, idle, signals, result,
                   faults>>

Processed(w) ==
    /\ Running /\ at[w] = "tail"
    /\ Go(w, IF Sequential THEN "ledger" ELSE "toCommit")
    /\ UNCHANGED <<mode, fed, chans, holds, decoders, commitMu, staged, fate, idle, signals, result,
                   faults>>

KeepDecoder(w) == decoders' = decoders

ReleaseAlways(w) == decoders' = decoders - 1

ReleaseIfScanning(w) ==
    decoders' = IF at[w] \in {"scan", "scanUpload", "scanned"} THEN decoders - 1 ELSE decoders

(* A corrupt file, a failed write or a cancelled context ends the scan.    *)
ProcessFails(w) ==
    /\ Running /\ at[w] \in {"scan", "scanned", "tail"}
    /\ StageError
    /\ ReleaseIfScanning(w)
    /\ Leave(w, "skipped")
    /\ UNCHANGED <<mode, fed, chans, commitMu, staged, idle, signals, result>>

-----------------------------------------------------------------------------
(* Uploads, one at a time through commitMu (also a wait no context ends).  *)
Uploading == {"scanUpload", "tailUpload", "ledger"}

KeepLock(w) == commitMu' = commitMu

Unlock(w) == commitMu' = Free

LockCommit(w) ==
    /\ Running /\ at[w] \in Uploading /\ commitMu = Free
    /\ at[w] = "ledger" => HFCommit
    /\ commitMu' = w
    /\ UNCHANGED <<mode, fed, chans, at, holds, decoders, staged, fate, idle, signals, result, faults>>

BatchUploaded(w) ==
    /\ Running /\ at[w] \in {"scanUpload", "tailUpload"} /\ commitMu = w
    /\ Unlock(w)
    /\ MarkProgress
    /\ Go(w, IF at[w] = "scanUpload" THEN "scanned"
             ELSE IF Sequential THEN "ledger" ELSE "toCommit")
    /\ UNCHANGED <<mode, fed, chans, holds, decoders, staged, fate, signals, result, faults>>

(* Any hub error, a fatal one included, makes process return it: the month *)
(* is skipped and the run goes on.                                         *)
BatchFails(w) ==
    /\ Running /\ at[w] \in {"scanUpload", "tailUpload"} /\ commitMu = w
    /\ StageError
    /\ Unlock(w)
    /\ ReleaseIfScanning(w)
    /\ Leave(w, "skipped")
    /\ UNCHANGED <<mode, fed, chans, staged, idle, signals, result>>

(* commit: ledger row, push of the ledger and README, and cleanup of the   *)
(* files unless the run keeps them.                                        *)
LedgerPushed(w) ==
    /\ Running /\ at[w] = "ledger"
    /\ HFCommit => commitMu = w
    /\ Unlock(w)
    /\ IF HFCommit THEN MarkProgress ELSE UNCHANGED idle
    /\ staged' = IF Keep THEN staged ELSE staged \ {Job(w)}
    /\ Leave(w, "published")
    /\ UNCHANGED <<mode, fed, chans, decoders, signals, result, faults>>

LedgerFails(w) ==
    /\ Running /\ at[w] = "ledger"
    /\ HFCommit => commitMu = w
    /\ StageError
    /\ Unlock(w)
    /\ ~Sequential /\ Leave(w, "uncommitted")
    /\ UNCHANGED <<mode, fed, chans, decoders, staged, idle, signals, result>>

(* A fatal hub error makes the commit worker return it to the errgroup,    *)
(* which cancels gctx for the others.                                      *)
LedgerFailsFatally(w) ==
    /\ Running /\ at[w] = "ledger" /\ ~Sequential /\ HFCommit /\ commitMu = w
    /\ faults < MaxFaults /\ faults' = faults + 1
    /\ Unlock(w)
    /\ fatal' = TRUE
    /\ fate' = [fate EXCEPT ![Job(w)] = "uncommitted"]
    /\ holds' = [holds EXCEPT ![w] = 0]
    /\ Go(w, "exit")
    /\ UNCHANGED <<mode, fed, chans, decoders, staged, idle, stalled, user, result>>

-----------------------------------------------------------------------------
(* runSequential *)
NextJob ==
    /\ Running /\ Sequential /\ at[Solo] = "recv" /\ fed < N
    /\ fed' = fed + 1
    /\ holds' = [holds EXCEPT ![Solo] = fed + 1]
    /\ Go(Solo, "download")
    /\ UNCHANGED <<mode, chans, decoders, commitMu, staged, fate, idle, signals, result, faults>>

(* Only an error of commit leaves the loop; then a stall is reported.      *)
SequentialCommitFails ==
    /\ Running /\ Sequential /\ at[Solo] = "ledger"
    /\ HFCommit => commitMu = Solo
    /\ StageError
    /\ Unlock(Solo)
    /\ Leave(Solo, "uncommitted")
    /\ result' = IF stalled THEN "stall" ELSE "error"
    /\ UNCHANGED <<mode, fed, chans, decoders, staged, idle, signals>>

SequentialReturns ==
    /\ Running /\ Sequential /\ at[Solo] = "recv" /\ fed = N
    /\ result' = "ok"
    /\ UNCHANGED <<mode, fed, chans, at, holds, decoders, commitMu, staged, fate, idle, signals, faults>>

(* runPipeline, once every goroutine of the errgroup has returned; jobs    *)
(* still in commCh after a fatal error are lost.                           *)
ResultOf ==
    IF stalled THEN "stall" ELSE IF fatal /\ ~user THEN "error" ELSE "ok"

PipelineReturns ==
    /\ Running /\ ~Sequential
    /\ closed = {"down", "proc", "comm"} /\ \A w \in Workers : at[w] = "exit"
    /\ result' = ResultOf
    /\ UNCHANGED <<mode, fed, chans, at, holds, decoders, commitMu, staged, fate, idle, signals, faults>>

-----------------------------------------------------------------------------
(* watchStall, started by both modes: a tick finds the clock older or, at  *)
(* the limit, cancels the run.  It watches stallCtx, which a fatal error   *)
(* of the errgroup does not end; a tick that was due when the user cancels *)
(* may still be the one it takes.                                          *)
Tick ==
    /\ Running /\ ~stalled /\ ~user /\ idle < StallTicks
    /\ idle' = idle + 1
    /\ UNCHANGED <<mode, fed, chans, at, holds, decoders, commitMu, staged, fate, signals, result, faults>>

Stall ==
    /\ Running /\ ~stalled /\ idle = StallTicks
    /\ stalled' = TRUE
    /\ UNCHANGED <<mode, fed, chans, at, holds, decoders, commitMu, staged, fate, idle, user, fatal,
                   result, faults>>

UserCancels ==
    /\ Running /\ ~user
    /\ user' = TRUE
    /\ UNCHANGED <<mode, fed, chans, at, holds, decoders, commitMu, staged, fate, idle, stalled, fatal,
                   result, faults>>

Work(w) ==
    \/ ReceiveDownload(w) \/ ReceiveProcess(w) \/ ReceiveCommit(w) \/ WorkerExits(w)
    \/ DiskOK(w) \/ DiskCancel(w) \/ Downloaded(w) \/ DownloadFails(w)
    \/ SendProcess(w) \/ SendCommit(w) \/ SendCancelled(w)
    \/ AcquireDecoder(w) \/ BatchFull(w) \/ ScanEnds(w) \/ TailBatch(w) \/ Processed(w)
    \/ ProcessFails(w) \/ LockCommit(w) \/ BatchUploaded(w) \/ BatchFails(w)
    \/ LedgerPushed(w) \/ LedgerFails(w) \/ LedgerFailsFatally(w)

Progress ==
    \/ \E w \in Workers : Work(w)
    \/ Feed \/ FeederStops \/ Close("proc", Downloaders) \/ Close("comm", Processors)
    \/ NextJob \/ SequentialCommitFails \/ SequentialReturns \/ PipelineReturns

Next ==
    \/ Progress
    \/ \E w \in Workers : DiskPoll(w)
    \/ Tick \/ Stall \/ UserCancels

(* Every stage ends by itself: the hub client's requests have a timeout,   *)
(* the torrent client gives up on a dead download, and a scan reads a      *)
(* finite file.  Nobody owes a cancel, the watchdog's included.            *)
Fairness == WF_vars(Progress)

Spec == Init /\ [][Next]_vars /\ Fairness

-----------------------------------------------------------------------------
TypeOK ==
    /\ mode \in Modes
    /\ fed \in 0 .. N
    /\ \A ch \in {downCh, procCh, commCh} : ch \in Seq(Jobs)
    /\ closed \subseteq {"down", "proc", "comm"}
    /\ at \in [Workers -> Stops]
    /\ holds \in [Workers -> 0 .. N]
    /\ decoders \in 0 .. MaxDecodes
    /\ commitMu \in Workers \cup {Free}
    /\ staged \subseteq Jobs
    /\ fate \in [Jobs -> Fates]
    /\ idle \in 0 .. StallTicks
    /\ stalled \in BOOLEAN /\ user \in BOOLEAN /\ fatal \in BOOLEAN
    /\ result \in {"running", "ok", "stall", "error"}
    /\ faults \in 0 .. MaxFaults

(* No worker ever sends on a channel that is closed, which would panic:    *)
(* each closer waits for all its senders (publish.go:277, 301).            *)
NoSendOnClosed ==
    \A w \in Workers : /\ at[w] \in {"disk", "download", "toProcess"} => "proc" \notin closed
                       /\ at[w] \in {"gate", "scan", "scanUpload", "scanned", "tail",
                                     "tailUpload", "toCommit"} => "comm" \notin closed

(* The job pointer is handed from goroutine to goroutine without a lock:   *)
(* a job whose fate is open is with one worker or in one channel, or still *)
(* with the feeder.                                                        *)
Places(j) ==
    Cardinality({w \in Workers : holds[w] = j})
      + Cardinality({i \in DOMAIN downCh : downCh[i] = j})
      + Cardinality({i \in DOMAIN procCh : procCh[i] = j})
      + Cardinality({i \in DOMAIN commCh : commCh[i] = j})

OneOwner ==
    \A j \in Jobs : Places(j) = (IF j <= fed /\ fate[j] = "todo" THEN 1 ELSE 0)

(* The decoder gate holds one token per worker inside a scan: no error     *)
(* path keeps one, which would starve every later month (process.go:144).  *)
GateBalanced ==
    decoders = Cardinality({w \in Workers : at[w] \in {"scan", "scanUpload", "scanned"}})

(* Downloads check the floor before they start, not while they run, so a   *)
(* worker more than the room can overshoot it, and no more than that       *)
(* (publish.go:168).                                                       *)
DiskOvershoot ==
    ~Sequential => Cardinality(staged) < DiskRoom + Cardinality(Downloaders)

(* A run that returned left no lock, token or goroutine behind, and every  *)
(* job it handed out has a fate, those lost in the commit channel of a     *)
(* fatal error excepted (publish.go:240-321).                              *)
LeftNothing ==
    ~Running => /\ commitMu = Free /\ decoders = 0
                /\ \A w \in Workers : holds[w] = 0
                /\ downCh = <<>> /\ procCh = <<>>
                /\ commCh = <<>> \/ fatal

NoneForgotten ==
    ~Running => \A j \in Jobs : j <= fed /\ fate[j] = "todo" =>
                    fatal /\ \E i \in DOMAIN commCh : commCh[i] = j

CleanReturn == LeftNothing /\ NoneForgotten

(* Whatever fails or is cancelled, and whenever, the run returns, unless   *)
(* its downloads are held for good by a disk that nothing frees any more:  *)
(* no lock, token, channel or closer keeps it waiting (publish.go:240-321).*)
(* The wait for disk keeps the watchdog's clock fresh (publish.go:195).    *)
HeldByDisk ==
    /\ \A w \in Workers : at[w] \in {"recv", "disk", "exit"}
    /\ \E w \in Workers : at[w] = "disk"

Terminates == <>(~Running) \/ <>[]HeldByDisk

(* A run the watchdog cancelled returns ErrCommitStall, in both modes      *)
(* (publish.go:35, "returns ErrCommitStall when a commit wedges").         *)
StallReported == stalled /\ ~Running => result = "stall"
=============================================================================
