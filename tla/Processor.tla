----------------------------- MODULE Processor -----------------------------
(***************************************************************************)
(* ProcessFileStream: one pass over a decoded month, cutting it into       *)
(* Parquet shards and handing each to the caller (arctic/process.go,       *)
(* process_go.go and process_duckdb.go), over as many calls as it takes:   *)
(* a call that fails is followed by one whose StartShard is the number of  *)
(* shards the caller has kept.                                             *)
(*                                                                         *)
(* Both engines are modelled by one scan.  They differ in which lines      *)
(* count towards a chunk (Chunking!Counted) and in when the decoder slot   *)
(* is given back: the Go engine frees it before the last shard is written, *)
(* DuckDB holds it until it returns.  A record is its line number; the     *)
(* bytes of a line and of a shard, and the progress callback, are left     *)
(* out.  Who waits for the decoder slot is Pipeline.tla's subject.         *)
(***************************************************************************)
EXTENDS Chunking

CONSTANTS
    Jobs,       \* what can be processed: records [engine, chunk, lines]
    MaxCalls,   \* bound on the calls, and so on the failures
    Absent,     \* no shard at a path
    Torn        \* a shard file cut short

ASSUME JobsAssumption ==
    Jobs \subseteq [engine : Engines, chunk : Nat \ {0}, lines : Seq(LineKinds)]
ASSUME CallsAssumption == MaxCalls \in Nat \ {0}

VARIABLES
    job,        \* the file, the engine and cfg.ChunkLines: the same in every call
    kept,       \* the shards the caller has kept, as sets of records
    calls,      \* calls made so far
    pc,         \* where processFile stands
    start,      \* pc.StartShard
    pos,        \* lines scanned
    shardN,     \* the index of the shard being filled
    inChunk,    \* chunkCount, or DuckDB's lineInChunk
    buf,        \* the buffered rows, or the lines of DuckDB's chunk file
    out,        \* the shards OnShard accepted in this call: [n, recs]
    decoder,    \* whether the 2 GB decoder slot is held
    disk        \* the shard files

scan == <<start, pos, shardN, inChunk, buf>>
vars == <<job, kept, calls, pc, scan, out, decoder, disk>>

Lines == job.lines
Shard(n) == ShardRecords(job.engine, job.chunk, Lines, n)
Total == Shards(job.engine, job.chunk, Lines)
Paths == 0 .. Len(Lines)
RowsOf(lineNumbers) == {i \in lineNumbers : Lines[i] = "row"}

Init ==
    /\ job \in Jobs
    /\ kept = <<>> /\ calls = 0 /\ pc = "idle"
    /\ start = 0 /\ pos = 0 /\ shardN = 0 /\ inChunk = 0 /\ buf = {}
    /\ out = <<>>
    /\ decoder = FALSE
    /\ disk = [n \in Paths |-> Absent]

(* A call may fail as long as the bound leaves another one to succeed.     *)
MayFail == calls < MaxCalls

-----------------------------------------------------------------------------
(* A call: the caller's resume seed, a decoder slot, a fresh scan.         *)
SeedPastEnd == Len(kept) + 1

Seed == Len(kept)

Call ==
    /\ pc = "idle" /\ calls < MaxCalls
    /\ calls' = calls + 1
    /\ pc' = "scan"
    /\ start' = Seed
    /\ pos' = 0 /\ shardN' = 0 /\ inChunk' = 0 /\ buf' = {}
    /\ out' = <<>>
    /\ decoder' = TRUE
    /\ UNCHANGED <<job, kept, disk>>

(* The file or the zstd reader does not open: the slot goes straight back. *)
OpenFails ==
    /\ pc = "idle" /\ calls + 1 < MaxCalls
    /\ calls' = calls + 1
    /\ UNCHANGED <<job, kept, pc, scan, out, decoder, disk>>

-----------------------------------------------------------------------------
(* One line of the scan.                                                   *)
IsCounted == Lines[pos + 1] \in Counted(job.engine)
Reading == pc = "scan" /\ pos < Len(Lines)

SkipLine ==
    /\ Reading /\ ~IsCounted
    /\ pos' = pos + 1
    /\ UNCHANGED <<job, kept, calls, pc, start, shardN, inChunk, buf, out, decoder, disk>>

(* Past shards that are kept already, lines are only counted, so that the  *)
(* boundaries stay where they were.                                        *)
PastChunkAfter == inChunk + 1 > job.chunk

PastChunk == inChunk + 1 >= job.chunk

FastForward ==
    /\ Reading /\ IsCounted /\ shardN < start
    /\ pos' = pos + 1
    /\ IF PastChunk THEN shardN' = shardN + 1 /\ inChunk' = 0
                    ELSE inChunk' = inChunk + 1 /\ UNCHANGED shardN
    /\ UNCHANGED <<job, kept, calls, pc, start, buf, out, decoder, disk>>

BufferLine ==
    /\ Reading /\ IsCounted /\ shardN >= start
    /\ pos' = pos + 1
    /\ inChunk' = inChunk + 1
    /\ buf' = buf \cup {pos + 1}
    /\ pc' = IF PastChunk THEN "write" ELSE "scan"
    /\ UNCHANGED <<job, kept, calls, start, shardN, out, decoder, disk>>

(* The end of the file: whatever is buffered is the last shard; lines that *)
(* were only counted, past a short last shard kept before, make none.  The *)
(* Go engine frees the decoder's window first; DuckDB gives its slot back  *)
(* only when it returns.                                                   *)
HoldsForLast == job.engine = "duckdb" /\ buf # {}

AfterScanNoTail == "done"

AfterScan == IF buf = {} THEN "done" ELSE "write"

EndOfFile ==
    /\ pc = "scan" /\ pos = Len(Lines)
    /\ pc' = AfterScan
    /\ decoder' = HoldsForLast
    /\ UNCHANGED <<job, kept, calls, scan, out, disk>>

(* The scan stops: a corrupt stream, a line longer than the scanner's      *)
(* buffer, or a context that is done.  What was buffered is not written.   *)
ScanFails ==
    /\ pc = "scan" /\ MayFail
    /\ pc' = "failed"
    /\ decoder' = FALSE
    /\ UNCHANGED <<job, kept, calls, scan, out, disk>>

-----------------------------------------------------------------------------
(* Writing a shard: created or truncated, written, closed, validated.  Any *)
(* of it may fail: before the file was touched, or after, when the partial *)
(* file is removed (the Go engine) or stays (a COPY that stops half way),  *)
(* or once it is valid (its size or rows cannot be read).                  *)
WriteShard ==
    /\ pc = "write"
    /\ disk' = [disk EXCEPT ![shardN] = RowsOf(buf)]
    /\ pc' = "report"
    /\ UNCHANGED <<job, kept, calls, scan, out, decoder>>

WriteFails ==
    /\ pc = "write" /\ MayFail
    /\ \E left \in {disk[shardN], Absent, Torn, RowsOf(buf)} :
          disk' = [disk EXCEPT ![shardN] = left]
    /\ pc' = "failed"
    /\ decoder' = FALSE
    /\ UNCHANGED <<job, kept, calls, scan, out>>

(* OnShard takes the shard, and the next chunk starts.  A shard that was   *)
(* not full was the last.                                                  *)
Reported == [n |-> shardN, recs |-> RowsOf(buf)]

SameIndex == shardN

NextIndex == shardN + 1

Report ==
    /\ pc = "report"
    /\ out' = Append(out, Reported)
    /\ shardN' = NextIndex
    /\ inChunk' = 0 /\ buf' = {}
    /\ IF inChunk = job.chunk THEN pc' = "scan" /\ UNCHANGED decoder
                              ELSE pc' = "done" /\ decoder' = FALSE
    /\ UNCHANGED <<job, kept, calls, start, pos, disk>>

ReportFails ==
    /\ pc = "report" /\ MayFail
    /\ pc' = "failed"
    /\ decoder' = FALSE
    /\ UNCHANGED <<job, kept, calls, scan, out, disk>>

-----------------------------------------------------------------------------
(* The caller.  After a failure it has kept some of the shards it was      *)
(* handed, and its next seed is how many; after a success, all of them.    *)
KeptAfter(k) == kept \o [i \in 1 .. k |-> out[i].recs]

Recover ==
    /\ pc = "failed"
    /\ \E k \in 0 .. Len(out) : kept' = KeptAfter(k)
    /\ pc' = "idle"
    /\ UNCHANGED <<job, calls, scan, out, decoder, disk>>

Return ==
    /\ pc = "done"
    /\ kept' = KeptAfter(Len(out))
    /\ pc' = "finished"
    /\ UNCHANGED <<job, calls, scan, out, decoder, disk>>

(* The process dies, also between the last shard and what the caller does  *)
(* with the month, or the caller gives the month up there: the next seed   *)
(* may then count every shard, a short last one included.  A shard being   *)
(* written is left cut short.                                              *)
Crash ==
    /\ pc \in {"scan", "write", "report", "done"} /\ MayFail
    /\ \E k \in 0 .. Len(out) : kept' = KeptAfter(k)
    /\ pc' = "idle"
    /\ decoder' = FALSE
    /\ disk' = IF pc = "write" THEN [disk EXCEPT ![shardN] = Torn] ELSE disk
    /\ UNCHANGED <<job, calls, scan, out>>

-----------------------------------------------------------------------------
Progress == \/ Call \/ SkipLine \/ FastForward \/ BufferLine \/ EndOfFile
            \/ WriteShard \/ Report \/ Recover \/ Return
Failure == OpenFails \/ ScanFails \/ WriteFails \/ ReportFails \/ Crash

Next == Progress \/ Failure

Spec == Init /\ [][Next]_vars

(* A call that can go on does: nothing in the scan waits for another       *)
(* goroutine once it holds the decoder slot.                               *)
FairSpec == Spec /\ WF_vars(Progress)

-----------------------------------------------------------------------------
(* Type invariant of the scan (process.go:117-287).                        *)
TypeOK ==
    /\ job \in Jobs
    /\ kept \in Seq(SUBSET DOMAIN Lines)
    /\ calls \in 0 .. MaxCalls
    /\ pc \in {"idle", "scan", "write", "report", "failed", "done", "finished"}
    /\ start \in Nat /\ pos \in 0 .. Len(Lines)
    /\ shardN \in Paths /\ inChunk \in 0 .. job.chunk
    /\ buf \subseteq 1 .. pos
    /\ out \in Seq([n : Paths, recs : SUBSET DOMAIN Lines])
    /\ decoder \in BOOLEAN
    /\ disk \in [Paths -> (SUBSET DOMAIN Lines) \cup {Absent, Torn}]

(* The shards handed over by a call are exactly those the file determines, *)
(* from StartShard on and in order, whichever call, engine or failure this *)
(* is: fast-forwarding keeps the boundaries, no row is left out or handed  *)
(* over twice, and a scan that broke off never hands over a short shard    *)
(* (process.go:218-265, process_duckdb.go:129-164).                        *)
ShardsExact ==
    \A i \in DOMAIN out :
        /\ out[i].n = start + i - 1
        /\ out[i].recs = Shard(start + i - 1)

(* A shard that has been handed over is whole on disk for the rest of the  *)
(* call, so the caller may upload it at any later time: neither a torn     *)
(* file of an earlier run nor a failed write of a later shard is behind    *)
(* its path (process_go.go:32-81).                                         *)
ReportedOnDisk ==
    pc # "idle" => \A i \in DOMAIN out : disk[out[i].n] = out[i].recs

(* Over all its calls, processing implements the promise of ShardStream:   *)
(* what is kept is a prefix of the one list of shards of the file, and a   *)
(* successful call completes it (process.go:107-115, publish.go:373-416).  *)
ShardList == [i \in 1 .. Total |-> Shard(i - 1)]
Stream == INSTANCE ShardStream WITH whole <- ShardList, done <- pc = "finished"
Streams == Stream!Spec

(* If failures end, every row of the file ends up in a kept shard, once.   *)
AllRowsLand ==
    <>(/\ pc = "finished"
       /\ UNION {kept[i] : i \in DOMAIN kept} = RowsOf(DOMAIN Lines)
       /\ \A i, j \in DOMAIN kept : i # j => kept[i] \cap kept[j] = {})
=============================================================================
