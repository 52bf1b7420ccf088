----------------------------- MODULE ShardStore -----------------------------
(***************************************************************************)
(* The imported shards and their index (cli/parquetscan.go, the shard      *)
(* writer of arctic/process_go.go, arctic/index.go).  An import writes     *)
(* 000.parquet, 001.parquet, ... into a directory; nothing ever clears the *)
(* directory first, and the index only upserts, so both keep what earlier  *)
(* imports left there.                                                     *)
(*                                                                         *)
(* A shard is named by the data it holds: the run that obtained it and the *)
(* file it came from.  Row and byte counts, which the index copies from    *)
(* the shard, go with that name.                                           *)
(***************************************************************************)
EXTENDS Integers, FiniteSets

CONSTANTS
    Dirs,           \* shard directories
    Files,          \* what data is obtained from: a month's dump, an entity's history
    MaxShards,      \* bound on the shards of one import
    Absent,         \* no such file, or no such row
    Torn,           \* a Parquet file without its footer
    Partial         \* data of a fetch that did not finish

ASSUME ShardStoreAssumption ==
    /\ MaxShards \in Nat \ {0}
    /\ {Absent, Torn, Partial} \cap (Nat \X Files) = {}
    /\ Absent # Torn /\ Absent # Partial /\ Torn # Partial

VARIABLES
    shards,     \* shards[d][n]: the file <n>.parquet of directory d
    index       \* index[d][n]: the row of that path in the table `shards`

storeVars == <<shards, index>>

Slots == 0 .. MaxShards - 1
Contents == (Nat \X Files) \cup {Partial}

StoreTypeOK ==
    /\ shards \in [Dirs -> [Slots -> Contents \cup {Absent, Torn}]]
    /\ index \in [Dirs -> [Slots -> Contents \cup {Absent}]]

StoreInit ==
    /\ shards = [d \in Dirs |-> [n \in Slots |-> Absent]]
    /\ index = [d \in Dirs |-> [n \in Slots |-> Absent]]

-----------------------------------------------------------------------------
(* writeShard: os.Create truncates what was there, the footer makes it a   *)
(* Parquet file, an error on the way removes it.                           *)
SetShard(d, n, c) ==
    /\ shards' = [shards EXCEPT ![d][n] = c]
    /\ UNCHANGED index

OpenShard(d, n) == SetShard(d, n, Torn)
CloseShard(d, n, data) == SetShard(d, n, data)
RemoveShard(d, n) == SetShard(d, n, Absent)

(* listShards: every shard in the directory, whichever import wrote it.    *)
Listed(d) == {n \in Slots : shards[d][n] # Absent}

(* recordShards: the listed shards in order, up to the first whose footer  *)
(* cannot be read or whose row the database refuses.                       *)
IgnoresFooters(d, upTo) == TRUE
Footers(d, upTo) == \A n \in Listed(d) : n < upTo => shards[d][n] # Torn

Recorded(d, upTo) == [n \in Slots |-> IF n \in Listed(d) /\ n < upTo THEN shards[d][n] ELSE index[d][n]]

RecordShards(d, upTo) ==
    /\ Footers(d, upTo)
    /\ index' = [index EXCEPT ![d] = Recorded(d, upTo)]
    /\ UNCHANGED shards

AnyRecorded(d, upTo) == TRUE
AllRecorded(d, upTo) == \A n \in Listed(d) : n < upTo

(* What shardStats opens, for `sub info`, and what Stats counts.           *)
Readable(d) == \A n \in Listed(d) : shards[d][n] # Torn
InfoRows(d) == {<<n, shards[d][n]>> : n \in Listed(d)}
StatsRows(d) == {<<n, index[d][n]>> : n \in {k \in Slots : index[d][k] # Absent}}
=============================================================================
