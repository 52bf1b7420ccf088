---------------------------- MODULE MCPublisher ----------------------------
(***************************************************************************)
(* Small instances of Publisher.tla: two months, and layouts of both       *)
(* engines.  The tables of shard and row counts are those Chunking.tla     *)
(* computes from two small files.                                          *)
(***************************************************************************)
EXTENDS Publisher, Sequences, TLC

CONSTANTS feb, mar, go2, go3, duck2

C == INSTANCE Chunking

MCMonths == {feb, mar}

(* feb ends in a short shard under both Go layouts; each month holds a     *)
(* line that only DuckDB counts, so that the engines disagree on its cuts. *)
MCLines(m) == IF m = feb THEN <<"row", "row", "noise", "row", "bad", "row", "row">>
                         ELSE <<"row", "bad", "row">>

MCEngine(l) == IF l = duck2 THEN "duckdb" ELSE "go"
MCChunk(l) == IF l = go3 THEN 3 ELSE 2

MCEngineOf == go2 :> "go" @@ go3 :> "go" @@ duck2 :> "duckdb"

MCShardCount == go2   :> (feb :> 3 @@ mar :> 1)
             @@ go3   :> (feb :> 2 @@ mar :> 1)
             @@ duck2 :> (feb :> 3 @@ mar :> 2)

Rows(a, b, c) == 0 :> 0 @@ 1 :> a @@ 2 :> b @@ 3 :> c

MCRowsBefore == go2   :> (feb :> Rows(2, 4, 5) @@ mar :> Rows(2, 2, 2))
             @@ go3   :> (feb :> Rows(3, 5, 5) @@ mar :> Rows(2, 2, 2))
             @@ duck2 :> (feb :> Rows(2, 3, 5) @@ mar :> Rows(1, 2, 2))

ASSUME TablesMatchChunking ==
    \A l \in {go2, go3, duck2}, m \in Months :
        /\ EngineOf[l] = MCEngine(l)
        /\ ShardCount[l][m] = C!Shards(MCEngine(l), MCChunk(l), MCLines(m))
        /\ \A n \in 0 .. MaxShards :
              RowsBefore[l][m][n] = C!RowsIn(MCEngine(l), MCChunk(l), MCLines(m), n)

Start(commit, keep, layout) ==
    [commit |-> commit, keep |-> keep, layout |-> layout, want |-> Months]

CommitRuns == {Start(TRUE, FALSE, go2), Start(TRUE, TRUE, go2)}
RehearseThenCommit == {Start(FALSE, FALSE, go2), Start(TRUE, FALSE, go2)}

(* Instances in which runs cut differently; LedgerTrue does not survive.   *)
BothEngines == {Start(TRUE, FALSE, go2), Start(TRUE, FALSE, duck2)}
BothChunkSizes == {Start(TRUE, FALSE, go2), Start(TRUE, FALSE, go3)}
=============================================================================
