------------------------------ MODULE Chunking ------------------------------
(***************************************************************************)
(* What cutting a decoded month into Parquet shards must produce: the      *)
(* reference that Processor.tla's scan is checked against, and the source  *)
(* of the shard counts Publisher.tla is instantiated with.                 *)
(*                                                                         *)
(* A month is a sequence of lines.  Only what the two engines do with a    *)
(* line matters: "row" parses into a record, "bad" starts with a brace but *)
(* does not parse, "noise" is blank or starts with anything else.          *)
(***************************************************************************)
EXTENDS Integers, Sequences, FiniteSets

LineKinds == {"row", "bad", "noise"}
Engines == {"go", "duckdb"}

(* The lines an engine counts towards a chunk.  The Go engine counts the   *)
(* records it parsed (process.go:231-254); DuckDB is handed every line     *)
(* that starts with a brace and drops the unparseable ones inside the      *)
(* chunk (process_duckdb.go:142-163).                                      *)
Counted(engine) == IF engine = "go" THEN {"row"} ELSE {"row", "bad"}

(* How many of the first i lines the engine counts.                        *)
CountedUpTo(engine, lines, i) == {j \in 1 .. i : lines[j] \in Counted(engine)}
Rank(engine, lines, i) == Cardinality(CountedUpTo(engine, lines, i))

(* The n-th chunk holds the counted lines of ranks n * chunk + 1 up to     *)
(* (n + 1) * chunk, and the last one whatever is left.                     *)
Shards(engine, chunk, lines) ==
    CHOOSE n \in 0 .. Len(lines) :
        /\ Rank(engine, lines, Len(lines)) <= n * chunk
        /\ n * chunk < Rank(engine, lines, Len(lines)) + chunk

(* The records of shard n, by their line numbers.                          *)
ShardRecords(engine, chunk, lines, n) ==
    {i \in DOMAIN lines :
        /\ lines[i] = "row"
        /\ n * chunk < Rank(engine, lines, i)
        /\ Rank(engine, lines, i) <= n * chunk + chunk}

RowsIn(engine, chunk, lines, n) ==
    Cardinality(UNION {ShardRecords(engine, chunk, lines, k) : k \in 0 .. n - 1})
=============================================================================
