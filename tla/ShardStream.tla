---------------------------- MODULE ShardStream ----------------------------
(***************************************************************************)
(* What a consumer of ProcessFileStream is promised over any number of     *)
(* interrupted calls: there is one list of shards, what it has kept is     *)
(* always the first few of them, and a call that succeeds completes the    *)
(* list.  Nothing is said of decoding, buffers, indices or failures.       *)
(***************************************************************************)
EXTENDS Naturals, Sequences

VARIABLES
    whole,      \* the list of shards, fixed by the file
    kept,       \* what the consumer has kept
    done        \* a call has succeeded

vars == <<whole, kept, done>>

FirstShards(n) == [i \in 1 .. n |-> whole[i]]

Init == kept = <<>> /\ done = FALSE

Keep == /\ ~done
        /\ \E n \in Len(kept) .. Len(whole) : kept' = FirstShards(n)
        /\ UNCHANGED <<whole, done>>

Finish == /\ ~done
          /\ done' = TRUE
          /\ kept' = FirstShards(Len(whole))
          /\ UNCHANGED whole

Next == Keep \/ Finish

Spec == Init /\ [][Next]_vars
=============================================================================
