---------------------------- MODULE BatchUpload ----------------------------
(***************************************************************************)
(* What UploadFiles promises its caller: the operations reach the dataset  *)
(* batch by batch, in order and each batch whole; an upload that reports   *)
(* success has put all of them there; one that fails has put there the     *)
(* batches it was told of and at most one more, whose answer was lost and  *)
(* which may land at any time after.                                       *)
(* This is the upload that Publisher.tla takes its steps from.             *)
(***************************************************************************)
EXTENDS Integers

CONSTANTS NumOps, BatchSize

VARIABLES
    hub,        \* the operations applied to the dataset's main branch
    acked,      \* batches the client was told of
    outcome     \* "running", "ok" or "failed"

vars == <<hub, acked, outcome>>

Ops == 1 .. NumOps
FirstBatches(n) == {i \in Ops : i <= n * BatchSize}

Init == hub = {} /\ acked = 0 /\ outcome = "running"

Applied ==
    /\ outcome = "running"
    /\ hub' = FirstBatches(acked + 1)
    /\ acked' = acked + 1
    /\ outcome' = IF FirstBatches(acked + 1) = Ops THEN "ok" ELSE "running"

(* The commit the client was not told of may land after it has given up.   *)
AppliedUnheard ==
    /\ outcome # "ok"
    /\ hub' = FirstBatches(acked + 1)
    /\ UNCHANGED <<acked, outcome>>

GiveUp ==
    /\ outcome = "running"
    /\ outcome' = "failed"
    /\ UNCHANGED <<hub, acked>>

Next == Applied \/ AppliedUnheard \/ GiveUp

Spec == Init /\ [][Next]_vars
=============================================================================
