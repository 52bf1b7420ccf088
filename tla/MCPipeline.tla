----------------------------- MODULE MCPipeline -----------------------------
(* Small instances of Pipeline.tla.                                        *)
EXTENDS Pipeline
CONSTANTS d1, d2, p1, p2
TwoDownloaders == {d1, d2}
TwoProcessors == {p1, p2}
Mode(sequential, commit, keep) ==
    [sequential |-> sequential, commit |-> commit, keep |-> keep]

(* A dry pipeline goes through the steps of a committing one, without the  *)
(* uploads.                                                                *)
FourModes == {Mode(FALSE, TRUE, FALSE), Mode(FALSE, TRUE, TRUE),
              Mode(TRUE, TRUE, FALSE), Mode(TRUE, FALSE, FALSE)}
SequentialCommit == {Mode(TRUE, TRUE, FALSE)}

(* The pipelined instance is what ComputeBudget gives a host of four       *)
(* cores, 11 GB of memory and 200 GB of disk; and over a grid of hosts and *)
(* settings the budget is what BudgetProofs says of every one.             *)
B == INSTANCE Budget

ASSUME InstanceIsABudget ==
    LET b == B!ComputeBudget([cpus |-> 4, ram |-> 22, disk |-> 400])
    IN  /\ b.downloads = Cardinality(TwoDownloaders) /\ b.process = Cardinality(TwoProcessors)
        /\ b.decodes = MaxDecodes /\ ~b.sequential

ASSUME BudgetOnGrid ==
    \A cpus \in 0 .. 9, ram \in {0, 3, 4, 15, 16, 20, 28, 40, 47, 48, 80, 512}, disk \in {59, 60, 399, 400} :
        LET hw == [cpus |-> cpus, ram |-> ram, disk |-> disk]
            b == B!ComputeBudget(hw)
        IN  /\ B!WithinHost(hw, b)
            /\ \A set \in [downloads : {0}, process : {0, 3}, convert : {0, 1}, decodes : {0, 5}] :
                B!Workable(B!ApplyBudgetOverrides(b, set))
=============================================================================
