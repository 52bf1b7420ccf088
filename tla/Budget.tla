------------------------------- MODULE Budget -------------------------------
(***************************************************************************)
(* How much runs at once on a host (arctic/budget.go): ComputeBudget and   *)
(* what the configuration may override.  The caps of Pipeline and of the   *)
(* decoder gate come from here.                                            *)
(*                                                                         *)
(* Memory and disk are in half gigabytes, so that every constant of the    *)
(* code is a whole number and int(x/y) is integer division; the code       *)
(* computes in floating point, with the same result on whole halves.       *)
(***************************************************************************)
EXTENDS Integers

Lower(a, b) == IF a <= b THEN a ELSE b
Higher(a, b) == IF a <= b THEN b ELSE a
Clamp(v, low, high) == Lower(Higher(v, low), high)
GB == 2

Hosts == [cpus : Nat, ram : Nat, disk : Nat]
Budgets == [downloads : Nat, process : Nat, convert : Nat, decodes : Nat, duckdbMB : Nat,
            sequential : BOOLEAN]

TooSmall(hw) == hw.ram < 2 * GB \/ hw.disk < 30 * GB
UsableRAM(hw) == Higher(hw.ram - 4 * GB, 3)

DownloadCap(hw) == IF hw.disk >= 200 * GB THEN 2 ELSE 1

ProcessCap(hw) ==
    LET slots == Clamp(UsableRAM(hw) \div (3 * GB), 1, 4)
    IN  IF hw.cpus \div 2 >= 1 THEN Lower(slots, hw.cpus \div 2) ELSE slots

DecodeCap(hw) == Lower(Clamp(UsableRAM(hw) \div (8 * GB), 1, 3), ProcessCap(hw))

(* 0.4 GB a worker: five workers to four half gigabytes.                   *)
ConvertCap(hw) ==
    LET workers == Clamp((Higher(UsableRAM(hw) - 5, 1) * 5) \div 4, 1, 8)
    IN  IF hw.cpus >= 1 THEN Lower(workers, hw.cpus) ELSE workers

DuckDBMemoryMB(hw) ==
    IF hw.ram >= 24 * GB
    THEN Clamp((UsableRAM(hw) * 256) \div ProcessCap(hw), 512, 2048)
    ELSE 512

ComputeBudget(hw) ==
    IF TooSmall(hw)
    THEN [downloads |-> 1, process |-> 1, convert |-> 1, decodes |-> 1, duckdbMB |-> 512,
          sequential |-> TRUE]
    ELSE [downloads |-> DownloadCap(hw), process |-> ProcessCap(hw),
          convert |-> ConvertCap(hw), decodes |-> DecodeCap(hw),
          duckdbMB |-> DuckDBMemoryMB(hw), sequential |-> FALSE]

(* A positive setting wins over the computed cap, and over its clamps: an  *)
(* override of the decodes is not held below the processes.                *)
Settings == [downloads : Nat, process : Nat, convert : Nat, decodes : Nat]
Override(set, computed) == IF set > 0 THEN set ELSE computed

ApplyBudgetOverrides(b, cfg) ==
    [downloads |-> Override(cfg.downloads, b.downloads),
     process |-> Override(cfg.process, b.process),
     convert |-> Override(cfg.convert, b.convert),
     decodes |-> Higher(Override(cfg.decodes, b.decodes), 1),
     duckdbMB |-> b.duckdbMB,
     sequential |-> b.sequential /\ Override(cfg.process, b.process) <= 1]

-----------------------------------------------------------------------------
(* What the comments of budget.go promise of a computed budget.            *)
WithinHost(hw, b) ==
    /\ b.downloads \in 1 .. 2 /\ b.process \in 1 .. 4 /\ b.convert \in 1 .. 8
    /\ b.decodes \in 1 .. 3 /\ b.duckdbMB \in 512 .. 2048
    /\ b.decodes <= b.process
    /\ b.decodes > 1 => b.decodes * 8 * GB + 4 * GB <= hw.ram
    /\ b.process > 1 => b.process * 2 <= hw.cpus \/ hw.cpus < 2
    /\ b.convert > 1 => b.convert <= hw.cpus \/ hw.cpus = 0
    /\ b.sequential => b.downloads = 1 /\ b.process = 1 /\ b.convert = 1 /\ b.decodes = 1

(* What the pipeline takes for granted of any budget.                      *)
Workable(b) ==
    /\ b.downloads >= 1 /\ b.process >= 1 /\ b.convert >= 1 /\ b.decodes >= 1
    /\ b.sequential => b.process = 1
=============================================================================
