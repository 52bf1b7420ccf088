---------------------------- MODULE BudgetProofs ----------------------------
(***************************************************************************)
(* Budget.tla for every host and every setting: the caps stay within what  *)
(* the comments of arctic/budget.go promise, and no override can leave the *)
(* pipeline without a worker or the decoder gate without a slot.           *)
(***************************************************************************)
EXTENDS Budget, TLAPS

LEMMA UsableType ==
    ASSUME NEW hw \in Hosts
    PROVE  UsableRAM(hw) \in Nat /\ UsableRAM(hw) >= 3
           /\ (UsableRAM(hw) > 3 => UsableRAM(hw) + 4 * GB = hw.ram)
  BY DEF Hosts, UsableRAM, Higher, GB

(* Between one and four processes, no more than half the cores.            *)
LEMMA ProcessRange ==
    ASSUME NEW hw \in Hosts
    PROVE  /\ ProcessCap(hw) \in 1 .. 4
           /\ ProcessCap(hw) > 1 => ProcessCap(hw) * 2 <= hw.cpus \/ hw.cpus < 2
  <1> DEFINE slots == Clamp(UsableRAM(hw) \div (3 * GB), 1, 4)
  <1>1. slots \in 1 .. 4
    <2>1. UsableRAM(hw) \div (3 * GB) \in Int
      BY UsableType DEF GB
    <2> DEFINE fit == UsableRAM(hw) \div (3 * GB)
    <2> HIDE DEF fit
    <2>2. fit \in Int
      BY <2>1 DEF fit
    <2>3. Clamp(fit, 1, 4) \in 1 .. 4
      BY <2>2 DEF Clamp, Lower, Higher
    <2>4. QED BY <2>3 DEF fit
  <1>2. hw.cpus \in Nat
    BY DEF Hosts
  <1>3. ProcessCap(hw) = IF hw.cpus \div 2 >= 1 THEN Lower(slots, hw.cpus \div 2) ELSE slots
    BY DEF ProcessCap
  <1> HIDE DEF slots
  <1>4. QED BY <1>1, <1>2, <1>3 DEF Lower

(* At most one decode for each 8 GB left after the reserve, and for each   *)
(* process.                                                                *)
LEMMA DecodeRange ==
    ASSUME NEW hw \in Hosts
    PROVE  /\ DecodeCap(hw) \in 1 .. 3
           /\ DecodeCap(hw) <= ProcessCap(hw)
           /\ DecodeCap(hw) > 1 => DecodeCap(hw) * 8 * GB + 4 * GB <= hw.ram
  <1> DEFINE usable == UsableRAM(hw)
             fit == usable \div 16
             slots == Clamp(fit, 1, 3)
  <1>1. usable \in Nat /\ (usable > 3 => usable + 8 = hw.ram)
    BY UsableType DEF GB
  <1>2. fit \in Nat /\ fit * 16 <= usable
    BY <1>1
  <1>3. slots \in 1 .. 3 /\ (slots > 1 => slots <= fit)
    <2> HIDE DEF fit
    <2>1. QED BY <1>2 DEF Clamp, Lower, Higher
  <1>4. DecodeCap(hw) = Lower(slots, ProcessCap(hw))
    BY DEF DecodeCap, GB
  <1>5. ProcessCap(hw) \in 1 .. 4
    BY ProcessRange
  <1>6. hw.ram \in Nat
    BY DEF Hosts
  <1> HIDE DEF usable, fit, slots
  <1>7. QED BY <1>1, <1>2, <1>3, <1>4, <1>5, <1>6 DEF Lower, GB

LEMMA ConvertRange ==
    ASSUME NEW hw \in Hosts
    PROVE  /\ ConvertCap(hw) \in 1 .. 8
           /\ ConvertCap(hw) <= hw.cpus \/ hw.cpus = 0
  <1> DEFINE fit == (Higher(UsableRAM(hw) - 5, 1) * 5) \div 4
             workers == Clamp(fit, 1, 8)
  <1>1. Higher(UsableRAM(hw) - 5, 1) \in Int
    BY UsableType DEF Higher
  <1>2. fit \in Int
    BY <1>1
  <1>3. workers \in 1 .. 8
    <2> HIDE DEF fit
    <2>1. QED BY <1>2 DEF Clamp, Lower, Higher
  <1>4. hw.cpus \in Nat
    BY DEF Hosts
  <1>5. ConvertCap(hw) = IF hw.cpus >= 1 THEN Lower(workers, hw.cpus) ELSE workers
    BY DEF ConvertCap
  <1> HIDE DEF workers
  <1>6. QED BY <1>3, <1>4, <1>5 DEF Lower

LEMMA DuckDBRange ==
    ASSUME NEW hw \in Hosts
    PROVE  DuckDBMemoryMB(hw) \in 512 .. 2048
  <1> DEFINE each == (UsableRAM(hw) * 256) \div ProcessCap(hw)
  <1>1. ProcessCap(hw) \in 1 .. 4 /\ UsableRAM(hw) * 256 \in Int
    BY ProcessRange, UsableType
  <1>2. each \in Int
    <2> DEFINE a == UsableRAM(hw) * 256
               p == ProcessCap(hw)
    <2>1. a \in Int /\ p \in {1, 2, 3, 4}
      BY <1>1
    <2> HIDE DEF a, p
    <2>2. a \div p \in Int
      BY <2>1
    <2>3. QED BY <2>2 DEF a, p
  <1>3. Clamp(each, 512, 2048) \in 512 .. 2048
    <2> HIDE DEF each
    <2>1. QED BY <1>2 DEF Clamp, Lower, Higher
  <1>4. DuckDBMemoryMB(hw) = IF hw.ram >= 24 * GB THEN Clamp(each, 512, 2048) ELSE 512
    BY DEF DuckDBMemoryMB
  <1> HIDE DEF each
  <1>5. QED BY <1>3, <1>4

-----------------------------------------------------------------------------
(* For every host the computed budget keeps the promises: at least one of  *)
(* everything, the ceilings, no more decodes than processes nor than the   *)
(* memory holds, half the cores, and all ones when it is sequential.       *)
THEOREM ComputedWithinHost ==
    ASSUME NEW hw \in Hosts
    PROVE  WithinHost(hw, ComputeBudget(hw)) /\ ComputeBudget(hw) \in Budgets
  <1>1. CASE TooSmall(hw)
    BY <1>1 DEF ComputeBudget, WithinHost, Budgets
  <1>2. CASE ~TooSmall(hw)
    <2>1. DownloadCap(hw) \in 1 .. 2
      BY DEF DownloadCap
    <2>2. ComputeBudget(hw) =
            [downloads |-> DownloadCap(hw), process |-> ProcessCap(hw),
             convert |-> ConvertCap(hw), decodes |-> DecodeCap(hw),
             duckdbMB |-> DuckDBMemoryMB(hw), sequential |-> FALSE]
      BY <1>2 DEF ComputeBudget
    <2>3. hw.cpus \in Nat /\ hw.ram \in Nat
      BY DEF Hosts
    <2>4. WithinHost(hw, ComputeBudget(hw))
      BY <2>1, <2>2, <2>3, ProcessRange, DecodeRange, ConvertRange, DuckDBRange DEF WithinHost
    <2>5. ComputeBudget(hw) \in Budgets
      <3>1. /\ DownloadCap(hw) \in Nat /\ ProcessCap(hw) \in Nat
            /\ ConvertCap(hw) \in Nat /\ DecodeCap(hw) \in Nat
            /\ DuckDBMemoryMB(hw) \in Nat
        BY <2>1, ProcessRange, DecodeRange, ConvertRange, DuckDBRange
      <3>2. QED BY <2>2, <3>1 DEF Budgets
    <2>6. QED BY <2>4, <2>5
  <1>3. QED BY <1>1, <1>2

(* Whatever the configuration overrides, the pipeline has a worker at      *)
(* every stage and the gate a slot, and a host that decodes several months *)
(* is not taken for a sequential one.                                      *)
THEOREM OverriddenWorkable ==
    ASSUME NEW hw \in Hosts, NEW cfg \in Settings
    PROVE  Workable(ApplyBudgetOverrides(ComputeBudget(hw), cfg))
  <1> DEFINE b == ComputeBudget(hw)
  <1>1. b \in Budgets /\ b.downloads >= 1 /\ b.process >= 1 /\ b.convert >= 1 /\ b.decodes >= 1
    BY ComputedWithinHost DEF WithinHost, Budgets
  <1>2. cfg.downloads \in Nat /\ cfg.process \in Nat /\ cfg.convert \in Nat /\ cfg.decodes \in Nat
    BY DEF Settings
  <1> HIDE DEF b
  <1> DEFINE o == ApplyBudgetOverrides(b, cfg)
  <1>3. o.downloads >= 1 /\ o.process >= 1 /\ o.convert >= 1 /\ o.decodes >= 1
    BY <1>1, <1>2 DEF ApplyBudgetOverrides, Override, Higher, Budgets
  <1>4. o.process \in Nat /\ (o.sequential => o.process <= 1)
    BY <1>1, <1>2 DEF ApplyBudgetOverrides, Override, Budgets
  <1>5. Workable(o)
    BY <1>3, <1>4 DEF Workable
  <1>6. QED BY <1>5 DEF b

(* Without an override of its own, the decodes stay at or below the        *)
(* processes unless those are overridden: the only way past the clamp.     *)
THEOREM OnlyOverridesPassTheClamp ==
    ASSUME NEW hw \in Hosts, NEW cfg \in Settings, cfg.decodes = 0, cfg.process = 0
    PROVE  LET b == ApplyBudgetOverrides(ComputeBudget(hw), cfg)
           IN  b.decodes <= b.process
  <1>1. ComputeBudget(hw) \in Budgets /\ ComputeBudget(hw).decodes >= 1
        /\ ComputeBudget(hw).decodes <= ComputeBudget(hw).process
    BY ComputedWithinHost DEF WithinHost, Budgets
  <1>2. QED BY <1>1 DEF ApplyBudgetOverrides, Override, Higher, Budgets
=============================================================================
