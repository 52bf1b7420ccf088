--------------------------- MODULE ArchiveProofs ---------------------------
(***************************************************************************)
(* Archive.tla for any catalog, entities, months and numbers of commands.  *)
(***************************************************************************)
EXTENDS Archive, TLAPS

(* The stages that work on a target, those that convert it, and those in   *)
(* which its directory is being rewritten; the stages of a refresh.        *)
Busy == {"fetching", "compress", "import", "writing", "closing", "index"}
Converting == {"import", "writing", "closing", "index"}
Rewriting == {"writing", "closing", "index"}
Refreshing == {"fetch page", "fetched", "saving"}

Working ==
    /\ at \in Busy => i \in 1 .. Len(targets)
    /\ at = "closing" => job.slot < job.size
    /\ at = "compress" => raw[Type] = Data(targets[i])

(* For OnlyWholeImports: what is about to be converted is whole.           *)
Whole ==
    /\ OnlyWholeImports
    /\ at \in Converting => job.data = Data(targets[i])

(* For IndexTrue: nothing is said of a directory while it is rewritten.    *)
Unsaid == at \in Rewriting => report[Dir] = NoReport

(* For PrintedIsPullable: the cache, or what is about to be written to it, *)
(* keeps what was printed, and what was not found is in no list at hand.   *)
Remembered ==
    /\ at # "saving" => printed \subseteq Builtin \cup LoadMonthlyCache
    /\ at = "fetched" => cached \subseteq LoadMonthlyCache
    /\ at = "saving" => printed \subseteq Builtin \cup Merged
    /\ at \in Refreshing => cmd.name = "refresh"
    /\ cmd.name = "refresh" => missing = {}
    /\ missing \cap (Builtin \cup override) = {}

(* For ExitTrue: while an importing command runs and has met no failure,   *)
(* all it obtained is in place but for the target at hand, which is in     *)
(* place up to the next shard; the targets behind it are dealt with; and   *)
(* what it obtained it has counted, or is about to.                        *)
UpToDate ==
    /\ at \in Rewriting => /\ \A n \in 0 .. job.slot - 1 : shards[Dir][n] = Data(targets[i])
                           /\ job.slot <= job.size
    /\ at \notin Rewriting => job.slot = 0
    /\ at = "index" => job.slot = job.size
InHand(target) == target = targets[i] /\ at \in Converting \cup {"compress"}
ObtainedInPlace == OwnDirs /\ ~tally.failed => \A target \in landed : InPlace(target) \/ InHand(target)
BehindDealt ==
    cmd.name # "acquire" /\ ~tally.failed =>
        \A k \in DOMAIN targets : k < i =>
            Dealt(targets[k]) \/ (targets[k].dir = Dir /\ at \in Rewriting)
ObtainedCounted ==
    landed # {} /\ ~tally.some =>
        \/ cmd.name = "process"
        \/ cmd.name = "acquire" /\ at \in Converting /\ job.size > 0
Failing ==
    /\ at \in Busy \cup {"next"} => cmd.name \in {"acquire", "pull", "process"}
    /\ at = "idle" \/ cmd.name = "acquire" => ~tally.failed
Truthful ==
    /\ ExitTrue
    /\ at # "idle" => exit = "running"
    /\ at \in Refreshing => ~cmd.importing
    /\ at \in {"fetching", "compress"} => cmd.name = "acquire"
    /\ UpToDate
    /\ at # "idle" /\ cmd.importing => ObtainedInPlace /\ BehindDealt /\ ObtainedCounted

-----------------------------------------------------------------------------
(* What a command goes over.                                               *)
LEMMA MonthRangeType ==
    ASSUME NEW first \in Months, NEW last \in Months
    PROVE  MonthRange(first, last) \in Seq(Months)
  <1> DEFINE n == last - first + 1
  <1>0. LastMonth \in Nat /\ first \in Nat /\ last \in Nat /\ n \in Int
    BY CatalogAssumption DEF Months
  <1>1. \A k \in 1 .. n : first + k - 1 \in Months
    BY <1>0 DEF Months
  <1>2. CASE n \in Nat
    <2>1. MonthRange(first, last) \in [1 .. n -> Months]
      BY <1>1 DEF MonthRange
    <2>2. QED BY <1>2, <2>1
  <1>3. CASE n \notin Nat
    <2>1. 1 .. n = 1 .. 0
      BY <1>0, <1>3
    <2>2. MonthRange(first, last) \in [1 .. 0 -> Months]
      BY <1>1, <2>1 DEF MonthRange
    <2>3. QED BY <2>2
  <1>4. QED BY <1>2, <1>3

LEMMA ResolveMonthsType ==
    ASSUME NEW months \in ResolveMonths
    PROVE  months \in Seq(Months)
  <1>1. CASE months \in {NamedMonths(args) : args \in PullArgs}
    <2>1. PICK args \in PullArgs : months = NamedMonths(args)
      BY <1>1
    <2>2. /\ args[1][1] \in Months /\ args[1][2] \in Months
          /\ args[2][1] \in Months /\ args[2][2] \in Months
      BY <2>1, ArchiveAssumption
    <2>3. /\ MonthRange(args[1][1], args[1][2]) \in Seq(Months)
          /\ MonthRange(args[2][1], args[2][2]) \in Seq(Months)
      BY <2>2, MonthRangeType
    <2>4. QED BY <2>1, <2>3 DEF NamedMonths
  <1>2. CASE months \in {MonthRange(Start, end) : end \in {m \in Months : IsCatalogEnd(m, Builtin)}}
    <2>1. Start \in Months
      BY CatalogAssumption DEF Months
    <2>2. QED BY <1>2, <2>1, MonthRangeType
  <1>3. QED BY <1>1, <1>2 DEF ResolveMonths

LEMMA TargetType ==
    ASSUME NEW m \in Months, NEW t \in Types, NEW d \in Dirs
    PROVE  Target(m, t, d) \in TargetSet
  BY DEF Target, TargetSet

LEMMA EntityTargets ==
    ASSUME NEW kind \in EntityKinds
    PROVE  [k \in DOMAIN kind |-> Target(0, kind[k], EntityDir(kind[k]))] \in Seq(TargetSet)
  <1>1. kind \in Seq(Types) /\ Len(kind) \in Nat /\ DOMAIN kind = 1 .. Len(kind)
    BY ArchiveAssumption
  <1>2. \A k \in 1 .. Len(kind) : kind[k] \in Types
    BY <1>1
  <1>3. \A t \in Types : Target(0, t, EntityDir(t)) \in TargetSet
    <2>1. 0 \in Months /\ \A t \in Types : EntityDir(t) \in Dirs
      BY CatalogAssumption, ArchiveAssumption DEF Months
    <2>2. QED BY <2>1, TargetType
  <1>4. [k \in DOMAIN kind |-> Target(0, kind[k], EntityDir(kind[k]))] \in [1 .. Len(kind) -> TargetSet]
    BY <1>1, <1>2, <1>3
  <1>5. QED BY <1>1, <1>4

(* Position k of a list of months, width types each.                       *)
LEMMA Position ==
    ASSUME NEW months \in Nat, NEW width \in Nat \ {0}, NEW k \in 1 .. months * width
    PROVE  /\ ((k - 1) \div width) + 1 \in 1 .. months
           /\ ((k - 1) % width) + 1 \in 1 .. width
  <1> DEFINE q == (k - 1) \div width
             r == (k - 1) % width
             total == months * width
  <1>0. total \in Nat /\ k \in 1 .. total
    OBVIOUS
  <1>1. q \in Int /\ r \in 0 .. width - 1 /\ k - 1 = width * q + r
    <2> HIDE DEF total
    <2>1. k - 1 \in Nat
      BY <1>0
    <2>2. QED BY <2>1
  <1> HIDE DEF q, r
  <1>2. q >= 0
    <2>1. SUFFICES ASSUME q <= -1 PROVE FALSE
      BY <1>1
    <2>2. width * q <= -width
      BY <2>1, <1>1
    <2> DEFINE p == width * q
    <2>3. p \in Int /\ p <= -width /\ k - 1 = p + r
      BY <1>1, <2>2
    <2> HIDE DEF p, total
    <2>4. QED BY <1>0, <1>1, <2>3
  <1>3. q < months
    <2>1. SUFFICES ASSUME q >= months PROVE FALSE
      BY <1>1
    <2>2. width * q >= width * months /\ width * months = total
      BY <2>1, <1>1
    <2> DEFINE p == width * q
    <2>3. p \in Int /\ p >= total /\ k - 1 = p + r
      BY <1>1, <2>2
    <2> HIDE DEF p, total
    <2>4. QED BY <1>0, <1>1, <2>3
  <1>4. q + 1 \in 1 .. months /\ r + 1 \in 1 .. width
    BY <1>1, <1>2, <1>3
  <1>5. QED BY <1>4 DEF q, r

LEMMA PullTargets ==
    ASSUME NEW kind \in PullKinds, NEW months \in Seq(Months)
    PROVE  EachType(months, kind) \in Seq(TargetSet)
  <1> DEFINE n == Len(months) * Len(kind)
             month(k) == months[((k - 1) \div Len(kind)) + 1]
             type(k) == kind[((k - 1) % Len(kind)) + 1]
  <1>1. kind \in Seq(Types) /\ Len(kind) \in Nat \ {0} /\ Len(months) \in Nat
    BY ArchiveAssumption
  <1>2. n \in Nat
    BY <1>1
  <1>3. ASSUME NEW k \in 1 .. n
        PROVE  Target(month(k), type(k), WorkDir(month(k), type(k))) \in TargetSet
    <2>1. /\ ((k - 1) \div Len(kind)) + 1 \in 1 .. Len(months)
          /\ ((k - 1) % Len(kind)) + 1 \in 1 .. Len(kind)
      BY <1>1, Position
    <2>2. month(k) \in Months /\ type(k) \in Types
      BY <1>1, <2>1
    <2> HIDE DEF month, type
    <2>3. WorkDir(month(k), type(k)) \in Dirs
      BY <2>2, ArchiveAssumption
    <2>4. QED BY <2>2, <2>3, TargetType
  <1>4. EachType(months, kind) = [k \in 1 .. n |-> Target(month(k), type(k), WorkDir(month(k), type(k)))]
    BY DEF EachType
  <1> HIDE DEF n, month, type
  <1>5. EachType(months, kind) \in [1 .. n -> TargetSet]
    BY <1>3, <1>4
  <1>6. QED BY <1>2, <1>5

LEMMA FileTargets ==
    ASSUME NEW first \in Months \X Types, NEW second \in Months \X Types,
           NEW both \in BOOLEAN, NEW shared \in BOOLEAN
    PROVE  LET files == IF both THEN <<first, second>> ELSE <<first>>
               into(f) == IF shared THEN OutDir ELSE Beside(f[1], f[2])
           IN  [k \in DOMAIN files |-> Target(files[k][1], files[k][2], into(files[k]))] \in Seq(TargetSet)
  <1> DEFINE into(f) == IF shared THEN OutDir ELSE Beside(f[1], f[2])
             of(f) == Target(f[1], f[2], into(f))
  <1>1. ASSUME NEW f \in Months \X Types
        PROVE  of(f) \in TargetSet
    <2>1. f[1] \in Months /\ f[2] \in Types
      OBVIOUS
    <2>2. into(f) \in Dirs
      BY <2>1, ArchiveAssumption
    <2> HIDE DEF into
    <2>3. QED BY <2>1, <2>2, TargetType
  <1> HIDE DEF into
  <1> HIDE DEF of
  <1>2. ASSUME NEW n \in Nat, NEW files \in [1 .. n -> Months \X Types]
        PROVE  [k \in DOMAIN files |-> of(files[k])] \in Seq(TargetSet)
    <2>1. DOMAIN files = 1 .. n /\ \A k \in 1 .. n : of(files[k]) \in TargetSet
      BY <1>1
    <2>2. [k \in DOMAIN files |-> of(files[k])] \in [1 .. n -> TargetSet]
      BY <2>1
    <2>3. QED BY <2>2
  <1>3. CASE both
    <2>1. <<first, second>> \in [1 .. 2 -> Months \X Types]
      OBVIOUS
    <2>2. [k \in DOMAIN <<first, second>> |-> of(<<first, second>>[k])] \in Seq(TargetSet)
      BY <1>2, <2>1
    <2>3. QED BY <1>3, <2>2 DEF of, into
  <1>4. CASE ~both
    <2>1. <<first>> \in [1 .. 1 -> Months \X Types]
      OBVIOUS
    <2>2. [k \in DOMAIN <<first>> |-> of(<<first>>[k])] \in Seq(TargetSet)
      BY <1>2, <2>1
    <2>3. QED BY <1>4, <2>2 DEF of, into
  <1>5. QED BY <1>3, <1>4

-----------------------------------------------------------------------------
(* Types.                                                                  *)
TypeInv == TypeOK /\ Working

LEMMA Constants ==
    /\ MaxShards \in Nat \ {0} /\ LastMonth \in Nat
    /\ NoJob \in Jobs /\ NoTally \in Tallies
    /\ NoReports \in [Dirs -> Reported \cup {NoReport}]
    /\ Slots \subseteq Nat
  BY ShardStoreAssumption, CatalogAssumption
     DEF NoJob, Jobs, NoTally, Tallies, NoReports, Slots, Contents

LEMMA Current ==
    ASSUME TypeOK, i \in 1 .. Len(targets)
    PROVE  /\ Dir \in Dirs /\ Type \in Types /\ File \in Months \X Types
           /\ targets[i] \in TargetSet /\ Data(targets[i]) \in Contents
  <1>1. targets[i] \in TargetSet
    BY DEF TypeOK, RunTypeOK
  <1>2. Dir \in Dirs /\ Type \in Types /\ File \in Months \X Types
    BY <1>1 DEF Dir, Type, File, FileOf, TargetSet
  <1>3. <<run, File>> \in Contents
    BY <1>2, ArchiveAssumption DEF TypeOK, RunTypeOK, Contents
  <1>4. QED BY <1>1, <1>2, <1>3 DEF Data, File

(* What the moves of the control do to the types.                          *)
LEMMA GotoType ==
    ASSUME RunTypeOK, NEW stage \in Stages, Goto(stage)
    PROVE  RunTypeOK'
  BY DEF RunTypeOK, Goto

LEMMA NextTargetType ==
    ASSUME RunTypeOK, NextTarget
    PROVE  RunTypeOK' /\ job' \in Jobs
  <1>1. NoJob \in Jobs
    BY Constants
  <1>2. i' \in Nat \ {0}
    BY DEF RunTypeOK, NextTarget
  <1>3. at' \in Stages /\ UNCHANGED <<run, refreshes, cmd, targets, exit>>
    BY DEF NextTarget, Stages
  <1>4. QED BY <1>1, <1>2, <1>3 DEF RunTypeOK, NextTarget

LEMMA ReturnType ==
    ASSUME RunTypeOK, NEW code \in Exits, Return(code)
    PROVE  RunTypeOK' /\ job' \in Jobs /\ tally' \in Tallies
  <1>1. NoJob \in Jobs /\ NoTally \in Tallies
    BY Constants
  <1>2. QED BY <1>1 DEF RunTypeOK, Return, Stages

LEMMA CountsType ==
    ASSUME tally \in Tallies, Counts
    PROVE  tally' \in Tallies
  BY DEF Counts, Tallies

LEMMA OnErrorType ==
    ASSUME RunTypeOK, tally \in Tallies, OnError
    PROVE  RunTypeOK' /\ job' \in Jobs /\ tally' \in Tallies
  <1>1. CASE cmd.name = "acquire"
    <2>1. Return("error") /\ "error" \in Exits
      BY <1>1 DEF OnError, Exits
    <2>2. QED BY <2>1, ReturnType
  <1>2. CASE cmd.name # "acquire"
    <2>1. NextTarget /\ tally' = [tally EXCEPT !.failed = TRUE]
      BY <1>2 DEF OnError
    <2>2. tally' \in Tallies
      BY <2>1 DEF Tallies
    <2>3. QED BY <2>1, <2>2, NextTargetType
  <1>3. QED BY <1>1, <1>2

(* Each move keeps a target in hand where the stage needs one.             *)
LEMMA GotoWorking ==
    ASSUME i \in 1 .. Len(targets), NEW stage, stage \notin {"closing", "compress"}, Goto(stage)
    PROVE  Working'
  BY DEF Working, Goto

LEMMA NextTargetWorking ==
    ASSUME NextTarget
    PROVE  Working'
  BY DEF Working, NextTarget, Busy

LEMMA ReturnWorking ==
    ASSUME NEW code, Return(code)
    PROVE  Working'
  BY DEF Working, Return, Busy

LEMMA OnErrorWorking ==
    ASSUME OnError
    PROVE  Working'
  BY NextTargetWorking, ReturnWorking DEF OnError

LEMMA Idling ==
    ASSUME at' \notin Busy
    PROVE  Working'
  BY DEF Working, Busy

-----------------------------------------------------------------------------
(* The catalog and the store.                                              *)
LEMMA CatalogSame ==
    ASSUME CatalogTypeOK, UNCHANGED catalogVars
    PROVE  CatalogTypeOK'
  BY DEF CatalogTypeOK, catalogVars

LEMMA StoreSame ==
    ASSUME StoreTypeOK, UNCHANGED storeVars
    PROVE  StoreTypeOK'
  BY DEF StoreTypeOK, storeVars

LEMMA SetShardType ==
    ASSUME StoreTypeOK, NEW d \in Dirs, NEW n \in Slots,
           NEW c \in Contents \cup {Absent, Torn}, SetShard(d, n, c)
    PROVE  StoreTypeOK'
  BY DEF StoreTypeOK, SetShard

LEMMA RecordShardsType ==
    ASSUME StoreTypeOK, NEW d \in Dirs, NEW upTo \in Nat, RecordShards(d, upTo)
    PROVE  StoreTypeOK'
  <1>1. \A n \in Slots : n \in Listed(d) /\ n < upTo => shards[d][n] \in Contents
    BY DEF StoreTypeOK, RecordShards, Footers, Listed
  <1>2. Recorded(d, upTo) \in [Slots -> Contents \cup {Absent}]
    BY <1>1 DEF Recorded, StoreTypeOK
  <1>3. QED BY <1>2 DEF RecordShards, StoreTypeOK

LEMMA CacheLoads ==
    ASSUME CatalogTypeOK
    PROVE  LoadMonthlyCache \subseteq Months
  BY DEF CatalogTypeOK, LoadMonthlyCache

LEMMA FetchedMonthsType ==
    ASSUME CatalogTypeOK
    PROVE  FetchedMonths \subseteq Months
  <1>1. \A k \in 1 .. Len(releases) : releases[k] \in Months \cup {Other}
    BY DEF CatalogTypeOK
  <1>2. QED BY <1>1 DEF FetchedMonths

(* The steps that change the catalog once a command is under way.          *)
LEMMA CatalogStepType ==
    ASSUME CatalogTypeOK,
           \/ FetchMonthlyHashes
           \/ \E dry \in BOOLEAN : PrintRows(dry) /\ UNCHANGED cache
           \/ TruncateCache
           \/ SaveMonthlyCache
           \/ CacheTorn
           \/ \E what \in Months \cup {Other} : Release(what)
    PROVE  CatalogTypeOK'
  <1>1. CASE FetchMonthlyHashes
    <2>1. FetchedMonths \subseteq Months /\ cached' \subseteq Months
      BY <1>1, FetchedMonthsType, CacheLoads DEF FetchMonthlyHashes, ReadMonthlyCache
    <2>2. QED BY <1>1, <2>1 DEF FetchMonthlyHashes, CatalogTypeOK
  <1>2. CASE \E dry \in BOOLEAN : PrintRows(dry) /\ UNCHANGED cache
    BY <1>2 DEF PrintRows, CatalogTypeOK
  <1>3. CASE TruncateCache
    BY <1>3 DEF TruncateCache, CatalogTypeOK
  <1>4. CASE SaveMonthlyCache
    BY <1>4 DEF SaveMonthlyCache, Merged, PrintRows, CatalogTypeOK
  <1>5. CASE CacheTorn
    BY <1>5 DEF CacheTorn, CatalogTypeOK
  <1>6. CASE \E what \in Months \cup {Other} : Release(what)
    <2>1. PICK what \in Months \cup {Other} : releases' = <<what>> \o releases
      BY <1>6 DEF Release
    <2>2. releases' \in Seq(Months \cup {Other})
      BY <2>1 DEF CatalogTypeOK
    <2>3. QED BY <1>6, <2>2 DEF Release, CatalogTypeOK
  <1>7. QED BY <1>1, <1>2, <1>3, <1>4, <1>5, <1>6

-----------------------------------------------------------------------------
(* Every action keeps the types.                                           *)
LEMMA BeginType ==
    ASSUME TypeInv, NEW command \in Commands, NEW list \in Seq(TargetSet),
           NEW stage \in Stages \ (Busy \cup {"closing"}),
           Begin(command, list, stage), refreshes' \in Nat
    PROVE  TypeInv'
  <1>1. CatalogTypeOK'
    BY CacheLoads DEF TypeInv, TypeOK, CatalogTypeOK, Begin, RegisterMonthlyHashes, ReadMonthlyCache
  <1>2. StoreTypeOK'
    BY StoreSame DEF TypeInv, TypeOK, Begin
  <1>3. RunTypeOK'
    <2>1. run' \in Nat
      BY DEF TypeInv, TypeOK, RunTypeOK, Begin
    <2>2. "running" \in Exits /\ stage \in Stages
      BY DEF Exits
    <2>3. QED BY <2>1, <2>2 DEF RunTypeOK, Begin
  <1>4. WorkTypeOK'
    BY Constants DEF TypeInv, TypeOK, WorkTypeOK, Begin
  <1>5. Working'
    BY Idling DEF Begin
  <1>6. QED BY <1>1, <1>2, <1>3, <1>4, <1>5 DEF TypeInv, TypeOK

LEMMA BeginImportType ==
    ASSUME TypeInv, NEW command \in Commands, NEW list \in Seq(TargetSet),
           BeginImport(command, list)
    PROVE  TypeInv'
  <1>1. "next" \in Stages \ (Busy \cup {"closing"})
    BY DEF Stages, Busy
  <1>2. Begin(command, list, "next") /\ refreshes' \in Nat
    BY DEF BeginImport, TypeInv, TypeOK, RunTypeOK
  <1>3. QED BY <1>1, <1>2, BeginType

LEMMA BeginAcquireType ==
    ASSUME TypeInv, BeginAcquire
    PROVE  TypeInv'
  <1>1. PICK kind \in EntityKinds, torrent \in BOOLEAN, noImport \in BOOLEAN :
          BeginImport(Command("acquire", ~noImport, torrent, FALSE),
                      [k \in DOMAIN kind |-> Target(0, kind[k], EntityDir(kind[k]))])
    BY DEF BeginAcquire
  <1>2. Command("acquire", ~noImport, torrent, FALSE) \in Commands
    BY DEF Command, Commands
  <1>3. QED BY <1>1, <1>2, EntityTargets, BeginImportType

LEMMA BeginPullType ==
    ASSUME TypeInv, BeginPull
    PROVE  TypeInv'
  <1>1. PICK kind \in PullKinds, months \in ResolveMonths, process \in BOOLEAN :
          BeginImport(Command("pull", process, TRUE, FALSE), EachType(months, kind))
    BY DEF BeginPull
  <1>2. Command("pull", process, TRUE, FALSE) \in Commands
    BY DEF Command, Commands
  <1>3. EachType(months, kind) \in Seq(TargetSet)
    BY ResolveMonthsType, PullTargets
  <1>4. QED BY <1>1, <1>2, <1>3, BeginImportType

LEMMA BeginProcessType ==
    ASSUME TypeInv, BeginProcess
    PROVE  TypeInv'
  <1>1. PICK first \in dumps, second \in dumps, both \in BOOLEAN, shared \in BOOLEAN :
          LET files == IF both THEN <<first, second>> ELSE <<first>>
              into(f) == IF shared THEN OutDir ELSE Beside(f[1], f[2])
          IN  /\ both \/ first = second
              /\ BeginImport(Command("process", TRUE, FALSE, FALSE),
                  [k \in DOMAIN files |-> Target(files[k][1], files[k][2], into(files[k]))])
    BY Zenon DEF BeginProcess
  <1>2. first \in Months \X Types /\ second \in Months \X Types
    BY DEF TypeInv, TypeOK, WorkTypeOK
  <1>3. Command("process", TRUE, FALSE, FALSE) \in Commands
    BY DEF Command, Commands
  <1> DEFINE files == IF both THEN <<first, second>> ELSE <<first>>
             into(f) == IF shared THEN OutDir ELSE Beside(f[1], f[2])
             list == [k \in DOMAIN files |-> Target(files[k][1], files[k][2], into(files[k]))]
  <1>4. list \in Seq(TargetSet)
    BY <1>2, FileTargets
  <1>5. BeginImport(Command("process", TRUE, FALSE, FALSE), list)
    BY <1>1
  <1> HIDE DEF list
  <1>6. QED BY <1>3, <1>4, <1>5, BeginImportType

LEMMA BeginRefreshType ==
    ASSUME TypeInv, BeginRefresh
    PROVE  TypeInv'
  <1>1. PICK dry \in BOOLEAN : /\ Begin(Command("refresh", FALSE, FALSE, dry), <<>>, "fetch page")
                               /\ refreshes' = refreshes + 1
    BY DEF BeginRefresh
  <1>2. Command("refresh", FALSE, FALSE, dry) \in Commands
    BY DEF Command, Commands
  <1>3. "fetch page" \in Stages \ (Busy \cup {"closing"}) /\ <<>> \in Seq(TargetSet)
    BY DEF Stages, Busy
  <1>4. refreshes' \in Nat
    <2>1. refreshes \in Nat
      BY DEF TypeInv, TypeOK, RunTypeOK
    <2>2. refreshes' = refreshes + 1
      BY <1>1
    <2>3. QED BY ONLY <2>1, <2>2
  <1>5. QED BY <1>1, <1>2, <1>3, <1>4, BeginType

LEMMA EndType ==
    ASSUME TypeInv, End
    PROVE  TypeInv'
  <1>1. ExitCode \in Exits /\ Return(ExitCode)
    BY DEF End, ExitCode, Exits
  <1>2. RunTypeOK' /\ job' \in Jobs /\ tally' \in Tallies /\ Working'
    BY <1>1, ReturnType, ReturnWorking DEF TypeInv, TypeOK
  <1>3. QED BY <1>2, CatalogSame, StoreSame DEF TypeInv, TypeOK, WorkTypeOK, End

LEMMA KillType ==
    ASSUME TypeInv, Kill
    PROVE  TypeInv'
  <1>1. "killed" \in Exits /\ Return("killed")
    BY DEF Kill, Exits
  <1>2. RunTypeOK' /\ job' \in Jobs /\ tally' \in Tallies /\ Working'
    BY <1>1, ReturnType, ReturnWorking DEF TypeInv, TypeOK
  <1>3. CatalogTypeOK'
    BY CatalogSame, CatalogStepType DEF TypeInv, TypeOK, Kill
  <1>4. QED BY <1>2, <1>3, StoreSame DEF TypeInv, TypeOK, WorkTypeOK, Kill

LEMMA PublishType ==
    ASSUME TypeInv, Publish
    PROVE  TypeInv'
  <1>1. CatalogTypeOK'
    BY CatalogStepType DEF TypeInv, TypeOK, Publish
  <1>2. QED BY <1>1, StoreSame DEF TypeInv, TypeOK, RunTypeOK, WorkTypeOK, Working, Type, Data, FileOf, Publish, runVars, workVars

LEMMA RefreshType ==
    ASSUME TypeInv, RefreshFetch \/ RefreshPrint \/ RefreshSave \/ RefreshSaved
    PROVE  TypeInv'
  <1>1. CatalogTypeOK'
    <2>1. cmd.dry \in BOOLEAN
      BY DEF TypeInv, TypeOK, RunTypeOK, Commands
    <2>2. QED BY <2>1, CatalogSame, CatalogStepType
              DEF TypeInv, TypeOK, RefreshFetch, RefreshPrint, RefreshSave, RefreshSaved
  <1>2. {"ok", "error"} \subseteq Exits /\ {"fetched", "saving"} \subseteq Stages
    BY DEF Exits, Stages
  <1>3. \/ \E stage \in {"fetched", "saving"} : Goto(stage) /\ UNCHANGED <<job, tally>>
        \/ \E code \in {"ok", "error"} : Return(code)
    BY DEF RefreshFetch, RefreshPrint, RefreshSave, RefreshSaved
  <1>4. RunTypeOK' /\ job' \in Jobs /\ tally' \in Tallies
    BY <1>2, <1>3, GotoType, ReturnType DEF TypeInv, TypeOK, WorkTypeOK
  <1>5. Working'
    <2>1. at' \notin Busy
      BY <1>3 DEF Goto, Return, Busy
    <2>2. QED BY <2>1, Idling
  <1>6. UNCHANGED <<storeVars, raw, dumps, landed, missing, report>>
    BY DEF RefreshFetch, RefreshPrint, RefreshSave, RefreshSaved
  <1>7. QED BY <1>1, <1>4, <1>5, <1>6, StoreSame DEF TypeInv, TypeOK, WorkTypeOK

(* The actions on a target start with one in hand.                         *)
LEMMA InHandType ==
    ASSUME TypeInv, at \in Busy \/ \E name : Turn(name)
    PROVE  /\ i \in 1 .. Len(targets)
           /\ Dir \in Dirs /\ Type \in Types /\ File \in Months \X Types
           /\ targets[i].month \in Months /\ targets[i] \in TargetSet
  <1>1. i \in 1 .. Len(targets)
    <2>1. CASE at \in Busy
      BY <2>1 DEF TypeInv, Working
    <2>2. CASE \E name : Turn(name)
      <3>1. i \in Nat \ {0} /\ i <= Len(targets) /\ Len(targets) \in Nat
        BY <2>2 DEF TypeInv, TypeOK, RunTypeOK, Turn
      <3>2. QED BY <3>1
    <2>3. QED BY <2>1, <2>2
  <1>2. targets[i] \in TargetSet
    BY <1>1, Current DEF TypeInv
  <1>3. QED BY <1>1, <1>2, Current DEF TypeInv, TargetSet

(* A move of the control: on to a stage of the same target, to the next    *)
(* target, or out.                                                         *)
LEMMA MoveType ==
    ASSUME TypeInv, i \in 1 .. Len(targets), tally' \in Tallies, job' \in Jobs,
           \/ \E stage \in Stages \ {"closing", "compress"} : Goto(stage)
           \/ NextTarget
           \/ \E code \in Exits : Return(code)
    PROVE  RunTypeOK' /\ Working'
  <1>1. CASE \E stage \in Stages \ {"closing", "compress"} : Goto(stage)
    BY <1>1, GotoType, GotoWorking DEF TypeInv, TypeOK
  <1>2. CASE NextTarget
    BY <1>2, NextTargetType, NextTargetWorking DEF TypeInv, TypeOK
  <1>3. CASE \E code \in Exits : Return(code)
    BY <1>3, ReturnType, ReturnWorking DEF TypeInv, TypeOK
  <1>4. QED BY <1>1, <1>2, <1>3

LEMMA OnErrorMove ==
    ASSUME TypeInv, OnError
    PROVE  RunTypeOK' /\ Working' /\ job' \in Jobs /\ tally' \in Tallies
  BY OnErrorType, OnErrorWorking DEF TypeInv, TypeOK, WorkTypeOK

LEMMA LandsType ==
    ASSUME TypeInv, i \in 1 .. Len(targets), NEW got, Lands(got)
    PROVE  landed' \subseteq TargetSet
  BY Current DEF TypeInv, TypeOK, WorkTypeOK, Lands

LEMMA ObtainType ==
    ASSUME TypeInv, i \in 1 .. Len(targets), NEW n \in 0 .. MaxShards, Obtain(n)
    PROVE  job' \in Jobs /\ landed' \subseteq TargetSet
  <1>1. Data(targets[i]) \in Contents /\ 0 \in 0 .. MaxShards
    BY Constants, Current DEF TypeInv
  <1>2. job' \in Jobs
    BY <1>1 DEF Obtain, Jobs
  <1>3. \E got : Lands(got)
    BY DEF Obtain
  <1>4. QED BY <1>2, <1>3, LandsType

LEMMA StageNames ==
    {"fetching", "import", "writing", "index"} \subseteq Stages \ {"closing", "compress"}
  BY DEF Stages

LEMMA DownloadSubredditType ==
    ASSUME TypeInv, DownloadSubreddit
    PROVE  TypeInv'
  <1>1. i \in 1 .. Len(targets) /\ Dir \in Dirs
    BY InHandType DEF DownloadSubreddit
  <1>2. /\ RunTypeOK' /\ Working' /\ job' \in Jobs /\ tally' \in Tallies
        /\ landed' \subseteq TargetSet
    <2>1. ASSUME NEW n \in 0 .. MaxShards, cmd.importing, Obtain(n), Goto("import"), UNCHANGED tally
          PROVE  <1>2!:
      <3>1. tally' \in Tallies
        BY <2>1 DEF TypeInv, TypeOK, WorkTypeOK
      <3>2. job' \in Jobs /\ landed' \subseteq TargetSet
        BY <1>1, <2>1, ObtainType
      <3>3. QED BY <1>1, <2>1, <3>1, <3>2, MoveType, StageNames
    <2>2. ASSUME NEW n \in 0 .. MaxShards, NextTarget, UNCHANGED tally,
                 Lands(n > 0)
          PROVE  <1>2!:
      <3>1. tally' \in Tallies /\ landed' \subseteq TargetSet
        <4>1. \E got : Lands(got)
          BY <2>2
        <4>2. QED BY <1>1, <2>2, <4>1, LandsType DEF TypeInv, TypeOK, WorkTypeOK
      <3>2. job' \in Jobs
        BY <2>2, NextTargetType DEF TypeInv, TypeOK
      <3>3. QED BY <1>1, <2>2, <3>1, <3>2, MoveType
    <2>3. ASSUME OnError, UNCHANGED landed
          PROVE  <1>2!:
      BY <2>3, OnErrorMove DEF TypeInv, TypeOK, WorkTypeOK
    <2>4. QED BY <2>1, <2>2, <2>3 DEF DownloadSubreddit
  <1>3. QED BY <1>2, CatalogSame, StoreSame DEF TypeInv, TypeOK, WorkTypeOK, DownloadSubreddit

LEMMA CreateJSONLType ==
    ASSUME TypeInv, CreateJSONL
    PROVE  TypeInv'
  <1>1. i \in 1 .. Len(targets) /\ Type \in Types
    BY InHandType DEF CreateJSONL
  <1>2. /\ RunTypeOK' /\ Working' /\ job' \in Jobs /\ tally' \in Tallies
        /\ raw' \in [Types -> Contents \cup {Absent}]
    <2>1. ASSUME raw' = [raw EXCEPT ![Type] = Partial], Goto("fetching"), UNCHANGED <<job, tally>>
          PROVE  <1>2!:
      <3>1. job' \in Jobs /\ tally' \in Tallies
        BY <2>1 DEF TypeInv, TypeOK, WorkTypeOK
      <3>2. raw' \in [Types -> Contents \cup {Absent}]
        BY <1>1, <2>1 DEF TypeInv, TypeOK, WorkTypeOK, Contents
      <3>3. QED BY <1>1, <2>1, <3>1, <3>2, MoveType, StageNames
    <2>2. ASSUME OnError, UNCHANGED raw
          PROVE  <1>2!:
      BY <2>2, OnErrorMove DEF TypeInv, TypeOK, WorkTypeOK
    <2>3. QED BY <2>1, <2>2 DEF CreateJSONL
  <1>3. QED BY <1>2, CatalogSame, StoreSame DEF TypeInv, TypeOK, WorkTypeOK, CreateJSONL

LEMMA FetchRangeType ==
    ASSUME TypeInv, FetchRange
    PROVE  TypeInv'
  <1>1. i \in 1 .. Len(targets) /\ Dir \in Dirs /\ Type \in Types
    BY InHandType DEF FetchRange, Busy
  <1>2. /\ RunTypeOK' /\ Working' /\ job' \in Jobs /\ tally' \in Tallies
        /\ raw' \in [Types -> Contents \cup {Absent}] /\ landed' \subseteq TargetSet
    <2>1. ASSUME NEW some \in BOOLEAN, NEW n \in 0 .. MaxShards,
                 raw' = [raw EXCEPT ![Type] = Data(targets[i])],
                 Lands(n > 0),
                 IF some THEN Counts ELSE UNCHANGED tally,
                 IF ~some \/ ~cmd.importing
                    THEN NextTarget
                    ELSE Goto("compress") /\ job' = [job EXCEPT !.size = n]
          PROVE  <1>2!:
      <3>1. tally' \in Tallies
        BY <2>1, CountsType DEF TypeInv, TypeOK, WorkTypeOK
      <3>2. raw' \in [Types -> Contents \cup {Absent}] /\ landed' \subseteq TargetSet
        <4>1. (\E got : Lands(got)) /\ Data(targets[i]) \in Contents
          BY <1>1, <2>1, Current DEF TypeInv
        <4>2. landed' \subseteq TargetSet
          BY <1>1, <2>1, <4>1, LandsType
        <4>3. raw' \in [Types -> Contents \cup {Absent}]
          BY <1>1, <2>1, <4>1 DEF TypeInv, TypeOK, WorkTypeOK
        <4>4. QED BY <4>2, <4>3
      <3>3. job' \in Jobs
        BY <2>1, NextTargetType DEF TypeInv, TypeOK, WorkTypeOK, Jobs
      <3>4. RunTypeOK' /\ Working'
        <4>1. CASE NextTarget
          BY <1>1, <3>1, <3>3, <4>1, MoveType
        <4>2. CASE Goto("compress")
          <5>1. RunTypeOK'
            BY <4>2, GotoType DEF TypeInv, TypeOK, Stages
          <5>2. Data(targets[i])' = Data(targets[i]) /\ Type' = Type
            BY <4>2 DEF Goto, Type, Data, FileOf
          <5>4. raw[Type]' = Data(targets[i])'
            BY <1>1, <2>1, <5>2 DEF TypeInv, TypeOK, WorkTypeOK
          <5>3. QED BY <1>1, <4>2, <5>1, <5>4 DEF Working, Goto
        <4>3. QED BY <2>1, <4>1, <4>2
      <3>5. QED BY <3>1, <3>2, <3>3, <3>4
    <2>2. ASSUME FetchError
          PROVE  <1>2!:
      <3>1. PICK code \in {"error", "blocked"}, got \in BOOLEAN : Return(code) /\ Lands(got)
        BY <2>2 DEF FetchError
      <3>2. code \in Exits
        BY DEF Exits
      <3>3. RunTypeOK' /\ job' \in Jobs /\ tally' \in Tallies /\ Working'
        BY <3>1, <3>2, ReturnType, ReturnWorking DEF TypeInv, TypeOK
      <3>4. landed' \subseteq TargetSet
        BY <1>1, <3>1, LandsType
      <3>5. QED BY <2>2, <3>3, <3>4 DEF FetchError, TypeInv, TypeOK, WorkTypeOK
    <2>3. QED BY <2>1, <2>2 DEF FetchRange
  <1>3. QED BY <1>2, CatalogSame, StoreSame DEF TypeInv, TypeOK, WorkTypeOK, FetchRange

LEMMA CompressJSONLType ==
    ASSUME TypeInv, CompressJSONL
    PROVE  TypeInv'
  <1>1. i \in 1 .. Len(targets) /\ Type \in Types
    BY InHandType DEF CompressJSONL, Busy
  <1>2. RunTypeOK' /\ Working' /\ job' \in Jobs /\ tally' \in Tallies
    <2>1. ASSUME job' = [job EXCEPT !.data = raw[Type]], Goto("import"), UNCHANGED tally
          PROVE  <1>2!:
      <3>1. job' \in Jobs /\ tally' \in Tallies
        <4>1. raw[Type] \in Contents
          BY <1>1, Current DEF CompressJSONL, TypeInv, Working
        <4>2. QED BY <2>1, <4>1 DEF TypeInv, TypeOK, WorkTypeOK, Jobs
      <3>2. QED BY <1>1, <2>1, <3>1, MoveType, StageNames
    <2>2. ASSUME OnError
          PROVE  <1>2!:
      BY <2>2, OnErrorMove
    <2>3. QED BY <2>1, <2>2 DEF CompressJSONL
  <1>3. QED BY <1>2, CatalogSame, StoreSame DEF TypeInv, TypeOK, WorkTypeOK, CompressJSONL

LEMMA DownloadMonthType ==
    ASSUME TypeInv, DownloadMonth
    PROVE  TypeInv'
  <1> DEFINE m == targets[i].month
  <1>1. i \in 1 .. Len(targets) /\ Dir \in Dirs /\ File \in Months \X Types /\ m \in Months
    BY InHandType DEF DownloadMonth
  <1>2. /\ RunTypeOK' /\ Working' /\ job' \in Jobs /\ tally' \in Tallies
        /\ landed' \subseteq TargetSet /\ missing' \subseteq Months /\ dumps' \subseteq Months \X Types
    <2>1. ASSUME missing' = missing \cup {m}, NextTarget, UNCHANGED <<dumps, landed, tally>>
          PROVE  <1>2!:
      <3>1. job' \in Jobs
        BY <2>1, NextTargetType DEF TypeInv, TypeOK
      <3>2. /\ tally' \in Tallies /\ landed' \subseteq TargetSet /\ missing' \subseteq Months
            /\ dumps' \subseteq Months \X Types
        BY <1>1, <2>1 DEF TypeInv, TypeOK, WorkTypeOK
      <3>3. QED BY <1>1, <2>1, <3>1, <3>2, MoveType
    <2>2. ASSUME dumps' = dumps \cup {File}, Counts, UNCHANGED missing,
                 IF cmd.importing
                 THEN (\E n \in 0 .. MaxShards : Obtain(n)) /\ Goto("import")
                 ELSE NextTarget /\ UNCHANGED landed
          PROVE  <1>2!:
      <3>1. /\ tally' \in Tallies /\ missing' \subseteq Months
            /\ dumps' \subseteq Months \X Types
        BY <1>1, <2>2, CountsType DEF TypeInv, TypeOK, WorkTypeOK
      <3>2. job' \in Jobs /\ landed' \subseteq TargetSet
        BY <1>1, <2>2, ObtainType, NextTargetType DEF TypeInv, TypeOK, WorkTypeOK
      <3>3. QED BY <1>1, <2>2, <3>1, <3>2, MoveType, StageNames
    <2>3. ASSUME OnError, UNCHANGED <<dumps, landed, missing>>
          PROVE  <1>2!:
      BY <2>3, OnErrorMove DEF TypeInv, TypeOK, WorkTypeOK
    <2>4. QED BY <2>1, <2>2, <2>3 DEF DownloadMonth
  <1>3. QED BY <1>2, CatalogSame, StoreSame DEF TypeInv, TypeOK, WorkTypeOK, DownloadMonth

LEMMA OpenDumpType ==
    ASSUME TypeInv, OpenDump
    PROVE  TypeInv'
  <1>1. i \in 1 .. Len(targets)
    BY InHandType DEF OpenDump
  <1>2. /\ RunTypeOK' /\ Working' /\ job' \in Jobs /\ tally' \in Tallies
        /\ landed' \subseteq TargetSet
    <2>1. ASSUME NEW n \in 0 .. MaxShards, Obtain(n), Goto("import"), UNCHANGED tally
          PROVE  <1>2!:
      <3>1. tally' \in Tallies
        BY <2>1 DEF TypeInv, TypeOK, WorkTypeOK
      <3>2. job' \in Jobs /\ landed' \subseteq TargetSet
        BY <1>1, <2>1, ObtainType
      <3>3. QED BY <1>1, <2>1, <3>1, <3>2, MoveType, StageNames
    <2>2. ASSUME OnError, UNCHANGED landed
          PROVE  <1>2!:
      BY <2>2, OnErrorMove DEF TypeInv, TypeOK, WorkTypeOK
    <2>3. QED BY <2>1, <2>2 DEF OpenDump
  <1>3. QED BY <1>2, CatalogSame, StoreSame DEF TypeInv, TypeOK, WorkTypeOK, OpenDump

LEMMA ProcessFileType ==
    ASSUME TypeInv, ProcessFile
    PROVE  TypeInv'
  <1>1. i \in 1 .. Len(targets) /\ Dir \in Dirs
    BY InHandType DEF ProcessFile, Busy
  <1>2. RunTypeOK' /\ Working' /\ job' \in Jobs /\ tally' \in Tallies
    <2>1. CASE Goto("writing") /\ UNCHANGED <<job, tally>>
      <3>1. job' \in Jobs /\ tally' \in Tallies
        BY <2>1 DEF TypeInv, TypeOK, WorkTypeOK
      <3>2. QED BY <1>1, <2>1, <3>1, MoveType, StageNames
    <2>2. CASE OnError
      BY <2>2, OnErrorMove
    <2>3. QED BY <2>1, <2>2 DEF ProcessFile
  <1>3. report' \in [Dirs -> Reported \cup {NoReport}]
    BY <1>1 DEF ProcessFile, TypeInv, TypeOK, WorkTypeOK
  <1>4. QED BY <1>2, <1>3, CatalogSame, StoreSame DEF TypeInv, TypeOK, WorkTypeOK, ProcessFile

(* The shard at hand is one of the slots.                                  *)
LEMMA SlotAtHand ==
    ASSUME TypeInv, job.slot < job.size
    PROVE  job.slot \in Slots /\ job.slot + 1 \in 0 .. MaxShards
  <1>1. job.slot \in 0 .. MaxShards /\ job.size \in 0 .. MaxShards /\ MaxShards \in Nat
    BY Constants DEF TypeInv, TypeOK, WorkTypeOK, Jobs
  <1>2. QED BY <1>1 DEF Slots

LEMMA WriteShardType ==
    ASSUME TypeInv, WriteShard
    PROVE  TypeInv'
  <1>1. i \in 1 .. Len(targets) /\ Dir \in Dirs
    BY InHandType DEF WriteShard, Busy
  <1>2. RunTypeOK' /\ Working' /\ job' \in Jobs /\ tally' \in Tallies /\ StoreTypeOK'
    <2>1. ASSUME job.slot < job.size, OpenShard(Dir, job.slot), Goto("closing"), UNCHANGED <<job, tally>>
          PROVE  <1>2!:
      <3>1. StoreTypeOK'
        BY <1>1, <2>1, SlotAtHand, SetShardType DEF OpenShard, TypeInv, TypeOK
      <3>2. RunTypeOK'
        BY <2>1, GotoType DEF TypeInv, TypeOK, Stages
      <3>3. QED BY <1>1, <2>1, <3>1, <3>2 DEF TypeInv, TypeOK, WorkTypeOK, Working, Goto
    <2>2. ASSUME OnError, UNCHANGED shards, UNCHANGED index
          PROVE  <1>2!:
      BY <2>2, OnErrorMove, StoreSame DEF TypeInv, TypeOK, storeVars
    <2>3. QED BY <2>1, <2>2 DEF WriteShard
  <1>3. QED BY <1>2, CatalogSame DEF TypeInv, TypeOK, WorkTypeOK, WriteShard

LEMMA FinishShardType ==
    ASSUME TypeInv, FinishShard
    PROVE  TypeInv'
  <1>1. i \in 1 .. Len(targets) /\ Dir \in Dirs
    BY InHandType DEF FinishShard, Busy
  <1>2. job.slot \in Slots /\ job.slot + 1 \in 0 .. MaxShards
    BY SlotAtHand DEF TypeInv, Working, FinishShard
  <1>3. RunTypeOK' /\ Working' /\ job' \in Jobs /\ tally' \in Tallies /\ StoreTypeOK'
    <2>1. ASSUME CloseShard(Dir, job.slot, job.data), job' = [job EXCEPT !.slot = job.slot + 1],
                 Goto("writing"), UNCHANGED tally
          PROVE  <1>3!:
      <3>1. job.data \in Contents \cup {Absent, Torn}
        BY DEF TypeInv, TypeOK, WorkTypeOK, Jobs
      <3>2. StoreTypeOK'
        BY <1>1, <1>2, <2>1, <3>1, SetShardType DEF CloseShard, TypeInv, TypeOK
      <3>3. job' \in Jobs /\ tally' \in Tallies
        BY <1>2, <2>1 DEF TypeInv, TypeOK, WorkTypeOK, Jobs
      <3>4. QED BY <1>1, <2>1, <3>2, <3>3, MoveType, StageNames
    <2>2. ASSUME RemoveShard(Dir, job.slot), OnError
          PROVE  <1>3!:
      <3>1. StoreTypeOK'
        BY <1>1, <1>2, <2>2, SetShardType DEF RemoveShard, TypeInv, TypeOK
      <3>2. QED BY <2>2, <3>1, OnErrorMove
    <2>3. QED BY <2>1, <2>2 DEF FinishShard
  <1>4. QED BY <1>3, CatalogSame DEF TypeInv, TypeOK, WorkTypeOK, FinishShard

LEMMA ReportsType ==
    ASSUME TypeInv, NEW indexed \in BOOLEAN, Reports(indexed)
    PROVE  report' \in [Dirs -> Reported \cup {NoReport}]
  <1>1. [size |-> job.size, indexed |-> indexed] \in Reported
    BY DEF TypeInv, TypeOK, WorkTypeOK, Jobs, Reported
  <1>2. QED BY <1>1 DEF Reports, TypeInv, TypeOK, WorkTypeOK

LEMMA ImportedType ==
    ASSUME TypeInv, Imported
    PROVE  TypeInv'
  <1>1. i \in 1 .. Len(targets)
    BY InHandType DEF Imported, Busy
  <1>2. tally' \in Tallies
    BY DEF Imported, TypeInv, TypeOK, WorkTypeOK
  <1>3. job' \in Jobs /\ report' \in [Dirs -> Reported \cup {NoReport}]
    BY NextTargetType, ReportsType DEF Imported, TypeInv, TypeOK, WorkTypeOK
  <1>4. RunTypeOK' /\ Working'
    BY <1>1, <1>2, <1>3, MoveType, StageNames DEF Imported
  <1>5. QED BY <1>2, <1>3, <1>4, CatalogSame, StoreSame DEF TypeInv, TypeOK, WorkTypeOK, Imported

LEMMA IndexShardsType ==
    ASSUME TypeInv, IndexShards
    PROVE  TypeInv'
  <1>1. i \in 1 .. Len(targets) /\ Dir \in Dirs
    BY InHandType DEF IndexShards, Busy
  <1>2. PICK upTo \in 0 .. MaxShards : RecordShards(Dir, upTo) /\ Reports(AllRecorded(Dir, upTo))
    BY DEF IndexShards
  <1>3. StoreTypeOK'
    BY <1>1, <1>2, RecordShardsType DEF TypeInv, TypeOK
  <1>4. report' \in [Dirs -> Reported \cup {NoReport}]
    BY <1>2, ReportsType DEF AllRecorded
  <1>5. tally' \in Tallies
    BY CountsType DEF IndexShards, TypeInv, TypeOK, WorkTypeOK
  <1>6. RunTypeOK' /\ Working' /\ job' \in Jobs
    BY <1>1, <1>5, MoveType, NextTargetType DEF IndexShards, TypeInv, TypeOK
  <1>7. QED BY <1>3, <1>4, <1>5, <1>6, CatalogSame DEF TypeInv, TypeOK, WorkTypeOK, IndexShards

LEMMA NextType ==
    ASSUME TypeInv, [Next]_vars
    PROVE  TypeInv'
  <1>1. CASE UNCHANGED vars
    BY <1>1, CatalogSame, StoreSame
       DEF TypeInv, TypeOK, RunTypeOK, WorkTypeOK, Working, Type, Data, FileOf, vars, runVars, workVars
  <1>2. CASE Next
    BY <1>2, BeginAcquireType, BeginPullType, BeginProcessType, BeginRefreshType,
       EndType, KillType, PublishType,
       DownloadSubredditType, CreateJSONLType, FetchRangeType, CompressJSONLType,
       DownloadMonthType, OpenDumpType,
       ProcessFileType, WriteShardType, FinishShardType, ImportedType, IndexShardsType,
       RefreshType DEF Next
  <1>3. QED BY <1>1, <1>2

LEMMA InitType ==
    ASSUME Init
    PROVE  TypeInv
  <1>1. CatalogTypeOK
    BY DEF Init, CatalogInit, CatalogTypeOK
  <1>2. StoreTypeOK
    BY DEF Init, StoreInit, StoreTypeOK
  <1>3. RunTypeOK /\ Working
    BY DEF Init, RunTypeOK, Working, Command, Commands, Stages, Exits, Busy
  <1>4. WorkTypeOK
    BY Constants DEF Init, WorkTypeOK
  <1>5. QED BY <1>1, <1>2, <1>3, <1>4 DEF TypeInv, TypeOK

(* Every state of the archive and its commands is one of the declared      *)
(* types, for any catalog, entities and numbers of commands.               *)
THEOREM ArchiveTyped == Spec => []TypeOK
  <1>1. TypeInv => TypeOK
    BY DEF TypeInv
  <1>2. QED BY InitType, NextType, <1>1, PTL DEF Spec

LEMMA AlwaysTyped == Spec => []TypeInv
  BY InitType, NextType, PTL DEF Spec

-----------------------------------------------------------------------------
(* Moves of the control, as the other invariants need them.                *)
LEMMA Leaving ==
    ASSUME \/ OnError
           \/ NextTarget
           \/ \E code : Return(code)
    PROVE  at' \in {"idle", "next"} /\ UNCHANGED <<run, cmd, targets>>
  BY DEF OnError, NextTarget, Return

LEMMA Staying ==
    ASSUME NEW stage, Goto(stage)
    PROVE  at' = stage /\ UNCHANGED <<run, cmd, targets, i, exit>>
           /\ Dir' = Dir /\ Type' = Type /\ Data(targets[i])' = Data(targets[i])
  BY DEF Goto, Dir, Type, Data, FileOf

LEMMA Beginning ==
    ASSUME BeginAcquire \/ BeginPull \/ BeginProcess \/ BeginRefresh
    PROVE  /\ at = "idle" /\ at' \in {"next", "fetch page"} /\ exit' = "running"
           /\ landed' = {} /\ missing' = {} /\ report' = NoReports /\ i' = 1
           /\ UNCHANGED <<releases, cache, fetched, cached, printed, storeVars, raw, dumps, job, tally>>
           /\ at' = "fetch page" => cmd'.name = "refresh" /\ ~cmd'.importing
  <1>1. CASE BeginAcquire
    BY <1>1 DEF BeginAcquire, BeginImport, Begin, RegisterMonthlyHashes
  <1>2. CASE BeginPull
    BY <1>2 DEF BeginPull, BeginImport, Begin, RegisterMonthlyHashes
  <1>3. CASE BeginProcess
    BY <1>3 DEF BeginProcess, BeginImport, Begin, RegisterMonthlyHashes
  <1>4. CASE BeginRefresh
    <2>1. PICK dry \in BOOLEAN : Begin(Command("refresh", FALSE, FALSE, dry), <<>>, "fetch page")
      BY <1>4 DEF BeginRefresh
    <2>2. cmd'.name = "refresh" /\ ~cmd'.importing
      BY <2>1 DEF Begin, Command
    <2>3. QED BY <2>1, <2>2 DEF Begin, RegisterMonthlyHashes
  <1>5. QED BY <1>1, <1>2, <1>3, <1>4

-----------------------------------------------------------------------------
(* No shard of an incomplete fetch.                                        *)
LEMMA WholeLeft ==
    ASSUME Whole, UNCHANGED shards, at' \notin Converting
    PROVE  Whole'
  BY DEF Whole, OnlyWholeImports

LEMMA WholeKept ==
    ASSUME Whole, UNCHANGED shards, at' \in Converting => job'.data = Data(targets[i])'
    PROVE  Whole'
  BY DEF Whole, OnlyWholeImports

LEMMA ObtainWhole ==
    ASSUME Whole, UNCHANGED shards, NEW n, Obtain(n), Goto("import")
    PROVE  Whole'
  BY WholeKept, Staying DEF Obtain

LEMMA NextWhole ==
    ASSUME TypeInv, Whole, [Next]_vars
    PROVE  Whole'
  <1>1. CASE UNCHANGED vars
    BY <1>1, WholeKept DEF Whole, Data, FileOf, vars, storeVars, runVars, workVars
  <1>2. CASE BeginAcquire \/ BeginPull \/ BeginProcess \/ BeginRefresh
    BY <1>2, WholeLeft, Beginning DEF Converting, storeVars
  <1>3. CASE End \/ Kill
    BY <1>3, WholeLeft, Leaving DEF End, Kill, Converting, storeVars
  <1>4. CASE Publish
    BY <1>4, WholeLeft DEF Publish, Converting, storeVars, runVars
  <1>5. CASE DownloadSubreddit
    <2>1. UNCHANGED shards
      BY <1>5 DEF DownloadSubreddit, storeVars
    <2>2. CASE \E n : Obtain(n) /\ Goto("import")
      BY <2>1, <2>2, ObtainWhole
    <2>3. CASE NextTarget \/ OnError
      BY <2>1, <2>3, WholeLeft, Leaving DEF Converting
    <2>4. QED BY <1>5, <2>2, <2>3 DEF DownloadSubreddit
  <1>6. CASE CreateJSONL \/ FetchRange
    <2>1. UNCHANGED shards
      BY <1>6 DEF CreateJSONL, FetchRange, storeVars
    <2>2. at' \in {"fetching", "compress", "next", "idle"}
      BY <1>6, Leaving DEF CreateJSONL, FetchRange, FetchError, Goto
    <2>3. QED BY <2>1, <2>2, WholeLeft DEF Converting
  <1>7. CASE CompressJSONL
    <2>1. UNCHANGED shards
      BY <1>7 DEF CompressJSONL, storeVars
    <2>2. CASE job' = [job EXCEPT !.data = raw[Type]] /\ Goto("import")
      <3>1. raw[Type] = Data(targets[i])
        BY <1>7 DEF CompressJSONL, TypeInv, Working
      <3>2. job'.data = Data(targets[i])
        BY <2>2, <3>1 DEF TypeInv, TypeOK, WorkTypeOK, Jobs
      <3>3. QED BY <2>1, <2>2, <3>2, WholeKept, Staying
    <2>3. CASE OnError
      BY <2>1, <2>3, WholeLeft, Leaving DEF Converting
    <2>4. QED BY <1>7, <2>2, <2>3 DEF CompressJSONL
  <1>8. CASE DownloadMonth \/ OpenDump
    <2>1. UNCHANGED shards
      BY <1>8 DEF DownloadMonth, OpenDump, storeVars
    <2>2. \/ \E n : Obtain(n) /\ Goto("import")
          \/ NextTarget \/ OnError
      BY <1>8 DEF DownloadMonth, OpenDump
    <2>3. QED BY <2>1, <2>2, ObtainWhole, WholeLeft, Leaving DEF Converting
  <1>9. CASE ProcessFile
    <2>1. UNCHANGED shards /\ at \in Converting
      BY <1>9 DEF ProcessFile, storeVars, Converting
    <2>2. CASE Goto("writing") /\ UNCHANGED job
      BY <2>1, <2>2, WholeKept, Staying DEF Whole
    <2>3. CASE OnError
      BY <2>1, <2>3, WholeLeft, Leaving DEF Converting
    <2>4. QED BY <1>9, <2>2, <2>3 DEF ProcessFile
  <1>10. CASE WriteShard
    <2>1. CASE OpenShard(Dir, job.slot) /\ Goto("closing") /\ UNCHANGED job
      <3>1. \A d \in Dirs, n \in Slots : shards'[d][n] \in {shards[d][n], Torn}
        BY <2>1 DEF OpenShard, SetShard, TypeInv, TypeOK, StoreTypeOK
      <3>2. OnlyWholeImports'
        BY <3>1, ShardStoreAssumption DEF Whole, OnlyWholeImports
      <3>3. QED BY <1>10, <2>1, <3>2, Staying DEF Whole, WriteShard, Converting
    <2>2. CASE OnError /\ UNCHANGED shards
      BY <2>2, WholeLeft, Leaving DEF Converting
    <2>3. QED BY <1>10, <2>1, <2>2 DEF WriteShard
  <1>11. CASE FinishShard
    <2>0. i \in 1 .. Len(targets)
      BY <1>11, InHandType DEF FinishShard, Busy
    <2>1. job.data = Data(targets[i]) /\ job.data \in Nat \X Files
      BY <1>11, <2>0, Current, ArchiveAssumption
         DEF FinishShard, Whole, Converting, TypeInv, TypeOK, RunTypeOK, Data, File
    <2>2. \A d \in Dirs, n \in Slots : shards'[d][n] \in {shards[d][n], job.data, Absent}
      BY <1>11, <2>1 DEF FinishShard, CloseShard, RemoveShard, SetShard, TypeInv, TypeOK, StoreTypeOK
    <2>3. OnlyWholeImports'
      BY <2>1, <2>2, ShardStoreAssumption DEF Whole, OnlyWholeImports
    <2>4. CASE Goto("writing") /\ job' = [job EXCEPT !.slot = job.slot + 1]
      <3>1. job'.data = job.data
        BY <2>4 DEF TypeInv, TypeOK, WorkTypeOK, Jobs
      <3>2. QED BY <2>1, <2>3, <2>4, <3>1, Staying DEF Whole
    <2>5. CASE OnError
      BY <2>3, <2>5, Leaving DEF Whole, Converting
    <2>6. QED BY <1>11, <2>4, <2>5 DEF FinishShard
  <1>12. CASE Imported
    <2>1. UNCHANGED shards /\ at \in Converting
      BY <1>12 DEF Imported, storeVars, Converting
    <2>2. NextTarget \/ (Goto("index") /\ UNCHANGED job)
      BY <1>12 DEF Imported
    <2>3. QED BY <2>1, <2>2, WholeLeft, WholeKept, Leaving, Staying DEF Whole, Converting
  <1>13. CASE IndexShards
    BY <1>13, WholeLeft, Leaving DEF IndexShards, RecordShards, Converting
  <1>14. CASE RefreshFetch \/ RefreshPrint \/ RefreshSave \/ RefreshSaved
    <2>1. UNCHANGED shards
      BY <1>14 DEF RefreshFetch, RefreshPrint, RefreshSave, RefreshSaved, storeVars
    <2>2. at' \in {"fetched", "saving", "idle"}
      BY <1>14 DEF RefreshFetch, RefreshPrint, RefreshSave, RefreshSaved, Goto, Return
    <2>3. QED BY <2>1, <2>2, WholeLeft DEF Converting
  <1>15. QED BY <1>1, <1>2, <1>3, <1>4, <1>5, <1>6, <1>7, <1>8, <1>9, <1>10, <1>11, <1>12, <1>13, <1>14 DEF Next

(* No shard ever holds data of a fetch that did not finish.  A retry       *)
(* truncates the JSONL and a failure leaves it behind, but what reaches    *)
(* the compressor is what the same command has just fetched whole.         *)
THEOREM FailedFetchesStayOut == Spec => []OnlyWholeImports
  <1>1. Init => Whole
    BY ShardStoreAssumption DEF Init, StoreInit, Whole, OnlyWholeImports, Converting
  <1>2. Whole => OnlyWholeImports
    BY DEF Whole
  <1>3. QED BY AlwaysTyped, <1>1, <1>2, NextWhole, PTL DEF Spec

-----------------------------------------------------------------------------
(* The catalog stays as it is outside refreshes.                           *)
OnTarget ==
    \/ DownloadSubreddit \/ CreateJSONL \/ FetchRange \/ CompressJSONL
    \/ DownloadMonth \/ OpenDump
    \/ ProcessFile \/ WriteShard \/ FinishShard \/ Imported \/ IndexShards

LEMMA OnTargetFrame ==
    ASSUME OnTarget
    PROVE  /\ UNCHANGED <<catalogVars, run, cmd, targets>>
           /\ at \in Busy \cup {"next"} /\ at' \in Busy \cup {"next", "idle"}
  <1> USE Leaving, Staying DEF Busy
  <1>1. CASE DownloadSubreddit
    BY <1>1 DEF DownloadSubreddit, Turn
  <1>2. CASE CreateJSONL
    BY <1>2 DEF CreateJSONL, Turn
  <1>3. CASE FetchRange
    BY <1>3 DEF FetchRange, FetchError
  <1>4. CASE CompressJSONL
    BY <1>4 DEF CompressJSONL
  <1>5. CASE DownloadMonth
    BY <1>5 DEF DownloadMonth, Turn
  <1>6. CASE OpenDump
    BY <1>6 DEF OpenDump, Turn
  <1>7. CASE ProcessFile
    BY <1>7 DEF ProcessFile
  <1>8. CASE WriteShard
    BY <1>8 DEF WriteShard
  <1>9. CASE FinishShard
    BY <1>9 DEF FinishShard
  <1>10. CASE Imported
    BY <1>10 DEF Imported
  <1>11. CASE IndexShards
    BY <1>11 DEF IndexShards
  <1>12. QED BY <1>1, <1>2, <1>3, <1>4, <1>5, <1>6, <1>7, <1>8, <1>9, <1>10, <1>11 DEF OnTarget

LEMMA LoadSame ==
    ASSUME UNCHANGED cache
    PROVE  LoadMonthlyCache' = LoadMonthlyCache
  BY DEF LoadMonthlyCache

LEMMA WholeCacheLoads ==
    ASSUME cache \subseteq Months
    PROVE  LoadMonthlyCache = cache
  BY CatalogAssumption DEF LoadMonthlyCache, Months

LEMMA OnTargetRemembered ==
    ASSUME TypeInv, Remembered, OnTarget
    PROVE  Remembered'
  <1>1. /\ UNCHANGED <<releases, cache, override, fetched, cached, printed, cmd>>
        /\ at \notin Refreshing /\ at' \notin Refreshing
    BY OnTargetFrame DEF catalogVars, Busy, Refreshing
  <1>2. LoadMonthlyCache' = LoadMonthlyCache
    BY <1>1, LoadSame
  <1>3. \/ UNCHANGED missing
        \/ cmd.name = "pull" /\ \E m : m \notin Builtin \cup override /\ missing' = missing \cup {m}
    <2>1. CASE DownloadMonth
      <3>1. ASSUME NEW m \in Months, InfoHashFor(m) = "not published"
            PROVE  m \notin Builtin \cup override
        <4>1. m \in Nat /\ Start \in Nat
          BY CatalogAssumption DEF Months
        <4>2. QED BY <3>1, <4>1 DEF InfoHashFor, KnownMonthly
      <3>2. targets[i].month \in Months
        BY <2>1, InHandType DEF DownloadMonth
      <3>3. QED BY <2>1, <3>1, <3>2 DEF DownloadMonth, Turn
    <2>2. CASE ~DownloadMonth
      BY <2>2 DEF OnTarget, DownloadSubreddit, CreateJSONL, FetchRange, CompressJSONL, OpenDump,
                  ProcessFile, WriteShard, FinishShard, Imported, IndexShards
    <2>3. QED BY <2>1, <2>2
  <1>4. QED BY <1>1, <1>2, <1>3 DEF Remembered, Refreshing

LEMMA NextRemembered ==
    ASSUME TypeInv, Remembered, [Next]_vars
    PROVE  Remembered'
  <1>1. CASE UNCHANGED vars
    BY <1>1, LoadSame DEF Remembered, Merged, vars, catalogVars, runVars, workVars
  <1>2. CASE BeginAcquire \/ BeginPull \/ BeginProcess \/ BeginRefresh
    <2>1. LoadMonthlyCache' = LoadMonthlyCache /\ missing' = {}
      BY <1>2, LoadSame, Beginning
    <2>2. /\ at = "idle" /\ at' \in {"next", "fetch page"} /\ UNCHANGED printed
          /\ at' = "fetch page" => cmd'.name = "refresh"
      BY <1>2, Beginning
    <2>3. QED BY <2>1, <2>2 DEF Remembered, Refreshing
  <1>3. CASE End
    BY <1>3, LoadSame, Leaving DEF End, Return, Remembered, catalogVars, Refreshing
  <1>4. CASE OnTarget
    BY <1>4, OnTargetRemembered
  <1>5. CASE Publish
    BY <1>5, LoadSame DEF Publish, Release, Remembered, runVars, workVars, Refreshing
  <1>6. CASE Kill
    <2>1. at' = "idle" /\ UNCHANGED <<cmd, missing>>
      BY <1>6 DEF Kill, Return
    <2>2. CASE at = "saving"
      <3>1. UNCHANGED <<cache, override>> /\ printed' = {} /\ cmd.name = "refresh"
        BY <1>6, <2>2 DEF Kill, CacheTorn, Remembered, Refreshing
      <3>2. QED BY <2>1, <3>1 DEF Remembered, Refreshing
    <2>3. CASE at # "saving"
      <3>1. UNCHANGED <<cache, override, printed>>
        BY <1>6, <2>3 DEF Kill, catalogVars
      <3>2. QED BY <2>1, <2>3, <3>1, LoadSame DEF Remembered, Refreshing
    <2>4. QED BY <2>2, <2>3
  <1>7. CASE RefreshFetch
    <2>1. at = "fetch page" /\ cmd.name = "refresh" /\ UNCHANGED <<cmd, missing, cache, override, printed>>
      BY <1>7 DEF RefreshFetch, Remembered, Refreshing, FetchMonthlyHashes, Goto, Return, catalogVars
    <2>2. CASE FetchMonthlyHashes /\ Goto("fetched")
      BY <2>1, <2>2, LoadSame DEF Remembered, Refreshing, FetchMonthlyHashes, ReadMonthlyCache, Goto
    <2>3. CASE Return("error")
      BY <2>1, <2>3, LoadSame DEF Remembered, Refreshing, Return
    <2>4. QED BY <1>7, <2>2, <2>3 DEF RefreshFetch
  <1>8. CASE RefreshPrint
    <2>1. /\ cmd.name = "refresh" /\ at' = "idle" /\ UNCHANGED <<cmd, missing, cache, override>>
          /\ printed' = IF cmd.dry THEN printed ELSE printed \cup fetched
      BY <1>8 DEF RefreshPrint, Remembered, Refreshing, PrintRows, Return
    <2>2. ~cmd.dry => fetched \subseteq Builtin \cup LoadMonthlyCache
      BY <1>8 DEF RefreshPrint, Saves, Added, Remembered
    <2>3. printed \subseteq Builtin \cup LoadMonthlyCache
      BY <1>8 DEF RefreshPrint, Remembered
    <2>4. QED BY <2>1, <2>2, <2>3, LoadSame DEF Remembered, Refreshing
  <1>9. CASE RefreshSave
    <2>1. at = "fetched" /\ cmd.name = "refresh" /\ UNCHANGED <<cmd, missing, override, fetched, cached>>
      BY <1>9 DEF RefreshSave, Remembered, Refreshing, TruncateCache, Goto, Return, catalogVars
    <2>2. CASE TruncateCache /\ Goto("saving")
      BY <2>1, <2>2 DEF Remembered, Refreshing, TruncateCache, Merged, Goto
    <2>3. CASE Return("error") /\ UNCHANGED catalogVars
      BY <2>1, <2>3, LoadSame DEF Remembered, Refreshing, Return, catalogVars
    <2>4. QED BY <1>9, <2>2, <2>3 DEF RefreshSave
  <1>10. CASE RefreshSaved
    <2>1. at = "saving" /\ cmd.name = "refresh" /\ at' = "idle" /\ UNCHANGED <<cmd, missing, override>>
      BY <1>10 DEF RefreshSaved, Remembered, Refreshing, SaveMonthlyCache, PrintRows, CacheTorn, Return
    <2>2. CASE SaveMonthlyCache
      <3>1. cache' \subseteq Months
        BY <2>2 DEF SaveMonthlyCache, Merged, TypeInv, TypeOK, CatalogTypeOK
      <3>2. LoadMonthlyCache' = Merged
        BY <2>2, <3>1, WholeCacheLoads, CatalogAssumption DEF SaveMonthlyCache, LoadMonthlyCache, Months
      <3>3. printed' \subseteq Builtin \cup Merged
        BY <2>1, <2>2 DEF SaveMonthlyCache, PrintRows, Remembered, Merged
      <3>4. QED BY <2>1, <3>2, <3>3 DEF Remembered, Refreshing
    <2>3. CASE CacheTorn
      BY <2>1, <2>3 DEF CacheTorn, Remembered, Refreshing
    <2>4. QED BY <1>10, <2>2, <2>3 DEF RefreshSaved
  <1>11. QED BY <1>1, <1>2, <1>3, <1>4, <1>5, <1>6, <1>7, <1>8, <1>9, <1>10 DEF Next, OnTarget

(* A month that a refresh has printed is never again reported missing by a *)
(* command that could read the cache, whatever the releases page shows     *)
(* later and whichever commands ran, as long as no write of the cache is   *)
(* cut short and no refresh that cannot read it replaces it: a refresh     *)
(* merges its page into the cache, and every process loads the cache       *)
(* before it resolves a month.                                             *)
THEOREM PrintedStaysPullable == Spec => []PrintedIsPullable
  <1>1. Init => Remembered
    <2>1. ASSUME Init PROVE LoadMonthlyCache = {}
      BY <2>1 DEF Init, CatalogInit, LoadMonthlyCache
    <2>2. QED BY <2>1 DEF Init, CatalogInit, Remembered, Refreshing, Command
  <1>2. Remembered => PrintedIsPullable
    BY DEF Remembered, PrintedIsPullable, Refreshing
  <1>3. QED BY AlwaysTyped, <1>1, <1>2, NextRemembered, PTL DEF Spec

-----------------------------------------------------------------------------
(* What is said to be indexed is.                                          *)
Indexed(d) == report[d] # NoReport /\ report[d].indexed =>
                  Readable(d) /\ InfoRows(d) \subseteq StatsRows(d)

LEMMA IndexedSame ==
    ASSUME NEW d \in Dirs, Indexed(d), shards'[d] = shards[d], index'[d] = index[d],
           report'[d] = report[d]
    PROVE  Indexed(d)'
  BY DEF Indexed, Readable, InfoRows, StatsRows, Listed

(* A step that does not touch the store, the reports or a rewritten        *)
(* directory.                                                              *)
Elsewhere ==
    /\ UNCHANGED <<storeVars, report>>
    /\ at' \notin Rewriting

LEMMA IndexedElsewhere ==
    ASSUME IndexTrue, Elsewhere
    PROVE  IndexTrue' /\ Unsaid'
  <1>1. UNCHANGED <<shards, index, report>> /\ at' \notin Rewriting
    BY DEF Elsewhere, storeVars
  <1>2. Unsaid'
    BY <1>1 DEF Unsaid
  <1>3. IndexTrue'
    BY <1>1, IndexedSame DEF IndexTrue, Indexed
  <1>4. QED BY <1>2, <1>3

LEMMA ElsewhereSteps ==
    ASSUME \/ End \/ Kill \/ RefreshFetch \/ RefreshPrint \/ RefreshSave \/ RefreshSaved
           \/ DownloadSubreddit \/ CreateJSONL \/ FetchRange \/ CompressJSONL
           \/ DownloadMonth \/ OpenDump
    PROVE  Elsewhere
  <1> USE Leaving, Staying DEF Elsewhere, Rewriting
  <1>1. CASE End \/ Kill
    BY <1>1 DEF End, Kill
  <1>2. CASE RefreshFetch \/ RefreshPrint \/ RefreshSave \/ RefreshSaved
    <2>1. \/ \E stage \in {"fetched", "saving"} : Goto(stage)
          \/ \E code : Return(code)
      BY <1>2 DEF RefreshFetch, RefreshPrint, RefreshSave, RefreshSaved
    <2>2. UNCHANGED <<storeVars, report>>
      BY <1>2 DEF RefreshFetch, RefreshPrint, RefreshSave, RefreshSaved
    <2>3. QED BY <2>1, <2>2
  <1>3. CASE DownloadSubreddit
    BY <1>3 DEF DownloadSubreddit
  <1>4. CASE CreateJSONL
    BY <1>4 DEF CreateJSONL
  <1>5. CASE FetchRange
    BY <1>5 DEF FetchRange, FetchError
  <1>6. CASE CompressJSONL
    BY <1>6 DEF CompressJSONL
  <1>7. CASE DownloadMonth
    <2>1. NextTarget \/ Goto("import") \/ OnError
      BY <1>7 DEF DownloadMonth
    <2>2. UNCHANGED <<storeVars, report>>
      BY <1>7 DEF DownloadMonth
    <2>3. QED BY <2>1, <2>2
  <1>8. CASE OpenDump
    BY <1>8 DEF OpenDump
  <1>9. QED BY <1>1, <1>2, <1>3, <1>4, <1>5, <1>6, <1>7, <1>8

(* The steps of a conversion touch one directory, of which nothing is said *)
(* but what they say.                                                      *)
LEMMA ShardStep ==
    ASSUME TypeInv, WriteShard \/ FinishShard
    PROVE  /\ at \in Rewriting /\ Dir \in Dirs
           /\ \A d \in Dirs : d # Dir => shards'[d] = shards[d]
           /\ UNCHANGED <<index, report>>
           /\ at' \in Rewriting => Dir' = Dir
  <1>1. at \in Rewriting /\ at \in Busy
    BY DEF WriteShard, FinishShard, Rewriting, Busy
  <1>2. Dir \in Dirs
    BY <1>1, InHandType
  <1>3. \/ \E n, c : SetShard(Dir, n, c)
        \/ UNCHANGED shards
    BY DEF WriteShard, FinishShard, OpenShard, CloseShard, RemoveShard
  <1>4. \A d \in Dirs : d # Dir => shards'[d] = shards[d]
    BY <1>2, <1>3 DEF SetShard, TypeInv, TypeOK, StoreTypeOK
  <1>5. UNCHANGED <<index, report>>
    BY DEF WriteShard, FinishShard
  <1>6. at' \in Rewriting => Dir' = Dir
    BY Leaving, Staying DEF WriteShard, FinishShard, Rewriting
  <1>7. QED BY <1>1, <1>2, <1>4, <1>5, <1>6

LEMMA RecordedDir ==
    ASSUME TypeInv, NEW d \in Dirs, NEW upTo \in Nat, RecordShards(d, upTo), AllRecorded(d, upTo)
    PROVE  (Readable(d) /\ InfoRows(d) \subseteq StatsRows(d))'
  <1>1. Readable(d)
    BY DEF RecordShards, Footers, AllRecorded, Readable
  <1>2. index'[d] = Recorded(d, upTo) /\ UNCHANGED shards
    BY DEF RecordShards, TypeInv, TypeOK, StoreTypeOK
  <1>3. \A n \in Listed(d) : n \in Slots /\ index'[d][n] = shards[d][n] /\ shards[d][n] # Absent
    BY <1>2 DEF Recorded, AllRecorded, Listed
  <1>4. QED BY <1>1, <1>2, <1>3 DEF Readable, InfoRows, StatsRows, Listed

LEMMA ReportsDir ==
    ASSUME TypeInv, Dir \in Dirs, NEW indexed \in BOOLEAN, Reports(indexed)
    PROVE  /\ report'[Dir] = [size |-> job.size, indexed |-> indexed]
           /\ \A d \in Dirs : d # Dir => report'[d] = report[d]
           /\ report'[Dir] # NoReport
  <1>1. /\ report'[Dir] = [size |-> job.size, indexed |-> indexed]
        /\ \A d \in Dirs : d # Dir => report'[d] = report[d]
    BY DEF Reports, TypeInv, TypeOK, WorkTypeOK
  <1>2. [size |-> job.size, indexed |-> indexed] \in [size : 0 .. MaxShards, indexed : BOOLEAN]
    BY DEF TypeInv, TypeOK, WorkTypeOK, Jobs
  <1>3. QED BY <1>1, <1>2, ArchiveAssumption

LEMMA NextIndexed ==
    ASSUME TypeInv, IndexTrue, Unsaid, [Next]_vars
    PROVE  IndexTrue' /\ Unsaid'
  <1>0. \A d \in Dirs : Indexed(d)
    BY DEF IndexTrue, Indexed
  <1>1. CASE UNCHANGED vars
    <2>1. UNCHANGED <<shards, index, report, at>> /\ Dir' = Dir
      BY <1>1 DEF vars, storeVars, runVars, workVars, Dir
    <2>2. QED BY <1>0, <2>1, IndexedSame DEF IndexTrue, Indexed, Unsaid
  <1>2. CASE Publish
    <2>1. UNCHANGED <<storeVars, report>> /\ at' \notin Rewriting
      BY <1>2 DEF Publish, runVars, workVars, Rewriting
    <2>2. QED BY <2>1, IndexedElsewhere DEF Elsewhere
  <1>3. CASE BeginAcquire \/ BeginPull \/ BeginProcess \/ BeginRefresh
    <2>1. report' = NoReports /\ at' \notin Rewriting
      BY <1>3, Beginning DEF Rewriting
    <2>2. QED BY <2>1 DEF IndexTrue, Unsaid, NoReports
  <1>4. CASE \/ End \/ Kill \/ RefreshFetch \/ RefreshPrint \/ RefreshSave \/ RefreshSaved
             \/ DownloadSubreddit \/ CreateJSONL \/ FetchRange \/ CompressJSONL
             \/ DownloadMonth \/ OpenDump
    BY <1>4, ElsewhereSteps, IndexedElsewhere
  <1>5. CASE ProcessFile
    <2>1. Dir \in Dirs /\ UNCHANGED <<shards, index>>
      BY <1>5, InHandType DEF ProcessFile, Busy, storeVars
    <2>2. report'[Dir] = NoReport /\ \A d \in Dirs : d # Dir => report'[d] = report[d]
      BY <1>5, <2>1 DEF ProcessFile, TypeInv, TypeOK, WorkTypeOK
    <2>3. at' \in Rewriting => Dir' = Dir
      BY <1>5, Leaving, Staying DEF ProcessFile, Rewriting
    <2>4. \A d \in Dirs : d # Dir => Indexed(d)'
      BY <1>0, <2>1, <2>2, IndexedSame
    <2>5. QED BY <2>2, <2>3, <2>4 DEF IndexTrue, Indexed, Unsaid
  <1>6. CASE WriteShard \/ FinishShard
    <2>1. /\ at \in Rewriting /\ Dir \in Dirs /\ UNCHANGED <<index, report>>
          /\ \A d \in Dirs : d # Dir => shards'[d] = shards[d]
          /\ at' \in Rewriting => Dir' = Dir
      BY <1>6, ShardStep
    <2>2. report[Dir] = NoReport
      BY <2>1 DEF Unsaid
    <2>3. \A d \in Dirs : d # Dir => Indexed(d)'
      BY <1>0, <2>1, IndexedSame
    <2>4. QED BY <2>1, <2>2, <2>3 DEF IndexTrue, Indexed, Unsaid
  <1>7. CASE Imported
    <2>1. Dir \in Dirs /\ at \in Rewriting /\ UNCHANGED <<shards, index>>
      BY <1>7, InHandType DEF Imported, Busy, Rewriting, storeVars
    <2>2. CASE Goto("index") /\ UNCHANGED report
      <3>1. Dir' = Dir
        BY <2>2, Staying
      <3>2. QED BY <1>0, <2>1, <2>2, <3>1, IndexedSame DEF IndexTrue, Indexed, Unsaid
    <2>3. CASE NextTarget /\ Reports(FALSE)
      <3>1. report'[Dir] = [size |-> job.size, indexed |-> FALSE]
            /\ \A d \in Dirs : d # Dir => report'[d] = report[d]
        BY <2>1, <2>3, ReportsDir
      <3>2. \A d \in Dirs : Indexed(d)'
        BY <1>0, <2>1, <3>1, IndexedSame DEF Indexed
      <3>3. QED BY <2>3, <3>2, Leaving DEF IndexTrue, Indexed, Unsaid, Rewriting
    <2>4. QED BY <1>7, <2>2, <2>3 DEF Imported
  <1>8. CASE IndexShards
    <2>1. PICK here \in Dirs : here = Dir
      BY <1>8, InHandType DEF IndexShards, Busy
    <2>2. PICK upTo \in 0 .. MaxShards : RecordShards(here, upTo) /\ Reports(AllRecorded(here, upTo))
      BY <1>8, <2>1 DEF IndexShards
    <2> DEFINE all == AllRecorded(here, upTo)
    <2>3. all \in BOOLEAN /\ Reports(all)
      BY <2>2 DEF AllRecorded
    <2>4. all => (Readable(here) /\ InfoRows(here) \subseteq StatsRows(here))'
      BY <2>2, RecordedDir
    <2> HIDE DEF all
    <2>5. /\ report'[here] = [size |-> job.size, indexed |-> all]
          /\ \A d \in Dirs : d # here => report'[d] = report[d]
      BY <2>1, <2>3, ReportsDir
    <2>6. \A d \in Dirs : d # here => shards'[d] = shards[d] /\ index'[d] = index[d]
      BY <2>2 DEF RecordShards, TypeInv, TypeOK, StoreTypeOK
    <2>7. \A d \in Dirs : d # here => Indexed(d)'
      BY <1>0, <2>5, <2>6, IndexedSame
    <2>8. Indexed(here)'
      BY <2>4, <2>5 DEF Indexed
    <2>9. at' = "next"
      BY <1>8 DEF IndexShards, NextTarget
    <2>10. QED BY <2>7, <2>8, <2>9 DEF IndexTrue, Indexed, Unsaid, Rewriting
  <1>9. QED BY <1>1, <1>2, <1>3, <1>4, <1>5, <1>6, <1>7, <1>8 DEF Next

(* When a command has said that what it imported is indexed, every shard   *)
(* of that directory has a footer and a row that agrees with it, for any   *)
(* number of earlier imports that failed or were killed there.             *)
THEOREM IndexedShardsCounted == Spec => []IndexTrue
  <1>1. Init => IndexTrue /\ Unsaid
    BY DEF Init, IndexTrue, Unsaid, NoReports, Rewriting
  <1>2. QED BY AlwaysTyped, <1>1, NextIndexed, PTL DEF Spec

-----------------------------------------------------------------------------
(* The exit code tells the truth.                                          *)
(* What was obtained belongs to targets of the command.                    *)
LandedListed == \A target \in landed : \E k \in DOMAIN targets : targets[k] = target
Sound == Whole /\ LandedListed
Running == TypeInv /\ Sound /\ Truthful /\ at # "idle" /\ cmd.importing

LEMMA NextListed ==
    ASSUME TypeInv, LandedListed, [Next]_vars
    PROVE  LandedListed'
  <1>1. ASSUME UNCHANGED <<targets, landed>> PROVE LandedListed'
    BY <1>1 DEF LandedListed
  <1>2. ASSUME at \in Busy \/ \E name : Turn(name), NEW got, Lands(got), UNCHANGED targets
        PROVE  LandedListed'
    <2>1. i \in DOMAIN targets
      BY <1>2, InHandType DEF TypeInv, TypeOK, RunTypeOK
    <2>2. landed' \subseteq landed \cup {targets[i]}
      BY <1>2 DEF Lands
    <2>3. QED BY <1>2, <2>1, <2>2 DEF LandedListed
  <1>3. CASE UNCHANGED vars \/ Publish
    BY <1>1, <1>3 DEF vars, runVars, workVars, Publish
  <1>4. CASE BeginAcquire \/ BeginPull \/ BeginProcess \/ BeginRefresh
    BY <1>4, Beginning DEF LandedListed
  <1>5. CASE End \/ Kill \/ RefreshFetch \/ RefreshPrint \/ RefreshSave \/ RefreshSaved
    BY <1>1, <1>5 DEF End, Kill, RefreshFetch, RefreshPrint, RefreshSave, RefreshSaved, Goto, Return
  <1>6. CASE DownloadSubreddit \/ FetchRange \/ DownloadMonth \/ OpenDump
    <2>1. UNCHANGED targets /\ (at \in Busy \/ \E name : Turn(name))
      BY <1>6, OnTargetFrame DEF OnTarget, DownloadSubreddit, FetchRange, DownloadMonth, OpenDump, Busy
    <2>2. UNCHANGED landed \/ \E got : Lands(got)
      <3>1. CASE DownloadSubreddit \/ OpenDump
        BY <3>1 DEF DownloadSubreddit, OpenDump, Obtain
      <3>2. CASE FetchRange
        BY <3>2 DEF FetchRange, FetchError
      <3>3. CASE DownloadMonth
        <4>1. \/ UNCHANGED landed
              \/ \E n \in 0 .. MaxShards : Obtain(n)
          BY <3>3 DEF DownloadMonth
        <4>2. QED BY <4>1 DEF Obtain
      <3>4. QED BY <1>6, <3>1, <3>2, <3>3
    <2>3. QED BY <1>1, <1>2, <2>1, <2>2
  <1>7. CASE \/ CreateJSONL \/ CompressJSONL \/ ProcessFile \/ WriteShard \/ FinishShard
             \/ Imported \/ IndexShards
    BY <1>1, <1>7, OnTargetFrame
       DEF OnTarget, CreateJSONL, CompressJSONL, ProcessFile, WriteShard, FinishShard, Imported, IndexShards
  <1>8. QED BY <1>3, <1>4, <1>5, <1>6, <1>7 DEF Next

LEMMA InPlaceSame ==
    ASSUME NEW target, InPlace(target), UNCHANGED run,
           shards'[target.dir] = shards[target.dir], report'[target.dir] = report[target.dir]
    PROVE  InPlace(target)'
  BY DEF InPlace, Data, FileOf

(* Where the targets have directories of their own, what was obtained for  *)
(* the others is not in the directory at hand.                             *)
LEMMA OtherDirs ==
    ASSUME TypeInv, LandedListed, OwnDirs, i \in 1 .. Len(targets),
           NEW target \in landed, target # targets[i]
    PROVE  target.dir \in Dirs /\ target.dir # Dir
  <1>1. PICK k \in DOMAIN targets : targets[k] = target
    BY DEF LandedListed
  <1>2. i \in DOMAIN targets
    BY DEF TypeInv, TypeOK, RunTypeOK
  <1>3. target.dir # Dir
    BY <1>1, <1>2 DEF OwnDirs, Dir
  <1>4. QED BY <1>3 DEF TypeInv, TypeOK, WorkTypeOK, TargetSet

(* A command that stops without the codes that promise something, or that  *)
(* was not to import anything.                                             *)
LEMMA StoppedTruthful ==
    ASSUME at' = "idle", job' = NoJob, exit' \notin {"ok", "no data"} \/ ~cmd'.importing
    PROVE  Truthful'
  BY DEF Truthful, ExitTrue, UpToDate, Rewriting, Refreshing, NoJob

LEMMA ReturnTruthful ==
    ASSUME NEW code, Return(code), code \notin {"ok", "no data"} \/ ~cmd.importing
    PROVE  Truthful'
  BY StoppedTruthful DEF Return

LEMMA NotImportingTruthful ==
    ASSUME Truthful, at # "idle", ~cmd.importing, UNCHANGED <<cmd, exit>>,
           at' \notin Rewriting, job'.slot = 0,
           at' \in {"fetching", "compress"} => cmd.name = "acquire"
    PROVE  Truthful'
  BY DEF Truthful, ExitTrue, UpToDate, Rewriting

LEMMA OnErrorTruthful ==
    ASSUME TypeInv, Truthful, at # "idle", OnError, UNCHANGED landed
    PROVE  Truthful'
  <1>1. CASE cmd.name = "acquire"
    BY <1>1, ReturnTruthful DEF OnError
  <1>2. CASE cmd.name # "acquire"
    <2>1. /\ at' = "next" /\ job' = NoJob /\ UNCHANGED <<run, cmd, targets, exit>>
          /\ tally' = [tally EXCEPT !.failed = TRUE]
      BY <1>2 DEF OnError, NextTarget
    <2>2. tally'.failed /\ tally'.some = tally.some
      BY <2>1 DEF TypeInv, TypeOK, WorkTypeOK, Tallies
    <2>3. cmd.importing => ObtainedInPlace' /\ BehindDealt' /\ ObtainedCounted'
      BY <1>2, <2>1, <2>2 DEF ObtainedInPlace, BehindDealt, ObtainedCounted, Truthful
    <2>4. UpToDate' /\ ExitTrue' /\ exit' = "running"
      BY <2>1 DEF Truthful, ExitTrue, UpToDate, Rewriting, NoJob
    <2>5. QED BY <2>1, <2>3, <2>4 DEF Truthful, Refreshing
  <1>3. QED BY <1>1, <1>2

LEMMA TargetDirs ==
    ASSUME TypeOK, NEW k \in DOMAIN targets
    PROVE  k \in 1 .. Len(targets) /\ targets[k].dir \in Dirs
  <1>1. targets \in Seq(TargetSet)
    BY DEF TypeOK, RunTypeOK
  <1>2. k \in 1 .. Len(targets) /\ targets[k] \in TargetSet
    BY <1>1
  <1>3. QED BY <1>2 DEF TargetSet

(* A step of the conversion at hand, or towards it.                        *)
LEMMA StillInHand ==
    ASSUME Running, NEW here \in Dirs, here = Dir, i \in 1 .. Len(targets),
           UNCHANGED <<run, cmd, targets, i, exit>>,
           \A d \in Dirs : d # here => shards'[d] = shards[d] /\ report'[d] = report[d],
           at' \in Converting \cup {"compress"},
           at' \in Rewriting \/ (at \notin Rewriting /\ report'[here] = report[here]),
           at' = "compress" => cmd.name = "acquire",
           landed' \subseteq landed \cup {targets[i]}, missing \subseteq missing',
           tally'.failed = tally.failed,
           UpToDate', ObtainedCounted'
    PROVE  Truthful'
  <1>1. Dir' = here /\ exit' = "running"
    BY DEF Running, Truthful, Dir
  <1>2. ObtainedInPlace'
    <2>1. SUFFICES ASSUME OwnDirs, ~tally.failed, NEW target \in landed', target # targets[i]
                   PROVE  InPlace(target)'
      BY <1>1 DEF ObtainedInPlace, InHand, OwnDirs
    <2>2. target \in landed
      BY <2>1
    <2>3. InPlace(target)
      BY <2>1, <2>2 DEF InHand, Running, Truthful, ObtainedInPlace
    <2>4. target.dir \in Dirs /\ target.dir # here
      BY <2>1, <2>2, OtherDirs DEF Running, Sound
    <2>5. QED BY <2>3, <2>4, InPlaceSame
  <1>3. BehindDealt'
    <2>1. SUFFICES ASSUME cmd.name # "acquire", ~tally.failed, NEW k \in DOMAIN targets, k < i
                   PROVE  Dealt(targets[k])' \/ (targets[k].dir = here /\ at' \in Rewriting)
      BY <1>1 DEF BehindDealt
    <2>2. Dealt(targets[k]) \/ (targets[k].dir = here /\ at \in Rewriting)
      BY <2>1 DEF Running, Truthful, BehindDealt
    <2>3. targets[k].dir \in Dirs
      BY TargetDirs DEF Running, TypeInv
    <2>4. QED BY <2>2, <2>3 DEF Dealt
  <1>4. QED BY <1>1, <1>2, <1>3 DEF Truthful, ExitTrue, Running, Converting, Refreshing

(* Going on to the next target.                                            *)
LEMMA OnToNext ==
    ASSUME Running, NEW here \in Dirs, here = Dir, NEW mine, mine = targets[i],
           i \in 1 .. Len(targets), NextTarget,
           \A d \in Dirs : d # here => shards'[d] = shards[d] /\ report'[d] = report[d],
           landed' \subseteq landed \cup {mine}, missing \subseteq missing',
           tally'.failed = tally.failed,
           OwnDirs /\ mine \in landed' => InPlace(mine)',
           \/ cmd.name = "acquire"
           \/ report'[here] # NoReport
           \/ targets[i].month \in missing' /\ at \notin Rewriting /\ report'[here] = report[here],
           ObtainedCounted'
    PROVE  Truthful'
  <1>1. /\ at' = "next" /\ i' = i + 1 /\ job' = NoJob /\ exit' = "running"
        /\ UNCHANGED <<run, cmd, targets>>
    BY DEF Running, Truthful, NextTarget
  <1>2. ObtainedInPlace'
    <2>1. SUFFICES ASSUME OwnDirs, ~tally.failed, NEW target \in landed', target # mine
                   PROVE  InPlace(target)'
      BY <1>1 DEF ObtainedInPlace, OwnDirs
    <2>2. target \in landed /\ target # targets[i]
      BY <2>1
    <2>3. InPlace(target)
      BY <2>1, <2>2 DEF InHand, Running, Truthful, ObtainedInPlace
    <2>4. target.dir \in Dirs /\ target.dir # here
      BY <2>1, <2>2, OtherDirs DEF Running, Sound
    <2>5. QED BY <1>1, <2>3, <2>4, InPlaceSame
  <1>3. BehindDealt'
    <2>1. SUFFICES ASSUME cmd.name # "acquire", ~tally.failed, NEW k \in DOMAIN targets, k < i + 1
                   PROVE  Dealt(targets[k])'
      BY <1>1 DEF BehindDealt
    <2>2. targets[k].dir \in Dirs /\ k \in 1 .. Len(targets) /\ targets[i].dir = here
      BY TargetDirs DEF Running, TypeInv, Dir
    <2>3. CASE k = i
      BY <2>1, <2>2, <2>3, <1>1 DEF Dealt
    <2>4. CASE k # i
      <3>1. k < i
        BY <2>1, <2>2, <2>4
      <3>2. Dealt(targets[k]) \/ (targets[k].dir = here /\ at \in Rewriting)
        BY <2>1, <3>1 DEF Running, Truthful, BehindDealt
      <3>3. QED BY <1>1, <2>1, <2>2, <3>2 DEF Dealt
    <2>5. QED BY <2>3, <2>4
  <1>4. UpToDate'
    BY <1>1 DEF UpToDate, Rewriting, NoJob
  <1>5. QED BY <1>1, <1>2, <1>3, <1>4 DEF Truthful, ExitTrue, Refreshing

(* Between targets, what was obtained is in place, and was counted.        *)
LEMMA BetweenTargets ==
    ASSUME Running, at = "next"
    PROVE  /\ OwnDirs /\ ~tally.failed => \A target \in landed : InPlace(target)
           /\ landed # {} /\ ~tally.some => cmd.name = "process"
           /\ job.slot = 0
  BY DEF Running, Truthful, ObtainedInPlace, InHand, ObtainedCounted, UpToDate, Converting, Rewriting

(* Obtaining data and going on to convert it.                              *)
LEMMA ObtainTruthful ==
    ASSUME Running, at = "next", NEW n \in 0 .. MaxShards, Obtain(n), Goto("import"),
           i \in 1 .. Len(targets), UNCHANGED <<shards, report>>, missing \subseteq missing',
           tally'.failed = tally.failed, tally.some => tally'.some,
           cmd.name \in {"acquire", "process"} \/ tally'.some
    PROVE  Truthful'
  <1>1. PICK here \in Dirs : here = Dir
    BY Current DEF Running, TypeInv
  <1>2. landed' \subseteq landed \cup {targets[i]} /\ (landed' # landed => n > 0)
        /\ job'.size = n /\ job'.slot = 0
    BY <1>1 DEF Obtain, Lands
  <1>3. at' = "import" /\ UNCHANGED <<run, cmd, targets, i, exit>>
    BY DEF Goto
  <1>4. UpToDate'
    BY <1>2, <1>3 DEF UpToDate, Rewriting
  <1>5. ObtainedCounted'
    <2>1. SUFFICES ASSUME landed' # {}, ~tally'.some, cmd.name = "acquire"
                   PROVE  n > 0
      BY <1>2, <1>3 DEF ObtainedCounted, Converting
    <2>2. landed = {}
      BY <2>1, BetweenTargets
    <2>3. QED BY <1>2, <2>1, <2>2
  <1>6. at' \in Converting \cup {"compress"} /\ at \notin Rewriting
    BY <1>3 DEF Converting, Rewriting
  <1>7. QED BY <1>1, <1>2, <1>3, <1>4, <1>5, <1>6, StillInHand

LEMMA DownloadSubredditTruthful ==
    ASSUME TypeInv, Sound, Truthful, DownloadSubreddit
    PROVE  Truthful'
  <1>1. at = "next" /\ cmd.name = "acquire" /\ i \in 1 .. Len(targets)
    BY InHandType DEF DownloadSubreddit, Turn
  <1>2. CASE OnError /\ UNCHANGED landed
    BY <1>1, <1>2, OnErrorTruthful
  <1>3. CASE cmd.importing /\ UNCHANGED tally /\ \E n \in 0 .. MaxShards : Obtain(n) /\ Goto("import")
    <2>1. Running
      BY <1>1, <1>3 DEF Running
    <2>2. UNCHANGED <<shards, report, missing>>
      BY DEF DownloadSubreddit, storeVars
    <2>3. QED BY <1>1, <1>3, <2>1, <2>2, ObtainTruthful
  <1>4. CASE ~cmd.importing /\ NextTarget
    BY <1>1, <1>4, NotImportingTruthful DEF NextTarget, NoJob, Rewriting
  <1>5. QED BY <1>2, <1>3, <1>4 DEF DownloadSubreddit

LEMMA CreateJSONLTruthful ==
    ASSUME TypeInv, Sound, Truthful, CreateJSONL
    PROVE  Truthful'
  <1>1. at = "next" /\ cmd.name = "acquire" /\ UNCHANGED <<landed, report, shards>>
    BY DEF CreateJSONL, Turn, storeVars
  <1>2. CASE OnError
    BY <1>1, <1>2, OnErrorTruthful
  <1>3. CASE Goto("fetching") /\ UNCHANGED <<job, tally>>
    <2>1. at' = "fetching" /\ exit' = "running" /\ UNCHANGED <<run, cmd, targets, i, job, tally>>
      BY <1>1, <1>3 DEF Goto, Truthful
    <2>2. ASSUME cmd.importing
          PROVE  ObtainedInPlace' /\ BehindDealt' /\ ObtainedCounted'
      <3>1. OwnDirs /\ ~tally.failed => \A target \in landed : InPlace(target)
        BY <1>1, <2>2, BetweenTargets DEF Running
      <3>2. ObtainedInPlace'
        BY <1>1, <2>1, <3>1, InPlaceSame DEF ObtainedInPlace, OwnDirs
      <3>3. landed # {} => tally.some
        BY <1>1, <2>2, BetweenTargets DEF Running
      <3>4. QED BY <1>1, <2>1, <3>2, <3>3 DEF BehindDealt, ObtainedCounted
    <2>3. UpToDate'
      BY <1>1, <2>1 DEF Truthful, UpToDate, Rewriting
    <2>4. QED BY <1>1, <2>1, <2>2, <2>3 DEF Truthful, ExitTrue, Refreshing
  <1>4. QED BY <1>2, <1>3 DEF CreateJSONL

LEMMA FetchRangeTruthful ==
    ASSUME TypeInv, Sound, Truthful, FetchRange
    PROVE  Truthful'
  <1>1. /\ at = "fetching" /\ cmd.name = "acquire" /\ job.slot = 0 /\ job \in Jobs
        /\ UNCHANGED <<report, shards, missing>>
    BY DEF FetchRange, Truthful, UpToDate, Rewriting, storeVars, TypeInv, TypeOK, WorkTypeOK
  <1>2. i \in 1 .. Len(targets) /\ Dir \in Dirs
    BY <1>1, InHandType DEF Busy
  <1>3. CASE FetchError
    BY <1>3, ReturnTruthful DEF FetchError
  <1>4. ASSUME NEW n \in 0 .. MaxShards, ~cmd.importing, NextTarget
        PROVE  Truthful'
    BY <1>1, <1>4, NotImportingTruthful DEF NextTarget, NoJob, Rewriting
  <1>5. ASSUME NEW some \in BOOLEAN, NEW n \in 0 .. MaxShards, n > 0 => some, cmd.importing,
               Lands(n > 0),
               IF some THEN Counts ELSE UNCHANGED tally,
               IF ~some THEN NextTarget ELSE Goto("compress") /\ job' = [job EXCEPT !.size = n]
        PROVE  Truthful'
    <2>1. Running
      BY <1>1, <1>5 DEF Running
    <2>2. PICK here \in Dirs : here = Dir
      BY <1>2
    <2>3. tally'.failed = tally.failed /\ (some => tally'.some)
      BY <1>5 DEF Counts, TypeInv, TypeOK, WorkTypeOK, Tallies
    <2>4. landed # {} => tally.some
      BY <1>1, <2>1 DEF Running, Truthful, ObtainedCounted, Converting
    <2>5. CASE ~some
      <3>1. landed' = landed /\ UNCHANGED tally /\ NextTarget
        BY <1>5, <2>5 DEF Lands
      <3>2. ObtainedCounted'
        BY <2>4, <3>1 DEF ObtainedCounted
      <3>3. at' = "next" /\ exit' = "running" /\ job' = NoJob /\ UNCHANGED <<run, cmd, targets>>
        BY <2>1, <3>1 DEF NextTarget, Running, Truthful
      <3>4. ObtainedInPlace'
        <4>1. OwnDirs /\ ~tally.failed => \A target \in landed : InPlace(target)
          BY <1>1, <2>1 DEF Running, Truthful, ObtainedInPlace, InHand, Converting
        <4>2. QED BY <1>1, <3>1, <3>3, <4>1, InPlaceSame DEF ObtainedInPlace, OwnDirs
      <3>5. BehindDealt' /\ UpToDate'
        BY <1>1, <3>3 DEF BehindDealt, UpToDate, Rewriting, NoJob
      <3>6. QED BY <3>2, <3>3, <3>4, <3>5 DEF Truthful, ExitTrue, Refreshing
    <2>6. CASE some
      <3>1. at' = "compress" /\ UNCHANGED <<run, cmd, targets, i, exit>>
        BY <1>5, <2>6 DEF Goto
      <3>2. job'.slot = 0
        BY <1>1, <1>5, <2>6 DEF Jobs
      <3>3. UpToDate' /\ ObtainedCounted'
        BY <2>3, <2>6, <3>1, <3>2 DEF UpToDate, Rewriting, ObtainedCounted
      <3>4. /\ at' \in Converting \cup {"compress"} /\ at \notin Rewriting
            /\ landed' \subseteq landed \cup {targets[i]}
        BY <1>1, <1>5, <3>1 DEF Converting, Rewriting, Lands
      <3>5. QED BY <1>1, <1>2, <2>1, <2>2, <2>3, <3>1, <3>3, <3>4, StillInHand
    <2>7. QED BY <2>5, <2>6
  <1>6. QED BY <1>3, <1>4, <1>5 DEF FetchRange

LEMMA CompressJSONLTruthful ==
    ASSUME TypeInv, Sound, Truthful, CompressJSONL
    PROVE  Truthful'
  <1>1. /\ at = "compress" /\ cmd.name = "acquire" /\ job.slot = 0 /\ job \in Jobs
        /\ UNCHANGED <<report, shards, missing, landed>>
    BY DEF CompressJSONL, Truthful, UpToDate, Rewriting, storeVars, TypeInv, TypeOK, WorkTypeOK
  <1>2. i \in 1 .. Len(targets) /\ Dir \in Dirs
    BY <1>1, InHandType DEF Busy
  <1>3. CASE OnError
    BY <1>1, <1>3, OnErrorTruthful
  <1>4. CASE job' = [job EXCEPT !.data = raw[Type]] /\ Goto("import") /\ UNCHANGED tally
    <2>1. at' = "import" /\ UNCHANGED <<run, cmd, targets, i, exit, tally>> /\ job'.slot = 0
      BY <1>1, <1>4 DEF Goto, Jobs
    <2>2. CASE ~cmd.importing
      BY <1>1, <2>1, <2>2, NotImportingTruthful DEF Rewriting
    <2>3. CASE cmd.importing
      <3>1. Running
        BY <1>1, <2>3 DEF Running
      <3>2. PICK here \in Dirs : here = Dir
        BY <1>2
      <3>3. landed # {} => tally.some
        BY <1>1, <3>1 DEF Running, Truthful, ObtainedCounted, Converting
      <3>4. UpToDate' /\ ObtainedCounted'
        BY <1>1, <2>1, <3>3 DEF UpToDate, Rewriting, ObtainedCounted
      <3>5. at' \in Converting \cup {"compress"} /\ at \notin Rewriting
        BY <1>1, <2>1 DEF Converting, Rewriting
      <3>6. QED BY <1>1, <1>2, <2>1, <3>1, <3>2, <3>4, <3>5, StillInHand
    <2>4. QED BY <2>2, <2>3
  <1>5. QED BY <1>3, <1>4 DEF CompressJSONL

LEMMA DownloadMonthTruthful ==
    ASSUME TypeInv, Sound, Truthful, DownloadMonth
    PROVE  Truthful'
  <1>1. /\ at = "next" /\ cmd.name = "pull" /\ i \in 1 .. Len(targets) /\ Dir \in Dirs
        /\ UNCHANGED <<shards, report>>
    BY InHandType DEF DownloadMonth, Turn, storeVars
  <1>2. CASE OnError /\ UNCHANGED landed
    BY <1>1, <1>2, OnErrorTruthful
  <1>3. CASE /\ missing' = missing \cup {targets[i].month}
             /\ NextTarget /\ UNCHANGED <<dumps, landed, tally>>
    <2>1. CASE ~cmd.importing
      BY <1>1, <1>3, <2>1, NotImportingTruthful DEF NextTarget, NoJob, Rewriting
    <2>2. CASE cmd.importing
      <3>1. Running
        BY <1>1, <2>2 DEF Running
      <3>2. PICK here \in Dirs : here = Dir
        BY <1>1
      <3>3. CASE tally.failed
        <4>1. /\ at' = "next" /\ job' = NoJob /\ exit' = "running" /\ UNCHANGED <<cmd, tally, landed>>
          BY <1>3, <3>1 DEF NextTarget, Running, Truthful
        <4>2. landed # {} => tally.some
          BY <1>1, <3>1, BetweenTargets
        <4>3. ObtainedInPlace' /\ BehindDealt' /\ ObtainedCounted' /\ UpToDate'
          BY <3>3, <4>1, <4>2 DEF ObtainedInPlace, BehindDealt, ObtainedCounted, UpToDate, Rewriting, NoJob
        <4>4. QED BY <4>1, <4>3 DEF Truthful, ExitTrue, Refreshing
      <3>4. CASE ~tally.failed
        <4>0. PICK mine : mine = targets[i]
          OBVIOUS
        <4>1. /\ run' = run /\ (landed # {} => tally.some)
              /\ OwnDirs => \A target \in landed : InPlace(target)
          BY <1>1, <1>3, <3>1, <3>4, BetweenTargets DEF NextTarget
        <4>2. ObtainedCounted'
          BY <1>3, <4>1 DEF ObtainedCounted
        <4>3. OwnDirs /\ mine \in landed' => InPlace(mine)'
          BY <1>1, <1>3, <4>1, InPlaceSame
        <4>4. targets[i].month \in missing' /\ at \notin Rewriting
          BY <1>1, <1>3 DEF Rewriting
        <4>5. QED BY <1>1, <1>3, <3>1, <3>2, <4>0, <4>2, <4>3, <4>4, OnToNext
      <3>5. QED BY <3>3, <3>4 DEF TypeInv, TypeOK, WorkTypeOK, Tallies
    <2>3. QED BY <2>1, <2>2
  <1>4. CASE /\ Counts /\ UNCHANGED missing
             /\ IF cmd.importing
                THEN (\E n \in 0 .. MaxShards : Obtain(n)) /\ Goto("import")
                ELSE NextTarget /\ UNCHANGED landed
    <2>1. CASE ~cmd.importing
      BY <1>1, <1>4, <2>1, NotImportingTruthful DEF NextTarget, NoJob, Rewriting
    <2>2. CASE cmd.importing
      <3>1. Running
        BY <1>1, <2>2 DEF Running
      <3>2. tally'.failed = tally.failed /\ tally'.some
        BY <1>4 DEF Counts, TypeInv, TypeOK, WorkTypeOK, Tallies
      <3>3. QED BY <1>1, <1>4, <2>2, <3>1, <3>2, ObtainTruthful
    <2>3. QED BY <2>1, <2>2
  <1>5. QED BY <1>2, <1>3, <1>4 DEF DownloadMonth

LEMMA OpenDumpTruthful ==
    ASSUME TypeInv, Sound, Truthful, OpenDump
    PROVE  Truthful'
  <1>1. at = "next" /\ cmd.name = "process" /\ i \in 1 .. Len(targets)
        /\ UNCHANGED <<shards, report, missing>>
    BY InHandType DEF OpenDump, Turn, storeVars
  <1>2. CASE OnError /\ UNCHANGED landed
    BY <1>1, <1>2, OnErrorTruthful
  <1>3. CASE (\E n \in 0 .. MaxShards : Obtain(n)) /\ Goto("import") /\ UNCHANGED tally
    <2>1. CASE cmd.importing
      BY <1>1, <1>3, <2>1, ObtainTruthful DEF Running
    <2>2. CASE ~cmd.importing
      <3>1. at' = "import" /\ job'.slot = 0 /\ UNCHANGED <<cmd, exit>>
        BY <1>3 DEF Goto, Obtain
      <3>2. QED BY <1>1, <2>2, <3>1, NotImportingTruthful DEF Rewriting
    <2>3. QED BY <2>1, <2>2
  <1>4. QED BY <1>2, <1>3 DEF OpenDump

(* A step from one stage of the conversion to another.                     *)
LEMMA ConversionTruthful ==
    ASSUME TypeInv, Sound, Truthful, NEW here \in Dirs, here = Dir, i \in 1 .. Len(targets),
           UNCHANGED <<run, cmd, targets, i, exit, tally, landed, missing>>,
           at \in Converting, at' \in Rewriting,
           \A d \in Dirs : d # here => shards'[d] = shards[d] /\ report'[d] = report[d],
           job'.size = job.size, UpToDate'
    PROVE  Truthful'
  <1>1. at # "idle" /\ at' \in Converting /\ at' \notin {"idle", "compress", "fetching"}
        /\ at' \notin Refreshing /\ exit' = "running"
    BY DEF Converting, Rewriting, Refreshing, Truthful
  <1>2. CASE cmd.importing
    <2>1. Running
      BY <1>1, <1>2 DEF Running
    <2>2. ObtainedCounted'
      BY <1>1, <2>1 DEF Running, Truthful, ObtainedCounted
    <2>3. QED BY <1>1, <2>1, <2>2, StillInHand
  <1>3. CASE ~cmd.importing
    BY <1>1, <1>3 DEF Truthful, ExitTrue
  <1>4. QED BY <1>2, <1>3

LEMMA ProcessFileTruthful ==
    ASSUME TypeInv, Sound, Truthful, ProcessFile
    PROVE  Truthful'
  <1>1. /\ at = "import" /\ at \in Converting /\ UNCHANGED <<shards, landed, missing>>
        /\ i \in 1 .. Len(targets) /\ Dir \in Dirs
    BY InHandType DEF ProcessFile, Converting, Busy, storeVars
  <1>2. PICK here \in Dirs : here = Dir
    BY <1>1
  <1>3. CASE OnError
    BY <1>1, <1>3, OnErrorTruthful
  <1>4. CASE Goto("writing") /\ UNCHANGED <<job, tally>>
    <2>1. at' = "writing" /\ UNCHANGED <<run, cmd, targets, i, exit, job, tally>>
      BY <1>4 DEF Goto
    <2>2. \A d \in Dirs : d # here => shards'[d] = shards[d] /\ report'[d] = report[d]
      BY <1>1, <1>2 DEF ProcessFile, TypeInv, TypeOK, WorkTypeOK
    <2>3. job.slot = 0 /\ job.slot <= job.size
      BY <1>1, Constants DEF Truthful, UpToDate, Rewriting, TypeInv, TypeOK, WorkTypeOK, Jobs
    <2>4. UpToDate'
      BY <2>1, <2>3 DEF UpToDate, Rewriting
    <2>5. QED BY <1>1, <1>2, <2>1, <2>2, <2>4, ConversionTruthful DEF Rewriting
  <1>5. QED BY <1>3, <1>4 DEF ProcessFile

LEMMA WriteShardTruthful ==
    ASSUME TypeInv, Sound, Truthful, WriteShard
    PROVE  Truthful'
  <1>1. /\ at = "writing" /\ at \in Converting /\ UNCHANGED <<landed, missing, report>>
        /\ i \in 1 .. Len(targets) /\ Dir \in Dirs
    BY InHandType DEF WriteShard, Converting, Busy
  <1>2. PICK here \in Dirs : here = Dir
    BY <1>1
  <1>3. CASE OnError
    BY <1>1, <1>3, OnErrorTruthful
  <1>4. CASE /\ job.slot < job.size
             /\ OpenShard(Dir, job.slot) /\ Goto("closing") /\ UNCHANGED <<job, tally>>
    <2>1. at' = "closing" /\ UNCHANGED <<run, cmd, targets, i, exit, job, tally>> /\ Dir' = here
      BY <1>2, <1>4 DEF Goto, Dir
    <2>2. \A d \in Dirs : d # here => shards'[d] = shards[d] /\ report'[d] = report[d]
      BY <1>1, <1>2, <1>4 DEF OpenShard, SetShard, TypeInv, TypeOK, StoreTypeOK
    <2>3. job.slot \in Nat /\ job.slot - 1 < MaxShards /\ job.slot <= job.size
      BY <1>1, Constants DEF Truthful, UpToDate, Rewriting, TypeInv, TypeOK, WorkTypeOK, Jobs
    <2>4. \A n \in 0 .. job.slot - 1 : shards'[here][n] = shards[here][n]
      <3>1. \A n \in 0 .. job.slot - 1 : n \in Slots /\ n # job.slot
        BY <2>3, Constants DEF Slots
      <3>2. QED BY <1>2, <1>4, <3>1 DEF OpenShard, SetShard, TypeInv, TypeOK, StoreTypeOK
    <2>5. UpToDate'
      <3>1. Data(targets[i])' = Data(targets[i])
        BY <1>4, Staying
      <3>2. QED BY <1>1, <1>2, <2>1, <2>3, <2>4, <3>1 DEF Truthful, UpToDate, Rewriting
    <2>6. QED BY <1>1, <1>2, <2>1, <2>2, <2>5, ConversionTruthful DEF Rewriting
  <1>5. QED BY <1>3, <1>4 DEF WriteShard

LEMMA FinishShardTruthful ==
    ASSUME TypeInv, Sound, Truthful, FinishShard
    PROVE  Truthful'
  <1>1. /\ at = "closing" /\ at \in Converting /\ UNCHANGED <<landed, missing, report>>
        /\ i \in 1 .. Len(targets) /\ Dir \in Dirs /\ job \in Jobs
    BY InHandType DEF FinishShard, Converting, Busy, TypeInv, TypeOK, WorkTypeOK
  <1>2. PICK here \in Dirs : here = Dir
    BY <1>1
  <1>3. CASE OnError
    BY <1>1, <1>3, OnErrorTruthful
  <1>4. CASE /\ CloseShard(Dir, job.slot, job.data)
             /\ job' = [job EXCEPT !.slot = job.slot + 1]
             /\ Goto("writing") /\ UNCHANGED tally
    <2>1. at' = "writing" /\ UNCHANGED <<run, cmd, targets, i, exit, tally>> /\ Dir' = here
      BY <1>2, <1>4 DEF Goto, Dir
    <2>2. \A d \in Dirs : d # here => shards'[d] = shards[d] /\ report'[d] = report[d]
      BY <1>1, <1>2, <1>4 DEF CloseShard, SetShard, TypeInv, TypeOK, StoreTypeOK
    <2>3. job.slot < job.size /\ job.slot \in Slots /\ job.slot \in Nat /\ job.size \in Nat
      BY <1>1, SlotAtHand, Constants DEF TypeInv, Working, Jobs
    <2>4. job'.slot = job.slot + 1 /\ job'.size = job.size
      BY <1>1, <1>4 DEF Jobs
    <2> DEFINE mine == Data(targets[i])
    <2>5. shards'[here][job.slot] = mine
          /\ \A n \in Slots : n # job.slot => shards'[here][n] = shards[here][n]
      BY <1>1, <1>2, <1>4, <2>3 DEF CloseShard, SetShard, TypeInv, TypeOK, StoreTypeOK, Sound, Whole
    <2>6. \A n \in 0 .. job'.slot - 1 : shards'[here][n] = mine
      <3>1. SUFFICES ASSUME NEW n \in 0 .. job.slot - 1 PROVE shards'[here][n] = mine
        BY <2>3, <2>4, <2>5
      <3>2. n \in Slots /\ n # job.slot
        BY <2>3, Constants DEF Slots
      <3>3. shards[here][n] = mine
        BY <1>1, <1>2 DEF Truthful, UpToDate, Rewriting
      <3>4. QED BY <2>5, <3>2, <3>3
    <2>7. UpToDate'
      <3>1. mine' = mine
        BY <1>4, Staying
      <3> HIDE DEF mine
      <3>2. \A n \in 0 .. job'.slot - 1 : shards'[Dir'][n] = mine'
        BY <2>1, <2>6, <3>1
      <3>3. QED BY <2>1, <2>3, <2>4, <3>2 DEF UpToDate, Rewriting, mine
    <2>8. QED BY <1>1, <1>2, <2>1, <2>2, <2>4, <2>7, ConversionTruthful DEF Rewriting
  <1>5. QED BY <1>3, <1>4 DEF FinishShard

(* A conversion that is complete is in place once it is reported.          *)
LEMMA CompleteInPlace ==
    ASSUME TypeInv, Truthful, NEW here \in Dirs, here = Dir, NEW mine, mine = targets[i],
           at \in Rewriting, job.slot = job.size,
           NEW indexed \in BOOLEAN, Reports(indexed), UNCHANGED <<shards, run>>
    PROVE  /\ report'[here] # NoReport /\ InPlace(mine)'
           /\ \A d \in Dirs : d # here => report'[d] = report[d]
  <1>1. /\ report'[here] = [size |-> job.size, indexed |-> indexed]
        /\ \A d \in Dirs : d # here => report'[d] = report[d]
        /\ report'[here] # NoReport
    BY ReportsDir
  <1>2. mine.dir = here /\ \A n \in 0 .. job.size - 1 : shards[here][n] = Data(mine)
    BY DEF Truthful, UpToDate, Dir
  <1>3. report'[here].size = job.size
    BY <1>1
  <1>4. InPlace(mine)'
    BY <1>1, <1>2, <1>3 DEF InPlace, Data, FileOf
  <1>5. QED BY <1>1, <1>4

LEMMA ImportedTruthful ==
    ASSUME TypeInv, Sound, Truthful, Imported
    PROVE  Truthful'
  <1>1. /\ at = "writing" /\ at \in Converting /\ at \in Rewriting /\ job.slot = job.size
        /\ UNCHANGED <<shards, landed, missing, tally>>
        /\ i \in 1 .. Len(targets) /\ Dir \in Dirs
    BY InHandType DEF Imported, Converting, Rewriting, Busy, storeVars
  <1>2. PICK here \in Dirs : here = Dir
    BY <1>1
  <1>2a. PICK mine : mine = targets[i]
    OBVIOUS
  <1>3. CASE cmd.name = "process" /\ Reports(FALSE) /\ NextTarget
    <2>1. CASE ~cmd.importing
      BY <1>1, <1>3, <2>1, NotImportingTruthful DEF NextTarget, NoJob, Rewriting
    <2>2. CASE cmd.importing
      <3>1. Running
        BY <1>1, <2>2 DEF Running
      <3>2. /\ report'[here] # NoReport /\ InPlace(mine)'
            /\ \A d \in Dirs : d # here => report'[d] = report[d]
        <4>1. UNCHANGED <<shards, run>>
          BY <1>1, <1>3 DEF NextTarget
        <4>2. QED BY <1>1, <1>2, <1>2a, <1>3, <4>1, CompleteInPlace
      <3>3. ObtainedCounted'
        BY <1>3 DEF ObtainedCounted, NextTarget
      <3>4. QED BY <1>1, <1>2, <1>2a, <1>3, <3>1, <3>2, <3>3, OnToNext
    <2>3. QED BY <2>1, <2>2
  <1>4. CASE Goto("index") /\ UNCHANGED <<report, job>>
    <2>1. /\ at' = "index" /\ UNCHANGED <<run, cmd, targets, i, exit>> /\ Dir' = Dir
          /\ Data(targets[i])' = Data(targets[i])
      BY <1>4, Staying
    <2>2. UpToDate'
      BY <1>1, <1>4, <2>1 DEF Truthful, UpToDate, Rewriting
    <2>3. QED BY <1>1, <1>2, <1>4, <2>1, <2>2, ConversionTruthful DEF Rewriting
  <1>5. QED BY <1>3, <1>4 DEF Imported

LEMMA IndexShardsTruthful ==
    ASSUME TypeInv, Sound, Truthful, IndexShards
    PROVE  Truthful'
  <1>1. /\ at = "index" /\ at \in Rewriting /\ job.slot = job.size /\ NextTarget
        /\ UNCHANGED <<shards, landed, missing>>
        /\ i \in 1 .. Len(targets) /\ Dir \in Dirs
    BY InHandType DEF IndexShards, RecordShards, Rewriting, Busy, Truthful, UpToDate
  <1>2. PICK here \in Dirs : here = Dir
    BY <1>1
  <1>2a. PICK mine : mine = targets[i]
    OBVIOUS
  <1>3. CASE ~cmd.importing
    BY <1>1, <1>3, NotImportingTruthful DEF NextTarget, NoJob, Rewriting
  <1>4. CASE cmd.importing
    <2>1. Running
      BY <1>1, <1>4 DEF Running
    <2>2. PICK indexed \in BOOLEAN : Reports(indexed)
      BY DEF IndexShards, AllRecorded
    <2>3. /\ report'[here] # NoReport /\ InPlace(mine)'
          /\ \A d \in Dirs : d # here => report'[d] = report[d]
      <3>1. UNCHANGED <<shards, run>>
        BY <1>1 DEF NextTarget
      <3>2. QED BY <1>1, <1>2, <1>2a, <2>2, <3>1, CompleteInPlace
    <2>4. /\ tally'.failed = tally.failed /\ (tally.some => tally'.some)
          /\ (cmd.name = "acquire" /\ job.size > 0 => tally'.some)
      BY DEF IndexShards, Counts, TypeInv, TypeOK, WorkTypeOK, Tallies
    <2>5. ObtainedCounted'
      <3>1. landed # {} /\ ~tally.some => \/ cmd.name = "process"
                                          \/ cmd.name = "acquire" /\ job.size > 0
        BY <2>1 DEF Running, Truthful, ObtainedCounted
      <3>2. UNCHANGED <<cmd, landed>>
        BY <1>1 DEF NextTarget
      <3>3. QED BY <2>4, <3>1, <3>2 DEF ObtainedCounted
    <2>6. QED BY <1>1, <1>2, <1>2a, <2>1, <2>3, <2>4, <2>5, OnToNext
  <1>5. QED BY <1>3, <1>4

LEMMA EndTruthful ==
    ASSUME TypeInv, Truthful, Failing, End
    PROVE  Truthful'
  <1>1. /\ at = "next" /\ i > Len(targets) /\ Return(ExitCode)
        /\ at' = "idle" /\ job' = NoJob /\ exit' = ExitCode
        /\ UNCHANGED <<shards, report, landed, missing, run, cmd, targets>>
    BY DEF End, Return, storeVars
  <1>2. CASE ~cmd.importing
    BY <1>1, <1>2, StoppedTruthful
  <1>3. CASE cmd.importing
    <2>1. /\ OwnDirs /\ ~tally.failed => \A target \in landed : InPlace(target)
          /\ landed # {} /\ ~tally.some => cmd.name = "process"
      BY <1>1, <1>3 DEF Truthful, ObtainedInPlace, InHand, ObtainedCounted, Converting
    <2>2. cmd.name # "acquire" /\ ~tally.failed => \A k \in DOMAIN targets : Dealt(targets[k])
      <3>1. \A k \in DOMAIN targets : k < i
        <4>1. Len(targets) \in Nat /\ i \in Nat /\ DOMAIN targets = 1 .. Len(targets)
          BY DEF TypeInv, TypeOK, RunTypeOK
        <4>2. QED BY <1>1, <4>1
      <3>2. QED BY <1>1, <1>3, <3>1 DEF Truthful, BehindDealt, Rewriting
    <2>3. cmd.name \in {"acquire", "pull", "process"} /\ (cmd.name = "acquire" => ~tally.failed)
      BY <1>1 DEF Failing, End
    <2>4. /\ ExitCode = "ok" => ~tally.failed
          /\ ExitCode = "no data" => cmd.name # "process" /\ ~tally.some
      BY <2>3, Zenon DEF ExitCode
    <2>5. exit' = "ok" => /\ OwnDirs' => \A target \in landed' : InPlace(target)'
                          /\ cmd'.name # "acquire" => \A k \in DOMAIN targets' : Dealt(targets[k])'
      BY <1>1, <2>1, <2>2, <2>4, InPlaceSame DEF OwnDirs, Dealt
    <2>6. exit' = "no data" => landed' = {}
      BY <1>1, <2>1, <2>4
    <2>7. ExitTrue'
      BY <1>1, <2>5, <2>6 DEF ExitTrue
    <2>8. QED BY <1>1, <2>7 DEF Truthful, UpToDate, Rewriting, Refreshing, NoJob
  <1>4. QED BY <1>2, <1>3

(* Only pull and process go on after a failure.                            *)
LEMMA NextFailing ==
    ASSUME TypeInv, Failing, [Next]_vars
    PROVE  Failing'
  <1>0. tally \in Tallies
    BY DEF TypeInv, TypeOK, WorkTypeOK
  <1>1. CASE UNCHANGED vars
    BY <1>1 DEF vars, runVars, workVars, Failing
  <1>2. CASE Publish
    BY <1>2 DEF Publish, runVars, workVars, Failing
  <1>3. CASE BeginAcquire \/ BeginPull \/ BeginProcess \/ BeginRefresh
    <2>1. at = "idle" /\ at' \in {"next", "fetch page"} /\ UNCHANGED tally
      BY <1>3, Beginning
    <2>2. at' = "next" => cmd'.name \in {"acquire", "pull", "process"}
      <3>1. CASE BeginAcquire
        BY <3>1 DEF BeginAcquire, BeginImport, Begin, Command
      <3>2. CASE BeginPull
        BY <3>2 DEF BeginPull, BeginImport, Begin, Command
      <3>3. CASE BeginProcess
        BY <3>3 DEF BeginProcess, BeginImport, Begin, Command
      <3>4. CASE BeginRefresh
        BY <3>4 DEF BeginRefresh, Begin
      <3>5. QED BY <1>3, <3>1, <3>2, <3>3, <3>4
    <2>3. QED BY <2>1, <2>2 DEF Failing, Busy
  <1>4. ASSUME NEW code, Return(code)
        PROVE  Failing'
    BY <1>4 DEF Return, Failing, Busy, NoTally
  <1>5. CASE End \/ Kill
    BY <1>4, <1>5 DEF End, Kill
  <1>6. CASE RefreshFetch \/ RefreshPrint \/ RefreshSave \/ RefreshSaved
    <2>1. \/ \E stage \in {"fetched", "saving"} : Goto(stage) /\ UNCHANGED tally
          \/ \E code : Return(code)
      BY <1>6 DEF RefreshFetch, RefreshPrint, RefreshSave, RefreshSaved
    <2>2. QED BY <1>4, <2>1 DEF Goto, Failing, Busy
  <1>7. CASE OnTarget
    <2>1. /\ at \in Busy \cup {"next"} /\ cmd' = cmd
          /\ cmd.name \in {"acquire", "pull", "process"}
      BY <1>7, OnTargetFrame DEF Failing
    <2>2. \/ \E code : Return(code)
          \/ cmd.name # "acquire" /\ at' # "idle"
          \/ at' # "idle" /\ tally'.failed = tally.failed
      <3>1. ASSUME OnError
            PROVE  <2>2!:
        BY <3>1 DEF OnError, NextTarget
      <3>2. ASSUME UNCHANGED tally \/ Counts, NextTarget \/ \E stage \in Stages \ {"idle"} : Goto(stage)
            PROVE  <2>2!:
        BY <1>0, <3>2 DEF Counts, Tallies, NextTarget, Goto
      <3>3. {"fetching", "compress", "import", "writing", "closing", "index"} \subseteq Stages \ {"idle"}
        BY DEF Stages
      <3>4. CASE DownloadSubreddit \/ CreateJSONL
        BY <3>1, <3>2, <3>3, <3>4 DEF DownloadSubreddit, CreateJSONL
      <3>5. CASE FetchRange \/ CompressJSONL
        BY <3>1, <3>2, <3>3, <3>5 DEF FetchRange, FetchError, CompressJSONL
      <3>6. CASE DownloadMonth
        <4>1. \/ OnError
              \/ (UNCHANGED tally \/ Counts) /\ (NextTarget \/ Goto("import"))
          BY <3>6 DEF DownloadMonth
        <4>2. QED BY <3>1, <3>2, <3>3, <4>1
      <3>7. CASE OpenDump \/ ProcessFile \/ WriteShard \/ FinishShard
        BY <3>1, <3>2, <3>3, <3>7 DEF OpenDump, ProcessFile, WriteShard, FinishShard
      <3>8. CASE Imported \/ IndexShards
        BY <3>1, <3>2, <3>3, <3>8 DEF Imported, IndexShards
      <3>9. QED BY <1>7, <3>4, <3>5, <3>6, <3>7, <3>8 DEF OnTarget
    <2>3. QED BY <1>4, <2>1, <2>2 DEF Failing
  <1>8. QED BY <1>1, <1>2, <1>3, <1>5, <1>6, <1>7 DEF Next, OnTarget

LEMMA NextTruthful ==
    ASSUME TypeInv, Sound, Failing, Truthful, [Next]_vars
    PROVE  Truthful'
  <1>1. CASE UNCHANGED vars
    <2>1. UNCHANGED <<shards, run, cmd, targets, i, at, exit, job, tally, landed, missing, report>>
      BY <1>1 DEF vars, storeVars, runVars, workVars
    <2>2. UpToDate'
      BY <2>1 DEF Truthful, UpToDate, Rewriting, Dir, Data, FileOf
    <2>3. ExitTrue'
      BY <2>1 DEF Truthful, ExitTrue, InPlace, Dealt, OwnDirs, Data, FileOf
    <2>4. ObtainedInPlace' = ObtainedInPlace
      BY <2>1 DEF ObtainedInPlace, InPlace, InHand, OwnDirs, Data, FileOf
    <2>5. BehindDealt' = BehindDealt
      BY <2>1 DEF BehindDealt, Dealt, InPlace, Dir, Data, FileOf
    <2>6. ObtainedCounted' = ObtainedCounted
      BY <2>1 DEF ObtainedCounted
    <2>7. QED BY <2>1, <2>2, <2>3, <2>4, <2>5, <2>6 DEF Truthful, Refreshing
  <1>2. CASE Publish
    <2>1. /\ at = "fetch page" /\ at' = at /\ exit' = exit /\ cmd' = cmd /\ job' = job
      BY <1>2 DEF Publish, runVars, workVars
    <2>2. ~cmd.importing /\ job.slot = 0
      BY <2>1 DEF Truthful, Refreshing, UpToDate, Rewriting
    <2>3. QED BY <2>1, <2>2, NotImportingTruthful DEF Rewriting
  <1>3. CASE BeginAcquire \/ BeginPull \/ BeginProcess \/ BeginRefresh
    <2>1. /\ at = "idle" /\ at' \in {"next", "fetch page"} /\ exit' = "running"
          /\ landed' = {} /\ i' = 1 /\ job' = job
          /\ at' = "fetch page" => ~cmd'.importing
      BY <1>3, Beginning
    <2>2. job.slot = 0
      BY <2>1 DEF Truthful, UpToDate, Rewriting
    <2>3. BehindDealt'
      <3>1. TypeOK'
        BY NextType DEF TypeInv
      <3>2. \A k \in DOMAIN targets' : ~(k < 1)
        <4>1. targets' \in Seq(TargetSet)
          BY <3>1 DEF TypeOK, RunTypeOK
        <4>2. QED BY <4>1
      <3>3. QED BY <2>1, <3>2 DEF BehindDealt
    <2>4. ObtainedInPlace' /\ ObtainedCounted' /\ UpToDate' /\ ExitTrue'
      BY <2>1, <2>2 DEF ObtainedInPlace, ObtainedCounted, UpToDate, Rewriting, ExitTrue
    <2>5. QED BY <2>1, <2>3, <2>4 DEF Truthful, Refreshing
  <1>4. CASE End
    BY <1>4, EndTruthful
  <1>5. CASE Kill
    BY <1>5, ReturnTruthful DEF Kill
  <1>6. CASE RefreshFetch \/ RefreshPrint \/ RefreshSave \/ RefreshSaved
    <2>1. at \in Refreshing
      BY <1>6 DEF RefreshFetch, RefreshPrint, RefreshSave, RefreshSaved, Refreshing
    <2>2. ~cmd.importing /\ at # "idle" /\ job.slot = 0
      BY <2>1 DEF Truthful, Refreshing, UpToDate, Rewriting
    <2>3. \/ \E stage \in {"fetched", "saving"} : Goto(stage) /\ UNCHANGED <<job, tally>>
          \/ \E code : Return(code)
      BY <1>6 DEF RefreshFetch, RefreshPrint, RefreshSave, RefreshSaved
    <2>4. QED BY <2>2, <2>3, ReturnTruthful, NotImportingTruthful DEF Goto, Rewriting
  <1>7. QED BY <1>1, <1>2, <1>3, <1>4, <1>5, <1>6,
               DownloadSubredditTruthful, CreateJSONLTruthful, FetchRangeTruthful,
               CompressJSONLTruthful, DownloadMonthTruthful, OpenDumpTruthful,
               ProcessFileTruthful, WriteShardTruthful, FinishShardTruthful,
               ImportedTruthful, IndexShardsTruthful DEF Next

(* An importing command that exits 0 has dealt with every month or file it *)
(* went over and has in place, in full, the data it obtained for each, if  *)
(* no two of them share a directory, which only `process --out` makes them *)
(* do; one that exits 3 obtained nothing.  However many commands ran       *)
(* before it, failed or were killed, and whatever they left in the same    *)
(* directories.                                                            *)
THEOREM ExitCodesTrue == Spec => []ExitTrue
  <1>1. Init => Failing /\ Truthful
    BY DEF Init, Failing, Truthful, ExitTrue, UpToDate, Rewriting, Refreshing, Busy,
           Command, NoTally, NoJob
  <1>2. Init => Whole /\ LandedListed
    BY ShardStoreAssumption DEF Init, StoreInit, Whole, OnlyWholeImports, Converting, LandedListed
  <1>3. Spec => []Sound
    <2>1. Sound <=> Whole /\ LandedListed
      BY DEF Sound
    <2>2. QED BY AlwaysTyped, <1>2, <2>1, NextWhole, NextListed, PTL DEF Spec
  <1>4. Truthful => ExitTrue
    BY DEF Truthful
  <1>5. QED BY AlwaysTyped, <1>1, <1>3, <1>4, NextFailing, NextTruthful, PTL DEF Spec
=============================================================================
