------------------------------ MODULE Archive ------------------------------
(***************************************************************************)
(* The commands that build the local archive (cli/cmd_acquire.go and       *)
(* `catalog refresh` in cli/cmd_query.go): `sub` and `user` import one     *)
(* entity from its torrent or the API, `pull` downloads months and with    *)
(* --process converts them, `process` converts dump files, a refresh       *)
(* learns months.  They run one after another, fail or are killed          *)
(* anywhere, and share the catalog cache, the shard directories, the       *)
(* downloads and the index.                                                *)
(*                                                                         *)
(* How a download, an API fetch or a scan works inside is the subject of   *)
(* Download, ShiftFetch and Processor; here each has the outcomes its      *)
(* caller can tell apart.  Flags that do not parse (exit 2) are left out,  *)
(* and so are messages and rendering.                                      *)
(***************************************************************************)
EXTENDS Catalog, ShardStore

CONSTANTS
    Types,              \* the record types: comments and submissions
    EntityKinds,        \* lists of types --kind may select for sub and user, in order
    PullKinds,          \* lists of types --type may select for pull
    PullArgs,           \* pairs of ranges pull may get, one of them empty for one argument
    Mixes,              \* bound: pairs of how many sub, user, pull and process commands
                        \* and how many refreshes a behaviour may run
    MaxReleases,        \* bound on the releases page
    NoReport

VARIABLES
    run,        \* commands started
    refreshes,  \* those that were refreshes
    cmd,        \* the running or last command, with its flags
    targets,    \* what it goes over: a type and a shard directory each, a month if any
    i,          \* the target it is at
    at,         \* where it stands, "idle" when it has ended
    exit,       \* how it ended: "running", an exit code's name, or "killed"
    raw,        \* raw[t]: the entity's <type>.jsonl
    dumps,      \* the <<month, type>> whose .zst has been downloaded
    job,        \* the conversion: the data it reads, its size in shards, the next shard
    tally,      \* records counted, or files obtained; and failures
    landed,     \* targets of which the command obtained data
    missing,    \* months it found not published
    report      \* report[d]: what it said of an import into d

runVars == <<run, refreshes, cmd, targets, i, at, exit>>
workVars == <<raw, dumps, job, tally, landed, missing, report>>
vars == <<catalogVars, storeVars, runVars, workVars>>

EntityDir(t) == <<"entity", t>>
WorkDir(m, t) == <<"work", m, t>>
Beside(m, t) == <<"beside", m, t>>
OutDir == <<"out">>

ASSUME ArchiveAssumption ==
    /\ EntityKinds \cup PullKinds \subseteq Seq(Types) \ {<<>>}
    /\ PullArgs \subseteq (Months \X Months) \X (Months \X Months)
    /\ Mixes \subseteq Nat \X Nat /\ MaxReleases \in Nat
    /\ OutDir \in Dirs /\ Months \X Types \subseteq Files
    /\ \A t \in Types : EntityDir(t) \in Dirs
    /\ \A m \in Months, t \in Types : {WorkDir(m, t), Beside(m, t)} \subseteq Dirs
    /\ \A r \in [size : 0 .. MaxShards, indexed : BOOLEAN] : r # NoReport

Command(name, importing, torrent, dry) ==
    [name |-> name, importing |-> importing, torrent |-> torrent, dry |-> dry]
Commands == [name : {"none", "acquire", "pull", "process", "refresh"},
             importing : BOOLEAN, torrent : BOOLEAN, dry : BOOLEAN]
Target(m, t, d) == [month |-> m, type |-> t, dir |-> d]
TargetSet == [month : Months, type : Types, dir : Dirs]
Exits == {"running", "ok", "error", "no data", "partial", "blocked", "killed"}
Stages == {"idle", "next", "fetching", "compress", "import", "writing", "closing", "index",
           "fetch page", "fetched", "saving"}
Jobs == [data : Contents \cup {Absent}, size : 0 .. MaxShards, slot : 0 .. MaxShards]
NoJob == [data |-> Absent, size |-> 0, slot |-> 0]
Tallies == [some : BOOLEAN, failed : BOOLEAN]
NoTally == [some |-> FALSE, failed |-> FALSE]
Reported == [size : 0 .. MaxShards, indexed : BOOLEAN]
NoReports == [d \in Dirs |-> NoReport]

RunTypeOK ==
    /\ run \in Nat /\ refreshes \in Nat
    /\ cmd \in Commands
    /\ targets \in Seq(TargetSet)
    /\ i \in Nat \ {0}
    /\ at \in Stages
    /\ exit \in Exits

WorkTypeOK ==
    /\ raw \in [Types -> Contents \cup {Absent}]
    /\ dumps \subseteq Months \X Types
    /\ job \in Jobs
    /\ tally \in Tallies
    /\ landed \subseteq TargetSet
    /\ missing \subseteq Months
    /\ report \in [Dirs -> Reported \cup {NoReport}]

TypeOK == CatalogTypeOK /\ StoreTypeOK /\ RunTypeOK /\ WorkTypeOK

Init ==
    /\ CatalogInit /\ StoreInit
    /\ run = 0 /\ refreshes = 0
    /\ cmd = Command("none", FALSE, FALSE, FALSE)
    /\ targets = <<>> /\ i = 1 /\ at = "idle" /\ exit = "ok"
    /\ raw = [t \in Types |-> Absent] /\ dumps = {}
    /\ job = NoJob /\ tally = NoTally /\ landed = {} /\ missing = {} /\ report = NoReports

-----------------------------------------------------------------------------
(* Starting a command.  setup loads the cache.                             *)
Begin(command, list, stage) ==
    /\ at = "idle"
    /\ RegisterMonthlyHashes
    /\ run' = run + 1
    /\ cmd' = command /\ targets' = list /\ i' = 1 /\ at' = stage /\ exit' = "running"
    /\ landed' = {} /\ missing' = {} /\ report' = NoReports
    /\ UNCHANGED <<releases, cache, fetched, cached, printed, storeVars, raw, dumps, job, tally>>

Within(imports, updates) == \E mix \in Mixes : imports <= mix[1] /\ updates <= mix[2]

BeginImport(command, list) ==
    /\ Within(run - refreshes + 1, refreshes)
    /\ Begin(command, list, "next")
    /\ UNCHANGED refreshes

(* SubredditInTorrent decides for `sub`; `user` and --api never use it.    *)
BeginAcquire == \E kind \in EntityKinds, torrent, noImport \in BOOLEAN :
    BeginImport(Command("acquire", ~noImport, torrent, FALSE),
                [k \in DOMAIN kind |-> Target(0, kind[k], EntityDir(kind[k]))])

(* resolveMonths.  The default of --to was computed when the flags were    *)
(* declared, before setup: it is the end of the compiled-in catalog.       *)
NamedMonths(args) == MonthRange(args[1][1], args[1][2]) \o MonthRange(args[2][1], args[2][2])
ResolveMonths ==
    {NamedMonths(args) : args \in PullArgs}
    \cup {MonthRange(Start, end) : end \in {m \in Months : IsCatalogEnd(m, Builtin)}}

EachType(months, kind) ==
    [k \in 1 .. Len(months) * Len(kind) |->
        LET m == months[((k - 1) \div Len(kind)) + 1]
            t == kind[((k - 1) % Len(kind)) + 1]
        IN  Target(m, t, WorkDir(m, t))]

BeginPull == \E kind \in PullKinds, months \in ResolveMonths, process \in BOOLEAN :
    BeginImport(Command("pull", process, TRUE, FALSE), EachType(months, kind))

(* One or two downloads, each beside its file or both into --out.          *)
BeginProcess == \E first, second \in dumps, both, shared \in BOOLEAN :
    LET files == IF both THEN <<first, second>> ELSE <<first>>
        into(f) == IF shared THEN OutDir ELSE Beside(f[1], f[2])
    IN  /\ both \/ first = second
        /\ BeginImport(Command("process", TRUE, FALSE, FALSE),
                       [k \in DOMAIN files |-> Target(files[k][1], files[k][2], into(files[k]))])

BeginRefresh == \E dry \in BOOLEAN :
    /\ Within(run - refreshes, refreshes + 1)
    /\ Begin(Command("refresh", FALSE, FALSE, dry), <<>>, "fetch page")
    /\ refreshes' = refreshes + 1

-----------------------------------------------------------------------------
(* Ending it, or going on to the next target.                              *)
Return(code) ==
    /\ exit' = code /\ at' = "idle" /\ job' = NoJob /\ tally' = NoTally
    /\ UNCHANGED <<run, refreshes, cmd, targets, i>>

Goto(stage) ==
    /\ at' = stage
    /\ UNCHANGED <<run, refreshes, cmd, targets, i, exit>>

NextTarget ==
    /\ i' = i + 1 /\ at' = "next" /\ job' = NoJob
    /\ UNCHANGED <<run, refreshes, cmd, targets, exit>>

Dir == targets[i].dir
Type == targets[i].type
FileOf(target) == <<target.month, target.type>>
File == FileOf(targets[i])
Data(target) == <<run, FileOf(target)>>
Turn(name) == at = "next" /\ cmd.name = name /\ i <= Len(targets)
Counts == tally' = [tally EXCEPT !.some = TRUE]

(* An error: acquireEntity returns it, pull and process count it and go on.*)
ForgetsError == NextTarget /\ UNCHANGED tally
OnError ==
    IF cmd.name = "acquire"
    THEN Return("error")
    ELSE NextTarget /\ tally' = [tally EXCEPT !.failed = TRUE]

ExitCode ==
    CASE cmd.name = "acquire" -> IF tally.some THEN "ok" ELSE "no data"
      [] cmd.name = "pull" /\ ~tally.some /\ ~tally.failed -> "no data"
      [] cmd.name \in {"pull", "process"} /\ tally.failed -> "partial"
      [] OTHER -> "ok"

End ==
    /\ at = "next" /\ i > Len(targets)
    /\ Return(ExitCode)
    /\ UNCHANGED <<catalogVars, storeVars, raw, dumps, landed, missing, report>>

(* Obtained: the data of the target, as many shards as it makes; none of   *)
(* it converts if it makes no shard.                                       *)
Lands(got) == landed' = IF got THEN landed \cup {targets[i]} ELSE landed
Obtain(n) ==
    /\ job' = [data |-> Data(targets[i]), size |-> n, slot |-> 0]
    /\ Lands(n > 0)

-----------------------------------------------------------------------------
(* acquireEntity, one type: DownloadSubreddit, or FetchRange into the      *)
(* truncated <type>.jsonl and a compressed copy of it.                     *)
DownloadSubreddit ==
    /\ Turn("acquire") /\ cmd.torrent
    /\ UNCHANGED <<catalogVars, storeVars, raw, dumps, missing, report>>
    /\ \/ \E n \in 0 .. MaxShards :
            /\ IF cmd.importing THEN Obtain(n) /\ Goto("import")
                                ELSE NextTarget /\ Lands(n > 0)
            /\ UNCHANGED tally
       \/ OnError /\ UNCHANGED landed

CreateJSONL ==
    /\ Turn("acquire") /\ ~cmd.torrent
    /\ UNCHANGED <<catalogVars, storeVars, dumps, landed, missing, report>>
    /\ \/ raw' = [raw EXCEPT ![Type] = Partial] /\ Goto("fetching") /\ UNCHANGED <<job, tally>>
       \/ OnError /\ UNCHANGED raw

(* A fetch may fail, or the API block it, after it got some of the data:   *)
(* the file holds what the writer received of it, if anything.             *)
FetchErrorIgnored ==
    Goto("compress") /\ job' = [job EXCEPT !.size = 1] /\ UNCHANGED <<raw, tally, landed>>
FetchError ==
    /\ \E code \in {"error", "blocked"}, got \in BOOLEAN : Return(code) /\ Lands(got)
    /\ UNCHANGED raw

FetchRange ==
    /\ at = "fetching"
    /\ UNCHANGED <<catalogVars, storeVars, dumps, missing, report>>
    /\ \/ \E some \in BOOLEAN, n \in 0 .. MaxShards :
            /\ n > 0 => some
            /\ raw' = [raw EXCEPT ![Type] = Data(targets[i])]
            /\ Lands(n > 0)
            /\ IF some THEN Counts ELSE UNCHANGED tally
            /\ IF ~some \/ ~cmd.importing
                THEN NextTarget
                ELSE Goto("compress") /\ job' = [job EXCEPT !.size = n]
       \/ FetchError

CompressJSONL ==
    /\ at = "compress"
    /\ UNCHANGED <<catalogVars, storeVars, raw, dumps, landed, missing, report>>
    /\ \/ job' = [job EXCEPT !.data = raw[Type]] /\ Goto("import") /\ UNCHANGED tally
       \/ OnError

-----------------------------------------------------------------------------
(* pull, one month and type: DownloadMonth, which keeps a copy it has.     *)
DownloadMonth ==
    /\ Turn("pull")
    /\ UNCHANGED <<catalogVars, storeVars, raw, report>>
    /\ LET m == targets[i].month IN
       \/ /\ InfoHashFor(m) = "not published"
          /\ missing' = missing \cup {m}
          /\ NextTarget
          /\ UNCHANGED <<dumps, landed, tally>>
       \/ /\ InfoHashFor(m) \in {"bundle", "monthly"}
          /\ dumps' = dumps \cup {File}
          /\ Counts
          /\ IF cmd.importing
             THEN (\E n \in 0 .. MaxShards : Obtain(n)) /\ Goto("import")
             ELSE NextTarget /\ UNCHANGED landed
          /\ UNCHANGED missing
       \/ /\ InfoHashFor(m) = "too early" \/ (InfoHashFor(m) # "not published" /\ File \notin dumps)
          /\ OnError
          /\ UNCHANGED <<dumps, landed, missing>>

(* process, one argument: a name that says neither type, or a file.        *)
OpenDump ==
    /\ Turn("process")
    /\ UNCHANGED <<catalogVars, storeVars, raw, dumps, missing, report>>
    /\ \/ (\E n \in 0 .. MaxShards : Obtain(n)) /\ Goto("import") /\ UNCHANGED tally
       \/ OnError /\ UNCHANGED landed

-----------------------------------------------------------------------------
(* ProcessFile into the target's directory, then recordShards.             *)
ProcessFile ==
    /\ at = "import"
    /\ report' = [report EXCEPT ![Dir] = NoReport]
    /\ UNCHANGED <<catalogVars, storeVars, raw, dumps, landed, missing>>
    /\ \/ Goto("writing") /\ UNCHANGED <<job, tally>>
       \/ OnError

(* A cancelled context, or input the decoder rejects, ends it between      *)
(* shards; an error in the writer removes the shard it was at.             *)
WriteShard ==
    /\ at = "writing"
    /\ UNCHANGED <<catalogVars, index, raw, dumps, landed, missing, report>>
    /\ \/ /\ job.slot < job.size
          /\ OpenShard(Dir, job.slot) /\ Goto("closing") /\ UNCHANGED <<job, tally>>
       \/ OnError /\ UNCHANGED shards

FinishShard ==
    /\ at = "closing"
    /\ UNCHANGED <<catalogVars, index, raw, dumps, landed, missing, report>>
    /\ \/ /\ CloseShard(Dir, job.slot, job.data)
          /\ job' = [job EXCEPT !.slot = job.slot + 1]
          /\ Goto("writing") /\ UNCHANGED tally
       \/ RemoveShard(Dir, job.slot) /\ OnError

Reports(indexed) == report' = [report EXCEPT ![Dir] = [size |-> job.size, indexed |-> indexed]]

(* Only `process` keeps no index.  An error of recordShards is logged.     *)
Imported ==
    /\ at = "writing" /\ job.slot = job.size
    /\ UNCHANGED <<catalogVars, storeVars, raw, dumps, landed, missing>>
    /\ IF cmd.name = "process"
       THEN Reports(FALSE) /\ NextTarget /\ UNCHANGED tally
       ELSE Goto("index") /\ UNCHANGED <<report, job, tally>>

IndexShards ==
    /\ at = "index"
    /\ \E upTo \in 0 .. MaxShards :
        /\ RecordShards(Dir, upTo)
        /\ Reports(AllRecorded(Dir, upTo))
    /\ IF cmd.name = "acquire" /\ job.size > 0 THEN Counts ELSE UNCHANGED tally
    /\ NextTarget
    /\ UNCHANGED <<catalogVars, raw, dumps, landed, missing>>

-----------------------------------------------------------------------------
(* catalog refresh.                                                        *)
RefreshFetch ==
    /\ at = "fetch page"
    /\ UNCHANGED <<storeVars, raw, dumps, landed, missing, report>>
    /\ \/ FetchMonthlyHashes /\ Goto("fetched") /\ UNCHANGED <<job, tally>>
       \/ Return("error") /\ UNCHANGED catalogVars

Saves == ~cmd.dry /\ Added # {}

RefreshPrint ==
    /\ at = "fetched" /\ ~Saves
    /\ PrintRows(cmd.dry) /\ UNCHANGED cache /\ Return("ok")
    /\ UNCHANGED <<storeVars, raw, dumps, landed, missing, report>>

(* The file may also not open, or not take the data.                       *)
RefreshSave ==
    /\ at = "fetched" /\ Saves
    /\ UNCHANGED <<storeVars, raw, dumps, landed, missing, report>>
    /\ \/ TruncateCache /\ Goto("saving") /\ UNCHANGED <<job, tally>>
       \/ Return("error") /\ UNCHANGED catalogVars

RefreshSaved ==
    /\ at = "saving"
    /\ UNCHANGED <<storeVars, raw, dumps, landed, missing, report>>
    /\ \/ SaveMonthlyCache /\ Return("ok")
       \/ CacheTorn /\ Return("error")

-----------------------------------------------------------------------------
(* The process is killed; a new dump, or something else, is released: only *)
(* a refresh about to read the page can tell when.                         *)
Kill ==
    /\ at # "idle"
    /\ Return("killed")
    /\ IF at = "saving" THEN CacheTorn ELSE UNCHANGED catalogVars
    /\ UNCHANGED <<storeVars, raw, dumps, landed, missing, report>>

Publish ==
    /\ at = "fetch page" /\ Len(releases) < MaxReleases
    /\ \E what \in Months \cup {Other} : Release(what)
    /\ UNCHANGED <<storeVars, runVars, workVars>>

Next ==
    \/ BeginAcquire \/ BeginPull \/ BeginProcess \/ BeginRefresh
    \/ End \/ Kill \/ Publish
    \/ DownloadSubreddit \/ CreateJSONL \/ FetchRange \/ CompressJSONL
    \/ DownloadMonth \/ OpenDump
    \/ ProcessFile \/ WriteShard \/ FinishShard \/ Imported \/ IndexShards
    \/ RefreshFetch \/ RefreshPrint \/ RefreshSave \/ RefreshSaved

Spec == Init /\ [][Next]_vars

-----------------------------------------------------------------------------
(* What a fetch that failed left behind is never converted: no shard ever  *)
(* holds the data of an incomplete JSONL, in any later run either.         *)
OnlyWholeImports == \A d \in Dirs, n \in Slots : shards[d][n] # Partial

(* What the exit code promises.  A command that asked for a conversion and *)
(* exits 0 has converted all it obtained: each target's own data stands in *)
(* the shards it reported, and a pull has dealt with every month it went   *)
(* over (shards past those may be older ones).  One that exits 3 obtained  *)
(* nothing; with --no-import the torrent's download is not counted, and    *)
(* exit 3 says nothing.  `process` of several files into one --out is      *)
(* left out here: EachInputConverted is about it.                          *)
InPlace(target) ==
    LET told == report[target.dir]
    IN  told # NoReport /\ \A n \in 0 .. told.size - 1 : shards[target.dir][n] = Data(target)
Dealt(target) == target.month \in missing \/ report[target.dir] # NoReport
OwnDirs == \A j, k \in DOMAIN targets : targets[j].dir = targets[k].dir => targets[j] = targets[k]
ExitTrue ==
    cmd.importing =>
        /\ exit = "ok" => /\ OwnDirs => \A target \in landed : InPlace(target)
                          /\ cmd.name # "acquire" => \A k \in DOMAIN targets : Dealt(targets[k])
        /\ exit = "no data" => landed = {}

(* When recordShards went through, `stats` knows every shard `sub info`    *)
(* opens, with its present contents, older ones in the directory included. *)
IndexTrue ==
    \A d \in Dirs : report[d] # NoReport /\ report[d].indexed =>
        Readable(d) /\ InfoRows(d) \subseteq StatsRows(d)

(* A month a refresh has printed stays available to every later pull that  *)
(* can read the cache, also when newer releases have pushed it off the     *)
(* page, until a write of the cache is cut short or a refresh that cannot  *)
(* read it replaces it.                                                    *)
PrintedIsPullable == override = LoadMonthlyCache => printed \cap missing = {}

(* "arctic process RC_2024-01.zst RS_2024-01.zst --out ./parquet/2024-01"  *)
(* converts dump files "into Parquet shards" (docs/content/reference/      *)
(* cli.md:120-131): after exit 0 the shards reported for each of its files *)
(* hold the data of that file (cmd_acquire.go:287-300).                    *)
EachInputConverted ==
    cmd.name = "process" /\ exit = "ok" => \A target \in landed : InPlace(target)

(* "A source rate-limited or refused the request. [...] The data you       *)
(* already pulled is imported, so a re-run continues rather than starting  *)
(* over" (docs/content/reference/troubleshooting.md:65-81), said of exit 5 *)
(* (cmd_acquire.go:222-232).                                               *)
BlockedDataImported ==
    cmd.importing /\ exit = "blocked" => \A target \in landed : InPlace(target)
=============================================================================
