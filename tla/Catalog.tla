------------------------------ MODULE Catalog ------------------------------
(***************************************************************************)
(* Which months can be downloaded (arctic/catalog.go, catalog_refresh.go): *)
(* the bundle, the monthly torrents compiled in, and those that `catalog   *)
(* refresh` learned from the releases page and keeps in a cache file.      *)
(* Each process loads the file once, during setup.                         *)
(*                                                                         *)
(* A month is a number; info hashes are left out, so a month is known or   *)
(* not known.  The releases page is external: it lists the newest releases *)
(* first, cut off after PageSize of them.                                  *)
(***************************************************************************)
EXTENDS Integers, Sequences, FiniteSets

CONSTANTS
    Start, BundleEnd, LastMonth,    \* first month, last of the bundle, last that ever is
    Builtin,        \* months compiled in: the keys of monthlyInfoHashes
    PageSize,       \* releases one request returns
    Unreadable,     \* a cache file that does not parse
    Other           \* a release without a month, a hash or a dump in it

ASSUME CatalogAssumption ==
    /\ Start \in Nat \ {0} /\ BundleEnd \in Nat /\ LastMonth \in Nat
    /\ Start <= BundleEnd /\ BundleEnd <= LastMonth
    /\ Builtin \subseteq BundleEnd + 1 .. LastMonth
    /\ PageSize \in Nat \ {0}
    /\ \A known \in SUBSET (0 .. LastMonth) : known # Unreadable
    /\ Other \notin Nat

VARIABLES
    releases,   \* the releases published so far, newest first
    cache,      \* catalog-monthly.json; no months if there is no file
    override,   \* monthlyOverride of the running process
    fetched,    \* the months the running refresh was given
    cached,     \* the months it read of the cache
    printed     \* months a saving refresh printed since the cache was last torn

catalogVars == <<releases, cache, override, fetched, cached, printed>>

Months == 0 .. LastMonth

CatalogTypeOK ==
    /\ releases \in Seq(Months \cup {Other})
    /\ cache = Unreadable \/ cache \subseteq Months
    /\ override \subseteq Months
    /\ fetched \subseteq Months
    /\ cached \subseteq Months
    /\ printed \subseteq Months

CatalogInit ==
    /\ releases = <<>> /\ cache = {} /\ override = {}
    /\ fetched = {} /\ cached = {} /\ printed = {}

-----------------------------------------------------------------------------
(* Resolution.                                                             *)
InBundle(m) == Start <= m /\ m <= BundleEnd
KnownMonthly == Builtin \cup override
InfoHashFor(m) ==
    CASE InBundle(m) -> "bundle"
      [] m < Start -> "too early"
      [] m >= Start /\ ~InBundle(m) /\ m \in KnownMonthly -> "monthly"
      [] OTHER -> "not published"

IsCatalogEnd(m, known) ==
    /\ m \in known \cup {BundleEnd}
    /\ \A k \in known \cup {BundleEnd} : k <= m
MonthRange(first, last) == [k \in 1 .. last - first + 1 |-> first + k - 1]

-----------------------------------------------------------------------------
(* The cache file.  os.WriteFile truncates it before it writes.  Setup and *)
(* the refresh alike take a file they cannot read, or that does not parse, *)
(* for one without months.                                                 *)
LoadMonthlyCache == IF cache = Unreadable THEN {} ELSE cache
ReadMonthlyCache == {LoadMonthlyCache, {}}

RegisterMonthlyHashes == override' \in ReadMonthlyCache

FetchedMonths == {releases[k] : k \in {j \in 1 .. Len(releases) : j <= PageSize}} \ {Other}
Added == {m \in fetched : m \notin Builtin /\ m \notin cached}

MergedFresh == fetched
Merged == cached \cup fetched

FetchMonthlyHashes ==
    /\ fetched' = FetchedMonths
    /\ cached' \in ReadMonthlyCache
    /\ UNCHANGED <<releases, cache, override, printed>>

(* The rows of a refresh that was not a dry run.                           *)
PrintRows(dry) ==
    /\ printed' = IF dry THEN printed ELSE printed \cup fetched
    /\ UNCHANGED <<releases, override, fetched, cached>>

(* Months of a cache that it could not read are lost with it.              *)
TruncateCache ==
    /\ cache' = Unreadable
    /\ printed' = printed \cap (Builtin \cup cached \cup fetched)
    /\ UNCHANGED <<releases, override, fetched, cached>>

SaveMonthlyCache == cache' = Merged /\ PrintRows(FALSE)

CacheTorn ==
    /\ cache = Unreadable /\ printed' = {}
    /\ UNCHANGED <<releases, cache, override, fetched, cached>>

-----------------------------------------------------------------------------
(* External: a new month's dump, or a release of something else.           *)
Published == {releases[k] : k \in 1 .. Len(releases)} \ {Other}

Release(what) ==
    /\ what # Other => IsCatalogEnd(what - 1, Published)
    /\ releases' = <<what>> \o releases
    /\ UNCHANGED <<cache, override, fetched, cached, printed>>
=============================================================================
