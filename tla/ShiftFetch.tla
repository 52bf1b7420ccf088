----------------------------- MODULE ShiftFetch -----------------------------
(***************************************************************************)
(* One call of Client.FetchRange (shift/parallel.go): the span cut into    *)
(* month buckets, one goroutine per bucket paging the API into a file of   *)
(* its own (shift/subreddit.go), every request retried by Client.get       *)
(* (shift/client.go), and the files joined oldest first once all buckets   *)
(* are done.                                                               *)
(*                                                                         *)
(* A record is its position in the archive, which is in time order.  The   *)
(* API is external and modelled as the tests fake it: a page holds the     *)
(* first records strictly after `after' and strictly before `before', at   *)
(* least one if there is any and at most PageSize.                         *)
(***************************************************************************)
EXTENDS Integers, Sequences, FiniteSets

CONSTANTS
    Archives,       \* archives to fetch from: created_utc of each record
    Spans,          \* arguments of the call: records [after, before]
    MonthStart,     \* first second of each month, and of the one after the last
    MinEpoch,       \* nothing is older
    Now,            \* the clock
    PageSize,
    Workers,        \* buckets fetched at a time
    MaxRetries      \* failed requests a page survives: 10 in the code

ASSUME FetchAssumption ==
    /\ PageSize \in Nat \ {0} /\ Workers \in Nat \ {0} /\ MaxRetries \in Nat
    /\ MinEpoch \in Nat \ {0} /\ Now \in Nat

ASSUME CalendarAssumption ==
    /\ MonthStart \in Seq(Int) /\ Len(MonthStart) >= 2
    /\ \A i, j \in DOMAIN MonthStart : i < j => MonthStart[i] < MonthStart[j]
    /\ MonthStart[1] <= MinEpoch /\ Now <= MonthStart[Len(MonthStart)]

(* An archive is in time order, and the calendar reaches past every window.*)
ASSUME ArchivesAssumption ==
    \A s \in Archives : s \in Seq(Int) /\ \A i, j \in DOMAIN s : i < j => s[i] <= s[j]

ASSUME SpansAssumption ==
    \A args \in Spans : /\ args \in [after : Int, before : Int]
                        /\ args.before <= MonthStart[Len(MonthStart)]

VARIABLES
    api,        \* the archive of this entity
    span,       \* the window, after the clamps
    slot,       \* for each month: the goroutine of its bucket and its file
    cancelled,  \* the caller's context is done
    err,        \* the first error of the group
    joined,     \* buckets whose file was copied to out, the last one perhaps in part
    out,        \* what the caller's writer received
    result      \* what the call returned

vars == <<api, span, slot, cancelled, err, joined, out, result>>

Months == 1 .. Len(MonthStart) - 1
Records == DOMAIN api

-----------------------------------------------------------------------------
(* The window and its buckets: each month intersected with the window.     *)
Later(s, t) == IF s < t THEN t ELSE s
Earlier(s, t) == IF s < t THEN s ELSE t

Clamped(args) ==
    [after  |-> Later(args.after, MinEpoch),
     before |-> IF args.before <= 0 THEN Now ELSE args.before]

From(m) == Later(MonthStart[m], span.after)
To(m) == Earlier(MonthStart[m + 1], span.before)
Buckets == {m \in Months : From(m) < To(m)}

Init ==
    /\ api \in Archives
    /\ span \in {Clamped(args) : args \in Spans}
    /\ slot = [m \in Months |-> [stage |-> "idle", cursor |-> From(m), tries |-> 0, got |-> <<>>]]
    /\ cancelled = FALSE
    /\ err = "none"
    /\ joined = {}
    /\ out = <<>>
    /\ result = IF Buckets = {} THEN "ok" ELSE "running"

(* The group's context: done once the caller's is or a bucket has failed.  *)
GroupDone == cancelled \/ err # "none"

-----------------------------------------------------------------------------
(* Goroutines.  The loop over the buckets starts them in order and blocks  *)
(* while Workers of them run.                                              *)
Idle == {m \in Buckets : slot[m].stage = "idle"}
Running == {m \in Buckets : slot[m].stage \in {"send", "asked", "backoff"}}
Ended == {m \in Buckets : slot[m].stage \in {"done", "failed"}}

Fail(m, kind) ==
    /\ slot' = [slot EXCEPT ![m].stage = "failed"]
    /\ err' = IF err = "none" THEN kind ELSE err
    /\ UNCHANGED <<api, span, cancelled, joined, out, result>>

IsNext(m) == m \in Idle /\ (\A k \in Idle : m <= k) /\ Cardinality(Running) < Workers

Launch(m) ==
    /\ IsNext(m)
    /\ slot' = [slot EXCEPT ![m].stage = "send"]
    /\ UNCHANGED <<api, span, cancelled, err, joined, out, result>>

(* The bucket's file cannot be created.                                    *)
LaunchFails(m) == IsNext(m) /\ Fail(m, "error")

(* A request goes out unless the group's context is done.                  *)
Send(m) ==
    /\ slot[m].stage = "send" /\ ~GroupDone
    /\ slot' = [slot EXCEPT ![m].stage = "asked"]
    /\ UNCHANGED <<api, span, cancelled, err, joined, out, result>>

(* The context ends the request, the wait for it and the backoff alike.    *)
Interrupted(m) ==
    /\ slot[m].stage \in {"send", "asked", "backoff"} /\ GroupDone
    /\ Fail(m, "cancelled")

-----------------------------------------------------------------------------
(* A page arrives: its records go to the bucket's file and the cursor to   *)
(* the last of them, or one second on if that would not move it.           *)
Matches(m) == {i \in Records : slot[m].cursor < api[i] /\ api[i] < To(m)}

Page(m) ==
    LET first == CHOOSE i \in Matches(m) : \A k \in Matches(m) : i <= k
        fits == Earlier(PageSize, Cardinality(Matches(m)))
    IN  {[j \in 1 .. n |-> first + j - 1] : n \in 1 .. fits}

CursorPast(cursor, last) == last + 1
NextCursor(cursor, last) == IF last <= cursor THEN cursor + 1 ELSE last

PageArrives(m) ==
    /\ slot[m].stage = "asked" /\ Matches(m) # {}
    /\ \E page \in Page(m) :
          LET cursor == NextCursor(slot[m].cursor, api[page[Len(page)]])
          IN  slot' = [slot EXCEPT ![m] =
                  [stage  |-> IF cursor >= To(m) THEN "done" ELSE "send",
                   cursor |-> cursor, tries |-> 0, got |-> @.got \o page]]
    /\ UNCHANGED <<api, span, cancelled, err, joined, out, result>>

(* An empty page: the bucket is exhausted.                                 *)
EmptyPage(m) ==
    /\ slot[m].stage = "asked" /\ Matches(m) = {}
    /\ slot' = [slot EXCEPT ![m].stage = "done"]
    /\ UNCHANGED <<api, span, cancelled, err, joined, out, result>>

(* A page that cannot be decoded or written, or whose cursor is missing.   *)
PageUnusable(m) == slot[m].stage = "asked" /\ Fail(m, "error")

(* Client.get: a network error, a 5xx, a body cut short and a 429 are all  *)
(* waited out and counted; a 403 and any other status are final.           *)
Transient == {"network", "5xx", "body", "429"}

ExhaustedLate(n) == n > MaxRetries + 1
Exhausted(n) == n > MaxRetries
NoRetrySpent(m) == slot[m].tries
Tries(m) == slot[m].tries + 1

RequestFails(m) ==
    /\ slot[m].stage = "asked"
    /\ \E why \in Transient :
          IF Exhausted(Tries(m))
          THEN Fail(m, IF why = "429" THEN "blocked" ELSE "error")
          ELSE /\ slot' = [slot EXCEPT ![m].stage = "backoff", ![m].tries = Tries(m)]
               /\ UNCHANGED <<api, span, cancelled, err, joined, out, result>>

Refused(m) == slot[m].stage = "asked" /\ \E kind \in {"blocked", "error"} : Fail(m, kind)

BackoffOver(m) ==
    /\ slot[m].stage = "backoff"
    /\ slot' = [slot EXCEPT ![m].stage = "send"]
    /\ UNCHANGED <<api, span, cancelled, err, joined, out, result>>

-----------------------------------------------------------------------------
(* g.Wait: every bucket has ended.  The first error is the call's error;   *)
(* without one the files are joined in order.                              *)
Return(r) ==
    /\ result' = r
    /\ UNCHANGED <<api, span, slot, cancelled, err, joined, out>>

SomeEnded == result = "running" /\ Ended # {}
AllEnded == result = "running" /\ Ended = Buckets

GroupFails == AllEnded /\ err # "none" /\ Return(err)

Ready == AllEnded /\ err = "none"

JoinAny(m) == m \in Buckets \ joined
JoinNext(m) == m \in Buckets \ joined /\ \A k \in Buckets \ joined : m <= k

Join(m) ==
    /\ Ready /\ JoinNext(m)
    /\ out' = out \o slot[m].got
    /\ joined' = joined \cup {m}
    /\ UNCHANGED <<api, span, slot, cancelled, err, result>>

(* A file that cannot be opened or copied: some of it may be in out.       *)
JoinFails(m) ==
    /\ Ready /\ JoinNext(m)
    /\ \E n \in 0 .. Len(slot[m].got) : out' = out \o SubSeq(slot[m].got, 1, n)
    /\ joined' = joined \cup {m}
    /\ result' = "error"
    /\ UNCHANGED <<api, span, slot, cancelled, err>>

JoinedAll == Ready /\ joined = Buckets /\ Return("ok")

Cancel ==
    /\ ~cancelled /\ result = "running"
    /\ cancelled' = TRUE
    /\ UNCHANGED <<api, span, slot, err, joined, out, result>>

-----------------------------------------------------------------------------
Bucket(m) ==
    \/ Send(m) \/ Interrupted(m) \/ PageArrives(m) \/ EmptyPage(m) \/ PageUnusable(m)
    \/ RequestFails(m) \/ Refused(m) \/ BackoffOver(m)
Caller ==
    \/ \E m \in Months : Launch(m) \/ LaunchFails(m) \/ Join(m) \/ JoinFails(m)
    \/ GroupFails \/ JoinedAll

Next == Caller \/ Cancel \/ \E m \in Months : Bucket(m)

Spec == Init /\ [][Next]_vars

(* Goroutines run, a request is answered or times out, a timer fires.      *)
FairSpec == Spec /\ WF_vars(Caller) /\ \A m \in Months : WF_vars(Bucket(m))

-----------------------------------------------------------------------------
(* Type invariant of the fetch (parallel.go:30-171, subreddit.go:37-120).  *)
TypeOK ==
    /\ api \in Archives
    /\ span \in {Clamped(args) : args \in Spans}
    /\ slot \in [Months -> [stage : {"idle", "send", "asked", "backoff", "done", "failed"},
                           cursor : Int, tries : 0 .. MaxRetries, got : Seq(Records)]]
    /\ cancelled \in BOOLEAN
    /\ err \in {"none", "cancelled", "blocked", "error"}
    /\ joined \in SUBSET Buckets
    /\ out \in Seq(Records)
    /\ result \in {"running", "ok", "cancelled", "blocked", "error"}

(* The writer gets each record at most once, oldest first, and none from   *)
(* outside the window, whatever order the buckets finished in and however  *)
(* often their pages were retried (parallel.go:26-29, 106-122).            *)
EachRecordOnce ==
    /\ \A j, k \in DOMAIN out : j < k => out[j] < out[k]
    /\ \A j \in DOMAIN out : span.after < api[out[j]] /\ api[out[j]] < span.before

(* Nothing reaches the writer while a bucket is still being fetched or     *)
(* after one has failed, so a call that was cancelled or blocked has       *)
(* written nothing, and one that succeeded has written all that every      *)
(* bucket received.  Only an error of the join itself leaves the writer    *)
(* with a part (parallel.go:99-122).                                       *)
AllOrNothing ==
    /\ out # <<>> => err = "none" /\ Ended = Buckets
    /\ result \in {"cancelled", "blocked"} => out = <<>>
    /\ result = "ok" => \A m \in Buckets : \A j \in DOMAIN slot[m].got :
                            \E i \in DOMAIN out : out[i] = slot[m].got[j]

(* What a successful fetch may lack: records in the first second of a      *)
(* bucket, which the API takes as already seen, and the tail of a second   *)
(* that a page cut in two (subreddit.go:101-107).                          *)
IsStart(i) == \E m \in Buckets : api[i] = From(m)
Alone(i) == \A k \in Records : api[k] = api[i] => k = i
Wanted == {i \in Records : span.after <= api[i] /\ api[i] < span.before}

OnlyBoundariesLost ==
    result = "ok" => \A i \in Wanted : ~IsStart(i) /\ Alone(i) => \E j \in DOMAIN out : out[j] = i

(* The fetch ends: no page is asked for forever, and a bucket's failure    *)
(* ends the other buckets too (client.go:70-155, subreddit.go:101-116).    *)
Returns == <>(result # "running")
=============================================================================
