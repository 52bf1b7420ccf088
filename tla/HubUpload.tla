----------------------------- MODULE HubUpload -----------------------------
(***************************************************************************)
(* One call of HFClient.UploadFiles (arctic/hf.go): operations in batches, *)
(* each batch a git-lfs negotiation, a PUT per large file the hub does not *)
(* have, and one commit; three attempts per batch, a backoff between them, *)
(* and a context that may be cancelled at any moment.                      *)
(*                                                                         *)
(* The hub is external and modelled from what the client assumes of it: a  *)
(* commit applies whole, a stored object stays, an object it asks for is   *)
(* one it does not have.  It does not check that a commit's objects are    *)
(* there.  Any request may fail, and one the client has given up may still *)
(* take effect at any later time, or never.                                *)
(***************************************************************************)
EXTENDS Integers, FiniteSets

CONSTANTS
    NumOps,         \* operations of the call
    BatchSize,      \* operations per commit: 10 in the code
    MaxAttempts     \* attempts per batch: 3 in the code

ASSUME UploadAssumption == NumOps \in Nat \ {0} /\ BatchSize \in Nat \ {0}
ASSUME AttemptsAssumption == MaxAttempts \in Nat \ {0}

VARIABLES
    kind,       \* how each operation travels: inlined, as an LFS object, as a delete
    batch,      \* batches done
    attempt,    \* failed attempts at this batch
    pc,         \* where the client stands
    toPut,      \* objects the hub asked for that are not sent yet
    err,        \* the kind of lastErr
    cancelled,  \* the context is done
    result,     \* what the call returned
    main,       \* operations applied to the main branch
    store,      \* objects in the hub's LFS store
    latePuts,   \* objects whose PUT the client gave up and the hub may yet apply
    lateCommits \* batches whose commit the client gave up and the hub may yet apply

client == <<batch, attempt, pc, toPut, err, result>>
late == <<latePuts, lateCommits>>
hub == <<main, store, late>>
vars == <<kind, client, cancelled, hub>>

Ops == 1 .. NumOps
OpsOf(n) == {i \in Ops : n * BatchSize < i /\ i <= n * BatchSize + BatchSize}
Large(n) == {i \in OpsOf(n) : kind[i] = "lfs"}

Kinds == {"inline", "lfs", "delete"}
ErrKinds == {"ratelimit", "transient", "connreset", "fatal"}

(* The client is about to send a request, or waits for its answer.         *)
Sending == {"ask", "put", "post"}
Waiting == {"asking", "putting", "posting"}

Init ==
    /\ kind \in [Ops -> Kinds]
    /\ batch = 0 /\ attempt = 0 /\ pc = "top" /\ toPut = {} /\ err = "none"
    /\ cancelled = FALSE
    /\ result = "running"
    /\ main = {} /\ store = {}
    /\ latePuts = {} /\ lateCommits = {}

-----------------------------------------------------------------------------
(* Kinds of failure.                                                       *)
HTTPErrors == {"429", "5xx", "auth", "4xx"}
NetErrors == {"reset", "eof", "network"}

ClassifyHTTP(status) ==
    CASE status = "429" -> "ratelimit"
      [] status = "5xx" -> "transient"
      [] OTHER -> "fatal"

ClassifyNet(e) == IF e \in {"reset", "eof"} THEN "connreset" ELSE "transient"

Classify(answer) ==
    IF answer \in HTTPErrors THEN ClassifyHTTP(answer) ELSE ClassifyNet(answer)

-----------------------------------------------------------------------------
(* How an attempt ends.  A fatal error is returned at once; any other is   *)
(* waited out, also after the last attempt.                                *)
Finish(r) == pc' = "returned" /\ result' = r

Fail(k) ==
    /\ err' = k
    /\ toPut' = {}
    /\ IF k = "fatal" THEN Finish("error") ELSE pc' = "wait" /\ UNCHANGED result
    /\ UNCHANGED <<batch, attempt>>

(* The batch is committed: the next one, or success.                       *)
IsLast == (batch + 1) * BatchSize >= NumOps

NextBatch ==
    /\ batch' = batch + 1
    /\ attempt' = 0
    /\ err' = "none" /\ toPut' = {}
    /\ IF IsLast THEN Finish("ok") ELSE pc' = "top" /\ UNCHANGED result

-----------------------------------------------------------------------------
(* The head of the attempt loop.  commitBatch reads every file first; one  *)
(* that cannot be read is fatal.                                           *)
FirstRequest == IF Large(batch) # {} THEN "ask" ELSE "post"

Begin ==
    /\ pc = "top" /\ ~cancelled
    /\ pc' = FirstRequest
    /\ UNCHANGED <<kind, batch, attempt, toPut, err, result, cancelled, hub>>

BeginCancelled ==
    /\ pc = "top" /\ cancelled
    /\ Finish("cancelled")
    /\ UNCHANGED <<kind, batch, attempt, toPut, err, cancelled, hub>>

ReadFails ==
    /\ pc = "top" /\ ~cancelled
    /\ Fail("fatal")
    /\ UNCHANGED <<kind, cancelled, hub>>

(* A request goes out, unless the context is done.                         *)
IgnoresContext == pc \in Sending
MaySend == pc \in Sending /\ ~cancelled

Send ==
    /\ MaySend
    /\ pc' = CASE pc = "ask" -> "asking" [] pc = "put" -> "putting" [] pc = "post" -> "posting"
    /\ UNCHANGED <<kind, batch, attempt, toPut, err, result, cancelled, hub>>

SendCancelled ==
    /\ pc \in Sending /\ cancelled
    /\ Fail("transient")
    /\ UNCHANGED <<kind, cancelled, hub>>

-----------------------------------------------------------------------------
(* uploadLFS: the hub asks for the objects it does not have, and they are  *)
(* sent one by one.                                                        *)
AfterFirstPut(left) == "post"
AfterPut(left) == IF left = {} THEN "post" ELSE "put"

HubAsks ==
    /\ pc = "asking"
    /\ toPut' = Large(batch) \ store
    /\ pc' = AfterPut(toPut')
    /\ UNCHANGED <<kind, batch, attempt, err, result, cancelled, hub>>

Stored ==
    /\ pc = "putting"
    /\ \E o \in toPut : store' = store \cup {o} /\ toPut' = toPut \ {o}
    /\ pc' = AfterPut(toPut')
    /\ UNCHANGED <<kind, batch, attempt, err, result, cancelled, main, late>>

(* postCommit: the whole batch is applied.                                 *)
Committed ==
    /\ pc = "posting"
    /\ main' = main \cup OpsOf(batch)
    /\ NextBatch
    /\ UNCHANGED <<kind, cancelled, store, late>>

(* A request whose answer does not come: the hub may have applied it, may  *)
(* apply it later, or never got it.                                        *)
Unheard ==
    /\ pc \in Waiting
    /\ \/ pc = "asking" /\ UNCHANGED late
       \/ pc = "putting" /\ (\E o \in toPut : latePuts' = latePuts \cup {o}) /\ UNCHANGED lateCommits
       \/ pc = "posting" /\ lateCommits' = lateCommits \cup {batch} /\ UNCHANGED latePuts

(* A request fails: the hub refuses it, or its answer is lost, or the      *)
(* context is done while it is under way.                                  *)
Refused ==
    /\ pc \in Waiting
    /\ \E answer \in HTTPErrors \ {"5xx"} : Fail(Classify(answer))
    /\ UNCHANGED <<kind, cancelled, hub>>

Lost ==
    /\ Unheard
    /\ \E answer \in NetErrors \cup {"5xx"} : Fail(Classify(answer))
    /\ UNCHANGED <<kind, cancelled, main, store>>

Interrupted ==
    /\ cancelled
    /\ Unheard
    /\ Fail("transient")
    /\ UNCHANGED <<kind, cancelled, main, store>>

(* The hub applies a request the client no longer waits for: between two   *)
(* attempts, after a later batch, or when the call has long returned.      *)
LatePut ==
    /\ \E o \in latePuts : store' = store \cup {o} /\ latePuts' = latePuts \ {o}
    /\ UNCHANGED <<kind, client, cancelled, main, lateCommits>>

LateCommit ==
    /\ \E n \in lateCommits : main' = main \cup OpsOf(n) /\ lateCommits' = lateCommits \ {n}
    /\ UNCHANGED <<kind, client, cancelled, store, latePuts>>

-----------------------------------------------------------------------------
(* The backoff.  A done context ends it, and so does the timer; when both  *)
(* are ready either may win.                                               *)
OneMoreTry(n) == n <= MaxAttempts
TriesLeft(n) == n < MaxAttempts

(* A rate limit continues the loop like any other failure.                 *)
SameAttempt == IF err = "ratelimit" THEN attempt ELSE attempt + 1
NextAttempt == attempt + 1

(* The loop is over without a success: lastErr is returned.                *)
SkipsBatch == NextBatch
ReturnsError ==
    /\ Finish("error")
    /\ attempt' = NextAttempt
    /\ UNCHANGED <<batch, err, toPut>>

BackoffOver ==
    /\ pc = "wait"
    /\ IF TriesLeft(NextAttempt)
       THEN pc' = "top" /\ attempt' = NextAttempt /\ UNCHANGED <<batch, toPut, err, result>>
       ELSE ReturnsError
    /\ UNCHANGED <<kind, cancelled, hub>>

BackoffCancelled ==
    /\ pc = "wait" /\ cancelled
    /\ Finish("cancelled")
    /\ UNCHANGED <<kind, batch, attempt, toPut, err, cancelled, hub>>

Cancel ==
    /\ ~cancelled /\ result = "running"
    /\ cancelled' = TRUE
    /\ UNCHANGED <<kind, client, hub>>

-----------------------------------------------------------------------------
Answer == HubAsks \/ Stored \/ Committed \/ Refused \/ Lost \/ Interrupted
Work == \/ Begin \/ BeginCancelled \/ ReadFails \/ Send \/ SendCancelled
        \/ Answer \/ BackoffOver \/ BackoffCancelled

Next == Work \/ LatePut \/ LateCommit \/ Cancel

Spec == Init /\ [][Next]_vars

(* A request is answered or runs into the client's timeout, and a timer    *)
(* fires.  The hub owes nothing to a request the client gave up.           *)
FairSpec == Spec /\ WF_vars(Work)

-----------------------------------------------------------------------------
(* Type invariant of the upload (hf.go:145-397).                           *)
TypeOK ==
    /\ kind \in [Ops -> Kinds]
    /\ batch \in 0 .. NumOps
    /\ attempt \in 0 .. MaxAttempts
    /\ pc \in Sending \cup Waiting \cup {"top", "wait", "returned"}
    /\ toPut \in SUBSET Ops
    /\ err \in ErrKinds \cup {"none"}
    /\ cancelled \in BOOLEAN
    /\ result \in {"running", "ok", "error", "cancelled"}
    /\ main \in SUBSET Ops
    /\ store \in SUBSET Ops
    /\ latePuts \in SUBSET Ops
    /\ lateCommits \in SUBSET (0 .. NumOps)

(* The main branch never references a large file whose object is not in    *)
(* the store, whatever was refused, lost, retried or cancelled between the *)
(* negotiation and the commit, and however late a commit that was given up *)
(* lands (hf.go:225-232, 289-316).                                         *)
NoDanglingPointer == \A i \in main : kind[i] = "lfs" => i \in store

(* What the branch holds, or may still get from commits given up.          *)
Reach == main \cup UNION {OpsOf(n) : n \in lateCommits}

(* Once the context is done only what was already sent can change the      *)
(* dataset: from the first moment no request is under way, the branch gets *)
(* nothing but the commits given up before, through this attempt, the      *)
(* backoff and what would have been later batches (hf.go:157-159, 164-183, *)
(* and the context every request carries).                                 *)
CancelStopsHub ==
    \A n \in 0 .. NumOps :
        [](cancelled /\ pc \notin Waiting /\ Cardinality(Reach) = n => [](Cardinality(Reach) = n))

(* The call returns, whatever the hub answers (hf.go:156-186).             *)
Returns == <>(result # "running")

(* The upload implements BatchUpload: batches land whole and in order,     *)
(* success means all of them, and a failed call is at most one batch ahead *)
(* of what the client knows, whenever that batch lands (hf.go:148-188).    *)
Outcome == IF result = "cancelled" \/ result = "error" THEN "failed" ELSE result
Upload == INSTANCE BatchUpload WITH hub <- main, acked <- batch, outcome <- Outcome
UploadsInOrder == Upload!Spec
=============================================================================
