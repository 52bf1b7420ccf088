------------------------------ MODULE Download ------------------------------
(***************************************************************************)
(* Fetching one month's .zst (arctic/torrent.go, catalog.go): DownloadMonth*)
(* looks at what an earlier call left, DownloadFile adds the torrent anew  *)
(* for each attempt and gives up on one that stands still, placeFile moves *)
(* the finished file, QuickValidateZst samples it.  Calls follow each      *)
(* other, as a publish restarts; the process may die in any of them.       *)
(*                                                                         *)
(* The torrent client is external and modelled from what the code takes    *)
(* for granted: it stores each piece, once verified, at the torrent's own  *)
(* path under the data directory, and knows the pieces it finds there.  A  *)
(* file is the set of its pieces on disk, the empty set if there is none.  *)
(* Byte counts, the progress callback and the swarm's speed are left out.  *)
(***************************************************************************)
EXTENDS Integers, Sequences

CONSTANTS
    NumPieces,      \* pieces of the file
    Patience,       \* ticks without a byte that end each attempt: stallTimeouts
    MaxCalls        \* bound on the calls of DownloadMonth

ASSUME DownloadAssumption ==
    /\ NumPieces \in Nat \ {0} /\ MaxCalls \in Nat
    /\ Patience \in Seq(Nat) /\ Patience # <<>>

VARIABLES
    where,      \* the torrent's layout, or none for a month without a torrent
    fullLength, \* whether the client sizes a file before its last piece arrives
    disk,       \* the file at its destination, and at the torrent's nested path
    pc,         \* where DownloadFile stands
    attempt,
    seen,       \* lastBytes: the pieces counted at the last move
    still,      \* ticks since then
    cancelled,  \* the context is done
    calls,      \* calls made
    result      \* what the last call returned

loop == <<attempt, seen, still>>
vars == <<where, fullLength, disk, pc, loop, cancelled, calls, result>>

Pieces == 1 .. NumPieces
Attempts == 1 .. Len(Patience)
NotCounted == {0}

(* The torrent names a nested path and the client writes there; or the     *)
(* name is the destination; or it names a nested path and the client wrote *)
(* the destination all the same, which placeFile reckons with.             *)
Layouts == {"nested", "root", "direct"}

(* Where the client writes, and the path placeFile looks at.               *)
AlwaysRoot == "dest"
Laid == IF where = "nested" THEN "nested" ELSE "dest"
Named == IF where = "root" THEN "dest" ELSE "nested"
Have == disk[Laid]

(* os.Remove of the destination, whose error is ignored.                   *)
TryRemove == disk' \in {disk, [disk EXCEPT !["dest"] = {}]}

-----------------------------------------------------------------------------
(* QuickValidateZst: the magic at the head, bytes that are not zero at the *)
(* tail and at a quarter, half and three quarters of the file's size.      *)
Size(file) == IF fullLength THEN NumPieces ELSE CHOOSE n \in file : \A k \in file : k <= n
Sampled(size) == {1, size} \cup {(size * percent) \div 100 + 1 : percent \in {25, 50, 75}}
QuickValidate(file) == file # {} /\ Sampled(Size(file)) \subseteq file

Init ==
    /\ where \in Layouts \cup {"none"}
    /\ fullLength \in BOOLEAN
    /\ disk = [at \in {"dest", "nested"} |-> {}]
    /\ pc = "idle" /\ attempt = 1 /\ seen = NotCounted /\ still = 0
    /\ cancelled = FALSE /\ calls = 0 /\ result = "none"

-----------------------------------------------------------------------------
(* DownloadMonth: no torrent, a copy that passes, or a download after one  *)
(* that does not was removed, or could not be.                             *)
DiscardsAny(file) == TRUE
Discards(file) == ~QuickValidate(file)

Begin ==
    /\ pc = "idle" /\ calls < MaxCalls
    /\ calls' = calls + 1 /\ cancelled' = FALSE
    /\ attempt' = 1 /\ seen' = NotCounted /\ still' = 0
    /\ \/ /\ where = "none"
          /\ result' = "unpublished" /\ UNCHANGED <<pc, disk>>
       \/ /\ where # "none" /\ ~Discards(disk["dest"])
          /\ result' = "ok" /\ UNCHANGED <<pc, disk>>
       \/ /\ where # "none" /\ Discards(disk["dest"])
          /\ TryRemove
          /\ \/ pc' = "top" /\ result' = "running"
             \/ pc' = pc /\ result' = "error"      \* no destination directory
    /\ UNCHANGED <<where, fullLength>>

Return(r) ==
    /\ pc' = "idle" /\ result' = r
    /\ UNCHANGED <<where, fullLength, loop, cancelled, calls>>

(* The next attempt, unless this was the last or the context is done.      *)
NeverTired == attempt
NextAttempt == attempt + 1
OneTooMany == attempt > Len(Patience)
LastAttempt == attempt = Len(Patience)

AttemptFails ==
    \/ (LastAttempt \/ cancelled) /\ Return("transient")
    \/ /\ ~LastAttempt /\ ~cancelled
       /\ attempt' = NextAttempt /\ pc' = "top"
       /\ UNCHANGED <<where, fullLength, seen, still, cancelled, calls, result>>

StartAttempt ==
    /\ pc = "top" /\ ~cancelled
    /\ pc' = "metadata" /\ seen' = NotCounted /\ still' = 0
    /\ UNCHANGED <<where, fullLength, disk, attempt, cancelled, calls, result>>

CancelledAtTop == pc = "top" /\ cancelled /\ Return("cancelled") /\ UNCHANGED disk

(* The client cannot start, the magnet is refused or nobody has the        *)
(* metadata; a context that is done looks like the last of these.          *)
NoMetadata == pc = "metadata" /\ AttemptFails /\ UNCHANGED disk

GotInfo ==
    /\ pc = "metadata" /\ pc' = "poll"
    /\ UNCHANGED <<where, fullLength, disk, loop, cancelled, calls, result>>

NotInTorrent == pc = "metadata" /\ Return("corrupt") /\ UNCHANGED disk

PieceArrives ==
    /\ pc = "poll"
    /\ \E p \in Pieces \ Have : disk' = [disk EXCEPT ![Laid] = @ \cup {p}]
    /\ UNCHANGED <<where, fullLength, pc, loop, cancelled, calls, result>>

-----------------------------------------------------------------------------
(* The two-second ticker: completion is looked at first, then the clock.   *)
AllButOne == \E p \in Pieces : Have \cup {p} = Pieces
Done == Have = Pieces
Waited == IF Have # seen THEN 0 ELSE still + 1

Tick ==
    /\ pc = "poll" /\ ~Done /\ Waited <= Patience[attempt]
    /\ seen' = Have /\ still' = Waited
    /\ UNCHANGED <<where, fullLength, disk, pc, attempt, cancelled, calls, result>>

Stalled == pc = "poll" /\ ~Done /\ Waited > Patience[attempt] /\ AttemptFails /\ UNCHANGED disk

(* placeFile: a rename from the path the torrent names, unless that is the *)
(* destination or nothing is there and the destination exists.             *)
InPlace == Named = "dest" \/ (disk[Named] = {} /\ disk["dest"] # {})

Place ==
    /\ pc = "poll" /\ Done
    /\ disk' = IF InPlace THEN disk
               ELSE [disk EXCEPT !["dest"] = disk[Named], ![Named] = {}]
    /\ pc' = "check"
    /\ UNCHANGED <<where, fullLength, loop, cancelled, calls, result>>

PlaceFails == pc = "poll" /\ Done /\ ~InPlace /\ AttemptFails /\ UNCHANGED disk

CancelledInPoll == pc = "poll" /\ cancelled /\ Return("cancelled") /\ UNCHANGED disk

(* What DownloadFile does with a finished file.                            *)
Check ==
    /\ pc = "check"
    /\ IF QuickValidate(disk["dest"])
       THEN Return("ok") /\ UNCHANGED disk
       ELSE Return("corrupt") /\ TryRemove

-----------------------------------------------------------------------------
Cancel ==
    /\ pc # "idle" /\ ~cancelled /\ cancelled' = TRUE
    /\ UNCHANGED <<where, fullLength, disk, pc, loop, calls, result>>

Crash == pc # "idle" /\ Return("crashed") /\ UNCHANGED disk

Step ==
    \/ StartAttempt \/ CancelledAtTop \/ NoMetadata \/ GotInfo \/ NotInTorrent
    \/ Tick \/ Stalled \/ Place \/ PlaceFails \/ CancelledInPoll \/ Check

Next == Begin \/ Step \/ PieceArrives \/ Cancel \/ Crash

Spec == Init /\ [][Next]_vars

(* The ticker ticks and the metadata wait has a deadline.  Nothing is      *)
(* asked of the swarm.                                                     *)
FairSpec == Spec /\ WF_vars(Step)

-----------------------------------------------------------------------------
(* Type invariant of the download (torrent.go:127-341).                    *)
TypeOK ==
    /\ where \in Layouts \cup {"none"} /\ fullLength \in BOOLEAN
    /\ disk \in [{"dest", "nested"} -> SUBSET Pieces]
    /\ pc \in {"idle", "top", "metadata", "poll", "check"}
    /\ attempt \in Attempts
    /\ seen \in (SUBSET Pieces) \cup {NotCounted}
    /\ still \in Nat
    /\ cancelled \in BOOLEAN
    /\ calls \in 0 .. MaxCalls
    /\ result \in {"none", "running", "ok", "transient", "corrupt", "cancelled", "unpublished",
                   "error", "crashed"}

(* A file that the torrent nests is at its destination only when every     *)
(* piece of it is: the rename waits for the last one, whatever stalls,     *)
(* retries and crashes came before (torrent.go:237-244, 274-291).          *)
WholeAtDest == where = "nested" => disk["dest"] \in {{}, Pieces}

(* No attempt costs a piece that is on disk, and for a nested file no      *)
(* later call does either: "the partial data on disk is fine to resume     *)
(* from" (torrent.go:39-40, 134-159).                                      *)
OnDisk == disk["dest"] \cup disk["nested"]
KeepsPieces ==
    [][where = "nested" \/ (result = "running" /\ result' = "running") => OnDisk \subseteq OnDisk']_vars

(* A whole file at its destination is never removed or replaced: the       *)
(* sampling check rejects no good copy, in this call or a later one        *)
(* (torrent.go:313-318, 144-148).                                          *)
KeepsWhole == [][disk["dest"] = Pieces => disk'["dest"] = Pieces]_vars

(* A call ends even if the swarm never delivers: every wait has a deadline *)
(* and there are as many attempts as timeouts (torrent.go:134-163).        *)
Returns == result = "running" ~> result # "running"

(* "already have a good copy" (torrent.go:315): the path DownloadMonth     *)
(* returns is that of a whole file.                                        *)
AcceptedIsWhole == result = "ok" => disk["dest"] = Pieces
=============================================================================
