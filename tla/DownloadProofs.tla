--------------------------- MODULE DownloadProofs ---------------------------
(***************************************************************************)
(* Proofs about Download.tla, for every number of pieces, of attempts and  *)
(* of calls.  The inductive invariant adds to the type invariant that a    *)
(* nested file is placed whole, that any other is only at its destination  *)
(* and that a call is running exactly while DownloadFile is.               *)
(***************************************************************************)
EXTENDS Download, TLAPS

RunsWhileBusy == result = "running" <=> pc # "idle"
OnlyAtDest == where # "nested" => disk["nested"] = {}
IInv == TypeOK /\ WholeAtDest /\ OnlyAtDest /\ RunsWhileBusy

(* The sampling check passes a whole file: what it samples lies in it      *)
(* (QuickValidateZst, torrent.go:557-579).                                 *)
LEMMA WholePasses == QuickValidate(Pieces)
<1>1. NumPieces \in Nat \ {0}
  BY DownloadAssumption
<1>2. Size(Pieces) = NumPieces
  <2>1. NumPieces \in Pieces /\ \A k \in Pieces : k <= NumPieces
    BY <1>1 DEF Pieces
  <2>2. \A n \in Pieces : (\A k \in Pieces : k <= n) => n = NumPieces
    BY <1>1, <2>1 DEF Pieces
  <2> QED
    BY <2>1, <2>2 DEF Size
<1>3. \A percent \in {25, 50, 75} : (NumPieces * percent) \div 100 + 1 \in Pieces
  BY <1>1, SMTT(30) DEF Pieces
<1>4. Sampled(NumPieces) \subseteq Pieces
  BY <1>1, <1>3 DEF Sampled, Pieces
<1> QED
  BY <1>1, <1>2, <1>4 DEF QuickValidate, Pieces

(* Giving up on an attempt disturbs only the place in the loop.            *)
LEMMA GivingUp ==
  ASSUME TypeOK, AttemptFails, pc # "idle", RunsWhileBusy
  PROVE  /\ where' = where /\ fullLength' = fullLength /\ calls' = calls
         /\ cancelled' = cancelled /\ seen' = seen /\ still' = still
         /\ attempt' \in Attempts
         /\ pc' \in {"idle", "top"} /\ result' \in {"running", "transient"}
         /\ RunsWhileBusy'
<1>1. attempt \in Attempts /\ Len(Patience) \in Nat
  BY DownloadAssumption DEF TypeOK
<1> QED
  BY <1>1 DEF AttemptFails, Return, loop, LastAttempt, NextAttempt, Attempts, RunsWhileBusy

(* There is a first attempt.                                               *)
LEMMA FirstAttempt == 1 \in Attempts
<1>1. Len(Patience) \in Nat /\ Len(Patience) # 0
  BY DownloadAssumption
<1> QED
  BY <1>1 DEF Attempts

LEMMA InitInv == Init => IInv
<1>1. Init => WholeAtDest /\ OnlyAtDest /\ RunsWhileBusy
  BY DEF Init, WholeAtDest, OnlyAtDest, RunsWhileBusy
<1>2. 0 \in 0 .. MaxCalls /\ [at \in {"dest", "nested"} |-> {}] \in [{"dest", "nested"} -> SUBSET Pieces]
  BY DownloadAssumption
<1>3. Init => TypeOK
  <2> SUFFICES ASSUME Init PROVE TypeOK
    OBVIOUS
  <2>1. disk \in [{"dest", "nested"} -> SUBSET Pieces]
    BY <1>2 DEF Init
  <2>2. seen \in (SUBSET Pieces) \cup {NotCounted} /\ calls \in 0 .. MaxCalls
    BY <1>2 DEF Init
  <2> QED
    BY <2>1, <2>2, FirstAttempt DEF Init, TypeOK
<1> QED
  BY <1>1, <1>3 DEF IInv

-----------------------------------------------------------------------------
(* What a finished file's rename does, if it is needed at all.             *)
LEMMA Placing ==
  ASSUME TypeOK, OnlyAtDest, Place
  PROVE  /\ where' = where
         /\ \/ disk' = disk
            \/ /\ where = "nested" /\ disk["nested"] = Pieces
               /\ disk' = [disk EXCEPT !["dest"] = Pieces, !["nested"] = {}]
<1>1. Pieces # {}
  BY DownloadAssumption DEF Pieces
<1>2. disk[Laid] = Pieces
  BY DEF Place, Done, Have
<1>3. CASE where = "nested"
  BY <1>1, <1>2, <1>3 DEF Place, InPlace, Named, Laid
<1>4. CASE where # "nested"
  <2>1. InPlace
    BY <1>1, <1>2, <1>4 DEF InPlace, Named, Laid, OnlyAtDest
  <2> QED
    BY <2>1 DEF Place
<1> QED
  BY <1>3, <1>4

LEMMA TypeStep == IInv /\ [Next]_vars => TypeOK'
<1> SUFFICES ASSUME TypeOK, WholeAtDest, OnlyAtDest, RunsWhileBusy, [Next]_vars
             PROVE  TypeOK'
  BY DEF IInv
<1> USE DEF TypeOK, loop
<1>0. 1 \in Attempts /\ NotCounted \in (SUBSET Pieces) \cup {NotCounted}
  BY FirstAttempt
<1>1. CASE Begin
  <2>1. calls' \in 0 .. MaxCalls
    BY <1>1, DownloadAssumption DEF Begin
  <2>2. disk' \in [{"dest", "nested"} -> SUBSET Pieces]
    BY <1>1 DEF Begin, TryRemove
  <2> QED
    BY <1>0, <1>1, <2>1, <2>2 DEF Begin
<1>2. CASE StartAttempt
  BY <1>0, <1>2 DEF StartAttempt
<1>3. CASE CancelledAtTop
  BY <1>3 DEF CancelledAtTop, Return
<1>4. CASE NoMetadata
  BY <1>4, GivingUp DEF NoMetadata
<1>5. CASE GotInfo
  BY <1>5 DEF GotInfo
<1>6. CASE NotInTorrent
  BY <1>6 DEF NotInTorrent, Return
<1>7. CASE PieceArrives
  BY <1>7 DEF PieceArrives, Laid, Have
<1>8. CASE Tick
  <2>1. Waited \in Nat
    BY DEF Waited
  <2>2. Have \in SUBSET Pieces
    BY DEF Have, Laid
  <2> QED
    BY <1>8, <2>1, <2>2 DEF Tick
<1>9. CASE Stalled
  BY <1>9, GivingUp DEF Stalled
<1>10. CASE Place
  <2>1. disk' \in [{"dest", "nested"} -> SUBSET Pieces]
    BY <1>10, Placing
  <2> QED
    BY <1>10, <2>1 DEF Place
<1>11. CASE PlaceFails
  BY <1>11, GivingUp DEF PlaceFails
<1>12. CASE CancelledInPoll
  BY <1>12 DEF CancelledInPoll, Return
<1>13. CASE Check
  BY <1>13 DEF Check, Return, TryRemove
<1>14. CASE Cancel
  BY <1>14 DEF Cancel
<1>15. CASE Crash
  BY <1>15 DEF Crash, Return
<1>16. CASE UNCHANGED vars
  BY <1>16 DEF vars
<1> QED
  BY <1>1, <1>2, <1>3, <1>4, <1>5, <1>6, <1>7, <1>8, <1>9, <1>10, <1>11, <1>12, <1>13, <1>14,
     <1>15, <1>16 DEF Next, Step

(* Only a discarded copy, an arriving piece, the rename and the last check *)
(* touch the disk; and only the rename puts a nested file at its place.    *)
LEMMA WholeStep == IInv /\ [Next]_vars => WholeAtDest' /\ OnlyAtDest' /\ RunsWhileBusy'
<1> SUFFICES ASSUME TypeOK, WholeAtDest, OnlyAtDest, RunsWhileBusy, [Next]_vars
             PROVE  WholeAtDest' /\ OnlyAtDest' /\ RunsWhileBusy'
  BY DEF IInv
<1> USE DEF WholeAtDest, OnlyAtDest, RunsWhileBusy, loop
<1>0. disk \in [{"dest", "nested"} -> SUBSET Pieces]
  BY DEF TypeOK
<1>1. CASE Begin
  BY <1>0, <1>1 DEF Begin, TryRemove
<1>2. CASE StartAttempt \/ GotInfo \/ Tick \/ Cancel
  BY <1>2 DEF StartAttempt, GotInfo, Tick, Cancel
<1>3. CASE CancelledAtTop \/ NotInTorrent \/ CancelledInPoll \/ Crash
  BY <1>3 DEF CancelledAtTop, NotInTorrent, CancelledInPoll, Crash, Return
<1>4. CASE NoMetadata \/ Stalled \/ PlaceFails
  <2>1. AttemptFails /\ pc # "idle" /\ disk' = disk
    BY <1>4 DEF NoMetadata, Stalled, PlaceFails
  <2>2. where' = where /\ RunsWhileBusy'
    BY <2>1, GivingUp
  <2> QED
    BY <2>1, <2>2
<1>5. CASE PieceArrives
  BY <1>0, <1>5 DEF PieceArrives, Laid, Have
<1>6. CASE Place
  <2>1. pc' = "check" /\ pc = "poll" /\ result' = result
    BY <1>6 DEF Place
  <2> QED
    BY <1>0, <1>6, <2>1, Placing
<1>7. CASE Check
  BY <1>0, <1>7 DEF Check, Return, TryRemove
<1>8. CASE UNCHANGED vars
  BY <1>8 DEF vars
<1> QED
  BY <1>1, <1>2, <1>3, <1>4, <1>5, <1>6, <1>7, <1>8 DEF Next, Step

LEMMA IInvAlways == Spec => []IInv
<1>1. IInv /\ [Next]_vars => IInv'
  BY TypeStep, WholeStep DEF IInv
<1> QED
  BY InitInv, <1>1, PTL DEF Spec

(* What the type invariant of a download says, in every reachable state    *)
(* (torrent.go:127-341).                                                   *)
THEOREM DownloadTypeCorrect == Spec => []TypeOK
<1>1. IInv => TypeOK
  BY DEF IInv
<1> QED
  BY IInvAlways, <1>1, PTL

(* A file that its torrent nests is never at its destination in part,      *)
(* however many attempts, calls and crashes (torrent.go:237-244, 274-291). *)
THEOREM DestIsWhole == Spec => []WholeAtDest
<1>1. IInv => WholeAtDest
  BY DEF IInv
<1> QED
  BY IInvAlways, <1>1, PTL

-----------------------------------------------------------------------------
(* Pieces stay: a nested file's through every later call, any file's while *)
(* the call that fetched them runs (torrent.go:39-40, 134-159).            *)
THEOREM PiecesAreKept == Spec => KeepsPieces
<1>1. ASSUME IInv, [Next]_vars,
             where = "nested" \/ (result = "running" /\ result' = "running")
      PROVE  OnDisk \subseteq OnDisk'
  <2>0. /\ disk \in [{"dest", "nested"} -> SUBSET Pieces]
        /\ where = "nested" => disk["dest"] \in {{}, Pieces}
        /\ result = "running" <=> pc # "idle"
        /\ TypeOK /\ OnlyAtDest
    BY <1>1 DEF IInv, TypeOK, WholeAtDest, RunsWhileBusy
  <2> USE DEF OnDisk
  <2>1. CASE Begin
    <3>1. where = "nested"
      BY <1>1, <2>0, <2>1 DEF Begin
    <3>2. CASE disk' = disk
      BY <3>2
    <3>3. CASE Discards(disk["dest"]) /\ disk' = [disk EXCEPT !["dest"] = {}]
      <4>1. disk["dest"] # Pieces
        BY <3>3, WholePasses DEF Discards
      <4> QED
        BY <2>0, <3>1, <3>3, <4>1
    <3> QED
      BY <2>1, <3>2, <3>3 DEF Begin, TryRemove
  <2>2. CASE PieceArrives
    BY <2>0, <2>2 DEF PieceArrives, Laid, Have
  <2>3. CASE Place
    BY <2>0, <2>3, Placing
  <2>4. CASE Check
    <3>1. CASE disk' = disk
      BY <3>1
    <3>2. CASE ~QuickValidate(disk["dest"]) /\ disk' = [disk EXCEPT !["dest"] = {}]
      <4>1. where = "nested"
        BY <1>1, <2>4, <3>2 DEF Check, Return
      <4>2. disk["dest"] # Pieces
        BY <3>2, WholePasses
      <4> QED
        BY <2>0, <3>2, <4>1, <4>2
    <3> QED
      BY <2>4, <3>1, <3>2 DEF Check, TryRemove
  <2>5. CASE \/ StartAttempt \/ CancelledAtTop \/ NoMetadata \/ GotInfo \/ NotInTorrent \/ Tick
             \/ Stalled \/ PlaceFails \/ CancelledInPoll \/ Cancel \/ Crash \/ UNCHANGED vars
    <3>1. disk' = disk
      BY <2>5 DEF StartAttempt, CancelledAtTop, NoMetadata, GotInfo, NotInTorrent, Tick, Stalled,
                  PlaceFails, CancelledInPoll, Cancel, Crash, vars
    <3> QED
      BY <3>1
  <2> QED
    BY <1>1, <2>1, <2>2, <2>3, <2>4, <2>5 DEF Next, Step
<1>2. IInv /\ [Next]_vars =>
        [where = "nested" \/ (result = "running" /\ result' = "running")
            => OnDisk \subseteq OnDisk']_vars
  BY <1>1
<1> QED
  BY IInvAlways, <1>2, PTL DEF Spec, KeepsPieces

(* A whole file at its destination stays: no call takes it for a bad one   *)
(* (torrent.go:313-318, 144-148).                                          *)
THEOREM WholeIsKept == Spec => KeepsWhole
<1>1. ASSUME IInv, [Next]_vars, disk["dest"] = Pieces
      PROVE  disk'["dest"] = Pieces
  <2>0. disk \in [{"dest", "nested"} -> SUBSET Pieces] /\ TypeOK /\ OnlyAtDest
    BY <1>1 DEF IInv, TypeOK
  <2>1. QuickValidate(disk["dest"])
    BY <1>1, WholePasses
  <2>2. CASE Begin
    BY <1>1, <2>1, <2>2 DEF Begin, Discards
  <2>3. CASE PieceArrives
    BY <1>1, <2>0, <2>3 DEF PieceArrives, Laid, Have
  <2>4. CASE Place
    BY <1>1, <2>0, <2>4, Placing
  <2>5. CASE Check
    BY <1>1, <2>1, <2>5 DEF Check
  <2>6. CASE \/ StartAttempt \/ CancelledAtTop \/ NoMetadata \/ GotInfo \/ NotInTorrent \/ Tick
             \/ Stalled \/ PlaceFails \/ CancelledInPoll \/ Cancel \/ Crash \/ UNCHANGED vars
    <3>1. disk' = disk
      BY <2>6 DEF StartAttempt, CancelledAtTop, NoMetadata, GotInfo, NotInTorrent, Tick, Stalled,
                  PlaceFails, CancelledInPoll, Cancel, Crash, vars
    <3> QED
      BY <1>1, <3>1
  <2> QED
    BY <1>1, <2>2, <2>3, <2>4, <2>5, <2>6 DEF Next, Step
<1>2. IInv /\ [Next]_vars => [disk["dest"] = Pieces => disk'["dest"] = Pieces]_vars
  BY <1>1
<1> QED
  BY IInvAlways, <1>2, PTL DEF Spec, KeepsWhole
=============================================================================
