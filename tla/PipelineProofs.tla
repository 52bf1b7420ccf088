--------------------------- MODULE PipelineProofs ---------------------------
(***************************************************************************)
(* Proofs about Pipeline.tla, for any number of months, of workers in each *)
(* pool, of decoder slots, faults and watchdog ticks, in every mode.       *)
(***************************************************************************)
EXTENDS Pipeline, FiniteSetTheorems, SequenceTheorems, TLAPS

-----------------------------------------------------------------------------
(* The inductive invariant.                                                *)

Pausing == {"recv", "exit"}
Scanning == {"scan", "scanUpload", "scanned"}
Sending == {"scanUpload", "tailUpload"}

StopsOf(w) ==
    Pausing \cup IF w \in Downloaders THEN {"disk", "download", "toProcess"}
                 ELSE IF w \in Processors THEN {"gate", "tail", "tailUpload", "toCommit"} \cup Scanning
                 ELSE IF w = Committer THEN {"ledger"}
                 ELSE {"download", "gate", "tail", "tailUpload", "ledger"} \cup Scanning

(* A worker keeps to the stops of its role, takes part if the mode has the *)
(* role, has a job exactly while it works, and uploads only to commit.     *)
Roles ==
    \A w \in Workers : /\ at[w] \in StopsOf(w)
                       /\ ~TakesPart(w) => at[w] = "exit"
                       /\ at[w] \in Pausing <=> holds[w] = 0
                       /\ at[w] \in Sending => HFCommit

(* Channels close in order: each only after all its senders have left, and *)
(* a worker leaves only when its channel is closed and drained.            *)
Closing ==
    /\ Sequential => closed = {} /\ downCh = <<>> /\ procCh = <<>> /\ commCh = <<>>
    /\ "proc" \in closed => \A w \in Downloaders : at[w] = "exit"
    /\ "comm" \in closed => \A w \in Processors : at[w] = "exit"
    /\ ~Sequential => /\ \A w \in Downloaders : at[w] = "exit" => "down" \in closed /\ downCh = <<>>
                      /\ \A w \in Processors : at[w] = "exit" => "proc" \in closed /\ procCh = <<>>
                      /\ at[Committer] = "exit" => fatal \/ ("comm" \in closed /\ commCh = <<>>)

(* The commit mutex is free or with a worker that uploads.                 *)
MutexHeld == commitMu # Free => commitMu \in Workers /\ at[commitMu] \in Uploading

(* What the feeder still has is untouched until it gives up.               *)
Unfed == "down" \notin closed => \A j \in Jobs : j > fed => fate[j] = "todo"

(* Downloads under way have been let in by the floor.                      *)
Downloading == {w \in Downloaders : at[w] = "download"}
UnderFloor ==
    ~Sequential => Cardinality(staged) + Cardinality(Downloading) < DiskRoom + Cardinality(Downloaders)

Inv == /\ TypeOK /\ Roles /\ Closing /\ MutexHeld /\ Unfed /\ UnderFloor
       /\ OneOwner /\ GateBalanced /\ LeftNothing

-----------------------------------------------------------------------------
(* Counting.                                                               *)

LEMMA PoolsFinite ==
  /\ IsFiniteSet(Workers) /\ IsFiniteSet(Downloaders)
  /\ Cardinality(Downloaders) \in Nat /\ Cardinality(Downloaders) >= 1
  <1>1. IsFiniteSet(Downloaders) /\ IsFiniteSet(Processors)
    BY RolesAssumption
  <1>2. IsFiniteSet({Committer, Solo})
    <2>1. IsFiniteSet({} \cup {Committer})
      BY FS_EmptySet, FS_AddElement
    <2>2. IsFiniteSet(({} \cup {Committer}) \cup {Solo})
      BY <2>1, FS_AddElement
    <2>3. ({} \cup {Committer}) \cup {Solo} = {Committer, Solo}
      OBVIOUS
    <2> QED
      BY <2>2, <2>3
  <1>3. IsFiniteSet(Downloaders \cup Processors)
    BY <1>1, FS_Union
  <1>4. IsFiniteSet(Workers)
    BY <1>2, <1>3, FS_Union DEF Workers
  <1>5. Cardinality(Downloaders) \in Nat /\ Cardinality(Downloaders) # 0
    BY <1>1, RolesAssumption, FS_EmptySet, FS_CardinalityType
  <1> QED
    BY <1>1, <1>4, <1>5

Bit(b) == IF b THEN 1 ELSE 0

(* How many workers of a finite set have a value in T, and how many after  *)
(* one of them gets another value.                                         *)
Having(W, f, T) == Cardinality({v \in W : f[v] \in T})
Moved(f, g, w, x) == g = [f EXCEPT ![w] = x]

LEMMA CountExcept ==
  ASSUME NEW W, IsFiniteSet(W), NEW f, W \subseteq DOMAIN f, NEW w \in DOMAIN f, NEW x, NEW g,
         Moved(f, g, w, x), NEW T
  PROVE  /\ Having(W, f, T) \in Nat
         /\ Having(W, g, T) = IF w \in W THEN Having(W, f, T) - Bit(f[w] \in T) + Bit(x \in T)
                                         ELSE Having(W, f, T)
  <1> DEFINE F == {v \in W : f[v] \in T}
             G == {v \in W : g[v] \in T}
  <1>1. IsFiniteSet(F) /\ Cardinality(F) \in Nat
    BY FS_Subset, FS_CardinalityType, F \in SUBSET W
  <1>2. \A v \in W : g[v] = IF v = w THEN x ELSE f[v]
    BY DEF Moved
  <1>3. CASE w \notin W
    <2>1. G = F
      BY <1>2, <1>3
    <2> QED
      BY <1>1, <1>3, <2>1 DEF Having
  <1>4. CASE w \in W
    <2> DEFINE R == F \ {w}
    <2>1. IsFiniteSet(R) /\ Cardinality(R) = Cardinality(F) - Bit(f[w] \in T)
      <3>1. w \in F <=> f[w] \in T
        BY <1>4
      <3> HIDE DEF F
      <3>2. IsFiniteSet(R) /\ Cardinality(R) = IF w \in F THEN Cardinality(F) - 1 ELSE Cardinality(F)
        BY <1>1, FS_RemoveElement
      <3> QED
        BY <1>1, <3>1, <3>2 DEF Bit
    <2>2. G = IF x \in T THEN R \cup {w} ELSE R
      BY <1>2, <1>4
    <2>3. w \notin R
      OBVIOUS
    <2> HIDE DEF F, G, R
    <2>4. Cardinality(R \cup {w}) = Cardinality(R) + 1
      BY <2>1, <2>3, FS_AddElement
    <2>5. Cardinality(G) = Cardinality(R) + Bit(x \in T)
      <3>1. CASE x \in T
        BY <2>2, <2>4, <3>1 DEF Bit
      <3>2. CASE x \notin T
        <4>1. Cardinality(R) \in Nat
          BY <2>1, FS_CardinalityType
        <4> QED
          BY <2>2, <3>2, <4>1 DEF Bit
      <3> QED
        BY <3>1, <3>2
    <2>6. Cardinality(F) - Bit(f[w] \in T) + Bit(x \in T) = Cardinality(G)
      BY <2>1, <2>5
    <2> QED
      BY <1>1, <1>4, <2>6 DEF F, G, Having
  <1> QED
    BY <1>3, <1>4

(* How often a job is in a channel.                                        *)
InCh(ch, j) == Cardinality({i \in DOMAIN ch : ch[i] = j})

LEMMA InChType ==
  ASSUME NEW ch \in Seq(Jobs), NEW j
  PROVE  IsFiniteSet({i \in DOMAIN ch : ch[i] = j}) /\ InCh(ch, j) \in Nat
  <1>1. DOMAIN ch = 1 .. Len(ch) /\ Len(ch) \in Nat
    BY LenProperties
  <1>2. IsFiniteSet(DOMAIN ch)
    BY <1>1, FS_Interval
  <1>3. {i \in DOMAIN ch : ch[i] = j} \in SUBSET DOMAIN ch
    OBVIOUS
  <1> QED
    BY <1>2, <1>3, FS_Subset, FS_CardinalityType DEF InCh

LEMMA InChAppend ==
  ASSUME NEW ch \in Seq(Jobs), NEW x \in Jobs, NEW j
  PROVE  InCh(Append(ch, x), j) = InCh(ch, j) + Bit(x = j)
  <1> DEFINE C == {i \in DOMAIN ch : ch[i] = j}
             n == Len(ch) + 1
             more == Append(ch, x)
             D == {i \in DOMAIN more : more[i] = j}
  <1>1. IsFiniteSet(C) /\ Cardinality(C) \in Nat
    BY InChType DEF InCh
  <1>2. /\ Len(ch) \in Nat /\ DOMAIN ch = 1 .. Len(ch) /\ more \in Seq(Jobs) /\ Len(more) = n
        /\ DOMAIN more = 1 .. n /\ more[n] = x /\ \A i \in 1 .. Len(ch) : more[i] = ch[i]
    BY LenProperties, AppendProperties
  <1>3. n \notin C
    BY <1>2
  <1> HIDE DEF more
  <1>4. D = IF x = j THEN C \cup {n} ELSE C
    BY <1>2
  <1> HIDE DEF C, D, n
  <1>5. Cardinality(C \cup {n}) = Cardinality(C) + 1
    BY <1>1, <1>3, FS_AddElement
  <1>6. Cardinality(D) = Cardinality(C) + Bit(x = j)
    BY <1>1, <1>4, <1>5 DEF Bit
  <1> QED
    BY <1>6 DEF InCh, C, D, more

LEMMA InChTail ==
  ASSUME NEW ch \in Seq(Jobs), ch # <<>>, NEW j
  PROVE  InCh(Tail(ch), j) = InCh(ch, j) - Bit(Head(ch) = j)
  <1> DEFINE C == {i \in DOMAIN ch : ch[i] = j}
             R == C \ {1}
             rest == Tail(ch)
             D == {i \in DOMAIN rest : rest[i] = j}
             f == [i \in D |-> i + 1]
  <1>1. IsFiniteSet(C) /\ Cardinality(C) \in Nat
    BY InChType DEF InCh
  <1>2. /\ Len(ch) \in Nat /\ Len(ch) >= 1 /\ DOMAIN ch = 1 .. Len(ch) /\ Head(ch) = ch[1]
        /\ rest \in Seq(Jobs) /\ Len(rest) = Len(ch) - 1 /\ DOMAIN rest = 1 .. Len(ch) - 1
        /\ \A i \in 1 .. Len(ch) - 1 : rest[i] = ch[i + 1]
    BY LenProperties, EmptySeq, HeadTailProperties
  <1>3. IsFiniteSet(D) /\ Cardinality(D) \in Nat
    BY <1>2, InChType DEF InCh
  <1>4. Cardinality(R) = Cardinality(C) - Bit(Head(ch) = j) /\ IsFiniteSet(R)
    <2>1. 1 \in C <=> Head(ch) = j
      BY <1>2
    <2> HIDE DEF C
    <2>2. IsFiniteSet(R) /\ Cardinality(R) = IF 1 \in C THEN Cardinality(C) - 1 ELSE Cardinality(C)
      BY <1>1, FS_RemoveElement
    <2> QED
      BY <1>1, <2>1, <2>2 DEF Bit
  <1> HIDE DEF rest
  <1>5. f \in Bijection(D, R)
    <2>1. \A i \in D : i + 1 \in R
      BY <1>2
    <2>2. \A r \in R : r - 1 \in D /\ (r - 1) + 1 = r
      BY <1>2
    <2>3. D \in SUBSET Nat
      BY <1>2
    <2> HIDE DEF D, R
    <2>4. f \in [D -> R]
      BY <2>1
    <2>5. \A a, b \in D : f[a] = f[b] => a = b
      BY <2>3
    <2>6. \A r \in R : \E d \in D : f[d] = r
      BY <2>2
    <2> HIDE DEF f
    <2>7. f \in Injection(D, R) /\ f \in Surjection(D, R)
      BY <2>4, <2>5, <2>6 DEF Injection, Surjection, IsInjective
    <2> QED
      BY <2>7 DEF Bijection
  <1>6. Cardinality(R) = Cardinality(D)
    <2>1. ExistsBijection(D, R)
      BY <1>5 DEF ExistsBijection
    <2> QED
      BY <1>3, <2>1, FS_Bijection
  <1> QED
    BY <1>4, <1>6 DEF InCh, rest

-----------------------------------------------------------------------------
(* Who has a job.                                                          *)

Held(h, j) == Cardinality({w \in Workers : h[w] = j})

LEMMA HeldExcept ==
  ASSUME NEW h, DOMAIN h = Workers, NEW w \in Workers, NEW x, NEW g, Moved(h, g, w, x), NEW j
  PROVE  /\ Held(h, j) \in Nat
         /\ Held(g, j) = Held(h, j) - Bit(h[w] = j) + Bit(x = j)
  <1>1. /\ Held(h, j) = Having(Workers, h, {j}) /\ Held(g, j) = Having(Workers, g, {j})
        /\ Bit(h[w] \in {j}) = Bit(h[w] = j) /\ Bit(x \in {j}) = Bit(x = j)
    BY DEF Held, Having, Bit
  <1>2. Workers \subseteq DOMAIN h /\ w \in DOMAIN h /\ IsFiniteSet(Workers)
    BY PoolsFinite
  <1>3. /\ Having(Workers, h, {j}) \in Nat
        /\ Having(Workers, g, {j}) = Having(Workers, h, {j}) - Bit(h[w] \in {j}) + Bit(x \in {j})
    BY <1>2, CountExcept
  <1> QED
    BY <1>1, <1>3

LEMMA HeldAtLeast ==
  ASSUME NEW h \in [Workers -> 0 .. N], NEW w \in Workers
  PROVE  Held(h, h[w]) >= 1
  <1> DEFINE C == {v \in Workers : h[v] = h[w]}
  <1>1. IsFiniteSet(C) /\ Cardinality(C) \in Nat
    BY PoolsFinite, FS_Subset, FS_CardinalityType, C \in SUBSET Workers
  <1>2. C # {}
    OBVIOUS
  <1> HIDE DEF C
  <1>3. Cardinality(C) # 0
    BY <1>1, <1>2, FS_EmptySet
  <1> QED
    BY <1>1, <1>3 DEF Held, C

LEMMA HeadIsIn ==
  ASSUME NEW ch \in Seq(Jobs), ch # <<>>
  PROVE  Head(ch) \in Jobs /\ InCh(ch, Head(ch)) >= 1
  <1>1. Head(ch) \in Jobs /\ Tail(ch) \in Seq(Jobs)
    BY HeadTailProperties
  <1>2. InCh(Tail(ch), Head(ch)) = InCh(ch, Head(ch)) - 1
    BY InChTail DEF Bit
  <1>3. InCh(Tail(ch), Head(ch)) \in Nat /\ InCh(ch, Head(ch)) \in Nat
    BY <1>1, InChType
  <1> QED
    BY <1>1, <1>2, <1>3

(* The invariant OneOwner, job by job.                                     *)
Owned(j) == IF j <= fed /\ fate[j] = "todo" THEN 1 ELSE 0

LEMMA Owners ==
  ASSUME TypeOK, OneOwner, NEW j \in Jobs
  PROVE  /\ Held(holds, j) \in Nat /\ InCh(downCh, j) \in Nat
         /\ InCh(procCh, j) \in Nat /\ InCh(commCh, j) \in Nat
         /\ Held(holds, j) + InCh(downCh, j) + InCh(procCh, j) + InCh(commCh, j) = Owned(j)
  <1>1. Held(holds, j) \in Nat
    <2>1. {w \in Workers : holds[w] = j} \in SUBSET Workers
      OBVIOUS
    <2> QED
      BY <2>1, PoolsFinite, FS_Subset, FS_CardinalityType DEF Held
  <1>2. InCh(downCh, j) \in Nat /\ InCh(procCh, j) \in Nat /\ InCh(commCh, j) \in Nat
    BY InChType DEF TypeOK
  <1>3. Held(holds, j) + InCh(downCh, j) + InCh(procCh, j) + InCh(commCh, j) = Owned(j)
    BY DEF OneOwner, Places, Held, InCh, Owned
  <1> QED
    BY <1>1, <1>2, <1>3

(* A job that a worker holds, or that waits in a channel, has been fed and *)
(* has no fate yet.                                                        *)
LEMMA HeldOpen ==
  ASSUME TypeOK, OneOwner, NEW w \in Workers, holds[w] # 0
  PROVE  holds[w] \in Jobs /\ holds[w] <= fed /\ fate[holds[w]] = "todo"
  <1>1. holds[w] \in Jobs
    BY CapsAssumption DEF TypeOK, Jobs
  <1>2. Held(holds, holds[w]) >= 1
    BY HeldAtLeast DEF TypeOK
  <1>3. Owned(holds[w]) # 0
    BY <1>1, <1>2, Owners
  <1> QED
    BY <1>1, <1>3 DEF Owned

LEMMA WaitingOpen ==
  ASSUME TypeOK, OneOwner, NEW ch \in {downCh, procCh, commCh}, ch # <<>>
  PROVE  Head(ch) \in Jobs /\ Head(ch) <= fed /\ fate[Head(ch)] = "todo"
  <1>1. Head(ch) \in Jobs /\ InCh(ch, Head(ch)) >= 1
    BY HeadIsIn DEF TypeOK
  <1>2. Owned(Head(ch)) # 0
    BY <1>1, Owners
  <1> QED
    BY <1>1, <1>2 DEF Owned

(* The new counts make the new OneOwner.                                   *)
LEMMA OwnersAgain ==
  ASSUME \A j \in Jobs : Held(holds, j)' + InCh(downCh, j)' + InCh(procCh, j)' + InCh(commCh, j)'
                           = Owned(j)'
  PROVE  OneOwner'
  BY DEF OneOwner, Places, Held, InCh, Owned, Jobs

(* A worker that drops a job, which then has a fate, leaves the rest alone.*)
LEMMA LeaveOwners ==
  ASSUME TypeOK, OneOwner, NEW w \in Workers, holds[w] # 0, NEW f, f # "todo",
         fate' = [fate EXCEPT ![holds[w]] = f], holds' = [holds EXCEPT ![w] = 0],
         UNCHANGED <<fed, downCh, procCh, commCh>>
  PROVE  OneOwner'
  <1> SUFFICES ASSUME NEW j \in Jobs
               PROVE  Held(holds, j)' + InCh(downCh, j)' + InCh(procCh, j)' + InCh(commCh, j)' = Owned(j)'
    BY OwnersAgain
  <1>1. /\ Held(holds, j) \in Nat /\ InCh(downCh, j) \in Nat
        /\ InCh(procCh, j) \in Nat /\ InCh(commCh, j) \in Nat
        /\ Held(holds, j) + InCh(downCh, j) + InCh(procCh, j) + InCh(commCh, j) = Owned(j)
    BY Owners
  <1>2. Held(holds', j) = Held(holds, j) - Bit(holds[w] = j)
    <2>1. DOMAIN holds = Workers /\ Bit(0 = j) = 0 /\ Moved(holds, holds', w, 0)
      BY DEF TypeOK, Bit, Jobs, Moved
    <2>2. Held(holds', j) = Held(holds, j) - Bit(holds[w] = j) + Bit(0 = j)
      BY <2>1, HeldExcept
    <2> QED
      BY <1>1, <2>1, <2>2 DEF Bit
  <1>3. holds[w] \in Jobs /\ holds[w] <= fed /\ fate[holds[w]] = "todo"
    BY HeldOpen
  <1>4. Owned(j)' = Owned(j) - Bit(holds[w] = j)
    BY <1>3 DEF Owned, Bit, TypeOK
  <1>5. /\ InCh(downCh, j)' = InCh(downCh, j) /\ InCh(procCh, j)' = InCh(procCh, j)
        /\ InCh(commCh, j)' = InCh(commCh, j) /\ Held(holds, j)' = Held(holds', j)
    BY DEF InCh, Held, Workers
  <1> QED
    BY <1>1, <1>2, <1>4, <1>5 DEF Owned, Bit

-----------------------------------------------------------------------------
(* A step of one worker: from its stop to another, with the job it holds.  *)

Step(w, stop, job) ==
    /\ mode' = mode
    /\ at[w] # "exit" /\ stop \in StopsOf(w) /\ job \in 0 .. N
    /\ stop \in Pausing <=> job = 0
    /\ stop \in Sending => HFCommit
    /\ at' = [at EXCEPT ![w] = stop]
    /\ holds' = [holds EXCEPT ![w] = job]

(* What a step does to the decoder gate and to the commit mutex.           *)
Gated(w, stop) ==
    decoders' = decoders - Bit(at[w] \in Scanning) + Bit(stop \in Scanning) /\ decoders' <= MaxDecodes
Locked(w) == commitMu' = Free \/ (commitMu' = commitMu /\ at[w] \notin Uploading)

LEMMA StopTypes ==
  ASSUME NEW w \in Workers
  PROVE  StopsOf(w) \subseteq Stops
  BY DEF StopsOf, Stops, Pausing, Scanning

LEMMA RolesMove ==
  ASSUME TypeOK, Roles, NEW w \in Workers, NEW stop, NEW job, Step(w, stop, job)
  PROVE  /\ Roles' /\ at' \in [Workers -> Stops] /\ holds' \in [Workers -> 0 .. N]
         /\ TakesPart(w)
         /\ \A v \in Workers : at'[v] = IF v = w THEN stop ELSE at[v]
  <1>1. at \in [Workers -> Stops] /\ holds \in [Workers -> 0 .. N]
    BY DEF TypeOK
  <1>2. stop \in Stops
    BY StopTypes DEF Step
  <1>3. \A v \in Workers : /\ at'[v] = IF v = w THEN stop ELSE at[v]
                           /\ holds'[v] = IF v = w THEN job ELSE holds[v]
    BY <1>1 DEF Step
  <1>4. TakesPart(w)
    BY DEF Roles, Step
  <1>5. Roles'
    <2> SUFFICES ASSUME NEW v \in Workers
                 PROVE  /\ at'[v] \in StopsOf(v)
                        /\ ~TakesPart(v)' => at'[v] = "exit"
                        /\ at'[v] \in Pausing <=> holds'[v] = 0
                        /\ at'[v] \in Sending => HFCommit'
      BY DEF Roles, Workers, StopsOf, Pausing, Sending, Scanning
    <2>1. (TakesPart(v)' <=> TakesPart(v)) /\ (HFCommit' <=> HFCommit)
      BY DEF Step, TakesPart, HFCommit, Sequential
    <2>2. CASE v = w
      BY <1>3, <1>4, <2>1, <2>2 DEF Step
    <2>3. CASE v # w
      BY <1>3, <2>1, <2>3 DEF Roles
    <2> QED
      BY <2>2, <2>3
  <1> QED
    BY <1>1, <1>2, <1>3, <1>4, <1>5 DEF Step

LEMMA RolesStay ==
  ASSUME Roles, UNCHANGED <<mode, at, holds>>
  PROVE  Roles'
  BY DEF Roles, Workers, StopsOf, Pausing, Sending, Scanning, TakesPart, HFCommit, Sequential

LEMMA MutexMove ==
  ASSUME MutexHeld, TypeOK, NEW w \in Workers, NEW stop, NEW job, Step(w, stop, job), Locked(w)
  PROVE  MutexHeld' /\ commitMu' \in Workers \cup {Free}
  BY DEF MutexHeld, TypeOK, Step, Locked, Uploading, Workers

LEMMA GateMove ==
  ASSUME TypeOK, GateBalanced, NEW w \in Workers, NEW stop, NEW job, Step(w, stop, job), Gated(w, stop)
  PROVE  GateBalanced' /\ decoders' \in 0 .. MaxDecodes
  <1> DEFINE C == {v \in Workers : at[v] \in Scanning}
             D == {v \in Workers : at'[v] \in Scanning}
  <1>1. /\ w \in DOMAIN at /\ Workers \subseteq DOMAIN at /\ IsFiniteSet(Workers)
        /\ Moved(at, at', w, stop)
    BY PoolsFinite DEF TypeOK, Step, Moved
  <1>2. Cardinality(D) = Cardinality(C) - Bit(at[w] \in Scanning) + Bit(stop \in Scanning)
    <2>1. Having(Workers, at', Scanning)
            = Having(Workers, at, Scanning) - Bit(at[w] \in Scanning) + Bit(stop \in Scanning)
      BY <1>1, CountExcept
    <2> QED
      BY <2>1 DEF Having
  <1>3. IsFiniteSet(D) /\ Cardinality(D) \in Nat
    BY PoolsFinite, FS_Subset, FS_CardinalityType, D \in SUBSET Workers
  <1>4. decoders = Cardinality(C)
    BY DEF GateBalanced, Scanning
  <1>5. decoders' = Cardinality(D)
    BY <1>2, <1>4 DEF Gated
  <1>6. GateBalanced'
    BY <1>5 DEF GateBalanced, Scanning, Workers
  <1>7. decoders' \in 0 .. MaxDecodes
    BY <1>3, <1>5, CapsAssumption DEF Gated
  <1> QED
    BY <1>6, <1>7

LEMMA GateStays ==
  ASSUME GateBalanced, UNCHANGED <<at, decoders>>
  PROVE  GateBalanced'
  BY DEF GateBalanced, Workers

(* Nothing is closed or fed into an empty channel, and nobody exits.       *)
LEMMA ClosingMove ==
  ASSUME TypeOK, Roles, Closing, NEW w \in Workers, NEW stop, NEW job, Step(w, stop, job), stop # "exit",
         UNCHANGED <<closed, fatal>>,
         downCh = <<>> => downCh' = <<>>, procCh = <<>> => procCh' = <<>>, commCh = <<>> => commCh' = <<>>
  PROVE  Closing'
  <1>1. \A v \in Workers : at'[v] = "exit" <=> at[v] = "exit"
    BY DEF Step, TypeOK
  <1>2. /\ Sequential' <=> Sequential
        /\ Downloaders \subseteq Workers /\ Processors \subseteq Workers /\ Committer \in Workers
    BY DEF Step, Sequential, Workers
  <1> QED
    BY <1>1, <1>2 DEF Closing

LEMMA ClosingStays ==
  ASSUME Closing, UNCHANGED <<mode, at, closed, fatal>>,
         downCh = <<>> => downCh' = <<>>, procCh = <<>> => procCh' = <<>>, commCh = <<>> => commCh' = <<>>
  PROVE  Closing'
  BY DEF Closing, Sequential

(* Downloading never grows by a step to another stop.                      *)
LEMMA FloorCounts ==
  ASSUME TypeOK, NEW w \in Workers, NEW stop, Moved(at, at', w, stop)
  PROVE  /\ IsFiniteSet(staged) /\ Cardinality(staged) \in Nat
         /\ Cardinality(Downloading) \in Nat
         /\ Cardinality(Downloading') =
              IF w \in Downloaders THEN Cardinality(Downloading) - Bit(at[w] = "download") + Bit(stop = "download")
                                   ELSE Cardinality(Downloading)
         /\ at[w] # "download" /\ w \in Downloaders => Cardinality(Downloading) <= Cardinality(Downloaders) - 1
  <1>1. IsFiniteSet(staged) /\ Cardinality(staged) \in Nat
    <2>1. staged \in SUBSET (1 .. N) /\ N \in Int
      BY CapsAssumption DEF TypeOK, Jobs
    <2>2. IsFiniteSet(1 .. N)
      BY <2>1, FS_Interval
    <2> QED
      BY <2>1, <2>2, FS_Subset, FS_CardinalityType
  <1>2. Downloaders \subseteq DOMAIN at /\ w \in DOMAIN at /\ IsFiniteSet(Downloaders)
    BY PoolsFinite DEF TypeOK, Workers
  <1>3. /\ Cardinality(Downloading) \in Nat
        /\ Cardinality(Downloading') =
              IF w \in Downloaders THEN Cardinality(Downloading) - Bit(at[w] = "download") + Bit(stop = "download")
                                   ELSE Cardinality(Downloading)
    <2>1. /\ Cardinality(Downloading) = Having(Downloaders, at, {"download"})
          /\ Cardinality(Downloading') = Having(Downloaders, at', {"download"})
          /\ Bit(at[w] \in {"download"}) = Bit(at[w] = "download")
          /\ Bit(stop \in {"download"}) = Bit(stop = "download")
      BY DEF Downloading, Having, Bit
    <2>2. /\ Having(Downloaders, at, {"download"}) \in Nat
          /\ Having(Downloaders, at', {"download"}) =
               IF w \in Downloaders
               THEN Having(Downloaders, at, {"download"}) - Bit(at[w] \in {"download"}) + Bit(stop \in {"download"})
               ELSE Having(Downloaders, at, {"download"})
      BY <1>2, CountExcept
    <2> QED
      BY <2>1, <2>2
  <1>4. ASSUME at[w] # "download", w \in Downloaders
        PROVE  Cardinality(Downloading) <= Cardinality(Downloaders) - 1
    <2>1. Downloading \in SUBSET (Downloaders \ {w})
      BY <1>4 DEF Downloading
    <2>2. IsFiniteSet(Downloaders \ {w}) /\ Cardinality(Downloaders \ {w}) = Cardinality(Downloaders) - 1
      BY <1>4, PoolsFinite, FS_RemoveElement
    <2> QED
      BY <2>1, <2>2, FS_Subset
  <1> QED
    BY <1>1, <1>3, <1>4

LEMMA FloorMove ==
  ASSUME TypeOK, UnderFloor, NEW w \in Workers, NEW stop, NEW job, Step(w, stop, job),
         stop = "download" => Sequential, staged' \subseteq staged
  PROVE  UnderFloor'
  <1>1. /\ IsFiniteSet(staged) /\ Cardinality(staged) \in Nat /\ Cardinality(Downloading) \in Nat
        /\ Cardinality(Downloading') =
              IF w \in Downloaders THEN Cardinality(Downloading) - Bit(at[w] = "download") + Bit(stop = "download")
                                   ELSE Cardinality(Downloading)
    <2>1. Moved(at, at', w, stop)
      BY DEF Step, Moved
    <2> QED
      BY <2>1, FloorCounts
  <1>2. Cardinality(staged') <= Cardinality(staged) /\ Cardinality(staged') \in Nat
    BY <1>1, FS_Subset, FS_CardinalityType
  <1>3. ~Sequential => Cardinality(Downloading') <= Cardinality(Downloading) /\ Cardinality(Downloading') \in Int
    BY <1>1 DEF Bit
  <1>4. Sequential' <=> Sequential
    BY DEF Step, Sequential
  <1> QED
    BY <1>1, <1>2, <1>3, <1>4, PoolsFinite, CapsAssumption DEF UnderFloor

LEMMA FloorStays ==
  ASSUME UnderFloor, UNCHANGED <<mode, at, staged>>
  PROVE  UnderFloor'
  BY DEF UnderFloor, Downloading, Sequential

-----------------------------------------------------------------------------
(* Steps inside a stage: the worker keeps its job.                         *)

Inside(w, stop) ==
    /\ Running /\ at[w] \notin Pausing /\ stop \in StopsOf(w) \ Pausing
    /\ stop \in Sending => HFCommit
    /\ at' = [at EXCEPT ![w] = stop]
    /\ Gated(w, stop) /\ Locked(w)
    /\ idle' \in {0, idle}
    /\ UNCHANGED <<mode, fed, chans, holds, fate, signals, result, faults>>

LEMMA InsideIsStep ==
  ASSUME Inv, NEW w \in Workers, NEW stop, Inside(w, stop)
  PROVE  Step(w, stop, holds[w])
  <1>1. holds = [holds EXCEPT ![w] = holds[w]] /\ holds[w] \in 0 .. N
    BY DEF Inv, TypeOK
  <1>2. holds[w] # 0
    BY DEF Inv, Roles, Inside
  <1> QED
    BY <1>1, <1>2 DEF Step, Inside, Pausing

LEMMA InsideStep ==
  ASSUME Inv, NEW w \in Workers, NEW stop, Inside(w, stop), staged' \subseteq Jobs, UnderFloor'
  PROVE  Inv'
  <1> USE DEF Inv
  <1>1. Step(w, stop, holds[w])
    BY InsideIsStep
  <1>2. Roles' /\ at' \in [Workers -> Stops]
    BY <1>1, RolesMove
  <1>3. MutexHeld' /\ commitMu' \in Workers \cup {Free}
    BY <1>1, MutexMove DEF Inside
  <1>4. GateBalanced' /\ decoders' \in 0 .. MaxDecodes
    BY <1>1, GateMove DEF Inside
  <1>5. Closing'
    BY <1>1, ClosingMove DEF Inside, chans, signals, Pausing
  <1>6. Unfed' /\ OneOwner' /\ LeftNothing'
    BY DEF Inside, chans, signals, Unfed, OneOwner, Places, LeftNothing, Running, Jobs, Workers
  <1>7. TypeOK'
    BY <1>2, <1>3, <1>4, CapsAssumption DEF Inside, chans, signals, TypeOK, Jobs, Workers
  <1> QED
    BY <1>2, <1>3, <1>4, <1>5, <1>6, <1>7

(* Every such step but the floor's and the download's own.                 *)
LEMMA OnwardStep ==
  ASSUME Inv, NEW w \in Workers, NEW stop, Inside(w, stop), stop # "download", UNCHANGED staged
  PROVE  Inv'
  <1>1. UnderFloor'
    BY InsideIsStep, FloorMove DEF Inv
  <1> QED
    BY <1>1, InsideStep DEF Inv, TypeOK

(* Steps that end a stage: the worker drops its job, which gets its fate.  *)
Ends(w, f) ==
    /\ Running /\ at[w] \notin Pausing /\ f \in Fates \ {"todo"}
    /\ Leave(w, f)
    /\ Gated(w, "recv") /\ Locked(w)
    /\ idle' \in {0, idle} /\ faults' \in 0 .. MaxFaults /\ staged' \subseteq staged
    /\ UNCHANGED <<mode, fed, chans, signals>>

LEMMA EndsOrReturns ==
  ASSUME Inv, NEW w \in Workers, NEW f, Ends(w, f),
         result' \in {"running", "ok", "stall", "error"}, LeftNothing'
  PROVE  Inv'
  <1> USE DEF Inv
  <1>1. Step(w, "recv", 0)
    BY CapsAssumption DEF Step, Ends, Leave, Go, StopsOf, Pausing, Sending
  <1>2. Roles' /\ at' \in [Workers -> Stops] /\ holds' \in [Workers -> 0 .. N]
    BY <1>1, RolesMove
  <1>3. MutexHeld' /\ commitMu' \in Workers \cup {Free}
    BY <1>1, MutexMove DEF Ends
  <1>4. GateBalanced' /\ decoders' \in 0 .. MaxDecodes
    BY <1>1, GateMove DEF Ends
  <1>5. Closing'
    BY <1>1, ClosingMove DEF Ends, chans, signals
  <1>6. UnderFloor'
    BY <1>1, FloorMove DEF Ends
  <1>7. holds[w] \in Jobs /\ holds[w] <= fed /\ fate[holds[w]] = "todo"
    BY HeldOpen DEF Ends, Roles
  <1>8. fate' = [fate EXCEPT ![holds[w]] = f] /\ fate' \in [Jobs -> Fates]
    BY <1>7 DEF Ends, Leave, Job, TypeOK
  <1>9. Unfed'
    BY <1>7, <1>8 DEF Unfed, Ends, chans, Jobs, TypeOK
  <1>10. OneOwner'
    <2>1. holds[w] # 0 /\ f # "todo"
      BY <1>7 DEF Ends, Jobs
    <2>2. holds' = [holds EXCEPT ![w] = 0] /\ UNCHANGED <<fed, downCh, procCh, commCh>>
      BY DEF Ends, Leave, chans
    <2> QED
      BY <1>8, <2>1, <2>2, LeaveOwners
  <1>11. TypeOK'
    <2>1. /\ staged' \subseteq Jobs /\ idle' \in 0 .. StallTicks
          /\ UNCHANGED <<mode, fed, downCh, procCh, commCh, closed, stalled, user, fatal>>
          /\ faults' \in 0 .. MaxFaults
      BY CapsAssumption DEF Ends, TypeOK, chans, signals
    <2> QED
      BY <1>2, <1>3, <1>4, <1>8, <2>1 DEF TypeOK, Jobs, Workers
  <1> QED
    BY <1>2, <1>3, <1>4, <1>5, <1>6, <1>9, <1>10, <1>11

LEMMA EndsStep ==
  ASSUME Inv, NEW w \in Workers, NEW f, Ends(w, f), result' = result
  PROVE  Inv'
  <1>1. LeftNothing' /\ result' \in {"running", "ok", "stall", "error"}
    BY DEF Ends, LeftNothing, Running
  <1> QED
    BY <1>1, EndsOrReturns

-----------------------------------------------------------------------------
(* The actions of a worker inside a stage.                                 *)

(* Which workers can stand at a stop.                                      *)
LEMMA WhoStands ==
  ASSUME Inv, NEW w \in Workers
  PROVE  /\ at[w] = "disk" \/ at[w] = "toProcess" => w \in Downloaders /\ ~Sequential
         /\ at[w] = "download" => IF Sequential THEN w = Solo ELSE w \in Downloaders
         /\ at[w] \in Scanning \cup {"gate", "tail", "tailUpload"}
              => IF Sequential THEN w = Solo ELSE w \in Processors
         /\ at[w] = "toCommit" => w \in Processors /\ ~Sequential
         /\ at[w] = "ledger" => IF Sequential THEN w = Solo ELSE w = Committer
  BY RolesAssumption DEF Inv, Roles, StopsOf, TakesPart, Workers, Pausing, Scanning

(* The stops of each role.                                                 *)
LEMMA RoleStops ==
  /\ \A w \in Downloaders : StopsOf(w) = Pausing \cup {"disk", "download", "toProcess"}
  /\ \A w \in Processors :
        StopsOf(w) = Pausing \cup {"gate", "tail", "tailUpload", "toCommit"} \cup Scanning
  /\ StopsOf(Committer) = Pausing \cup {"ledger"}
  /\ StopsOf(Solo) = Pausing \cup {"download", "gate", "tail", "tailUpload", "ledger"} \cup Scanning
  BY RolesAssumption DEF StopsOf

LEMMA DiskOKStep ==
  ASSUME Inv, NEW w \in Workers, DiskOK(w)
  PROVE  Inv'
  <1>1. w \in Downloaders
    BY WhoStands DEF DiskOK
  <1>2. Inside(w, "download")
    BY <1>1, RoleStops DEF DiskOK, Go, Inside, Gated, Locked, Bit, Pausing, Scanning, Sending, Uploading, Inv, TypeOK
  <1>3. /\ IsFiniteSet(staged) /\ Cardinality(staged) \in Nat /\ Cardinality(Downloading) \in Nat
        /\ Cardinality(Downloading') = Cardinality(Downloading) + 1
        /\ Cardinality(Downloading) <= Cardinality(Downloaders) - 1
    <2>1. Moved(at, at', w, "download") /\ at[w] = "disk"
      BY DEF DiskOK, Go, Moved
    <2> QED
      BY <1>1, <2>1, FloorCounts DEF Bit, Inv
  <1>4. UnderFloor'
    BY <1>3, PoolsFinite, CapsAssumption DEF DiskOK, Room, UnderFloor, Sequential
  <1> QED
    BY <1>2, <1>4, InsideStep DEF DiskOK, Inv, TypeOK

LEMMA DownloadedStep ==
  ASSUME Inv, NEW w \in Workers, Downloaded(w)
  PROVE  Inv'
  <1> DEFINE stop == IF Sequential THEN "gate" ELSE "toProcess"
  <1>1. IF Sequential THEN w = Solo ELSE w \in Downloaders
    BY WhoStands DEF Downloaded
  <1>2. Inside(w, stop)
    BY <1>1, RoleStops
    DEF Downloaded, Go, Inside, Gated, Locked, Bit, Pausing, Scanning, Sending, Uploading, Inv, TypeOK
  <1>3. holds[w] \in Jobs
    BY HeldOpen DEF Inv, Roles, Downloaded, Pausing
  <1>4. CASE Sequential
    BY <1>2, <1>3, <1>4, InsideStep DEF Downloaded, Job, Inv, TypeOK, UnderFloor, Sequential
  <1>5. CASE ~Sequential
    <2>1. /\ IsFiniteSet(staged) /\ Cardinality(staged) \in Nat /\ Cardinality(Downloading) \in Nat
          /\ Cardinality(Downloading') = Cardinality(Downloading) - 1
      <3>1. Moved(at, at', w, stop) /\ at[w] = "download" /\ stop # "download"
        BY DEF Downloaded, Go, Moved
      <3> QED
        BY <1>1, <1>5, <3>1, FloorCounts DEF Bit, Inv
    <2>2. Cardinality(staged') <= Cardinality(staged) + 1 /\ Cardinality(staged') \in Nat
      BY <2>1, FS_AddElement DEF Downloaded
    <2>3. UnderFloor'
      BY <1>5, <2>1, <2>2, PoolsFinite, CapsAssumption DEF Inv, UnderFloor, Downloaded, Sequential
    <2> QED
      BY <1>2, <1>3, <2>3, InsideStep DEF Downloaded, Job, Inv, TypeOK
  <1> QED
    BY <1>4, <1>5

LEMMA AcquireDecoderStep ==
  ASSUME Inv, NEW w \in Workers, AcquireDecoder(w)
  PROVE  Inv'
  <1>1. IF Sequential THEN w = Solo ELSE w \in Processors
    BY WhoStands DEF AcquireDecoder
  <1>2. decoders' = decoders - Bit(at[w] \in Scanning) + Bit("scan" \in Scanning) /\ decoders' <= MaxDecodes
    BY CapsAssumption DEF AcquireDecoder, Bit, Scanning, Inv, TypeOK
  <1>3. Inside(w, "scan")
    BY <1>1, <1>2, RoleStops
    DEF AcquireDecoder, Go, Inside, Gated, Locked, Pausing, Scanning, Sending, Uploading
  <1> QED
    BY <1>3, OnwardStep DEF AcquireDecoder

LEMMA BatchFullStep ==
  ASSUME Inv, NEW w \in Workers, BatchFull(w)
  PROVE  Inv'
  <1>1. IF Sequential THEN w = Solo ELSE w \in Processors
    BY WhoStands DEF BatchFull, Scanning
  <1>2. Inside(w, "scanUpload")
    BY <1>1, RoleStops
    DEF BatchFull, Go, Inside, Gated, Locked, Bit, Pausing, Scanning, Sending, Uploading, Inv, TypeOK
  <1> QED
    BY <1>2, OnwardStep DEF BatchFull

LEMMA ScanEndsStep ==
  ASSUME Inv, NEW w \in Workers, ScanEnds(w)
  PROVE  Inv'
  <1>1. IF Sequential THEN w = Solo ELSE w \in Processors
    BY WhoStands DEF ScanEnds, Scanning
  <1>2. decoders' = decoders - Bit(at[w] \in Scanning) + Bit("tail" \in Scanning) /\ decoders' <= MaxDecodes
    BY CapsAssumption DEF ScanEnds, ReleaseDecoder, Bit, Scanning, Inv, TypeOK
  <1>3. Inside(w, "tail")
    BY <1>1, <1>2, RoleStops
    DEF ScanEnds, MarkProgress, Go, Inside, Gated, Locked, Pausing, Scanning, Sending, Uploading
  <1> QED
    BY <1>3, OnwardStep DEF ScanEnds

LEMMA TailBatchStep ==
  ASSUME Inv, NEW w \in Workers, TailBatch(w)
  PROVE  Inv'
  <1>1. IF Sequential THEN w = Solo ELSE w \in Processors
    BY WhoStands DEF TailBatch
  <1>2. Inside(w, "tailUpload")
    BY <1>1, RoleStops
    DEF TailBatch, Go, Inside, Gated, Locked, Bit, Pausing, Scanning, Sending, Uploading, Inv, TypeOK
  <1> QED
    BY <1>2, OnwardStep DEF TailBatch

LEMMA ProcessedStep ==
  ASSUME Inv, NEW w \in Workers, Processed(w)
  PROVE  Inv'
  <1> DEFINE stop == IF Sequential THEN "ledger" ELSE "toCommit"
  <1>1. IF Sequential THEN w = Solo ELSE w \in Processors
    BY WhoStands DEF Processed
  <1>2. Inside(w, stop)
    BY <1>1, RoleStops
    DEF Processed, Go, Inside, Gated, Locked, Bit, Pausing, Scanning, Sending, Uploading, Inv, TypeOK
  <1> QED
    BY <1>2, OnwardStep DEF Processed

LEMMA BatchUploadedStep ==
  ASSUME Inv, NEW w \in Workers, BatchUploaded(w)
  PROVE  Inv'
  <1> DEFINE stop == IF at[w] = "scanUpload" THEN "scanned" ELSE IF Sequential THEN "ledger" ELSE "toCommit"
  <1>1. IF Sequential THEN w = Solo ELSE w \in Processors
    BY WhoStands DEF BatchUploaded, Scanning
  <1>2. Gated(w, stop) /\ Locked(w)
    <2>1. Locked(w)
      BY DEF BatchUploaded, Unlock, Locked
    <2>2. Gated(w, stop)
      BY DEF BatchUploaded, Gated, Bit, Scanning, Inv, TypeOK
    <2> QED
      BY <2>1, <2>2
  <1>3. Inside(w, stop)
    BY <1>1, <1>2, RoleStops DEF BatchUploaded, MarkProgress, Go, Inside, Pausing, Scanning, Sending
  <1> QED
    BY <1>3, OnwardStep DEF BatchUploaded

-----------------------------------------------------------------------------
(* The actions that end a stage.                                           *)

LEMMA FaultsBounded ==
  ASSUME Inv, StageError
  PROVE  faults' \in 0 .. MaxFaults
  BY CapsAssumption DEF StageError, Inv, TypeOK

LEMMA Released ==
  ASSUME Inv, NEW w \in Workers, ReleaseIfScanning(w)
  PROVE  Gated(w, "recv")
  BY CapsAssumption DEF ReleaseIfScanning, Gated, Bit, Scanning, Inv, TypeOK

LEMMA DiskCancelStep ==
  ASSUME Inv, NEW w \in Workers, DiskCancel(w)
  PROVE  Inv'
  <1>1. Ends(w, "dropped")
    BY DEF DiskCancel, Ends, Gated, Locked, Bit, Pausing, Scanning, Uploading, Fates, Inv, TypeOK
  <1> QED
    BY <1>1, EndsStep DEF DiskCancel

LEMMA DownloadFailsStep ==
  ASSUME Inv, NEW w \in Workers, DownloadFails(w)
  PROVE  Inv'
  <1>1. Ends(w, "skipped")
    BY FaultsBounded
    DEF DownloadFails, Ends, Gated, Locked, Bit, Pausing, Scanning, Uploading, Fates, Inv, TypeOK
  <1> QED
    BY <1>1, EndsStep DEF DownloadFails

LEMMA SendCancelledStep ==
  ASSUME Inv, NEW w \in Workers, SendCancelled(w)
  PROVE  Inv'
  <1>1. Ends(w, "dropped")
    BY DEF SendCancelled, Ends, Gated, Locked, Bit, Pausing, Scanning, Uploading, Fates, Inv, TypeOK
  <1> QED
    BY <1>1, EndsStep DEF SendCancelled

LEMMA ProcessFailsStep ==
  ASSUME Inv, NEW w \in Workers, ProcessFails(w)
  PROVE  Inv'
  <1>1. faults' \in 0 .. MaxFaults /\ Gated(w, "recv")
    BY FaultsBounded, Released DEF ProcessFails
  <1>2. Ends(w, "skipped")
    BY <1>1 DEF ProcessFails, Ends, Locked, Pausing, Uploading, Fates
  <1> QED
    BY <1>2, EndsStep DEF ProcessFails

LEMMA BatchFailsStep ==
  ASSUME Inv, NEW w \in Workers, BatchFails(w)
  PROVE  Inv'
  <1>1. faults' \in 0 .. MaxFaults /\ Gated(w, "recv")
    BY FaultsBounded, Released DEF BatchFails
  <1>2. Locked(w)
    BY DEF BatchFails, Unlock, Locked
  <1>3. Ends(w, "skipped")
    BY <1>1, <1>2 DEF BatchFails, Ends, Pausing, Fates
  <1> QED
    BY <1>3, EndsStep DEF BatchFails

LEMMA LedgerPushedStep ==
  ASSUME Inv, NEW w \in Workers, LedgerPushed(w)
  PROVE  Inv'
  <1>1. Gated(w, "recv") /\ idle' \in {0, idle}
    BY DEF LedgerPushed, MarkProgress, Gated, Bit, Scanning, Inv, TypeOK
  <1>2. Locked(w)
    BY DEF LedgerPushed, Unlock, Locked
  <1>3. Ends(w, "published")
    BY <1>1, <1>2 DEF LedgerPushed, Ends, Pausing, Fates, Inv, TypeOK
  <1> QED
    BY <1>3, EndsStep DEF LedgerPushed

LEMMA LedgerFailsStep ==
  ASSUME Inv, NEW w \in Workers, LedgerFails(w)
  PROVE  Inv'
  <1>1. faults' \in 0 .. MaxFaults /\ Gated(w, "recv")
    BY FaultsBounded DEF LedgerFails, Gated, Bit, Scanning, Inv, TypeOK
  <1>2. Locked(w)
    BY DEF LedgerFails, Unlock, Locked
  <1>3. Ends(w, "uncommitted")
    BY <1>1, <1>2 DEF LedgerFails, Ends, Pausing, Fates
  <1> QED
    BY <1>3, EndsStep DEF LedgerFails

-----------------------------------------------------------------------------
(* Jobs that move between workers and channels.                            *)

(* A worker gets job x for the one it had; the channels have the rest.     *)
LEMMA TransferOwners ==
  ASSUME TypeOK, OneOwner, NEW w \in Workers, NEW x, Moved(holds, holds', w, x), UNCHANGED <<fed, fate>>,
         downCh' \in Seq(Jobs), procCh' \in Seq(Jobs), commCh' \in Seq(Jobs),
         \A j \in Jobs : InCh(downCh', j) + InCh(procCh', j) + InCh(commCh', j)
                           = InCh(downCh, j) + InCh(procCh, j) + InCh(commCh, j)
                               + Bit(holds[w] = j) - Bit(x = j)
  PROVE  OneOwner'
  <1> SUFFICES ASSUME NEW j \in Jobs
               PROVE  Held(holds, j)' + InCh(downCh, j)' + InCh(procCh, j)' + InCh(commCh, j)' = Owned(j)'
    BY OwnersAgain
  <1>1. /\ Held(holds, j) \in Nat /\ InCh(downCh, j) \in Nat
        /\ InCh(procCh, j) \in Nat /\ InCh(commCh, j) \in Nat
        /\ Held(holds, j) + InCh(downCh, j) + InCh(procCh, j) + InCh(commCh, j) = Owned(j)
    BY Owners
  <1>2. DOMAIN holds = Workers
    BY DEF TypeOK
  <1>3. Held(holds', j) = Held(holds, j) - Bit(holds[w] = j) + Bit(x = j)
    BY <1>2, HeldExcept
  <1>4. /\ InCh(downCh, j)' = InCh(downCh', j) /\ InCh(procCh, j)' = InCh(procCh', j)
        /\ InCh(commCh, j)' = InCh(commCh', j) /\ Held(holds, j)' = Held(holds', j)
    BY DEF InCh, Held, Workers
  <1>5. Owned(j)' = Owned(j)
    BY DEF Owned
  <1>6. /\ InCh(downCh', j) + InCh(procCh', j) + InCh(commCh', j)
             = InCh(downCh, j) + InCh(procCh, j) + InCh(commCh, j) + Bit(holds[w] = j) - Bit(x = j)
        /\ Bit(holds[w] = j) \in {0, 1} /\ Bit(x = j) \in {0, 1}
    BY DEF Bit
  <1>7. InCh(downCh', j) \in Nat /\ InCh(procCh', j) \in Nat /\ InCh(commCh', j) \in Nat
    BY InChType
  <1> QED
    BY ONLY <1>1, <1>3, <1>4, <1>5, <1>6, <1>7, SMTT(30)

(* A waiting job gets a fate and is taken from its channel.                *)
LEMMA DropOwners ==
  ASSUME TypeOK, OneOwner, NEW x \in Jobs, x <= fed, fate[x] = "todo",
         fate' = [fate EXCEPT ![x] = "dropped"], UNCHANGED <<fed, holds>>,
         downCh' \in Seq(Jobs), procCh' \in Seq(Jobs), commCh' \in Seq(Jobs),
         \A j \in Jobs : InCh(downCh', j) + InCh(procCh', j) + InCh(commCh', j)
                           = InCh(downCh, j) + InCh(procCh, j) + InCh(commCh, j) - Bit(x = j)
  PROVE  OneOwner'
  <1> SUFFICES ASSUME NEW j \in Jobs
               PROVE  Held(holds, j)' + InCh(downCh, j)' + InCh(procCh, j)' + InCh(commCh, j)' = Owned(j)'
    BY OwnersAgain
  <1>1. /\ Held(holds, j) \in Nat /\ InCh(downCh, j) \in Nat
        /\ InCh(procCh, j) \in Nat /\ InCh(commCh, j) \in Nat
        /\ Held(holds, j) + InCh(downCh, j) + InCh(procCh, j) + InCh(commCh, j) = Owned(j)
    BY Owners
  <1>2. /\ InCh(downCh, j)' = InCh(downCh', j) /\ InCh(procCh, j)' = InCh(procCh', j)
        /\ InCh(commCh, j)' = InCh(commCh', j) /\ Held(holds, j)' = Held(holds, j)
    BY DEF InCh, Held, Workers
  <1>3. Owned(j)' = Owned(j) - Bit(x = j)
    BY DEF Owned, Bit, TypeOK
  <1>4. InCh(downCh', j) \in Nat /\ InCh(procCh', j) \in Nat /\ InCh(commCh', j) \in Nat
    BY InChType
  <1>5. /\ InCh(downCh', j) + InCh(procCh', j) + InCh(commCh', j)
             = InCh(downCh, j) + InCh(procCh, j) + InCh(commCh, j) - Bit(x = j)
        /\ Bit(x = j) \in {0, 1}
    BY DEF Bit
  <1> QED
    BY ONLY <1>1, <1>2, <1>3, <1>4, <1>5

(* Job fed + 1 is handed out, to a worker or to the first channel.         *)
LEMMA FedOwners ==
  ASSUME TypeOK, OneOwner, fed' = fed + 1, fed + 1 \in Jobs, fate[fed + 1] = "todo", UNCHANGED fate,
         \A j \in Jobs : Held(holds', j) + InCh(downCh', j) + InCh(procCh', j) + InCh(commCh', j)
                           = Held(holds, j) + InCh(downCh, j) + InCh(procCh, j) + InCh(commCh, j)
                               + Bit(fed + 1 = j)
  PROVE  OneOwner'
  <1> SUFFICES ASSUME NEW j \in Jobs
               PROVE  Held(holds, j)' + InCh(downCh, j)' + InCh(procCh, j)' + InCh(commCh, j)' = Owned(j)'
    BY OwnersAgain
  <1>1. Held(holds, j) + InCh(downCh, j) + InCh(procCh, j) + InCh(commCh, j) = Owned(j)
    BY Owners
  <1>2. /\ InCh(downCh, j)' = InCh(downCh', j) /\ InCh(procCh, j)' = InCh(procCh', j)
        /\ InCh(commCh, j)' = InCh(commCh', j) /\ Held(holds, j)' = Held(holds', j)
    BY DEF InCh, Held, Workers
  <1>3. Owned(j)' = Owned(j) + Bit(fed + 1 = j)
    BY DEF Owned, Bit, TypeOK, Jobs
  <1> QED
    BY <1>1, <1>2, <1>3

(* What a receive does to the channels.                                    *)
TakenFrom(ch) ==
    /\ downCh' \in Seq(Jobs) /\ procCh' \in Seq(Jobs) /\ commCh' \in Seq(Jobs)
    /\ downCh = <<>> => downCh' = <<>>
    /\ procCh = <<>> => procCh' = <<>>
    /\ commCh = <<>> => commCh' = <<>>
    /\ \A j \in Jobs : InCh(downCh', j) + InCh(procCh', j) + InCh(commCh', j)
                         = InCh(downCh, j) + InCh(procCh, j) + InCh(commCh, j) - Bit(Head(ch) = j)

LEMMA ReceiveStep ==
  ASSUME Inv, NEW w \in Workers, NEW ch \in {downCh, procCh, commCh}, NEW first, Receive(w, ch, first),
         first \in StopsOf(w) \ (Pausing \cup Sending \cup Scanning \cup {"download"}), TakenFrom(ch)
  PROVE  Inv'
  <1> USE DEF Inv
  <1>1. Head(ch) \in Jobs /\ Head(ch) <= fed /\ fate[Head(ch)] = "todo"
    BY WaitingOpen DEF Receive
  <1>2. CASE Cancelled
    <2>1. fate' = [fate EXCEPT ![Head(ch)] = "dropped"] /\ UNCHANGED <<at, holds>>
      BY <1>2 DEF Receive
    <2>2. OneOwner'
      BY <1>1, <2>1, DropOwners DEF Receive, TakenFrom
    <2>3. Roles' /\ Closing' /\ GateBalanced' /\ UnderFloor'
      BY <2>1, RolesStay, ClosingStays, GateStays, FloorStays DEF Receive, TakenFrom, signals
    <2>4. MutexHeld' /\ LeftNothing'
      BY <2>1 DEF Receive, MutexHeld, LeftNothing, Running, Workers
    <2>5. Unfed'
      BY <1>1, <2>1 DEF Receive, Unfed, TypeOK, Jobs
    <2>6. TypeOK'
      BY <1>1, <2>1 DEF Receive, TakenFrom, signals, TypeOK, Fates, Jobs, Workers
    <2> QED
      BY <2>2, <2>3, <2>4, <2>5, <2>6
  <1>3. CASE ~Cancelled
    <2>1. at' = [at EXCEPT ![w] = first] /\ holds' = [holds EXCEPT ![w] = Head(ch)] /\ UNCHANGED fate
      BY <1>3 DEF Receive, Go
    <2>2. holds[w] = 0 /\ Head(ch) # 0 /\ Head(ch) \in 0 .. N
      BY <1>1, CapsAssumption DEF Receive, Roles, Pausing, Jobs
    <2>3. Step(w, first, Head(ch))
      BY <2>1, <2>2 DEF Receive, Step
    <2>4. Roles' /\ at' \in [Workers -> Stops] /\ holds' \in [Workers -> 0 .. N]
      BY <2>3, RolesMove
    <2>5. MutexHeld' /\ commitMu' \in Workers \cup {Free}
      BY <2>3, MutexMove DEF Receive, Locked, Uploading
    <2>6. GateBalanced' /\ decoders' \in 0 .. MaxDecodes
      <3>1. Gated(w, first)
        BY DEF Receive, Gated, Bit, Scanning, TypeOK
      <3> QED
        BY <2>3, <3>1, GateMove
    <2>7. Closing'
      BY <2>3, ClosingMove DEF Receive, TakenFrom, signals, Pausing
    <2>8. UnderFloor'
      BY <2>3, FloorMove DEF Receive
    <2>9. OneOwner'
      <3>1. Moved(holds, holds', w, Head(ch)) /\ \A j \in Jobs : Bit(holds[w] = j) = 0
        BY <2>1, <2>2 DEF Moved, Bit, Jobs
      <3>2. \A j \in Jobs : InCh(downCh', j) + InCh(procCh', j) + InCh(commCh', j)
                              = InCh(downCh, j) + InCh(procCh, j) + InCh(commCh, j)
                                  + Bit(holds[w] = j) - Bit(Head(ch) = j)
        <4> TAKE j \in Jobs
        <4>1. InCh(downCh, j) \in Nat /\ InCh(procCh, j) \in Nat /\ InCh(commCh, j) \in Nat
          BY Owners
        <4>2. InCh(downCh', j) + InCh(procCh', j) + InCh(commCh', j)
                = InCh(downCh, j) + InCh(procCh, j) + InCh(commCh, j) - Bit(Head(ch) = j)
          BY DEF TakenFrom
        <4>3. Bit(holds[w] = j) = 0 /\ Bit(Head(ch) = j) \in {0, 1}
          BY <3>1 DEF Bit
        <4> QED
          BY ONLY <4>1, <4>2, <4>3
      <3>3. /\ UNCHANGED <<fed, fate>>
            /\ downCh' \in Seq(Jobs) /\ procCh' \in Seq(Jobs) /\ commCh' \in Seq(Jobs)
        BY <2>1 DEF Receive, TakenFrom
      <3> QED
        BY ONLY TypeOK, OneOwner, w \in Workers, <3>1, <3>2, <3>3, TransferOwners
    <2>10. Unfed' /\ LeftNothing'
      BY <2>1 DEF Receive, Unfed, LeftNothing, Running, Jobs
    <2>11. TypeOK'
      BY <2>1, <2>4, <2>5, <2>6 DEF Receive, TakenFrom, signals, TypeOK, Jobs, Workers
    <2> QED
      BY <2>4, <2>5, <2>6, <2>7, <2>8, <2>9, <2>10, <2>11
  <1> QED
    BY <1>2, <1>3

(* Taking the head of one channel is such a receive.                       *)
LEMMA HeadTaken ==
  ASSUME NEW ch \in Seq(Jobs), ch # <<>>
  PROVE  /\ Tail(ch) \in Seq(Jobs)
         /\ \A j : InCh(Tail(ch), j) = InCh(ch, j) - Bit(Head(ch) = j)
  BY HeadTailProperties, InChTail

LEMMA ReceiveDownloadStep ==
  ASSUME Inv, NEW w \in Workers, ReceiveDownload(w)
  PROVE  Inv'
  <1>1. w \in Downloaders /\ downCh # <<>> /\ downCh' = Tail(downCh) /\ UNCHANGED <<procCh, commCh>>
    BY DEF ReceiveDownload, Receive
  <1>2. downCh \in Seq(Jobs) /\ procCh \in Seq(Jobs) /\ commCh \in Seq(Jobs)
    BY DEF Inv, TypeOK
  <1>3. \A j \in Jobs : InCh(downCh', j) + InCh(procCh', j) + InCh(commCh', j)
                          = InCh(downCh, j) + InCh(procCh, j) + InCh(commCh, j) - Bit(Head(downCh) = j)
    <2> TAKE j \in Jobs
    <2>1. InCh(downCh', j) = InCh(downCh, j) - Bit(Head(downCh) = j)
      BY <1>1, <1>2, HeadTaken
    <2>2. InCh(procCh', j) = InCh(procCh, j) /\ InCh(commCh', j) = InCh(commCh, j)
      BY <1>1
    <2>3. InCh(downCh, j) \in Nat /\ InCh(procCh, j) \in Nat /\ InCh(commCh, j) \in Nat
      BY <1>2, InChType
    <2>4. Bit(Head(downCh) = j) \in {0, 1}
      BY DEF Bit
    <2> QED
      BY ONLY <2>1, <2>2, <2>3, <2>4
  <1>4. TakenFrom(downCh)
    BY <1>1, <1>2, <1>3, HeadTaken DEF TakenFrom
  <1>5. "disk" \in StopsOf(w) \ (Pausing \cup Sending \cup Scanning \cup {"download"})
    BY <1>1, RoleStops DEF Pausing, Sending, Scanning
  <1> QED
    BY <1>4, <1>5, ReceiveStep DEF ReceiveDownload

LEMMA ReceiveProcessStep ==
  ASSUME Inv, NEW w \in Workers, ReceiveProcess(w)
  PROVE  Inv'
  <1>1. w \in Processors /\ procCh # <<>> /\ procCh' = Tail(procCh) /\ UNCHANGED <<downCh, commCh>>
    BY DEF ReceiveProcess, Receive
  <1>2. downCh \in Seq(Jobs) /\ procCh \in Seq(Jobs) /\ commCh \in Seq(Jobs)
    BY DEF Inv, TypeOK
  <1>3. \A j \in Jobs : InCh(downCh', j) + InCh(procCh', j) + InCh(commCh', j)
                          = InCh(downCh, j) + InCh(procCh, j) + InCh(commCh, j) - Bit(Head(procCh) = j)
    <2> TAKE j \in Jobs
    <2>1. InCh(procCh', j) = InCh(procCh, j) - Bit(Head(procCh) = j)
      BY <1>1, <1>2, HeadTaken
    <2>2. InCh(downCh', j) = InCh(downCh, j) /\ InCh(commCh', j) = InCh(commCh, j)
      BY <1>1
    <2>3. InCh(downCh, j) \in Nat /\ InCh(procCh, j) \in Nat /\ InCh(commCh, j) \in Nat
      BY <1>2, InChType
    <2>4. Bit(Head(procCh) = j) \in {0, 1}
      BY DEF Bit
    <2> QED
      BY ONLY <2>1, <2>2, <2>3, <2>4
  <1>4. TakenFrom(procCh)
    BY <1>1, <1>2, <1>3, HeadTaken DEF TakenFrom
  <1>5. "gate" \in StopsOf(w) \ (Pausing \cup Sending \cup Scanning \cup {"download"})
    BY <1>1, RoleStops DEF Pausing, Sending, Scanning
  <1> QED
    BY <1>4, <1>5, ReceiveStep DEF ReceiveProcess

LEMMA ReceiveCommitStep ==
  ASSUME Inv, NEW w \in Workers, ReceiveCommit(w)
  PROVE  Inv'
  <1>1. w = Committer /\ commCh # <<>> /\ commCh' = Tail(commCh) /\ UNCHANGED <<downCh, procCh>>
    BY DEF ReceiveCommit, Receive
  <1>2. downCh \in Seq(Jobs) /\ procCh \in Seq(Jobs) /\ commCh \in Seq(Jobs)
    BY DEF Inv, TypeOK
  <1>3. \A j \in Jobs : InCh(downCh', j) + InCh(procCh', j) + InCh(commCh', j)
                          = InCh(downCh, j) + InCh(procCh, j) + InCh(commCh, j) - Bit(Head(commCh) = j)
    <2> TAKE j \in Jobs
    <2>1. InCh(commCh', j) = InCh(commCh, j) - Bit(Head(commCh) = j)
      BY <1>1, <1>2, HeadTaken
    <2>2. InCh(downCh', j) = InCh(downCh, j) /\ InCh(procCh', j) = InCh(procCh, j)
      BY <1>1
    <2>3. InCh(downCh, j) \in Nat /\ InCh(procCh, j) \in Nat /\ InCh(commCh, j) \in Nat
      BY <1>2, InChType
    <2>4. Bit(Head(commCh) = j) \in {0, 1}
      BY DEF Bit
    <2> QED
      BY ONLY <2>1, <2>2, <2>3, <2>4
  <1>4. TakenFrom(commCh)
    BY <1>1, <1>2, <1>3, HeadTaken DEF TakenFrom
  <1>5. "ledger" \in StopsOf(w) \ (Pausing \cup Sending \cup Scanning \cup {"download"})
    BY <1>1, RoleStops DEF Pausing, Sending, Scanning
  <1> QED
    BY <1>4, <1>5, ReceiveStep DEF ReceiveCommit

(* A worker puts its job into a channel and asks for the next one.         *)
SentBy(w) ==
    /\ downCh' \in Seq(Jobs) /\ procCh' \in Seq(Jobs) /\ commCh' \in Seq(Jobs)
    /\ \A j \in Jobs : InCh(downCh', j) + InCh(procCh', j) + InCh(commCh', j)
                         = InCh(downCh, j) + InCh(procCh, j) + InCh(commCh, j) + Bit(holds[w] = j)

LEMMA SendIsStep ==
  ASSUME Inv, NEW w \in Workers, NEW stop \in {"toProcess", "toCommit"}, NEW ch, NEW cap, Send(w, stop, ch, cap)
  PROVE  Step(w, "recv", 0)
  BY CapsAssumption DEF Send, Go, Step, StopsOf, Pausing, Sending, Inv

LEMMA SendStep ==
  ASSUME Inv, NEW w \in Workers, NEW stop \in {"toProcess", "toCommit"}, NEW ch, NEW cap, Send(w, stop, ch, cap),
         SentBy(w), Closing'
  PROVE  Inv'
  <1> USE DEF Inv
  <1>1. Step(w, "recv", 0)
    BY SendIsStep
  <1>2. Roles' /\ at' \in [Workers -> Stops] /\ holds' \in [Workers -> 0 .. N]
    BY <1>1, RolesMove
  <1>3. MutexHeld' /\ commitMu' \in Workers \cup {Free}
    BY <1>1, MutexMove DEF Send, Locked, Uploading
  <1>4. GateBalanced' /\ decoders' \in 0 .. MaxDecodes
    <2>1. Gated(w, "recv")
      BY DEF Send, Gated, Bit, Scanning, TypeOK
    <2> QED
      BY <1>1, <2>1, GateMove
  <1>5. UnderFloor'
    BY <1>1, FloorMove DEF Send
  <1>6. OneOwner'
    <2>1. Moved(holds, holds', w, 0) /\ \A j \in Jobs : Bit(0 = j) = 0
      BY DEF Send, Moved, Bit, Jobs
    <2>2. \A j \in Jobs : InCh(downCh', j) + InCh(procCh', j) + InCh(commCh', j)
                            = InCh(downCh, j) + InCh(procCh, j) + InCh(commCh, j)
                                + Bit(holds[w] = j) - Bit(0 = j)
      <3> TAKE j \in Jobs
      <3>1. InCh(downCh, j) \in Nat /\ InCh(procCh, j) \in Nat /\ InCh(commCh, j) \in Nat
        BY Owners
      <3>2. InCh(downCh', j) + InCh(procCh', j) + InCh(commCh', j)
              = InCh(downCh, j) + InCh(procCh, j) + InCh(commCh, j) + Bit(holds[w] = j)
        BY DEF SentBy
      <3>3. Bit(0 = j) = 0 /\ Bit(holds[w] = j) \in {0, 1}
        BY <2>1 DEF Bit
      <3> QED
        BY ONLY <3>1, <3>2, <3>3
    <2>3. /\ UNCHANGED <<fed, fate>>
          /\ downCh' \in Seq(Jobs) /\ procCh' \in Seq(Jobs) /\ commCh' \in Seq(Jobs)
      BY DEF Send, SentBy
    <2> QED
      BY ONLY TypeOK, OneOwner, w \in Workers, <2>1, <2>2, <2>3, TransferOwners
  <1>7. Unfed' /\ LeftNothing'
    BY DEF Send, Unfed, LeftNothing, Running, Jobs
  <1>8. TypeOK'
    BY <1>2, <1>3, <1>4 DEF Send, SentBy, signals, TypeOK, Jobs, Workers
  <1> QED
    BY <1>2, <1>3, <1>4, <1>5, <1>6, <1>7, <1>8

LEMMA SendProcessStep ==
  ASSUME Inv, NEW w \in Workers, SendProcess(w)
  PROVE  Inv'
  <1>1. /\ Send(w, "toProcess", procCh, ProcCap)
        /\ procCh' = Append(procCh, holds[w]) /\ UNCHANGED <<downCh, commCh>>
    BY DEF SendProcess, Job
  <1>2. w \in Downloaders /\ ~Sequential /\ at[w] = "toProcess"
    BY <1>1, WhoStands DEF Send
  <1>3. holds[w] \in Jobs
    BY <1>2, HeldOpen DEF Inv, Roles, Pausing
  <1>4. downCh \in Seq(Jobs) /\ procCh \in Seq(Jobs) /\ commCh \in Seq(Jobs)
    BY DEF Inv, TypeOK
  <1>5. SentBy(w)
    <2>1. procCh' \in Seq(Jobs)
      BY <1>1, <1>3, <1>4, AppendProperties
    <2>2. ASSUME NEW j \in Jobs
          PROVE  InCh(downCh', j) + InCh(procCh', j) + InCh(commCh', j)
                   = InCh(downCh, j) + InCh(procCh, j) + InCh(commCh, j) + Bit(holds[w] = j)
      <3>1. InCh(procCh', j) = InCh(procCh, j) + Bit(holds[w] = j)
        BY <1>1, <1>3, <1>4, InChAppend
      <3>2. InCh(downCh', j) = InCh(downCh, j) /\ InCh(commCh', j) = InCh(commCh, j)
        BY <1>1
      <3>3. InCh(downCh, j) \in Nat /\ InCh(procCh, j) \in Nat /\ InCh(commCh, j) \in Nat
        BY <1>4, InChType
      <3>4. Bit(holds[w] = j) \in {0, 1}
        BY DEF Bit
      <3> QED
        BY ONLY <3>1, <3>2, <3>3, <3>4
    <2> QED
      BY <1>1, <1>4, <2>1, <2>2 DEF SentBy
  <1>6. Closing'
    <2>1. "proc" \notin closed /\ \A v \in Processors : at[v] # "exit"
      BY <1>2 DEF Inv, Closing
    <2>2. \A v \in Workers : at'[v] = "exit" <=> at[v] = "exit"
      BY <1>1, SendIsStep DEF Step, Inv, TypeOK
    <2>3. ~Sequential' /\ UNCHANGED <<closed, fatal>>
      BY <1>1, <1>2 DEF Send, Sequential, signals
    <2> QED
      BY <1>1, <1>2, <2>1, <2>2, <2>3 DEF Inv, Closing, Workers
  <1> QED
    BY <1>1, <1>5, <1>6, SendStep

LEMMA SendCommitStep ==
  ASSUME Inv, NEW w \in Workers, SendCommit(w)
  PROVE  Inv'
  <1>1. /\ Send(w, "toCommit", commCh, CommCap)
        /\ commCh' = Append(commCh, holds[w]) /\ UNCHANGED <<downCh, procCh>>
    BY DEF SendCommit, Job
  <1>2. w \in Processors /\ ~Sequential /\ at[w] = "toCommit"
    BY <1>1, WhoStands DEF Send
  <1>3. holds[w] \in Jobs
    BY <1>2, HeldOpen DEF Inv, Roles, Pausing
  <1>4. downCh \in Seq(Jobs) /\ procCh \in Seq(Jobs) /\ commCh \in Seq(Jobs)
    BY DEF Inv, TypeOK
  <1>5. SentBy(w)
    <2>1. commCh' \in Seq(Jobs)
      BY <1>1, <1>3, <1>4, AppendProperties
    <2>2. ASSUME NEW j \in Jobs
          PROVE  InCh(downCh', j) + InCh(procCh', j) + InCh(commCh', j)
                   = InCh(downCh, j) + InCh(procCh, j) + InCh(commCh, j) + Bit(holds[w] = j)
      <3>1. InCh(commCh', j) = InCh(commCh, j) + Bit(holds[w] = j)
        BY <1>1, <1>3, <1>4, InChAppend
      <3>2. InCh(downCh', j) = InCh(downCh, j) /\ InCh(procCh', j) = InCh(procCh, j)
        BY <1>1
      <3>3. InCh(downCh, j) \in Nat /\ InCh(procCh, j) \in Nat /\ InCh(commCh, j) \in Nat
        BY <1>4, InChType
      <3>4. Bit(holds[w] = j) \in {0, 1}
        BY DEF Bit
      <3> QED
        BY ONLY <3>1, <3>2, <3>3, <3>4
    <2> QED
      BY <1>1, <1>4, <2>1, <2>2 DEF SentBy
  <1>6. Closing'
    <2>1. "comm" \notin closed /\ (at[Committer] = "exit" => fatal)
      BY <1>2 DEF Inv, Closing
    <2>2. \A v \in Workers : at'[v] = "exit" <=> at[v] = "exit"
      BY <1>1, SendIsStep DEF Step, Inv, TypeOK
    <2>3. ~Sequential' /\ UNCHANGED <<closed, fatal>>
      BY <1>1, <1>2 DEF Send, Sequential, signals
    <2>4. Downloaders \subseteq Workers /\ Processors \subseteq Workers /\ Committer \in Workers
      BY DEF Workers
    <2>5. Closing /\ ~Sequential
      BY <1>2 DEF Inv
    <2>6. "comm" \notin closed' /\ (at'[Committer] = "exit" => fatal')
      BY <2>1, <2>2, <2>3, <2>4
    <2>7. /\ "proc" \in closed' => \A v \in Downloaders : at'[v] = "exit"
          /\ \A v \in Downloaders : at'[v] = "exit" => "down" \in closed' /\ downCh' = <<>>
          /\ \A v \in Processors : at'[v] = "exit" => "proc" \in closed' /\ procCh' = <<>>
      BY <1>1, <2>2, <2>3, <2>4, <2>5 DEF Closing
    <2> QED
      BY <2>3, <2>6, <2>7 DEF Closing
  <1> QED
    BY <1>1, <1>5, <1>6, SendStep

-----------------------------------------------------------------------------
(* Workers that leave.                                                     *)

LEMMA WorkerExitsStep ==
  ASSUME Inv, NEW w \in Workers, WorkerExits(w)
  PROVE  Inv'
  <1> USE DEF Inv
  <1>1. ~Sequential /\ w # Solo /\ holds[w] = 0 /\ w \in Downloaders \cup Processors \cup {Committer}
    BY DEF WorkerExits, Roles, TakesPart, Pausing, Workers
  <1>2. holds' = holds /\ holds = [holds EXCEPT ![w] = 0]
    BY <1>1 DEF WorkerExits, TypeOK
  <1>3. Step(w, "exit", 0)
    BY <1>2, CapsAssumption DEF WorkerExits, Go, Step, StopsOf, Pausing, Sending
  <1>4. Roles' /\ at' \in [Workers -> Stops] /\ \A v \in Workers : at'[v] = IF v = w THEN "exit" ELSE at[v]
    BY <1>3, RolesMove
  <1>5. MutexHeld'
    BY <1>3, MutexMove DEF WorkerExits, Locked, Uploading
  <1>6. GateBalanced'
    <2>1. Gated(w, "exit")
      BY DEF WorkerExits, Gated, Bit, Scanning, TypeOK
    <2> QED
      BY <1>3, <2>1, GateMove
  <1>7. UnderFloor'
    BY <1>3, FloorMove DEF WorkerExits
  <1>8. Closing'
    <2>1. /\ w \in Downloaders => "down" \in closed /\ downCh = <<>>
          /\ w \in Processors => "proc" \in closed /\ procCh = <<>>
          /\ w = Committer => "comm" \in closed /\ commCh = <<>>
      BY RolesAssumption DEF WorkerExits, Source
    <2>2. ~Sequential' /\ UNCHANGED <<downCh, procCh, commCh, closed, fatal>>
      BY <1>1 DEF WorkerExits, Sequential, chans, signals
    <2> QED
      BY <1>1, <1>4, <2>1, <2>2 DEF Closing, Workers
  <1>9. Unfed' /\ LeftNothing' /\ OneOwner'
    BY <1>2 DEF WorkerExits, chans, Unfed, LeftNothing, Running, OneOwner, Places, Jobs, Workers
  <1>10. TypeOK'
    BY <1>2, <1>4 DEF WorkerExits, chans, signals, TypeOK, Jobs, Workers
  <1> QED
    BY <1>4, <1>5, <1>6, <1>7, <1>8, <1>9, <1>10

LEMMA LedgerFailsFatallyStep ==
  ASSUME Inv, NEW w \in Workers, LedgerFailsFatally(w)
  PROVE  Inv'
  <1> USE DEF Inv
  <1>1. ~Sequential /\ w = Committer /\ at[w] = "ledger" /\ holds[w] # 0
    BY WhoStands DEF LedgerFailsFatally, Roles, Pausing
  <1>2. Step(w, "exit", 0)
    BY CapsAssumption DEF LedgerFailsFatally, Go, Step, StopsOf, Pausing, Sending
  <1>3. Roles' /\ at' \in [Workers -> Stops] /\ holds' \in [Workers -> 0 .. N]
        /\ \A v \in Workers : at'[v] = IF v = w THEN "exit" ELSE at[v]
    BY <1>2, RolesMove
  <1>4. MutexHeld' /\ commitMu' \in Workers \cup {Free}
    <2>1. Locked(w)
      BY DEF LedgerFailsFatally, Unlock, Locked
    <2> QED
      BY <1>2, <2>1, MutexMove
  <1>5. GateBalanced' /\ decoders' \in 0 .. MaxDecodes
    <2>1. Gated(w, "exit")
      BY DEF LedgerFailsFatally, Gated, Bit, Scanning, TypeOK
    <2> QED
      BY <1>2, <2>1, GateMove
  <1>6. UnderFloor'
    BY <1>2, FloorMove DEF LedgerFailsFatally
  <1>7. Closing'
    <2>1. Committer \notin Downloaders \cup Processors
      BY RolesAssumption
    <2>2. fatal' /\ ~Sequential' /\ UNCHANGED <<downCh, procCh, commCh, closed>>
      BY <1>1 DEF LedgerFailsFatally, Sequential, chans
    <2> QED
      BY <1>1, <1>3, <2>1, <2>2 DEF Closing, Workers
  <1>8. holds[w] \in Jobs /\ holds[w] <= fed
    BY <1>1, HeldOpen
  <1>9. OneOwner'
    <2>1. /\ fate' = [fate EXCEPT ![holds[w]] = "uncommitted"] /\ holds' = [holds EXCEPT ![w] = 0]
          /\ UNCHANGED <<fed, downCh, procCh, commCh>>
      BY DEF LedgerFailsFatally, Job, chans
    <2> QED
      BY <1>1, <2>1, LeaveOwners
  <1>10. Unfed' /\ LeftNothing'
    BY <1>8 DEF LedgerFailsFatally, Job, chans, Unfed, LeftNothing, Running, Jobs, TypeOK
  <1>11. fate' \in [Jobs -> Fates] /\ faults' \in 0 .. MaxFaults
    BY <1>8, CapsAssumption DEF LedgerFailsFatally, Job, TypeOK, Fates
  <1>12. TypeOK'
    BY <1>3, <1>4, <1>5, <1>11 DEF LedgerFailsFatally, chans, TypeOK, Jobs, Workers
  <1> QED
    BY <1>3, <1>4, <1>5, <1>6, <1>7, <1>9, <1>10, <1>12

-----------------------------------------------------------------------------
(* The feeder and the closers.                                             *)

LEMMA FeedStep ==
  ASSUME Inv, Feed
  PROVE  Inv'
  <1> USE DEF Inv
  <1>1. /\ "down" \notin closed /\ ~Sequential /\ fed' = fed + 1 /\ fed + 1 \in Jobs
        /\ downCh' = Append(downCh, fed + 1)
        /\ UNCHANGED <<mode, procCh, commCh, closed, at, holds, decoders, commitMu, staged, fate, signals, result>>
    BY CapsAssumption DEF Feed, TypeOK, Jobs
  <1>2. fate[fed + 1] = "todo"
    BY <1>1 DEF Unfed, TypeOK
  <1>3. downCh' \in Seq(Jobs)
    BY <1>1, AppendProperties DEF TypeOK
  <1>4. Roles' /\ GateBalanced' /\ UnderFloor'
    BY <1>1, RolesStay, GateStays, FloorStays
  <1>5. Closing'
    BY <1>1 DEF Closing, Sequential, signals
  <1>6. MutexHeld' /\ LeftNothing'
    BY <1>1 DEF Feed, MutexHeld, LeftNothing, Running, Workers
  <1>7. Unfed'
    BY <1>1 DEF Unfed, TypeOK, Jobs
  <1>8. OneOwner'
    <2>1. ASSUME NEW j \in Jobs
          PROVE  Held(holds', j) + InCh(downCh', j) + InCh(procCh', j) + InCh(commCh', j)
                   = Held(holds, j) + InCh(downCh, j) + InCh(procCh, j) + InCh(commCh, j) + Bit(fed + 1 = j)
      <3>1. InCh(downCh', j) = InCh(downCh, j) + Bit(fed + 1 = j)
        BY <1>1, InChAppend DEF TypeOK
      <3>2. /\ Held(holds', j) = Held(holds, j) /\ InCh(procCh', j) = InCh(procCh, j)
            /\ InCh(commCh', j) = InCh(commCh, j)
        BY <1>1
      <3>3. /\ Held(holds, j) \in Nat /\ InCh(downCh, j) \in Nat
            /\ InCh(procCh, j) \in Nat /\ InCh(commCh, j) \in Nat
        BY Owners
      <3>4. Bit(fed + 1 = j) \in {0, 1}
        BY DEF Bit
      <3> QED
        BY ONLY <3>1, <3>2, <3>3, <3>4
    <2> QED
      BY <1>1, <1>2, <2>1, FedOwners
  <1>9. TypeOK'
    BY <1>1, <1>3, CapsAssumption DEF Feed, signals, TypeOK, Jobs, Workers
  <1> QED
    BY <1>4, <1>5, <1>6, <1>7, <1>8, <1>9

LEMMA FeederStopsStep ==
  ASSUME Inv, FeederStops
  PROVE  Inv'
  <1> USE DEF Inv
  <1>1. /\ "down" \notin closed /\ ~Sequential /\ closed' = closed \cup {"down"}
        /\ UNCHANGED <<mode, fed, downCh, procCh, commCh, at, holds, decoders, commitMu, staged, idle, signals,
                       result, faults>>
    BY DEF FeederStops
  <1>2. fate' \in [Jobs -> Fates] /\ \A j \in Jobs : j <= fed => fate'[j] = fate[j]
    BY DEF FeederStops, TypeOK, Fates, Jobs
  <1>3. Roles' /\ GateBalanced' /\ UnderFloor'
    BY <1>1, RolesStay, GateStays, FloorStays
  <1>4. Closing'
    BY <1>1 DEF Closing, Sequential, signals
  <1>5. MutexHeld' /\ LeftNothing' /\ Unfed'
    BY <1>1 DEF FeederStops, MutexHeld, LeftNothing, Unfed, Running, Workers
  <1>6. OneOwner'
    BY <1>1, <1>2 DEF OneOwner, Places, Jobs, Workers
  <1>7. TypeOK'
    BY <1>1, <1>2 DEF signals, TypeOK, Jobs, Workers
  <1> QED
    BY <1>3, <1>4, <1>5, <1>6, <1>7

LEMMA CloseStep ==
  ASSUME Inv, Close("proc", Downloaders) \/ Close("comm", Processors)
  PROVE  Inv'
  <1> USE DEF Inv
  <1>1. /\ ~Sequential /\ Running
        /\ \/ closed' = closed \cup {"proc"} /\ \A w \in Downloaders : at[w] = "exit"
           \/ closed' = closed \cup {"comm"} /\ \A w \in Processors : at[w] = "exit"
        /\ UNCHANGED <<mode, fed, downCh, procCh, commCh, at, holds, decoders, commitMu, staged, fate, idle,
                       signals, result, faults>>
    BY DEF Close, AfterAll
  <1>2. Roles' /\ GateBalanced' /\ UnderFloor'
    BY <1>1, RolesStay, GateStays, FloorStays
  <1>3. Closing'
    BY <1>1 DEF Closing, Sequential, signals
  <1>4. MutexHeld' /\ LeftNothing' /\ Unfed' /\ OneOwner'
    BY <1>1 DEF MutexHeld, LeftNothing, Unfed, OneOwner, Places, Running, Jobs, Workers
  <1>5. TypeOK'
    BY <1>1 DEF signals, TypeOK, Jobs, Workers
  <1> QED
    BY <1>2, <1>3, <1>4, <1>5

-----------------------------------------------------------------------------
(* The sequential run, and the returns.                                    *)

LEMMA NextJobStep ==
  ASSUME Inv, NextJob
  PROVE  Inv'
  <1> USE DEF Inv
  <1>1. /\ Sequential /\ at[Solo] = "recv" /\ holds[Solo] = 0 /\ Solo \in Workers
        /\ fed' = fed + 1 /\ fed + 1 \in Jobs
        /\ at' = [at EXCEPT ![Solo] = "download"] /\ holds' = [holds EXCEPT ![Solo] = fed + 1]
        /\ UNCHANGED <<mode, downCh, procCh, commCh, closed, decoders, commitMu, staged, fate, idle, signals,
                       result, faults>>
    BY CapsAssumption DEF NextJob, Go, Roles, Pausing, TypeOK, Jobs, Workers, chans
  <1>2. fate[fed + 1] = "todo"
    BY <1>1 DEF Closing, Unfed, TypeOK
  <1>3. Step(Solo, "download", fed + 1)
    BY <1>1, RoleStops DEF Step, Pausing, Sending, Jobs
  <1>4. Roles' /\ at' \in [Workers -> Stops] /\ holds' \in [Workers -> 0 .. N]
    BY <1>1, <1>3, RolesMove
  <1>5. MutexHeld' /\ commitMu' \in Workers \cup {Free}
    BY <1>1, <1>3, MutexMove DEF Locked, Uploading
  <1>6. GateBalanced' /\ decoders' \in 0 .. MaxDecodes
    <2>1. Gated(Solo, "download")
      BY <1>1 DEF Gated, Bit, Scanning, TypeOK
    <2> QED
      BY <1>1, <1>3, <2>1, GateMove
  <1>7. UnderFloor'
    BY <1>1, <1>3, FloorMove
  <1>8. Closing'
    BY <1>1, <1>3, ClosingMove DEF signals
  <1>9. OneOwner'
    <2>1. ASSUME NEW j \in Jobs
          PROVE  Held(holds', j) + InCh(downCh', j) + InCh(procCh', j) + InCh(commCh', j)
                   = Held(holds, j) + InCh(downCh, j) + InCh(procCh, j) + InCh(commCh, j) + Bit(fed + 1 = j)
      <3>1. Moved(holds, holds', Solo, fed + 1) /\ DOMAIN holds = Workers
        BY <1>1 DEF Moved, TypeOK
      <3>2. Held(holds', j) = Held(holds, j) - Bit(holds[Solo] = j) + Bit(fed + 1 = j)
        BY <1>1, <3>1, HeldExcept
      <3>3. Bit(holds[Solo] = j) = 0 /\ Bit(fed + 1 = j) \in {0, 1}
        BY <1>1 DEF Bit, Jobs
      <3>4. /\ InCh(downCh', j) = InCh(downCh, j) /\ InCh(procCh', j) = InCh(procCh, j)
            /\ InCh(commCh', j) = InCh(commCh, j)
        BY <1>1
      <3>5. /\ Held(holds, j) \in Nat /\ InCh(downCh, j) \in Nat
            /\ InCh(procCh, j) \in Nat /\ InCh(commCh, j) \in Nat
        BY Owners
      <3> QED
        BY ONLY <3>2, <3>3, <3>4, <3>5
    <2> QED
      BY <1>1, <1>2, <2>1, FedOwners
  <1>10. Unfed' /\ LeftNothing'
    BY <1>1 DEF NextJob, Unfed, LeftNothing, Running, TypeOK, Jobs
  <1>11. TypeOK'
    BY <1>1, <1>4, <1>5, <1>6, CapsAssumption DEF signals, TypeOK, Jobs, Workers
  <1> QED
    BY <1>4, <1>5, <1>6, <1>7, <1>8, <1>9, <1>10, <1>11

(* No worker in a scan, no token in the gate.                              *)
LEMMA GateEmpty ==
  ASSUME Inv, \A w \in Workers : at[w] \notin Scanning
  PROVE  decoders = 0
  <1>1. {w \in Workers : at[w] \in {"scan", "scanUpload", "scanned"}} = {}
    BY DEF Scanning
  <1> QED
    BY <1>1, FS_EmptySet DEF Inv, GateBalanced

LEMMA SequentialCommitFailsStep ==
  ASSUME Inv, SequentialCommitFails
  PROVE  Inv'
  <1> USE DEF Inv
  <1>1. Solo \in Workers /\ Sequential /\ \A w \in Workers : w # Solo => at[w] = "exit" /\ holds[w] = 0
    BY DEF SequentialCommitFails, Roles, TakesPart, Pausing, Workers
  <1>2. decoders = 0
    BY <1>1, GateEmpty DEF SequentialCommitFails, Scanning
  <1>3. faults' \in 0 .. MaxFaults /\ Gated(Solo, "recv")
    BY FaultsBounded DEF SequentialCommitFails, Gated, Bit, Scanning, TypeOK
  <1>4. Locked(Solo)
    BY DEF SequentialCommitFails, Unlock, Locked
  <1>5. Ends(Solo, "uncommitted")
    BY <1>3, <1>4 DEF SequentialCommitFails, Ends, Pausing, Fates
  <1>6. \A w \in Workers : holds'[w] = 0
    BY <1>1 DEF SequentialCommitFails, Leave, TypeOK
  <1>7. LeftNothing'
    BY <1>1, <1>2, <1>6 DEF SequentialCommitFails, Unlock, Closing, LeftNothing, Workers, chans
  <1>8. result' \in {"running", "ok", "stall", "error"}
    BY DEF SequentialCommitFails
  <1> QED
    BY <1>1, <1>5, <1>7, <1>8, EndsOrReturns

(* A return changes nothing but the result.                                *)
LEMMA ReturnStep ==
  ASSUME Inv, result' \in {"ok", "stall", "error"}, \A w \in Workers : at[w] \in Pausing,
         downCh = <<>>, procCh = <<>>, commCh = <<>> \/ fatal,
         UNCHANGED <<mode, fed, chans, at, holds, decoders, commitMu, staged, fate, idle, signals, faults>>
  PROVE  Inv'
  <1> USE DEF Inv
  <1>1. decoders = 0
    BY GateEmpty DEF Pausing, Scanning
  <1>2. commitMu = Free /\ \A w \in Workers : holds[w] = 0
    BY DEF MutexHeld, Roles, Pausing, Uploading
  <1>3. LeftNothing'
    BY <1>1, <1>2 DEF LeftNothing, chans, signals, Workers
  <1>4. Roles' /\ GateBalanced' /\ UnderFloor'
    BY RolesStay, GateStays, FloorStays
  <1>5. Closing'
    BY ClosingStays DEF chans, signals
  <1>6. MutexHeld' /\ Unfed' /\ OneOwner'
    BY DEF chans, MutexHeld, Unfed, OneOwner, Places, Jobs, Workers
  <1>7. TypeOK'
    BY DEF chans, signals, TypeOK, Jobs, Workers
  <1> QED
    BY <1>3, <1>4, <1>5, <1>6, <1>7

LEMMA SequentialReturnsStep ==
  ASSUME Inv, SequentialReturns
  PROVE  Inv'
  <1>1. \A w \in Workers : at[w] \in Pausing
    BY DEF Inv, SequentialReturns, Roles, TakesPart, Pausing
  <1>2. downCh = <<>> /\ procCh = <<>> /\ commCh = <<>>
    BY DEF Inv, SequentialReturns, Closing
  <1> QED
    BY <1>1, <1>2, ReturnStep DEF SequentialReturns

LEMMA PipelineReturnsStep ==
  ASSUME Inv, PipelineReturns
  PROVE  Inv'
  <1>1. \A w \in Workers : at[w] \in Pausing
    BY DEF PipelineReturns, Pausing
  <1>2. downCh = <<>> /\ procCh = <<>> /\ (commCh = <<>> \/ fatal)
    BY RolesAssumption DEF Inv, PipelineReturns, Closing, Workers
  <1>3. result' \in {"ok", "stall", "error"}
    BY DEF PipelineReturns, ResultOf
  <1> QED
    BY <1>1, <1>2, <1>3, ReturnStep DEF PipelineReturns

-----------------------------------------------------------------------------
(* Locking, polling, the watchdog and the caller.                          *)
LEMMA QuietStep ==
  ASSUME Inv,
         UNCHANGED <<mode, fed, chans, at, holds, decoders, staged, fate, fatal, result, faults>>,
         \/ commitMu' = commitMu
         \/ Running /\ \E w \in Workers : at[w] \in Uploading /\ commitMu' = w,
         idle' \in 0 .. StallTicks, stalled' \in BOOLEAN, user' \in BOOLEAN
  PROVE  Inv'
  <1> USE DEF Inv
  <1>1. Roles' /\ GateBalanced' /\ UnderFloor'
    BY RolesStay, GateStays, FloorStays
  <1>2. Closing'
    BY ClosingStays DEF chans
  <1>3. Unfed' /\ OneOwner'
    BY DEF chans, Unfed, OneOwner, Places, Jobs, Workers
  <1>4. MutexHeld' /\ commitMu' \in Workers \cup {Free}
    BY DEF TypeOK, MutexHeld, Workers
  <1>5. LeftNothing'
    BY DEF LeftNothing, Running, chans, Workers
  <1>6. TypeOK'
    BY <1>4 DEF chans, TypeOK, Jobs, Workers
  <1> QED
    BY <1>1, <1>2, <1>3, <1>4, <1>5, <1>6

LEMMA LockCommitStep ==
  ASSUME Inv, NEW w \in Workers, LockCommit(w)
  PROVE  Inv'
  BY QuietStep DEF LockCommit, signals, Inv, TypeOK

LEMMA DiskPollStep ==
  ASSUME Inv, NEW w \in Workers, DiskPoll(w)
  PROVE  Inv'
  BY QuietStep, CapsAssumption DEF DiskPoll, MarkProgress, signals, Inv, TypeOK

LEMMA ClockStep ==
  ASSUME Inv, Tick \/ Stall \/ UserCancels
  PROVE  Inv'
  <1>1. CASE Tick
    BY <1>1, QuietStep, CapsAssumption DEF Tick, signals, Inv, TypeOK
  <1>2. CASE Stall
    BY <1>2, QuietStep DEF Stall, Inv, TypeOK
  <1>3. CASE UserCancels
    BY <1>3, QuietStep DEF UserCancels, Inv, TypeOK
  <1> QED
    BY <1>1, <1>2, <1>3

-----------------------------------------------------------------------------
(* The invariant.                                                          *)

LEMMA InitInv ==
  ASSUME Init
  PROVE  Inv
  <1>1. TypeOK
    <2>1. \A w \in Workers : at[w] \in Stops
      BY DEF Init, Stops
    <2>2. at \in [Workers -> Stops]
      BY <2>1 DEF Init
    <2>3. <<>> \in Seq(Jobs)
      BY EmptySeq
    <2>4. downCh \in Seq(Jobs) /\ procCh \in Seq(Jobs) /\ commCh \in Seq(Jobs)
      BY <2>3 DEF Init
    <2>5. /\ fed \in 0 .. N /\ decoders \in 0 .. MaxDecodes /\ idle \in 0 .. StallTicks
          /\ faults \in 0 .. MaxFaults /\ holds \in [Workers -> 0 .. N]
      BY CapsAssumption DEF Init
    <2>6. fate \in [Jobs -> Fates]
      BY DEF Init, Fates
    <2> QED
      BY <2>2, <2>4, <2>5, <2>6 DEF Init, TypeOK
  <1>2. Roles
    BY DEF Init, Roles, StopsOf, Pausing, Sending
  <1>3. Closing
    BY RolesAssumption DEF Init, Closing, TakesPart, Workers
  <1>4. MutexHeld /\ Unfed
    BY DEF Init, MutexHeld, Unfed
  <1>5. UnderFloor
    <2>1. Downloading = {} /\ staged = {}
      BY DEF Init, Downloading, Workers
    <2> QED
      BY <2>1, PoolsFinite, FS_EmptySet, CapsAssumption DEF UnderFloor
  <1>6. GateBalanced
    <2>1. {w \in Workers : at[w] \in {"scan", "scanUpload", "scanned"}} = {}
      BY DEF Init
    <2> QED
      BY <2>1, FS_EmptySet DEF Init, GateBalanced
  <1>7. LeftNothing
    BY DEF Init, LeftNothing, Running
  <1>8. OneOwner
    <2> SUFFICES ASSUME NEW j \in Jobs
                 PROVE  Places(j) = 0 /\ ~(j <= fed)
      BY DEF OneOwner
    <2>1. /\ {w \in Workers : holds[w] = j} = {} /\ {i \in DOMAIN downCh : downCh[i] = j} = {}
          /\ {i \in DOMAIN procCh : procCh[i] = j} = {} /\ {i \in DOMAIN commCh : commCh[i] = j} = {}
      BY DEF Init, Jobs
    <2>2. Places(j) = 0
      BY <2>1, FS_EmptySet DEF Places
    <2> QED
      BY <2>2, CapsAssumption DEF Init, Jobs
  <1> QED
    BY <1>1, <1>2, <1>3, <1>4, <1>5, <1>6, <1>7, <1>8 DEF Inv

LEMMA WorkInv ==
  ASSUME Inv, NEW w \in Workers, Work(w)
  PROVE  Inv'
  BY ReceiveDownloadStep, ReceiveProcessStep, ReceiveCommitStep, WorkerExitsStep,
     DiskOKStep, DiskCancelStep, DownloadedStep, DownloadFailsStep,
     SendProcessStep, SendCommitStep, SendCancelledStep,
     AcquireDecoderStep, BatchFullStep, ScanEndsStep, TailBatchStep, ProcessedStep,
     ProcessFailsStep, LockCommitStep, BatchUploadedStep, BatchFailsStep,
     LedgerPushedStep, LedgerFailsStep, LedgerFailsFatallyStep
  DEF Work

LEMMA NextInv ==
  ASSUME Inv, [Next]_vars
  PROVE  Inv'
  <1>1. CASE Progress
    BY <1>1, WorkInv, FeedStep, FeederStopsStep, CloseStep, NextJobStep, SequentialCommitFailsStep,
       SequentialReturnsStep, PipelineReturnsStep
    DEF Progress
  <1>2. CASE \E w \in Workers : DiskPoll(w)
    BY <1>2, DiskPollStep
  <1>3. CASE Tick \/ Stall \/ UserCancels
    BY <1>3, ClockStep
  <1>4. CASE UNCHANGED vars
    BY <1>4, QuietStep DEF vars, chans, signals, Inv, TypeOK
  <1> QED
    BY <1>1, <1>2, <1>3, <1>4 DEF Next

LEMMA AlwaysInv == Spec => []Inv
  <1>1. Init => Inv
    BY InitInv
  <1>2. Inv /\ [Next]_vars => Inv'
    BY NextInv
  <1> QED
    BY <1>1, <1>2, PTL DEF Spec

(* The state always has its type: no channel, counter or worker leaves its *)
(* range, a decoder count below zero or above the gate's size included.    *)
THEOREM PipelineTypeCorrect == Spec => []TypeOK
  BY AlwaysInv, PTL DEF Inv

(* No goroutine sends on a closed channel, whoever fails or is cancelled,  *)
(* and in whatever order the closers run (publish.go:277, 301).            *)
THEOREM NeverSendsOnClosed == Spec => []NoSendOnClosed
  <1>1. Inv => NoSendOnClosed
    <2> SUFFICES ASSUME Inv, NEW w \in Workers
                 PROVE  /\ at[w] \in {"disk", "download", "toProcess"} => "proc" \notin closed
                        /\ at[w] \in {"gate", "scan", "scanUpload", "scanned", "tail",
                                      "tailUpload", "toCommit"} => "comm" \notin closed
      BY DEF NoSendOnClosed
    <2>1. CASE Sequential
      BY <2>1 DEF Inv, Closing
    <2>2. CASE ~Sequential
      <3>1. at[w] \in {"disk", "download", "toProcess"} => w \in Downloaders
        BY <2>2, WhoStands
      <3>2. at[w] \in {"gate", "scan", "scanUpload", "scanned", "tail", "tailUpload", "toCommit"}
              => w \in Processors
        BY <2>2, WhoStands DEF Scanning
      <3> QED
        BY <3>1, <3>2 DEF Inv, Closing
    <2> QED
      BY <2>1, <2>2
  <1> QED
    BY <1>1, AlwaysInv, PTL

(* The pointer to a month's job is with exactly one goroutine or channel   *)
(* from the moment it is fed until it has a fate, and with none after.     *)
THEOREM JobsHaveOneOwner == Spec => []OneOwner
  BY AlwaysInv, PTL DEF Inv

(* The decoder gate counts exactly the workers inside a scan, on every     *)
(* error path (process.go:144).                                            *)
THEOREM GateNeverLeaks == Spec => []GateBalanced
  BY AlwaysInv, PTL DEF Inv

(* The staged downloads overshoot the disk floor by less than one file per *)
(* download worker, whatever the room and the workers (publish.go:168).    *)
THEOREM FloorOvershootBounded == Spec => []DiskOvershoot
  <1>1. Inv => DiskOvershoot
    <2> SUFFICES ASSUME Inv, ~Sequential
                 PROVE  Cardinality(staged) < DiskRoom + Cardinality(Downloaders)
      BY DEF DiskOvershoot
    <2>1. IsFiniteSet(Downloading) /\ Cardinality(Downloading) \in Nat
      BY PoolsFinite, FS_Subset, FS_CardinalityType, Downloading \in SUBSET Downloaders DEF Downloading
    <2>2. Cardinality(staged) \in Nat
      <3>1. staged \in SUBSET (1 .. N) /\ N \in Int /\ 1 \in Int
        BY CapsAssumption DEF Inv, TypeOK, Jobs
      <3>2. IsFiniteSet(1 .. N)
        BY <3>1, FS_Interval
      <3> QED
        BY <3>1, <3>2, FS_Subset, FS_CardinalityType
    <2>3. Cardinality(staged) + Cardinality(Downloading) < DiskRoom + Cardinality(Downloaders)
      BY DEF Inv, UnderFloor
    <2> QED
      BY <2>1, <2>2, <2>3, PoolsFinite, CapsAssumption
  <1> QED
    BY <1>1, AlwaysInv, PTL

(* A run that returned holds no lock, no token and no job, its channels    *)
(* are drained, but for the commit channel of a fatal error, and every     *)
(* month it handed out has a fate or is in that channel.                   *)
THEOREM ReturnsClean == Spec => []CleanReturn
  <1>1. Inv => NoneForgotten
    <2> SUFFICES ASSUME Inv, ~Running, NEW j \in Jobs, j <= fed, fate[j] = "todo"
                 PROVE  fatal /\ \E i \in DOMAIN commCh : commCh[i] = j
      BY DEF NoneForgotten
    <2> USE DEF Inv
    <2>1. /\ {w \in Workers : holds[w] = j} = {}
          /\ {i \in DOMAIN downCh : downCh[i] = j} = {} /\ {i \in DOMAIN procCh : procCh[i] = j} = {}
      BY DEF LeftNothing, Jobs
    <2>2. Held(holds, j) = 0 /\ InCh(downCh, j) = 0 /\ InCh(procCh, j) = 0
      BY <2>1, FS_EmptySet DEF Held, InCh
    <2>3. InCh(commCh, j) = 1
      <3>1. /\ InCh(commCh, j) \in Nat
            /\ Held(holds, j) + InCh(downCh, j) + InCh(procCh, j) + InCh(commCh, j) = Owned(j)
        BY Owners
      <3>2. Owned(j) = 1
        BY DEF Owned
      <3> QED
        BY ONLY <2>2, <3>1, <3>2
    <2>4. {i \in DOMAIN commCh : commCh[i] = j} # {}
      BY <2>3, FS_EmptySet DEF InCh
    <2> QED
      BY <2>4 DEF LeftNothing
  <1>2. Inv => CleanReturn
    BY <1>1 DEF Inv, CleanReturn
  <1> QED
    BY <1>2, AlwaysInv, PTL

(* What became of a month is settled once: no worker, drain or feeder that *)
(* gives up changes the fate of a month that has one.                      *)
FateSettled == \A j \in Jobs : fate[j] # "todo" => fate'[j] = fate[j]

LEMMA SettledByLeaving ==
  ASSUME Inv, NEW w \in Workers, NEW f, at[w] \notin Pausing, fate' = [fate EXCEPT ![holds[w]] = f]
  PROVE  FateSettled
  <1>1. fate[holds[w]] = "todo"
    BY HeldOpen DEF Inv, Roles
  <1> QED
    BY <1>1 DEF FateSettled, Inv, TypeOK

LEMMA SettledByDrain ==
  ASSUME Inv, NEW w, NEW ch \in {downCh, procCh, commCh}, NEW first, Receive(w, ch, first)
  PROVE  FateSettled
  <1>1. fate[Head(ch)] = "todo"
    BY WaitingOpen DEF Receive, Inv
  <1> QED
    BY <1>1 DEF Receive, FateSettled, Inv, TypeOK

(* Each month is published, skipped, left uncommitted or dropped at most   *)
(* once, and keeps that fate (publish.go:240-321).                         *)
THEOREM FatesAreFinal == Spec => [][FateSettled]_vars
  <1>1. Inv /\ Next => FateSettled
    <2> SUFFICES ASSUME Inv, Next PROVE FateSettled
      OBVIOUS
    <2>1. ASSUME NEW w \in Workers, ReceiveDownload(w) \/ ReceiveProcess(w) \/ ReceiveCommit(w)
          PROVE  FateSettled
      BY <2>1, SettledByDrain DEF ReceiveDownload, ReceiveProcess, ReceiveCommit
    <2>2. ASSUME NEW w \in Workers,
                 \/ DiskCancel(w) \/ DownloadFails(w) \/ SendCancelled(w) \/ ProcessFails(w)
                 \/ BatchFails(w) \/ LedgerPushed(w) \/ LedgerFails(w) \/ LedgerFailsFatally(w)
          PROVE  FateSettled
      <3>1. at[w] \notin Pausing /\ \E f \in Fates : fate' = [fate EXCEPT ![holds[w]] = f]
        BY <2>2 DEF DiskCancel, DownloadFails, SendCancelled, ProcessFails, BatchFails, LedgerPushed,
                    LedgerFails, LedgerFailsFatally, Leave, Job, Pausing, Fates
      <3> QED
        BY <3>1, SettledByLeaving
    <2>3. ASSUME SequentialCommitFails
          PROVE  FateSettled
      <3>1. at[Solo] \notin Pausing /\ fate' = [fate EXCEPT ![holds[Solo]] = "uncommitted"] /\ Solo \in Workers
        BY <2>3 DEF SequentialCommitFails, Leave, Job, Pausing, Workers
      <3> QED
        BY <3>1, SettledByLeaving
    <2>4. CASE FeederStops
      BY <2>4 DEF FeederStops, FateSettled, Inv, Unfed
    <2>5. ASSUME NEW w \in Workers,
                 \/ WorkerExits(w) \/ DiskOK(w) \/ Downloaded(w) \/ SendProcess(w) \/ SendCommit(w)
                 \/ AcquireDecoder(w) \/ BatchFull(w) \/ ScanEnds(w) \/ TailBatch(w) \/ Processed(w)
                 \/ LockCommit(w) \/ BatchUploaded(w) \/ DiskPoll(w)
          PROVE  FateSettled
      BY <2>5 DEF FateSettled, WorkerExits, DiskOK, Downloaded, SendProcess, SendCommit, Send, AcquireDecoder,
                  BatchFull, ScanEnds, TailBatch, Processed, LockCommit, BatchUploaded, DiskPoll
    <2>6. ASSUME \/ Feed \/ Close("proc", Downloaders) \/ Close("comm", Processors) \/ NextJob
                 \/ SequentialReturns \/ PipelineReturns \/ Tick \/ Stall \/ UserCancels
          PROVE  FateSettled
      BY <2>6 DEF FateSettled, Feed, Close, NextJob, SequentialReturns, PipelineReturns, Tick, Stall, UserCancels
    <2> QED
      BY <2>1, <2>2, <2>3, <2>4, <2>5, <2>6 DEF Next, Progress, Work
  <1> QED
    BY <1>1, AlwaysInv, PTL DEF Spec
=============================================================================
