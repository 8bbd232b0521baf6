--------------------------- MODULE SharedRingProofs ---------------------------
(***************************************************************************)
(* Two results, both for any number of processes and segments.             *)
(*                                                                         *)
(* The lock of SpinLock excludes, for any number of processes that the     *)
(* width of its byte admits.  What makes it inductive is how low the byte  *)
(* may be: everyone who waits has taken one off, and so have some of those *)
(* that were killed, so it never comes to the value that wraps.            *)
(*                                                                         *)
(* However the starts of any number of processes interleave, and whoever   *)
(* of them is killed, a ring is not worked on until its creator has stored *)
(* its size.  What makes it inductive: a segment has one creator, and its  *)
(* ring is zeros until that one has stored the size, or for ever.          *)
(***************************************************************************)
EXTENDS SharedRing, FiniteSetTheorems, TLAPS

Waiting == {p \in Procs : at[p] = "spin"}

(* Each one taken off is that of a process that waits or was killed.       *)
LowByWaiting == -slock <= Cardinality(Waiting) + kills

(* What holds of the byte whether or not the lock excludes.                *)
LockLow == LockTypeOK /\ slock <= 1 /\ LowByWaiting

(* A positive byte is a free lock.                                         *)
NoneInWhenFree == slock > 0 => \A p \in Procs : at[p] # "in"

LockInv == LockLow /\ NoneInWhenFree /\ MutualExclusion

(* Sets of processes are finite, and who is outside one makes it grow.     *)
LEMMA WaitingCounted ==
  ASSUME NEW W \in SUBSET Procs
  PROVE  /\ IsFiniteSet(W)
         /\ Cardinality(W) \in Nat
         /\ Cardinality(Procs) \in Nat
         /\ \A p \in Procs \ W :
              /\ Cardinality(W \cup {p}) = Cardinality(W) + 1
              /\ Cardinality(W) + 1 <= Cardinality(Procs)
         /\ \A p \in W : Cardinality(W \ {p}) = Cardinality(W) - 1
<1>1. IsFiniteSet(Procs)
  BY SpinLockAssumption
<1>2. IsFiniteSet(W) /\ Cardinality(W) \in Nat /\ Cardinality(Procs) \in Nat
  BY <1>1, FS_Subset, FS_CardinalityType
<1>3. ASSUME NEW p \in Procs \ W
      PROVE  /\ Cardinality(W \cup {p}) = Cardinality(W) + 1
             /\ Cardinality(W) + 1 <= Cardinality(Procs)
  <2>1. Cardinality(W \cup {p}) = Cardinality(W) + 1
    BY <1>2, FS_AddElement
  <2>2. W \cup {p} \in SUBSET Procs
    OBVIOUS
  <2>3. Cardinality(W \cup {p}) <= Cardinality(Procs)
    BY <1>1, <2>2, FS_Subset
  <2> QED
    BY <2>1, <2>3
<1>4. \A p \in W : Cardinality(W \ {p}) = Cardinality(W) - 1
  BY <1>2, FS_RemoveElement
<1> QED
  BY <1>2, <1>3, <1>4

LEMMA WaitingSet == Waiting \in SUBSET Procs /\ Waiting' \in SUBSET Procs
  BY DEF Waiting

LEMMA LockLowInit == LockInit => LockLow
<1> SUFFICES ASSUME LockInit PROVE LockLow
  OBVIOUS
<1>1. LockTypeOK /\ slock = 1
  BY SpinLockAssumption DEF LockInit, LockTypeOK, Byte
<1>2. LowByWaiting
  BY WaitingSet, WaitingCounted DEF LockInit, LowByWaiting
<1> QED
  BY <1>1, <1>2 DEF LockLow

(* spin_lock by a process that neither holds the lock nor waits for it:    *)
(* the byte does not wrap, and the process waits unless it was free.       *)
LEMMA DecbLow ==
  ASSUME LockLow, NEW p \in Procs, Decb(p)
  PROVE  /\ LockLow' /\ slock' = slock - 1
         /\ at' = [at EXCEPT ![p] = IF slock > 0 THEN "in" ELSE "spin"]
<1>0. /\ slock \in Byte /\ at \in [Procs -> {"out", "retry", "spin", "in"}]
      /\ kills \in Nat /\ kills' = kills /\ kills <= MaxKills /\ slock <= 1
      /\ at[p] \notin {"spin", "in"} /\ Half \in Nat /\ MaxKills \in Nat
  BY SpinLockAssumption DEF LockLow, LockTypeOK, Decb
<1>1. p \in Procs \ Waiting
  BY <1>0 DEF Waiting
<1>2. Cardinality(Waiting) \in Nat /\ Cardinality(Waiting') \in Nat
  BY WaitingSet, WaitingCounted
<1>3. -slock < Half
  <2>1. -slock <= Cardinality(Waiting) + kills
    BY DEF LockLow, LowByWaiting
  <2>2. Cardinality(Waiting) + 1 <= Cardinality(Procs) /\ Cardinality(Procs) \in Nat
    BY <1>1, WaitingSet, WaitingCounted
  <2>3. Cardinality(Procs) + MaxKills <= Half
    BY SpinLockAssumption
  <2> QED
    BY <1>0, <1>2, <2>1, <2>2, <2>3 DEF Byte
<1>4. slock' = slock - 1
  BY <1>0, <1>3 DEF Decb, Minus1, Byte
<1>5. (slock' >= 0) = (slock > 0)
  BY <1>0, <1>4 DEF Byte
<1>6. at' = [at EXCEPT ![p] = IF slock > 0 THEN "in" ELSE "spin"]
  <2>1. at' = [at EXCEPT ![p] = IF slock' >= 0 THEN "in" ELSE "spin"]
    BY DEF Decb
  <2> QED
    BY <1>5, <2>1, Zenon
<1>7. LockTypeOK' /\ slock' <= 1
  BY <1>0, <1>3, <1>4, <1>6 DEF LockLow, LockTypeOK, Byte
<1>8. CASE slock > 0
  <2>1. slock' = 0
    BY <1>0, <1>4, <1>8 DEF Byte
  <2>2. LowByWaiting'
    BY <1>0, <1>2, <2>1 DEF LowByWaiting
  <2> QED
    BY <1>4, <1>6, <1>7, <2>2 DEF LockLow
<1>9. CASE ~ (slock > 0)
  <2>1. at' = [at EXCEPT ![p] = "spin"]
    BY <1>6, <1>9, Zenon
  <2>2. Waiting' = Waiting \cup {p}
    BY <1>0, <2>1 DEF Waiting
  <2>3. Cardinality(Waiting') = Cardinality(Waiting) + 1
    BY <1>1, <2>2, WaitingSet, WaitingCounted
  <2>4. LowByWaiting'
    BY <1>0, <1>2, <1>4, <2>3 DEF LockLow, LowByWaiting, Byte
  <2> QED
    BY <1>4, <1>6, <1>7, <2>4 DEF LockLow
<1> QED
  BY <1>8, <1>9

(* It gets in only when nobody is.                                         *)
LEMMA DecbExcludes ==
  ASSUME LockLow, NoneInWhenFree, MutualExclusion, NEW p \in Procs, Decb(p)
  PROVE  NoneInWhenFree' /\ MutualExclusion'
<1>1. slock' = slock - 1 /\ slock <= 1 /\ slock \in Int
  BY DecbLow, SpinLockAssumption DEF LockLow, LockTypeOK, Byte
<1>2. ~ (slock' > 0)
  BY <1>1
<1>3. at \in [Procs -> {"out", "retry", "spin", "in"}]
  BY DEF LockLow, LockTypeOK
<1>4. CASE slock > 0
  <2>1. at' = [at EXCEPT ![p] = "in"]
    BY <1>4, DecbLow, Zenon
  <2> QED
    BY <1>2, <1>3, <1>4, <2>1 DEF NoneInWhenFree, MutualExclusion
<1>5. CASE ~ (slock > 0)
  <2>1. at' = [at EXCEPT ![p] = "spin"]
    BY <1>5, DecbLow, Zenon
  <2> QED
    BY <1>2, <1>3, <2>1 DEF NoneInWhenFree, MutualExclusion
<1> QED
  BY <1>4, <1>5

(* Where the byte is not negative there is nothing to account for.         *)
LEMMA NotNegativeLow ==
  ASSUME LockTypeOK', slock' \in {0, 1}
  PROVE  LockLow'
<1>1. Cardinality(Waiting') \in Nat /\ kills' \in Nat
  BY WaitingSet, WaitingCounted, SpinLockAssumption DEF LockTypeOK
<1> QED
  BY <1>1 DEF LockLow, LowByWaiting

(* Whoever sees the byte positive is no longer counted.                    *)
LEMMA SeeFreeLow ==
  ASSUME LockLow, NEW p \in Procs, SeeFree(p)
  PROVE  LockLow'
<1>1. LockTypeOK'
  BY DEF LockLow, LockTypeOK, SeeFree
<1>2. slock' = 1
  BY SpinLockAssumption DEF LockLow, LockTypeOK, SeeFree, Byte
<1> QED
  BY <1>1, <1>2, NotNegativeLow

LEMMA UnlockLow ==
  ASSUME LockLow, NEW p \in Procs, Unlock(p)
  PROVE  LockLow'
<1>1. LockTypeOK' /\ slock' = 1
  BY SpinLockAssumption DEF LockLow, LockTypeOK, Unlock, Byte
<1> QED
  BY <1>1, NotNegativeLow

(* A killed process leaves what it took off to the count of the killed.    *)
LEMMA KilledLow ==
  ASSUME LockLow, NEW p \in Procs, Killed(p)
  PROVE  LockLow'
<1>1. LockTypeOK' /\ slock' <= 1
  BY SpinLockAssumption DEF LockLow, LockTypeOK, Killed
<1>2. Waiting' = Waiting \ {p}
  BY DEF Waiting, Killed, LockLow, LockTypeOK
<1>3. Cardinality(Waiting) \in Nat /\ Cardinality(Waiting') >= Cardinality(Waiting) - 1
  <2>1. CASE p \in Waiting
    BY <1>2, <2>1, WaitingSet, WaitingCounted
  <2>2. CASE p \notin Waiting
    <3>1. Waiting' = Waiting
      BY <1>2, <2>2
    <3> QED
      BY <3>1, WaitingSet, WaitingCounted
  <2> QED
    BY <2>1, <2>2
<1>4. slock' = slock /\ slock \in Int /\ kills \in Int /\ kills' = kills + 1
  BY SpinLockAssumption DEF LockLow, LockTypeOK, Killed, Byte
<1>5. Cardinality(Waiting') \in Nat
  BY WaitingSet, WaitingCounted
<1>6. LowByWaiting'
  BY <1>3, <1>4, <1>5 DEF LockLow, LowByWaiting
<1> QED
  BY <1>1, <1>6 DEF LockLow

(* The other steps let nobody in; after spin_unlock nobody is.             *)
LEMMA OthersExclude ==
  ASSUME LockLow, NoneInWhenFree, MutualExclusion, NEW p \in Procs,
         SeeFree(p) \/ Unlock(p) \/ Killed(p)
  PROVE  NoneInWhenFree' /\ MutualExclusion'
  BY DEF LockLow, LockTypeOK, NoneInWhenFree, MutualExclusion, SeeFree, Unlock, Killed

LEMMA LockNextInv == LockInv /\ [LockNext]_lockVars => LockInv'
<1> SUFFICES ASSUME LockInv, [LockNext]_lockVars PROVE LockInv'
  OBVIOUS
<1>1. CASE LockNext
  <2>1. PICK p \in Procs : Decb(p) \/ SeeFree(p) \/ Unlock(p) \/ Killed(p)
    BY <1>1 DEF LockNext
  <2>2. LockLow'
    BY <2>1, DecbLow, SeeFreeLow, UnlockLow, KilledLow DEF LockInv
  <2>3. NoneInWhenFree' /\ MutualExclusion'
    BY <2>1, DecbExcludes, OthersExclude DEF LockInv
  <2> QED
    BY <2>2, <2>3 DEF LockInv
<1>2. CASE UNCHANGED lockVars
  BY <1>2 DEF lockVars, LockInv, LockLow, LockTypeOK, NoneInWhenFree, LowByWaiting,
              Waiting, MutualExclusion
<1> QED
  BY <1>1, <1>2

(* The lock of spin_lock.h never lets two processes in, however they use   *)
(* it and are killed, as long as there are no more of them and no more are *)
(* killed than its signed byte counts down; and no decb of it wraps.       *)
THEOREM LockSafe ==
  LockSpec => /\ [](LockTypeOK /\ MutualExclusion)
              /\ [][\A p \in Procs : Decb(p) => slock' = slock - 1]_lockVars
<1>1. LockInit => LockInv
  BY LockLowInit DEF LockInit, LockInv, NoneInWhenFree, MutualExclusion
<1>2. LockInv => LockTypeOK /\ MutualExclusion
  BY DEF LockInv, LockLow
<1>3. LockInv => [\A p \in Procs : Decb(p) => slock' = slock - 1]_lockVars
  BY DecbLow DEF LockInv
<1> QED
  BY <1>1, <1>2, <1>3, LockNextInv, PTL DEF LockSpec

-----------------------------------------------------------------------------
Labels == Starting \cup {"down", "up"}

Makes(p) == bNewCreate[p] /\ pc[p] \in Making

(* The types the argument needs.                                           *)
Types ==
  /\ created \in 0 .. MaxSegments /\ key \in 0 .. created
  /\ m_nSize \in [Segments -> Nat] /\ m_nEnd \in [Segments -> 0 .. Cap]
  /\ pc \in [Procs -> Labels] /\ mySize \in [Procs -> Nat]
  /\ seg \in [Procs -> 0 .. created] /\ bNewCreate \in [Procs -> BOOLEAN]
  /\ myEnd \in [Procs -> -1 .. Cap]
  /\ iShmSize \in Nat \ {0}

(* A started process has read its size, and who is past the search has a   *)
(* segment; only its creator initialises it.                               *)
Underway ==
  \A p \in Procs :
    /\ pc[p] # "down" => mySize[p] # 0
    /\ pc[p] \in Making \cup {"check", "up"} => seg[p] # 0
    /\ pc[p] \in {"head", "size"} => bNewCreate[p]
    /\ pc[p] \in Finding \cup {"down"} => ~ bNewCreate[p]

(* A segment not created yet is zeros, and so is one that is being made.   *)
Zeros ==
  /\ \A s \in Segments : s > created => m_nSize[s] = 0 /\ m_nEnd[s] = 0
  /\ \A p \in Procs : Makes(p) => m_nSize[seg[p]] = 0 /\ m_nEnd[seg[p]] = 0

OneCreator ==
  \A p, q \in Procs : Makes(p) /\ Makes(q) /\ seg[p] = seg[q] => p = q

SizedWhenUp == \A p \in Procs : pc[p] = "up" => m_nSize[seg[p]] # 0

FreshInv == Types /\ Underway /\ Zeros /\ OneCreator /\ SizedWhenUp

LEMMA InitFresh == Init => FreshInv
  BY SharedRingAssumption
  DEF Init, FreshInv, Types, Underway, Zeros, OneCreator, SizedWhenUp, Makes,
      Labels, Starting, Finding, Making, Segments

(* A step that only moves a process on keeps the invariant, if what the    *)
(* new place requires is so.                                               *)
LEMMA GoFresh ==
  ASSUME FreshInv, NEW p \in Procs, NEW label \in Labels \ {"down"}, Go(p, label),
         pc[p] # "down",
         label \in Making \cup {"check", "up"} => seg[p] # 0,
         label \in Making /\ bNewCreate[p] => pc[p] \in Making,
         label \in {"head", "size"} => bNewCreate[p],
         label \in Finding => pc[p] \in Finding,
         label = "up" => m_nSize[seg[p]] # 0
  PROVE  FreshInv'
<1> USE DEF FreshInv
<1>1. /\ pc' = [pc EXCEPT ![p] = label]
      /\ UNCHANGED <<iShmSize, created, key, m_nSize, m_nEnd, mySize, seg, bNewCreate, myEnd>>
  BY DEF Go, Goto, system, rings, locals
<1>2. Types'
  BY <1>1 DEF Types
<1>3. Underway'
  BY <1>1 DEF Underway, Types
<1>4. Zeros' /\ OneCreator'
  BY <1>1 DEF Zeros, OneCreator, Makes, Types
<1>5. SizedWhenUp'
  BY <1>1 DEF SizedWhenUp, Types
<1> QED
  BY <1>2, <1>3, <1>4, <1>5

(* A process that goes leaves the rings as they are.                       *)
LEMMA GoneFresh ==
  ASSUME FreshInv, NEW p \in Procs, Gone(p)
  PROVE  FreshInv'
<1> USE DEF FreshInv
<1>1. /\ pc' = [pc EXCEPT ![p] = "down"]
      /\ seg' = [seg EXCEPT ![p] = 0]
      /\ bNewCreate' = [bNewCreate EXCEPT ![p] = FALSE]
      /\ mySize' = [mySize EXCEPT ![p] = 0]
      /\ myEnd' = [myEnd EXCEPT ![p] = -1]
      /\ UNCHANGED <<iShmSize, created, key, m_nSize, m_nEnd>>
  BY DEF Gone, Goto, system, rings
<1>2. Types'
  BY <1>1, SharedRingAssumption DEF Types, Labels
<1>3. Underway'
  BY <1>1 DEF Underway, Types, Making
<1>4. Zeros' /\ OneCreator'
  BY <1>1 DEF Zeros, OneCreator, Makes, Types
<1>5. SizedWhenUp'
  BY <1>1 DEF SizedWhenUp, Types
<1> QED
  BY <1>2, <1>3, <1>4, <1>5

(* A new segment is one that nobody has, and it is zeros.                  *)
LEMMA CreateFresh ==
  ASSUME FreshInv, NEW p \in Procs, Create(p), pc[p] \in Finding
  PROVE  FreshInv'
<1> USE DEF FreshInv
<1>1. /\ created' = created + 1 /\ key' = created' /\ created < MaxSegments
      /\ pc' = [pc EXCEPT ![p] = "attach"]
      /\ seg' = [seg EXCEPT ![p] = created']
      /\ bNewCreate' = [bNewCreate EXCEPT ![p] = TRUE]
      /\ UNCHANGED <<iShmSize, m_nSize, m_nEnd, mySize, myEnd>>
  BY DEF Create, Goto, rings
<1>2. created' \in Segments /\ created \in Nat /\ created' # 0
  BY <1>1, SharedRingAssumption DEF Types, Segments
<1>3. Types'
  BY <1>1, <1>2, SharedRingAssumption DEF Types, Labels, Starting, Making
<1>4. Underway'
  BY <1>1, <1>2 DEF Underway, Types, Finding
<1>5. m_nSize[created'] = 0 /\ m_nEnd[created'] = 0
  BY <1>1, <1>2 DEF Zeros
<1>6. \A q \in Procs : seg[q] # created'
  BY <1>1, <1>2 DEF Types
<1>7. Zeros'
  <2>1. \A s \in Segments : s > created' => s > created
    BY <1>1, <1>2 DEF Segments
  <2>2. \A q \in Procs \ {p} : Makes(q)' = Makes(q) /\ seg'[q] = seg[q]
    BY <1>1 DEF Makes, Types
  <2>3. seg'[p] = created'
    BY <1>1 DEF Types
  <2> QED
    BY <1>1, <1>5, <2>1, <2>2, <2>3 DEF Zeros
<1>8. OneCreator'
  <2>1. \A q \in Procs \ {p} : Makes(q)' = Makes(q) /\ seg'[q] = seg[q]
    BY <1>1 DEF Makes, Types
  <2>2. seg'[p] = created'
    BY <1>1 DEF Types
  <2> QED
    BY <1>6, <2>1, <2>2 DEF OneCreator
<1>9. SizedWhenUp'
  BY <1>1 DEF SizedWhenUp, Types
<1> QED
  BY <1>3, <1>4, <1>7, <1>8, <1>9

(* The search for the segment, up to the one that is found or created.     *)
LEMMA FindingFresh ==
  ASSUME FreshInv, NEW p \in Procs,
         Excl(p) \/ Open(p) \/ OpenAny(p) \/ Stat(p) \/ Remove(p) \/ Recreate(p)
  PROVE  FreshInv'
<1>1. ASSUME Create(p), pc[p] \in Finding PROVE FreshInv'
  BY <1>1, CreateFresh
<1>2. ASSUME Fail(p) PROVE FreshInv'
  BY <1>2, GoneFresh DEF Fail
<1>3. ASSUME NEW label \in Finding, Go(p, label), pc[p] \in Finding PROVE FreshInv'
  <2>1. label \in Labels \ {"down"} /\ label \notin Making \cup {"check", "up"}
    BY DEF Labels, Starting, Finding, Making
  <2>2. pc[p] # "down" /\ label \notin {"head", "size", "up"}
    BY <1>3, <2>1 DEF Finding, Making
  <2>3. label \notin Making
    BY <2>1
  <2> QED
    BY <1>3, <2>1, <2>2, <2>3, GoFresh
<1>4. ASSUME NEW label \in {"attach", "stat"}, Found(p, label), key # 0,
             pc[p] \in Finding, ~ bNewCreate[p]
      PROVE  FreshInv'
  <2>1. /\ pc' = [pc EXCEPT ![p] = label] /\ seg' = [seg EXCEPT ![p] = key]
        /\ UNCHANGED <<iShmSize, created, key, m_nSize, m_nEnd, mySize, bNewCreate, myEnd>>
    BY <1>4 DEF Found, Goto, system, rings
  <2>2. Types'
    BY <2>1 DEF FreshInv, Types, Labels, Starting, Finding, Making
  <2>3. Underway'
    BY <1>4, <2>1 DEF FreshInv, Underway, Types, Finding
  <2>4. Zeros' /\ OneCreator'
    BY <1>4, <2>1 DEF FreshInv, Zeros, OneCreator, Makes, Types
  <2>5. SizedWhenUp'
    BY <2>1 DEF FreshInv, SizedWhenUp, Types
  <2> QED
    BY <2>2, <2>3, <2>4, <2>5 DEF FreshInv
<1>5. pc[p] \in Finding /\ ~ bNewCreate[p]
  BY DEF Finding, FreshInv, Underway, Excl, Open, OpenAny, Stat, Remove, Recreate
<1>6. CASE Excl(p)
  <2>1. Create(p) \/ Fail(p) \/ Go(p, "open")
    BY <1>6 DEF Excl
  <2> QED
    BY <2>1, <1>1, <1>2, <1>3, <1>5 DEF Finding
<1>7. CASE Open(p)
  <2>1. (key # 0 /\ Found(p, "attach")) \/ Go(p, "openAny")
    BY <1>7 DEF Open
  <2> QED
    BY <2>1, <1>3, <1>4, <1>5 DEF Finding
<1>8. CASE OpenAny(p)
  <2>1. (key # 0 /\ Found(p, "stat")) \/ Fail(p)
    BY <1>8 DEF OpenAny
  <2> QED
    BY <2>1, <1>2, <1>4, <1>5
<1>9. CASE Stat(p)
  <2>1. Go(p, "remove") \/ Fail(p)
    BY <1>9 DEF Stat
  <2> QED
    BY <2>1, <1>2, <1>3, <1>5 DEF Finding
<1>10. CASE Remove(p)
  <2>1. CASE Fail(p)
    BY <2>1, <1>2
  <2>2. CASE ~ Fail(p)
    <3>1. /\ key' \in {0, key} /\ pc' = [pc EXCEPT ![p] = "recreate"]
          /\ UNCHANGED <<iShmSize, created, m_nSize, m_nEnd, mySize, seg, bNewCreate, myEnd>>
      BY <1>10, <2>2 DEF Remove, Goto, rings, locals
    <3>2. Types'
      BY <3>1 DEF FreshInv, Types, Labels, Starting, Finding
    <3>3. Underway'
      BY <1>5, <3>1 DEF FreshInv, Underway, Types, Making, Finding
    <3>4. Zeros' /\ OneCreator'
      BY <1>5, <3>1 DEF FreshInv, Zeros, OneCreator, Makes, Types
    <3>5. SizedWhenUp'
      BY <3>1 DEF FreshInv, SizedWhenUp, Types
    <3> QED
      BY <3>2, <3>3, <3>4, <3>5 DEF FreshInv
  <2> QED
    BY <2>1, <2>2
<1>11. CASE Recreate(p)
  <2>1. Create(p) \/ Fail(p)
    BY <1>11 DEF Recreate
  <2> QED
    BY <2>1, <1>1, <1>2, <1>5
<1> QED
  BY <1>6, <1>7, <1>8, <1>9, <1>10, <1>11

(* From shmat to AttachMem.                                                *)
LEMMA MakingFresh ==
  ASSUME FreshInv, NEW p \in Procs,
         \/ Attach(p) \/ LockGet(p) \/ LockAttach(p) \/ LockStat(p) \/ InitLock(p)
         \/ InitHead(p) \/ InitSize(p) \/ Check(p)
  PROVE  FreshInv'
<1>1. ASSUME Fail(p) PROVE FreshInv'
  BY <1>1, GoneFresh DEF Fail
<1>2. ASSUME pc[p] \in Making \cup {"check"}
      PROVE  seg[p] # 0 /\ pc[p] # "down" /\ seg[p] \in Segments
  BY <1>2, SharedRingAssumption DEF Making, FreshInv, Underway, Types, Segments
<1>3. AfterLock(p) \in {"head", "check"} /\ (AfterLock(p) = "head" => bNewCreate[p])
  BY DEF AfterLock
<1>4. ASSUME NEW label \in {"lockGet", "lockAttach", "lockStat", "lockInit"} \cup {AfterLock(p)},
             pc[p] \in Making, pc' = [pc EXCEPT ![p] = label],
             UNCHANGED <<iShmSize, created, key, m_nSize, m_nEnd, mySize, seg, bNewCreate, myEnd>>
      PROVE  FreshInv'
  <2>1. Types'
    BY <1>3, <1>4 DEF FreshInv, Types, Labels, Starting, Making
  <2>2. Underway'
    BY <1>2, <1>3, <1>4 DEF FreshInv, Underway, Types, Finding, Making
  <2>3. Zeros' /\ OneCreator'
    BY <1>4 DEF FreshInv, Zeros, OneCreator, Makes, Types
  <2>4. SizedWhenUp'
    BY <1>3, <1>4 DEF FreshInv, SizedWhenUp, Types
  <2> QED
    BY <2>1, <2>2, <2>3, <2>4 DEF FreshInv
<1>5. CASE Attach(p)
  <2>1. Fail(p) \/ Go(p, "lockGet")
    BY <1>5 DEF Attach
  <2>2. pc[p] \in Making
    BY <1>5 DEF Attach, Making
  <2> QED
    BY <2>1, <2>2, <1>1, <1>4 DEF Go, Goto, system, rings, locals
<1>6. CASE LockGet(p)
  BY <1>4, <1>6 DEF LockGet, Goto, rings, Making
<1>7. CASE LockAttach(p)
  BY <1>4, <1>7 DEF LockAttach, Go, Goto, system, rings, locals, Making
<1>8. CASE LockStat(p)
  BY <1>4, <1>8 DEF LockStat, Go, Goto, system, rings, locals, Making
<1>9. CASE InitLock(p)
  BY <1>4, <1>9 DEF InitLock, Goto, system, rings, locals, Making
<1>10. CASE InitHead(p)
  <2>1. /\ pc[p] = "head" /\ pc' = [pc EXCEPT ![p] = "size"]
        /\ m_nEnd' = [m_nEnd EXCEPT ![seg[p]] = 0]
        /\ UNCHANGED <<iShmSize, created, key, m_nSize, mySize, seg, bNewCreate, myEnd>>
    BY <1>10 DEF InitHead, Goto, system, locals
  <2>2. Types'
    <3>1. 0 \in 0 .. Cap
      BY SharedRingAssumption
    <3>2. m_nEnd' \in [Segments -> 0 .. Cap]
      BY <2>1, <3>1 DEF FreshInv, Types
    <3> QED
      BY <2>1, <3>2 DEF FreshInv, Types, Labels, Starting, Making
  <2>3. Underway'
    BY <2>1 DEF FreshInv, Underway, Types, Finding, Making
  <2>4. Zeros' /\ OneCreator'
    BY <2>1 DEF FreshInv, Zeros, OneCreator, Makes, Types, Making
  <2>5. SizedWhenUp'
    BY <2>1 DEF FreshInv, SizedWhenUp, Types
  <2> QED
    BY <2>2, <2>3, <2>4, <2>5 DEF FreshInv
<1>11. CASE InitSize(p)
  <2>1. /\ pc[p] = "size" /\ pc' = [pc EXCEPT ![p] = "up"]
        /\ m_nSize' = [m_nSize EXCEPT ![seg[p]] = mySize[p]]
        /\ UNCHANGED <<iShmSize, created, key, m_nEnd, mySize, seg, bNewCreate, myEnd>>
    BY <1>11 DEF InitSize, Goto, system, locals
  <2>2. Makes(p) /\ mySize[p] # 0 /\ mySize[p] \in Nat /\ seg[p] \in Segments
        /\ seg[p] <= created /\ seg[p] # 0
    BY <1>2, <2>1 DEF FreshInv, Underway, Types, Makes, Making
  <2>3. Types'
    BY <2>1 DEF FreshInv, Types, Labels, Starting, Making
  <2>4. Underway'
    BY <2>1, <2>2 DEF FreshInv, Underway, Types, Finding, Making
  <2>5. \A q \in Procs : Makes(q)' => Makes(q) /\ q # p /\ seg'[q] = seg[q]
    BY <2>1 DEF FreshInv, Makes, Types, Making
  <2>6. \A q \in Procs : Makes(q)' => seg[q] # seg[p]
    BY <2>2, <2>5 DEF FreshInv, OneCreator
  <2>7. Zeros'
    <3>1. \A s \in Segments : s > created => s # seg[p]
      BY <2>2, SharedRingAssumption DEF Segments, FreshInv, Types
    <3>2. \A s \in Segments : s > created' => m_nSize'[s] = 0 /\ m_nEnd'[s] = 0
      BY <2>1, <3>1 DEF FreshInv, Zeros, Types
    <3>3. \A q \in Procs : Makes(q)' => m_nSize'[seg'[q]] = 0 /\ m_nEnd'[seg'[q]] = 0
      BY <2>1, <2>5, <2>6 DEF FreshInv, Zeros, Types
    <3> QED
      BY <3>2, <3>3 DEF Zeros
  <2>8. OneCreator'
    BY <2>1, <2>5 DEF FreshInv, OneCreator
  <2>9. SizedWhenUp'
    BY <2>1, <2>2 DEF FreshInv, SizedWhenUp, Types
  <2> QED
    BY <2>3, <2>4, <2>7, <2>8, <2>9 DEF FreshInv
<1>12. CASE Check(p)
  <2>1. CASE Fail(p)
    BY <2>1, <1>1
  <2>2. CASE ~ Fail(p)
    <3>1. /\ pc[p] = "check" /\ pc' = [pc EXCEPT ![p] = "up"]
          /\ m_nSize[seg[p]] = mySize[p]
          /\ UNCHANGED <<iShmSize, created, key, m_nSize, m_nEnd, mySize, seg, bNewCreate, myEnd>>
      BY <1>12, <2>2 DEF Check, Go, Goto, system, rings, locals
    <3>2. Types'
      BY <3>1 DEF FreshInv, Types, Labels
    <3>3. Underway'
      BY <3>1 DEF FreshInv, Underway, Types, Finding, Making
    <3>4. Zeros' /\ OneCreator'
      BY <3>1 DEF FreshInv, Zeros, OneCreator, Makes, Types, Making
    <3>5. SizedWhenUp'
      BY <3>1 DEF FreshInv, SizedWhenUp, Types, Underway
    <3> QED
      BY <3>2, <3>3, <3>4, <3>5 DEF FreshInv
  <2> QED
    BY <2>1, <2>2
<1> QED
  BY <1>5, <1>6, <1>7, <1>8, <1>9, <1>10, <1>11, <1>12

(* An append moves the end of a ring that has its size: nobody makes it.   *)
LEMMA AppendFresh ==
  ASSUME FreshInv, NEW p \in Procs, Lock(p) \/ Retry(p) \/ ReadEnd(p) \/ Append(p)
  PROVE  FreshInv'
<1>1. /\ pc[p] = "up"
      /\ UNCHANGED <<iShmSize, created, key, m_nSize, pc, mySize, seg, bNewCreate>>
  BY DEF Lock, Retry, ReadEnd, Append, Nothing, system, rings
<1>2. seg[p] \in 1 .. created /\ m_nSize[seg[p]] # 0 /\ seg[p] \in Segments
  BY SMTT(30), <1>1, SharedRingAssumption
  DEF FreshInv, Types, Underway, SizedWhenUp, Segments
<1>3. /\ m_nEnd' \in [Segments -> 0 .. Cap] /\ myEnd' \in [Procs -> -1 .. Cap]
      /\ \A s \in Segments : s # seg[p] => m_nEnd'[s] = m_nEnd[s]
  <2>1. CASE Lock(p) \/ Retry(p)
    BY <2>1 DEF Lock, Retry, rings, FreshInv, Types
  <2>2. CASE ReadEnd(p)
    BY <1>2, <2>2, SharedRingAssumption DEF ReadEnd, rings, FreshInv, Types
  <2>3. CASE Append(p)
    BY <1>2, <2>3, SharedRingAssumption DEF Append, rings, FreshInv, Types
  <2> QED
    BY <2>1, <2>2, <2>3
<1>4. Types'
  BY <1>1, <1>3 DEF FreshInv, Types
<1>5. Underway' /\ OneCreator' /\ SizedWhenUp'
  BY <1>1 DEF FreshInv, Underway, OneCreator, SizedWhenUp, Makes
<1>6. Zeros'
  <2>1. \A s \in Segments : s > created => s # seg[p]
    BY <1>2, SharedRingAssumption DEF Segments, FreshInv, Types
  <2>2. \A q \in Procs : Makes(q)' => Makes(q) /\ seg'[q] = seg[q]
    BY <1>1 DEF Makes
  <2>3. \A q \in Procs : Makes(q) => seg[q] # seg[p] /\ seg[q] \in Segments
    <3>1. \A q \in Procs : Makes(q) => seg[q] # seg[p]
      BY <1>2 DEF FreshInv, Zeros
    <3>2. \A q \in Procs : Makes(q) => seg[q] \in Segments
      BY SMTT(30), SharedRingAssumption DEF FreshInv, Makes, Underway, Types, Segments
    <3> QED
      BY <3>1, <3>2
  <2> QED
    BY <1>1, <1>3, <2>1, <2>2, <2>3 DEF FreshInv, Zeros
<1> QED
  BY <1>4, <1>5, <1>6 DEF FreshInv

LEMMA NextFresh == FreshInv /\ [Next]_vars => FreshInv'
<1> SUFFICES ASSUME FreshInv, [Next]_vars PROVE FreshInv'
  OBVIOUS
<1>1. ASSUME NEW p \in Procs, Start(p) PROVE FreshInv'
  <2>1. /\ pc[p] = "down" /\ pc' = [pc EXCEPT ![p] = "excl"]
        /\ mySize' = [mySize EXCEPT ![p] = iShmSize]
        /\ UNCHANGED <<iShmSize, created, key, m_nSize, m_nEnd, seg, bNewCreate, myEnd>>
    BY <1>1 DEF Start, Goto, system, rings
  <2>2. Types'
    BY <2>1 DEF FreshInv, Types, Labels, Starting, Finding
  <2>3. Underway'
    BY <2>1 DEF FreshInv, Underway, Types, Making
  <2>4. Zeros' /\ OneCreator'
    BY <2>1 DEF FreshInv, Zeros, OneCreator, Makes, Types, Making
  <2>5. SizedWhenUp'
    BY <2>1 DEF FreshInv, SizedWhenUp, Types
  <2> QED
    BY <2>2, <2>3, <2>4, <2>5 DEF FreshInv
<1>2. ASSUME NEW p \in Procs, StartStep(p) PROVE FreshInv'
  BY <1>2, FindingFresh, MakingFresh DEF StartStep
<1>3. ASSUME NEW p \in Procs, Lock(p) \/ Retry(p) \/ ReadEnd(p) \/ Append(p)
      PROVE  FreshInv'
  BY <1>3, AppendFresh
<1>4. ASSUME NEW p \in Procs, Exit(p) \/ Kill(p) PROVE FreshInv'
  BY <1>4, GoneFresh DEF Exit, Kill
<1>5. CASE Edit
  <2>1. /\ iShmSize' \in Nat \ {0}
        /\ UNCHANGED <<created, key, m_nSize, m_nEnd, pc, mySize, seg, bNewCreate, myEnd>>
    BY <1>5, SharedRingAssumption DEF Edit, rings, locals
  <2> QED
    BY <2>1 DEF FreshInv, Types, Underway, Zeros, OneCreator, SizedWhenUp, Makes
<1>6. CASE UNCHANGED vars
  BY <1>6 DEF vars, system, rings, locals, FreshInv, Types, Underway, Zeros,
              OneCreator, SizedWhenUp, Makes
<1> QED
  BY <1>1, <1>2, <1>3, <1>4, <1>5, <1>6 DEF Next, Running

(* Nobody works on a ring whose creator is still at it, and what it is     *)
(* about to store wipes nothing: for any number of processes, sizes, edits *)
(* and kills, whether or not the starts overlap.                           *)
THEOREM RingFresh == Spec => []FreshUntilSized
<1>1. FreshInv => FreshUntilSized
  <2> SUFFICES ASSUME FreshInv, NEW p \in Procs, pc[p] \in {"head", "size"}
               PROVE  /\ m_nEnd[seg[p]] = 0
                      /\ \A q \in Procs \ {p} : ~ (pc[q] = "up" /\ seg[q] = seg[p])
    BY DEF FreshUntilSized
  <2>1. Makes(p)
    BY DEF FreshInv, Underway, Makes, Making
  <2> QED
    BY <2>1 DEF FreshInv, Zeros, SizedWhenUp
<1> QED
  BY <1>1, InitFresh, NextFresh, PTL DEF Spec

-----------------------------------------------------------------------------
(* As long as no two starts overlap.                                       *)

Past == Making \cup {"check", "up"}

(* One process starts at a time; who is past the search has the segment    *)
(* that the key names; and who replaces it is alone.                       *)
OneStarts == \A p, q \in Procs : pc[p] \in Starting /\ pc[q] \in Starting => p = q
OnKey == \A p \in Procs : pc[p] \in Past => seg[p] = key
ReplacesAlone ==
  \A p, q \in Procs : pc[p] \in {"remove", "recreate"} /\ q # p => pc[q] = "down"

Together == overlapped \/ (OneStarts /\ OnKey /\ ReplacesAlone)

(* A step of a start, from one place to another on the same segment.       *)
LEMMA MoveTogether ==
  ASSUME FreshInv, Together, NEW p \in Procs, NEW label \in Starting \cup {"up"},
         pc[p] \in Starting, pc' = [pc EXCEPT ![p] = label],
         label \in Past => pc[p] \in Past,
         label = "remove" \/ label = "recreate" =>
           overlapped \/ \A q \in Procs \ {p} : pc[q] = "down",
         UNCHANGED <<key, seg, overlapped>>
  PROVE  Together'
<1> SUFFICES ASSUME ~ overlapped PROVE OneStarts' /\ OnKey' /\ ReplacesAlone'
  BY DEF Together
<1>0. OneStarts /\ OnKey /\ ReplacesAlone /\ pc \in [Procs -> Labels]
  BY DEF Together, FreshInv, Types
<1>1. OneStarts'
  BY <1>0 DEF OneStarts, Starting, Finding, Making
<1>2. OnKey'
  BY <1>0 DEF OnKey
<1>3. ReplacesAlone'
  BY <1>0 DEF ReplacesAlone, Starting, Finding, Making
<1> QED
  BY <1>1, <1>2, <1>3

LEMMA GoneTogether ==
  ASSUME FreshInv, Together, NEW p \in Procs, Gone(p)
  PROVE  Together'
<1> SUFFICES ASSUME ~ overlapped' PROVE OneStarts' /\ OnKey' /\ ReplacesAlone'
  BY DEF Together
<1>0. /\ pc' = [pc EXCEPT ![p] = "down"] /\ seg' = [seg EXCEPT ![p] = 0] /\ key' = key
      /\ pc \in [Procs -> Labels] /\ seg \in [Procs -> 0 .. created]
      /\ overlapped' = (overlapped /\ \E q \in Procs \ {p} : pc[q] # "down")
  BY DEF Gone, Goto, system, FreshInv, Types
<1>1. CASE overlapped
  <2>1. \A q \in Procs : pc'[q] = "down"
    BY <1>0, <1>1
  <2> QED
    BY <2>1 DEF OneStarts, OnKey, ReplacesAlone, Past, Starting, Finding, Making
<1>2. CASE ~ overlapped
  BY <1>0, <1>2 DEF Together, OneStarts, OnKey, ReplacesAlone, Past, Starting,
                    Finding, Making
<1> QED
  BY <1>1, <1>2

(* Without a segment nobody is past the search.                            *)
LEMMA CreateTogether ==
  ASSUME FreshInv, Together, NEW p \in Procs, Create(p), key = 0, pc[p] \in Finding
  PROVE  Together'
<1> SUFFICES ASSUME ~ overlapped PROVE OneStarts' /\ OnKey' /\ ReplacesAlone'
  BY DEF Together, Create
<1>0. /\ pc' = [pc EXCEPT ![p] = "attach"] /\ seg' = [seg EXCEPT ![p] = key']
      /\ pc \in [Procs -> Labels] /\ seg \in [Procs -> 0 .. created]
      /\ OneStarts /\ OnKey
  BY DEF Create, Goto, FreshInv, Types, Together
<1>1. \A q \in Procs \ {p} : pc[q] \notin Past
  BY <1>0 DEF OnKey, FreshInv, Underway, Past
<1>2. \A q \in Procs \ {p} : pc[q] \notin Starting
  BY <1>0 DEF OneStarts, Starting
<1>3. \A q \in Procs \ {p} : pc[q] = "down"
  BY <1>0, <1>1, <1>2 DEF Labels, Past
<1> QED
  BY <1>0, <1>3 DEF OneStarts, OnKey, ReplacesAlone, Past, Starting, Finding, Making

LEMMA NextTogether == FreshInv /\ Together /\ [Next]_vars => Together'
<1> SUFFICES ASSUME FreshInv, Together, [Next]_vars PROVE Together'
  OBVIOUS
<1>1. ASSUME NEW p \in Procs, Start(p) PROVE Together'
  <2>1. /\ pc[p] = "down" /\ pc' = [pc EXCEPT ![p] = "excl"] /\ UNCHANGED <<key, seg>>
        /\ overlapped' = (overlapped \/ \E q \in Procs : pc[q] \in Starting)
        /\ pc \in [Procs -> Labels]
    BY <1>1 DEF Start, Goto, system, FreshInv, Types
  <2> SUFFICES ASSUME ~ overlapped' PROVE OneStarts' /\ OnKey' /\ ReplacesAlone'
    BY DEF Together
  <2>2. OnKey /\ \A q \in Procs : pc[q] \notin Starting
    BY <2>1 DEF Together
  <2>3. OneStarts'
    BY <2>1, <2>2 DEF OneStarts
  <2>4. OnKey'
    BY <2>1, <2>2 DEF OnKey, Past, Making
  <2>5. ReplacesAlone'
    BY <2>1, <2>2 DEF ReplacesAlone, Starting, Finding
  <2> QED
    BY <2>3, <2>4, <2>5
<1>2. ASSUME NEW p \in Procs, Fail(p) \/ Exit(p) \/ Kill(p) PROVE Together'
  BY <1>2, GoneTogether DEF Fail, Exit, Kill
<1>3. ASSUME NEW p \in Procs, NEW label \in {"attach", "stat"}, Found(p, label),
             pc[p] \in Finding
      PROVE  Together'
  BY <1>3 DEF Found, Goto, system, FreshInv, Types, Together, OneStarts, OnKey,
              ReplacesAlone, Past, Starting, Finding, Making
<1>4. ASSUME NEW p \in Procs, StartStep(p) PROVE Together'
  <2>1. CASE Excl(p) \/ Recreate(p)
    <3>1. (key = 0 /\ Create(p)) \/ Fail(p) \/ Go(p, "open")
      BY <2>1 DEF Excl, Recreate
    <3>2. pc[p] \in Finding
      BY <2>1 DEF Excl, Recreate, Finding
    <3>3. ASSUME Go(p, "open") PROVE Together'
      BY <3>2, <3>3, MoveTogether DEF Go, Goto, system, locals, Starting, Finding,
                                      Making, Past
    <3> QED
      BY <3>1, <3>2, <3>3, <1>2, CreateTogether
  <2>2. CASE Open(p) \/ OpenAny(p)
    <3>1. pc[p] \in Finding
      BY <2>2 DEF Open, OpenAny, Finding
    <3>2. ASSUME Go(p, "openAny") PROVE Together'
      BY <3>1, <3>2, MoveTogether DEF Go, Goto, system, locals, Starting, Finding,
                                      Making, Past
    <3> QED
      BY <2>2, <3>1, <3>2, <1>2, <1>3 DEF Open, OpenAny
  <2>3. CASE Stat(p)
    <3>1. CASE Fail(p)
      BY <3>1, <1>2
    <3>2. CASE ~ Fail(p)
      <4>1. Go(p, "remove") /\ pc[p] = "stat" /\ seg[p] = key /\ Attached(key) = {}
        BY <2>3, <3>2 DEF Stat
      <4>2. ASSUME ~ overlapped, NEW q \in Procs \ {p} PROVE pc[q] = "down"
        <5>1. pc[q] \notin Starting
          BY <4>1, <4>2 DEF Together, OneStarts, Starting, Finding
        <5>2. pc[q] # "up"
          BY <4>1, <4>2 DEF Together, OnKey, Past, Attached, OnRing, OnLock
        <5> QED
          BY <5>1, <5>2 DEF FreshInv, Types, Labels
      <4> QED
        BY <4>1, <4>2, MoveTogether DEF Go, Goto, system, locals, Starting, Finding,
                                        Making, Past
    <3> QED
      BY <3>1, <3>2
  <2>4. CASE Remove(p)
    <3>1. CASE Fail(p)
      BY <3>1, <1>2
    <3>2. CASE ~ Fail(p)
      <4>1. pc[p] = "remove" /\ pc' = [pc EXCEPT ![p] = "recreate"]
            /\ UNCHANGED <<seg, overlapped>>
        BY <2>4, <3>2 DEF Remove, Goto, locals
      <4>2. ASSUME ~ overlapped PROVE \A q \in Procs : q # p => pc'[q] = "down"
        BY <4>1, <4>2 DEF Together, ReplacesAlone, FreshInv, Types
      <4>3. pc'[p] = "recreate"
        BY <4>1 DEF FreshInv, Types
      <4> QED
        BY <4>1, <4>2, <4>3 DEF Together, OneStarts, OnKey, ReplacesAlone, Past,
                                Starting, Finding, Making
    <3> QED
      BY <3>1, <3>2
  <2>5. CASE \/ Attach(p) \/ LockGet(p) \/ LockAttach(p) \/ LockStat(p) \/ InitLock(p)
             \/ InitHead(p) \/ InitSize(p) \/ Check(p)
    <3>1. CASE Fail(p)
      BY <3>1, <1>2
    <3>2. CASE ~ Fail(p)
      <4>1. PICK label \in Past :
              /\ pc[p] \in Making \cup {"check"} /\ pc' = [pc EXCEPT ![p] = label]
              /\ UNCHANGED <<key, seg, overlapped>>
        BY <2>5, <3>2 DEF Attach, LockGet, LockAttach, LockStat, InitLock, InitHead,
             InitSize, Check, AfterLock, Go, Goto, system, locals, Past, Making
      <4>2. label \in Starting \cup {"up"} /\ label \notin {"remove", "recreate"}
        BY DEF Past, Starting, Finding, Making
      <4>3. pc[p] \in Past /\ pc[p] \in Starting
        BY <4>1 DEF Past, Starting
      <4> QED
        BY <4>1, <4>2, <4>3, MoveTogether
    <3> QED
      BY <3>1, <3>2
  <2> QED
    BY <1>4, <2>1, <2>2, <2>3, <2>4, <2>5 DEF StartStep
<1>5. ASSUME NEW p \in Procs, Lock(p) \/ Retry(p) \/ ReadEnd(p) \/ Append(p)
      PROVE  Together'
  BY <1>5 DEF Lock, Retry, ReadEnd, Append, Nothing, system, Together, OneStarts,
              OnKey, ReplacesAlone
<1>6. CASE Edit \/ UNCHANGED vars
  BY <1>6 DEF Edit, vars, system, locals, Together, OneStarts, OnKey, ReplacesAlone
<1> QED
  BY <1>1, <1>2, <1>4, <1>5, <1>6 DEF Next, Running

-----------------------------------------------------------------------------
(* Sizes: what a start finds that others have left.                        *)

Sized ==
  /\ segsz \in [Segments -> Nat]
  /\ \A s \in Segments : m_nSize[s] \in {0, segsz[s]}
  /\ \A p \in Procs :
       /\ pc[p] \in Making \cup {"check"} => segsz[seg[p]] >= mySize[p]
       /\ Makes(p) => segsz[seg[p]] = mySize[p]

(* The ring of the key that has no size is being made, or its maker was    *)
(* killed.                                                                 *)
Owed ==
  key # 0 /\ m_nSize[key] = 0 =>
    key \in torn \/ \E p \in Procs : Makes(p) /\ seg[p] = key

LEMMA MoveSized ==
  ASSUME FreshInv, Sized, Owed, NEW p \in Procs, NEW label \in Labels,
         pc' = [pc EXCEPT ![p] = label],
         label \in Making \cup {"check"} => pc[p] \in Making \cup {"check"},
         bNewCreate[p] => (label \in Making <=> pc[p] \in Making),
         UNCHANGED <<segsz, m_nSize, mySize, seg, bNewCreate, torn>>,
         key' \in {0, key}
  PROVE  Sized' /\ Owed'
<1>1. pc \in [Procs -> Labels]
  BY DEF FreshInv, Types
<1>2. \A q \in Procs : Makes(q)' = Makes(q)
  BY <1>1 DEF Makes
<1>3. Sized'
  BY <1>1, <1>2 DEF Sized
<1>4. Owed'
  BY <1>2 DEF Owed
<1> QED
  BY <1>3, <1>4

LEMMA GoneSized ==
  ASSUME FreshInv, Sized, Owed, NEW p \in Procs, Gone(p), torn \subseteq torn',
         Makes(p) => seg[p] # key \/ seg[p] \in torn'
  PROVE  Sized' /\ Owed'
<1>1. /\ pc' = [pc EXCEPT ![p] = "down"] /\ seg' = [seg EXCEPT ![p] = 0]
      /\ bNewCreate' = [bNewCreate EXCEPT ![p] = FALSE]
      /\ mySize' = [mySize EXCEPT ![p] = 0]
      /\ UNCHANGED <<key, segsz, m_nSize>>
      /\ pc \in [Procs -> Labels] /\ bNewCreate \in [Procs -> BOOLEAN]
      /\ seg \in [Procs -> 0 .. created] /\ mySize \in [Procs -> Nat]
  BY DEF Gone, Goto, system, rings, FreshInv, Types
<1>2. \A q \in Procs \ {p} :
        /\ Makes(q)' = Makes(q) /\ seg'[q] = seg[q]
        /\ pc'[q] = pc[q] /\ mySize'[q] = mySize[q]
  BY <1>1 DEF Makes
<1>3. ~ Makes(p)' /\ pc'[p] = "down"
  BY <1>1 DEF Makes
<1>4. Sized'
  BY <1>1, <1>2, <1>3 DEF Sized, Making
<1>5. Owed'
  BY <1>1, <1>2 DEF Owed
<1> QED
  BY <1>4, <1>5

LEMMA CreateSized ==
  ASSUME FreshInv, Sized, NEW p \in Procs, Create(p)
  PROVE  Sized' /\ Owed'
<1>1. /\ created' = created + 1 /\ key' = created' /\ created < MaxSegments
      /\ segsz' = [segsz EXCEPT ![created'] = mySize[p]]
      /\ pc' = [pc EXCEPT ![p] = "attach"] /\ seg' = [seg EXCEPT ![p] = created']
      /\ bNewCreate' = [bNewCreate EXCEPT ![p] = TRUE]
      /\ UNCHANGED <<m_nSize, mySize>>
      /\ pc \in [Procs -> Labels] /\ bNewCreate \in [Procs -> BOOLEAN]
      /\ seg \in [Procs -> 0 .. created] /\ mySize \in [Procs -> Nat]
  BY DEF Create, Goto, rings, FreshInv, Types
<1>2. created' \in Segments /\ created \in Nat
  BY <1>1, SharedRingAssumption DEF FreshInv, Types, Segments
<1>3. m_nSize[created'] = 0
  BY <1>1, <1>2 DEF FreshInv, Zeros
<1>4. \A q \in Procs \ {p} :
        Makes(q)' = Makes(q) /\ seg'[q] = seg[q] /\ pc'[q] = pc[q] /\ seg[q] # created'
  BY <1>1, <1>2 DEF Makes
<1>5. Makes(p)' /\ seg'[p] = created' /\ segsz'[created'] = mySize[p]
  BY <1>1, <1>2 DEF Makes, Making, Sized
<1>6. segsz' \in [Segments -> Nat] /\ \A s \in Segments : s # created' => segsz'[s] = segsz[s]
  BY <1>1 DEF Sized
<1>7. \A q \in Procs \ {p} : segsz'[seg'[q]] = segsz[seg[q]]
  BY <1>1, <1>4 DEF Sized
<1>8. \A s \in Segments : m_nSize'[s] \in {0, segsz'[s]}
  BY <1>1, <1>3, <1>6 DEF Sized
<1>9. mySize[p] >= mySize[p]
  BY <1>1
<1>10. Sized'
  BY <1>1, <1>4, <1>5, <1>6, <1>7, <1>8, <1>9 DEF Sized
<1>11. Owed'
  BY <1>1, <1>5 DEF Owed
<1> QED
  BY <1>10, <1>11

LEMMA NextSized == FreshInv /\ Sized /\ Owed /\ [Next]_vars => Sized' /\ Owed'
<1> SUFFICES ASSUME FreshInv, Sized, Owed, [Next]_vars PROVE Sized' /\ Owed'
  OBVIOUS
<1>1. ASSUME NEW p \in Procs, Start(p) PROVE Sized' /\ Owed'
  <2>1. /\ pc[p] = "down" /\ pc' = [pc EXCEPT ![p] = "excl"]
        /\ mySize' = [mySize EXCEPT ![p] = iShmSize]
        /\ UNCHANGED <<key, segsz, m_nSize, seg, bNewCreate, torn>>
        /\ pc \in [Procs -> Labels] /\ mySize \in [Procs -> Nat]
    BY <1>1 DEF Start, Goto, system, rings, FreshInv, Types
  <2>2. \A q \in Procs : Makes(q)' = Makes(q) /\ (Makes(q) => q # p)
    BY <2>1 DEF Makes, Making
  <2>3. Sized'
    BY <2>1, <2>2 DEF Sized, Making
  <2>4. Owed'
    BY <2>1, <2>2 DEF Owed
  <2> QED
    BY <2>3, <2>4
<1>2. ASSUME NEW p \in Procs, Fail(p), ~ Makes(p) \/ seg[p] # key
      PROVE  Sized' /\ Owed'
  BY <1>2, GoneSized DEF Fail
<1>3. ASSUME NEW p \in Procs, Exit(p) \/ Kill(p) PROVE Sized' /\ Owed'
  <2>1. CASE Exit(p)
    <3>1. ~ Makes(p)
      BY <2>1 DEF Exit, Makes, Making
    <3> QED
      BY <2>1, <3>1, GoneSized DEF Exit
  <2>2. CASE Kill(p)
    BY <2>2, GoneSized DEF Kill, Makes
  <2> QED
    BY <1>3, <2>1, <2>2
<1>4. ASSUME NEW p \in Procs,
             Excl(p) \/ Open(p) \/ OpenAny(p) \/ Stat(p) \/ Remove(p) \/ Recreate(p)
      PROVE  Sized' /\ Owed'
  <2>1. pc[p] \in Finding /\ ~ bNewCreate[p] /\ ~ Makes(p)
    BY <1>4 DEF Finding, FreshInv, Underway, Makes, Excl, Open, OpenAny, Stat, Remove,
                Recreate
  <2>2. ASSUME NEW label \in Finding, Go(p, label) PROVE Sized' /\ Owed'
    <3>1. label \in Labels /\ label \notin Making \cup {"check"}
      BY DEF Labels, Starting, Finding, Making
    <3> QED
      BY <2>1, <2>2, <3>1, MoveSized DEF Go, Goto, system, rings, locals
  <2>3. ASSUME NEW label \in {"attach", "stat"}, Found(p, label), key # 0,
               label = "attach" => segsz[key] >= mySize[p]
        PROVE  Sized' /\ Owed'
    <3>1. /\ pc' = [pc EXCEPT ![p] = label] /\ seg' = [seg EXCEPT ![p] = key]
          /\ UNCHANGED <<key, segsz, m_nSize, mySize, bNewCreate, torn>>
          /\ pc \in [Procs -> Labels] /\ seg \in [Procs -> 0 .. created]
      BY <2>3 DEF Found, Goto, system, rings, FreshInv, Types
    <3>2. \A q \in Procs : Makes(q)' = Makes(q) /\ (Makes(q) => q # p)
      BY <2>1, <3>1 DEF Makes
    <3>3. Sized'
      BY <2>3, <3>1, <3>2 DEF Sized, Making
    <3>4. Owed'
      BY <3>1, <3>2 DEF Owed
    <3> QED
      BY <3>3, <3>4
  <2>4. CASE Excl(p) \/ Recreate(p)
    BY <2>1, <2>2, <2>4, <1>2, CreateSized DEF Excl, Recreate, Finding
  <2>5. CASE Open(p) \/ OpenAny(p)
    BY <2>1, <2>2, <2>3, <2>5, <1>2 DEF Open, OpenAny, Finding
  <2>6. CASE Stat(p)
    BY <2>1, <2>2, <2>6, <1>2 DEF Stat, Finding
  <2>7. CASE Remove(p)
    <3>1. CASE Fail(p)
      BY <2>1, <3>1, <1>2
    <3>2. CASE ~ Fail(p)
      <4>1. /\ key' \in {0, key} /\ pc' = [pc EXCEPT ![p] = "recreate"]
            /\ UNCHANGED <<segsz, m_nSize, mySize, seg, bNewCreate, torn>>
        BY <2>7, <3>2 DEF Remove, Goto, rings, locals
      <4>2. "recreate" \in Labels /\ "recreate" \notin Making \cup {"check"}
        BY DEF Labels, Starting, Finding, Making
      <4> QED
        BY <2>1, <4>1, <4>2, MoveSized
    <3> QED
      BY <3>1, <3>2
  <2> QED
    BY <1>4, <2>4, <2>5, <2>6, <2>7
<1>5. ASSUME NEW p \in Procs, InitSize(p) PROVE Sized' /\ Owed'
  <2>1. /\ pc[p] = "size" /\ pc' = [pc EXCEPT ![p] = "up"]
        /\ m_nSize' = [m_nSize EXCEPT ![seg[p]] = mySize[p]]
        /\ UNCHANGED <<key, segsz, mySize, seg, bNewCreate, torn>>
        /\ pc \in [Procs -> Labels] /\ m_nSize \in [Segments -> Nat]
    BY <1>5 DEF InitSize, Goto, system, locals, FreshInv, Types
  <2>2. Makes(p) /\ mySize[p] # 0 /\ seg[p] \in Segments
    BY <2>1, SharedRingAssumption DEF FreshInv, Underway, Types, Makes, Making, Segments
  <2>3. \A q \in Procs : Makes(q)' = (Makes(q) /\ q # p)
    BY <2>1 DEF Makes, Making
  <2>4. \A s \in Segments : m_nSize'[s] \in {0, segsz[s]}
    BY <2>1, <2>2 DEF Sized
  <2>5. Sized'
    BY <2>1, <2>3, <2>4 DEF Sized, Making
  <2>6. Owed'
    <3>1. CASE seg[p] = key
      <4>1. m_nSize'[key'] # 0
        BY <2>1, <2>2, <3>1
      <4> QED
        BY <4>1 DEF Owed
    <3>2. CASE seg[p] # key
      <4>1. m_nSize'[key] = m_nSize[key]
        BY <2>1, <3>2
      <4>2. \A q \in Procs : Makes(q) /\ seg[q] = key => Makes(q)' /\ seg'[q] = key
        BY <2>1, <2>3, <3>2
      <4> QED
        BY <2>1, <4>1, <4>2 DEF Owed
    <3> QED
      BY <3>1, <3>2
  <2> QED
    BY <2>5, <2>6
<1>6. ASSUME NEW p \in Procs,
             \/ Attach(p) \/ LockGet(p) \/ LockAttach(p) \/ LockStat(p) \/ InitLock(p)
             \/ InitHead(p) \/ Check(p)
      PROVE  Sized' /\ Owed'
  <2>1. CASE Fail(p)
    <3>1. ~ Makes(p) \/ seg[p] # key
      <4>1. Fail(p) => pc'[p] = "down"
        BY DEF Fail, Gone, Goto, FreshInv, Types
      <4>2. CASE Attach(p)
        <5>1. ~ Exists(seg[p])
          BY <2>1, <4>1, <4>2 DEF Attach, Go, Goto, FreshInv, Types
        <5> QED
          BY <5>1 DEF Exists
      <4>3. CASE Check(p)
        BY <4>3 DEF Check, Makes, Making
      <4>4. CASE ~ (Attach(p) \/ Check(p))
        <5>1. pc'[p] # "down"
          BY <1>6, <4>4 DEF LockGet, LockAttach, LockStat, InitLock, InitHead, AfterLock,
                            Go, Goto, FreshInv, Types
        <5> QED
          BY <2>1, <4>1, <5>1
      <4> QED
        BY <4>2, <4>3, <4>4
    <3> QED
      BY <2>1, <3>1, <1>2
  <2>2. CASE ~ Fail(p)
    <3>1. PICK label \in Past :
            /\ pc[p] \in Making \cup {"check"} /\ pc' = [pc EXCEPT ![p] = label]
            /\ bNewCreate[p] => (label \in Making <=> pc[p] \in Making)
            /\ UNCHANGED <<key, segsz, m_nSize, mySize, seg, bNewCreate, torn>>
      BY <1>6, <2>2 DEF Attach, LockGet, LockAttach, LockStat, InitLock, InitHead,
           Check, AfterLock, Go, Goto, system, rings, locals, Past, Making
    <3>2. label \in Labels
      BY DEF Past, Labels, Starting
    <3> QED
      BY <3>1, <3>2, MoveSized
  <2> QED
    BY <2>1, <2>2
<1>7. ASSUME NEW p \in Procs, Lock(p) \/ Retry(p) \/ ReadEnd(p) \/ Append(p)
      PROVE  Sized' /\ Owed'
  BY <1>7 DEF Lock, Retry, ReadEnd, Append, Nothing, system, rings, Sized, Owed, Makes
<1>8. CASE Edit \/ UNCHANGED vars
  BY <1>8 DEF Edit, vars, system, rings, locals, Sized, Owed, Makes
<1> QED
  BY <1>1, <1>3, <1>4, <1>5, <1>6, <1>7, <1>8 DEF Next, Running, StartStep

-----------------------------------------------------------------------------
(* The lock.                                                               *)

(* Only who is up uses it, and only who holds it has read the end of the   *)
(* data; whoever is attached to it knows that it was created.              *)
Users ==
  /\ LockLow
  /\ iFirstCreate \in [Procs -> BOOLEAN]
  /\ \A p \in Procs :
       /\ at[p] # "out" => pc[p] = "up"
       /\ myEnd[p] # -1 => at[p] = "in"
       /\ pc[p] \in OnLock \cup {"lockAttach"} => lockCreated

(* Who is about to initialise it.                                          *)
Initialises(p) ==
  \/ pc[p] = "lockInit"
  \/ iFirstCreate[p] /\ pc[p] \in {"lockAttach", "lockStat"}

InitialisesAlone ==
  \A p, q \in Procs : Initialises(p) /\ q # p => pc[q] = "down"

EndIsRead == \A p \in Procs : myEnd[p] # -1 => myEnd[p] = m_nEnd[seg[p]]

Kept == overlapped \/
  (InitialisesAlone /\ NoneInWhenFree /\ MutualExclusion /\ EndIsRead)

LockSide == Users /\ Kept

(* As long as the starts do not overlap, a start that meets nobody up is   *)
(* alone.                                                                  *)
LEMMA Alone ==
  ASSUME FreshInv, Together, ~ overlapped, NEW p \in Procs, pc[p] \in Starting,
         \A q \in Procs : pc[q] # "up"
  PROVE  \A q \in Procs : q # p => pc[q] = "down"
  BY DEF Together, OneStarts, FreshInv, Types, Labels

(* A step of a start that leaves the lock, and the end of every ring that  *)
(* somebody works on, as they are.                                         *)
LEMMA MoveLock ==
  ASSUME FreshInv, LockSide, NEW p \in Procs, NEW label \in Starting \cup {"up"},
         pc[p] \in Starting, pc' = [pc EXCEPT ![p] = label],
         label \in OnLock => pc[p] \in OnLock \cup {"lockAttach"},
         label # "lockAttach",
         label = "lockInit" \/ (iFirstCreate[p] /\ label = "lockStat") =>
           overlapped \/ \A q \in Procs : q # p => pc[q] = "down",
         \A q \in Procs : pc[q] = "up" => seg'[q] = seg[q] /\ m_nEnd'[seg[q]] = m_nEnd[seg[q]],
         UNCHANGED <<lockVars, lockCreated, iFirstCreate, myEnd, overlapped>>
  PROVE  LockSide'
<1>1. pc \in [Procs -> Labels]
  BY DEF FreshInv, Types
<1>2. LockLow'
  BY DEF LockSide, Users, LockLow, LockTypeOK, LowByWaiting, Waiting, lockVars
<1>3. at[p] = "out" /\ myEnd[p] = -1
  BY DEF LockSide, Users, Starting, Finding, Making
<1>4. Users'
  BY <1>1, <1>2, <1>3 DEF LockSide, Users, lockVars
<1>5. ASSUME ~ overlapped PROVE InitialisesAlone'
  BY <1>1, <1>5 DEF LockSide, Kept, InitialisesAlone, Initialises, Starting, Finding, Making
<1>6. ASSUME ~ overlapped PROVE EndIsRead'
  BY <1>6 DEF LockSide, Kept, Users, EndIsRead
<1>7. ASSUME ~ overlapped PROVE NoneInWhenFree' /\ MutualExclusion'
  BY <1>7 DEF LockSide, Kept, NoneInWhenFree, MutualExclusion, lockVars
<1> QED
  BY <1>4, <1>5, <1>6, <1>7 DEF LockSide, Kept

(* A process that goes takes no part any more.                             *)
LEMMA GoneLock ==
  ASSUME FreshInv, LockSide, NEW p \in Procs, Gone(p), LockLow',
         at' = [at EXCEPT ![p] = "out"], slock' = slock
  PROVE  LockSide'
<1>1. /\ pc' = [pc EXCEPT ![p] = "down"] /\ seg' = [seg EXCEPT ![p] = 0]
      /\ myEnd' = [myEnd EXCEPT ![p] = -1]
      /\ iFirstCreate' = [iFirstCreate EXCEPT ![p] = FALSE]
      /\ UNCHANGED <<lockCreated, m_nEnd>>
      /\ overlapped' = (overlapped /\ \E q \in Procs \ {p} : pc[q] # "down")
      /\ pc \in [Procs -> Labels] /\ myEnd \in [Procs -> -1 .. Cap]
      /\ at \in [Procs -> {"out", "retry", "spin", "in"}]
  BY DEF Gone, Goto, system, rings, FreshInv, Types, LockSide, Users, LockLow, LockTypeOK
<1>2. Users'
  BY <1>1 DEF LockSide, Users, OnLock
<1>3. \A q \in Procs \ {p} :
        /\ pc'[q] = pc[q] /\ at'[q] = at[q] /\ myEnd'[q] = myEnd[q] /\ seg'[q] = seg[q]
        /\ iFirstCreate'[q] = iFirstCreate[q]
  BY <1>1
<1>4. pc'[p] = "down" /\ at'[p] = "out" /\ myEnd'[p] = -1
  BY <1>1
<1>5. CASE ~ overlapped
  <2>0. InitialisesAlone /\ NoneInWhenFree /\ MutualExclusion /\ EndIsRead
    BY <1>5 DEF LockSide, Kept
  <2>1. InitialisesAlone'
    BY <2>0, <1>1, <1>3, <1>4 DEF InitialisesAlone, Initialises
  <2>2. NoneInWhenFree' /\ MutualExclusion'
    BY <2>0, <1>3, <1>4 DEF NoneInWhenFree, MutualExclusion
  <2>3. EndIsRead'
    BY <2>0, <1>1, <1>3, <1>4 DEF EndIsRead
  <2> QED
    BY <1>2, <2>1, <2>2, <2>3 DEF LockSide, Kept
<1>6. CASE overlapped /\ ~ overlapped'
  <2>1. \A q \in Procs : pc'[q] = "down"
    BY <1>1, <1>4, <1>6
  <2>2. \A q \in Procs : at'[q] = "out" /\ myEnd'[q] = -1
    BY <1>2, <2>1 DEF Users
  <2> QED
    BY <1>2, <2>1, <2>2 DEF LockSide, Kept, InitialisesAlone, Initialises,
                            NoneInWhenFree, MutualExclusion, EndIsRead
<1> QED
  BY <1>2, <1>5, <1>6 DEF LockSide, Kept

LEMMA AppendLock ==
  ASSUME FreshInv, LockSide, NEW p \in Procs, Lock(p) \/ Retry(p) \/ ReadEnd(p) \/ Append(p)
  PROVE  LockSide'
<1>0. /\ pc[p] = "up"
      /\ UNCHANGED <<pc, seg, lockCreated, iFirstCreate, overlapped>>
      /\ at \in [Procs -> {"out", "retry", "spin", "in"}]
      /\ myEnd \in [Procs -> -1 .. Cap] /\ LockLow
  BY DEF Lock, Retry, ReadEnd, Append, Nothing, system, FreshInv, Types, LockSide,
         Users, LockLow, LockTypeOK
<1>1. ASSUME ~ overlapped
      PROVE  InitialisesAlone' /\ NoneInWhenFree /\ MutualExclusion /\ EndIsRead
  BY <1>0, <1>1 DEF LockSide, Kept, InitialisesAlone, Initialises
<1>2. CASE Lock(p)
  <2>1. LockLow' /\ at' = [at EXCEPT ![p] = IF slock > 0 THEN "in" ELSE "spin"]
    BY <1>0, <1>2, DecbLow DEF Lock
  <2>2. at[p] # "in" /\ UNCHANGED <<myEnd, m_nEnd>>
    BY <1>2 DEF Lock, Decb, rings
  <2>3. Users'
    BY <1>0, <2>1, <2>2 DEF LockSide, Users
  <2>4. ASSUME ~ overlapped PROVE NoneInWhenFree' /\ MutualExclusion'
    BY <1>0, <1>1, <1>2, <2>4, DecbExcludes DEF Lock
  <2>5. ASSUME ~ overlapped PROVE EndIsRead'
    BY <1>0, <1>1, <2>2, <2>5 DEF EndIsRead
  <2> QED
    BY <1>0, <1>1, <2>3, <2>4, <2>5 DEF LockSide, Kept
<1>3. CASE Retry(p)
  <2>1. LockLow'
    BY <1>0, <1>3, SeeFreeLow DEF Retry
  <2>2. at[p] = "spin" /\ at' = [at EXCEPT ![p] = "retry"] /\ UNCHANGED <<myEnd, m_nEnd>>
    BY <1>3 DEF Retry, SeeFree, rings
  <2>3. Users'
    BY <1>0, <2>1, <2>2 DEF LockSide, Users
  <2>4. ASSUME ~ overlapped PROVE NoneInWhenFree' /\ MutualExclusion'
    BY <1>0, <1>1, <1>3, <2>4, OthersExclude DEF Retry
  <2>5. ASSUME ~ overlapped PROVE EndIsRead'
    BY <1>0, <1>1, <2>2, <2>5 DEF EndIsRead
  <2> QED
    BY <1>0, <1>1, <2>3, <2>4, <2>5 DEF LockSide, Kept
<1>4. CASE ReadEnd(p)
  <2>1. /\ at[p] = "in" /\ myEnd' = [myEnd EXCEPT ![p] = m_nEnd[seg[p]]]
        /\ UNCHANGED <<slock, at, kills, m_nEnd>>
    BY <1>4 DEF ReadEnd, lockVars, rings
  <2>2. LockLow'
    BY <1>0, <2>1 DEF LockLow, LockTypeOK, LowByWaiting, Waiting
  <2>3. Users'
    BY <1>0, <2>1, <2>2 DEF LockSide, Users
  <2>4. ASSUME ~ overlapped PROVE NoneInWhenFree' /\ MutualExclusion'
    BY <1>1, <2>1, <2>4 DEF NoneInWhenFree, MutualExclusion
  <2>5. ASSUME ~ overlapped PROVE EndIsRead'
    BY <1>0, <1>1, <2>1, <2>5 DEF EndIsRead
  <2> QED
    BY <1>0, <1>1, <2>3, <2>4, <2>5 DEF LockSide, Kept
<1>5. CASE Append(p)
  <2>1. /\ at[p] = "in" /\ at' = [at EXCEPT ![p] = "out"]
        /\ myEnd' = [myEnd EXCEPT ![p] = -1]
    BY <1>5 DEF Append, Unlock
  <2>2. LockLow'
    BY <1>0, <1>5, UnlockLow DEF Append
  <2>3. Users'
    BY <1>0, <2>1, <2>2 DEF LockSide, Users
  <2>4. ASSUME ~ overlapped PROVE NoneInWhenFree' /\ MutualExclusion'
    BY <1>0, <1>1, <1>5, <2>4, OthersExclude DEF Append
  <2>5. ASSUME ~ overlapped PROVE \A q \in Procs : myEnd'[q] = -1
    BY <1>0, <1>1, <2>1, <2>5 DEF MutualExclusion, LockSide, Users
  <2>6. ASSUME ~ overlapped PROVE EndIsRead'
    BY <2>5, <2>6 DEF EndIsRead
  <2> QED
    BY <1>0, <1>1, <2>3, <2>4, <2>6 DEF LockSide, Kept
<1> QED
  BY <1>2, <1>3, <1>4, <1>5

LEMMA LockGetLock ==
  ASSUME FreshInv, Together, LockSide, NEW p \in Procs, LockGet(p)
  PROVE  LockSide'
<1>0. /\ pc[p] = "lockGet" /\ pc' = [pc EXCEPT ![p] = "lockAttach"] /\ lockCreated' = TRUE
      /\ iFirstCreate' = [iFirstCreate EXCEPT ![p] = ~ lockCreated]
      /\ slock' = IF lockCreated THEN slock ELSE 0
      /\ UNCHANGED <<at, kills, m_nEnd, seg, myEnd, overlapped>>
      /\ pc \in [Procs -> Labels] /\ LockLow
  BY DEF LockGet, Goto, rings, FreshInv, Types, LockSide, Users
<1>1. \A q \in Procs \ {p} : pc'[q] = pc[q] /\ iFirstCreate'[q] = iFirstCreate[q]
  BY <1>0
<1>2. at[p] = "out" /\ myEnd[p] = -1 /\ pc'[p] = "lockAttach"
  BY <1>0 DEF LockSide, Users
<1>3. ASSUME ~ overlapped, NEW q \in Procs \ {p} PROVE ~ Initialises(q)'
  BY <1>0, <1>1, <1>3 DEF LockSide, Kept, InitialisesAlone, Initialises
<1>4. ASSUME ~ overlapped PROVE EndIsRead'
  BY <1>0, <1>4 DEF LockSide, Kept, EndIsRead
<1>5. CASE lockCreated
  <2>1. slock' = slock
    BY <1>0, <1>5
  <2>2. LockLow'
    BY <1>0, <2>1 DEF LockLow, LockTypeOK, LowByWaiting, Waiting
  <2>3. Users'
    BY <1>0, <1>2, <1>5, <2>2 DEF LockSide, Users
  <2>4. ~ iFirstCreate'[p]
    <3>1. iFirstCreate' = [iFirstCreate EXCEPT ![p] = FALSE]
      BY <1>0, <1>5, Zenon
    <3> QED
      BY <3>1 DEF LockSide, Users
  <2>5. ASSUME ~ overlapped PROVE InitialisesAlone'
    <3>1. CASE ~ Initialises(p)'
      BY <1>3, <2>5, <3>1 DEF InitialisesAlone
    <3>2. CASE Initialises(p)'
      BY <1>2, <2>4, <2>5, <3>2 DEF Initialises
    <3> QED
      BY <3>1, <3>2
  <2>6. ASSUME ~ overlapped PROVE NoneInWhenFree' /\ MutualExclusion'
    BY <1>0, <2>1, <2>6 DEF LockSide, Kept, NoneInWhenFree, MutualExclusion
  <2> QED
    BY <1>4, <2>3, <2>5, <2>6, <1>0 DEF LockSide, Kept
<1>6. CASE ~ lockCreated
  <2>1. \A q \in Procs : pc[q] # "up" /\ at[q] = "out"
    BY <1>6 DEF LockSide, Users, OnLock
  <2>2. slock' = 0
    BY <1>0, <1>6
  <2>3. LockTypeOK'
    BY <1>0, <2>2, SpinLockAssumption DEF LockLow, LockTypeOK, Byte
  <2>4. LockLow'
    BY <2>2, <2>3, NotNegativeLow
  <2>5. Users'
    BY <1>0, <2>1, <2>4 DEF LockSide, Users
  <2>6. ASSUME ~ overlapped PROVE InitialisesAlone'
    <3>1. \A q \in Procs : q # p => pc'[q] = "down"
      BY <1>0, <2>1, <2>6, Alone DEF Starting, Making
    <3> QED
      BY <1>3, <2>6, <3>1 DEF InitialisesAlone
  <2>7. NoneInWhenFree' /\ MutualExclusion'
    BY <1>0, <2>1, <2>2 DEF NoneInWhenFree, MutualExclusion
  <2> QED
    BY <1>0, <1>4, <2>5, <2>6, <2>7 DEF LockSide, Kept
<1> QED
  BY <1>5, <1>6

(* spin_lock_init: with nobody else there, if the starts do not overlap.   *)
LEMMA InitLockLock ==
  ASSUME FreshInv, Together, LockSide, NEW p \in Procs, InitLock(p)
  PROVE  LockSide'
<1>0. /\ pc[p] = "lockInit" /\ pc' = [pc EXCEPT ![p] = AfterLock(p)] /\ slock' = 1
      /\ AfterLock(p) \in {"head", "check"}
      /\ UNCHANGED <<at, kills, lockCreated, m_nEnd, seg, iFirstCreate, myEnd, overlapped>>
      /\ pc \in [Procs -> Labels] /\ LockLow
  BY DEF InitLock, AfterLock, Goto, system, rings, locals, FreshInv, Types, LockSide, Users
<1>1. LockTypeOK'
  BY <1>0, SpinLockAssumption DEF LockLow, LockTypeOK, Byte
<1>2. LockLow'
  BY <1>0, <1>1, NotNegativeLow
<1>3. Users'
  BY <1>0, <1>2 DEF LockSide, Users, OnLock
<1>4. ASSUME ~ overlapped PROVE InitialisesAlone' /\ NoneInWhenFree' /\ MutualExclusion' /\ EndIsRead'
  <2>1. \A q \in Procs : q # p => pc[q] = "down"
    BY <1>0, <1>4 DEF LockSide, Kept, InitialisesAlone, Initialises
  <2>2. \A q \in Procs : at[q] = "out"
    BY <1>0, <2>1 DEF LockSide, Users
  <2>3. InitialisesAlone'
    BY <1>0, <2>1 DEF InitialisesAlone, Initialises
  <2>4. NoneInWhenFree' /\ MutualExclusion'
    BY <1>0, <2>2 DEF NoneInWhenFree, MutualExclusion
  <2>5. EndIsRead'
    BY <1>0, <1>4 DEF LockSide, Kept, EndIsRead
  <2> QED
    BY <2>3, <2>4, <2>5
<1> QED
  BY <1>0, <1>3, <1>4 DEF LockSide, Kept

LEMMA NextLock == FreshInv /\ Together /\ LockSide /\ [Next]_vars => LockSide'
<1> SUFFICES ASSUME FreshInv, Together, LockSide, [Next]_vars PROVE LockSide'
  OBVIOUS
<1>1. ASSUME NEW p \in Procs, Start(p) PROVE LockSide'
  <2>1. /\ pc[p] = "down" /\ pc' = [pc EXCEPT ![p] = "excl"]
        /\ UNCHANGED <<slock, at, kills, lockCreated, m_nEnd, seg, iFirstCreate, myEnd>>
        /\ overlapped' = (overlapped \/ \E q \in Procs : pc[q] \in Starting)
        /\ pc \in [Procs -> Labels]
    BY <1>1 DEF Start, Goto, lockVars, system, rings, FreshInv, Types
  <2>2. LockLow'
    BY <2>1 DEF LockSide, Users, LockLow, LockTypeOK, LowByWaiting, Waiting
  <2>3. Users'
    BY <2>1, <2>2 DEF LockSide, Users, OnLock
  <2>4. ASSUME ~ overlapped' PROVE Kept'
    <3>1. ~ overlapped /\ \A q \in Procs : pc[q] \notin Starting
      BY <2>1, <2>4
    <3>2. InitialisesAlone'
      BY <2>1, <3>1 DEF InitialisesAlone, Initialises, Starting, Making
    <3>3. NoneInWhenFree' /\ MutualExclusion' /\ EndIsRead'
      BY <2>1, <3>1 DEF LockSide, Kept, NoneInWhenFree, MutualExclusion, EndIsRead
    <3> QED
      BY <3>2, <3>3 DEF Kept
  <2> QED
    BY <2>3, <2>4 DEF LockSide, Kept
<1>2. ASSUME NEW p \in Procs, Fail(p), pc[p] # "up" PROVE LockSide'
  <2>1. UNCHANGED <<slock, at, kills>> /\ at[p] = "out"
    BY <1>2 DEF Fail, lockVars, LockSide, Users
  <2>2. LockLow'
    BY <2>1 DEF LockSide, Users, LockLow, LockTypeOK, LowByWaiting, Waiting
  <2>3. at' = [at EXCEPT ![p] = "out"]
    BY <2>1 DEF LockSide, Users, LockLow, LockTypeOK
  <2> QED
    BY <1>2, <2>1, <2>2, <2>3, GoneLock DEF Fail
<1>3. ASSUME NEW p \in Procs, Exit(p) PROVE LockSide'
  <2>1. UNCHANGED <<slock, at, kills>> /\ at[p] = "out"
    BY <1>3 DEF Exit, lockVars
  <2>2. LockLow'
    BY <2>1 DEF LockSide, Users, LockLow, LockTypeOK, LowByWaiting, Waiting
  <2>3. at' = [at EXCEPT ![p] = "out"]
    BY <2>1 DEF LockSide, Users, LockLow, LockTypeOK
  <2> QED
    BY <1>3, <2>1, <2>2, <2>3, GoneLock DEF Exit
<1>4. ASSUME NEW p \in Procs, Kill(p) PROVE LockSide'
  <2>1. LockLow' /\ slock' = slock /\ at' = [at EXCEPT ![p] = "out"]
    BY <1>4, KilledLow DEF Kill, Killed, LockSide, Users
  <2> QED
    BY <1>4, <2>1, GoneLock DEF Kill
<1>5. ASSUME NEW p \in Procs,
             \/ Excl(p) \/ Open(p) \/ OpenAny(p) \/ Stat(p) \/ Remove(p) \/ Recreate(p)
             \/ Attach(p) \/ Check(p)
      PROVE  LockSide'
  <2>1. pc[p] \in Finding \cup {"attach", "check"}
    BY <1>5 DEF Excl, Open, OpenAny, Stat, Remove, Recreate, Attach, Check, Finding
  <2>2. CASE Fail(p)
    BY <2>1, <2>2, <1>2 DEF Finding
  <2>3. CASE ~ Fail(p)
    <3>1. PICK label \in Finding \cup {"attach", "lockGet", "up"} :
            /\ pc' = [pc EXCEPT ![p] = label]
            /\ label = "up" => pc[p] = "check"
            /\ \A q \in Procs \ {p} : seg'[q] = seg[q]
            /\ UNCHANGED <<m_nEnd, lockVars, lockCreated, iFirstCreate, myEnd, overlapped>>
      <4>1. CASE Excl(p) \/ Recreate(p)
        BY <2>3, <4>1 DEF Excl, Recreate, Create, Go, Goto, lockVars, rings, system, locals,
                          Finding, FreshInv, Types
      <4>2. CASE Open(p) \/ OpenAny(p)
        BY <2>3, <4>2 DEF Open, OpenAny, Found, Go, Goto, lockVars, rings, system, locals,
                          Finding, FreshInv, Types
      <4>3. CASE Stat(p) \/ Attach(p) \/ Check(p)
        BY <2>3, <4>3 DEF Stat, Attach, Check, Go, Goto, lockVars, rings, system, locals,
                          Finding
      <4>4. CASE Remove(p)
        BY <2>3, <4>4 DEF Remove, Goto, lockVars, rings, system, locals, Finding
      <4> QED
        BY <1>5, <4>1, <4>2, <4>3, <4>4
    <3>2. /\ label \in Starting \cup {"up"} /\ pc[p] \in Starting /\ label # "lockAttach"
          /\ label \notin {"lockInit", "lockStat"}
          /\ label \in OnLock => label = "up"
      BY <2>1 DEF Starting, Finding, Making, OnLock
    <3>3. \A q \in Procs : pc[q] = "up" => seg'[q] = seg[q] /\ m_nEnd'[seg[q]] = m_nEnd[seg[q]]
      BY <2>1, <3>1 DEF Finding
    <3>4. label \in OnLock => pc[p] \in OnLock \cup {"lockAttach"}
      BY <3>1, <3>2 DEF OnLock
    <3> QED
      BY <3>1, <3>2, <3>3, <3>4, MoveLock
  <2> QED
    BY <2>2, <2>3
<1>6. ASSUME NEW p \in Procs, LockAttach(p) \/ LockStat(p) PROVE LockSide'
  <2>1. PICK label \in {"lockStat", "lockInit", "head", "check"} :
          /\ Go(p, label) /\ pc[p] \in {"lockAttach", "lockStat"}
          /\ label = "lockStat" => pc[p] = "lockAttach"
          /\ label = "lockInit" => pc[p] = "lockStat" /\ (LockAttached = {p} \/ iFirstCreate[p])
    BY <1>6 DEF LockAttach, LockStat, AfterLock
  <2>2. ASSUME ~ overlapped, label = "lockInit" \/ (iFirstCreate[p] /\ label = "lockStat")
        PROVE  \A q \in Procs : q # p => pc[q] = "down"
    <3>1. CASE iFirstCreate[p]
      BY <2>1, <2>2, <3>1 DEF LockSide, Kept, InitialisesAlone, Initialises
    <3>2. CASE ~ iFirstCreate[p]
      <4>1. LockAttached = {p} /\ pc[p] = "lockStat"
        BY <2>1, <2>2, <3>2
      <4>2. \A q \in Procs : pc[q] # "up"
        BY <4>1 DEF LockAttached, OnLock
      <4> QED
        BY <2>2, <4>1, <4>2, Alone DEF Starting, Making
    <3> QED
      BY <3>1, <3>2
  <2>3. /\ label \in Starting \cup {"up"} /\ pc[p] \in Starting /\ label # "lockAttach"
        /\ pc[p] \in OnLock \cup {"lockAttach"}
    BY <2>1 DEF Starting, Making, OnLock
  <2> QED
    BY <2>1, <2>2, <2>3, MoveLock DEF Go, Goto, lockVars, rings, system, locals
<1>7. ASSUME NEW p \in Procs, InitHead(p) PROVE LockSide'
  <2>1. /\ pc[p] = "head" /\ pc' = [pc EXCEPT ![p] = "size"]
        /\ m_nEnd' = [m_nEnd EXCEPT ![seg[p]] = 0]
        /\ UNCHANGED <<lockVars, lockCreated, seg, iFirstCreate, myEnd, overlapped>>
    BY <1>7 DEF InitHead, Goto, system, locals
  <2>2. m_nSize[seg[p]] = 0
    BY <2>1 DEF FreshInv, Underway, Zeros, Makes, Making
  <2>3. \A q \in Procs : pc[q] = "up" => m_nEnd'[seg[q]] = m_nEnd[seg[q]]
    BY <2>1, <2>2 DEF FreshInv, SizedWhenUp, Types
  <2>4. "size" \in Starting \cup {"up"} /\ pc[p] \in Starting /\ pc[p] \in OnLock
    BY <2>1 DEF Starting, Making, OnLock
  <2> QED
    BY <2>1, <2>3, <2>4, MoveLock
<1>8. ASSUME NEW p \in Procs, InitSize(p) PROVE LockSide'
  <2>1. /\ pc[p] = "size" /\ pc' = [pc EXCEPT ![p] = "up"]
        /\ UNCHANGED <<lockVars, lockCreated, seg, m_nEnd, iFirstCreate, myEnd, overlapped>>
    BY <1>8 DEF InitSize, Goto, system, locals
  <2>2. pc[p] \in Starting /\ pc[p] \in OnLock
    BY <2>1 DEF Starting, Making, OnLock
  <2> QED
    BY <2>1, <2>2, MoveLock
<1>9. CASE Edit \/ UNCHANGED vars
  BY <1>9 DEF Edit, vars, lockVars, system, rings, locals, LockSide, Users, Kept, LockLow,
              LockTypeOK, LowByWaiting, Waiting, InitialisesAlone, Initialises,
              NoneInWhenFree, MutualExclusion, EndIsRead
<1> QED
  BY <1>1, <1>3, <1>4, <1>5, <1>6, <1>7, <1>8, <1>9, LockGetLock, InitLockLock, AppendLock
  DEF Next, Running, StartStep

-----------------------------------------------------------------------------
(* The rest of the types.                                                  *)

Others ==
  /\ iShmSize \in Sizes /\ edits \in 0 .. MaxEdits
  /\ segsz \in [Segments -> Sizes \cup {0}]
  /\ m_nSize \in [Segments -> Sizes \cup {0}]
  /\ lockCreated \in BOOLEAN
  /\ mySize \in [Procs -> Sizes \cup {0}]
  /\ overlapped \in BOOLEAN /\ stuck \in BOOLEAN /\ torn \subseteq Segments

LEMMA NextOthers == FreshInv /\ Others /\ [Next]_vars => Others'
<1> SUFFICES ASSUME FreshInv, Others, [Next]_vars PROVE Others'
  OBVIOUS
<1>1. ASSUME NEW p \in Procs, Start(p) PROVE Others'
  BY <1>1 DEF Start, system, rings, Others
<1>2. ASSUME NEW p \in Procs, Gone(p), torn' \subseteq Segments PROVE Others'
  BY <1>2 DEF Gone, system, rings, Others
<1>3. ASSUME NEW p \in Procs, Fail(p) \/ Exit(p) PROVE Others'
  BY <1>2, <1>3 DEF Fail, Exit, Others
<1>4. ASSUME NEW p \in Procs, Kill(p) PROVE Others'
  <2>1. pc[p] \in Making => seg[p] \in Segments
    BY SMTT(30), SharedRingAssumption DEF FreshInv, Types, Underway, Segments
  <2> QED
    BY <1>2, <1>4, <2>1 DEF Kill, Others
<1>5. ASSUME NEW p \in Procs, Create(p) PROVE Others'
  BY <1>5 DEF Create, rings, Others
<1>6. ASSUME NEW p \in Procs, NEW label, Go(p, label) \/ Found(p, label) PROVE Others'
  BY <1>6 DEF Go, Found, system, rings, locals, Others
<1>7. ASSUME NEW p \in Procs, StartStep(p) PROVE Others'
  <2>1. CASE Excl(p) \/ Open(p) \/ OpenAny(p) \/ Stat(p) \/ Recreate(p)
    BY <2>1, <1>3, <1>5, <1>6 DEF Excl, Open, OpenAny, Stat, Recreate
  <2>2. CASE Remove(p)
    <3>1. CASE Fail(p)
      BY <3>1, <1>3
    <3>2. CASE ~ Fail(p)
      BY <2>2, <3>2 DEF Remove, rings, locals, Others
    <3> QED
      BY <3>1, <3>2
  <2>3. CASE Attach(p) \/ LockAttach(p) \/ LockStat(p) \/ Check(p)
    BY <2>3, <1>3, <1>6 DEF Attach, LockAttach, LockStat, Check
  <2>4. CASE LockGet(p) \/ InitLock(p) \/ InitHead(p)
    BY <2>4 DEF LockGet, InitLock, InitHead, system, rings, locals, Others
  <2>5. CASE InitSize(p)
    BY <2>5 DEF InitSize, system, locals, Others
  <2> QED
    BY <1>7, <2>1, <2>2, <2>3, <2>4, <2>5 DEF StartStep
<1>8. ASSUME NEW p \in Procs, Lock(p) \/ Retry(p) \/ ReadEnd(p) \/ Append(p)
      PROVE  Others'
  BY <1>8 DEF Lock, Retry, ReadEnd, Append, Nothing, system, rings, Others
<1>9. CASE Edit
  BY <1>9, SharedRingAssumption DEF Edit, rings, locals, Others
<1>10. CASE UNCHANGED vars
  BY <1>10 DEF vars, system, rings, locals, Others
<1> QED
  BY <1>1, <1>3, <1>4, <1>7, <1>8, <1>9, <1>10 DEF Next, Running

-----------------------------------------------------------------------------
RingInv == FreshInv /\ Together /\ Sized /\ Owed /\ LockSide /\ Others

LEMMA InitRing == Init => RingInv
<1> SUFFICES ASSUME Init PROVE RingInv
  OBVIOUS
<1>1. FreshInv
  BY InitFresh
<1>2. Together /\ Sized /\ Owed
  BY DEF Init, Together, OneStarts, OnKey, ReplacesAlone, Sized, Owed, Past, Starting,
         Finding, Making, Makes
<1>3. LockLow
  BY LockLowInit DEF Init
<1>4. LockSide
  BY <1>3 DEF Init, LockInit, LockSide, Users, Kept, OnLock, InitialisesAlone, Initialises,
              NoneInWhenFree, MutualExclusion, EndIsRead
<1>5. Others
  <2>1. edits \in 0 .. MaxEdits
    BY SharedRingAssumption DEF Init
  <2> QED
    BY <2>1 DEF Init, Others
<1> QED
  BY <1>1, <1>2, <1>4, <1>5 DEF RingInv

LEMMA NextRing == RingInv /\ [Next]_vars => RingInv'
  BY NextFresh, NextTogether, NextSized, NextLock, NextOthers DEF RingInv

LEMMA RingAlways == Spec => []RingInv
  BY InitRing, NextRing, PTL DEF Spec

(* Every variable of the start keeps its type.                             *)
THEOREM RingTypes == Spec => []TypeOK
<1>1. RingInv => TypeOK
  BY DEF RingInv, FreshInv, Types, LockSide, Users, LockLow, Others, TypeOK, Labels
<1> QED
  BY <1>1, RingAlways, PTL

(* The write lock excludes as long as no two starts overlap, for any       *)
(* number of processes that its byte admits, whoever is killed in it.      *)
THEOREM RingLockExcludes == Spec => []LockExcludes
<1>1. RingInv => LockExcludes
  BY DEF RingInv, LockSide, Kept, LockExcludes
<1> QED
  BY <1>1, RingAlways, PTL

(* ... so an append publishes after the end it has read.                   *)
THEOREM RingNothingOverwritten == Spec => []NothingOverwritten
<1>1. RingInv => NothingOverwritten
  BY DEF RingInv, LockSide, Kept, EndIsRead, NothingOverwritten
<1> QED
  BY <1>1, RingAlways, PTL

(* As long as no two starts overlap, all who are up share the ring of the  *)
(* key, however often Size is edited and the segment replaced.             *)
THEOREM RingIsOne == Spec => []OneRing
<1>1. RingInv => OneRing
  BY DEF RingInv, Together, OnKey, Past, OneRing
<1> QED
  BY <1>1, RingAlways, PTL

(* An assertion of AttachMem fails for one of three reasons: Size was made *)
(* smaller, two starts overlap, or the ring's creator was killed.          *)
THEOREM RingStartable == Spec => []Startable
<1>1. RingInv => Startable
  <2> SUFFICES ASSUME RingInv, NEW p \in Procs, pc[p] = "check", m_nSize[seg[p]] = 0,
                      ~ overlapped
               PROVE  seg[p] \in torn
    <3>1. ASSUME RingInv, NEW p \in Procs, pc[p] = "check"
          PROVE  m_nSize[seg[p]] >= mySize[p] \/ m_nSize[seg[p]] = 0
      <4>1. seg[p] \in Segments
        BY SMTT(30), <3>1, SharedRingAssumption DEF RingInv, FreshInv, Types, Underway, Segments
      <4>2. m_nSize[seg[p]] \in {0, segsz[seg[p]]} /\ segsz[seg[p]] >= mySize[p]
        BY <3>1, <4>1 DEF RingInv, Sized
      <4> QED
        BY <4>2
    <3> QED
      BY <3>1 DEF Startable
  <2>1. seg[p] = key /\ key # 0
    BY DEF RingInv, Together, OnKey, Past, FreshInv, Underway
  <2>2. \A q \in Procs : ~ Makes(q)
    BY DEF RingInv, Together, OneStarts, Makes, Starting, Making
  <2> QED
    BY <2>1, <2>2 DEF RingInv, Owed
<1> QED
  BY <1>1, RingAlways, PTL
=============================================================================
