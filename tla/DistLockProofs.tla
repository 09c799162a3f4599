---------------------------- MODULE DistLockProofs ----------------------------
(***************************************************************************)
(* The distributed lock excludes, for any number of lock objects and any   *)
(* bound on readers, as long as no key expired under a holder and no unlock*)
(* was done unheard.                                                       *)
(*                                                                         *)
(* The key names nobody, so that a writer is alone must be seen from its   *)
(* value: -1 is one writer at most, and n is n readers at most.  Fewer may *)
(* hold the lock than the key says - who died, or never heard of the lock, *)
(* is still counted - and never more.                                      *)
(***************************************************************************)
EXTENDS DistLock, FiniteSetTheorems, TLAPS

(* With no fault so far the key tells of every holder.                     *)
KeyCountsHolders ==
    faults = {} =>
        /\ key = -1 => /\ Readers = {}
                       /\ \A l, m \in Writers : l = m
        /\ key >= 0 => /\ Writers = {}
                       /\ IsFiniteSet(Readers)
                       /\ Cardinality(Readers) <= key

LockInv == TypeOK /\ KeyCountsHolders

-----------------------------------------------------------------------------
(* Who holds the lock is a reader or a writer.                             *)
LEMMA HoldersAre ==
    ASSUME TypeOK
    PROVE  /\ Holders = Readers \cup Writers
           /\ \A l \in Locks : lastOp[l] \in {"none", "read", "write"}
BY DEF TypeOK, Holders, Readers, Writers

(* A lock object that lets go is no reader and no writer any more.         *)
LEMMA LetsGo ==
    ASSUME TypeOK, NEW l \in Locks, lastOp' = [lastOp EXCEPT ![l] = "none"]
    PROVE  /\ Readers' = Readers \ {l}
           /\ Writers' = Writers \ {l}
BY DEF TypeOK, Readers, Writers

(* A lock object that held nothing takes the lock.                         *)
LEMMA Takes ==
    ASSUME TypeOK, NEW l \in Locks, NEW mode \in {"read", "write"},
           lastOp[l] = "none", lastOp' = [lastOp EXCEPT ![l] = mode]
    PROVE  /\ l \notin Readers
           /\ Readers' = IF mode = "read" THEN Readers \cup {l} ELSE Readers
           /\ Writers' = IF mode = "write" THEN Writers \cup {l} ELSE Writers
BY DEF TypeOK, Readers, Writers

(* A key that is set has a time to live.                                   *)
LEMMA SetKeyLives ==
    ASSUME TypeOK, NEW mode \in {"read", "write"}, Grants(mode), SetKey(mode)
    PROVE  /\ key' \in -1..MaxReaders
           /\ mortal' = (key' # 0)
<1>1. key' \in -1..MaxReaders /\ key' # 0
  BY LockAssumption DEF LockAssumption, TypeOK, Grants, SetKey
<1>2. mortal' = TRUE
  BY DEF SetKey
<1> QED
  BY <1>1, <1>2

(* A key that is counted back keeps its time to live, unless it is deleted.*)
LEMMA ClearKeyLives ==
    ASSUME TypeOK, NEW mode \in {"read", "write"}, Accepts(mode), ClearKey(mode)
    PROVE  /\ key' \in -1..MaxReaders
           /\ mortal' = (key' # 0)
<1>1. key' \in -1..MaxReaders
  BY LockAssumption DEF LockAssumption, TypeOK, Accepts, ClearKey
<1>2. key' # 0 <=> key > 1
  BY DEF TypeOK, Accepts, ClearKey
<1>3. key > 1 => key # 0
  OBVIOUS
<1>4. mortal' = (mortal /\ key > 1) /\ mortal = (key # 0)
  BY DEF ClearKey, TypeOK
<1> QED
  BY <1>1, <1>2, <1>3, <1>4, Zenon

(* TypeOK: the key stays within its bound and has a time to live exactly   *)
(* while it is there, whatever the calls and their answers are.            *)
LEMMA StepKeepsTypes == TypeOK /\ [Next]_vars => TypeOK'
<1> SUFFICES ASSUME TypeOK, [Next]_vars PROVE TypeOK'
  OBVIOUS
<1> DEFINE KeyIsRight == key \in -1..MaxReaders /\ mortal = (key # 0)
           RestIsRight == /\ lastOp \in [Locks -> {"none", "read", "write"}]
                          /\ answer \in [Locks -> {"none", "ok", "refused", "error"}]
                          /\ faults \subseteq {"expired", "lost"}
<1>1. KeyIsRight'
  <2>1. CASE UNCHANGED <<key, mortal>>
    BY <2>1 DEF TypeOK
  <2>2. ASSUME NEW l \in Locks, NEW mode \in Modes, Lock(l, mode) \/ LockLost(l, mode)
        PROVE  KeyIsRight'
    <3>1. mode \in {"read", "write"} /\ Grants(mode) /\ SetKey(mode)
      BY <2>2, LockAssumption DEF LockAssumption, Lock, LockLost
    <3> QED
      BY <3>1, SetKeyLives
  <2>3. ASSUME NEW l \in Locks, Unlock(l) \/ UnlockLost(l) PROVE KeyIsRight'
    <3>1. /\ lastOp[l] \in {"read", "write"}
          /\ Accepts(lastOp[l]) /\ ClearKey(lastOp[l])
      BY <2>3 DEF Unlock, UnlockLost, TypeOK
    <3> QED
      BY <3>1, ClearKeyLives
  <2>4. CASE Expire
    <3>1. key' = 0 /\ mortal' = FALSE
      BY <2>4 DEF Expire
    <3>2. 0 \in -1..MaxReaders
      BY LockAssumption DEF LockAssumption
    <3> QED
      BY <3>1, <3>2
  <2> QED
    BY <2>1, <2>2, <2>3, <2>4 DEF Next, Refused, CallFails, Crash, vars
<1>2. RestIsRight'
  <2> RestIsRight
    BY DEF TypeOK
  <2> USE LockAssumption DEF LockAssumption, Returns
  <2>1. ASSUME NEW l \in Locks, NEW mode \in Modes,
               Lock(l, mode) \/ Refused(l, mode) \/ LockLost(l, mode)
        PROVE  RestIsRight'
    BY <2>1 DEF Lock, Refused, LockLost
  <2>2. ASSUME NEW l \in Locks, Unlock(l) \/ UnlockLost(l) \/ CallFails(l) \/ Crash(l)
        PROVE  RestIsRight'
    BY <2>2 DEF Unlock, UnlockLost, CallFails, Crash
  <2>3. CASE Expire
    BY <2>3 DEF Expire
  <2>4. CASE UNCHANGED vars
    BY <2>4 DEF vars
  <2> QED
    BY <2>1, <2>2, <2>3, <2>4 DEF Next
<1> QED
  BY <1>1, <1>2 DEF TypeOK

(* At first there is no key.                                               *)
LEMMA InitTypes == Init => TypeOK
<1> SUFFICES ASSUME Init PROVE TypeOK
  OBVIOUS
<1>1. key = 0 /\ mortal = FALSE /\ 0 \in -1..MaxReaders
  BY LockAssumption DEF LockAssumption, Init
<1>2. mortal = (key # 0)
  BY <1>1
<1> QED
  BY <1>1, <1>2 DEF Init, TypeOK

(* TypeOK, of the lock.                                                    *)
THEOREM LockTypes == Spec => []TypeOK
BY InitTypes, StepKeepsTypes, PTL DEF Spec

(* A grant counts its holder: the key had nobody for a writer, no writer   *)
(* for a reader.                                                           *)
LEMMA LockKeeps ==
    ASSUME LockInv, NEW l \in Locks, NEW mode \in Modes, Lock(l, mode)
    PROVE  KeyCountsHolders'
<1> SUFFICES ASSUME faults = {} PROVE KeyCountsHolders'
  BY DEF Lock, KeyCountsHolders
<1>1. mode \in {"read", "write"}
  BY LockAssumption DEF LockAssumption
<1>2. /\ l \notin Readers
      /\ Readers' = IF mode = "read" THEN Readers \cup {l} ELSE Readers
      /\ Writers' = IF mode = "write" THEN Writers \cup {l} ELSE Writers
  BY <1>1, Takes DEF Lock, LockInv
<1>3. CASE mode = "write"
  <2>1. key = 0 /\ key' = -1
    BY <1>3 DEF Lock, Grants, SetKey
  <2>2. Writers = {} /\ IsFiniteSet(Readers) /\ Cardinality(Readers) <= 0
    BY <2>1 DEF LockInv, KeyCountsHolders
  <2>3. Readers = {}
    BY <2>2, FS_CardinalityType, FS_EmptySet
  <2> QED
    BY <1>2, <1>3, <2>1, <2>2, <2>3 DEF KeyCountsHolders
<1>4. CASE mode = "read"
  <2>1. key \in Nat /\ key' = key + 1
    BY <1>4 DEF Lock, Grants, SetKey, LockInv, TypeOK
  <2>2. Writers = {} /\ IsFiniteSet(Readers) /\ Cardinality(Readers) <= key
    BY <2>1 DEF LockInv, KeyCountsHolders
  <2>3. /\ IsFiniteSet(Readers \cup {l})
        /\ Cardinality(Readers \cup {l}) = Cardinality(Readers) + 1
    BY <1>2, <2>2, FS_AddElement
  <2>4. Cardinality(Readers) \in Nat
    BY <2>2, FS_CardinalityType
  <2> QED
    BY <1>2, <1>4, <2>1, <2>2, <2>3, <2>4 DEF KeyCountsHolders
<1> QED
  BY <1>1, <1>3, <1>4

(* A grant whose answer is lost counts a holder that does not know.        *)
LEMMA LockLostKeeps ==
    ASSUME LockInv, NEW l \in Locks, NEW mode \in Modes, LockLost(l, mode)
    PROVE  KeyCountsHolders'
<1> SUFFICES ASSUME faults = {} PROVE KeyCountsHolders'
  BY DEF LockLost, KeyCountsHolders
<1>1. mode \in {"read", "write"}
  BY LockAssumption DEF LockAssumption
<1>2. Readers' = Readers /\ Writers' = Writers
  BY DEF LockLost, Readers, Writers
<1>3. key \in Nat /\ key' = IF mode = "write" THEN -1 ELSE key + 1
  BY <1>1 DEF LockLost, Grants, SetKey, LockInv, TypeOK
<1>4. Writers = {} /\ IsFiniteSet(Readers) /\ Cardinality(Readers) <= key
  BY <1>3 DEF LockInv, KeyCountsHolders
<1>5. Cardinality(Readers) \in Nat
  BY <1>4, FS_CardinalityType
<1>6. mode = "write" => Readers = {}
  BY <1>4, FS_EmptySet, <1>5 DEF LockLost, Grants
<1> QED
  BY <1>1, <1>2, <1>3, <1>4, <1>5, <1>6 DEF KeyCountsHolders

(* An unlock takes one holder away and counts one back.                    *)
LEMMA UnlockKeeps ==
    ASSUME LockInv, NEW l \in Locks, Unlock(l)
    PROVE  KeyCountsHolders'
<1> SUFFICES ASSUME faults = {} PROVE KeyCountsHolders'
  BY DEF Unlock, KeyCountsHolders
<1>1. Readers' = Readers \ {l} /\ Writers' = Writers \ {l}
  BY LetsGo DEF Unlock, LockInv
<1>2. CASE lastOp[l] = "write"
  <2>1. key = -1 /\ key' = 0 /\ l \in Writers
    BY <1>2 DEF Unlock, Accepts, ClearKey, Writers
  <2>2. Readers' = {} /\ Writers' = {}
    BY <1>1, <2>1 DEF LockInv, KeyCountsHolders
  <2> QED
    BY <2>1, <2>2, FS_EmptySet DEF KeyCountsHolders
<1>3. CASE lastOp[l] = "read"
  <2>1. key \in Nat /\ key' = key - 1 /\ key' >= 0 /\ l \in Readers
    BY <1>3 DEF Unlock, Accepts, ClearKey, Readers, LockInv, TypeOK
  <2>2. Writers = {} /\ IsFiniteSet(Readers) /\ Cardinality(Readers) <= key
    BY <2>1 DEF LockInv, KeyCountsHolders
  <2>3. /\ IsFiniteSet(Readers \ {l})
        /\ Cardinality(Readers \ {l}) = Cardinality(Readers) - 1
    BY <2>1, <2>2, FS_RemoveElement
  <2>4. Cardinality(Readers) \in Nat
    BY <2>2, FS_CardinalityType
  <2> QED
    BY <1>1, <2>1, <2>2, <2>3, <2>4 DEF KeyCountsHolders
<1> QED
  BY <1>2, <1>3, HoldersAre DEF LockInv, Unlock

(* A holder that dies stays counted.                                       *)
LEMMA CrashKeeps ==
    ASSUME LockInv, NEW l \in Locks, Crash(l)
    PROVE  KeyCountsHolders'
<1> SUFFICES ASSUME faults = {} PROVE KeyCountsHolders'
  BY DEF Crash, KeyCountsHolders
<1>1. Readers' = Readers \ {l} /\ Writers' = Writers \ {l} /\ key' = key
  BY LetsGo DEF Crash, LockInv
<1>2. ASSUME key >= 0 PROVE IsFiniteSet(Readers') /\ Cardinality(Readers') <= key
  <2>1. IsFiniteSet(Readers) /\ Cardinality(Readers) <= key
    BY <1>2 DEF LockInv, KeyCountsHolders
  <2>2. /\ IsFiniteSet(Readers \ {l})
        /\ Cardinality(Readers \ {l}) <= Cardinality(Readers)
    BY <2>1, FS_Subset
  <2>3. Cardinality(Readers) \in Nat /\ Cardinality(Readers \ {l}) \in Nat
    BY <2>1, <2>2, FS_CardinalityType
  <2> QED
    BY <1>1, <2>1, <2>2, <2>3 DEF LockInv, TypeOK
<1> QED
  BY <1>1, <1>2 DEF LockInv, KeyCountsHolders

(* A key that expires with no fault had no holder.                         *)
LEMMA ExpireKeeps ==
    ASSUME LockInv, Expire
    PROVE  KeyCountsHolders'
<1> SUFFICES ASSUME faults' = {} PROVE KeyCountsHolders'
  BY DEF KeyCountsHolders
<1>1. Holders = {} /\ key' = 0
  BY DEF Expire
<1>2. Readers' = {} /\ Writers' = {}
  BY <1>1, HoldersAre DEF Expire, Readers, Writers, LockInv
<1> QED
  BY <1>1, <1>2, FS_EmptySet DEF KeyCountsHolders

(* LockInv is inductive.                                                   *)
LEMMA StepKeepsLockInv == LockInv /\ [Next]_vars => LockInv'
<1> SUFFICES ASSUME LockInv, [Next]_vars PROVE KeyCountsHolders'
  BY StepKeepsTypes DEF LockInv
<1>1. ASSUME NEW l \in Locks, NEW mode \in Modes, Refused(l, mode)
      PROVE  KeyCountsHolders'
  BY <1>1 DEF Refused, LockInv, KeyCountsHolders, Readers, Writers
<1>2. ASSUME NEW l \in Locks, UnlockLost(l) PROVE KeyCountsHolders'
  BY <1>2 DEF UnlockLost, KeyCountsHolders
<1>3. ASSUME NEW l \in Locks, CallFails(l) PROVE KeyCountsHolders'
  BY <1>3 DEF CallFails, LockInv, KeyCountsHolders, Readers, Writers
<1>4. CASE UNCHANGED vars
  BY <1>4 DEF vars, LockInv, KeyCountsHolders, Readers, Writers
<1> QED
  BY <1>1, <1>2, <1>3, <1>4, LockKeeps, LockLostKeeps, UnlockKeeps, CrashKeeps,
     ExpireKeeps DEF Next

(* WriterExcludes: who believes to hold the lock for writing is the only   *)
(* one to believe that it holds it.                                        *)
THEOREM WriterIsAlone == Spec => []WriterExcludes
<1>1. Init => LockInv
  <2>1. Init => Readers = {} /\ Writers = {} /\ TypeOK
    BY InitTypes DEF Init, Readers, Writers
  <2> QED
    BY <2>1, FS_EmptySet DEF Init, LockInv, KeyCountsHolders
<1>2. LockInv => WriterExcludes
  <2> SUFFICES ASSUME LockInv, faults = {}, NEW l \in Writers PROVE Holders = {l}
    BY DEF WriterExcludes
  <2>1. key = -1
    BY DEF LockInv, TypeOK, KeyCountsHolders
  <2>2. Readers = {} /\ Writers = {l}
    BY <2>1 DEF LockInv, KeyCountsHolders
  <2> QED
    BY <2>2, HoldersAre DEF LockInv
<1> QED
  BY <1>1, <1>2, StepKeepsLockInv, PTL DEF Spec
=============================================================================
