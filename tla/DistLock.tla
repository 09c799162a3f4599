------------------------------ MODULE DistLock ------------------------------
(***************************************************************************)
(* The distributed read-write lock: lock objects (distributeRWLock, one per*)
(* holder) that run one Lua script on a Redis key.  A report lock is such a*)
(* lock that is only ever taken for writing.                               *)
(*                                                                         *)
(* The key is absent, -1 for a writer, or the number of readers; each lock *)
(* operation gives it 60 seconds to live.  Redis runs a script atomically. *)
(* The call can fail before the script ran or lose the answer after it ran,*)
(* and Redis can expire the key at any time, also under a holder.          *)
(*                                                                         *)
(* lock.lua ends with two lines of text that are no Lua, after its return  *)
(* statement, so Redis compiles no script from the file as it stands.      *)
(* Compiles says whether it does: the lock with TRUE is the file without   *)
(* these two lines.                                                        *)
(***************************************************************************)
EXTENDS Integers, FiniteSets

CONSTANTS
    Locks,      \* lock objects on the same key
    Modes,      \* subset of {"read", "write"}: what Lock is called with
    Compiles,   \* whether Redis compiles the script
    MaxReaders  \* bound: the count of readers in the key

ASSUME LockAssumption ==
    /\ Modes \subseteq {"read", "write"}
    /\ Compiles \in BOOLEAN
    /\ MaxReaders \in Nat

VARIABLES
    key,        \* value of the Redis key; 0 says that there is no key
    mortal,     \* whether the key has a time to live
    lastOp,     \* what each lock object holds, as far as it remembers
    (* History variables.                                                  *)
    answer,     \* what the last call of each lock object returned
    faults      \* "expired": the key expired under a holder; "lost": the
                \* answer of an unlock that was done was lost

vars == <<key, mortal, lastOp, answer, faults>>

Holders == {l \in Locks : lastOp[l] # "none"}
Readers == {l \in Locks : lastOp[l] = "read"}
Writers == {l \in Locks : lastOp[l] = "write"}

Init ==
    /\ key = 0
    /\ mortal = FALSE
    /\ lastOp = [l \in Locks |-> "none"]
    /\ answer = [l \in Locks |-> "none"]
    /\ faults = {}

(***************************************************************************)
(* The script: when it grants a lock and accepts an unlock, and what it    *)
(* makes of the key.  It does not know which lock object is calling.       *)
(***************************************************************************)
(* Mutant of Grants: readers are let in whoever holds the lock.            *)
GrantsReaders(mode) ==
    \/ mode = "write" /\ key = 0
    \/ mode = "read"

Grants(mode) ==
    \/ mode = "write" /\ key = 0
    \/ mode = "read" /\ key >= 0

Accepts(mode) ==
    \/ mode = "write" /\ key = -1
    \/ mode = "read" /\ key >= 1

(* Mutant of SetKey: the key of a writer has no time to live.              *)
SetLastingKey(mode) ==
    /\ key < MaxReaders
    /\ key' = IF mode = "write" THEN -1 ELSE key + 1
    /\ mortal' = (mode = "read")

SetKey(mode) ==
    /\ key < MaxReaders
    /\ key' = IF mode = "write" THEN -1 ELSE key + 1
    /\ mortal' = TRUE

(* Mutant of ClearKey: no key is deleted, only counted back to zero.       *)
CountBack(mode) ==
    /\ key' = IF mode = "write" THEN 0 ELSE key - 1
    /\ UNCHANGED mortal

(* The last reader and the writer delete the key; DECR keeps its lifetime. *)
ClearKey(mode) ==
    /\ key' = IF mode = "write" THEN 0 ELSE key - 1
    /\ mortal' = (mortal /\ key > 1)

(***************************************************************************)
(* The lock objects.  Lock does nothing unless lastOp is zero, Unlock does *)
(* nothing if it is; both change lastOp only for an answer that says so.   *)
(***************************************************************************)
Returns(l, a) == answer' = [answer EXCEPT ![l] = a]

Lock(l, mode) ==
    /\ lastOp[l] = "none"
    /\ Compiles /\ Grants(mode)
    /\ SetKey(mode)
    /\ lastOp' = [lastOp EXCEPT ![l] = mode]
    /\ Returns(l, "ok")
    /\ UNCHANGED faults

Unlock(l) ==
    /\ lastOp[l] # "none"
    /\ Compiles /\ Accepts(lastOp[l])
    /\ ClearKey(lastOp[l])
    /\ lastOp' = [lastOp EXCEPT ![l] = "none"]
    /\ Returns(l, "ok")
    /\ UNCHANGED faults

(* Redis answers that the lock is taken or not held, or with an error.     *)
Refused(l, mode) ==
    /\ lastOp[l] \in {"none", mode}
    /\ Compiles => ~(IF lastOp[l] = "none" THEN Grants(mode) ELSE Accepts(mode))
    /\ Returns(l, "refused")
    /\ UNCHANGED <<key, mortal, lastOp, faults>>

(* The script ran and the caller gets an error of the connection.          *)
LockLost(l, mode) ==
    /\ lastOp[l] = "none"
    /\ Compiles /\ Grants(mode)
    /\ SetKey(mode)
    /\ Returns(l, "error")
    /\ UNCHANGED <<lastOp, faults>>

UnlockLost(l) ==
    /\ lastOp[l] # "none"
    /\ Compiles /\ Accepts(lastOp[l])
    /\ ClearKey(lastOp[l])
    /\ Returns(l, "error")
    /\ faults' = faults \cup {"lost"}
    /\ UNCHANGED lastOp

(* Nothing reached Redis.                                                  *)
CallFails(l) ==
    /\ Returns(l, "error")
    /\ UNCHANGED <<key, mortal, lastOp, faults>>

(* The process of a lock object dies; a later one has a new lock object.   *)
Crash(l) ==
    /\ lastOp' = [lastOp EXCEPT ![l] = "none"]
    /\ Returns(l, "none")
    /\ UNCHANGED <<key, mortal, faults>>

(* Redis, 60 seconds after the last lock operation.                        *)
Expire ==
    /\ mortal
    /\ key' = 0
    /\ mortal' = FALSE
    /\ faults' = IF Holders = {} THEN faults ELSE faults \cup {"expired"}
    /\ UNCHANGED <<lastOp, answer>>

Next ==
    \/ \E l \in Locks, mode \in Modes :
          Lock(l, mode) \/ Refused(l, mode) \/ LockLost(l, mode)
    \/ \E l \in Locks : Unlock(l) \/ UnlockLost(l) \/ CallFails(l) \/ Crash(l)
    \/ Expire

(* Redis expires a key whose time is over.                                 *)
Spec == Init /\ [][Next]_vars /\ WF_vars(Expire)

(***************************************************************************)
(* Properties.                                                             *)
(***************************************************************************)
(* Type invariant.                                                         *)
TypeOK ==
    /\ key \in -1..MaxReaders
    /\ mortal = (key # 0)
    /\ lastOp \in [Locks -> {"none", "read", "write"}]
    /\ answer \in [Locks -> {"none", "ok", "refused", "error"}]
    /\ faults \subseteq {"expired", "lost"}

(* A writer excludes readers and other writers, although the key names     *)
(* nobody and holders die, locks are granted to callers that never hear of *)
(* it, and calls fail: as long as the key never expired under a holder and *)
(* no unlock was done unheard.                                             *)
WriterExcludes ==
    faults = {} => \A l \in Writers : Holders = {l}

(* A writer that dies or never learns that it holds the lock does not keep *)
(* the others out for ever: every write lock ends.                         *)
WriteLocksEnd == key = -1 ~> key # -1
=============================================================================
