-------------------------- MODULE ReportCommitProofs --------------------------
(***************************************************************************)
(* Why the stored index fits the stored blocks, and why no reader is shown *)
(* another version: an invariant stronger than what one session relies on. *)
(* And why the two objects implement the one value of ReportPromise.       *)
(***************************************************************************)
EXTENDS ReportStoreProofs

(***************************************************************************)
(* The invariant.                                                          *)
(***************************************************************************)
(* Only a session between its two uploads is exposed.                      *)
ExposedPending ==
    \A s \in exposed : s \in coverDirty /\ pc[s] \in {"flushing", "failed", "closing"}

RebasersRebase == \A s \in Sessions : pc[s] = "rebasing" => kind[s] \in Rebases

(* A tree is settled if it is right in the stored blocks and, while a      *)
(* commit is half done, in the blocks that are about to be stored.         *)
Settled(t) ==
    /\ Quiescent => AllRight(t, cda)
    /\ \A u \in exposed : AllRight(t, local[u])

NotMisled(t, blocks) ==
    \A f \in Present(t) : Right(f, t[f], blocks) \/ Dangling(t[f], blocks)

(* The others cannot store anything that counts while a commit is half done*)
OneExposed ==
    \A u \in exposed :
        /\ u \notin stale
        /\ \A t \in Sessions \ {u} : HasLocal(t) => t \in stale

OpeningSettled == \A t \in Sessions : pc[t] = "metaOpen" => Settled(tree[t])

FreshRight ==
    \A t \in Sessions : HasLocal(t) /\ t \notin stale => AllRight(tree[t], local[t])

ReadersSafe ==
    \A t \in Sessions :
        HasLocal(t) /\ kind[t] = "read" => NotMisled(tree[t], local[t])

Coherent ==
    /\ OneExposed
    /\ Settled(cno)
    /\ OpeningSettled
    /\ FreshRight
    /\ ReadersSafe

CommitInv ==
    /\ SessionInv
    /\ ExposedPending
    /\ RebasersRebase
    /\ Undamaged => Coherent

(***************************************************************************)
(* Lemmas about trees and blocks.                                          *)
(***************************************************************************)
(* What is right stays right when blocks are appended.                     *)
LEMMA AllRightKept ==
    ASSUME NEW a \in Seq(Block), NEW b \in Seq(Block), IsPrefixOf(a, b),
           NEW t \in [Files -> Entry], AllRight(t, a)
    PROVE  AllRight(t, b)
  <1> SUFFICES ASSUME NEW f \in Present(t) PROVE Right(f, t[f], b)
    BY DEF AllRight
  <1>1. f \in Files /\ Right(f, t[f], a)
    BY DEF Present, AllRight
  <1>2. QED
    BY <1>1, RightKept

(* In an older .cda an entry is right too, or dangles.                     *)
LEMMA OlderNotMisled ==
    ASSUME NEW a \in Seq(Block), NEW b \in Seq(Block), IsPrefixOf(a, b),
           NEW t \in [Files -> Entry], AllRight(t, b)
    PROVE  NotMisled(t, a)
  <1> SUFFICES ASSUME NEW f \in Present(t), ~Dangling(t[f], a) PROVE Right(f, t[f], a)
    BY DEF NotMisled
  <1>1. Right(f, t[f], b)
    BY DEF AllRight
  <1>2. t[f].off \in 1..Len(b) /\ b[t[f].off] = [file |-> f, lines |-> t[f].lines]
    BY <1>1 DEF Right
  <1>3. t[f].off \in 1..Len(a)
    BY <1>2 DEF Dangling
  <1>4. QED
    BY <1>2, <1>3 DEF IsPrefixOf, Right

(* An empty tree points nowhere wrong.                                     *)
LEMMA EmptyTreeRight ==
    ASSUME NEW blocks PROVE AllRight(EmptyTree, blocks)
  BY DEF AllRight, Present, EmptyTree

(* Damage is not repaired.                                                 *)
LEMMA DamageGrows == [Next]_vars => damage \subseteq damage'
  <1> SUFFICES ASSUME [Next]_vars PROVE damage \subseteq damage'
    OBVIOUS
  <1>1. ASSUME NEW s \in Sessions, Overlap(s) PROVE damage \subseteq damage'
    BY <1>1 DEF Overlap
  <1>2. ASSUME NEW Cut, Tear(Cut) PROVE damage \subseteq damage'
    BY <1>2 DEF Tear
  <1>3. ASSUME NEW s \in Sessions, NEW outcome \in Outcome, PutMeta(s, outcome)
        PROVE  damage \subseteq damage'
    BY <1>1, <1>3 DEF PutMeta, history
  <1>4. ASSUME NEW s \in Sessions, FlushMeta(s) \/ CloseMeta(s) PROVE damage \subseteq damage'
    BY <1>3, <1>4 DEF FlushMeta, CloseMeta, history
  <1>5. ASSUME NEW s \in Sessions, FlushCover(s) \/ CloseCover(s) PROVE damage \subseteq damage'
    BY <1>1, <1>2, <1>5 DEF FlushCover, CloseCover, history
  <1>6. ASSUME NEW s \in Sessions, Abandon(s) PROVE damage \subseteq damage'
    BY <1>2, <1>6 DEF Abandon
  <1>7. CASE Crash
    BY <1>2, <1>7 DEF Crash
  <1>8. QED
    BY <1>4, <1>5, <1>6, <1>7
    DEF Next, SessionStep, OpenMeta, OpenCover, OpenCoverFails, AddFile, AddFileFails,
        UpdateFile, UpdateFileFails, RebaseFile, RebaseFails, history, vars

(* A settled tree is right in the blocks of a session that is not stale,   *)
(* and no other session is exposed beside it.                              *)
LEMMA SettledFresh ==
    ASSUME CommitInv, Undamaged, NEW s \in Sessions, HasLocal(s), s \notin stale
    PROVE  /\ exposed \subseteq {s}
           /\ \A t \in [Files -> Entry] : Settled(t) => AllRight(t, local[s])
  <1> USE DEF CommitInv, Coherent, SessionInv
  <1>1. exposed \subseteq {s}
    BY DEF OneExposed, TypeOK
  <1>2. ASSUME NEW t \in [Files -> Entry], Settled(t) PROVE AllRight(t, local[s])
    <2>1. CASE exposed = {}
      <3>1. AllRight(t, cda)
        BY <1>2, <2>1 DEF Settled, Quiescent
      <3>2. IsPrefixOf(cda, local[s]) /\ cda \in Seq(Block) /\ local[s] \in Seq(Block)
        BY DEF FreshCopies, TypeOK
      <3>3. QED
        BY <3>1, <3>2, AllRightKept
    <2>2. CASE s \in exposed
      BY <1>2, <2>2 DEF Settled
    <2>3. QED
      BY <1>1, <2>1, <2>2
  <1>3. QED
    BY <1>1, <1>2

(***************************************************************************)
(* How steps keep the commit coherent.                                     *)
(***************************************************************************)
(* A step of s that stores nothing and lets no other session go on.        *)
OnlyOwnCopies(s) ==
    /\ UNCHANGED <<cno, cda, stale, exposed>>
    /\ \A t \in Sessions \ {s} :
           /\ pc'[t] = pc[t] /\ kind'[t] = kind[t]
           /\ tree'[t] = tree[t] /\ local'[t] = local[t]

(* A step that changes only the copies of one session keeps them coherent. *)
LEMMA OwnCopiesCoherent ==
    ASSUME CommitInv, Coherent, NEW s \in Sessions, OnlyOwnCopies(s),
           HasLocal(s), pc'[s] \notin {"idle", "metaOpen"},
           s \in exposed => local'[s] = local[s],
           s \notin stale => AllRight(tree'[s], local'[s]),
           kind'[s] = "read" => NotMisled(tree'[s], local'[s])
    PROVE  Coherent'
  <1> USE DEF OnlyOwnCopies
  <1>1. \A t \in Sessions : HasLocal(t)' => HasLocal(t)
    BY DEF HasLocal
  <1>2. \A u \in exposed : local'[u] = local[u]
    BY DEF CommitInv, SessionInv, TypeOK
  <1>3. OneExposed'
    BY <1>1 DEF Coherent, OneExposed
  <1>4. Settled(cno)'
    BY <1>2 DEF Coherent, Settled, Quiescent
  <1>5. OpeningSettled'
    <2> SUFFICES ASSUME NEW t \in Sessions, pc'[t] = "metaOpen" PROVE Settled(tree[t])'
      BY DEF OpeningSettled
    <2>1. t # s /\ Settled(tree[t])
      BY DEF Coherent, OpeningSettled
    <2>2. QED
      BY <2>1, <1>2 DEF Settled, Quiescent
  <1>6. FreshRight'
    BY <1>1 DEF Coherent, FreshRight
  <1>7. ReadersSafe'
    BY <1>1 DEF Coherent, ReadersSafe
  <1>8. QED
    BY <1>3, <1>4, <1>5, <1>6, <1>7 DEF Coherent

(* Sessions that end without having stored anything in vain.               *)
LEMMA EndCoherent ==
    ASSUME CommitInv, Coherent, NEW S \in SUBSET Sessions, EndSessions(S),
           S \cap exposed = {}, UNCHANGED <<cno, cda>>,
           \A t \in Sessions \ S : t \in stale' <=> t \in stale
    PROVE  Coherent'
  <1>1. exposed' = exposed
    BY DEF EndSessions
  <1>2. \A t \in S : pc'[t] = "idle"
    BY DEF EndSessions, CommitInv, SessionInv, TypeOK
  <1>3. \A t \in Sessions \ S :
           pc'[t] = pc[t] /\ kind'[t] = kind[t] /\ tree'[t] = tree[t] /\ local'[t] = local[t]
    BY DEF EndSessions
  <1>4. \A u \in exposed : u \in Sessions \ S
    BY DEF CommitInv, SessionInv, TypeOK
  <1>5. OneExposed'
    BY <1>1, <1>2, <1>3, <1>4 DEF Coherent, OneExposed, HasLocal
  <1>6. Settled(cno)'
    BY <1>1, <1>3, <1>4 DEF Coherent, Settled, Quiescent
  <1>7. OpeningSettled'
    <2> SUFFICES ASSUME NEW t \in Sessions, pc'[t] = "metaOpen" PROVE Settled(tree[t])'
      BY DEF OpeningSettled
    <2>1. t \notin S /\ tree'[t] = tree[t] /\ Settled(tree[t])
      BY <1>2, <1>3 DEF Coherent, OpeningSettled
    <2>2. QED
      BY <2>1, <1>1, <1>3, <1>4 DEF Settled, Quiescent
  <1>8. FreshRight'
    BY <1>2, <1>3 DEF Coherent, FreshRight, HasLocal
  <1>9. ReadersSafe'
    BY <1>2, <1>3 DEF Coherent, ReadersSafe, HasLocal
  <1>10. QED
    BY <1>5, <1>6, <1>7, <1>8, <1>9 DEF Coherent

(* A session that is not stale stores its .cda: whatever was settled is    *)
(* right in it, and the sessions that have a local copy become stale.      *)
LEMMA StoreCoverCoherent ==
    ASSUME CommitInv, Coherent, Undamaged, NEW s \in Sessions,
           HasLocal(s), s \notin stale,
           cno' = cno, cda' = local[s], exposed' = exposed \ {s},
           \A t \in Sessions \ {s} :
               /\ pc'[t] = pc[t] /\ kind'[t] = kind[t]
               /\ tree'[t] = tree[t] /\ local'[t] = local[t]
               /\ HasLocal(t) => t \in stale',
           \/ pc'[s] = "idle"
           \/ /\ pc'[s] # "metaOpen" /\ kind'[s] = kind[s]
              /\ tree'[s] = tree[s] /\ local'[s] = local[s]
    PROVE  Coherent'
  <1> USE DEF CommitInv, SessionInv
  <1>1. /\ exposed' = {}
        /\ \A t \in [Files -> Entry] : Settled(t) => AllRight(t, cda')
    BY SettledFresh
  <1>2. OneExposed'
    BY <1>1 DEF OneExposed
  <1>3. AllRight(cno', cda')
    BY <1>1 DEF Coherent, TypeOK
  <1>4. Settled(cno)'
    BY <1>1, <1>3 DEF Settled
  <1>5. OpeningSettled'
    <2> SUFFICES ASSUME NEW t \in Sessions, pc'[t] = "metaOpen" PROVE Settled(tree[t])'
      BY DEF OpeningSettled
    <2>1. tree'[t] = tree[t] /\ tree[t] \in [Files -> Entry] /\ Settled(tree[t])
      BY DEF Coherent, OpeningSettled, TypeOK
    <2>2. AllRight(tree'[t], cda')
      BY <1>1, <2>1
    <2>3. QED
      BY <1>1, <2>2 DEF Settled
  <1>6. FreshRight'
    BY DEF Coherent, FreshRight, HasLocal
  <1>7. ReadersSafe'
    BY DEF Coherent, ReadersSafe, HasLocal
  <1>8. QED
    BY <1>2, <1>4, <1>5, <1>6, <1>7 DEF Coherent

(* A session that is not stale stores its tree: its tree is right in its   *)
(* blocks, which are stored already or are the ones now due.               *)
LEMMA StoreMetaCoherent ==
    ASSUME CommitInv, Coherent, Undamaged, NEW s \in Sessions,
           HasLocal(s), s \notin stale, pc'[s] \notin {"idle", "metaOpen"},
           cno' = tree[s], UNCHANGED <<cda, kind, tree, local>>,
           stale' = stale \cup {t \in Sessions \ {s} : pc[t] # "idle"},
           exposed' = Mark(exposed, s, s \in coverDirty),
           \A t \in Sessions \ {s} : pc'[t] = pc[t]
    PROVE  Coherent'
  <1> USE DEF CommitInv, SessionInv
  <1>1. /\ exposed \subseteq {s}
        /\ \A t \in [Files -> Entry] : Settled(t) => AllRight(t, local[s])
    BY SettledFresh
  <1>2. exposed' = IF s \in coverDirty THEN {s} ELSE {}
    BY <1>1 DEF Mark
  <1>3. s \notin coverDirty => local[s] = cda
    BY DEF FreshCopies
  <1>4. ASSUME NEW t, AllRight(t, local[s])
        PROVE  /\ exposed' = {} => AllRight(t, cda')
               /\ \A u \in exposed' : AllRight(t, local'[u])
    BY <1>2, <1>3, <1>4
  <1>5. OneExposed'
    BY <1>2 DEF OneExposed, HasLocal
  <1>6. Settled(cno)'
    <2>1. AllRight(cno', local[s])
      BY DEF Coherent, FreshRight
    <2>2. QED
      BY <2>1, <1>4 DEF Settled, Quiescent
  <1>7. OpeningSettled'
    <2> SUFFICES ASSUME NEW t \in Sessions, pc'[t] = "metaOpen" PROVE Settled(tree[t])'
      BY DEF OpeningSettled
    <2>1. tree'[t] = tree[t] /\ tree[t] \in [Files -> Entry] /\ Settled(tree[t])
      BY DEF Coherent, OpeningSettled, TypeOK
    <2>2. AllRight(tree'[t], local[s])
      BY <1>1, <2>1
    <2>3. QED
      BY <1>4, <2>2 DEF Settled, Quiescent
  <1>8. FreshRight'
    BY DEF Coherent, FreshRight, HasLocal
  <1>9. ReadersSafe'
    BY DEF Coherent, ReadersSafe, HasLocal
  <1>10. QED
    BY <1>5, <1>6, <1>7, <1>8, <1>9 DEF Coherent

(* Opening the .cno: the tree is the stored one, or empty.                 *)
LEMMA OpenMetaCoherent ==
    ASSUME CommitInv, Coherent, NEW s \in Sessions, NEW k \in Kinds, OpenMeta(s, k)
    PROVE  Coherent'
  <1> USE DEF CommitInv, SessionInv
  <1>1. /\ UNCHANGED <<cno, cda, local, stale, exposed>>
        /\ pc[s] = "idle" /\ pc'[s] = "metaOpen"
        /\ tree'[s] \in {cno, EmptyTree}
        /\ \A t \in Sessions \ {s} : pc'[t] = pc[t] /\ kind'[t] = kind[t] /\ tree'[t] = tree[t]
    BY DEF TypeOK, OpenMeta, objects, history
  <1>2. OneExposed'
    BY <1>1 DEF Coherent, OneExposed, HasLocal
  <1>3. Settled(cno)'
    BY <1>1 DEF Coherent, Settled, Quiescent
  <1>4. OpeningSettled'
    <2> SUFFICES ASSUME NEW t \in Sessions, pc'[t] = "metaOpen" PROVE Settled(tree[t])'
      BY DEF OpeningSettled
    <2>1. Settled(EmptyTree)
      BY EmptyTreeRight DEF Settled
    <2>2. Settled(tree'[t])
      BY <1>1, <2>1 DEF Coherent, OpeningSettled
    <2>3. QED
      BY <1>1, <2>2 DEF Settled, Quiescent
  <1>5. FreshRight' /\ ReadersSafe'
    BY <1>1 DEF Coherent, FreshRight, ReadersSafe, HasLocal
  <1>6. QED
    BY <1>2, <1>3, <1>4, <1>5 DEF Coherent

(* Opening the .cda: while a commit is half done the session gets the      *)
(* blocks the new index extends, so its entries are right or dangle.       *)
LEMMA OpenCoverCoherent ==
    ASSUME CommitInv, Coherent, NEW s \in Sessions, OpenCover(s)
    PROVE  Coherent'
  <1> USE DEF CommitInv, SessionInv
  <1>1. /\ UNCHANGED <<cno, cda, tree, kind, exposed>>
        /\ pc[s] = "metaOpen" /\ pc'[s] \in {"open", "rebasing"}
        /\ local'[s] = cda
        /\ stale' = IF exposed = {} THEN stale ELSE stale \cup {s}
        /\ \A t \in Sessions \ {s} : pc'[t] = pc[t] /\ local'[t] = local[t]
    BY DEF TypeOK, OpenCover, objects
  <1>2. Settled(tree[s]) /\ tree[s] \in [Files -> Entry]
    BY <1>1 DEF Coherent, OpeningSettled, TypeOK
  <1>3. \A u \in exposed :
           u \in Sessions /\ u # s /\ HasLocal(u) /\ u \notin stale /\ local'[u] = local[u]
    BY <1>1 DEF Coherent, OneExposed, ExposedPending, HasLocal, TypeOK
  <1>4. OneExposed'
    BY <1>1, <1>3 DEF Coherent, OneExposed, HasLocal
  <1>5. Settled(cno)'
    BY <1>1, <1>3 DEF Coherent, Settled, Quiescent
  <1>6. OpeningSettled'
    <2> SUFFICES ASSUME NEW t \in Sessions, pc'[t] = "metaOpen" PROVE Settled(tree[t])'
      BY DEF OpeningSettled
    <2>1. Settled(tree[t])
      BY <1>1 DEF Coherent, OpeningSettled
    <2>2. QED
      BY <1>1, <1>3, <2>1 DEF Settled, Quiescent
  <1>7. FreshRight'
    BY <1>1, <1>2 DEF Coherent, FreshRight, Settled, Quiescent, HasLocal
  <1>8. NotMisled(tree[s], cda)
    <2>1. CASE exposed = {}
      BY <1>2, <2>1 DEF Settled, Quiescent, AllRight, NotMisled
    <2>2. CASE exposed # {}
      <3>1. PICK u \in exposed : TRUE
        BY <2>2
      <3>2. AllRight(tree[s], local[u])
        BY <1>2 DEF Settled
      <3>3. IsPrefixOf(cda, local[u]) /\ cda \in Seq(Block) /\ local[u] \in Seq(Block)
        BY <1>3 DEF FreshCopies, TypeOK
      <3>4. QED
        BY <1>2, <3>2, <3>3, OlderNotMisled
    <2>3. QED
      BY <2>1, <2>2
  <1>9. ReadersSafe'
    BY <1>1, <1>8 DEF Coherent, ReadersSafe, HasLocal
  <1>10. QED
    BY <1>4, <1>5, <1>6, <1>7, <1>9 DEF Coherent

(* A session that is not exposed appends a block, and enters it or not.    *)
LEMMA WriteCoherent ==
    ASSUME CommitInv, Coherent, NEW s \in Sessions, NEW f \in Files, NEW lines \in Lines,
           SetCoverLine(s, f, lines),
           SetEntry(s, f, lines) \/ tree' = tree,
           pc[s] \in {"open", "rebasing"}, pc'[s] \notin {"idle", "metaOpen"},
           kind[s] # "read",
           \A t \in Sessions \ {s} : pc'[t] = pc[t],
           UNCHANGED <<cno, cda, kind, stale, exposed>>
    PROVE  Coherent'
  <1> USE DEF CommitInv, SessionInv
  <1>1. HasLocal(s) /\ s \notin exposed
    BY DEF HasLocal, ExposedPending
  <1>2. \A t \in Sessions \ {s} : tree'[t] = tree[t]
    BY DEF TypeOK, SetEntry
  <1>3. OnlyOwnCopies(s)
    BY <1>2, AppendKeeps DEF OnlyOwnCopies
  <1>4. ASSUME s \notin stale PROVE AllRight(tree'[s], local'[s])
    <2>1. AllRight(tree[s], local[s])
      BY <1>1, <1>4 DEF Coherent, FreshRight
    <2>2. /\ local[s] \in Seq(Block) /\ local'[s] \in Seq(Block)
          /\ IsPrefixOf(local[s], local'[s])
          /\ tree[s] \in [Files -> Entry]
      BY AppendKeeps DEF TypeOK
    <2>3. AllRight(tree[s], local'[s])
      BY <2>1, <2>2, AllRightKept
    <2>4. CASE tree' = tree
      BY <2>3, <2>4
    <2>5. CASE SetEntry(s, f, lines)
      <3>1. tree'[s] = [tree[s] EXCEPT ![f] = [off |-> NewOffset(s), lines |-> lines]]
        BY <2>5 DEF TypeOK, SetEntry
      <3>2. Right(f, [off |-> NewOffset(s), lines |-> lines], local'[s])
        <4>1. local'[s] = Append(local[s], [file |-> f, lines |-> lines])
          BY AppendKeeps
        <4>2. [file |-> f, lines |-> lines] \in Block
          BY DEF Block
        <4>3. QED
          BY <2>2, <4>1, <4>2 DEF Right, NewOffset
      <3>3. ASSUME NEW g \in Present(tree'[s]) PROVE Right(g, tree'[s][g], local'[s])
        <4>1. CASE g = f
          BY <2>2, <3>1, <3>2, <4>1
        <4>2. CASE g # f
          <5>1. tree'[s][g] = tree[s][g] /\ g \in Present(tree[s])
            BY <2>2, <3>1, <3>3, <4>2 DEF Present
          <5>2. QED
            BY <2>3, <5>1 DEF AllRight
        <4>3. QED
          BY <4>1, <4>2
      <3>4. QED
        BY <3>3 DEF AllRight
    <2>6. QED
      BY <2>4, <2>5
  <1>5. QED
    BY <1>1, <1>3, <1>4, OwnCopiesCoherent

(* A step that changes only where the session is.                          *)
LEMMA MoveCoherent ==
    ASSUME CommitInv, Coherent, NEW s \in Sessions,
           HasLocal(s), pc'[s] \notin {"idle", "metaOpen"},
           \A t \in Sessions \ {s} : pc'[t] = pc[t],
           UNCHANGED <<cno, cda, kind, tree, local, stale, exposed>>
    PROVE  Coherent'
  <1>1. OnlyOwnCopies(s)
    BY DEF OnlyOwnCopies
  <1>2. /\ s \notin stale => AllRight(tree[s], local[s])
        /\ kind[s] = "read" => NotMisled(tree[s], local[s])
    BY DEF Coherent, FreshRight, ReadersSafe
  <1>3. QED
    BY <1>1, <1>2, OwnCopiesCoherent

(* A step that uploads the .cno, or fails to.                              *)
LEMMA PutMetaCoherent ==
    ASSUME CommitInv, Coherent, Undamaged, Undamaged', NEW s \in Sessions,
           NEW outcome \in Outcome, PutMeta(s, outcome),
           HasLocal(s), pc'[s] \notin {"idle", "metaOpen"},
           \A t \in Sessions \ {s} : pc'[t] = pc[t],
           UNCHANGED <<kind, copies>>
    PROVE  Coherent'
  <1>1. CASE outcome = "failed"
    BY <1>1, MoveCoherent DEF PutMeta, history, copies
  <1>2. CASE outcome # "failed"
    <2>1. s \notin stale
      BY <1>2 DEF PutMeta, Overlap, Undamaged
    <2>2. QED
      BY <1>2, <2>1, StoreMetaCoherent DEF PutMeta, copies
  <1>3. QED
    BY <1>1, <1>2

(* No step without damage makes copies incoherent.                         *)
LEMMA CoherentStep == CommitInv /\ [Next]_vars /\ Undamaged' => Coherent'
  <1> SUFFICES ASSUME CommitInv, [Next]_vars, Undamaged' PROVE Coherent'
    OBVIOUS
  <1> USE DEF CommitInv, SessionInv
  <1>0. Undamaged /\ Coherent
    BY DamageGrows DEF Undamaged
  <1>1. ASSUME NEW s \in Sessions, NEW k \in Kinds, OpenMeta(s, k) PROVE Coherent'
    BY <1>0, <1>1, OpenMetaCoherent
  <1>2. ASSUME NEW s \in Sessions, OpenCover(s) PROVE Coherent'
    BY <1>0, <1>2, OpenCoverCoherent
  <1>3. ASSUME NEW s \in Sessions, OpenCoverFails(s) \/ Abandon(s) PROVE Coherent'
    <2>1. EndSessions({s}) /\ UNCHANGED <<cno, cda>> /\ stale' = stale \ {s}
      BY <1>3 DEF OpenCoverFails, Abandon, objects
    <2>2. s \notin exposed
      BY <1>3 DEF OpenCoverFails, ExposedPending, Abandon, Tear, Undamaged
    <2>3. QED
      BY <1>0, <2>1, <2>2, EndCoherent
  <1>4. ASSUME NEW s \in Sessions, NEW f \in Files, NEW lines \in Lines,
               AddFile(s, f, lines) \/ UpdateFile(s, f, lines)
        PROVE  Coherent'
    <2>1. /\ SetCoverLine(s, f, lines) /\ SetEntry(s, f, lines)
          /\ pc[s] = "open" /\ kind[s] # "read"
          /\ UNCHANGED <<pc, cno, cda, kind, stale, exposed>>
      BY <1>4 DEF AddFile, UpdateFile, control, objects, history
    <2>2. QED
      BY <1>0, <2>1, WriteCoherent
  <1>5. ASSUME NEW s \in Sessions, NEW f \in Files, NEW lines \in Lines,
               AddFileFails(s, f, lines)
        PROVE  Coherent'
    <2>1. /\ SetCoverLine(s, f, lines) /\ tree' = tree
          /\ pc[s] = "open" /\ kind[s] # "read"
          /\ pc'[s] \in {"open", "failed"}
          /\ \A t \in Sessions \ {s} : pc'[t] = pc[t]
          /\ UNCHANGED <<cno, cda, kind, stale, exposed>>
      BY <1>5 DEF TypeOK, AddFileFails, GoesOn, objects, history
    <2>2. QED
      BY <1>0, <2>1, WriteCoherent
  <1>6. ASSUME NEW s \in Sessions, NEW f \in Files, RebaseFile(s, f) PROVE Coherent'
    <2>1. f \in todo[s] /\ ~Dangling(tree[s][f], local[s])
      BY <1>6 DEF RebaseFile
    <2> DEFINE lines == local[s][tree[s][f].off].lines
    <2>2. lines \in Lines
      BY <2>1, RebaseReads
    <2>3. /\ SetCoverLine(s, f, lines) /\ SetEntry(s, f, lines)
          /\ pc[s] = "rebasing" /\ pc'[s] \in {"open", "rebasing"}
          /\ \A t \in Sessions \ {s} : pc'[t] = pc[t]
          /\ UNCHANGED <<cno, cda, kind, stale, exposed>>
      BY <1>6 DEF TypeOK, RebaseFile, objects, history
    <2>4. kind[s] # "read" /\ f \in Files
      BY <1>6, <2>3 DEF RebasersRebase, Rebases, RebaseFile
    <2> HIDE DEF lines
    <2>5. QED
      BY <1>0, <2>2, <2>3, <2>4, WriteCoherent
  <1>7. ASSUME NEW s \in Sessions,
               RebaseFails(s) \/ \E f \in Files : UpdateFileFails(s, f)
        PROVE  Coherent'
    <2>1. /\ UNCHANGED <<cno, cda, kind, tree, local, stale, exposed>>
          /\ pc[s] \in {"open", "rebasing"} /\ pc'[s] \in {"open", "failed"}
          /\ \A t \in Sessions \ {s} : pc'[t] = pc[t]
      BY <1>7 DEF TypeOK, RebaseFails, UpdateFileFails, GoesOn, objects, copies, history
    <2>2. HasLocal(s)
      BY <2>1 DEF HasLocal
    <2>3. QED
      BY <1>0, <2>1, <2>2, MoveCoherent
  <1>8. ASSUME NEW s \in Sessions, FlushMeta(s) PROVE Coherent'
    <2>1. PICK outcome \in Outcome :
            /\ PutMeta(s, outcome)
            /\ pc[s] = "open"
            /\ pc' = [pc EXCEPT ![s] = IF outcome = "ok" THEN "flushing" ELSE "failed"]
            /\ UNCHANGED <<kind, copies>>
      BY <1>8 DEF FlushMeta
    <2>2. /\ HasLocal(s) /\ pc'[s] \in {"flushing", "failed"}
          /\ \A t \in Sessions \ {s} : pc'[t] = pc[t]
      BY <2>1 DEF TypeOK, HasLocal
    <2>3. QED
      BY <1>0, <2>1, <2>2, PutMetaCoherent
  <1>9. ASSUME NEW s \in Sessions, FlushCover(s) PROVE Coherent'
    <2>1. /\ UNCHANGED <<cno, kind, tree, local>>
          /\ HasLocal(s) /\ pc'[s] \in {"flushed", "failed"}
          /\ \A t \in Sessions \ {s} : pc'[t] = pc[t]
      BY <1>9 DEF TypeOK, FlushCover, HasLocal, copies
    <2>2. CASE UNCHANGED <<cda, history>>
      BY <1>0, <2>1, <2>2, MoveCoherent DEF history
    <2>3. CASE /\ cda' = local[s]
               /\ stale' = OutdatedByCover(s)
               /\ exposed' = exposed \ {s}
               /\ Overlap(s)
      <3>1. s \notin stale
        BY <2>3 DEF Overlap, Undamaged
      <3>2. \A t \in Sessions \ {s} : HasLocal(t) => t \in stale'
        BY <2>3 DEF OutdatedByCover, HasLocal
      <3>3. QED
        BY <1>0, <2>1, <2>3, <3>1, <3>2, StoreCoverCoherent
    <2>4. QED
      BY <1>9, <2>2, <2>3 DEF FlushCover, history
  <1>10. ASSUME NEW s \in Sessions, CloseMeta(s) PROVE Coherent'
    <2>1. /\ HasLocal(s) /\ pc'[s] = "closing"
          /\ \A t \in Sessions \ {s} : pc'[t] = pc[t]
          /\ UNCHANGED <<kind, copies>>
      BY <1>10 DEF TypeOK, CloseMeta, HasLocal
    <2>2. CASE \E outcome \in Outcome : PutMeta(s, outcome)
      BY <1>0, <2>1, <2>2, PutMetaCoherent
    <2>3. CASE UNCHANGED <<objects, dirty, history>>
      BY <1>0, <2>1, <2>3, MoveCoherent DEF objects, copies, history
    <2>4. QED
      BY <1>10, <2>2, <2>3 DEF CloseMeta
  <1>11. ASSUME NEW s \in Sessions, CloseCover(s) PROVE Coherent'
    <2>1. EndSessions({s}) /\ cno' = cno /\ HasLocal(s)
      BY <1>11 DEF CloseCover, HasLocal
    <2>2. CASE cda' = cda /\ stale' = stale \ {s} /\ Tear(exposed \cap {s})
      <3>1. s \notin exposed
        BY <2>2 DEF Tear, Undamaged
      <3>2. QED
        BY <1>0, <2>1, <2>2, <3>1, EndCoherent
    <2>3. CASE cda' = local[s] /\ stale' = OutdatedByCover(s) \ {s} /\ Overlap(s)
      <3>1. s \notin stale
        BY <2>3 DEF Overlap, Undamaged
      <3>2. \A t \in Sessions \ {s} : HasLocal(t) => t \in stale'
        BY <2>3 DEF OutdatedByCover, HasLocal
      <3>3. /\ pc'[s] = "idle" /\ exposed' = exposed \ {s}
            /\ \A t \in Sessions \ {s} :
                 pc'[t] = pc[t] /\ kind'[t] = kind[t] /\ tree'[t] = tree[t] /\ local'[t] = local[t]
        BY <2>1 DEF EndSessions
      <3>4. QED
        BY <1>0, <2>1, <2>3, <3>1, <3>2, <3>3, StoreCoverCoherent
    <2>4. QED
      BY <1>11, <2>2, <2>3 DEF CloseCover
  <1>12. CASE Crash
    <2>1. EndSessions(Sessions) /\ UNCHANGED <<cno, cda>> /\ exposed = {}
      BY <1>12 DEF Crash, Tear, Undamaged, objects
    <2>2. QED
      BY <1>0, <2>1, EndCoherent
  <1>13. CASE UNCHANGED vars
    BY <1>0, <1>13
    DEF vars, Coherent, OneExposed, Settled, Quiescent, OpeningSettled, FreshRight,
        ReadersSafe, HasLocal
  <1>14. QED
    BY <1>1, <1>2, <1>3, <1>4, <1>5, <1>6, <1>7, <1>8, <1>9, <1>10, <1>11,
       <1>12, <1>13
    DEF Next, SessionStep

(* An exposed session has its .cda still to store, and is past its edits.  *)
LEMMA PendingStep == CommitInv /\ [Next]_vars => ExposedPending' /\ RebasersRebase'
  <1> SUFFICES ASSUME CommitInv, [Next]_vars PROVE ExposedPending' /\ RebasersRebase'
    OBVIOUS
  <1> USE DEF CommitInv, SessionInv, ExposedPending, RebasersRebase
  <1>1. ASSUME NEW s \in Sessions, NEW k \in Kinds, OpenMeta(s, k)
        PROVE  ExposedPending' /\ RebasersRebase'
    BY <1>1 DEF OpenMeta, TypeOK, dirty, history
  <1>2. ASSUME NEW s \in Sessions, OpenCover(s) PROVE ExposedPending' /\ RebasersRebase'
    BY <1>2 DEF OpenCover, TypeOK, dirty
  <1>3. ASSUME NEW S \in SUBSET Sessions, EndSessions(S)
        PROVE  ExposedPending' /\ RebasersRebase'
    BY <1>3 DEF EndSessions, TypeOK
  <1>4. ASSUME NEW s \in Sessions, NEW f \in Files, NEW lines \in Lines,
               AddFile(s, f, lines) \/ UpdateFile(s, f, lines) \/ AddFileFails(s, f, lines)
        PROVE  ExposedPending' /\ RebasersRebase'
    <2>1. /\ \A t \in Sessions : pc'[t] = pc[t] \/ (pc[t] = "open" /\ pc'[t] = "failed")
          /\ coverDirty \subseteq coverDirty'
          /\ UNCHANGED <<kind, exposed>>
      BY <1>4
      DEF AddFile, UpdateFile, AddFileFails, SetCoverLine, GoesOn, TypeOK, control, history
    <2>2. QED
      BY <2>1 DEF TypeOK
  <1>5. ASSUME NEW s \in Sessions, NEW f \in Files, RebaseFile(s, f)
        PROVE  ExposedPending' /\ RebasersRebase'
    <2>1. /\ pc[s] = "rebasing"
          /\ \A t \in Sessions \ {s} : pc'[t] = pc[t]
          /\ pc'[s] \in {"open", "rebasing"}
          /\ coverDirty \subseteq coverDirty'
          /\ UNCHANGED <<kind, exposed>>
      BY <1>5 DEF RebaseFile, SetCoverLine, TypeOK, history
    <2>2. QED
      BY <2>1 DEF TypeOK
  <1>6. ASSUME NEW s \in Sessions,
               RebaseFails(s) \/ \E f \in Files : UpdateFileFails(s, f)
        PROVE  ExposedPending' /\ RebasersRebase'
    BY <1>6 DEF RebaseFails, UpdateFileFails, GoesOn, TypeOK, dirty, history
  <1>7. ASSUME NEW s \in Sessions, NEW outcome \in Outcome, PutMeta(s, outcome),
               pc'[s] \in {"flushing", "failed", "closing"}, kind' = kind,
               \A t \in Sessions \ {s} : pc'[t] = pc[t]
        PROVE  ExposedPending' /\ RebasersRebase'
    <2>1. coverDirty' = coverDirty
      BY <1>7 DEF PutMeta
    <2>2. \A t \in exposed' : t \in exposed \/ (t = s /\ s \in coverDirty)
      BY <1>7 DEF PutMeta, Mark, history
    <2>3. QED
      BY <1>7, <2>1, <2>2 DEF TypeOK
  <1>8. ASSUME NEW s \in Sessions, FlushMeta(s) PROVE ExposedPending' /\ RebasersRebase'
    BY <1>7, <1>8 DEF FlushMeta, TypeOK
  <1>9. ASSUME NEW s \in Sessions, FlushCover(s) PROVE ExposedPending' /\ RebasersRebase'
    BY <1>9 DEF FlushCover, TypeOK, history
  <1>10. ASSUME NEW s \in Sessions, CloseMeta(s) PROVE ExposedPending' /\ RebasersRebase'
    <2>1. /\ pc'[s] = "closing" /\ kind' = kind
          /\ \A t \in Sessions \ {s} : pc'[t] = pc[t]
      BY <1>10 DEF CloseMeta, TypeOK
    <2>2. CASE \E outcome \in Outcome : PutMeta(s, outcome)
      BY <1>7, <2>1, <2>2
    <2>3. CASE UNCHANGED <<objects, dirty, history>>
      BY <2>1, <2>3 DEF TypeOK, dirty, history
    <2>4. QED
      BY <1>10, <2>2, <2>3 DEF CloseMeta
  <1>11. CASE UNCHANGED vars
    BY <1>11 DEF vars
  <1>12. QED
    BY <1>1, <1>2, <1>3, <1>4, <1>5, <1>6, <1>8, <1>9, <1>10, <1>11
    DEF Next, SessionStep, OpenCoverFails, CloseCover, Abandon, Crash

(* Every step keeps the invariant of commits.                              *)
LEMMA CommitInvStep == CommitInv /\ [Next]_vars => CommitInv'
  BY SessionInvStep, PendingStep, CoherentStep DEF CommitInv

(* The invariant of commits holds in every state.                          *)
LEMMA CommitInvariant == Spec => []CommitInv
  <1>1. Init => CommitInv
    <2> SUFFICES ASSUME Init PROVE CommitInv
      OBVIOUS
    <2>1. SessionInv
      BY DEF Init, SessionInv, TypeOK, Places, EmptyTree, Entry, Present,
             NothingOwned, ReadYourWrites, FlushedClean, FreshCopies,
             CommittedTree, HasLocal
    <2>2. ExposedPending /\ RebasersRebase
      BY DEF Init, ExposedPending, RebasersRebase
    <2>3. Settled(cno)
      BY EmptyTreeRight DEF Init, Settled
    <2>4. OneExposed /\ OpeningSettled /\ FreshRight /\ ReadersSafe
      BY DEF Init, OneExposed, OpeningSettled, FreshRight, ReadersSafe, HasLocal
    <2>5. QED
      BY <2>1, <2>2, <2>3, <2>4 DEF CommitInv, Coherent
  <1>2. QED
    BY <1>1, CommitInvStep, PTL DEF Spec

(* As long as no stale session stored an object and no session ended half  *)
(* way through its two uploads, the stored .cno indexes the stored .cda:   *)
(* for any number of sessions, with failing uploads and crashes.           *)
THEOREM IndexFitsBlocks == Spec => []IndexMatchesLines
  <1>1. CommitInv => IndexMatchesLines
    BY DEF CommitInv, Coherent, Settled, IndexMatchesLines
  <1>2. QED
    BY <1>1, CommitInvariant, PTL

(* A reader that downloads the two objects of a report while others change *)
(* it is shown the lines its tree tells of, or a dangling offset: never    *)
(* the lines of another file or of another version.                        *)
THEOREM ReadersSeeOneVersion == Spec => []ReadersNeverMisled
  <1>1. CommitInv => ReadersNeverMisled
    BY DEF CommitInv, Coherent, ReadersSafe, NotMisled, ReadersNeverMisled
  <1>2. QED
    BY <1>1, CommitInvariant, PTL

-----------------------------------------------------------------------------
(***************************************************************************)
(* The refinement: the two objects and the sessions that change them       *)
(* implement the one value of ReportPromise.                               *)
(***************************************************************************)
(* A session that holds nothing open is not stale and has an empty tree.   *)
IdleClean == \A s \in Sessions : pc[s] = "idle" => s \notin stale /\ tree[s] = EmptyTree

PromiseInv == CommitInv /\ IdleClean

Active == {s \in Sessions : pc[s] # "idle"}
View == [s \in Sessions |-> LinesOf(tree[s])]

(* What a client can read is what the entries of the .cno tell of.         *)
LEMMA ReadableIsIndexed == CommitInv /\ Undamaged => ReadableReport = LinesOf(cno)
  <1> SUFFICES ASSUME CommitInv, Undamaged PROVE ReadableReport = LinesOf(cno)
    OBVIOUS
  <1> USE DEF CommitInv, SessionInv
  <1>1. AllRight(cno, Future)
    <2>1. CASE Quiescent
      BY <2>1 DEF Coherent, Settled, Future
    <2>2. CASE ~Quiescent
      <3>1. \E u \in Sessions : u \in exposed
        BY <2>2 DEF Quiescent, TypeOK
      <3>2. (CHOOSE u \in Sessions : u \in exposed) \in exposed
        BY <3>1
      <3>3. QED
        BY <2>2, <3>2 DEF Coherent, Settled, Future
    <2>3. QED
      BY <2>1, <2>2
  <1>2. ASSUME NEW f \in Files
        PROVE  (IF cno[f] = NoEntry THEN NoLines
                ELSE IF Right(f, cno[f], Future) THEN cno[f].lines
                ELSE Unreadable) = cno[f].lines
    BY <1>1 DEF AllRight, Present, NoEntry
  <1>3. QED
    BY <1>2 DEF ReadableReport, LinesOf

(* An ended session leaves nothing behind.                                 *)
LEMMA IdleStep == PromiseInv /\ [Next]_vars => IdleClean'
  <1> SUFFICES ASSUME PromiseInv, [Next]_vars PROVE IdleClean'
    OBVIOUS
  <1> USE DEF PromiseInv, CommitInv, SessionInv, TypeOK, IdleClean
  <1>1. ASSUME NEW s \in Sessions, NEW k \in Kinds, OpenMeta(s, k) PROVE IdleClean'
    BY <1>1 DEF OpenMeta, history
  <1>2. ASSUME NEW s \in Sessions, OpenCover(s) PROVE IdleClean'
    BY <1>2 DEF OpenCover
  <1>3. ASSUME NEW S \in SUBSET Sessions, EndSessions(S),
               \A t \in stale' : t \notin S /\ (t \in stale \/ pc[t] # "idle")
        PROVE  IdleClean'
    BY <1>3 DEF EndSessions
  <1>4. ASSUME NEW s \in Sessions, pc[s] # "idle", pc'[s] # "idle",
               \A t \in Sessions \ {s} : pc'[t] = pc[t] /\ tree'[t] = tree[t],
               \A t \in stale' : t \in stale \/ pc[t] # "idle"
        PROVE  IdleClean'
    BY <1>4
  <1>5. ASSUME NEW s \in Sessions, NEW f \in Files, NEW lines \in Lines,
               AddFile(s, f, lines) \/ UpdateFile(s, f, lines)
        PROVE  IdleClean'
    BY <1>4, <1>5 DEF AddFile, UpdateFile, SetEntry, control, history
  <1>6. ASSUME NEW s \in Sessions, NEW f \in Files, NEW lines \in Lines,
               AddFileFails(s, f, lines)
        PROVE  IdleClean'
    BY <1>4, <1>6 DEF AddFileFails, GoesOn, history
  <1>7. ASSUME NEW s \in Sessions, NEW f \in Files, RebaseFile(s, f) PROVE IdleClean'
    BY <1>4, <1>7 DEF RebaseFile, SetEntry, history
  <1>8. ASSUME NEW s \in Sessions,
               RebaseFails(s) \/ \E f \in Files : UpdateFileFails(s, f)
        PROVE  IdleClean'
    BY <1>4, <1>8 DEF RebaseFails, UpdateFileFails, GoesOn, copies, history
  <1>9. ASSUME NEW s \in Sessions, FlushMeta(s) \/ CloseMeta(s) PROVE IdleClean'
    <2>1. /\ pc[s] # "idle" /\ pc'[s] # "idle"
          /\ \A t \in Sessions \ {s} : pc'[t] = pc[t]
          /\ tree' = tree
      BY <1>9 DEF FlushMeta, CloseMeta, copies
    <2>2. \A t \in stale' : t \in stale \/ pc[t] # "idle"
      BY <1>9 DEF FlushMeta, CloseMeta, PutMeta, history
    <2>3. QED
      BY <1>4, <2>1, <2>2
  <1>10. ASSUME NEW s \in Sessions, FlushCover(s) PROVE IdleClean'
    <2>1. /\ pc[s] # "idle" /\ pc'[s] # "idle"
          /\ \A t \in Sessions \ {s} : pc'[t] = pc[t]
          /\ tree' = tree
      BY <1>10 DEF FlushCover, copies
    <2>2. \A t \in stale' : t \in stale \/ pc[t] # "idle"
      BY <1>10 DEF FlushCover, OutdatedByCover, history
    <2>3. QED
      BY <1>4, <2>1, <2>2
  <1>11. ASSUME NEW s \in Sessions, OpenCoverFails(s) \/ Abandon(s) PROVE IdleClean'
    BY <1>3, <1>11 DEF OpenCoverFails, Abandon
  <1>12. ASSUME NEW s \in Sessions, CloseCover(s) PROVE IdleClean'
    <2>1. \A t \in stale' : t \notin {s} /\ (t \in stale \/ pc[t] # "idle")
      BY <1>12 DEF CloseCover, OutdatedByCover
    <2>2. QED
      BY <1>3, <1>12, <2>1 DEF CloseCover
  <1>13. CASE Crash
    BY <1>3, <1>13 DEF Crash
  <1>14. CASE UNCHANGED vars
    BY <1>14 DEF vars
  <1>15. QED
    BY <1>1, <1>2, <1>5, <1>6, <1>7, <1>8, <1>9, <1>10, <1>11, <1>12, <1>13, <1>14
    DEF Next, SessionStep

(* What the refinement needs holds in every state.                         *)
LEMMA PromiseInvariant == Spec => []PromiseInv
  <1>1. Init => IdleClean
    BY DEF Init, IdleClean
  <1>2. QED
    BY <1>1, IdleStep, CommitInvStep, CommitInvariant, PTL DEF Spec, PromiseInv

(***************************************************************************)
(* The steps, one lemma for each action of the promise they map to.        *)
(***************************************************************************)
LEMMA BeginMaps ==
    ASSUME PromiseInv, NEW s \in Sessions, NEW k \in Kinds, OpenMeta(s, k),
           ReadableReport = LinesOf(cno), ReadableReport' = ReadableReport
    PROVE  Promise!Begin(s)
  <1> USE DEF PromiseInv, CommitInv, SessionInv, TypeOK
  <1>1. s \notin Active /\ Active' = Active \cup {s}
    BY DEF OpenMeta, Active
  <1>2. LinesOf(EmptyTree) = Promise!Empty
    BY DEF LinesOf, EmptyTree, NoEntry, Promise!Empty
  <1>3. \E v \in {ReadableReport, Promise!Empty} : View' = [View EXCEPT ![s] = v]
    <2>1. LinesOf(tree'[s]) \in {ReadableReport, Promise!Empty}
      BY <1>2 DEF OpenMeta
    <2>2. View' = [View EXCEPT ![s] = LinesOf(tree'[s])]
      BY DEF OpenMeta, View
    <2>3. QED
      BY <2>1, <2>2
  <1>4. stale \subseteq stale' /\ stale' \subseteq Active'
    BY <1>1 DEF OpenMeta, history, Active, IdleClean
  <1>5. damage' = damage
    BY DEF OpenMeta, history
  <1>6. QED
    BY <1>1, <1>3, <1>4, <1>5 DEF Promise!Begin, Promise!OutdatedGrows, Active, View

(* A change of an entry by a running session is a change of its view.      *)
LEMMA ChangeMaps ==
    ASSUME PromiseInv, NEW s \in Sessions, NEW f \in Files, NEW lines \in Lines,
           SetEntry(s, f, lines), pc[s] # "idle", pc'[s] # "idle",
           \A t \in Sessions \ {s} : pc'[t] = pc[t],
           UNCHANGED <<stale, damage>>, ReadableReport' = ReadableReport
    PROVE  Promise!Change(s)
  <1> USE DEF PromiseInv, CommitInv, SessionInv, TypeOK
  <1>1. s \in Active /\ Active' = Active
    BY DEF Active
  <1>2. View' = [View EXCEPT ![s][f] = lines]
    <2>1. tree'[s] = [tree[s] EXCEPT ![f] = [off |-> NewOffset(s), lines |-> lines]]
      BY DEF SetEntry
    <2>2. LinesOf(tree'[s]) = [LinesOf(tree[s]) EXCEPT ![f] = lines]
      <3>1. \A g \in Files : tree'[s][g].lines = IF g = f THEN lines ELSE tree[s][g].lines
        BY <2>1
      <3>2. QED
        BY <3>1 DEF LinesOf
    <2>3. \A t \in Sessions \ {s} : LinesOf(tree'[t]) = LinesOf(tree[t])
      BY DEF SetEntry
    <2>4. QED
      BY <2>2, <2>3 DEF View
  <1>3. stale \subseteq stale' /\ stale' \subseteq Active'
    BY <1>1 DEF Active, IdleClean
  <1>4. QED
    BY <1>1, <1>2, <1>3 DEF Promise!Change, Promise!OutdatedGrows, Active, View

(* A session that becomes stale is an outdated one of the promise.         *)
LEMMA OutdateMaps ==
    ASSUME PromiseInv, NEW s \in Sessions, pc[s] # "idle", pc'[s] # "idle",
           \A t \in Sessions \ {s} : pc'[t] = pc[t],
           tree' = tree, damage' = damage,
           stale \subseteq stale', \A t \in stale' : t \in Active,
           ReadableReport' = ReadableReport
    PROVE  Promise!Outdate
  <1>1. Active' = Active
    BY DEF Active
  <1>2. View' = View
    BY DEF View
  <1>3. stale \subseteq stale' /\ stale' \subseteq Active'
    BY <1>1
  <1>4. QED
    BY <1>1, <1>2, <1>3 DEF Promise!Outdate, Promise!OutdatedGrows, Active, View

(* Writing the tree is the commit of the promise.                          *)
LEMMA CommitMaps ==
    ASSUME PromiseInv, NEW s \in Sessions, pc[s] # "idle", pc'[s] # "idle",
           \A t \in Sessions \ {s} : pc'[t] = pc[t],
           tree' = tree, damage' = damage, s \notin stale,
           stale' = stale \cup {t \in Sessions \ {s} : pc[t] # "idle"},
           ReadableReport' = LinesOf(tree[s])
    PROVE  Promise!Commit(s)
  <1>1. s \in Active \ stale /\ Active' = Active
    BY DEF Active
  <1>2. View' = View /\ ReadableReport' = View[s]
    BY DEF View
  <1>3. stale' = Active \ {s}
    BY DEF Active, PromiseInv, CommitInv, SessionInv, TypeOK, IdleClean
  <1>4. QED
    BY <1>1, <1>2, <1>3 DEF Promise!Commit, Active, View

(* The end of a session is its end in the promise.                         *)
LEMMA EndMaps ==
    ASSUME PromiseInv, NEW S \in SUBSET Sessions, EndSessions(S),
           damage' = damage, stale \ S \subseteq stale',
           \A t \in stale' : t \in Active \ S,
           ReadableReport' = ReadableReport
    PROVE  Promise!End
  <1>1. Active' = Active \ S
    BY DEF Active, EndSessions
  <1>2. LinesOf(EmptyTree) = Promise!Empty
    BY DEF LinesOf, EmptyTree, NoEntry, Promise!Empty
  <1>3. View' = [s \in Sessions |-> IF s \in Active' THEN View[s] ELSE Promise!Empty]
    <2>1. ASSUME NEW s \in Sessions
          PROVE  LinesOf(tree'[s]) = IF s \in Active' THEN LinesOf(tree[s]) ELSE Promise!Empty
      BY <1>1, <1>2 DEF EndSessions, PromiseInv, IdleClean, Active
    <2>2. QED
      BY <2>1 DEF View
  <1>4. stale \cap Active' \subseteq stale' /\ stale' \subseteq Active'
    BY <1>1
  <1>5. QED
    BY <1>1, <1>3, <1>4 DEF Promise!End, Active, View

(* An upload of .cno commits; one that fails changes nothing promised.     *)
LEMMA PutMetaMaps ==
    ASSUME PromiseInv, Undamaged', NEW s \in Sessions, NEW outcome \in Outcome,
           PutMeta(s, outcome), pc[s] # "idle", pc'[s] # "idle",
           \A t \in Sessions \ {s} : pc'[t] = pc[t], tree' = tree,
           ReadableReport = LinesOf(cno), ReadableReport' = LinesOf(cno')
    PROVE  Promise!Commit(s) \/ Promise!Outdate
  <1>1. CASE outcome = "failed"
    <2>1. UNCHANGED <<cno, stale, damage>>
      BY <1>1 DEF PutMeta, history
    <2>2. \A t \in stale' : t \in Active
      BY <2>1 DEF Active, PromiseInv, CommitInv, SessionInv, TypeOK, IdleClean
    <2>3. QED
      BY <2>1, <2>2, OutdateMaps
  <1>2. CASE outcome # "failed"
    <2>1. /\ cno' = tree[s]
          /\ stale' = stale \cup {t \in Sessions \ {s} : pc[t] # "idle"}
          /\ Overlap(s)
      BY <1>2 DEF PutMeta
    <2>2. s \notin stale /\ damage' = damage
      BY <2>1 DEF Overlap, Undamaged
    <2>3. QED
      BY <2>1, <2>2, CommitMaps
  <1>3. QED
    BY <1>1, <1>2

(* Without damage, every step is one of the promise or changes nothing of  *)
(* it.                                                                     *)
LEMMA UndamagedStep ==
    ASSUME PromiseInv, [Next]_vars, Undamaged', Undamaged,
           ReadableReport = LinesOf(cno), ReadableReport' = LinesOf(cno')
    PROVE  [Promise!Next]_(Promise!vars)
  <1> USE DEF PromiseInv, CommitInv, SessionInv
  <1>0. \A t \in stale : t \in Active
    BY DEF TypeOK, IdleClean, Active
  <1>1. ASSUME NEW s \in Sessions, NEW k \in Kinds, OpenMeta(s, k) PROVE Promise!Next
    BY <1>1, BeginMaps DEF OpenMeta, objects, Promise!Next
  <1>2. ASSUME NEW s \in Sessions, OpenCover(s) PROVE Promise!Next
    <2>1. /\ UNCHANGED <<cno, tree, damage>>
          /\ pc[s] # "idle" /\ pc'[s] # "idle"
          /\ \A t \in Sessions \ {s} : pc'[t] = pc[t]
          /\ stale \subseteq stale' /\ stale' \subseteq stale \cup {s}
      BY <1>2 DEF OpenCover, TypeOK, objects
    <2>2. \A t \in stale' : t \in Active
      BY <1>0, <2>1 DEF Active
    <2>3. QED
      BY <2>1, <2>2, OutdateMaps DEF Promise!Next
  <1>3. ASSUME NEW s \in Sessions, OpenCoverFails(s) \/ Abandon(s) PROVE Promise!Next
    <2>1. EndSessions({s}) /\ UNCHANGED <<cno, cda>> /\ stale' = stale \ {s}
      BY <1>3 DEF OpenCoverFails, Abandon, objects
    <2>2. damage' = damage
      BY DEF Undamaged
    <2>3. QED
      BY <1>0, <2>1, <2>2, EndMaps DEF Promise!Next
  <1>4. ASSUME NEW s \in Sessions, NEW f \in Files, NEW lines \in Lines,
               AddFile(s, f, lines) \/ UpdateFile(s, f, lines)
        PROVE  Promise!Next
    <2>1. /\ SetEntry(s, f, lines) /\ pc[s] = "open"
          /\ UNCHANGED <<pc, cno, stale, damage>>
      BY <1>4 DEF AddFile, UpdateFile, control, objects, history
    <2>2. QED
      BY <2>1, ChangeMaps DEF Promise!Next
  <1>5. ASSUME NEW s \in Sessions, NEW f \in Files, RebaseFile(s, f) PROVE Promise!Next
    <2>1. f \in todo[s] /\ ~Dangling(tree[s][f], local[s])
      BY <1>5 DEF RebaseFile
    <2> DEFINE lines == local[s][tree[s][f].off].lines
    <2>2. lines \in Lines /\ f \in Files
      BY <2>1, RebaseReads
    <2>3. /\ SetEntry(s, f, lines) /\ pc[s] = "rebasing" /\ pc'[s] \in {"open", "rebasing"}
          /\ \A t \in Sessions \ {s} : pc'[t] = pc[t]
          /\ UNCHANGED <<cno, stale, damage>>
      BY <1>5 DEF TypeOK, RebaseFile, objects, history
    <2> HIDE DEF lines
    <2>4. QED
      BY <2>2, <2>3, ChangeMaps DEF Promise!Next
  <1>6. ASSUME NEW s \in Sessions, pc[s] # "idle", pc'[s] # "idle",
               \A t \in Sessions \ {s} : pc'[t] = pc[t],
               UNCHANGED <<cno, tree, stale, damage>>
        PROVE  Promise!Next
    BY <1>0, <1>6, OutdateMaps DEF Promise!Next
  <1>7. ASSUME NEW s \in Sessions,
               \/ \E f \in Files, lines \in Lines : AddFileFails(s, f, lines)
               \/ \E f \in Files : UpdateFileFails(s, f)
               \/ RebaseFails(s)
        PROVE  Promise!Next
    <2>1. /\ pc[s] \in {"open", "rebasing"} /\ pc'[s] \in {"open", "failed"}
          /\ \A t \in Sessions \ {s} : pc'[t] = pc[t]
          /\ UNCHANGED <<cno, tree, stale, damage>>
      BY <1>7
      DEF TypeOK, AddFileFails, UpdateFileFails, RebaseFails, GoesOn, objects, copies, history
    <2>2. QED
      BY <1>6, <2>1
  <1>8. ASSUME NEW s \in Sessions, NEW outcome \in Outcome, PutMeta(s, outcome),
               pc[s] # "idle", pc'[s] # "idle",
               \A t \in Sessions \ {s} : pc'[t] = pc[t], tree' = tree
        PROVE  Promise!Next
    BY <1>8, PutMetaMaps DEF Promise!Next
  <1>9. ASSUME NEW s \in Sessions, FlushMeta(s) PROVE Promise!Next
    BY <1>8, <1>9 DEF FlushMeta, TypeOK, copies
  <1>10. ASSUME NEW s \in Sessions, FlushCover(s) PROVE Promise!Next
    <2>1. /\ UNCHANGED <<cno, tree>> /\ pc[s] # "idle" /\ pc'[s] # "idle"
          /\ \A t \in Sessions \ {s} : pc'[t] = pc[t]
          /\ stale' \in {stale, OutdatedByCover(s)}
      BY <1>10 DEF FlushCover, TypeOK, copies, history
    <2>2. damage' = damage
      BY DEF Undamaged
    <2>3. stale \subseteq stale' /\ \A t \in stale' : t \in Active
      BY <1>0, <2>1 DEF OutdatedByCover, Active
    <2>4. QED
      BY <2>1, <2>2, <2>3, OutdateMaps DEF Promise!Next
  <1>11. ASSUME NEW s \in Sessions, CloseMeta(s) PROVE Promise!Next
    <2>1. /\ pc[s] # "idle" /\ pc'[s] # "idle" /\ tree' = tree
          /\ \A t \in Sessions \ {s} : pc'[t] = pc[t]
      BY <1>11 DEF CloseMeta, TypeOK, copies
    <2>2. CASE \E outcome \in Outcome : PutMeta(s, outcome)
      BY <1>8, <2>1, <2>2
    <2>3. CASE UNCHANGED <<objects, dirty, history>>
      BY <1>6, <2>1, <2>3 DEF objects, history
    <2>4. QED
      BY <1>11, <2>2, <2>3 DEF CloseMeta
  <1>12. ASSUME NEW s \in Sessions, CloseCover(s) PROVE Promise!Next
    <2>1. /\ EndSessions({s}) /\ cno' = cno
          /\ stale' \in {stale \ {s}, OutdatedByCover(s) \ {s}}
      BY <1>12 DEF CloseCover
    <2>2. damage' = damage
      BY DEF Undamaged
    <2>3. stale \ {s} \subseteq stale' /\ \A t \in stale' : t \in Active \ {s}
      BY <1>0, <2>1 DEF OutdatedByCover, Active
    <2>4. QED
      BY <2>1, <2>2, <2>3, EndMaps DEF Promise!Next
  <1>13. CASE Crash
    <2>1. EndSessions(Sessions) /\ cno' = cno /\ stale' = {}
      BY <1>13 DEF Crash, objects
    <2>2. damage' = damage /\ stale \ Sessions = {}
      BY DEF Undamaged, TypeOK
    <2>3. QED
      BY <2>1, <2>2, EndMaps DEF Promise!Next
  <1>14. CASE UNCHANGED vars
    <2>1. Active' = Active /\ View' = View
      BY <1>14 DEF vars, Active, View
    <2>2. UNCHANGED <<ReadableReport, stale, damage>>
      BY <1>14 DEF vars
    <2>3. QED
      BY <2>1, <2>2 DEF Promise!vars, Active, View
  <1>15. QED
    BY <1>1, <1>2, <1>3, <1>4, <1>5, <1>7, <1>9, <1>10, <1>11, <1>12, <1>13, <1>14
    DEF Next, SessionStep

(* Every behaviour of the objects and sessions is one of the promise: the  *)
(* upload of .cno commits the session's tree, all of it readable, at one   *)
(* instant, and a stale session's commit is never part of it, unless the   *)
(* report is spoiled.                                                      *)
THEOREM StoreKeepsPromise == Spec => KeepsPromise
  <1>1. Init => Promise!Init
    <2> SUFFICES ASSUME Init PROVE Promise!Init
      OBVIOUS
    <2>1. LinesOf(EmptyTree) = Promise!Empty
      BY DEF LinesOf, EmptyTree, NoEntry, Promise!Empty
    <2>2. ReadableReport = Promise!Empty
      BY DEF Init, ReadableReport, EmptyTree, Promise!Empty
    <2>3. View = [s \in Sessions |-> Promise!Empty]
      BY <2>1 DEF Init, View
    <2>4. Active = {} /\ stale = {} /\ damage = {}
      BY DEF Init, Active
    <2>5. QED
      BY <2>2, <2>3, <2>4 DEF Promise!Init, Active, View
  <1>2. PromiseInv /\ PromiseInv' /\ [Next]_vars => [Promise!Next]_(Promise!vars)
    <2> SUFFICES ASSUME PromiseInv, PromiseInv', [Next]_vars
                 PROVE  [Promise!Next]_(Promise!vars)
      OBVIOUS
    <2>1. CASE ~Undamaged'
      BY <2>1 DEF Undamaged, Promise!Next, Promise!Spoil
    <2>2. CASE Undamaged'
      <3>1. Undamaged
        BY <2>2, DamageGrows DEF Undamaged
      <3>2. ReadableReport = LinesOf(cno)
        BY <3>1, ReadableIsIndexed DEF PromiseInv
      <3>3. (ReadableReport = LinesOf(cno))'
        BY <2>2, ReadableIsIndexed, PTL DEF PromiseInv
      <3>4. QED
        BY <2>2, <3>1, <3>2, <3>3, UndamagedStep
    <2>3. QED
      BY <2>1, <2>2
  <1>3. QED
    BY <1>1, <1>2, PromiseInvariant, PTL DEF Spec, KeepsPromise, Promise!Spec
=============================================================================
