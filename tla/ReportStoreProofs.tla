-------------------------- MODULE ReportStoreProofs --------------------------
(***************************************************************************)
(* Proofs about ReportStore, for any sessions, files, contents and bound.  *)
(***************************************************************************)
EXTENDS ReportStore, TLAPS

(***************************************************************************)
(* Type correctness.                                                       *)
(***************************************************************************)

(* Ending a set of sessions resets them and leaves the others typed.       *)
LEMMA EndSessionsType ==
    ASSUME TypeOK, NEW S \in SUBSET Sessions, EndSessions(S),
           cno' \in [Files -> Entry], cda' \in Seq(Block),
           stale' \subseteq Sessions, damage' \subseteq {"overlap", "torn"}
    PROVE  TypeOK'
  <1>1. EmptyTree \in [Files -> Entry]
    BY DEF EmptyTree, Entry
  <1>2. /\ pc' \in [Sessions -> Places]
        /\ kind' \in [Sessions -> AllKinds \cup {"none"}]
    BY DEF TypeOK, EndSessions, Places
  <1>3. /\ tree' \in [Sessions -> [Files -> Entry]]
        /\ local' \in [Sessions -> Seq(Block)]
        /\ todo' \in [Sessions -> SUBSET Files]
        /\ own' \in [Sessions -> SUBSET Files]
    BY <1>1 DEF TypeOK, EndSessions
  <1>4. \A s \in Sessions : todo'[s] \subseteq Present(tree'[s])
    BY DEF TypeOK, EndSessions, Present
  <1>5. \A s \in Sessions : pc'[s] # "rebasing" => todo'[s] = {}
    BY DEF TypeOK, EndSessions
  <1>6. metaDirty' \subseteq Sessions /\ coverDirty' \subseteq Sessions /\ exposed' \subseteq Sessions
    BY DEF TypeOK, EndSessions
  <1>7. QED
    BY <1>2, <1>3, <1>4, <1>5, <1>6 DEF TypeOK

(* Appending a block keeps the local copies typed.                         *)
LEMMA AppendType ==
    ASSUME TypeOK, NEW s \in Sessions, NEW f \in Files, NEW lines \in Lines,
           SetCoverLine(s, f, lines)
    PROVE  /\ local' \in [Sessions -> Seq(Block)]
           /\ coverDirty' \subseteq Sessions
  <1> DEFINE b == [file |-> f, lines |-> lines]
  <1>1. b \in Block
    BY DEF Block
  <1>2. local[s] \in Seq(Block)
    BY DEF TypeOK
  <1>3. Append(local[s], b) \in Seq(Block)
    BY <1>1, <1>2
  <1>4. QED
    BY <1>3 DEF TypeOK, SetCoverLine

(* Appending a block and entering it in the tree keeps both typed.         *)
LEMMA WriteType ==
    ASSUME TypeOK, NEW s \in Sessions, NEW f \in Files, NEW lines \in Lines,
           SetCoverLine(s, f, lines), SetEntry(s, f, lines)
    PROVE  /\ tree' \in [Sessions -> [Files -> Entry]]
           /\ local' \in [Sessions -> Seq(Block)]
           /\ coverDirty' \subseteq Sessions
           /\ own' \in [Sessions -> SUBSET Files]
           /\ \A t \in Sessions : Present(tree[t]) \subseteq Present(tree'[t])
  <1>1. local' \in [Sessions -> Seq(Block)] /\ coverDirty' \subseteq Sessions
    BY AppendType
  <1>2. [off |-> NewOffset(s), lines |-> lines] \in Entry
    BY ConstantsAssumption DEF TypeOK, SetCoverLine, Entry, NewOffset
  <1>3. [off |-> NewOffset(s), lines |-> lines] # NoEntry
    BY ConstantsAssumption DEF NoEntry
  <1>4. tree' \in [Sessions -> [Files -> Entry]]
    BY <1>2 DEF TypeOK, SetEntry
  <1>5. \A t \in Sessions : Present(tree[t]) \subseteq Present(tree'[t])
    BY <1>3 DEF TypeOK, SetEntry, Present
  <1>6. own' \in [Sessions -> SUBSET Files]
    BY DEF TypeOK, SetEntry
  <1>7. QED
    BY <1>1, <1>4, <1>5, <1>6

(* What a rebase reads through an entry that is not dangling is lines.     *)
LEMMA RebaseReads ==
    ASSUME TypeOK, NEW s \in Sessions, NEW f \in todo[s],
           ~Dangling(tree[s][f], local[s])
    PROVE  /\ f \in Files
           /\ tree[s][f].off \in 1..Len(local[s])
           /\ local[s][tree[s][f].off].lines \in Lines
  <1>1. f \in Files /\ tree[s][f] \in [off : 1..MaxBlocks, lines : Lines]
    BY DEF TypeOK, Present, Entry
  <1>2. local[s] \in Seq(Block)
    BY DEF TypeOK
  <1>3. tree[s][f].off \in 1..Len(local[s])
    BY <1>1, <1>2, ConstantsAssumption DEF Dangling
  <1>4. local[s][tree[s][f].off] \in Block
    BY <1>2, <1>3
  <1>5. QED
    BY <1>1, <1>3, <1>4 DEF Block

(* An upload of .cno keeps what it changes typed.                          *)
LEMMA PutMetaType ==
    ASSUME TypeOK, NEW s \in Sessions, NEW outcome \in Outcome, PutMeta(s, outcome)
    PROVE  /\ cno' \in [Files -> Entry]
           /\ cda' \in Seq(Block)
           /\ metaDirty' \subseteq Sessions
           /\ coverDirty' \subseteq Sessions
           /\ stale' \subseteq Sessions
           /\ exposed' \subseteq Sessions
           /\ damage' \subseteq {"overlap", "torn"}
  <1>1. CASE outcome = "failed"
    BY <1>1 DEF TypeOK, PutMeta, Mark, history
  <1>2. CASE outcome # "failed"
    <2>1. cno' = tree[s] /\ UNCHANGED <<cda, coverDirty>>
      BY <1>2 DEF PutMeta
    <2>2. metaDirty' \subseteq Sessions /\ stale' \subseteq Sessions /\ exposed' \subseteq Sessions
      BY <1>2 DEF TypeOK, PutMeta, Mark
    <2>3. damage' \subseteq {"overlap", "torn"}
      BY <1>2 DEF TypeOK, PutMeta, Overlap
    <2>4. QED
      BY <2>1, <2>2, <2>3 DEF TypeOK
  <1>3. QED
    BY <1>1, <1>2

(* Every step keeps the types.                                             *)
LEMMA TypeStep == TypeOK /\ [Next]_vars => TypeOK'
  <1> SUFFICES ASSUME TypeOK, [Next]_vars PROVE TypeOK'
    OBVIOUS
  <1>1. ASSUME NEW s \in Sessions, NEW k \in Kinds, OpenMeta(s, k) PROVE TypeOK'
    <2>1. /\ UNCHANGED <<objects, local, own, dirty, todo, history>>
          /\ pc' = [pc EXCEPT ![s] = "metaOpen"]
          /\ kind' = [kind EXCEPT ![s] = k]
      BY <1>1 DEF OpenMeta
    <2>2. kind' \in [Sessions -> AllKinds \cup {"none"}]
      BY <2>1, ConstantsAssumption DEF TypeOK
    <2>3. pc' \in [Sessions -> Places]
      BY <2>1 DEF TypeOK, Places
    <2>4. EmptyTree \in [Files -> Entry]
      BY DEF EmptyTree, Entry
    <2>5. /\ tree' \in [Sessions -> [Files -> Entry]]
          /\ \A t \in Sessions \ {s} : tree'[t] = tree[t]
      BY <1>1, <2>4 DEF TypeOK, OpenMeta
    <2>6. todo[s] = {}
      BY <1>1 DEF TypeOK, OpenMeta
    <2>7. \A t \in Sessions : todo'[t] \subseteq Present(tree'[t])
      <3> SUFFICES ASSUME NEW t \in Sessions PROVE todo'[t] \subseteq Present(tree'[t])
        OBVIOUS
      <3>1. CASE t = s
        BY <2>1, <2>6, <3>1
      <3>2. CASE t # s
        BY <2>1, <2>5, <3>2 DEF TypeOK
      <3>3. QED
        BY <3>1, <3>2
    <2>8. \A t \in Sessions : pc'[t] # "rebasing" => todo'[t] = {}
      BY <2>1, <2>6 DEF TypeOK
    <2>9. QED
      BY <2>1, <2>2, <2>3, <2>5, <2>7, <2>8 DEF TypeOK, objects, dirty, history
  <1>2. ASSUME NEW s \in Sessions, OpenCover(s) PROVE TypeOK'
    <2>1. UNCHANGED <<objects, kind, tree, own, dirty, exposed, damage>>
      BY <1>2 DEF OpenCover
    <2>2. pc' \in [Sessions -> Places] /\ stale' \subseteq Sessions
      BY <1>2 DEF TypeOK, OpenCover, Places
    <2>3. local' \in [Sessions -> Seq(Block)]
      BY <1>2 DEF TypeOK, OpenCover
    <2>4. Present(tree[s]) \subseteq Files
      BY DEF Present
    <2>5. todo' \in [Sessions -> SUBSET Files]
      BY <1>2, <2>4 DEF TypeOK, OpenCover
    <2>6. \A t \in Sessions : todo'[t] \subseteq Present(tree'[t])
      BY <1>2, <2>1 DEF TypeOK, OpenCover
    <2>7. \A t \in Sessions : pc'[t] # "rebasing" => todo'[t] = {}
      BY <1>2 DEF TypeOK, OpenCover
    <2>8. QED
      BY <2>1, <2>2, <2>3, <2>5, <2>6, <2>7 DEF TypeOK, objects, dirty
  <1>3. ASSUME NEW s \in Sessions, OpenCoverFails(s) PROVE TypeOK'
    BY <1>3, EndSessionsType DEF TypeOK, OpenCoverFails, objects
  <1>4. ASSUME NEW s \in Sessions, NEW f \in Files, NEW lines \in Lines,
               AddFile(s, f, lines) \/ UpdateFile(s, f, lines)
        PROVE  TypeOK'
    <2>1. SetCoverLine(s, f, lines) /\ SetEntry(s, f, lines)
      BY <1>4 DEF AddFile, UpdateFile
    <2>2. UNCHANGED <<objects, control, metaDirty, history>>
      BY <1>4 DEF AddFile, UpdateFile
    <2>3. QED
      BY <2>1, <2>2, WriteType DEF TypeOK, objects, control, history
  <1>5. ASSUME NEW s \in Sessions, NEW f \in Files, NEW lines \in Lines,
               AddFileFails(s, f, lines)
        PROVE  TypeOK'
    <2>1. UNCHANGED <<objects, kind, tree, metaDirty, todo, own, history>>
      BY <1>5 DEF AddFileFails
    <2>2. /\ local' \in [Sessions -> Seq(Block)]
          /\ coverDirty' \subseteq Sessions
      BY <1>5, AppendType DEF AddFileFails
    <2>3. pc' \in [Sessions -> Places]
      BY <1>5 DEF TypeOK, AddFileFails, GoesOn, Places
    <2>4. \A t \in Sessions : pc'[t] # "rebasing" => todo'[t] = {}
      BY <1>5, <2>1 DEF TypeOK, AddFileFails, GoesOn
    <2>5. QED
      BY <2>1, <2>2, <2>3, <2>4 DEF TypeOK, objects, history, Present
  <1>6. ASSUME NEW s \in Sessions, NEW f \in Files, RebaseFile(s, f) PROVE TypeOK'
    <2>1. f \in todo[s] /\ ~Dangling(tree[s][f], local[s])
      BY <1>6 DEF RebaseFile
    <2> DEFINE lines == local[s][tree[s][f].off].lines
    <2>2. lines \in Lines
      BY <2>1, RebaseReads
    <2>3. SetCoverLine(s, f, lines) /\ SetEntry(s, f, lines)
      BY <1>6 DEF RebaseFile
    <2> HIDE DEF lines
    <2>4. /\ tree' \in [Sessions -> [Files -> Entry]]
          /\ local' \in [Sessions -> Seq(Block)]
          /\ coverDirty' \subseteq Sessions
          /\ own' \in [Sessions -> SUBSET Files]
          /\ \A t \in Sessions : Present(tree[t]) \subseteq Present(tree'[t])
      BY <2>2, <2>3, WriteType
    <2>5. /\ todo' = [todo EXCEPT ![s] = @ \ {f}]
          /\ pc' = [pc EXCEPT ![s] = IF todo[s] = {f} THEN "open" ELSE @]
          /\ UNCHANGED <<objects, kind, metaDirty, history>>
      BY <1>6 DEF RebaseFile
    <2>6. QED
      BY <2>4, <2>5 DEF TypeOK, Places, objects, history
  <1>7. ASSUME NEW s \in Sessions, RebaseFails(s) PROVE TypeOK'
    BY <1>7 DEF TypeOK, RebaseFails, Places, objects, copies, dirty, history
  <1>8. ASSUME NEW s \in Sessions, FlushMeta(s) PROVE TypeOK'
    <2>1. PICK outcome \in Outcome : PutMeta(s, outcome)
      BY <1>8 DEF FlushMeta
    <2>2. pc' \in [Sessions -> Places]
      BY <1>8 DEF TypeOK, FlushMeta, Places
    <2>3. UNCHANGED <<kind, copies, todo>>
      BY <1>8 DEF FlushMeta
    <2>4. \A t \in Sessions : pc'[t] # "rebasing" => todo'[t] = {}
      BY <1>8, <2>3 DEF TypeOK, FlushMeta
    <2>5. QED
      BY <2>1, <2>2, <2>3, <2>4, PutMetaType DEF TypeOK, copies, Present
  <1>9. ASSUME NEW s \in Sessions, FlushCover(s) PROVE TypeOK'
    <2>1. UNCHANGED <<cno, kind, copies, metaDirty, todo>>
      BY <1>9 DEF FlushCover
    <2>2. pc' \in [Sessions -> Places]
      BY <1>9 DEF TypeOK, FlushCover, Places
    <2>3. /\ cda' \in Seq(Block)
          /\ coverDirty' \subseteq Sessions
          /\ stale' \subseteq Sessions
          /\ exposed' \subseteq Sessions
          /\ damage' \subseteq {"overlap", "torn"}
      <3>1. CASE UNCHANGED <<cda, coverDirty, history>>
        BY <3>1 DEF TypeOK, history
      <3>2. CASE /\ cda' = local[s]
                 /\ stale' = OutdatedByCover(s)
                 /\ exposed' = exposed \ {s}
                 /\ Overlap(s)
                 /\ coverDirty' = coverDirty \ {s} \/ coverDirty' = coverDirty
        <4>1. damage' \subseteq {"overlap", "torn"}
          BY <3>2 DEF TypeOK, Overlap
        <4>2. QED
          BY <3>2, <4>1 DEF TypeOK, OutdatedByCover
      <3>3. QED
        BY <1>9, <3>1, <3>2 DEF FlushCover
    <2>4. \A t \in Sessions : pc'[t] # "rebasing" => todo'[t] = {}
      BY <1>9, <2>1 DEF TypeOK, FlushCover
    <2>5. QED
      BY <2>1, <2>2, <2>3, <2>4 DEF TypeOK, copies, Present
  <1>10. ASSUME NEW s \in Sessions, CloseMeta(s) PROVE TypeOK'
    <2>1. pc' \in [Sessions -> Places]
      BY <1>10 DEF TypeOK, CloseMeta, Places
    <2>2. UNCHANGED <<kind, copies, todo>>
      BY <1>10 DEF CloseMeta
    <2>3. \A t \in Sessions : pc'[t] # "rebasing" => todo'[t] = {}
      BY <1>10, <2>2 DEF TypeOK, CloseMeta
    <2>4. CASE UNCHANGED <<objects, dirty, history>>
      BY <2>1, <2>2, <2>3, <2>4 DEF TypeOK, objects, dirty, history, copies, Present
    <2>5. CASE \E outcome \in Outcome : PutMeta(s, outcome)
      BY <2>1, <2>2, <2>3, <2>5, PutMetaType DEF TypeOK, copies, Present
    <2>6. QED
      BY <1>10, <2>4, <2>5 DEF CloseMeta
  <1>11. ASSUME NEW s \in Sessions, CloseCover(s) PROVE TypeOK'
    <2>1. EndSessions({s}) /\ cno' = cno
      BY <1>11 DEF CloseCover
    <2>2. cda' \in Seq(Block) /\ stale' \subseteq Sessions /\ damage' \subseteq {"overlap", "torn"}
      BY <1>11 DEF TypeOK, CloseCover, OutdatedByCover, Overlap, Tear
    <2>3. QED
      BY <2>1, <2>2, EndSessionsType DEF TypeOK
  <1>12. ASSUME NEW s \in Sessions, Abandon(s) PROVE TypeOK'
    BY <1>12, EndSessionsType DEF TypeOK, Abandon, Tear, objects
  <1>13. CASE Crash
    BY <1>13, EndSessionsType DEF TypeOK, Crash, Tear, objects
  <1>14. ASSUME NEW s \in Sessions, NEW f \in Files, UpdateFileFails(s, f) PROVE TypeOK'
    BY <1>14 DEF TypeOK, UpdateFileFails, GoesOn, Places, objects, copies, dirty, history
  <1>15. CASE UNCHANGED vars
    BY <1>15 DEF TypeOK, vars, Present
  <1>16. QED
    BY <1>1, <1>2, <1>3, <1>4, <1>5, <1>6, <1>7, <1>8, <1>9, <1>10, <1>11,
       <1>12, <1>13, <1>14, <1>15
    DEF Next, SessionStep

(* Every reachable state is well typed: offsets stay within the local      *)
(* copies' bound and a rebase only visits files of its tree.               *)
THEOREM TypeCorrect == Spec => []TypeOK
  <1>1. Init => TypeOK
    BY DEF Init, TypeOK, Places, EmptyTree, Entry, Present
  <1>2. QED
    BY <1>1, TypeStep, PTL DEF Spec

(***************************************************************************)
(* What a session can rely on: an inductive invariant.                     *)
(*                                                                         *)
(* A session that is not stale works on copies that only it has moved on:  *)
(* its local .cda extends the stored one, and equals it while nothing is   *)
(* dirty; once it has stored its tree, the .cno object is that tree.       *)
(***************************************************************************)
NothingOwned == \A s \in Sessions : ~HasLocal(s) => own[s] = {}

FlushedClean == \A s \in Sessions : pc[s] = "flushed" => s \notin coverDirty

FreshCopies ==
    \A s \in Sessions :
        HasLocal(s) /\ s \notin stale =>
            /\ IsPrefixOf(cda, local[s])
            /\ s \notin coverDirty => local[s] = cda

CommittedTree ==
    \A s \in Sessions :
        pc[s] \in {"flushing", "flushed"} /\ s \notin stale => cno = tree[s]

SessionInv ==
    /\ TypeOK
    /\ NothingOwned
    /\ ReadYourWrites
    /\ FlushedClean
    /\ FreshCopies
    /\ CommittedTree

(* Appending extends, and what is right stays right in an extension.       *)
LEMMA AppendExtends ==
    ASSUME NEW a \in Seq(Block), NEW b \in Block
    PROVE  IsPrefixOf(a, Append(a, b))
  BY DEF IsPrefixOf

(* A prefix of a prefix is a prefix.                                       *)
LEMMA PrefixTransitive ==
    ASSUME NEW a \in Seq(Block), NEW b \in Seq(Block), NEW c \in Seq(Block),
           IsPrefixOf(a, b), IsPrefixOf(b, c)
    PROVE  IsPrefixOf(a, c)
  BY DEF IsPrefixOf

(* An entry stays right when blocks are added.                             *)
LEMMA RightKept ==
    ASSUME NEW a \in Seq(Block), NEW b \in Seq(Block), IsPrefixOf(a, b),
           NEW f \in Files, NEW e, Right(f, e, a)
    PROVE  Right(f, e, b)
  BY DEF IsPrefixOf, Right

(* SetCoverLine extends the session's blocks and touches no others.        *)
LEMMA AppendKeeps ==
    ASSUME TypeOK, NEW s \in Sessions, NEW f \in Files, NEW lines \in Lines,
           SetCoverLine(s, f, lines)
    PROVE  /\ local'[s] = Append(local[s], [file |-> f, lines |-> lines])
           /\ local'[s] \in Seq(Block)
           /\ IsPrefixOf(local[s], local'[s])
           /\ \A t \in Sessions \ {s} : local'[t] = local[t]
           /\ s \in coverDirty'
           /\ \A t \in Sessions \ {s} : t \in coverDirty' <=> t \in coverDirty
  <1> DEFINE b == [file |-> f, lines |-> lines]
  <1>1. b \in Block /\ local[s] \in Seq(Block)
    BY DEF Block, TypeOK
  <1>2. local'[s] = Append(local[s], b)
    BY DEF TypeOK, SetCoverLine
  <1>3. IsPrefixOf(local[s], local'[s])
    BY <1>1, <1>2, AppendExtends
  <1>4. local'[s] \in Seq(Block)
    BY <1>1, <1>2
  <1>5. QED
    BY <1>2, <1>3, <1>4 DEF TypeOK, SetCoverLine

(* The copies of a session that appends a block stay fresh.                *)
LEMMA AppendFresh ==
    ASSUME SessionInv, NEW s \in Sessions, NEW f \in Files, NEW lines \in Lines,
           SetCoverLine(s, f, lines), HasLocal(s), UNCHANGED <<cda, stale>>,
           \A t \in Sessions \ {s} : pc'[t] = pc[t]
    PROVE  FreshCopies'
  <1> SUFFICES ASSUME NEW t \in Sessions, HasLocal(t)', t \notin stale
               PROVE  /\ IsPrefixOf(cda, local'[t])
                      /\ t \notin coverDirty' => local'[t] = cda
    BY DEF FreshCopies
  <1> USE DEF SessionInv
  <1>1. CASE t = s
    <2>1. IsPrefixOf(cda, local[s]) /\ IsPrefixOf(local[s], local'[s])
      BY <1>1, AppendKeeps DEF FreshCopies
    <2>2. cda \in Seq(Block) /\ local[s] \in Seq(Block) /\ local'[s] \in Seq(Block)
      BY AppendKeeps DEF TypeOK
    <2>3. IsPrefixOf(cda, local'[s])
      BY <2>1, <2>2, PrefixTransitive
    <2>4. s \in coverDirty'
      BY AppendKeeps
    <2>5. QED
      BY <1>1, <2>3, <2>4
  <1>2. CASE t # s
    <2>1. HasLocal(t)
      BY <1>2 DEF HasLocal
    <2>2. local'[t] = local[t] /\ (t \in coverDirty' <=> t \in coverDirty)
      BY <1>2, AppendKeeps
    <2>3. QED
      BY <2>1, <2>2 DEF FreshCopies
  <1>3. QED
    BY <1>1, <1>2

(* What a session that adds, updates or rebases a file keeps.              *)
LEMMA WriteKeeps ==
    ASSUME SessionInv, TypeOK', NEW s \in Sessions, NEW f \in Files, NEW lines \in Lines,
           SetCoverLine(s, f, lines), SetEntry(s, f, lines),
           pc[s] \in {"open", "rebasing"}, pc'[s] \in {"open", "rebasing"},
           \A t \in Sessions \ {s} : pc'[t] = pc[t],
           UNCHANGED <<objects, stale>>
    PROVE  SessionInv'
  <1> USE DEF SessionInv
  <1>1. /\ \A t \in Sessions \ {s} : tree'[t] = tree[t] /\ own'[t] = own[t]
        /\ own'[s] = own[s] \cup {f}
        /\ tree'[s] = [tree[s] EXCEPT ![f] = [off |-> NewOffset(s), lines |-> lines]]
    BY DEF TypeOK, SetEntry
  <1>2. NothingOwned'
    BY <1>1 DEF NothingOwned, HasLocal
  <1>3. ReadYourWrites'
    <2> SUFFICES ASSUME NEW t \in Sessions, NEW g \in own'[t]
                 PROVE  Right(g, tree'[t][g], local'[t])
      BY DEF ReadYourWrites
    <2>1. CASE t # s
      BY <2>1, <1>1, AppendKeeps DEF ReadYourWrites
    <2>2. CASE t = s /\ g = f
      <3>1. tree'[s][f] = [off |-> NewOffset(s), lines |-> lines]
        BY <1>1 DEF TypeOK
      <3>2. local'[s] = Append(local[s], [file |-> f, lines |-> lines])
        BY AppendKeeps
      <3>3. local[s] \in Seq(Block) /\ [file |-> f, lines |-> lines] \in Block
        BY DEF TypeOK, Block
      <3>4. QED
        BY <2>2, <3>1, <3>2, <3>3 DEF Right, NewOffset
    <2>3. CASE t = s /\ g # f
      <3>1. g \in own[s] /\ g \in Files
        BY <2>3, <1>1 DEF TypeOK
      <3>2. Right(g, tree[s][g], local[s])
        BY <3>1 DEF ReadYourWrites
      <3>3. /\ local[s] \in Seq(Block) /\ local'[s] \in Seq(Block)
            /\ IsPrefixOf(local[s], local'[s])
        BY AppendKeeps DEF TypeOK
      <3>4. Right(g, tree[s][g], local'[s])
        BY <3>1, <3>2, <3>3, RightKept
      <3>5. tree'[s][g] = tree[s][g]
        BY <2>3, <3>1, <1>1 DEF TypeOK
      <3>6. QED
        BY <2>3, <3>4, <3>5
    <2>4. QED
      BY <2>1, <2>2, <2>3
  <1>4. FlushedClean'
    BY AppendKeeps DEF FlushedClean
  <1>5. FreshCopies'
    BY AppendFresh DEF HasLocal, objects
  <1>6. CommittedTree'
    BY <1>1 DEF CommittedTree, objects
  <1>7. QED
    BY <1>2, <1>3, <1>4, <1>5, <1>6

(* What ending sessions keeps, whether or not one stored its .cda.         *)
LEMMA EndKeeps ==
    ASSUME SessionInv, TypeOK', NEW S \in SUBSET Sessions, EndSessions(S), cno' = cno,
           \A t \in Sessions \ S : t \notin stale' => t \notin stale,
           \A t \in Sessions \ S : HasLocal(t) /\ t \notin stale' => cda' = cda
    PROVE  SessionInv'
  <1> USE DEF SessionInv
  <1>1. \A t \in S : pc'[t] = "idle" /\ own'[t] = {}
    BY DEF EndSessions
  <1>2. \A t \in Sessions \ S :
           /\ pc'[t] = pc[t]
           /\ tree'[t] = tree[t]
           /\ local'[t] = local[t]
           /\ own'[t] = own[t]
           /\ t \in coverDirty' <=> t \in coverDirty
    BY DEF EndSessions
  <1>3. NothingOwned'
    BY <1>1, <1>2 DEF NothingOwned, HasLocal
  <1>4. ReadYourWrites'
    BY <1>1, <1>2 DEF ReadYourWrites
  <1>5. FlushedClean'
    BY <1>1, <1>2 DEF FlushedClean
  <1>6. FreshCopies'
    BY <1>1, <1>2 DEF FreshCopies, HasLocal
  <1>7. CommittedTree'
    BY <1>1, <1>2 DEF CommittedTree
  <1>8. QED
    BY <1>3, <1>4, <1>5, <1>6, <1>7

(* What an upload of .cno keeps: the other sessions become stale.          *)
LEMMA PutMetaKeeps ==
    ASSUME SessionInv, TypeOK', NEW s \in Sessions, NEW outcome \in Outcome,
           PutMeta(s, outcome), HasLocal(s), UNCHANGED <<kind, copies, todo>>,
           pc'[s] \in {"flushing", "failed", "closing"},
           pc'[s] = "flushing" => outcome = "ok",
           \A t \in Sessions \ {s} : pc'[t] = pc[t]
    PROVE  SessionInv'
  <1> USE DEF SessionInv
  <1>1. UNCHANGED <<tree, local, own, cda, coverDirty>>
    BY DEF PutMeta, copies
  <1>2. \A t \in Sessions : t \notin stale' => t \notin stale
    BY DEF PutMeta, history
  <1>3. \A t \in Sessions \ {s} : HasLocal(t) /\ t \notin stale' => cno' = cno
    BY DEF PutMeta, HasLocal
  <1>4. outcome = "ok" => cno' = tree[s]
    BY DEF PutMeta
  <1>5. NothingOwned'
    BY <1>1 DEF NothingOwned, HasLocal
  <1>6. ReadYourWrites'
    BY <1>1 DEF ReadYourWrites
  <1>7. FlushedClean'
    BY <1>1 DEF FlushedClean
  <1>8. FreshCopies'
    BY <1>1, <1>2 DEF FreshCopies, HasLocal
  <1>9. CommittedTree'
    BY <1>1, <1>2, <1>3, <1>4 DEF CommittedTree, HasLocal
  <1>10. QED
    BY <1>5, <1>6, <1>7, <1>8, <1>9

(* Every step keeps the invariant of sessions.                             *)
LEMMA SessionInvStep == SessionInv /\ [Next]_vars => SessionInv'
  <1> SUFFICES ASSUME SessionInv, [Next]_vars PROVE SessionInv'
    OBVIOUS
  <1> USE DEF SessionInv
  <1>0. TypeOK'
    BY TypeStep
  <1>1. ASSUME NEW s \in Sessions, NEW k \in Kinds, OpenMeta(s, k) PROVE SessionInv'
    <2>1. /\ UNCHANGED <<cno, cda, local, own, coverDirty, stale>>
          /\ pc[s] = "idle" /\ pc'[s] = "metaOpen"
          /\ \A t \in Sessions \ {s} : pc'[t] = pc[t] /\ tree'[t] = tree[t]
      BY <1>1 DEF TypeOK, OpenMeta, objects, dirty, history
    <2>2. own[s] = {}
      BY <2>1 DEF NothingOwned, HasLocal
    <2>3. NothingOwned' /\ FlushedClean' /\ CommittedTree'
      BY <2>1, <2>2 DEF NothingOwned, HasLocal, FlushedClean, CommittedTree
    <2>4. FreshCopies'
      BY <2>1 DEF FreshCopies, HasLocal
    <2>5. ReadYourWrites'
      BY <2>1, <2>2 DEF ReadYourWrites
    <2>6. QED
      BY <1>0, <2>3, <2>4, <2>5
  <1>2. ASSUME NEW s \in Sessions, OpenCover(s) PROVE SessionInv'
    <2>1. /\ UNCHANGED <<cno, cda, tree, own, coverDirty>>
          /\ pc[s] = "metaOpen" /\ pc'[s] \in {"open", "rebasing"}
          /\ local'[s] = cda
          /\ \A t \in Sessions \ {s} : pc'[t] = pc[t] /\ local'[t] = local[t]
          /\ \A t \in Sessions : t \notin stale' => t \notin stale
      BY <1>2 DEF TypeOK, OpenCover, objects, dirty
    <2>2. own[s] = {}
      BY <2>1 DEF NothingOwned, HasLocal
    <2>3. NothingOwned' /\ FlushedClean' /\ CommittedTree'
      BY <2>1, <2>2 DEF NothingOwned, HasLocal, FlushedClean, CommittedTree
    <2>4. IsPrefixOf(cda, cda)
      BY DEF TypeOK, IsPrefixOf
    <2>5. FreshCopies'
      BY <2>1, <2>4 DEF FreshCopies, HasLocal
    <2>6. ReadYourWrites'
      BY <2>1, <2>2 DEF ReadYourWrites
    <2>7. QED
      BY <1>0, <2>3, <2>5, <2>6
  <1>3. ASSUME NEW s \in Sessions, OpenCoverFails(s) \/ Abandon(s) PROVE SessionInv'
    <2>1. /\ EndSessions({s}) /\ UNCHANGED <<cno, cda>>
          /\ stale' = stale \ {s}
      BY <1>3 DEF OpenCoverFails, Abandon, objects
    <2>2. QED
      BY <1>0, <2>1, EndKeeps
  <1>4. ASSUME NEW s \in Sessions, NEW f \in Files, NEW lines \in Lines,
               AddFile(s, f, lines) \/ UpdateFile(s, f, lines)
        PROVE  SessionInv'
    <2>1. /\ SetCoverLine(s, f, lines) /\ SetEntry(s, f, lines)
          /\ pc[s] = "open" /\ UNCHANGED <<pc, objects, stale>>
      BY <1>4 DEF AddFile, UpdateFile, control, history
    <2>2. QED
      BY <1>0, <2>1, WriteKeeps
  <1>5. ASSUME NEW s \in Sessions, NEW f \in Files, NEW lines \in Lines,
               AddFileFails(s, f, lines)
        PROVE  SessionInv'
    <2>1. /\ SetCoverLine(s, f, lines)
          /\ pc[s] = "open" /\ pc'[s] \in {"open", "failed"}
          /\ \A t \in Sessions \ {s} : pc'[t] = pc[t]
          /\ UNCHANGED <<cno, cda, tree, own, stale>>
      BY <1>5 DEF TypeOK, AddFileFails, GoesOn, objects, history
    <2>2. NothingOwned' /\ CommittedTree'
      BY <2>1 DEF NothingOwned, HasLocal, CommittedTree
    <2>3. FlushedClean'
      BY <2>1, AppendKeeps DEF FlushedClean
    <2>4. FreshCopies'
      BY <2>1, AppendFresh DEF HasLocal
    <2>5. ReadYourWrites'
      <3> SUFFICES ASSUME NEW t \in Sessions, NEW g \in own[t]
                   PROVE  Right(g, tree[t][g], local'[t])
        BY <2>1 DEF ReadYourWrites
      <3>1. Right(g, tree[t][g], local[t]) /\ g \in Files
        BY DEF ReadYourWrites, TypeOK
      <3>2. CASE t # s
        BY <2>1, <3>1, <3>2, AppendKeeps
      <3>3. CASE t = s
        <4>1. /\ local[s] \in Seq(Block) /\ local'[s] \in Seq(Block)
              /\ IsPrefixOf(local[s], local'[s])
          BY <2>1, AppendKeeps DEF TypeOK
        <4>2. QED
          BY <3>1, <3>3, <4>1, RightKept
      <3>4. QED
        BY <3>2, <3>3
    <2>6. QED
      BY <1>0, <2>2, <2>3, <2>4, <2>5
  <1>6. ASSUME NEW s \in Sessions, NEW f \in Files, RebaseFile(s, f) PROVE SessionInv'
    <2>1. f \in todo[s] /\ ~Dangling(tree[s][f], local[s])
      BY <1>6 DEF RebaseFile
    <2> DEFINE lines == local[s][tree[s][f].off].lines
    <2>2. lines \in Lines
      BY <2>1, RebaseReads
    <2>3. /\ SetCoverLine(s, f, lines) /\ SetEntry(s, f, lines)
          /\ pc[s] = "rebasing" /\ pc'[s] \in {"open", "rebasing"}
          /\ \A t \in Sessions \ {s} : pc'[t] = pc[t]
          /\ UNCHANGED <<objects, stale>>
      BY <1>6 DEF TypeOK, RebaseFile, history
    <2> HIDE DEF lines
    <2>4. QED
      BY <1>0, <2>2, <2>3, WriteKeeps
  <1>7. ASSUME NEW s \in Sessions,
               RebaseFails(s) \/ \E f \in Files : UpdateFileFails(s, f)
        PROVE  SessionInv'
    <2>1. /\ UNCHANGED <<cno, cda, tree, local, own, coverDirty, stale>>
          /\ pc[s] \in {"open", "rebasing"} /\ pc'[s] \in {"open", "failed"}
          /\ \A t \in Sessions \ {s} : pc'[t] = pc[t]
      BY <1>7 DEF TypeOK, RebaseFails, UpdateFileFails, GoesOn, objects, copies, dirty, history
    <2>2. NothingOwned' /\ FlushedClean' /\ CommittedTree' /\ ReadYourWrites'
      BY <2>1 DEF NothingOwned, HasLocal, FlushedClean, CommittedTree, ReadYourWrites
    <2>3. FreshCopies'
      BY <2>1 DEF FreshCopies, HasLocal
    <2>4. QED
      BY <1>0, <2>2, <2>3
  <1>8. ASSUME NEW s \in Sessions, FlushMeta(s) PROVE SessionInv'
    <2>1. PICK outcome \in Outcome :
            /\ PutMeta(s, outcome)
            /\ pc[s] = "open"
            /\ pc' = [pc EXCEPT ![s] = IF outcome = "ok" THEN "flushing" ELSE "failed"]
            /\ UNCHANGED <<kind, copies, todo>>
      BY <1>8 DEF FlushMeta
    <2>2. /\ HasLocal(s) /\ pc'[s] \in {"flushing", "failed", "closing"}
          /\ pc'[s] = "flushing" => outcome = "ok"
          /\ \A t \in Sessions \ {s} : pc'[t] = pc[t]
      BY <2>1 DEF TypeOK, HasLocal
    <2>3. QED
      BY <1>0, <2>1, <2>2, PutMetaKeeps
  <1>9. ASSUME NEW s \in Sessions, FlushCover(s) PROVE SessionInv'
    <2>1. /\ UNCHANGED <<cno, tree, local, own>>
          /\ pc[s] = "flushing" /\ pc'[s] \in {"flushed", "failed"}
          /\ \A t \in Sessions \ {s} : pc'[t] = pc[t]
      BY <1>9 DEF TypeOK, FlushCover, copies
    <2>2. \A t \in Sessions : t \notin stale' => t \notin stale
      BY <1>9 DEF FlushCover, OutdatedByCover, history
    <2>3. /\ \A t \in Sessions \ {s} : t \in coverDirty' <=> t \in coverDirty
          /\ s \in coverDirty => pc'[s] = "failed" \/ s \notin coverDirty'
          /\ s \notin coverDirty => s \notin coverDirty'
      BY <1>9, <2>1 DEF TypeOK, FlushCover, history
    <2>4. NothingOwned' /\ ReadYourWrites'
      BY <2>1 DEF NothingOwned, HasLocal, ReadYourWrites
    <2>5. FlushedClean'
      BY <2>1, <2>3 DEF FlushedClean
    <2>6. CommittedTree'
      BY <2>1, <2>2 DEF CommittedTree
    <2>7. FreshCopies'
      <3>1. CASE UNCHANGED <<cda, coverDirty, history>>
        BY <2>1, <3>1 DEF FreshCopies, HasLocal, history
      <3>2. CASE /\ cda' = local[s]
                 /\ stale' = OutdatedByCover(s)
        <4>1. IsPrefixOf(cda', local'[s]) /\ local'[s] = cda'
          BY <2>1, <3>2 DEF TypeOK, IsPrefixOf
        <4>2. \A t \in Sessions \ {s} : HasLocal(t)' => t \in stale'
          BY <2>1, <3>2 DEF OutdatedByCover, HasLocal
        <4>3. QED
          BY <4>1, <4>2 DEF FreshCopies
      <3>3. QED
        BY <1>9, <3>1, <3>2 DEF FlushCover
    <2>8. QED
      BY <1>0, <2>4, <2>5, <2>6, <2>7
  <1>10. ASSUME NEW s \in Sessions, CloseMeta(s) PROVE SessionInv'
    <2>1. /\ HasLocal(s) /\ pc'[s] = "closing"
          /\ \A t \in Sessions \ {s} : pc'[t] = pc[t]
          /\ UNCHANGED <<kind, copies, todo>>
      BY <1>10 DEF TypeOK, CloseMeta, HasLocal
    <2>2. CASE \E outcome \in Outcome : PutMeta(s, outcome)
      BY <1>0, <2>1, <2>2, PutMetaKeeps
    <2>3. CASE UNCHANGED <<objects, dirty, history>>
      <3>1. UNCHANGED <<cno, cda, tree, local, own, coverDirty, stale>>
        BY <2>1, <2>3 DEF objects, copies, dirty, history
      <3>2. NothingOwned' /\ FlushedClean' /\ CommittedTree' /\ ReadYourWrites'
        BY <2>1, <3>1 DEF NothingOwned, HasLocal, FlushedClean, CommittedTree, ReadYourWrites
      <3>3. FreshCopies'
        BY <2>1, <3>1 DEF FreshCopies, HasLocal
      <3>4. QED
        BY <1>0, <3>2, <3>3
    <2>4. QED
      BY <1>10, <2>2, <2>3 DEF CloseMeta
  <1>11. ASSUME NEW s \in Sessions, CloseCover(s) PROVE SessionInv'
    <2>1. EndSessions({s}) /\ cno' = cno
      BY <1>11 DEF CloseCover
    <2>2. CASE cda' = cda /\ stale' = stale \ {s}
      BY <1>0, <2>1, <2>2, EndKeeps
    <2>3. CASE stale' = OutdatedByCover(s) \ {s}
      <3>1. \A t \in Sessions \ {s} : t \notin stale' => t \notin stale
        BY <2>3 DEF OutdatedByCover
      <3>2. \A t \in Sessions \ {s} : HasLocal(t) => t \in stale'
        BY <2>3 DEF OutdatedByCover, HasLocal
      <3>3. QED
        BY <1>0, <2>1, <3>1, <3>2, EndKeeps
    <2>4. QED
      BY <1>11, <2>2, <2>3 DEF CloseCover
  <1>12. CASE Crash
    <2>1. EndSessions(Sessions) /\ cno' = cno
      BY <1>12 DEF Crash, objects
    <2>2. QED
      BY <1>0, <2>1, EndKeeps
  <1>13. CASE UNCHANGED vars
    <2>1. NothingOwned' /\ ReadYourWrites' /\ FlushedClean' /\ CommittedTree'
      BY <1>13 DEF vars, NothingOwned, HasLocal, ReadYourWrites, FlushedClean, CommittedTree
    <2>2. FreshCopies'
      BY <1>13 DEF vars, FreshCopies, HasLocal
    <2>3. QED
      BY <1>0, <2>1, <2>2
  <1>14. QED
    BY <1>1, <1>2, <1>3, <1>4, <1>5, <1>6, <1>7, <1>8, <1>9, <1>10, <1>11,
       <1>12, <1>13
    DEF Next, SessionStep

(* The invariant of sessions holds in every state.                         *)
LEMMA SessionInvariant == Spec => []SessionInv
  <1>1. Init => SessionInv
    BY DEF Init, SessionInv, TypeOK, Places, EmptyTree, Entry, Present,
           NothingOwned, ReadYourWrites, FlushedClean, FreshCopies,
           CommittedTree, HasLocal
  <1>2. QED
    BY <1>1, SessionInvStep, PTL DEF Spec

(* Whatever other sessions upload and however its own uploads went, a      *)
(* session reads the lines it wrote itself through its own tree.           *)
THEOREM SessionsReadTheirWrites == Spec => []ReadYourWrites
  BY SessionInvariant, PTL DEF SessionInv

(* A Flush that returned no error left the session's tree and blocks on    *)
(* the object store, until another session stores an object.               *)
THEOREM FlushIsDurable == Spec => []FlushDurable
  <1>1. SessionInv => FlushDurable
    BY DEF SessionInv, FlushDurable, FlushedClean, FreshCopies, CommittedTree, HasLocal
  <1>2. QED
    BY <1>1, SessionInvariant, PTL

(* Uploads only extend the .cda object as long as no stale session stores. *)
THEOREM CdaOnlyGrows == Spec => BlocksAreKept
  <1> DEFINE Grows == "overlap" \notin damage' => IsPrefixOf(cda, cda')
  <1>1. SessionInv /\ [Next]_vars => [Grows]_cda
    <2> SUFFICES ASSUME SessionInv, [Next]_vars, cda' # cda PROVE Grows
      OBVIOUS
    <2>1. PICK s \in Sessions :
             /\ HasLocal(s)
             /\ cda' = local[s]
             /\ Overlap(s)
      <3>1. CASE \E s \in Sessions : FlushCover(s) \/ CloseCover(s)
        BY <3>1 DEF FlushCover, CloseCover, HasLocal
      <3>2. ASSUME NEW s \in Sessions, NEW outcome \in Outcome, PutMeta(s, outcome)
            PROVE  FALSE
        BY <3>2 DEF PutMeta
      <3>3. QED
        BY <3>1, <3>2
        DEF Next, SessionStep, OpenMeta, OpenCover, OpenCoverFails, AddFile,
            AddFileFails, UpdateFile, UpdateFileFails, RebaseFile, RebaseFails, FlushMeta,
            CloseMeta, Abandon, Crash, objects, copies, vars
    <2>2. s \notin stale \/ "overlap" \in damage'
      BY <2>1 DEF Overlap
    <2>3. s \notin stale => IsPrefixOf(cda, local[s])
      BY <2>1 DEF SessionInv, FreshCopies
    <2>4. QED
      BY <2>1, <2>2, <2>3
  <1>2. QED
    BY <1>1, SessionInvariant, PTL DEF Spec, BlocksAreKept

(***************************************************************************)
(* Queries have no tree to store: their .cno source is never dirty, and    *)
(* they are never where a flush is.  Without a base commit their .cda      *)
(* source is not dirty either, and they are not where a rebase is.         *)
(***************************************************************************)
Reads(s) == kind[s] \in {"none", "read"}
Queries(s) == Reads(s) \/ kind[s] = "base"

CleanSession(s) ==
    /\ pc[s] = "idle" => kind[s] = "none"
    /\ Queries(s) => s \notin metaDirty /\ pc[s] \notin {"flushing", "flushed"}
    /\ Reads(s) => s \notin coverDirty /\ pc[s] # "rebasing"

ReadersClean == \A s \in Sessions : CleanSession(s)

(* Sessions that ended leave nothing dirty, and the others are as before.  *)
LEMMA EndLeavesClean ==
    ASSUME TypeOK, ReadersClean, NEW S \in SUBSET Sessions, EndSessions(S)
    PROVE  ReadersClean'
  BY DEF TypeOK, ReadersClean, CleanSession, Queries, Reads, EndSessions

(* A step that changes no more than where its session is, and the dirty    *)
(* marks of its session.                                                   *)
LEMMA OthersStayClean ==
    ASSUME TypeOK, ReadersClean, NEW s \in Sessions,
           \A t \in Sessions \ {s} :
              /\ pc'[t] = pc[t] /\ kind'[t] = kind[t]
              /\ t \in metaDirty' <=> t \in metaDirty
              /\ t \in coverDirty' <=> t \in coverDirty,
           CleanSession(s)'
    PROVE  ReadersClean'
  <1> SUFFICES ASSUME NEW t \in Sessions PROVE CleanSession(t)'
    BY DEF ReadersClean
  <1>1. CASE t = s
    BY <1>1
  <1>2. CASE t # s
    BY <1>2 DEF ReadersClean, CleanSession, Queries, Reads
  <1>3. QED
    BY <1>1, <1>2

(* An upload of .cno marks no session but its own.                         *)
LEMMA PutMetaMarks ==
    ASSUME TypeOK, NEW s \in Sessions, NEW outcome \in Outcome, PutMeta(s, outcome)
    PROVE  /\ \A t \in Sessions \ {s} : t \in metaDirty' <=> t \in metaDirty
           /\ UNCHANGED coverDirty
  BY DEF PutMeta, Mark

(* Every step leaves the readers clean: what marks a data source dirty is  *)
(* guarded by the kind of the session.                                     *)
LEMMA ReadersCleanStep == TypeOK /\ ReadersClean /\ [Next]_vars => ReadersClean'
  <1> SUFFICES ASSUME TypeOK, ReadersClean, [Next]_vars PROVE ReadersClean'
    OBVIOUS
  <1> USE DEF CleanSession, Queries, Reads
  <1>1. ASSUME NEW s \in Sessions, NEW k \in Kinds, OpenMeta(s, k) PROVE ReadersClean'
    <2>1. /\ pc' = [pc EXCEPT ![s] = "metaOpen"] /\ kind' = [kind EXCEPT ![s] = k]
          /\ pc[s] = "idle" /\ UNCHANGED <<metaDirty, coverDirty>>
      BY <1>1 DEF OpenMeta, dirty
    <2>2. s \notin metaDirty /\ s \notin coverDirty
      BY <2>1 DEF ReadersClean
    <2>3. pc'[s] = "metaOpen" /\ \A t \in Sessions \ {s} : pc'[t] = pc[t] /\ kind'[t] = kind[t]
      BY <2>1 DEF TypeOK
    <2>4. QED
      BY <2>1, <2>2, <2>3, OthersStayClean
  <1>2. ASSUME NEW s \in Sessions, OpenCover(s) PROVE ReadersClean'
    <2>1. UNCHANGED <<kind, metaDirty, coverDirty>> /\ pc[s] = "metaOpen"
      BY <1>2 DEF OpenCover, dirty
    <2>2. \A t \in Sessions \ {s} : pc'[t] = pc[t]
      BY <1>2 DEF OpenCover, TypeOK
    <2>3. pc'[s] = IF kind[s] \in Rebases /\ Present(tree[s]) # {} THEN "rebasing" ELSE "open"
      BY <1>2 DEF OpenCover, TypeOK
    <2>4. Reads(s) => kind[s] \notin Rebases
      BY DEF Rebases
    <2>5. CleanSession(s)
      BY DEF ReadersClean
    <2>6. CleanSession(s)'
      BY <2>1, <2>3, <2>4, <2>5
    <2>7. QED
      BY <2>1, <2>2, <2>6, OthersStayClean
  <1>3. ASSUME NEW s \in Sessions, OpenCoverFails(s) \/ CloseCover(s) \/ Abandon(s)
        PROVE  ReadersClean'
    BY <1>3, EndLeavesClean DEF OpenCoverFails, CloseCover, Abandon
  <1>4. CASE Crash
    BY <1>4, EndLeavesClean DEF Crash
  <1>5. ASSUME NEW s \in Sessions, NEW f \in Files, NEW lines \in Lines,
               AddFile(s, f, lines) \/ AddFileFails(s, f, lines) \/ UpdateFile(s, f, lines)
        PROVE  ReadersClean'
    <2>1. /\ ~Queries(s) /\ UNCHANGED <<kind, metaDirty>> /\ coverDirty' = coverDirty \cup {s}
          /\ pc[s] = "open"
      BY <1>5 DEF AddFile, AddFileFails, UpdateFile, SetCoverLine, control
    <2>2. pc' = pc \/ pc' = [pc EXCEPT ![s] = "failed"]
      BY <1>5 DEF AddFile, AddFileFails, UpdateFile, GoesOn, control
    <2>3. /\ pc'[s] # "idle"
          /\ \A t \in Sessions \ {s} : pc'[t] = pc[t] /\ (t \in coverDirty' <=> t \in coverDirty)
      BY <2>1, <2>2 DEF TypeOK
    <2>4. CleanSession(s)'
      BY <2>1, <2>3
    <2>5. QED
      BY <2>1, <2>3, <2>4, OthersStayClean
  <1>6. ASSUME NEW s \in Sessions, NEW f \in Files, UpdateFileFails(s, f) PROVE ReadersClean'
    <2>1. /\ pc' = pc \/ pc' = [pc EXCEPT ![s] = "failed"]
          /\ UNCHANGED <<kind, metaDirty, coverDirty>>
      BY <1>6 DEF UpdateFileFails, GoesOn, dirty
    <2>2. QED
      BY <2>1 DEF ReadersClean, TypeOK
  <1>7. ASSUME NEW s \in Sessions, NEW f \in Files, RebaseFile(s, f) PROVE ReadersClean'
    <2>1. /\ pc[s] = "rebasing" /\ UNCHANGED <<kind, metaDirty>>
          /\ coverDirty' = coverDirty \cup {s}
          /\ pc' = [pc EXCEPT ![s] = IF todo[s] = {f} THEN "open" ELSE @]
      BY <1>7 DEF RebaseFile, SetCoverLine
    <2>2. ~Reads(s) /\ CleanSession(s)
      BY <2>1 DEF ReadersClean
    <2>3. /\ pc'[s] \in {"open", "rebasing"}
          /\ \A t \in Sessions \ {s} : pc'[t] = pc[t] /\ (t \in coverDirty' <=> t \in coverDirty)
      BY <2>1 DEF TypeOK
    <2>4. CleanSession(s)'
      BY <2>1, <2>2, <2>3
    <2>5. QED
      BY <2>1, <2>3, <2>4, OthersStayClean
  <1>8. ASSUME NEW s \in Sessions, RebaseFails(s) PROVE ReadersClean'
    <2>1. /\ UNCHANGED <<kind, metaDirty, coverDirty>>
          /\ pc' = [pc EXCEPT ![s] = IF kind[s] = "base" THEN "open" ELSE "failed"]
      BY <1>8 DEF RebaseFails, dirty
    <2>2. QED
      BY <2>1 DEF ReadersClean, TypeOK
  <1>9. ASSUME NEW s \in Sessions, FlushMeta(s) PROVE ReadersClean'
    <2>1. PICK outcome \in Outcome :
             /\ kind[s] \in CanFlush /\ PutMeta(s, outcome) /\ kind' = kind
             /\ pc' = [pc EXCEPT ![s] = IF outcome = "ok" THEN "flushing" ELSE "failed"]
      BY <1>9 DEF FlushMeta
    <2>2. ~Queries(s)' /\ pc'[s] # "idle" /\ \A t \in Sessions \ {s} : pc'[t] = pc[t]
      BY <2>1 DEF CanFlush, TypeOK
    <2>3. CleanSession(s)'
      BY <2>2
    <2>4. QED
      BY <2>1, <2>2, <2>3, PutMetaMarks, OthersStayClean
  <1>10. ASSUME NEW s \in Sessions, FlushCover(s) PROVE ReadersClean'
    <2>1. /\ pc[s] = "flushing" /\ UNCHANGED <<kind, metaDirty>>
          /\ pc' = [pc EXCEPT ![s] = "flushed"] \/ pc' = [pc EXCEPT ![s] = "failed"]
          /\ coverDirty' \in {coverDirty, coverDirty \ {s}}
      BY <1>10 DEF FlushCover
    <2>2. ~Queries(s)'
      BY <2>1 DEF ReadersClean
    <2>3. /\ pc'[s] # "idle"
          /\ \A t \in Sessions \ {s} : pc'[t] = pc[t] /\ (t \in coverDirty' <=> t \in coverDirty)
      BY <2>1 DEF TypeOK
    <2>4. CleanSession(s)'
      BY <2>2, <2>3
    <2>5. QED
      BY <2>1, <2>3, <2>4, OthersStayClean
  <1>11. ASSUME NEW s \in Sessions, CloseMeta(s) PROVE ReadersClean'
    <2>1. /\ pc' = [pc EXCEPT ![s] = "closing"] /\ kind' = kind
          /\ \/ s \notin metaDirty /\ UNCHANGED <<metaDirty, coverDirty>>
             \/ s \in metaDirty /\ \E outcome \in Outcome : PutMeta(s, outcome)
      BY <1>11 DEF CloseMeta, dirty
    <2>2. pc'[s] = "closing" /\ \A t \in Sessions \ {s} : pc'[t] = pc[t]
      BY <2>1 DEF TypeOK
    <2>3. \A t \in Sessions \ {s} : t \in metaDirty' <=> t \in metaDirty
      BY <2>1, PutMetaMarks
    <2>4. UNCHANGED coverDirty
      BY <2>1, PutMetaMarks
    <2>5. CleanSession(s)
      BY DEF ReadersClean
    <2>6. CleanSession(s)'
      BY <2>1, <2>2, <2>4, <2>5
    <2>7. QED
      BY <2>1, <2>2, <2>3, <2>4, <2>6, OthersStayClean
  <1>12. CASE UNCHANGED vars
    BY <1>12 DEF vars, ReadersClean
  <1>13. QED
    BY <1>1, <1>2, <1>3, <1>4, <1>5, <1>6, <1>7, <1>8, <1>9, <1>10, <1>11, <1>12
    DEF Next, SessionStep

(* ReadersLeaveNoTrace: Close puts what is dirty.  A query decodes the     *)
(* tree and reads blocks at their offsets, which marks nothing dirty; one  *)
(* with a base commit appends to its copy of the blocks and marks those,   *)
(* but only Flush encodes a tree, and no query flushes.                    *)
THEOREM ReadingIsPure == Spec => ReadersLeaveNoTrace
  <1> DEFINE AllQuery == \A s \in Sessions : kind[s] \in {"none", "read", "base"}
             NoBase == \A s \in Sessions : kind[s] # "base"
  <1>1. Init => ReadersClean
    BY DEF Init, ReadersClean, CleanSession
  <1>2. ReadersClean /\ [Next]_vars => [AllQuery => cno' = cno /\ (NoBase => cda' = cda)]_objects
    <2> SUFFICES ASSUME ReadersClean, [Next]_vars, AllQuery
                 PROVE  cno' = cno /\ (NoBase => cda' = cda)
      OBVIOUS
    <2>1. \A s \in Sessions : /\ s \notin metaDirty /\ pc[s] \notin {"flushing", "flushed"}
                              /\ kind[s] \notin CanFlush
                              /\ NoBase => s \notin coverDirty
      BY DEF ReadersClean, CleanSession, Queries, Reads, CanFlush
    <2>2. ASSUME NEW s \in Sessions, FlushMeta(s) \/ FlushCover(s) PROVE FALSE
      BY <2>1, <2>2 DEF FlushMeta, FlushCover
    <2>3. ASSUME NEW s \in Sessions, CloseMeta(s) PROVE UNCHANGED objects
      BY <2>1, <2>3 DEF CloseMeta
    <2>4. ASSUME NEW s \in Sessions, CloseCover(s) PROVE cno' = cno /\ (NoBase => cda' = cda)
      BY <2>1, <2>4 DEF CloseCover
    <2> HIDE DEF NoBase
    <2>5. QED
      BY <2>2, <2>3, <2>4
      DEF Next, SessionStep, OpenMeta, OpenCover, OpenCoverFails, AddFile, AddFileFails,
          UpdateFile, UpdateFileFails, RebaseFile, RebaseFails, Abandon, Crash, objects, vars
  <1>3. QED
    BY <1>1, <1>2, ReadersCleanStep, TypeCorrect, PTL DEF Spec, ReadersLeaveNoTrace
=============================================================================
