-------------------------- MODULE CoverContentProofs --------------------------
(***************************************************************************)
(* Proofs about CoverContent, for any set of reports, files, uploads and   *)
(* diffs.  The invariant says more than the properties do: the count of a  *)
(* line without an instruction is stored as zero, so a block that is       *)
(* decoded and encoded again is the same block, and every entry is what    *)
(* filing its own counts and marks would give.  From that follows what     *)
(* merging twice, rebasing twice and taking a snapshot give.               *)
(*                                                                         *)
(* What the search finds needs an induction over the walk and is checked by*)
(* TLC only.                                                               *)
(***************************************************************************)
EXTENDS CoverContent, FiniteSetTheorems, TLAPS

Count == -1..MaxCount
Lines == Seq(Count)

(* An entry tells of its lines what is in its block, and the count of a    *)
(* line without an instruction is stored as zero.                          *)
Blank(block) == \A i \in DOMAIN block : block[i].skip => block[i].count = 0
Good(e) ==
    /\ Blank(e.block)
    /\ e.stat = StatOf(Counts(e.block), DiffFrom(e, Added(e.block)))

ReportSet == [file : [Files -> Entry \cup {NoFile}], base : Bases \cup {NoBase}, total : Nat]
GoodReport(r) == r \in ReportSet /\ \A f \in Present(r) : Good(r.file[f])

(* The files a merge of a report of the same commit takes over.            *)
Taken(r, o, order) == Reached(r, o, order) \cap Present(o)

ContentInv == rep \in [Reports -> ReportSet] /\ \A r \in Reports : GoodReport(rep[r])

-----------------------------------------------------------------------------
(* A stored line is decoded to its count.                                  *)
LEMMA CountsAreLines ==
    ASSUME NEW block \in Seq(Line)
    PROVE  /\ Counts(block) \in Lines /\ DOMAIN Counts(block) = DOMAIN block
           /\ Len(Counts(block)) = Len(block)
           /\ \A i \in DOMAIN block :
                 Counts(block)[i] = IF block[i].skip THEN -1 ELSE block[i].count
<1>1. /\ DOMAIN block = 1..Len(block) /\ Len(block) \in Nat
      /\ \A i \in 1..Len(block) : block[i] \in Line
  OBVIOUS
<1>2. \A i \in 1..Len(block) : (IF block[i].skip THEN -1 ELSE block[i].count) \in Count
  BY <1>1, ContentAssumption DEF ContentAssumption, Line, Count
<1>3. Counts(block) \in [1..Len(block) -> Count]
  BY <1>1, <1>2 DEF Counts
<1>4. Counts(block) \in Lines /\ Len(Counts(block)) = Len(block)
  BY <1>1, <1>3 DEF Lines
<1> QED
  BY <1>1, <1>4 DEF Counts

(* What is encoded is decoded to what it was: marks beyond the lines are   *)
(* lost.                                                                   *)
LEMMA EncodeThenDecode ==
    ASSUME NEW ls \in Lines, NEW added
    PROVE  /\ Encode(ls, added) \in Seq(Line) /\ Blank(Encode(ls, added))
           /\ Len(Encode(ls, added)) = Len(ls)
           /\ Counts(Encode(ls, added)) = ls
           /\ Added(Encode(ls, added)) = DOMAIN ls \cap added
<1> DEFINE E == Encode(ls, added)
<1>1. /\ DOMAIN ls = 1..Len(ls) /\ Len(ls) \in Nat
      /\ \A i \in 1..Len(ls) : ls[i] \in Count
  BY DEF Lines
<1>2. DOMAIN E = DOMAIN ls /\ \A i \in DOMAIN ls :
         /\ E[i].count = IF ls[i] = -1 THEN 0 ELSE ls[i]
         /\ E[i] = [skip |-> ls[i] = -1, count |-> IF ls[i] = -1 THEN 0 ELSE ls[i],
                    incr |-> i \in added]
  BY DEF Encode
<1>3. ASSUME NEW i \in DOMAIN ls
      PROVE  (E[i].skip <=> ls[i] = -1) /\ (E[i].incr <=> i \in added)
  <2> DEFINE a == ls[i] = -1
             c == IF ls[i] = -1 THEN 0 ELSE ls[i]
             d == i \in added
  <2>1. E[i] = [skip |-> a, count |-> c, incr |-> d]
    BY <1>2
  <2> HIDE DEF a, c, d, E
  <2>2. E[i].skip = a /\ E[i].incr = d
    BY <2>1
  <2> QED
    BY <2>2 DEF a, d
<1>4. \A i \in DOMAIN ls : (ls[i] = -1) \in BOOLEAN /\ (i \in added) \in BOOLEAN
  OBVIOUS
<1>5. \A i \in DOMAIN ls : (IF ls[i] = -1 THEN 0 ELSE ls[i]) \in 0..MaxCount
  BY <1>1, ContentAssumption DEF ContentAssumption, Count
<1>6. ASSUME NEW i \in DOMAIN ls PROVE E[i] \in Line
  <2> DEFINE a == ls[i] = -1
             c == IF ls[i] = -1 THEN 0 ELSE ls[i]
             d == i \in added
  <2>1. E[i] = [skip |-> a, count |-> c, incr |-> d]
    BY <1>2
  <2>2. a \in BOOLEAN /\ c \in 0..MaxCount /\ d \in BOOLEAN
    BY <1>4, <1>5
  <2> HIDE DEF a, c, d, E
  <2>3. [skip |-> a, count |-> c, incr |-> d] \in Line
    BY <2>2 DEF Line
  <2> QED
    BY <2>1, <2>3, Zenon
<1> HIDE DEF E
<1>7. E \in Seq(Line) /\ Len(E) = Len(ls)
  <2>1. E = [i \in 1..Len(ls) |-> E[i]]
    BY <1>1, <1>2 DEF E, Encode
  <2>2. E \in [1..Len(ls) -> Line]
    BY <1>1, <1>6, <2>1
  <2> QED
    BY <1>1, <2>2
<1>8. Blank(E)
  BY <1>2, <1>3 DEF Blank
<1>9. Counts(E) = ls
  <2>1. Counts(E) = [i \in 1..Len(ls) |-> IF E[i].skip THEN -1 ELSE E[i].count]
    BY <1>1, <1>2 DEF Counts
  <2>2. \A i \in 1..Len(ls) : (IF E[i].skip THEN -1 ELSE E[i].count) = ls[i]
    BY <1>1, <1>2, <1>3
  <2>3. Counts(E) \in [1..Len(ls) -> Count] /\ ls \in [1..Len(ls) -> Count]
    BY <1>1, <2>1, <2>2 DEF Lines
  <2>4. \A i \in 1..Len(ls) : Counts(E)[i] = ls[i]
    BY <2>1, <2>2
  <2> QED
    BY <2>3, <2>4
<1>10. Added(E) = DOMAIN ls \cap added
  BY <1>2, <1>3 DEF Added
<1> QED
  BY <1>7, <1>8, <1>9, <1>10 DEF E

(* A block that is decoded and encoded again is as before.                 *)
LEMMA DecodeThenEncode ==
    ASSUME NEW block \in Seq(Line), Blank(block)
    PROVE  Encode(Counts(block), Added(block)) = block
<1> DEFINE E == Encode(Counts(block), Added(block))
<1>1. /\ DOMAIN block = 1..Len(block) /\ Len(block) \in Nat
      /\ \A i \in 1..Len(block) : block[i] \in Line
  OBVIOUS
<1>2. /\ DOMAIN Counts(block) = 1..Len(block)
      /\ \A i \in 1..Len(block) : Counts(block)[i] = IF block[i].skip THEN -1 ELSE block[i].count
  BY <1>1, CountsAreLines
<1>3. \A i \in 1..Len(block) : (Counts(block)[i] = -1) <=> block[i].skip
  BY <1>1, <1>2, ContentAssumption DEF ContentAssumption, Line
<1>4. \A i \in 1..Len(block) : (i \in Added(block)) <=> block[i].incr
  BY <1>1 DEF Added
<1>5. \A i \in 1..Len(block) :
         (IF Counts(block)[i] = -1 THEN 0 ELSE Counts(block)[i]) = block[i].count
  BY <1>1, <1>2, <1>3 DEF Blank
<1>6. ASSUME NEW i \in 1..Len(block)
      PROVE  E[i] = block[i]
  <2>1. E[i] = [skip  |-> Counts(block)[i] = -1,
                count |-> IF Counts(block)[i] = -1 THEN 0 ELSE Counts(block)[i],
                incr  |-> i \in Added(block)]
    BY <1>2 DEF Encode
  <2>2. /\ block[i].skip \in BOOLEAN /\ block[i].incr \in BOOLEAN
        /\ block[i] = [skip |-> block[i].skip, count |-> block[i].count, incr |-> block[i].incr]
    BY <1>1 DEF Line
  <2>3. (Counts(block)[i] = -1) = block[i].skip
    BY <1>3, <2>2
  <2>4. (i \in Added(block)) = block[i].incr
    BY <1>4, <2>2
  <2> QED
    BY <1>5, <2>1, <2>2, <2>3, <2>4, Zenon
<1>7. DOMAIN E = 1..Len(block) /\ E = [i \in 1..Len(block) |-> E[i]]
  BY <1>2 DEF Encode
<1> HIDE DEF E
<1>8. E = [i \in 1..Len(block) |-> block[i]]
  BY <1>6, <1>7
<1> QED
  BY <1>1, <1>8 DEF E

(* The lines of a sequence that are counted are among its lines.           *)
LEMMA StatOfIsStat ==
    ASSUME NEW ls \in Lines, NEW diff \in FileDiff
    PROVE  /\ StatOf(ls, diff) \in Stat
           /\ StatOf(ls, diff).added = diff.added
           /\ StatOf(ls, diff).deleted = diff.deleted
<1>1. DOMAIN ls = 1..Len(ls) /\ Len(ls) \in Nat
  BY DEF Lines
<1>2. IsFiniteSet(DOMAIN ls)
  BY <1>1, FS_Interval
<1>3. /\ Instr(ls) \subseteq DOMAIN ls /\ Hit(ls) \subseteq DOMAIN ls
      /\ Instr(ls) \cap diff.lines \subseteq DOMAIN ls
      /\ Hit(ls) \cap diff.lines \subseteq DOMAIN ls
  BY DEF Instr, Hit
<1>4. \A S \in SUBSET DOMAIN ls : Cardinality(S) \in Nat
  BY <1>2, FS_Subset, FS_CardinalityType
<1>5. /\ Cardinality(Instr(ls)) \in Nat /\ Cardinality(Hit(ls)) \in Nat
      /\ Cardinality(Instr(ls) \cap diff.lines) \in Nat
      /\ Cardinality(Hit(ls) \cap diff.lines) \in Nat
  BY <1>3, <1>4
<1>6. diff.added \in Nat /\ diff.deleted \in Nat
  BY DEF FileDiff
<1> QED
  BY <1>1, <1>5, <1>6 DEF StatOf, Stat

(* Marks beyond the lines do not count.                                    *)
LEMMA StatOfMarkedLines ==
    ASSUME NEW ls, NEW diff
    PROVE  StatOf(ls, diff) =
             StatOf(ls, [added |-> diff.added, deleted |-> diff.deleted,
                         lines |-> DOMAIN ls \cap diff.lines])
<1>1. /\ Instr(ls) \cap diff.lines = Instr(ls) \cap (DOMAIN ls \cap diff.lines)
      /\ Hit(ls) \cap diff.lines = Hit(ls) \cap (DOMAIN ls \cap diff.lines)
  BY DEF Instr, Hit
<1> QED
  BY <1>1 DEF StatOf

(* What is filed of a file: an entry that fits, with its lines and marks.  *)
LEMMA FiledIsGood ==
    ASSUME NEW ls \in Lines, NEW diff \in FileDiff
    PROVE  /\ Filed(ls, diff) \in Entry /\ Good(Filed(ls, diff))
           /\ Filed(ls, diff) # NoFile
           /\ Counts(Filed(ls, diff).block) = ls
           /\ Len(Filed(ls, diff).block) = Len(ls)
           /\ Added(Filed(ls, diff).block) = DOMAIN ls \cap diff.lines
           /\ Filed(ls, diff).stat.added = diff.added
           /\ Filed(ls, diff).stat.deleted = diff.deleted
<1> DEFINE e == Filed(ls, diff)
<1>1. e.block = Encode(ls, diff.lines) /\ e.stat = StatOf(ls, diff)
  BY DEF Filed
<1>2. /\ e.block \in Seq(Line) /\ Blank(e.block) /\ Len(e.block) = Len(ls)
      /\ Counts(e.block) = ls /\ Added(e.block) = DOMAIN ls \cap diff.lines
  BY <1>1, EncodeThenDecode
<1>3. e.stat \in Stat /\ e.stat.added = diff.added /\ e.stat.deleted = diff.deleted
  BY <1>1, StatOfIsStat
<1>4. e \in Entry
  <2>1. e = [block |-> Encode(ls, diff.lines), stat |-> StatOf(ls, diff)]
    BY DEF Filed
  <2> QED
    BY <1>1, <1>2, <1>3, <2>1 DEF Entry
<1>5. e # NoFile
  BY <1>4, ContentAssumption DEF ContentAssumption
<1>6. DiffFrom(e, Added(e.block)) =
        [added |-> diff.added, deleted |-> diff.deleted, lines |-> DOMAIN ls \cap diff.lines]
  BY <1>2, <1>3 DEF DiffFrom
<1>7. Good(e)
  <2> HIDE DEF e
  <2> QED
    BY <1>1, <1>2, <1>6, StatOfMarkedLines DEF Good
<1> QED
  BY <1>2, <1>3, <1>4, <1>5, <1>7

(* The parts of an entry.                                                  *)
LEMMA EntryParts ==
    ASSUME NEW e \in Entry
    PROVE  /\ e.block \in Seq(Line) /\ e.stat \in Stat
           /\ e.stat.added \in Nat /\ e.stat.deleted \in Nat
           /\ Counts(e.block) \in Lines /\ DOMAIN Counts(e.block) = DOMAIN e.block
           /\ DOMAIN e.block = 1..Len(e.block) /\ Len(e.block) \in Nat
           /\ Len(Counts(e.block)) = Len(e.block)
           /\ Added(e.block) \subseteq DOMAIN e.block
           /\ e # NoFile
           /\ \A A \in SUBSET Nat : /\ DiffFrom(e, A) \in FileDiff
                                    /\ DiffFrom(e, A).lines = A
                                    /\ DiffFrom(e, A).added = e.stat.added
                                    /\ DiffFrom(e, A).deleted = e.stat.deleted
<1>1. e.block \in Seq(Line) /\ e.stat \in Stat
  BY DEF Entry
<1>2. e.stat.added \in Nat /\ e.stat.deleted \in Nat
  BY <1>1 DEF Stat
<1>3. DOMAIN e.block = 1..Len(e.block) /\ Len(e.block) \in Nat
  BY <1>1
<1>4. e # NoFile
  BY ContentAssumption DEF ContentAssumption
<1>5. /\ Counts(e.block) \in Lines /\ DOMAIN Counts(e.block) = DOMAIN e.block
      /\ Len(Counts(e.block)) = Len(e.block)
  BY <1>1, CountsAreLines
<1>6. Added(e.block) \subseteq DOMAIN e.block
  BY DEF Added
<1>7. \A A \in SUBSET Nat : /\ DiffFrom(e, A) \in FileDiff
                             /\ DiffFrom(e, A).lines = A
                             /\ DiffFrom(e, A).added = e.stat.added
                             /\ DiffFrom(e, A).deleted = e.stat.deleted
  BY <1>2 DEF DiffFrom, FileDiff
<1> QED
  BY <1>1, <1>2, <1>3, <1>4, <1>5, <1>6, <1>7

(* A walk meets every file, each once.                                     *)
LEMMA WalkMeetsAll ==
    ASSUME NEW order \in Walks
    PROVE  /\ DOMAIN order = 1..Cardinality(Files) /\ Cardinality(Files) \in Nat
           /\ \A i \in DOMAIN order : order[i] \in Files
           /\ \A f \in Files : \E i \in DOMAIN order : order[i] = f
<1> DEFINE n == Cardinality(Files)
<1>1. IsFiniteSet(Files) /\ n \in Nat
  BY FS_CardinalityType, ContentAssumption DEF ContentAssumption
<1>2. order \in [1..n -> Files] /\ \A i, j \in 1..n : i # j => order[i] # order[j]
  BY DEF Walks, SetToSeqs
<1>3. order \in Injection(1..n, Files)
  BY <1>2 DEF Injection, IsInjective
<1>4. IsFiniteSet(1..n) /\ Cardinality(1..n) = n
  <2>1. Cardinality(1..n) = IF 1 > n THEN 0 ELSE n - 1 + 1
    BY <1>1, FS_Interval
  <2> QED
    BY <1>1, <2>1, FS_Interval
<1>5. order \in Surjection(1..n, Files)
  BY <1>1, <1>3, <1>4, FS_Injection
<1> QED
  BY <1>1, <1>2, <1>5 DEF Surjection

(* What is put into a report is in it, and the rest stays.                 *)
LEMMA PutFilesIsGood ==
    ASSUME NEW r, GoodReport(r), NEW new, DOMAIN new \subseteq Files,
           \A f \in DOMAIN new : new[f] \in Entry /\ Good(new[f])
    PROVE  /\ GoodReport(PutFiles(r, new))
           /\ PutFiles(r, new).base = r.base
           /\ PutFiles(r, new).total = r.total + Cardinality(DOMAIN new \ Present(r))
           /\ \A f \in Files : PutFiles(r, new).file[f] =
                                  IF f \in DOMAIN new THEN new[f] ELSE r.file[f]
           /\ Present(PutFiles(r, new)) = Present(r) \cup DOMAIN new
<1> DEFINE file == [f \in Files |-> IF f \in DOMAIN new THEN new[f] ELSE r.file[f]]
           total == r.total + Cardinality(DOMAIN new \ Present(r))
           p == PutFiles(r, new)
<1>1. /\ r = [file |-> r.file, base |-> r.base, total |-> r.total]
      /\ r.file \in [Files -> Entry \cup {NoFile}] /\ r.base \in Bases \cup {NoBase}
      /\ r.total \in Nat
  BY DEF GoodReport, ReportSet
<1>2. p = [file |-> file, base |-> r.base, total |-> total]
  <2>1. p = [r EXCEPT !.file = file, !.total = total]
    BY DEF PutFiles
  <2> HIDE DEF file, total, p
  <2> QED
    BY <1>1, <2>1
<1>3. \A f \in Files : file[f] = IF f \in DOMAIN new THEN new[f] ELSE r.file[f]
  OBVIOUS
<1>4. file \in [Files -> Entry \cup {NoFile}]
  BY <1>1
<1>5. total \in Nat
  <2>1. IsFiniteSet(DOMAIN new \ Present(r))
    BY FS_Subset, ContentAssumption DEF ContentAssumption
  <2>2. Cardinality(DOMAIN new \ Present(r)) \in Nat
    BY <2>1, FS_CardinalityType
  <2> QED
    BY <1>1, <2>2
<1> HIDE DEF file, total, p
<1>6. p \in ReportSet /\ p.file = file /\ p.base = r.base /\ p.total = total
  BY <1>1, <1>2, <1>4, <1>5 DEF ReportSet
<1>7. \A f \in DOMAIN new : new[f] # NoFile
  BY ContentAssumption DEF ContentAssumption
<1>8. Present(p) = Present(r) \cup DOMAIN new
  BY <1>3, <1>6, <1>7 DEF Present
<1>9. \A f \in Present(p) : Good(p.file[f])
  BY <1>3, <1>6, <1>8 DEF GoodReport, Present
<1> QED
  BY <1>3, <1>6, <1>8, <1>9 DEF GoodReport, p, total

(* A file of a report has an entry that fits.                              *)
LEMMA PresentIsGood ==
    ASSUME NEW r, GoodReport(r), NEW f \in Files
    PROVE  /\ f \in Present(r) => r.file[f] \in Entry /\ Good(r.file[f])
           /\ f \notin Present(r) => r.file[f] = NoFile
           /\ Present(r) \subseteq Files
BY DEF GoodReport, ReportSet, Present

(* What the counts of two reports give is lines again, as many as there    *)
(* were.                                                                   *)
LEMMA LargerCountsAreLines ==
    ASSUME NEW ls \in Lines, NEW other \in Lines, Len(ls) = Len(other)
    PROVE  /\ LargerCounts(ls, other) \in Lines /\ Len(LargerCounts(ls, other)) = Len(ls)
           /\ Hit(ls) \subseteq Hit(LargerCounts(ls, other))
<1>1. /\ DOMAIN ls = 1..Len(ls) /\ Len(ls) \in Nat /\ DOMAIN other = 1..Len(ls)
      /\ \A i \in 1..Len(ls) : ls[i] \in Count /\ other[i] \in Count
  BY DEF Lines
<1>2. LargerCounts(ls, other) \in [1..Len(ls) -> Count]
  BY <1>1 DEF LargerCounts
<1>3. LargerCounts(ls, other) \in Lines /\ Len(LargerCounts(ls, other)) = Len(ls)
  BY <1>1, <1>2 DEF Lines
<1> QED
  BY <1>1, <1>3 DEF LargerCounts, Hit

(* Counts taken from elsewhere are counts, and no line loses its coverage. *)
LEMMA OtherCountsAreLines ==
    ASSUME NEW ls \in Lines, NEW other \in Lines
    PROVE  /\ OtherCounts(ls, other) \in Lines /\ Len(OtherCounts(ls, other)) = Len(ls)
           /\ Hit(ls) \subseteq Hit(OtherCounts(ls, other))
<1>1. /\ DOMAIN ls = 1..Len(ls) /\ Len(ls) \in Nat
      /\ \A i \in 1..Len(ls) : ls[i] \in Count
      /\ \A i \in DOMAIN other : other[i] \in Count
  BY DEF Lines
<1>2. OtherCounts(ls, other) \in [1..Len(ls) -> Count]
  BY <1>1 DEF OtherCounts
<1>3. OtherCounts(ls, other) \in Lines /\ Len(OtherCounts(ls, other)) = Len(ls)
  BY <1>1, <1>2 DEF Lines
<1> QED
  BY <1>1, <1>3 DEF OtherCounts, Hit

(* The entry a merge of reports of one commit gives a file.                *)
LEMMA MergedSameIsGood ==
    ASSUME NEW mine \in Entry \cup {NoFile}, NEW theirs \in Entry,
           mine # NoFile => Len(mine.block) = Len(theirs.block)
    PROVE  LET e == MergedSame(mine, theirs)
           IN  /\ e \in Entry /\ Good(e) /\ Len(e.block) = Len(theirs.block)
               /\ e.stat.added = theirs.stat.added /\ e.stat.deleted = theirs.stat.deleted
               /\ mine = NoFile => /\ Counts(e.block) = Counts(theirs.block)
                                   /\ Added(e.block) = Added(theirs.block)
               /\ mine # NoFile =>
                    /\ Counts(e.block) = LargerCounts(Counts(mine.block), Counts(theirs.block))
                    /\ Added(e.block) = Added(mine.block) \cup Added(theirs.block)
                    /\ Hit(Counts(mine.block)) \subseteq Hit(Counts(e.block))
<1> DEFINE e == MergedSame(mine, theirs)
<1>1. /\ Counts(theirs.block) \in Lines /\ Len(Counts(theirs.block)) = Len(theirs.block)
      /\ DOMAIN Counts(theirs.block) = 1..Len(theirs.block) /\ Len(theirs.block) \in Nat
      /\ Added(theirs.block) \subseteq 1..Len(theirs.block)
      /\ \A A \in SUBSET Nat : /\ DiffFrom(theirs, A) \in FileDiff
                               /\ DiffFrom(theirs, A).lines = A
                               /\ DiffFrom(theirs, A).added = theirs.stat.added
                               /\ DiffFrom(theirs, A).deleted = theirs.stat.deleted
  BY EntryParts
<1>2. CASE mine = NoFile
  <2> DEFINE diff == DiffFrom(theirs, Added(theirs.block))
             ls == Counts(theirs.block)
  <2>1. /\ diff \in FileDiff /\ diff.lines = Added(theirs.block)
        /\ diff.added = theirs.stat.added /\ diff.deleted = theirs.stat.deleted
    BY <1>1
  <2>2. e = Filed(ls, diff)
    BY <1>2 DEF MergedSame
  <2>3. DOMAIN ls \cap diff.lines = Added(theirs.block)
    BY <1>1, <2>1
  <2>4. ls \in Lines /\ Len(ls) = Len(theirs.block)
    BY <1>1
  <2> HIDE DEF diff, e, ls
  <2>5. /\ e \in Entry /\ Good(e) /\ Counts(e.block) = ls /\ Len(e.block) = Len(ls)
        /\ Added(e.block) = DOMAIN ls \cap diff.lines
        /\ e.stat.added = diff.added /\ e.stat.deleted = diff.deleted
    BY <2>1, <2>2, <2>4, FiledIsGood
  <2> QED
    BY <1>2, <2>1, <2>3, <2>4, <2>5 DEF e, ls
<1>3. CASE mine # NoFile
  <2> DEFINE both == Added(mine.block) \cup Added(theirs.block)
             diff == DiffFrom(theirs, both)
             ls == LargerCounts(Counts(mine.block), Counts(theirs.block))
  <2>1. /\ Counts(mine.block) \in Lines /\ Len(Counts(mine.block)) = Len(theirs.block)
        /\ Added(mine.block) \subseteq 1..Len(theirs.block)
    BY <1>3, EntryParts
  <2>2. both \subseteq 1..Len(theirs.block) /\ both \in SUBSET Nat
    BY <1>1, <2>1
  <2>3. /\ diff \in FileDiff /\ diff.lines = both
        /\ diff.added = theirs.stat.added /\ diff.deleted = theirs.stat.deleted
    BY <1>1, <2>2
  <2>4. /\ ls \in Lines /\ Len(ls) = Len(theirs.block)
        /\ Hit(Counts(mine.block)) \subseteq Hit(ls)
    BY <1>1, <2>1, LargerCountsAreLines
  <2>5. e = Filed(ls, diff)
    BY <1>3 DEF MergedSame
  <2>6. DOMAIN ls = 1..Len(theirs.block)
    BY <2>4 DEF Lines
  <2>7. DOMAIN ls \cap diff.lines = both
    BY <2>2, <2>3, <2>6
  <2> HIDE DEF diff, e, ls, both
  <2>8. /\ e \in Entry /\ Good(e) /\ Counts(e.block) = ls /\ Len(e.block) = Len(ls)
        /\ Added(e.block) = DOMAIN ls \cap diff.lines
        /\ e.stat.added = diff.added /\ e.stat.deleted = diff.deleted
    BY <2>3, <2>4, <2>5, FiledIsGood
  <2> QED
    BY <1>3, <2>3, <2>4, <2>7, <2>8 DEF e, ls, both
<1> QED
  BY <1>2, <1>3

(* The entry a merge of reports of two commits gives a file.               *)
LEMMA MergedDiffIsGood ==
    ASSUME NEW mine \in Entry, NEW theirs \in Entry
    PROVE  LET e == MergedDiff(mine, theirs)
           IN  /\ e \in Entry /\ Good(e) /\ Len(e.block) = Len(mine.block)
               /\ e.stat.added = theirs.stat.added /\ e.stat.deleted = theirs.stat.deleted
               /\ Counts(e.block) = OtherCounts(Counts(mine.block), Counts(theirs.block))
               /\ Added(e.block) = Added(mine.block)
               /\ Hit(Counts(mine.block)) \subseteq Hit(Counts(e.block))
<1> DEFINE e == MergedDiff(mine, theirs)
           diff == DiffFrom(theirs, Added(mine.block))
           ls == OtherCounts(Counts(mine.block), Counts(theirs.block))
<1>1. /\ Counts(mine.block) \in Lines /\ Len(Counts(mine.block)) = Len(mine.block)
      /\ Added(mine.block) \subseteq 1..Len(mine.block) /\ Len(mine.block) \in Nat
  BY EntryParts
<1>2. Counts(theirs.block) \in Lines
  BY EntryParts
<1>3. Added(mine.block) \in SUBSET Nat
  BY <1>1
<1>4. /\ diff \in FileDiff /\ diff.lines = Added(mine.block)
      /\ diff.added = theirs.stat.added /\ diff.deleted = theirs.stat.deleted
  BY <1>3, EntryParts
<1>5. /\ ls \in Lines /\ Len(ls) = Len(mine.block)
      /\ Hit(Counts(mine.block)) \subseteq Hit(ls)
  BY <1>1, <1>2, OtherCountsAreLines
<1>6. DOMAIN ls = 1..Len(mine.block)
  BY <1>5 DEF Lines
<1>7. e = Filed(ls, diff)
  BY DEF MergedDiff
<1>8. DOMAIN ls \cap diff.lines = Added(mine.block)
  BY <1>1, <1>4, <1>6
<1> HIDE DEF diff, e, ls
<1>9. /\ e \in Entry /\ Good(e) /\ Counts(e.block) = ls /\ Len(e.block) = Len(ls)
      /\ Added(e.block) = DOMAIN ls \cap diff.lines
      /\ e.stat.added = diff.added /\ e.stat.deleted = diff.deleted
  BY <1>4, <1>5, <1>7, FiledIsGood
<1> QED
  BY <1>4, <1>5, <1>8, <1>9 DEF e, ls

(* A report after a merge of one of the same commit, file by file: those   *)
(* that are reached in the other are merged.                               *)
LEMMA MergeSameIsGood ==
    ASSUME NEW r, GoodReport(r), NEW o, GoodReport(o), NEW order \in Walks
    PROVE  /\ GoodReport(MergeSame(r, o, order))
           /\ MergeSame(r, o, order).base = r.base
           /\ Taken(r, o, order) \subseteq Present(r) =>
                 MergeSame(r, o, order).total = r.total
           /\ Present(MergeSame(r, o, order)) = Present(r) \cup Taken(r, o, order)
           /\ \A f \in Taken(r, o, order) :
                 MergeSame(r, o, order).file[f] = MergedSame(r.file[f], o.file[f])
           /\ \A f \in Files \ Taken(r, o, order) :
                 MergeSame(r, o, order).file[f] = r.file[f]
           /\ Taken(r, o, order) \subseteq Files
           /\ \A f \in Taken(r, o, order) : Fits(r, o, f)
           /\ \A f \in Files : Covered(r, f) \subseteq Covered(MergeSame(r, o, order), f)
<1> DEFINE m == MergeSame(r, o, order)
           S == Taken(r, o, order)
           new == [f \in S |-> MergedSame(r.file[f], o.file[f])]
<1>1. S \subseteq Files
  BY DEF Present, Taken
<1>2. \A f \in S : Fits(r, o, f)
  BY WalkMeetsAll DEF Reached, Taken
<1>3. \A f \in S : /\ o.file[f] \in Entry /\ r.file[f] \in Entry \cup {NoFile}
                   /\ r.file[f] # NoFile => f \in Present(r)
                   /\ f \in Present(r) => r.file[f] # NoFile
  BY <1>1, PresentIsGood DEF Present, Taken
<1>4. \A f \in S : r.file[f] # NoFile => Len(r.file[f].block) = Len(o.file[f].block)
  BY <1>2, <1>3 DEF Fits, Taken
<1>5. DOMAIN new = S /\ \A f \in S : new[f] = MergedSame(r.file[f], o.file[f])
  OBVIOUS
<1>6. m = PutFiles(r, new)
  BY DEF MergeSame, Taken
<1> HIDE DEF S, new, m
<1>7. \A f \in S : /\ MergedSame(r.file[f], o.file[f]) \in Entry
                   /\ Good(MergedSame(r.file[f], o.file[f]))
                   /\ r.file[f] # NoFile =>
                        Hit(Counts(r.file[f].block))
                          \subseteq Hit(Counts(MergedSame(r.file[f], o.file[f]).block))
  BY <1>3, <1>4, MergedSameIsGood
<1>8. \A f \in DOMAIN new : new[f] \in Entry /\ Good(new[f])
  BY <1>5, <1>7
<1>9. /\ GoodReport(m) /\ m.base = r.base
      /\ m.total = r.total + Cardinality(S \ Present(r))
      /\ Present(m) = Present(r) \cup S
      /\ \A f \in Files : m.file[f] = IF f \in S THEN new[f] ELSE r.file[f]
  <2>1. DOMAIN new \subseteq Files
    BY <1>1, <1>5
  <2>2. /\ GoodReport(PutFiles(r, new)) /\ PutFiles(r, new).base = r.base
        /\ PutFiles(r, new).total = r.total + Cardinality(DOMAIN new \ Present(r))
        /\ Present(PutFiles(r, new)) = Present(r) \cup DOMAIN new
        /\ \A f \in Files : PutFiles(r, new).file[f] =
                                IF f \in DOMAIN new THEN new[f] ELSE r.file[f]
    BY <1>8, <2>1, PutFilesIsGood
  <2> QED
    BY <1>5, <1>6, <2>2
<1>10. S \subseteq Present(r) => m.total = r.total
  <2> SUFFICES ASSUME S \subseteq Present(r) PROVE m.total = r.total
    OBVIOUS
  <2>1. S \ Present(r) = {} /\ Cardinality(S \ Present(r)) = 0
    BY FS_EmptySet
  <2>2. r.total \in Nat
    BY DEF GoodReport, ReportSet
  <2> QED
    BY <1>9, <2>1, <2>2
<1>11. \A f \in Files : Covered(r, f) \subseteq Covered(m, f)
  BY <1>3, <1>5, <1>7, <1>9 DEF Covered
<1> QED
  BY <1>1, <1>2, <1>5, <1>9, <1>10, <1>11 DEF S, m

(* And after a merge of one of another commit.                             *)
LEMMA MergeDiffIsGood ==
    ASSUME NEW r, GoodReport(r), NEW o, GoodReport(o)
    PROVE  LET m == MergeDiff(r, o)
               S == Present(r) \cap Present(o)
           IN  /\ GoodReport(m) /\ m.base = r.base /\ m.total = r.total
               /\ Present(m) = Present(r)
               /\ \A f \in Files : m.file[f] = IF f \in S THEN MergedDiff(r.file[f], o.file[f])
                                               ELSE r.file[f]
               /\ \A f \in Files : Covered(r, f) \subseteq Covered(m, f)
<1> DEFINE m == MergeDiff(r, o)
           S == Present(r) \cap Present(o)
           new == [f \in S |-> MergedDiff(r.file[f], o.file[f])]
<1>1. S \subseteq Files /\ S \subseteq Present(r) /\ S \ Present(r) = {}
  BY DEF Present
<1>2. \A f \in S : o.file[f] \in Entry /\ r.file[f] \in Entry
  BY <1>1, PresentIsGood
<1>3. DOMAIN new = S /\ \A f \in S : new[f] = MergedDiff(r.file[f], o.file[f])
  OBVIOUS
<1>4. m = PutFiles(r, new)
  BY DEF MergeDiff
<1> HIDE DEF S, new, m
<1>5. \A f \in S : /\ MergedDiff(r.file[f], o.file[f]) \in Entry
                   /\ Good(MergedDiff(r.file[f], o.file[f]))
                   /\ Hit(Counts(r.file[f].block))
                        \subseteq Hit(Counts(MergedDiff(r.file[f], o.file[f]).block))
  BY <1>2, MergedDiffIsGood
<1>6. \A f \in DOMAIN new : new[f] \in Entry /\ Good(new[f])
  BY <1>3, <1>5
<1>7. /\ GoodReport(m) /\ m.base = r.base
      /\ m.total = r.total + Cardinality(S \ Present(r))
      /\ Present(m) = Present(r) \cup S
      /\ \A f \in Files : m.file[f] = IF f \in S THEN new[f] ELSE r.file[f]
  BY <1>1, <1>3, <1>4, <1>6, PutFilesIsGood
<1>8. m.total = r.total
  <2>1. Cardinality(S \ Present(r)) = 0
    BY <1>1, FS_EmptySet
  <2>2. r.total \in Nat
    BY DEF GoodReport, ReportSet
  <2> QED
    BY <1>7, <2>1, <2>2
<1>9. \A f \in Files : Covered(r, f) \subseteq Covered(m, f)
  BY <1>1, <1>3, <1>5, <1>7 DEF Covered
<1> QED
  BY <1>1, <1>3, <1>7, <1>8, <1>9 DEF S, m

(* What a diff says of a file is as it was read.                           *)
LEMMA DiffInfoIsDiff ==
    ASSUME NEW b \in Bases \cup {NoBase}, NEW f \in Files
    PROVE  DiffInfo(b, f) \in FileDiff
<1>1. NoDiff \in FileDiff
  BY DEF NoDiff, FileDiff
<1> QED
  BY <1>1, ContentAssumption DEF ContentAssumption, DiffInfo

(* Meta data that are written anew leave the files as they are.            *)
LEMMA MetaIsGood ==
    ASSUME NEW r, GoodReport(r), NEW b \in Bases \cup {NoBase}, NEW n \in Nat
    PROVE  LET o == [r EXCEPT !.base = b, !.total = n]
               p == [r EXCEPT !.base = b]
           IN  /\ GoodReport(o) /\ o.base = b /\ o.total = n /\ o.file = r.file
               /\ Present(o) = Present(r)
               /\ GoodReport(p) /\ p.base = b /\ p.total = r.total /\ p.file = r.file
               /\ Present(p) = Present(r)
<1> DEFINE o == [r EXCEPT !.base = b, !.total = n]
           p == [r EXCEPT !.base = b]
<1>1. /\ r = [file |-> r.file, base |-> r.base, total |-> r.total]
      /\ r.file \in [Files -> Entry \cup {NoFile}] /\ r.total \in Nat
  BY DEF GoodReport, ReportSet
<1>2. /\ o = [file |-> r.file, base |-> b, total |-> n]
      /\ p = [file |-> r.file, base |-> b, total |-> r.total]
  <2>1. p = [file |-> r.file, base |-> b, total |-> r.total]
    BY <1>1
  <2>2. o = [p EXCEPT !.total = n]
    OBVIOUS
  <2> HIDE DEF o, p
  <2>3. o = [file |-> r.file, base |-> b, total |-> n]
    BY <2>1, <2>2
  <2> QED
    BY <2>1, <2>3
<1>3. /\ o \in ReportSet /\ o.base = b /\ o.total = n /\ o.file = r.file
      /\ p \in ReportSet /\ p.base = b /\ p.total = r.total /\ p.file = r.file
  BY <1>1, <1>2 DEF ReportSet
<1>4. Present(o) = Present(r) /\ Present(p) = Present(r)
  BY <1>3 DEF Present
<1> HIDE DEF o, p
<1>5. GoodReport(o) /\ GoodReport(p)
  BY <1>3, <1>4 DEF GoodReport
<1> QED
  BY <1>3, <1>4, <1>5 DEF o, p

(* A report without files fits trivially.                                  *)
LEMMA EmptyIsGood ==
    ASSUME NEW b \in Bases \cup {NoBase}, NEW n \in Nat
    PROVE  LET e == EmptyReport(b)
               o == [e EXCEPT !.total = n]
           IN  /\ GoodReport(e) /\ Present(e) = {}
               /\ GoodReport(o) /\ Present(o) = {} /\ o.base = b /\ o.total = n
               /\ \A f \in Files : o.file[f] = NoFile
<1> DEFINE e == EmptyReport(b)
           o == [e EXCEPT !.total = n]
           file == [f \in Files |-> NoFile]
<1>1. /\ e = [file |-> file, base |-> b, total |-> 0]
      /\ o = [file |-> file, base |-> b, total |-> n]
  BY DEF EmptyReport
<1>2. file \in [Files -> Entry \cup {NoFile}] /\ \A f \in Files : file[f] = NoFile
  OBVIOUS
<1> HIDE DEF file
<1>3. e \in ReportSet /\ o \in ReportSet /\ e.file = file /\ o.file = file
  BY <1>1, <1>2 DEF ReportSet
<1>4. Present(e) = {} /\ Present(o) = {}
  BY <1>2, <1>3 DEF Present
<1>5. o.base = b /\ o.total = n
  BY <1>1
<1> HIDE DEF e, o
<1>6. GoodReport(e) /\ GoodReport(o)
  BY <1>3, <1>4 DEF GoodReport
<1> QED
  BY <1>2, <1>3, <1>4, <1>5, <1>6 DEF e, o

(* A report after a rebase: the lines of each file are the same, with new  *)
(* marks.                                                                  *)
LEMMA RebasedIsGood ==
    ASSUME NEW r, GoodReport(r), NEW b \in Bases
    PROVE  LET m == Rebased(r, b)
           IN  /\ GoodReport(m) /\ m.base = b /\ m.total = r.total
               /\ Present(m) = Present(r)
               /\ \A f \in Present(r) :
                     /\ m.file[f] = Filed(Counts(r.file[f].block), DiffInfo(b, f))
                     /\ Counts(m.file[f].block) = Counts(r.file[f].block)
               /\ \A f \in Files \ Present(r) : m.file[f] = NoFile
               /\ \A f \in Files : Covered(r, f) \subseteq Covered(m, f)
<1> DEFINE m == Rebased(r, b)
           o == [r EXCEPT !.base = b]
           new == [f \in Present(r) |-> Filed(Counts(r.file[f].block), DiffInfo(b, f))]
<1>1. Present(r) \subseteq Files /\ Present(r) \ Present(r) = {}
  BY DEF Present
<1>2. b \in Bases \cup {NoBase}
  OBVIOUS
<1>3. /\ GoodReport(o) /\ o.base = b /\ o.total = r.total /\ o.file = r.file
      /\ Present(o) = Present(r)
  BY <1>2, MetaIsGood
<1>4. \A f \in Present(r) : /\ Counts(r.file[f].block) \in Lines
                            /\ DiffInfo(b, f) \in FileDiff
  BY <1>1, <1>2, PresentIsGood, EntryParts, DiffInfoIsDiff
<1>5. \A f \in Present(r) :
        /\ Filed(Counts(r.file[f].block), DiffInfo(b, f)) \in Entry
        /\ Good(Filed(Counts(r.file[f].block), DiffInfo(b, f)))
        /\ Counts(Filed(Counts(r.file[f].block), DiffInfo(b, f)).block) = Counts(r.file[f].block)
  BY <1>4, FiledIsGood
<1>6. DOMAIN new = Present(r)
      /\ \A f \in Present(r) : new[f] = Filed(Counts(r.file[f].block), DiffInfo(b, f))
  OBVIOUS
<1>7. m = PutFiles(o, new)
  BY DEF Rebased
<1> HIDE DEF m, o, new
<1>8. /\ GoodReport(m) /\ m.base = b
      /\ m.total = r.total + Cardinality(Present(r) \ Present(r))
      /\ Present(m) = Present(r)
      /\ \A f \in Files : m.file[f] = IF f \in Present(r) THEN new[f] ELSE r.file[f]
  <2>1. DOMAIN new \subseteq Files /\ \A f \in DOMAIN new : new[f] \in Entry /\ Good(new[f])
    BY <1>1, <1>5, <1>6
  <2>2. /\ GoodReport(PutFiles(o, new)) /\ PutFiles(o, new).base = o.base
        /\ PutFiles(o, new).total = o.total + Cardinality(DOMAIN new \ Present(o))
        /\ Present(PutFiles(o, new)) = Present(o) \cup DOMAIN new
        /\ \A f \in Files : PutFiles(o, new).file[f] =
                                IF f \in DOMAIN new THEN new[f] ELSE o.file[f]
    BY <1>3, <2>1, PutFilesIsGood
  <2> QED
    BY <1>3, <1>6, <1>7, <2>2
<1>9. m.total = r.total
  <2>1. Cardinality(Present(r) \ Present(r)) = 0
    BY <1>1, FS_EmptySet
  <2>2. r.total \in Nat
    BY DEF GoodReport, ReportSet
  <2> QED
    BY <1>8, <2>1, <2>2
<1>10. \A f \in Present(r) :
         /\ m.file[f] = Filed(Counts(r.file[f].block), DiffInfo(b, f))
         /\ Counts(m.file[f].block) = Counts(r.file[f].block)
  BY <1>1, <1>5, <1>6, <1>8
<1>11. \A f \in Files \ Present(r) : m.file[f] = NoFile
  BY <1>8 DEF Present
<1>12. \A f \in Files : Covered(r, f) \subseteq Covered(m, f)
  BY <1>8, <1>10 DEF Covered
<1> QED
  BY <1>8, <1>9, <1>10, <1>11, <1>12 DEF m

(* One merge of a request, whichever kind it is.                           *)
LEMMA MergeOneIsGood ==
    ASSUME ContentInv, NEW r, GoodReport(r), NEW b, NEW o \in Reports,
           NEW order \in Walks, NEW got
    PROVE  LET m == MergeOne(b, r, o, order, got)
           IN  /\ GoodReport(m)
               /\ \A f \in Files : Covered(r, f) \subseteq Covered(m, f)
<1> DEFINE m == MergeOne(b, r, o, order, got)
<1>1. GoodReport(rep[o])
  BY DEF ContentInv
<1>2. \/ m = r \/ m = MergeSame(r, rep[o], order) \/ m = MergeDiff(r, rep[o])
  BY DEF MergeOne
<1> HIDE DEF m
<1>3. CASE m = r
  BY <1>3 DEF m
<1>4. CASE m = MergeSame(r, rep[o], order)
  <2>1. /\ GoodReport(MergeSame(r, rep[o], order))
        /\ \A f \in Files : Covered(r, f) \subseteq Covered(MergeSame(r, rep[o], order), f)
    BY <1>1, MergeSameIsGood
  <2> QED
    BY <1>4, <2>1 DEF m
<1>5. CASE m = MergeDiff(r, rep[o])
  <2>1. /\ GoodReport(MergeDiff(r, rep[o]))
        /\ \A f \in Files : Covered(r, f) \subseteq Covered(MergeDiff(r, rep[o]), f)
    BY <1>1, MergeDiffIsGood
  <2> QED
    BY <1>5, <2>1 DEF m
<1> QED
  BY <1>2, <1>3, <1>4, <1>5

(* A merge request of one or two reports.                                  *)
LEMMA MergedIsGood ==
    ASSUME ContentInv, NEW r, GoodReport(r), NEW b, NEW others \in Requests,
           NEW order \in [DOMAIN others -> Walks], NEW got
    PROVE  LET m == Merged(b, r, others, order, got)
           IN  /\ GoodReport(m)
               /\ \A f \in Files : Covered(r, f) \subseteq Covered(m, f)
<1> DEFINE first == MergeOne(b, r, others[1], order[1], got[1])
           both == MergeOne(b, first, others[2], order[2], got[2])
           m == Merged(b, r, others, order, got)
<1>1. CASE others \in {<<o>> : o \in Reports}
  <2>1. 1 \in DOMAIN others /\ others[1] \in Reports /\ Len(others) = 1
    BY <1>1
  <2>2. order[1] \in Walks
    BY <2>1
  <2>3. m = first
    BY <2>1 DEF Merged
  <2>4. GoodReport(first) /\ \A f \in Files : Covered(r, f) \subseteq Covered(first, f)
    BY <2>1, <2>2, MergeOneIsGood
  <2> HIDE DEF m, first
  <2> QED
    BY <2>3, <2>4 DEF m
<1>2. CASE others \in Reports \X Reports
  <2>1. /\ 1 \in DOMAIN others /\ others[1] \in Reports
        /\ 2 \in DOMAIN others /\ others[2] \in Reports /\ Len(others) = 2
    BY <1>2
  <2>2. order[1] \in Walks /\ order[2] \in Walks
    BY <2>1
  <2>3. m = both
    BY <2>1 DEF Merged
  <2>4. GoodReport(first) /\ \A f \in Files : Covered(r, f) \subseteq Covered(first, f)
    BY <2>1, <2>2, MergeOneIsGood
  <2> HIDE DEF first
  <2>5. GoodReport(both) /\ \A f \in Files : Covered(first, f) \subseteq Covered(both, f)
    BY <2>1, <2>2, <2>4, MergeOneIsGood
  <2> HIDE DEF m, both
  <2> QED
    BY <2>3, <2>4, <2>5 DEF m
<1> QED
  BY <1>1, <1>2 DEF Requests

(* An entry that fits and is filed again from what it says is as before.   *)
LEMMA GoodIsFiled ==
    ASSUME NEW e \in Entry, Good(e)
    PROVE  Filed(Counts(e.block), DiffFrom(e, Added(e.block))) = e
<1>1. e = [block |-> e.block, stat |-> e.stat] /\ e.block \in Seq(Line)
  BY DEF Entry
<1>2. Blank(e.block) /\ e.stat = StatOf(Counts(e.block), DiffFrom(e, Added(e.block)))
  BY DEF Good
<1>3. Encode(Counts(e.block), Added(e.block)) = e.block
  BY <1>1, <1>2, DecodeThenEncode
<1>4. DiffFrom(e, Added(e.block)).lines = Added(e.block)
  BY DEF DiffFrom
<1>5. Filed(Counts(e.block), DiffFrom(e, Added(e.block))) =
        [block |-> Encode(Counts(e.block), Added(e.block)),
         stat |-> StatOf(Counts(e.block), DiffFrom(e, Added(e.block)))]
  BY <1>4 DEF Filed
<1> QED
  BY <1>1, <1>2, <1>3, <1>5

(* If every file fits, a merge takes over all the other report has.        *)
LEMMA AllAreTaken ==
    ASSUME NEW r, NEW o, NEW order \in Walks, \A f \in Files : Fits(r, o, f)
    PROVE  Taken(r, o, order) = Present(o)
<1>1. ASSUME NEW f \in Files
      PROVE  f \in Reached(r, o, order)
  <2>1. PICK i \in DOMAIN order : order[i] = f
    BY WalkMeetsAll
  <2>2. i \in 1..Cardinality(Files) /\ Cardinality(Files) \in Nat
    BY WalkMeetsAll
  <2>3. \A j \in 1..i : j \in DOMAIN order
    BY <2>2, WalkMeetsAll
  <2>4. \A j \in 1..i : Fits(r, o, order[j])
    BY <2>3, WalkMeetsAll
  <2> QED
    BY <2>1, <2>4 DEF Reached
<1> QED
  BY <1>1 DEF Present, Taken

(* A snapshot has the files of its source, whatever order they come in.    *)
LEMMA SnapshotHasFiles ==
    ASSUME NEW r, GoodReport(r), NEW order \in Walks
    PROVE  GoodReport(SnapshotOf(r, order)) /\ SnapshotOf(r, order).file = r.file
<1> DEFINE e == EmptyReport(r.base)
           o == [e EXCEPT !.total = r.total]
           m == MergeSame(o, r, order)
           S == Taken(o, r, order)
<1>1. /\ r.file \in [Files -> Entry \cup {NoFile}] /\ r.base \in Bases \cup {NoBase}
      /\ r.total \in Nat
  BY DEF GoodReport, ReportSet
<1>2. GoodReport(o) /\ Present(o) = {} /\ \A f \in Files : o.file[f] = NoFile
  BY <1>1, EmptyIsGood
<1> HIDE DEF o
<1>3. /\ GoodReport(m)
      /\ \A f \in S : m.file[f] = MergedSame(o.file[f], r.file[f])
      /\ \A f \in Files \ S : m.file[f] = o.file[f]
  <2>1. GoodReport(m)
    BY <1>2, MergeSameIsGood
  <2>2. \A f \in S : m.file[f] = MergedSame(o.file[f], r.file[f])
    BY <1>2, MergeSameIsGood
  <2>3. \A f \in Files \ S : m.file[f] = o.file[f]
    BY <1>2, MergeSameIsGood
  <2> QED
    BY <2>1, <2>2, <2>3
<1>4. \A f \in Files : Fits(o, r, f)
  BY <1>2 DEF Fits
<1>5. S = Present(r)
  BY <1>4, AllAreTaken
<1> HIDE DEF S
<1>6. ASSUME NEW f \in Files
      PROVE  m.file[f] = r.file[f]
  <2>1. CASE f \in Present(r)
    <3>1. m.file[f] = MergedSame(NoFile, r.file[f])
      BY <1>2, <1>3, <1>5, <2>1
    <3>2. r.file[f] \in Entry /\ Good(r.file[f])
      BY <2>1, PresentIsGood
    <3>3. MergedSame(NoFile, r.file[f]) =
            Filed(Counts(r.file[f].block), DiffFrom(r.file[f], Added(r.file[f].block)))
      BY DEF MergedSame
    <3>4. Filed(Counts(r.file[f].block), DiffFrom(r.file[f], Added(r.file[f].block)))
            = r.file[f]
      BY <3>2, GoodIsFiled
    <3> QED
      BY <3>1, <3>3, <3>4
  <2>2. CASE f \notin Present(r)
    <3>1. m.file[f] = NoFile
      BY <1>2, <1>3, <1>5, <2>2
    <3> QED
      BY <2>2, <3>1, PresentIsGood
  <2> QED
    BY <2>1, <2>2
<1>7. m.file \in [Files -> Entry \cup {NoFile}]
  BY <1>3 DEF GoodReport, ReportSet
<1>8. m.file = r.file
  <2> HIDE DEF m
  <2> QED
    BY <1>1, <1>6, <1>7
<1>9. SnapshotOf(r, order) = m
  BY DEF SnapshotOf, o
<1> QED
  BY <1>3, <1>8, <1>9

(* An upload puts entries that fit, of lines that can be stored.           *)
LEMMA UploadedIsGood ==
    ASSUME NEW u \in Uploads, NEW r, GoodReport(r), NEW S, S \subseteq DOMAIN u.lines,
           \A f \in S : Encodable(u.lines[f]), NEW b \in Bases \cup {NoBase}
    PROVE  GoodReport(PutFiles(r, [f \in S |-> Filed(u.lines[f], DiffInfo(b, f))]))
<1> DEFINE new == [f \in S |-> Filed(u.lines[f], DiffInfo(b, f))]
<1>1. S \subseteq Files /\ \A f \in S : u.lines[f] \in Seq(Int)
  BY ContentAssumption DEF ContentAssumption
<1>2. ASSUME NEW f \in S
      PROVE  u.lines[f] \in Lines
  <2> DEFINE ls == u.lines[f]
  <2>1. DOMAIN ls = 1..Len(ls) /\ Len(ls) \in Nat /\ ls = [i \in 1..Len(ls) |-> ls[i]]
    BY <1>1
  <2>2. \A i \in 1..Len(ls) : ls[i] \in Count
    BY <2>1 DEF Encodable, Count
  <2>3. ls \in [1..Len(ls) -> Count]
    BY <2>1, <2>2
  <2> QED
    BY <2>1, <2>3 DEF Lines
<1>3. \A f \in S : DiffInfo(b, f) \in FileDiff
  BY <1>1, DiffInfoIsDiff
<1>4. \A f \in DOMAIN new : new[f] \in Entry /\ Good(new[f])
  BY <1>2, <1>3, FiledIsGood
<1>5. DOMAIN new \subseteq Files
  BY <1>1
<1> HIDE DEF new
<1>6. GoodReport(PutFiles(r, new))
  BY <1>4, <1>5, PutFilesIsGood
<1> QED
  BY <1>6 DEF new

(* A good report in the place of another keeps the invariant.              *)
LEMMA OneReportChanges ==
    ASSUME ContentInv, NEW r \in Reports, NEW x, GoodReport(x),
           rep' = [rep EXCEPT ![r] = x]
    PROVE  /\ ContentInv' /\ rep'[r] = x
           /\ \A q \in Reports \ {r} : rep'[q] = rep[q]
<1>1. rep \in [Reports -> ReportSet] /\ \A q \in Reports : GoodReport(rep[q])
  BY DEF ContentInv
<1>2. x \in ReportSet
  BY DEF GoodReport
<1>3. rep' \in [Reports -> ReportSet]
  BY <1>1, <1>2
<1>4. \A q \in Reports : rep'[q] = IF q = r THEN x ELSE rep[q]
  BY <1>1
<1>5. \A q \in Reports : GoodReport(rep'[q])
  BY <1>1, <1>4
<1> QED
  BY <1>3, <1>4, <1>5 DEF ContentInv, GoodReport

-----------------------------------------------------------------------------
(* The reports are empty at first.                                         *)
LEMMA ContentInit == Init => ContentInv
<1> SUFFICES ASSUME Init PROVE ContentInv
  OBVIOUS
<1>1. GoodReport(EmptyReport(NoBase))
  <2>1. 0 \in Nat /\ NoBase \in Bases \cup {NoBase}
    OBVIOUS
  <2> QED
    BY <2>1, EmptyIsGood
<1>2. rep = [r \in Reports |-> EmptyReport(NoBase)]
  BY DEF Init
<1>3. EmptyReport(NoBase) \in ReportSet
  BY <1>1 DEF GoodReport
<1> QED
  BY <1>1, <1>2, <1>3 DEF ContentInv

(* No step but an upload or a snapshot takes coverage back.                *)
KeepsCoverage ==
    \A r \in Reports, f \in Files : Covered(rep[r], f) \subseteq Covered(rep'[r], f)

(* A reported upload keeps the invariant.                                  *)
LEMMA UploadKeepsContent ==
    ASSUME ContentInv, NEW u \in Uploads, Upload(u)
    PROVE  ContentInv'
<1> DEFINE against == IF u.got THEN u.base ELSE NoBase
<1>1. u.report \in Reports /\ u.base \in Bases \cup {NoBase}
  BY ContentAssumption DEF ContentAssumption
<1>2. against \in Bases \cup {NoBase} /\ 0 \in Nat
  BY <1>1
<1>3. CASE UploadUnittest(u)
  <2> DEFINE good == {f \in DOMAIN u.lines : Encodable(u.lines[f])}
             x == PutFiles(EmptyReport(u.base),
                           [f \in good |-> Filed(u.lines[f], DiffInfo(against, f))])
  <2>1. GoodReport(EmptyReport(u.base))
    BY <1>1, <1>2, EmptyIsGood
  <2>2. good \subseteq DOMAIN u.lines /\ \A f \in good : Encodable(u.lines[f])
    OBVIOUS
  <2>3. rep' = [rep EXCEPT ![u.report] = x]
    BY <1>3 DEF UploadUnittest
  <2> HIDE DEF against, good
  <2>4. GoodReport(x)
    BY <1>2, <2>1, <2>2, UploadedIsGood
  <2> HIDE DEF x
  <2> QED
    BY <1>1, <2>3, <2>4, OneReportChanges
<1>4. CASE UploadSystest(u)
  <2> DEFINE opened == [rep[u.report] EXCEPT !.base = u.base, !.total = 0]
             x == PutFiles(opened, [f \in DOMAIN u.lines |->
                                        Filed(u.lines[f], DiffInfo(against, f))])
  <2>1. GoodReport(rep[u.report])
    BY <1>1 DEF ContentInv
  <2>2. GoodReport(opened)
    BY <1>1, <1>2, <2>1, MetaIsGood
  <2>3. \A f \in DOMAIN u.lines : Encodable(u.lines[f])
    BY <1>4 DEF UploadSystest
  <2>4. rep' = [rep EXCEPT ![u.report] = x]
    BY <1>4 DEF UploadSystest
  <2> HIDE DEF against, opened
  <2>5. GoodReport(x)
    BY <1>2, <2>2, <2>3, UploadedIsGood
  <2> HIDE DEF x
  <2> QED
    BY <1>1, <2>4, <2>5, OneReportChanges
<1>5. CASE UploadRefused(u)
  BY <1>5 DEF UploadRefused, vars, ContentInv, GoodReport
<1> QED
  BY <1>3, <1>4, <1>5 DEF Upload

(* Merging two reports keeps the invariant.                                *)
LEMMA MergeKeepsContent ==
    ASSUME ContentInv, NEW b \in Targets, NEW others \in Requests, MergeReports(b, others)
    PROVE  ContentInv' /\ KeepsCoverage
<1>1. b \in Reports /\ GoodReport(rep[b])
  BY ContentAssumption DEF ContentAssumption, ContentInv
<1>2. PICK order \in [DOMAIN others -> Walks], got \in [DOMAIN others -> BOOLEAN] :
          rep' = [rep EXCEPT ![b] = Merged(b, rep[b], others, order, got)]
  BY DEF MergeReports
<1> DEFINE x == Merged(b, rep[b], others, order, got)
<1>3. GoodReport(x) /\ \A f \in Files : Covered(rep[b], f) \subseteq Covered(x, f)
  BY <1>1, MergedIsGood
<1>4. rep' = [rep EXCEPT ![b] = x]
  BY <1>2
<1> HIDE DEF x
<1>5. ContentInv' /\ rep'[b] = x /\ \A q \in Reports \ {b} : rep'[q] = rep[q]
  BY <1>1, <1>3, <1>4, OneReportChanges
<1> QED
  BY <1>3, <1>5 DEF KeepsCoverage

(* Rebasing a report keeps the invariant.                                  *)
LEMMA RebaseKeepsContent ==
    ASSUME ContentInv, NEW r \in Targets, NEW b \in Bases, RebaseReport(r, b)
    PROVE  ContentInv' /\ KeepsCoverage
<1>1. r \in Reports /\ GoodReport(rep[r])
  BY ContentAssumption DEF ContentAssumption, ContentInv
<1> DEFINE x == Rebased(rep[r], b)
<1>2. GoodReport(x) /\ \A f \in Files : Covered(rep[r], f) \subseteq Covered(x, f)
  BY <1>1, RebasedIsGood
<1>3. rep' = [rep EXCEPT ![r] = x]
  BY DEF RebaseReport
<1> HIDE DEF x
<1>4. ContentInv' /\ rep'[r] = x /\ \A q \in Reports \ {r} : rep'[q] = rep[q]
  BY <1>1, <1>2, <1>3, OneReportChanges
<1> QED
  BY <1>2, <1>4 DEF KeepsCoverage

(* Taking a snapshot keeps the invariant.                                  *)
LEMMA SnapshotKeepsContent ==
    ASSUME ContentInv, NEW p \in Snapshots, CreateSnapshot(p[1], p[2])
    PROVE  ContentInv'
<1>1. p[1] \in Reports /\ p[2] \in Reports
  BY ContentAssumption DEF ContentAssumption
<1>2. GoodReport(rep[p[2]])
  BY <1>1 DEF ContentInv
<1>3. PICK order \in Walks : rep' = [rep EXCEPT ![p[1]] = SnapshotOf(rep[p[2]], order)]
  BY DEF CreateSnapshot
<1> DEFINE x == SnapshotOf(rep[p[2]], order)
<1>4. GoodReport(x)
  BY <1>2, SnapshotHasFiles
<1>5. rep' = [rep EXCEPT ![p[1]] = x]
  BY <1>3
<1> HIDE DEF x
<1> QED
  BY <1>1, <1>4, <1>5, OneReportChanges

(* Every step keeps the reports good, and what is covered stays covered    *)
(* unless the step is an upload or a snapshot.                             *)
LEMMA ContentStep ==
    ASSUME ContentInv, [Next]_vars
    PROVE  ContentInv' /\ (Next => Replaced \/ KeepsCoverage)
<1>1. CASE Next
  <2>1. CASE \E u \in Uploads : Upload(u)
    BY <2>1, UploadKeepsContent DEF Replaced
  <2>2. CASE \E b \in Targets, others \in Requests : MergeReports(b, others)
    BY <2>2, MergeKeepsContent
  <2>3. CASE \E b \in Targets, others \in Requests : MergeRefused(b, others)
    BY <2>3 DEF MergeRefused, vars, ContentInv, GoodReport, KeepsCoverage
  <2>4. CASE \E r \in Targets, b \in Bases : RebaseReport(r, b)
    BY <2>4, RebaseKeepsContent
  <2>5. CASE RebaseRefused
    BY <2>5 DEF RebaseRefused, vars, ContentInv, GoodReport, KeepsCoverage
  <2>6. CASE \E p \in Snapshots : CreateSnapshot(p[1], p[2])
    BY <2>6, SnapshotKeepsContent DEF Replaced
  <2> QED
    BY <1>1, <2>1, <2>2, <2>3, <2>4, <2>5, <2>6 DEF Next
<1>2. CASE UNCHANGED vars
  BY <1>2 DEF vars, ContentInv, GoodReport, KeepsCoverage
<1> QED
  BY <1>1, <1>2

(* The reports are consistent in every state.                              *)
LEMMA ContentInvariant == Spec => []ContentInv
<1>1. ContentInv /\ [Next]_vars => ContentInv'
  BY ContentStep
<1> QED
  BY <1>1, ContentInit, PTL DEF Spec

-----------------------------------------------------------------------------
(* Every stored entry has lines that can be stored, and statistics; TypeOK.*)
THEOREM ContentIsTyped == Spec => []TypeOK
<1>1. ContentInv => TypeOK
  <2> SUFFICES ASSUME ContentInv, NEW r \in Reports
               PROVE  /\ rep[r].base \in Bases \cup {NoBase}
                      /\ rep[r].total \in Nat
                      /\ \A f \in Present(rep[r]) :
                            /\ Counts(rep[r].file[f].block) \in Lines
                            /\ rep[r].file[f].stat \in Stat
    BY DEF TypeOK, Lines, Count
  <2>1. GoodReport(rep[r])
    BY DEF ContentInv
  <2>2. rep[r].base \in Bases \cup {NoBase} /\ rep[r].total \in Nat
    BY <2>1 DEF GoodReport, ReportSet
  <2>3. \A f \in Present(rep[r]) : rep[r].file[f] \in Entry
    BY <2>1, PresentIsGood DEF Present
  <2> QED
    BY <2>2, <2>3, EntryParts
<1> QED
  BY <1>1, ContentInvariant, PTL

(* Whatever requests made of a report, the statistics of a file in .cno    *)
(* say of its lines and increments what its block in .cda holds            *)
(* (StatsFitLines).                                                        *)
THEOREM StatisticsFitBlocks == Spec => []StatsFitLines
<1>1. ContentInv => StatsFitLines
  <2> SUFFICES ASSUME ContentInv, NEW r \in Reports, NEW f \in Present(rep[r])
               PROVE  Good(rep[r].file[f])
    BY DEF StatsFitLines, Good, DiffFrom
  <2>1. GoodReport(rep[r])
    BY DEF ContentInv
  <2> QED
    BY <2>1 DEF GoodReport
<1> QED
  BY <1>1, ContentInvariant, PTL

(* No merge and no rebase makes a line uncovered that was covered          *)
(* (CoverageIsKept).                                                       *)
THEOREM CoverageStays == Spec => CoverageIsKept
<1>1. ContentInv /\ [Next]_vars =>
        [\/ Replaced
         \/ \A r \in Reports, f \in Files :
                Covered(rep[r], f) \subseteq Covered(rep'[r], f)]_vars
  BY ContentStep DEF KeepsCoverage
<1> QED
  BY <1>1, ContentInvariant, PTL DEF Spec, CoverageIsKept

(* A snapshot shows exactly the files of its source, in whatever order the *)
(* walk meets them (SnapshotIsFaithful).                                   *)
THEOREM SnapshotsAreFaithful == Spec => []SnapshotIsFaithful
<1>1. ContentInv => SnapshotIsFaithful
  BY SnapshotHasFiles DEF SnapshotIsFaithful, ContentInv
<1> QED
  BY <1>1, ContentInvariant, PTL

(* Two reports with the same parts are the same.                           *)
LEMMA SameReport ==
    ASSUME NEW r, GoodReport(r), NEW m, GoodReport(m), r.base = m.base, r.total = m.total,
           \A f \in Files : r.file[f] = m.file[f]
    PROVE  r = m
<1>1. /\ r = [file |-> r.file, base |-> r.base, total |-> r.total]
      /\ m = [file |-> m.file, base |-> m.base, total |-> m.total]
      /\ r.file \in [Files -> Entry \cup {NoFile}] /\ m.file \in [Files -> Entry \cup {NoFile}]
  BY DEF GoodReport, ReportSet
<1>2. r.file = m.file
  BY <1>1
<1> QED
  BY <1>1, <1>2

(* Taking the larger counts, or the counts of the other report, twice does *)
(* what doing so once does.                                                *)
LEMMA CountsTwice ==
    ASSUME NEW ls \in Lines, NEW other \in Lines
    PROVE  /\ Len(ls) = Len(other) =>
                LargerCounts(LargerCounts(ls, other), other) = LargerCounts(ls, other)
           /\ LargerCounts(other, other) = other
           /\ OtherCounts(OtherCounts(ls, other), other) = OtherCounts(ls, other)
<1>1. /\ DOMAIN ls = 1..Len(ls) /\ Len(ls) \in Nat
      /\ \A i \in 1..Len(ls) : ls[i] \in Count
      /\ DOMAIN other = 1..Len(other) /\ Len(other) \in Nat
      /\ \A i \in 1..Len(other) : other[i] \in Count
      /\ other = [i \in 1..Len(other) |-> other[i]]
  BY DEF Lines
<1>2. Len(ls) = Len(other) =>
        LargerCounts(LargerCounts(ls, other), other) = LargerCounts(ls, other)
  BY <1>1 DEF LargerCounts
<1>3. LargerCounts(other, other) = other
  <2>1. LargerCounts(other, other) = [i \in 1..Len(other) |-> other[i]]
    BY <1>1 DEF LargerCounts
  <2> QED
    BY <1>1, <2>1
<1>4. OtherCounts(OtherCounts(ls, other), other) = OtherCounts(ls, other)
  BY <1>1 DEF OtherCounts
<1> QED
  BY <1>2, <1>3, <1>4

(* So merging the same entry twice gives the entry it gave once.           *)
LEMMA MergedTwice ==
    ASSUME NEW mine \in Entry \cup {NoFile}, NEW theirs \in Entry
    PROVE  /\ (mine # NoFile => Len(mine.block) = Len(theirs.block)) =>
                MergedSame(MergedSame(mine, theirs), theirs) = MergedSame(mine, theirs)
           /\ mine # NoFile =>
                MergedDiff(MergedDiff(mine, theirs), theirs) = MergedDiff(mine, theirs)
<1>1. Counts(theirs.block) \in Lines /\ Len(Counts(theirs.block)) = Len(theirs.block)
  BY EntryParts
<1>2. ASSUME mine # NoFile => Len(mine.block) = Len(theirs.block)
      PROVE  MergedSame(MergedSame(mine, theirs), theirs) = MergedSame(mine, theirs)
  <2> DEFINE e == MergedSame(mine, theirs)
             other == Counts(theirs.block)
  <2>1. /\ e \in Entry
        /\ mine = NoFile => /\ Counts(e.block) = other
                            /\ Added(e.block) = Added(theirs.block)
        /\ mine # NoFile => /\ Counts(e.block) = LargerCounts(Counts(mine.block), other)
                            /\ Added(e.block) = Added(mine.block) \cup Added(theirs.block)
    BY <1>2, MergedSameIsGood
  <2>2. e # NoFile
    BY <2>1, EntryParts
  <2>3. MergedSame(e, theirs) =
          Filed(LargerCounts(Counts(e.block), other),
                DiffFrom(theirs, Added(e.block) \cup Added(theirs.block)))
    BY <2>2 DEF MergedSame
  <2>4. Added(e.block) \cup Added(theirs.block) = Added(e.block)
    BY <2>1
  <2>5. LargerCounts(Counts(e.block), other) = Counts(e.block)
    <3>1. CASE mine = NoFile
      BY <1>1, <2>1, <3>1, CountsTwice
    <3>2. CASE mine # NoFile
      <4>1. Counts(mine.block) \in Lines /\ Len(Counts(mine.block)) = Len(other)
        BY <1>1, <1>2, <3>2, EntryParts
      <4> QED
        BY <1>1, <2>1, <3>2, <4>1, CountsTwice
    <3> QED
      BY <3>1, <3>2
  <2>6. e = Filed(Counts(e.block), DiffFrom(theirs, Added(e.block)))
    <3>1. CASE mine = NoFile
      <4>1. e = Filed(other, DiffFrom(theirs, Added(theirs.block)))
        BY <3>1 DEF MergedSame
      <4> HIDE DEF e, other
      <4> QED
        BY <2>1, <3>1, <4>1
    <3>2. CASE mine # NoFile
      <4>1. e = Filed(LargerCounts(Counts(mine.block), other),
                      DiffFrom(theirs, Added(mine.block) \cup Added(theirs.block)))
        BY <3>2 DEF MergedSame
      <4> HIDE DEF e, other
      <4> QED
        BY <2>1, <3>2, <4>1
    <3> QED
      BY <3>1, <3>2
  <2> HIDE DEF e, other
  <2>7. MergedSame(e, theirs) = e
    BY <2>3, <2>4, <2>5, <2>6
  <2> QED
    BY <2>7 DEF e
<1>3. ASSUME mine # NoFile
      PROVE  MergedDiff(MergedDiff(mine, theirs), theirs) = MergedDiff(mine, theirs)
  <2> DEFINE e == MergedDiff(mine, theirs)
             other == Counts(theirs.block)
  <2>1. /\ Counts(e.block) = OtherCounts(Counts(mine.block), other)
        /\ Added(e.block) = Added(mine.block)
    BY <1>3, MergedDiffIsGood
  <2>2. e = Filed(OtherCounts(Counts(mine.block), other),
                  DiffFrom(theirs, Added(mine.block)))
    BY DEF MergedDiff
  <2>3. MergedDiff(e, theirs) = Filed(OtherCounts(Counts(e.block), other),
                                      DiffFrom(theirs, Added(e.block)))
    BY DEF MergedDiff
  <2>4. Counts(mine.block) \in Lines
    BY <1>3, EntryParts
  <2>5. OtherCounts(OtherCounts(Counts(mine.block), other), other) =
          OtherCounts(Counts(mine.block), other)
    BY <1>1, <2>4, CountsTwice
  <2> HIDE DEF e, other
  <2>6. MergedDiff(e, theirs) = e
    BY <2>1, <2>2, <2>3, <2>5
  <2> QED
    BY <2>6 DEF e
<1> QED
  BY <1>2, <1>3

(* A merge of a report of the same commit leaves the files as they fitted. *)
LEMMA MergeKeepsFit ==
    ASSUME NEW r, GoodReport(r), NEW o, GoodReport(o), NEW order \in Walks
    PROVE  Taken(MergeSame(r, o, order), o, order) = Taken(r, o, order)
<1> DEFINE m == MergeSame(r, o, order)
           S == Taken(r, o, order)
<1>1. /\ S \subseteq Files /\ S \subseteq Present(o)
      /\ \A f \in S : Fits(r, o, f)
  BY MergeSameIsGood DEF Taken
<1>2. Present(m) = Present(r) \cup S
  BY MergeSameIsGood
<1>3. \A f \in S : m.file[f] = MergedSame(r.file[f], o.file[f])
  BY MergeSameIsGood
<1>4. \A f \in Files \ S : m.file[f] = r.file[f]
  BY MergeSameIsGood
<1> HIDE DEF S, m
<1>5. ASSUME NEW f \in S
      PROVE  Fits(r, o, f) /\ Fits(m, o, f)
  <2>1. /\ o.file[f] \in Entry /\ r.file[f] \in Entry \cup {NoFile}
        /\ r.file[f] # NoFile => f \in Present(r)
    BY <1>1, PresentIsGood DEF Present
  <2>2. r.file[f] # NoFile => Len(r.file[f].block) = Len(o.file[f].block)
    BY <1>1, <2>1 DEF Fits
  <2>3. Len(MergedSame(r.file[f], o.file[f]).block) = Len(o.file[f].block)
    BY <2>1, <2>2, MergedSameIsGood
  <2> QED
    BY <1>1, <1>3, <2>3 DEF Fits
<1>6. ASSUME NEW f \in Files \ S
      PROVE  Fits(m, o, f) <=> Fits(r, o, f)
  BY <1>2, <1>4 DEF Fits
<1>7. \A f \in Files : Fits(m, o, f) <=> Fits(r, o, f)
  BY <1>5, <1>6
<1>8. \A i \in DOMAIN order : \A j \in 1..i : order[j] \in Files
  <2>1. ASSUME NEW i \in DOMAIN order, NEW j \in 1..i
        PROVE  j \in DOMAIN order
    BY WalkMeetsAll
  <2> QED
    BY <2>1, WalkMeetsAll
<1>9. Reached(m, o, order) = Reached(r, o, order)
  BY <1>7, <1>8 DEF Reached
<1> QED
  BY <1>9 DEF m, Taken

(* So a merge of one report that is repeated changes nothing.              *)
LEMMA MergeSameTwice ==
    ASSUME NEW r, GoodReport(r), NEW o, GoodReport(o), NEW order \in Walks
    PROVE  MergeSame(MergeSame(r, o, order), o, order) = MergeSame(r, o, order)
<1> DEFINE m == MergeSame(r, o, order)
           t == MergeSame(m, o, order)
           S == Taken(r, o, order)
<1>1. S \subseteq Files /\ S \subseteq Present(o) /\ \A f \in S : Fits(r, o, f)
  BY MergeSameIsGood DEF Taken
<1>2. GoodReport(m) /\ Present(m) = Present(r) \cup S
  BY MergeSameIsGood
<1>3. \A f \in S : m.file[f] = MergedSame(r.file[f], o.file[f])
  BY MergeSameIsGood
<1>4. Taken(m, o, order) = S
  BY MergeKeepsFit
<1> HIDE DEF S, m
<1>5. /\ GoodReport(t) /\ t.base = m.base
      /\ Taken(m, o, order) \subseteq Present(m) => t.total = m.total
  BY <1>2, MergeSameIsGood
<1>6. \A f \in S : t.file[f] = MergedSame(m.file[f], o.file[f])
  BY <1>2, <1>4, MergeSameIsGood
<1>7. \A f \in Files \ S : t.file[f] = m.file[f]
  BY <1>2, <1>4, MergeSameIsGood
<1>8. ASSUME NEW f \in S
      PROVE  t.file[f] = m.file[f]
  <2>1. /\ o.file[f] \in Entry /\ r.file[f] \in Entry \cup {NoFile}
        /\ r.file[f] # NoFile => f \in Present(r)
    BY <1>1, PresentIsGood DEF Present
  <2>2. r.file[f] # NoFile => Len(r.file[f].block) = Len(o.file[f].block)
    BY <1>1, <2>1 DEF Fits
  <2> QED
    BY <1>3, <1>6, <2>1, <2>2, MergedTwice
<1>9. t.total = m.total
  BY <1>2, <1>4, <1>5
<1> HIDE DEF t
<1>10. t = m
  BY <1>2, <1>5, <1>7, <1>8, <1>9, SameReport
<1> QED
  BY <1>10 DEF t, m

(* Merging the same report of another commit again changes nothing.        *)
LEMMA MergeDiffTwice ==
    ASSUME NEW r, GoodReport(r), NEW o, GoodReport(o)
    PROVE  MergeDiff(MergeDiff(r, o), o) = MergeDiff(r, o)
<1> DEFINE m == MergeDiff(r, o)
           t == MergeDiff(m, o)
           S == Present(r) \cap Present(o)
<1>1. /\ GoodReport(m) /\ Present(m) = Present(r)
      /\ \A f \in Files : m.file[f] = IF f \in S THEN MergedDiff(r.file[f], o.file[f])
                                      ELSE r.file[f]
  BY MergeDiffIsGood
<1> HIDE DEF m
<1>2. /\ GoodReport(t) /\ t.base = m.base /\ t.total = m.total
      /\ \A f \in Files : t.file[f] = IF f \in Present(m) \cap Present(o)
                                      THEN MergedDiff(m.file[f], o.file[f])
                                      ELSE m.file[f]
  BY <1>1, MergeDiffIsGood
<1> HIDE DEF t
<1>3. ASSUME NEW f \in Files
      PROVE  t.file[f] = m.file[f]
  <2>1. CASE f \in S
    <3>1. r.file[f] \in Entry /\ o.file[f] \in Entry /\ r.file[f] # NoFile
      BY <2>1, PresentIsGood DEF Present
    <3> QED
      BY <1>1, <1>2, <2>1, <3>1, MergedTwice
  <2>2. CASE f \notin S
    BY <1>1, <1>2, <2>2
  <2> QED
    BY <2>1, <2>2
<1>4. t = m
  BY <1>1, <1>2, <1>3, SameReport
<1> QED
  BY <1>4 DEF t, m

(* A merge request for one report that is sent again changes nothing more  *)
(* (MergeCanBeRetried).                                                    *)
THEOREM MergesCanBeRetried == Spec => []MergeCanBeRetried
<1>1. ContentInv => MergeCanBeRetried
  <2> SUFFICES ASSUME ContentInv, NEW b \in Targets, NEW o \in Reports, NEW got \in BOOLEAN,
                      NEW order \in Walks
               PROVE  MergeOne(b, MergeOne(b, rep[b], o, order, got), o, order, got)
                        = MergeOne(b, rep[b], o, order, got)
    BY DEF MergeCanBeRetried
  <2>1. b \in Reports /\ GoodReport(rep[b]) /\ GoodReport(rep[o])
    BY ContentAssumption DEF ContentAssumption, ContentInv
  <2>2. MergeSame(MergeSame(rep[b], rep[o], order), rep[o], order)
          = MergeSame(rep[b], rep[o], order)
    BY <2>1, MergeSameTwice
  <2>3. MergeDiff(MergeDiff(rep[b], rep[o]), rep[o]) = MergeDiff(rep[b], rep[o])
    BY <2>1, MergeDiffTwice
  <2> QED
    BY <2>2, <2>3 DEF MergeOne
<1> QED
  BY <1>1, ContentInvariant, PTL

(* A rebase keeps of a file what is counted in it, and forgets its marks.  *)
LEMMA RebasedTwice ==
    ASSUME NEW r, GoodReport(r), NEW b \in Bases, NEW c \in Bases
    PROVE  Rebased(Rebased(r, b), c) = Rebased(r, c)
<1> DEFINE m == Rebased(r, b)
           t == Rebased(m, c)
           o == Rebased(r, c)
<1>1. /\ GoodReport(m) /\ m.total = r.total /\ Present(m) = Present(r)
      /\ \A f \in Present(r) : Counts(m.file[f].block) = Counts(r.file[f].block)
  BY RebasedIsGood
<1>2. /\ GoodReport(o) /\ o.base = c /\ o.total = r.total
      /\ \A f \in Present(r) : o.file[f] = Filed(Counts(r.file[f].block), DiffInfo(c, f))
      /\ \A f \in Files \ Present(r) : o.file[f] = NoFile
  BY RebasedIsGood
<1> HIDE DEF m, o
<1>3. /\ GoodReport(t) /\ t.base = c /\ t.total = m.total
      /\ \A f \in Present(m) : t.file[f] = Filed(Counts(m.file[f].block), DiffInfo(c, f))
      /\ \A f \in Files \ Present(m) : t.file[f] = NoFile
  BY <1>1, RebasedIsGood
<1> HIDE DEF t
<1>4. \A f \in Files : t.file[f] = o.file[f]
  BY <1>1, <1>2, <1>3
<1>5. t = o
  BY <1>1, <1>2, <1>3, <1>4, SameReport
<1> QED
  BY <1>5 DEF t, m, o

(* A rebase leaves the coverage of every node as it was.                   *)
LEMMA RebasedCoverage ==
    ASSUME NEW r, GoodReport(r), NEW b \in Bases, NEW n \in Nodes
    PROVE  Coverage(Rebased(r, b), n) = Coverage(r, n)
<1> DEFINE m == Rebased(r, b)
           S == Beneath[n] \cap Present(r)
<1>1. /\ GoodReport(m) /\ Present(m) = Present(r) /\ Present(r) \subseteq Files
      /\ \A f \in Present(r) : Counts(m.file[f].block) = Counts(r.file[f].block)
  BY RebasedIsGood DEF Present
<1> HIDE DEF m
<1>2. ASSUME NEW q, GoodReport(q), NEW f \in Present(q)
      PROVE  /\ q.file[f].stat["cover"] = Cardinality(Hit(Counts(q.file[f].block)))
             /\ q.file[f].stat["instr"] = Cardinality(Instr(Counts(q.file[f].block)))
  <2>1. Good(q.file[f])
    BY <1>2 DEF GoodReport
  <2> QED
    BY <2>1 DEF Good, StatOf
<1>3. \A f \in S : /\ m.file[f].stat["cover"] = r.file[f].stat["cover"]
                   /\ m.file[f].stat["instr"] = r.file[f].stat["instr"]
  BY <1>1, <1>2
<1>4. /\ [f \in Beneath[n] \cap Present(m) |-> m.file[f].stat["cover"]]
           = [f \in S |-> r.file[f].stat["cover"]]
      /\ [f \in Beneath[n] \cap Present(m) |-> m.file[f].stat["instr"]]
           = [f \in S |-> r.file[f].stat["instr"]]
  BY <1>1, <1>3
<1>5. \A q : /\ NodeStat(q, n).cover =
                  SumFunction([f \in Beneath[n] \cap Present(q) |-> q.file[f].stat["cover"]])
             /\ NodeStat(q, n).instr =
                  SumFunction([f \in Beneath[n] \cap Present(q) |-> q.file[f].stat["instr"]])
  BY DEF NodeStat
<1>6. NodeStat(m, n).cover = NodeStat(r, n).cover /\ NodeStat(m, n).instr = NodeStat(r, n).instr
  BY <1>4, <1>5
<1> QED
  BY <1>6 DEF Coverage, m

(* Rebasing to one base and then to another is rebasing to the other, and  *)
(* the coverage of every node stays as it was (RebaseForgets).             *)
THEOREM RebasesForget == Spec => []RebaseForgets
<1>1. ContentInv => RebaseForgets
  <2> SUFFICES ASSUME ContentInv, NEW r \in Targets, NEW b \in Bases, NEW c \in Bases
               PROVE  /\ Rebased(Rebased(rep[r], b), c) = Rebased(rep[r], c)
                      /\ \A n \in Nodes : Coverage(Rebased(rep[r], b), n) = Coverage(rep[r], n)
    BY DEF RebaseForgets
  <2>1. GoodReport(rep[r])
    BY ContentAssumption DEF ContentAssumption, ContentInv
  <2> QED
    BY <2>1, RebasedTwice, RebasedCoverage
<1> QED
  BY <1>1, ContentInvariant, PTL

(* Of two counts taken after a first the larger is taken in any order, and *)
(* of two alone if both know the same instructions.                        *)
LEMMA CountsInAnyOrder ==
    ASSUME NEW ls \in Lines, NEW x \in Lines, NEW y \in Lines,
           Len(x) = Len(ls), Len(y) = Len(ls)
    PROVE  LargerCounts(LargerCounts(ls, x), y) = LargerCounts(LargerCounts(ls, y), x)
<1>1. /\ DOMAIN ls = 1..Len(ls) /\ DOMAIN x = 1..Len(ls) /\ DOMAIN y = 1..Len(ls)
      /\ \A i \in 1..Len(ls) : ls[i] \in Int /\ x[i] \in Int /\ y[i] \in Int
  BY ContentAssumption DEF ContentAssumption, Lines, Count
<1> QED
  BY <1>1 DEF LargerCounts

(* With the same lines of instructions, the larger counts do not depend on *)
(* the order of the two.                                                   *)
LEMMA CountsOfTwo ==
    ASSUME NEW x \in Lines, NEW y \in Lines, Len(x) = Len(y), Instr(x) = Instr(y)
    PROVE  LargerCounts(x, y) = LargerCounts(y, x)
<1>1. /\ DOMAIN x = 1..Len(x) /\ DOMAIN y = 1..Len(x)
      /\ \A i \in 1..Len(x) : x[i] \in -1..MaxCount /\ y[i] \in -1..MaxCount
      /\ MaxCount \in Nat
  BY ContentAssumption DEF ContentAssumption, Lines, Count
<1>2. \A i \in 1..Len(x) : (x[i] = -1) <=> (y[i] = -1)
  BY <1>1 DEF Instr
<1>3. \A i \in 1..Len(x) : (IF y[i] > 0 /\ y[i] > x[i] THEN y[i] ELSE x[i]) =
                           (IF x[i] > 0 /\ x[i] > y[i] THEN x[i] ELSE y[i])
  BY <1>1, <1>2
<1> QED
  BY <1>1, <1>3 DEF LargerCounts

(* Two entries of the same lines with the same marks have the same block.  *)
LEMMA SameBlock ==
    ASSUME NEW d \in Entry, Good(d), NEW e \in Entry, Good(e),
           Counts(d.block) = Counts(e.block), Added(d.block) = Added(e.block)
    PROVE  d.block = e.block
<1>1. d.block \in Seq(Line) /\ e.block \in Seq(Line) /\ Blank(d.block) /\ Blank(e.block)
  BY EntryParts DEF Good
<1>2. /\ Encode(Counts(d.block), Added(d.block)) = d.block
      /\ Encode(Counts(e.block), Added(e.block)) = e.block
  BY <1>1, DecodeThenEncode
<1> QED
  BY <1>2

(* The block of a file in two reports that are merged into a third.        *)
LEMMA MergedInAnyOrder ==
    ASSUME NEW mine \in Entry \cup {NoFile}, NEW d \in Entry, NEW e \in Entry,
           mine # NoFile => Len(mine.block) = Len(d.block),
           Len(e.block) = Len(d.block),
           mine # NoFile \/ Instr(Counts(d.block)) = Instr(Counts(e.block))
    PROVE  MergedSame(MergedSame(mine, d), e).block = MergedSame(MergedSame(mine, e), d).block
<1> DEFINE de == MergedSame(MergedSame(mine, d), e)
           ed == MergedSame(MergedSame(mine, e), d)
           x == Counts(d.block)
           y == Counts(e.block)
<1>1. x \in Lines /\ y \in Lines /\ Len(x) = Len(d.block) /\ Len(y) = Len(d.block)
  BY EntryParts
<1>2. ASSUME NEW q \in Entry, mine # NoFile => Len(mine.block) = Len(q.block)
      PROVE  LET m == MergedSame(mine, q)
             IN  /\ m \in Entry /\ m # NoFile /\ Len(m.block) = Len(q.block)
                 /\ mine = NoFile => /\ Counts(m.block) = Counts(q.block)
                                     /\ Added(m.block) = Added(q.block)
                 /\ mine # NoFile =>
                      /\ Counts(m.block) = LargerCounts(Counts(mine.block), Counts(q.block))
                      /\ Added(m.block) = Added(mine.block) \cup Added(q.block)
  BY <1>2, MergedSameIsGood, EntryParts
<1>3. ASSUME NEW m \in Entry, NEW q \in Entry, m # NoFile, Len(m.block) = Len(q.block)
      PROVE  LET t == MergedSame(m, q)
             IN  /\ t \in Entry /\ Good(t)
                 /\ Counts(t.block) = LargerCounts(Counts(m.block), Counts(q.block))
                 /\ Added(t.block) = Added(m.block) \cup Added(q.block)
  BY <1>3, MergedSameIsGood
<1> DEFINE md == MergedSame(mine, d)
           me == MergedSame(mine, e)
<1>4. /\ md \in Entry /\ md # NoFile /\ Len(md.block) = Len(d.block)
      /\ mine = NoFile => Counts(md.block) = x /\ Added(md.block) = Added(d.block)
      /\ mine # NoFile => /\ Counts(md.block) = LargerCounts(Counts(mine.block), x)
                          /\ Added(md.block) = Added(mine.block) \cup Added(d.block)
  BY <1>2
<1>5. /\ me \in Entry /\ me # NoFile /\ Len(me.block) = Len(d.block)
      /\ mine = NoFile => Counts(me.block) = y /\ Added(me.block) = Added(e.block)
      /\ mine # NoFile => /\ Counts(me.block) = LargerCounts(Counts(mine.block), y)
                          /\ Added(me.block) = Added(mine.block) \cup Added(e.block)
  BY <1>2
<1> HIDE DEF md, me
<1>6. /\ de = MergedSame(md, e) /\ ed = MergedSame(me, d)
  BY DEF md, me
<1> HIDE DEF de, ed
<1>7. /\ de \in Entry /\ Good(de)
      /\ Counts(de.block) = LargerCounts(Counts(md.block), y)
      /\ Added(de.block) = Added(md.block) \cup Added(e.block)
  BY <1>3, <1>4, <1>6
<1>8. /\ ed \in Entry /\ Good(ed)
      /\ Counts(ed.block) = LargerCounts(Counts(me.block), x)
      /\ Added(ed.block) = Added(me.block) \cup Added(d.block)
  BY <1>3, <1>5, <1>6
<1> HIDE DEF x, y
<1>9. Added(de.block) = Added(ed.block)
  BY <1>4, <1>5, <1>7, <1>8
<1>10. Counts(de.block) = Counts(ed.block)
  <2>1. CASE mine = NoFile
    <3>1. LargerCounts(x, y) = LargerCounts(y, x)
      BY <1>1, <2>1, CountsOfTwo DEF x, y
    <3> QED
      BY <1>4, <1>5, <1>7, <1>8, <2>1, <3>1
  <2>2. CASE mine # NoFile
    <3>1. Counts(mine.block) \in Lines /\ Len(Counts(mine.block)) = Len(d.block)
      BY <2>2, EntryParts
    <3>2. LargerCounts(LargerCounts(Counts(mine.block), x), y)
            = LargerCounts(LargerCounts(Counts(mine.block), y), x)
      BY <1>1, <3>1, CountsInAnyOrder
    <3> QED
      BY <1>4, <1>5, <1>7, <1>8, <2>2, <3>2
  <2> QED
    BY <2>1, <2>2
<1>11. de.block = ed.block
  BY <1>7, <1>8, <1>9, <1>10, SameBlock
<1> QED
  BY <1>11 DEF de, ed

(* Two reports that fit are merged into a third one after the other: what  *)
(* becomes of each file.                                                   *)
LEMMA MergeTwo ==
    ASSUME NEW r, GoodReport(r), NEW x, GoodReport(x), NEW y, GoodReport(y),
           NEW order \in Walks,
           SameLengths(r, x), SameLengths(r, y), SameLengths(x, y)
    PROVE  LET m == MergeSame(r, x, order)
               t == MergeSame(m, y, order)
           IN  /\ Present(t) = Present(r) \cup Present(x) \cup Present(y)
               /\ \A f \in Files : f \in Present(x) /\ f \in Present(y) =>
                      t.file[f] = MergedSame(MergedSame(r.file[f], x.file[f]), y.file[f])
               /\ \A f \in Files : f \in Present(x) /\ f \notin Present(y) =>
                      t.file[f] = MergedSame(r.file[f], x.file[f])
               /\ \A f \in Files : f \notin Present(x) /\ f \in Present(y) =>
                      t.file[f] = MergedSame(r.file[f], y.file[f])
               /\ \A f \in Files : f \notin Present(x) /\ f \notin Present(y) =>
                      t.file[f] = r.file[f]
<1> DEFINE m == MergeSame(r, x, order)
           t == MergeSame(m, y, order)
<1>1. Taken(r, x, order) = Present(x)
  <2>1. \A f \in Files : Fits(r, x, f)
    BY DEF Fits, SameLengths
  <2> QED
    BY <2>1, AllAreTaken
<1>2. GoodReport(m) /\ Present(m) = Present(r) \cup Present(x)
  <2>1. GoodReport(m)
    BY MergeSameIsGood
  <2>2. Present(m) = Present(r) \cup Taken(r, x, order)
    BY MergeSameIsGood
  <2> QED
    BY <1>1, <2>1, <2>2
<1>3. \A f \in Present(x) : m.file[f] = MergedSame(r.file[f], x.file[f])
  BY <1>1, MergeSameIsGood
<1>4. \A f \in Files \ Present(x) : m.file[f] = r.file[f]
  BY <1>1, MergeSameIsGood
<1> HIDE DEF m
<1>5. ASSUME NEW f \in Files
      PROVE  Fits(m, y, f)
  <2>1. CASE f \in Present(x)
    <3>1. /\ x.file[f] \in Entry /\ r.file[f] \in Entry \cup {NoFile}
          /\ r.file[f] # NoFile => f \in Present(r)
      BY <2>1, PresentIsGood DEF Present
    <3>2. r.file[f] # NoFile => Len(r.file[f].block) = Len(x.file[f].block)
      BY <2>1, <3>1 DEF SameLengths
    <3>3. Len(m.file[f].block) = Len(x.file[f].block)
      BY <1>3, <2>1, <3>1, <3>2, MergedSameIsGood
    <3> QED
      BY <2>1, <3>3 DEF Fits, SameLengths
  <2>2. CASE f \notin Present(x)
    BY <1>2, <1>4, <2>2 DEF Fits, SameLengths
  <2> QED
    BY <2>1, <2>2
<1>6. Taken(m, y, order) = Present(y)
  BY <1>5, AllAreTaken
<1>7. Present(t) = Present(m) \cup Present(y)
  BY <1>2, <1>6, MergeSameIsGood
<1>8. \A f \in Present(y) : t.file[f] = MergedSame(m.file[f], y.file[f])
  BY <1>2, <1>6, MergeSameIsGood
<1>9. \A f \in Files \ Present(y) : t.file[f] = m.file[f]
  BY <1>2, <1>6, MergeSameIsGood
<1> HIDE DEF t
<1>10. Present(t) = Present(r) \cup Present(x) \cup Present(y)
  BY <1>2, <1>7
<1>11. \A f \in Files : f \in Present(x) /\ f \in Present(y) =>
           t.file[f] = MergedSame(MergedSame(r.file[f], x.file[f]), y.file[f])
  BY <1>3, <1>8
<1>12. \A f \in Files : f \in Present(x) /\ f \notin Present(y) =>
           t.file[f] = MergedSame(r.file[f], x.file[f])
  BY <1>3, <1>9
<1>13. \A f \in Files : f \notin Present(x) /\ f \in Present(y) =>
           t.file[f] = MergedSame(r.file[f], y.file[f])
  BY <1>4, <1>8
<1>14. \A f \in Files : f \notin Present(x) /\ f \notin Present(y) => t.file[f] = r.file[f]
  BY <1>4, <1>9
<1> QED
  BY <1>10, <1>11, <1>12, <1>13, <1>14 DEF m, t

(* Two reports of the same commit whose files are as long can be merged    *)
(* into a third in either order, and a file that it lacks comes out alike  *)
(* if the two agree on its instructions (MergeOrderIsFree).                *)
THEOREM MergeOrderIsOfNoMatter == Spec => []MergeOrderIsFree
<1>1. ASSUME ContentInv, NEW b \in Targets, NEW o \in Reports, NEW p \in Reports,
             SameLengths(rep[b], rep[o]), SameLengths(rep[b], rep[p]),
             SameLengths(rep[o], rep[p]), NEW order \in Walks, NEW f \in Files,
             f \in Present(rep[b]) \/ SameInstructions(rep[o], rep[p], f)
      PROVE  LET op == MergeSame(MergeSame(rep[b], rep[o], order), rep[p], order)
                 po == MergeSame(MergeSame(rep[b], rep[p], order), rep[o], order)
             IN  \/ f \notin Present(op) /\ f \notin Present(po)
                 \/ op.file[f].block = po.file[f].block
  <2> DEFINE r == rep[b]
             x == rep[o]
             y == rep[p]
             op == MergeSame(MergeSame(r, x, order), y, order)
             po == MergeSame(MergeSame(r, y, order), x, order)
  <2>1. GoodReport(r) /\ GoodReport(x) /\ GoodReport(y)
    BY <1>1, ContentAssumption DEF ContentAssumption, ContentInv
  <2>2. /\ SameLengths(r, x) /\ SameLengths(r, y) /\ SameLengths(x, y)
        /\ SameLengths(y, x) /\ (f \in Present(r) \/ SameInstructions(x, y, f))
    BY <1>1 DEF SameLengths
  <2> HIDE DEF r, x, y
  <2>3. /\ f \in Present(x) /\ f \in Present(y) =>
              op.file[f] = MergedSame(MergedSame(r.file[f], x.file[f]), y.file[f])
        /\ f \in Present(x) /\ f \notin Present(y) =>
              op.file[f] = MergedSame(r.file[f], x.file[f])
        /\ f \notin Present(x) /\ f \in Present(y) =>
              op.file[f] = MergedSame(r.file[f], y.file[f])
        /\ f \notin Present(x) /\ f \notin Present(y) => op.file[f] = r.file[f]
    BY <2>1, <2>2, MergeTwo
  <2>4. /\ f \in Present(y) /\ f \in Present(x) =>
              po.file[f] = MergedSame(MergedSame(r.file[f], y.file[f]), x.file[f])
        /\ f \in Present(y) /\ f \notin Present(x) =>
              po.file[f] = MergedSame(r.file[f], y.file[f])
        /\ f \notin Present(y) /\ f \in Present(x) =>
              po.file[f] = MergedSame(r.file[f], x.file[f])
        /\ f \notin Present(y) /\ f \notin Present(x) => po.file[f] = r.file[f]
    BY <2>1, <2>2, MergeTwo
  <2>5. CASE f \in Present(x) /\ f \in Present(y)
    <3>1. /\ x.file[f] \in Entry /\ y.file[f] \in Entry /\ r.file[f] \in Entry \cup {NoFile}
          /\ r.file[f] # NoFile => f \in Present(r)
      BY <2>1, <2>5, PresentIsGood DEF Present
    <3>2. /\ r.file[f] # NoFile => Len(r.file[f].block) = Len(x.file[f].block)
          /\ Len(y.file[f].block) = Len(x.file[f].block)
          /\ \/ r.file[f] # NoFile
             \/ Instr(Counts(x.file[f].block)) = Instr(Counts(y.file[f].block))
      BY <2>2, <2>5, <3>1 DEF SameLengths, SameInstructions, Present
    <3>3. MergedSame(MergedSame(r.file[f], x.file[f]), y.file[f]).block =
            MergedSame(MergedSame(r.file[f], y.file[f]), x.file[f]).block
      BY <3>1, <3>2, MergedInAnyOrder
    <3> QED
      BY <2>3, <2>4, <2>5, <3>3 DEF r, x, y
  <2>6. CASE ~(f \in Present(x) /\ f \in Present(y))
    BY <2>3, <2>4, <2>6 DEF r, x, y
  <2> QED
    BY <2>5, <2>6
<1>2. ContentInv => MergeOrderIsFree
  BY <1>1 DEF MergeOrderIsFree
<1> QED
  BY <1>2, ContentInvariant, PTL

-----------------------------------------------------------------------------
(***************************************************************************)
(* Sums and trees.  A sum over a set takes one element after the other, as *)
(* CHOOSE has it: a partial sum h tells the sum of each subset of s.  It   *)
(* exists, and is the one that SumFunction takes.  Both, and that Beneath  *)
(* is what its equation says, need no induction: a smallest set without is *)
(* impossible, and Beneath is the least solution of its equation.          *)
(***************************************************************************)
Pick(s) == CHOOSE x \in s : TRUE
Partial(g, s, h) ==
    /\ h \in [SUBSET s -> Nat]
    /\ \A t \in SUBSET s : h[t] = IF t = {} THEN 0 ELSE g[Pick(t)] + h[t \ {Pick(t)}]

(* What is picked is in the set.                                           *)
LEMMA PickIsIn == \A s : s # {} => Pick(s) \in s
  BY DEF Pick

(* Of finite sets, some have no smaller one among them.                    *)
LEMMA SmallestSet ==
    ASSUME NEW S, IsFiniteSet(S), NEW T \in SUBSET (SUBSET S), T # {}
    PROVE  \E m \in T : \A u \in T : u \subseteq m => u = m
<1>1. IsWellFoundedOn(StrictSubsetOrdering(S), SUBSET S)
  BY FS_StrictSubsetOrderingWellFounded, FS_FiniteSubsetsOfFinite
<1>2. PICK m \in T : \A u \in T : ~(<<u, m>> \in StrictSubsetOrdering(S))
  BY <1>1, WFMin
<1> QED
  BY <1>2 DEF StrictSubsetOrdering

(* Two partial sums agree where both are defined.                          *)
LEMMA PartialsAgree ==
    ASSUME NEW S, IsFiniteSet(S), NEW g \in [S -> Nat], NEW s \in SUBSET S, NEW t \in SUBSET S,
           NEW h, Partial(g, s, h), NEW k, Partial(g, t, k),
           NEW u \in SUBSET s, u \subseteq t
    PROVE  h[u] = k[u]
<1> DEFINE T == {v \in SUBSET S : v \subseteq s /\ v \subseteq t /\ h[v] # k[v]}
<1> SUFFICES ASSUME T # {} PROVE FALSE
  OBVIOUS
<1>1. PICK m \in T : \A v \in T : v \subseteq m => v = m
  <2>1. T \in SUBSET (SUBSET S)
    OBVIOUS
  <2> HIDE DEF T
  <2> QED
    BY <2>1, SmallestSet
<1>2. CASE m = {}
  BY <1>1, <1>2 DEF Partial
<1>3. CASE m # {}
  <2>1. Pick(m) \in m
    BY <1>3, PickIsIn
  <2>2. h[m \ {Pick(m)}] = k[m \ {Pick(m)}]
    BY <1>1, <2>1
  <2> QED
    BY <1>1, <1>3, <2>2 DEF Partial
<1> QED
  BY <1>2, <1>3

(* Every finite set has its partial sums.                                  *)
LEMMA PartialExists ==
    ASSUME NEW S, IsFiniteSet(S), NEW g \in [S -> Nat]
    PROVE  \E h : Partial(g, S, h)
<1> DEFINE T == {v \in SUBSET S : ~ \E h : Partial(g, v, h)}
<1> SUFFICES ASSUME T # {} PROVE FALSE
  OBVIOUS
<1>1. PICK m \in T : \A v \in T : v \subseteq m => v = m
  <2>1. T \in SUBSET (SUBSET S)
    OBVIOUS
  <2> HIDE DEF T
  <2> QED
    BY <2>1, SmallestSet
<1> DEFINE Of(t) == CHOOSE h : Partial(g, t, h)
           Below(t) == Of(t)[t]
           h == [t \in SUBSET m |-> IF t # m THEN Below(t)
                                    ELSE IF m = {} THEN 0
                                    ELSE g[Pick(m)] + Below(m \ {Pick(m)})]
<1>2. \A t \in SUBSET m : t # m => Partial(g, t, Of(t))
  BY <1>1
<1> HIDE DEF Of
<1>3. \A t \in SUBSET m : t # m => Below(t) \in Nat
  BY <1>2 DEF Partial
<1>4. ASSUME NEW t \in SUBSET m, t # m
      PROVE  Below(t) = IF t = {} THEN 0 ELSE g[Pick(t)] + Below(t \ {Pick(t)})
  <2>1. CASE t = {}
    BY <1>2, <1>4, <2>1 DEF Partial
  <2>2. CASE t # {}
    <3>1. Pick(t) \in t /\ t \ {Pick(t)} \in SUBSET m /\ t \ {Pick(t)} # m
      BY <2>2, PickIsIn, <1>4
    <3> DEFINE w == t \ {Pick(t)}
    <3>2. w \in SUBSET m /\ w # m /\ w \in SUBSET t /\ w \in SUBSET S /\ t \in SUBSET S
      BY <3>1, <1>1
    <3>3. Partial(g, t, Of(t)) /\ Partial(g, w, Of(w))
      BY <1>2, <1>4, <3>2
    <3>4. Of(t)[w] = Of(w)[w]
      <4>1. w \in SUBSET w
        OBVIOUS
      <4> HIDE DEF w
      <4> QED
        BY <3>2, <3>3, <4>1, PartialsAgree
    <3>5. Of(t)[t] = g[Pick(t)] + Of(t)[w]
      BY <3>3, <2>2 DEF Partial
    <3> QED
      BY <3>4, <3>5, <2>2
  <2> QED
    BY <2>1, <2>2
<1> HIDE DEF Below
<1>5. m # {} => /\ Pick(m) \in m /\ g[Pick(m)] \in Nat
                /\ m \ {Pick(m)} \in SUBSET m /\ m \ {Pick(m)} # m
  BY <1>1, PickIsIn
<1>6. h \in [SUBSET m -> Nat]
  BY <1>3, <1>5
<1>7. ASSUME NEW t \in SUBSET m
      PROVE  h[t] = IF t = {} THEN 0 ELSE g[Pick(t)] + h[t \ {Pick(t)}]
  <2>1. CASE t = m
    BY <2>1, <1>5
  <2>2. CASE t # m
    <3>1. t # {} => Pick(t) \in t /\ t \ {Pick(t)} \in SUBSET m /\ t \ {Pick(t)} # m
      BY <2>2, PickIsIn, <1>7
    <3> QED
      BY <2>2, <3>1, <1>4
  <2> QED
    BY <2>1, <2>2
<1>8. Partial(g, m, h)
  BY <1>6, <1>7 DEF Partial
<1> QED
  BY <1>1, <1>8

(* The recursive function in SumFunction is one, by its equation.          *)
LEMMA SumIsPartial ==
    ASSUME NEW S, IsFiniteSet(S), NEW g \in [S -> Nat]
    PROVE  \E h : Partial(g, S, h) /\ SumFunction(g) = h[S]
<1> DEFINE Step(h) == [t \in SUBSET S |-> IF t = {} THEN 0 ELSE g[Pick(t)] + h[t \ {Pick(t)}]]
           it == CHOOSE h : h = Step(h)
<1>1. PICK h : Partial(g, S, h)
  BY PartialExists
<1>2. h = Step(h)
  BY <1>1 DEF Partial
<1>3. it = Step(it)
  BY <1>2
<1>4. SumFunction(g) = it[S]
  BY DEF SumFunction, SumFunctionOnSet, FoldFunctionOnSet, MapThenFoldSet, Pick
<1>5. \A t \in SUBSET S : it[t] = IF t = {} THEN 0 ELSE g[Pick(t)] + it[t \ {Pick(t)}]
  <2> HIDE DEF it
  <2> QED
    BY <1>3
<1> HIDE DEF it
<1>6. it[S] = h[S]
  <2> DEFINE T == {v \in SUBSET S : it[v] # h[v]}
  <2> SUFFICES ASSUME T # {} PROVE FALSE
    OBVIOUS
  <2>1. T \in SUBSET (SUBSET S)
    OBVIOUS
  <2>2. PICK m \in T : \A v \in T : v \subseteq m => v = m
    <3> HIDE DEF T
    <3> QED
      BY <2>1, SmallestSet
  <2>3. m # {} => Pick(m) \in m /\ it[m \ {Pick(m)}] = h[m \ {Pick(m)}]
    BY <2>2, PickIsIn
  <2> QED
    BY <1>1, <1>5, <2>2, <2>3 DEF Partial
<1> QED
  BY <1>1, <1>4, <1>6

(* A sum of numbers is a number, and no less than any of them.             *)
LEMMA SumIsNoLess ==
    ASSUME NEW S, IsFiniteSet(S), NEW g \in [S -> Nat]
    PROVE  SumFunction(g) \in Nat /\ \A x \in S : SumFunction(g) >= g[x]
<1>1. PICK h : Partial(g, S, h) /\ SumFunction(g) = h[S]
  BY SumIsPartial
<1>2. h \in [SUBSET S -> Nat]
  BY <1>1 DEF Partial
<1> SUFFICES ASSUME NEW x \in S, ~(h[S] >= g[x]) PROVE FALSE
  BY <1>1, <1>2
<1> DEFINE T == {v \in SUBSET S : x \in v /\ ~(h[v] >= g[x])}
<1>3. T \in SUBSET (SUBSET S) /\ T # {}
  OBVIOUS
<1>4. PICK m \in T : \A v \in T : v \subseteq m => v = m
  <2> HIDE DEF T
  <2> QED
    BY <1>3, SmallestSet
<1>5. Pick(m) \in m /\ m \ {Pick(m)} \in SUBSET S
  BY <1>4, PickIsIn
<1>6. h[m] = g[Pick(m)] + h[m \ {Pick(m)}]
  BY <1>1, <1>4, <1>5 DEF Partial
<1>7. CASE Pick(m) = x
  BY <1>2, <1>4, <1>5, <1>6, <1>7
<1>8. CASE Pick(m) # x
  <2>1. h[m \ {Pick(m)}] >= g[x]
    BY <1>4, <1>5, <1>8
  <2> QED
    BY <1>2, <1>4, <1>5, <1>6, <2>1
<1> QED
  BY <1>7, <1>8

(* What is beneath a directory is beneath one of its children: the least   *)
(* solution of the equation exists, whether or not the tree has cycles.    *)
LEMMA BeneathUnfolds ==
    Beneath = [n \in Nodes |-> IF n \in Files THEN {n}
                               ELSE UNION {Beneath[k] : k \in ToSet(Kids[n])}]
<1>0. \A n \in Nodes \ Files : ToSet(Kids[n]) \subseteq Nodes
  BY TreeAssumption DEF TreeAssumption, Nodes, ToSet
<1> DEFINE Step(b) == [n \in Nodes |-> IF n \in Files THEN {n}
                                       ELSE UNION {b[k] : k \in ToSet(Kids[n])}]
           it == CHOOSE b : b = Step(b)
           Closed == {b \in [Nodes -> SUBSET Files] :
                        \A n \in Nodes : Step(b)[n] \subseteq b[n]}
           least == [n \in Nodes |-> {f \in Files : \A b \in Closed : f \in b[n]}]
<1>1. \A b \in Closed, n \in Nodes : least[n] \subseteq b[n]
  OBVIOUS
<1>2. \A n \in Nodes : Step(least)[n] \subseteq least[n]
  <2> SUFFICES ASSUME NEW n \in Nodes, NEW f \in Step(least)[n] PROVE f \in least[n]
    OBVIOUS
  <2>1. CASE n \in Files
    BY <2>1
  <2>2. CASE n \notin Files
    <3>1. PICK k \in ToSet(Kids[n]) : f \in least[k]
      <4> HIDE DEF least
      <4> QED
        BY <2>2
    <3>2. k \in Nodes /\ f \in Files
      BY <1>0, <3>1, <2>2
    <3>3. ASSUME NEW b \in Closed PROVE f \in b[n]
      <4>1. f \in b[k]
        BY <3>1, <3>2
      <4>2. f \in Step(b)[n]
        BY <4>1, <2>2
      <4> QED
        BY <4>2
    <3> QED
      BY <3>2, <3>3
  <2> QED
    BY <2>1, <2>2
<1>3. least \in [Nodes -> SUBSET Files] /\ Step(least) = [n \in Nodes |-> Step(least)[n]]
  OBVIOUS
<1>4. \A n \in Nodes : least[n] \subseteq Step(least)[n]
  <2> HIDE DEF least
  <2> DEFINE b == Step(least)
  <2>1. b \in [Nodes -> SUBSET Files]
    BY <1>2, <1>3
  <2>2. ASSUME NEW n \in Nodes PROVE Step(b)[n] \subseteq b[n]
    <3>1. CASE n \in Files
      BY <3>1
    <3>2. CASE n \notin Files
      <4>1. \A k \in ToSet(Kids[n]) : b[k] \subseteq least[k]
        BY <1>0, <1>2, <3>2
      <4>2. /\ Step(b)[n] = UNION {b[k] : k \in ToSet(Kids[n])}
            /\ b[n] = UNION {least[k] : k \in ToSet(Kids[n])}
        BY <3>2
      <4> HIDE DEF b
      <4> QED
        BY <4>1, <4>2
    <3> QED
      BY <3>1, <3>2
  <2> HIDE DEF b
  <2>3. b \in Closed
    BY <2>1, <2>2
  <2> QED
    BY <2>3, <1>1 DEF b
<1>5. least = Step(least)
  <2> HIDE DEF least
  <2>1. \A n \in Nodes : least[n] = Step(least)[n]
    BY <1>2, <1>4
  <2> QED
    BY <1>3, <2>1
<1>6. it = Step(it)
  BY <1>5
<1>7. Beneath = it
  BY DEF Beneath
<1> QED
  BY <1>6, <1>7

(* IncrementsCanBeReached: a file with increments is counted in the        *)
(* statistics of every directory above it, so each of them is listed by    *)
(* the one above when only increments are shown (GetTreeNodes), with the   *)
(* stored base or with one that was chosen.                                *)
THEOREM IncrementsAreReached == Spec => []IncrementsCanBeReached
<1>1. ContentInv => IncrementsCanBeReached
  <2> SUFFICES ASSUME ContentInv, NEW r \in Reports, NEW b \in Bases \cup {NoBase}
               PROVE  LET shown == Preview(rep[r], b)
                      IN  \A f \in Present(shown), d \in Dirs :
                            HasIncrement(shown.file[f].stat) /\ f \in Beneath[d] =>
                                \E n \in TreeNodes(shown, d, TRUE) : f \in Beneath[n]
    BY ContentAssumption DEF ContentAssumption, IncrementsCanBeReached
  <2> DEFINE shown == Preview(rep[r], b)
  <2>1. GoodReport(shown)
    BY RebasedIsGood DEF ContentInv, Preview
  <2> HIDE DEF shown
  <2> SUFFICES ASSUME NEW f \in Present(shown), NEW d \in Dirs,
                      HasIncrement(shown.file[f].stat), f \in Beneath[d]
               PROVE  \E n \in TreeNodes(shown, d, TRUE) : f \in Beneath[n]
    BY DEF shown
  <2>2. d \in Nodes /\ d \notin Files
    BY TreeAssumption DEF TreeAssumption, Nodes
  <2>3. PICK k \in ToSet(Kids[d]) : f \in Beneath[k]
    <3>1. Beneath[d] = UNION {Beneath[k] : k \in ToSet(Kids[d])}
      BY <2>2, BeneathUnfolds
    <3> QED
      BY <3>1
  <2>4. k \in Listed(shown, d)
    BY <2>3 DEF Listed
  <2> DEFINE S == Beneath[k] \cap Present(shown)
             g == [h \in S |-> shown.file[h].stat["incrInstr"]]
  <2>5. f \in S /\ IsFiniteSet(S)
    <3>1. S \subseteq Files
      BY DEF Present
    <3> QED
      BY <2>3, <3>1, ContentAssumption, FS_Subset DEF ContentAssumption
  <2>6. g \in [S -> Nat] /\ g[f] = shown.file[f].stat.incrInstr
    <3>1. \A h \in Present(shown) : shown.file[h].stat["incrInstr"] \in Nat
      BY <2>1 DEF GoodReport, ReportSet, Present, Entry, Stat
    <3> QED
      BY <2>5, <3>1
  <2>7. g[f] > 0
    BY <2>6 DEF HasIncrement
  <2>8. SumFunction(g) \in Nat /\ SumFunction(g) >= g[f]
    <3> HIDE DEF S, g
    <3> QED
      BY <2>5, <2>6, SumIsNoLess
  <2>9. NodeStat(shown, k).incrInstr = SumFunction(g)
    BY DEF NodeStat
  <2>10. HasIncrement(NodeStat(shown, k))
    <3> HIDE DEF g
    <3> QED
      BY <2>5, <2>6, <2>7, <2>8, <2>9 DEF HasIncrement
  <2>11. k \in TreeNodes(shown, d, TRUE)
    BY <2>2, <2>4, <2>10 DEF TreeNodes
  <2> QED
    BY <2>3, <2>11
<1> QED
  BY <1>1, ContentInvariant, PTL
=============================================================================
