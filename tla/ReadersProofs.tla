--------------------------- MODULE ReadersProofs ---------------------------
(***************************************************************************)
(* Proofs about the sequential algorithms: GoProfile, DiffParse,           *)
(* ReportCodec and TreeSearch.                                             *)
(***************************************************************************)
EXTENDS Readers, FiniteSetTheorems, SequenceTheorems, TLAPS

-----------------------------------------------------------------------------
(***************************************************************************)
(* GoProfile: profiles of any length.                                      *)
(***************************************************************************)
Int32 == -IntLimit..IntLimit - 1

(***************************************************************************)
(* The largest of a set of numbers that grows by one number.               *)
(***************************************************************************)
(* A finite set of numbers has a largest one.                              *)
LEMMA MaxIsLargest ==
    ASSUME NEW S \in SUBSET Int, IsFiniteSet(S), S # {}
    PROVE  Max(S) \in S /\ \A x \in S : Max(S) >= x
<1> DEFINE Ups == {{x \in S : x >= y} : y \in S}
<1>1. IsWellFoundedOn(StrictSubsetOrdering(S), SUBSET S)
  BY FS_StrictSubsetOrderingWellFounded, FS_FiniteSubsetsOfFinite
<1>2. Ups \subseteq SUBSET S /\ Ups # {}
  OBVIOUS
<1>3. PICK m \in Ups : \A u \in Ups : ~(<<u, m>> \in StrictSubsetOrdering(S))
  <2> HIDE DEF Ups
  <2> QED
    BY <1>1, <1>2, WFMin
<1>4. PICK y \in S : m = {x \in S : x >= y}
  BY <1>3
<1>5. \A x \in S : y >= x
  <2> SUFFICES ASSUME NEW x \in S, ~(y >= x) PROVE FALSE
    OBVIOUS
  <2> DEFINE u == {z \in S : z >= x}
  <2>1. u \in Ups
    OBVIOUS
  <2>2. x \in Int /\ y \in Int /\ x > y
    OBVIOUS
  <2>3. \A z \in S : z \in Int /\ (z >= x => z >= y)
    BY <2>2
  <2>4. m \subseteq S /\ y \in m
    BY <1>4
  <2>5. u \subseteq m
    BY <1>4, <2>3
  <2>6. y \notin u
    OBVIOUS
  <2> QED
    BY <1>3, <2>1, <2>4, <2>5, <2>6 DEF StrictSubsetOrdering
<1> QED
  BY <1>5 DEF Max

(* The largest number with one more number.                                *)
LEMMA LargestGrows ==
    ASSUME NEW S \in SUBSET Int, IsFiniteSet(S), NEW d \in Int, NEW n \in Int,
           \A x \in S : x >= d, n >= d
    PROVE  /\ LargestOr(d, S) \in Int /\ LargestOr(d, S) >= d
           /\ LargestOr(d, S \cup {n}) = IF n > LargestOr(d, S) THEN n
                                         ELSE IF S = {} THEN n ELSE LargestOr(d, S)
<1>1. IsFiniteSet(S \cup {n})
  BY FS_AddElement
<1>2. Max(S \cup {n}) \in S \cup {n} /\ \A x \in S \cup {n} : Max(S \cup {n}) >= x
  BY <1>1, MaxIsLargest
<1>3. S # {} => Max(S) \in S /\ \A x \in S : Max(S) >= x
  BY MaxIsLargest
<1>4. CASE S = {}
  BY <1>2, <1>4 DEF LargestOr
<1>5. CASE S # {}
  <2>1. Max(S) \in Int /\ Max(S) >= d /\ Max(S \cup {n}) \in Int
    BY <1>2, <1>3, <1>5
  <2>2. CASE n > Max(S)
    <3>1. Max(S \cup {n}) = n
      BY <1>2, <1>3, <1>5, <2>1, <2>2
    <3> QED
      BY <1>5, <2>1, <2>2, <3>1 DEF LargestOr
  <2>3. CASE ~(n > Max(S))
    <3>1. Max(S \cup {n}) = Max(S)
      BY <1>2, <1>3, <1>5, <2>1, <2>3
    <3> QED
      BY <1>5, <2>1, <2>3, <3>1 DEF LargestOr
  <2> QED
    BY <2>2, <2>3
<1> QED
  BY <1>4, <1>5

(* A count that fits is kept as it is; any count becomes an int32.         *)
LEMMA IntOfCount ==
    ASSUME NEW c \in Nat
    PROVE  ToInt(c) \in Int32 /\ (c < IntLimit => ToInt(c) = c)
<1>1. IntLimit \in Nat \ {0}
  BY ProfAssumption DEF ProfAssumption
<1>2. c % (2 * IntLimit) \in 0..(2 * IntLimit - 1)
  BY <1>1
<1>3. c < IntLimit => c % (2 * IntLimit) = c
  BY <1>1
<1> QED
  BY <1>1, <1>2, <1>3 DEF ToInt, Int32

(* The values of a function are finitely many if its domain is finite.     *)
LEMMA FiniteValues ==
    ASSUME NEW A, IsFiniteSet(A), NEW g
    PROVE  IsFiniteSet({g[x] : x \in A})
<1> DEFINE V == {g[x] : x \in A}
<1>1. PICK n \in Nat : ExistsSurjection(1..n, A)
  BY FS_NatSurjection
<1>2. PICK h \in [1..n -> A] : \A a \in A : \E k \in 1..n : h[k] = a
  BY <1>1 DEF ExistsSurjection, Surjection
<1> DEFINE e == [k \in 1..n |-> g[h[k]]]
<1>3. e \in [1..n -> V]
  BY <1>2
<1>4. \A v \in V : \E k \in 1..n : e[k] = v
  BY <1>2
<1> HIDE DEF e, V
<1>5. ExistsSurjection(1..n, V)
  BY <1>3, <1>4 DEF ExistsSurjection, Surjection
<1>6. IsFiniteSet(V)
  BY <1>5, FS_NatSurjection
<1> QED
  BY <1>6 DEF V

(***************************************************************************)
(* The invariant.                                                          *)
(***************************************************************************)
ProfTypes ==
    /\ profile \in Seq(ProfLine)
    /\ next \in 1..Len(profile) + 1
    /\ lines \in [ProfFiles -> Seq(Int32)]
    /\ outcome \in {"parsing", "parsed", "empty", "invalid"}

ProfInv == ProfTypes /\ LinesHaveLargestCount

(* A line that is no block changes nothing that is said of blocks.         *)
LEMMA BlocksBefore ==
    ASSUME ProfTypes, next <= Len(profile), profile' = profile, next' = next + 1,
           NEW f \in ProfFiles
    PROVE  BlocksOf(f)' = IF profile[next].kind = "block" /\ profile[next].file = f
                          THEN BlocksOf(f) \cup {next} ELSE BlocksOf(f)
<1>1. 1..next' - 1 = (1..next - 1) \cup {next}
  BY DEF ProfTypes
<1> QED
  BY <1>1 DEF BlocksOf

(* The lines of a block are read as such.                                  *)
LEMMA BlockIsRead ==
    ASSUME ProfTypes, NEW j \in DOMAIN profile, profile[j].kind = "block"
    PROVE  /\ profile[j].file \in ProfFiles
           /\ profile[j].first \in Nat /\ profile[j].last \in Nat /\ profile[j].count \in Nat
  BY DEF ProfTypes, ProfLine

(* What is said of the blocks of a file is of finitely many numbers.       *)
LEMMA BlocksAreFinite ==
    ASSUME ProfTypes, NEW f
    PROVE  /\ BlocksOf(f) \subseteq DOMAIN profile
           /\ {profile[j].last : j \in BlocksOf(f)} \in SUBSET Nat
           /\ IsFiniteSet({profile[j].last : j \in BlocksOf(f)})
           /\ \A i : /\ {profile[j].count : j \in BlocksAt(f, i)} \in SUBSET Nat
                     /\ IsFiniteSet({profile[j].count : j \in BlocksAt(f, i)})
<1>1. BlocksOf(f) \subseteq 1..next - 1 /\ 1..next - 1 \subseteq DOMAIN profile
  BY DEF BlocksOf, ProfTypes
<1>2. IsFiniteSet(1..next - 1)
  BY FS_Interval DEF ProfTypes
<1>3. IsFiniteSet(BlocksOf(f))
  BY <1>1, <1>2, FS_Subset
<1>4. \A i : IsFiniteSet(BlocksAt(f, i))
  BY <1>3, FS_Subset DEF BlocksAt
<1>5. \A j \in BlocksOf(f) : profile[j].last \in Nat /\ profile[j].count \in Nat
  BY <1>1, BlockIsRead DEF BlocksOf
<1>6. IsFiniteSet({profile[j].last : j \in BlocksOf(f)})
  <2> DEFINE g == [j \in BlocksOf(f) |-> profile[j].last]
  <2>1. {g[j] : j \in BlocksOf(f)} = {profile[j].last : j \in BlocksOf(f)}
    OBVIOUS
  <2> HIDE DEF g
  <2> QED
    BY <1>3, <2>1, FiniteValues
<1>7. ASSUME NEW i PROVE IsFiniteSet({profile[j].count : j \in BlocksAt(f, i)})
  <2> DEFINE g == [j \in BlocksAt(f, i) |-> profile[j].count]
  <2>1. {g[j] : j \in BlocksAt(f, i)} = {profile[j].count : j \in BlocksAt(f, i)}
    OBVIOUS
  <2> HIDE DEF g
  <2> QED
    BY <1>4, <2>1, FiniteValues
<1> QED
  BY <1>1, <1>5, <1>6, <1>7 DEF BlocksAt

(* A block makes its file as long as its last line, and its lines have the *)
(* larger count; what lies between is without instructions.                *)
LEMMA BlockExtends ==
    ASSUME ProfTypes, ParseBlock
    PROVE  LET b == profile[next]
               old == lines[b.file]
               new == lines'[b.file]
           IN  /\ b.file \in ProfFiles /\ new \in Seq(Int32)
               /\ Len(new) = IF Len(old) < b.last THEN b.last ELSE Len(old)
               /\ \A i \in DOMAIN new :
                     new[i] = LET was == IF i \in DOMAIN old THEN old[i] ELSE NotInstrLine
                              IN  IF i \in b.first..b.last THEN MoreOf(was, ToInt(b.count))
                                  ELSE was
               /\ \A f \in ProfFiles \ {b.file} : lines'[f] = lines[f]
               /\ lines' \in [ProfFiles -> Seq(Int32)]
<1> DEFINE b == profile[next]
           old == lines[b.file]
           grown == Grown(old, b.last)
           size == IF Len(old) < b.last THEN b.last ELSE Len(old)
           new == [i \in DOMAIN grown |->
                      IF i \in b.first..b.last THEN MoreOf(grown[i], ToInt(b.count))
                      ELSE grown[i]]
<1>1. /\ next \in DOMAIN profile /\ b.kind = "block"
      /\ lines' = [lines EXCEPT ![b.file] = new]
  BY DEF ParseBlock, AtLine, ProfTypes
<1>2. b.file \in ProfFiles /\ b.first \in Nat /\ b.last \in Nat /\ b.count \in Nat
  BY <1>1, BlockIsRead
<1>3. lines \in [ProfFiles -> Seq(Int32)] /\ old \in Seq(Int32) /\ DOMAIN old = 1..Len(old)
      /\ Len(old) \in Nat
  BY <1>2 DEF ProfTypes
<1>4. NotInstrLine \in Int32 /\ ToInt(b.count) \in Int32
  BY <1>2, IntOfCount, ProfAssumption DEF ProfAssumption, Int32, NotInstrLine
<1> HIDE DEF b, old
<1>5. size \in Nat /\ grown \in [1..size -> Int32]
      /\ \A i \in 1..size : grown[i] = IF i \in DOMAIN old THEN old[i] ELSE NotInstrLine
  BY <1>2, <1>3, <1>4 DEF Grown
<1> HIDE DEF grown
<1>6. new \in [1..size -> Int32] /\ DOMAIN grown = 1..size
  BY <1>4, <1>5 DEF MoreOf
<1>7. new \in Seq(Int32) /\ Len(new) = size /\ DOMAIN new = 1..size
  <2> HIDE DEF new, size
  <2> QED
    BY <1>5, <1>6
<1>8. \A i \in 1..size :
         new[i] = LET was == IF i \in DOMAIN old THEN old[i] ELSE NotInstrLine
                  IN  IF i \in b.first..b.last THEN MoreOf(was, ToInt(b.count)) ELSE was
  <2> HIDE DEF size
  <2> QED
    BY <1>5, <1>6
<1>9. lines'[b.file] = new /\ (\A f \in ProfFiles \ {b.file} : lines'[f] = lines[f])
      /\ lines' \in [ProfFiles -> Seq(Int32)]
  <2> HIDE DEF new
  <2> QED
    BY <1>1, <1>2, <1>3, <1>7
<1> HIDE DEF new
<1> QED
  BY <1>2, <1>7, <1>8, <1>9 DEF b, old, size

(* A block is about its lines and its file only.                           *)
LEMMA BlockKeepsLargest ==
    ASSUME ProfTypes, LinesHaveLargestCount, ParseBlock
    PROVE  LinesHaveLargestCount'
<1> DEFINE b == profile[next]
           Ends(f) == {profile[j].last : j \in BlocksOf(f)}
           CountsAt(f, i) == {profile[j].count : j \in BlocksAt(f, i)}
<1>1. /\ next \in DOMAIN profile /\ next <= Len(profile) /\ b.kind = "block"
      /\ profile' = profile /\ next' = next + 1
  BY DEF ParseBlock, AtLine, ProfTypes
<1>2. b.file \in ProfFiles /\ b.first \in Nat /\ b.last \in Nat /\ b.count \in Nat
  BY <1>1, BlockIsRead
<1> SUFFICES ASSUME CountsFit, NEW f \in ProfFiles
             PROVE  /\ Len(lines'[f]) = LargestOr(0, Ends(f)')
                    /\ \A i \in DOMAIN lines'[f] :
                          lines'[f][i] = LargestOr(NotInstrLine, CountsAt(f, i)')
  BY <1>1 DEF LinesHaveLargestCount, CountsFit
<1>3. /\ Len(lines[f]) = LargestOr(0, Ends(f))
      /\ \A i \in DOMAIN lines[f] : lines[f][i] = LargestOr(NotInstrLine, CountsAt(f, i))
  BY DEF LinesHaveLargestCount
<1>4. BlocksOf(f)' = IF b.file = f THEN BlocksOf(f) \cup {next} ELSE BlocksOf(f)
  BY <1>1, BlocksBefore
<1>5. CASE b.file # f
  <2>1. lines'[f] = lines[f]
    BY <1>5, BlockExtends
  <2>2. Ends(f)' = Ends(f) /\ \A i : CountsAt(f, i)' = CountsAt(f, i)
    BY <1>1, <1>4, <1>5 DEF BlocksAt
  <2> HIDE DEF Ends, CountsAt
  <2> QED
    BY <1>3, <2>1, <2>2
<1>6. CASE b.file = f
  <2> DEFINE old == lines[f]
             new == lines'[f]
  <2>1. /\ old \in Seq(Int32) /\ DOMAIN old = 1..Len(old) /\ Len(old) \in Nat
        /\ new \in Seq(Int32) /\ DOMAIN new = 1..Len(new) /\ Len(new) \in Nat
        /\ Len(new) = IF Len(old) < b.last THEN b.last ELSE Len(old)
        /\ \A i \in DOMAIN new :
              new[i] = LET was == IF i \in DOMAIN old THEN old[i] ELSE NotInstrLine
                       IN  IF i \in b.first..b.last THEN MoreOf(was, ToInt(b.count)) ELSE was
    <3>1. old \in Seq(Int32)
      BY DEF ProfTypes
    <3> QED
      BY <3>1, <1>6, BlockExtends
  <2>2. Ends(f)' = Ends(f) \cup {b.last}
    BY <1>1, <1>4, <1>6
  <2>3. ASSUME NEW i
        PROVE  CountsAt(f, i)' = IF i \in b.first..b.last THEN CountsAt(f, i) \cup {b.count}
                                 ELSE CountsAt(f, i)
    <3>1. BlocksAt(f, i)' = IF i \in b.first..b.last THEN BlocksAt(f, i) \cup {next}
                            ELSE BlocksAt(f, i)
      BY <1>1, <1>4, <1>6 DEF BlocksAt
    <3> QED
      BY <1>1, <3>1
  <2>4. /\ Ends(f) \in SUBSET Int /\ IsFiniteSet(Ends(f)) /\ \A x \in Ends(f) : x >= 0
        /\ \A i : /\ CountsAt(f, i) \in SUBSET Int /\ IsFiniteSet(CountsAt(f, i))
                  /\ \A x \in CountsAt(f, i) : x >= -1
    BY BlocksAreFinite
  <2>5. \A i : i \in Int /\ i > Len(old) => CountsAt(f, i) = {}
    <3> SUFFICES ASSUME NEW i \in Int, i > Len(old), NEW j \in BlocksAt(f, i) PROVE FALSE
      OBVIOUS
    <3>1. j \in BlocksOf(f) /\ i <= profile[j].last
      BY DEF BlocksAt
    <3>2. profile[j].last \in Ends(f)
      BY <3>1
    <3> HIDE DEF Ends
    <3>3. LargestOr(0, Ends(f)) >= profile[j].last
      BY <2>4, <3>2, MaxIsLargest DEF LargestOr
    <3>4. profile[j].last \in Int /\ i <= profile[j].last
      BY <2>4, <3>1, <3>2, BlockIsRead DEF BlocksAt
    <3> QED
      BY <1>3, <2>1, <3>3, <3>4
  <2>6. ToInt(b.count) = b.count
    BY <1>1, <1>2, IntOfCount DEF CountsFit
  <2> HIDE DEF Ends, CountsAt
  <2>7. Len(new) = LargestOr(0, Ends(f)')
    <3>1. /\ LargestOr(0, Ends(f)) \in Int
          /\ LargestOr(0, Ends(f) \cup {b.last}) =
                IF b.last > LargestOr(0, Ends(f)) THEN b.last
                ELSE IF Ends(f) = {} THEN b.last ELSE LargestOr(0, Ends(f))
      <4>1. b.last \in Int /\ b.last >= 0 /\ 0 \in Int
        BY <1>2
      <4>2. Ends(f) \in SUBSET Int /\ IsFiniteSet(Ends(f)) /\ \A x \in Ends(f) : x >= 0
        BY <2>4
      <4> QED
        BY <4>1, <4>2, LargestGrows
    <3>2. Ends(f) = {} => LargestOr(0, Ends(f)) = 0
      BY DEF LargestOr
    <3> QED
      BY <1>2, <1>3, <2>1, <2>2, <3>1, <3>2
  <2>8. ASSUME NEW i \in DOMAIN new
        PROVE  new[i] = LargestOr(NotInstrLine, CountsAt(f, i)')
    <3> DEFINE was == IF i \in DOMAIN old THEN old[i] ELSE NotInstrLine
    <3>1. was = LargestOr(NotInstrLine, CountsAt(f, i))
      <4>1. CASE i \in DOMAIN old
        BY <1>3, <4>1
      <4>2. CASE i \notin DOMAIN old
        <5>1. i \in Int /\ i > Len(old)
          BY <2>1, <2>8, <4>2
        <5> QED
          BY <2>5, <4>2, <5>1 DEF LargestOr
      <4> QED
        BY <4>1, <4>2
    <3>2. new[i] = IF i \in b.first..b.last THEN MoreOf(was, b.count) ELSE was
      BY <2>1, <2>6, <2>8
    <3>3. /\ LargestOr(NotInstrLine, CountsAt(f, i)) \in Int
          /\ LargestOr(NotInstrLine, CountsAt(f, i) \cup {b.count}) =
                IF b.count > LargestOr(NotInstrLine, CountsAt(f, i)) THEN b.count
                ELSE IF CountsAt(f, i) = {} THEN b.count
                ELSE LargestOr(NotInstrLine, CountsAt(f, i))
      <4>1. /\ CountsAt(f, i) \in SUBSET Int /\ IsFiniteSet(CountsAt(f, i))
            /\ \A x \in CountsAt(f, i) : x >= NotInstrLine
            /\ NotInstrLine \in Int /\ b.count \in Int /\ b.count >= NotInstrLine
        BY <1>2, <2>4 DEF NotInstrLine
      <4> QED
        BY <4>1, LargestGrows
    <3>4. CountsAt(f, i) = {} => LargestOr(NotInstrLine, CountsAt(f, i)) = -1
      BY DEF LargestOr, NotInstrLine
    <3> HIDE DEF was
    <3>5. CASE i \in b.first..b.last
      BY <1>2, <2>3, <3>1, <3>2, <3>3, <3>4, <3>5 DEF MoreOf, NotInstrLine
    <3>6. CASE i \notin b.first..b.last
      BY <2>3, <3>1, <3>2, <3>6
    <3> QED
      BY <3>5, <3>6
  <2> QED
    BY <2>7, <2>8
<1> QED
  BY <1>5, <1>6

(* The other steps leave the lines and what was read of blocks alone.      *)
LEMMA OthersKeepLargest ==
    ASSUME ProfTypes, LinesHaveLargestCount,
           SkipMode \/ InvalidLine \/ EndProfile \/ UNCHANGED profVars
    PROVE  LinesHaveLargestCount'
<1>1. lines' = lines /\ profile' = profile
  BY DEF SkipMode, InvalidLine, EndProfile, profVars
<1>2. \A f \in ProfFiles : BlocksOf(f)' = BlocksOf(f)
  <2>1. CASE SkipMode
    BY <2>1, BlocksBefore DEF SkipMode, AtLine
  <2>2. CASE next' = next
    BY <1>1, <2>2 DEF BlocksOf
  <2> QED
    BY <2>1, <2>2 DEF InvalidLine, EndProfile, profVars
<1>3. \A f \in ProfFiles : \A i : BlocksAt(f, i)' = BlocksAt(f, i)
  BY <1>1, <1>2 DEF BlocksAt
<1>4. CountsFit' = CountsFit
  BY <1>1 DEF CountsFit
<1>5. ASSUME NEW f \in ProfFiles
      PROVE  /\ {profile'[j].last : j \in BlocksOf(f)'} = {profile[j].last : j \in BlocksOf(f)}
             /\ \A i : {profile'[j].count : j \in BlocksAt(f, i)'}
                       = {profile[j].count : j \in BlocksAt(f, i)}
  BY <1>1, <1>2, <1>3
<1> QED
  BY <1>1, <1>4, <1>5 DEF LinesHaveLargestCount

(* Every step keeps the types.                                             *)
LEMMA TypesStep == ProfTypes /\ [ProfNext]_profVars => ProfTypes'
<1> SUFFICES ASSUME ProfTypes, [ProfNext]_profVars PROVE ProfTypes'
  OBVIOUS
<1>1. CASE SkipMode
  BY <1>1 DEF ProfTypes, SkipMode, AtLine
<1>2. CASE ParseBlock
  <2>1. lines' \in [ProfFiles -> Seq(Int32)]
    BY <1>2, BlockExtends
  <2> QED
    BY <1>2, <2>1 DEF ProfTypes, ParseBlock, AtLine
<1>3. CASE InvalidLine \/ EndProfile \/ UNCHANGED profVars
  BY <1>3 DEF ProfTypes, InvalidLine, EndProfile, profVars
<1> QED
  BY <1>1, <1>2, <1>3 DEF ProfNext

(* The invariant of the profile parser holds before its first line.        *)
LEMMA ProfInvInit == ProfInit => ProfInv
<1> SUFFICES ASSUME ProfInit PROVE ProfInv
  OBVIOUS
<1>1. profile \in Seq(ProfLine)
  BY ProfAssumption DEF ProfInit, ProfAssumption
<1>2. ProfTypes
  BY <1>1 DEF ProfInit, ProfTypes
<1>3. \A f \in ProfFiles : BlocksOf(f) = {} /\ lines[f] = <<>>
  BY DEF ProfInit, BlocksOf
<1>4. LinesHaveLargestCount
  BY <1>3 DEF LinesHaveLargestCount, LargestOr
<1> QED
  BY <1>2, <1>4 DEF ProfInv

(* A block keeps it, and so does any other line.                           *)
LEMMA ProfInvStep == ProfInv /\ [ProfNext]_profVars => ProfInv'
BY TypesStep, BlockKeepsLargest, OthersKeepLargest DEF ProfInv, ProfNext

(* So it always holds.                                                     *)
LEMMA ProfInvariant == ProfSpec => []ProfInv
BY ProfInvInit, ProfInvStep, PTL DEF ProfSpec

(* What the invariant says of the parser's types.                          *)
LEMMA ProfInvGivesTypes == ProfInv => ProfTypeOK
BY DEF ProfInv, ProfTypes, ProfTypeOK, Int32

(* The parser's lines are sequences of int32, and it never reads beyond    *)
(* the end of the profile.                                                 *)
THEOREM ProfileIsTyped == ProfSpec => []ProfTypeOK
BY ProfInvGivesTypes, ProfInvariant, PTL

(* LinesHaveLargestCount: whatever the order and the overlaps of the       *)
(* blocks of a profile, of however many files, Parse gives each line the   *)
(* largest count of its blocks, and -1 to lines without; the lines of a    *)
(* file end with its last block.                                           *)
THEOREM LargestCountIsKept == ProfSpec => []LinesHaveLargestCount
<1>1. ProfInv => LinesHaveLargestCount
  BY DEF ProfInv
<1> QED
  BY <1>1, ProfInvariant, PTL

-----------------------------------------------------------------------------
(***************************************************************************)
(* DiffParse: patches of any number of files, hunks and lines.             *)
(***************************************************************************)
(***************************************************************************)
(* Counting lines of a hunk.                                               *)
(***************************************************************************)
LEMMA SomeAreFinite ==
    ASSUME NEW k \in Nat, NEW ops, NEW S
    PROVE  /\ IsFiniteSet({i \in 1..k : ops[i] \in S})
           /\ Before(ops, k, S) \in Nat
<1> DEFINE B == {i \in 1..k : ops[i] \in S}
<1>1. B \subseteq 1..k
  OBVIOUS
<1> HIDE DEF B
<1>2. IsFiniteSet(1..k)
  BY FS_Interval
<1>3. IsFiniteSet(B)
  BY <1>1, <1>2, FS_Subset
<1>4. Cardinality(B) \in Nat
  BY <1>3, FS_CardinalityType
<1> QED
  BY <1>3, <1>4 DEF B, Before

(* One line more counts one more if it is of the kind counted.             *)
LEMMA BeforeGrows ==
    ASSUME NEW ops, NEW S, NEW n \in Nat
    PROVE  /\ Before(ops, 0, S) = 0
           /\ Before(ops, n + 1, S) = Before(ops, n, S) + IF ops[n + 1] \in S THEN 1 ELSE 0
<1> DEFINE B(k) == {i \in 1..k : ops[i] \in S}
<1>1. IsFiniteSet(B(n)) /\ Cardinality(B(n)) \in Nat
  BY SomeAreFinite DEF Before
<1>2. B(0) = {}
  OBVIOUS
<1>3. Before(ops, 0, S) = 0
  BY <1>2, FS_EmptySet DEF Before
<1>4. CASE ops[n + 1] \in S
  <2>1. B(n + 1) = B(n) \cup {n + 1} /\ n + 1 \notin B(n)
    BY <1>4
  <2> HIDE DEF B
  <2>2. Cardinality(B(n + 1)) = Cardinality(B(n)) + 1
    BY <1>1, <2>1, FS_AddElement
  <2> QED
    BY <1>3, <1>4, <2>2 DEF Before, B
<1>5. CASE ops[n + 1] \notin S
  <2>1. B(n + 1) = B(n)
    BY <1>5
  <2>2. Before(ops, n + 1, S) = Before(ops, n, S)
    BY <2>1 DEF Before
  <2>3. Before(ops, n, S) \in Nat
    BY SomeAreFinite
  <2> QED
    BY <1>3, <1>5, <2>2, <2>3
<1> QED
  BY <1>4, <1>5

(* A longer beginning of a hunk counts no less.                            *)
LEMMA BeforeIsMonotone ==
    ASSUME NEW ops, NEW S, NEW m \in Nat, NEW n \in Nat, m <= n
    PROVE  Before(ops, m, S) <= Before(ops, n, S)
<1> DEFINE A == {i \in 1..m : ops[i] \in S}
           B == {i \in 1..n : ops[i] \in S}
<1>1. A \subseteq B
  OBVIOUS
<1>2. IsFiniteSet(B)
  BY SomeAreFinite
<1> HIDE DEF A, B
<1>3. Cardinality(A) <= Cardinality(B)
  BY <1>1, <1>2, FS_Subset
<1> QED
  BY <1>3 DEF Before, A, B

(* A line of the kind counted counts for all that come after it.           *)
LEMMA LineCounts ==
    ASSUME NEW ops, NEW S, NEW i \in Nat \ {0}, NEW n \in Nat, i <= n, ops[i] \in S
    PROVE  Before(ops, i - 1, S) < Before(ops, n, S)
<1>1. i - 1 \in Nat /\ (i - 1) + 1 = i
  OBVIOUS
<1>2. Before(ops, i, S) = Before(ops, i - 1, S) + 1
  BY <1>1, BeforeGrows
<1>3. Before(ops, i - 1, S) \in Nat /\ Before(ops, n, S) \in Nat
  BY <1>1, SomeAreFinite
<1>4. Before(ops, i, S) <= Before(ops, n, S)
  BY BeforeIsMonotone
<1> QED
  BY <1>2, <1>3, <1>4

HunkSeq == Seq(Seq(Ops))
FileRec == [old : Names, new : Names, hunks : HunkSeq]

(***************************************************************************)
(* Where hunks begin.                                                      *)
(***************************************************************************)
InHunk(file, g, S) == {g} \X {i \in DOMAIN file.hunks[g] : file.hunks[g][i] \in S}
Earlier(file, h, S) == UNION {InHunk(file, g, S) : g \in 1..h - 1}

(* A hunk has as many lines of a kind as are counted.                      *)
LEMMA InHunkIsFinite ==
    ASSUME NEW file \in FileRec, NEW g \in DOMAIN file.hunks, NEW S
    PROVE  /\ IsFiniteSet(InHunk(file, g, S))
           /\ Cardinality(InHunk(file, g, S)) = Count(file.hunks[g], S)
           /\ Count(file.hunks[g], S) \in Nat
<1> DEFINE ops == file.hunks[g]
           B == {i \in 1..Len(ops) : ops[i] \in S}
<1>1. Len(ops) \in Nat /\ DOMAIN ops = 1..Len(ops)
  BY DEF FileRec, HunkSeq
<1>2. IsFiniteSet(B) /\ Cardinality(B) = Count(ops, S) /\ Count(ops, S) \in Nat
  BY <1>1, SomeAreFinite DEF Count, Before
<1>3. InHunk(file, g, S) = {g} \X B
  BY <1>1 DEF InHunk
<1> HIDE DEF B
<1>4. /\ IsFiniteSet({g} \X B)
      /\ Cardinality({g} \X B) = Cardinality({g}) * Cardinality(B)
      /\ Cardinality({g}) = 1
  BY <1>2, FS_Singleton, FS_Product
<1> QED
  BY <1>2, <1>3, <1>4

(* The earlier hunks of a file have finitely many lines.                   *)
LEMMA EarlierIsFinite ==
    ASSUME NEW file \in FileRec, NEW h \in DOMAIN file.hunks, NEW S
    PROVE  IsFiniteSet(Earlier(file, h, S)) /\ Cardinality(Earlier(file, h, S)) \in Nat
<1> DEFINE part == [g \in 1..h - 1 |-> InHunk(file, g, S)]
           parts == {part[g] : g \in 1..h - 1}
<1>1. IsFiniteSet(1..h - 1)
  BY FS_Interval DEF FileRec, HunkSeq
<1>2. 1..h - 1 \subseteq DOMAIN file.hunks
  BY DEF FileRec, HunkSeq
<1>3. \A g \in 1..h - 1 : IsFiniteSet(part[g])
  BY <1>2, InHunkIsFinite
<1>4. Earlier(file, h, S) = UNION parts
  BY DEF Earlier
<1> HIDE DEF part
<1>5. IsFiniteSet(parts)
  BY <1>1, FiniteValues
<1>6. IsFiniteSet(UNION parts)
  BY <1>3, <1>5, FS_UNION
<1> QED
  BY <1>4, <1>6, FS_CardinalityType

(* A hunk begins at a line of the file.                                    *)
LEMMA FirstLineType ==
    ASSUME NEW file \in FileRec, NEW h \in DOMAIN file.hunks, NEW S
    PROVE  /\ FirstLine(file, h, S) = 1 + (h - 1) * Gap + Cardinality(Earlier(file, h, S))
           /\ FirstLine(file, h, S) \in Nat \ {0}
<1>1. FirstLine(file, h, S) = 1 + (h - 1) * Gap + Cardinality(Earlier(file, h, S))
  BY DEF FirstLine, Earlier, InHunk
<1>2. (h - 1) * Gap \in Nat
  <2>1. h - 1 \in Nat /\ Gap \in Nat
    BY DiffAssumption DEF DiffAssumption, FileRec, HunkSeq
  <2>2. \A a, b \in Nat : a * b \in Nat
    OBVIOUS
  <2> QED
    BY <2>1, <2>2
<1> QED
  BY <1>1, <1>2, EarlierIsFinite

(* A hunk begins after the lines of every hunk before it.                  *)
LEMMA HunksFollow ==
    ASSUME NEW file \in FileRec, NEW h \in DOMAIN file.hunks, NEW g \in 1..h - 1, NEW S
    PROVE  FirstLine(file, g, S) + Count(file.hunks[g], S) < FirstLine(file, h, S)
<1>1. g \in DOMAIN file.hunks /\ g \in Nat \ {0} /\ h \in Nat
  BY DEF FileRec, HunkSeq
<1> DEFINE E == Earlier(file, g, S)
           F == Earlier(file, h, S)
           H == InHunk(file, g, S)
<1>2. E \cup H \subseteq F
  <2>1. \A k \in 1..g - 1 : k \in 1..h - 1
    BY <1>1
  <2> QED
    BY <2>1 DEF Earlier
<1>3. E \cap H = {}
  <2>1. \A k \in 1..g - 1 : InHunk(file, k, S) \cap InHunk(file, g, S) = {}
    BY <1>1 DEF InHunk
  <2> QED
    BY <2>1 DEF Earlier
<1>4. /\ IsFiniteSet(E) /\ IsFiniteSet(F) /\ IsFiniteSet(H)
      /\ Cardinality(E) \in Nat /\ Cardinality(F) \in Nat
      /\ Cardinality(H) = Count(file.hunks[g], S) /\ Count(file.hunks[g], S) \in Nat
  BY <1>1, EarlierIsFinite, InHunkIsFinite
<1>5. Cardinality(E) + Count(file.hunks[g], S) <= Cardinality(F)
  <2> HIDE DEF E, F, H
  <2>1. IsFiniteSet(E \cup H) /\ Cardinality(E \cup H) = Cardinality(E) + Cardinality(H) - Cardinality(E \cap H)
    BY <1>4, FS_Union
  <2>2. Cardinality(E \cap H) = 0
    BY <1>3, FS_EmptySet
  <2>3. Cardinality(E \cup H) <= Cardinality(F)
    BY <1>2, <1>4, FS_Subset
  <2> QED
    BY <1>4, <2>1, <2>2, <2>3
<1>6. (g - 1) * Gap < (h - 1) * Gap /\ (g - 1) * Gap \in Nat /\ (h - 1) * Gap \in Nat
  <2>1. Gap \in Nat \ {0}
    BY DiffAssumption DEF DiffAssumption
  <2>2. \A a, b, c \in Nat : c > 0 /\ a < b => a * c < b * c
    OBVIOUS
  <2>3. g - 1 \in Nat /\ h - 1 \in Nat /\ g - 1 < h - 1
    BY <1>1
  <2>4. \A a, c \in Nat : a * c \in Nat
    OBVIOUS
  <2> QED
    BY <2>1, <2>2, <2>3, <2>4
<1> HIDE DEF E, F
<1>7. /\ FirstLine(file, g, S) = 1 + (g - 1) * Gap + Cardinality(E)
      /\ FirstLine(file, h, S) = 1 + (h - 1) * Gap + Cardinality(F)
  BY <1>1, FirstLineType DEF E, F
<1> QED
  BY <1>4, <1>5, <1>6, <1>7

(* Of two lines of a kind the one that comes later has the larger number.  *)
LEMMA LinesGrow ==
    ASSUME NEW file \in FileRec, NEW S,
           NEW g \in DOMAIN file.hunks, NEW i \in DOMAIN file.hunks[g],
           NEW h \in DOMAIN file.hunks, NEW k \in DOMAIN file.hunks[h],
           file.hunks[g][i] \in S, g < h \/ (g = h /\ i < k)
    PROVE  LineOf(file, g, i, S) < LineOf(file, h, k, S)
<1>1. /\ g \in Nat \ {0} /\ h \in Nat \ {0} /\ i \in Nat \ {0} /\ k \in Nat \ {0}
      /\ i <= Len(file.hunks[g]) /\ Len(file.hunks[g]) \in Nat /\ k - 1 \in Nat /\ i - 1 \in Nat
  BY DEF FileRec, HunkSeq
<1>2. /\ FirstLine(file, g, S) \in Nat /\ FirstLine(file, h, S) \in Nat
      /\ Before(file.hunks[g], i - 1, S) \in Nat /\ Before(file.hunks[h], k - 1, S) \in Nat
  BY <1>1, FirstLineType, SomeAreFinite
<1>3. CASE g < h
  <2>1. FirstLine(file, g, S) + Count(file.hunks[g], S) < FirstLine(file, h, S)
    BY <1>1, <1>3, HunksFollow
  <2>2. Before(file.hunks[g], i - 1, S) < Count(file.hunks[g], S)
    BY <1>1, LineCounts DEF Count
  <2>3. Count(file.hunks[g], S) \in Nat
    BY InHunkIsFinite
  <2> QED
    BY <1>2, <2>1, <2>2, <2>3 DEF LineOf
<1>4. CASE g = h /\ i < k
  <2>1. Before(file.hunks[g], i - 1, S) < Before(file.hunks[g], k - 1, S)
    BY <1>1, <1>4, LineCounts
  <2> QED
    BY <1>2, <1>4, <2>1 DEF LineOf
<1> QED
  BY <1>3, <1>4

(***************************************************************************)
(* The invariant: what was read so far, and what it says.                  *)
(***************************************************************************)
HunkRec == [added : SUBSET Nat, deleted : SUBSET Nat, same : SUBSET (Nat \X Nat)]

FileOut == [old : Names, new : Names, hunks : Seq(HunkRec)]

HunksOf(f) == patch[f].hunks

(* The files whose header was read, the hunks of file f whose header was,  *)
(* the ops of its hunk h that were.                                        *)
FilesBegun == IF Unread /\ (at.part > 0 \/ at.i > 1) THEN at.file ELSE at.file - 1
HunksBegun(f) ==
    IF at.file # f \/ at.part > Len(HunksOf(f)) THEN Len(HunksOf(f))
    ELSE IF at.part = 0 \/ at.i > 1 THEN at.part ELSE at.part - 1
InOps == Unread /\ at.part \in 1..Len(HunksOf(at.file)) /\ at.i > 1
OpsRead(f, h) ==
    IF at.file # f \/ at.part # h THEN Len(HunksOf(f)[h]) ELSE at.i - 2

(* What the first n ops of hunk h of a file say.                           *)
Says(file, h, n) ==
    LET Of(op) == {i \in 1..n : file.hunks[h][i] = op}
    IN  [added |-> {LineOf(file, h, i, InNew) : i \in Of("add")},
         deleted |-> {LineOf(file, h, i, InOld) : i \in Of("del")},
         same |-> {<<LineOf(file, h, i, InOld), LineOf(file, h, i, InNew)>> : i \in Of("keep")}]

(* The last hunk ends before both counters.                                *)
CountersPast(hunk) ==
    /\ hunk.added \subseteq 0..newLine - 1
    /\ hunk.deleted \subseteq 0..oldLine - 1
    /\ hunk.same \subseteq (0..oldLine - 1) \X (0..newLine - 1)

CursorOK ==
    /\ patch \in Patches
    /\ at \in [file : Nat \ {0}, part : Nat, i : Nat \ {0}]
    /\ at.file <= Len(patch) + 1
    /\ Unread => at.part <= Len(HunksOf(at.file)) + 1
                 /\ at.i <= Len(Part(patch[at.file], at.part))

FilesOK ==
    /\ inHunk \in BOOLEAN /\ oldLine \in Nat /\ newLine \in Nat
    /\ files \in Seq(FileOut)
    /\ Len(files) = FilesBegun
    /\ \A f \in DOMAIN files :
          /\ files[f].old = patch[f].old /\ files[f].new = patch[f].new
          /\ Len(files[f].hunks) = HunksBegun(f)
    /\ InOps => inHunk
    /\ inHunk => /\ Len(files) > 0 /\ Len(files[Len(files)].hunks) > 0
                 /\ CountersPast(Last(Last(files).hunks))

CountersOK ==
    InOps => \A f, h : f = at.file /\ h = at.part =>
        /\ oldLine = Start(patch[f], h, InOld) + Before(HunksOf(f)[h], at.i - 2, InOld)
        /\ newLine = Start(patch[f], h, InNew) + Before(HunksOf(f)[h], at.i - 2, InNew)

HunksSay ==
    \A f \in DOMAIN files : \A h \in DOMAIN files[f].hunks :
        files[f].hunks[h] = Says(patch[f], h, OpsRead(f, h))

HunksOK == LooksPlain => CountersOK /\ HunksSay

DiffInv == CursorOK /\ FilesOK /\ HunksOK

(* Where the cursor can be.                                                *)
AtFileHeader == Unread /\ at.part = 0 /\ at.i = 1
AtNames == Unread /\ at.part = 0 /\ at.i \in 2..3
AtHunkHeader == Unread /\ at.part \in 1..Len(HunksOf(at.file)) /\ at.i = 1
AtOp == Unread /\ at.part \in 1..Len(HunksOf(at.file))
               /\ at.i \in 2..Len(HunksOf(at.file)[at.part]) + 1
AtEnd == Unread /\ at.part = Len(HunksOf(at.file)) + 1 /\ at.i \in 1..2

(* The parts of a file of a patch.                                         *)
LEMMA FileTypes ==
    ASSUME CursorOK, NEW f \in DOMAIN patch
    PROVE  /\ patch[f] \in FileRec /\ DOMAIN patch = 1..Len(patch) /\ Len(patch) \in Nat
           /\ HunksOf(f) \in HunkSeq
           /\ DOMAIN HunksOf(f) = 1..Len(HunksOf(f)) /\ Len(HunksOf(f)) \in Nat
           /\ \A h \in 1..Len(HunksOf(f)) :
                 /\ HunksOf(f)[h] \in Seq(Ops) /\ Len(HunksOf(f)[h]) \in Nat
                 /\ DOMAIN HunksOf(f)[h] = 1..Len(HunksOf(f)[h])
<1>1. patch \in Seq(FileRec)
  BY DiffAssumption DEF DiffAssumption, CursorOK, FileRec, HunkSeq
<1>2. patch[f] \in FileRec /\ DOMAIN patch = 1..Len(patch) /\ Len(patch) \in Nat
  BY <1>1
<1>3. HunksOf(f) \in HunkSeq
  BY <1>2 DEF FileRec, HunksOf
<1>4. DOMAIN HunksOf(f) = 1..Len(HunksOf(f)) /\ Len(HunksOf(f)) \in Nat
  BY <1>3 DEF HunkSeq
<1>5. \A h \in 1..Len(HunksOf(f)) : HunksOf(f)[h] \in Seq(Ops)
  BY <1>3 DEF HunkSeq
<1>6. \A h \in 1..Len(HunksOf(f)) :
         /\ HunksOf(f)[h] \in Seq(Ops) /\ Len(HunksOf(f)[h]) \in Nat
         /\ DOMAIN HunksOf(f)[h] = 1..Len(HunksOf(f)[h])
  BY <1>5
<1> QED
  BY <1>2, <1>3, <1>4, <1>6

(* The line under the cursor.                                              *)
LEMMA LineUnderCursor ==
    ASSUME CursorOK, Unread
    PROVE  /\ AtFileHeader \/ AtNames \/ AtHunkHeader \/ AtOp \/ AtEnd
           /\ AtFileHeader => /\ Line.kind = "diff"
                              /\ Line.old = patch[at.file].old /\ Line.new = patch[at.file].new
                              /\ Len(Part(patch[at.file], at.part)) = 3
           /\ AtNames => /\ Line.kind \in {"old name", "new name"}
                         /\ Len(Part(patch[at.file], at.part)) = 3
           /\ AtHunkHeader => /\ Line.kind = "hunk"
                              /\ Line.old = Start(patch[at.file], at.part, InOld)
                              /\ Line.new = Start(patch[at.file], at.part, InNew)
                              /\ Len(Part(patch[at.file], at.part))
                                    = Len(HunksOf(at.file)[at.part]) + 1
           /\ AtOp => /\ Line.kind = HunksOf(at.file)[at.part][at.i - 1] /\ Line.kind \in Ops
                      /\ Len(Part(patch[at.file], at.part)) = Len(HunksOf(at.file)[at.part]) + 1
           /\ AtEnd => /\ Line.kind \in {"no newline", "empty"}
                       /\ Len(Part(patch[at.file], at.part)) = 2
<1> DEFINE f == at.file
           H == Len(HunksOf(f))
<1>1. /\ f \in DOMAIN patch /\ at.part \in Nat /\ at.i \in Nat \ {0}
      /\ at.part <= H + 1 /\ at.i <= Len(Part(patch[f], at.part))
  BY DEF CursorOK, Unread
<1>2. H \in Nat /\ DOMAIN patch[f].hunks = 1..H
  BY <1>1, FileTypes DEF HunksOf
<1>3. CASE at.part = 0
  <2>1. Part(patch[f], at.part) = FileHeader(patch[f])
    BY <1>3 DEF Part
  <2>2. Len(FileHeader(patch[f])) = 3
    BY DEF FileHeader
  <2>3. at.i \in 1..3
    BY <1>1, <2>1, <2>2
  <2>4. Line = FileHeader(patch[f])[at.i]
    BY <2>1 DEF Line
  <2>5. ~AtHunkHeader /\ ~AtOp /\ ~AtEnd
    BY <1>2, <1>3 DEF AtHunkHeader, AtOp, AtEnd
  <2>6. CASE at.i = 1
    <3>1. Line = [kind |-> "diff", old |-> patch[f].old, new |-> patch[f].new]
      <4>1. Line = FileHeader(patch[f])[1]
        BY <2>4, <2>6
      <4> QED
        BY <4>1 DEF FileHeader
    <3>2. AtFileHeader /\ ~AtNames
      BY <1>3, <2>6 DEF AtFileHeader, AtNames
    <3>3. Line.kind = "diff" /\ Line.old = patch[f].old /\ Line.new = patch[f].new
      BY <3>1
    <3> QED
      BY <2>1, <2>2, <2>5, <3>2, <3>3
  <2>7. CASE at.i \in 2..3
    <3>1. Line = [kind |-> "old name"] \/ Line = [kind |-> "new name"]
      <4>1. Line = FileHeader(patch[f])[2] \/ Line = FileHeader(patch[f])[3]
        BY <2>4, <2>7
      <4> QED
        BY <4>1 DEF FileHeader
    <3>2. AtNames /\ ~AtFileHeader
      BY <1>3, <2>7 DEF AtFileHeader, AtNames
    <3>3. Line.kind \in {"old name", "new name"}
      <4>1. [kind |-> "old name"].kind = "old name" /\ [kind |-> "new name"].kind = "new name"
        OBVIOUS
      <4> QED
        BY <3>1, <4>1, Zenon
    <3> QED
      BY <2>1, <2>2, <2>5, <3>2, <3>3
  <2>8. at.i = 1 \/ at.i \in 2..3
    BY <2>3
  <2> QED
    BY <2>6, <2>7, <2>8
<1>4. CASE at.part \in 1..H
  <2> DEFINE ops == HunksOf(f)[at.part]
  <2>1. Part(patch[f], at.part) = HunkText(patch[f], at.part)
    BY <1>2, <1>4 DEF Part
  <2>2. ops \in Seq(Ops) /\ Len(ops) \in Nat /\ DOMAIN ops = 1..Len(ops)
    BY <1>1, <1>4, FileTypes
  <2>3. Len(HunkText(patch[f], at.part)) = Len(ops) + 1
    BY <2>2 DEF HunkText, HunksOf
  <2>4. at.i \in 1..Len(ops) + 1
    BY <1>1, <2>1, <2>2, <2>3
  <2>5. Line = IF at.i = 1 THEN HunkHeader(patch[f], at.part) ELSE [kind |-> ops[at.i - 1]]
    BY <2>1, <2>4 DEF Line, HunkText, HunksOf
  <2>6. CASE at.i = 1
    BY <1>4, <2>1, <2>3, <2>5, <2>6 DEF AtFileHeader, AtNames, AtHunkHeader, AtOp, AtEnd, HunkHeader
  <2>7. CASE at.i # 1
    <3>1. ops[at.i - 1] \in Ops
      BY <2>2, <2>4, <2>7
    <3>2. AtOp /\ ~AtFileHeader /\ ~AtNames /\ ~AtHunkHeader /\ ~AtEnd
      BY <1>2, <1>4, <2>4, <2>7 DEF AtFileHeader, AtNames, AtHunkHeader, AtOp, AtEnd
    <3> QED
      BY <2>1, <2>3, <2>5, <2>7, <3>1, <3>2
  <2> QED
    BY <2>6, <2>7
<1>5. CASE at.part = H + 1
  <2>1. Part(patch[f], at.part) = FileEnd
    BY <1>2, <1>5 DEF Part
  <2>2. Len(FileEnd) = 2
    BY DEF FileEnd
  <2>3. at.i \in 1..2
    BY <1>1, <2>1, <2>2
  <2>4. Line = [kind |-> "no newline"] \/ Line = [kind |-> "empty"]
    <3>1. Line = FileEnd[1] \/ Line = FileEnd[2]
      BY <2>1, <2>3 DEF Line
    <3> QED
      BY <3>1 DEF FileEnd
  <2>5. AtEnd /\ ~AtHunkHeader /\ ~AtOp /\ ~AtFileHeader /\ ~AtNames
    BY <1>2, <1>5, <2>3 DEF AtFileHeader, AtNames, AtHunkHeader, AtOp, AtEnd
  <2>6. Line.kind \in {"no newline", "empty"}
    <3>1. [kind |-> "no newline"].kind = "no newline" /\ [kind |-> "empty"].kind = "empty"
      OBVIOUS
    <3> QED
      BY <2>4, <3>1, Zenon
  <2> QED
    BY <2>1, <2>2, <2>5, <2>6
<1>6. at.part = 0 \/ at.part \in 1..H \/ at.part = H + 1
  BY <1>1, <1>2
<1> QED
  BY <1>3, <1>4, <1>5, <1>6

(* What was read after one line more.                                      *)
LEMMA CursorMoves ==
    ASSUME CursorOK, Unread, ToNextLine, UNCHANGED patch, NEW f, f = at.file, NEW p, p = at.part
    PROVE  /\ CursorOK'
           /\ FilesBegun = IF AtFileHeader THEN f - 1 ELSE f
           /\ FilesBegun' = f
           /\ \A g \in 1..f - 1 :
                 /\ HunksBegun(g)' = HunksBegun(g)
                 /\ \A h : OpsRead(g, h)' = OpsRead(g, h)
           /\ AtFileHeader \/ AtNames => HunksBegun(f)' = 0
           /\ AtNames => HunksBegun(f) = 0
           /\ AtHunkHeader => /\ HunksBegun(f) = p - 1
                              /\ HunksBegun(f)' = p
                              /\ OpsRead(f, p)' = 0
           /\ AtOp => /\ HunksBegun(f) = p
                      /\ HunksBegun(f)' = p
                      /\ OpsRead(f, p) = at.i - 2
                      /\ OpsRead(f, p)' = at.i - 1
           /\ AtEnd => HunksBegun(f)' = HunksBegun(f)
           /\ \A h \in 1..p - 1 : OpsRead(f, h)' = OpsRead(f, h)
           /\ InOps' =>
                 /\ AtHunkHeader \/ AtOp
                 /\ at' = [at EXCEPT !.i = @ + 1]
<1> DEFINE H == Len(HunksOf(f))
           len == Len(Part(patch[f], p))
<1>1. /\ f \in DOMAIN patch /\ at \in [file : Nat \ {0}, part : Nat, i : Nat \ {0}]
      /\ p <= H + 1 /\ at.i <= len /\ patch \in Patches
  BY DEF CursorOK, Unread
<1>2. H \in Nat /\ DOMAIN patch[f].hunks = 1..H /\ DOMAIN patch = 1..Len(patch) /\ Len(patch) \in Nat
  BY <1>1, FileTypes DEF HunksOf
<1>3. \A h \in 1..H : Len(HunksOf(f)[h]) \in Nat
  BY <1>1, FileTypes
<1>4. /\ AtFileHeader \/ AtNames \/ AtHunkHeader \/ AtOp \/ AtEnd
      /\ AtFileHeader \/ AtNames => len = 3
      /\ AtHunkHeader \/ AtOp => len = Len(HunksOf(f)[p]) + 1
      /\ AtEnd => len = 2
  BY LineUnderCursor
<1>5. \A g : HunksOf(g)' = HunksOf(g)
  BY DEF HunksOf
<1>6. \/ at.i < len /\ at' = [file |-> f, part |-> p, i |-> at.i + 1]
      \/ at.i = len /\ p <= H /\ at' = [file |-> f, part |-> p + 1, i |-> 1]
      \/ at.i = len /\ p = H + 1 /\ at' = [file |-> f + 1, part |-> 0, i |-> 1]
  <2>1. [at EXCEPT !.i = @ + 1] = [file |-> f, part |-> p, i |-> at.i + 1]
    BY <1>1
  <2>2. at' = IF at.i < len THEN [at EXCEPT !.i = @ + 1]
              ELSE IF p <= H THEN [file |-> f, part |-> p + 1, i |-> 1]
                   ELSE [file |-> f + 1, part |-> 0, i |-> 1]
    BY DEF ToNextLine, HunksOf
  <2>3. len \in Nat
    BY <1>3, <1>4 DEF AtHunkHeader, AtOp
  <2>4. CASE at.i < len
    BY <2>1, <2>2, <2>4
  <2>5. CASE ~(at.i < len) /\ p <= H
    <3>1. at.i = len
      BY <1>1, <2>3, <2>5
    <3> QED
      BY <2>2, <2>5, <3>1
  <2>6. CASE ~(at.i < len) /\ ~(p <= H)
    <3>1. at.i = len /\ p = H + 1
      BY <1>1, <1>2, <2>3, <2>6
    <3> QED
      BY <2>2, <2>6, <3>1
  <2> QED
    BY <2>4, <2>5, <2>6
<1>7. CursorOK'
  <2>1. CASE at.i < len /\ at' = [file |-> f, part |-> p, i |-> at.i + 1]
    BY <1>1, <1>2, <1>5, <2>1 DEF CursorOK, Unread
  <2>2. CASE at.i = len /\ p <= H /\ at' = [file |-> f, part |-> p + 1, i |-> 1]
    <3>1. Len(Part(patch[f], p + 1)) >= 1
      <4>1. CASE p + 1 \in 1..H
        <5>1. Part(patch[f], p + 1) = HunkText(patch[f], p + 1)
          BY <1>2, <4>1 DEF Part
        <5> QED
          BY <1>2, <1>3, <4>1, <5>1 DEF HunkText, HunksOf
      <4>2. CASE p + 1 = H + 1
        <5>1. Part(patch[f], p + 1) = FileEnd
          BY <1>2, <4>2 DEF Part
        <5>2. Len(FileEnd) = 2
          BY DEF FileEnd
        <5> QED
          BY <5>1, <5>2
      <4> QED
        BY <1>1, <1>2, <2>2, <4>1, <4>2
    <3> QED
      BY <1>1, <1>2, <1>5, <2>2, <3>1 DEF CursorOK, Unread
  <2>3. CASE at.i = len /\ p = H + 1 /\ at' = [file |-> f + 1, part |-> 0, i |-> 1]
    <3>1. f + 1 \in DOMAIN patch => Len(HunksOf(f + 1)) \in Nat
      BY FileTypes
    <3>2. Len(Part(patch[f + 1], 0)) >= 1
      BY DEF Part, FileHeader
    <3> QED
      BY <1>1, <1>2, <1>5, <2>3, <3>1, <3>2 DEF CursorOK, Unread
  <2> QED
    BY <1>6, <2>1, <2>2, <2>3
<1>8. FilesBegun = (IF AtFileHeader THEN f - 1 ELSE f) /\ FilesBegun' = f
  <2>1. FilesBegun = (IF AtFileHeader THEN f - 1 ELSE f)
    BY <1>1 DEF FilesBegun, AtFileHeader
  <2>2. FilesBegun' = f
    BY <1>1, <1>2, <1>6 DEF FilesBegun, Unread
  <2> QED
    BY <2>1, <2>2
<1>9. \A g \in 1..f - 1 :
         /\ HunksBegun(g)' = HunksBegun(g)
         /\ \A h : OpsRead(g, h)' = OpsRead(g, h)
  BY <1>1, <1>2, <1>5, <1>6 DEF HunksBegun, OpsRead
<1>10. \A h \in 1..p - 1 : OpsRead(f, h)' = OpsRead(f, h)
  BY <1>1, <1>2, <1>5, <1>6 DEF OpsRead
<1>11. InOps' =>
          /\ AtHunkHeader \/ AtOp
          /\ at' = [at EXCEPT !.i = @ + 1]
  <2> SUFFICES ASSUME at'.part \in 1..Len(patch[at'.file].hunks), at'.i > 1
               PROVE  /\ AtHunkHeader \/ AtOp
                      /\ at' = [at EXCEPT !.i = @ + 1]
    BY DEF InOps, HunksOf
  <2>1. at' = [file |-> f, part |-> p, i |-> at.i + 1]
    BY <1>6
  <2>2. at' = [at EXCEPT !.i = @ + 1] /\ p \in 1..H
    BY <1>1, <2>1 DEF HunksOf
  <2>3. ~AtFileHeader /\ ~AtNames /\ ~AtEnd
    BY <1>1, <1>2, <2>2 DEF AtFileHeader, AtNames, AtEnd
  <2> QED
    BY <1>4, <2>2, <2>3
<1>12. AtFileHeader \/ AtNames => HunksBegun(f)' = 0
  BY <1>1, <1>2, <1>5, <1>6 DEF AtFileHeader, AtNames, HunksBegun
<1>13. AtNames => HunksBegun(f) = 0
  BY <1>1, <1>2, <1>5, <1>6 DEF AtFileHeader, AtNames, HunksBegun
<1>14. AtHunkHeader => /\ HunksBegun(f) = p - 1
                       /\ HunksBegun(f)' = p
                       /\ OpsRead(f, p)' = 0
  <2> SUFFICES ASSUME AtHunkHeader
               PROVE  /\ HunksBegun(f) = p - 1
                      /\ HunksBegun(f)' = p
                      /\ OpsRead(f, p)' = 0
    OBVIOUS
  <2>1. p \in 1..H /\ at.i = 1 /\ len = Len(HunksOf(f)[p]) + 1 /\ Len(HunksOf(f)[p]) \in Nat
    BY <1>3, <1>4 DEF AtHunkHeader
  <2>2. HunksBegun(f) = p - 1
    BY <1>1, <1>2, <2>1 DEF HunksBegun
  <2>3. \/ at' = [file |-> f, part |-> p, i |-> 2]
        \/ at' = [file |-> f, part |-> p + 1, i |-> 1] /\ Len(HunksOf(f)[p]) = 0
    BY <1>2, <1>6, <2>1
  <2>4. HunksBegun(f)' = p
    BY <1>2, <1>5, <2>1, <2>3 DEF HunksBegun
  <2>5. OpsRead(f, p)' = 0
    BY <1>2, <1>5, <2>1, <2>3 DEF OpsRead
  <2> QED
    BY <2>2, <2>4, <2>5
<1>15. AtOp => /\ HunksBegun(f) = p
               /\ HunksBegun(f)' = p
               /\ OpsRead(f, p) = at.i - 2
               /\ OpsRead(f, p)' = at.i - 1
  BY <1>1, <1>2, <1>3, <1>4, <1>5, <1>6 DEF AtOp, HunksBegun, OpsRead
<1>16. AtEnd => HunksBegun(f)' = HunksBegun(f)
  BY <1>1, <1>2, <1>3, <1>4, <1>5, <1>6 DEF AtEnd, HunksBegun
<1> QED
  BY <1>7, <1>8, <1>9, <1>10, <1>11, <1>12, <1>13, <1>14, <1>15, <1>16

(***************************************************************************)
(* A step of the parser, by what is under the cursor.                      *)
(***************************************************************************)
(* The hunk that is parsed is the last one that was begun.                 *)
LEMMA WhereItIs ==
    ASSUME CursorOK, FilesOK, Unread
    PROVE  /\ at.file \in DOMAIN patch /\ Len(files) \in Nat /\ DOMAIN files = 1..Len(files)
           /\ ~AtFileHeader => Len(files) = at.file
           /\ AtFileHeader => Len(files) = at.file - 1
           /\ \A g \in DOMAIN files : files[g] \in FileOut /\ g \in 1..at.file
           /\ \A g \in DOMAIN files : /\ files[g].hunks \in Seq(HunkRec)
                                      /\ DOMAIN files[g].hunks = 1..Len(files[g].hunks)
                                      /\ Len(files[g].hunks) \in Nat
<1>1. /\ at.file \in DOMAIN patch
      /\ at \in [file : Nat \ {0}, part : Nat, i : Nat \ {0}]
  BY DEF CursorOK, Unread
<1>2. files \in Seq(FileOut) /\ Len(files) = FilesBegun
  BY DEF FilesOK
<1>3. Len(files) \in Nat /\ DOMAIN files = 1..Len(files)
  BY <1>2
<1>4. \A g \in DOMAIN files : files[g] \in FileOut
  BY <1>2
<1>5. \A g \in DOMAIN files : /\ files[g].hunks \in Seq(HunkRec)
                              /\ DOMAIN files[g].hunks = 1..Len(files[g].hunks)
                              /\ Len(files[g].hunks) \in Nat
  BY <1>4 DEF FileOut
<1>6. FilesBegun = IF AtFileHeader THEN at.file - 1 ELSE at.file
  BY <1>1 DEF FilesBegun, AtFileHeader
<1>7. \A g \in DOMAIN files : g \in 1..at.file
  BY <1>1, <1>2, <1>3, <1>6
<1> QED
  BY <1>1, <1>2, <1>3, <1>4, <1>5, <1>6, <1>7

(* The header of a file begins a file without hunks.                       *)
LEMMA FileHeaderStep ==
    ASSUME DiffInv, ParseFileHeader
    PROVE  DiffInv'
<1> DEFINE f == at.file
           new == [old |-> Line.old, new |-> Line.new, hunks |-> <<>>]
<1> USE DEF DiffInv
<1>1. Unread /\ AtFileHeader /\ Line.old = patch[f].old /\ Line.new = patch[f].new
  BY LineUnderCursor DEF ParseFileHeader, Ops
<1>2. /\ CursorOK' /\ FilesBegun' = f
      /\ \A g \in 1..f - 1 : /\ HunksBegun(g)' = HunksBegun(g)
                             /\ \A h : OpsRead(g, h)' = OpsRead(g, h)
      /\ \A g : g = f => HunksBegun(g)' = 0
      /\ ~InOps'
  <2>1. ~AtHunkHeader /\ ~AtOp
    BY <1>1, FileTypes DEF AtFileHeader, AtHunkHeader, AtOp, Unread
  <2> QED
    BY <1>1, <2>1, CursorMoves DEF ParseFileHeader
<1>3. Len(files) = f - 1 /\ f \in DOMAIN patch /\ files \in Seq(FileOut)
  BY <1>1, WhereItIs DEF FilesOK
<1>4. files' = Append(files, new) /\ ~inHunk' /\ patch' = patch
  BY DEF ParseFileHeader
<1>5. new \in FileOut
  <2>1. patch[f] \in FileRec
    BY <1>3, FileTypes
  <2>2. <<>> \in Seq(HunkRec)
    OBVIOUS
  <2> QED
    BY <1>1, <2>1, <2>2 DEF FileRec, FileOut
<1>6. /\ files' \in Seq(FileOut) /\ Len(files') = f /\ files'[f] = new
      /\ \A g \in 1..f - 1 : files'[g] = files[g]
      /\ DOMAIN files' = 1..f /\ f \in Nat \ {0}
  <2> HIDE DEF new
  <2>1. f \in Nat \ {0}
    BY DEF CursorOK
  <2> QED
    BY <1>3, <1>4, <1>5, <2>1
<1>7. FilesOK'
  <2>1. inHunk' \in BOOLEAN /\ oldLine' \in Nat /\ newLine' \in Nat
    BY DEF ParseFileHeader, FilesOK
  <2>2. \A g \in 1..f : /\ files'[g].old = patch'[g].old /\ files'[g].new = patch'[g].new
                        /\ Len(files'[g].hunks) = HunksBegun(g)'
    <3>1. \A g \in 1..f - 1 : /\ files[g].old = patch[g].old /\ files[g].new = patch[g].new
                              /\ Len(files[g].hunks) = HunksBegun(g)
      BY <1>3 DEF FilesOK
    <3>2. Len(new.hunks) = 0
      OBVIOUS
    <3> HIDE DEF new
    <3>3. new.old = patch[f].old /\ new.new = patch[f].new
      BY <1>1 DEF new
    <3> QED
      BY <1>2, <1>4, <1>6, <3>1, <3>2, <3>3
  <2> QED
    BY <1>2, <1>4, <1>6, <2>1, <2>2 DEF FilesOK
<1>8. HunksOK'
  <2>1. LooksPlain' => LooksPlain
    BY <1>4 DEF LooksPlain
  <2>2. CountersOK'
    BY <1>2 DEF CountersOK
  <2>3. ASSUME LooksPlain, NEW g \in 1..f, NEW h \in DOMAIN files'[g].hunks
        PROVE  files'[g].hunks[h] = Says(patch[g], h, OpsRead(g, h)')
    <3>1. g # f
      BY <1>6
    <3>2. g \in 1..f - 1 /\ g \in DOMAIN files
      BY <1>3, <1>6, <3>1
    <3> QED
      BY <1>2, <1>6, <2>3, <3>2 DEF HunksOK, HunksSay
  <2> QED
    BY <1>4, <1>6, <2>1, <2>2, <2>3 DEF HunksOK, HunksSay
<1> QED
  BY <1>2, <1>7, <1>8

(* A hunk starts at a line, or before the first one.                       *)
LEMMA StartType ==
    ASSUME CursorOK, NEW f \in DOMAIN patch, NEW h \in 1..Len(HunksOf(f)), NEW S
    PROVE  /\ Start(patch[f], h, S) \in Nat
           /\ Count(HunksOf(f)[h], S) # 0 => Start(patch[f], h, S) = FirstLine(patch[f], h, S)
<1>1. patch[f] \in FileRec /\ h \in DOMAIN patch[f].hunks
  BY FileTypes DEF HunksOf
<1>2. FirstLine(patch[f], h, S) \in Nat \ {0}
  BY <1>1, FirstLineType
<1> QED
  BY <1>2 DEF Start, HunksOf

(* The header of a hunk begins a hunk of which nothing was noted.          *)
LEMMA HunkHeaderStep ==
    ASSUME DiffInv, ParseHunkHeader
    PROVE  DiffInv'
<1> SUFFICES ASSUME NEW f, f = at.file, NEW p, p = at.part PROVE DiffInv'
  OBVIOUS
<1> DEFINE old == files[f].hunks
<1> USE DEF DiffInv
<1>1. Unread /\ AtHunkHeader
  BY LineUnderCursor DEF ParseHunkHeader, Ops
<1>2. f \in DOMAIN patch /\ p \in 1..Len(HunksOf(f)) /\ at.i = 1 /\ p \in Nat \ {0} /\ f \in Nat \ {0}
  BY <1>1 DEF AtHunkHeader, CursorOK, Unread
<1>3. ~AtFileHeader
  BY <1>2 DEF AtFileHeader
<1>4. /\ CursorOK' /\ FilesBegun' = f
      /\ \A g \in 1..f - 1 : /\ HunksBegun(g)' = HunksBegun(g)
                             /\ \A h : OpsRead(g, h)' = OpsRead(g, h)
      /\ HunksBegun(f) = p - 1
      /\ HunksBegun(f)' = p /\ OpsRead(f, p)' = 0
      /\ \A h \in 1..p - 1 : OpsRead(f, h)' = OpsRead(f, h)
      /\ InOps' => at' = [at EXCEPT !.i = @ + 1]
  BY <1>1, CursorMoves DEF ParseHunkHeader
<1>5. /\ Len(files) = f /\ f \in DOMAIN files /\ DOMAIN files = 1..f
      /\ old \in Seq(HunkRec) /\ Len(old) = p - 1 /\ files[f] \in FileOut
      /\ files \in Seq(FileOut)
  <2>1. Len(files) = f /\ DOMAIN files = 1..f /\ f \in DOMAIN files
    BY <1>1, <1>2, <1>3, WhereItIs
  <2> QED
    BY <1>1, <1>4, <2>1, WhereItIs DEF FilesOK
<1>6. /\ files' = [files EXCEPT ![f] = [files[f] EXCEPT !.hunks = Append(old, NewHunk)]]
      /\ inHunk' = TRUE /\ patch' = patch
      /\ oldLine' = Start(patch[f], p, InOld) /\ newLine' = Start(patch[f], p, InNew)
  <2>1. Line.old = Start(patch[f], p, InOld) /\ Line.new = Start(patch[f], p, InNew)
    BY <1>1, LineUnderCursor
  <2> QED
    BY <1>5, <2>1 DEF ParseHunkHeader, StartLine
<1> DEFINE longer == Append(old, NewHunk)
           new == [files[f] EXCEPT !.hunks = longer]
<1>7. NewHunk \in HunkRec
  BY DEF NewHunk, HunkRec
<1>8. /\ longer \in Seq(HunkRec) /\ Len(longer) = p /\ longer[p] = NewHunk
      /\ \A h \in 1..p - 1 : longer[h] = old[h]
  <2> HIDE DEF old
  <2> QED
    BY <1>2, <1>5, <1>7
<1>9. new \in FileOut /\ new.hunks = longer /\ new.old = files[f].old /\ new.new = files[f].new
  <2> HIDE DEF longer
  <2> QED
    BY <1>5, <1>8 DEF FileOut
<1>10. /\ files' \in Seq(FileOut) /\ Len(files') = f /\ files'[f] = new
       /\ \A g \in 1..f - 1 : files'[g] = files[g]
       /\ DOMAIN files' = 1..f
  <2> HIDE DEF new
  <2>1. files' = [files EXCEPT ![f] = new]
    BY <1>6 DEF new
  <2> QED
    BY <1>2, <1>5, <1>9, <2>1
<1>11. oldLine' \in Nat /\ newLine' \in Nat
  BY <1>2, <1>6, StartType
<1> HIDE DEF new, longer
<1>12. FilesOK'
  <2>1. \A g \in 1..f : /\ files'[g].old = patch'[g].old /\ files'[g].new = patch'[g].new
                        /\ Len(files'[g].hunks) = HunksBegun(g)'
    <3>1. \A g \in 1..f : /\ files[g].old = patch[g].old /\ files[g].new = patch[g].new
                          /\ Len(files[g].hunks) = HunksBegun(g)
      BY <1>5 DEF FilesOK
    <3>2. ASSUME NEW g \in 1..f - 1
          PROVE  Len(files'[g].hunks) = HunksBegun(g)' /\ files'[g] = files[g] /\ g \in 1..f
      BY <1>2, <1>4, <1>10, <3>1
    <3>3. Len(files'[f].hunks) = HunksBegun(f)' /\ f \in 1..f
      BY <1>2, <1>4, <1>8, <1>9, <1>10
    <3>4. \A g \in 1..f : g = f \/ g \in 1..f - 1
      BY <1>2
    <3> QED
      BY <1>6, <1>9, <1>10, <3>1, <3>2, <3>3, <3>4
  <2>2. Last(Last(files').hunks) = NewHunk
    BY <1>8, <1>9, <1>10 DEF Last
  <2>3. CountersPast(NewHunk)'
    BY DEF CountersPast, NewHunk
  <2>4. Len(files') > 0 /\ Len(files'[Len(files')].hunks) > 0
    BY <1>2, <1>8, <1>9, <1>10
  <2> QED
    BY <1>4, <1>6, <1>10, <1>11, <2>1, <2>2, <2>3, <2>4 DEF FilesOK, CountersPast
<1>13. HunksOK'
  <2>1. LooksPlain' => LooksPlain
    BY <1>6 DEF LooksPlain
  <2>2. CountersOK'
    <3> SUFFICES ASSUME InOps'
                 PROVE  /\ oldLine' = Start(patch[f], p, InOld)
                              + Before(HunksOf(f)'[p], at'.i - 2, InOld)
                        /\ newLine' = Start(patch[f], p, InNew)
                              + Before(HunksOf(f)'[p], at'.i - 2, InNew)
                        /\ at'.file = f /\ at'.part = p
      BY <1>6 DEF CountersOK
    <3>1. at'.file = f /\ at'.part = p /\ at'.i - 2 = 0
      BY <1>2, <1>4 DEF CursorOK
    <3>2. Before(HunksOf(f)'[p], 0, InOld) = 0 /\ Before(HunksOf(f)'[p], 0, InNew) = 0
      BY BeforeGrows
    <3> QED
      BY <1>6, <1>11, <3>1, <3>2
  <2>3. ASSUME LooksPlain, NEW g \in 1..f, NEW h \in DOMAIN files'[g].hunks
        PROVE  files'[g].hunks[h] = Says(patch[g], h, OpsRead(g, h)')
    <3>1. CASE g # f
      BY <1>2, <1>4, <1>5, <1>10, <2>3, <3>1 DEF HunksOK, HunksSay
    <3>2. CASE g = f /\ h # p
      <4>1. h \in 1..p - 1 /\ h \in DOMAIN old
        BY <1>2, <1>5, <1>8, <1>9, <1>10, <3>2
      <4>2. old[h] = Says(patch[f], h, OpsRead(f, h))
        BY <1>5, <2>3, <4>1 DEF HunksOK, HunksSay
      <4> QED
        BY <1>4, <1>8, <1>9, <1>10, <3>2, <4>1, <4>2
    <3>3. CASE g = f /\ h = p
      <4>1. Says(patch[f], p, 0) = NewHunk
        BY DEF Says, NewHunk
      <4> QED
        BY <1>4, <1>8, <1>9, <1>10, <3>3, <4>1
    <3> QED
      BY <3>1, <3>2, <3>3
  <2> QED
    BY <1>6, <1>10, <2>1, <2>2, <2>3 DEF HunksOK, HunksSay
<1> QED
  BY <1>4, <1>12, <1>13

(* A counter that is where the hunk begins and has moved with every line   *)
(* of its side stands at the line that comes next.                         *)
LEMMA CounterIsLine ==
    ASSUME CursorOK, NEW f \in DOMAIN patch, NEW h \in 1..Len(HunksOf(f)),
           NEW i \in 1..Len(HunksOf(f)[h]), NEW S, HunksOf(f)[h][i] \in S
    PROVE  Start(patch[f], h, S) + Before(HunksOf(f)[h], i - 1, S) = LineOf(patch[f], h, i, S)
<1> DEFINE ops == HunksOf(f)[h]
<1>1. Len(ops) \in Nat
  BY FileTypes
<1>2. Before(ops, i - 1, S) < Before(ops, Len(ops), S)
  BY <1>1, LineCounts
<1>3. Before(ops, i - 1, S) \in Nat /\ Before(ops, Len(ops), S) \in Nat
  <2>1. i - 1 \in Nat
    BY <1>1
  <2> QED
    BY <1>1, <2>1, SomeAreFinite
<1>4. Count(ops, S) # 0
  BY <1>2, <1>3 DEF Count
<1> QED
  BY <1>4, StartType DEF LineOf, HunksOf

(* What is noted of a line makes the hunk say what one line more says.     *)
LEMMA NotedSays ==
    ASSUME CursorOK, NEW f \in DOMAIN patch, NEW h \in 1..Len(HunksOf(f)),
           NEW i \in 1..Len(HunksOf(f)[h]), NEW kind, kind = HunksOf(f)[h][i], kind \in Plain,
           oldLine = Start(patch[f], h, InOld) + Before(HunksOf(f)[h], i - 1, InOld),
           newLine = Start(patch[f], h, InNew) + Before(HunksOf(f)[h], i - 1, InNew)
    PROVE  Noted(Says(patch[f], h, i - 1), kind) = Says(patch[f], h, i)
<1> DEFINE ops == patch[f].hunks[h]
           Of(op, n) == {k \in 1..n : ops[k] = op}
<1>1. ops = HunksOf(f)[h] /\ i \in Nat \ {0}
  BY FileTypes DEF HunksOf
<1>2. /\ kind \in InOld => oldLine = LineOf(patch[f], h, i, InOld)
      /\ kind \in InNew => newLine = LineOf(patch[f], h, i, InNew)
  BY CounterIsLine
<1>3. \A op : Of(op, i) = Of(op, i - 1) \cup (IF kind = op THEN {i} ELSE {})
  <2>1. 1..i = (1..i - 1) \cup {i} /\ i \notin 1..i - 1
    BY <1>1
  <2> QED
    BY <1>1, <2>1
<1> DEFINE Added(n) == {LineOf(patch[f], h, k, InNew) : k \in Of("add", n)}
           Deleted(n) == {LineOf(patch[f], h, k, InOld) : k \in Of("del", n)}
           Same(n) == {<<LineOf(patch[f], h, k, InOld), LineOf(patch[f], h, k, InNew)>> : k \in Of("keep", n)}
<1>4. \A n : Says(patch[f], h, n) = [added |-> Added(n), deleted |-> Deleted(n), same |-> Same(n)]
  BY DEF Says
<1>5. Added(i) = IF kind = "add" THEN Added(i - 1) \cup {newLine} ELSE Added(i - 1)
  <2> HIDE DEF Of
  <2> QED
    BY <1>2, <1>3 DEF InNew
<1>6. Deleted(i) = IF kind = "del" THEN Deleted(i - 1) \cup {oldLine} ELSE Deleted(i - 1)
  <2> HIDE DEF Of
  <2> QED
    BY <1>2, <1>3 DEF InOld
<1>7. Same(i) = IF kind = "keep" THEN Same(i - 1) \cup {<<oldLine, newLine>>} ELSE Same(i - 1)
  <2> HIDE DEF Of
  <2> QED
    BY <1>2, <1>3 DEF InOld, InNew
<1> HIDE DEF Of, Added, Deleted, Same
<1>8. CASE kind = "add"
  BY <1>4, <1>5, <1>6, <1>7, <1>8 DEF Noted
<1>9. CASE kind = "del"
  BY <1>4, <1>5, <1>6, <1>7, <1>9 DEF Noted
<1>10. CASE kind = "keep"
  BY <1>4, <1>5, <1>6, <1>7, <1>10 DEF Noted
<1> QED
  BY <1>8, <1>9, <1>10 DEF Plain

(* A note has the type of a hunk, and the counters move past it.           *)
LEMMA NotedType ==
    ASSUME oldLine \in Nat, newLine \in Nat, NEW hunk \in HunkRec, CountersPast(hunk),
           NEW kind \in Plain, NEW noted, noted = Noted(hunk, kind),
           oldLine' = oldLine + OldStep(kind), newLine' = newLine + NewStep(kind)
    PROVE  /\ noted \in HunkRec /\ CountersPast(noted)'
           /\ oldLine' \in Nat /\ newLine' \in Nat
<1>1. /\ hunk = [added |-> hunk.added, deleted |-> hunk.deleted, same |-> hunk.same]
      /\ hunk.added \in SUBSET Nat /\ hunk.deleted \in SUBSET Nat
      /\ hunk.same \in SUBSET (Nat \X Nat)
  BY DEF HunkRec
<1>2. CASE kind = "add"
  <2>1. noted = [hunk EXCEPT !.added = @ \cup {newLine}]
    BY <1>2 DEF Noted
  <2>2. noted = [added |-> hunk.added \cup {newLine}, deleted |-> hunk.deleted,
                             same |-> hunk.same]
    BY <1>1, <2>1
  <2>3. oldLine' = oldLine /\ newLine' = newLine + 1
    BY <1>2 DEF OldStep, NewStep, InOld, InNew
  <2>4. noted \in HunkRec
    BY <1>1, <2>2 DEF HunkRec
  <2>5. /\ noted.added \subseteq 0..newLine' - 1
        /\ noted.deleted \subseteq 0..oldLine' - 1
        /\ noted.same \subseteq (0..oldLine' - 1) \X (0..newLine' - 1)
    BY <1>1, <2>2, <2>3 DEF CountersPast
  <2> QED
    BY <2>3, <2>4, <2>5 DEF CountersPast
<1>3. CASE kind = "del"
  <2>1. noted = [hunk EXCEPT !.deleted = @ \cup {oldLine}]
    BY <1>3 DEF Noted
  <2>2. noted = [added |-> hunk.added, deleted |-> hunk.deleted \cup {oldLine},
                             same |-> hunk.same]
    BY <1>1, <2>1
  <2>3. oldLine' = oldLine + 1 /\ newLine' = newLine
    BY <1>3 DEF OldStep, NewStep, InOld, InNew
  <2>4. noted \in HunkRec
    BY <1>1, <2>2 DEF HunkRec
  <2>5. /\ noted.added \subseteq 0..newLine' - 1
        /\ noted.deleted \subseteq 0..oldLine' - 1
        /\ noted.same \subseteq (0..oldLine' - 1) \X (0..newLine' - 1)
    BY <1>1, <2>2, <2>3 DEF CountersPast
  <2> QED
    BY <2>3, <2>4, <2>5 DEF CountersPast
<1>4. CASE kind = "keep"
  <2>1. noted = [hunk EXCEPT !.same = @ \cup {<<oldLine, newLine>>}]
    BY <1>4 DEF Noted
  <2>2. noted = [added |-> hunk.added, deleted |-> hunk.deleted,
                             same |-> hunk.same \cup {<<oldLine, newLine>>}]
    BY <1>1, <2>1
  <2>3. oldLine' = oldLine + 1 /\ newLine' = newLine + 1
    BY <1>4 DEF OldStep, NewStep, InOld, InNew
  <2>4. noted \in HunkRec
    BY <1>1, <2>2 DEF HunkRec
  <2>5. /\ noted.added \subseteq 0..newLine' - 1
        /\ noted.deleted \subseteq 0..oldLine' - 1
        /\ noted.same \subseteq (0..oldLine' - 1) \X (0..newLine' - 1)
    BY <1>1, <2>2, <2>3 DEF CountersPast
  <2> QED
    BY <2>3, <2>4, <2>5 DEF CountersPast
<1> QED
  BY <1>2, <1>3, <1>4 DEF Plain

(* A line of a hunk is noted in the last hunk.                             *)
LEMMA OpStep ==
    ASSUME DiffInv, ParseHunk
    PROVE  DiffInv'
<1> SUFFICES ASSUME NEW f, f = at.file, NEW p, p = at.part, NEW kind, kind = Line.kind,
                    NEW n, n = at.i - 1
             PROVE  DiffInv'
  OBVIOUS
<1> DEFINE old == files[f].hunks
           noted == Noted(old[p], kind)
           hunks == [old EXCEPT ![p] = noted]
           new == [files[f] EXCEPT !.hunks = hunks]
<1> USE DEF DiffInv
<1>1. Unread /\ AtOp /\ kind \in Plain /\ kind = HunksOf(f)[p][n]
  <2>1. kind \notin {"diff", "hunk", "no newline", "empty", "old name", "new name"}
    BY DEF ParseHunk, IsSourceLine
  <2>2. Unread /\ kind \notin {"add plus", "del minus"}
    BY DEF ParseHunk, IsSourceLine
  <2> QED
    BY <2>1, <2>2, LineUnderCursor DEF Ops, Plain
<1>2. /\ f \in DOMAIN patch /\ p \in 1..Len(HunksOf(f)) /\ p \in Nat \ {0} /\ f \in Nat \ {0}
      /\ n \in 1..Len(HunksOf(f)[p]) /\ ~AtFileHeader /\ n \in Nat \ {0} /\ at.i = n + 1
  <2>1. /\ f \in DOMAIN patch /\ p \in 1..Len(HunksOf(f)) /\ at.i \in Nat /\ f \in Nat \ {0}
        /\ at.i \in 2..Len(HunksOf(f)[p]) + 1
    BY <1>1 DEF AtOp, CursorOK, Unread
  <2>2. Len(HunksOf(f)[p]) \in Nat /\ Len(HunksOf(f)) \in Nat
    BY <2>1, FileTypes
  <2> QED
    BY <2>1, <2>2 DEF AtFileHeader
<1>3. /\ CursorOK' /\ FilesBegun' = f
      /\ \A g \in 1..f - 1 : /\ HunksBegun(g)' = HunksBegun(g)
                             /\ \A h : OpsRead(g, h)' = OpsRead(g, h)
      /\ HunksBegun(f) = p /\ HunksBegun(f)' = p
      /\ OpsRead(f, p) = n - 1 /\ OpsRead(f, p)' = n
      /\ \A h \in 1..p - 1 : OpsRead(f, h)' = OpsRead(f, h)
      /\ InOps' => at' = [at EXCEPT !.i = @ + 1]
  <2>1. at.i - 2 = n - 1
    BY <1>2
  <2> QED
    BY <1>1, <2>1, CursorMoves DEF ParseHunk
<1>4. /\ Len(files) = f /\ f \in DOMAIN files /\ DOMAIN files = 1..f
      /\ old \in Seq(HunkRec) /\ Len(old) = p /\ files[f] \in FileOut
      /\ files \in Seq(FileOut)
  <2>1. Len(files) = f /\ DOMAIN files = 1..f /\ f \in DOMAIN files
    BY <1>1, <1>2, WhereItIs
  <2> QED
    BY <1>1, <1>3, <2>1, WhereItIs DEF FilesOK
<1>5. /\ files' = [files EXCEPT ![f] = new]
      /\ inHunk /\ inHunk' /\ patch' = patch
      /\ oldLine' = oldLine + OldStep(kind) /\ newLine' = newLine + NewStep(kind)
  BY <1>4 DEF ParseHunk
<1>6. old[p] \in HunkRec /\ CountersPast(old[p]) /\ oldLine \in Nat /\ newLine \in Nat
  BY <1>2, <1>4, <1>5 DEF FilesOK, Last
<1>7. /\ noted \in HunkRec /\ oldLine' \in Nat /\ newLine' \in Nat
      /\ \A x : x = noted => CountersPast(x)'
  <2> HIDE DEF old
  <2> QED
    BY <1>1, <1>5, <1>6, NotedType
<1>8. /\ hunks \in Seq(HunkRec) /\ Len(hunks) = p /\ hunks[p] = noted
      /\ \A h \in 1..p - 1 : hunks[h] = old[h]
  <2> HIDE DEF old, noted
  <2> QED
    BY <1>2, <1>4, <1>7
<1>9. new \in FileOut /\ new.hunks = hunks /\ new.old = files[f].old /\ new.new = files[f].new
  <2> HIDE DEF hunks
  <2> QED
    BY <1>4, <1>8 DEF FileOut
<1> HIDE DEF new, hunks
<1>10. /\ files' \in Seq(FileOut) /\ Len(files') = f /\ files'[f] = new
       /\ \A g \in 1..f - 1 : files'[g] = files[g]
       /\ DOMAIN files' = 1..f
  BY <1>2, <1>4, <1>5, <1>9
<1>11. FilesOK'
  <2>1. ASSUME NEW g \in 1..f - 1
        PROVE  Len(files'[g].hunks) = HunksBegun(g)' /\ files'[g] = files[g] /\ g \in 1..f
    BY <1>2, <1>3, <1>4, <1>10 DEF FilesOK
  <2>2. Len(files'[f].hunks) = HunksBegun(f)' /\ f \in 1..f
    BY <1>2, <1>3, <1>8, <1>9, <1>10
  <2>3. \A g \in 1..f : g = f \/ g \in 1..f - 1
    BY <1>2
  <2>4. \A g \in 1..f : /\ files'[g].old = patch'[g].old /\ files'[g].new = patch'[g].new
                        /\ Len(files'[g].hunks) = HunksBegun(g)'
    BY <1>4, <1>5, <1>9, <1>10, <2>1, <2>2, <2>3 DEF FilesOK
  <2>5. Last(Last(files').hunks) = noted
    BY <1>8, <1>9, <1>10 DEF Last
  <2>6. CountersPast(Last(Last(files).hunks))'
    BY <1>7, <2>5 DEF CountersPast
  <2>7. Len(files') > 0 /\ Len(files'[Len(files')].hunks) > 0
    BY <1>2, <1>8, <1>9, <1>10
  <2> QED
    BY <1>3, <1>5, <1>7, <1>10, <2>4, <2>6, <2>7 DEF FilesOK
<1>12. HunksOK'
  <2>1. LooksPlain' => LooksPlain
    BY <1>5 DEF LooksPlain
  <2>2. /\ Before(HunksOf(f)[p], n, InOld) = Before(HunksOf(f)[p], n - 1, InOld) + OldStep(kind)
        /\ Before(HunksOf(f)[p], n, InNew) = Before(HunksOf(f)[p], n - 1, InNew) + NewStep(kind)
        /\ Before(HunksOf(f)[p], n - 1, InOld) \in Nat /\ Before(HunksOf(f)[p], n - 1, InNew) \in Nat
    <3>1. n - 1 \in Nat /\ (n - 1) + 1 = n
      BY <1>2
    <3> QED
      <4> DEFINE ops == HunksOf(f)[p]
      <4>1. \A S : /\ Before(ops, n - 1, S) \in Nat
                   /\ Before(ops, (n - 1) + 1, S)
                         = Before(ops, n - 1, S) + IF ops[(n - 1) + 1] \in S THEN 1 ELSE 0
        <5> SUFFICES ASSUME NEW S
                     PROVE  /\ Before(ops, n - 1, S) \in Nat
                            /\ Before(ops, (n - 1) + 1, S)
                                  = Before(ops, n - 1, S) + IF ops[(n - 1) + 1] \in S THEN 1 ELSE 0
          OBVIOUS
        <5> HIDE DEF ops
        <5> QED
          <6>1. Before(ops, n - 1, S) \in Nat
            BY <3>1, SomeAreFinite
          <6>2. \A m \in Nat : Before(ops, m + 1, S)
                                  = Before(ops, m, S) + IF ops[m + 1] \in S THEN 1 ELSE 0
            BY BeforeGrows
          <6> QED
            BY <3>1, <6>1, <6>2
      <4>2. \A S : Before(ops, n, S) = Before(ops, n - 1, S) + IF kind \in S THEN 1 ELSE 0
        BY <1>1, <3>1, <4>1
      <4> QED
        BY <4>1, <4>2 DEF OldStep, NewStep
  <2>3. LooksPlain => /\ oldLine = Start(patch[f], p, InOld) + Before(HunksOf(f)[p], n - 1, InOld)
                      /\ newLine = Start(patch[f], p, InNew) + Before(HunksOf(f)[p], n - 1, InNew)
    <3>1. InOps /\ at.i - 2 = n - 1
      BY <1>1, <1>2 DEF InOps
    <3> QED
      BY <3>1 DEF HunksOK, CountersOK
  <2>4. ASSUME LooksPlain PROVE CountersOK'
    <3> SUFFICES ASSUME InOps'
                 PROVE  /\ oldLine' = Start(patch[f], p, InOld)
                              + Before(HunksOf(f)'[p], at'.i - 2, InOld)
                        /\ newLine' = Start(patch[f], p, InNew)
                              + Before(HunksOf(f)'[p], at'.i - 2, InNew)
                        /\ at'.file = f /\ at'.part = p
      BY <1>5 DEF CountersOK
    <3>1. at'.file = f /\ at'.part = p /\ at'.i - 2 = n
      BY <1>2, <1>3 DEF CursorOK
    <3>2. HunksOf(f)' = HunksOf(f)
      BY <1>5 DEF HunksOf
    <3>3. Start(patch[f], p, InOld) \in Nat /\ Start(patch[f], p, InNew) \in Nat
      BY <1>2, StartType
    <3>4. OldStep(kind) \in Nat /\ NewStep(kind) \in Nat
      BY DEF OldStep, NewStep
    <3> QED
      BY <1>5, <2>2, <2>3, <2>4, <3>1, <3>2, <3>3, <3>4
  <2>5. ASSUME LooksPlain, NEW g \in 1..f, NEW h \in DOMAIN files'[g].hunks
        PROVE  files'[g].hunks[h] = Says(patch[g], h, OpsRead(g, h)')
    <3>1. CASE g # f
      <4>1. g \in 1..f - 1
        <5>1. f \in Nat
          BY <1>2
        <5> QED
          BY <3>1, <5>1
      <4>2. files'[g] = files[g] /\ OpsRead(g, h)' = OpsRead(g, h)
        BY <1>3, <1>10, <4>1
      <4>3. g \in DOMAIN files /\ h \in DOMAIN files[g].hunks
        BY <1>4, <4>2
      <4>4. files[g].hunks[h] = Says(patch[g], h, OpsRead(g, h))
        BY <2>5, <4>3 DEF HunksOK, HunksSay
      <4> QED
        BY <4>2, <4>4
    <3>2. CASE g = f /\ h # p
      <4>1. h \in 1..p - 1 /\ h \in DOMAIN old
        BY <1>2, <1>4, <1>8, <1>9, <1>10, <3>2
      <4>2. old[h] = Says(patch[f], h, OpsRead(f, h))
        BY <1>4, <2>5, <4>1 DEF HunksOK, HunksSay
      <4> QED
        BY <1>3, <1>8, <1>9, <1>10, <3>2, <4>1, <4>2
    <3>3. CASE g = f /\ h = p
      <4>1. old[p] = Says(patch[f], p, n - 1)
        BY <1>2, <1>3, <1>4, <2>5 DEF HunksOK, HunksSay
      <4>2. Noted(Says(patch[f], p, n - 1), kind) = Says(patch[f], p, n)
        BY <1>1, <1>2, <2>3, <2>5, NotedSays
      <4>3. noted = Says(patch[f], p, n)
        BY <4>1, <4>2
      <4> HIDE DEF noted
      <4> QED
        BY <1>3, <1>8, <1>9, <1>10, <3>3, <4>3
    <3> QED
      BY <3>1, <3>2, <3>3
  <2> QED
    BY <1>5, <1>10, <2>1, <2>4, <2>5 DEF HunksOK, HunksSay
<1> QED
  BY <1>3, <1>11, <1>12

(* A line that is passed over changes nothing that was read; of a patch    *)
(* without lines that look like headers it is never a line of a hunk.      *)
LEMMA PassOverStep ==
    ASSUME DiffInv, PassOver
    PROVE  DiffInv'
<1> SUFFICES ASSUME NEW f, f = at.file, NEW p, p = at.part PROVE DiffInv'
  OBVIOUS
<1> USE DEF DiffInv
<1>1. Unread /\ patch' = patch /\ ToNextLine
      /\ UNCHANGED <<inHunk, oldLine, newLine, files>>
  BY DEF PassOver
<1>2. AtNames \/ AtEnd \/ AtOp
  BY <1>1, LineUnderCursor DEF PassOver
<1>3. /\ f \in DOMAIN patch /\ f \in Nat \ {0} /\ p \in Nat
      /\ Len(HunksOf(f)) \in Nat /\ ~AtFileHeader
      /\ AtNames => ~AtOp /\ ~AtEnd
      /\ AtEnd => ~AtOp /\ ~AtNames /\ ~AtHunkHeader
      /\ AtOp => ~AtNames /\ ~AtEnd /\ ~AtHunkHeader
      /\ AtNames => ~AtHunkHeader
  <2>1. f \in DOMAIN patch /\ f \in Nat \ {0} /\ p \in Nat
    BY <1>1 DEF CursorOK, Unread
  <2>2. Len(HunksOf(f)) \in Nat
    BY <2>1, FileTypes
  <2> QED
    BY <1>2, <2>1, <2>2 DEF AtFileHeader, AtNames, AtHunkHeader, AtOp, AtEnd
<1>4. /\ CursorOK' /\ FilesBegun = f /\ FilesBegun' = f
      /\ \A g \in 1..f - 1 : /\ HunksBegun(g)' = HunksBegun(g)
                             /\ \A h : OpsRead(g, h)' = OpsRead(g, h)
      /\ HunksBegun(f)' = HunksBegun(f)
      /\ \A h \in 1..p - 1 : OpsRead(f, h)' = OpsRead(f, h)
      /\ InOps' => AtOp
      /\ AtNames => HunksBegun(f) = 0
  <2>1. /\ CursorOK' /\ FilesBegun = (IF AtFileHeader THEN f - 1 ELSE f) /\ FilesBegun' = f
        /\ \A g \in 1..f - 1 : /\ HunksBegun(g)' = HunksBegun(g)
                               /\ \A h : OpsRead(g, h)' = OpsRead(g, h)
        /\ AtNames => HunksBegun(f)' = 0 /\ HunksBegun(f) = 0
        /\ AtOp => HunksBegun(f)' = HunksBegun(f)
        /\ AtEnd => HunksBegun(f)' = HunksBegun(f)
        /\ \A h \in 1..p - 1 : OpsRead(f, h)' = OpsRead(f, h)
        /\ InOps' => AtHunkHeader \/ AtOp
    BY <1>1, CursorMoves
  <2> QED
    BY <1>2, <1>3, <2>1
<1>5. Len(files) = f /\ DOMAIN files = 1..f
  BY <1>1, <1>3, WhereItIs
<1>6. FilesOK'
  <2>1. \A g \in 1..f : Len(files[g].hunks) = HunksBegun(g)'
    <3>1. \A g \in 1..f : g = f \/ g \in 1..f - 1
      BY <1>3
    <3> QED
      BY <1>4, <1>5, <3>1 DEF FilesOK
  <2>2. InOps' => inHunk
    <3>1. AtOp => InOps
      BY <1>3 DEF AtOp, InOps
    <3> QED
      BY <1>4, <3>1 DEF FilesOK
  <2>3. inHunk' => /\ Len(files') > 0 /\ Len(files'[Len(files')].hunks) > 0
                   /\ CountersPast(Last(Last(files).hunks))'
    BY <1>1 DEF FilesOK, CountersPast
  <2> QED
    BY <1>1, <1>4, <1>5, <2>1, <2>2, <2>3 DEF FilesOK
<1>7. LooksPlain => ~AtOp
  <2> SUFFICES ASSUME LooksPlain, AtOp PROVE FALSE
    OBVIOUS
  <2>1. p \in 1..Len(HunksOf(f)) /\ at.i - 1 \in 1..Len(HunksOf(f)[p])
    <3>1. p \in 1..Len(HunksOf(f)) /\ at.i \in 2..Len(HunksOf(f)[p]) + 1
      BY DEF AtOp
    <3>2. Len(HunksOf(f)[p]) \in Nat
      BY <1>3, <3>1, FileTypes
    <3> QED
      BY <3>1, <3>2
  <2>2. HunksOf(f)[p][at.i - 1] \in Plain
    <3>1. DOMAIN HunksOf(f) = 1..Len(HunksOf(f)) /\ DOMAIN HunksOf(f)[p] = 1..Len(HunksOf(f)[p])
      BY <1>3, <2>1, FileTypes
    <3> QED
      BY <1>3, <2>1, <3>1 DEF LooksPlain, ToSet, HunksOf
  <2>3. Line.kind \in Plain
    BY <1>1, <2>2, LineUnderCursor
  <2>4. inHunk
    BY <1>3 DEF AtOp, InOps, FilesOK
  <2> QED
    BY <2>3, <2>4 DEF PassOver, IsSourceLine, Plain
<1>8. HunksOK'
  <2>1. LooksPlain' => LooksPlain
    BY <1>1 DEF LooksPlain
  <2>2. LooksPlain => CountersOK'
    BY <1>4, <1>7 DEF CountersOK
  <2>3. ASSUME LooksPlain, NEW g \in 1..f, NEW h \in DOMAIN files[g].hunks
        PROVE  OpsRead(g, h)' = OpsRead(g, h)
    <3>1. CASE g # f
      BY <1>3, <1>4, <3>1
    <3>2. CASE g = f
      <4>1. h \in 1..HunksBegun(f)
        <5>1. h \in 1..Len(files[g].hunks)
          BY <1>1, <1>5, WhereItIs
        <5> QED
          BY <1>5, <3>2, <5>1 DEF FilesOK
      <4>2. AtEnd /\ HunksBegun(f) = p - 1
        <5>1. ~AtNames
          BY <1>4, <4>1
        <5>2. AtEnd
          BY <1>2, <1>7, <2>3, <5>1
        <5> QED
          BY <1>3, <5>2 DEF AtEnd, HunksBegun
      <4> QED
        BY <1>4, <3>2, <4>1, <4>2
    <3> QED
      BY <3>1, <3>2
  <2> QED
    BY <1>1, <1>5, <2>1, <2>2, <2>3 DEF HunksOK, HunksSay
<1> QED
  BY <1>4, <1>6, <1>8

(* The invariant of the diff parser holds before the first line.           *)
LEMMA DiffInvInit == DiffInit => DiffInv
<1> SUFFICES ASSUME DiffInit PROVE DiffInv
  OBVIOUS
<1>1. patch \in Patches /\ patch \in Seq(FileRec)
  BY DiffAssumption DEF DiffAssumption, DiffInit, FileRec, HunkSeq
<1>2. CursorOK
  <2>1. 1 <= Len(patch) + 1
    BY <1>1
  <2>2. Unread => 0 <= Len(HunksOf(1)) + 1 /\ 1 <= Len(Part(patch[1], 0))
    <3>1. Unread => Len(HunksOf(1)) \in Nat
      BY <1>1 DEF DiffInit, Unread, HunksOf, FileRec, HunkSeq
    <3>2. Len(Part(patch[1], 0)) = 3
      BY DEF Part, FileHeader
    <3> QED
      BY <3>1, <3>2
  <2> QED
    BY <1>1, <2>1, <2>2 DEF CursorOK, DiffInit
<1>3. FilesOK
  <2>1. <<>> \in Seq(FileOut) /\ Len(<<>>) = 0
    OBVIOUS
  <2>2. files = <<>> /\ FilesBegun = 0 /\ ~InOps /\ ~inHunk /\ oldLine = 0 /\ newLine = 0 /\ inHunk \in BOOLEAN
    <3>1. files = <<>> /\ ~inHunk /\ oldLine = 0 /\ newLine = 0 /\ at = [file |-> 1, part |-> 0, i |-> 1]
      BY DEF DiffInit
    <3>2. at.file = 1 /\ at.part = 0 /\ at.i = 1
      BY <3>1
    <3>3. inHunk \in BOOLEAN
      BY DEF DiffInit
    <3> QED
      BY <3>1, <3>2, <3>3 DEF FilesBegun, InOps
  <2> QED
    BY <2>1, <2>2 DEF FilesOK
<1>4. HunksOK
  BY DEF HunksOK, CountersOK, HunksSay, InOps, DiffInit
<1> QED
  BY <1>2, <1>3, <1>4 DEF DiffInv

(* Every line keeps the invariant: a file header, a hunk header, a line of *)
(* a hunk, any other.                                                      *)
LEMMA DiffInvStep == DiffInv /\ [DiffNext]_diffVars => DiffInv'
<1> SUFFICES ASSUME DiffInv, [DiffNext]_diffVars PROVE DiffInv'
  OBVIOUS
<1>1. CASE UNCHANGED diffVars
  BY <1>1 DEF DiffInv, CursorOK, FilesOK, HunksOK, CountersOK, HunksSay, FilesBegun, HunksBegun,
     OpsRead, InOps, HunksOf, Unread, LooksPlain, CountersPast, diffVars
<1> QED
  BY <1>1, FileHeaderStep, HunkHeaderStep, OpStep, PassOverStep DEF DiffNext

(***************************************************************************)
(* Theorems.                                                               *)
(***************************************************************************)
THEOREM DiffInvariant == DiffSpec => []DiffInv
<1> QED
  BY DiffInvInit, DiffInvStep, PTL DEF DiffSpec

(* What the invariant says of the parser's types.                          *)
LEMMA DiffInvGivesTypes == DiffInv => DiffTypeOK
BY DEF DiffInv, FilesOK, DiffTypeOK, CountersPast

(* The parser's line counters are numbers and past all it has noted of a   *)
(* hunk.                                                                   *)
THEOREM DiffTypesHold == DiffSpec => []DiffTypeOK
BY DiffInvGivesTypes, DiffInvariant, PTL

(* A file that was read to its end has the hunks of the patch, each with   *)
(* all its lines, and is found under its new name.                         *)
LEMMA FileWasRead ==
    ASSUME DiffInv, ~Unread, LooksPlain, NEW f \in DOMAIN patch
    PROVE  /\ DiffFileOf(patch[f].new) = files[f]
           /\ DOMAIN files[f].hunks = DOMAIN patch[f].hunks
           /\ \A h \in DOMAIN files[f].hunks :
                 files[f].hunks[h] = Says(patch[f], h, Len(patch[f].hunks[h]))
<1> USE DEF DiffInv
<1>1. /\ DOMAIN patch = 1..Len(patch) /\ Len(patch) \in Nat
      /\ DOMAIN patch[f].hunks = 1..Len(HunksOf(f)) /\ patch \in Patches
  BY FileTypes DEF HunksOf, CursorOK
<1>2. at.file = Len(patch) + 1
  BY <1>1 DEF CursorOK, Unread
<1>3. DOMAIN files = DOMAIN patch
  BY <1>1, <1>2 DEF FilesOK, FilesBegun
<1>4. at.file # f
  BY <1>1, <1>2
<1>5. DOMAIN files[f].hunks = DOMAIN patch[f].hunks
  <2>1. files[f].hunks \in Seq(HunkRec)
    <3>1. files[f] \in FileOut
      BY <1>3 DEF FilesOK
    <3> QED
      BY <3>1 DEF FileOut
  <2>2. Len(files[f].hunks) = Len(HunksOf(f))
    BY <1>3, <1>4 DEF FilesOK, HunksBegun
  <2> QED
    BY <1>1, <2>1, <2>2
<1>6. \A h \in DOMAIN files[f].hunks :
         files[f].hunks[h] = Says(patch[f], h, Len(patch[f].hunks[h]))
  BY <1>3, <1>4 DEF HunksOK, HunksSay, OpsRead, HunksOf
<1>7. DiffFileOf(patch[f].new) = files[f]
  <2> DEFINE claims == {g \in DOMAIN files : patch[f].new \in {files[g].new, files[g].old}}
  <2>1. \A g \in DOMAIN files : files[g].old = patch[g].old /\ files[g].new = patch[g].new
    BY DEF FilesOK
  <2>2. f \in claims
    BY <1>3, <2>1
  <2>3. \A g \in claims : g <= f
    <3> SUFFICES ASSUME NEW g \in claims, f < g PROVE FALSE
      BY <1>1, <1>3
    <3>1. patch[f].new \notin {patch[g].new, patch[g].old}
      BY <1>1, <1>3, DiffAssumption DEF DiffAssumption
    <3> QED
      BY <2>1, <3>1
  <2>4. \A g \in claims : g \in Nat
    BY <1>1, <1>3
  <2> HIDE DEF claims
  <2>5. Max(claims) = f
    BY <2>2, <2>3, <2>4 DEF Max
  <2> QED
    BY <2>5 DEF DiffFileOf, claims
<1> QED
  BY <1>5, <1>6, <1>7

(* What the hunks of a file say together is what the patch did to it.      *)
LEMMA LinesOfSaid ==
    ASSUME NEW file \in FileRec, NEW out, DOMAIN out.hunks = DOMAIN file.hunks,
           \A h \in DOMAIN out.hunks : out.hunks[h] = Says(file, h, Len(file.hunks[h]))
    PROVE  /\ FileChangeLines(out) = LinesOf(file, {"add"}, InNew)
           /\ DeletedLines(out) = LinesOf(file, {"del"}, InOld)
           /\ UnchangedLines(out) =
                 UNION {{<<LineOf(file, h, i, InOld), LineOf(file, h, i, InNew)>> :
                            i \in {k \in DOMAIN file.hunks[h] : file.hunks[h][k] = "keep"}} :
                        h \in DOMAIN file.hunks}
<1>1. \A h \in DOMAIN file.hunks : DOMAIN file.hunks[h] = 1..Len(file.hunks[h])
  BY DEF FileRec, HunkSeq
<1>2. \A h \in DOMAIN file.hunks :
         /\ out.hunks[h].added = {LineOf(file, h, i, InNew) :
               i \in {k \in DOMAIN file.hunks[h] : file.hunks[h][k] = "add"}}
         /\ out.hunks[h].deleted = {LineOf(file, h, i, InOld) :
               i \in {k \in DOMAIN file.hunks[h] : file.hunks[h][k] = "del"}}
         /\ out.hunks[h].same = {<<LineOf(file, h, i, InOld), LineOf(file, h, i, InNew)>> :
               i \in {k \in DOMAIN file.hunks[h] : file.hunks[h][k] = "keep"}}
  <2> SUFFICES ASSUME NEW h \in DOMAIN file.hunks
               PROVE  /\ out.hunks[h].added = {LineOf(file, h, i, InNew) :
                            i \in {k \in DOMAIN file.hunks[h] : file.hunks[h][k] = "add"}}
                      /\ out.hunks[h].deleted = {LineOf(file, h, i, InOld) :
                            i \in {k \in DOMAIN file.hunks[h] : file.hunks[h][k] = "del"}}
                      /\ out.hunks[h].same = {<<LineOf(file, h, i, InOld), LineOf(file, h, i, InNew)>> :
                            i \in {k \in DOMAIN file.hunks[h] : file.hunks[h][k] = "keep"}}
    OBVIOUS
  <2>1. DOMAIN file.hunks[h] = 1..Len(file.hunks[h]) /\ out.hunks[h] = Says(file, h, Len(file.hunks[h]))
    BY <1>1
  <2> QED
    BY <2>1 DEF Says
<1>3. \A h, op : {k \in DOMAIN file.hunks[h] : file.hunks[h][k] \in {op}}
                  = {k \in DOMAIN file.hunks[h] : file.hunks[h][k] = op}
  OBVIOUS
<1>4. FileChangeLines(out) = LinesOf(file, {"add"}, InNew)
  BY <1>2, <1>3 DEF FileChangeLines, LinesOf
<1>5. DeletedLines(out) = LinesOf(file, {"del"}, InOld)
  BY <1>2, <1>3 DEF DeletedLines, LinesOf
<1>6. UnchangedLines(out) =
         UNION {{<<LineOf(file, h, i, InOld), LineOf(file, h, i, InNew)>> :
                    i \in {k \in DOMAIN file.hunks[h] : file.hunks[h][k] = "keep"}} :
                h \in DOMAIN file.hunks}
  BY <1>2 DEF UnchangedLines
<1> QED
  BY <1>4, <1>5, <1>6

(* Of a patch of any size, without lines that look like headers, the       *)
(* parser notes just the lines that were added, deleted and kept, with     *)
(* their numbers.                                                          *)
THEOREM ParsedLinesAreRight == DiffSpec => []LinesAreRight
<1>1. DiffInv => LinesAreRight
  <2> SUFFICES ASSUME DiffInv, Parsed, LooksPlain, NEW i \in DOMAIN patch
               PROVE  LET parsed == DiffFileOf(patch[i].new)
                          kept == UnchangedLines(parsed)
                      IN  /\ FileChangeLines(parsed) = LinesOf(patch[i], {"add"}, InNew)
                          /\ DeletedLines(parsed) = LinesOf(patch[i], {"del"}, InOld)
                          /\ {p[1] : p \in kept} = LinesOf(patch[i], {"keep"}, InOld)
                          /\ {p[2] : p \in kept} = LinesOf(patch[i], {"keep"}, InNew)
                          /\ \A p, q \in kept : p[1] < q[1] <=> p[2] < q[2]
    BY DEF LinesAreRight
  <2> DEFINE file == patch[i]
             out == files[i]
             kept == UnchangedLines(out)
             old(h, k) == LineOf(file, h, k, InOld)
             new(h, k) == LineOf(file, h, k, InNew)
  <2>1. file \in FileRec
    BY FileTypes DEF DiffInv
  <2>2. /\ DiffFileOf(file.new) = out /\ DOMAIN out.hunks = DOMAIN file.hunks
        /\ \A h \in DOMAIN out.hunks : out.hunks[h] = Says(file, h, Len(file.hunks[h]))
    BY FileWasRead DEF Parsed
  <2> HIDE DEF file, out
  <2>3. /\ FileChangeLines(out) = LinesOf(file, {"add"}, InNew)
        /\ DeletedLines(out) = LinesOf(file, {"del"}, InOld)
        /\ kept = UNION {{<<old(h, k), new(h, k)>> :
                    k \in {c \in DOMAIN file.hunks[h] : file.hunks[h][c] = "keep"}} :
                    h \in DOMAIN file.hunks}
    BY <2>1, <2>2, LinesOfSaid
  <2>4. /\ \A p \in kept : \E h \in DOMAIN file.hunks : \E k \in DOMAIN file.hunks[h] :
              file.hunks[h][k] = "keep" /\ p = <<old(h, k), new(h, k)>>
        /\ \A h \in DOMAIN file.hunks : \A k \in DOMAIN file.hunks[h] :
              file.hunks[h][k] = "keep" => <<old(h, k), new(h, k)>> \in kept
    BY <2>3
  <2>5. \A S : LinesOf(file, {"keep"}, S) =
                  UNION {{LineOf(file, h, k, S) :
                    k \in {c \in DOMAIN file.hunks[h] : file.hunks[h][c] = "keep"}} :
                    h \in DOMAIN file.hunks}
    BY DEF LinesOf
  <2> HIDE DEF kept
  <2>51. \A S, l : l \in LinesOf(file, {"keep"}, S) <=>
             \E h \in DOMAIN file.hunks : \E k \in DOMAIN file.hunks[h] :
                 file.hunks[h][k] = "keep" /\ l = LineOf(file, h, k, S)
    BY <2>5
  <2>6. {p[1] : p \in kept} = LinesOf(file, {"keep"}, InOld)
    <3>1. \A l : l \in LinesOf(file, {"keep"}, InOld) => \E p \in kept : l = p[1]
      <4> SUFFICES ASSUME NEW h \in DOMAIN file.hunks, NEW k \in DOMAIN file.hunks[h],
                          file.hunks[h][k] = "keep"
                   PROVE  \E p \in kept : old(h, k) = p[1]
        BY <2>51
      <4> QED
        BY <2>4
    <3>2. \A p \in kept : p[1] \in LinesOf(file, {"keep"}, InOld)
      BY <2>4, <2>51
    <3> QED
      BY <3>1, <3>2
  <2>7. {p[2] : p \in kept} = LinesOf(file, {"keep"}, InNew)
    <3>1. \A l : l \in LinesOf(file, {"keep"}, InNew) => \E p \in kept : l = p[2]
      <4> SUFFICES ASSUME NEW h \in DOMAIN file.hunks, NEW k \in DOMAIN file.hunks[h],
                          file.hunks[h][k] = "keep"
                   PROVE  \E p \in kept : new(h, k) = p[2]
        BY <2>51
      <4> QED
        BY <2>4
    <3>2. \A p \in kept : p[2] \in LinesOf(file, {"keep"}, InNew)
      BY <2>4, <2>51
    <3> QED
      BY <3>1, <3>2
  <2>8. ASSUME NEW p \in kept, NEW q \in kept
        PROVE  p[1] < q[1] <=> p[2] < q[2]
    <3>1. PICK g \in DOMAIN file.hunks : \E j \in DOMAIN file.hunks[g] :
             file.hunks[g][j] = "keep" /\ p = <<old(g, j), new(g, j)>>
      BY <2>4
    <3>11. PICK j \in DOMAIN file.hunks[g] :
             file.hunks[g][j] = "keep" /\ p = <<old(g, j), new(g, j)>>
      BY <3>1
    <3>2. PICK h \in DOMAIN file.hunks : \E k \in DOMAIN file.hunks[h] :
             file.hunks[h][k] = "keep" /\ q = <<old(h, k), new(h, k)>>
      BY <2>4
    <3>21. PICK k \in DOMAIN file.hunks[h] :
             file.hunks[h][k] = "keep" /\ q = <<old(h, k), new(h, k)>>
      BY <3>2
    <3>3. "keep" \in InOld /\ "keep" \in InNew
      BY DEF InOld, InNew
    <3>4. g \in Nat /\ h \in Nat /\ j \in Nat /\ k \in Nat
      BY <2>1 DEF FileRec, HunkSeq
    <3>5. old(g, j) \in Int /\ old(h, k) \in Int /\ new(g, j) \in Int /\ new(h, k) \in Int
      <4>1. \A a \in DOMAIN file.hunks : \A b \in DOMAIN file.hunks[a] : b - 1 \in Nat
        BY <2>1 DEF FileRec, HunkSeq
      <4>2. \A a \in DOMAIN file.hunks : \A b \in DOMAIN file.hunks[a] : \A S :
               FirstLine(file, a, S) \in Nat /\ Before(file.hunks[a], b - 1, S) \in Nat
        BY <2>1, <4>1, FirstLineType, SomeAreFinite
      <4> QED
        BY <4>2 DEF LineOf
    <3>6. CASE g < h \/ (g = h /\ j < k)
      <4>1. old(g, j) < old(h, k) /\ new(g, j) < new(h, k)
        BY <2>1, <3>11, <3>3, <3>6, LinesGrow
      <4> QED
        BY <3>11, <3>21, <3>5, <4>1
    <3>7. CASE h < g \/ (h = g /\ k < j)
      <4>1. old(h, k) < old(g, j) /\ new(h, k) < new(g, j)
        BY <2>1, <3>21, <3>3, <3>7, LinesGrow
      <4> QED
        BY <3>11, <3>21, <3>5, <4>1
    <3>8. CASE g = h /\ j = k
      BY <3>11, <3>21, <3>5, <3>8
    <3>9. g < h \/ (g = h /\ j < k) \/ h < g \/ (h = g /\ k < j) \/ (g = h /\ j = k)
      BY <3>4
    <3> QED
      BY <3>6, <3>7, <3>8, <3>9
  <2> QED
    <3>1. patch[i] = file /\ UnchangedLines(out) = kept
      BY DEF file, kept
    <3>2. DiffFileOf(patch[i].new) = out
      BY <2>2, <3>1
    <3> HIDE DEF file, out, kept
    <3> QED
      BY <2>3, <2>6, <2>7, <2>8, <3>1, <3>2
<1> QED
  BY <1>1, DiffInvariant, PTL

-----------------------------------------------------------------------------
(***************************************************************************)
(* ReportCodec: trees of any size.                                         *)
(***************************************************************************)
(***************************************************************************)
(* Trees in order: what may come after a node.                             *)
(***************************************************************************)
(* The nodes of a tree.                                                    *)
NodeRec == [path : Seq(STRING), dir : BOOLEAN, data : Nat, incr : BOOLEAN]

(* The first n names of two paths are the same.                            *)
Agree(p, q, n) == n <= Len(p) /\ n <= Len(q) /\ \A k \in 1..n : p[k] = q[k]

(* A node comes after its directory or below a sister of it; nothing is    *)
(* below a file and no directory is empty.                                 *)
Follows(n, m) ==
    /\ Len(n.path) >= 1
    /\ Agree(n.path, m.path, Len(n.path) - 1)
    /\ IF m.dir THEN Len(n.path) > Len(m.path) ELSE Len(n.path) <= Len(m.path)

(* A node is a directory, or a file with the increment its columns show.   *)
IsNode(n) == n = Dir(n.path) \/ n = File(n.path, n.data, HasIncr(n.data))

(* A tree as AddFile leaves it: the root first, all of it in order.        *)
Ordered(t) ==
    /\ t \in Seq(NodeRec)
    /\ Len(t) >= 1 /\ t[1] = Dir(<<>>)
    /\ \A i \in 2..Len(t) : Follows(t[i], t[i - 1])
    /\ t[Len(t)].dir => Len(t) = 1
    /\ \A i \in 1..Len(t) : IsNode(t[i])

(***************************************************************************)
(* The invariant of the reader.                                            *)
(***************************************************************************)
(* After k nodes of tree t: on the stack are the directories on the way to *)
(* the last of them, itself included, and nothing that was read since a    *)
(* directory is outside it.                                                *)
StackOK(t, k, ps) ==
    /\ ps \in Seq(1..k)
    /\ Len(ps) = Len(t[k].path) + IF t[k].dir THEN 1 ELSE 0
    /\ \A l \in 1..Len(ps) :
          /\ t[ps[l]].dir
          /\ Len(t[ps[l]].path) = l - 1
          /\ Agree(t[ps[l]].path, t[k].path, l - 1)
          /\ \A j \in ps[l] + 1..k : Len(t[j].path) >= l

(* The lines before the nodes.                                             *)
HeadLen(f) == IF f = "more sections" THEN 6 ELSE 4

(* What the reader has of tree t after k nodes.                            *)
ReadSoFar(t, k, ns, ps) ==
    ns = SubSeq(t, 1, k) /\ IF k = 0 THEN ps = <<>> ELSE StackOK(t, k, ps)

(* How reading may stand.                                                  *)
Results == {"building", "reading", "read", "no meta", "no tree"}

(* What was read of the heading, and of the tree after it.                 *)
TextInv ==
    /\ text = Encoded(built, form)
    /\ pos \in 1..Len(text) + 1
    /\ result = "read" => pos = Len(text) + 1
    /\ pos > 2 => total = FilesOf(built)
    /\ pos <= HeadLen(form) => nodes = <<>> /\ parents = <<>>
    /\ pos > HeadLen(form) => ReadSoFar(built, pos - HeadLen(form) - 1, nodes, parents)

(* All of it, with text and without.                                       *)
CodecInv ==
    /\ form \in AllForms /\ Ordered(built)
    /\ section \in {"none", "skip", "meta", "tree"} /\ result \in Results
    /\ result = "building" => text = <<>>
    /\ text = <<>> => /\ result # "read" /\ pos = 1
                      /\ seen = {} /\ nodes = <<>> /\ parents = <<>>
    /\ text # <<>> => TextInv

(***************************************************************************)
(* Numbers and paths.                                                      *)
(***************************************************************************)
(* A set of natural numbers has a least one.                               *)
LEMMA MinIsLeast ==
    ASSUME NEW S \in SUBSET Nat, S # {}
    PROVE  Min(S) \in S /\ \A x \in S : Min(S) <= x
<1>1. PICK y \in S : TRUE
  OBVIOUS
<1>2. y \in Nat
  BY <1>1
<1> DEFINE B == {b \in 0..y : \A x \in S : b <= x}
<1>3. IsFiniteSet(0..y)
  BY <1>2, FS_Interval
<1>4. B \subseteq 0..y /\ 0 \in B
  BY <1>2
<1>5. IsFiniteSet(B)
  BY <1>3, <1>4, FS_Subset
<1> DEFINE m == Max(B)
<1>6. m \in B /\ \A b \in B : m >= b
  <2>1. B \in SUBSET Int /\ B # {}
    BY <1>2, <1>4
  <2> HIDE DEF B
  <2> QED
    BY <2>1, <1>5, MaxIsLargest
<1>7. m \in S
  <2> SUFFICES ASSUME m \notin S PROVE FALSE
    OBVIOUS
  <2> HIDE DEF m
  <2>1. m \in 0..y /\ \A x \in S : m <= x
    BY <1>6
  <2>2. \A x \in S : x \in Nat /\ m + 1 <= x
    <3> SUFFICES ASSUME NEW x \in S PROVE x \in Nat /\ m + 1 <= x
      OBVIOUS
    <3>1. x # m /\ x \in Nat /\ m <= x
      BY <2>1
    <3> QED
      BY <2>1, <3>1
  <2>3. m + 1 \in 0..y
    BY <2>1, <2>2, <1>1, <1>2
  <2>4. m + 1 \in B
    BY <2>2, <2>3
  <2> QED
    BY <1>6, <2>1, <2>4
<1>8. \A x \in S : m <= x
  BY <1>6
<1> QED
  <2> HIDE DEF m
  <2>1. \E z \in S : \A x \in S : z <= x
    BY <1>7, <1>8
  <2> QED
    BY <2>1 DEF Min

(* Paths that agree with a third one agree.                                *)
LEMMA AgreeTogether ==
    ASSUME NEW p, NEW q, NEW r, NEW n \in Nat, NEW m \in Nat, m <= n,
           Len(p) \in Nat, Len(q) \in Nat, Len(r) \in Nat,
           Agree(p, q, n), Agree(q, r, m)
    PROVE  Agree(p, r, m) /\ Agree(r, p, m)
BY DEF Agree

(* All below a node has the node's path before its own; what comes after   *)
(* that is not below the node.                                             *)
LEMMA SubtreeIsBelow ==
    ASSUME NEW t, t \in Seq(NodeRec), NEW d \in 1..Len(t),
           \A i \in 2..Len(t) : Follows(t[i], t[i - 1])
    PROVE  /\ SubtreeEnd(t, d) \in d..Len(t)
           /\ \A j \in d + 1..SubtreeEnd(t, d) : Len(t[j].path) > Len(t[d].path)
           /\ SubtreeEnd(t, d) < Len(t) =>
                 Len(t[SubtreeEnd(t, d) + 1].path) <= Len(t[d].path)
           /\ \A j \in d..SubtreeEnd(t, d) : Agree(t[j].path, t[d].path, Len(t[d].path))
<1> DEFINE after == {j \in d + 1..Len(t) : Len(t[j].path) <= Len(t[d].path)}
<1> DEFINE e == SubtreeEnd(t, d)
<1>0. Len(t) \in Nat /\ \A j \in 1..Len(t) : t[j] \in NodeRec
  OBVIOUS
<1>1. \A j \in 1..Len(t) : Len(t[j].path) \in Nat
  BY <1>0 DEF NodeRec
<1>2. e = IF after = {} THEN Len(t) ELSE Min(after) - 1
  BY DEF SubtreeEnd
<1>3. after \in SUBSET Nat
  BY <1>0
<1>4. after # {} => Min(after) \in after /\ \A x \in after : Min(after) <= x
  <2> HIDE DEF after
  <2> QED
    BY <1>3, MinIsLeast
<1>5. e \in d..Len(t)
  <2> HIDE DEF e
  <2>1. CASE after = {}
    BY <1>0, <1>2, <2>1
  <2>2. CASE after # {}
    <3>1. Min(after) \in d + 1..Len(t)
      BY <1>4, <2>2
    <3> QED
      BY <1>0, <1>2, <2>2, <3>1
  <2> QED
    BY <2>1, <2>2
<1>6. \A j \in d + 1..e : Len(t[j].path) > Len(t[d].path)
  <2> HIDE DEF e
  <2> SUFFICES ASSUME NEW j \in d + 1..e, ~(Len(t[j].path) > Len(t[d].path)) PROVE FALSE
    OBVIOUS
  <2>1. j \in 1..Len(t) /\ j \in d + 1..Len(t)
    BY <1>0, <1>5
  <2>2. Len(t[j].path) \in Nat /\ Len(t[d].path) \in Nat
    BY <1>1, <2>1
  <2>3. j \in after
    BY <2>1, <2>2
  <2> HIDE DEF after
  <2>4. Min(after) <= j /\ e = Min(after) - 1 /\ Min(after) \in Nat
    BY <1>2, <1>3, <1>4, <2>3
  <2> QED
    BY <1>0, <1>5, <2>1, <2>4
<1>7. e < Len(t) => Len(t[e + 1].path) <= Len(t[d].path)
  <2> HIDE DEF e
  <2> SUFFICES ASSUME e < Len(t) PROVE Len(t[e + 1].path) <= Len(t[d].path)
    OBVIOUS
  <2>1. after # {}
    BY <1>0, <1>2, <1>5
  <2>2. e + 1 \in after
    <3> HIDE DEF after
    <3>1. Min(after) \in Nat /\ e = Min(after) - 1 /\ Min(after) \in after
      BY <1>2, <1>3, <1>4, <2>1
    <3>2. e + 1 = Min(after)
      BY <3>1
    <3> QED
      BY <3>1, <3>2
  <2> QED
    BY <2>2
<1>8. \A j \in d..e : Agree(t[j].path, t[d].path, Len(t[d].path))
  <2> HIDE DEF e, after
  <2> DEFINE bad == {j \in d..e : ~Agree(t[j].path, t[d].path, Len(t[d].path))}
  <2> SUFFICES ASSUME bad # {} PROVE FALSE
    OBVIOUS
  <2>1. bad \in SUBSET Nat
    BY <1>0
  <2> DEFINE j == Min(bad)
  <2>2. j \in bad /\ \A x \in bad : j <= x
    <3> HIDE DEF bad
    <3> QED
      BY <2>1, MinIsLeast
  <2> HIDE DEF j
  <2>3. j \in d..e /\ ~Agree(t[j].path, t[d].path, Len(t[d].path))
    BY <2>2
  <2>4. Agree(t[d].path, t[d].path, Len(t[d].path))
    BY <1>1 DEF Agree
  <2>5. j \in d + 1..e /\ j \in 2..Len(t) /\ j - 1 \in d..e /\ j - 1 \in 1..Len(t) /\ j \in 1..Len(t)
    BY <1>0, <1>5, <2>3, <2>4
  <2>6. j - 1 \notin bad
    BY <2>2, <2>5
  <2>7. Agree(t[j - 1].path, t[d].path, Len(t[d].path))
    BY <2>5, <2>6
  <2>8. Agree(t[j].path, t[j - 1].path, Len(t[j].path) - 1) /\ Len(t[j].path) > Len(t[d].path)
    BY <1>6, <2>5 DEF Follows
  <2>9. Len(t[j].path) \in Nat /\ Len(t[j - 1].path) \in Nat /\ Len(t[d].path) \in Nat
    BY <1>1, <2>5
  <2>10. Len(t[j].path) - 1 \in Nat /\ Len(t[d].path) <= Len(t[j].path) - 1
    BY <2>8, <2>9
  <2> QED
    BY <2>3, <2>7, <2>8, <2>9, <2>10, AgreeTogether
<1> QED
  BY <1>5, <1>6, <1>7, <1>8

(***************************************************************************)
(* Trees that grow.                                                        *)
(***************************************************************************)
(* The positions of u: those of t with those of made after position e.     *)
Joined(u, t, e, made) ==
    /\ u \in Seq(NodeRec) /\ Len(u) = Len(t) + Len(made)
    /\ \A i \in 1..e : u[i] = t[i]
    /\ \A i \in e + 1..e + Len(made) : u[i] = made[i - e]
    /\ \A i \in e + Len(made) + 1..Len(u) : u[i] = t[i - Len(made)]

(* That is what adding nodes after a position makes.                       *)
LEMMA Added ==
    ASSUME NEW t \in Seq(NodeRec), NEW e \in 1..Len(t), NEW made \in Seq(NodeRec)
    PROVE  Joined(SubSeq(t, 1, e) \o made \o SubSeq(t, e + 1, Len(t)), t, e, made)
<1> DEFINE m == Len(made)
<1> DEFINE u == SubSeq(t, 1, e) \o made \o SubSeq(t, e + 1, Len(t))
<1> DEFINE l == SubSeq(t, 1, e)
<1> DEFINE r == SubSeq(t, e + 1, Len(t))
<1>0. Len(t) \in Nat /\ m \in Nat /\ m = Len(made) /\ e \in Nat /\ e <= Len(t)
  OBVIOUS
<1>1. l \in Seq(NodeRec) /\ Len(l) = e /\ \A i \in 1..e : l[i] = t[i]
  <2>1. \A i \in 1..e : t[i] \in NodeRec
    BY <1>0
  <2>2. 1 \in Int /\ e \in Int
    BY <1>0
  <2>3. /\ l \in Seq(NodeRec) /\ Len(l) = IF 1 <= e THEN e - 1 + 1 ELSE 0
        /\ \A i \in 1..e - 1 + 1 : l[i] = t[1 + i - 1]
    BY <2>1, <2>2, SubSeqProperties
  <2> HIDE DEF l
  <2>4. \A i \in 1..e : i \in 1..e - 1 + 1 /\ 1 + i - 1 = i
    BY <1>0
  <2> QED
    BY <1>0, <2>3, <2>4
<1>2. /\ r \in Seq(NodeRec) /\ Len(r) = Len(t) - e
      /\ \A i \in 1..Len(t) - e : r[i] = t[e + i]
  <2>1. \A i \in e + 1..Len(t) : t[i] \in NodeRec
    BY <1>0
  <2>2. e + 1 \in Int /\ Len(t) \in Int
    BY <1>0
  <2>3. /\ r \in Seq(NodeRec) /\ Len(r) = IF e + 1 <= Len(t) THEN Len(t) - (e + 1) + 1 ELSE 0
        /\ \A i \in 1..Len(t) - (e + 1) + 1 : r[i] = t[(e + 1) + i - 1]
    BY <2>1, <2>2, SubSeqProperties
  <2> HIDE DEF r
  <2>4. \A i \in 1..Len(t) - e : i \in 1..Len(t) - (e + 1) + 1 /\ (e + 1) + i - 1 = e + i
    BY <1>0
  <2>5. Len(r) = Len(t) - e
    BY <1>0, <2>3
  <2>6. ASSUME NEW i \in 1..Len(t) - e PROVE r[i] = t[e + i]
    BY <2>3, <2>4
  <2> QED
    BY <2>3, <2>5, <2>6
<1> HIDE DEF l, r
<1> DEFINE lm == l \o made
<1>3. /\ lm \in Seq(NodeRec) /\ Len(lm) = e + m
      /\ \A i \in 1..e + m : lm[i] = IF i <= e THEN l[i] ELSE made[i - e]
  BY <1>1, ConcatProperties
<1>4. u = lm \o r
  BY DEF l, r, lm, u
<1> HIDE DEF lm, u
<1>5. /\ u \in Seq(NodeRec) /\ Len(u) = e + m + (Len(t) - e)
      /\ \A i \in 1..Len(u) :
            u[i] = IF i <= e + m THEN lm[i] ELSE r[i - (e + m)]
  <2>1. /\ lm \o r \in Seq(NodeRec) /\ Len(lm \o r) = Len(lm) + Len(r)
        /\ \A i \in 1..Len(lm) + Len(r) :
              (lm \o r)[i] = IF i <= Len(lm) THEN lm[i] ELSE r[i - Len(lm)]
    BY <1>2, <1>3, ConcatProperties
  <2> QED
    BY <1>2, <1>3, <1>4, <2>1
<1>6. Len(u) = Len(t) + m
  BY <1>0, <1>5
<1>7. ASSUME NEW i \in 1..e PROVE u[i] = t[i]
  <2>1. i \in 1..Len(u) /\ i <= e + m /\ i \in 1..e + m /\ i <= e
    BY <1>0, <1>6
  <2>2. u[i] = lm[i]
    BY <1>5, <2>1
  <2>3. lm[i] = l[i]
    BY <1>3, <2>1
  <2> QED
    BY <1>1, <2>2, <2>3
<1>8. ASSUME NEW i \in e + 1..e + m PROVE u[i] = made[i - e]
  <2>1. i \in 1..Len(u) /\ i <= e + m /\ i \in 1..e + m /\ ~(i <= e)
    BY <1>0, <1>6
  <2>2. u[i] = lm[i]
    BY <1>5, <2>1
  <2> QED
    BY <1>3, <2>1, <2>2
<1>9. ASSUME NEW i \in e + m + 1..Len(u) PROVE u[i] = t[i - m]
  <2>1. /\ i \in 1..Len(u) /\ ~(i <= e + m)
        /\ i - (e + m) \in 1..Len(t) - e /\ e + (i - (e + m)) = i - m
    BY <1>0, <1>6
  <2>2. u[i] = r[i - (e + m)]
    BY <1>5, <2>1
  <2>3. r[i - (e + m)] = t[e + (i - (e + m))]
    BY <1>2, <2>1
  <2> QED
    BY <2>1, <2>2, <2>3
<1> QED
  <2>1. Joined(u, t, e, made)
    BY <1>5, <1>6, <1>7, <1>8, <1>9 DEF Joined, m
  <2> QED
    BY <2>1 DEF u

(* Nodes that lead from a directory down to a file, added after all there  *)
(* is below the directory, leave a tree in order.                          *)
LEMMA AddKeepsOrder ==
    ASSUME NEW t, Ordered(t), NEW d \in 1..Len(t), t[d].dir,
           NEW path \in Seq(STRING), NEW n \in Nat, n = Len(t[d].path), n < Len(path),
           Agree(t[d].path, path, n),
           NEW made \in Seq(NodeRec), Len(made) = Len(path) - n,
           \A k \in 1..Len(made) :
              /\ Len(made[k].path) = n + k /\ Agree(made[k].path, path, n + k)
              /\ made[k].dir <=> k < Len(made)
              /\ IsNode(made[k])
    PROVE  Ordered(AddBelow(t, d, made))
<1> DEFINE e == SubtreeEnd(t, d)
<1> DEFINE u == AddBelow(t, d, made)
<1> DEFINE m == Len(made)
<1>1. /\ t \in Seq(NodeRec) /\ Len(t) \in Nat /\ Len(path) \in Nat /\ m \in Nat /\ m >= 1
      /\ \A i \in 1..Len(t) : t[i] \in NodeRec /\ Len(t[i].path) \in Nat
      /\ t[1] = Dir(<<>>)
      /\ \A i \in 2..Len(t) : Follows(t[i], t[i - 1])
      /\ t[Len(t)].dir => Len(t) = 1
      /\ \A i \in 1..Len(t) : IsNode(t[i])
  <2>1. /\ t \in Seq(NodeRec)
        /\ t[1] = Dir(<<>>)
        /\ \A i \in 2..Len(t) : Follows(t[i], t[i - 1])
        /\ t[Len(t)].dir => Len(t) = 1
        /\ \A i \in 1..Len(t) : IsNode(t[i])
    BY DEF Ordered
  <2>2. Len(t) \in Nat /\ Len(path) \in Nat /\ m \in Nat /\ m >= 1
    BY <2>1
  <2>3. \A i \in 1..Len(t) : t[i] \in NodeRec
    BY <2>1
  <2>4. \A i \in 1..Len(t) : Len(t[i].path) \in Nat
    BY <2>3 DEF NodeRec
  <2> QED
    BY <2>1, <2>2, <2>3, <2>4
<1>2. /\ e \in d..Len(t)
      /\ \A j \in d + 1..e : Len(t[j].path) > n
      /\ e < Len(t) => Len(t[e + 1].path) <= n
      /\ \A j \in d..e : Agree(t[j].path, t[d].path, n)
  BY <1>1, SubtreeIsBelow
<1>3. u = SubSeq(t, 1, e) \o made \o SubSeq(t, e + 1, Len(t))
  BY DEF AddBelow
<1> HIDE DEF u, e
<1>4. e \in 1..Len(t)
  BY <1>1, <1>2
<1>5. /\ u \in Seq(NodeRec) /\ Len(u) = Len(t) + m
      /\ \A i \in 1..e : u[i] = t[i]
      /\ \A i \in e + 1..e + m : u[i] = made[i - e]
      /\ \A i \in e + m + 1..Len(u) : u[i] = t[i - m]
  <2>1. Joined(SubSeq(t, 1, e) \o made \o SubSeq(t, e + 1, Len(t)), t, e, made)
    BY <1>1, <1>4, Added
  <2>2. Joined(u, t, e, made)
    BY <1>3, <2>1
  <2> QED
    BY <2>2 DEF Joined
<1> HIDE DEF m
<1>6. /\ \A k \in 1..m : /\ Len(made[k].path) = n + k /\ Agree(made[k].path, path, n + k)
                         /\ made[k].dir <=> k < m
                         /\ IsNode(made[k])
      /\ m = Len(path) - n
  BY DEF m
<1>7. Agree(t[e].path, path, n) /\ Agree(path, t[e].path, n)
  <2>1. Agree(t[e].path, t[d].path, n)
    BY <1>1, <1>2
  <2> QED
    BY <1>1, <1>4, <2>1, AgreeTogether
<1>8. t[e].dir => e = d
  <2> SUFFICES ASSUME t[e].dir, e # d PROVE FALSE
    OBVIOUS
  <2>1. Len(t[e].path) > n
    BY <1>1, <1>2
  <2>2. CASE e < Len(t)
    <3>1. Follows(t[e + 1], t[e]) /\ e + 1 \in 1..Len(t)
      <4>1. e + 1 \in 2..Len(t) /\ (e + 1) - 1 = e
        BY <1>1, <1>4, <2>2
      <4> QED
        BY <1>1, <4>1
    <3>2. Len(t[e + 1].path) > Len(t[e].path)
      BY <3>1 DEF Follows
    <3> QED
      BY <1>1, <1>2, <1>4, <2>1, <2>2, <3>1, <3>2
  <2>3. CASE e = Len(t)
    <3>1. Len(t) = 1
      BY <1>1, <2>3
    <3> QED
      BY <1>2, <2>3, <3>1
  <2> QED
    BY <1>1, <1>4, <2>2, <2>3
<1>9. t[e].dir \/ Len(t[e].path) > n
  BY <1>1, <1>2
<1>10. ASSUME NEW i \in 2..Len(u) PROVE Follows(u[i], u[i - 1])
  <2>1. CASE i <= e
    <3>1. i \in 1..e /\ i - 1 \in 1..e /\ i \in 2..Len(t)
      BY <1>1, <1>4, <2>1
    <3> QED
      BY <1>1, <1>5, <3>1
  <2>2. CASE i = e + 1
    <3>1. u[i] = made[1]
      <4>1. i \in e + 1..e + m /\ i - e = 1
        BY <1>1, <1>4, <2>2
      <4> QED
        BY <1>5, <4>1
    <3>2. u[i - 1] = t[e]
      <4>1. i - 1 \in 1..e /\ i - 1 = e
        BY <1>4, <2>2
      <4> QED
        BY <1>5, <4>1
    <3>3. Len(made[1].path) = n + 1 /\ Agree(made[1].path, path, n + 1)
      BY <1>1, <1>6
    <3>4. Agree(made[1].path, t[e].path, n)
      BY <1>1, <1>4, <1>7, <3>3, AgreeTogether
    <3>5. t[e].dir => Len(t[e].path) = n
      BY <1>8
    <3>6. Len(made[1].path) - 1 = n /\ Len(made[1].path) >= 1
      BY <3>3
    <3>7. Len(t[e].path) \in Nat
      BY <1>1, <1>4
    <3>8. IF t[e].dir THEN Len(made[1].path) > Len(t[e].path)
                      ELSE Len(made[1].path) <= Len(t[e].path)
      BY <1>9, <3>3, <3>5, <3>7
    <3>9. Follows(made[1], t[e])
      BY <3>4, <3>6, <3>8 DEF Follows
    <3> QED
      BY <3>1, <3>2, <3>9
  <2>3. CASE i > e + 1 /\ i <= e + m
    <3> DEFINE k == i - e
    <3>1. /\ k \in 1..m /\ k - 1 \in 1..m /\ k >= 2 /\ k - 1 < m
          /\ i \in e + 1..e + m /\ i - 1 \in e + 1..e + m /\ (i - 1) - e = k - 1
      BY <1>1, <1>4, <2>3
    <3>2. u[i] = made[k] /\ u[i - 1] = made[k - 1]
      BY <1>5, <3>1
    <3> HIDE DEF k
    <3>3. /\ Len(made[k].path) = n + k /\ Agree(made[k].path, path, n + k)
          /\ Len(made[k - 1].path) = n + (k - 1) /\ Agree(made[k - 1].path, path, n + (k - 1))
          /\ made[k - 1].dir
      BY <1>6, <3>1
    <3>4. Agree(path, made[k - 1].path, n + (k - 1))
      BY <3>3 DEF Agree
    <3>5. n + k \in Nat /\ n + (k - 1) \in Nat /\ n + (k - 1) <= n + k
      <4>1. k \in Nat /\ k - 1 \in Nat
        BY <1>1, <3>1
      <4> QED
        BY <4>1
    <3>6. Agree(made[k].path, made[k - 1].path, n + (k - 1))
      BY <1>1, <3>3, <3>4, <3>5, AgreeTogether
    <3>7. /\ Len(made[k].path) - 1 = n + (k - 1)
          /\ Len(made[k].path) >= 1
          /\ Len(made[k].path) > Len(made[k - 1].path)
      <4> DEFINE x == Len(made[k].path)
      <4> DEFINE y == Len(made[k - 1].path)
      <4>1. x = n + k /\ y = n + (k - 1)
        BY <3>3
      <4> HIDE DEF x, y
      <4>2. k \in Int /\ k >= 2
        BY <3>1
      <4>3. x - 1 = n + (k - 1) /\ x >= 1 /\ x > y
        BY <4>1, <4>2
      <4> QED
        BY <4>3 DEF x, y
    <3>8. Follows(made[k], made[k - 1])
      BY <3>3, <3>6, <3>7 DEF Follows
    <3> QED
      BY <3>2, <3>8
  <2>4. CASE i = e + m + 1
    <3>1. e < Len(t) /\ e + 1 \in 2..Len(t) /\ e + 1 \in 1..Len(t)
      BY <1>1, <1>4, <1>5, <2>4
    <3>2. u[i] = t[e + 1]
      <4>1. i \in e + m + 1..Len(u) /\ i - m = e + 1
        BY <1>1, <1>4, <2>4
      <4> QED
        BY <1>5, <4>1
    <3>3. u[i - 1] = made[m]
      <4>1. i - 1 \in e + 1..e + m /\ (i - 1) - e = m
        BY <1>1, <1>4, <2>4
      <4> QED
        BY <1>5, <4>1
    <3>4. Len(made[m].path) = n + m /\ Agree(made[m].path, path, n + m) /\ ~made[m].dir
      <4>1. m \in 1..m /\ ~(m < m)
        BY <1>1
      <4> QED
        BY <1>6, <4>1
    <3>5. Follows(t[e + 1], t[e])
      <4>1. (e + 1) - 1 = e
        BY <1>4
      <4> QED
        BY <1>1, <3>1, <4>1
    <3>6. Len(t[e + 1].path) \in Nat /\ Len(t[e].path) \in Nat
      BY <1>1, <1>4, <3>1
    <3>7. /\ Len(t[e + 1].path) >= 1 /\ Len(t[e + 1].path) <= n
          /\ Agree(t[e + 1].path, t[e].path, Len(t[e + 1].path) - 1)
      BY <1>2, <3>1, <3>5 DEF Follows
    <3> DEFINE a == Len(t[e + 1].path) - 1
    <3>8. a \in Nat /\ a <= n /\ n <= n + m /\ n + m \in Nat
      BY <1>1, <3>6, <3>7
    <3>9. Agree(path, made[m].path, n + m)
      BY <3>4 DEF Agree
    <3>10. Agree(t[e].path, made[m].path, a)
      <4> HIDE DEF a
      <4>1. \A k \in 1..a : t[e].path[k] = path[k] /\ path[k] = made[m].path[k]
        BY <1>7, <3>8, <3>9 DEF Agree
      <4>2. n <= Len(t[e].path)
        BY <1>7 DEF Agree
      <4>3. a <= Len(t[e].path)
        BY <3>6, <3>8, <4>2
      <4>4. a <= Len(made[m].path)
        BY <3>4, <3>8
      <4> QED
        BY <4>1, <4>3, <4>4 DEF Agree
    <3>11. Agree(t[e + 1].path, made[m].path, a)
      <4> HIDE DEF a
      <4>1. Agree(t[e + 1].path, t[e].path, a)
        BY <3>7 DEF a
      <4>2. Len(made[m].path) \in Nat
        BY <3>4, <3>8
      <4>3. a \in Nat /\ a <= a
        BY <3>8
      <4> QED
        BY <3>6, <3>10, <4>1, <4>2, <4>3, AgreeTogether, Zenon
    <3>12. Len(t[e + 1].path) <= Len(made[m].path)
      <4> DEFINE x == Len(t[e + 1].path)
      <4> DEFINE y == Len(made[m].path)
      <4>1. x \in Nat /\ x <= n /\ y = n + m /\ m \in Nat
        BY <1>1, <3>4, <3>6, <3>7
      <4> HIDE DEF x, y
      <4>2. x <= y
        BY <4>1
      <4> QED
        BY <4>2 DEF x, y
    <3>13. Follows(t[e + 1], made[m])
      BY <3>4, <3>7, <3>11, <3>12 DEF Follows
    <3> QED
      BY <3>2, <3>3, <3>13
  <2>5. CASE i > e + m + 1
    <3>1. /\ i \in e + m + 1..Len(u) /\ i - 1 \in e + m + 1..Len(u)
          /\ (i - 1) - m = (i - m) - 1 /\ i - m \in 2..Len(t)
      BY <1>1, <1>4, <1>5, <2>5
    <3>2. u[i] = t[i - m] /\ u[i - 1] = t[(i - m) - 1]
      BY <1>5, <3>1
    <3> QED
      BY <1>1, <3>1, <3>2
  <2> QED
    BY <1>1, <1>4, <1>5, <2>1, <2>2, <2>3, <2>4, <2>5
<1>11. ~u[Len(u)].dir
  <2>1. CASE e = Len(t)
    <3>1. Len(u) \in e + 1..e + m /\ Len(u) - e = m
      BY <1>1, <1>4, <1>5, <2>1
    <3>2. u[Len(u)] = made[m]
      BY <1>5, <3>1
    <3> QED
      BY <1>1, <1>6, <3>2
  <2>2. CASE e < Len(t)
    <3>1. Len(u) \in e + m + 1..Len(u) /\ Len(u) - m = Len(t) /\ Len(t) # 1
      BY <1>1, <1>4, <1>5, <2>2
    <3>2. u[Len(u)] = t[Len(t)]
      BY <1>5, <3>1
    <3> QED
      BY <1>1, <3>1, <3>2
  <2> QED
    BY <1>1, <1>4, <2>1, <2>2
<1>12. \A i \in 1..Len(u) : IsNode(u[i])
  <2> SUFFICES ASSUME NEW i \in 1..Len(u) PROVE IsNode(u[i])
    OBVIOUS
  <2>1. CASE i \in 1..e
    <3>1. i \in 1..Len(t)
      BY <1>1, <1>4, <2>1
    <3> QED
      BY <1>1, <1>5, <2>1, <3>1
  <2>2. CASE i \in e + 1..e + m
    <3>1. i - e \in 1..m
      BY <1>1, <1>4, <2>2
    <3> QED
      BY <1>5, <1>6, <2>2, <3>1
  <2>3. CASE i \in e + m + 1..Len(u)
    <3>1. i - m \in 1..Len(t)
      BY <1>1, <1>4, <1>5, <2>3
    <3> QED
      BY <1>1, <1>5, <2>3, <3>1
  <2> QED
    BY <1>1, <1>4, <1>5, <2>1, <2>2, <2>3
<1>13. Len(u) >= 1 /\ u[1] = Dir(<<>>)
  <2>1. 1 \in 1..e
    BY <1>1, <1>4
  <2> QED
    BY <1>1, <1>5, <2>1
<1>14. Ordered(u)
  BY <1>5, <1>10, <1>11, <1>12, <1>13 DEF Ordered
<1> QED
  BY <1>14 DEF u

(* The first names of a path.                                              *)
LEMMA FirstNames ==
    ASSUME NEW path \in Seq(STRING), NEW n \in 0..Len(path)
    PROVE  /\ SubSeq(path, 1, n) \in Seq(STRING) /\ Len(SubSeq(path, 1, n)) = n
           /\ Agree(SubSeq(path, 1, n), path, n)
<1> DEFINE s == SubSeq(path, 1, n)
<1>1. Len(path) \in Nat /\ n \in Nat /\ n <= Len(path) /\ \A i \in 1..n : path[i] \in STRING
  OBVIOUS
<1>2. 1 \in Int /\ n \in Int
  BY <1>1
<1>3. /\ s \in Seq(STRING) /\ Len(s) = IF 1 <= n THEN n - 1 + 1 ELSE 0
      /\ \A i \in 1..n - 1 + 1 : s[i] = path[1 + i - 1]
  BY <1>1, <1>2, SubSeqProperties
<1> HIDE DEF s
<1>4. Len(s) = n
  BY <1>1, <1>3
<1>5. \A i \in 1..n : i \in 1..n - 1 + 1 /\ 1 + i - 1 = i
  BY <1>1
<1>6. \A i \in 1..n : s[i] = path[i]
  BY <1>3, <1>5
<1>7. Agree(s, path, n)
  BY <1>1, <1>4, <1>6 DEF Agree
<1> QED
  BY <1>3, <1>4, <1>7 DEF s

(* A node of a tree has the path it is found by.                           *)
LEMMA NodeIsFound ==
    ASSUME NEW t, Len(t) \in Nat, NEW path, FindNode(t, path) # 0,
           DOMAIN t = 1..Len(t)
    PROVE  FindNode(t, path) \in 1..Len(t) /\ t[FindNode(t, path)].path = path
<1> DEFINE found == {j \in DOMAIN t : t[j].path = path}
<1>1. FindNode(t, path) = IF found = {} THEN 0 ELSE Min(found)
  BY DEF FindNode
<1>2. found \in SUBSET Nat
  OBVIOUS
<1>3. found # {} => Min(found) \in found
  <2> HIDE DEF found
  <2> QED
    BY <1>2, MinIsLeast
<1>4. FindNode(t, path) \in found
  <2> HIDE DEF found
  <2> QED
    BY <1>1, <1>3
<1> QED
  BY <1>4

(* AddFile leaves a tree in order.                                         *)
LEMMA BuildKeepsOrder ==
    ASSUME NEW t, Ordered(t), NEW path \in Seq(STRING) \ {<<>>}, NEW data \in Nat
    PROVE  Ordered(AddToTree(t, path, data))
<1> DEFINE levels == {n \in 0..Len(path) - 1 : IsDir(t, SubSeq(path, 1, n))}
<1> DEFINE there == Max(levels)
<1> DEFINE made == [k \in 1..Len(path) - there |->
                       IF there + k < Len(path) THEN Dir(SubSeq(path, 1, there + k))
                       ELSE File(path, data, HasIncr(data))]
<1> DEFINE d == FindNode(t, SubSeq(path, 1, there))
<1>1. AddToTree(t, path, data) = AddBelow(t, d, made)
  BY DEF AddToTree
<1>2. path \in Seq(STRING) /\ Len(path) \in Nat /\ Len(path) >= 1
  OBVIOUS
<1>3. /\ t \in Seq(NodeRec) /\ Len(t) \in Nat /\ Len(t) >= 1 /\ DOMAIN t = 1..Len(t)
      /\ t[1] = Dir(<<>>)
  BY DEF Ordered
<1>4. 0 \in levels
  <2> DEFINE found == {j \in DOMAIN t : t[j].path = SubSeq(path, 1, 0)}
  <2>1. SubSeq(path, 1, 0) = <<>>
    <3>1. 1 \in Int /\ 0 \in Int /\ 0 < 1
      OBVIOUS
    <3> QED
      BY <3>1, SubSeqEmpty
  <2>2. t[1].path = <<>> /\ t[1].dir
    BY <1>3 DEF Dir
  <2>3. 1 \in found /\ found \in SUBSET Nat
    <3>1. 1 \in DOMAIN t
      <4>1. 1 \in 1..Len(t)
        BY <1>3
      <4> QED
        BY <1>3, <4>1
    <3>4. t[1].path = SubSeq(path, 1, 0)
      BY <2>1, <2>2
    <3>2. 1 \in found
      BY <3>1, <3>4
    <3>3. DOMAIN t \in SUBSET Nat
      BY <1>3
    <3> QED
      BY <3>2, <3>3
  <2>4. found \subseteq 1..Len(t)
    BY <1>3
  <2>5. FindNode(t, SubSeq(path, 1, 0)) = Min(found)
    BY <2>3 DEF FindNode
  <2>6. Min(found) \in found /\ Min(found) <= 1
    <3> HIDE DEF found
    <3> QED
      BY <2>3, MinIsLeast
  <2>7. Min(found) = 1
    <3> DEFINE x == Min(found)
    <3>1. x \in 1..Len(t) /\ x <= 1
      <4> HIDE DEF found
      <4> QED
        BY <2>4, <2>6
    <3> HIDE DEF x
    <3>2. x = 1
      BY <1>3, <3>1
    <3> QED
      BY <3>2 DEF x
  <2>8. IsDir(t, SubSeq(path, 1, 0))
    BY <2>2, <2>5, <2>7 DEF IsDir
  <2> QED
    BY <1>2, <2>8
<1>5. there \in levels
  <2>1. IsFiniteSet(0..Len(path) - 1)
    BY <1>2, FS_Interval
  <2>2. levels \subseteq 0..Len(path) - 1
    OBVIOUS
  <2>3. IsFiniteSet(levels) /\ levels \in SUBSET Int /\ levels # {}
    BY <1>2, <1>4, <2>1, <2>2, FS_Subset
  <2> HIDE DEF levels
  <2> QED
    BY <2>3, MaxIsLargest
<1> HIDE DEF there
<1>6. there \in 0..Len(path) - 1 /\ IsDir(t, SubSeq(path, 1, there))
  BY <1>5
<1>7. d \in 1..Len(t) /\ t[d].path = SubSeq(path, 1, there) /\ t[d].dir
  BY <1>3, <1>6, NodeIsFound DEF IsDir
<1>8. Len(t[d].path) = there /\ Agree(t[d].path, path, there) /\ there \in Nat /\ there < Len(path)
  <2>1. there \in 0..Len(path) /\ there \in Nat /\ there < Len(path)
    BY <1>2, <1>6
  <2> QED
    BY <1>2, <1>7, <2>1, FirstNames
<1>9. HasIncr(data) \in BOOLEAN
  BY DEF HasIncr
<1>10. Len(path) - there \in Nat /\ Len(path) - there >= 1
  BY <1>2, <1>8
<1>11. ASSUME NEW k \in 1..Len(path) - there
       PROVE  /\ made[k] \in NodeRec
              /\ Len(made[k].path) = there + k /\ Agree(made[k].path, path, there + k)
              /\ made[k].dir <=> k < Len(path) - there
              /\ IsNode(made[k])
  <2>1. there + k \in 0..Len(path) /\ (there + k < Len(path) <=> k < Len(path) - there)
    BY <1>2, <1>8
  <2>2. CASE there + k < Len(path)
    <3> DEFINE p == SubSeq(path, 1, there + k)
    <3>1. p \in Seq(STRING) /\ Len(p) = there + k /\ Agree(p, path, there + k)
      BY <1>2, <2>1, FirstNames
    <3>2. made[k] = Dir(p)
      BY <2>2
    <3> HIDE DEF made, p
    <3>3. /\ made[k].path = p /\ made[k].dir = TRUE /\ made[k] \in NodeRec
          /\ made[k] = Dir(made[k].path)
      BY <3>1, <3>2 DEF Dir, NodeRec
    <3> QED
      BY <2>1, <2>2, <3>1, <3>3 DEF IsNode
  <2>3. CASE ~(there + k < Len(path))
    <3>1. made[k] = File(path, data, HasIncr(data))
      BY <2>3
    <3> HIDE DEF made
    <3>2. /\ made[k].path = path /\ made[k].dir = FALSE /\ made[k].data = data
          /\ made[k] \in NodeRec
      BY <1>2, <1>9, <3>1 DEF File, NodeRec
    <3>3. there + k = Len(path)
      BY <1>2, <2>1, <2>3
    <3>4. Agree(path, path, there + k)
      BY <1>2, <3>3 DEF Agree
    <3>5. IsNode(made[k])
      BY <3>1, <3>2 DEF IsNode
    <3> QED
      BY <2>1, <2>3, <3>2, <3>3, <3>4, <3>5
  <2> QED
    BY <2>2, <2>3
<1>12. made \in Seq(NodeRec) /\ Len(made) = Len(path) - there
  <2> DEFINE m == Len(path) - there
  <2>1. m \in Nat
    BY <1>10
  <2>2. made = [k \in 1..m |-> made[k]]
    OBVIOUS
  <2>3. \A k \in 1..m : made[k] \in NodeRec
    BY <1>11
  <2> HIDE DEF made, m
  <2>4. made \in Seq(NodeRec) /\ Len(made) = m
    BY <2>1, <2>2, <2>3
  <2> QED
    BY <2>4 DEF m
<1> HIDE DEF made, d
<1>13. \A k \in 1..Len(made) :
              /\ Len(made[k].path) = there + k /\ Agree(made[k].path, path, there + k)
              /\ made[k].dir <=> k < Len(made)
              /\ IsNode(made[k])
  BY <1>11, <1>12
<1>14. Ordered(AddBelow(t, d, made))
  BY <1>2, <1>7, <1>8, <1>12, <1>13, AddKeepsOrder
<1> QED
  BY <1>1, <1>14

(* The files of a tree are counted.                                        *)
LEMMA FilesAreCounted ==
    ASSUME NEW t, t \in Seq(NodeRec)
    PROVE  FilesOf(t) \in Nat
<1>1. DOMAIN t = 1..Len(t) /\ Len(t) \in Nat
  OBVIOUS
<1>2. IsFiniteSet(1..Len(t))
  BY <1>1, FS_Interval
<1>3. IsFiniteSet({i \in DOMAIN t : ~t[i].dir})
  BY <1>1, <1>2, FS_Subset
<1> QED
  BY <1>3, FS_CardinalityType DEF FilesOf

(***************************************************************************)
(* The reader's stack.                                                     *)
(***************************************************************************)
(* The first nodes of a tree.                                              *)
LEMMA FirstNodes ==
    ASSUME NEW t \in Seq(NodeRec), NEW k \in 0..Len(t)
    PROVE  /\ SubSeq(t, 1, k) \in Seq(NodeRec) /\ Len(SubSeq(t, 1, k)) = k
           /\ \A i \in 1..k : SubSeq(t, 1, k)[i] = t[i]
<1> DEFINE s == SubSeq(t, 1, k)
<1>1. Len(t) \in Nat /\ k \in Nat /\ k <= Len(t) /\ \A i \in 1..k : t[i] \in NodeRec
  OBVIOUS
<1>2. 1 \in Int /\ k \in Int
  BY <1>1
<1>3. /\ s \in Seq(NodeRec) /\ Len(s) = IF 1 <= k THEN k - 1 + 1 ELSE 0
      /\ \A i \in 1..k - 1 + 1 : s[i] = t[1 + i - 1]
  BY <1>1, <1>2, SubSeqProperties
<1> HIDE DEF s
<1>4. Len(s) = k
  BY <1>1, <1>3
<1>5. \A i \in 1..k : i \in 1..k - 1 + 1 /\ 1 + i - 1 = i
  BY <1>1
<1>6. \A i \in 1..k : s[i] = t[i]
  BY <1>3, <1>5
<1> QED
  BY <1>3, <1>4, <1>6 DEF s

(* The part of the stack that is kept for a node at a level.               *)
Kept(ps, level) == IF level < Len(ps) THEN SubSeq(ps, 1, level) ELSE ps

(* Cut back to the level of the next node, the stack ends with the         *)
(* directory that node is in, which has all the nodes since below it.      *)
LEMMA StackLeadsTo ==
    ASSUME NEW t, Ordered(t), NEW k \in 1..Len(t) - 1, NEW ps, StackOK(t, k, ps),
           NEW n, n = Len(t[k + 1].path), NEW kept, kept = Kept(ps, n)
    PROVE  /\ n \in Nat /\ n >= 1 /\ kept \in Seq(1..k) /\ Len(kept) = n
           /\ \A l \in 1..n : kept[l] = ps[l]
           /\ \A l \in 1..n : Agree(t[ps[l]].path, t[k + 1].path, l - 1)
           /\ n <= Len(ps)
<1>1. /\ t \in Seq(NodeRec) /\ Len(t) \in Nat /\ k \in Nat /\ k + 1 \in 2..Len(t)
      /\ k \in 1..Len(t) /\ k + 1 \in 1..Len(t) /\ (k + 1) - 1 = k
  BY DEF Ordered
<1>2. \A i \in 1..Len(t) : t[i] \in NodeRec
  BY <1>1
<1>3. \A i \in 1..Len(t) : Len(t[i].path) \in Nat
  BY <1>2 DEF NodeRec
<1>4. Follows(t[k + 1], t[k])
  <2>1. \A i \in 2..Len(t) : Follows(t[i], t[i - 1])
    BY DEF Ordered
  <2> QED
    BY <1>1, <2>1
<1>5. n \in Nat /\ n >= 1
  BY <1>1, <1>3, <1>4 DEF Follows
<1>6. /\ ps \in Seq(1..k) /\ Len(ps) \in Nat
      /\ Len(ps) = Len(t[k].path) + IF t[k].dir THEN 1 ELSE 0
      /\ \A l \in 1..Len(ps) : ps[l] \in 1..k /\ Agree(t[ps[l]].path, t[k].path, l - 1)
  <2>1. /\ ps \in Seq(1..k)
        /\ Len(ps) = Len(t[k].path) + IF t[k].dir THEN 1 ELSE 0
        /\ \A l \in 1..Len(ps) : Agree(t[ps[l]].path, t[k].path, l - 1)
    BY Zenon DEF StackOK
  <2>2. ps \in Seq(1..k)
    BY <2>1, Zenon
  <2>3. Len(ps) \in Nat /\ \A l \in 1..Len(ps) : ps[l] \in 1..k
    BY <2>2
  <2> QED
    BY <2>1, <2>3, Zenon
<1>11. Len(ps) \in Nat
  BY <1>6
<1>7. Agree(t[k + 1].path, t[k].path, n - 1)
  BY <1>4 DEF Follows
<1>8. n <= Len(ps)
  <2>1. Len(t[k].path) \in Nat
    BY <1>1, <1>3
  <2>2. CASE t[k].dir
    <3>1. n - 1 <= Len(t[k].path)
      BY <1>7 DEF Agree
    <3>2. Len(ps) = Len(t[k].path) + 1
      BY <1>6, <2>2
    <3> QED
      BY <1>5, <2>1, <3>1, <3>2
  <2>3. CASE ~t[k].dir
    <3>1. n <= Len(t[k].path)
      BY <1>4, <2>3 DEF Follows
    <3>2. Len(ps) = Len(t[k].path)
      BY <1>6, <2>1, <2>3
    <3> QED
      BY <3>1, <3>2
  <2> QED
    BY <2>2, <2>3
<1>9. kept \in Seq(1..k) /\ Len(kept) = n /\ \A l \in 1..n : kept[l] = ps[l]
  <2>1. CASE n < Len(ps)
    <3> DEFINE s == SubSeq(ps, 1, n)
    <3>1. \A l \in 1..n : ps[l] \in 1..k
      <4>1. \A l \in 1..n : l \in 1..Len(ps)
        BY <1>5, <1>11, <2>1
      <4> QED
        BY <1>6, <4>1
    <3>2. 1 \in Int /\ n \in Int
      BY <1>5
    <3>3. /\ s \in Seq(1..k) /\ Len(s) = IF 1 <= n THEN n - 1 + 1 ELSE 0
          /\ \A l \in 1..n - 1 + 1 : s[l] = ps[1 + l - 1]
      BY <3>1, <3>2, SubSeqProperties
    <3>4. kept = s
      BY <2>1 DEF Kept
    <3> HIDE DEF s
    <3>5. \A l \in 1..n : l \in 1..n - 1 + 1 /\ 1 + l - 1 = l
      BY <1>5
    <3>6. Len(s) = n
      BY <1>5, <3>3
    <3> QED
      BY <3>3, <3>4, <3>5, <3>6
  <2>2. CASE ~(n < Len(ps))
    <3>1. n = Len(ps)
      BY <1>5, <1>11, <1>8, <2>2
    <3>2. kept = ps
      BY <2>2 DEF Kept
    <3> QED
      BY <1>6, <3>1, <3>2
  <2> QED
    BY <2>1, <2>2
<1>10. ASSUME NEW l \in 1..n PROVE Agree(t[ps[l]].path, t[k + 1].path, l - 1)
  <2>1. l \in 1..Len(ps) /\ l - 1 \in Nat /\ l - 1 <= n - 1 /\ n - 1 \in Nat
    BY <1>5, <1>11, <1>8
  <2>2. Agree(t[ps[l]].path, t[k].path, l - 1)
    BY <1>6, <2>1
  <2>3. ps[l] \in 1..Len(t)
    <3>1. ps[l] \in 1..k
      BY <1>6, <2>1
    <3> QED
      BY <1>1, <3>1
  <2>4. Agree(t[k].path, t[k + 1].path, l - 1)
    <3> DEFINE p == t[k].path
    <3> DEFINE q == t[k + 1].path
    <3>1. Agree(q, p, n - 1)
      BY <1>7
    <3> HIDE DEF p, q
    <3>2. l - 1 <= Len(p) /\ l - 1 <= Len(q)
      <4>1. Len(p) \in Nat /\ Len(q) \in Nat
        BY <1>1, <1>3 DEF p, q
      <4>2. n - 1 <= Len(p) /\ n - 1 <= Len(q)
        BY <3>1 DEF Agree
      <4> QED
        BY <2>1, <4>1, <4>2
    <3>3. \A j \in 1..l - 1 : p[j] = q[j]
      <4>1. \A j \in 1..n - 1 : q[j] = p[j]
        BY <3>1 DEF Agree
      <4> QED
        BY <2>1, <4>1
    <3>4. Agree(p, q, l - 1)
      BY <3>2, <3>3 DEF Agree
    <3> QED
      BY <3>4 DEF p, q
  <2>5. /\ Len(t[ps[l]].path) \in Nat /\ Len(t[k].path) \in Nat
        /\ Len(t[k + 1].path) \in Nat /\ l - 1 <= l - 1
    BY <1>1, <1>3, <2>1, <2>3
  <2> QED
    BY <2>1, <2>2, <2>4, <2>5, AgreeTogether
<1> QED
  BY <1>5, <1>8, <1>9, <1>10

(* The last directory of the kept stack: its path is all but the last name *)
(* of the node's, and the nodes read so far end below it.                  *)
LEMMA DirectoryOfNode ==
    ASSUME NEW t, Ordered(t), NEW k \in 1..Len(t) - 1, NEW ps, StackOK(t, k, ps),
           NEW kept, kept = Kept(ps, Len(t[k + 1].path))
    PROVE  /\ Last(kept) \in 1..k
           /\ Append(t[Last(kept)].path, Last(t[k + 1].path)) = t[k + 1].path
           /\ SubtreeEnd(SubSeq(t, 1, k), Last(kept)) = k
<1> DEFINE n == Len(t[k + 1].path)
<1> DEFINE d == ps[n]
<1>1. /\ n \in Nat /\ n >= 1 /\ kept \in Seq(1..k) /\ Len(kept) = n
      /\ \A l \in 1..n : kept[l] = ps[l]
      /\ \A l \in 1..n : Agree(t[ps[l]].path, t[k + 1].path, l - 1)
      /\ n <= Len(ps)
  <2>1. n = Len(t[k + 1].path) /\ kept = Kept(ps, n)
    OBVIOUS
  <2> HIDE DEF n
  <2> QED
    BY <2>1, StackLeadsTo
<1>2. /\ t \in Seq(NodeRec) /\ Len(t) \in Nat /\ k \in Nat /\ k + 1 \in 1..Len(t) /\ k \in 0..Len(t)
      /\ k < Len(t)
  BY DEF Ordered
<1>3. \A i \in 1..Len(t) : t[i] \in NodeRec
  BY <1>2
<1>4. t[k + 1].path \in Seq(STRING) /\ \A i \in 1..Len(t) : t[i].path \in Seq(STRING)
  BY <1>2, <1>3 DEF NodeRec
<1>5. /\ ps \in Seq(1..k) /\ Len(ps) \in Nat
      /\ \A l \in 1..Len(ps) : /\ Len(t[ps[l]].path) = l - 1
                               /\ \A j \in ps[l] + 1..k : Len(t[j].path) >= l
  <2>1. /\ ps \in Seq(1..k)
        /\ \A l \in 1..Len(ps) : /\ Len(t[ps[l]].path) = l - 1
                                 /\ \A j \in ps[l] + 1..k : Len(t[j].path) >= l
    BY Zenon DEF StackOK
  <2>2. Len(ps) \in Nat
    BY <2>1
  <2> QED
    BY <2>1, <2>2
<1>6. n \in 1..n /\ n \in 1..Len(ps)
  BY <1>1, <1>5
<1>7. Last(kept) = d
  <2> HIDE DEF n
  <2>1. Last(kept) = kept[n]
    BY <1>1 DEF Last
  <2> QED
    BY <1>1, <1>6, <2>1
<1>8. d \in 1..k /\ d \in 1..Len(t)
  <2>1. d \in 1..k
    BY <1>5, <1>6
  <2> QED
    BY <1>2, <2>1
<1>9. /\ Len(t[d].path) = n - 1 /\ Agree(t[d].path, t[k + 1].path, n - 1)
      /\ \A j \in d + 1..k : Len(t[j].path) >= n
  BY <1>1, <1>5, <1>6
<1> HIDE DEF d
<1>10. Append(t[d].path, Last(t[k + 1].path)) = t[k + 1].path
  <2> DEFINE p == t[d].path
  <2> DEFINE q == t[k + 1].path
  <2>1. /\ p \in Seq(STRING) /\ q \in Seq(STRING) /\ Len(q) = n /\ Len(p) = n - 1
        /\ \A j \in 1..n - 1 : p[j] = q[j]
    BY <1>4, <1>8, <1>9 DEF Agree
  <2>2. n \in Nat /\ n >= 1
    BY <1>1
  <2> HIDE DEF p, q, n
  <2>3. Last(q) = q[n]
    BY <2>1 DEF Last
  <2>4. q[n] \in STRING
    BY <2>1, <2>2
  <2> DEFINE r == Append(p, q[n])
  <2>5. r \in Seq(STRING) /\ Len(r) = n /\ \A j \in 1..n : r[j] = IF j <= n - 1 THEN p[j] ELSE q[n]
    <3>1. /\ r \in Seq(STRING) /\ Len(r) = Len(p) + 1
          /\ \A j \in 1..Len(p) : r[j] = p[j]
          /\ r[Len(p) + 1] = q[n]
      BY <2>1, <2>4, AppendProperties
    <3>2. Len(p) + 1 = n /\ Len(p) = n - 1
      BY <2>1, <2>2
    <3> HIDE DEF r
    <3>3. ASSUME NEW j \in 1..n PROVE r[j] = IF j <= n - 1 THEN p[j] ELSE q[n]
      <4>1. CASE j <= n - 1
        <5>1. j \in 1..Len(p)
          BY <2>2, <3>2, <4>1
        <5> QED
          BY <3>1, <4>1, <5>1
      <4>2. CASE ~(j <= n - 1)
        <5>1. j = Len(p) + 1
          BY <2>2, <3>2, <4>2
        <5> QED
          BY <3>1, <4>2, <5>1
      <4> QED
        BY <4>1, <4>2
    <3> QED
      BY <3>1, <3>2, <3>3
  <2> HIDE DEF r
  <2>6. ASSUME NEW j \in 1..Len(r) PROVE r[j] = q[j]
    <3>1. j \in 1..n
      BY <2>5
    <3>2. CASE j <= n - 1
      <4>1. j \in 1..n - 1
        BY <2>2, <3>1, <3>2
      <4> QED
        BY <2>1, <2>5, <3>1, <3>2, <4>1
    <3>3. CASE ~(j <= n - 1)
      <4>1. j = n
        BY <2>2, <3>1, <3>3
      <4> QED
        BY <2>5, <3>1, <3>3, <4>1
    <3> QED
      BY <3>2, <3>3
  <2>7. r = q
    BY <2>1, <2>5, <2>6, SeqEqual
  <2> QED
    BY <2>3, <2>7 DEF r, p, q
<1>11. SubtreeEnd(SubSeq(t, 1, k), d) = k
  <2> DEFINE s == SubSeq(t, 1, k)
  <2>1. Len(s) = k /\ \A i \in 1..k : s[i] = t[i]
    BY <1>2, FirstNodes
  <2> HIDE DEF s
  <2> DEFINE after == {j \in d + 1..Len(s) : Len(s[j].path) <= Len(s[d].path)}
  <2>2. after = {}
    <3> SUFFICES ASSUME NEW j \in after PROVE FALSE
      OBVIOUS
    <3>1. j \in d + 1..k /\ Len(s[j].path) <= Len(s[d].path)
      BY <2>1
    <3>2. j \in 1..k
      BY <1>2, <1>8, <3>1
    <3>3. s[j] = t[j] /\ s[d] = t[d]
      BY <1>8, <2>1, <3>2
    <3>4. Len(t[j].path) >= n /\ Len(t[d].path) = n - 1
      BY <1>9, <3>1
    <3>5. Len(t[j].path) <= n - 1
      BY <3>1, <3>3, <3>4
    <3>6. Len(t[j].path) \in Nat
      <4>1. j \in 1..Len(t)
        BY <1>2, <3>2
      <4>2. t[j].path \in Seq(STRING)
        BY <1>4, <4>1
      <4> QED
        BY <4>2
    <3> DEFINE x == Len(t[j].path)
    <3>7. x \in Nat /\ x >= n /\ x <= n - 1 /\ n \in Nat
      BY <1>1, <3>4, <3>5, <3>6
    <3> HIDE DEF x, n
    <3> QED
      BY <3>7
  <2>3. SubtreeEnd(s, d) = Len(s)
    BY <2>2 DEF SubtreeEnd
  <2> QED
    BY <2>1, <2>3 DEF s
<1> QED
  BY <1>7, <1>8, <1>10, <1>11

(* The stack after the next node: the kept part, and the node itself if it *)
(* is a directory.                                                         *)
LEMMA StackAfterNode ==
    ASSUME NEW t, Ordered(t), NEW k \in 1..Len(t) - 1, NEW ps, StackOK(t, k, ps),
           NEW kept, kept = Kept(ps, Len(t[k + 1].path))
    PROVE  StackOK(t, k + 1, IF t[k + 1].dir THEN Append(kept, k + 1) ELSE kept)
<1> DEFINE n == Len(t[k + 1].path)
<1> DEFINE new == IF t[k + 1].dir THEN Append(kept, k + 1) ELSE kept
<1>1. /\ n \in Nat /\ n >= 1 /\ kept \in Seq(1..k) /\ Len(kept) = n
      /\ \A l \in 1..n : kept[l] = ps[l]
      /\ \A l \in 1..n : Agree(t[ps[l]].path, t[k + 1].path, l - 1)
      /\ n <= Len(ps)
  <2>1. n = Len(t[k + 1].path) /\ kept = Kept(ps, n)
    OBVIOUS
  <2> HIDE DEF n
  <2> QED
    BY <2>1, StackLeadsTo
<1>2. /\ Len(t) \in Nat /\ k \in Nat /\ k + 1 \in 1..Len(t) /\ t[k + 1] \in NodeRec
  <2>1. t \in Seq(NodeRec)
    BY DEF Ordered
  <2> QED
    BY <2>1
<1>3. t[k + 1].dir \in BOOLEAN
  BY <1>2 DEF NodeRec
<1>4. kept \in Seq(1..k + 1) /\ k + 1 \in 1..k + 1
  <2>1. 1..k \subseteq 1..k + 1
    BY <1>2
  <2> QED
    BY <1>1, <1>2, <2>1
<1>5. /\ new \in Seq(1..k + 1) /\ Len(new) = n + IF t[k + 1].dir THEN 1 ELSE 0
      /\ \A l \in 1..n : new[l] = ps[l]
      /\ t[k + 1].dir => new[n + 1] = k + 1
  <2> HIDE DEF n
  <2>1. CASE t[k + 1].dir
    <3> DEFINE r == Append(kept, k + 1)
    <3>1. /\ r \in Seq(1..k + 1) /\ Len(r) = Len(kept) + 1
          /\ \A l \in 1..Len(kept) : r[l] = kept[l]
          /\ r[Len(kept) + 1] = k + 1
      BY <1>4, AppendProperties
    <3>2. new = r
      BY <2>1
    <3> HIDE DEF r, new
    <3> QED
      BY <1>1, <2>1, <3>1, <3>2
  <2>2. CASE ~t[k + 1].dir
    <3>1. new = kept
      BY <2>2
    <3> HIDE DEF new
    <3> QED
      BY <1>1, <1>4, <2>2, <3>1
  <2> QED
    BY <2>1, <2>2
<1>6. /\ ps \in Seq(1..k) /\ Len(ps) \in Nat
      /\ \A l \in 1..Len(ps) : /\ t[ps[l]].dir
                               /\ Len(t[ps[l]].path) = l - 1
                               /\ \A j \in ps[l] + 1..k : Len(t[j].path) >= l
  <2>1. /\ ps \in Seq(1..k)
        /\ \A l \in 1..Len(ps) : /\ t[ps[l]].dir
                                 /\ Len(t[ps[l]].path) = l - 1
                                 /\ \A j \in ps[l] + 1..k : Len(t[j].path) >= l
    BY Zenon DEF StackOK
  <2>2. Len(ps) \in Nat
    BY <2>1
  <2> QED
    BY <2>1, <2>2
<1> HIDE DEF new
<1>7. ASSUME NEW l \in 1..Len(new)
      PROVE  /\ t[new[l]].dir
             /\ Len(t[new[l]].path) = l - 1
             /\ Agree(t[new[l]].path, t[k + 1].path, l - 1)
             /\ \A j \in new[l] + 1..k + 1 : Len(t[j].path) >= l
  <2>1. CASE l \in 1..n
    <3>1. new[l] = ps[l] /\ l \in 1..Len(ps)
      <4>1. new[l] = ps[l]
        BY <1>5, <2>1
      <4>2. n \in Nat /\ n <= Len(ps) /\ Len(ps) \in Nat
        BY <1>1, <1>6
      <4> HIDE DEF n
      <4>3. l \in 1..Len(ps)
        BY <2>1, <4>2
      <4> QED
        BY <4>1, <4>3
    <3>2. /\ t[ps[l]].dir /\ Len(t[ps[l]].path) = l - 1
          /\ \A j \in ps[l] + 1..k : Len(t[j].path) >= l
      BY <1>6, <3>1
    <3>3. Agree(t[ps[l]].path, t[k + 1].path, l - 1)
      BY <1>1, <2>1
    <3>4. ASSUME NEW j \in ps[l] + 1..k + 1 PROVE Len(t[j].path) >= l
      <4>1. ps[l] \in 1..k
        BY <1>6, <3>1
      <4>2. j \in ps[l] + 1..k \/ j = k + 1
        BY <1>2, <4>1
      <4>3. n >= l
        BY <1>1, <2>1
      <4> QED
        BY <3>2, <4>2, <4>3
    <3> QED
      BY <3>1, <3>2, <3>3, <3>4
  <2>2. CASE l \notin 1..n
    <3>1. t[k + 1].dir /\ l = n + 1
      <4> HIDE DEF n
      <4>1. CASE t[k + 1].dir
        BY <1>1, <1>5, <2>2, <4>1
      <4>2. CASE ~t[k + 1].dir
        BY <1>1, <1>5, <2>2, <4>2
      <4> QED
        BY <4>1, <4>2
    <3>2. new[l] = k + 1
      BY <1>5, <3>1
    <3>3. Len(t[k + 1].path) = l - 1
      <4>1. n = l - 1
        <5> HIDE DEF n
        <5> QED
          BY <1>1, <3>1
      <4> QED
        BY <4>1
    <3>4. Agree(t[k + 1].path, t[k + 1].path, l - 1)
      <4>1. Len(t[k + 1].path) <= Len(t[k + 1].path)
        BY <1>1
      <4> QED
        BY <3>3, <4>1 DEF Agree
    <3>5. \A j \in k + 1 + 1..k + 1 : FALSE
      BY <1>2
    <3> QED
      BY <3>1, <3>2, <3>3, <3>4, <3>5
  <2> QED
    BY <2>1, <2>2
<1> QED
  BY <1>5, <1>7 DEF StackOK, new

(***************************************************************************)
(* The lines of a tree.                                                    *)
(***************************************************************************)
(* The heading says how many files there are and has no nodes.             *)
LEMMA HeadingLines ==
    ASSUME NEW t, NEW f \in AllForms
    PROVE  /\ HeadLen(f) \in {4, 6} /\ Len(Heading(t, f)) = HeadLen(f)
           /\ Heading(t, f)[1].kind = "section"
           /\ Heading(t, f)[2] = MetaLine("total_files", FilesOf(t))
           /\ Heading(t, f)[3] = MetaLine("columns", 0)
           /\ \A i \in 4..HeadLen(f) : Heading(t, f)[i].kind \in {"section", "other"}
<1>1. CASE f = "more sections"
  <2>1. HeadLen(f) = 6
    BY <1>1 DEF HeadLen
  <2> DEFINE h == Heading(t, f)
  <2>2. h = <<SectionLine("meta"), MetaLine("total_files", FilesOf(t)), MetaLine("columns", 0),
              SectionLine("notes"), OtherLine, SectionLine("tree")>>
    BY <1>1 DEF Heading
  <2> HIDE DEF h
  <2>3. /\ Len(h) = 6 /\ h[1] = SectionLine("meta")
        /\ h[2] = MetaLine("total_files", FilesOf(t)) /\ h[3] = MetaLine("columns", 0)
        /\ h[4] = SectionLine("notes") /\ h[5] = OtherLine /\ h[6] = SectionLine("tree")
    BY <2>2
  <2>4. /\ h[1].kind = "section" /\ h[4].kind = "section" /\ h[5].kind = "other"
        /\ h[6].kind = "section"
    BY <2>3 DEF SectionLine, OtherLine
  <2>5. \A i \in 4..6 : i = 4 \/ i = 5 \/ i = 6
    OBVIOUS
  <2>6. \A i \in 4..6 : h[i].kind \in {"section", "other"}
    BY <2>4, <2>5
  <2> QED
    BY <2>1, <2>3, <2>4, <2>6 DEF h
<1>2. CASE f # "more sections"
  <2>1. HeadLen(f) = 4
    BY <1>2 DEF HeadLen
  <2> DEFINE h == Heading(t, f)
  <2>2. h = <<SectionLine("meta"), MetaLine("total_files", FilesOf(t)), MetaLine("columns", 0),
              SectionLine("tree")>>
    BY <1>2 DEF Heading
  <2> HIDE DEF h
  <2>3. /\ Len(h) = 4 /\ h[1] = SectionLine("meta")
        /\ h[2] = MetaLine("total_files", FilesOf(t)) /\ h[3] = MetaLine("columns", 0)
        /\ h[4] = SectionLine("tree")
    BY <2>2
  <2>4. h[1].kind = "section" /\ h[4].kind = "section"
    BY <2>3 DEF SectionLine
  <2>5. \A i \in 4..4 : i = 4
    OBVIOUS
  <2>6. \A i \in 4..4 : h[i].kind \in {"section", "other"}
    BY <2>4, <2>5
  <2> QED
    BY <2>1, <2>3, <2>4, <2>6 DEF h
<1> QED
  BY <1>1, <1>2

(* The text is the heading and a line for each node.                       *)
LEMMA TextOfTree ==
    ASSUME NEW t \in Seq(NodeRec), NEW f \in AllForms
    PROVE  /\ Len(Encoded(t, f)) = HeadLen(f) + Len(t)
           /\ \A i \in 1..HeadLen(f) : Encoded(t, f)[i] = Heading(t, f)[i]
           /\ \A j \in 1..Len(t) : Encoded(t, f)[HeadLen(f) + j] = NodeLine(t[j], f)
<1> DEFINE h == Heading(t, f)
<1> DEFINE n == [i \in DOMAIN t |-> NodeLine(t[i], f)]
<1> DEFINE S == {h[i] : i \in 1..HeadLen(f)} \cup {NodeLine(t[i], f) : i \in 1..Len(t)}
<1>1. Len(t) \in Nat /\ DOMAIN t = 1..Len(t) /\ HeadLen(f) \in Nat
  BY HeadingLines
<1>2. h \in Seq(S) /\ Len(h) = HeadLen(f)
  <2>1. CASE f = "more sections"
    <3>1. HeadLen(f) = 6
      BY <2>1 DEF HeadLen
    <3>2. h = <<SectionLine("meta"), MetaLine("total_files", FilesOf(t)), MetaLine("columns", 0),
                SectionLine("notes"), OtherLine, SectionLine("tree")>>
      BY <2>1 DEF Heading
    <3> HIDE DEF h
    <3>3. h \in Seq({h[1], h[2], h[3], h[4], h[5], h[6]}) /\ Len(h) = 6
      BY <3>2
    <3>4. {h[1], h[2], h[3], h[4], h[5], h[6]} \subseteq S
      BY <3>1
    <3> QED
      BY <3>1, <3>3, <3>4, SeqMonotonic
  <2>2. CASE f # "more sections"
    <3>1. HeadLen(f) = 4
      BY <2>2 DEF HeadLen
    <3>2. h = <<SectionLine("meta"), MetaLine("total_files", FilesOf(t)), MetaLine("columns", 0),
                SectionLine("tree")>>
      BY <2>2 DEF Heading
    <3> HIDE DEF h
    <3>3. h \in Seq({h[1], h[2], h[3], h[4]}) /\ Len(h) = 4
      BY <3>2
    <3>4. {h[1], h[2], h[3], h[4]} \subseteq S
      BY <3>1
    <3> QED
      BY <3>1, <3>3, <3>4, SeqMonotonic
  <2> QED
    BY <2>1, <2>2
<1>3. n \in Seq(S) /\ Len(n) = Len(t) /\ \A j \in 1..Len(t) : n[j] = NodeLine(t[j], f)
  <2>1. n = [i \in 1..Len(t) |-> NodeLine(t[i], f)]
    BY <1>1
  <2>2. \A i \in 1..Len(t) : NodeLine(t[i], f) \in S
    OBVIOUS
  <2> HIDE DEF n, S
  <2> QED
    BY <1>1, <2>1, <2>2
<1>4. Encoded(t, f) = h \o n
  BY DEF Encoded
<1> HIDE DEF h, n, S
<1>5. /\ Len(h \o n) = Len(h) + Len(n)
      /\ \A i \in 1..Len(h) + Len(n) :
            (h \o n)[i] = IF i <= Len(h) THEN h[i] ELSE n[i - Len(h)]
  BY <1>2, <1>3, ConcatProperties
<1>6. ASSUME NEW i \in 1..HeadLen(f) PROVE (h \o n)[i] = h[i]
  <2>1. i \in 1..Len(h) + Len(n) /\ i <= Len(h)
    BY <1>1, <1>2, <1>3
  <2> QED
    BY <1>5, <2>1
<1>7. ASSUME NEW j \in 1..Len(t) PROVE (h \o n)[HeadLen(f) + j] = NodeLine(t[j], f)
  <2> DEFINE i == HeadLen(f) + j
  <2>1. i \in 1..Len(h) + Len(n) /\ ~(i <= Len(h)) /\ i - Len(h) = j
    BY <1>1, <1>2, <1>3
  <2>2. (h \o n)[i] = n[j]
    <3> HIDE DEF i
    <3> QED
      BY <1>5, <2>1
  <2> QED
    BY <1>3, <2>2
<1> QED
  BY <1>2, <1>3, <1>4, <1>5, <1>6, <1>7 DEF h

(* What the line of a node says: the level is half the indentation, and    *)
(* only the root is at level 0.                                            *)
LEMMA LineOfNode ==
    ASSUME NEW n \in NodeRec, NEW f
    PROVE  /\ NodeLine(n, f).kind = "node" /\ NodeLine(n, f).indent = 2 * Len(n.path)
           /\ NodeLine(n, f).indent \div IndentSize = Len(n.path)
           /\ n.path = <<>> => IsRoot(NodeLine(n, f))
           /\ Len(n.path) >= 1 => ~IsRoot(NodeLine(n, f)) /\ NodeLine(n, f).name = Last(n.path)
           /\ NodeLine(n, f).slash <=> n.dir /\ f # "old"
           /\ NodeLine(n, f).data = n.data
           /\ NodeLine(n, f).has = IF f = "old" THEN "none" ELSE IF n.incr THEN "1" ELSE "0"
<1> DEFINE line == NodeLine(n, f)
<1>1. n.path \in Seq(STRING) /\ n.dir \in BOOLEAN
  BY DEF NodeRec
<1>2. Len(n.path) \in Nat /\ (Len(n.path) >= 1 => n.path # <<>>) /\ Len(<<>>) = 0
  BY <1>1
<1>3. /\ line.kind = "node" /\ line.indent = IndentSize * Len(n.path)
      /\ line.name = IF n.path = <<>> THEN "*" ELSE Last(n.path)
      /\ line.slash = (n.dir /\ f # "old") /\ line.data = n.data
      /\ line.has = IF f = "old" THEN "none" ELSE IF n.incr THEN "1" ELSE "0"
  BY DEF NodeLine
<1> HIDE DEF line
<1> DEFINE level == Len(n.path)
<1>4. line.indent = 2 * level /\ level \in Nat
  BY <1>2, <1>3 DEF IndentSize
<1>5. line.indent \div IndentSize = level
  <2> HIDE DEF level
  <2>1. (2 * level) \div 2 = level
    BY <1>4
  <2> QED
    BY <1>4, <2>1 DEF IndentSize
<1>6. n.path = <<>> => IsRoot(line)
  <2> SUFFICES ASSUME n.path = <<>> PROVE IsRoot(line)
    OBVIOUS
  <2>1. level = 0 /\ line.name = "*"
    BY <1>2, <1>3
  <2> HIDE DEF level
  <2>2. line.indent = 0
    BY <1>4, <2>1
  <2> QED
    BY <2>1, <2>2 DEF IsRoot
<1>7. level >= 1 => ~IsRoot(line) /\ line.name = Last(n.path)
  <2> SUFFICES ASSUME level >= 1 PROVE ~IsRoot(line) /\ line.name = Last(n.path)
    OBVIOUS
  <2>1. line.name = Last(n.path)
    BY <1>2, <1>3
  <2> HIDE DEF level
  <2>2. line.indent # 0
    BY <1>4
  <2> QED
    BY <2>1, <2>2 DEF IsRoot
<1> QED
  BY <1>3, <1>4, <1>5, <1>6, <1>7 DEF line

(***************************************************************************)
(* Reading the tree of a text.                                             *)
(***************************************************************************)
(* The node that is read where the lines of the tree begin is its root,    *)
(* and no other node is.                                                   *)
LEMMA LineAtPos ==
    ASSUME CodecInv, text # <<>>, pos <= Len(text)
    PROVE  \/ /\ pos \in 1..HeadLen(form) /\ pos \in Nat
              /\ text[pos] = Heading(built, form)[pos]
           \/ \E k \in 0..Len(built) - 1 :
                 /\ pos = HeadLen(form) + k + 1 /\ pos > HeadLen(form) /\ pos > 2
                 /\ text[pos] = NodeLine(built[k + 1], form)
                 /\ ReadSoFar(built, k, nodes, parents)
<1>1. /\ built \in Seq(NodeRec) /\ form \in AllForms /\ text = Encoded(built, form)
      /\ pos \in 1..Len(text) + 1
      /\ pos > HeadLen(form) => ReadSoFar(built, pos - HeadLen(form) - 1, nodes, parents)
  BY DEF CodecInv, TextInv, Ordered
<1>2. HeadLen(form) \in {4, 6}
  BY <1>1, HeadingLines
<1>3. /\ Len(text) = HeadLen(form) + Len(built)
      /\ \A i \in 1..HeadLen(form) : text[i] = Heading(built, form)[i]
      /\ \A j \in 1..Len(built) : text[HeadLen(form) + j] = NodeLine(built[j], form)
  BY <1>1, TextOfTree
<1>4. Len(built) \in Nat
  BY <1>1
<1>5. pos \in Nat /\ pos >= 1 /\ pos <= HeadLen(form) + Len(built)
  BY <1>1, <1>2, <1>3, <1>4
<1>6. CASE pos <= HeadLen(form)
  <2>1. pos \in 1..HeadLen(form)
    BY <1>2, <1>5, <1>6
  <2> QED
    BY <1>3, <1>5, <2>1
<1>7. CASE pos > HeadLen(form)
  <2> DEFINE k == pos - HeadLen(form) - 1
  <2>1. /\ k \in 0..Len(built) - 1 /\ pos = HeadLen(form) + k + 1 /\ pos > 2
        /\ k + 1 \in 1..Len(built) /\ pos = HeadLen(form) + (k + 1)
    BY <1>2, <1>4, <1>5, <1>7
  <2>2. ReadSoFar(built, k, nodes, parents)
    BY <1>1, <1>7
  <2> HIDE DEF k
  <2>3. text[pos] = NodeLine(built[k + 1], form)
    BY <1>3, <2>1
  <2> QED
    BY <1>7, <2>1, <2>2, <2>3
<1> QED
  BY <1>2, <1>5, <1>6, <1>7

(* The reader finds out which nodes are directories.                       *)
LEMMA DirectoriesAreSeen ==
    ASSUME CodecInv, text # <<>>, NEW k \in 1..Len(built) - 1,
           pos = HeadLen(form) + k + 1, text[pos] = NodeLine(built[k + 1], form)
    PROVE  (text[pos].slash \/ NextIsDeeper) <=> built[k + 1].dir
<1>1. /\ built \in Seq(NodeRec) /\ form \in AllForms /\ text = Encoded(built, form)
      /\ \A i \in 2..Len(built) : Follows(built[i], built[i - 1])
      /\ built[Len(built)].dir => Len(built) = 1
  BY DEF CodecInv, TextInv, Ordered
<1>2. HeadLen(form) \in {4, 6} /\ Len(built) \in Nat
  <2>1. HeadLen(form) \in {4, 6}
    BY <1>1, HeadingLines
  <2>2. Len(built) \in Nat
    BY <1>1
  <2> QED
    BY <2>1, <2>2
<1>3. /\ Len(text) = HeadLen(form) + Len(built)
      /\ \A j \in 1..Len(built) : text[HeadLen(form) + j] = NodeLine(built[j], form)
  BY <1>1, TextOfTree
<1> DEFINE n == built[k + 1]
<1>4. n \in NodeRec /\ n.dir \in BOOLEAN /\ Len(n.path) \in Nat
  <2>1. k + 1 \in 1..Len(built)
    BY <1>2
  <2>2. n \in NodeRec
    BY <1>1, <2>1
  <2> QED
    BY <2>2 DEF NodeRec
<1>5. text[pos].slash <=> n.dir /\ form # "old"
  <2> HIDE DEF n
  <2>1. text[pos] = NodeLine(n, form)
    BY DEF n
  <2> QED
    BY <1>4, <2>1, LineOfNode
<1>6. text[pos].indent = 2 * Len(n.path)
  <2> HIDE DEF n
  <2>1. text[pos] = NodeLine(n, form)
    BY DEF n
  <2> QED
    BY <1>4, <2>1, LineOfNode
<1>7. ASSUME k + 2 <= Len(built)
      PROVE  NextIsDeeper <=> n.dir
  <2> DEFINE m == built[k + 2]
  <2>1. /\ k + 2 \in 1..Len(built) /\ k + 2 \in 2..Len(built) /\ (k + 2) - 1 = k + 1
        /\ pos + 1 = HeadLen(form) + (k + 2) /\ pos < Len(text)
    BY <1>2, <1>3, <1>7
  <2>2. text[pos + 1] = NodeLine(m, form)
    BY <1>3, <2>1
  <2>3. m \in NodeRec
    BY <1>1, <2>1
  <2>4. Follows(m, n)
    BY <1>1, <2>1
  <2> HIDE DEF m, n
  <2>5. text[pos + 1].kind = "node" /\ text[pos + 1].indent = 2 * Len(m.path)
    BY <2>2, <2>3, LineOfNode
  <2>6. Len(m.path) \in Nat
    BY <2>3 DEF NodeRec
  <2>7. NextIsDeeper <=> Len(m.path) > Len(n.path)
    <3>1. 2 * Len(m.path) > 2 * Len(n.path) <=> Len(m.path) > Len(n.path)
      BY <1>4, <2>6
    <3> QED
      BY <1>6, <2>1, <2>5, <3>1 DEF NextIsDeeper
  <2>8. n.dir => Len(m.path) > Len(n.path)
    BY <2>4 DEF Follows
  <2>9. ~n.dir => Len(m.path) <= Len(n.path)
    BY <2>4 DEF Follows
  <2> QED
    BY <1>4, <2>6, <2>7, <2>8, <2>9
<1>8. ASSUME ~(k + 2 <= Len(built))
      PROVE  ~NextIsDeeper /\ ~n.dir
  <2>1. k + 1 = Len(built) /\ Len(built) # 1 /\ ~(pos < Len(text))
    BY <1>2, <1>3, <1>8
  <2>2. ~n.dir
    BY <1>1, <2>1
  <2> QED
    BY <2>1, <2>2 DEF NextIsDeeper
<1> HIDE DEF n
<1>9. (text[pos].slash \/ NextIsDeeper) <=> n.dir
  <2>1. CASE k + 2 <= Len(built)
    BY <1>5, <1>7, <2>1
  <2>2. CASE ~(k + 2 <= Len(built))
    BY <1>5, <1>8, <2>2
  <2> QED
    BY <2>1, <2>2
<1> QED
  BY <1>9 DEF n

(* Reading the line of the next node gives that node, in its place, and    *)
(* the stack that goes with it.                                            *)
LEMMA NodeIsRead ==
    ASSUME CodecInv, text # <<>>, NEW k \in 1..Len(built) - 1,
           pos = HeadLen(form) + k + 1, text[pos] = NodeLine(built[k + 1], form),
           ReadSoFar(built, k, nodes, parents), ReadNode
    PROVE  ReadSoFar(built, k + 1, nodes', parents')
<1> DEFINE line == text[pos]
<1> DEFINE n == built[k + 1]
<1> DEFINE isDir == line.slash \/ NextIsDeeper
<1> DEFINE kept == ParentsOf(line)
<1> DEFINE d == Last(kept)
<1> DEFINE path == Append(nodes[d].path, line.name)
<1> DEFINE incr == IF line.has = "none" THEN HasIncr(line.data) ELSE line.has = "1"
<1> DEFINE node == IF isDir THEN Dir(path) ELSE File(path, line.data, incr)
<1>1. Ordered(built) /\ built \in Seq(NodeRec) /\ form \in AllForms
  BY DEF CodecInv, Ordered
<1>2. Len(built) \in Nat /\ k \in Nat /\ k + 1 \in 1..Len(built) /\ k \in 0..Len(built) /\ k # 0
      /\ k + 1 \in 2..Len(built) /\ k + 1 \in 0..Len(built) /\ k + 1 # 0 /\ (k + 1) - 1 = k
  BY <1>1
<1>3. nodes = SubSeq(built, 1, k) /\ StackOK(built, k, parents)
  BY <1>2 DEF ReadSoFar
<1>4. /\ nodes \in Seq(NodeRec) /\ Len(nodes) = k
      /\ \A i \in 1..k : nodes[i] = built[i]
  BY <1>1, <1>2, <1>3, FirstNodes
<1>5. n \in NodeRec /\ Len(n.path) \in Nat /\ Len(n.path) >= 1 /\ IsNode(n) /\ n.dir \in BOOLEAN
      /\ n.incr \in BOOLEAN
  <2>1. n \in NodeRec
    BY <1>1, <1>2
  <2>2. \A i \in 2..Len(built) : Follows(built[i], built[i - 1])
    BY <1>1 DEF Ordered
  <2>3. Follows(n, built[k])
    BY <1>2, <2>2
  <2>4. IsNode(n)
    BY <1>1, <1>2 DEF Ordered
  <2> HIDE DEF n
  <2>5. Len(n.path) >= 1
    BY <2>3 DEF Follows
  <2>6. Len(n.path) \in Nat /\ n.dir \in BOOLEAN /\ n.incr \in BOOLEAN
    BY <2>1 DEF NodeRec
  <2> QED
    BY <2>1, <2>4, <2>5, <2>6
<1>6. /\ line.indent \div IndentSize = Len(n.path) /\ line.name = Last(n.path)
      /\ line.data = n.data
      /\ line.has = IF form = "old" THEN "none" ELSE IF n.incr THEN "1" ELSE "0"
  <2>1. line = NodeLine(n, form)
    OBVIOUS
  <2> HIDE DEF n, line
  <2> QED
    BY <1>5, <2>1, LineOfNode
<1>7. kept = Kept(parents, Len(n.path))
  BY <1>6 DEF ParentsOf, Kept
<1>8. /\ nodes' = AddBelow(nodes, d, <<node>>)
      /\ parents' = IF isDir THEN Append(kept, SubtreeEnd(nodes, d) + 1) ELSE kept
  BY DEF ReadNode
<1>9. isDir <=> n.dir
  BY DirectoriesAreSeen
<1> HIDE DEF kept, isDir, line
<1>10. /\ d \in 1..k
       /\ Append(built[d].path, Last(n.path)) = n.path
       /\ SubtreeEnd(SubSeq(built, 1, k), d) = k
  BY <1>1, <1>3, <1>7, DirectoryOfNode
<1>11. StackOK(built, k + 1, IF n.dir THEN Append(kept, k + 1) ELSE kept)
  BY <1>1, <1>3, <1>7, StackAfterNode
<1> HIDE DEF d
<1>12. path = n.path
  BY <1>4, <1>6, <1>10
<1> HIDE DEF n, path
<1>13. node = n
  <2>1. CASE n.dir
    <3>1. ~(n = File(n.path, n.data, HasIncr(n.data)))
      <4> SUFFICES ASSUME n = File(n.path, n.data, HasIncr(n.data)) PROVE FALSE
        OBVIOUS
      <4>1. n.dir = FALSE
        BY DEF File
      <4> QED
        BY <2>1, <4>1
    <3>2. n = Dir(n.path)
      BY <1>5, <3>1 DEF IsNode
    <3> QED
      BY <1>9, <1>12, <2>1, <3>2
  <2>2. CASE ~n.dir
    <3>1. ~(n = Dir(n.path))
      <4> SUFFICES ASSUME n = Dir(n.path) PROVE FALSE
        OBVIOUS
      <4>1. n.dir = TRUE
        BY DEF Dir
      <4> QED
        BY <2>2, <4>1
    <3>2. n = File(n.path, n.data, HasIncr(n.data))
      BY <1>5, <3>1 DEF IsNode
    <3>3. n.incr = HasIncr(n.data)
      BY <3>2 DEF File
    <3>4. incr = HasIncr(n.data)
      <4>1. CASE form = "old"
        BY <1>6, <4>1
      <4>2. CASE form # "old"
        <5>1. line.has = IF n.incr THEN "1" ELSE "0"
          BY <1>6, <4>2
        <5>2. CASE n.incr
          BY <3>3, <5>1, <5>2
        <5>3. CASE ~n.incr
          BY <1>5, <3>3, <5>1, <5>3
        <5> QED
          BY <5>2, <5>3
      <4> QED
        BY <4>1, <4>2
    <3>5. node = File(n.path, n.data, HasIncr(n.data))
      BY <1>6, <1>9, <1>12, <2>2, <3>4
    <3> QED
      BY <3>2, <3>5
  <2> QED
    BY <2>1, <2>2
<1> HIDE DEF node, incr
<1>14. nodes' = SubSeq(built, 1, k + 1)
  <2>1. SubtreeEnd(nodes, d) = k
    BY <1>3, <1>10
  <2>2. AddBelow(nodes, d, <<node>>) = SubSeq(nodes, 1, k) \o <<node>> \o SubSeq(nodes, k + 1, Len(nodes))
    BY <2>1 DEF AddBelow
  <2>3. SubSeq(nodes, 1, k) = nodes
    BY <1>4, SubSeqFull
  <2>4. SubSeq(nodes, k + 1, Len(nodes)) = <<>>
    <3>1. k + 1 \in Int /\ Len(nodes) \in Int /\ Len(nodes) < k + 1
      BY <1>2, <1>4
    <3> QED
      BY <3>1, SubSeqEmpty
  <2>5. <<n>> \in Seq(NodeRec)
    BY <1>5
  <2>6. nodes \o <<n>> \in Seq(NodeRec) /\ Len(nodes \o <<n>>) = k + 1
        /\ \A i \in 1..k + 1 : (nodes \o <<n>>)[i] = IF i <= k THEN nodes[i] ELSE n
    <3> DEFINE s == <<n>>
    <3>1. s \in Seq(NodeRec) /\ Len(s) = 1 /\ s[1] = n
      BY <1>5
    <3> HIDE DEF s
    <3>2. /\ nodes \o s \in Seq(NodeRec) /\ Len(nodes \o s) = Len(nodes) + Len(s)
          /\ \A i \in 1..Len(nodes) + Len(s) :
                (nodes \o s)[i] = IF i <= Len(nodes) THEN nodes[i] ELSE s[i - Len(nodes)]
      BY <1>4, <3>1, ConcatProperties
    <3>3. Len(nodes \o s) = k + 1
      BY <1>4, <3>1, <3>2
    <3>4. ASSUME NEW i \in 1..k + 1
          PROVE  (nodes \o s)[i] = IF i <= k THEN nodes[i] ELSE n
      <4>1. i \in 1..Len(nodes) + Len(s)
        BY <1>4, <3>1
      <4>2. ~(i <= k) => i - Len(nodes) = 1
        BY <1>2, <1>4
      <4> QED
        BY <1>4, <3>1, <3>2, <4>1, <4>2
    <3> QED
      BY <3>2, <3>3, <3>4 DEF s
  <2> DEFINE u == nodes \o <<n>>
  <2>7. nodes' = u
    <3>1. <<n>> \o <<>> = <<n>> /\ nodes \o <<n>> \o <<>> = nodes \o <<n>>
      BY <2>5, <2>6, ConcatEmptySeq
    <3> QED
      BY <1>8, <1>13, <2>2, <2>3, <2>4, <3>1
  <2> DEFINE v == SubSeq(built, 1, k + 1)
  <2>8. v \in Seq(NodeRec) /\ Len(v) = k + 1 /\ \A i \in 1..k + 1 : v[i] = built[i]
    BY <1>1, <1>2, FirstNodes
  <2> HIDE DEF v
  <2>9. ASSUME NEW i \in 1..Len(u) PROVE u[i] = v[i]
    <3>1. i \in 1..k + 1 /\ u[i] = IF i <= k THEN nodes[i] ELSE n
      BY <2>6
    <3>2. CASE i <= k
      <4>1. i \in 1..k
        BY <1>2, <3>1, <3>2
      <4> QED
        BY <1>4, <2>8, <3>1, <3>2, <4>1
    <3>3. CASE ~(i <= k)
      <4>1. i = k + 1
        BY <1>2, <3>1, <3>3
      <4> QED
        BY <2>8, <3>1, <3>3, <4>1 DEF n
    <3> QED
      BY <3>2, <3>3
  <2>10. u = v
    <3>1. u \in Seq(NodeRec) /\ Len(u) = Len(v)
      BY <2>6, <2>8
    <3> HIDE DEF u
    <3> QED
      BY <2>8, <2>9, <3>1, SeqEqual
  <2> QED
    BY <2>7, <2>10 DEF v
<1>15. parents' = IF n.dir THEN Append(kept, k + 1) ELSE kept
  <2>1. SubtreeEnd(nodes, d) + 1 = k + 1
    BY <1>3, <1>10
  <2> QED
    BY <1>8, <1>9, <2>1
<1> QED
  BY <1>2, <1>11, <1>14, <1>15 DEF ReadSoFar

(* Reading the line of the root gives the root.                            *)
LEMMA RootIsRead ==
    ASSUME CodecInv, ReadSoFar(built, 0, nodes, parents), ReadRoot
    PROVE  ReadSoFar(built, 1, nodes', parents')
<1>1. /\ Ordered(built) /\ built \in Seq(NodeRec) /\ Len(built) \in Nat /\ Len(built) >= 1
      /\ built[1] = Dir(<<>>)
  BY DEF CodecInv, Ordered
<1>2. parents = <<>>
  BY DEF ReadSoFar
<1>3. nodes' = <<Dir(<<>>)>> /\ parents' = <<1>>
  BY <1>2 DEF ReadRoot, NewTree
<1>4. nodes' = SubSeq(built, 1, 1)
  <2> DEFINE v == SubSeq(built, 1, 1)
  <2>1. 1 \in 0..Len(built) /\ 1 \in 1..1
    BY <1>1
  <2>2. v \in Seq(NodeRec) /\ Len(v) = 1 /\ v[1] = built[1]
    BY <1>1, <2>1, FirstNodes
  <2> HIDE DEF v
  <2>3. v = <<v[1]>>
    BY <2>2
  <2> QED
    BY <1>1, <1>3, <2>2, <2>3 DEF v
<1>5. built[1].dir = TRUE /\ built[1].path = <<>> /\ Len(built[1].path) = 0
  BY <1>1 DEF Dir
<1>6. StackOK(built, 1, <<1>>)
  <2> DEFINE ps == <<1>>
  <2>1. ps \in Seq(1..1) /\ Len(ps) = 1 /\ ps[1] = 1
    <3>1. 1 \in 1..1
      OBVIOUS
    <3> QED
      BY <3>1
  <2> HIDE DEF ps
  <2>2. Agree(built[1].path, built[1].path, 0)
    BY <1>5 DEF Agree
  <2>3. ASSUME NEW l \in 1..Len(ps)
        PROVE  /\ built[ps[l]].dir
               /\ Len(built[ps[l]].path) = l - 1
               /\ Agree(built[ps[l]].path, built[1].path, l - 1)
               /\ \A j \in ps[l] + 1..1 : Len(built[j].path) >= l
    <3>1. l = 1 /\ l - 1 = 0 /\ ps[l] = 1
      BY <2>1
    <3>2. \A j \in 1 + 1..1 : FALSE
      OBVIOUS
    <3> QED
      BY <1>5, <2>2, <3>1, <3>2
  <2>4. Len(ps) = Len(built[1].path) + IF built[1].dir THEN 1 ELSE 0
    BY <1>5, <2>1
  <2> QED
    BY <2>1, <2>3, <2>4 DEF StackOK, ps
<1> QED
  BY <1>3, <1>4, <1>6 DEF ReadSoFar

(***************************************************************************)
(* The invariant holds.                                                    *)
(***************************************************************************)
(* A new tree has only its root.                                           *)
LEMMA NewTreeIsOrdered == Ordered(NewTree)
<1> DEFINE t == <<Dir(<<>>)>>
<1>1. Dir(<<>>) \in NodeRec /\ Dir(<<>>).dir /\ Dir(<<>>).path = <<>>
  <2>1. <<>> \in Seq(STRING)
    OBVIOUS
  <2> QED
    BY <2>1 DEF Dir, NodeRec
<1>2. t \in Seq(NodeRec) /\ Len(t) = 1 /\ t[1] = Dir(<<>>)
  BY <1>1
<1>3. IsNode(Dir(<<>>))
  BY <1>1 DEF IsNode
<1> HIDE DEF t
<1>4. \A i \in 2..Len(t) : Follows(t[i], t[i - 1])
  BY <1>2
<1>5. \A i \in 1..Len(t) : IsNode(t[i])
  BY <1>2, <1>3
<1>6. Ordered(t)
  BY <1>1, <1>2, <1>4, <1>5 DEF Ordered
<1> QED
  BY <1>6 DEF NewTree, t

(* It holds of an empty tree, before anything was read.                    *)
LEMMA CodecInvInit == CodecInit => CodecInv
<1> SUFFICES ASSUME CodecInit PROVE CodecInv
  OBVIOUS
<1>1. Ordered(NewTree)
  BY NewTreeIsOrdered
<1>2. form \in AllForms /\ built = NewTree /\ section = "none" /\ result = "building" /\ text = <<>>
      /\ pos = 1 /\ seen = {} /\ nodes = <<>> /\ parents = <<>>
  BY CodecAssumption DEF CodecInit
<1> QED
  BY <1>1, <1>2 DEF CodecInv, Results

(* A step that reads a line, and what must be shown of it.                 *)
LEMMA LineStep ==
    ASSUME CodecInv, result = "reading", pos <= Len(text), ToNext,
           section' \in {"none", "skip", "meta", "tree"},
           pos >= 2 => total' = FilesOf(built),
           pos < HeadLen(form) => nodes' = <<>> /\ parents' = <<>>,
           pos >= HeadLen(form) => ReadSoFar(built, pos - HeadLen(form), nodes', parents')
    PROVE  CodecInv'
<1>1. text # <<>>
  <2> SUFFICES ASSUME text = <<>> PROVE FALSE
    OBVIOUS
  <2>1. pos = 1 /\ Len(text) = 0
    BY DEF CodecInv
  <2> QED
    BY <2>1
<1>2. /\ text = Encoded(built, form) /\ pos \in 1..Len(text) + 1 /\ form \in AllForms
      /\ Ordered(built)
  BY <1>1 DEF CodecInv, TextInv
<1>3. HeadLen(form) \in {4, 6}
  BY <1>2, HeadingLines
<1>4. Len(text) \in Nat
  <2>1. built \in Seq(NodeRec)
    BY <1>2 DEF Ordered
  <2>2. Len(text) = HeadLen(form) + Len(built) /\ Len(built) \in Nat
    BY <1>2, <2>1, TextOfTree
  <2> QED
    BY <1>3, <2>2
<1>5. pos' = pos + 1 /\ built' = built /\ form' = form /\ text' = text /\ result' = "reading"
  BY DEF ToNext
<1>6. pos \in Nat /\ pos + 1 \in 1..Len(text) + 1
  BY <1>2, <1>4
<1>7. TextInv'
  <2>1. text' = Encoded(built', form')
    BY <1>2, <1>5
  <2>2. pos' \in 1..Len(text') + 1
    BY <1>5, <1>6
  <2>3. result' # "read"
    BY <1>5
  <2>4. pos' > 2 => total' = FilesOf(built')
    <3>1. pos + 1 > 2 => pos >= 2
      BY <1>6
    <3> QED
      BY <1>5, <3>1
  <2>5. pos' <= HeadLen(form') => nodes' = <<>> /\ parents' = <<>>
    <3>1. pos + 1 <= HeadLen(form) => pos < HeadLen(form)
      BY <1>3, <1>6
    <3> QED
      BY <1>5, <3>1
  <2>6. pos' > HeadLen(form') => ReadSoFar(built', pos' - HeadLen(form') - 1, nodes', parents')
    <3> SUFFICES ASSUME pos' > HeadLen(form')
                 PROVE  ReadSoFar(built', pos' - HeadLen(form') - 1, nodes', parents')
      OBVIOUS
    <3>1. HeadLen(form') = HeadLen(form)
      BY <1>5
    <3>2. pos >= HeadLen(form)
      BY <1>3, <1>5, <1>6, <3>1
    <3>3. pos' - HeadLen(form') - 1 = pos - HeadLen(form)
      BY <1>3, <1>5, <1>6, <3>1
    <3>4. ReadSoFar(built, pos - HeadLen(form), nodes', parents')
      BY <3>2
    <3> QED
      BY <1>5, <3>3, <3>4
  <2> QED
    BY <2>1, <2>2, <2>3, <2>4, <2>5, <2>6 DEF TextInv
<1> QED
  BY <1>1, <1>2, <1>5, <1>7 DEF CodecInv, Results

(* A line of the heading leaves the reader without nodes.                  *)
LEMMA HeadingStep ==
    ASSUME CodecInv, result = "reading", pos <= Len(text), ToNext,
           text[pos].kind # "node", UNCHANGED <<nodes, parents>>,
           section' \in {"none", "skip", "meta", "tree"},
           text[pos].kind # "meta" => total' = total,
           text[pos].kind = "meta" =>
              total' = IF text[pos].key = "total_files" THEN text[pos].val ELSE total
    PROVE  CodecInv'
<1>1. text # <<>>
  <2> SUFFICES ASSUME text = <<>> PROVE FALSE
    OBVIOUS
  <2>1. pos = 1 /\ Len(text) = 0
    BY DEF CodecInv
  <2> QED
    BY <2>1
<1>2. built \in Seq(NodeRec) /\ form \in AllForms /\ Ordered(built)
  BY DEF CodecInv, Ordered
<1>3. pos \in 1..HeadLen(form) /\ pos \in Nat /\ text[pos] = Heading(built, form)[pos]
  <2> SUFFICES ASSUME NEW k \in 0..Len(built) - 1, text[pos] = NodeLine(built[k + 1], form)
               PROVE  FALSE
    BY <1>1, LineAtPos
  <2>1. Len(built) \in Nat
    BY <1>2
  <2>2. k + 1 \in 1..Len(built)
    BY <2>1
  <2>3. built[k + 1] \in NodeRec
    BY <1>2, <2>2
  <2>4. NodeLine(built[k + 1], form).kind = "node"
    BY <2>3, LineOfNode
  <2> QED
    BY <2>4
<1>4. /\ HeadLen(form) \in {4, 6}
      /\ Heading(built, form)[1].kind = "section"
      /\ Heading(built, form)[2] = MetaLine("total_files", FilesOf(built))
      /\ Heading(built, form)[3] = MetaLine("columns", 0)
      /\ \A i \in 4..HeadLen(form) : Heading(built, form)[i].kind \in {"section", "other"}
  BY <1>2, HeadingLines
<1>5. /\ nodes = <<>> /\ parents = <<>> /\ (pos > 2 => total = FilesOf(built))
  <2>1. pos <= HeadLen(form)
    BY <1>3, <1>4
  <2> QED
    BY <1>1, <2>1 DEF CodecInv, TextInv
<1>6. pos >= 2 => total' = FilesOf(built)
  <2>1. CASE pos = 2
    <3>1. text[pos] = MetaLine("total_files", FilesOf(built))
      BY <1>3, <1>4, <2>1
    <3>2. /\ text[pos].kind = "meta" /\ text[pos].key = "total_files"
          /\ text[pos].val = FilesOf(built)
      BY <3>1 DEF MetaLine
    <3> QED
      BY <3>2
  <2>2. CASE pos = 3
    <3>1. text[pos] = MetaLine("columns", 0)
      BY <1>3, <1>4, <2>2
    <3>2. text[pos].kind = "meta" /\ text[pos].key = "columns"
      BY <3>1 DEF MetaLine
    <3>3. total' = total
      BY <3>2
    <3> QED
      BY <1>5, <2>2, <3>3
  <2>3. CASE pos > 3
    <3>1. pos \in 4..HeadLen(form)
      BY <1>3, <1>4, <2>3
    <3>2. text[pos].kind \in {"section", "other"}
      BY <1>3, <1>4, <3>1
    <3>3. total' = total
      BY <3>2
    <3>4. pos > 2
      BY <1>3, <2>3
    <3> QED
      BY <1>5, <3>3, <3>4
  <2>4. pos < 2 \/ pos = 2 \/ pos = 3 \/ pos > 3
    BY <1>3
  <2> QED
    BY <1>3, <2>1, <2>2, <2>3, <2>4
<1>7. nodes' = <<>> /\ parents' = <<>>
  BY <1>5
<1>8. pos >= HeadLen(form) => ReadSoFar(built, pos - HeadLen(form), nodes', parents')
  <2> SUFFICES ASSUME pos >= HeadLen(form)
               PROVE  ReadSoFar(built, pos - HeadLen(form), nodes', parents')
    OBVIOUS
  <2>1. pos - HeadLen(form) = 0
    BY <1>3, <1>4
  <2>2. SubSeq(built, 1, 0) = <<>>
    <3>1. 1 \in Int /\ 0 \in Int /\ 0 < 1
      OBVIOUS
    <3> QED
      BY <3>1, SubSeqEmpty
  <2>3. ReadSoFar(built, 0, nodes', parents')
    BY <1>7, <2>2 DEF ReadSoFar
  <2> QED
    BY <2>1, <2>3
<1> QED
  BY <1>6, <1>7, <1>8, LineStep

(* Every step keeps the invariant: building, opening the object, a line of *)
(* the heading, a line of the tree, the end.                               *)
LEMMA CodecInvStep == CodecInv /\ [CodecNext]_codecVars => CodecInv'
<1> SUFFICES ASSUME CodecInv, [CodecNext]_codecVars PROVE CodecInv'
  OBVIOUS
<1>0. /\ Ordered(built) /\ built \in Seq(NodeRec) /\ Len(built) \in Nat /\ Len(built) >= 1
      /\ form \in AllForms /\ FilesOf(built) \in Nat
  <2>1. Ordered(built) /\ form \in AllForms
    BY DEF CodecInv
  <2>2. built \in Seq(NodeRec) /\ Len(built) >= 1
    BY <2>1 DEF Ordered
  <2>3. Len(built) \in Nat
    BY <2>2
  <2>4. FilesOf(built) \in Nat
    BY <2>2, FilesAreCounted
  <2> QED
    BY <2>1, <2>2, <2>3, <2>4
<1>1. ASSUME NEW path \in Paths, Build(path) PROVE CodecInv'
  <2>1. path \in Seq(STRING) \ {<<>>}
    BY CodecAssumption
  <2>2. FilesOf(built) + 1 \in Nat
    BY <1>0
  <2>3. Ordered(AddToTree(built, path, FilesOf(built) + 1))
    BY <1>0, <2>1, <2>2, BuildKeepsOrder
  <2>4. /\ built' = AddToTree(built, path, FilesOf(built) + 1)
        /\ UNCHANGED <<form, text, pos, section, seen, total, nodes, parents, result>>
        /\ result = "building"
    BY <1>1 DEF Build
  <2>5. Ordered(built')
    BY <2>3, <2>4
  <2>6. text = <<>>
    BY <2>4 DEF CodecInv
  <2> QED
    BY <2>4, <2>5, <2>6 DEF CodecInv
<1>2. CASE StartReading
  <2>1. /\ result' = "reading" /\ result = "building"
        /\ text' \in {Encoded(built, form), <<>>}
        /\ UNCHANGED <<built, form, pos, section, seen, total, nodes, parents>>
    BY <1>2 DEF StartReading
  <2>2. text = <<>> /\ pos = 1 /\ seen = {} /\ nodes = <<>> /\ parents = <<>>
    BY <2>1 DEF CodecInv
  <2>3. CASE text' = <<>>
    BY <2>1, <2>2, <2>3 DEF CodecInv, Results
  <2>4. CASE text' # <<>>
    <3>1. text' = Encoded(built, form)
      BY <2>1, <2>4
    <3>2. HeadLen(form) \in {4, 6} /\ Len(text') = HeadLen(form) + Len(built)
      BY <1>0, <3>1, HeadingLines, TextOfTree
    <3>3. 1 \in 1..Len(text') + 1 /\ 1 <= HeadLen(form) /\ ~(1 > HeadLen(form)) /\ ~(1 > 2)
      BY <1>0, <3>2
    <3>4. TextInv'
      BY <2>1, <2>2, <3>1, <3>3 DEF TextInv
    <3> QED
      BY <2>1, <2>4, <3>4 DEF CodecInv, Results
  <2> QED
    BY <2>3, <2>4
<1>3. CASE ReadSection
  <2>1. /\ result = "reading" /\ pos <= Len(text) /\ text[pos].kind = "section" /\ ToNext
        /\ section' \in {"none", "skip", "meta", "tree"}
        /\ total' = total /\ UNCHANGED <<nodes, parents>>
    BY <1>3 DEF ReadSection, Reading
  <2> QED
    BY <2>1, HeadingStep
<1>4. CASE ReadMeta
  <2>1. /\ result = "reading" /\ pos <= Len(text) /\ text[pos].kind = "meta" /\ ToNext
        /\ section' = section
        /\ total' = IF text[pos].key = "total_files" THEN text[pos].val ELSE total
        /\ UNCHANGED <<nodes, parents>>
    BY <1>4 DEF ReadMeta, Reading
  <2>2. section' \in {"none", "skip", "meta", "tree"}
    BY <2>1 DEF CodecInv
  <2> QED
    BY <2>1, <2>2, HeadingStep
<1>5. CASE SkipLine
  <2>1. /\ result = "reading" /\ pos <= Len(text) /\ text[pos].kind = "other" /\ ToNext
        /\ section' = section /\ total' = total /\ UNCHANGED <<nodes, parents>>
    BY <1>5 DEF SkipLine, Reading
  <2>2. section' \in {"none", "skip", "meta", "tree"}
    BY <2>1 DEF CodecInv
  <2> QED
    BY <2>1, <2>2, HeadingStep
<1>6. CASE ReadRoot \/ ReadNode
  <2>1. /\ result = "reading" /\ pos <= Len(text) /\ text[pos].kind = "node" /\ ToNext
        /\ section' = section /\ total' = total
    BY <1>6 DEF ReadRoot, ReadNode, Reading
  <2>2. section' \in {"none", "skip", "meta", "tree"}
    BY <2>1 DEF CodecInv
  <2>3. text # <<>>
    <3> SUFFICES ASSUME text = <<>> PROVE FALSE
      OBVIOUS
    <3>1. pos = 1 /\ Len(text) = 0
      BY DEF CodecInv
    <3> QED
      BY <2>1, <3>1
  <2>4. /\ HeadLen(form) \in {4, 6}
        /\ Heading(built, form)[1].kind = "section"
        /\ Heading(built, form)[2] = MetaLine("total_files", FilesOf(built))
        /\ Heading(built, form)[3] = MetaLine("columns", 0)
        /\ \A i \in 4..HeadLen(form) : Heading(built, form)[i].kind \in {"section", "other"}
    BY <1>0, HeadingLines
  <2>5. ASSUME pos \in 1..HeadLen(form), text[pos] = Heading(built, form)[pos] PROVE FALSE
    <3>1. pos = 1 \/ pos = 2 \/ pos = 3 \/ pos \in 4..HeadLen(form)
      BY <2>4, <2>5
    <3>2. CASE pos = 2 \/ pos = 3
      BY <2>1, <2>4, <2>5, <3>2 DEF MetaLine
    <3> QED
      BY <2>1, <2>4, <2>5, <3>1, <3>2
  <2>6. PICK k \in 0..Len(built) - 1 :
                 /\ pos = HeadLen(form) + k + 1 /\ pos > HeadLen(form) /\ pos > 2
                 /\ text[pos] = NodeLine(built[k + 1], form)
                 /\ ReadSoFar(built, k, nodes, parents)
    BY <2>1, <2>3, <2>5, LineAtPos
  <2>7. k + 1 \in 1..Len(built) /\ built[k + 1] \in NodeRec
    <3>1. k + 1 \in 1..Len(built)
      BY <1>0
    <3> QED
      BY <1>0, <3>1
  <2>8. ReadSoFar(built, k + 1, nodes', parents')
    <3>1. CASE k = 0
      <4>1. built[k + 1].path = <<>>
        BY <1>0, <3>1 DEF Ordered, Dir
      <4>2. IsRoot(text[pos])
        BY <2>6, <2>7, <4>1, LineOfNode
      <4>3. ReadRoot
        BY <1>6, <4>2 DEF ReadNode
      <4>4. ReadSoFar(built, 0, nodes, parents)
        BY <2>6, <3>1
      <4>5. ReadSoFar(built, 1, nodes', parents')
        BY <4>3, <4>4, RootIsRead
      <4>6. k + 1 = 1
        BY <3>1
      <4> QED
        BY <4>5, <4>6
    <3>2. CASE k # 0
      <4>1. k \in 1..Len(built) - 1 /\ k + 1 \in 2..Len(built)
        BY <1>0, <3>2
      <4>2. Follows(built[k + 1], built[(k + 1) - 1])
        BY <1>0, <4>1 DEF Ordered
      <4>3. Len(built[k + 1].path) >= 1
        BY <4>2 DEF Follows
      <4>4. ~IsRoot(text[pos])
        BY <2>6, <2>7, <4>3, LineOfNode
      <4>5. ReadNode
        BY <1>6, <4>4 DEF ReadRoot
      <4> QED
        BY <2>3, <2>6, <4>1, <4>5, NodeIsRead
    <3> QED
      BY <3>1, <3>2
  <2>9. total' = FilesOf(built)
    BY <2>1, <2>3, <2>6 DEF CodecInv, TextInv
  <2>10. ~(pos < HeadLen(form)) /\ pos - HeadLen(form) = k + 1
    BY <1>0, <2>4, <2>6
  <2>11. ReadSoFar(built, pos - HeadLen(form), nodes', parents')
    BY <2>8, <2>10
  <2> QED
    BY <2>1, <2>2, <2>9, <2>10, <2>11, LineStep
<1>7. CASE EndReading
  <2>1. /\ pos > Len(text)
        /\ result' = IF "meta" \notin seen THEN "no meta"
                     ELSE IF "tree" \notin seen THEN "no tree" ELSE "read"
        /\ UNCHANGED <<built, form, text, pos, section, seen, total, nodes, parents>>
    BY <1>7 DEF EndReading
  <2>2. result' \in Results /\ result' # "building"
    BY <2>1 DEF Results
  <2>3. CASE text = <<>>
    <3>1. seen = {}
      BY <2>3 DEF CodecInv
    <3>2. result' = "no meta"
      BY <2>1, <3>1
    <3> QED
      BY <2>1, <2>2, <2>3, <3>2 DEF CodecInv
  <2>4. CASE text # <<>>
    <3>1. TextInv
      BY <2>4 DEF CodecInv
    <3>2. Len(text) \in Nat
      <4>1. text = Encoded(built, form)
        BY <3>1 DEF TextInv
      <4>2. HeadLen(form) \in {4, 6} /\ Len(text) = HeadLen(form) + Len(built)
        BY <1>0, <4>1, HeadingLines, TextOfTree
      <4> QED
        BY <1>0, <4>2
    <3>3. pos = Len(text) + 1
      <4>1. pos \in 1..Len(text) + 1
        BY <3>1 DEF TextInv
      <4> DEFINE x == Len(text)
      <4>2. pos \in 1..x + 1 /\ pos > x /\ x \in Nat
        BY <2>1, <3>2, <4>1
      <4> HIDE DEF x
      <4>3. pos = x + 1
        BY <4>2
      <4> QED
        BY <4>3 DEF x
    <3>4. TextInv'
      BY <2>1, <3>1, <3>3 DEF TextInv
    <3> QED
      BY <2>1, <2>2, <2>4, <3>4 DEF CodecInv
  <2> QED
    BY <2>3, <2>4
<1>8. CASE UNCHANGED codecVars
  BY <1>8 DEF codecVars, CodecInv, TextInv
<1> QED
  BY <1>1, <1>2, <1>3, <1>4, <1>5, <1>6, <1>7, <1>8 DEF CodecNext

(* What the reader has is the beginning of the tree that was stored, and   *)
(* its stack leads to the last node of it.                                 *)
THEOREM CodecInvariant == CodecSpec => []CodecInv
BY CodecInvInit, CodecInvStep, PTL DEF CodecSpec

(* What the invariant says of the reader's types.                          *)
LEMMA CodecInvGivesTypes == CodecInv => CodecTypeOK
<1> SUFFICES ASSUME CodecInv PROVE CodecTypeOK
  OBVIOUS
<1>1. built \in Seq(NodeRec) /\ form \in AllForms /\ Len(built) \in Nat
  <2>1. built \in Seq(NodeRec) /\ form \in AllForms
    BY DEF CodecInv, Ordered
  <2> QED
    BY <2>1
<1>2. ASSUME NEW i \in DOMAIN parents PROVE parents[i] \in DOMAIN nodes /\ nodes[parents[i]].dir
  <2>1. parents # <<>>
    <3> SUFFICES ASSUME parents = <<>> PROVE FALSE
      OBVIOUS
    <3>1. DOMAIN parents = 1..0
      OBVIOUS
    <3> QED
      BY <1>2, <3>1
  <2>2. text # <<>> /\ TextInv
    BY <2>1 DEF CodecInv
  <2>3. HeadLen(form) \in {4, 6}
    BY <1>1, HeadingLines
  <2>4. Len(text) = HeadLen(form) + Len(built)
    BY <1>1, <2>2, TextOfTree DEF TextInv
  <2>5. pos \in Nat /\ pos <= HeadLen(form) + Len(built) + 1
    <3>1. pos \in 1..Len(text) + 1
      BY <2>2 DEF TextInv
    <3> QED
      BY <1>1, <2>3, <2>4, <3>1
  <2>6. ~(pos <= HeadLen(form))
    BY <2>1, <2>2 DEF TextInv
  <2> DEFINE k == pos - HeadLen(form) - 1
  <2>7. k \in 0..Len(built) /\ pos > HeadLen(form)
    BY <1>1, <2>3, <2>5, <2>6
  <2>8. ReadSoFar(built, k, nodes, parents)
    BY <2>2, <2>7 DEF TextInv
  <2> HIDE DEF k
  <2>9. nodes = SubSeq(built, 1, k) /\ k # 0 /\ StackOK(built, k, parents)
    BY <2>1, <2>8 DEF ReadSoFar
  <2>10. Len(nodes) = k /\ nodes \in Seq(NodeRec) /\ \A j \in 1..k : nodes[j] = built[j]
    BY <1>1, <2>7, <2>9, FirstNodes
  <2>11. parents \in Seq(1..k) /\ \A l \in 1..Len(parents) : built[parents[l]].dir
    BY <2>9, Zenon DEF StackOK
  <2>12. i \in 1..Len(parents)
    BY <2>11
  <2>13. parents[i] \in 1..k
    BY <2>11, <2>12, ElementOfSeq
  <2>14. DOMAIN nodes = 1..k
    BY <2>10
  <2> QED
    BY <2>10, <2>11, <2>12, <2>13, <2>14
<1> QED
  BY <1>2 DEF CodecInv, CodecTypeOK, Results

(* The stack of the reader only ever names directories that were read.     *)
THEOREM CodecTypesHold == CodecSpec => []CodecTypeOK
BY CodecInvGivesTypes, CodecInvariant, PTL

(* Whatever tree of files of whatever size was stored, in the present form *)
(* or an older one, the decoder makes the same tree of it.                 *)
THEOREM StoredTreeIsRead == CodecSpec => []RoundTrip
<1>1. CodecInv => RoundTrip
  <2> SUFFICES ASSUME CodecInv, result = "read" PROVE nodes = built /\ total = FilesOf(built)
    BY DEF RoundTrip
  <2>1. built \in Seq(NodeRec) /\ form \in AllForms /\ Len(built) \in Nat /\ Len(built) >= 1
    <3>1. built \in Seq(NodeRec) /\ form \in AllForms /\ Len(built) >= 1
      BY DEF CodecInv, Ordered
    <3> QED
      BY <3>1
  <2>2. text # <<>> /\ TextInv
    BY DEF CodecInv
  <2>3. HeadLen(form) \in {4, 6}
    BY <2>1, HeadingLines
  <2>4. Len(text) = HeadLen(form) + Len(built)
    BY <2>1, <2>2, TextOfTree DEF TextInv
  <2>5. pos = Len(text) + 1
    BY <2>2 DEF TextInv
  <2>6. pos > HeadLen(form) /\ pos > 2 /\ pos - HeadLen(form) - 1 = Len(built)
    BY <2>1, <2>3, <2>4, <2>5
  <2>7. total = FilesOf(built) /\ ReadSoFar(built, pos - HeadLen(form) - 1, nodes, parents)
    BY <2>2, <2>6 DEF TextInv
  <2>8. nodes = SubSeq(built, 1, Len(built))
    BY <2>6, <2>7 DEF ReadSoFar
  <2> QED
    BY <2>1, <2>7, <2>8, SubSeqFull
<1> QED
  BY <1>1, CodecInvariant, PTL
-----------------------------------------------------------------------------
(***************************************************************************)
(* TreeSearch: trees of any size and whatever matches.                     *)
(***************************************************************************)
(* The node whose match ends the search below it, while it does.           *)
Pruned == stack[Len(stack) - pruneDepth + 1]

(* The walk: it is inside all the directories on the stack, each of them   *)
(* in the one before it.                                                   *)
WalkInv ==
    /\ Ordered(tree)
    /\ hits \subseteq 1..Len(tree)
    /\ place \in 1..Len(tree) + 1
    /\ stack \in Seq(1..place - 1)
    /\ matched \subseteq 1..place - 1
    /\ ~searching => place = 1 /\ hits = {}
    /\ stack = <<>> => place \in {1, Len(tree) + 1}
    /\ stack # <<>> => stack[1] = 1
    /\ \A l \in 1..Len(stack) : place - 1 <= SubtreeEnd(tree, stack[l])
    /\ \A k, l \in 1..Len(stack) :
          k < l => SubtreeEnd(tree, stack[l]) <= SubtreeEnd(tree, stack[k])

(* What is pruned is inside a match on the stack, the only one there that  *)
(* the visitor has found; all the others it found are behind.              *)
PruneInv ==
    /\ pruneDepth \in 0..Len(stack)
    /\ \A l \in 1..Len(stack) - pruneDepth : stack[l] \notin hits
    /\ pruneDepth > 0 => Pruned \in matched \cap hits
    /\ \A m \in matched \cap hits :
          SubtreeEnd(tree, m) < place \/ (pruneDepth > 0 /\ m = Pruned)

(* What the search promises, of the nodes so far.                          *)
FoundInv ==
    /\ \A n \in hits : n < place =>
          n \in matched \/ \E m \in matched \cap hits : n \in Below(tree, m)
    /\ \A m \in matched \cap hits : Below(tree, m) \cap matched = {}

SearchInv == WalkInv /\ PruneInv /\ FoundInv

(* Subtrees are nested; a file has none, and all is below the root.        *)
LEMMA SubtreesNest ==
    ASSUME NEW t, Ordered(t)
    PROVE  /\ Len(t) \in Nat /\ Len(t) >= 1 /\ t[1].dir
           /\ \A d \in 1..Len(t) : SubtreeEnd(t, d) \in d..Len(t)
           /\ \A d \in 1..Len(t) : \A i \in Below(t, d) : SubtreeEnd(t, i) <= SubtreeEnd(t, d)
           /\ \A d \in 1..Len(t) : ~t[d].dir => SubtreeEnd(t, d) = d
           /\ SubtreeEnd(t, 1) = Len(t)
<1>1. /\ t \in Seq(NodeRec) /\ Len(t) >= 1 /\ t[1] = Dir(<<>>)
      /\ \A i \in 2..Len(t) : Follows(t[i], t[i - 1])
  BY DEF Ordered
<1>2. Len(t) \in Nat /\ \A i \in 1..Len(t) : Len(t[i].path) \in Nat
  BY <1>1 DEF NodeRec
<1>3. t[1].dir /\ t[1].path = <<>>
  BY <1>1 DEF Dir
<1>4. ASSUME NEW d \in 1..Len(t)
      PROVE  /\ SubtreeEnd(t, d) \in d..Len(t)
             /\ \A j \in d + 1..SubtreeEnd(t, d) : Len(t[j].path) > Len(t[d].path)
             /\ SubtreeEnd(t, d) < Len(t) =>
                   Len(t[SubtreeEnd(t, d) + 1].path) <= Len(t[d].path)
  BY <1>1, SubtreeIsBelow
<1>5. ASSUME NEW d \in 1..Len(t), NEW i \in Below(t, d)
      PROVE  SubtreeEnd(t, i) <= SubtreeEnd(t, d)
  <2> DEFINE e == SubtreeEnd(t, d)
             s == SubtreeEnd(t, i)
  <2>1. e \in d..Len(t) /\ i \in d + 1..e /\ i \in 1..Len(t)
    BY <1>2, <1>4 DEF Below
  <2>2. s \in i..Len(t) /\ \A j \in i + 1..s : Len(t[j].path) > Len(t[i].path)
    BY <1>4, <2>1
  <2>3. Len(t[i].path) > Len(t[d].path) /\ (e < Len(t) => Len(t[e + 1].path) <= Len(t[d].path))
    BY <1>4, <2>1
  <2> HIDE DEF e, s
  <2> SUFFICES ASSUME s > e PROVE FALSE
    BY <1>2, <2>1, <2>2 DEF e, s
  <2>4. e + 1 \in i + 1..s /\ e < Len(t) /\ e + 1 \in 1..Len(t)
    BY <1>2, <2>1, <2>2
  <2> QED
    BY <1>2, <2>1, <2>2, <2>3, <2>4
<1>6. ASSUME NEW d \in 1..Len(t), ~t[d].dir PROVE SubtreeEnd(t, d) = d
  <2> SUFFICES ASSUME SubtreeEnd(t, d) # d PROVE FALSE
    OBVIOUS
  <2>1. d + 1 \in d + 1..SubtreeEnd(t, d) /\ d + 1 \in 2..Len(t) /\ (d + 1) - 1 = d
    BY <1>2, <1>4
  <2>2. Len(t[d + 1].path) > Len(t[d].path)
    BY <1>4, <2>1
  <2>3. Follows(t[d + 1], t[d])
    BY <1>1, <2>1
  <2>4. Len(t[d + 1].path) <= Len(t[d].path)
    BY <1>6, <2>3 DEF Follows
  <2> QED
    BY <1>2, <2>1, <2>2, <2>4
<1>7. SubtreeEnd(t, 1) = Len(t)
  <2> SUFFICES ASSUME SubtreeEnd(t, 1) # Len(t) PROVE FALSE
    OBVIOUS
  <2> DEFINE e == SubtreeEnd(t, 1)
  <2>1. 1 \in 1..Len(t) /\ e \in 1..Len(t) /\ e < Len(t) /\ e + 1 \in 2..Len(t) /\ e + 1 \in 1..Len(t)
    BY <1>1, <1>2, <1>4
  <2>2. Len(t[e + 1].path) <= Len(t[1].path)
    BY <1>4, <2>1
  <2>3. Len(t[e + 1].path) >= 1 /\ Len(t[1].path) = 0
    BY <1>1, <1>3, <2>1 DEF Follows
  <2> HIDE DEF e
  <2> QED
    BY <1>2, <2>1, <2>2, <2>3
<1> QED
  BY <1>1, <1>2, <1>3, <1>4, <1>5, <1>6, <1>7

(* A match that is added brings some of the open directories; a directory  *)
(* that is open itself brings none.                                        *)
LEMMA MatchIsAdded ==
    ASSUME NEW n \in Nat, NEW open \in Seq(1..n), matched \subseteq 1..n - 1
    PROVE  /\ AddWithAncestors(n, open) \subseteq
                matched \cup {n} \cup {open[i] : i \in 1..Len(open)}
           /\ matched \cup {n} \subseteq AddWithAncestors(n, open)
           /\ open # <<>> /\ open[Len(open)] = n =>
                AddWithAncestors(n, open) = matched \cup {n}
<1> DEFINE found == matched \cup {n}
           known == {i \in DOMAIN open : open[i] \in found}
           first == IF known = {} THEN 1 ELSE 1 + Max(known)
<1>1. n \notin matched
  OBVIOUS
<1>2. AddWithAncestors(n, open) = found \cup {open[i] : i \in first..Len(open)}
  BY <1>1 DEF AddWithAncestors
<1>3. DOMAIN open = 1..Len(open) /\ Len(open) \in Nat
  OBVIOUS
<1>4. known \in SUBSET Int /\ IsFiniteSet(known)
  <2>1. IsFiniteSet(1..Len(open))
    BY <1>3, FS_Interval
  <2> QED
    BY <1>3, <2>1, FS_Subset
<1>5. known # {} => Max(known) \in known /\ \A x \in known : Max(known) >= x
  <2> HIDE DEF known
  <2> QED
    BY <1>4, MaxIsLargest
<1>6. first \in Nat /\ first >= 1
  <2> HIDE DEF known
  <2>1. known \subseteq 1..Len(open)
    BY <1>3 DEF known
  <2>2. CASE known = {}
    BY <2>2
  <2>3. CASE known # {}
    <3>1. Max(known) \in 1..Len(open)
      BY <1>5, <2>1, <2>3
    <3>2. first = 1 + Max(known)
      BY <2>3
    <3> HIDE DEF first
    <3> QED
      BY <1>3, <3>1, <3>2
  <2> QED
    BY <2>2, <2>3
<1>7. ASSUME open # <<>>, open[Len(open)] = n PROVE first..Len(open) = {}
  <2>1. Len(open) \in known
    BY <1>3, <1>7
  <2>2. known # {} /\ Max(known) >= Len(open) /\ Max(known) \in Int
    <3> HIDE DEF known
    <3> QED
      BY <1>4, <1>5, <2>1
  <2>3. first = 1 + Max(known)
    BY <2>2
  <2> HIDE DEF known, first
  <2> QED
    BY <1>3, <2>2, <2>3
<1> HIDE DEF first, known
<1>8. \A i \in first..Len(open) : i \in 1..Len(open)
  BY <1>3, <1>6
<1>9. ASSUME open # <<>>, open[Len(open)] = n
      PROVE  AddWithAncestors(n, open) = matched \cup {n}
  BY <1>2, <1>7, <1>9
<1> QED
  BY <1>2, <1>8, <1>9

(* The walk comes to a node that is inside all the open directories.       *)
LEMMA NextIsInside ==
    ASSUME SearchInv, searching, IsNext
    PROVE  /\ place \in 1..Len(tree) /\ Len(tree) \in Nat
           /\ \A l \in 1..Len(stack) : place \in Below(tree, stack[l])
           /\ stack = <<>> => place = 1
<1>1. /\ Len(tree) \in Nat /\ Len(tree) >= 1
      /\ \A d \in 1..Len(tree) : SubtreeEnd(tree, d) \in d..Len(tree)
  BY SubtreesNest DEF SearchInv, WalkInv
<1>2. place \in 1..Len(tree) + 1 /\ stack \in Seq(1..place - 1) /\ Len(stack) \in Nat
  BY DEF SearchInv, WalkInv
<1>3. CASE stack = <<>>
  <2>1. place = 1 /\ Len(stack) = 0
    BY <1>3 DEF IsNext
  <2> QED
    BY <1>1, <1>3, <2>1
<1>4. CASE stack # <<>>
  <2> DEFINE top == Len(stack)
  <2>1. top \in 1..Len(stack) /\ \A l \in 1..Len(stack) : stack[l] \in 1..place - 1
    BY <1>2, <1>4
  <2>2. Last(stack) = stack[top]
    BY DEF Last
  <2>3. place \in stack[top] + 1..SubtreeEnd(tree, stack[top])
    BY <1>4, <2>2 DEF IsNext, Below
  <2>4. \A l \in 1..Len(stack) : stack[l] \in 1..Len(tree)
    BY <1>1, <1>2, <2>1
  <2>5. \A l \in 1..Len(stack) : SubtreeEnd(tree, stack[l]) \in stack[l]..Len(tree)
    BY <1>1, <2>4
  <2>6. ASSUME NEW l \in 1..Len(stack) PROVE SubtreeEnd(tree, stack[top]) <= SubtreeEnd(tree, stack[l])
    <3>1. CASE l = top
      BY <1>1, <2>1, <2>4, <2>5, <3>1
    <3>2. CASE l # top
      <4>1. l < top
        BY <1>2, <3>2
      <4> QED
        BY <2>1, <4>1 DEF SearchInv, WalkInv
    <3> QED
      BY <3>1, <3>2
  <2>7. ASSUME NEW l \in 1..Len(stack) PROVE place \in stack[l] + 1..SubtreeEnd(tree, stack[l])
    <3>1. stack[l] \in 1..place - 1 /\ SubtreeEnd(tree, stack[l]) \in stack[l]..Len(tree)
          /\ SubtreeEnd(tree, stack[top]) <= SubtreeEnd(tree, stack[l])
          /\ SubtreeEnd(tree, stack[top]) \in stack[top]..Len(tree)
          /\ stack[top] \in 1..place - 1
      BY <2>1, <2>5, <2>6
    <3>2. place \in Int /\ Len(tree) \in Nat
      BY <1>1, <1>2
    <3> HIDE DEF top
    <3>3. stack[l] + 1 <= place /\ stack[l] \in Int
      BY <3>1, <3>2
    <3>4. place <= SubtreeEnd(tree, stack[top])
      BY <2>3, <3>1, <3>2
    <3>5. place <= SubtreeEnd(tree, stack[l])
      BY <3>1, <3>2, <3>4
    <3> QED
      BY <3>1, <3>2, <3>3, <3>5
  <2>8. place \in 1..Len(tree)
    <3>1. stack[top] \in 1..place - 1 /\ SubtreeEnd(tree, stack[top]) \in stack[top]..Len(tree)
      BY <2>1, <2>5
    <3> HIDE DEF top
    <3> QED
      BY <1>1, <1>2, <2>3, <3>1
  <2> QED
    BY <1>1, <1>4, <2>7, <2>8 DEF Below
<1> QED
  BY <1>3, <1>4

(* What was found with its match over lies before the place, and nothing   *)
(* on the stack is in it.                                                  *)
LEMMA OverIsOver ==
    ASSUME SearchInv, searching, IsNext, NEW m \in matched, SubtreeEnd(tree, m) < place
    PROVE  /\ place \notin Below(tree, m)
           /\ \A l \in 1..Len(stack) : stack[l] \notin Below(tree, m)
<1>1. /\ Len(tree) \in Nat
      /\ \A d \in 1..Len(tree) : SubtreeEnd(tree, d) \in d..Len(tree)
      /\ \A d \in 1..Len(tree) : \A i \in Below(tree, d) :
            SubtreeEnd(tree, i) <= SubtreeEnd(tree, d)
  BY SubtreesNest DEF SearchInv, WalkInv
<1>2. place \in 1..Len(tree) /\ \A l \in 1..Len(stack) : place \in Below(tree, stack[l])
  BY NextIsInside
<1>3. /\ matched \subseteq 1..place - 1
      /\ stack \in Seq(1..place - 1) /\ Len(stack) \in Nat
  BY DEF SearchInv, WalkInv
<1>4. m \in 1..Len(tree) /\ SubtreeEnd(tree, m) \in m..Len(tree)
  <2>1. m \in 1..Len(tree)
    BY <1>1, <1>2, <1>3
  <2> QED
    BY <1>1, <2>1
<1>5. place \notin Below(tree, m)
  BY <1>1, <1>2, <1>4 DEF Below
<1>6. ASSUME NEW l \in 1..Len(stack), stack[l] \in Below(tree, m) PROVE FALSE
  <2>1. stack[l] \in 1..place - 1
    BY <1>2, <1>3
  <2>2. stack[l] \in 1..Len(tree)
    BY <1>1, <1>2, <2>1
  <2>3. SubtreeEnd(tree, stack[l]) <= SubtreeEnd(tree, m) /\ SubtreeEnd(tree, stack[l]) \in Nat
    BY <1>1, <1>4, <1>6, <2>2
  <2>4. place <= SubtreeEnd(tree, stack[l])
    BY <1>2 DEF Below
  <2> QED
    BY <1>1, <1>2, <1>4, <2>3, <2>4
<1> QED
  BY <1>5, <1>6

(* A directory is entered.                                                 *)
LEMMA EnterKeepsSearch ==
    ASSUME SearchInv, VisitDirEnter
    PROVE  SearchInv'
<1> DEFINE P == place
           len == Len(stack)
<1>1. /\ searching /\ IsNext /\ stack' = Append(stack, P) /\ place' = P + 1
      /\ tree' = tree /\ searching' = searching /\ hits' = hits
      /\ pruneDepth' = IF pruneDepth > 0 THEN pruneDepth + 1 ELSE IF P \in hits THEN 1 ELSE 0
      /\ matched' = IF pruneDepth = 0 /\ P \in hits THEN AddWithAncestors(P, stack') ELSE matched
  BY DEF VisitDirEnter
<1>2. /\ P \in 1..Len(tree) /\ Len(tree) \in Nat
      /\ \A l \in 1..len : P \in Below(tree, stack[l])
      /\ stack = <<>> => P = 1
  BY <1>1, NextIsInside
<1>3. /\ Ordered(tree) /\ hits \subseteq 1..Len(tree) /\ matched \subseteq 1..P - 1
      /\ stack \in Seq(1..P - 1) /\ len \in Nat /\ pruneDepth \in 0..len
      /\ stack # <<>> => stack[1] = 1
      /\ \A k, l \in 1..len : k < l => SubtreeEnd(tree, stack[l]) <= SubtreeEnd(tree, stack[k])
  BY DEF SearchInv, WalkInv, PruneInv
<1>4. /\ \A d \in 1..Len(tree) : SubtreeEnd(tree, d) \in d..Len(tree)
      /\ \A d \in 1..Len(tree) : \A i \in Below(tree, d) :
            SubtreeEnd(tree, i) <= SubtreeEnd(tree, d)
  BY <1>3, SubtreesNest
<1>5. \A l \in 1..len : stack[l] \in 1..P - 1 /\ stack[l] \in 1..Len(tree)
  <2>1. \A l \in 1..len : stack[l] \in 1..P - 1
    BY <1>2, <1>3
  <2> QED
    BY <1>2, <2>1
<1>6. /\ stack' \in Seq(1..P) /\ Len(stack') = len + 1 /\ stack'[len + 1] = P
      /\ \A l \in 1..len : stack'[l] = stack[l]
      /\ stack' # <<>>
  <2>1. stack \in Seq(1..P) /\ P \in 1..P
    <3>1. \A l \in 1..len : stack[l] \in 1..P
      BY <1>2, <1>5
    <3> QED
      BY <1>2, <1>3, <3>1
  <2> HIDE DEF P
  <2>2. /\ Append(stack, P) \in Seq(1..P) /\ Len(Append(stack, P)) = len + 1
        /\ Append(stack, P)[len + 1] = P
        /\ \A l \in 1..len : Append(stack, P)[l] = stack[l]
    BY <2>1
  <2>3. Len(stack') # 0
    BY <1>1, <1>3, <2>2
  <2> QED
    BY <1>1, <2>2, <2>3
<1> HIDE DEF P, len
<1>7. pruneDepth = 0 /\ P \in hits => matched' = matched \cup {P}
  <2>1. P \in Nat /\ stack' # <<>> /\ stack'[Len(stack')] = P
    BY <1>2, <1>6
  <2> QED
    BY <1>1, <1>3, <1>6, <2>1, MatchIsAdded
<1>8. matched' \subseteq 1..P
  <2>1. matched' \subseteq matched \cup {P}
    BY <1>1, <1>7
  <2>2. P \in 1..P /\ matched \subseteq 1..P
    BY <1>2, <1>3
  <2> QED
    BY <2>1, <2>2
<1>9. WalkInv'
  <2>1. stack'[1] = 1
    <3>1. CASE len = 0
      <4>1. stack = <<>>
        BY <1>3, <3>1 DEF len
      <4> QED
        BY <1>2, <1>6, <3>1, <4>1
    <3>2. CASE len # 0
      <4>1. 1 \in 1..len /\ stack # <<>>
        BY <1>3, <3>2 DEF len
      <4> QED
        BY <1>3, <1>6, <4>1
    <3> QED
      BY <3>1, <3>2
  <2>2. \A l \in 1..len + 1 : P <= SubtreeEnd(tree, stack'[l])
    <3> SUFFICES ASSUME NEW l \in 1..len + 1 PROVE P <= SubtreeEnd(tree, stack'[l])
      OBVIOUS
    <3>1. CASE l \in 1..len
      <4>1. P \in stack[l] + 1..SubtreeEnd(tree, stack[l]) /\ SubtreeEnd(tree, stack[l]) \in Nat
        BY <1>2, <1>4, <1>5, <3>1 DEF Below
      <4> QED
        BY <1>2, <1>6, <3>1, <4>1
    <3>2. CASE l = len + 1
      <4>1. SubtreeEnd(tree, P) \in P..Len(tree)
        BY <1>2, <1>4
      <4> QED
        BY <1>2, <1>6, <3>2, <4>1
    <3> QED
      BY <1>3, <3>1, <3>2
  <2>3. \A k, l \in 1..len + 1 : k < l => SubtreeEnd(tree, stack'[l]) <= SubtreeEnd(tree, stack'[k])
    <3> SUFFICES ASSUME NEW k \in 1..len + 1, NEW l \in 1..len + 1, k < l
                 PROVE  SubtreeEnd(tree, stack'[l]) <= SubtreeEnd(tree, stack'[k])
      OBVIOUS
    <3>1. k \in 1..len
      BY <1>3
    <3>2. CASE l \in 1..len
      BY <1>3, <1>6, <3>1, <3>2
    <3>3. CASE l = len + 1
      BY <1>2, <1>4, <1>5, <1>6, <3>1, <3>3
    <3> QED
      BY <1>3, <3>2, <3>3
  <2>4. place' \in 1..Len(tree) + 1 /\ place' - 1 = P
    BY <1>1, <1>2
  <2> QED
    BY <1>1, <1>3, <1>6, <1>8, <2>1, <2>2, <2>3, <2>4 DEF WalkInv
<1>10. CASE pruneDepth > 0
  <2> DEFINE p == len - pruneDepth + 1
  <2>1. p \in 1..len /\ Len(stack') - pruneDepth' + 1 = p /\ pruneDepth' = pruneDepth + 1
        /\ matched' = matched /\ Len(stack') - pruneDepth' = len - pruneDepth
    BY <1>1, <1>3, <1>6, <1>10
  <2>2. Pruned = stack[p] /\ Pruned' = stack[p]
    <3>1. Pruned = stack[p]
      BY DEF Pruned, len
    <3>2. Pruned' = stack'[p]
      BY <2>1 DEF Pruned
    <3> QED
      BY <1>6, <2>1, <3>1, <3>2
  <2> HIDE DEF p
  <2>3. P \in Below(tree, Pruned) /\ Pruned \in matched \cap hits
    BY <1>2, <1>10, <2>1, <2>2 DEF SearchInv, PruneInv
  <2>4. PruneInv'
    <3>1. pruneDepth' \in 0..Len(stack')
      BY <1>3, <1>6, <2>1
    <3>2. \A l \in 1..Len(stack') - pruneDepth' : stack'[l] \notin hits'
      <4>1. \A l \in 1..len - pruneDepth : stack[l] \notin hits /\ l \in 1..len
        BY <1>3 DEF SearchInv, PruneInv, len
      <4> QED
        BY <1>1, <1>6, <2>1, <4>1
    <3>3. \A m \in matched' \cap hits' :
            SubtreeEnd(tree', m) < place' \/ (pruneDepth' > 0 /\ m = Pruned')
      <4> SUFFICES ASSUME NEW m \in matched \cap hits
                   PROVE  SubtreeEnd(tree, m) < P + 1 \/ m = Pruned
        <5>1. pruneDepth' > 0
          BY <1>3, <1>10, <2>1
        <5> QED
          BY <1>1, <2>1, <2>2, <5>1
      <4>1. SubtreeEnd(tree, m) < P \/ m = Pruned
        BY DEF SearchInv, PruneInv, P
      <4>2. SubtreeEnd(tree, m) \in Nat
        BY <1>2, <1>3, <1>4
      <4> QED
        BY <1>2, <4>1, <4>2
    <3> QED
      BY <1>1, <2>1, <2>2, <2>3, <3>1, <3>2, <3>3 DEF PruneInv
  <2>5. FoundInv'
    <3> SUFFICES ASSUME NEW n \in hits, n < P + 1
                 PROVE  n \in matched \/ \E m \in matched \cap hits : n \in Below(tree, m)
      BY <1>1, <2>1 DEF SearchInv, FoundInv, Below
    <3>1. CASE n < P
      BY <3>1 DEF SearchInv, FoundInv, P
    <3>2. CASE n = P
      BY <2>3, <3>2
    <3> QED
      BY <1>2, <1>3, <3>1, <3>2
  <2> QED
    BY <1>9, <2>4, <2>5 DEF SearchInv
<1>11. CASE pruneDepth = 0
  <2>1. /\ \A l \in 1..len : stack[l] \notin hits
        /\ \A m \in matched \cap hits : SubtreeEnd(tree, m) < P
        /\ \A n \in hits : n < P =>
              n \in matched \/ \E m \in matched \cap hits : n \in Below(tree, m)
        /\ \A m \in matched \cap hits : Below(tree, m) \cap matched = {}
    <3>1. len - pruneDepth = len
      BY <1>3, <1>11
    <3> QED
      BY <1>11, <3>1 DEF SearchInv, PruneInv, FoundInv, P, len
  <2>2. \A m \in matched \cap hits : P \notin Below(tree, m) /\ SubtreeEnd(tree, m) \in Nat
    BY <1>1, <1>2, <1>3, <1>4, <2>1, OverIsOver DEF P
  <2>3. CASE P \in hits
    <3>1. pruneDepth' = 1 /\ matched' = matched \cup {P} /\ Len(stack') - pruneDepth' = len
      BY <1>1, <1>3, <1>6, <1>7, <1>11, <2>3
    <3>2. Pruned' = P
      <4>1. Len(stack') - pruneDepth' + 1 = len + 1
        BY <1>3, <1>6, <3>1
      <4> QED
        BY <1>6, <4>1 DEF Pruned
    <3>3. PruneInv'
      <4>1. pruneDepth' \in 0..Len(stack')
        BY <1>3, <1>6, <3>1
      <4>2. \A m \in matched' \cap hits' : SubtreeEnd(tree', m) < place' \/ m = Pruned'
        BY <1>1, <1>2, <2>1, <2>2, <3>1, <3>2
      <4>3. \A l \in 1..Len(stack') - pruneDepth' : stack'[l] \notin hits'
        BY <1>1, <1>6, <2>1, <3>1
      <4>4. pruneDepth' > 0 /\ Pruned' \in matched' \cap hits'
        BY <1>1, <2>3, <3>1, <3>2
      <4> QED
        BY <4>1, <4>2, <4>3, <4>4 DEF PruneInv
    <3>4. FoundInv'
      <4>1. \A n \in hits : n < P + 1 => n < P \/ n = P
        BY <1>2, <1>3
      <4>2. \A n \in hits : n < P + 1 =>
              n \in matched' \/ \E m \in matched' \cap hits : n \in Below(tree, m)
        BY <2>1, <3>1, <4>1
      <4>3. Below(tree, P) \cap matched' = {}
        <5>1. \A i \in Below(tree, P) : i > P
          BY <1>2, <1>4 DEF Below
        <5>2. \A i \in matched' : i <= P /\ i \in Int
          BY <1>2, <1>8
        <5> QED
          BY <1>2, <5>1, <5>2
      <4>4. \A m \in matched \cap hits : Below(tree, m) \cap matched' = {}
        BY <2>1, <2>2, <3>1
      <4> QED
        BY <1>1, <3>1, <4>2, <4>3, <4>4 DEF FoundInv, Below
    <3> QED
      BY <1>9, <3>3, <3>4 DEF SearchInv
  <2>4. CASE P \notin hits
    <3>1. pruneDepth' = 0 /\ matched' = matched /\ Len(stack') - pruneDepth' = len + 1
      BY <1>1, <1>3, <1>6, <1>11, <2>4
    <3>2. \A l \in 1..len + 1 : stack'[l] \notin hits
      <4>1. \A l \in 1..len + 1 : l \in 1..len \/ l = len + 1
        BY <1>3
      <4> QED
        BY <1>6, <2>1, <2>4, <4>1
    <3>3. PruneInv'
      <4>1. \A m \in matched' \cap hits' : SubtreeEnd(tree', m) < place'
        BY <1>1, <1>2, <2>1, <2>2, <3>1
      <4>2. pruneDepth' \in 0..Len(stack')
        BY <1>3, <1>6, <3>1
      <4>3. \A l \in 1..Len(stack') - pruneDepth' : stack'[l] \notin hits'
        BY <1>1, <3>1, <3>2
      <4>4. ~(pruneDepth' > 0)
        BY <3>1
      <4> QED
        BY <4>1, <4>2, <4>3, <4>4 DEF PruneInv
    <3>4. FoundInv'
      <4>1. \A n \in hits : n < P + 1 => n < P
        BY <1>2, <1>3, <2>4
      <4> QED
        BY <1>1, <2>1, <3>1, <4>1 DEF FoundInv, Below
    <3> QED
      BY <1>9, <3>3, <3>4 DEF SearchInv
  <2> QED
    BY <2>3, <2>4
<1> QED
  BY <1>3, <1>10, <1>11

(* A file is visited.                                                      *)
LEMMA FileKeepsSearch ==
    ASSUME SearchInv, VisitFile
    PROVE  SearchInv'
<1> DEFINE P == place
           len == Len(stack)
<1>1. /\ searching /\ IsNext /\ ~tree[P].dir /\ place' = P + 1
      /\ tree' = tree /\ searching' = searching /\ hits' = hits
      /\ stack' = stack /\ pruneDepth' = pruneDepth
      /\ matched' = IF pruneDepth = 0 /\ P \in hits THEN AddWithAncestors(P, stack) ELSE matched
  BY DEF VisitFile
<1>2. /\ P \in 1..Len(tree) /\ Len(tree) \in Nat
      /\ \A l \in 1..len : P \in Below(tree, stack[l])
      /\ stack = <<>> => P = 1
  BY <1>1, NextIsInside
<1>3. /\ Ordered(tree) /\ hits \subseteq 1..Len(tree) /\ matched \subseteq 1..P - 1
      /\ stack \in Seq(1..P - 1) /\ len \in Nat /\ pruneDepth \in 0..len
      /\ stack # <<>> => stack[1] = 1
      /\ \A k, l \in 1..len : k < l => SubtreeEnd(tree, stack[l]) <= SubtreeEnd(tree, stack[k])
  BY DEF SearchInv, WalkInv, PruneInv
<1>4. /\ \A d \in 1..Len(tree) : SubtreeEnd(tree, d) \in d..Len(tree)
      /\ SubtreeEnd(tree, P) = P /\ tree[1].dir
  BY <1>1, <1>2, <1>3, SubtreesNest
<1>5. \A l \in 1..len : stack[l] \in 1..P - 1 /\ stack[l] \in 1..Len(tree)
  <2>1. \A l \in 1..len : stack[l] \in 1..P - 1
    BY <1>2, <1>3
  <2> QED
    BY <1>2, <2>1
<1>6. stack' \in Seq(1..P) /\ stack' # <<>>
  <2>1. \A l \in 1..len : stack[l] \in 1..P
    BY <1>2, <1>5
  <2>2. P # 1
    BY <1>1, <1>4
  <2> QED
    BY <1>1, <1>2, <1>3, <2>1, <2>2
<1> HIDE DEF P, len
<1>7. pruneDepth = 0 /\ P \in hits =>
        /\ matched' \subseteq matched \cup {P} \cup {stack[i] : i \in 1..len}
        /\ matched \cup {P} \subseteq matched'
  <2>1. P \in Nat /\ stack \in Seq(1..P)
    BY <1>1, <1>2, <1>6
  <2> QED
    BY <1>1, <1>3, <2>1, MatchIsAdded DEF len
<1>8. matched' \subseteq 1..P
  <2>1. P \in 1..P /\ matched \subseteq 1..P
    BY <1>2, <1>3
  <2>2. \A i \in 1..len : stack[i] \in 1..P
    BY <1>2, <1>5
  <2> QED
    BY <1>1, <1>7, <2>1, <2>2
<1>9. WalkInv'
  <2>1. place' \in 1..Len(tree) + 1 /\ place' - 1 = P
    BY <1>1, <1>2
  <2>2. ASSUME NEW l \in 1..len PROVE P <= SubtreeEnd(tree, stack[l])
    <3>1. P \in stack[l] + 1..SubtreeEnd(tree, stack[l]) /\ SubtreeEnd(tree, stack[l]) \in Nat
      BY <1>2, <1>4, <1>5 DEF Below
    <3> QED
      BY <1>2, <3>1
  <2> QED
    BY <1>1, <1>3, <1>6, <1>8, <2>1, <2>2 DEF WalkInv, len
<1>10. Pruned' = Pruned
  BY <1>1 DEF Pruned
<1>11. /\ \A l \in 1..len - pruneDepth : stack[l] \notin hits
       /\ pruneDepth > 0 => Pruned \in matched \cap hits
       /\ \A m \in matched \cap hits :
             SubtreeEnd(tree, m) < P \/ (pruneDepth > 0 /\ m = Pruned)
       /\ \A n \in hits : n < P =>
             n \in matched \/ \E m \in matched \cap hits : n \in Below(tree, m)
       /\ \A m \in matched \cap hits : Below(tree, m) \cap matched = {}
  BY DEF SearchInv, PruneInv, FoundInv, P, len
<1>12. \A m \in matched \cap hits :
          m \in 1..Len(tree) /\ SubtreeEnd(tree, m) \in Nat
  BY <1>2, <1>3, <1>4
<1>13. CASE ~(pruneDepth = 0 /\ P \in hits)
  <2>1. matched' = matched
    BY <1>1, <1>13
  <2>2. PruneInv'
    <3>1. \A m \in matched \cap hits :
             SubtreeEnd(tree, m) < P + 1 \/ (pruneDepth > 0 /\ m = Pruned)
      BY <1>2, <1>11, <1>12
    <3> QED
      BY <1>1, <1>3, <1>10, <1>11, <2>1, <3>1 DEF PruneInv, len
  <2>3. ASSUME NEW n \in hits, n < P + 1
        PROVE  n \in matched \/ \E m \in matched \cap hits : n \in Below(tree, m)
    <3>1. CASE n < P
      BY <1>11, <3>1
    <3>2. CASE n = P
      <4>1. pruneDepth > 0 /\ pruneDepth \in Nat
        BY <1>3, <1>13, <3>2
      <4>2. len - pruneDepth + 1 \in 1..len
        BY <1>3, <4>1
      <4>3. P \in Below(tree, Pruned)
        BY <1>2, <4>2 DEF Pruned, len
      <4> QED
        BY <1>11, <3>2, <4>1, <4>3
    <3> QED
      BY <1>2, <1>3, <2>3, <3>1, <3>2
  <2>4. FoundInv'
    BY <1>1, <1>11, <2>1, <2>3 DEF FoundInv, Below
  <2> QED
    BY <1>9, <2>2, <2>4 DEF SearchInv
<1>14. CASE pruneDepth = 0 /\ P \in hits
  <2>1. len - pruneDepth = len /\ \A l \in 1..len : stack[l] \notin hits
    BY <1>3, <1>11, <1>14
  <2>2. /\ matched' \subseteq matched \cup {P} \cup {stack[i] : i \in 1..len}
        /\ matched \cup {P} \subseteq matched'
    BY <1>7, <1>14
  <2>3. matched' \cap hits = (matched \cap hits) \cup {P}
    BY <1>14, <2>1, <2>2
  <2>4. ASSUME NEW m \in matched \cap hits
        PROVE  /\ SubtreeEnd(tree, m) < P + 1
               /\ P \notin Below(tree, m)
               /\ \A l \in 1..len : stack[l] \notin Below(tree, m)
    <3>1. SubtreeEnd(tree, m) < P
      BY <1>11, <1>14
    <3>2. SubtreeEnd(tree, m) < P + 1
      BY <1>2, <1>12, <3>1
    <3> QED
      BY <1>1, <3>1, <3>2, OverIsOver DEF P, len
  <2>5. PruneInv'
    <3>1. SubtreeEnd(tree, P) < P + 1
      BY <1>2, <1>4
    <3>2. \A m \in matched' \cap hits' : SubtreeEnd(tree', m) < place'
      BY <1>1, <2>3, <2>4, <3>1
    <3>3. pruneDepth' \in 0..Len(stack') /\ ~(pruneDepth' > 0)
      BY <1>1, <1>3, <1>14 DEF len
    <3>4. \A l \in 1..Len(stack') - pruneDepth' : stack'[l] \notin hits'
      BY <1>1, <2>1 DEF len
    <3> QED
      BY <3>2, <3>3, <3>4 DEF PruneInv
  <2>6. Below(tree, P) = {}
    BY <1>2, <1>4 DEF Below
  <2>7. \A m \in matched \cap hits : Below(tree, m) \cap matched' = {}
    BY <1>11, <2>2, <2>4
  <2>8. \A n \in hits : n < P + 1 =>
          n \in matched' \/ \E m \in matched' \cap hits : n \in Below(tree, m)
    <3>1. \A n \in hits : n < P + 1 => n < P \/ n = P
      BY <1>2, <1>3
    <3> QED
      BY <1>11, <2>2, <2>3, <3>1
  <2>9. FoundInv'
    BY <1>1, <2>3, <2>6, <2>7, <2>8 DEF FoundInv, Below
  <2> QED
    BY <1>9, <2>5, <2>9 DEF SearchInv
<1> QED
  BY <1>13, <1>14

(* A directory is left: all below it was visited.                          *)
LEMMA ExitKeepsSearch ==
    ASSUME SearchInv, VisitDirExit
    PROVE  SearchInv'
<1> DEFINE P == place
           len == Len(stack)
<1>1. /\ searching /\ ~IsNext /\ stack # <<>> /\ stack' = Front(stack)
      /\ pruneDepth' = DepthOutside(pruneDepth)
      /\ tree' = tree /\ searching' = searching /\ hits' = hits
      /\ place' = P /\ matched' = matched
  BY DEF VisitDirExit
<1>2. /\ Ordered(tree) /\ hits \subseteq 1..Len(tree) /\ matched \subseteq 1..P - 1
      /\ P \in 1..Len(tree) + 1
      /\ stack \in Seq(1..P - 1) /\ len \in Nat /\ pruneDepth \in 0..len
      /\ stack[1] = 1
      /\ \A l \in 1..len : P - 1 <= SubtreeEnd(tree, stack[l])
      /\ \A k, l \in 1..len : k < l => SubtreeEnd(tree, stack[l]) <= SubtreeEnd(tree, stack[k])
  BY <1>1 DEF SearchInv, WalkInv, PruneInv
<1>3. /\ \A d \in 1..Len(tree) : SubtreeEnd(tree, d) \in d..Len(tree)
      /\ SubtreeEnd(tree, 1) = Len(tree) /\ Len(tree) \in Nat
  BY <1>2, SubtreesNest
<1>4. len >= 1 /\ Last(stack) = stack[len]
  <2>1. len # 0
    BY <1>1, <1>2
  <2> QED
    BY <1>2, <2>1 DEF Last
<1>5. /\ stack' \in Seq(1..P - 1) /\ Len(stack') = len - 1
      /\ \A l \in 1..len - 1 : stack'[l] = stack[l] /\ l \in 1..len
  <2> DEFINE S == 1..P - 1
             k == len - 1
             s == SubSeq(stack, 1, k)
  <2>1. stack' = s
    BY <1>1 DEF Front
  <2>2. stack \in Seq(S) /\ k \in Nat /\ 1 \in Int /\ k \in Int /\ k <= Len(stack)
    BY <1>2, <1>4
  <2>3. /\ \A i \in 1..k : i \in 1..len
        /\ \A i \in 1..k : i \in 1..k - 1 + 1 /\ 1 + i - 1 = i
    BY <1>2, <1>4
  <2> HIDE DEF k, len, P, S
  <2>4. \A i \in 1..k : stack[i] \in S
    BY <2>2
  <2>5. /\ s \in Seq(S) /\ Len(s) = IF 1 <= k THEN k - 1 + 1 ELSE 0
        /\ \A i \in 1..k - 1 + 1 : s[i] = stack[1 + i - 1]
    BY <2>2, <2>4, SubSeqProperties
  <2> HIDE DEF s
  <2>6. Len(s) = k /\ \A i \in 1..k : s[i] = stack[i]
    BY <2>2, <2>3, <2>5
  <2> QED
    BY <2>1, <2>3, <2>5, <2>6 DEF S, k
<1> HIDE DEF P, len
<1>6. SubtreeEnd(tree, stack[len]) < P
  <2>1. stack[len] \in 1..P - 1 /\ len \in 1..len
    BY <1>2, <1>4 DEF len
  <2>2. stack[len] \in 1..Len(tree) /\ P \in Int
    BY <1>2, <1>3, <2>1
  <2>3. SubtreeEnd(tree, stack[len]) \in stack[len]..Len(tree)
    BY <1>3, <2>2
  <2>4. P \notin stack[len] + 1..SubtreeEnd(tree, stack[len])
    BY <1>1, <1>4 DEF IsNext, Below, P
  <2> QED
    BY <1>3, <2>1, <2>2, <2>3, <2>4
<1>7. WalkInv'
  <2>1. stack' = <<>> => P = Len(tree) + 1
    <3> SUFFICES ASSUME stack' = <<>> PROVE P = Len(tree) + 1
      OBVIOUS
    <3>1. len = 1
      BY <1>2, <1>5
    <3>2. Len(tree) < P
      BY <1>2, <1>3, <1>6, <3>1
    <3> QED
      BY <1>2, <1>3, <3>2
  <2>2. stack' # <<>> => stack'[1] = 1
    <3> SUFFICES ASSUME stack' # <<>> PROVE stack'[1] = 1
      OBVIOUS
    <3>1. Len(stack') # 0
      BY <1>5
    <3>2. 1 \in 1..len - 1
      BY <1>2, <1>5, <3>1
    <3> QED
      BY <1>2, <1>5, <3>2
  <2> QED
    BY <1>1, <1>2, <1>5, <2>1, <2>2 DEF WalkInv
<1>8. /\ \A l \in 1..len - pruneDepth : stack[l] \notin hits
      /\ pruneDepth > 0 => Pruned \in matched \cap hits
      /\ \A m \in matched \cap hits :
            SubtreeEnd(tree, m) < P \/ (pruneDepth > 0 /\ m = Pruned)
  BY DEF SearchInv, PruneInv, P, len
<1>9. FoundInv'
  BY <1>1 DEF SearchInv, FoundInv, Below, P
<1>10. PruneInv'
  <2>1. CASE pruneDepth = 0
    <3>1. pruneDepth' = 0 /\ Len(stack') - pruneDepth' = len - 1 /\ len - pruneDepth = len
      BY <1>1, <1>2, <1>5, <2>1 DEF DepthOutside
    <3>2. \A l \in 1..Len(stack') - pruneDepth' : stack'[l] \notin hits'
      BY <1>1, <1>5, <1>8, <3>1
    <3>3. pruneDepth' \in 0..Len(stack') /\ ~(pruneDepth' > 0)
      BY <1>2, <1>4, <1>5, <3>1
    <3>4. \A m \in matched' \cap hits' : SubtreeEnd(tree', m) < place'
      BY <1>1, <1>8, <2>1
    <3> QED
      BY <3>2, <3>3, <3>4 DEF PruneInv
  <2>2. CASE pruneDepth > 0
    <3> DEFINE p == len - pruneDepth + 1
    <3>1. /\ pruneDepth' = pruneDepth - 1 /\ p \in 1..len /\ Len(stack') - pruneDepth' + 1 = p
          /\ Len(stack') - pruneDepth' = len - pruneDepth
          /\ len - pruneDepth \in 0..len - 1
      BY <1>1, <1>2, <1>5, <2>2 DEF DepthOutside
    <3>2. pruneDepth' \in 0..Len(stack')
      BY <1>2, <1>5, <2>2, <3>1
    <3>3. \A l \in 1..Len(stack') - pruneDepth' : stack'[l] \notin hits'
      <4>1. \A l \in 1..len - pruneDepth : l \in 1..len - 1
        BY <1>2, <3>1
      <4> QED
        BY <1>1, <1>5, <1>8, <3>1, <4>1
    <3>4. Pruned = stack[p] /\ Pruned' = stack'[p]
      BY <3>1 DEF Pruned, len
    <3>5. CASE pruneDepth' > 0
      <4>1. p \in 1..len - 1
        BY <1>2, <3>1, <3>5
      <4>2. Pruned' = Pruned
        BY <1>5, <3>4, <4>1
      <4>3. \A m \in matched' \cap hits' :
               SubtreeEnd(tree', m) < place' \/ (pruneDepth' > 0 /\ m = Pruned')
        BY <1>1, <1>8, <3>5, <4>2
      <4>4. Pruned' \in matched' \cap hits'
        BY <1>1, <1>8, <2>2, <4>2
      <4> QED
        BY <3>2, <3>3, <4>3, <4>4 DEF PruneInv
    <3>6. CASE ~(pruneDepth' > 0)
      <4>1. p = len
        BY <1>2, <2>2, <3>1, <3>6
      <4>2. SubtreeEnd(tree, Pruned) < P
        BY <1>6, <3>4, <4>1
      <4>3. \A m \in matched' \cap hits' : SubtreeEnd(tree', m) < place'
        BY <1>1, <1>8, <4>2
      <4> QED
        BY <3>2, <3>3, <3>6, <4>3 DEF PruneInv
    <3> QED
      BY <3>5, <3>6
  <2> QED
    BY <1>2, <2>1, <2>2
<1> QED
  BY <1>7, <1>9, <1>10 DEF SearchInv

(* The tree is built, and the search begins.                               *)
LEMMA BeginKeepsSearch ==
    ASSUME SearchInv, SearchNodes \/ \E path \in SearchPaths : Add(path)
    PROVE  SearchInv'
<1>1. /\ ~searching /\ place = 1
      /\ UNCHANGED <<place, stack, matched, pruneDepth>>
      /\ searching' \/ hits' = {}
  BY DEF SearchInv, WalkInv, SearchNodes, Add
<1>2. stack = <<>> /\ matched = {} /\ Len(stack) = 0 /\ pruneDepth = 0
  <2>1. 1..place - 1 = {} /\ stack \in Seq(1..place - 1) /\ matched \subseteq 1..place - 1
        /\ pruneDepth \in 0..Len(stack)
    BY <1>1 DEF SearchInv, WalkInv, PruneInv
  <2>2. Len(stack) = 0
    <3> DEFINE S == 1..place - 1
    <3>1. S = {} /\ stack \in Seq(S)
      BY <2>1
    <3> HIDE DEF S
    <3>2. Len(stack) \in Nat /\ \A l \in 1..Len(stack) : stack[l] \in S
      BY <3>1
    <3> QED
      BY <3>1, <3>2
  <2> QED
    BY <2>1, <2>2
<1>3. Ordered(tree') /\ hits' \subseteq 1..Len(tree')
  <2>1. Ordered(tree) /\ tree \in Seq(NodeRec)
    BY DEF SearchInv, WalkInv, Ordered
  <2>2. CASE SearchNodes
    <3>1. tree' = tree /\ hits' \subseteq DOMAIN tree
      BY <2>2 DEF SearchNodes
    <3> QED
      BY <2>1, <3>1
  <2>3. CASE \E path \in SearchPaths : Add(path)
    <3>1. PICK path \in SearchPaths : Add(path)
      BY <2>3
    <3>2. path \in Seq(STRING) \ {<<>>} /\ FilesOf(tree) + 1 \in Nat
      BY <2>1, SearchAssumption, FilesAreCounted
    <3>3. Ordered(tree')
      BY <2>1, <3>1, <3>2, BuildKeepsOrder DEF Add
    <3>4. hits = {} /\ hits' = hits
      BY <1>1, <3>1 DEF Add, SearchInv, WalkInv
    <3> QED
      BY <3>3, <3>4
  <2> QED
    BY <2>2, <2>3
<1>4. Len(tree') \in Nat /\ Len(tree') >= 1
  BY <1>3, SubtreesNest
<1>5. WalkInv'
  BY <1>1, <1>2, <1>3, <1>4 DEF WalkInv
<1>6. PruneInv' /\ FoundInv'
  <2>1. \A n \in hits' : ~(n < place')
    BY <1>1, <1>3, <1>4
  <2> QED
    BY <1>1, <1>2, <2>1 DEF PruneInv, FoundInv
<1> QED
  BY <1>5, <1>6 DEF SearchInv

(* It holds before anything was added,                                     *)
LEMMA SearchInvInit == SearchInit => SearchInv
<1> SUFFICES ASSUME SearchInit PROVE SearchInv
  OBVIOUS
<1>1. /\ tree = NewTree /\ hits = {} /\ place = 1 /\ stack = <<>> /\ matched = {}
      /\ pruneDepth = 0 /\ searching = FALSE /\ Len(stack) = 0
  BY DEF SearchInit
<1>2. Ordered(tree)
  BY <1>1, NewTreeIsOrdered
<1>3. Len(tree) \in Nat
  BY <1>2, SubtreesNest
<1> QED
  BY <1>1, <1>2, <1>3 DEF SearchInv, WalkInv, PruneInv, FoundInv

(* and after each step,                                                    *)
LEMMA SearchInvStep == SearchInv /\ [SearchNext]_searchVars => SearchInv'
<1> SUFFICES ASSUME SearchInv, [SearchNext]_searchVars PROVE SearchInv'
  OBVIOUS
<1>1. CASE SearchNodes \/ \E path \in SearchPaths : Add(path)
  BY <1>1, BeginKeepsSearch
<1>2. CASE VisitDirEnter
  BY <1>2, EnterKeepsSearch
<1>3. CASE VisitDirExit
  BY <1>3, ExitKeepsSearch
<1>4. CASE VisitFile
  BY <1>4, FileKeepsSearch
<1>5. CASE UNCHANGED searchVars
  BY <1>5 DEF searchVars, SearchInv, WalkInv, PruneInv, FoundInv, Pruned, Below
<1> QED
  BY <1>1, <1>2, <1>3, <1>4, <1>5 DEF SearchNext

(* and so always.                                                          *)
LEMMA SearchInvariant == SearchSpec => []SearchInv
BY SearchInvInit, SearchInvStep, PTL DEF SearchSpec

(* What the search keeps: places in the tree, and a pruned depth that the  *)
(* walk has.                                                               *)
LEMMA SearchInvGivesTypes == SearchInv => SearchTypeOK
<1> SUFFICES ASSUME SearchInv PROVE SearchTypeOK
  OBVIOUS
<1>1. /\ Ordered(tree) /\ hits \subseteq 1..Len(tree) /\ place \in 1..Len(tree) + 1
      /\ stack \in Seq(1..place - 1) /\ matched \subseteq 1..place - 1
      /\ pruneDepth \in 0..Len(stack)
  BY DEF SearchInv, WalkInv, PruneInv
<1>2. Len(tree) \in Nat /\ DOMAIN tree = 1..Len(tree)
  BY <1>1, SubtreesNest DEF Ordered
<1>3. 1..place - 1 \subseteq DOMAIN tree
  BY <1>1, <1>2
<1>4. stack \in Seq(DOMAIN tree)
  <2>1. Len(stack) \in Nat /\ \A l \in 1..Len(stack) : stack[l] \in DOMAIN tree
    BY <1>1, <1>2, <1>3
  <2> QED
    BY <1>1, <2>1
<1> QED
  BY <1>1, <1>2, <1>3, <1>4 DEF SearchTypeOK

(* The visitor's state (report.go:323-330) is typed, in a tree of any size.*)
THEOREM SearchIsTyped == SearchSpec => []SearchTypeOK
BY SearchInvariant, SearchInvGivesTypes, PTL

(* Match finds every node that matches, or a match above it, and nothing   *)
(* below a match it found, whatever tree was built and whatever matches.   *)
THEOREM SearchFindsAll == SearchSpec => []SearchIsComplete
<1>1. SearchInv => SearchIsComplete
  <2> SUFFICES ASSUME SearchInv, place > 1, stack = <<>>
               PROVE  /\ \A n \in hits :
                            n \in matched \/ \E m \in matched \cap hits : n \in Below(tree, m)
                      /\ \A m \in matched \cap hits : Below(tree, m) \cap matched = {}
    BY DEF SearchIsComplete, Searched
  <2>1. Ordered(tree) /\ hits \subseteq 1..Len(tree) /\ place = Len(tree) + 1
    BY DEF SearchInv, WalkInv
  <2>2. \A n \in hits : n < place
    BY <2>1, SubtreesNest
  <2> QED
    BY <2>2 DEF SearchInv, FoundInv
<1> QED
  BY <1>1, SearchInvariant, PTL

-----------------------------------------------------------------------------
(***************************************************************************)
(* Readers: all four, one at work and the others at rest.                  *)
(***************************************************************************)
ReadersInv ==
    /\ CodecInv /\ ProfInv /\ SearchInv
    /\ DiffInv \/ (reader # "diff" /\ DiffRests)

(* Each invariant says enough for the types.                               *)
LEMMA ReadersInvGivesTypes == ReadersInv => TypeOK
<1> SUFFICES ASSUME ReadersInv PROVE TypeOK
  OBVIOUS
<1>1. CodecTypeOK /\ ProfTypeOK /\ SearchTypeOK
  BY CodecInvGivesTypes, ProfInvGivesTypes, SearchInvGivesTypes DEF ReadersInv
<1>2. DiffInv => DiffTypeOK
  BY DiffInvGivesTypes
<1>3. DiffRests => DiffTypeOK
  <2> SUFFICES ASSUME DiffRests PROVE DiffTypeOK
    OBVIOUS
  <2>1. inHunk \in BOOLEAN /\ ~inHunk /\ oldLine = 0 /\ newLine = 0
    BY DEF DiffRests
  <2>2. oldLine \in Nat /\ newLine \in Nat
    BY <2>1
  <2> QED
    BY <2>1, <2>2, Zenon DEF DiffTypeOK
<1> QED
  BY <1>1, <1>2, <1>3 DEF ReadersInv, TypeOK

(* One of them is at its beginning, the others rest.                       *)
LEMMA ReadersInvInit == Init => ReadersInv
<1> SUFFICES ASSUME Init PROVE ReadersInv
  OBVIOUS
<1>1. CodecInit /\ SearchInit
  BY DEF Init, CodecRests, SearchRests
<1>2. DiffInit \/ (reader # "diff" /\ DiffRests)
  BY DEF Init
<1>3. ProfInit \/ ProfRests
  BY DEF Init
<1>4. ProfRests => ProfInv
  <2> SUFFICES ASSUME ProfRests PROVE ProfInv
    OBVIOUS
  <2>1. ProfTypes
    BY DEF ProfRests, ProfTypes
  <2>2. \A f \in ProfFiles : BlocksOf(f) = {} /\ lines[f] = <<>>
    BY DEF ProfRests, BlocksOf
  <2>3. LinesHaveLargestCount
    BY <2>2 DEF LinesHaveLargestCount, LargestOr
  <2> QED
    BY <2>1, <2>3 DEF ProfInv
<1> QED
  BY <1>1, <1>2, <1>3, <1>4, CodecInvInit, SearchInvInit, DiffInvInit, ProfInvInit
     DEF ReadersInv

(* A step of one is a step or a stutter of each.                           *)
LEMMA ReadersInvStep == ReadersInv /\ [Next]_vars => ReadersInv'
<1> SUFFICES ASSUME ReadersInv, [Next]_vars PROVE ReadersInv'
  OBVIOUS
<1>1. /\ [CodecNext]_codecVars /\ [ProfNext]_profVars /\ [SearchNext]_searchVars
      /\ [DiffNext]_diffVars /\ (reader # "diff" => UNCHANGED diffVars)
      /\ reader' = reader
  BY DEF Next, vars
<1>2. CodecInv' /\ ProfInv' /\ SearchInv'
  BY <1>1, CodecInvStep, ProfInvStep, SearchInvStep DEF ReadersInv
<1>3. DiffInv => DiffInv'
  BY <1>1, DiffInvStep
<1>4. reader # "diff" /\ DiffRests => reader' # "diff" /\ DiffRests'
  BY <1>1 DEF DiffRests, diffVars
<1> QED
  BY <1>2, <1>3, <1>4 DEF ReadersInv

(* The types of all four hold in every behaviour the run explores.         *)
THEOREM TypesHold == Spec => []TypeOK
BY ReadersInvInit, ReadersInvStep, ReadersInvGivesTypes, PTL DEF Spec
=============================================================================
