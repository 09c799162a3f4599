------------------------------ MODULE GoProfile ------------------------------
(***************************************************************************)
(* The parser of Go coverage profiles: blocks of lines with a count, in    *)
(* whatever order and overlapping, become the count of each line of each   *)
(* file, -1 where no block is.                                             *)
(***************************************************************************)
EXTENDS Integers, Sequences, SequencesExt

CONSTANTS
    Profiles,   \* the profiles that are parsed, sequences of lines
    ProfFiles,  \* the files they name
    IntLimit    \* the first count that an int32 cannot hold: 2^31 in the code

(* A line of a profile, as the pattern for lines has it: its numbers are   *)
(* digits.  Columns and the number of statements are not used.             *)
ProfLine == [kind : {"mode", "other"}]
            \cup [kind : {"block"}, file : ProfFiles, first : Nat, last : Nat, count : Nat]

ASSUME ProfAssumption == IntLimit \in Nat \ {0} /\ Profiles \subseteq Seq(ProfLine)

VARIABLES
    profile,    \* the profile
    next,       \* the line that is parsed next
    lines,      \* fileCovMap
    outcome     \* "parsing", "parsed", "empty", "invalid"

profVars == <<profile, next, lines, outcome>>

NotInstrLine == -1

LowBits(count) == count % (2 * IntLimit)

(* int32(count): the low bits, with a sign.                                *)
ToInt(count) ==
    LET low == count % (2 * IntLimit)
    IN  IF low >= IntLimit THEN low - 2 * IntLimit ELSE low

ProfInit ==
    /\ profile \in Profiles
    /\ next = 1
    /\ lines = [f \in ProfFiles |-> <<>>]
    /\ outcome = "parsing"

AtLine(kind) == outcome = "parsing" /\ next <= Len(profile) /\ profile[next].kind = kind

(* Whatever begins with mode is passed over.                               *)
SkipMode ==
    /\ AtLine("mode")
    /\ next' = next + 1
    /\ UNCHANGED <<profile, lines, outcome>>

(* Lines up to the end of the block are there, without instructions.       *)
Grown(ls, end) == [i \in 1..(IF Len(ls) < end THEN end ELSE Len(ls)) |->
                      IF i \in DOMAIN ls THEN ls[i] ELSE NotInstrLine]

LatestCount(old, count) == count

(* A block counts for a line that had none yet, or had less.               *)
MoreOf(old, count) == IF old = NotInstrLine \/ count > old THEN count ELSE old

ParseBlock ==
    LET b == profile[next]
        grown == Grown(lines[b.file], b.last)
    IN  /\ AtLine("block")
        /\ lines' = [lines EXCEPT ![b.file] =
               [i \in DOMAIN grown |->
                   IF i \in b.first..b.last THEN MoreOf(grown[i], ToInt(b.count))
                                            ELSE grown[i]]]
        /\ next' = next + 1
        /\ UNCHANGED <<profile, outcome>>

InvalidLine ==
    /\ AtLine("other")
    /\ outcome' = "invalid"
    /\ UNCHANGED <<profile, next, lines>>

EndProfile ==
    /\ outcome = "parsing" /\ next > Len(profile)
    /\ outcome' = IF \A i \in DOMAIN profile : profile[i].kind = "mode"
                  THEN "empty" ELSE "parsed"
    /\ UNCHANGED <<profile, next, lines>>

ProfNext == SkipMode \/ ParseBlock \/ InvalidLine \/ EndProfile

ProfSpec == ProfInit /\ [][ProfNext]_profVars

-----------------------------------------------------------------------------
(* Types.                                                                  *)
ProfTypeOK ==
    /\ next \in 1..Len(profile) + 1
    /\ outcome \in {"parsing", "parsed", "empty", "invalid"}
    /\ \A f \in ProfFiles : 
          lines[f] \in Seq(-IntLimit..IntLimit - 1)

(* The blocks of f among the lines read, and those of them that hold i.    *)
BlocksOf(f) == {j \in 1..next - 1 : profile[j].kind = "block" /\ profile[j].file = f}
BlocksAt(f, i) == {j \in BlocksOf(f) : i \in profile[j].first..profile[j].last}

LargestOr(default, S) == IF S = {} THEN default ELSE Max(S)

(* In whatever order the blocks come and however they overlap, a line has  *)
(* the largest count of the blocks it is in, and -1 if it is in none; the  *)
(* file ends with its last block.  Counts that do not fit are excepted.    *)
CountsFit == \A j \in DOMAIN profile :
                profile[j].kind = "block" => profile[j].count < IntLimit

LinesHaveLargestCount ==
    CountsFit =>
        \A f \in ProfFiles :
            /\ Len(lines[f]) = LargestOr(0, {profile[j].last : j \in BlocksOf(f)})
            /\ \A i \in DOMAIN lines[f] :
                  lines[f][i] = LargestOr(NotInstrLine,
                                          {profile[j].count : j \in BlocksAt(f, i)})
=============================================================================
