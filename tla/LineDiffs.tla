----------------------------- MODULE LineDiffs ------------------------------
(***************************************************************************)
(* The lines of a diff zone (browser/editCodeService.ts) and its diffs     *)
(* (browser/helpers/findDiffs.ts): how a zone follows the changes of its   *)
(* file, and what accepting or rejecting one diff does to the text.        *)
(*                                                                         *)
(* A line is a sequence of characters, so that edits which join two lines  *)
(* show; a text is the sequence of its lines.  EditApply models the life   *)
(* of zones; here one zone stands still while its diffs are decided.       *)
(***************************************************************************)
EXTENDS Naturals, Sequences, FiniteSetsExt

CONSTANTS
    Chars,
    MaxLines,    \* bound: lines of a file when the zone is made, or after typing
    MaxCode,     \* bound: lines of a zone, and of its original code, at first
    MaxTyping    \* bound: changes by the user

ASSUME LinesAssumption == MaxLines \in Nat /\ MaxCode \in Nat /\ MaxTyping \in Nat

VARIABLES
    lines,      \* the file
    zone,       \* startLine, endLine and the lines of originalCode; live until it is deleted
    diffs,      \* _diffOfId
    typed,      \* changes by the user so far
    inside,     \* ghost: the lines that belong to the zone
    astray      \* ghost: the zone or the text went wrong, as ZoneTracks and RejectRestores say

vars == <<lines, zone, diffs, typed, inside, astray>>

-----------------------------------------------------------------------------
\* Lines that someone may write, and texts of up to n of them.
Lines == {<< >>} \cup {<<c>> : c \in Chars}
Texts(n) == UNION {[1..k -> Lines] : k \in 1..n}

Smaller(m, n) == IF m < n THEN m ELSE n

\* diffLines, a shortest edit script.  A script says of each line of old which equal line
\* of new it is kept as, 0 if it is removed: the kept lines are in order, and as many as
\* there can be.
Kept(m) == {i \in DOMAIN m : m[i] # 0}
Scripts(old, new) ==
    {m \in [DOMAIN old -> 0..Len(new)] :
        \A i \in DOMAIN old : m[i] # 0 => old[i] = new[m[i]] /\ \A j \in 1..(i - 1) : m[j] < m[i]}
Most(scripts) == Max({Cardinality(Kept(m)) : m \in scripts})
diffLines(old, new) ==
    LET scripts == Scripts(old, new)
        most == Most(scripts)
    IN {m \in scripts : Cardinality(Kept(m)) = most}

\* findDiffs: the streaks of removed and added lines between two kept ones (or an end of
\* the texts), with the lines they span; an empty range ends before it starts.
After(m, i) == Min({k \in Kept(m) \cup {Len(m) + 1} : k > i})
Place(m, n, i) == CASE i = 0 -> 0 [] i \in DOMAIN m -> m[i] [] OTHER -> n + 1
StreakAfter(m, n, i) ==
    [originalStartLine |-> i + 1, originalEndLine |-> After(m, i) - 1,
     startLine |-> Place(m, n, i) + 1, endLine |-> Place(m, n, After(m, i)) - 1]
findDiffs(m, n) ==
    {d \in {StreakAfter(m, n, i) : i \in Kept(m) \cup {0}} :
        d.originalStartLine <= d.originalEndLine \/ d.startLine <= d.endLine}

IsDeletion(d) == d.endLine < d.startLine
IsInsertion(d) == d.originalEndLine < d.originalStartLine

OriginalLines(d, z) == SubSeq(z.original, d.originalStartLine, d.originalEndLine)
NewLines(d, text) == SubSeq(text, d.startLine, d.endLine)

\* The code of a zone: slice(startLine - 1, endLine) of the file, one empty line if
\* that is nothing.
Code(text, z) ==
    LET code == SubSeq(text, z.startLine, Smaller(z.endLine, Len(text)))
    IN IF code = << >> THEN <<<< >>>> ELSE code

\* _computeDiffsAndAddStylesToURI: the diffs in the lines of the file.  The library
\* picks one script, the model any.
Shifted(d, z) == [d EXCEPT !.startLine = @ + z.startLine - 1, !.endLine = @ + z.startLine - 1]
Computed(text, z) ==
    LET code == Code(text, z) IN
    {{Shifted(d, z) : d \in findDiffs(m, Len(code))} : m \in diffLines(z.original, code)}

\* One of a few files with a zone in it, whose code was just replaced.
Init ==
    /\ \E above, below \in {<< >>} \cup Texts(1), code, original \in Texts(MaxCode) :
        /\ code # original
        /\ Len(above) + Len(code) + Len(below) <= MaxLines
        /\ lines = above \o code \o below
        /\ zone = [startLine |-> Len(above) + 1, endLine |-> Len(above) + Len(code),
                   original |-> original, live |-> TRUE]
    /\ diffs \in Computed(lines, zone)
    /\ typed = 0
    /\ inside = [i \in DOMAIN lines |-> i \in zone.startLine..zone.endLine]
    /\ astray = FALSE

-----------------------------------------------------------------------------
Start(line) == [line |-> line, atEnd |-> FALSE]
End(line) == [line |-> line, atEnd |-> TRUE]

\* A line past the end of the file stands for the end of the file.
Valid(text, pos) == IF pos.line > Len(text) THEN End(Len(text)) ELSE pos

\* model.applyEdits: new replaces the range from one position to another.
ApplyEdit(text, range) ==
    LET from == Valid(text, range.from)
        to == Valid(text, range.to)
        left == IF from.atEnd THEN text[from.line] ELSE << >>
        right == IF to.atEnd THEN << >> ELSE text[to.line]
        n == Len(range.text)
        middle == [i \in 1..n |-> (IF i = 1 THEN left ELSE << >>) \o range.text[i]
                                     \o (IF i = n THEN right ELSE << >>)]
    IN SubSeq(text, 1, from.line - 1) \o middle \o SubSeq(text, to.line + 1, Len(text))

\* The same of the ghost: what replaces a line of the zone belongs to the zone.
Marked(first, last, n) ==
    LET lo == Smaller(first, Len(inside))
        hi == Smaller(last, Len(inside))
    IN
    SubSeq(inside, 1, lo - 1) \o [i \in 1..n |-> \E k \in lo..hi : inside[k]] \o SubSeq(inside, hi + 1, Len(inside))

\* Mutant: a change of the zone's first line counts as one above the zone.
ShiftedByFirst(z, lo, hi, n) ==
    IF hi <= z.startLine THEN n - (hi - lo + 1) ELSE 0

\* By how much the first line of a zone moves when lines lo..hi, none of them of the
\* zone, become n lines.
ShiftedBy(z, lo, hi, n) ==
    IF hi < z.startLine THEN n - (hi - lo + 1) ELSE 0

\* _realignAllDiffAreasLines: lines lo..hi become n lines.
Realigned(z, lo, hi, n) ==
    LET shift == ShiftedBy(z, lo, hi, n)
        start == z.startLine
        end == z.endLine
        Spans(first, last) == [z EXCEPT !.startLine = first, !.endLine = last]
        remaining == end - hi
        overlap == end - lo + 1
    IN CASE end < lo -> z
         [] hi < start -> Spans(start + shift, end + shift)
         [] lo >= start /\ hi <= end -> Spans(start + shift, end + n - (hi - lo + 1))
         [] start > lo /\ end < hi -> Spans(lo, lo + n)
         [] lo < start /\ start <= hi /\ hi <= end -> Spans(lo, lo + (remaining - 1) + n)
         [] OTHER -> Spans(start, end + n - overlap)

-----------------------------------------------------------------------------
\* The zone goes with its last diff.
Settled(z, left) == [z EXCEPT !.live = left # {}]

\* _onUserChangeContent: the user replaces lines lo..hi by those of new.
Type(lo, hi, new) ==
    /\ zone.live /\ typed < MaxTyping
    /\ Len(lines) + Len(new) - (hi - lo + 1) <= MaxLines
    /\ lines' = ApplyEdit(lines, [from |-> Start(lo), to |-> End(hi), text |-> new])
    /\ LET moved == Realigned(zone, lo, hi, Len(new)) IN
        /\ diffs' \in Computed(lines', moved)
        /\ zone' = Settled(moved, diffs')
    /\ typed' = typed + 1
    /\ inside' = Marked(lo, hi, Len(new))
    /\ astray' = (astray \/ (lo < zone.startLine /\ zone.endLine < hi))

-----------------------------------------------------------------------------
Replaced(text, lo, hi, new) == SubSeq(text, 1, lo - 1) \o new \o SubSeq(text, hi + 1, Len(text))

\* Mutant: an insertion takes the place of the line it was made before.
AcceptedOver(d) ==
    Replaced(zone.original, d.originalStartLine,
             IF IsInsertion(d) THEN d.originalStartLine ELSE d.originalEndLine, NewLines(d, lines))

\* The original code once d is part of it.
Accepted(d) == Replaced(zone.original, d.originalStartLine, d.originalEndLine, NewLines(d, lines))

\* Mutant: the zone is asked for its diffs before the accepted one leaves it.
OthersAndItself(d) == diffs

\* The diffs the zone keeps by its own books when one is accepted.
Others(d) == diffs \ {d}

acceptDiff(d) ==
    /\ zone.live
    /\ zone' = Settled([zone EXCEPT !.original = Accepted(d)], Others(d))
    /\ diffs' \in Computed(lines, zone')
    /\ UNCHANGED <<lines, typed, inside, astray>>

\* Mutant: no care is taken of a deletion behind the last line of the zone.
DeletionEditBefore(d) ==
    [from |-> Start(d.startLine), to |-> Start(d.startLine), text |-> Append(OriginalLines(d, zone), << >>)]

\* rejectDiff of a deletion: the lines come back before the line they were deleted
\* before, or behind the last line of the zone.
DeletionEdit(d) ==
    IF d.startLine - 1 = zone.endLine
    THEN [from |-> End(d.startLine - 1), to |-> End(d.startLine - 1),
          text |-> <<<< >>>> \o OriginalLines(d, zone)]
    ELSE [from |-> Start(d.startLine), to |-> Start(d.startLine),
          text |-> Append(OriginalLines(d, zone), << >>)]

\* Of an insertion: the lines go with the newline after them or, at the end of the
\* zone, from the end of the line before up to the start of their last line.
InsertionEdit(d) ==
    IF d.endLine = zone.endLine
    THEN [from |-> End(d.startLine - 1), to |-> Start(d.endLine), text |-> <<<< >>>>]
    ELSE [from |-> Start(d.startLine), to |-> Start(d.endLine + 1), text |-> <<<< >>>>]

\* Of an edit: the lines are exchanged.
EditEdit(d) == [from |-> Start(d.startLine), to |-> End(d.endLine), text |-> OriginalLines(d, zone)]

RejectEdit(d) ==
    CASE IsDeletion(d) -> DeletionEdit(d)
      [] IsInsertion(d) -> InsertionEdit(d)
      [] OTHER -> EditEdit(d)

\* The heuristic of _writeURIText: a text that is the whole file is not written.
IsWritten(e) == e.text # lines

\* An insertion at the end of the zone whose last line stays, joined to the line
\* before.
JoinsLines(d) == IsInsertion(d) /\ d.endLine = zone.endLine /\ lines[d.endLine] # << >>

rejectDiff(d) ==
    /\ zone.live
    /\ LET e == RejectEdit(d)
           moved == Realigned(zone, e.from.line, e.to.line, Len(e.text))
       IN
       /\ IF IsWritten(e)
          THEN lines' = ApplyEdit(lines, e) /\ inside' = Marked(e.from.line, e.to.line, Len(e.text))
          ELSE UNCHANGED <<lines, inside>>
       /\ diffs' \in Computed(lines', moved)
       /\ zone' = Settled(moved, diffs')
    /\ astray' = (astray \/ ~IsWritten(RejectEdit(d)) \/ JoinsLines(d))
    /\ UNCHANGED typed

Decide == \E d \in diffs : acceptDiff(d) \/ rejectDiff(d)

\* The zone is gone, or went astray: bound, such a zone is not followed further.
Finish == (astray \/ ~zone.live) /\ UNCHANGED vars

Next ==
    \/ /\ ~astray
       /\ \/ \E lo \in DOMAIN lines, new \in Texts(2) : \E hi \in lo..Len(lines) : Type(lo, hi, new)
          \/ Decide
    \/ Finish

Spec == Init /\ [][Next]_vars

-----------------------------------------------------------------------------
\* Types, and the diffs of a live zone lie in it, a deletion perhaps just behind it.
TypeOK ==
    /\ lines \in Seq(Seq(Chars)) /\ lines # << >>
    /\ zone.startLine \in 1..Len(lines) /\ zone.endLine >= zone.startLine
    /\ DOMAIN inside = DOMAIN lines
    /\ \A d \in diffs : d.startLine >= zone.startLine /\ d.endLine <= zone.endLine

\* A zone covers the lines it was made for and what replaced them, whatever is typed
\* around it and decided in it (_realignAllDiffAreasLines).  Not after a change that
\* contains the zone (912), nor after a rejection that writes nothing because the file
\* happens to be the text it writes (648), nor after the rejection of an insertion at
\* the end of the zone that joins lines (2232).
Covers == {i \in DOMAIN inside : inside[i]} = zone.startLine..zone.endLine
ZoneTracks == TypeOK /\ (astray \/ Covers)

\* A zone is there exactly as long as its code is not the original one: the books of
\* acceptDiff agree with the diffs computed anew.
LiveWhileDifferent == zone.live <=> Code(lines, zone) # zone.original

\* Rejecting a diff gives its original lines back in their place, and touches no
\* other line, but for insertions at the end of the zone.
RejectRestores ==
    [][\A d \in diffs : rejectDiff(d) /\ ~astray'
            => lines' = Replaced(lines, d.startLine, d.endLine, OriginalLines(d, zone))]_vars

\* How far the code of the zone is from the original, and how much of it is one diff.
Distance(z, text) ==
    LET code == Code(text, z)
    IN Len(z.original) + Len(code) - 2 * Most(Scripts(z.original, code))
Size(d) == (d.originalEndLine + 1 - d.originalStartLine) + (d.endLine + 1 - d.startLine)

\* Accepting a diff settles that diff: what is left to decide is the rest, whatever
\* script the next comparison finds.
AcceptSettlesOne ==
    [][\A d \in diffs : acceptDiff(d) => Distance(zone', lines') + Size(d) = Distance(zone, lines)]_vars
=============================================================================
