------------------------------ MODULE SourceEdits ------------------------------
(***************************************************************************)
(* ParseResult.ApplyEdits of pkg/golyglot/lossless.go: source edits applied *)
(* to the text of a document.  The edits are sorted, checked one after the  *)
(* other, and written one after the other.  Byte i of the document is i;    *)
(* new text is a sequence of other numbers or of the document's own.        *)
(***************************************************************************)
EXTENDS Integers, Sequences, FiniteSets, SequencesExt, FiniteSetsExt

CONSTANTS
  Length,      \* bytes of the document
  NewTexts,    \* bound: texts an edit may put in
  MaxEdits,    \* bound: edits of one call
  MaxInt       \* the largest length an int represents

ASSUME EditsAssumption ==
  /\ Length \in Nat /\ MaxEdits \in Nat /\ MaxInt \in Nat
  /\ Length <= MaxInt
  /\ NewTexts \subseteq Seq(Nat)

VARIABLES
  edits,          \* the edits, in the caller's order
  ordered,        \* the edits, sorted
  pc,             \* what ApplyEdits is doing
  next,           \* the edit it has come to
  cursor,         \* the offset it has come to
  outputLength,   \* the length the output will have
  unchanged,      \* no edit so far changes anything
  output          \* what is written, or returned

vars == <<edits, ordered, pc, next, cursor, outputLength, unchanged, output>>

SQL == [i \in 1..Length |-> i]

\* The bytes from one offset to another.
Slice(start, end) == SubSeq(SQL, start + 1, end)

Edit(start, end, text) == [start |-> start, end |-> end, text |-> text]

\* Spans may be reversed, end after the document, or be that of a synthetic node.
Edits ==
  {Edit(start, end, text) : start \in 0..Length, end \in 0..(Length + 1), text \in NewTexts}
    \cup {Edit(-1, -1, text) : text \in NewTexts}

Valid(edit) == 0 <= edit.start /\ edit.start <= edit.end /\ edit.end <= Length
Empty(edit) == edit.start = edit.end
Removed(edit) == edit.end - edit.start

-------------------------------------------------------------------------------
\* Mutant: the sort is not stable, and reverses the insertions at one offset.
Before_Unstable(i, j) ==
  \/ edits[i].start < edits[j].start
  \/ edits[i].start = edits[j].start /\ Empty(edits[i]) /\ ~Empty(edits[j])
  \/ edits[i].start = edits[j].start /\ (Empty(edits[i]) <=> Empty(edits[j])) /\ j < i

\* The order of the stable sort: by offset, insertions before a replacement.
Before(i, j) ==
  LET a == edits[i]
      b == edits[j]
  IN  \/ a.start < b.start
      \/ a.start = b.start /\ Empty(a) /\ ~Empty(b)
      \/ a.start = b.start /\ (Empty(a) <=> Empty(b)) /\ i < j

\* Before is a strict order, so that no edit is taken twice.
SortEdits ==
  /\ pc = "sort" /\ edits # <<>>
  /\ \E order \in [DOMAIN edits -> DOMAIN edits] :
       /\ \A i, j \in DOMAIN edits : i < j => Before(order[i], order[j])
       /\ ordered' = [k \in DOMAIN edits |-> edits[order[k]]]
  /\ pc' = "check"
  /\ UNCHANGED <<edits, next, cursor, outputLength, unchanged, output>>

\* Without edits the text is returned as it is.
NoEdits ==
  /\ pc = "sort" /\ edits = <<>>
  /\ pc' = "returned"
  /\ output' = SQL
  /\ UNCHANGED <<edits, ordered, next, cursor, outputLength, unchanged>>

Checking == pc = "check" /\ next <= Len(ordered)
Current == ordered[next]

Overlaps == Current.start < cursor

\* Mutant: the length of the output is not compared with anything.
TooLong_Never == FALSE

\* Compared by subtraction, which cannot overflow.
TooLong == Len(Current.text) > MaxInt - (outputLength - Removed(Current))

Reject ==
  /\ Checking
  /\ ~Valid(Current) \/ Overlaps \/ TooLong
  /\ pc' = "rejected"
  /\ UNCHANGED <<edits, ordered, next, cursor, outputLength, unchanged, output>>

Accept ==
  /\ Checking
  /\ Valid(Current) /\ ~Overlaps /\ ~TooLong
  /\ outputLength' = outputLength - Removed(Current) + Len(Current.text)
  /\ cursor' = Current.end
  /\ unchanged' = (unchanged /\ Current.text = Slice(Current.start, Current.end))
  /\ next' = next + 1
  /\ UNCHANGED <<edits, ordered, pc, output>>

\* Mutant: writing begins where checking ended.
Checked_CursorKept ==
  /\ pc = "check" /\ next > Len(ordered)
  /\ pc' = IF unchanged THEN "returned" ELSE "write"
  /\ output' = IF unchanged THEN SQL ELSE <<>>
  /\ next' = 1
  /\ UNCHANGED <<edits, ordered, outputLength, unchanged, cursor>>

Checked ==
  /\ pc = "check" /\ next > Len(ordered)
  /\ pc' = IF unchanged THEN "returned" ELSE "write"
  /\ output' = IF unchanged THEN SQL ELSE <<>>
  /\ cursor' = 0 /\ next' = 1
  /\ UNCHANGED <<edits, ordered, outputLength, unchanged>>

Write ==
  /\ pc = "write" /\ next <= Len(ordered)
  /\ output' = output \o Slice(cursor, Current.start) \o Current.text
  /\ cursor' = Current.end
  /\ next' = next + 1
  /\ UNCHANGED <<edits, ordered, pc, outputLength, unchanged>>

WriteTail ==
  /\ pc = "write" /\ next > Len(ordered)
  /\ output' = output \o Slice(cursor, Length)
  /\ pc' = "returned"
  /\ UNCHANGED <<edits, ordered, next, cursor, outputLength, unchanged>>

Init ==
  /\ edits \in BoundedSeq(Edits, MaxEdits)
  /\ ordered = <<>> /\ pc = "sort" /\ next = 1 /\ cursor = 0
  /\ outputLength = Length /\ unchanged = TRUE /\ output = <<>>

Next == NoEdits \/ SortEdits \/ Reject \/ Accept \/ Checked \/ Write \/ WriteTail

Spec == Init /\ [][Next]_vars

-------------------------------------------------------------------------------
(***************************************************************************)
(* The reference: what is at each offset, from the edits in the caller's    *)
(* order                                                                    *)
(***************************************************************************)

\* What is put in at an offset by insertions, or by replacements.
PutIn(offset, inserting) ==
  FlattenSeq([i \in DOMAIN edits |->
    IF edits[i].start = offset /\ (Empty(edits[i]) <=> inserting) THEN edits[i].text ELSE <<>>])

Kept(offset) ==
  \A i \in DOMAIN edits : offset < edits[i].start \/ edits[i].end <= offset

Edited ==
  FlattenSeq([n \in 1..(Length + 1) |->
    LET offset == n - 1
    IN  PutIn(offset, TRUE) \o PutIn(offset, FALSE)
          \o (IF offset < Length /\ Kept(offset) THEN <<SQL[n]>> ELSE <<>>)])

\* Two edits remove the same byte, or one puts text inside what the other removes.
Conflict ==
  \E i, j \in DOMAIN edits :
    /\ i # j /\ ~Empty(edits[j])
    /\ IF Empty(edits[i])
       THEN edits[j].start < edits[i].start /\ edits[i].start < edits[j].end
       ELSE edits[i].start < edits[j].end /\ edits[j].start < edits[i].end

Legal == (\A i \in DOMAIN edits : Valid(edits[i])) /\ ~Conflict

\* Bytes an edit adds beyond those it removes.
Growth(i) ==
  IF Len(edits[i].text) > Removed(edits[i]) THEN Len(edits[i].text) - Removed(edits[i]) ELSE 0

-------------------------------------------------------------------------------
(***************************************************************************)
(* Properties                                                               *)
(***************************************************************************)

\* The cursor stays in the document and the length in what an int represents.
TypeInvariant ==
  /\ pc \in {"sort", "check", "write", "returned", "rejected"}
  /\ next \in 1..(MaxEdits + 1)
  /\ cursor \in 0..Length
  /\ outputLength \in 0..MaxInt
  /\ output \in Seq(Nat)

\* The buffer is sized before anything is written, and is exactly filled.
LengthIsExact == pc = "returned" => Len(output) = outputLength

\* Whatever order the edits are given in, the result is the document with each
\* span replaced: the insertions at one offset in the caller's order, before a
\* replacement that starts there, and every other byte kept.  And the order the
\* sort finds never makes an overlap of edits that have none: legal edits are
\* refused only when the text they add does not fit in an int.
EditsAreApplied ==
  /\ pc = "returned" => Legal /\ output = Edited
  /\ pc = "rejected" /\ Legal => Length + MapThenSumSet(Growth, DOMAIN edits) > MaxInt
===============================================================================
