-------------------------- MODULE SourceEdits_proofs --------------------------
(***************************************************************************)
(* Proofs about SourceEdits, for any document, texts, number of edits and   *)
(* largest int.  The length summed while the edits are checked and the      *)
(* length written later are two sums over the same list.  The invariant     *)
(* relates both to one list of intermediate lengths: the sum so far is its  *)
(* last element, and what is written is what it says for the current edit,  *)
(* less the bytes of the document that are still to come.                   *)
(*                                                                          *)
(* That the result is the document with each edit applied rests on the      *)
(* order the sort has found: what is written for the first edits of it is   *)
(* what the reference has up to the end of the last of them, less the bytes *)
(* of the document that are kept and not yet written.  Edits that pass the  *)
(* checks are legal, in whatever order the caller gave them; legal ones are *)
(* refused only for a length, which is then under what all of them add.     *)
(***************************************************************************)
EXTENDS SourceEdits, DataLemmas

\* The first n - 1 edits are valid and each begins where those before have ended.
InOrder(list, n) ==
  \A k \in 1..(n - 1) :
    /\ Valid(list[k])
    /\ k > 1 => list[k - 1].end <= list[k].start

\* The cursor is at the end of the edit before the n-th.
CursorAt(n) == cursor = IF n = 1 THEN 0 ELSE ordered[n - 1].end

\* The n-th length is that of the document with the first n - 1 edits applied.
AreLengths(list, lengths, n) ==
  /\ lengths \in [1..n -> Int]
  /\ lengths[1] = Length
  /\ \A k \in 1..(n - 1) :
       lengths[k + 1] = lengths[k] - Removed(list[k]) + Len(list[k].text)

EditTypes ==
  /\ TypeInvariant
  /\ edits \in BoundedSeq(Edits, MaxEdits)
  /\ ordered \in BoundedSeq(Edits, MaxEdits)
  /\ unchanged \in BOOLEAN
  /\ next <= Len(ordered) + 1

SortInv ==
  pc = "sort" => next = 1 /\ cursor = 0 /\ outputLength = Length /\ unchanged = TRUE

CheckInv ==
  pc = "check" =>
    /\ InOrder(ordered, next) /\ CursorAt(next)
    /\ Length - cursor <= outputLength
    /\ unchanged => outputLength = Length
    /\ \E lengths : AreLengths(ordered, lengths, next) /\ lengths[next] = outputLength

WriteInv ==
  pc = "write" =>
    /\ InOrder(ordered, Len(ordered) + 1) /\ CursorAt(next)
    /\ \E lengths :
         /\ AreLengths(ordered, lengths, Len(ordered) + 1)
         /\ lengths[Len(ordered) + 1] = outputLength
         /\ Len(output) = lengths[next] - (Length - cursor)

EditInv == EditTypes /\ SortInv /\ CheckInv /\ WriteInv /\ LengthIsExact

-----------------------------------------------------------------------------
\* The document is a sequence of Length bytes.
LEMMA DocumentType == SQL \in Seq(Nat) /\ Len(SQL) = Length
BY EditsAssumption DEF SQL

\* A slice within the document is as long as its span.
LEMMA SliceType ==
  ASSUME NEW start \in Nat, NEW end \in Nat, start <= end, end <= Length
  PROVE  Slice(start, end) \in Seq(Nat) /\ Len(Slice(start, end)) = end - start
<1>1. start + 1 \in 1..(Len(SQL) + 1) /\ end \in start..Len(SQL)
  BY DocumentType, EditsAssumption
<1>2. /\ SubSeq(SQL, start + 1, end) \in Seq(Nat)
      /\ Len(SubSeq(SQL, start + 1, end)) = IF start + 1 <= end THEN end - (start + 1) + 1 ELSE 0
  BY <1>1, DocumentType, SubSeqProperties, Z3
<1>. QED
  BY <1>2 DEF Slice

\* The length of what is written after what was.
LEMMA AppendType ==
  ASSUME NEW s \in Seq(Nat), NEW t \in Seq(Nat)
  PROVE  s \o t \in Seq(Nat) /\ Len(s \o t) = Len(s) + Len(t) /\ Len(s) \in Nat /\ Len(t) \in Nat
OBVIOUS

\* Writing up to an edit's end adds what the edit adds and what lies before it.
LEMMA WrittenLength ==
  ASSUME NEW written \in Int, NEW length \in Int, NEW from \in Int, NEW start \in Int,
         NEW end \in Int, NEW text \in Int, NEW total \in Int,
         written = length - (total - from)
  PROVE  written + (start - from) + text = (length - (end - start) + text) - (total - end)
OBVIOUS

\* An edit's fields.
LEMMA EditType ==
  ASSUME NEW e \in Edits
  PROVE  e.start \in Int /\ e.end \in Int /\ e.text \in Seq(Nat) /\ Len(e.text) \in Nat
BY EditsAssumption DEF Edits, Edit

\* A list of edits is a sequence of at most MaxEdits of them.
LEMMA EditsType ==
  ASSUME NEW s \in BoundedSeq(Edits, MaxEdits)
  PROVE  /\ s \in Seq(Edits) /\ Len(s) \in 0..MaxEdits
         /\ \A k \in 1..Len(s) : s[k] \in Edits
BY EditsAssumption DEF BoundedSeq, SeqOf

\* A list of at most MaxEdits edits is one of those the call may get.
LEMMA EditsOfLength ==
  ASSUME NEW n \in 0..MaxEdits, NEW s \in [1..n -> Edits]
  PROVE  s \in BoundedSeq(Edits, MaxEdits)
BY EditsAssumption DEF BoundedSeq, SeqOf

\* Initially nothing is sorted, checked or written.
LEMMA EditInit == Init => EditInv
<1> SUFFICES ASSUME Init PROVE EditInv
  OBVIOUS
<1>1. <<>> \in BoundedSeq(Edits, MaxEdits)
  <2>1. <<>> \in [1..0 -> Edits] /\ 0 \in 0..MaxEdits
    BY EditsAssumption
  <2>. QED
    BY <2>1, EditsOfLength
<1>2. EditTypes
  BY <1>1, EditsAssumption DEF Init, EditTypes, TypeInvariant
<1>. QED
  BY <1>2 DEF Init, EditInv, SortInv, CheckInv, WriteInv, LengthIsExact

-----------------------------------------------------------------------------
\* Sorting rearranges the edits; there is one intermediate length to begin with.
LEMMA SortStep ==
  ASSUME EditInv, SortEdits
  PROVE  EditInv'
<1> USE DEF SortEdits
<1>1. PICK order \in [DOMAIN edits -> DOMAIN edits] :
         ordered' = [k \in DOMAIN edits |-> edits[order[k]]]
  OBVIOUS
<1>2. /\ edits \in Seq(Edits) /\ Len(edits) \in 0..MaxEdits
      /\ \A k \in 1..Len(edits) : edits[k] \in Edits
  BY EditsType DEF EditInv, EditTypes
<1>3. ordered' \in [1..Len(edits) -> Edits]
  BY <1>1, <1>2
<1>4. ordered' \in BoundedSeq(Edits, MaxEdits)
  BY <1>2, <1>3, EditsOfLength
<1>5. Len(ordered') = Len(edits)
  BY <1>2, <1>3
<1>6. EditTypes'
  BY <1>2, <1>4, <1>5 DEF EditInv, EditTypes, TypeInvariant, SortInv
<1>7. CheckInv'
  <2> DEFINE lengths == [k \in 1..1 |-> Length]
  <2>1. next' = 1 /\ cursor' = 0 /\ outputLength' = Length /\ Length \in Nat
    BY EditsAssumption DEF EditInv, SortInv
  <2>2. AreLengths(ordered', lengths, next') /\ lengths[next'] = outputLength'
    BY <2>1 DEF AreLengths
  <2>3. InOrder(ordered, next)' /\ CursorAt(next)'
    BY <2>1 DEF InOrder, CursorAt
  <2>. QED
    BY <2>1, <2>2, <2>3 DEF CheckInv
<1>. QED
  BY <1>6, <1>7 DEF EditInv, SortInv, WriteInv, LengthIsExact

\* Without edits the document is the output.
LEMMA NoEditsStep ==
  ASSUME EditInv, NoEdits
  PROVE  EditInv'
<1>1. EditTypes'
  BY DocumentType DEF NoEdits, EditInv, EditTypes, TypeInvariant
<1>2. LengthIsExact'
  BY DocumentType DEF NoEdits, EditInv, SortInv, LengthIsExact
<1>. QED
  BY <1>1, <1>2 DEF NoEdits, EditInv, SortInv, CheckInv, WriteInv

\* A refused list leaves everything as it is.
LEMMA RejectStep ==
  ASSUME EditInv, Reject
  PROVE  EditInv'
BY DEF Reject, Checking, EditInv, EditTypes, TypeInvariant, SortInv, CheckInv, WriteInv, LengthIsExact

\* An accepted edit begins at or after the cursor, and adds one length.
LEMMA AcceptStep ==
  ASSUME EditInv, Accept
  PROVE  EditInv'
<1> DEFINE e == ordered[next]
<1> USE EditsAssumption
<1>1. /\ ordered \in Seq(Edits) /\ Len(ordered) \in 0..MaxEdits
      /\ \A k \in 1..Len(ordered) : ordered[k] \in Edits
  BY EditsType DEF EditInv, EditTypes
<1>2. next \in 1..Len(ordered) /\ pc = "check"
  BY <1>1 DEF Accept, Checking, EditInv, EditTypes, TypeInvariant
<1>3. /\ e.start \in Int /\ e.end \in Int /\ e.text \in Seq(Nat) /\ Len(e.text) \in Nat
      /\ e.start \in 0..e.end /\ e.end \in 0..Length /\ cursor <= e.start
      /\ Removed(e) = e.end - e.start
      /\ Valid(e)
  BY <1>1, <1>2, EditType DEF Accept, Valid, Overlaps, Current, Removed, EditInv, EditTypes, TypeInvariant
<1>4. /\ outputLength' = outputLength - Removed(e) + Len(e.text)
      /\ Len(e.text) <= MaxInt - (outputLength - Removed(e))
      /\ cursor' = e.end /\ next' = next + 1 /\ pc' = "check"
      /\ unchanged' => unchanged /\ e.text = Slice(e.start, e.end)
      /\ unchanged' \in BOOLEAN
      /\ UNCHANGED <<edits, ordered, output>>
  <2>1. outputLength \in Int /\ Removed(e) \in Int
    BY <1>3 DEF EditInv, EditTypes, TypeInvariant
  <2>2. Len(e.text) <= MaxInt - (outputLength - Removed(e))
    BY <1>3, <2>1 DEF Accept, TooLong, Current
  <2>. QED
    BY <1>2, <2>2 DEF Accept, Current
<1>5. /\ Length - cursor <= outputLength
      /\ cursor \in 0..Length /\ outputLength \in 0..MaxInt
      /\ InOrder(ordered, next) /\ CursorAt(next)
  BY <1>2 DEF EditInv, EditTypes, TypeInvariant, CheckInv
<1>6. /\ outputLength' \in 0..MaxInt
      /\ Length - cursor' <= outputLength'
  <2>1. ASSUME NEW s \in Int, NEW t \in Int, NEW n \in Nat, NEW c \in Nat, NEW o \in Nat,
               c <= s, t <= Length, Length - c <= o, n <= MaxInt - (o - (t - s))
        PROVE  o - (t - s) + n \in 0..MaxInt /\ Length - t <= o - (t - s) + n
    BY <2>1
  <2>2. e.start \in Int /\ e.end \in Int /\ Len(e.text) \in Nat /\ e.end <= Length
    BY <1>3
  <2>3. cursor \in Nat /\ outputLength \in Nat /\ cursor <= e.start
    BY <1>3, <1>5
  <2>4. Length - cursor <= outputLength
    BY <1>5
  <2>5. Len(e.text) <= MaxInt - (outputLength - (e.end - e.start))
    BY <1>3, <1>4
  <2>6. outputLength' = outputLength - (e.end - e.start) + Len(e.text)
    BY <1>3, <1>4
  <2>7. cursor' = e.end
    BY <1>4
  <2>. QED
    BY ONLY <2>1, <2>2, <2>3, <2>4, <2>5, <2>6, <2>7
<1>7. EditTypes'
  BY <1>1, <1>2, <1>3, <1>4, <1>6 DEF EditInv, EditTypes, TypeInvariant
<1>8. unchanged' => outputLength' = Length
  <2> SUFFICES ASSUME unchanged' PROVE outputLength' = Length
    OBVIOUS
  <2>1. unchanged /\ e.text = Slice(e.start, e.end)
    BY <1>4
  <2>2. Len(e.text) = e.end - e.start
    <3>1. e.start \in Nat /\ e.end \in Nat /\ e.start <= e.end /\ e.end <= Length
      BY <1>3
    <3>. QED
      BY <2>1, <3>1, SliceType
  <2>3. outputLength = Length
    BY <1>2, <2>1 DEF EditInv, CheckInv
  <2>4. e.start \in Int /\ e.end \in Int /\ Length \in Int
        /\ outputLength' = outputLength - (e.end - e.start) + Len(e.text)
    BY <1>3, <1>4
  <2>. QED
    BY ONLY <2>2, <2>3, <2>4
<1>9. InOrder(ordered, next)' /\ CursorAt(next)'
  BY <1>1, <1>2, <1>3, <1>4, <1>5 DEF InOrder, CursorAt
<1>10. \E lengths : AreLengths(ordered', lengths, next') /\ lengths[next'] = outputLength'
  <2>1. PICK lengths : AreLengths(ordered, lengths, next) /\ lengths[next] = outputLength
    BY <1>2 DEF EditInv, CheckInv
  <2> DEFINE more == [k \in 1..(next + 1) |-> IF k = next + 1 THEN outputLength' ELSE lengths[k]]
  <2>2. AreLengths(ordered', more, next') /\ more[next'] = outputLength'
    <3>1. /\ next \in Nat /\ next >= 1 /\ outputLength' \in Int
          /\ lengths \in [1..next -> Int] /\ lengths[1] = Length
      BY <1>2, <1>6, <2>1 DEF AreLengths
    <3>2. more \in [1..(next + 1) -> Int] /\ more[1] = Length /\ more[next + 1] = outputLength'
      BY <3>1
    <3>3. ASSUME NEW k \in 1..next
          PROVE  more[k + 1] = more[k] - Removed(ordered[k]) + Len(ordered[k].text)
      <4>1. CASE k = next
        BY <1>4, <2>1, <3>1, <4>1
      <4>2. CASE k # next
        <5>1. k \in 1..(next - 1) /\ more[k + 1] = lengths[k + 1] /\ more[k] = lengths[k]
          BY <3>1, <4>2
        <5>. QED
          BY <2>1, <5>1 DEF AreLengths
      <4>. QED
        BY <4>1, <4>2
    <3>4. next' = next + 1 /\ ordered' = ordered /\ next' - 1 = next
      BY <1>4, <3>1
    <3>5. /\ more \in [1..next' -> Int] /\ more[1] = Length /\ more[next'] = outputLength'
          /\ \A k \in 1..(next' - 1) :
               more[k + 1] = more[k] - Removed(ordered'[k]) + Len(ordered'[k].text)
      BY <3>2, <3>3, <3>4
    <3> HIDE DEF more
    <3>. QED
      BY <3>5 DEF AreLengths
  <2>. QED
    BY <2>2
<1>. QED
  BY <1>4, <1>6, <1>7, <1>8, <1>9, <1>10 DEF EditInv, SortInv, CheckInv, WriteInv, LengthIsExact

\* Once all are checked, writing starts with the first length: nothing written,
\* and the whole document still to come.
LEMMA CheckedStep ==
  ASSUME EditInv, Checked
  PROVE  EditInv'
<1> USE EditsAssumption
<1>1. /\ ordered \in Seq(Edits) /\ Len(ordered) \in 0..MaxEdits
      /\ \A k \in 1..Len(ordered) : ordered[k] \in Edits
  BY EditsType DEF EditInv, EditTypes
<1>2. /\ next = Len(ordered) + 1 /\ pc = "check"
      /\ cursor' = 0 /\ next' = 1
      /\ pc' = IF unchanged THEN "returned" ELSE "write"
      /\ output' = IF unchanged THEN SQL ELSE <<>>
      /\ UNCHANGED <<edits, ordered, outputLength, unchanged>>
  BY <1>1 DEF Checked, EditInv, EditTypes, TypeInvariant
<1>3. EditTypes'
  BY <1>1, <1>2, DocumentType DEF EditInv, EditTypes, TypeInvariant
<1>4. LengthIsExact'
  BY <1>2, DocumentType DEF EditInv, CheckInv, LengthIsExact
<1>5. WriteInv'
  <2>1. PICK lengths : /\ AreLengths(ordered, lengths, Len(ordered) + 1)
                       /\ lengths[Len(ordered) + 1] = outputLength
    BY <1>2 DEF EditInv, CheckInv
  <2>2. ASSUME pc' = "write"
        PROVE  Len(output') = lengths[next'] - (Length - cursor')
    BY <1>2, <2>1, <2>2 DEF AreLengths
  <2>3. InOrder(ordered, Len(ordered) + 1)
    BY <1>2 DEF EditInv, CheckInv
  <2>4. CursorAt(next)'
    BY <1>2 DEF CursorAt
  <2>. QED
    BY <1>2, <2>1, <2>2, <2>3, <2>4 DEF WriteInv
<1>. QED
  BY <1>2, <1>3, <1>4, <1>5 DEF EditInv, SortInv, CheckInv

\* Writing an edit brings what is written to the next length.
LEMMA WriteStep ==
  ASSUME EditInv, Write
  PROVE  EditInv'
<1> DEFINE e == ordered[next]
<1> USE EditsAssumption
<1>1. /\ ordered \in Seq(Edits) /\ Len(ordered) \in 0..MaxEdits
      /\ \A k \in 1..Len(ordered) : ordered[k] \in Edits
  BY EditsType DEF EditInv, EditTypes
<1>2. /\ next \in 1..Len(ordered) /\ pc = "write" /\ pc' = "write"
      /\ output' = output \o Slice(cursor, e.start) \o e.text
      /\ cursor' = e.end /\ next' = next + 1
      /\ UNCHANGED <<edits, ordered, outputLength, unchanged>>
      /\ cursor \in 0..Length /\ output \in Seq(Nat)
  BY <1>1 DEF Write, Current, EditInv, EditTypes, TypeInvariant
<1>3. InOrder(ordered, Len(ordered) + 1) /\ CursorAt(next)
  BY <1>2 DEF EditInv, WriteInv
<1>4. /\ e.start \in Nat /\ e.end \in Nat /\ e.text \in Seq(Nat) /\ Len(e.text) \in Nat
      /\ e.start <= e.end /\ e.end <= Length /\ cursor <= e.start
      /\ Removed(e) = e.end - e.start
  <2>1. next \in 1..((Len(ordered) + 1) - 1)
    BY <1>1, <1>2
  <2>2. Valid(e) /\ (next > 1 => ordered[next - 1].end <= e.start)
    BY <1>3, <2>1 DEF InOrder
  <2>3. e.start \in Int /\ e.end \in Int /\ e.text \in Seq(Nat) /\ Len(e.text) \in Nat
    BY <1>1, <1>2, EditType
  <2>. QED
    BY <1>2, <1>3, <2>2, <2>3 DEF Valid, CursorAt, Removed
<1>5. /\ Slice(cursor, e.start) \in Seq(Nat)
      /\ Len(Slice(cursor, e.start)) = e.start - cursor
  <2>1. cursor \in Nat /\ e.start \in Nat /\ cursor <= e.start /\ e.start <= Length
    BY <1>2, <1>4
  <2>. HIDE DEF e
  <2>. QED
    BY ONLY <2>1, SliceType
<1>6. /\ output' \in Seq(Nat) /\ Len(output) \in Nat
      /\ Len(output') = Len(output) + (e.start - cursor) + Len(e.text)
  <2>1. /\ output \in Seq(Nat) /\ e.text \in Seq(Nat)
        /\ output' = (output \o Slice(cursor, e.start)) \o e.text
    BY <1>2, <1>4
  <2>. HIDE DEF e
  <2>2. /\ output \o Slice(cursor, e.start) \in Seq(Nat) /\ Len(output) \in Nat
        /\ Len(output \o Slice(cursor, e.start)) = Len(output) + (e.start - cursor)
    BY ONLY <1>5, <2>1, AppendType
  <2>. QED
    BY ONLY <2>1, <2>2, AppendType
<1>7. EditTypes'
  BY <1>1, <1>2, <1>4, <1>6 DEF EditInv, EditTypes, TypeInvariant
<1>8. WriteInv'
  <2>1. PICK lengths : /\ AreLengths(ordered, lengths, Len(ordered) + 1)
                       /\ lengths[Len(ordered) + 1] = outputLength
                       /\ Len(output) = lengths[next] - (Length - cursor)
    BY <1>2 DEF EditInv, WriteInv
  <2>2. /\ lengths[next] \in Int
        /\ lengths[next + 1] = lengths[next] - (e.end - e.start) + Len(e.text)
    <3>1. /\ next \in 1..((Len(ordered) + 1) - 1) /\ next \in 1..(Len(ordered) + 1)
          /\ Removed(e) = e.end - e.start
      BY <1>1, <1>2, <1>4
    <3>2. /\ lengths \in [1..(Len(ordered) + 1) -> Int]
          /\ \A k \in 1..((Len(ordered) + 1) - 1) :
               lengths[k + 1] = lengths[k] - Removed(ordered[k]) + Len(ordered[k].text)
      BY <2>1 DEF AreLengths
    <3>. QED
      BY ONLY <3>1, <3>2
  <2>3. Len(output') = lengths[next'] - (Length - cursor')
    <3>1. /\ cursor \in Int /\ Length \in Int /\ e.start \in Int /\ e.end \in Int
          /\ Len(e.text) \in Int
      BY <1>2, <1>4
    <3>2. cursor' = e.end /\ next' = next + 1
      BY <1>2
    <3>3. /\ Len(output) = lengths[next] - (Length - cursor)
          /\ Len(output') = Len(output) + (e.start - cursor) + Len(e.text)
          /\ Len(output) \in Int
      BY <1>6, <2>1
    <3>4. Len(output) + (e.start - cursor) + Len(e.text)
            = (lengths[next] - (e.end - e.start) + Len(e.text)) - (Length - e.end)
      <4> DEFINE written == Len(output)
                 length == lengths[next]
                 start == e.start
                 end == e.end
                 text == Len(e.text)
      <4>1. /\ written \in Int /\ length \in Int /\ start \in Int /\ end \in Int /\ text \in Int
            /\ cursor \in Int /\ Length \in Int /\ written = length - (Length - cursor)
        BY <2>2, <3>1, <3>3
      <4>. HIDE DEF written, length, start, end, text
      <4>2. written + (start - cursor) + text = (length - (end - start) + text) - (Length - end)
        BY ONLY <4>1, WrittenLength
      <4>. QED
        BY <4>2 DEF written, length, start, end, text
    <3>5. lengths[next'] = lengths[next] - (e.end - e.start) + Len(e.text)
      BY <2>2, <3>2, Zenon
    <3>. HIDE DEF e
    <3>. QED
      BY ONLY <3>2, <3>3, <3>4, <3>5, Zenon
  <2>4. CursorAt(next)'
    BY <1>2 DEF CursorAt
  <2>. QED
    BY <1>2, <1>3, <2>1, <2>3, <2>4 DEF WriteInv
<1>. QED
  BY <1>2, <1>7, <1>8 DEF EditInv, SortInv, CheckInv, LengthIsExact

\* The tail is what was still to come after the last edit.
LEMMA WriteTailStep ==
  ASSUME EditInv, WriteTail
  PROVE  EditInv'
<1> USE EditsAssumption
<1>1. /\ next = Len(ordered) + 1 /\ pc = "write" /\ pc' = "returned"
      /\ output' = output \o Slice(cursor, Length)
      /\ UNCHANGED <<edits, ordered, next, cursor, outputLength, unchanged>>
      /\ cursor \in 0..Length /\ output \in Seq(Nat)
  <2>1. Len(ordered) \in Nat
    BY EditsType DEF EditInv, EditTypes
  <2>. QED
    BY <2>1 DEF WriteTail, EditInv, EditTypes, TypeInvariant
<1>2. Slice(cursor, Length) \in Seq(Nat) /\ Len(Slice(cursor, Length)) = Length - cursor
  BY <1>1, SliceType
<1>3. Len(output) = outputLength - (Length - cursor)
  BY <1>1 DEF EditInv, WriteInv
<1>4. LengthIsExact'
  <2>1. Len(output') = Len(output) + (Length - cursor) /\ outputLength \in Int /\ cursor \in Int
    <3>1. Len(output') = Len(output) + Len(Slice(cursor, Length))
      BY ONLY <1>1, <1>2, AppendType
    <3>2. outputLength \in Int /\ cursor \in Int
      BY <1>1 DEF EditInv, EditTypes, TypeInvariant
    <3>. QED
      BY <1>2, <3>1, <3>2
  <2>. QED
    BY <1>1, <1>3, <2>1 DEF LengthIsExact
<1>5. EditTypes'
  BY <1>1, <1>2, AppendType DEF EditInv, EditTypes, TypeInvariant
<1>. QED
  BY <1>1, <1>4, <1>5 DEF EditInv, SortInv, CheckInv, WriteInv

\* Every step of ApplyEdits keeps the invariant.
LEMMA EditNext == EditInv /\ [Next]_vars => EditInv'
<1> SUFFICES ASSUME EditInv, [Next]_vars PROVE EditInv'
  OBVIOUS
<1>1. CASE UNCHANGED vars
  BY <1>1 DEF vars, EditInv, EditTypes, TypeInvariant, SortInv, CheckInv, WriteInv, LengthIsExact,
     InOrder, CursorAt
<1>. QED
  BY <1>1, NoEditsStep, SortStep, RejectStep, AcceptStep, CheckedStep, WriteStep, WriteTailStep DEF Next

-----------------------------------------------------------------------------
\* Every reachable state satisfies the invariant.
THEOREM EditInvariant == Spec => []EditInv
BY EditInit, EditNext, PTL DEF Spec

(***************************************************************************)
(* ApplyEdits keeps its cursor in the document and the length it sums in    *)
(* what an int represents, whatever edits it is given.                      *)
(***************************************************************************)
THEOREM EditsTypeCorrect == Spec => []TypeInvariant
<1>1. EditInv => TypeInvariant
  BY DEF EditInv, EditTypes
<1>. QED
  BY <1>1, EditInvariant, PTL

(***************************************************************************)
(* The buffer ApplyEdits sizes before it writes is exactly filled.          *)
(***************************************************************************)
THEOREM ExactLength == Spec => []LengthIsExact
<1>1. EditInv => LengthIsExact
  BY DEF EditInv
<1>. QED
  BY <1>1, EditInvariant, PTL

-----------------------------------------------------------------------------
(***************************************************************************)
(* What is at each offset, for a list of edits                              *)
(***************************************************************************)
\* An edit's text, where it starts at an offset and is or is not an insertion.
TextAt(list, offset, inserting) ==
  [i \in DOMAIN list |->
    IF list[i].start = offset /\ (Empty(list[i]) <=> inserting) THEN list[i].text ELSE <<>>]

PutInBy(list, offset, inserting) == Together(TextAt(list, offset, inserting), Len(list))

KeptBy(list, offset) ==
  \A i \in DOMAIN list : offset < list[i].start \/ list[i].end <= offset

ByteAt(list, offset) == IF offset < Length /\ KeptBy(list, offset) THEN <<SQL[offset + 1]>> ELSE <<>>

\* What the result has for one offset of the document.
At(list, offset) == PutInBy(list, offset, TRUE) \o PutInBy(list, offset, FALSE) \o ByteAt(list, offset)

Offsets(list) == [n \in 1..(Length + 1) |-> At(list, n - 1)]

\* The result up to an offset.
Upto(list, offset) == Together(Offsets(list), offset)

\* The insertions at an offset that are among some of the edits.
InsertedAt(list, offset, done) ==
  Together([i \in DOMAIN list |->
    IF i \in done /\ list[i].start = offset /\ Empty(list[i]) THEN list[i].text ELSE <<>>], Len(list))

\* Each edit is valid and begins where those before it have ended.
Separate(list) ==
  /\ \A k \in DOMAIN list : Valid(list[k])
  /\ \A k, m \in DOMAIN list : k < m => list[k].end <= list[m].start

\* Before, for a list.
Precedes(list, i, j) ==
  \/ list[i].start < list[j].start
  \/ list[i].start = list[j].start /\ Empty(list[i]) /\ ~Empty(list[j])
  \/ list[i].start = list[j].start /\ (Empty(list[i]) <=> Empty(list[j])) /\ i < j

Sorts(list, order) ==
  /\ order \in [DOMAIN list -> DOMAIN list]
  /\ \A i, j \in DOMAIN list : i < j => Precedes(list, order[i], order[j])

Sorted(list, order) == [k \in DOMAIN list |-> list[order[k]]]

\* The edits that come first in the order.
First(order, k) == {order[p] : p \in 1..k}

EndOf(list, order, k) == IF k = 0 THEN 0 ELSE list[order[k]].end

\* What is written when the first k edits are.
Written(list, order, k) ==
  Upto(list, EndOf(list, order, k)) \o InsertedAt(list, EndOf(list, order, k), First(order, k))

\* A list of edits and an order that sorts them, where no two overlap.
Arranged(list, order) ==
  /\ list \in Seq(Edits) /\ Sorts(list, order) /\ Separate(Sorted(list, order))

\* The model's reference is the result up to the end, for the caller's edits.
LEMMA EditedIs ==
  ASSUME edits \in Seq(Edits)
  PROVE  Edited = Upto(edits, Length + 1)
<1>1. DOMAIN edits = 1..Len(edits)
  OBVIOUS
<1>2. ASSUME NEW offset, NEW inserting \in BOOLEAN
      PROVE  PutIn(offset, inserting) = PutInBy(edits, offset, inserting)
  <2>1. TextAt(edits, offset, inserting) = [i \in 1..Len(edits) |-> TextAt(edits, offset, inserting)[i]]
    BY <1>1 DEF TextAt
  <2>. QED
    BY <2>1 DEF PutIn, PutInBy, Together, TextAt
<1>3. ASSUME NEW n \in 1..(Length + 1)
      PROVE  At(edits, n - 1) = PutIn(n - 1, TRUE) \o PutIn(n - 1, FALSE)
                                  \o (IF n - 1 < Length /\ Kept(n - 1) THEN <<SQL[n]>> ELSE <<>>)
  <2>1. PutIn(n - 1, TRUE) = PutInBy(edits, n - 1, TRUE) /\ PutIn(n - 1, FALSE) = PutInBy(edits, n - 1, FALSE)
    BY <1>2
  <2>2. (n - 1) + 1 = n
    BY EditsAssumption
  <2>3. Kept(n - 1) <=> KeptBy(edits, n - 1)
    BY DEF Kept, KeptBy
  <2>4. ByteAt(edits, n - 1) = IF n - 1 < Length /\ Kept(n - 1) THEN <<SQL[n]>> ELSE <<>>
    BY <2>2, <2>3 DEF ByteAt
  <2>. QED
    BY <2>1, <2>4 DEF At
<1>4. [n \in 1..(Length + 1) |-> Offsets(edits)[n]]
        = [n \in 1..(Length + 1) |-> PutIn(n - 1, TRUE) \o PutIn(n - 1, FALSE)
             \o (IF n - 1 < Length /\ Kept(n - 1) THEN <<SQL[n]>> ELSE <<>>)]
  BY <1>3 DEF Offsets
<1>. QED
  BY <1>4 DEF Edited, Upto, Together

LEMMA ListType ==
  ASSUME NEW list \in Seq(Edits)
  PROVE  /\ Len(list) \in Nat /\ DOMAIN list = 1..Len(list)
         /\ \A i \in DOMAIN list :
              /\ list[i] \in Edits /\ list[i].start \in Int /\ list[i].end \in Int
              /\ list[i].text \in Seq(Nat)
<1>1. \A i \in DOMAIN list : list[i] \in Edits
  OBVIOUS
<1>. QED
  BY <1>1, EditType

LEMMA TextsType ==
  ASSUME NEW list \in Seq(Edits), NEW offset \in Nat
  PROVE  /\ PutInBy(list, offset, TRUE) \in Seq(Nat) /\ PutInBy(list, offset, FALSE) \in Seq(Nat)
         /\ \A done : InsertedAt(list, offset, done) \in Seq(Nat)
         /\ ByteAt(list, offset) \in Seq(Nat)
<1>0. <<>> \in Seq(Nat)
  OBVIOUS
<1>1. ASSUME NEW inserting \in BOOLEAN PROVE PutInBy(list, offset, inserting) \in Seq(Nat)
  <2>1. \A i \in 1..Len(list) : TextAt(list, offset, inserting)[i] \in Seq(Nat)
    BY <1>0, ListType DEF TextAt
  <2>. QED
    BY <2>1, ListType, TogetherType DEF PutInBy
<1>2. ASSUME NEW done PROVE InsertedAt(list, offset, done) \in Seq(Nat)
  <2> DEFINE g == [i \in DOMAIN list |-> IF i \in done /\ list[i].start = offset /\ Empty(list[i]) THEN list[i].text ELSE <<>>]
  <2>1. \A i \in 1..Len(list) : g[i] \in Seq(Nat)
    BY <1>0, ListType
  <2> HIDE DEF g
  <2>2. Together(g, Len(list)) \in Seq(Nat)
    BY <2>1, ListType, TogetherType
  <2>. QED
    BY <2>2 DEF InsertedAt, g
<1>3. ByteAt(list, offset) \in Seq(Nat)
  <2> DEFINE kept == offset < Length /\ KeptBy(list, offset)
  <2>1. CASE kept
    <3>1. offset + 1 \in Nat /\ offset + 1 \in 1..Length
      BY <2>1, EditsAssumption
    <3>2. SQL[offset + 1] \in Nat
      BY <3>1 DEF SQL
    <3>3. <<SQL[offset + 1]>> \in Seq(Nat)
      BY <3>2
    <3>. QED
      BY <2>1, <3>3 DEF ByteAt
  <2>. QED
    BY <1>0, <2>1 DEF ByteAt
<1>. QED
  BY <1>1, <1>2, <1>3


LEMMA UptoFacts ==
  ASSUME NEW list \in Seq(Edits)
  PROVE  /\ Upto(list, 0) = <<>>
         /\ \A offset \in 0..Length :
              /\ Upto(list, offset) \in Seq(Nat) /\ At(list, offset) \in Seq(Nat)
              /\ Upto(list, offset + 1) = Upto(list, offset) \o At(list, offset)
<1>1. \A offset \in Nat : At(list, offset) \in Seq(Nat)
  BY TextsType, ConcatProperties DEF At
<1>2. \A n \in 1..(Length + 1) : Offsets(list)[n] = At(list, n - 1) /\ Offsets(list)[n] \in Seq(Nat)
  BY <1>1, EditsAssumption DEF Offsets
<1>3. Upto(list, 0) = <<>>
  BY TogetherNone DEF Upto
<1>4. ASSUME NEW offset \in 0..Length
      PROVE  /\ Upto(list, offset) \in Seq(Nat) /\ At(list, offset) \in Seq(Nat)
             /\ Upto(list, offset + 1) = Upto(list, offset) \o At(list, offset)
  <2>1. offset \in Nat /\ offset + 1 \in 1..(Length + 1) /\ (offset + 1) - 1 = offset
    BY EditsAssumption
  <2>2. \A n \in 1..(offset + 1) : Offsets(list)[n] \in Seq(Nat)
    BY <1>2, EditsAssumption
  <2>3. /\ Together(Offsets(list), offset) \in Seq(Nat)
        /\ Together(Offsets(list), offset + 1) = Together(Offsets(list), offset) \o Offsets(list)[offset + 1]
    BY ONLY <2>1, <2>2, TogetherNext
  <2>. QED
    BY <1>1, <1>2, <2>1, <2>3 DEF Upto
<1>. QED
  BY <1>3, <1>4

\* Offsets where nothing is put in and nothing is kept add nothing.
LEMMA UptoRest ==
  ASSUME NEW list \in Seq(Edits), NEW s \in 0..(Length + 1), NEW t \in 0..(Length + 1), s <= t,
         \A offset \in 0..Length : s <= offset /\ offset < t => At(list, offset) = <<>>
  PROVE  Upto(list, t) = Upto(list, s)
<1>0. s \in Nat /\ t \in Nat
  BY EditsAssumption
<1>1. \A n \in 1..t : Offsets(list)[n] \in Seq(Nat) /\ Offsets(list)[n] = At(list, n - 1)
  <2> SUFFICES ASSUME NEW n \in 1..t PROVE Offsets(list)[n] \in Seq(Nat) /\ Offsets(list)[n] = At(list, n - 1)
    OBVIOUS
  <2>1. n \in 1..(Length + 1) /\ n - 1 \in 0..Length
    BY EditsAssumption
  <2>. QED
    BY <2>1, UptoFacts DEF Offsets
<1>2. \A n \in 1..t : s < n => Offsets(list)[n] = <<>>
  <2> SUFFICES ASSUME NEW n \in 1..t, s < n PROVE Offsets(list)[n] = <<>>
    OBVIOUS
  <2>1. n - 1 \in 0..Length /\ s <= n - 1 /\ n - 1 < t
    BY EditsAssumption
  <2>. QED
    BY <1>1, <2>1
<1> DEFINE g == Offsets(list)
<1>3. Parts(g, t, Nat)
  BY <1>1 DEF Parts
<1>4. \A n \in 1..t : s < n => g[n] = <<>>
  BY <1>2
<1> HIDE DEF g
<1>5. Together(g, t) = Together(g, s)
  BY ONLY <1>0, s <= t, <1>3, <1>4, TogetherRest
<1>. QED
  BY <1>5 DEF Upto, g

\* An order that sorts takes every edit, and none twice.
LEMMA SortsFacts ==
  ASSUME NEW list \in Seq(Edits), NEW order, Sorts(list, order)
  PROVE  /\ \A p \in DOMAIN list : order[p] \in DOMAIN list
         /\ \A p, q \in DOMAIN list : order[p] = order[q] => p = q
         /\ \A i \in DOMAIN list : \E p \in DOMAIN list : order[p] = i
<1> DEFINE D == DOMAIN list
<1>0. Len(list) \in Nat /\ D = 1..Len(list) /\ \A i \in D : list[i].start \in Int
  BY ListType
<1>1. order \in [D -> D]
  BY DEF Sorts
<1>2. \A p, q \in D : p < q => order[p] # order[q]
  <2> SUFFICES ASSUME NEW p \in D, NEW q \in D, p < q, order[p] = order[q] PROVE FALSE
    OBVIOUS
  <2>1. Precedes(list, order[p], order[q])
    BY DEF Sorts
  <2>2. order[p] \in D
    BY <1>1
  <2>3. list[order[p]].start \in Int /\ order[p] \in Int
    BY <1>0, <2>2
  <2>. QED
    BY <2>1, <2>3 DEF Precedes
<1>3. \A p, q \in D : order[p] = order[q] => p = q
  BY <1>0, <1>2
<1>4. IsFiniteSet(D)
  BY <1>0, FS_Interval
<1>5. order \in Injection(D, D)
  <2> HIDE DEF D
  <2>. QED
    BY <1>1, <1>3 DEF Injection, IsInjective
<1>6. order \in Surjection(D, D)
  BY <1>4, <1>5, FS_Injection
<1>7. \A i \in D : \E p \in D : order[p] = i
  BY <1>6 DEF Surjection
<1>. QED
  BY <1>1, <1>3, <1>7


\* The edits of a sorted list, with what the order says of any two of them.
LEMMA ArrangedFacts ==
  ASSUME NEW list, NEW order, Arranged(list, order)
  PROVE  /\ \A p \in DOMAIN list :
              /\ order[p] \in DOMAIN list
              /\ list[order[p]].start \in Nat /\ list[order[p]].end \in Nat
              /\ list[order[p]].text \in Seq(Nat)
              /\ list[order[p]].start <= list[order[p]].end /\ list[order[p]].end <= Length
         /\ \A p, q \in DOMAIN list : p < q =>
              /\ list[order[p]].end <= list[order[q]].start
              /\ list[order[p]].start <= list[order[q]].start
              /\ order[p] # order[q]
              /\ Precedes(list, order[p], order[q])
         /\ \A i \in DOMAIN list : \E p \in DOMAIN list : order[p] = i
<1> DEFINE D == DOMAIN list
           F == Sorted(list, order)
<1>1. list \in Seq(Edits) /\ Sorts(list, order) /\ Separate(F)
  BY DEF Arranged
<1>2. Len(list) \in Nat /\ D = 1..Len(list)
  BY <1>1, ListType
<1>3. DOMAIN F = D /\ \A p \in D : F[p] = list[order[p]]
  BY DEF Sorted
<1>4. ASSUME NEW p \in D
      PROVE  /\ order[p] \in DOMAIN list
             /\ list[order[p]].start \in Nat /\ list[order[p]].end \in Nat
             /\ list[order[p]].text \in Seq(Nat)
             /\ list[order[p]].start <= list[order[p]].end /\ list[order[p]].end <= Length
  <2>1. order[p] \in D
    BY <1>1, SortsFacts
  <2>2. list[order[p]].start \in Int /\ list[order[p]].end \in Int /\ list[order[p]].text \in Seq(Nat)
    BY <1>1, <2>1, ListType
  <2>3. Valid(list[order[p]])
    BY <1>1, <1>3 DEF Separate
  <2>. QED
    BY <2>1, <2>2, <2>3 DEF Valid
<1>5. ASSUME NEW p \in D, NEW q \in D, p < q
      PROVE  /\ list[order[p]].end <= list[order[q]].start
             /\ list[order[p]].start <= list[order[q]].start
             /\ order[p] # order[q]
             /\ Precedes(list, order[p], order[q])
  <2>1. list[order[p]].end <= list[order[q]].start
    BY <1>1, <1>3, <1>5 DEF Separate
  <2>2. Precedes(list, order[p], order[q])
    BY <1>1, <1>5 DEF Sorts
  <2>3. order[p] # order[q]
    <3>1. p # q
      BY <1>2, <1>5
    <3>2. order[p] = order[q] => p = q
      BY ONLY <1>1, <1>5, SortsFacts
    <3>. QED
      BY ONLY <3>1, <3>2
  <2>4. list[order[p]].start <= list[order[q]].start
    BY <1>4, <2>1
  <2>. QED
    BY <2>1, <2>2, <2>3, <2>4
<1>6. \A i \in D : \E p \in D : order[p] = i
  BY <1>1, SortsFacts
<1>. QED
  BY <1>4, <1>5, <1>6

\* The edits that come first, and those that do not.
LEMMA FirstFacts ==
  ASSUME NEW list, NEW order, Arranged(list, order), NEW k \in 0..Len(list)
  PROVE  /\ EndOf(list, order, k) \in 0..Length
         /\ \A i \in First(order, k) : i \in DOMAIN list /\ list[i].end <= EndOf(list, order, k)
         /\ \A i \in DOMAIN list : i \notin First(order, k) =>
              /\ EndOf(list, order, k) <= list[i].start
              /\ k < Len(list) /\ list[order[k + 1]].start <= list[i].start
              /\ i # order[k + 1] => list[order[k + 1]].end <= list[i].start
         /\ k < Len(list) => order[k + 1] \notin First(order, k)
                             /\ First(order, k + 1) = First(order, k) \cup {order[k + 1]}
<1> DEFINE D == DOMAIN list
           c == EndOf(list, order, k)
<1>1. Len(list) \in Nat /\ D = 1..Len(list)
  BY ListType DEF Arranged
<1>2. \A p \in D :
        /\ order[p] \in D /\ list[order[p]].start \in Nat /\ list[order[p]].end \in Nat
        /\ list[order[p]].start <= list[order[p]].end /\ list[order[p]].end <= Length
  BY ArrangedFacts
<1>3. \A p, q \in D : p < q => list[order[p]].end <= list[order[q]].start /\ order[p] # order[q]
  BY ArrangedFacts
<1>4. k # 0 => k \in D
  BY <1>1
<1>5. c \in 0..Length
  BY <1>2, <1>4, EditsAssumption DEF EndOf
<1>6. ASSUME NEW i \in First(order, k) PROVE i \in D /\ list[i].end <= c
  <2>1. PICK p \in 1..k : order[p] = i
    BY DEF First
  <2>2. p \in D /\ k \in D /\ c = list[order[k]].end
    BY <1>1 DEF EndOf
  <2>3. list[order[p]].end <= list[order[k]].end
    <3>1. CASE p = k
      BY <1>2, <2>2, <3>1
    <3>2. CASE p < k
      <4>1. list[order[p]].end <= list[order[k]].start /\ list[order[k]].start <= list[order[k]].end
        BY <1>2, <1>3, <2>2, <3>2
      <4>2. /\ list[order[p]].end \in Nat /\ list[order[k]].start \in Nat /\ list[order[k]].end \in Nat
        BY <1>2, <2>2
      <4>. QED
        BY <4>1, <4>2
    <3>. QED
      BY <1>1, <3>1, <3>2
  <2>. QED
    BY <1>2, <2>1, <2>2, <2>3
<1>7. ASSUME NEW i \in D, i \notin First(order, k)
      PROVE  /\ c <= list[i].start /\ k < Len(list) /\ list[order[k + 1]].start <= list[i].start
             /\ i # order[k + 1] => list[order[k + 1]].end <= list[i].start
  <2>1. PICK q \in D : order[q] = i
    BY ArrangedFacts
  <2>2. q > k
    <3>1. ~(q \in 1..k)
      BY <1>7, <2>1 DEF First
    <3>. QED
      BY <1>1, <3>1
  <2>3. k < Len(list) /\ k + 1 \in D /\ (k + 1 = q \/ k + 1 < q)
    BY <1>1, <2>2
  <2>4. c <= list[i].start
    <3>1. CASE k = 0
      BY <1>2, <2>1, <3>1 DEF EndOf
    <3>2. CASE k # 0
      BY <1>3, <1>4, <2>1, <2>2, <3>2 DEF EndOf
    <3>. QED
      BY <3>1, <3>2
  <2>5. k + 1 < q => list[order[k + 1]].end <= list[i].start
    BY <1>3, <2>1, <2>3
  <2>6. list[order[k + 1]].start <= list[i].start
    <3>1. /\ list[order[k + 1]].start \in Nat /\ list[order[k + 1]].end \in Nat /\ list[i].start \in Nat
          /\ list[order[k + 1]].start <= list[order[k + 1]].end
      BY <1>2, <2>1, <2>3
    <3>. QED
      BY <2>1, <2>3, <2>5, <3>1
  <2>. QED
    BY <2>1, <2>3, <2>4, <2>5, <2>6
<1>8. ASSUME k < Len(list)
      PROVE  order[k + 1] \notin First(order, k) /\ First(order, k + 1) = First(order, k) \cup {order[k + 1]}
  <2>1. k + 1 \in D /\ \A p \in 1..k : p \in D /\ p < k + 1
    BY <1>1, <1>8
  <2>2. order[k + 1] \notin First(order, k)
    BY <1>3, <2>1 DEF First
  <2>3. 1..(k + 1) = (1..k) \cup {k + 1}
    OBVIOUS
  <2>4. First(order, k + 1) = First(order, k) \cup {order[k + 1]}
    BY <2>3 DEF First
  <2>. QED
    BY <2>2, <2>4
<1>. QED
  BY <1>5, <1>6, <1>7, <1>8


-----------------------------------------------------------------------------
\* No edit of the kind starts at the offset.
LEMMA PutInNone ==
  ASSUME NEW list \in Seq(Edits), NEW offset \in Nat, NEW inserting \in BOOLEAN,
         \A i \in DOMAIN list : list[i].start = offset => ~(Empty(list[i]) <=> inserting)
  PROVE  PutInBy(list, offset, inserting) = <<>>
<1>1. Len(list) \in Nat /\ DOMAIN list = 1..Len(list)
  BY ListType
<1>2. \A i \in 1..Len(list) : TextAt(list, offset, inserting)[i] = <<>>
  BY <1>1 DEF TextAt
<1>. QED
  BY <1>1, <1>2, TogetherEmpty DEF PutInBy

\* All insertions at the offset are among some edits.
LEMMA PutInAmong ==
  ASSUME NEW list \in Seq(Edits), NEW offset \in Nat, NEW done,
         \A i \in DOMAIN list : list[i].start = offset /\ Empty(list[i]) => i \in done
  PROVE  PutInBy(list, offset, TRUE) = InsertedAt(list, offset, done)
<1>1. Len(list) \in Nat /\ DOMAIN list = 1..Len(list)
  BY ListType
<1> DEFINE h == [i \in DOMAIN list |-> IF i \in done /\ list[i].start = offset /\ Empty(list[i]) THEN list[i].text ELSE <<>>]
<1>2. \A i \in 1..Len(list) : TextAt(list, offset, TRUE)[i] = h[i]
  BY <1>1 DEF TextAt
<1> HIDE DEF h
<1>3. Together(TextAt(list, offset, TRUE), Len(list)) = Together(h, Len(list))
  BY <1>1, <1>2, TogetherSame
<1>. QED
  BY <1>3 DEF PutInBy, InsertedAt, h

\* One replacement starts at the offset.
LEMMA PutInOne ==
  ASSUME NEW list \in Seq(Edits), NEW offset \in Nat, NEW j \in DOMAIN list,
         list[j].start = offset, ~Empty(list[j]),
         \A i \in DOMAIN list : i # j /\ list[i].start = offset => Empty(list[i])
  PROVE  PutInBy(list, offset, FALSE) = list[j].text
<1>1. Len(list) \in Nat /\ DOMAIN list = 1..Len(list) /\ \A i \in DOMAIN list : list[i].text \in Seq(Nat)
  BY ListType
<1> DEFINE g == TextAt(list, offset, FALSE)
<1>0. <<>> \in Seq(Nat)
  OBVIOUS
<1>2. Parts(g, Len(list), Nat)
  BY <1>0, <1>1 DEF TextAt, Parts
<1>3. (\A i \in 1..Len(list) : i # j => g[i] = <<>>) /\ g[j] = list[j].text /\ j \in 1..Len(list)
  BY <1>1 DEF TextAt
<1> HIDE DEF g
<1>4. Together(g, Len(list)) = g[j]
  BY ONLY <1>1, <1>2, <1>3, TogetherOne
<1>. QED
  BY <1>3, <1>4 DEF PutInBy, g

LEMMA InsertedNone ==
  ASSUME NEW list \in Seq(Edits), NEW offset, NEW done,
         \A i \in DOMAIN list : i \in done => ~(list[i].start = offset /\ Empty(list[i]))
  PROVE  InsertedAt(list, offset, done) = <<>>
<1>1. Len(list) \in Nat /\ DOMAIN list = 1..Len(list)
  BY ListType
<1> DEFINE h == [i \in DOMAIN list |-> IF i \in done /\ list[i].start = offset /\ Empty(list[i]) THEN list[i].text ELSE <<>>]
<1>2. \A i \in 1..Len(list) : h[i] = <<>>
  BY <1>1
<1> HIDE DEF h
<1>3. Together(h, Len(list)) = <<>>
  BY <1>1, <1>2, TogetherEmpty
<1>. QED
  BY <1>3 DEF InsertedAt, h

\* One more insertion, later in the caller's order than those at its offset.
LEMMA InsertedNext ==
  ASSUME NEW list \in Seq(Edits), NEW offset \in Nat, NEW done, NEW j \in DOMAIN list, j \notin done,
         list[j].start = offset, Empty(list[j]),
         \A i \in DOMAIN list : i \in done /\ j < i => ~(list[i].start = offset /\ Empty(list[i]))
  PROVE  InsertedAt(list, offset, done \cup {j}) = Cat(InsertedAt(list, offset, done), list[j].text)
<1>1. Len(list) \in Nat /\ DOMAIN list = 1..Len(list) /\ \A i \in DOMAIN list : list[i].text \in Seq(Nat)
  BY ListType
<1>0. <<>> \in Seq(Nat)
  OBVIOUS
<1> DEFINE g == [i \in DOMAIN list |-> IF i \in done /\ list[i].start = offset /\ Empty(list[i]) THEN list[i].text ELSE <<>>]
           h == [i \in DOMAIN list |-> IF i \in done \cup {j} /\ list[i].start = offset /\ Empty(list[i]) THEN list[i].text ELSE <<>>]
           n == Len(list)
<1>2. Parts(g, n, Nat) /\ Parts(h, n, Nat)
  BY <1>0, <1>1 DEF Parts
<1>3. g[j] = <<>> /\ h[j] = list[j].text /\ j \in 1..n
  BY <1>1
<1>4. Puts(g, h, j, list[j].text, n)
  <2>1. \A i \in 1..n : i < j => h[i] = g[i]
    BY <1>1
  <2>2. \A i \in 1..n : j < i => g[i] = <<>>
    BY <1>1
  <2>3. \A i \in 1..n : j < i => h[i] = <<>>
    BY <1>1
  <2> HIDE DEF g, h, n
  <2>. QED
    BY <1>3, <2>1, <2>2, <2>3 DEF Puts
<1>5. n \in Nat
  BY <1>1
<1> HIDE DEF g, h, n
<1>7. Longer(g, h, list[j].text, n)
  BY ONLY <1>2, <1>3, <1>4, <1>5, TogetherPut
<1>. QED
  BY <1>7 DEF InsertedAt, g, h, n, Longer, Cat

\* A slice within the document, byte by byte.
LEMMA SliceSpan ==
  ASSUME NEW s \in Nat, NEW t \in Nat, s <= t, t <= Length
  PROVE  /\ IsSeq(Slice(s, t)) /\ Slice(s, t) \in Seq(Nat) /\ Len(Slice(s, t)) = t - s
         /\ \A i \in 1..(t - s) : Slice(s, t)[i] = SQL[s + i]
<1>0. Length \in Nat /\ SQL \in Seq(Nat) /\ Len(SQL) = Length
  BY DocumentType, EditsAssumption
<1>1. IsSeq(SQL) /\ s + 1 \in Nat /\ s + 1 \in 1..(t + 1) /\ t <= Len(SQL)
  BY <1>0 DEF IsSeq
<1>2. /\ IsSeq(SubSeq(SQL, s + 1, t)) /\ Len(SubSeq(SQL, s + 1, t)) = t + 1 - (s + 1)
      /\ \A i \in 1..(t + 1 - (s + 1)) : SubSeq(SQL, s + 1, t)[i] = SQL[s + 1 + i - 1]
  BY <1>1, SeqPart
<1>3. t + 1 - (s + 1) = t - s
  OBVIOUS
<1>4. ASSUME NEW i \in 1..(t - s) PROVE SubSeq(SQL, s + 1, t)[i] = SQL[s + i]
  <2>1. s + 1 + i - 1 = s + i
    OBVIOUS
  <2>. QED
    BY <1>2, <1>3, <2>1
<1>5. Slice(s, t) \in Seq(Nat)
  BY SliceType
<1>. QED
  BY <1>2, <1>3, <1>4, <1>5 DEF Slice

\* Slices of the document that follow each other.
LEMMA SliceJoin ==
  ASSUME NEW s \in Nat, NEW t \in Nat, NEW u \in Nat, s <= t, t <= u, u <= Length
  PROVE  Cat(Slice(s, t), Slice(t, u)) = Slice(s, u)
<1> DEFINE a == Slice(s, t)
           b == Slice(t, u)
           c == Slice(s, u)
<1>0. s <= u /\ t <= Length
  BY EditsAssumption
<1>1. IsSeq(a) /\ Len(a) = t - s /\ \A i \in 1..(t - s) : a[i] = SQL[s + i]
  BY <1>0, SliceSpan
<1>2. IsSeq(b) /\ Len(b) = u - t /\ \A i \in 1..(u - t) : b[i] = SQL[t + i]
  BY <1>0, SliceSpan
<1>3. IsSeq(c) /\ Len(c) = u - s /\ \A i \in 1..(u - s) : c[i] = SQL[s + i]
  BY <1>0, SliceSpan
<1> HIDE DEF a, b, c
<1>4. /\ IsSeq(a \o b) /\ Len(a \o b) = Len(a) + Len(b)
      /\ \A i \in 1..Len(a) : (a \o b)[i] = a[i]
      /\ \A i \in 1..Len(b) : (a \o b)[Len(a) + i] = b[i]
  BY <1>1, <1>2, SeqConcat
<1>5. Len(a \o b) = Len(c)
  BY <1>1, <1>2, <1>3, <1>4
<1>6. ASSUME NEW i \in 1..Len(a \o b) PROVE (a \o b)[i] = c[i]
  <2>0. i \in 1..(u - s)
    BY <1>3, <1>5
  <2>1. CASE i <= t - s
    <3>1. i \in 1..(t - s)
      BY <2>0, <2>1
    <3>. QED
      BY <1>1, <1>3, <1>4, <2>0, <3>1
  <2>2. CASE ~(i <= t - s)
    <3> DEFINE m == i - (t - s)
    <3>1. m \in 1..(u - t) /\ t + m = s + i /\ (t - s) + m = i
      BY <2>0, <2>2
    <3> HIDE DEF m
    <3>2. (a \o b)[(t - s) + m] = b[m]
      BY <1>1, <1>2, <1>4, <3>1
    <3>. QED
      BY <1>2, <1>3, <2>0, <3>1, <3>2
  <2>. QED
    BY <2>1, <2>2
<1>7. a \o b = c
  BY <1>3, <1>4, <1>5, <1>6, SeqSame
<1>. QED
  BY <1>7 DEF a, b, c, Cat

LEMMA SliceFacts ==
  /\ \A s \in 0..Length : Slice(s, s) = <<>>
  /\ \A s, t \in 0..Length : s <= t => Slice(s, t) \in Seq(Nat)
  /\ \A s, t \in 0..Length : s <= t /\ t < Length => Slice(s, t + 1) = Slice(s, t) \o <<SQL[t + 1]>>
  /\ Slice(0, Length) = SQL
<1>0. Length \in Nat /\ SQL \in Seq(Nat) /\ Len(SQL) = Length
  BY DocumentType, EditsAssumption
<1>1. \A s \in 0..Length : Slice(s, s) = <<>>
  BY <1>0 DEF Slice
<1>2. \A s, t \in 0..Length : s <= t => Slice(s, t) \in Seq(Nat)
  BY <1>0, SliceType
<1>4. ASSUME NEW s \in 0..Length, NEW t \in 0..Length, s <= t, t < Length
      PROVE  Slice(s, t + 1) = Slice(s, t) \o <<SQL[t + 1]>>
  <2>1. s \in Nat /\ t \in Nat /\ t + 1 \in Nat /\ t + 1 <= Length /\ t <= t + 1
    BY <1>0, <1>4
  <2>2. Slice(t, t + 1) = <<SQL[t + 1]>>
    <3>1. IsSeq(Slice(t, t + 1)) /\ Len(Slice(t, t + 1)) = (t + 1) - t /\ \A i \in 1..((t + 1) - t) : Slice(t, t + 1)[i] = SQL[t + i]
      BY <2>1, SliceSpan
    <3>2. (t + 1) - t = 1
      BY <2>1
    <3>3. IsSeq(<<SQL[t + 1]>>) /\ Len(<<SQL[t + 1]>>) = 1 /\ <<SQL[t + 1]>>[1] = SQL[t + 1]
      BY SeqOne
    <3>4. Len(Slice(t, t + 1)) = 1 /\ Slice(t, t + 1)[1] = SQL[t + 1]
      BY <3>1, <3>2
    <3>. QED
      BY <3>1, <3>3, <3>4, SeqSame
  <2>3. Cat(Slice(s, t), Slice(t, t + 1)) = Slice(s, t + 1)
    BY <1>4, <2>1, SliceJoin
  <2>. QED
    BY <2>2, <2>3 DEF Cat
<1>5. Slice(0, Length) = SQL
  <2>1. 0 \in Nat /\ 0 <= Length /\ Length <= Length
    BY <1>0
  <2>2. /\ IsSeq(Slice(0, Length)) /\ Len(Slice(0, Length)) = Length - 0
        /\ \A i \in 1..(Length - 0) : Slice(0, Length)[i] = SQL[0 + i]
    BY <1>0, <2>1, SliceSpan
  <2>3. Length - 0 = Length /\ \A i \in 1..Length : 0 + i = i
    BY <1>0
  <2>4. Len(Slice(0, Length)) = Len(SQL) /\ \A i \in 1..Len(Slice(0, Length)) : Slice(0, Length)[i] = SQL[i]
    BY <1>0, <2>2, <2>3
  <2>5. IsSeq(SQL)
    BY <1>0 DEF IsSeq
  <2>. QED
    BY <2>2, <2>4, <2>5, SeqSame
<1>. QED
  BY <1>1, <1>2, <1>4, <1>5


-----------------------------------------------------------------------------
\* An offset after the first k edits where none of the others has started: the
\* insertions among the first, then the byte.
LEMMA AtKept ==
  ASSUME NEW list, NEW order, Arranged(list, order), NEW k \in 0..Len(list), NEW s \in Nat, s < Length,
         EndOf(list, order, k) <= s,
         \A i \in DOMAIN list : i \notin First(order, k) => s + 1 <= list[i].start
  PROVE  At(list, s) = InsertedAt(list, s, First(order, k)) \o <<SQL[s + 1]>>
<1> DEFINE c == EndOf(list, order, k)
           done == First(order, k)
<1>1. list \in Seq(Edits) /\ c \in Nat /\ \A i \in DOMAIN list : list[i].start \in Int /\ list[i].end \in Int
  BY ListType, FirstFacts DEF Arranged
<1>2. \A i \in DOMAIN list : i \in done => list[i].end <= s
  <2> SUFFICES ASSUME NEW i \in DOMAIN list, i \in done PROVE list[i].end <= s
    OBVIOUS
  <2>1. list[i].end <= c
    BY FirstFacts
  <2>. QED
    BY <1>1, <2>1
<1>3. \A i \in DOMAIN list : i \in done \/ s < list[i].start
  BY <1>1
<1>4. \A i \in DOMAIN list : list[i].start <= list[i].end
  BY ArrangedFacts
<1> HIDE DEF c, done
<1>5. PutInBy(list, s, TRUE) = InsertedAt(list, s, done)
  <2>1. \A i \in DOMAIN list : list[i].start = s /\ Empty(list[i]) => i \in done
    BY <1>1, <1>3
  <2>. QED
    BY <1>1, <2>1, PutInAmong
<1>6. PutInBy(list, s, FALSE) = <<>>
  <2>1. \A i \in DOMAIN list : list[i].start = s => ~(Empty(list[i]) <=> FALSE)
    <3> SUFFICES ASSUME NEW i \in DOMAIN list, list[i].start = s PROVE Empty(list[i])
      OBVIOUS
    <3>1. list[i].end <= s /\ list[i].start <= list[i].end
      BY <1>1, <1>2, <1>3, <1>4
    <3>. QED
      BY <1>1, <3>1 DEF Empty
  <2>. QED
    BY <1>1, <2>1, PutInNone
<1>7. ByteAt(list, s) = <<SQL[s + 1]>>
  <2>1. KeptBy(list, s)
    BY <1>2, <1>3 DEF KeptBy
  <2>. QED
    BY <2>1 DEF ByteAt
<1>8. InsertedAt(list, s, done) \in Seq(Nat)
  BY <1>1, TextsType
<1>9. InsertedAt(list, s, done) \o <<>> = InsertedAt(list, s, done)
  BY <1>8, ConcatEmptySeq
<1>. QED
  BY <1>5, <1>6, <1>7, <1>9 DEF At, done

LEMMA WrittenType ==
  ASSUME NEW list, NEW order, Arranged(list, order), NEW k \in 0..Len(list)
  PROVE  Written(list, order, k) \in Seq(Nat)
<1> DEFINE c == EndOf(list, order, k)
<1>1. list \in Seq(Edits) /\ c \in 0..Length
  BY FirstFacts DEF Arranged
<1>2. Upto(list, c) \in Seq(Nat)
  BY <1>1, UptoFacts
<1>3. c \in Nat
  BY <1>1, EditsAssumption
<1>4. InsertedAt(list, c, First(order, k)) \in Seq(Nat)
  BY <1>1, <1>3, TextsType
<1> HIDE DEF c
<1>5. Upto(list, c) \o InsertedAt(list, c, First(order, k)) \in Seq(Nat)
  BY <1>2, <1>4, ConcatProperties
<1>. QED
  BY <1>5 DEF Written, c

\* What is written for the first k edits, and the document up to an offset where
\* none of the others has started.
LEMMA Reach ==
  ASSUME NEW list, NEW order, Arranged(list, order), NEW k \in 0..Len(list), NEW s \in 0..Length,
         EndOf(list, order, k) <= s,
         \A i \in DOMAIN list : i \notin First(order, k) => s <= list[i].start
  PROVE  Upto(list, s) \o InsertedAt(list, s, First(order, k))
           = Written(list, order, k) \o Slice(EndOf(list, order, k), s)
<1> DEFINE c == EndOf(list, order, k)
           done == First(order, k)
           W == Written(list, order, k)
           To(t) == Upto(list, t) \o InsertedAt(list, t, done)
           T == {d \in Nat : c + d <= s => To(c + d) = W \o Slice(c, c + d)}
<1>0. list \in Seq(Edits) /\ W \in Seq(Nat) /\ c \in 0..Length /\ c \in Nat /\ s \in Nat /\ Length \in Nat
  BY FirstFacts, WrittenType, EditsAssumption DEF Arranged
<1>1. 0 \in T
  <2>1. To(c) = W
    BY DEF Written
  <2>2. Slice(c, c) = <<>> /\ W \o <<>> = W
    BY <1>0, SliceFacts, ConcatEmptySeq
  <2> HIDE DEF To, W, c
  <2>3. c + 0 = c
    BY <1>0
  <2>. QED
    BY <2>1, <2>2, <2>3
<1>2. ASSUME NEW d \in Nat, d \in T PROVE d + 1 \in T
  <2> DEFINE t == c + d
  <2>0. t \in Nat /\ c + (d + 1) = t + 1
    BY <1>0
  <2> SUFFICES ASSUME t + 1 <= s PROVE To(t + 1) = W \o Slice(c, t + 1)
    <3> HIDE DEF To, W, c
    <3>. QED
      BY <2>0
  <2>1. To(t) = W \o Slice(c, t)
    <3>1. t <= s
      BY <1>0, <2>0
    <3> HIDE DEF To, W, c
    <3>. QED
      BY <1>2, <3>1
  <2>2. t < Length /\ c <= t /\ t \in 0..Length /\ t + 1 \in Nat /\ t + 1 \in 0..Length
    BY <1>0, <2>0
  <2>3. \A i \in DOMAIN list : i \notin done => t + 1 <= list[i].start
    <3>1. \A i \in DOMAIN list : list[i].start \in Int
      BY <1>0, ListType
    <3> HIDE DEF done, t
    <3>. QED
      BY <1>0, <2>0, <3>1 DEF done
  <2> HIDE DEF t
  <2>4. At(list, t) = InsertedAt(list, t, done) \o <<SQL[t + 1]>>
    BY <2>0, <2>2, <2>3, AtKept
  <2>5. InsertedAt(list, t + 1, done) = <<>>
    <3>1. \A i \in DOMAIN list : i \in done => ~(list[i].start = t + 1 /\ Empty(list[i]))
      <4> SUFFICES ASSUME NEW i \in DOMAIN list, i \in done, list[i].start = t + 1 PROVE FALSE
        OBVIOUS
      <4>1. list[i].end <= c
        BY FirstFacts
      <4>2. list[i].start <= list[i].end
        <5>1. PICK p \in DOMAIN list : order[p] = i
          BY ArrangedFacts
        <5>2. list[order[p]].start <= list[order[p]].end
          BY ArrangedFacts
        <5>. QED
          BY <5>1, <5>2
      <4>3. list[i].end \in Int
        BY <1>0, ListType
      <4> HIDE DEF c, done
      <4>. QED
        BY <1>0, <2>0, <2>2, <4>1, <4>2, <4>3
    <3> HIDE DEF done
    <3>. QED
      BY <1>0, <3>1, InsertedNone
  <2> DEFINE u == Upto(list, t)
             v == InsertedAt(list, t, done)
             b == <<SQL[t + 1]>>
             a == Slice(c, t)
  <2>6. u \in Seq(Nat) /\ At(list, t) \in Seq(Nat) /\ Upto(list, t + 1) = u \o At(list, t)
    BY <1>0, <2>2, UptoFacts
  <2>7. v \in Seq(Nat)
    BY <1>0, <2>0, TextsType
  <2>8. a \in Seq(Nat) /\ Slice(c, t + 1) = a \o b
    <3> HIDE DEF c
    <3>. QED
      BY <1>0, <2>2, SliceFacts
  <2>9. b \in Seq(Nat)
    <3>1. SQL[t + 1] \in Nat
      BY <2>0, <2>2, EditsAssumption DEF SQL
    <3>. QED
      BY <3>1
  <2>10. To(t + 1) = u \o (v \o b)
    <3>1. To(t + 1) = Upto(list, t + 1) \o <<>>
      BY <2>5
    <3>2. Upto(list, t + 1) \in Seq(Nat)
      BY <1>0, <2>2, UptoFacts
    <3>3. Upto(list, t + 1) \o <<>> = Upto(list, t + 1)
      BY <3>2, ConcatEmptySeq
    <3>. QED
      BY <2>4, <2>6, <3>1, <3>3
  <2>11. To(t) = u \o v
    OBVIOUS
  <2> HIDE DEF To, W, u, v, a, b, c
  <2>12. u \o (v \o b) = (u \o v) \o b
    <3>1. u \in Seq(Nat)
      BY <2>6
    <3>2. Cat(Cat(u, v), b) = Cat(u, Cat(v, b))
      BY ONLY <3>1, <2>7, <2>9, CatAssociative
    <3>. QED
      BY <3>2 DEF Cat
  <2>13. (W \o a) \o b = W \o (a \o b)
    <3>1. W \in Seq(Nat) /\ a \in Seq(Nat)
      BY <1>0, <2>8
    <3>2. Cat(Cat(W, a), b) = Cat(W, Cat(a, b))
      BY ONLY <3>1, <2>9, CatAssociative
    <3>. QED
      BY <3>2 DEF Cat
  <2>14. W \o Slice(c, t) = W \o a
    BY DEF a
  <2>. QED
    BY <2>1, <2>8, <2>10, <2>11, <2>12, <2>13, <2>14
<1> HIDE DEF T
<1>3. s - c \in Nat /\ c + (s - c) = s /\ c + (s - c) <= s
  BY <1>0
<1>4. s - c \in T
  BY <1>1, <1>2, <1>3, NaturalSets
<1>5. To(c + (s - c)) = W \o Slice(c, c + (s - c))
  <2> HIDE DEF To, W, c
  <2>. QED
    BY <1>3, <1>4 DEF T
<1>6. To(s) = W \o Slice(c, s)
  <2> HIDE DEF To, W, c
  <2>. QED
    BY <1>3, <1>5
<1>. QED
  BY <1>6


\* Where a replacement starts: the insertions among the edits before it, and its text.
LEMMA AtReplaced ==
  ASSUME NEW list, NEW order, Arranged(list, order), NEW k \in 0..Len(list), k < Len(list),
         ~Empty(list[order[k + 1]])
  PROVE  LET e == list[order[k + 1]]
         IN  /\ At(list, e.start) = InsertedAt(list, e.start, First(order, k)) \o e.text
             /\ \A t \in Nat : e.start < t /\ t < e.end => At(list, t) = <<>>
             /\ InsertedAt(list, e.end, First(order, k + 1)) = <<>>
<1> DEFINE j == order[k + 1]
           s == list[j].start
           o == list[j].end
           done == First(order, k)
           c == EndOf(list, order, k)
<1>0. list \in Seq(Edits) /\ DOMAIN list = 1..Len(list) /\ Len(list) \in Nat /\ k + 1 \in DOMAIN list
  BY ListType DEF Arranged
<1>1. j \in DOMAIN list /\ s \in Nat /\ o \in Nat /\ s < o /\ o <= Length /\ list[j].text \in Seq(Nat)
  <2>1. /\ j \in DOMAIN list /\ s \in Nat /\ o \in Nat /\ s <= o /\ o <= Length /\ list[j].text \in Seq(Nat)
    BY <1>0, ArrangedFacts
  <2>2. s # o
    BY DEF Empty
  <2>. QED
    BY <2>1, <2>2
<1>2. /\ First(order, k + 1) = done \cup {j} /\ j \notin done
      /\ \A i \in DOMAIN list : i \notin done => c <= list[i].start /\ s <= list[i].start /\ (i # j => o <= list[i].start)
      /\ \A i \in done : list[i].end <= c
      /\ c \in 0..Length
  BY FirstFacts
<1>3. \A i \in DOMAIN list : list[i].start \in Nat /\ list[i].end \in Nat /\ list[i].start <= list[i].end
  <2> SUFFICES ASSUME NEW i \in DOMAIN list
               PROVE  list[i].start \in Nat /\ list[i].end \in Nat /\ list[i].start <= list[i].end
    OBVIOUS
  <2>1. PICK p \in DOMAIN list : order[p] = i
    BY ArrangedFacts
  <2>. QED
    BY <2>1, ArrangedFacts
<1>4. \A i \in done : list[i].end <= s
  <2>1. c <= s /\ c \in Nat
    BY <1>1, <1>2, EditsAssumption
  <2>2. \A i \in done : i \in DOMAIN list
    BY FirstFacts
  <2>. QED
    BY <1>1, <1>2, <1>3, <2>1, <2>2
<1>5. \A i \in DOMAIN list : i \in done \/ i = j \/ o <= list[i].start
  BY <1>2
<1>6. ~Empty(list[j])
  OBVIOUS
<1> HIDE DEF j, s, o, done, c
<1>7. At(list, s) = InsertedAt(list, s, done) \o list[j].text
  <2>1. PutInBy(list, s, TRUE) = InsertedAt(list, s, done)
    <3>1. \A i \in DOMAIN list : list[i].start = s /\ Empty(list[i]) => i \in done
      BY <1>1, <1>3, <1>5, <1>6
    <3>. QED
      BY <1>0, <1>1, <3>1, PutInAmong
  <2>2. PutInBy(list, s, FALSE) = list[j].text
    <3>1. \A i \in DOMAIN list : i # j /\ list[i].start = s => Empty(list[i])
      <4> SUFFICES ASSUME NEW i \in DOMAIN list, i # j, list[i].start = s PROVE Empty(list[i])
        OBVIOUS
      <4>1. i \in done
        BY <1>1, <1>3, <1>5
      <4>. QED
        BY <1>1, <1>3, <1>4, <4>1 DEF Empty
    <3>2. list[j].start = s
      BY DEF s
    <3>. QED
      BY <1>0, <1>1, <1>6, <3>1, <3>2, PutInOne
  <2>3. ByteAt(list, s) = <<>>
    <3>1. list[j].start = s /\ list[j].end = o
      BY DEF s, o
    <3>2. ~KeptBy(list, s)
      BY <1>1, <3>1 DEF KeptBy
    <3>. QED
      BY <3>2 DEF ByteAt
  <2>4. InsertedAt(list, s, done) \in Seq(Nat) /\ list[j].text \in Seq(Nat)
    BY <1>0, <1>1, TextsType
  <2> DEFINE a == InsertedAt(list, s, done)
             b == list[j].text
  <2>5. At(list, s) = (a \o b) \o <<>>
    BY <2>1, <2>2, <2>3 DEF At
  <2> HIDE DEF a, b
  <2>6. a \o b \in Seq(Nat)
    <3>1. a \in Seq(Nat) /\ b \in Seq(Nat)
      BY <2>4 DEF a, b
    <3>. QED
      BY <3>1, ConcatProperties
  <2>7. (a \o b) \o <<>> = a \o b
    BY ONLY <2>6, ConcatEmptySeq
  <2>. QED
    BY <2>5, <2>7 DEF a, b
<1>8. \A t \in Nat : s < t /\ t < o => At(list, t) = <<>>
  <2> SUFFICES ASSUME NEW t \in Nat, s < t, t < o PROVE At(list, t) = <<>>
    OBVIOUS
  <2>1. \A i \in DOMAIN list : list[i].start # t
    <3> SUFFICES ASSUME NEW i \in DOMAIN list, list[i].start = t PROVE FALSE
      OBVIOUS
    <3>1. i # j
      BY <1>1 DEF s
    <3>2. i \in done
      BY <1>1, <1>5, <3>1
    <3>. QED
      BY <1>1, <1>3, <1>4, <3>2
  <2>2. PutInBy(list, t, TRUE) = <<>> /\ PutInBy(list, t, FALSE) = <<>>
    BY <1>0, <2>1, PutInNone
  <2>3. ByteAt(list, t) = <<>>
    <3>1. list[j].start = s /\ list[j].end = o
      BY DEF s, o
    <3>2. ~KeptBy(list, t)
      BY <1>1, <3>1 DEF KeptBy
    <3>. QED
      BY <3>2 DEF ByteAt
  <2>. QED
    <3>1. <<>> \in Seq(Nat)
      OBVIOUS
    <3>2. <<>> \o <<>> = <<>>
      BY ONLY <3>1, ConcatEmptySeq
    <3>. QED
      BY <2>2, <2>3, <3>2 DEF At
<1>9. InsertedAt(list, o, First(order, k + 1)) = <<>>
  <2>1. \A i \in DOMAIN list : i \in First(order, k + 1) => ~(list[i].start = o /\ Empty(list[i]))
    <3> SUFFICES ASSUME NEW i \in DOMAIN list, i \in First(order, k + 1), list[i].start = o, Empty(list[i]) PROVE FALSE
      OBVIOUS
    <3>1. i \in done
      BY <1>2, <1>6
    <3>. QED
      BY <1>1, <1>3, <1>4, <3>1
  <2>. QED
    BY <1>0, <2>1, InsertedNone
<1>. QED
  BY <1>7, <1>8, <1>9 DEF j, s, o, done

\* The next edit's text follows the document up to where it starts.
LEMMA WrittenNext ==
  ASSUME NEW list, NEW order, Arranged(list, order), NEW k \in 0..Len(list), k < Len(list)
  PROVE  Written(list, order, k + 1)
           = (Written(list, order, k) \o Slice(EndOf(list, order, k), list[order[k + 1]].start)) \o list[order[k + 1]].text
<1> DEFINE j == order[k + 1]
           s == list[j].start
           o == list[j].end
           x == list[j].text
           done == First(order, k)
           c == EndOf(list, order, k)
           W == Written(list, order, k)
           u == Upto(list, s)
           v == InsertedAt(list, s, done)
<1>0. list \in Seq(Edits) /\ DOMAIN list = 1..Len(list) /\ Len(list) \in Nat /\ k + 1 \in DOMAIN list
  BY ListType DEF Arranged
<1>1. j \in DOMAIN list /\ s \in Nat /\ o \in Nat /\ s <= o /\ o <= Length /\ x \in Seq(Nat)
  BY <1>0, ArrangedFacts
<1>2. s \in 0..Length /\ o \in 0..Length
  BY <1>1, EditsAssumption
<1>3. /\ First(order, k + 1) = done \cup {j} /\ j \notin done /\ c <= s
      /\ \A i \in DOMAIN list : i \notin done => s <= list[i].start
  BY <1>1, FirstFacts
<1>4. u \o v = W \o Slice(c, s)
  BY <1>2, <1>3, Reach
<1>5. EndOf(list, order, k + 1) = o
  <2>1. k + 1 # 0
    BY <1>0
  <2>. QED
    BY <2>1 DEF EndOf
<1>6. Written(list, order, k + 1) = Upto(list, o) \o InsertedAt(list, o, First(order, k + 1))
  BY <1>5 DEF Written
<1>7. u \in Seq(Nat) /\ v \in Seq(Nat)
  BY <1>0, <1>1, <1>2, UptoFacts, TextsType
<1>8. (u \o v) \o x = u \o (v \o x)
  <2>1. x \in Seq(Nat)
    BY <1>1
  <2> HIDE DEF u, v, x
  <2>2. Cat(Cat(u, v), x) = Cat(u, Cat(v, x))
    BY ONLY <1>7, <2>1, CatAssociative
  <2>. QED
    BY <2>2 DEF Cat
<1>9. CASE Empty(list[j])
  <2>1. o = s
    BY <1>9 DEF Empty
  <2>2. InsertedAt(list, s, done \cup {j}) = v \o x
    <3>1. \A i \in DOMAIN list : i \in done /\ j < i => ~(list[i].start = s /\ Empty(list[i]))
      <4> SUFFICES ASSUME NEW i \in DOMAIN list, i \in done, j < i, list[i].start = s, Empty(list[i]) PROVE FALSE
        OBVIOUS
      <4>1. PICK p \in 1..k : order[p] = i
        BY DEF First
      <4>2. p \in DOMAIN list /\ p < k + 1
        BY <1>0
      <4>3. Precedes(list, i, j)
        BY <1>0, <4>1, <4>2, ArrangedFacts
      <4>. QED
        BY <1>0, <1>1, <1>9, <4>3 DEF Precedes
    <3>2. list[j].start = s /\ s \in Nat
      BY <1>1
    <3> HIDE DEF j, s, done
    <3>3. InsertedAt(list, s, done \cup {j}) = Cat(InsertedAt(list, s, done), list[j].text)
      <4>1. list \in Seq(Edits) /\ j \in DOMAIN list /\ j \notin done
        BY <1>0, <1>1, <1>3
      <4>. QED
        BY ONLY <1>9, <3>1, <3>2, <4>1, InsertedNext
    <3>. QED
      BY <3>3 DEF Cat
  <2>3. Written(list, order, k + 1) = u \o (v \o x)
    BY <1>3, <1>6, <2>1, <2>2
  <2>. QED
    BY <1>4, <1>8, <2>3
<1>10. CASE ~Empty(list[j])
  <2>1. /\ At(list, s) = v \o x
        /\ \A t \in Nat : s < t /\ t < o => At(list, t) = <<>>
        /\ InsertedAt(list, o, First(order, k + 1)) = <<>>
    BY <1>10, AtReplaced
  <2>2. s < o /\ s + 1 \in 0..(Length + 1) /\ o \in 0..(Length + 1) /\ s + 1 <= o
    <3>1. s # o
      BY <1>10 DEF Empty
    <3>2. Length \in Nat
      BY EditsAssumption
    <3>3. s \in Nat /\ o \in Nat /\ s <= o /\ o <= Length
      BY <1>1
    <3> HIDE DEF s, o
    <3>. QED
      BY ONLY <3>1, <3>2, <3>3
  <2>3. Upto(list, s + 1) = u \o (v \o x)
    BY <1>0, <1>2, <2>1, UptoFacts
  <2>4. Upto(list, o) = Upto(list, s + 1)
    <3>1. \A t \in 0..Length : s + 1 <= t /\ t < o => At(list, t) = <<>>
      <4> SUFFICES ASSUME NEW t \in 0..Length, s + 1 <= t, t < o PROVE At(list, t) = <<>>
        OBVIOUS
      <4>1. t \in Nat /\ s < t
        BY <1>1, EditsAssumption
      <4>. QED
        BY <2>1, <4>1
    <3> HIDE DEF s, o
    <3>. QED
      BY <1>0, <2>2, <3>1, UptoRest
  <2>5. Upto(list, o) \in Seq(Nat)
    BY <1>0, <1>2, UptoFacts
  <2>6. Upto(list, o) \o <<>> = Upto(list, o)
    BY ONLY <2>5, ConcatEmptySeq
  <2>7. Written(list, order, k + 1) = u \o (v \o x)
    BY <1>6, <2>1, <2>3, <2>4, <2>6
  <2>. QED
    BY <1>4, <1>8, <2>7
<1>. QED
  BY <1>9, <1>10


\* With no edit written there is nothing; after all of them comes the rest.
LEMMA WrittenNone ==
  ASSUME NEW list, NEW order, Arranged(list, order)
  PROVE  Written(list, order, 0) = <<>>
<1>1. list \in Seq(Edits) /\ EndOf(list, order, 0) = 0 /\ First(order, 0) = {}
  BY DEF Arranged, EndOf, First
<1>2. Upto(list, 0) = <<>>
  BY <1>1, UptoFacts
<1>3. InsertedAt(list, 0, {}) = <<>>
  BY <1>1, InsertedNone
<1>4. <<>> \in Seq(Nat)
  OBVIOUS
<1>5. <<>> \o <<>> = <<>>
  BY ONLY <1>4, ConcatEmptySeq
<1>. QED
  BY <1>1, <1>2, <1>3, <1>5 DEF Written

LEMMA WrittenAll ==
  ASSUME NEW list, NEW order, Arranged(list, order)
  PROVE  Written(list, order, Len(list)) \o Slice(EndOf(list, order, Len(list)), Length) = Upto(list, Length + 1)
<1> DEFINE n == Len(list)
           done == First(order, n)
           c == EndOf(list, order, n)
           u == Upto(list, Length)
           v == InsertedAt(list, Length, done)
<1>0. list \in Seq(Edits) /\ DOMAIN list = 1..n /\ n \in Nat /\ n \in 0..Len(list) /\ Length \in Nat /\ Length \in 0..Length
  BY ListType, EditsAssumption DEF Arranged
<1>1. \A i \in DOMAIN list : i \in done
  <2> SUFFICES ASSUME NEW i \in DOMAIN list PROVE i \in done
    OBVIOUS
  <2>1. PICK p \in DOMAIN list : order[p] = i
    BY ArrangedFacts
  <2>. QED
    BY <1>0, <2>1 DEF First
<1>2. c \in 0..Length /\ c <= Length
  <2>1. c \in 0..Length
    BY <1>0, FirstFacts
  <2>. QED
    BY <1>0, <2>1
<1>3. u \o v = Written(list, order, n) \o Slice(c, Length)
  <2> HIDE DEF n, done
  <2>1. \A i \in DOMAIN list : i \notin done => Length <= list[i].start
    BY <1>1
  <2>. QED
    BY <1>0, <1>2, <2>1, Reach DEF done
<1>4. \A i \in DOMAIN list : list[i].start \in Nat /\ list[i].end \in Nat /\ list[i].start <= list[i].end /\ list[i].end <= Length
  <2> SUFFICES ASSUME NEW i \in DOMAIN list
               PROVE  list[i].start \in Nat /\ list[i].end \in Nat /\ list[i].start <= list[i].end /\ list[i].end <= Length
    OBVIOUS
  <2>1. PICK p \in DOMAIN list : order[p] = i
    BY ArrangedFacts
  <2>. QED
    BY <2>1, ArrangedFacts
<1>5. At(list, Length) = v
  <2>1. PutInBy(list, Length, TRUE) = v
    BY <1>0, <1>1, PutInAmong
  <2>2. PutInBy(list, Length, FALSE) = <<>>
    <3>1. \A i \in DOMAIN list : list[i].start = Length => ~(Empty(list[i]) <=> FALSE)
      BY <1>0, <1>4 DEF Empty
    <3>. QED
      BY <1>0, <3>1, PutInNone
  <2>3. ByteAt(list, Length) = <<>>
    BY <1>0 DEF ByteAt
  <2>4. v \in Seq(Nat)
    BY <1>0, TextsType
  <2>5. At(list, Length) = (v \o <<>>) \o <<>>
    BY <2>1, <2>2, <2>3 DEF At
  <2> HIDE DEF v
  <2>6. v \o <<>> = v
    BY ONLY <2>4, ConcatEmptySeq
  <2>. QED
    BY <2>5, <2>6
<1>6. Upto(list, Length + 1) = u \o v
  BY <1>0, <1>5, UptoFacts
<1>. QED
  BY <1>3, <1>6

\* Edits that change nothing leave the document.
LEMMA WrittenSame ==
  ASSUME NEW list, NEW order, Arranged(list, order),
         \A p \in DOMAIN list : list[order[p]].text = Slice(list[order[p]].start, list[order[p]].end)
  PROVE  Upto(list, Length + 1) = SQL
<1> DEFINE c(k) == EndOf(list, order, k)
           W(k) == Written(list, order, k)
           n == Len(list)
           T == {k \in Nat : k <= n => W(k) = Slice(0, c(k))}
<1>0. DOMAIN list = 1..n /\ n \in Nat /\ Length \in Nat
  BY ListType, EditsAssumption DEF Arranged
<1>1. 0 \in T
  <2>1. W(0) = <<>> /\ c(0) = 0
    BY WrittenNone DEF EndOf
  <2>2. Slice(0, 0) = <<>>
    BY <1>0, SliceFacts
  <2> HIDE DEF c, W
  <2>. QED
    BY <2>1, <2>2
<1>2. ASSUME NEW k \in Nat, k \in T PROVE k + 1 \in T
  <2> SUFFICES ASSUME k + 1 <= n PROVE W(k + 1) = Slice(0, c(k + 1))
    <3> HIDE DEF W, c
    <3>. QED
      OBVIOUS
  <2> DEFINE s == list[order[k + 1]].start
             o == list[order[k + 1]].end
             x == list[order[k + 1]].text
  <2>0. k \in 0..n /\ k < n /\ k + 1 \in DOMAIN list
    BY <1>0
  <2>1. W(k) = Slice(0, c(k))
    <3> HIDE DEF W, c
    <3>. QED
      BY <1>2, <2>0
  <2>2. W(k + 1) = (W(k) \o Slice(c(k), s)) \o x
    BY <2>0, WrittenNext
  <2>3. x = Slice(s, o)
    BY <2>0
  <2>4. /\ c(k + 1) = o
    BY <2>0 DEF EndOf
  <2>5. s \in Nat /\ o \in Nat /\ s <= o /\ o <= Length
    BY <2>0, ArrangedFacts
  <2>6. c(k) \in Nat /\ c(k) <= s
    <3>1. order[k + 1] \in DOMAIN list /\ order[k + 1] \notin First(order, k)
      BY <2>0, ArrangedFacts, FirstFacts
    <3>2. c(k) \in 0..Length /\ c(k) <= s
      BY <2>0, <3>1, FirstFacts
    <3>. QED
      BY <1>0, <3>2
  <2> HIDE DEF c, s, o, x, W
  <2>7. Slice(0, c(k)) \o Slice(c(k), s) = Slice(0, s)
    <3>1. Cat(Slice(0, c(k)), Slice(c(k), s)) = Slice(0, s)
      <4>1. s <= Length
        BY <1>0, <2>5
      <4>. QED
        BY <2>5, <2>6, <4>1, SliceJoin
    <3>. QED
      BY <3>1 DEF Cat
  <2>8. Slice(0, s) \o Slice(s, o) = Slice(0, o)
    <3>1. Cat(Slice(0, s), Slice(s, o)) = Slice(0, o)
      BY <2>5, SliceJoin
    <3>. QED
      BY <3>1 DEF Cat
  <2>. QED
    BY <2>1, <2>2, <2>3, <2>4, <2>7, <2>8
<1> HIDE DEF T
<1>3. n \in T
  BY <1>0, <1>1, <1>2, NaturalSets
<1>4. W(n) = Slice(0, c(n))
  <2> HIDE DEF W, c
  <2>. QED
    BY <1>0, <1>3 DEF T
<1>5. c(n) \in Nat /\ c(n) <= Length
  <2>1. n \in 0..n
    BY <1>0
  <2>2. c(n) \in 0..Length
    BY <2>1, FirstFacts
  <2>. QED
    BY <1>0, <2>2
<1>6. Slice(0, c(n)) \o Slice(c(n), Length) = Slice(0, Length)
  <2> HIDE DEF c, n
  <2>. QED
    <3>1. Length <= Length
      BY <1>0
    <3>2. Cat(Slice(0, c(n)), Slice(c(n), Length)) = Slice(0, Length)
      BY <1>0, <1>5, <3>1, SliceJoin
    <3>. QED
      BY <3>2 DEF Cat
<1>7. W(n) \o Slice(c(n), Length) = Upto(list, Length + 1)
  BY WrittenAll
<1>. QED
  BY <1>4, <1>6, <1>7, SliceFacts


-----------------------------------------------------------------------------
(***************************************************************************)
(* Legal edits are those that, sorted, do not overlap                       *)
(***************************************************************************)
LEMMA InOrderSeparate ==
  ASSUME NEW list \in Seq(Edits), InOrder(list, Len(list) + 1)
  PROVE  Separate(list)
<1>0. /\ DOMAIN list = 1..Len(list) /\ Len(list) \in Nat
      /\ \A k \in DOMAIN list : list[k].start \in Int /\ list[k].end \in Int
  BY ListType
<1>1. \A k \in DOMAIN list : Valid(list[k]) /\ (k > 1 => list[k - 1].end <= list[k].start)
  BY <1>0 DEF InOrder
<1> DEFINE T == {d \in Nat : \A k \in DOMAIN list : k + d + 1 \in DOMAIN list => list[k].end <= list[k + d + 1].start}
<1>2. 0 \in T
  <2> SUFFICES ASSUME NEW k \in DOMAIN list, k + 0 + 1 \in DOMAIN list PROVE list[k].end <= list[k + 0 + 1].start
    OBVIOUS
  <2>1. k + 0 + 1 > 1 /\ (k + 0 + 1) - 1 = k
    BY <1>0
  <2>. QED
    BY <1>1, <2>1
<1>3. ASSUME NEW d \in Nat, d \in T PROVE d + 1 \in T
  <2> SUFFICES ASSUME NEW k \in DOMAIN list, k + (d + 1) + 1 \in DOMAIN list
               PROVE  list[k].end <= list[k + (d + 1) + 1].start
    OBVIOUS
  <2> DEFINE m == k + d + 1
             r == k + (d + 1) + 1
  <2>1. m \in DOMAIN list /\ r \in DOMAIN list /\ r > 1 /\ r - 1 = m
    BY <1>0
  <2>2. list[k].end <= list[m].start
    BY <1>3, <2>1
  <2> HIDE DEF m, r
  <2>3. list[m].start <= list[m].end /\ list[m].end <= list[r].start
    BY <1>1, <2>1 DEF Valid
  <2>4. list[k].end <= list[r].start
    <3>1. list[k].end \in Int /\ list[m].start \in Int /\ list[m].end \in Int /\ list[r].start \in Int
      BY <1>0, <2>1
    <3>. QED
      BY <2>2, <2>3, <3>1
  <2>. QED
    BY <2>4 DEF r
<1> HIDE DEF T
<1>4. \A d \in Nat : d \in T
  BY <1>2, <1>3, NaturalSets
<1>5. ASSUME NEW k \in DOMAIN list, NEW m \in DOMAIN list, k < m PROVE list[k].end <= list[m].start
  <2>1. m - k - 1 \in Nat /\ k + (m - k - 1) + 1 = m
    BY <1>0, <1>5
  <2>2. m - k - 1 \in T
    BY <1>4, <2>1
  <2>3. k + (m - k - 1) + 1 \in DOMAIN list => list[k].end <= list[k + (m - k - 1) + 1].start
    BY <2>2 DEF T
  <2>. QED
    BY <2>1, <2>3
<1>. QED
  BY <1>1, <1>5 DEF Separate

LEMMA LegalSeparate ==
  ASSUME NEW order, edits \in Seq(Edits), Sorts(edits, order), Legal
  PROVE  Separate(Sorted(edits, order))
<1> DEFINE D == DOMAIN edits
           F == Sorted(edits, order)
<1>1. DOMAIN F = D /\ \A p \in D : F[p] = edits[order[p]] /\ order[p] \in D
  BY SortsFacts DEF Sorted
<1>2. \A i \in D : Valid(edits[i]) /\ edits[i].start \in Int /\ edits[i].end \in Int
  BY ListType DEF Legal
<1>3. ASSUME NEW p \in D, NEW q \in D, p < q PROVE edits[order[p]].end <= edits[order[q]].start
  <2> DEFINE i == order[p]
             j == order[q]
  <2>1. i \in D /\ j \in D /\ Precedes(edits, i, j) /\ i # j
    <3>1. p # q
      BY <1>3, ListType
    <3>. QED
      BY <1>1, <1>3, <3>1, SortsFacts DEF Sorts
  <2> HIDE DEF i, j
  <2>2. /\ ~Empty(edits[j]) => ~(IF Empty(edits[i])
                                THEN edits[j].start < edits[i].start /\ edits[i].start < edits[j].end
                                ELSE edits[i].start < edits[j].end /\ edits[j].start < edits[i].end)
        /\ ~Empty(edits[i]) => ~(IF Empty(edits[j])
                                THEN edits[i].start < edits[j].start /\ edits[j].start < edits[i].end
                                ELSE edits[j].start < edits[i].end /\ edits[i].start < edits[j].end)
    BY <2>1 DEF Legal, Conflict
  <2>3. /\ edits[i].start \in Int /\ edits[i].end \in Int /\ edits[j].start \in Int /\ edits[j].end \in Int
        /\ edits[i].start <= edits[i].end /\ edits[j].start <= edits[j].end
    BY <1>2, <2>1 DEF Valid
  <2>4. edits[i].end <= edits[j].start
    BY <2>1, <2>2, <2>3 DEF Precedes, Empty
  <2>. QED
    BY <2>4 DEF i, j
<1> HIDE DEF F
<1>4. \A k \in DOMAIN F : Valid(F[k])
  BY <1>1, <1>2
<1>5. \A k, m \in DOMAIN F : k < m => F[k].end <= F[m].start
  BY <1>1, <1>3
<1>6. Separate(F)
  BY <1>4, <1>5 DEF Separate
<1>. QED
  BY <1>6 DEF F

LEMMA SeparateLegal ==
  ASSUME NEW order, Arranged(edits, order)
  PROVE  Legal
<1>0. edits \in Seq(Edits) /\ DOMAIN edits = 1..Len(edits)
  BY ListType DEF Arranged
<1>1. ASSUME NEW i \in DOMAIN edits
      PROVE  \E p \in DOMAIN edits : order[p] = i
  BY ArrangedFacts
<1>2. ASSUME NEW i \in DOMAIN edits
      PROVE  Valid(edits[i]) /\ edits[i].start \in Nat /\ edits[i].end \in Nat /\ edits[i].start <= edits[i].end
  <2>1. PICK p \in DOMAIN edits : order[p] = i
    BY <1>1
  <2>. QED
    <3>1. /\ edits[order[p]].start \in Nat /\ edits[order[p]].end \in Nat
          /\ edits[order[p]].start <= edits[order[p]].end /\ edits[order[p]].end <= Length
      BY ArrangedFacts
    <3>2. /\ edits[i].start \in Nat /\ edits[i].end \in Nat
          /\ edits[i].start <= edits[i].end /\ edits[i].end <= Length
      BY <2>1, <3>1
    <3>. QED
      BY <3>2 DEF Valid
<1>3. ASSUME NEW i \in DOMAIN edits, NEW j \in DOMAIN edits, i # j
      PROVE  edits[i].end <= edits[j].start \/ edits[j].end <= edits[i].start
  <2>1. PICK p \in DOMAIN edits : order[p] = i
    BY <1>1
  <2>2. PICK q \in DOMAIN edits : order[q] = j
    BY <1>1
  <2>3. p < q \/ q < p
    BY <1>0, <1>3, <2>1, <2>2
  <2>. QED
    BY <2>1, <2>2, <2>3, ArrangedFacts
<1>4. ~Conflict
  <2> SUFFICES ASSUME NEW i \in DOMAIN edits, NEW j \in DOMAIN edits, i # j, ~Empty(edits[j]),
                      IF Empty(edits[i])
                      THEN edits[j].start < edits[i].start /\ edits[i].start < edits[j].end
                      ELSE edits[i].start < edits[j].end /\ edits[j].start < edits[i].end
               PROVE  FALSE
    BY DEF Conflict
  <2>. QED
    BY <1>2, <1>3 DEF Empty
<1>. QED
  BY <1>2, <1>4 DEF Legal

\* The edits that come first are some of the edits, and the next is another.
LEMMA FirstTakes ==
  ASSUME NEW list \in Seq(Edits), NEW order, Sorts(list, order), NEW k \in 0..Len(list)
  PROVE  /\ First(order, k) \in SUBSET (DOMAIN list)
         /\ k < Len(list) => /\ order[k + 1] \in DOMAIN list /\ order[k + 1] \notin First(order, k)
                             /\ First(order, k + 1) = First(order, k) \cup {order[k + 1]}
<1>0. DOMAIN list = 1..Len(list) /\ Len(list) \in Nat
  BY ListType
<1>1. First(order, k) \in SUBSET (DOMAIN list)
  <2>1. \A p \in 1..k : p \in DOMAIN list
    BY <1>0
  <2>. QED
    BY <2>1, SortsFacts DEF First
<1>2. ASSUME k < Len(list)
      PROVE  /\ order[k + 1] \in DOMAIN list /\ order[k + 1] \notin First(order, k)
             /\ First(order, k + 1) = First(order, k) \cup {order[k + 1]}
  <2>1. k + 1 \in DOMAIN list /\ \A p \in 1..k : p \in DOMAIN list /\ p # k + 1
    BY <1>0, <1>2
  <2>2. order[k + 1] \notin First(order, k)
    BY <2>1, SortsFacts DEF First
  <2>3. 1..(k + 1) = (1..k) \cup {k + 1}
    OBVIOUS
  <2>4. First(order, k + 1) = First(order, k) \cup {order[k + 1]}
    BY <2>3 DEF First
  <2>. QED
    BY <2>1, <2>2, <2>4, SortsFacts
<1>. QED
  BY <1>1, <1>2

\* What each edit adds beyond what it removes.
Growths(list) ==
  [i \in DOMAIN list |->
     IF Len(list[i].text) > Removed(list[i]) THEN Len(list[i].text) - Removed(list[i]) ELSE 0]

LEMMA GrowthsType ==
  ASSUME NEW list \in Seq(Edits)
  PROVE  /\ Growths(list) \in [DOMAIN list -> Nat] /\ IsFiniteSet(DOMAIN list)
         /\ \A i \in DOMAIN list : Growths(list)[i] \in Nat /\ Growths(list)[i] >= Len(list[i].text) - Removed(list[i])
<1>1. \A i \in DOMAIN list : list[i].text \in Seq(Nat) /\ Len(list[i].text) \in Nat /\ Removed(list[i]) \in Int
  BY ListType DEF Removed
<1>2. IsFiniteSet(DOMAIN list)
  BY ListType, FS_Interval
<1>. QED
  BY <1>1, <1>2 DEF Growths

\* The model's sum is that of the growths.
LEMMA GrowthSum ==
  MapThenSumSet(Growth, DOMAIN edits) = Summed(Growths(edits), DOMAIN edits)
<1> DEFINE g == Growths(edits)
           D == DOMAIN edits
           a(f) == [s \in SUBSET D |-> IF s = {} THEN 0 ELSE Growth(CHOOSE x \in s : TRUE) + f[s \ {CHOOSE x \in s : TRUE}]]
           b(f) == [s \in SUBSET D |-> IF s = {} THEN 0 ELSE g[CHOOSE x \in s : TRUE] + f[s \ {CHOOSE x \in s : TRUE}]]
<1>1. MapThenSumSet(Growth, D) = (CHOOSE f : f = a(f))[D]
  BY DEF MapThenSumSet, MapThenFoldSet
<1>2. Summed(g, D) = (CHOOSE f : f = b(f))[D]
  BY DEF Summed, MapThenSumSet, MapThenFoldSet
<1>3. \A x \in D : Growth(x) = g[x]
  BY DEF Growth, Growths
<1>4. \A f : a(f) = b(f)
  <2>1. \A s \in SUBSET D : s # {} => Growth(CHOOSE x \in s : TRUE) = g[CHOOSE x \in s : TRUE]
    <3> HIDE DEF g
    <3>. QED
      BY <1>3
  <2> HIDE DEF g, D
  <2>. QED
    BY <2>1
<1> HIDE DEF a, b
<1>5. (CHOOSE f : f = a(f)) = (CHOOSE f : f = b(f))
  BY <1>4
<1>. QED
  BY <1>1, <1>2, <1>5


-----------------------------------------------------------------------------
(***************************************************************************)
(* The steps                                                                *)
(***************************************************************************)
\* What checking and writing have done, for the order the sort has found.
Progress(order) ==
  /\ Sorts(edits, order) /\ ordered = Sorted(edits, order)
  /\ pc = "check" =>
       /\ unchanged => \A k \in 1..(next - 1) : ordered[k].text = Slice(ordered[k].start, ordered[k].end)
       /\ outputLength <= Length + Summed(Growths(edits), First(order, next - 1))
  /\ pc = "write" => output = Written(edits, order, next - 1)

ResultInv ==
  /\ pc \in {"check", "write"} => \E order : Progress(order)
  /\ pc = "returned" => Legal /\ output = Upto(edits, Length + 1)
  /\ pc = "rejected" /\ Legal => Length + Summed(Growths(edits), DOMAIN edits) > MaxInt

LEMMA ResultInit == Init => ResultInv
BY DEF Init, ResultInv

\* Where the lists stand, from the invariant of the two sums.
LEMMA Standing ==
  ASSUME EditInv
  PROVE  /\ edits \in Seq(Edits) /\ ordered \in Seq(Edits) /\ next \in 1..(Len(ordered) + 1)
         /\ Len(ordered) \in Nat
         /\ \A order : Progress(order) =>
              /\ DOMAIN ordered = DOMAIN edits /\ Len(ordered) = Len(edits)
              /\ \A k \in DOMAIN edits : ordered[k] = edits[order[k]]
              /\ next - 1 \in 0..Len(edits)
<1>1. edits \in Seq(Edits) /\ ordered \in Seq(Edits) /\ Len(ordered) \in Nat
  BY EditsType DEF EditInv, EditTypes
<1>2. next \in 1..(Len(ordered) + 1)
  BY <1>1, EditsAssumption DEF EditInv, EditTypes, TypeInvariant
<1>3. ASSUME NEW order, Progress(order)
      PROVE  /\ DOMAIN ordered = DOMAIN edits /\ Len(ordered) = Len(edits)
             /\ \A k \in DOMAIN edits : ordered[k] = edits[order[k]]
             /\ next - 1 \in 0..Len(edits)
  <2>1. DOMAIN ordered = DOMAIN edits /\ \A k \in DOMAIN edits : ordered[k] = edits[order[k]]
    BY <1>3 DEF Progress, Sorted
  <2>2. Len(ordered) = Len(edits)
    <3>1. DOMAIN ordered = 1..Len(ordered) /\ DOMAIN edits = 1..Len(edits) /\ Len(edits) \in Nat
      BY <1>1, ListType
    <3>2. ASSUME NEW m \in Nat, NEW n \in Nat, 1..m = 1..n PROVE m = n
      <4>1. m \in 1..m => m \in 1..n
        BY <3>2
      <4>2. n \in 1..n => n \in 1..m
        BY <3>2
      <4>. QED
        BY <4>1, <4>2
    <3>. QED
      BY <1>1, <2>1, <3>1, <3>2
  <2>. QED
    BY <1>1, <1>2, <2>1, <2>2
<1>. QED
  BY <1>1, <1>2, <1>3

\* Where all edits are in order, the sorted ones are arranged and the caller's legal.
LEMMA InOrderArranged ==
  ASSUME EditInv, NEW order, Progress(order), InOrder(ordered, Len(ordered) + 1)
  PROVE  Arranged(edits, order) /\ Legal
<1>1. Separate(ordered)
  BY Standing, InOrderSeparate
<1>2. Arranged(edits, order)
  BY <1>1, Standing DEF Progress, Arranged
<1>. QED
  BY <1>2, SeparateLegal

\* The cursor is at the end of the last edit that was taken.
LEMMA CursorIs ==
  ASSUME EditInv, NEW order, Progress(order), CursorAt(next)
  PROVE  cursor = EndOf(edits, order, next - 1)
<1>1. next \in 1..(Len(ordered) + 1) /\ DOMAIN edits = 1..Len(ordered) /\ Len(ordered) \in Nat
  BY Standing, ListType
<1>2. CASE next = 1
  BY <1>2 DEF CursorAt, EndOf
<1>3. CASE next # 1
  <2>1. next - 1 \in DOMAIN edits /\ next - 1 # 0
    BY <1>1, <1>3
  <2>2. ordered[next - 1] = edits[order[next - 1]]
    BY <2>1, Standing
  <2>. QED
    BY <1>3, <2>1, <2>2 DEF CursorAt, EndOf
<1>. QED
  BY <1>2, <1>3

LEMMA ResultNoEdits ==
  ASSUME EditInv, NoEdits
  PROVE  ResultInv'
<1>1. edits = <<>> /\ edits' = <<>> /\ pc' = "returned" /\ output' = SQL
  BY DEF NoEdits
<1>2. Legal'
  BY <1>1 DEF Legal, Conflict
<1>3. Upto(<<>>, Length + 1) = SQL
  <2> DEFINE none == [k \in DOMAIN <<>> |-> k]
  <2>1. <<>> \in Seq(Edits) /\ DOMAIN <<>> = {} /\ Len(<<>>) = 0
    OBVIOUS
  <2>2. Sorts(<<>>, none)
    BY <2>1 DEF Sorts
  <2>3. DOMAIN Sorted(<<>>, none) = {}
    BY <2>1 DEF Sorted
  <2>4. Separate(Sorted(<<>>, none))
    BY <2>3 DEF Separate
  <2> HIDE DEF none
  <2>5. Arranged(<<>>, none)
    BY <2>1, <2>2, <2>4 DEF Arranged
  <2>. QED
    BY <2>1, <2>5, WrittenSame
<1>. QED
  BY <1>1, <1>2, <1>3 DEF ResultInv

LEMMA ResultSort ==
  ASSUME EditInv, SortEdits
  PROVE  ResultInv'
<1>1. PICK order \in [DOMAIN edits -> DOMAIN edits] :
        /\ \A i, j \in DOMAIN edits : i < j => Before(order[i], order[j])
        /\ ordered' = [k \in DOMAIN edits |-> edits[order[k]]]
  BY DEF SortEdits
<1>2. pc' = "check" /\ edits' = edits /\ next' = 1 /\ outputLength' = Length /\ edits \in Seq(Edits)
  BY Standing DEF SortEdits, EditInv, SortInv
<1>3. Sorts(edits, order)
  BY <1>1 DEF Sorts, Before, Precedes
<1>4. ordered' = Sorted(edits, order)
  BY <1>1 DEF Sorted
<1>5. Length <= Length + Summed(Growths(edits), First(order, 0))
  <2>1. First(order, 0) = {}
    BY DEF First
  <2>2. Summed(Growths(edits), {}) = 0
    BY <1>2, GrowthsType, SummedNext
  <2>3. Length <= Length + 0
    BY EditsAssumption
  <2>. QED
    BY <2>1, <2>2, <2>3
<1>6. Progress(order)'
  BY <1>2, <1>3, <1>4, <1>5 DEF Progress
<1>. QED
  BY <1>2, <1>6 DEF ResultInv


\* A growth more, for the edit that is checked.
LEMMA GrowthNext ==
  ASSUME EditInv, NEW order, Progress(order), pc = "check", next <= Len(ordered)
  PROVE  /\ outputLength - Removed(ordered[next]) + Len(ordered[next].text)
              <= Length + Summed(Growths(edits), First(order, next))
         /\ Summed(Growths(edits), First(order, next)) <= Summed(Growths(edits), DOMAIN edits)
         /\ Summed(Growths(edits), First(order, next)) \in Nat
         /\ Summed(Growths(edits), DOMAIN edits) \in Nat
<1> DEFINE k == next - 1
           j == order[next]
           g == Growths(edits)
           D == DOMAIN edits
<1>1. /\ edits \in Seq(Edits) /\ next \in 1..Len(edits) /\ k \in 0..Len(edits) /\ k < Len(edits) /\ k + 1 = next
      /\ D = 1..Len(edits) /\ ordered[next] = edits[j] /\ Len(edits) \in Nat
  BY Standing, ListType
<1>2. Sorts(edits, order)
  BY DEF Progress
<1> HIDE DEF k
<1>3. /\ First(order, k) \in SUBSET D /\ j \in D /\ j \notin First(order, k)
      /\ First(order, next) = First(order, k) \cup {j}
  BY <1>1, <1>2, FirstTakes
<1>4. g \in [D -> Nat] /\ IsFiniteSet(D) /\ g[j] \in Nat /\ g[j] >= Len(edits[j].text) - Removed(edits[j])
  BY <1>1, <1>3, GrowthsType
<1> HIDE DEF g, D
<1>5. /\ Summed(g, First(order, k)) \in Nat
      /\ Summed(g, First(order, next)) = g[j] + Summed(g, First(order, k))
      /\ First(order, next) \in SUBSET D
      /\ Summed(g, First(order, next)) \in Nat /\ Summed(g, D) \in Nat
  <2>1. First(order, next) \in SUBSET D /\ D \in SUBSET D
    BY <1>3
  <2>. QED
    BY <1>3, <1>4, <2>1, SummedNext
<1>6. Summed(g, First(order, next)) <= Summed(g, D)
  BY <1>4, <1>5, SummedLargest
<1>7. outputLength <= Length + Summed(g, First(order, k))
  BY DEF Progress, g, k
<1>8. outputLength \in Int /\ Removed(edits[j]) \in Int /\ Len(edits[j].text) \in Int /\ Length \in Int
  <2>1. outputLength \in Int /\ Length \in Int
    BY EditsAssumption DEF EditInv, EditTypes, TypeInvariant
  <2>2. edits[j].start \in Int /\ edits[j].end \in Int /\ edits[j].text \in Seq(Nat)
    BY <1>1, <1>3, ListType DEF D
  <2>. QED
    BY <2>1, <2>2 DEF Removed
<1>9. ASSUME NEW o \in Int, NEW r \in Int, NEW t \in Int, NEW s \in Nat, NEW b \in Nat,
             o <= Length + s, b >= t - r
      PROVE  o - r + t <= Length + (b + s)
  BY <1>8, <1>9
<1>10. outputLength - Removed(edits[j]) + Len(edits[j].text) <= Length + Summed(g, First(order, next))
  BY ONLY <1>4, <1>5, <1>7, <1>8, <1>9
<1>. QED
  BY <1>1, <1>5, <1>6, <1>10 DEF g, D

LEMMA ResultReject ==
  ASSUME EditInv, ResultInv, Reject
  PROVE  ResultInv'
<1>1. pc = "check" /\ next <= Len(ordered) /\ pc' = "rejected" /\ UNCHANGED <<edits, ordered, next, cursor, outputLength, unchanged, output>>
  BY DEF Reject, Checking
<1>2. PICK order : Progress(order)
  BY <1>1 DEF ResultInv
<1>3. ASSUME Legal PROVE Length + Summed(Growths(edits), DOMAIN edits) > MaxInt
  <2> DEFINE k == next - 1
             e == ordered[next]
  <2>1. Arranged(edits, order)
    BY <1>2, <1>3, LegalSeparate, Standing DEF Progress, Arranged
  <2>2. /\ k \in 0..Len(edits) /\ k < Len(edits) /\ k + 1 = next /\ next \in DOMAIN edits
        /\ e = edits[order[next]]
    BY <1>1, <1>2, Standing, ListType
  <2>3. cursor = EndOf(edits, order, k)
    BY <1>1, <1>2, CursorIs DEF EditInv, CheckInv
  <2>4. order[next] \in DOMAIN edits /\ order[next] \notin First(order, k)
    BY <1>2, <2>2, Standing, FirstTakes DEF Progress
  <2>5. Valid(e)
    BY <1>3, <2>2, <2>4 DEF Legal
  <2>6. cursor <= e.start
    BY <2>1, <2>2, <2>3, <2>4, FirstFacts
  <2>7. /\ outputLength \in Int /\ cursor \in Int /\ e.start \in Int /\ e.end \in Int /\ Len(e.text) \in Int
        /\ Removed(e) \in Int /\ Length \in Int /\ MaxInt \in Int
    <3>1. outputLength \in Int /\ cursor \in Int /\ Length \in Int /\ MaxInt \in Int
      BY EditsAssumption DEF EditInv, EditTypes, TypeInvariant
    <3>2. e.start \in Int /\ e.end \in Int /\ e.text \in Seq(Nat)
      BY <2>2, <2>4, Standing, ListType
    <3>. QED
      BY <3>1, <3>2 DEF Removed
  <2>8. Len(e.text) > MaxInt - (outputLength - Removed(e))
    <3>1. ~(e.start < cursor)
      BY <2>6, <2>7
    <3>. QED
      BY <2>5, <3>1 DEF Reject, Overlaps, TooLong, Current
  <2>9. /\ outputLength - Removed(e) + Len(e.text) <= Length + Summed(Growths(edits), First(order, next))
        /\ Summed(Growths(edits), First(order, next)) <= Summed(Growths(edits), DOMAIN edits)
        /\ Summed(Growths(edits), First(order, next)) \in Nat
        /\ Summed(Growths(edits), DOMAIN edits) \in Nat
    BY <1>1, <1>2, GrowthNext
  <2> HIDE DEF e
  <2>. QED
    BY ONLY <2>7, <2>8, <2>9
<1>4. Legal' <=> Legal
  BY <1>1 DEF Legal, Conflict
<1>5. (Length + Summed(Growths(edits), DOMAIN edits) > MaxInt)' <=> Length + Summed(Growths(edits), DOMAIN edits) > MaxInt
  BY <1>1
<1>. QED
  BY <1>1, <1>3, <1>4, <1>5 DEF ResultInv

LEMMA ResultAccept ==
  ASSUME EditInv, ResultInv, Accept
  PROVE  ResultInv'
<1>1. /\ pc = "check" /\ next <= Len(ordered) /\ pc' = "check" /\ UNCHANGED <<edits, ordered, output>>
      /\ outputLength' = outputLength - Removed(ordered[next]) + Len(ordered[next].text)
      /\ unchanged' => unchanged /\ ordered[next].text = Slice(ordered[next].start, ordered[next].end)
      /\ next' = next + 1
  BY DEF Accept, Checking, Current, EditInv, EditTypes
<1>2. PICK order : Progress(order)
  BY <1>1 DEF ResultInv
<1>3. next \in Nat /\ next' - 1 = next
  BY <1>1, Standing
<1>4. outputLength' <= Length + Summed(Growths(edits), First(order, next))
  BY <1>1, <1>2, GrowthNext
<1>5. unchanged' => \A k \in 1..next : ordered[k].text = Slice(ordered[k].start, ordered[k].end)
  <2> SUFFICES ASSUME unchanged', NEW k \in 1..next PROVE ordered[k].text = Slice(ordered[k].start, ordered[k].end)
    OBVIOUS
  <2>1. k = next \/ k \in 1..(next - 1)
    BY <1>3
  <2>. QED
    BY <1>1, <1>2, <2>1 DEF Progress
<1>6. Progress(order)'
  BY <1>1, <1>2, <1>3, <1>4, <1>5 DEF Progress
<1>. QED
  BY <1>1, <1>6 DEF ResultInv

LEMMA ResultChecked ==
  ASSUME EditInv, ResultInv, Checked
  PROVE  ResultInv'
<1>1. /\ pc = "check" /\ next = Len(ordered) + 1 /\ next' = 1
      /\ pc' = IF unchanged THEN "returned" ELSE "write"
      /\ output' = IF unchanged THEN SQL ELSE <<>>
      /\ UNCHANGED <<edits, ordered>>
  BY Standing DEF Checked
<1>2. PICK order : Progress(order)
  BY <1>1 DEF ResultInv
<1>3. InOrder(ordered, Len(ordered) + 1)
  BY <1>1 DEF EditInv, CheckInv
<1>4. Arranged(edits, order) /\ Legal
  BY <1>2, <1>3, InOrderArranged
<1>5. CASE unchanged
  <2>1. \A p \in DOMAIN edits : edits[order[p]].text = Slice(edits[order[p]].start, edits[order[p]].end)
    <3>1. next - 1 = Len(edits) /\ DOMAIN edits = 1..Len(edits)
      BY <1>1, <1>2, Standing, ListType
    <3>. QED
      BY <1>1, <1>2, <1>5, <3>1, Standing DEF Progress
  <2>2. Upto(edits, Length + 1) = SQL
    BY <1>4, <2>1, WrittenSame
  <2>3. Legal'
    BY <1>1, <1>4 DEF Legal, Conflict
  <2>4. Upto(edits, Length + 1)' = Upto(edits, Length + 1)
    BY <1>1
  <2>. QED
    BY <1>1, <1>5, <2>2, <2>3, <2>4 DEF ResultInv
<1>6. CASE ~unchanged
  <2>1. Written(edits, order, 0) = <<>>
    BY <1>4, WrittenNone
  <2>2. pc' = "write" /\ output' = <<>> /\ next' - 1 = 0
    BY <1>1, <1>6
  <2>3. Progress(order)'
    BY <1>1, <1>2, <2>1, <2>2 DEF Progress
  <2>. QED
    BY <2>2, <2>3 DEF ResultInv
<1>. QED
  BY <1>5, <1>6

LEMMA ResultWrite ==
  ASSUME EditInv, ResultInv, Write
  PROVE  ResultInv'
<1>1. /\ pc = "write" /\ pc' = "write" /\ next <= Len(ordered) /\ next' = next + 1 /\ UNCHANGED <<edits, ordered>>
      /\ output' = (output \o Slice(cursor, ordered[next].start)) \o ordered[next].text
  BY DEF Write, Current
<1>2. PICK order : Progress(order)
  BY <1>1 DEF ResultInv
<1>3. InOrder(ordered, Len(ordered) + 1) /\ CursorAt(next)
  BY <1>1 DEF EditInv, WriteInv
<1>4. Arranged(edits, order)
  BY <1>2, <1>3, InOrderArranged
<1>5. cursor = EndOf(edits, order, next - 1)
  BY <1>2, <1>3, CursorIs
<1>6. /\ next - 1 \in 0..Len(edits) /\ next - 1 < Len(edits) /\ (next - 1) + 1 = next /\ next' - 1 = next
      /\ ordered[next] = edits[order[next]]
  BY <1>1, <1>2, Standing, ListType
<1>7. Written(edits, order, (next - 1) + 1)
        = (Written(edits, order, next - 1) \o Slice(EndOf(edits, order, next - 1), edits[order[(next - 1) + 1]].start))
            \o edits[order[(next - 1) + 1]].text
  BY <1>4, <1>6, WrittenNext
<1>8. output = Written(edits, order, next - 1)
  BY <1>1, <1>2 DEF Progress
<1>9. output' = Written(edits, order, next)
  BY <1>1, <1>5, <1>6, <1>7, <1>8
<1>10. Progress(order)'
  BY <1>1, <1>2, <1>6, <1>9 DEF Progress
<1>. QED
  BY <1>1, <1>10 DEF ResultInv

LEMMA ResultWriteTail ==
  ASSUME EditInv, ResultInv, WriteTail
  PROVE  ResultInv'
<1>1. /\ pc = "write" /\ pc' = "returned" /\ next = Len(ordered) + 1 /\ UNCHANGED <<edits, ordered>>
      /\ output' = output \o Slice(cursor, Length)
  BY Standing DEF WriteTail
<1>2. PICK order : Progress(order)
  BY <1>1 DEF ResultInv
<1>3. InOrder(ordered, Len(ordered) + 1) /\ CursorAt(next)
  BY <1>1 DEF EditInv, WriteInv
<1>4. Arranged(edits, order) /\ Legal
  BY <1>2, <1>3, InOrderArranged
<1>5. next - 1 = Len(edits)
  BY <1>1, <1>2, Standing
<1>6. cursor = EndOf(edits, order, Len(edits)) /\ output = Written(edits, order, Len(edits))
  BY <1>1, <1>2, <1>3, <1>5, CursorIs DEF Progress
<1>7. output' = Upto(edits, Length + 1)
  BY <1>1, <1>4, <1>6, WrittenAll
<1>8. Legal'
  BY <1>1, <1>4 DEF Legal, Conflict
<1>9. Upto(edits, Length + 1)' = Upto(edits, Length + 1)
  BY <1>1
<1>. QED
  BY <1>1, <1>7, <1>8, <1>9 DEF ResultInv

LEMMA ResultNext == EditInv /\ ResultInv /\ [Next]_vars => ResultInv'
<1> SUFFICES ASSUME EditInv, ResultInv, [Next]_vars PROVE ResultInv'
  OBVIOUS
<1>1. CASE UNCHANGED vars
  <2>1. UNCHANGED <<edits, ordered, pc, next, outputLength, unchanged, output>>
    BY <1>1 DEF vars
  <2>2. Legal' <=> Legal
    BY <2>1 DEF Legal, Conflict
  <2>3. \A order : Progress(order) => Progress(order)'
    BY <2>1 DEF Progress
  <2>. QED
    BY <2>1, <2>2, <2>3 DEF ResultInv
<1>. QED
  BY <1>1, ResultNoEdits, ResultSort, ResultReject, ResultAccept, ResultChecked, ResultWrite, ResultWriteTail DEF Next

(***************************************************************************)
(* ApplyEdits returns the document with each edit's span replaced, in the   *)
(* caller's order where two insertions meet, only for edits that are valid  *)
(* and do not overlap, and refuses such edits only where what they add      *)
(* would not fit in an int: for any document, texts and number of edits.    *)
(***************************************************************************)
THEOREM EditsApplied == Spec => []EditsAreApplied
<1>1. Init => ResultInv
  BY ResultInit
<1>2. EditInv /\ ResultInv /\ [Next]_vars => ResultInv'
  BY ResultNext
<1>3. EditInv /\ ResultInv => EditsAreApplied
  <2> SUFFICES ASSUME EditInv, ResultInv PROVE EditsAreApplied
    OBVIOUS
  <2>1. Edited = Upto(edits, Length + 1)
    BY Standing, EditedIs
  <2>2. MapThenSumSet(Growth, DOMAIN edits) = Summed(Growths(edits), DOMAIN edits)
    BY GrowthSum
  <2>. QED
    BY <2>1, <2>2 DEF ResultInv, EditsAreApplied
<1>. QED
  BY <1>1, <1>2, <1>3, EditInvariant, PTL DEF Spec
===============================================================================
