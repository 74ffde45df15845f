---- MODULE MCSourceEdits ----
(* Texts an edit may put in: nothing, the first byte of the document, new text. *)
EXTENDS SourceEdits

MCNewTexts == {<<>>, <<1>>, <<8, 9>>}
====
