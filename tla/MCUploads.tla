------------------------------ MODULE MCUploads ------------------------------
(***************************************************************************)
(* Uploads for TLC: the files that may be uploaded.  A character is a      *)
(* number, a space 0, a newline 1; a word is longer than the overlap or    *)
(* not, and has a space after it or newlines only.                         *)
(***************************************************************************)
EXTENDS Uploads, TLC

CONSTANTS a, b

File1(name, text, tokens) ==
    [name |-> name, valid |-> TRUE, readable |-> TRUE, text |-> text, tokens |-> tokens]

\* Several chunks: a word that no chunk has, between a space and a newline, one
\* across the end of a window, one longer than the overlap; two spaces.
Notes == File1(a, <<2, 0, 3, 1, 4, 5, 0, 0, 6, 7, 8, 0, 9>>, 2)
Short == File1(b, <<10, 11>>, 1)
Same == File1(a, <<10, 0, 3>>, 3)
Scan == [File1(b, <<0, 1>>, 0) EXCEPT !.readable = FALSE]
Empty == File1(b, <<1>>, 0)
Image == [Scan EXCEPT !.valid = FALSE]

Uploaded == {<<Notes>>, <<Short, Image>>, <<Same>>, <<Empty>>, <<Scan, Notes>>}
Together == {<<Notes, Short>>}

Interchangeable == Permutations(Run) \cup Permutations(Job)

=============================================================================
