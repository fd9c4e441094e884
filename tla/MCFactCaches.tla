---------------------------- MODULE MCFactCaches -----------------------------
(***************************************************************************)
(* FactCaches for TLC: what the LLM draws from a text.                    *)
(***************************************************************************)
EXTENDS FactCaches

CONSTANTS v1, v2

\* Nothing; one fact twice; a note, a malformed note and another fact.
Drawings ==
    {<<>>,
     <<<<"situation", v1, TRUE>>, <<"situation", v1, TRUE>>>>,
     <<<<"style_note", v2, TRUE>>, <<"style_note", v1, FALSE>>, <<"situation", v2, TRUE>>>>}

=============================================================================
