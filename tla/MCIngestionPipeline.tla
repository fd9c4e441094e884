------------------------- MODULE MCIngestionPipeline -------------------------
(***************************************************************************)
(* IngestionPipeline for TLC: the files that may be uploaded.              *)
(***************************************************************************)
EXTENDS IngestionPipeline, TLC

CONSTANTS a, b

Section(name, text, entries, fields) ==
    [name |-> name, text |-> text, entries |-> entries, fields |-> fields]
Resume(sections) == [mime |-> "pdf", readable |-> TRUE, sections |-> sections, rows |-> <<>>]

\* Two sentences that share a chunk, one that fits in none; a section with a
\* sub-entry; no years, no skills.
Long ==
    Resume(<<Section("work_experience", <<<<1>>, <<2, 3>>, <<4, 5, 6, 7>>>>, <<>>,
                     [f \in {"role", "years"} |-> IF f = "role" THEN a ELSE Null]),
             Section("projects", <<<<8, 9>>>>, <<<<<<8>>>>>>, [f \in {} |-> Null])>>)
\* A heading nothing is routed to, and the skills.
Short ==
    Resume(<<Section("unstructured", <<<<1>>>>, <<>>, [f \in {} |-> Null]),
             Section("skills", <<<<2>>>>, <<>>, [f \in {"skills"} |-> b])>>)
Blank == [mime |-> "pdf", readable |-> FALSE, sections |-> <<>>, rows |-> <<>>]
Export ==
    [mime |-> "csv", readable |-> TRUE, sections |-> <<>>,
     rows |-> <<[topic |-> a, difficulty |-> "easy", solved |-> TRUE],
                [topic |-> a, difficulty |-> "easy", solved |-> TRUE],
                [topic |-> b, difficulty |-> "hard", solved |-> FALSE]>>]

Uploads == {<<Long>>, <<Short, Export>>, <<Blank>>}

Interchangeable == Permutations(Run) \cup Permutations(Job)

=============================================================================
