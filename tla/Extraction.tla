----------------------------- MODULE Extraction -----------------------------
(***************************************************************************)
(* What the ingestion service reads in the files of a job: the sections of *)
(* a resume and the solved problems of a LeetCode export, what goes to the *)
(* structured and to the narrative path, and the facts they come to.       *)
(*                                                                         *)
(* ingestion-pipeline/app/services/extractor_service.py, extractors/       *)
(* ingestion-pipeline/app/services/ingestion_router.py   _route_content    *)
(* ingestion-pipeline/app/services/structured_parser.py  pure parts        *)
(***************************************************************************)
EXTENDS Chunker, Selection

Null == "null"
Field == {"role", "years", "education", "skills"}
Difficulty == {"easy", "medium", "hard"}

\* A file is a PDF with its sections, each with the fields that can be read in
\* it, or a CSV with its rows; "readable" is FALSE for a PDF without text and
\* for a CSV without its columns.

\* The rows that count are solved, of a known difficulty, and have a topic.
Counted(rows) == {i \in DOMAIN rows : rows[i].solved /\ rows[i].difficulty \in Difficulty
                                         /\ rows[i].topic # Null}
Aggregate(rows) ==
    [t \in {rows[i].topic : i \in Counted(rows)} |->
        [d \in Difficulty |->
            Cardinality({i \in Counted(rows) : rows[i].topic = t /\ rows[i].difficulty = d})]]

Readable(files) == \A f \in ToSet(files) : f.readable

\* The last file of a kind is the one whose content is kept.
LastOf(files, mime) == SelectLastInSeq(files, LAMBDA f : f.mime = mime)
Sections(files) ==
    LET i == LastOf(files, "pdf") IN IF i = 0 THEN <<>> ELSE files[i].sections
Stats(files) ==
    LET i == LastOf(files, "csv")
    IN  IF i = 0 THEN [t \in {} |-> 0] ELSE Aggregate(files[i].rows)

-----------------------------------------------------------------------------
(* Routing.                                                                *)

StructuredSections == {"work_experience", "skills", "education"}
NarrativeSections == {"work_experience", "projects"}

\* The sections of these names, in their order.
Named(sections, names) ==
    Those(sections, {s \in ToSet(sections) : s.name \in names})

Structured(files) == Named(Sections(files), StructuredSections)

\* Faulty: a section that both paths need goes to the first only.
NarrativeElse(files) == Named(Sections(files), NarrativeSections \ StructuredSections)
Narrative(files) == Named(Sections(files), NarrativeSections)

NothingStructured(files) == Structured(files) = <<>> /\ DOMAIN Stats(files) = {}

ChunksOf(files) == IF Narrative(files) = <<>> THEN <<>> ELSE Chunk(Narrative(files))

-----------------------------------------------------------------------------
(* Core profile.                                                           *)

FieldsOf(name) ==
    CASE name = "work_experience" -> {"role", "years"}
      [] name = "education" -> {"education"}
      [] name = "skills" -> {"skills"}

\* The last section that speaks of a field sets it, to Null if unrecognizable.
ExtractProfileData(sections) ==
    [f \in Field |->
        LET i == SelectLastInSeq(sections, LAMBDA s : f \in FieldsOf(s.name))
        IN  IF i = 0 THEN Null ELSE sections[i].fields[f]]

\* A first upload overwrites every field; a merge keeps those it has no value for.
Overwrite(profile, sections) ==
    IF sections = <<>> THEN profile ELSE ExtractProfileData(sections)
MergeProfileFields(profile, sections) ==
    IF sections = <<>> THEN profile
    ELSE LET data == ExtractProfileData(sections)
         IN  [f \in Field |-> IF data[f] = Null THEN profile[f] ELSE data[f]]

\* Each topic of the export has its counts replaced, or added to.
UpsertSkills(skills, stats) == stats @@ skills
MergeLeetcodeSignals(skills, stats) ==
    [t \in DOMAIN stats |->
        IF t \in DOMAIN skills
        THEN [d \in Difficulty |-> skills[t][d] + stats[t][d]] ELSE stats[t]] @@ skills

=============================================================================
