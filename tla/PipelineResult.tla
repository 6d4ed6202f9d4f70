--------------------------- MODULE PipelineResult ---------------------------
(***************************************************************************)
(* What each step of PipelineViewerService does to the result of a         *)
(* conversion. The text of a version is its provenance: the sequence of    *)
(* the steps whose edits it carries; <<>> is a version that is absent.     *)
(***************************************************************************)
EXTENDS Integers, Sequences

VersionNames == {"v0", "v1", "v2", "v3"}

\* versions holds whole documents, pages the same text page by page
EmptyResult ==
    [versions |-> [v \in VersionNames |-> <<>>],
     pages    |-> [v \in {"v0", "v1"} |-> <<>>],
     steps    |-> <<>>]

Has(r, v) == r.versions[v] # <<>>
Record(r, step) == [r EXCEPT !.steps = Append(@, step)]

\* an extraction writes v0 and its pages anew; the OCR run replaces them
Extracted(r, step) ==
    [r EXCEPT !.versions["v0"] = <<step>>, !.pages["v0"] = <<step>>]

DoclingStep(r) == Record(Extracted(r, "docling"), "docling")
DoclingOcrStep(r) == Record(Extracted(r, "docling_ocr"), "docling_ocr")

\* an OCR run that fails has overwritten nothing, or all of v0 but not its stats
OcrFailures(r) == {r, Extracted(r, "docling_ocr")}

StructureStep(r) == Record(r, "structure")
HeadingReconciliationStep(r) == Record(r, "heading_reconciliation")

\* edits the pages of version v in place and rebuilds v when something changed
EditInPlace(r, v, step, changed) ==
    IF changed
    THEN [r EXCEPT !.pages[v] = Append(@, step),
                   !.versions[v] = Append(r.pages[v], step)]
    ELSE r

HeadingLevelsStep(r, changed) ==
    Record(EditInPlace(r, "v0", "heading_levels", changed), "heading_levels")

\* v1 is the corrected pages of v0 and their join
PageContentStep(r) ==
    LET corrected == Append(r.pages["v0"], "page_content")
    IN  Record([r EXCEPT !.pages["v1"] = corrected, !.versions["v1"] = corrected],
               "page_content")

\* the newest version that exists page by page
MutantPagedSource(r) == "v0"
PagedSource(r) == IF r.pages["v1"] # <<>> THEN "v1" ELSE "v0"

CodeBlocksStep(r, changed) ==
    Record(EditInPlace(r, PagedSource(r), "code_blocks", changed), "code_blocks")

\* the cross-page fixes start from v1 when there is one
BoundarySource(r) == IF Has(r, "v1") THEN "v1" ELSE "v0"

BoundariesStep(r) ==
    Record([r EXCEPT !.versions["v2"] = Append(r.versions[BoundarySource(r)], "boundaries")],
           "boundaries")

CleanupStep(r) ==
    Record([r EXCEPT !.versions["v3"] = Append(r.versions["v2"], "cleanup")], "cleanup")

\* the document a job delivers: the latest version that has any text
Rank == [v0 |-> 0, v1 |-> 1, v2 |-> 2, v3 |-> 3]
Newest(r) ==
    CHOOSE v \in VersionNames :
        /\ Has(r, v) \/ v = "v0"
        /\ \A w \in VersionNames : Has(r, w) => Rank[w] <= Rank[v]
FinalMarkdown(r) == r.versions[Newest(r)]

\* the steps of r that rewrite the text whenever they run
Rewrites == {"page_content", "boundaries", "cleanup"}
StepsOf(r) == {r.steps[i] : i \in DOMAIN r.steps}
In(step, text) == \E i \in DOMAIN text : text[i] = step
=============================================================================
