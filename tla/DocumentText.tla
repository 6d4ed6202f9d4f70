---------------------------- MODULE DocumentText ----------------------------
(***************************************************************************)
(* The deterministic steps of the pipeline on the text of a document: the  *)
(* pages of the extraction and their figures, the section map, the hints   *)
(* of the page agents, the fences around code, and the hints at the page   *)
(* boundaries. A line is a record: what it is, and its text where two      *)
(* texts may be compared. Comparing is fuzzy: Likeness scores a pair of    *)
(* texts, and the threshold is one. The hints that look at single          *)
(* characters (a page that ends in mid-sentence) are left out.             *)
(***************************************************************************)
EXTENDS Integers, Sequences, FiniteSets

CONSTANTS
    Inputs,           \* the documents: pages, pictures, outline, code blocks, footnotes
    Texts,            \* texts of headings and code that are compared
    Likeness,         \* [Texts \X Texts -> 0..2]
    Languages         \* of code, "none" for a fence without

ASSUME TextAssumption == Likeness \in [Texts \X Texts -> 0..2] /\ "none" \in Languages

Line == [is : {"blank", "image", "prose", "row"}]
        \cup [is : {"figure", "number", "numbered"}, number : Nat]
        \cup [is : {"prose", "code"}, text : Texts]
        \cup [is : {"heading"}, text : Texts, level : Nat \ {0}]
        \cup [is : {"fence"}, lang : Languages]
Blank == [is |-> "blank"]
Image == [is |-> "image"]
Figure(n) == [is |-> "figure", number |-> n]
Fence(lang) == [is |-> "fence", lang |-> lang]
Fences == {l \in Line : l.is = "fence"}
Drawn == {l \in Line : l.is = "figure"}

-----------------------------------------------------------------------------
(* Sequences: the members of a set, in their order; all of the sequences   *)
(* of a sequence; where the members of a set stand.                        *)

Keep(s, K) ==
    LET kept[n \in 0..Len(s)] ==
            IF n = 0 THEN <<>>
            ELSE IF s[n] \in K THEN Append(kept[n - 1], s[n]) ELSE kept[n - 1]
    IN  kept[Len(s)]

Concat(seqs) ==
    LET joined[n \in 0..Len(seqs)] ==
            IF n = 0 THEN <<>> ELSE joined[n - 1] \o seqs[n]
    IN  joined[Len(seqs)]

Members(s) == {s[i] : i \in DOMAIN s}
Positions(s, K) == {i \in DOMAIN s : s[i] \in K}
Least(S) == CHOOSE i \in S : \A j \in S : i <= j
Greatest(S) == CHOOSE i \in S : \A j \in S : j <= i

Filled(lines) == Keep(lines, Line \ {Blank})

-----------------------------------------------------------------------------
(* What the services answer: docling-serve writes one placeholder for every *)
(* picture, on its page and in the order of the document.                   *)
ASSUME DocumentAssumption == \A d \in Inputs :
    /\ d.pages \in Seq(Seq(Line \ Drawn))
    /\ d.pictures \in Seq([page : Nat, placed : BOOLEAN, cropped : BOOLEAN])
    /\ d.outline \in Seq([text : Texts, level : Nat \ {0}])
    /\ d.blocks \in Seq([first : Texts, last : Texts, page : Nat, lang : Languages])

Placeholders(pages) ==
    Concat([p \in DOMAIN pages |-> [i \in DOMAIN Keep(pages[p], {Image}) |-> p]])
ASSUME PictureAssumption == \A d \in Inputs :
    [i \in DOMAIN d.pictures |-> d.pictures[i].page] = Placeholders(d.pages)

VARIABLES
    phase,      \* the step the pipeline is at
    input,      \* what docling-serve and the structure agents answered
    figures,    \* result.figures
    whole,      \* versions["v0"]
    v0,         \* page_markdowns["v0"]: [page -> lines]
    v1,         \* page_markdowns["v1"]
    sections,   \* the section map
    fenced,     \* code blocks handled
    spans,      \* history: pages where a wrapped region held a fence
    pageHints, boundaryHints

vars == <<phase, input, figures, whole, v0, v1, sections, fenced, spans, pageHints, boundaryHints>>

N == Len(input.pages)
PageNumbers == 1..N

\* SequenceMatcher.ratio of two texts; no other line is like a text
TextOf(line) == IF "text" \in DOMAIN line THEN line.text ELSE "none"
Like(a, b) == IF <<a, b>> \in Texts \X Texts THEN Likeness[<<a, b>>] ELSE 0

\* the first of the best, if it reaches the threshold; 0 is the code's -1
BestOf(scores) ==
    LET top == {i \in DOMAIN scores : \A j \in DOMAIN scores : scores[j] <= scores[i]}
    IN  IF top = {} \/ scores[Least(top)] < 1 THEN 0 ELSE Least(top)
FuzzyFind(lines, text) == BestOf([i \in DOMAIN lines |-> Like(text, TextOf(lines[i]))])

-----------------------------------------------------------------------------
(* The extraction. *)

\* strip, at either end of a page; a page without text has no entry, but for
\* the first
Strip(lines) ==
    LET at == Positions(lines, Line \ {Blank})
    IN  IF at = {} THEN <<>> ELSE SubSeq(lines, Least(at), Greatest(at))
Split(pages) == [p \in {q \in DOMAIN pages : q = 1 \/ Strip(pages[q]) # <<>>} |-> Strip(pages[p])]

\* page_mds.get(page, "") split into lines
Lines(version, p) ==
    IF p \in DOMAIN version /\ version[p] # <<>> THEN version[p] ELSE <<Blank>>

\* a picture without a place on its page, or whose crop fails, is no figure;
\* its number counts nevertheless
Figures ==
    LET shown == {i \in DOMAIN input.pictures : /\ input.pictures[i].placed
                                               /\ input.pictures[i].cropped}
    IN  Keep([i \in DOMAIN input.pictures |-> [number |-> i, page |-> input.pictures[i].page]],
             [number : shown, page : Nat])
MutantFiguresOf(p) == figures'
FiguresOf(p) == Keep(figures', [number : Nat, page : {p}])

\* each figure takes the first placeholder that is left
ReplaceImages(lines, figs) ==
    LET replaced[n \in 0..Len(figs)] ==
            IF n = 0 THEN lines
            ELSE LET at == Positions(replaced[n - 1], {Image}) IN
                 IF at = {} THEN replaced[n - 1]
                 ELSE [replaced[n - 1] EXCEPT ![Least(at)] = Figure(figs[n].number)]
    IN  replaced[Len(figs)]

Extract ==
    /\ phase = "docling" /\ phase' = "map"
    /\ figures' = Figures
    /\ whole' = ReplaceImages(Concat(input.pages), figures')
    /\ LET pages == Split(input.pages) IN
       v0' = [p \in DOMAIN pages |-> ReplaceImages(pages[p], FiguresOf(p))]
    /\ UNCHANGED <<input, v1, sections, fenced, spans, pageHints, boundaryHints>>

-----------------------------------------------------------------------------
(* The section map: the pages' lines with a blank between two pages, cut   *)
(* at the headings the outline has.                                        *)

PageLines(p) == IF p < N THEN Append(Lines(v0, p), Blank) ELSE Lines(v0, p)
AllLines == Concat([p \in PageNumbers |-> PageLines(p)])
Offset(p) == Len(Concat([q \in 1..(p - 1) |-> PageLines(q)]))

\* the last page that starts at the line or before it
MutantLineToPage(i) ==
    LET begun == {p \in PageNumbers : Offset(p) < i - 1}
    IN  IF begun = {} THEN 1 ELSE Greatest(begun)
LineToPage(i) ==
    LET begun == {p \in PageNumbers : Offset(p) <= i - 1}
    IN  IF begun = {} THEN 1 ELSE Greatest(begun)

\* every heading takes the likest entry of the outline that is left
Scores(line, used) ==
    [k \in DOMAIN input.outline |->
        IF k \in used THEN 0 ELSE Like(line.text, input.outline[k].text)]
Match(line, used) == IF line.is = "heading" THEN BestOf(Scores(line, used)) ELSE 0
Matched(lines) ==
    LET matched[n \in 0..Len(lines)] ==
            IF n = 0 THEN [used |-> {}, at |-> <<>>]
            ELSE LET best == Match(lines[n], matched[n - 1].used) IN
                 IF best = 0 THEN matched[n - 1]
                 ELSE [used |-> matched[n - 1].used \cup {best},
                       at |-> Append(matched[n - 1].at, n)]
    IN  matched[Len(lines)].at

PagesOf(from, to) == {LineToPage(i) : i \in {k \in from..to : AllLines[k] # Blank}}

Section(title, level, from, to) ==
    [title |-> title, level |-> level, lines |-> Filled(SubSeq(AllLines, from, to)),
     pages |-> PagesOf(from, to)]
Preamble(from, to) == Section("(Preamble)", 0, from, to)

MutantSectionEnds(at, i) == IF i < Len(at) THEN at[i + 1] ELSE Len(AllLines)
SectionEnds(at, i) == IF i < Len(at) THEN at[i + 1] - 1 ELSE Len(AllLines)

Sections ==
    LET at == Matched(AllLines) IN
    IF Filled(AllLines) = <<>> THEN <<>>
    ELSE IF at = <<>> THEN <<[Preamble(1, Len(AllLines)) EXCEPT !.pages = PageNumbers]>>
    ELSE (IF Preamble(1, at[1] - 1).lines = <<>> THEN <<>> ELSE <<Preamble(1, at[1] - 1)>>)
         \o [i \in DOMAIN at |-> Section(AllLines[at[i]].text, AllLines[at[i]].level,
                                         at[i], SectionEnds(at, i))]

BuildSectionMap ==
    /\ phase = "map" /\ phase' = "hints"
    /\ sections' = Sections
    /\ UNCHANGED <<input, figures, whole, v0, v1, fenced, spans, pageHints, boundaryHints>>

-----------------------------------------------------------------------------
(* Hints of a page. *)

FirstHeadings == Keep(input.outline, [text : Texts, level : {1}])
DocTitle == IF FirstHeadings = <<>> THEN "none" ELSE FirstHeadings[1].text

\* like the document's title, or a text that ends in the page number
RunningHeader(line, p) ==
    /\ line.is \notin {"blank", "heading"}
    /\ Like(TextOf(line), DocTitle) >= 1 \/ (line.is = "numbered" /\ line.number = p)
\* a bare number near the page's, or "Page n"
RunningFooter(line, p) == line.is = "number" /\ line.number \in (p - 1)..(p + 1)

SectionsOn(p) == Keep(sections, {s \in Members(sections) : p \in s.pages})
Place(s, p) ==
    IF s.pages = {p} THEN "only page"
    ELSE IF p = Least(s.pages) THEN "start" ELSE IF \A q \in s.pages : q <= p THEN "end"
    ELSE "middle"

Hints(p) ==
    LET lines == Filled(Lines(v0, p)) IN
    IF lines = <<>> THEN {}
    ELSE {h \in {<<"header">>} : p > 1 /\ RunningHeader(lines[1], p)}
         \cup {h \in {<<"footer">>} : RunningFooter(lines[Len(lines)], p)}
         \cup {<<s.title, Place(s, p)>> :
                  s \in {t \in Members(SectionsOn(p)) : t.level > 0}}
         \cup {<<"footnote", f.number>> : f \in {g \in input.footnotes : g.page = p}}

GeneratePageHints ==
    /\ phase = "hints" /\ phase' = "code"
    /\ pageHints' = [p \in PageNumbers |-> Hints(p)]
    /\ v1' = v0
    /\ UNCHANGED <<input, figures, whole, v0, sections, fenced, spans, boundaryHints>>

-----------------------------------------------------------------------------
(* The fences around code: one block after the other, in the newest pages. *)

IsFence(line) == line \in Fences
Bare(line) == line = Fence("none")
Text(lines, i) == IF i \in DOMAIN lines THEN TextOf(lines[i]) ELSE "none"

\* the fences that open and close a region, one region after the other
Regions(lines) ==
    LET regions[n \in 0..Len(lines)] ==
            IF n = 0 THEN {}
            ELSE LET closes == {j \in (n + 1)..Len(lines) : Bare(lines[j])} IN
                 IF ~IsFence(lines[n]) \/ closes = {} \/ (\E r \in regions[n - 1] : n <= r[2])
                 THEN regions[n - 1]
                 ELSE regions[n - 1] \cup {<<n, Least(closes)>>}
    IN  regions[Len(lines)]

\* a fence already stands around the block
Around(lines, block) == {r \in Regions(lines) : Like(block.first, Text(lines, r[1] + 1)) >= 1}

MutantInside(lines, i) == FALSE
Inside(lines, i) == Len(Keep(SubSeq(lines, 1, i - 1), Fences)) % 2 = 1

Found(lines, block) == FuzzyFind(lines, block.first)
LastOf(lines, block) ==
    LET from == Found(lines, block)
        last == FuzzyFind(SubSeq(lines, from, Len(lines)), block.last)
    IN  IF last = 0 THEN from ELSE from + last - 1

Wrap(lines, from, to, lang) ==
    SubSeq(lines, 1, from - 1) \o <<Fence(lang)>> \o SubSeq(lines, from, to)
    \o <<Fence("none")>> \o SubSeq(lines, to + 1, Len(lines))

ApplyFence(lines, block) ==
    IF Around(lines, block) # {}
    THEN LET r == CHOOSE r \in Around(lines, block) : \A s \in Around(lines, block) : r[1] <= s[1]
         IN  IF Bare(lines[r[1]]) THEN [lines EXCEPT ![r[1]] = Fence(block.lang)] ELSE lines
    ELSE IF Found(lines, block) = 0 \/ Inside(lines, Found(lines, block)) THEN lines
    ELSE Wrap(lines, Found(lines, block), LastOf(lines, block), block.lang)

Spanned(lines, block) ==
    /\ Around(lines, block) = {} /\ Found(lines, block) # 0
    /\ \E k \in Found(lines, block)..LastOf(lines, block) : IsFence(lines[k])

FenceBlock ==
    LET block == input.blocks[fenced + 1] IN
    /\ phase = "code" /\ fenced < Len(input.blocks) /\ fenced' = fenced + 1
    /\ IF block.page \in DOMAIN v1 /\ v1[block.page] # <<>>
       THEN /\ v1' = [v1 EXCEPT ![block.page] = ApplyFence(@, block)]
            /\ spans' = IF Spanned(v1[block.page], block) THEN spans \cup {block.page} ELSE spans
       ELSE UNCHANGED <<v1, spans>>
    /\ UNCHANGED <<phase, input, figures, whole, v0, sections, pageHints, boundaryHints>>

CodeDone ==
    /\ phase = "code" /\ fenced = Len(input.blocks) /\ phase' = "boundaries"
    /\ UNCHANGED <<input, figures, whole, v0, v1, sections, fenced, spans, pageHints, boundaryHints>>

-----------------------------------------------------------------------------
(* Hints at a boundary: the sections of v0, the lines of v1. *)

Head3(lines) == SubSeq(lines, 1, IF Len(lines) < 3 THEN Len(lines) ELSE 3)
Tail3(lines) == SubSeq(lines, IF Len(lines) < 3 THEN 1 ELSE Len(lines) - 2, Len(lines))

SectionHint(p) ==
    LET before == SectionsOn(p)
        after == SectionsOn(p + 1)
        shared == Keep(before, Members(after))
    IN  IF shared # <<>> THEN {<<"same", shared[1].title>>}
        ELSE IF before = <<>> \/ after = <<>> THEN {}
        ELSE {h \in {<<"transition", before[Len(before)].title, after[1].title>>} :
                 before[Len(before)].level > 0 /\ after[1].level > 0}

BoundaryHints(p) ==
    LET before == Lines(v1, p)
        after == Lines(v1, p + 1)
        top == Filled(after)
        bottom == Filled(before)
    IN  SectionHint(p)
        \cup {h \in {<<"header">>} : top # <<>> /\ RunningHeader(top[1], p + 1)}
        \cup {h \in {<<"footer">>} : bottom # <<>> /\ RunningFooter(bottom[Len(bottom)], p)}
        \cup {h \in {<<"split table">>} :
                 /\ Positions(Tail3(before), [is : {"row"}]) # {}
                 /\ Positions(Head3(after), [is : {"row"}]) # {}}

GenerateBoundaryHints ==
    /\ phase = "boundaries" /\ phase' = "done"
    /\ boundaryHints' = [p \in 1..(N - 1) |-> BoundaryHints(p)]
    /\ UNCHANGED <<input, figures, whole, v0, v1, sections, fenced, spans, pageHints>>

-----------------------------------------------------------------------------
Init ==
    /\ phase = "docling" /\ input \in Inputs
    /\ figures = <<>> /\ whole = <<>> /\ v0 = <<>> /\ v1 = <<>>
    /\ sections = <<>> /\ fenced = 0 /\ spans = {}
    /\ pageHints = <<>> /\ boundaryHints = <<>>

Next == Extract \/ BuildSectionMap \/ GeneratePageHints \/ FenceBlock \/ CodeDone
        \/ GenerateBoundaryHints

Spec == Init /\ [][Next]_vars

-----------------------------------------------------------------------------
Mapped == phase \notin {"docling", "map"}
Tagged == Concat([p \in PageNumbers |->
                  [i \in DOMAIN Filled(Lines(v0, p)) |-> [line |-> Filled(Lines(v0, p))[i],
                                                          page |-> p]]])
Untagged(t) == [i \in DOMAIN t |-> t[i].line]

(* The sections hold every line of the document once, in its order, and    *)
(* the pages of a section are those its lines stand on, though the code    *)
(* gets them from offsets: but for the one section of a document without a *)
(* heading, which is on every page.                                        *)
SectionsPartition == Mapped =>
    /\ Untagged(Tagged) = Concat([i \in DOMAIN sections |-> sections[i].lines])
    /\ \A i \in DOMAIN sections :
           LET start == Len(Concat([k \in 1..(i - 1) |-> sections[k].lines]))
               own == (start + 1)..(start + Len(sections[i].lines))
           IN  sections[i].pages = {Tagged[k].page : k \in own} \/ Len(sections) = 1

(* Between two pages with text, the boundary agent is told either of one   *)
(* section that goes on, if the second page does not begin with a heading  *)
(* that begins a section, or of a transition, if it does: then the second  *)
(* section is the one that begins there. Only the preamble has no          *)
(* transition.                                                             *)
Begins(p) == \E i \in DOMAIN sections :
    /\ sections[i].level > 0 /\ p = Least(sections[i].pages)
    /\ sections[i].lines[1] = Filled(Lines(v0, p))[1]
HintsMatchSections == phase = "done" =>
    \A p \in 1..(N - 1) :
        LET told == SectionHint(p)
            title == TextOf(Filled(Lines(v0, p + 1))[1])
        IN  Filled(Lines(v0, p)) # <<>> /\ Filled(Lines(v0, p + 1)) # <<>> =>
            IF Begins(p + 1)
            THEN \A h \in told : h[1] = "transition" /\ h[3] = title
            ELSE \E h \in told : h[1] = "same"

(* Fencing code loses and reorders no line, and keeps the fences of a page *)
(* in pairs of an opening and a bare closing one: unless the region of a   *)
(* block held a fence.                                                     *)
Plain(lines) == Keep(lines, Line \ Fences)
Paired(lines) == LET f == Keep(lines, Fences) IN
    Len(f) % 2 = 0 /\ \A i \in DOMAIN f : i % 2 = 0 => Bare(f[i])
CodeIsFenced == \A p \in DOMAIN v1 :
    /\ Plain(v1[p]) = Plain(v0[p])
    /\ Paired(v0[p]) /\ p \notin spans => Paired(v1[p])

(* "The Nth placeholder corresponds to the Nth figure": every figure stands *)
(* where its picture was, on its page and in the whole document, if every   *)
(* picture became a figure.                                                 *)
FiguresInPlace == phase # "docling" /\ Len(figures) = Len(input.pictures) =>
    /\ Keep(whole, Drawn) =
           [i \in DOMAIN input.pictures |-> Figure(i)]
    /\ Filled(whole) = Filled(Concat([p \in PageNumbers |-> Lines(v0, p)]))
=============================================================================
