--------------------------- MODULE MCDocumentText ---------------------------
(* DocumentText for TLC: short documents of every kind of line.            *)
EXTENDS DocumentText

Alike == [q \in Texts \X Texts |->
             IF q[1] = q[2] THEN 2 ELSE IF {q[1], q[2]} \in {{"A", "a"}, {"x", "y"}} THEN 1 ELSE 0]

Heading(t) == [is |-> "heading", text |-> t, level |-> 2]
Prose == [is |-> "prose"]
Title == [is |-> "prose", text |-> "a"]
Row == [is |-> "row"]
Number(n) == [is |-> "number", number |-> n]
Numbered(n) == [is |-> "numbered", number |-> n]
Code(t) == [is |-> "code", text |-> t]

Sheets == {<<>>, <<Blank>>, <<Prose>>, <<Heading("A")>>, <<Prose, Heading("B")>>,
           <<Heading("B"), Blank, Prose>>, <<Title, Prose, Heading("A"), Number(2)>>,
           <<Heading("A"), Prose, Heading("a")>>, <<Number(1)>>, <<Prose, Row>>,
           <<Blank, Prose, Blank, Blank, Heading("B"), Heading("x")>>,
           <<Row, Row>>, <<Numbered(2), Image, Blank>>, <<Image, Prose, Image>>}
Listings == {<<Code("x"), Prose, Code("y"), Code("z")>>,
             <<Fence("none"), Code("x"), Fence("none"), Code("z")>>,
             <<Code("z"), Fence("sql"), Code("x"), Fence("none"), Code("y")>>,
             <<Code("x"), Fence("none"), Code("z"), Fence("none")>>}

Entry(t, l) == [text |-> t, level |-> l]
Outlines == {<<>>, <<Entry("a", 1), Entry("B", 2)>>, <<Entry("B", 2), Entry("A", 1)>>}
Block(f, l, p) == [first |-> f, last |-> l, page |-> p, lang |-> "sql"]

ImageCount(pages) == [p \in DOMAIN pages |-> Cardinality(Positions(pages[p], {Image}))]
Picture(p, ok) == [page |-> p, placed |-> TRUE, cropped |-> ok]
\* one picture for every placeholder, in document order
Pictures(pages, ok) == Concat([p \in DOMAIN pages |->
    [i \in 1..ImageCount(pages)[p] |-> Picture(p, ok \/ i > 1)]])

Prosaic == {[pages |-> ps, pictures |-> Pictures(ps, ok), outline |-> o, blocks |-> <<>>,
             footnotes |-> {[page |-> 2, number |-> "1"]}] :
            ps \in [1..3 -> Sheets], ok \in BOOLEAN, o \in Outlines}
Coded == {[pages |-> <<a, b>>, pictures |-> <<>>, outline |-> <<>>,
           blocks |-> <<Block(f, l, 1), Block(g, "z", p)>>, footnotes |-> {}] :
          a \in Listings, b \in Listings, f \in {"x", "z"}, l \in {"y", "z"},
          g \in {"x", "y", "z"}, p \in 1..3}
Documents == Prosaic \cup Coded
=============================================================================
