----------------------------- MODULE MCPageEdits -----------------------------
(* PageEdits for TLC: a word repeated on a page, and one split over two; the *)
(* first page has a figure, the second a table.                              *)
EXTENDS PageEdits

TwoPages == <<<<"a", "b", "a", "-">>, <<"b", "c">>>>
FigureAndTable == <<{"describe_image"}, {"reconstruct_table"}>>
OneEach == [h \in Helpers |-> 1]
=============================================================================
