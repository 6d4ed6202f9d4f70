CONSTANTS
    Texts = {"A", "a", "B", "x", "y", "z"}
    Likeness <- Alike
    Languages = {"none", "sql"}
    Inputs <- Documents
SPECIFICATION Spec
INVARIANTS SectionsPartition HintsMatchSections CodeIsFenced FiguresInPlace
CHECK_DEADLOCK FALSE
