CONSTANTS
    Pages = {1, 2}
    Original <- TwoPages
    Posters = {2}
    Words = {"a", "b", "c"}
    Parallel = 1
    Helpers = {"describe_image", "reconstruct_table"}
    Helped <- FigureAndTable
    Limit <- OneEach
    MaxCalls = 3
    MaxFailures = 1
SPECIFICATION Spec
INVARIANTS PagesReplay DocumentReplays
CHECK_DEADLOCK FALSE
