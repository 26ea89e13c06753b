SPECIFICATION Spec
CONSTANTS
    Scripts <- MCScripts
    Keywords <- MCKeywords
    SheetOf <- MCSheetOf
    Texts = {"a", "b"}
    MaxDepth = 5
INVARIANTS
    ScriptIsFollowed
CHECK_DEADLOCK FALSE
