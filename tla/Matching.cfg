CONSTANTS
    Letters <- MCLetters
    MaxLength = 3
    Keys = {"summary", "name", "x"}
    Values <- PlainValues
    Templates <- MCTemplates
SPECIFICATION Spec
INVARIANTS MatchIsByPrefix RenderIsSubstitution
CHECK_DEADLOCK FALSE
