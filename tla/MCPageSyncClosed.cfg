SPECIFICATION Spec
CONSTANTS
    Page = {1, 2}
    Tab = {a, b, c}
    Live = {a, b}
    Saved = {a}
    None = none
    Conflict = conflict
    MaxEdits = 2
    MaxUpsets = 1
PROPERTIES
    ClosedStaysClosed
CHECK_DEADLOCK FALSE
