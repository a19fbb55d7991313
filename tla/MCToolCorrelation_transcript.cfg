\* Two calls of one tool and one of another without an id, for both CLIs.
SPECIFICATION Spec
CONSTANTS
    c1 = c1
    c2 = c2
    a1 = a1
    bash = bash
    edit = edit
    Calls = {c1, c2, a1}
    Tools = {bash, edit}
    ToolOf <- MCToolOf
    Anonymous = {a1}
    Clis = {"claude_code", "codex"}
    Window = 1
    None = None
    MaxTime = 2
    MaxMessages = 1
    MaxUnreadable = 1
SYMMETRY Symmetry
INVARIANTS TypeOK ResultsNamed UseHoldsItsResult RetryHasFailure
\* Every call is made and answered in the end.
CHECK_DEADLOCK FALSE
