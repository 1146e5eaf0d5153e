SPECIFICATION Spec
CONSTANTS
    Queue = {q, r}
    Requests <- MCRequests
    Editor = {e}
    Window = {"w", "unreadable"}
    Expected = {"w", "v"}
    Mode = {"manual_confirm", "app_name_hint"}
    Automation = {TRUE, FALSE}
    MayDie = TRUE
    MaxMoves = 1
    Submits = {TRUE}
    q = q
    r = r
    e = e
SYMMETRY MCSymmetry
INVARIANTS PastedOnce ManualPasteWorks FingerprintCurrent
PROPERTIES PasteWasChecked
CHECK_DEADLOCK FALSE
