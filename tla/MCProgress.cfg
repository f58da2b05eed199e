SPECIFICATION ProgressSpec
CONSTANT
    None = None
PROPERTIES
    DueIsHandled
    RestartServes
    ConfirmingIsResolved
\* Rows are not reused, and the clock of a session ends.
CHECK_DEADLOCK FALSE
