SPECIFICATION Spec
CONSTANTS
    page = page
    script = script
    a = a
    Clients = {page, script}
    Polite = {page}
    Ids = {a}
    NoId = none
    Scripts <- MCScripts
INVARIANT TypeOK
PROPERTY
    Served
    Answered
    HangUpIsNoticed
    SigintStops
CHECK_DEADLOCK FALSE
