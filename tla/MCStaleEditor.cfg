\* The administrator's page of one waitlist.
CONSTANTS
    None = None
    Entries = {w1, w2}
    Limits = {1, 2}
    MaxEvents = 4
SPECIFICATION EditorSpec
INVARIANTS ReloadBringsTheList
CHECK_DEADLOCK FALSE
