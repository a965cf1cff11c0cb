SPECIFICATION Spec
CONSTANTS
    Parts = {"xswd", "prompt"}
    Session = {"s1", "s2"}
    AppId = {"i1"}
    Method = {"m1"}
    Reader = {"r1", "r2"}
    Secret = {"r1"}
CHECK_DEADLOCK FALSE
INVARIANTS OneQuestion AskedFirst NothingKept
PROPERTIES EveryoneServed
