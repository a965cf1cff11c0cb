SPECIFICATION Spec
CONSTANTS
    Parts = {"xswd"}
    Session = {"s1", "s2"}
    AppId = {"i1"}
    Method = {"m1"}
    Reader = {"r1", "r2"}
    Secret = {"r1"}
CHECK_DEADLOCK FALSE
INVARIANT ConsentFirst
