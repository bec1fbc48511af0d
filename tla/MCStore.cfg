\* Three hooks of a session, one after the other or at once, two keys.
CONSTANTS
    Unset = Unset
    Store = {s1, s2, s3}
    Key = {k1, k2}
    Value = {v1}
SPECIFICATION Spec
INVARIANTS TypeOK
PROPERTIES ImplementsDurableMap
CHECK_DEADLOCK FALSE
