\* Two contacts, two lists, three requests at once, events in any order.
SPECIFICATION Spec
CONSTANTS
    c1 = c1
    c2 = c2
    l1 = l1
    l2 = l2
    s1 = s1
    s2 = s2
    s3 = s3
    Contacts = {c1, c2}
    Lists = {l1, l2}
    Sessions = {s1, s2, s3}
    Ops = {"write", "delete", "forget", "add", "remove", "drop"}
    MaxOps = 4
CHECK_DEADLOCK FALSE
SYMMETRY Symmetry
INVARIANTS VersionsOrderTheFields EveryVersionIsAnnounced ReplicaFollows
