SPECIFICATION Spec
CONSTANTS
    s1 = s1
    s2 = s2
    Trees = {1, 2, 3}
    Sessions = {s1, s2}
    PKs = {0, 1}
    Ints = {0, 1}
    TableKey = TableKey
    IndexKey = IndexKey
    Null = Null
    Absent = Absent
    Scenarios <- BuildAndInsert
INVARIANT SecondaryMatches
