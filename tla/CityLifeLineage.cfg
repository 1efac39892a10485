\* One life tick after the other.
SPECIFICATION LifeSpec
CONSTANTS
    m1 = m1
    m2 = m2
    m3 = m3
    m4 = m4
    m5 = m5
    t1 = t1
    t2 = t2
    f1 = f1
    f2 = f2
    Families = {f1}
    Members = {m1, m2, m3, m4, m5}
    Ticks = {t1}
    Limits = {1, 2}
    ForceAge = 1
    MaxDeleted = 1
INVARIANT
    ParentIsUnique
