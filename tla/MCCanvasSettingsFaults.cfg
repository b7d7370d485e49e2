SPECIFICATION Spec
CONSTANTS
    s1 = s1  s2 = s2
    Servers = {s1, s2}
    None = None
    Fields = {"name", "password"}
    MaxChanges = 4
    Faults = {"crash", "redis", "es"}
SYMMETRY Symmetry
INVARIANTS TypeOK AckedKept AckedInEs ServedCurrent
