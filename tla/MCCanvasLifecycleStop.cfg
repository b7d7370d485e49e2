\* A graceful shutdown while another server takes the canvas over.
SPECIFICATION Spec
CONSTANTS
    s1 = s1  s2 = s2  w1 = w1  w2 = w2
    Servers = {s1, s2}
    None = None
    Writes = {w1}
    MaxGen = 3
    Faults = {"stop"}
INVARIANT NoLostWrite
