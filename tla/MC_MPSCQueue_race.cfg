\* Two producers: a commit that fails takes over the earlier reservation.
CONSTANTS
    p1 = p1
    p2 = p2
    Junk = Junk
    Producers <- MC_Two
    Cap = 2
    MaxPush = 2
SPECIFICATION Spec
PROPERTY
    ImplementsFIFO
