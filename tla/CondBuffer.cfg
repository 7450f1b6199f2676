\* Two producers, two consumers, two slots, one spurious wake-up; with and
\* without a time limit.
CONSTANTS
    Producers = {p1, p2}
    Consumers = {c1, c2}
    LineLengths <- MCLineLengths
    Threshold = 5
    SearchMode = 1
    Slots = 2
    TTLs = {0, 1}
    MaxSpurious = 1
SPECIFICATION FairSpec
INVARIANTS
    RingInOrder
    NobodySleepsThrough
    SlotFoundAtOnce
PROPERTIES
    ImplementsFifo
    EveryoneFinishes
