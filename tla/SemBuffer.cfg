\* Two producers, two consumers, two slots; with and without a time limit.
CONSTANTS
    Producers = {p1, p2}
    Consumers = {c1, c2}
    LineLengths <- MCLineLengths
    Threshold = 5
    SearchMode = 1
    Slots = 2
    TTLs = {0, 1}
SPECIFICATION FairSpec
INVARIANTS
    SlotExclusive
    TokensMatchSlots
PROPERTIES
    ImplementsBag
    EveryoneFinishes
