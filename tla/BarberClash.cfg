\* zad1: two clients whose process ids ftok() cannot tell apart.
CONSTANTS
    Clients <- MCClashingPids
    ClientKey <- MCClashingKeys
    Chairs = 2
    Repeats = 2
SPECIFICATION Spec
INVARIANT AssertsHold
