SPECIFICATION Spec
CONSTANTS
    Readers = {r1, r2}
    Amounts = {1, 2}
    SnapshotThreshold = 2
    MaxEvents = 5
SYMMETRY SomeReaders
INVARIANTS
    TypeOK
    SnapshotIsReplay
    ReadsAreCurrent
PROPERTIES
    SnapshotsAdvance
