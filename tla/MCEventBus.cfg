SPECIFICATION Spec
CONSTANTS
    Types = {a, b}
    MaxSubs = 2
    MaxEvents = 3
    MaxDepth = 2
    Important <- ImportantEvents
INVARIANTS
    MapSound
    OnceAtMostOnce
PROPERTIES
    EmitSyncReaches
    EmitReaches
