\* Two callbacks, two hashes and the default, two emissions.
CONSTANTS
    Callback = {c1, c2}
    Hash = {h1, h2}
    Default = Default
    NoEntry = NoEntry
    OneHash = TRUE
    MaxEmits = 2
SPECIFICATION Spec
INVARIANTS
    TypeOK
PROPERTIES
    ImplementsPubSub
