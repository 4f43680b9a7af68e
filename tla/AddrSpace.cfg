CONSTANTS
    Top = 8
    PAGE = 2
    Devices = {mem}
    Offsets = {0}
    MapLengths = {1, 2, 3, 4}
    NoTranslation = NoTranslation

SPECIFICATION Spec
INVARIANTS TypeOK Disjoint GivesUpOnlyWhenFull
PROPERTY ImplementsTranslations

CHECK_DEADLOCK FALSE
