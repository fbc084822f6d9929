SPECIFICATION InputSpec
CONSTANTS
    Kbd = kbd
    Mouse = mouse
    Bus = bus
    Configs <- MCConfigs
    MaxObj = 2
INVARIANTS
    InputTypeOK
    CleanRelease
    DevicesReturn
    NeverInClear
PROPERTY
    Escape
