SPECIFICATION FairSpec
CONSTANTS
    MaxClients = 2
    MaxJoins = 1
INVARIANT TypeOK
INVARIANT ClientsAccounted
INVARIANT RoleFitsMode
INVARIANT LayoutFitsMode
PROPERTY OnlyUpgradesLeadToSfu
PROPERTY TransitionsEnd
CHECK_DEADLOCK FALSE
