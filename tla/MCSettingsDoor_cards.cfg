SPECIFICATION DoorSpec
CONSTANTS
    trust = trust
    policy = policy
    pane = pane
    rule = rule
    base = base
    mode = mode
    pilot = pilot
    Agents = {seat, worker}
    Confined = {seat}
    Settings = {trust, pilot, pane, base}
    Trust = trust
    Holder <- MCHolder
    Class <- MCClass
    Top = 1
    MaxPending = 2
    MaxCards = 3
    MaxWrites = 1
INVARIANTS
    DoorTypeOK
    OneCardPerAsk
    AppliedOnce
PROPERTIES
    PersonsAlone
    CardsLeave
