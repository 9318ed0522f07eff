SPECIFICATION DoorSpec
CONSTANTS
    trust = trust
    policy = policy
    pane = pane
    rule = rule
    base = base
    mode = mode
    pilot = pilot
    Agents = {worker}
    Confined = {}
    Settings = {trust, policy, pane, rule, base, mode}
    Trust = trust
    Holder <- MCHolder
    Class <- MCClass
    Top = 2
    MaxPending = 2
    MaxCards = 1
    MaxWrites = 1
PROPERTIES
    CardStillTrue
