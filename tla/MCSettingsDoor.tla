--------------------------- MODULE MCSettingsDoor ---------------------------
(* One setting of each kind: the switch, a policy, who flies, a window's    *)
(* own setting, a rule of a project and one of them all, the launch mode.   *)
EXTENDS SettingsDoor

CONSTANTS trust, policy, pilot, pane, rule, base, mode

MCHolder == [s \in Settings |->
    CASE s = rule -> "project" [] s = base -> "base" [] s = mode -> "mode" [] s = pane -> "window" [] OTHER -> "server"]
MCClass  == [s \in Settings |->
    CASE s = trust -> "personOnly" [] s = pilot -> "personTop" [] OTHER -> "escalation"]
=============================================================================
