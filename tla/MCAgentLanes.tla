---- MODULE MCAgentLanes ----
(***************************************************************************)
(* AgentLanes with four small targets: the shape of the example registry    *)
(* (one deleted guard is followed by code, the other by a comment), one     *)
(* that guards twice against one attack and never against the other, one    *)
(* that has a second check behind its guard, and one that cannot be         *)
(* imported.                                                                *)
(***************************************************************************)
EXTENDS AgentLanes

CONSTANTS missing_field, bad_path

L(kind, attack) == [kind |-> kind, attack |-> attack, shifted |-> FALSE]
Other(kind) == L(kind, NoAttack)
Guard(attack) == L("guard", attack)
Check(attack) == L("check", attack)

Example == <<Other("class"), Guard(missing_field), Other("code"), Guard(bad_path), Other("comment")>>
Doubled == <<Other("class"), Guard(bad_path), Other("comment"), Guard(bad_path), Other("comment")>>
Layered == <<Other("class"), Guard(bad_path), Other("comment"), Check(bad_path)>>
Broken == <<Other("raise"), Other("class"), Guard(bad_path), Other("comment")>>

AllTargets == {Example, Doubled, Layered, Broken}
OnlyExample == {Example}
OnlyBroken == {Broken}
====
