------------------------------- MODULE MCConfig -------------------------------
(* Small instances of the engine's configuration for TLC. *)
EXTENDS Config

CONSTANTS c1, c2, c3, c4, office

TheCalls == {c1, c2, c3, c4}
TheProfiles == {office}

Nothing == [what |-> "nothing"]
Configure(target) == [what |-> "configure", of |-> target]
Saves(what) == [what |-> what, of |-> office, register |-> TRUE]
Unregister == [what |-> "profile", of |-> office, register |-> FALSE]
Does(what) == [what |-> what]
Case(first, n, a, b, c, d) ==
    [receiver |-> first, faults |-> n,
     asks |-> [x \in TheCalls |-> CASE x = c1 -> a [] x = c2 -> b [] x = c3 -> c [] x = c4 -> d]]

TheCases ==
    {Case(office, 0, Saves("password"), Saves("password"), Configure(office), Nothing),
     Case(office, 0, Configure(Direct), Configure(office), Saves("profile"), Nothing),
     Case(office, 1, Saves("password"), Configure(None), Does("reconnect"), Nothing),
     Case(None, 1, Configure(office), Unregister, Saves("profile"), Nothing),
     Case(office, 0, Unregister, Configure(None), Configure(office), Nothing),
     Case(None, 1, Does("settings"), Does("settings"), Does("settings"), Nothing),
     Case(None, 0, Does("settings"), Does("settings"), Does("preview"), Does("preview"))}
=============================================================================
