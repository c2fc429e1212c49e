------------------------------- MODULE MCService -------------------------------
(* Small instances of the outgoing side of the SIP service for TLC. *)
EXTENDS Service

CONSTANTS s1, s2

Office == [id |-> "office", version |-> 1, register |-> TRUE]
OfficeChanged == [id |-> "office", version |-> 2, register |-> TRUE]
Home == [id |-> "home", version |-> 1, register |-> FALSE]
Listener == [id |-> "nil", version |-> 1, register |-> FALSE]
TheSends == {s1, s2}
TheAccounts == {Office, OfficeChanged, Home, Listener}

Configure(r) == [what |-> "configure", of |-> r]
Does(what) == [what |-> what, of |-> None]
One(a, r, p) == [limit |-> 1, receiver |-> r, script |-> p,
                 account |-> [s \in {s1, s2} |-> IF s = s1 THEN a ELSE None]]
Two(n, a, b, p) == [limit |-> n, receiver |-> None, script |-> p,
                    account |-> [s \in {s1, s2} |-> IF s = s1 THEN a ELSE b]]

TheCases ==
    {Two(1, Office, Office, <<>>),
     Two(2, Home, Home, <<>>),
     One(Home, None, <<Does("reconnect"), Does("reconnect")>>),
     One(Office, OfficeChanged, <<Does("cancel")>>),
     One(Home, Listener, <<Does("invite"), Does("suspend")>>),
     One(Home, None, <<Does("stop")>>),
     One(Home, None, <<Does("cancel"), Does("break")>>),
     One(Office, None, <<Does("failure")>>),
     One(None, Office, <<Does("failure")>>),
     One(None, Office, <<Configure(OfficeChanged), Configure(Home), Configure(None)>>)}
=============================================================================
