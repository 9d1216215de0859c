------------------------------ MODULE MCConsole ------------------------------
EXTENDS Console, TLC
CONSTANTS gitws, plainws, secret, r1, r2, a1, base, extra

MCTtl == [k \in Keys |-> 1]

\* A page of the console, first-party or not.
Page(kind, ws) == [kind |-> kind, ws |-> ws, first_party |-> TRUE]
Preferences(ws, safety, consent, roles, pins) ==
    Page("preferences", ws) @@
    [safety |-> safety, consent |-> consent,
     sets_roles |-> roles # {}, roles |-> [r \in Roles |-> IF r = "architect" THEN {base} ELSE roles],
     sets_pins |-> pins # {}, pins |-> [r \in Roles |-> IF r = "architect" THEN pins ELSE {}]]

MCAsks ==
    {Preferences(plainws, "automatic", FALSE, {}, {}),
     Preferences(plainws, "non-git", FALSE, {extra}, {}),
     Preferences(plainws, "non-git", TRUE, {}, {}),
     Preferences(gitws, "keep", FALSE, {}, {a1}),
     Page("agents", gitws), Page("compose", gitws) @@ [readable |-> TRUE, follow |-> FALSE],
     Page("compose", gitws) @@ [readable |-> TRUE, follow |-> TRUE],
     Page("action", gitws) @@ [action |-> "cancel"],
     Page("profile", gitws) @@ [profile |-> extra],
     [kind |-> "trust", ws |-> plainws, force |-> FALSE],
     [kind |-> "untrust", ws |-> plainws],
     [Page("workbench", secret) EXCEPT !.first_party = FALSE]}
==============================================================================
