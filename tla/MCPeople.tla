------------------------------ MODULE MCPeople ------------------------------
(* Two recruiters of one company with the same surname; the address book    *)
(* spells one address in its own way.                                       *)
EXTENDS People

MCFirm == [a \in Apps |-> "contoso"]
MCAkin == {Apps}
MCLower == [e \in Emails |-> IF e = "Petra" THEN "petra" ELSE e]
MCDomain == [e \in Emails |-> "contoso.de"]
Petra == [person |-> "petra", email |-> "Petra", name |-> {"mueller"}, first |-> {"petra"},
          firma |-> "contoso", phones |-> {"1"}]
Hans == [person |-> "hans", email |-> "hans", name |-> {"mueller"}, first |-> {"hans"},
         firma |-> Nothing, phones |-> {"2"}]
MCCards == <<Petra, Hans>>
Mail(person, apps) ==
    [person |-> person, email |-> person, name |-> {"mueller"}, first |-> {person},
     phones |-> {}, names |-> apps, automated |-> FALSE, mailbox |-> FALSE,
     tracking |-> FALSE]
MCMails ==
    {Mail("petra", {1}),
     [Mail("petra", {2}) EXCEPT !.tracking = TRUE, !.first = {}],
     [Mail("hans", {1, 2}) EXCEPT !.mailbox = TRUE],
     [Mail("hans", {2}) EXCEPT !.automated = TRUE]}
=============================================================================
