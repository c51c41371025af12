SPECIFICATION Spec
CONSTANTS
    Apps = {1, 2}
    Firm <- MCFirm
    Akin <- MCAkin
    People = {"petra", "hans"}
    Words = {"mueller", "petra", "hans"}
    Emails = {"Petra", "petra", "hans"}
    Lower <- MCLower
    Domain <- MCDomain
    Firms = {"contoso", "fabrikam"}
    Phones = {"1", "2"}
    Cards <- MCCards
    Mails <- MCMails
    MaxId = 3
    MaxCalls = 4
    Nothing = Nothing
    Generic = Generic
    Idle = Idle
INVARIANTS TypeOK
PROPERTIES NothingLost RejectedStayRejected MessagesFollow PassiveKeeps
CHECK_DEADLOCK FALSE
