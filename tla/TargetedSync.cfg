SPECIFICATION Spec
CONSTANTS
    Apps = {1, 2}
    Items = {"mail", "entry", "note", "call", "file"}
    People = {"recruiter"}
    Targeters = {1, 2}
    Batchers = {b1}
    Kind <- MCKind
    Names <- MCNames
    From <- MCFrom
    Day <- MCDay
    Start <- MCStart
    Company <- MCCompany
    Asks = {"mail"}
    MailLimit = 1
    MaxCalls = 3
    NoDay = NoDay
    Idle = Idle
    Free = Free
INVARIANTS TypeOK AnswersAreComing 
PROPERTIES FilesEachItemOnce NoCascade
