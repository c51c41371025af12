SPECIFICATION CalmSpec
CONSTANTS
    Uids = {u1, u2}
    Slots = {4, 6, 12}
    Back = 4
    Ahead = 4
    MaxTime = 1
    MaxId = 2
    MaxChanges = 3
    MaxPurges = 1
    Gone = Gone
    NoUid = NoUid
SYMMETRY Symmetry
INVARIANTS OneSuggestionPerEvent ApprovalsHeal
PROPERTIES SuggestedAreGone FollowsCalendar
