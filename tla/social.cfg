SPECIFICATION Spec
CONSTANTS
    Characters = {a, b, c}
    Names = {red, blue}
    None = none
    Starts <- MCStarts
    Ids = {1, 2}
    MemberLimit = 2
    MaxRevisions = 2
    MaxInvitations = 2
    MaxContacts = 1
    MaxFailures = 1
    MaxCrashes = 1
SYMMETRY MCSymmetry
INVARIANTS IndexesMatch RostersSound InvitationsAreValid FlushedSurvives
CHECK_DEADLOCK FALSE
