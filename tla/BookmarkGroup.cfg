CONSTANTS
    MarkRequests = {m1, m2, m3}
    Numbers = {1, 2}
SPECIFICATION BookmarksSpec
CHECK_DEADLOCK FALSE
PROPERTY GroupFollowsRequest
