SPECIFICATION Spec
CONSTANTS
    p1 = p1 p2 = p2 p3 = p3
    Target = {"open", "closed"}
    Secured = {"closed"}
    Proc = {p1, p2, p3}
    Lines <- Everything
CHECK_DEADLOCK FALSE
INVARIANTS SavedIsVerified StoreFollowsTarget LoadsAreWhole LostHasACause
