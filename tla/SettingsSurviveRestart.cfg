SPECIFICATION Spec
CONSTANTS
    p1 = p1
    p2 = p2
    e1 = e1
    r1 = r1
    blank = blank
    t1 = t1
    Projects = {p1, p2}
    Elements = {e1}
    Edited = {p1}
    HomeOf <- AllInFirst
    Requests = {r1}
    Texts = {blank, t1}
    Blank = blank
    Bare = Bare
    Done = Done
    Picture = Picture
    Torn = Torn
    None = None
    MaxVersion = 1
    MaxFaults = 1
INVARIANTS
    SettingsSurviveRestart
CHECK_DEADLOCK FALSE
