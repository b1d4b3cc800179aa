CONSTANTS
    Absent = Absent
    Torn = Torn
    Boot = Boot
    main = main
    pull = pull
    Main = main
    Installers = {main, pull}
    newest = newest
    exact1 = exact1
    p1 = p1
    p2 = p2
    Pids = {p1, p2}
    MaxNodes = 2
    MaxRelease = 2
    Selectors <- Backward
    Matches <- MatchesBackward
    Broken = {}
    Platforms = {"unix"}
    MaxCrashes = 1
SPECIFICATION Spec
PROPERTY SwitchSticks
CHECK_DEADLOCK FALSE
