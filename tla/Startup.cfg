CONSTANTS
    Absent = Absent
    Torn = Torn
    Boot = Boot
    main = main
    pull = pull
    Main = main
    Installers = {main, pull}
    newest = newest
    exact1 = exact1
    p1 = p1
    p2 = p2
    Pids = {p1, p2}
    MaxNodes = 2
    MaxRelease = 3
    Selectors <- BothWays
    Matches <- MatchesBoth
    Broken = {3}
    Platforms = {"unix", "windows"}
    MaxCrashes = 1
SPECIFICATION FairSpec
INVARIANTS TypeOK NeverWithoutExecutable
PROPERTIES BackupAvailable LoopRunsInstalled IdentityNeverChanges ComesUp SwitchAcknowledged
CHECK_DEADLOCK FALSE
