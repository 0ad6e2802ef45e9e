SPECIFICATION MCSpec
CONSTANTS
    Number <- MCNumber
    WholeTexts <- MCWholeTexts
    Addresses = {"127.0.0.1:8077"}
    WithColon = {"u:p", "127.0.0.1:8077"}
    SpecOf <- MCSpecOf
    Envs <- MCEnvs
    Argvs <- MCArgvs
    Current <- MCCurrent
    Answers <- MCAnswers
    Poll = 2
    Deadline = 600
    WarmUp = 5
    WorkTimes = {0, 14, 15, 16}
    Lateness = 1
    Mentions = {FALSE}
    MaxTime = 640
    Credentials <- MCCredentials
CHECK_DEADLOCK FALSE
INVARIANTS
    FlagsWin
    RefusedForAReason
    PrintsRealSample
    GivesUpOnlyWithoutSample
    PasswordDecides
PROPERTIES
    OnceEnds
