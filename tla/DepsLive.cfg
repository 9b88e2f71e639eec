SPECIFICATION FairSpec
CONSTANTS
    N = 2
    Runs <- MCRuns
    Deps <- MCDeps
    Paths <- MCPaths
    Inside <- MCInside
    Files <- MCFiles
    Repo <- MCRepo
PROPERTY WaitersMove
