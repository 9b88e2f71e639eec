SPECIFICATION Spec
CONSTANTS
    N = 3
    Runs <- MCRuns
    Deps <- MCDeps
    Paths <- MCPaths
    Inside <- MCInside
    Files <- MCFiles
    Repo <- MCRepo
INVARIANT OverlapsQueue
