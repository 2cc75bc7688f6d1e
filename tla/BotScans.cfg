\* Does a second scan make a bot of the application it creates?
CONSTANTS
    Workers = {w}
    NoWorker = NoWorker
    MaxApps = 2
    MaxBots = 2
    Versions = {1}
SPECIFICATION Spec
INVARIANT EveryScanMakesABot
\* Applications and records are bounded: in the end nobody asks.
CHECK_DEADLOCK FALSE
