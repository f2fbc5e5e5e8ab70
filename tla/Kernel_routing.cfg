SPECIFICATION Spec
CONSTANTS
    injection = injection
    command = command
    question = question
    write = write
    shadowed = shadowed
    Text <- MCText
    Malicious <- MCMalicious
    Forbidden <- MCForbidden
    Governed <- MCGoverned
    Asks <- MCAsks
    Mentions <- MCMentions
    Billed <- MCBilled
    Caller = {c1, c2}
    Window = 1
    Threshold = 2
    Budget = 1
    Cost = 1
    SessionLimit = 2
    MaxTime = 3
    MaxSessions = 2
    MaxRestarts = 1
\* The bounds on time, messages and restarts end every behaviour.
CHECK_DEADLOCK FALSE
INVARIANT CommandsReachTheGate
