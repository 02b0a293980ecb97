\* A build beside a change.
CONSTANTS
    q1 = q1
    w = w
    Request = {q1}
    Writer = {w}
    Leaver = {}
    Dropper = {}
    MaxVersions = 2
SPECIFICATION EnvsSpec
INVARIANT
    NoStaleEnv
