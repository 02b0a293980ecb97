CONSTANTS
    q1 = q1
    q2 = q2
    q3 = q3
    w = w
    l = l
    d = d
    Request = {q1, q2, q3}
    Writer = {w}
    Leaver = {l}
    Dropper = {d}
    MaxVersions = 2
SPECIFICATION FairEnvsSpec
INVARIANT
    EnvsTypeOK
PROPERTIES
    InUseIsKept
    EnvForReturns
