SPECIFICATION Spec
CONSTANTS
    Call = {c1, c2}
    Chat = {c1}
    Job = {c2}
    MaxUpsets = 1
INVARIANTS
    PromptsMatch
    AnswerStands
PROPERTIES
    ImplementsGate
CHECK_DEADLOCK FALSE
