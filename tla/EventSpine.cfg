\* Two agents under one panel; the panel is over when everyone is done.
SPECIFICATION Spec
CONSTANTS
    Agents = {a1, a2}
    Panel = panel
INVARIANTS
    StackBalanced
    AnswersArePriced
CHECK_DEADLOCK FALSE
