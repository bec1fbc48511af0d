\* Three asks, copies of two of them.
CONSTANTS
    a1 = a1  a2 = a2  a3 = a3
    NoAsk = NoAsk
    Files = 5
    Ask = {a1, a2, a3}
    AskOf <- CopiesAround
    Copies = {1, 5}
SPECIFICATION Spec
INVARIANTS TypeOK SteadyPromptsHitTheirAsk SomeRowIsHighlighted
