\* Six commands of one power-on: the AT probe, one that times out, a prompted
\* one behind it, and three more for their answers to be mistaken for.
SPECIFICATION Spec
CONSTANTS
    MaxCommands = 6
INVARIANTS
    VerdictIsOwn
    PromptedOkIsOwn
    OnlyClosingIsSwallowed
