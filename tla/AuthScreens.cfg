SPECIFICATION Spec
CONSTANT MaxLogouts = 2
INVARIANTS TypeOK OneAtATime PromptBelongs
