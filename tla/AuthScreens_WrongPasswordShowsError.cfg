SPECIFICATION Spec
CONSTANT MaxLogouts = 2
INVARIANT WrongPasswordShowsError
