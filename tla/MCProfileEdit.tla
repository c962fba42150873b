---------------------------- MODULE MCProfileEdit ----------------------------
(* An instance of ProfileEdit for TLC.                                     *)
EXTENDS ProfileEdit, TLC

CONSTANTS f1, f2, photo, url1

MCForms == {f1, f2}
MCPlain == {"phone"}
MCFiles == {photo}
MCUrls  == {url1}

\* A name, the same with two blanks inside, and blanks around nothing.
MCTexts   == {"", "a b", "a  b", "  "}
MCTrim    == [t \in MCTexts |-> IF t = "  " THEN "" ELSE t]
MCSqueeze == [t \in MCTexts |-> IF t = "a  b" THEN "a b" ELSE MCTrim[t]]

Symmetry == Permutations(MCForms)
=============================================================================
