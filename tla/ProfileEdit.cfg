SPECIFICATION Spec
CONSTANTS
    f1 = f1
    f2 = f2
    photo = photo
    url1 = url1
    None = None
    Forms <- MCForms
    PlainFields <- MCPlain
    Texts <- MCTexts
    Empty = ""
    Trim <- MCTrim
    Squeeze <- MCSqueeze
    Files <- MCFiles
    Urls <- MCUrls
    MaxSaves = 2
    MaxEdits = 1
SYMMETRY Symmetry
INVARIANT TypeOK
PROPERTY LoneSaveKeeps
CHECK_DEADLOCK FALSE
