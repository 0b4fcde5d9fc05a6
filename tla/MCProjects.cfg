CONSTANTS
    Titles = {"new_project", "novyi_proiekt", "title1", "title2"}
    Languages = {"en", "uk"}
    Default <- MCDefault
    Sessions = {"s1", "s2"}
SPECIFICATION Spec
INVARIANT
    TypeOK
PROPERTY
    ChosenTitleKept
