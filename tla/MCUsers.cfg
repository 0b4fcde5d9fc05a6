CONSTANTS
    Ids = {user1, user2, user3}
    Spellings = {"A@mail", "a@mail", "b@mail"}
    Normal <- MCNormal
    Patches <- MCPatches
    Passwords = {"secret1", "secret2"}
    Sessions = {s1, s2}
SPECIFICATION Spec
SYMMETRY Symmetry
INVARIANTS
    TypeOK
    EmailsAreUnique
PROPERTIES
    OnlyAskedColumnsChange
    DeactivationHolds
