SPECIFICATION ChatSpec
CONSTANTS
    Students = {ali}
    Office = {web}
    Handlers = {h1, h2}
    MaxRegisters = 1
    MaxMails = 3
    MaxDrafts = 2
    MaxMishaps = 1
SYMMETRY Symmetry
INVARIANTS SettledAsShown
PROPERTIES RegisterIsTheList AmendedNotOverwritten
CHECK_DEADLOCK FALSE
