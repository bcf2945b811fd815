\* One reader, two changes of each file.
SPECIFICATION FairSpec
CONSTANTS
    Readers = {r1}
    Grace = 2
    ReloadTime = 1
    ReadTime = 1
    MaxEdits = 2
INVARIANT
    NoTornRead
    ActiveLoaded
PROPERTY
    EditLoaded
