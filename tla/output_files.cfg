SPECIFICATION Spec
CONSTANTS
    Requests <- FilesRequest
    Absent = Absent
    UintBits = 4
    BigTime = 5
    WordBits = 4
INVARIANTS
    OutputFilesShowTheCount
