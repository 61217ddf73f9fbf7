SPECIFICATION FairSpec
CONSTANTS
    a = a
    b = b
    Names = {a, b}
    MaxDepth = 3
    Trees <- MCTrees
    Calls <- MCCalls
    Absent = Absent
    Dir = Dir
    File = File
    Empty = Empty
    Part = Part
    New = New
    MaxChanges = 1
    MaxFaults = 1
INVARIANTS
    RemovedWhenWell
    CopyIsWhole
PROPERTIES
    MoveLosesOnlyNew
    OnlyWhatIsNamed
    CommandsEnd
