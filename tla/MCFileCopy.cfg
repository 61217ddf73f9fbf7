SPECIFICATION FileSpec
CONSTANTS
    disk = disk
    bucket = bucket
    a = a
    FilePaths = {disk, bucket}
    Cloud = {bucket}
    Handles = {copier, other}
    copier = copier
    other = other
    Copier = copier
    Data = {a}
    Zero = Zero
    Initial <- MCInitial
    Nothing = Nothing
    MaxLen = 2
    MaxFileFaults = 1
INVARIANTS
    WritesAreUploaded
    SuccessIsWhole
