SPECIFICATION Spec
CONSTANTS
    Games = {"g1"}
    FileOrder <- MCFileOrder
    Owner <- MCOwner
    Contents = {"a", "b"}
    Digests <- MCDigests
    Dats = {"d1", "d2"}
    Entries <- MCEntries
    Declares <- MCDeclares
    MaxJobs = 2
INVARIANTS OneJobWorks
PROPERTY CompletedJobsAreTrue
