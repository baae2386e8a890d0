SPECIFICATION Spec
CONSTANTS
    None = None
    alice = alice
    Text <- TextValues
    User = {alice}
    Request = {}
    ResultsDB <- MCResults
    Subjects <- MCSubjects
    Pairs <- MCPairs
    MaxRows = 2
INVARIANTS
    SubjectsAreMapped
