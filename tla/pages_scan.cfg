SPECIFICATION Spec
CONSTANTS
    None = None
    alice = alice
    bodhi = bodhi
    Text <- TextValues
    User = {alice, bodhi}
    Request = {}
    ResultsDB <- NoResults
    NewWaivers <- MCNewWaivers
    Queries <- MCQueries
    Results <- MCResults
    Limit = 1
    MaxRows = 3
INVARIANTS
    TypeOK
    ScanIsComplete
    EndpointsAgree
    SubjectsAreFilters
CHECK_DEADLOCK FALSE
