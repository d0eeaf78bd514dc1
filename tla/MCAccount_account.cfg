SPECIFICATION AccountSpec
CONSTANTS
    d1 = d1
    d2 = d2
    Device = {d1, d2}
    Home = "china"
    GroupOf <- MCGroupOf
    Password = {p1, p2}
    MaxEdits = 2
    MaxLate = 1
INVARIANTS LoadedRunsLatest SubmittedIsStored WholeGroupsReturn OneLiveCoordinator
 
