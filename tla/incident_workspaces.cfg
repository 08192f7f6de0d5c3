SPECIFICATION Spec
CONSTANTS
    NoRun = NoRun
    Poller = Poller
    Runs = {i1, i2, i3}
    Operators = {o1, o2}
    MaxCount = 2
    MaxAge = 2
    LastTime = 5
    MaxRestarts = 1
SYMMETRY Symmetry
INVARIANTS
    TypeOK
    WorkspacesBounded
PROPERTY
    RunningWorkspaceIsKept
