SPECIFICATION Spec
CONSTANTS
    s1 = s1  s2 = s2  c1 = c1  c2 = c2  wA = wA  wB = wB
    Sessions = {s1, s2}
    Captures = {c1}
    Viewers = {v1, v2}
    Workspaces = {wA, wB}
    WorkspaceOf <- MCWorkspaceOf
    Registered = {wA}
    MaxStreams = 2
    None = None
INVARIANT CaptureOrLive
CHECK_DEADLOCK FALSE
