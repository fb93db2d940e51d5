SPECIFICATION Spec
CONSTANTS
    Procs = {p, q}
    RunLived = {p, q}
    Referenced = {p, q}
    NoProc = NoProc
    Cleanups = {c}
    Shutdowns = {d}
PROPERTIES
    NaturalExitStands
