SPECIFICATION Spec
CONSTANTS
    init_proc = init_proc
    p1 = p1
    p2 = p2
    Procs = {init_proc, p1, p2}
    PG_SIZE = 2
    Entries = 4
    DEFAULT_STACK = 12
    NFrames = 21
    Reserve = 9
    MaxChildren = 1
    Program <- MCProgram
    MaxSegs = 2
    Touched = {4, 5, 8}
    Stored = {}
    Brks = {5, 6}
    Workers = {p1, p2}
    Rules = {"stay", "own", "heap", "whole", "failed"}
SYMMETRY ProcSymmetry
PROPERTY RefinesPrivateMemory
CHECK_DEADLOCK FALSE
