SPECIFICATION Spec
CONSTANTS
    InputBuffer = {i1, i2}
    OutputBuffer = {o1}
    InputOutputBuffer = {io1, io2}
    Memories = {m1, m2, m3}
    Sizes = {1, 2}
    Values = {0, 1}
    Kernels = {"vadd", "reg", "tsdf"}
    None = None
SYMMETRY MCSymmetry
INVARIANTS
    OneOwner
    ReturnsResult
CHECK_DEADLOCK FALSE
