SPECIFICATION Spec
CONSTANTS
    c1 = c1
    c2 = c2
    c3 = c3
    c4 = c4
    f1 = f1
    f2 = f2
    f3 = f3
    None = None
    Channels = {c1, c2, c3, c4}
    Fds = {f1, f2, f3}
    Fd <- MCFd
    Acceptors = {c1}
SYMMETRY MCSymmetry
INVARIANTS IndexConsistent BackendsAgree
PROPERTY PollImplementsRegistry
