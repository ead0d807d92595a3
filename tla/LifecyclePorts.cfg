\* One command and two servers, with a pid each, on two ports.
CONSTANTS
    Client = {c1}
    Server = {s1, s2}
    Pid = {p1, p2}
    Port = {portA, portB}
    PortChoice <- AnyPort
    None = None
    Foreign = Foreign
    Corrupt = Corrupt
    SlowHandlers = FALSE
SPECIFICATION Spec
SYMMETRY Symmetry
INVARIANTS
    IInv
    NoServerNextToAnother
PROPERTIES
    ImplementsHomeOwner
CHECK_DEADLOCK FALSE
