SPECIFICATION Spec
CONSTANTS
    h = h
    p = p
    NoName = NoName
    Hosts = {h}
    Ports = {p}
    Clients = {a, b}
    Courses = {x, y, z}
    HostOf <- OnHost
    PortOf <- OnPort
    Slots = 2
    MaxSent = 3
SYMMETRY Symmetric
INVARIANTS
    TypeOK
    InOrder
    NoRumours
    Warned
PROPERTIES
    Remembers
    Recorded
