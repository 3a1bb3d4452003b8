CONSTANTS
    NoAlias = NoAlias
    Process = {p1, p2}
    Alias = {a1, a2, a3}
    GuardAddress = {g1, g2}
SPECIFICATION RSpec
INVARIANTS
    RegistryUnambiguous
    DefaultResolves
    SerialEditsKept
