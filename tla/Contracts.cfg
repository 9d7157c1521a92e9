SPECIFICATION Spec
CONSTANTS
    h1 = h1  h2 = h2  h3 = h3  u1 = u1
    Users = {u1}
    MaxContracts = 4
    Handlers = {h1, h2, h3}
    None = None
INVARIANTS NeverStuck
SYMMETRY Symmetric
