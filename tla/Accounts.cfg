SPECIFICATION Spec
CONSTANTS
    Users = {u1, u2}
    Emails = {ann, Ann}
    ann = ann
    Ann = Ann
    Lower <- MCLower
    Covers = {c1, c2}
    Handlers = {h1, h2}
    None = None
SYMMETRY Symmetry
INVARIANTS Verifiable CoverKept
PROPERTY ImplementsAddressBook
