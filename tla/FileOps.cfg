SPECIFICATION Spec
CONSTANTS
    Client = {c1, c2}
    File = {f1, f2}
    Dir = {root, d1}
    Root = root
    Name = {a, b}
    NoOne = NoOne
    MaxOps = 5
SYMMETRY Symmetry
INVARIANTS TypeOK Coherent NoDangling
PROPERTY ImplementsStore
