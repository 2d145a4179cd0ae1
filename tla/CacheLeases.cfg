SPECIFICATION Spec
CONSTANTS
    c1 = c1 c2 = c2 c3 = c3 c4 = c4
    h1 = h1 h2 = h2 h3 = h3 h4 = h4 h5 = h5 h6 = h6 h7 = h7
    Clients = {c1, c2, c3, c4}
    Handles = {h1, h2, h3, h4, h5, h6, h7}
    Root = Root
    Nobody = Nobody
    MaxSize = 1
    Dir <- DirTree
SYMMETRY Symmetric
INVARIANTS InUseOpen ClosedExactly Bounded LeaseIsDir
