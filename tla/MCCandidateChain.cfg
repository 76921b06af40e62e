SPECIFICATION Spec
CONSTANTS
    file = file
    sub = sub
    old = old
    new = new
    l0 = l0
    l1 = l1
    c0 = c0
    c1 = c1
    Gone = Gone
    Runs = {1, 2}
    Paths = {file, sub}
    Blobs = {old, new}
    Links = {l0, l1}
    Commits = {c0, c1}
    TreeOf <- MCTreeOf
    MaxEdits = 2
    MaxTampers = 1
INVARIANTS PatchMakesTree NothingLost StartsWhereParentEnded LineageIsSound
CHECK_DEADLOCK FALSE
