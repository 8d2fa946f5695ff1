SPECIFICATION BackupSpec
CONSTANTS
    Global = {"base", "salary"}
    First <- MCFirst
    Doomed = {"bank", "loan", "food", "shop", "may", "t1", "rent", "rule", "home"}
    Drafts <- MCDrafts
    Bundles <- MCBundles
    Homes <- MCHomes
    Unsupported = {"w"}
    Malformed = {"bad"}
    Imports = {i1, i2}
    i1 = i1
    i2 = i2
    MaxWrites = 2
    None = None
SYMMETRY Alike
CHECK_DEADLOCK FALSE
INVARIANTS RestoredIsSound SteadyIsKept
PROPERTIES RestoresAlone
