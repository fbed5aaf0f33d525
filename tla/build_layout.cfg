\* Two profiles, five environments, and a file at two paths.
SPECIFICATION BuildSpec
CONSTANTS
    None = None
    Junk = Junk
    Profiles = {debug, release}
    Scripts = {"feather", "radio"}
    Environments <- MCEnvironments
    Paths = {"given", "media"}
    Files <- MCFiles
    MountPaths <- MCMountPaths
    DefaultRamBase = 5
    DefaultRamSize = 9
SYMMETRY MCSymmetry
INVARIANTS
    BuildTypeOK
    LinkedAsTold
