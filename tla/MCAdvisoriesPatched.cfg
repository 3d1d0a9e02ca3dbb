SPECIFICATION Spec
CONSTANTS
    pypi = pypi
    distro = distro
    action = action
    image = image
    lib = lib
    app = app
    act = act
    eco = eco
    hub = hub
    A = A
    B = B
    C = C
    D = D
    S = S
    T = T
    None = None
    Versions <- MCVersions
    Packages = {lib, app, act}
    Ecosystems = {eco, hub}
    Kinds = {pypi, distro, action, image}
    ImageKinds = {image}
    ActionKind = action
    DefaultEcosystem <- MCDefaultEcosystem
    Unversioned = {hub}
    Ids = {A, B, C, D}
    Record <- MCRecord
    ScanFindings = {S, T}
    ScanReports <- MCScanReports
    Inputs <- MCInputs
INVARIANTS
    PatchedClearsAll
