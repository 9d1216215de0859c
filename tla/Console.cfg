SPECIFICATION Spec
CONSTANTS
    r1 = r1
    r2 = r2
    a1 = a1
    gitws = gitws
    plainws = plainws
    secret = secret
    base = base
    extra = extra
    Requests = {r1, r2}
    Asks <- MCAsks
    Workspaces = {gitws, plainws, secret}
    GitRoots = {gitws, secret}
    Sensitive = {secret}
    Roles = {"architect", "reviewer"}
    Profiles = {base, extra}
    DefaultProfile = base
    Agents = {a1}
    NoWorkspace = NoWorkspace
    Locked = NoWorkspace
    MaxStarts = 1
    Ttl <- MCTtl
    MaxTime = 1
INVARIANTS
    ChoicesAreOwned
PROPERTIES
    SlotsComeBack
