SPECIFICATION Spec
CONSTANTS
    dev = dev  prod = prod  admin = admin  h1 = h1  h2 = h2  le = le  cert = cert
    own = own  job = job  past = past  vol = vol
    red = red  blue = blue
    None = None
    Envs = {dev, prod}
    Hosts = {h1, h2}
    Issuers = {le}
    Certs = {cert}
    OwnCert = own
    PortNames = {"http", admin}
    CronNames = {job, past}
    Claims = {vol}
    Labels = {red, blue}
    Template <- MCTemplate
    Issuer = le
    Traefik = TRUE
    ProjectEnvs = {prod}
    Specs <- MCNarrow
    MaxEvents = 2
INVARIANTS Owned CertsKept
PROPERTIES LeavesScaling Settles PhaseSettles
CHECK_DEADLOCK FALSE
