SPECIFICATION Spec
CONSTANTS
  dev = dev  prod = prod  qa = qa  r1 = r1  v0 = v0  v1 = v1  v2 = v2  c0 = c0  c1 = c1
  None = None  Null = Null  Placeholder = Placeholder  Operator = Operator  Cache = Cache
  Envs = {dev, prod, qa}
  Repos = {r1}
  Tags = {v0, v1, v2}
  Latest = v0
  Cfgs = {c0, c1}
  Requests = {q1, q2}
  Inputs <- UpdateInputs
  InitialApp <- MCApp
  ProjectEnvs <- MCProjectEnvs
  ApiRetries = 2
  MaxFaults = 0
PROPERTIES RetryKeepsImages
