SPECIFICATION Spec
CONSTANTS
  ann = ann  bob = bob
  Users = {ann, bob}
  Requests = {r1, r2, r3}
  Ops = {"setup", "register", "invite", "accept", "change", "forgot", "reset", "key", "revoke", "call"}
  Starts <- MCStarts
  Asked <- MCAsked
  Faults = TRUE
  None = None
SYMMETRY MCSymmetry
CHECK_DEADLOCK FALSE
INVARIANTS CodesEnd KeysBounded
PROPERTIES InvitesOnce PasswordsProven
