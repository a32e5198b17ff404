SPECIFICATION Spec
CONSTANTS
  boot = boot
  boot2 = boot2
  inv = inv
  inv2 = inv2
  inv3 = inv3
  rsd = rsd
  rvk = rvk
  acc = acc
  acc2 = acc2
  reg = reg
  reg2 = reg2
  act = act
  act2 = act2
  rem = rem
  del = del
  rea = rea
  log = log
  ref = ref
  ref2 = ref2
  ref3 = ref3
  out = out
  chg = chg
  a = a
  b = b
  admin = admin
  Requests = {boot, boot2, inv, inv2, inv3, rsd, rvk, acc, acc2, reg, reg2, act, act2, rem, del, rea, log, ref, ref2, ref3, out, chg}
  Emails = {a, b, admin}
  KindOf <- MCKindOf
  EmailOf <- MCEmailOf
  Installer = boot
  Loads <- MCLoads
  None = None
INVARIANTS
  OneTokenPerLogin
  ActivationMeansUnverified
PROPERTIES
  RotatesOnlyActive
  AcceptedLostOnlyToStaleReader
CHECK_DEADLOCK FALSE
