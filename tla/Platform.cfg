CONSTANTS
  Token = {t1, t2, t3}
  Ticket = {k1, k2}
  Wire = {w1, w2}
  Nothing = Nothing
  MaxRenewals = 2
  MaxOutages = 1
  Spec = {sp1, sp2}
  Absent = Absent
  MaxEdits = 2
  MaxTimeouts = 1
  Claw = {c1, c2}
  Soon = 2
  Later = 3
  MaxAlarms = 2
  MaxCrashes = 2
  Event = {e1, e2}
  Malformed = {m1}
  Poller = {p1, p2}
  MaxDeliveries = 2
  Scope = {sc1, sc2}
  None = None
  MaxGeneration = 2
  MaxWishes = 2
  MaxLost = 2
  BootPolicy = {bp1, bp2}
  NoPolicy = NoPolicy
  Installer = {i1, i2}
  Attempts = 2
  MaxEpoch = 2
  MaxRevisions = 2
  Socket = {s1, s2}
  Runtime = {r1}
  MaxPending = 1
  MaxFrames = 2
  MaxTail = 3
  MaxQueryFaults = 1
  LastClaw = 3
  PageLimit = 1
  Session = {se1, se2}
  Request = {rq1, rq2}
  PageSize = 1
  MaxPages = 3
  MaxMoves = 2
SPECIFICATION PlatformSpec
INVARIANTS
  CredentialsHold
  NodeHonest
  WakeupHonoured
  AuditKept
  RouterHonest
  ReadinessHonest
  SocketsAccounted
  SweepComplete
  RetirementHonest
