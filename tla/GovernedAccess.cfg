CONSTANTS
  read = read
  comment1 = comment1
  comment2 = comment2
  alice = alice
  bob = bob
  Human = {alice, bob}
  Service = svc
  Owner = alice
  Act = {read, comment1, comment2}
  Confirmed = {comment1, comment2}
  Confirmation = {c1, c2}
  Invocation = {i1, i2}
  Connection = {k1}
  OAuthState = {s1}
  Handler = {h1, h2}
  None = None
  MaxFaults = 1
  wa = wa
  e1 = e1
  Workspace = {wa, wb}
  User = {u1}
  Email = {e1}
  Department = {d1}
  Persona = {p1}
  Skill = {sk1}
  Claw = {cl1}
  Nobody = Nobody
  MaxEdits = 4
SPECIFICATION AccessSpec
INVARIANTS
  ActionsConfirmed
  OutcomeHonest
  CredentialsAccounted
  IdentityHolds
  PersonasServe
SYMMETRY Symmetry
