CONSTANTS
  a = a
  b = b
  c = c
  google = google
  auth0 = auth0
  Providers = {google}
  MaxVersion = 1
  MaxFailures = 1
  Requests = {a, b, c}
  Loads <- MCLoads
  KeysAt <- MCKeysAt
  Federated = {auth0}
  EnableFederated = TRUE
SPECIFICATION FairSpec
INVARIANTS TypeOK MutexHandedOn SignedOwn FaultsStayLocal HonestAccepted NoLeftovers
PROPERTY LocalAnswered
