CONSTANTS
  google = google
  apple = apple
  Providers = {google, apple}
  MaxVersion = 2
  MaxFailures = 2
SPECIFICATION FairSpec
INVARIANTS JwkTypeOK
PROPERTIES NeverOlder HealthyRefreshed Starts
