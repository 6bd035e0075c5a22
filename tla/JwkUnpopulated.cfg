CONSTANTS
  google = google
  apple = apple
  Providers = {google, apple}
  MaxVersion = 2
  MaxFailures = 1
SPECIFICATION JwkSpec
INVARIANT ServingPopulated
