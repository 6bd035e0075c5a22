CONSTANTS
  Q = 17
  MaxDomainSize = 8
  nVars = 5
  nPublic = 1
  domainSize = 4
  QapA <- MCQapA
  QapB <- MCQapB
  QapC <- MCQapC
  Setup <- MCSetup
  pointsA <- MCPointsA
  pointsB <- MCPointsB
  pointsC <- MCPointsC
  pointsH <- MCPointsH
  IC <- MCIC
  Witnesses <- MCWitnesses
  Draws = {0, 13, 17, 18}
  MaxFaults = 1
  MaxDeferred = 2
  Keys <- MCKeys
  WitnessFiles <- MCWitnessFiles
  MaxRequests = 2
SPECIFICATION FullSpec
INVARIANTS TypeOK ProofVerifies NoUseAfterFree TransformsAlone NoDangling NothingHeld
PROPERTIES KeepsPromises
