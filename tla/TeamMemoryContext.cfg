SPECIFICATION Spec
CONSTANTS
  a = a
  b = b
  n1 = n1
  n2 = n2
  d1 = d1
  Keys <- MCKeys
  UserKeys <- MCUserKeys
  NightKeys <- MCNightKeys
  DeepKeys <- MCDeepKeys
  Facts <- MCFacts
  MaxAccess = 2
  BatchSize = 1
  DeepMin = 2
  Companies = {acme}
  NoContext = NoContext
  NoPrompt = NoPrompt
  MaxWrites = 2
  MaxNights = 1
  MaxFaults = 1
SYMMETRY Alike
INVARIANTS NoForeignContext
CHECK_DEADLOCK FALSE
