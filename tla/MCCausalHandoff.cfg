SPECIFICATION FairSpec
CONSTANTS
  MaxRow = 2
  MaxNonce = 2
  Backoffs = 1
  Policies <- MCPolicies
INVARIANTS TypeOK AtMostOneTurn NoForgottenMention StagingNeverInvalid NoStrandedOffer
PROPERTIES AmbiguityIsFinal ImplementsDelivery MentionServed
