SPECIFICATION SdlSpec
CONSTANTS
  MaxServices = 3
  MaxTitle = 3
  MaxEdits = 2
INVARIANTS
  ServicesComeBack
  AcceptedUnlessIpsClash
