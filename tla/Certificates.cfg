SPECIFICATION CertSpec
CONSTANTS
  Wallets = {w1, w2}
  NoWallet = NoWallet
  MaxCerts = 3
  MaxLoads = 2
  MaxFaults = 1
SYMMETRY WalletSymmetry
INVARIANTS
  DeploysWithOwnCert
  StoredCertIsOwn
PROPERTIES
  ValidKeysAreKept
CHECK_DEADLOCK FALSE
