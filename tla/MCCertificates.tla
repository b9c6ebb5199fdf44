--------------------------- MODULE MCCertificates ---------------------------
(* Two wallets between which the user switches at any moment.                 *)
EXTENDS Certificates, TLC

WalletSymmetry == Permutations(Wallets)
==============================================================================
