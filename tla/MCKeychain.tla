----------------------------- MODULE MCKeychain ------------------------------
(* An instance of Keychain, seen as a TokenStore, for TLC.                 *)
EXTENDS KeychainStore

CONSTANTS o1, o2, o3

MCOps == {o1, o2, o3}
=============================================================================
