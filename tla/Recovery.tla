------------------------------- MODULE Recovery -------------------------------
(***************************************************************************)
(* What stands between a backup and its use, component by component: the   *)
(* verification of restores, the password of the repository, the key of    *)
(* the vault, and the bundle a service is rebuilt from.  The components    *)
(* share no state here; variables of one name are renamed.                 *)
(***************************************************************************)
EXTENDS RestoreVerification

CONSTANTS
  MaxSecrets, MaxTroubles, MaxActive,   \* RepositorySecrets
  MaxIssued, MaxBundles,                \* ControlPlaneExport
  MaxImports,                           \* ControlPlaneImport
  Handlers, Passphrases, MaxKeys, MaxMishaps  \* VaultKey

ASSUME ImportsAssumption == MaxImports \in Nat

VARIABLES
  vault, drawn, repo, password, pending, keys, draft, item, protected, lock,
  at, hand, seen, copied, leftovers, troubles, raced,                      \* RepositorySecrets
  config, secret, safe, issued, export, sealed,                            \* ControlPlaneExport
  bundles, preview, rows, stored, key, cert, agents, import, imports, left, \* ControlPlaneImport
  file, durable, made, service, gate, mode, sealing, named, lost,
  place, wrap, limited, alone, expected, mishaps                           \* VaultKey

Secrets == INSTANCE RepositorySecrets WITH task <- protected

Export == INSTANCE ControlPlaneExport WITH
  MaxSecrets <- MaxIssued, vault <- safe, bundles <- sealed

Import == INSTANCE ControlPlaneImport

Vault == INSTANCE VaultKey WITH
  keys <- made, kept <- named, sealed <- sealing, pc <- place, troubles <- mishaps,
  MaxTroubles <- MaxMishaps

secretVars == <<vault, drawn, repo, password, pending, keys, draft, item, protected, lock,
                at, hand, seen, copied, leftovers, troubles, raced>>
exportVars == <<config, secret, safe, issued, export, sealed>>
importVars == <<bundles, preview, rows, stored, key, cert, agents, import, imports, left>>
vaultVars  == <<file, durable, made, service, gate, mode, sealing, named, lost, place, wrap,
                limited, alone, expected, mishaps>>

-----------------------------------------------------------------------------
(* What the components promise; see there.                                 *)

PasswordsSurvive  == Secrets!PasswordsSurvive
RevocationRepeats == Secrets!RevocationRepeats
BundleIsOneMoment == Export!BundleIsOneMoment
ImportIsWhole     == Import!ImportIsWhole
VaultHolds        == Vault!VaultHolds
=============================================================================
