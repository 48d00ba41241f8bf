---------------------------- MODULE VaultCache ----------------------------
(***************************************************************************)
(* The cache of credentials/vault_adapter.py, for one path: readers look   *)
(* it up, ask Vault and store the answer with no lock, while the secret is *)
(* rotated in Vault and the embedder clears the cache.                     *)
(***************************************************************************)
EXTENDS Naturals

CONSTANTS
  Readers,      \* threads that read the secret
  VersionBound  \* bound: rotations of the secret

ASSUME VaultAssumption == VersionBound \in Nat

VARIABLES
  version,  \* of the secret in Vault, from 1
  cached,   \* _cache[path], 0 for no entry
  asking,   \* asking[r]: "idle", "asked", or "answered" by Vault
  answered, \* answered[r]: what Vault has answered
  cleared,  \* observed: the version in Vault at the last clear_cache
  held      \* observed: answers older than that, held by a reader across the clear

vaultVars == <<version, cached, asking, answered, cleared, held>>

-----------------------------------------------------------------------------
(* read_secret, no entry: the request to Vault.  A hit changes nothing.      *)
AskVault(r) ==
  /\ asking[r] = "idle" /\ cached = 0
  /\ asking' = [asking EXCEPT ![r] = "asked"]
  /\ UNCHANGED <<version, cached, answered, cleared, held>>

(* Vault answers, or raises a VaultError that leaves read_secret.            *)
VaultAnswers(r) ==
  /\ asking[r] = "asked"
  /\ asking' = [asking EXCEPT ![r] = "answered"]
  /\ answered' = [answered EXCEPT ![r] = version]
  /\ UNCHANGED <<version, cached, cleared, held>>

VaultRaises(r) ==
  /\ asking[r] = "asked"
  /\ asking' = [asking EXCEPT ![r] = "idle"]
  /\ UNCHANGED <<version, cached, answered, cleared, held>>

(* _cache[path] = secret, whatever has been stored or cleared since.         *)
StoreSecret(r) ==
  /\ asking[r] = "answered"
  /\ cached' = answered[r]
  /\ asking' = [asking EXCEPT ![r] = "idle"]
  /\ UNCHANGED <<version, answered, cleared, held>>

(* Mutant: an entry that is there stays.                                     *)
Uncleared == cached

Cleared == 0

ClearCache ==
  /\ cached' = Cleared
  /\ cleared' = version
  /\ held' = {answered[r] : r \in {q \in Readers : asking[q] = "answered"}}
  /\ UNCHANGED <<version, asking, answered>>

Rotate ==
  /\ version <= VersionBound
  /\ version' = version + 1
  /\ UNCHANGED <<cached, asking, answered, cleared, held>>

VaultInit ==
  /\ version = 1 /\ cached = 0
  /\ asking = [r \in Readers |-> "idle"] /\ answered = [r \in Readers |-> 0]
  /\ cleared = 0 /\ held = {}

VaultNext ==
  \/ \E r \in Readers : AskVault(r) \/ VaultAnswers(r) \/ VaultRaises(r) \/ StoreSecret(r)
  \/ ClearCache \/ Rotate

VaultSpec == VaultInit /\ [][VaultNext]_vaultVars

-----------------------------------------------------------------------------
VaultTypeOK ==
  /\ version \in 1 .. VersionBound + 1 /\ cached \in 0 .. version
  /\ asking \in [Readers -> {"idle", "asked", "answered"}]
  /\ answered \in [Readers -> 0 .. version]

(* A secret older than the last clear_cache is served only if a reader had   *)
(* it from Vault, and had not stored it, when the cache was cleared.         *)
(* (read_secret, clear_cache.)                                               *)
StaleOnlyWhenHeld == cached # 0 /\ cached < cleared => cached \in held
=============================================================================
