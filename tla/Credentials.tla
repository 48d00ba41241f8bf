----------------------------- MODULE Credentials -----------------------------
(***************************************************************************)
(* credentials/broker.py and token.py: the tokens of one broker, which     *)
(* every session of an agent shares.  There is no lock: the broker's dict  *)
(* and a token's counter are read and written by whoever holds them.       *)
(*                                                                         *)
(* A token is named by the order of its issue, the order of the dict.      *)
(* Secrets and their providers are left out: a token stands for its secret.*)
(***************************************************************************)
EXTENDS Naturals, Sequences, FiniteSets

CONSTANTS
  Sessions,   \* sessions that share the broker, each in a thread of its own
  Tools,      \* names of tools that require credentials
  TokenBound  \* bound: tokens issued

ASSUME CredentialsAssumption == TokenBound \in Nat

VARIABLES
  tokens,   \* every token issued: its tool_name, _uses and, as history, its
            \* issuer and whether it was put into a dict of a policy rule
  active,   \* keys of _active_tokens
  expired,  \* tokens past their expires_at
  grants    \* history: grants[t][s], times session s was allowed to use t

credentialVars == <<tokens, active, expired, grants>>

TokenIds == 1..TokenBound
Issued == DOMAIN tokens
MaxUses == 1   \* what the environment asks for

(* issue_token.                                                              *)
Issue(s, tool, inRule) ==
  /\ Len(tokens) < TokenBound
  /\ tokens' = Append(tokens, [tool |-> tool, uses |-> 0, issuer |-> s, inRule |-> inRule])
  /\ active' = active \union {Len(tokens) + 1}
  /\ UNCHANGED <<expired, grants>>

IsValid(t) == t \notin expired

(* use: the counter is read, written and read again.                         *)
WriteUses(t, n) ==
  /\ tokens' = [tokens EXCEPT ![t].uses = n]
  /\ UNCHANGED <<active, expired, grants>>

(* Mutant: the limit is compared with the uses before this one.              *)
WithinUsesBefore(t) == tokens[t].uses <= MaxUses + 1

WithinUses(t) == tokens[t].uses <= MaxUses

CheckUses(s, t) ==
  /\ grants' = [grants EXCEPT ![t][s] = IF WithinUses(t) THEN @ + 1 ELSE @]
  /\ UNCHANGED <<tokens, active, expired>>

(* expires_at passes.                                                        *)
Expire(t) ==
  /\ t \in Issued \ expired
  /\ expired' = expired \union {t}
  /\ UNCHANGED <<tokens, active, grants>>

(* revoke_token pops, also a token that is gone.                             *)
RevokeToken(t) ==
  /\ t \in active
  /\ active' = active \ {t}
  /\ UNCHANGED <<tokens, expired, grants>>

RevokeAll ==
  /\ active # {}
  /\ active' = {}
  /\ UNCHANGED <<tokens, expired, grants>>

CredentialsInit ==
  /\ tokens = <<>>
  /\ active = {}
  /\ expired = {}
  /\ grants = [t \in TokenIds |-> [s \in Sessions |-> 0]]

-----------------------------------------------------------------------------
TokenType == [tool : Tools, uses : Nat, issuer : Sessions, inRule : BOOLEAN]

CredentialsTypeOK ==
  /\ tokens \in Seq(TokenType)
  /\ Len(tokens) <= TokenBound
  /\ active \subseteq Issued
  /\ expired \subseteq Issued
  /\ grants \in [TokenIds -> [Sessions -> Nat]]
=============================================================================
