--------------------------- MODULE ApprovalStore ---------------------------
(***************************************************************************)
(* permissions/approval.py: requests of one agent's store between the      *)
(* sessions that create and consume them and the people who decide, in     *)
(* any order.  Each method is one step under the store's lock.             *)
(***************************************************************************)
EXTENDS Naturals

CONSTANTS
  Requests,    \* bound: request ids ever created
  GrantBound   \* bound: grants counted of one request

VARIABLES
  requestStatus,  \* requestStatus[r]: status, or "absent"
  grants,         \* observed: how often consume(r) has answered True
  deniedUnused    \* observed: requests denied before any use

approvalVars == <<requestStatus, grants, deniedUnused>>

ApprovalStatus == {"pending", "approved", "denied", "consumed"}

CreateApproval(r) ==
  /\ requestStatus[r] = "absent"
  /\ requestStatus' = [requestStatus EXCEPT ![r] = "pending"]
  /\ UNCHANGED <<grants, deniedUnused>>

(* Mutant: whatever is not used up can be approved.                          *)
ApprovableLate(r) == requestStatus[r] \in {"pending", "approved", "denied"}

(* approve raises ValueError on any other status.                            *)
Approvable(r) == requestStatus[r] = "pending"

Approve(r) ==
  /\ Approvable(r)
  /\ requestStatus' = [requestStatus EXCEPT ![r] = "approved"]
  /\ UNCHANGED <<grants, deniedUnused>>

(* deny looks at no status: also a consumed request becomes a denied one.    *)
Deny(r) ==
  /\ requestStatus[r] # "absent"
  /\ requestStatus' = [requestStatus EXCEPT ![r] = "denied"]
  /\ deniedUnused' = IF grants[r] = 0 THEN deniedUnused \cup {r} ELSE deniedUnused
  /\ UNCHANGED grants

(* consume, answering True; the answer False changes nothing.                *)
Consume(r) ==
  /\ requestStatus[r] = "approved"
  /\ grants[r] < GrantBound
  /\ requestStatus' = [requestStatus EXCEPT ![r] = "consumed"]
  /\ grants' = [grants EXCEPT ![r] = @ + 1]
  /\ UNCHANGED deniedUnused

ApprovalInit ==
  /\ requestStatus = [r \in Requests |-> "absent"]
  /\ grants = [r \in Requests |-> 0]
  /\ deniedUnused = {}

ApprovalNext ==
  \E r \in Requests : CreateApproval(r) \/ Approve(r) \/ Deny(r) \/ Consume(r)

ApprovalSpec == ApprovalInit /\ [][ApprovalNext]_approvalVars

ApprovalTypeOK ==
  /\ requestStatus \in [Requests -> ApprovalStatus \cup {"absent"}]
  /\ grants \in [Requests -> Nat]
  /\ deniedUnused \subseteq Requests

(* An approval is used once at most, and not at all once it is denied,       *)
(* although a denial may overwrite any decision, and no later one makes a    *)
(* used or a denied request usable again.  (approve, deny, consume.)         *)
OneUsePerApproval ==
  \A r \in Requests : grants[r] <= IF r \in deniedUnused THEN 0 ELSE 1
=============================================================================
