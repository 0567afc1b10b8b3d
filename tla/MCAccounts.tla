------------------------------ MODULE MCAccounts ------------------------------
(***************************************************************************)
(* Sessions, memberships and LLM calls share no state here: a behaviour    *)
(* belongs to one of them, so that one run has the sum of their states and *)
(* not the product.  Their sets share the model values for a small         *)
(* symmetry group.                                                         *)
(***************************************************************************)
EXTENDS Sessions, Membership, LlmRouting, TLC

CONSTANTS x1, x2, y1, y2, job, email

TwoX == {x1, x2}
TwoY == {y1, y2}
OneJob == {job}
OneEmail == {email}
AllOps == OpNames
CostsChecked == {0, 1}
Symmetry == Permutations(TwoX) \cup Permutations(TwoY)

VARIABLE part

AccountsVars == <<part, vars, mvars, lvars>>

AccountsInit ==
  /\ part \in {"sessions", "membership", "llm"}
  /\ Init /\ MInit /\ LlmInit
  /\ part # "llm" => env = {}

AccountsNext ==
  \/ part = "sessions" /\ Next /\ UNCHANGED <<part, mvars, lvars>>
  \/ part = "membership" /\ MNext /\ UNCHANGED <<part, vars, lvars>>
  \/ part = "llm" /\ LlmNext /\ UNCHANGED <<part, vars, mvars>>

AccountsSpec == AccountsInit /\ [][AccountsNext]_AccountsVars

\* The types of the three parts, with what their tables guarantee: a jti is
\* minted before it is stored (auth.rs mint), an invited role is no owner
\* (tenancy.rs normalize_role), a provider is tried once (llm.rs provider_chain).
AccountsTypeOK == TypeOK /\ MembershipTypeOK /\ LlmTypeOK
=============================================================================
