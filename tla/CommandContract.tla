---------------------------- MODULE CommandContract ----------------------------
(* What the control plane and a Node promise together about the commands of    *)
(* that Node, without leases, journals or requests: a command ends once, its   *)
(* effect on the Node is started at most once, and an outcome that claims to   *)
(* know the effect is the effect's own.                                        *)
CONSTANTS Commands

VARIABLES
  result,   \* "open", or how the command ended in the control plane
  effect    \* "none", "started", or how the effect on the Node ended

contractVars == <<result, effect>>

Ends == {"success", "failure", "unknown", "cancelled"}

ContractInit ==
  /\ result = [c \in Commands |-> "open"]
  /\ effect = [c \in Commands |-> "none"]

(* The Node acts on the command, for the first and only time. It may do so     *)
(* after a cancellation it has not heard of yet.                               *)
Begin(c) ==
  /\ effect[c] = "none"
  /\ effect' = [effect EXCEPT ![c] = "started"]
  /\ UNCHANGED result

(* The effect completes, is refused by the host, or is interrupted part way.   *)
End(c) ==
  /\ effect[c] = "started"
  /\ \E e \in {"success", "failure", "partial"} :
       effect' = [effect EXCEPT ![c] = e]
  /\ UNCHANGED result

(* The control plane records how the command ended.                            *)
Settle(c) ==
  /\ result[c] = "open"
  /\ \E o \in Ends :
       /\ o \in {"success", "failure"} => effect[c] = o
       /\ result' = [result EXCEPT ![c] = o]
  /\ UNCHANGED effect

ContractNext == \E c \in Commands : Begin(c) \/ End(c) \/ Settle(c)

ContractSpec == ContractInit /\ [][ContractNext]_contractVars
=============================================================================
