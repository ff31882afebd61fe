---------------------------- MODULE AddressLedger ----------------------------
(***************************************************************************)
(* What the application promises about the addresses it puts on an adapter *)
(* by itself: a write-ahead ledger.  recorded is what the settings file    *)
(* answers for, assigned what is really on an adapter because of the       *)
(* application.                                                            *)
(***************************************************************************)
CONSTANT Items
VARIABLES recorded, assigned

vars == <<recorded, assigned>>

TypeOK == recorded \subseteq Items /\ assigned \subseteq Items

Init == recorded = {} /\ assigned = {}

\* The file is written first.
Record(S) == recorded' = recorded \cup S /\ UNCHANGED assigned

\* Windows assigns only what is on file.
Assign(x) == x \in recorded /\ assigned' = assigned \cup {x} /\ UNCHANGED recorded

\* Addresses leave the adapter: removed, switched to DHCP, or deleted by others.
Withdraw(S) == assigned' = assigned \ S /\ UNCHANGED recorded

\* The file forgets what is no longer on an adapter.
Forget(S) == S \cap assigned = {} /\ recorded' = recorded \ S /\ UNCHANGED assigned

\* The user takes addresses over: both sides let go in the same save.
Claim(S) == recorded' = recorded \ S /\ assigned' = assigned \ S

Next ==
    \/ \E S \in SUBSET Items : Record(S) \/ Withdraw(S) \/ Forget(S) \/ Claim(S)
    \/ \E x \in Items : Assign(x)

Spec == Init /\ [][Next]_vars

\* Every address the application left on an adapter is on file.
Covered == assigned \subseteq recorded
==============================================================================
