------------------------------ MODULE MCFlowRun ------------------------------
(* FlowRun on small instances: "form" belongs in the inbox, "url" and           *)
(* "other" do not.                                                             *)
EXTENDS FlowRun, TLC

CONSTANTS form, url, other

MCKind == [k \in Keys |-> CASE k = url -> "url" [] k = other -> "other" [] OTHER -> "form"]
=============================================================================
