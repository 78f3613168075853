----------------------------- MODULE MCAccess -----------------------------
(* Finite instances of SandboxAccess.                                      *)
EXTENDS SandboxAccess

CONSTANTS n1, n2

HubExecution == [remote |-> FALSE, executes |-> TRUE]
SpokeAdvice == [remote |-> TRUE, executes |-> FALSE]

MCHub == {HubExecution}
MCMixed == {HubExecution, SpokeAdvice}

MCNamespaces == {n1, n2}
Wide == [ns |-> {n1, n2}, cluster |-> TRUE]
Narrow == [ns |-> {n2}, cluster |-> FALSE]
MCOptions == {Wide, Narrow}
=============================================================================
