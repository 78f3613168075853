----------------------------- MODULE MCCleanup -----------------------------
(* Finite instances of SuspensionCleanup.                                  *)
EXTENDS SuspensionCleanup

\* A sandbox and a Pod may each be replaced once; with two passes at once, the
\* Pod only.
MCReplaced == [claim |-> 1, sandbox |-> 2, pod |-> 2]
MCPodReplaced == [claim |-> 1, sandbox |-> 1, pod |-> 2]
=============================================================================
