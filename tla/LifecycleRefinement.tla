------------------------- MODULE LifecycleRefinement -------------------------
(***************************************************************************)
(* Lifecycle implements HomeOwner: home.lock is ownership, a record        *)
(* written by the lock's holder is its announcement, and a command         *)
(* believes in the server its last Inspect confirmed.                      *)
(***************************************************************************)
EXTENDS Lifecycle

Announced == IF record = homeLock /\ record \in Server THEN record ELSE None

Believes == [c \in Client |-> IF seen[c].running THEN seen[c].record ELSE None]

Home == INSTANCE HomeOwner WITH
    owner <- homeLock, announced <- Announced, writers <- Writers,
    believes <- Believes

\* The runtime directory implements the single-owner home, when requests end
\* before the shutdown deadline (instance.go, lifecycle.go, run.go).
ImplementsHomeOwner == Home!Spec
=============================================================================
