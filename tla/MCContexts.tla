----------------------------- MODULE MCContexts -----------------------------
(* A small instance of Contexts for TLC. *)
EXTENDS Contexts

\* Two ids that differ in case only, and another one.
MCFold == [id \in Id |-> IF id = "Todo" THEN "todo" ELSE id]
\* A Git repository and a folder with a folder in it, below the home directory.
MCParent == [d \in Directory |->
    CASE d = "deep" -> "plain" [] d = "repo" -> "plain" [] OTHER -> "home"]
=============================================================================
