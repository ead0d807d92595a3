------------------------------ MODULE MCSignIn ------------------------------
(* Small instances, for TLC, of the two modules about who may do what in the *)
(* console: SignIn and Access.  One of them is chosen in the initial state   *)
(* and moves; the other stands still.                                        *)
EXTENDS SignIn, TLC

CONSTANTS App, MaxTokens

VARIABLES config, serving, session, tokens, approvals, request, did, minted,
          part  \* the module that moves

A == INSTANCE Access WITH codes <- approvals

\* What the theorems about Access assume.
ASSUME AppsAssumption == A!AccessAssumption

accessVars == <<config, serving, session, tokens, approvals, request, did, minted>>

\* Browsers, codes and cookie values are interchangeable; Access has none.
Symmetry == Permutations(Browser) \cup Permutations(Code) \cup Permutations(Token)

ConsoleInit ==
    /\ part \in {"signin", "access"}
    /\ Init /\ A!Init
    /\ part # "access" => config = [readOnly |-> FALSE, cors |-> FALSE] /\ ~session

ConsoleNext ==
    /\ \/ part = "signin" /\ Next /\ UNCHANGED accessVars
       \/ part = "access" /\ A!Next /\ UNCHANGED vars
    /\ UNCHANGED part

ConsoleSpec == ConsoleInit /\ [][ConsoleNext]_<<vars, accessVars, part>>

\* Where tokens of apps come from: TokensComeFromConsent of Access
\* (connect.go:19-31, server.go:280-287).
TokensComeFromConsent == A!TokensComeFromConsent

\* Who may call what: CallersKeepToTheTable of Access (middleware.go:19-27,
\* 206-236).
CallersKeepToTheTable == A!CallersKeepToTheTable
=============================================================================
