-------------------------------- MODULE Cloud --------------------------------
(* `ovdb cloud` (cloud.go): sign in, status, sign out and the list of cloud  *)
(* databases.  Every command is a process of its own; the credential is in   *)
(* the operating system's keyring or in a file, and no lock guards it.       *)
EXTENDS Naturals, FiniteSets, Sequences

CONSTANTS
    Process,    \* commands that may run at the same time
    Store,      \* where a credential may be kept: the keyring, a file
    MaxTokens,  \* bound: how many tokens the cloud issues
    Page,       \* page tokens of the cloud's catalogue
    Overlap,    \* may two commands that change the same store overlap?
    NoToken     \* no token, no page, no command

VARIABLES
    store,    \* the token kept in each store
    issued,   \* how many tokens the cloud has issued
    valid,    \* the tokens the cloud accepts
    told,     \* the tokens the person was warned about, or held when killing a command
    next,     \* the catalogue: the page after each page
    command       \* each process: the command it runs, or none

vars == <<store, issued, valid, told, next, command>>

Token == 1..MaxTokens
FirstPage == "first"

\* A command: what it does, with which store, how far it is, the token it
\* found, the token it was issued, the pages it has read.
Command == [do : {"login", "logout", "databases"}, store : Store,
            step : {"issue", "validate", "save", "cleanup", "previous", "revoke", "delete", "page", "listed"},
            found : Token \cup {NoToken}, got : Token \cup {NoToken}, pages : Seq(Page \cup {FirstPage})]

CloudTypeOK ==
    /\ store \in [Store -> Token \cup {NoToken}]
    /\ issued \in 0..MaxTokens
    /\ valid \subseteq 1..issued /\ told \subseteq 1..issued
    /\ next \in [Page \cup {FirstPage} -> Page \cup {NoToken}]
    /\ \A p \in Process : command[p] = NoToken \/ command[p] \in Command

Init ==
    /\ store = [k \in Store |-> NoToken] /\ issued = 0
    /\ valid = {} /\ told = {}
    /\ next \in [Page \cup {FirstPage} -> Page \cup {NoToken}]
    /\ command = [p \in Process |-> NoToken]

-----------------------------------------------------------------------------
(* Steps of the commands *)

Idle(p) == command[p] = NoToken
At(p, do, step) == ~Idle(p) /\ command[p].do = do /\ command[p].step = step

\* No other command changes what is kept in k.
Alone(k) ==
    ~ \E q \in Process :
        ~Overlap /\ ~Idle(q) /\ command[q].store = k /\ command[q].do # "databases"

Does(p, do, k, step, found) ==
    command' = [command EXCEPT ![p] =
        [do |-> do, store |-> k, step |-> step, found |-> found, got |-> NoToken, pages |-> <<FirstPage>>]]
Steps(p, step) == command' = [command EXCEPT ![p].step = step]
Ends(p) == command' = [command EXCEPT ![p] = NoToken]

\* revokeCloudToken succeeded.
Revoked(t) == valid' = valid \ {t} /\ UNCHANGED told

\* It failed, or its answer was lost; the person is told so.
Unrevoked(t) == valid' \in {valid, valid \ {t}} /\ told' = told \cup {t}

\* newCloudLoginCmd: the previous credential is remembered, or nothing was kept.
\* A store that cannot be read ends the command.
Login(p, k) ==
    /\ Idle(p) /\ Alone(k)
    /\ Does(p, "login", k, "issue", store[k])
    /\ UNCHANGED <<store, issued, valid, told, next>>

\* The device login: the cloud issues a token.
Issue(p) ==
    /\ At(p, "login", "issue") /\ issued < MaxTokens
    /\ issued' = issued + 1 /\ valid' = valid \cup {issued + 1}
    /\ command' = [command EXCEPT ![p].step = "validate", ![p].got = issued + 1]
    /\ UNCHANGED <<store, told, next>>

\* The person refuses, or the device code expires.
IssueFails(p) ==
    /\ At(p, "login", "issue") /\ Ends(p)
    /\ UNCHANGED <<store, issued, valid, told, next>>

\* fetchCloudIdentity: of another client, of nobody, or not answered, the
\* issued token is revoked again.
Validate(p) ==
    /\ At(p, "login", "validate")
    /\ \E step \in {"save", "cleanup"} : Steps(p, step)
    /\ UNCHANGED <<store, issued, valid, told, next>>

\* A mutant of Save: the previous token is revoked before the new one is kept.
SaveLast(p) ==
    /\ At(p, "login", "save")
    /\ valid' = valid \ {command[p].found}
    /\ \/ store' = [store EXCEPT ![command[p].store] = command[p].got] /\ Ends(p)
       \/ Steps(p, "cleanup") /\ UNCHANGED store
    /\ UNCHANGED <<issued, told, next>>

\* Save: the new token replaces the previous one, which is revoked only then.
Save(p) ==
    /\ At(p, "login", "save")
    /\ LET c == command[p] IN
       \/ /\ store' = [store EXCEPT ![c.store] = c.got]
          /\ IF c.found = NoToken THEN Ends(p) ELSE Steps(p, "previous")
       \/ Steps(p, "cleanup") /\ UNCHANGED store
    /\ UNCHANGED <<issued, valid, told, next>>

\* cleanupIssuedTokenError: the error names a token that could not be revoked.
Cleanup(p) ==
    /\ At(p, "login", "cleanup") /\ Ends(p)
    /\ Revoked(command[p].got) \/ Unrevoked(command[p].got)
    /\ UNCHANGED <<store, issued, next>>

\* The previous token is revoked; a failure is a warning.
Previous(p) ==
    /\ At(p, "login", "previous") /\ Ends(p)
    /\ Revoked(command[p].found) \/ Unrevoked(command[p].found)
    /\ UNCHANGED <<store, issued, next>>

\* newCloudLogoutCmd: without a credential there is nothing to do.
Logout(p, k) ==
    /\ Idle(p) /\ Alone(k) /\ store[k] # NoToken
    /\ Does(p, "logout", k, "revoke", store[k])
    /\ UNCHANGED <<store, issued, valid, told, next>>

\* A mutant of Revoke: the credential is removed all the same.
RevokeOrNot(p) ==
    /\ At(p, "logout", "revoke") /\ Steps(p, "delete")
    /\ valid' \in {valid, valid \ {command[p].found}}
    /\ UNCHANGED <<store, issued, told, next>>

\* A revocation that failed keeps the credential.
Revoke(p) ==
    /\ At(p, "logout", "revoke")
    /\ \/ Revoked(command[p].found) /\ Steps(p, "delete")
       \/ Unrevoked(command[p].found) /\ Ends(p)
    /\ UNCHANGED <<store, issued, next>>

\* Delete; the person is told of a credential that is still there.
Delete(p) ==
    /\ At(p, "logout", "delete") /\ Ends(p)
    /\ \/ store' = [store EXCEPT ![command[p].store] = NoToken] /\ UNCHANGED told
       \/ told' = told \cup {command[p].found} /\ UNCHANGED store
    /\ UNCHANGED <<issued, valid, next>>

\* cloudCatalogueClient: a credential without databases:read is not used
\* (the command ends).
Databases(p, k) ==
    /\ Idle(p) /\ store[k] # NoToken
    /\ Does(p, "databases", k, "page", store[k])
    /\ UNCHANGED <<store, issued, valid, told, next>>

\* A mutant of ReadPage: only the page just read is compared.
ReadAnyPage(p) ==
    /\ At(p, "databases", "page")
    /\ LET pages == command[p].pages
           after == next[pages[Len(pages)]]
       IN IF after = NoToken THEN Steps(p, "listed")
          ELSE IF after = pages[Len(pages)] \/ Len(pages) > Cardinality(Page) + 1 THEN Ends(p)
          ELSE command' = [command EXCEPT ![p].pages = Append(@, after)]
    /\ UNCHANGED <<store, issued, valid, told, next>>

\* listCloudDatabases: a page token seen before is an error, and so is any
\* answer but a page: a token revoked meanwhile, or a cloud that fails.
ReadPage(p) ==
    /\ At(p, "databases", "page")
    /\ LET pages == command[p].pages
           after == next[pages[Len(pages)]]
           seen == {pages[i] : i \in 1..Len(pages)}
       IN \/ command[p].found \in valid /\ after = NoToken /\ Steps(p, "listed")
          \/ /\ command[p].found \in valid /\ after # NoToken /\ after \notin seen
             /\ command' = [command EXCEPT ![p].pages = Append(@, after)]
          \/ Ends(p)
    /\ UNCHANGED <<store, issued, valid, told, next>>

\* The list is written.
Listed(p) ==
    /\ At(p, "databases", "listed") /\ Ends(p)
    /\ UNCHANGED <<store, issued, valid, told, next>>

\* The command is killed; nothing revokes the tokens it knows of.
Kill(p) ==
    /\ ~Idle(p) /\ Ends(p)
    /\ told' = told \cup ({command[p].got, command[p].found} \ {NoToken})
    /\ UNCHANGED <<store, issued, valid, next>>

Next ==
    \E p \in Process :
        \/ \E k \in Store : Login(p, k) \/ Logout(p, k) \/ Databases(p, k)
        \/ Issue(p) \/ IssueFails(p) \/ Validate(p) \/ Save(p) \/ Cleanup(p) \/ Previous(p)
        \/ Revoke(p) \/ Delete(p) \/ ReadPage(p) \/ Listed(p) \/ Kill(p)

Spec == Init /\ [][Next]_vars

-----------------------------------------------------------------------------
(* Properties *)

Kept == {store[k] : k \in Store}
InHand == UNION {{command[p].got, command[p].found} : p \in {q \in Process : ~Idle(q)}}

\* Whatever fails, a token the cloud accepts is kept, or a command will still
\* see to it, or the person was told of it (cloud.go:152-188, 276-283).
NoTokenIsForgotten == valid \subseteq Kept \cup InHand \cup told

\* A login that fails leaves the person signed in as before: what is kept is
\* valid, except in the hands of a logout that revoked it (cloud.go:171-188).
KeptIsValid ==
    \A k \in Store : store[k] # NoToken =>
        \/ store[k] \in valid \cup told
        \/ \E p \in Process : At(p, "logout", "delete") /\ command[p].found = store[k]

\* A listing reads no page twice, so it ends, even when the cloud's pages go
\* round in a circle (cloud.go:578-606).
NoPageTwice ==
    \A p \in Process : ~Idle(p) =>
        Cardinality({command[p].pages[i] : i \in 1..Len(command[p].pages)}) = Len(command[p].pages)

CloudIsKept == NoTokenIsForgotten /\ KeptIsValid /\ NoPageTwice
=============================================================================
