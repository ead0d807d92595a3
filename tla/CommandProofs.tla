---------------------------- MODULE CommandProofs ----------------------------
(***************************************************************************)
(* Theorems about the commands of MCConsole, for any number of them and of  *)
(* what they work on: Serve (V, a server of its own for some databases),    *)
(* Cloud (C, the credentials of the cloud), Data (R), Client (L, of the     *)
(* local server), PublisherCheck (K, for lists of manifests of any length   *)
(* and kind) and Rights (G).                                                *)
(***************************************************************************)
EXTENDS MCConsole, FiniteSetTheorems, FunctionTheorems, SequenceTheorems, TLAPS

-----------------------------------------------------------------------------
(* Serve: the types *)

LEMMA ServeInvInit == V!Init => V!ServeInv
  <1> SUFFICES ASSUME V!Init PROVE V!ServeInv
    OBVIOUS
  <1>1. V!Active = {}
    BY DEF V!Init, V!Active
  <1>2. V!ServeTypeOK
    BY DEF V!Init, V!ServeTypeOK, V!Places
  <1>3. QED
    BY <1>1, <1>2 DEF V!Init, V!ServeInv, V!Begun, V!Ended

LEMMA ServeTypeStep ==
  ASSUME V!ServeTypeOK, [V!Next]_(V!vars)
  PROVE  V!ServeTypeOK'
  <1>1. CASE UNCHANGED V!vars
    BY <1>1 DEF V!ServeTypeOK, V!vars
  <1>2. CASE \E d \in Mounted : V!Mount(d) \/ V!Release(d)
    BY <1>2 DEF V!ServeTypeOK, V!Mount, V!Release
  <1>3. CASE \E r \in Request : V!Admit(r) \/ V!Return(r) \/ V!Leave(r)
    <2> PICK r \in Request : V!Admit(r) \/ V!Return(r) \/ V!Leave(r)
      BY <1>3
    <2>1. call' \in [Request -> {"new", "handled", "leaving", "gone", "refused"}]
      BY DEF V!ServeTypeOK, V!Admit, V!Return, V!Leave
    <2>2. pending' \in BOOLEAN
      BY Zenon DEF V!ServeTypeOK, V!Admit, V!Return, V!Leave
    <2>3. cleanups' \in Nat /\ releaser' \in {"nobody", "main", "handler"}
      BY DEF V!ServeTypeOK, V!Admit, V!Return, V!Leave
    <2>4. UNCHANGED <<main, database, served, guarded, stopping, cleaned, answer>>
      BY DEF V!Admit, V!Return, V!Leave
    <2>5. QED
      BY <2>1, <2>2, <2>3, <2>4 DEF V!ServeTypeOK
  <1>4. CASE V!MountFails \/ V!Guard \/ V!Listen \/ V!Interrupt \/ V!ListenerFails \/ V!Shutdown \/ V!Drain \/ V!Settle
    <2>1. main' \in V!Places
      BY <1>4 DEF V!ServeTypeOK, V!Places, V!Ended, V!MountFails, V!Guard, V!Listen, V!Interrupt, V!ListenerFails, V!Shutdown, V!Drain, V!Settle
    <2>2. answer' \in {"none", "settled", "active"}
      BY <1>4 DEF V!ServeTypeOK, V!MountFails, V!Guard, V!Listen, V!Interrupt, V!ListenerFails, V!Shutdown, V!Drain, V!Settle
    <2>3. served' \in BOOLEAN /\ guarded' \in BOOLEAN /\ stopping' \in BOOLEAN
      BY <1>4, Zenon DEF V!ServeTypeOK, V!MountFails, V!Guard, V!Listen, V!Interrupt, V!ListenerFails, V!Shutdown, V!Drain, V!Settle
    <2>4. UNCHANGED <<database, call, pending, releaser, cleaned, cleanups>>
      BY <1>4 DEF V!MountFails, V!Guard, V!Listen, V!Interrupt, V!ListenerFails, V!Shutdown, V!Drain, V!Settle
    <2>5. QED
      BY <2>1, <2>2, <2>3, <2>4 DEF V!ServeTypeOK
  <1>5. CASE V!Cleanup \/ V!Exit \/ V!Released
    <2>1. main' \in V!Places /\ cleanups' \in Nat /\ releaser' \in {"nobody", "main", "handler"}
      BY <1>5 DEF V!ServeTypeOK, V!Places, V!Ended, V!Cleanup, V!Exit, V!Released
    <2>2. stopping' \in BOOLEAN /\ pending' \in BOOLEAN /\ guarded' \in BOOLEAN /\ cleaned' \in BOOLEAN
      BY <1>5, Zenon DEF V!ServeTypeOK, V!Cleanup, V!Exit, V!Released
    <2>3. UNCHANGED <<database, call, served, answer>>
      BY <1>5 DEF V!Cleanup, V!Exit, V!Released
    <2>4. QED
      BY <2>1, <2>2, <2>3 DEF V!ServeTypeOK
  <1>6. QED
    BY <1>1, <1>2, <1>3, <1>4, <1>5 DEF V!Next

-----------------------------------------------------------------------------
(* The cleanup's protocol *)

LEMMA StepOfMain ==
  ASSUME V!ServeInv, V!ServeTypeOK',
         UNCHANGED V!vars \/ V!MountFails \/ V!Guard \/ V!Listen \/ V!Interrupt \/ V!ListenerFails \/ V!Shutdown \/ V!Drain \/ V!Settle \/ V!Exit
  PROVE  V!ServeInv'
  <1>1. UNCHANGED <<database, call, pending, releaser, cleaned, cleanups>>
    BY DEF V!vars, V!MountFails, V!Guard, V!Listen, V!Interrupt, V!ListenerFails, V!Shutdown, V!Drain, V!Settle, V!Exit
  <1>2. V!Active' = V!Active /\ V!Begun' = V!Begun
    BY <1>1 DEF V!Active, V!Begun
  <1>3. CASE UNCHANGED V!vars
    BY <1>1, <1>2, <1>3 DEF V!ServeInv, V!vars
  <1>4. CASE V!MountFails \/ V!Guard \/ V!Listen \/ V!ListenerFails \/ V!Shutdown
    BY <1>1, <1>2, <1>4 DEF V!ServeInv, V!MountFails, V!Guard, V!Listen, V!ListenerFails, V!Shutdown, V!Ended, V!Begun
  <1>5. CASE V!Interrupt
    BY <1>1, <1>2, <1>5 DEF V!ServeInv, V!Interrupt, V!Alive, V!Ended, V!Begun
  <1>6. CASE V!Drain \/ V!Settle
    BY <1>1, <1>2, <1>6 DEF V!ServeInv, V!Drain, V!Settle, V!Ended, V!Begun
  <1>7. CASE V!Exit
    BY <1>1, <1>2, <1>7 DEF V!ServeInv, V!Exit, V!Ended, V!Begun
  <1>8. QED
    BY <1>3, <1>4, <1>5, <1>6, <1>7

LEMMA StepOfCleanup ==
  ASSUME V!ServeInv, V!ServeTypeOK', V!Cleanup \/ V!Released
  PROVE  V!ServeInv'
  <1>1. V!Active' = V!Active
    BY DEF V!Active, V!Cleanup, V!Released
  <1>2. CASE V!Cleanup
    BY <1>1, <1>2 DEF V!ServeInv, V!Cleanup, V!Begun, V!Ended, V!ServeTypeOK
  <1>3. CASE V!Released
    BY <1>1, <1>3 DEF V!ServeInv, V!Released, V!Begun, V!Alive, V!Ended, V!ServeTypeOK
  <1>4. QED
    BY <1>2, <1>3

LEMMA StepOfDatabase ==
  ASSUME V!ServeInv, V!ServeTypeOK', NEW d \in Mounted, V!Mount(d) \/ V!Release(d)
  PROVE  V!ServeInv'
  <1>1. V!Active' = V!Active /\ V!Begun' = V!Begun
    BY DEF V!Active, V!Begun, V!Mount, V!Release
  <1>2. CASE V!Mount(d)
    <2>1. database' = [database EXCEPT ![d] = "open"] /\ ~V!Begun
      BY <1>2 DEF V!ServeInv, V!Mount
    <2>2. ~ \E e \in Mounted : database'[e] = "closed"
      BY <2>1 DEF V!ServeInv, V!ServeTypeOK
    <2>3. QED
      BY <1>1, <1>2, <2>1, <2>2 DEF V!ServeInv, V!Mount, V!Begun
  <1>3. CASE V!Release(d)
    <2>1. V!Begun /\ ~cleaned
      BY <1>3 DEF V!ServeInv, V!Release, V!Begun
    <2>2. QED
      BY <1>1, <1>3, <2>1 DEF V!ServeInv, V!Release, V!Begun
  <1>4. QED
    BY <1>2, <1>3

LEMMA StepOfRequest ==
  ASSUME V!ServeInv, V!ServeTypeOK', NEW r \in Request, V!Admit(r) \/ V!Return(r) \/ V!Leave(r)
  PROVE  V!ServeInv'
  <1>1. call \in [Request -> {"new", "handled", "leaving", "gone", "refused"}]
    BY DEF V!ServeInv, V!ServeTypeOK
  <1>2. CASE V!Admit(r)
    <2>1. IF stopping THEN V!Active' = V!Active ELSE V!Active' = V!Active \cup {r}
      BY <1>1, <1>2 DEF V!Admit, V!Active
    <2>2. V!Begun' = V!Begun
      BY <1>2 DEF V!Admit, V!Begun
    <2>3. QED
      BY <1>2, <2>1, <2>2 DEF V!ServeInv, V!Admit, V!Alive, V!Ended, V!Begun
  <1>3. CASE V!Return(r)
    <2>1. V!Active' = V!Active /\ V!Begun' = V!Begun
      BY <1>1, <1>3 DEF V!Return, V!Active, V!Begun
    <2>2. QED
      BY <1>3, <2>1 DEF V!ServeInv, V!Return, V!Begun
  <1>4. CASE V!Leave(r)
    <2>1. r \in V!Active /\ V!Active' = V!Active \ {r}
      BY <1>1, <1>4 DEF V!Leave, V!Active
    <2>2. ~V!Begun
      BY <2>1 DEF V!ServeInv
    <2>3. CASE V!Active = {r} /\ pending
      <3>1. pending' = FALSE /\ releaser' = "handler" /\ cleanups' = 1 /\ V!Begun' /\ V!Active' = {}
        BY <1>4, <2>1, <2>3 DEF V!Leave, V!ServeInv, V!Begun
      <3>2. QED
        BY <1>4, <2>1, <2>2, <2>3, <3>1 DEF V!ServeInv, V!Leave, V!Begun
    <2>4. CASE ~(V!Active = {r} /\ pending)
      <3>1. UNCHANGED <<pending, releaser, cleanups, cleaned>> /\ V!Begun' = V!Begun
        BY <1>4, <2>4 DEF V!Leave, V!Begun
      <3>2. QED
        BY <1>4, <2>1, <2>2, <2>4, <3>1 DEF V!ServeInv, V!Leave, V!Begun
    <2>5. QED
      BY <2>3, <2>4
  <1>5. QED
    BY <1>2, <1>3, <1>4

LEMMA ServeInvStep ==
  ASSUME V!ServeInv, [V!Next]_(V!vars)
  PROVE  V!ServeInv'
  <1>1. V!ServeTypeOK'
    BY ServeTypeStep DEF V!ServeInv
  <1>2. QED
    BY <1>1, StepOfMain, StepOfCleanup, StepOfDatabase, StepOfRequest DEF V!Next

LEMMA ServeInvSafe == V!ServeInv => V!ServeIsSafe
  <1> SUFFICES ASSUME V!ServeInv PROVE V!ServeIsSafe
    OBVIOUS
  <1>1. V!NotClosedUnderRequest
    BY DEF V!ServeInv, V!NotClosedUnderRequest
  <1>2. V!CleanedOnce
    BY DEF V!ServeInv, V!CleanedOnce
  <1>3. V!LeavesNothing
    BY DEF V!ServeInv, V!LeavesNothing, V!Begun
  <1>4. QED
    BY <1>1, <1>2, <1>3 DEF V!ServeIsSafe

\* Whatever the order of signals, requests and deadlines, ovdb serve closes no
\* database under a handler, cleans up once, and leaves nothing open behind it
\* (serve.go:347-436).
THEOREM ServeSafe == V!Spec => []V!ServeIsSafe
  <1>1. V!Spec => []V!ServeInv
    BY ServeInvInit, ServeInvStep, PTL DEF V!Spec
  <1>2. QED
    BY <1>1, ServeInvSafe, PTL
-----------------------------------------------------------------------------
(* Cloud: what holds between the commands and the stores *)

\* p changes what is kept: a login or a logout.
Signs(p) == command[p] # None /\ command[p].do # "databases"

\* p has a token of its own that is kept nowhere yet.
Pending(p) == Signs(p) /\ command[p].step \in {"validate", "save", "cleanup"}

Tokens == 1 .. issued \cup {None}

CloudTypes ==
    /\ issued \in 0 .. MaxTokens
    /\ store \in [Store -> Tokens]
    /\ valid \subseteq 1 .. issued
    /\ next \in [Page \cup {C!FirstPage} -> Page \cup {None}]
    /\ command \in [Process -> C!Command \cup {None}]
    /\ \A p \in Process : command[p] # None => command[p].found \in Tokens /\ command[p].got \in Tokens

\* Two commands never change the same store.
OneEach ==
    \A p, q \in Process : Signs(p) /\ Signs(q) /\ command[p].store = command[q].store => p = q

\* What a login found is kept until its own token is.
LoginOf(p) ==
    /\ command[p].step \in {"issue", "validate", "save", "cleanup", "previous"}
    /\ command[p].step = "issue" <=> command[p].got = None
    /\ command[p].step # "previous" =>
          /\ store[command[p].store] = command[p].found
          /\ \A k \in Store : store[k] = command[p].got => store[k] = None
    /\ command[p].step = "previous" =>
          /\ store[command[p].store] = command[p].got
          /\ command[p].found # None
          /\ \A k \in Store : store[k] # command[p].found
    /\ command[p].step \in {"validate", "save"} => command[p].got \in valid \cup told

LoginInv == \A p \in Process : Signs(p) /\ command[p].do = "login" => LoginOf(p)

\* A logout has the token that is kept, and deletes it only when it is revoked.
LogoutOf(p) ==
    /\ command[p].step \in {"revoke", "delete"}
    /\ command[p].got = None /\ command[p].found # None
    /\ store[command[p].store] = command[p].found
    /\ command[p].step = "delete" => command[p].found \notin valid

LogoutInv == \A p \in Process : Signs(p) /\ command[p].do = "logout" => LogoutOf(p)

\* No two commands have the same token of their own, and none found it.
FreshInv ==
    \A p, q \in Process : Pending(p) /\ Signs(q) =>
        /\ command[p].got # command[q].found
        /\ p # q => command[p].got # command[q].got

\* A token is kept in one store.
UniqueInv == \A k, l \in Store : store[k] = store[l] /\ store[k] # None => k = l

\* A token the cloud accepts is kept, or a login or logout has it, or the
\* person was told of it.
KnownInv ==
    \A t \in valid :
        \/ t \in told
        \/ \E k \in Store : store[k] = t
        \/ \E p \in Process : Signs(p) /\ (command[p].got = t \/ command[p].found = t)

PagesInv ==
    \A p \in Process : command[p] # None =>
        /\ Len(command[p].pages) # 0
        /\ \A i, j \in 1 .. Len(command[p].pages) : command[p].pages[i] = command[p].pages[j] => i = j

\* The strengthened invariant.
CloudInv ==
    /\ CloudTypes /\ PagesInv
    /\ OneEach /\ LoginInv /\ LogoutInv /\ FreshInv /\ UniqueInv /\ KnownInv /\ C!KeptIsValid

-----------------------------------------------------------------------------
(* Cloud: the types and the pages *)

\* What a command may become.
LEMMA CommandIs ==
  ASSUME NEW p \in Process, CloudTypes, command[p] # None
  PROVE  /\ command[p] \in C!Command
         /\ command[p].do \in {"login", "logout", "databases"}
         /\ command[p].store \in Store
         /\ command[p].pages \in Seq(Page \cup {C!FirstPage})
  BY DEF CloudTypes, C!Command

\* The lists of pages stay without repetition.
LEMMA AppendsOnce ==
  ASSUME NEW Elem, NEW s \in Seq(Elem), NEW e \in Elem,
         \A i, j \in 1 .. Len(s) : s[i] = s[j] => i = j,
         \A i \in 1 .. Len(s) : s[i] # e
  PROVE  /\ Append(s, e) \in Seq(Elem) /\ Len(Append(s, e)) # 0
         /\ \A i, j \in 1 .. Len(Append(s, e)) : Append(s, e)[i] = Append(s, e)[j] => i = j
  <1>1. /\ Append(s, e) \in Seq(Elem) /\ Len(s) \in Nat /\ Len(Append(s, e)) = Len(s) + 1
        /\ \A i \in 1 .. Len(s) : Append(s, e)[i] = s[i]
        /\ Append(s, e)[Len(s) + 1] = e
    OBVIOUS
  <1>2. \A i \in 1 .. Len(s) + 1 : i \in 1 .. Len(s) \/ i = Len(s) + 1
    BY <1>1
  <1>3. QED
    BY <1>1, <1>2

\* A command that begins.
LEMMA DoesIs ==
  ASSUME CloudTypes, NEW p \in Process, NEW do \in {"login", "logout", "databases"}, NEW k \in Store,
         NEW first \in {"issue", "revoke", "page"},
         C!Idle(p), C!Does(p, do, k, first, store[k])
  PROVE  /\ command' \in [Process -> C!Command \cup {None}]
         /\ \A q \in Process : q # p => command'[q] = command[q]
         /\ command'[p] # None
         /\ command'[p].do = do /\ command'[p].store = k /\ command'[p].step = first
         /\ command'[p].found = store[k] /\ command'[p].got = None
         /\ command'[p].pages = <<C!FirstPage>>
  <1> DEFINE c == [do |-> do, store |-> k, step |-> first, found |-> store[k], got |-> None,
                   pages |-> <<C!FirstPage>>]
  <1>1. command' = [command EXCEPT ![p] = c]
    BY DEF C!Does
  <1>2. store[k] \in C!Token \cup {None}
    BY CloudAssumption DEF CloudTypes, Tokens, C!Token
  <1>3. <<C!FirstPage>> \in Seq(Page \cup {C!FirstPage})
    OBVIOUS
  <1>4. c \in C!Command
    BY <1>2, <1>3 DEF C!Command
  <1>5. c # None
    BY <1>4, CloudAssumption
  <1>6. /\ c.do = do /\ c.store = k /\ c.step = first
        /\ c.found = store[k] /\ c.got = None /\ c.pages = <<C!FirstPage>>
    OBVIOUS
  <1> HIDE DEF c
  <1>7. command'[p] = c /\ \A q \in Process : q # p => command'[q] = command[q]
    BY <1>1 DEF CloudTypes
  <1>8. command' \in [Process -> C!Command \cup {None}]
    BY <1>1, <1>4 DEF CloudTypes
  <1>9. QED
    BY <1>5, <1>6, <1>7, <1>8

\* A command that goes on to another step.
LEMMA StepsIs ==
  ASSUME CloudTypes, NEW p \in Process, ~C!Idle(p),
         NEW then \in {"issue", "validate", "save", "cleanup", "previous", "revoke", "delete", "page", "listed"},
         C!Steps(p, then)
  PROVE  /\ command' \in [Process -> C!Command \cup {None}]
         /\ \A q \in Process : q # p => command'[q] = command[q]
         /\ command'[p] # None /\ command'[p].step = then
         /\ command'[p].do = command[p].do /\ command'[p].store = command[p].store
         /\ command'[p].found = command[p].found /\ command'[p].got = command[p].got
         /\ command'[p].pages = command[p].pages
  <1> DEFINE c == [command[p] EXCEPT !.step = then]
  <1>1. command' = [command EXCEPT ![p] = c]
    BY DEF C!Steps
  <1>2. command[p] \in C!Command
    BY CommandIs DEF C!Idle
  <1>3. c \in C!Command /\ c.step = then
    BY <1>2 DEF C!Command
  <1>4. /\ c.do = command[p].do /\ c.store = command[p].store
        /\ c.found = command[p].found /\ c.got = command[p].got /\ c.pages = command[p].pages
    BY <1>2 DEF C!Command
  <1> HIDE DEF c
  <1>5. c # None
    BY <1>3, CloudAssumption
  <1>6. command'[p] = c /\ \A q \in Process : q # p => command'[q] = command[q]
    BY <1>1 DEF CloudTypes
  <1>7. command' \in [Process -> C!Command \cup {None}]
    BY <1>1, <1>3 DEF CloudTypes
  <1>8. QED
    BY <1>3, <1>4, <1>5, <1>6, <1>7

\* A command that ends.
LEMMA EndsIs ==
  ASSUME CloudTypes, NEW p \in Process, C!Ends(p)
  PROVE  /\ command' \in [Process -> C!Command \cup {None}]
         /\ \A q \in Process : q # p => command'[q] = command[q]
         /\ command'[p] = None
  BY DEF CloudTypes, C!Ends

\* The device login gives p a token that nobody has.
LEMMA IssueIs ==
  ASSUME CloudTypes, NEW p \in Process, C!Issue(p)
  PROVE  /\ issued' = issued + 1 /\ issued' \in 1 .. MaxTokens /\ valid' = valid \cup {issued'}
         /\ UNCHANGED <<store, told, next>>
         /\ command' \in [Process -> C!Command \cup {None}]
         /\ \A q \in Process : q # p => command'[q] = command[q]
         /\ command'[p] # None /\ command'[p].step = "validate" /\ command'[p].got = issued'
         /\ command'[p].do = "login" /\ command'[p].store = command[p].store
         /\ command'[p].found = command[p].found /\ command'[p].pages = command[p].pages
         /\ command[p] # None /\ command[p].do = "login" /\ command[p].step = "issue"
  <1> DEFINE c == [command[p] EXCEPT !.step = "validate", !.got = issued + 1]
  <1>1. command' = [command EXCEPT ![p] = c]
    BY DEF C!Issue
  <1>2. command[p] # None /\ command[p].do = "login" /\ command[p].step = "issue"
    BY DEF C!Issue, C!At, C!Idle
  <1>3. /\ issued' = issued + 1 /\ issued' \in 1 .. MaxTokens /\ valid' = valid \cup {issued'}
        /\ UNCHANGED <<store, told, next>>
    BY CloudAssumption DEF C!Issue, CloudTypes
  <1>4. command[p] \in C!Command /\ issued + 1 \in C!Token
    BY <1>2, <1>3, CommandIs DEF C!Token
  <1>5. c \in C!Command /\ c.step = "validate" /\ c.got = issued + 1
    BY <1>4 DEF C!Command
  <1>6. c.do = command[p].do /\ c.store = command[p].store /\ c.found = command[p].found /\ c.pages = command[p].pages
    BY <1>4 DEF C!Command
  <1> HIDE DEF c
  <1>7. c # None
    BY <1>5, CloudAssumption
  <1>8. command'[p] = c /\ \A q \in Process : q # p => command'[q] = command[q]
    BY <1>1 DEF CloudTypes
  <1>9. command' \in [Process -> C!Command \cup {None}]
    BY <1>1, <1>5 DEF CloudTypes
  <1>10. QED
    BY <1>2, <1>3, <1>5, <1>6, <1>7, <1>8, <1>9

\* The catalogue's list goes on, or the command ends.
LEMMA ReadIs ==
  ASSUME CloudTypes, PagesInv, NEW p \in Process, C!ReadPage(p)
  PROVE  /\ UNCHANGED <<store, issued, valid, told, next>>
         /\ command[p] # None /\ command[p].do = "databases"
         /\ command' \in [Process -> C!Command \cup {None}]
         /\ \A q \in Process : q # p => command'[q] = command[q]
         /\ command'[p] # None =>
               /\ command'[p].do = "databases" /\ command'[p].found = command[p].found /\ command'[p].got = command[p].got
               /\ Len(command'[p].pages) # 0
               /\ \A i, j \in 1 .. Len(command'[p].pages) :
                     command'[p].pages[i] = command'[p].pages[j] => i = j
  <1> DEFINE pages == command[p].pages
             after == next[pages[Len(pages)]]
             shownPages == {pages[i] : i \in 1..Len(pages)}
             c == [command[p] EXCEPT !.pages = Append(pages, after)]
  <1>1. command[p] # None /\ command[p].do = "databases" /\ ~C!Idle(p) /\ UNCHANGED <<store, issued, valid, told, next>>
    BY DEF C!ReadPage, C!At, C!Idle
  <1>2. /\ command[p] \in C!Command /\ pages \in Seq(Page \cup {C!FirstPage})
        /\ Len(pages) # 0
        /\ \A i, j \in 1 .. Len(pages) : pages[i] = pages[j] => i = j
    BY <1>1, CommandIs DEF PagesInv
  <1>3. \/ C!Steps(p, "listed")
        \/ after # None /\ after \notin shownPages /\ command' = [command EXCEPT ![p] = c]
        \/ C!Ends(p)
    BY Zenon DEF C!ReadPage
  <1>4. CASE C!Steps(p, "listed")
    BY <1>1, <1>2, <1>4, StepsIs
  <1>5. CASE C!Ends(p)
    BY <1>1, <1>5, EndsIs
  <1>6. CASE after # None /\ after \notin shownPages /\ command' = [command EXCEPT ![p] = c]
    <2>1. after \in Page \cup {C!FirstPage}
      <3>1. pages[Len(pages)] \in Page \cup {C!FirstPage}
        BY <1>2
      <3>2. QED
        BY <1>6, <3>1 DEF CloudTypes
    <2>2. \A i \in 1 .. Len(pages) : pages[i] # after
      BY <1>6
    <2>3. /\ Append(pages, after) \in Seq(Page \cup {C!FirstPage}) /\ Len(Append(pages, after)) # 0
          /\ \A i, j \in 1 .. Len(Append(pages, after)) : Append(pages, after)[i] = Append(pages, after)[j] => i = j
      <3> HIDE DEF pages, after
      <3>1. QED
        BY <1>2, <2>1, <2>2, AppendsOnce
    <2>4. c \in C!Command /\ c.pages = Append(pages, after)
      BY <1>2, <2>3 DEF C!Command
    <2>5. c.do = command[p].do /\ c.found = command[p].found /\ c.got = command[p].got
      BY <1>2 DEF C!Command
    <2> HIDE DEF c
    <2>6. command'[p] = c /\ \A q \in Process : q # p => command'[q] = command[q]
      BY <1>6 DEF CloudTypes
    <2>7. command' \in [Process -> C!Command \cup {None}]
      BY <1>6, <2>4 DEF CloudTypes
    <2>8. QED
      BY <1>1, <2>3, <2>4, <2>5, <2>6, <2>7
  <1>7. QED
    BY <1>3, <1>4, <1>5, <1>6

\* The types and the pages from what the lemmas say of one command.
LEMMA TypesKept ==
  ASSUME CloudTypes, PagesInv, NEW p \in Process,
         issued' \in 0 .. MaxTokens, issued <= issued', store' \in [Store -> Tokens'],
         valid' \subseteq 1 .. issued', next' = next,
         command' \in [Process -> C!Command \cup {None}],
         \A q \in Process : q # p => command'[q] = command[q],
         command'[p] # None =>
            /\ command'[p].found \in Tokens' /\ command'[p].got \in Tokens'
            /\ Len(command'[p].pages) # 0
            /\ \A i, j \in 1 .. Len(command'[p].pages) :
                  command'[p].pages[i] = command'[p].pages[j] => i = j
  PROVE  CloudTypes' /\ PagesInv'
  <1>1. Tokens \subseteq Tokens'
    BY DEF Tokens, CloudTypes
  <1>2. ASSUME NEW q \in Process, command'[q] # None
        PROVE  command'[q].found \in Tokens' /\ command'[q].got \in Tokens'
    BY <1>1, <1>2 DEF CloudTypes
  <1>3. PagesInv'
    BY DEF PagesInv
  <1>4. QED
    BY <1>2, <1>3 DEF CloudTypes

LEMMA CloudTypesStep ==
  ASSUME CloudTypes, PagesInv, [C!Next]_(C!vars)
  PROVE  CloudTypes' /\ PagesInv'
  <1> USE DEF Tokens
  <1>1. CASE UNCHANGED C!vars
    BY <1>1 DEF C!vars, CloudTypes, PagesInv
  <1>2. ASSUME NEW p \in Process, NEW k \in Store,
               C!Login(p, k) \/ C!Logout(p, k) \/ C!Databases(p, k)
        PROVE  CloudTypes' /\ PagesInv'
    <2>1. C!Idle(p) /\ UNCHANGED <<store, issued, valid, told, next>>
      BY <1>2 DEF C!Login, C!Logout, C!Databases
    <2>2. /\ command' \in [Process -> C!Command \cup {None}]
          /\ \A q \in Process : q # p => command'[q] = command[q]
          /\ command'[p].found = store[k] /\ command'[p].got = None
          /\ command'[p].pages = <<C!FirstPage>>
      BY <1>2, <2>1, DoesIs DEF C!Login, C!Logout, C!Databases
    <2>3. /\ Len(<<C!FirstPage>>) = 1 /\ store[k] \in Tokens
      BY DEF CloudTypes
    <2>4. issued' \in 0 .. MaxTokens /\ issued <= issued' /\ store' \in [Store -> Tokens']
          /\ valid' \subseteq 1 .. issued'
      BY <2>1, CloudAssumption DEF CloudTypes
    <2>5. QED
      BY <2>1, <2>2, <2>3, <2>4, TypesKept
  <1>3. ASSUME NEW p \in Process, C!Issue(p) PROVE CloudTypes' /\ PagesInv'
    <2>1. /\ issued' \in 0 .. MaxTokens /\ issued <= issued' /\ store' \in [Store -> Tokens']
          /\ valid' \subseteq 1 .. issued'
      BY <1>3, IssueIs, CloudAssumption DEF CloudTypes
    <2>2. command'[p].found \in Tokens' /\ command'[p].got \in Tokens'
      BY <1>3, IssueIs DEF CloudTypes
    <2>3. /\ Len(command'[p].pages) # 0
          /\ \A i, j \in 1 .. Len(command'[p].pages) :
                command'[p].pages[i] = command'[p].pages[j] => i = j
      BY <1>3, IssueIs DEF PagesInv
    <2>4. QED
      BY <1>3, <2>1, <2>2, <2>3, IssueIs, TypesKept
  <1>4. ASSUME NEW p \in Process, C!ReadPage(p) PROVE CloudTypes' /\ PagesInv'
    <2>0. UNCHANGED <<store, issued, valid, next>>
      BY <1>4, ReadIs
    <2>1. issued' \in 0 .. MaxTokens /\ issued <= issued' /\ store' \in [Store -> Tokens']
          /\ valid' \subseteq 1 .. issued'
      BY <2>0, CloudAssumption DEF CloudTypes
    <2>2. command'[p] # None => command'[p].found \in Tokens' /\ command'[p].got \in Tokens'
      BY <1>4, ReadIs DEF CloudTypes
    <2>3. QED
      BY <1>4, <2>1, <2>2, ReadIs, TypesKept
  <1>5. ASSUME NEW p \in Process,
               \/ C!IssueFails(p) \/ C!Validate(p) \/ C!Save(p) \/ C!Cleanup(p) \/ C!Previous(p)
               \/ C!Revoke(p) \/ C!Delete(p) \/ C!Listed(p) \/ C!Kill(p)
        PROVE  CloudTypes' /\ PagesInv'
    <2>1. ~C!Idle(p) /\ command[p] # None
      BY <1>5 DEF C!IssueFails, C!Validate, C!Save, C!Cleanup, C!Previous, C!Revoke, C!Delete,
                  C!Listed, C!Kill, C!At, C!Idle
    <2>2. C!Ends(p) \/ \E then \in {"save", "cleanup", "previous", "delete"} : C!Steps(p, then)
      BY <1>5, Zenon DEF C!IssueFails, C!Validate, C!Save, C!Cleanup, C!Previous, C!Revoke, C!Delete,
                  C!Listed, C!Kill
    <2>3. /\ command' \in [Process -> C!Command \cup {None}]
          /\ \A q \in Process : q # p => command'[q] = command[q]
          /\ command'[p] # None =>
                /\ command'[p].found = command[p].found /\ command'[p].got = command[p].got
                /\ command'[p].pages = command[p].pages
      BY <2>1, <2>2, EndsIs, StepsIs
    <2>4. issued' = issued /\ next' = next
      BY <1>5 DEF C!IssueFails, C!Validate, C!Save, C!Cleanup, C!Previous, C!Revoke, C!Delete,
                  C!Listed, C!Kill
    <2>5. valid' \subseteq valid
      BY <1>5 DEF C!IssueFails, C!Validate, C!Save, C!Cleanup, C!Previous, C!Revoke, C!Delete,
                  C!Listed, C!Kill, C!Revoked, C!Unrevoked
    <2>6. \/ store' = store \/ store' = [store EXCEPT ![command[p].store] = command[p].got]
          \/ store' = [store EXCEPT ![command[p].store] = None]
      BY <1>5, Zenon DEF C!IssueFails, C!Validate, C!Save, C!Cleanup, C!Previous, C!Revoke, C!Delete,
                  C!Listed, C!Kill
    <2>7. store' \in [Store -> Tokens']
      <3>1. command[p].got \in Tokens
        BY <2>1 DEF CloudTypes
      <3>2. QED
        BY <2>4, <2>6, <3>1 DEF CloudTypes
    <2>8. QED
      <3>1. issued' \in 0 .. MaxTokens /\ issued <= issued' /\ valid' \subseteq 1 .. issued'
        BY <2>4, <2>5, CloudAssumption DEF CloudTypes
      <3>2. command'[p] # None =>
              /\ command'[p].found \in Tokens' /\ command'[p].got \in Tokens'
              /\ Len(command'[p].pages) # 0
              /\ \A i, j \in 1 .. Len(command'[p].pages) :
                    command'[p].pages[i] = command'[p].pages[j] => i = j
        BY <2>1, <2>3, <2>4 DEF CloudTypes, PagesInv
      <3>3. QED
        BY <2>3, <2>4, <2>7, <3>1, <3>2, TypesKept
  <1>6. QED
    BY <1>1, <1>2, <1>3, <1>4, <1>5 DEF C!Next

-----------------------------------------------------------------------------
(* Cloud: the commands keep what holds *)

\* What the commands and the stores have to do with each other.
StoresInv == OneEach /\ LoginInv /\ LogoutInv /\ FreshInv /\ UniqueInv /\ KnownInv /\ C!KeptIsValid

LEMMA PendingIs ==
  ASSUME CloudInv, NEW q \in Process, Pending(q)
  PROVE  command[q].do = "login" /\ command[q].got # None /\ command[q].got \in 1 .. issued
  <1>1. Signs(q) /\ command[q].do \in {"login", "logout"}
    BY CommandIs DEF Pending, Signs, CloudInv
  <1>2. command[q].do = "login"
    BY <1>1 DEF CloudInv, LogoutInv, LogoutOf, Pending
  <1>3. command[q].got # None
    BY <1>1, <1>2 DEF CloudInv, LoginInv, LoginOf, Pending
  <1>4. QED
    BY <1>1, <1>2, <1>3 DEF CloudInv, CloudTypes, Tokens, Signs

\* Only a command that changes no store moved.
LEMMA ReaderKeeps ==
  ASSUME CloudInv, NEW p \in Process, ~Signs(p), UNCHANGED <<store, issued, valid>>, told \subseteq told',
         \A q \in Process : q # p => command'[q] = command[q],
         command'[p] = None \/ command'[p].do = "databases"
  PROVE  StoresInv'
  <1>1. \A q \in Process : (Signs(q)' <=> Signs(q)) /\ (Signs(q) => q # p /\ command'[q] = command[q])
    BY DEF Signs
  <1>2. \A q \in Process : Pending(q)' <=> Pending(q)
    BY <1>1 DEF Pending
  <1>3. OneEach' /\ FreshInv'
    BY <1>1, <1>2 DEF CloudInv, OneEach, FreshInv, Pending
  <1>4. LoginInv'
    BY <1>1 DEF CloudInv, LoginInv, LoginOf
  <1>5. LogoutInv'
    BY <1>1 DEF CloudInv, LogoutInv, LogoutOf
  <1>6. UniqueInv' /\ KnownInv'
    BY <1>1 DEF CloudInv, UniqueInv, KnownInv
  <1>7. C!KeptIsValid'
    <2>1. \A q \in Process : C!At(q, "logout", "delete") => Signs(q)
      BY DEF C!At, C!Idle, Signs
    <2>2. \A q \in Process : C!At(q, "logout", "delete") => C!At(q, "logout", "delete")' /\ command'[q] = command[q]
      BY <1>1, <2>1 DEF C!At, C!Idle
    <2>3. QED
      BY <2>2 DEF CloudInv, C!KeptIsValid
  <1>8. QED
    BY <1>3, <1>4, <1>5, <1>6, <1>7 DEF StoresInv

\* A login or a logout ends.
LEMMA EndKeeps ==
  ASSUME CloudInv, NEW p \in Process, Signs(p), issued' = issued,
         told \subseteq told', valid' \subseteq valid,
         \A q \in Process : q # p => command'[q] = command[q],
         command'[p] = None,
         \/ store' = store
         \/ command[p].do = "logout" /\ store' = [store EXCEPT ![command[p].store] = None],
         \A t \in valid \ valid' : t \in told' \/
            ((\A k \in Store : store'[k] # t) /\ \A q \in Process : q # p /\ Pending(q) => command[q].got # t),
         \A t \in {command[p].got, command[p].found} :
            t \in told' \/ t \notin valid' \/ \E k \in Store : store'[k] = t,
         command[p].do = "logout" /\ command[p].step = "delete" =>
            command[p].found \in told' \/ \A k \in Store : store'[k] # command[p].found
  PROVE  StoresInv'
  <1>1. \A q \in Process : Signs(q)' => Signs(q) /\ q # p /\ command'[q] = command[q]
    BY DEF Signs
  <1>2. \A q \in Process : Pending(q)' => Pending(q)
    BY <1>1 DEF Pending
  <1>3. /\ \A k \in Store : store'[k] = store[k] \/ (store'[k] = None /\ k = command[p].store /\ command[p].do = "logout")
        /\ command[p].store \in Store
    <2>1. command[p].store \in Store
      BY CommandIs DEF CloudInv, Signs
    <2>2. QED
      BY <2>1 DEF CloudInv, CloudTypes
  <1>4. \A q \in Process : Signs(q)' => store'[command[q].store] = store[command[q].store] /\ command[q].store \in Store
    <2> TAKE q \in Process
    <2> HAVE Signs(q)'
    <2>1. Signs(q) /\ q # p /\ command[q].store # command[p].store
      BY <1>1 DEF CloudInv, OneEach
    <2>2. command[q].store \in Store
      BY <2>1, CommandIs DEF CloudInv, Signs
    <2>3. QED
      BY <1>3, <2>1, <2>2
  <1>5. OneEach' /\ FreshInv'
    BY <1>1, <1>2 DEF CloudInv, OneEach, FreshInv, Pending
  <1>6. LoginInv'
    <2> SUFFICES ASSUME NEW q \in Process, Signs(q)', command'[q].do = "login"
                 PROVE  LoginOf(q)'
      BY DEF LoginInv
    <2>1. LoginOf(q) /\ q # p /\ command'[q] = command[q] /\ Signs(q)
      BY <1>1 DEF CloudInv, LoginInv
    <2>2. command[q].step \in {"validate", "save"} => command[q].got \in valid' \cup told'
      BY <2>1 DEF LoginOf, Pending
    <2>3. QED
      BY <1>3, <1>4, <2>1, <2>2 DEF LoginOf
  <1>7. LogoutInv'
    <2> SUFFICES ASSUME NEW q \in Process, Signs(q)', command'[q].do = "logout"
                 PROVE  LogoutOf(q)'
      BY DEF LogoutInv
    <2>1. LogoutOf(q) /\ command'[q] = command[q]
      BY <1>1 DEF CloudInv, LogoutInv
    <2>2. QED
      BY <1>4, <2>1 DEF LogoutOf
  <1>8. UniqueInv'
    BY <1>3 DEF CloudInv, UniqueInv
  <1>9. KnownInv'
    <2> SUFFICES ASSUME NEW t \in valid'
                 PROVE  \/ t \in told'
                        \/ \E k \in Store : store'[k] = t
                        \/ \E q \in Process : Signs(q)' /\ (command'[q].got = t \/ command'[q].found = t)
      BY DEF KnownInv
    <2>1. \/ t \in told
          \/ \E k \in Store : store[k] = t
          \/ \E q \in Process : Signs(q) /\ (command[q].got = t \/ command[q].found = t)
      BY DEF CloudInv, KnownInv
    <2>2. ASSUME NEW k \in Store, store[k] = t, store'[k] # t
          PROVE  t = command[p].found
      BY <1>3, <2>2 DEF CloudInv, LogoutInv, LogoutOf
    <2>3. ASSUME NEW q \in Process, q # p, Signs(q) PROVE Signs(q)' /\ command'[q] = command[q]
      BY <2>3 DEF Signs
    <2>4. QED
      BY <2>1, <2>2, <2>3
  <1>10. C!KeptIsValid'
    <2> SUFFICES ASSUME NEW k \in Store, store'[k] # None
                 PROVE  \/ store'[k] \in valid' \cup told'
                        \/ \E q \in Process : C!At(q, "logout", "delete")' /\ command'[q].found = store'[k]
      BY DEF C!KeptIsValid
    <2>1. store'[k] = store[k]
      BY <1>3
    <2>2. CASE store[k] \in valid \cup told
      BY <2>1, <2>2
    <2>3. ASSUME NEW q \in Process, C!At(q, "logout", "delete"), command[q].found = store[k]
          PROVE  \/ store'[k] \in told'
                 \/ C!At(q, "logout", "delete")' /\ command'[q].found = store'[k]
      BY <2>1, <2>3 DEF C!At, C!Idle
    <2>4. QED
      BY <2>1, <2>2, <2>3 DEF CloudInv, C!KeptIsValid
  <1>11. QED
    BY <1>5, <1>6, <1>7, <1>8, <1>9, <1>10 DEF StoresInv

\* A login or a logout begins, alone with its store.
LEMMA StartKeeps ==
  ASSUME CloudInv, ~Overlap, NEW p \in Process, NEW k \in Store, C!Idle(p), C!Alone(k),
         UNCHANGED <<store, issued, valid, told>>,
         \A q \in Process : q # p => command'[q] = command[q],
         command'[p] # None, command'[p].store = k, command'[p].found = store[k], command'[p].got = None,
         \/ command'[p].do = "login" /\ command'[p].step = "issue"
         \/ command'[p].do = "logout" /\ command'[p].step = "revoke" /\ store[k] # None
  PROVE  StoresInv'
  <1>1. ~Signs(p) /\ \A q \in Process : q # p => (Signs(q)' <=> Signs(q)) /\ command'[q] = command[q]
    BY DEF Signs, C!Idle
  <1>2. \A q \in Process : Signs(q) => command[q].store # k
    BY DEF C!Alone, Signs, C!Idle
  <1>3. OneEach'
    BY <1>1, <1>2 DEF CloudInv, OneEach
  <1>4. LoginInv'
    <2> SUFFICES ASSUME NEW q \in Process, Signs(q)', command'[q].do = "login"
                 PROVE  LoginOf(q)'
      BY DEF LoginInv
    <2>1. CASE q = p
      BY <2>1 DEF LoginOf
    <2>2. CASE q # p
      BY <1>1, <2>2 DEF CloudInv, LoginInv, LoginOf
    <2>3. QED
      BY <2>1, <2>2
  <1>5. LogoutInv'
    <2> SUFFICES ASSUME NEW q \in Process, Signs(q)', command'[q].do = "logout"
                 PROVE  LogoutOf(q)'
      BY DEF LogoutInv
    <2>1. CASE q = p
      BY <2>1 DEF LogoutOf
    <2>2. CASE q # p
      BY <1>1, <2>2 DEF CloudInv, LogoutInv, LogoutOf
    <2>3. QED
      BY <2>1, <2>2
  <1>6. FreshInv'
    <2>1. \A q \in Process : Pending(q)' => Pending(q) /\ q # p /\ command'[q] = command[q]
      BY <1>1 DEF Pending, Signs
    <2>2. \A q \in Process : Pending(q) => command[q].got # None /\ command[q].got # store[k]
      <3> TAKE q \in Process
      <3> HAVE Pending(q)
      <3>1. command[q].do = "login" /\ command[q].got # None
        BY PendingIs
      <3>2. LoginOf(q) /\ command[q].step # "previous"
        BY <3>1 DEF CloudInv, LoginInv, Pending
      <3>3. QED
        BY <3>1, <3>2 DEF LoginOf
    <2>3. QED
      BY <1>1, <2>1, <2>2 DEF CloudInv, FreshInv
  <1>7. UniqueInv' /\ KnownInv'
    BY <1>1 DEF CloudInv, UniqueInv, KnownInv
  <1>8. C!KeptIsValid'
    <2>1. \A q \in Process : C!At(q, "logout", "delete") => q # p /\ C!At(q, "logout", "delete")' /\ command'[q] = command[q]
      BY <1>1 DEF C!At, C!Idle
    <2>2. QED
      BY <2>1 DEF CloudInv, C!KeptIsValid
  <1>9. QED
    BY <1>3, <1>4, <1>5, <1>6, <1>7, <1>8 DEF StoresInv

\* A login or a logout goes on: its token may be new, another may be revoked,
\* its place is another one.
LEMMA MoveFrame ==
  ASSUME CloudInv, NEW p \in Process, Signs(p),
         \A q \in Process : q # p => command'[q] = command[q],
         command'[p] # None, command'[p].do = command[p].do, command'[p].store = command[p].store
  PROVE  /\ \A q \in Process : Signs(q)' <=> Signs(q)
         /\ OneEach'
  <1>1. \A q \in Process : (Signs(q)' <=> Signs(q)) /\ command'[q].store = command[q].store
    BY DEF Signs
  <1>2. QED
    BY <1>1 DEF CloudInv, OneEach

\* The cloud issues a token that nobody has.
LEMMA IssueKeeps ==
  ASSUME CloudInv, NEW p \in Process, C!Issue(p)
  PROVE  StoresInv'
  <1>1. /\ issued' = issued + 1 /\ issued' \in 1 .. MaxTokens /\ valid' = valid \cup {issued'}
        /\ UNCHANGED <<store, told>>
        /\ \A q \in Process : q # p => command'[q] = command[q]
        /\ command'[p] # None /\ command'[p].step = "validate" /\ command'[p].got = issued'
        /\ command'[p].do = "login" /\ command'[p].store = command[p].store
        /\ command'[p].found = command[p].found
        /\ command[p] # None /\ command[p].do = "login" /\ command[p].step = "issue"
    BY IssueIs DEF CloudInv
  <1>2. Signs(p) /\ LoginOf(p) /\ command[p].got = None
    BY <1>1 DEF Signs, CloudInv, LoginInv, LoginOf
  <1>3. (\A q \in Process : Signs(q)' <=> Signs(q)) /\ OneEach'
    BY <1>1, <1>2, MoveFrame
  <1>4. issued \in Nat /\ issued' # None
    BY <1>1, CloudAssumption DEF CloudInv, CloudTypes
  <1>5. /\ \A k \in Store : store[k] # issued'
        /\ \A q \in Process : Signs(q) => command[q].found # issued' /\ command[q].got # issued'
        /\ issued' \notin valid
    BY <1>1, <1>4 DEF CloudInv, CloudTypes, Tokens, Signs
  <1>6. LoginInv'
    <2> SUFFICES ASSUME NEW q \in Process, Signs(q)', command'[q].do = "login"
                 PROVE  LoginOf(q)'
      BY DEF LoginInv
    <2>1. CASE q = p
      BY <1>1, <1>2, <1>4, <1>5, <2>1 DEF LoginOf
    <2>2. CASE q # p
      BY <1>1, <1>3, <2>2 DEF CloudInv, LoginInv, LoginOf
    <2>3. QED
      BY <2>1, <2>2
  <1>7. LogoutInv'
    <2> SUFFICES ASSUME NEW q \in Process, Signs(q)', command'[q].do = "logout"
                 PROVE  LogoutOf(q)'
      BY DEF LogoutInv
    <2>1. q # p /\ command'[q] = command[q] /\ Signs(q) /\ LogoutOf(q)
      BY <1>1, <1>3 DEF CloudInv, LogoutInv
    <2>2. QED
      BY <1>1, <1>5, <2>1 DEF LogoutOf
  <1>8. FreshInv'
    <2>1. \A q \in Process : q # p /\ Pending(q)' => Pending(q) /\ command[q].got \in 1 .. issued
      BY <1>1, <1>3, PendingIs DEF Pending
    <2>2. \A q \in Process : Signs(q) => command'[q].found = command[q].found
      BY <1>1
    <2>3. SUFFICES ASSUME NEW q \in Process, NEW r \in Process, Pending(q)', Signs(r)'
                   PROVE  command'[q].got # command'[r].found /\ (q # r => command'[q].got # command'[r].got)
      BY DEF FreshInv
    <2>4. CASE q = p
      BY <1>1, <1>3, <1>5, <2>2, <2>3, <2>4
    <2>5. CASE q # p
      <3>1. Pending(q) /\ Signs(r) /\ command[q].got \in 1 .. issued /\ command'[q] = command[q]
        BY <1>1, <1>3, <2>1, <2>3, <2>5
      <3>2. command[q].got # issued' /\ command[q].got # command[r].found
        BY <1>1, <1>4, <3>1 DEF CloudInv, FreshInv
      <3>3. r # p /\ q # r => command[q].got # command'[r].got
        BY <1>1, <3>1 DEF CloudInv, FreshInv
      <3>4. QED
        BY <1>1, <2>2, <3>1, <3>2, <3>3
    <2>6. QED
      BY <2>4, <2>5
  <1>9. UniqueInv'
    BY <1>1 DEF CloudInv, UniqueInv
  <1>10. KnownInv'
    <2>1. None \notin valid
      <3>1. valid \subseteq 1 .. issued /\ issued \in 0 .. MaxTokens
        BY DEF CloudInv, CloudTypes
      <3>2. valid \subseteq 1 .. MaxTokens
        BY <3>1, CloudAssumption
      <3>3. QED
        BY <3>2, CloudAssumption
    <2>2. QED
      BY <1>1, <1>2, <1>3, <2>1 DEF CloudInv, KnownInv
  <1>11. C!KeptIsValid'
    <2>1. \A q \in Process : C!At(q, "logout", "delete") => q # p /\ C!At(q, "logout", "delete")' /\ command'[q] = command[q]
      BY <1>1 DEF C!At, C!Idle
    <2>2. QED
      BY <1>1, <2>1 DEF CloudInv, C!KeptIsValid
  <1>12. QED
    BY <1>3, <1>6, <1>7, <1>8, <1>9, <1>10, <1>11 DEF StoresInv

\* Only the place of p moves: its token is kept nowhere yet, before and after.
LEMMA ValidateKeeps ==
  ASSUME CloudInv, NEW p \in Process, Signs(p), command[p].do = "login",
         command[p].step \in {"validate", "save"},
         UNCHANGED <<store, issued, valid, told>>,
         \A q \in Process : q # p => command'[q] = command[q],
         command'[p] # None, command'[p].do = command[p].do, command'[p].store = command[p].store,
         command'[p].found = command[p].found, command'[p].got = command[p].got,
         \/ command'[p].step = "cleanup"
         \/ command[p].step = "validate" /\ command'[p].step = "save"
  PROVE  StoresInv'
  <1>1. (\A q \in Process : Signs(q)' <=> Signs(q)) /\ OneEach'
    BY MoveFrame
  <1>2. \A q \in Process : /\ Pending(q)' <=> Pending(q)
                           /\ command'[q].got = command[q].got /\ command'[q].found = command[q].found
    BY <1>1 DEF Pending
  <1>3. LoginInv'
    <2> SUFFICES ASSUME NEW q \in Process, Signs(q)', command'[q].do = "login"
                 PROVE  LoginOf(q)'
      BY DEF LoginInv
    <2>1. Signs(q) /\ LoginOf(q)
      BY <1>1 DEF CloudInv, LoginInv
    <2>2. CASE q = p
      BY <2>1, <2>2 DEF LoginOf
    <2>3. CASE q # p
      BY <2>1, <2>3 DEF LoginOf
    <2>4. QED
      BY <2>2, <2>3
  <1>4. LogoutInv'
    BY <1>1 DEF CloudInv, LogoutInv, LogoutOf
  <1>5. FreshInv' /\ UniqueInv'
    BY <1>1, <1>2 DEF CloudInv, FreshInv, UniqueInv
  <1>6. KnownInv'
    BY <1>1, <1>2 DEF CloudInv, KnownInv
  <1>7. C!KeptIsValid'
    <2>1. \A q \in Process : C!At(q, "logout", "delete") => q # p /\ C!At(q, "logout", "delete")' /\ command'[q] = command[q]
      BY DEF C!At, C!Idle
    <2>2. QED
      BY <2>1 DEF CloudInv, C!KeptIsValid
  <1>8. QED
    BY <1>1, <1>3, <1>4, <1>5, <1>6, <1>7 DEF StoresInv

\* The new token replaces the one p found, which is revoked next, if any.
LEMMA SaveKeeps ==
  ASSUME CloudInv, NEW p \in Process, Signs(p), command[p].do = "login", command[p].step = "save",
         UNCHANGED <<issued, valid, told>>,
         store' = [store EXCEPT ![command[p].store] = command[p].got],
         \A q \in Process : q # p => command'[q] = command[q],
         \/ command[p].found = None /\ command'[p] = None
         \/ /\ command[p].found # None
            /\ command'[p] # None /\ command'[p].do = command[p].do /\ command'[p].store = command[p].store
            /\ command'[p].found = command[p].found /\ command'[p].got = command[p].got
            /\ command'[p].step = "previous"
  PROVE  StoresInv'
  <1> DEFINE k0 == command[p].store
             new == command[p].got
             old == command[p].found
  <1>1. LoginOf(p) /\ Pending(p) /\ k0 \in Store /\ new # None
    <2>1. LoginOf(p) /\ Pending(p)
      BY DEF CloudInv, LoginInv, Pending
    <2>2. QED
      BY <2>1, PendingIs, CommandIs DEF CloudInv, Pending, Signs
  <1>2. /\ store[k0] = old /\ store'[k0] = new /\ new \in valid \cup told
        /\ \A k \in Store : k # k0 => store'[k] = store[k]
        /\ \A k \in Store : store[k] # new
    BY <1>1 DEF LoginOf, CloudInv, CloudTypes
  <1>3. \A k \in Store : k # k0 /\ old # None => store[k] # old
    BY <1>1, <1>2 DEF CloudInv, UniqueInv
  <1>4. \A q \in Process : Signs(q)' => /\ Signs(q) /\ command'[q].do = command[q].do
                                        /\ command'[q].store = command[q].store
                                        /\ command'[q].found = command[q].found
                                        /\ command'[q].got = command[q].got
    BY DEF Signs
  <1>5. \A q \in Process : Pending(q)' => Pending(q) /\ q # p
    <2>1. ~Pending(p)'
      BY DEF Pending, Signs
    <2>2. \A q \in Process : q # p /\ Pending(q)' => Pending(q)
      BY DEF Pending, Signs
    <2>3. QED
      BY <2>1, <2>2
  <1>6. \A q \in Process : q # p /\ Signs(q) =>
           command[q].store \in Store /\ command[q].store # k0 /\ command[q].found # new
    BY <1>1, CommandIs DEF CloudInv, OneEach, FreshInv, Signs
  <1>7. new # old
    BY <1>1 DEF CloudInv, FreshInv
  <1>8. OneEach' /\ FreshInv'
    BY <1>4, <1>5 DEF CloudInv, OneEach, FreshInv
  <1>9. LoginInv'
    <2> SUFFICES ASSUME NEW q \in Process, Signs(q)', command'[q].do = "login"
                 PROVE  LoginOf(q)'
      BY DEF LoginInv
    <2>1. CASE q = p
      <3>1. command'[p] # None
        BY <2>1 DEF Signs
      <3>2. \A k \in Store : store'[k] # old
        BY <1>2, <1>3, <1>7, <3>1
      <3>3. QED
        BY <1>1, <1>2, <2>1, <3>1, <3>2 DEF LoginOf
    <2>2. CASE q # p
      <3>1. Signs(q) /\ LoginOf(q) /\ command'[q] = command[q]
        BY <1>4, <2>2 DEF CloudInv, LoginInv
      <3>2. store'[command[q].store] = store[command[q].store] /\ command[q].found # new
        BY <1>2, <1>6, <2>2, <3>1
      <3>3. command[q].step # "previous" => command[q].got # new
        <4>1. CASE command[q].step = "issue"
          BY <1>1, <3>1, <4>1 DEF LoginOf
        <4>2. CASE command[q].step \in {"validate", "save", "cleanup"}
          BY <1>1, <2>2, <3>1, <4>2 DEF CloudInv, FreshInv, Pending
        <4>3. QED
          BY <3>1, <4>1, <4>2 DEF LoginOf
      <3>4. QED
        BY <1>2, <3>1, <3>2, <3>3 DEF LoginOf
    <2>3. QED
      BY <2>1, <2>2
  <1>10. LogoutInv'
    <2> SUFFICES ASSUME NEW q \in Process, Signs(q)', command'[q].do = "logout"
                 PROVE  LogoutOf(q)'
      BY DEF LogoutInv
    <2>1. q # p /\ command'[q] = command[q] /\ Signs(q) /\ LogoutOf(q)
      BY <1>4 DEF CloudInv, LogoutInv
    <2>2. store'[command[q].store] = store[command[q].store]
      BY <1>2, <1>6, <2>1
    <2>3. QED
      BY <2>1, <2>2 DEF LogoutOf
  <1>11. UniqueInv'
    BY <1>1, <1>2 DEF CloudInv, UniqueInv
  <1>12. KnownInv'
    <2> SUFFICES ASSUME NEW t \in valid
                 PROVE  \/ t \in told
                        \/ \E k \in Store : store'[k] = t
                        \/ \E q \in Process : Signs(q)' /\ (command'[q].got = t \/ command'[q].found = t)
      BY DEF KnownInv
    <2>1. \/ t \in told
          \/ \E k \in Store : store[k] = t
          \/ \E q \in Process : Signs(q) /\ (command[q].got = t \/ command[q].found = t)
      BY DEF CloudInv, KnownInv
    <2>2. t # None
      <3>1. valid \subseteq 1 .. issued /\ issued \in 0 .. MaxTokens
        BY DEF CloudInv, CloudTypes
      <3>2. valid \subseteq 1 .. MaxTokens
        BY <3>1, CloudAssumption
      <3>3. QED
        BY <3>2, CloudAssumption
    <2>3. t = old => Signs(p)' /\ command'[p].found = t
      BY <2>2 DEF Signs
    <2>4. \A q \in Process : q # p /\ Signs(q) => Signs(q)' /\ command'[q] = command[q]
      BY DEF Signs
    <2>5. QED
      BY <1>1, <1>2, <2>1, <2>3, <2>4
  <1>13. C!KeptIsValid'
    <2>1. \A q \in Process : C!At(q, "logout", "delete") => q # p /\ C!At(q, "logout", "delete")' /\ command'[q] = command[q]
      BY DEF C!At, C!Idle
    <2>2. QED
      BY <1>2, <2>1 DEF CloudInv, C!KeptIsValid
  <1>14. QED
    BY <1>8, <1>9, <1>10, <1>11, <1>12, <1>13 DEF StoresInv

\* The token of a logout is revoked; it is deleted next.
LEMMA RevokeKeeps ==
  ASSUME CloudInv, NEW p \in Process, Signs(p), command[p].do = "logout",
         UNCHANGED <<store, issued, told>>, valid' = valid \ {command[p].found},
         \A q \in Process : q # p => command'[q] = command[q],
         command'[p] # None, command'[p].do = command[p].do, command'[p].store = command[p].store,
         command'[p].found = command[p].found, command'[p].got = command[p].got,
         command'[p].step = "delete"
  PROVE  StoresInv'
  <1>1. (\A q \in Process : Signs(q)' <=> Signs(q)) /\ OneEach'
    BY MoveFrame
  <1>2. \A q \in Process : command'[q].got = command[q].got /\ command'[q].found = command[q].found
    OBVIOUS
  <1>3. \A q \in Process : Pending(q)' => Pending(q)
    BY <1>1 DEF Pending
  <1>4. LoginInv'
    <2> SUFFICES ASSUME NEW q \in Process, Signs(q)', command'[q].do = "login"
                 PROVE  LoginOf(q)'
      BY DEF LoginInv
    <2>1. q # p /\ command'[q] = command[q] /\ Signs(q) /\ LoginOf(q)
      BY <1>1 DEF CloudInv, LoginInv
    <2>2. command[q].step \in {"validate", "save"} => command[q].got # command[p].found
      BY <2>1 DEF CloudInv, FreshInv, Pending
    <2>3. QED
      BY <2>1, <2>2 DEF LoginOf
  <1>5. LogoutInv'
    <2> SUFFICES ASSUME NEW q \in Process, Signs(q)', command'[q].do = "logout"
                 PROVE  LogoutOf(q)'
      BY DEF LogoutInv
    <2>1. Signs(q) /\ LogoutOf(q)
      BY <1>1 DEF CloudInv, LogoutInv
    <2>2. CASE q = p
      BY <2>1, <2>2 DEF LogoutOf
    <2>3. CASE q # p
      BY <2>1, <2>3 DEF LogoutOf
    <2>4. QED
      BY <2>2, <2>3
  <1>6. FreshInv' /\ UniqueInv'
    BY <1>1, <1>2, <1>3 DEF CloudInv, FreshInv, UniqueInv
  <1>7. KnownInv'
    BY <1>1, <1>2 DEF CloudInv, KnownInv
  <1>8. C!KeptIsValid'
    <2>1. \A q \in Process : C!At(q, "logout", "delete") => C!At(q, "logout", "delete")' /\ command'[q].found = command[q].found
      BY DEF C!At, C!Idle
    <2>2. C!At(p, "logout", "delete")' /\ command'[p].found = command[p].found
      BY DEF C!At, C!Idle
    <2>3. SUFFICES ASSUME NEW k \in Store, store[k] # None
                   PROVE  \/ store[k] \in valid' \cup told
                          \/ \E q \in Process : C!At(q, "logout", "delete")' /\ command'[q].found = store[k]
      BY DEF C!KeptIsValid
    <2>4. \/ store[k] \in valid \cup told
          \/ \E q \in Process : C!At(q, "logout", "delete") /\ command[q].found = store[k]
      BY <2>3 DEF CloudInv, C!KeptIsValid
    <2>5. CASE store[k] = command[p].found
      BY <2>2, <2>5
    <2>6. CASE store[k] # command[p].found
      BY <2>1, <2>4, <2>6
    <2>7. QED
      BY <2>5, <2>6
  <1>9. QED
    BY <1>1, <1>4, <1>5, <1>6, <1>7, <1>8 DEF StoresInv

LEMMA NoneIsInvalid == CloudInv => None \notin valid
  <1> SUFFICES ASSUME CloudInv PROVE None \notin valid
    OBVIOUS
  <1>1. valid \subseteq 1 .. issued /\ issued \in 0 .. MaxTokens
    BY DEF CloudInv, CloudTypes
  <1>2. valid \subseteq 1 .. MaxTokens
    BY <1>1, CloudAssumption
  <1>3. QED
    BY <1>2, CloudAssumption

\* The steps of a command, one by one.
LEMMA StoresStep ==
  ASSUME CloudInv, CloudTypes', ~Overlap, [C!Next]_(C!vars)
  PROVE  StoresInv'
  <1>1. CASE UNCHANGED C!vars
    BY <1>1 DEF C!vars, StoresInv, CloudInv, OneEach, LoginInv, LoginOf, LogoutInv, LogoutOf, FreshInv,
                UniqueInv, KnownInv, C!KeptIsValid, C!At, C!Idle, Signs, Pending
  <1>2. ASSUME NEW p \in Process, NEW k \in Store, C!Login(p, k) \/ C!Logout(p, k)
        PROVE  StoresInv'
    <2>1. /\ C!Idle(p) /\ C!Alone(k) /\ UNCHANGED <<store, issued, valid, told>>
          /\ \/ C!Does(p, "login", k, "issue", store[k])
             \/ C!Does(p, "logout", k, "revoke", store[k]) /\ store[k] # None
      BY <1>2 DEF C!Login, C!Logout
    <2>2. /\ \A q \in Process : q # p => command'[q] = command[q]
          /\ command'[p] # None /\ command'[p].store = k /\ command'[p].found = store[k] /\ command'[p].got = None
          /\ \/ command'[p].do = "login" /\ command'[p].step = "issue"
             \/ command'[p].do = "logout" /\ command'[p].step = "revoke" /\ store[k] # None
      BY <2>1, DoesIs DEF CloudInv
    <2>3. QED
      BY <2>1, <2>2, StartKeeps
  <1>3. ASSUME NEW p \in Process, NEW k \in Store, C!Databases(p, k)
        PROVE  StoresInv'
    <2>1. C!Idle(p) /\ UNCHANGED <<store, issued, valid, told>> /\ C!Does(p, "databases", k, "page", store[k])
      BY <1>3 DEF C!Databases
    <2>2. ~Signs(p) /\ command'[p].do = "databases" /\ \A q \in Process : q # p => command'[q] = command[q]
      BY <2>1, DoesIs DEF CloudInv, Signs, C!Idle
    <2>3. QED
      BY <2>1, <2>2, ReaderKeeps
  <1>4. ASSUME NEW p \in Process, C!Issue(p) PROVE StoresInv'
    BY <1>4, IssueKeeps
  <1>5. ASSUME NEW p \in Process, C!ReadPage(p) PROVE StoresInv'
    <2>1. /\ UNCHANGED <<store, issued, valid, told>> /\ command[p].do = "databases"
          /\ \A q \in Process : q # p => command'[q] = command[q]
          /\ command'[p] = None \/ command'[p].do = "databases"
      BY <1>5, ReadIs DEF CloudInv
    <2>2. QED
      BY <2>1, ReaderKeeps DEF Signs
  <1>6. ASSUME NEW p \in Process, C!Listed(p) PROVE StoresInv'
    <2>1. UNCHANGED <<store, issued, valid, told>> /\ command[p].do = "databases" /\ C!Ends(p)
      BY <1>6 DEF C!Listed, C!At
    <2>2. QED
      BY <2>1, EndsIs, ReaderKeeps DEF Signs, CloudInv
  <1>7. ASSUME NEW p \in Process, C!Validate(p) PROVE StoresInv'
    <2>1. /\ ~C!Idle(p) /\ command[p] # None /\ command[p].do = "login" /\ command[p].step = "validate"
          /\ UNCHANGED <<store, issued, valid, told>>
          /\ \E then \in {"save", "cleanup"} : C!Steps(p, then)
      BY <1>7 DEF C!Validate, C!At, C!Idle
    <2>2. QED
      BY <2>1, StepsIs, ValidateKeeps DEF Signs, CloudInv
  <1>8. ASSUME NEW p \in Process, C!Save(p) PROVE StoresInv'
    <2>1. /\ ~C!Idle(p) /\ command[p] # None /\ command[p].do = "login" /\ command[p].step = "save"
          /\ UNCHANGED <<issued, valid, told>>
          /\ \/ /\ store' = [store EXCEPT ![command[p].store] = command[p].got]
                /\ IF command[p].found = None THEN C!Ends(p) ELSE C!Steps(p, "previous")
             \/ C!Steps(p, "cleanup") /\ UNCHANGED store
      BY <1>8 DEF C!Save, C!At, C!Idle
    <2>2. CASE C!Steps(p, "cleanup") /\ UNCHANGED store
      BY <2>1, <2>2, StepsIs, ValidateKeeps DEF Signs, CloudInv
    <2>3. CASE store' = [store EXCEPT ![command[p].store] = command[p].got] /\ command[p].found = None /\ C!Ends(p)
      BY <2>1, <2>3, EndsIs, SaveKeeps DEF Signs, CloudInv
    <2>4. CASE /\ store' = [store EXCEPT ![command[p].store] = command[p].got]
               /\ command[p].found # None /\ C!Steps(p, "previous")
      BY <2>1, <2>4, StepsIs, SaveKeeps DEF Signs, CloudInv
    <2>5. QED
      BY <2>1, <2>2, <2>3, <2>4
  <1>9. ASSUME NEW p \in Process,
               C!IssueFails(p) \/ C!Cleanup(p) \/ C!Previous(p) \/ C!Revoke(p) \/ C!Delete(p) \/ C!Kill(p)
        PROVE  StoresInv'
    <2>1. ~C!Idle(p) /\ command[p] # None /\ UNCHANGED issued
      BY <1>9 DEF C!IssueFails, C!Cleanup, C!Previous, C!Revoke, C!Delete, C!Kill, C!At, C!Idle
    <2>2. None \notin valid
      BY NoneIsInvalid
    <2>3. CASE C!IssueFails(p)
      <3>1. command[p].do = "login" /\ command[p].step = "issue" /\ C!Ends(p) /\ UNCHANGED <<store, valid, told>>
        BY <2>3 DEF C!IssueFails, C!At
      <3>2. Signs(p) /\ LoginOf(p)
        BY <2>1, <3>1 DEF Signs, CloudInv, LoginInv
      <3>3. command[p].got = None /\ store[command[p].store] = command[p].found /\ command[p].store \in Store
        BY <2>1, <3>1, <3>2, CommandIs DEF LoginOf, CloudInv
      <3>4. command'[p] = None /\ \A q \in Process : q # p => command'[q] = command[q]
        BY <3>1, EndsIs DEF CloudInv
      <3>5. QED
        BY <2>1, <2>2, <3>1, <3>2, <3>3, <3>4, EndKeeps
    <2>4. CASE C!Cleanup(p)
      <3>1. /\ command[p].do = "login" /\ command[p].step = "cleanup" /\ C!Ends(p) /\ UNCHANGED store
            /\ \/ valid' = valid \ {command[p].got} /\ told' = told
               \/ valid' \in {valid, valid \ {command[p].got}} /\ told' = told \cup {command[p].got}
        BY <2>4 DEF C!Cleanup, C!At, C!Revoked, C!Unrevoked
      <3>2. Signs(p) /\ LoginOf(p) /\ Pending(p)
        BY <2>1, <3>1 DEF Signs, Pending, CloudInv, LoginInv
      <3>3. /\ command[p].got # None /\ store[command[p].store] = command[p].found /\ command[p].store \in Store
            /\ \A k \in Store : store[k] # command[p].got
        BY <2>1, <3>1, <3>2, CommandIs DEF LoginOf, CloudInv
      <3>4. command'[p] = None /\ \A q \in Process : q # p => command'[q] = command[q]
        BY <3>1, EndsIs DEF CloudInv
      <3>5. \A q \in Process : q # p /\ Pending(q) => command[q].got # command[p].got
        BY <3>2 DEF CloudInv, FreshInv
      <3>6. told \subseteq told' /\ valid' \subseteq valid /\ (command[p].got \in told' \/ command[p].got \notin valid')
        BY <3>1
      <3>7. \A t \in valid \ valid' : t = command[p].got
        BY <3>1
      <3>8. QED
        BY <2>1, <3>1, <3>2, <3>3, <3>4, <3>5, <3>6, <3>7, EndKeeps
    <2>5. CASE C!Previous(p)
      <3>1. /\ command[p].do = "login" /\ command[p].step = "previous" /\ C!Ends(p) /\ UNCHANGED store
            /\ \/ valid' = valid \ {command[p].found} /\ told' = told
               \/ valid' \in {valid, valid \ {command[p].found}} /\ told' = told \cup {command[p].found}
        BY <2>5 DEF C!Previous, C!At, C!Revoked, C!Unrevoked
      <3>2. Signs(p) /\ LoginOf(p)
        BY <2>1, <3>1 DEF Signs, CloudInv, LoginInv
      <3>3. /\ store[command[p].store] = command[p].got /\ command[p].store \in Store
            /\ \A k \in Store : store[k] # command[p].found
        BY <2>1, <3>1, <3>2, CommandIs DEF LoginOf, CloudInv
      <3>4. command'[p] = None /\ \A q \in Process : q # p => command'[q] = command[q]
        BY <3>1, EndsIs DEF CloudInv
      <3>5. \A q \in Process : q # p /\ Pending(q) => command[q].got # command[p].found
        BY <3>2 DEF CloudInv, FreshInv
      <3>6. told \subseteq told' /\ valid' \subseteq valid /\ (command[p].found \in told' \/ command[p].found \notin valid')
        BY <3>1
      <3>7. \A t \in valid \ valid' : t = command[p].found
        BY <3>1
      <3>8. QED
        BY <2>1, <3>1, <3>2, <3>3, <3>4, <3>5, <3>6, <3>7, EndKeeps
    <2>6. CASE C!Revoke(p)
      <3>1. /\ command[p].do = "logout" /\ command[p].step = "revoke" /\ UNCHANGED store
            /\ \/ valid' = valid \ {command[p].found} /\ told' = told /\ C!Steps(p, "delete")
               \/ /\ valid' \in {valid, valid \ {command[p].found}} /\ told' = told \cup {command[p].found}
                  /\ C!Ends(p)
        BY <2>6 DEF C!Revoke, C!At, C!Revoked, C!Unrevoked
      <3>2. Signs(p) /\ LogoutOf(p)
        BY <2>1, <3>1 DEF Signs, CloudInv, LogoutInv
      <3>3. CASE valid' = valid \ {command[p].found} /\ told' = told /\ C!Steps(p, "delete")
        BY <2>1, <3>1, <3>2, <3>3, StepsIs, RevokeKeeps DEF CloudInv
      <3>4. CASE /\ valid' \in {valid, valid \ {command[p].found}} /\ told' = told \cup {command[p].found}
                 /\ C!Ends(p)
        <4>1. command'[p] = None /\ \A q \in Process : q # p => command'[q] = command[q]
          BY <3>4, EndsIs DEF CloudInv
        <4>2. told \subseteq told' /\ valid' \subseteq valid /\ command[p].found \in told'
              /\ command[p].got \notin valid' /\ \A t \in valid \ valid' : t \in told'
          BY <2>2, <3>2, <3>4 DEF LogoutOf
        <4>3. QED
          BY <2>1, <3>1, <3>2, <4>1, <4>2, EndKeeps
      <3>5. QED
        BY <3>1, <3>3, <3>4
    <2>7. CASE C!Delete(p)
      <3>1. /\ command[p].do = "logout" /\ command[p].step = "delete" /\ C!Ends(p) /\ UNCHANGED valid
            /\ \/ store' = [store EXCEPT ![command[p].store] = None] /\ told' = told
               \/ told' = told \cup {command[p].found} /\ UNCHANGED store
        BY <2>7 DEF C!Delete, C!At
      <3>2. Signs(p) /\ LogoutOf(p)
        BY <2>1, <3>1 DEF Signs, CloudInv, LogoutInv
      <3>3. /\ command[p].got \notin valid' /\ command[p].found \notin valid' /\ command[p].found # None
            /\ store[command[p].store] = command[p].found /\ command[p].store \in Store
        BY <2>1, <2>2, <3>1, <3>2, CommandIs DEF LogoutOf, CloudInv
      <3>4. command'[p] = None /\ \A q \in Process : q # p => command'[q] = command[q]
        BY <3>1, EndsIs DEF CloudInv
      <3>5. command[p].found \in told' \/ \A k \in Store : store'[k] # command[p].found
        <4>1. CASE store' = [store EXCEPT ![command[p].store] = None]
          BY <3>3, <4>1 DEF CloudInv, CloudTypes, UniqueInv
        <4>2. QED
          BY <3>1, <4>1
      <3>6. told \subseteq told'
        BY <3>1
      <3>7. QED
        BY <2>1, <3>1, <3>2, <3>3, <3>4, <3>5, <3>6, EndKeeps
    <2>8. CASE C!Kill(p)
      <3>1. /\ C!Ends(p) /\ UNCHANGED <<store, valid>>
            /\ told' = told \cup ({command[p].got, command[p].found} \ {None})
        BY <2>8 DEF C!Kill
      <3>2. command'[p] = None /\ \A q \in Process : q # p => command'[q] = command[q]
        BY <3>1, EndsIs DEF CloudInv
      <3>3. told \subseteq told' /\ \A t \in {command[p].got, command[p].found} : t \in told' \/ t = None
        BY <3>1
      <3>4. CASE Signs(p)
        <4>1. command[p].do = "logout" => command[p].found # None
          BY <3>4 DEF CloudInv, LogoutInv, LogoutOf
        <4>2. \A t \in {command[p].got, command[p].found} : t \in told' \/ t \notin valid'
          BY <2>2, <3>1, <3>3
        <4>3. command[p].do = "logout" => command[p].found \in told'
          BY <3>3, <4>1
        <4>4. QED
          BY <2>1, <3>1, <3>2, <3>3, <3>4, <4>2, <4>3, EndKeeps
      <3>5. CASE ~Signs(p)
        BY <2>1, <3>1, <3>2, <3>3, <3>5, ReaderKeeps
      <3>6. QED
        BY <3>4, <3>5
    <2>9. QED
      BY <1>9, <2>3, <2>4, <2>5, <2>6, <2>7, <2>8
  <1>10. QED
    BY <1>1, <1>2, <1>3, <1>4, <1>5, <1>6, <1>7, <1>8, <1>9 DEF C!Next

LEMMA CloudInit == C!Init => CloudInv
  <1> SUFFICES ASSUME C!Init PROVE CloudInv
    OBVIOUS
  <1>1. \A p \in Process : command[p] = None
    BY DEF C!Init
  <1>2. \A k \in Store : store[k] = None
    BY DEF C!Init
  <1>3. CloudTypes
    BY CloudAssumption DEF C!Init, CloudTypes, Tokens
  <1>4. PagesInv /\ OneEach /\ LoginInv /\ LogoutInv /\ FreshInv
    BY <1>1 DEF PagesInv, OneEach, LoginInv, LogoutInv, FreshInv, Signs, Pending
  <1>5. UniqueInv /\ KnownInv /\ C!KeptIsValid
    BY <1>2 DEF C!Init, UniqueInv, KnownInv, C!KeptIsValid
  <1>6. QED
    BY <1>3, <1>4, <1>5 DEF CloudInv

LEMMA CloudStep ==
  ASSUME ~Overlap, CloudInv, [C!Next]_(C!vars)
  PROVE  CloudInv'
  <1>1. CloudTypes' /\ PagesInv'
    BY CloudTypesStep DEF CloudInv
  <1>2. StoresInv'
    BY <1>1, StoresStep
  <1>3. QED
    BY <1>1, <1>2 DEF CloudInv, StoresInv

\* A list that names each page once has as many pages as names.
LEMMA PagesCount ==
  ASSUME NEW Elem, NEW s \in Seq(Elem), \A i, j \in 1 .. Len(s) : s[i] = s[j] => i = j
  PROVE  Cardinality({s[i] : i \in 1 .. Len(s)}) = Len(s)
  <1> DEFINE T == {s[i] : i \in 1 .. Len(s)}
  <1>1. Len(s) \in Nat
    OBVIOUS
  <1>2. IsFiniteSet(1 .. Len(s)) /\ Cardinality(1 .. Len(s)) = Len(s)
    <2> DEFINE n == Len(s)
    <2>1. n \in Nat
      BY <1>1
    <2> HIDE DEF n
    <2>2. IsFiniteSet(1 .. n) /\ Cardinality(1 .. n) = IF 1 > n THEN 0 ELSE n - 1 + 1
      <3>1. 1 \in Int /\ n \in Int
        BY <2>1
      <3>2. QED
        BY <3>1, FS_Interval
    <2>3. (IF 1 > n THEN 0 ELSE n - 1 + 1) = n
      BY <2>1
    <2>4. IsFiniteSet(1 .. n) /\ Cardinality(1 .. n) = n
      BY <2>2, <2>3
    <2>5. QED
      BY <2>4 DEF n
  <1>3. s \in Bijection(1 .. Len(s), T)
    <2>1. /\ \A i \in 1 .. Len(s) : s[i] \in T
          /\ \A t \in T : \E i \in 1 .. Len(s) : s[i] = t
      BY Zenon
    <2> HIDE DEF T
    <2>2. s = [i \in 1 .. Len(s) |-> s[i]]
      OBVIOUS
    <2>3. s \in [1 .. Len(s) -> T]
      BY <2>1, <2>2
    <2>4. QED
      BY <2>1, <2>3, Fun_IsBij
  <1> HIDE DEF T
  <1>4. Cardinality(T) = Cardinality(1 .. Len(s))
    BY <1>2, <1>3, FS_Bijection, Fun_ExistsBij
  <1>5. QED
    BY <1>2, <1>4 DEF T

LEMMA CloudIsSafe == CloudInv => C!CloudIsKept
  <1> SUFFICES ASSUME CloudInv PROVE C!CloudIsKept
    OBVIOUS
  <1>1. C!NoTokenIsForgotten
    <2> SUFFICES ASSUME NEW t \in valid PROVE t \in C!Kept \cup C!InHand \cup told
      BY DEF C!NoTokenIsForgotten
    <2>1. \/ t \in told
          \/ \E k \in Store : store[k] = t
          \/ \E p \in Process : Signs(p) /\ (command[p].got = t \/ command[p].found = t)
      BY DEF CloudInv, KnownInv
    <2>2. CASE \E p \in Process : Signs(p) /\ (command[p].got = t \/ command[p].found = t)
      BY <2>2 DEF Signs, C!InHand, C!Idle
    <2>3. CASE \E k \in Store : store[k] = t
      BY <2>3 DEF C!Kept
    <2>4. QED
      BY <2>1, <2>2, <2>3
  <1>2. C!NoPageTwice
    <2>0. \A T : C!Cardinality(T) = Cardinality(T)
      BY Zenon DEF C!Cardinality, Cardinality
    <2> SUFFICES ASSUME NEW p \in Process, ~C!Idle(p)
                 PROVE  Cardinality({command[p].pages[i] : i \in 1..Len(command[p].pages)}) = Len(command[p].pages)
      BY <2>0, Zenon DEF C!NoPageTwice
    <2>1. command[p] # None
      BY DEF C!Idle
    <2>2. command[p].pages \in Seq(Page \cup {C!FirstPage})
      BY <2>1, CommandIs DEF CloudInv
    <2>3. \A i, j \in 1 .. Len(command[p].pages) : command[p].pages[i] = command[p].pages[j] => i = j
      BY <2>1 DEF CloudInv, PagesInv
    <2>4. QED
      BY <2>2, <2>3, PagesCount
  <1>3. QED
    BY <1>1, <1>2 DEF C!CloudIsKept, CloudInv

\* Whatever fails and whoever is killed, a token that the cloud accepts is
\* kept, or in the hands of a login or logout, or the person was told of it;
\* what is kept is valid, and a listing reads no page twice - when no two
\* commands change the same store at once (cloud.go:152-188, 276-283, 578-606).
THEOREM CloudKept ==
  ASSUME ~Overlap
  PROVE  C!Spec => []C!CloudIsKept
  <1>1. C!Spec => []CloudInv
    BY CloudInit, CloudStep, PTL DEF C!Spec
  <1>2. QED
    BY <1>1, CloudIsSafe, PTL

-----------------------------------------------------------------------------
(* Data: the listing *)

LEMMA ListedIs ==
  ASSUME MaxId \in Nat
  PROVE  /\ IsFiniteSet(R!Present) /\ Cardinality(R!Present) \in Nat
         /\ Len(R!Listed) = Cardinality(R!Present)
         /\ DOMAIN R!Listed = 1 .. Cardinality(R!Present)
  <1>1. IsFiniteSet(R!Present)
    <2>1. IsFiniteSet(1 .. MaxId)
      BY FS_Interval
    <2>2. R!Present \subseteq 1 .. MaxId
      BY DEF R!Present, R!RecordId
    <2>3. QED
      BY <2>1, <2>2, FS_Subset
  <1>2. Cardinality(R!Present) \in Nat
    BY <1>1, FS_CardinalityType
  <1>3. R!Cardinality(R!Present) = Cardinality(R!Present)
    BY DEF R!Cardinality, Cardinality, R!IsFiniteSet, IsFiniteSet
  <1>4. QED
    BY <1>1, <1>2, <1>3 DEF R!Listed

\* A page cut from the records up to its end, and one cut at once, are the same.
LEMMA PageOfPages ==
  ASSUME NEW X, NEW list \in Seq(X), NEW offset \in Nat, NEW limit \in Nat
  PROVE  LET upto == IF offset + limit < Len(list) THEN offset + limit ELSE Len(list)
             shorter == SubSeq(list, 1, upto)
         IN SubSeq(shorter, 1 + (IF offset < Len(shorter) THEN offset ELSE Len(shorter)), Len(shorter))
              = SubSeq(list, offset + 1, upto)
  <1> DEFINE upto == IF offset + limit < Len(list) THEN offset + limit ELSE Len(list)
             shorter == SubSeq(list, 1, upto)
             first == 1 + (IF offset < Len(shorter) THEN offset ELSE Len(shorter))
             nested == SubSeq(shorter, first, Len(shorter))
             flat == SubSeq(list, offset + 1, upto)
  <1>1. Len(list) \in Nat /\ upto \in Nat /\ upto <= Len(list) /\ upto <= offset + limit
    BY LenProperties
  <1>2. shorter \in Seq(X) /\ Len(shorter) = upto /\ \A i \in 1 .. upto : shorter[i] = list[i]
    <2>1. \A i \in 1 .. upto : list[i] \in X
      BY <1>1, ElementOfSeq
    <2>2. QED
      BY <1>1, <2>1, SubSeqProperties
  <1> HIDE DEF shorter, upto
  <1>3. CASE offset < upto
    <2>1. first = offset + 1 /\ Len(shorter) = upto
      BY <1>2, <1>3
    <2>2. /\ nested \in Seq(X) /\ Len(nested) = upto - offset
          /\ \A i \in 1 .. upto - offset : nested[i] = shorter[offset + i]
      <3>1. \A i \in offset + 1 .. upto : shorter[i] \in X
        BY <1>1, <1>2, ElementOfSeq
      <3>2. QED
        BY <1>1, <1>2, <1>3, <2>1, <3>1, SubSeqProperties
    <2>3. /\ flat \in Seq(X) /\ Len(flat) = upto - offset
          /\ \A i \in 1 .. upto - offset : flat[i] = list[offset + i]
      <3>1. \A i \in offset + 1 .. upto : list[i] \in X
        BY <1>1, ElementOfSeq
      <3>2. QED
        BY <1>1, <1>3, <3>1, SubSeqProperties
    <2>4. \A i \in 1 .. upto - offset : nested[i] = flat[i]
      BY <1>1, <1>2, <2>2, <2>3
    <2> HIDE DEF nested, flat
    <2>5. nested = flat
      BY <1>1, <1>3, <2>2, <2>3, <2>4, SeqEqual
    <2>6. QED
      BY <2>5 DEF nested, flat, first, shorter, upto
  <1>4. CASE ~(offset < upto)
    <2>1. first = upto + 1
      BY <1>1, <1>2, <1>4
    <2>2. nested = << >>
      BY <1>1, <1>2, <2>1, SubSeqProperties
    <2>3. flat = << >>
      BY <1>1, <1>4, SubSeqProperties
    <2>4. QED
      BY <2>2, <2>3 DEF nested, flat, first, shorter, upto
  <1>5. QED
    BY <1>3, <1>4

LEMMA ListedSeq ==
  ASSUME MaxId \in Nat
  PROVE  /\ R!Listed \in Seq({R!Listed[i] : i \in DOMAIN R!Listed})
         /\ Len(R!Listed) = Cardinality(R!Present) /\ Len(R!Listed) \in Nat
  <1> DEFINE X == {R!Listed[i] : i \in DOMAIN R!Listed}
             n == Cardinality(R!Present)
             placed(m) == CHOOSE i \in R!Present : R!Cardinality({j \in R!Present : j < i}) = m - 1
  <1>1. R!Listed = [i \in 1 .. n |-> placed(i)] /\ n \in Nat
    <2>1. R!Cardinality(R!Present) = Cardinality(R!Present)
      BY DEF R!Cardinality, Cardinality, R!IsFiniteSet, IsFiniteSet
    <2>2. n \in Nat
      BY ListedIs
    <2>3. QED
      BY <2>1, <2>2 DEF R!Listed
  <1> HIDE DEF placed
  <1>2. \A i \in 1 .. n : placed(i) \in X
    BY <1>1
  <1> HIDE DEF X
  <1>3. R!Listed \in Seq(X)
    BY <1>1, <1>2
  <1>4. QED
    BY <1>1, <1>3, ListedIs DEF X

LEMMA PagesAlwaysAgree ==
  ASSUME MaxId \in Nat
  PROVE  R!PagesAgree
  <1> SUFFICES ASSUME NEW offset \in 0 .. MaxId + 1, NEW limit \in 1 .. MaxId
               PROVE  R!PageOf(TRUE, offset, limit) = R!PageOf(FALSE, offset, limit)
    BY DEF R!PagesAgree
  <1> DEFINE X == {R!Listed[i] : i \in DOMAIN R!Listed}
             upto == IF offset + limit < Len(R!Listed) THEN offset + limit ELSE Len(R!Listed)
             shorter == SubSeq(R!Listed, 1, upto)
  <1>1. R!Listed \in Seq(X) /\ offset \in Nat /\ limit \in Nat
    BY ListedSeq
  <1> HIDE DEF X
  <1>2. SubSeq(shorter, 1 + (IF offset < Len(shorter) THEN offset ELSE Len(shorter)), Len(shorter))
          = SubSeq(R!Listed, offset + 1, upto)
    BY <1>1, PageOfPages
  <1>3. CASE offset > MaxOffset
    BY <1>3, Zenon DEF R!PageOf
  <1>4. CASE ~(offset > MaxOffset)
    BY <1>2, <1>4, Zenon DEF R!PageOf, R!Query, R!DTQL
  <1>5. QED
    BY <1>3, <1>4

\* What the history keeps of a state, and of those before it.
LEMMA Truths ==
  ASSUME NEW c, NEW before, NEW isMounted, NEW isDeclared, NEW records
  PROVE  LET T == R!True(c, before, isMounted, isDeclared, records)
             count == R!Cardinality({i \in R!RecordId : records[i] # 0})
         IN /\ before \subseteq T
            /\ before \subseteq R!Truth => T \subseteq R!Truth
            /\ records[c.id] # 0 => "present" \in T
            /\ isMounted /\ isDeclared /\ records[c.id] = 0 => "missing" \in T
            /\ records[c.id] = 0 /\ "present" \in before => "went" \in T
            /\ "mine" \in T <=> ("mine" \in before \/ records[c.id] = c.number)
            /\ IF count > Limit THEN "many" \in T ELSE "few" \in T
  <1> DEFINE count == R!Cardinality({i \in R!RecordId : records[i] # 0})
             A == IF records[c.id] # 0 THEN {"present"} ELSE {}
             B == IF isMounted /\ isDeclared /\ records[c.id] = 0 THEN {"missing"} ELSE {}
             E == IF records[c.id] = 0 /\ "present" \in before THEN {"went"} ELSE {}
             F == IF records[c.id] = c.number THEN {"mine"} ELSE {}
             M == IF count > Limit THEN {"many"} ELSE {"few"}
             T == R!True(c, before, isMounted, isDeclared, records)
  <1>1. T = before \cup A \cup B \cup E \cup F \cup M
    BY DEF R!True
  <1>2. /\ A \subseteq {"present"} /\ B \subseteq {"missing"} /\ E \subseteq {"went"} /\ F \subseteq {"mine"}
        /\ M \subseteq {"many", "few"}
        /\ records[c.id] # 0 => "present" \in A
        /\ isMounted /\ isDeclared /\ records[c.id] = 0 => "missing" \in B
        /\ records[c.id] = 0 /\ "present" \in before => "went" \in E
        /\ "mine" \in F <=> records[c.id] = c.number
        /\ IF count > Limit THEN "many" \in M ELSE "few" \in M
    <2> HIDE DEF count
    <2>1. QED
      OBVIOUS
  <1> HIDE DEF A, B, E, F, M, T, count
  <1>3. QED
    <2>1. /\ before \subseteq T
          /\ before \subseteq R!Truth => T \subseteq R!Truth
          /\ records[c.id] # 0 => "present" \in T
          /\ isMounted /\ isDeclared /\ records[c.id] = 0 => "missing" \in T
          /\ records[c.id] = 0 /\ "present" \in before => "went" \in T
          /\ "mine" \in T <=> ("mine" \in before \/ records[c.id] = c.number)
          /\ IF count > Limit THEN "many" \in T ELSE "few" \in T
      BY <1>1, <1>2 DEF R!Truth
    <2>2. QED
      BY <2>1 DEF T, count

\* What a command that is done may say, of what was true while it ran.
Told(what, truths) ==
  /\ what \in {"set", "updated"} => "mine" \in truths
  /\ what = "added" => {"mine", "missing"} \subseteq truths
  /\ what = "deleted" => "went" \in truths
  /\ what \in {"nothing_to_delete", "not_found"} => "missing" \in truths
  /\ what \in {"shown", "already_exists"} => "present" \in truths
  /\ what = "more" => "many" \in truths
  /\ what = "all" => "few" \in truths
  /\ what \in R!Code \ {"not_running", "invalid_argument"} => "mine" \notin truths

DataTypes ==
  /\ mounted \in BOOLEAN /\ declared \in BOOLEAN
  /\ record \in [R!RecordId -> 0 .. MaxRuns + 1] /\ ran \in 0 .. MaxRuns
  /\ doing \in [Process -> R!Command \cup {None}]
  /\ seen \in [Process -> SUBSET R!Truth]
  /\ said \in [Process -> R!Code \cup R!Done \cup {"nothing"}]

\* Each command has its own number, and what it is to write is not there yet.
NumbersApart ==
  /\ \A i \in R!RecordId : record[i] \in 0 .. ran \cup {MaxRuns + 1}
  /\ \A p \in Process : doing[p] # None =>
        /\ doing[p].number \in 1 .. ran
        /\ \A i \in R!RecordId : record[i] # doing[p].number
        /\ \A q \in Process \ {p} : doing[q] # None => doing[q].number # doing[p].number

\* What is true now was noted.
NowNoted(p) ==
  LET c == doing[p] IN
  /\ record[c.id] # 0 => "present" \in seen[p]
  /\ mounted /\ declared /\ record[c.id] = 0 => "missing" \in seen[p]
  /\ IF R!Cardinality(R!Present) > Limit THEN "many" \in seen[p] ELSE "few" \in seen[p]
  /\ "mine" \notin seen[p]
  /\ c.step = "remove" => c.verb = "delete" /\ "present" \in seen[p]

DataInv ==
  /\ DataTypes /\ NumbersApart
  /\ \A p \in Process : IF doing[p] = None THEN Told(said[p], seen[p]) ELSE NowNoted(p)

LEMMA DataStarts == R!Init => DataInv
  <1> SUFFICES ASSUME R!Init
               PROVE  DataInv
    OBVIOUS
  <1>1. DataTypes
    <2>1. {} \in SUBSET R!Truth /\ "nothing" \in R!Code \cup R!Done \cup {"nothing"}
      OBVIOUS
    <2>2. /\ seen \in [Process -> SUBSET R!Truth] /\ said \in [Process -> R!Code \cup R!Done \cup {"nothing"}]
          /\ doing \in [Process -> R!Command \cup {None}]
      BY <2>1 DEF R!Init
    <2>3. mounted \in BOOLEAN /\ declared \in BOOLEAN
      BY DEF R!Init
    <2>4. record \in [R!RecordId -> 0 .. MaxRuns + 1] /\ ran \in 0 .. MaxRuns
      BY DataAssumption DEF R!Init
    <2>5. QED
      BY <2>2, <2>3, <2>4 DEF DataTypes
  <1>2. NumbersApart
    BY DEF R!Init, NumbersApart
  <1>3. \A p \in Process : IF doing[p] = None THEN Told(said[p], seen[p]) ELSE NowNoted(p)
    BY DEF R!Init, Told, R!Code
  <1>4. QED
    BY <1>1, <1>2, <1>3 DEF DataInv

\* What the history is after a step.
LEMMA WatchIs ==
  ASSUME DataInv, R!Watch, NEW p \in Process
  PROVE  /\ doing[p] # None => seen'[p] = R!True(doing[p], seen[p], mounted', declared', record')
         /\ doing[p] = None /\ doing'[p] # None => seen'[p] = R!True(doing'[p], {}, mounted', declared', record')
         /\ doing[p] = None /\ doing'[p] = None => seen'[p] = seen[p]
  BY DEF R!Watch

\* What a process that is at work has noted after a step.
LEMMA WatchNotes ==
  ASSUME DataInv, R!Watch, NEW p \in Process, doing[p] # None
  PROVE  LET c == doing[p]
         IN /\ seen[p] \subseteq seen'[p]
            /\ record'[c.id] # 0 => "present" \in seen'[p]
            /\ mounted' /\ declared' /\ record'[c.id] = 0 => "missing" \in seen'[p]
            /\ record'[c.id] = 0 /\ "present" \in seen[p] => "went" \in seen'[p]
            /\ "mine" \in seen'[p] <=> ("mine" \in seen[p] \/ record'[c.id] = c.number)
            /\ IF R!Cardinality({i \in R!RecordId : record'[i] # 0}) > Limit
               THEN "many" \in seen'[p] ELSE "few" \in seen'[p]
  <1> DEFINE c == doing[p]
  <1>1. seen'[p] = R!True(c, seen[p], mounted', declared', record')
    BY WatchIs
  <1>2. LET T == R!True(c, seen[p], mounted', declared', record')
        IN /\ seen[p] \subseteq T
           /\ record'[c.id] # 0 => "present" \in T
           /\ mounted' /\ declared' /\ record'[c.id] = 0 => "missing" \in T
           /\ record'[c.id] = 0 /\ "present" \in seen[p] => "went" \in T
           /\ "mine" \in T <=> ("mine" \in seen[p] \/ record'[c.id] = c.number)
           /\ IF R!Cardinality({i \in R!RecordId : record'[i] # 0}) > Limit THEN "many" \in T ELSE "few" \in T
    BY Truths
  <1>3. QED
    BY <1>1, <1>2

LEMMA WatchTypes ==
  ASSUME DataInv, R!Watch
  PROVE  seen' \in [Process -> SUBSET R!Truth]
  <1> DEFINE w(p) == IF doing[p] # None THEN R!True(doing[p], seen[p], mounted', declared', record')
                     ELSE IF doing'[p] # None THEN R!True(doing'[p], {}, mounted', declared', record')
                     ELSE seen[p]
  <1>1. seen' = [p \in Process |-> w(p)]
    BY DEF R!Watch
  <1>2. \A p \in Process : w(p) \in SUBSET R!Truth
    <2> TAKE p \in Process
    <2>1. seen[p] \subseteq R!Truth
      BY DEF DataInv, DataTypes
    <2>2. R!True(doing[p], seen[p], mounted', declared', record') \subseteq R!Truth
      BY <2>1, Truths
    <2>3. R!True(doing'[p], {}, mounted', declared', record') \subseteq R!Truth
      BY Truths
    <2>4. QED
      BY <2>1, <2>2, <2>3
  <1> HIDE DEF w
  <1>3. QED
    BY <1>1, <1>2

\* A command that goes on while the records, the database or the schema change:
\* it notes what is true afterwards.
LEMMA KeepsNoting ==
  ASSUME DataInv, R!Watch, NEW p \in Process,
         doing[p] # None, doing'[p] # None, doing'[p].id = doing[p].id, doing'[p].number = doing[p].number,
         doing'[p].step = "remove" => doing'[p].verb = "delete" /\ (doing[p].step = "remove" \/ record[doing[p].id] # 0),
         record'[doing[p].id] # doing[p].number
  PROVE  NowNoted(p)'
  <1> DEFINE c == doing[p]
  <1>2. /\ seen[p] \subseteq seen'[p]
        /\ record'[c.id] # 0 => "present" \in seen'[p]
        /\ mounted' /\ declared' /\ record'[c.id] = 0 => "missing" \in seen'[p]
        /\ "mine" \in seen'[p] <=> ("mine" \in seen[p] \/ record'[c.id] = c.number)
        /\ IF R!Cardinality({i \in R!RecordId : record'[i] # 0}) > Limit THEN "many" \in seen'[p] ELSE "few" \in seen'[p]
    BY WatchNotes
  <1>3. NowNoted(p)
    BY DEF DataInv
  <1>4. R!Present' = {i \in R!RecordId : record'[i] # 0}
    BY DEF R!Present
  <1>5. doing'[p].step = "remove" => "present" \in seen'[p]
    BY <1>2, <1>3 DEF NowNoted
  <1>6. "mine" \notin seen'[p]
    BY <1>2, <1>3 DEF NowNoted
  <1>7. IF R!Cardinality(R!Present') > Limit THEN "many" \in seen'[p] ELSE "few" \in seen'[p]
    BY <1>2, <1>4
  <1>8. QED
    BY <1>2, <1>5, <1>6, <1>7 DEF NowNoted

\* What a process that does not move is left with.
LEMMA OthersKeep ==
  ASSUME DataInv, R!Watch, NEW p \in Process,
         doing'[p] = doing[p], said'[p] = said[p],
         doing[p] # None => record'[doing[p].id] # doing[p].number
  PROVE  IF doing'[p] = None THEN Told(said'[p], seen'[p]) ELSE NowNoted(p)'
  <1>1. CASE doing[p] = None
    <2>1. seen'[p] = seen[p] /\ Told(said[p], seen[p])
      BY <1>1, WatchIs DEF DataInv
    <2>2. QED
      BY <1>1, <2>1
  <1>2. CASE doing[p] # None
    <2>1. NowNoted(p)
      BY <1>2 DEF DataInv
    <2>2. doing'[p].step = "remove" => doing'[p].verb = "delete" /\ doing[p].step = "remove"
      BY <2>1 DEF NowNoted
    <2>3. NowNoted(p)'
      BY <1>2, <2>2, KeepsNoting
    <2>4. QED
      BY <1>2, <2>3
  <1>3. QED
    BY <1>1, <1>2

\* Steps that change the records, and no command: a step of nobody's command.
LEMMA SetsKeep ==
  ASSUME DataInv, R!Watch, UNCHANGED <<ran, doing, said>>,
         mounted' \in BOOLEAN, declared' \in BOOLEAN,
         record' = record \/ record' = [i \in R!RecordId |-> 0]
  PROVE  DataInv'
  <1>1. record' \in [R!RecordId -> 0 .. MaxRuns + 1] /\ \A i \in R!RecordId : record'[i] \in {record[i], 0}
    BY DataAssumption DEF DataInv, DataTypes
  <1>2. DataTypes'
    <2>1. seen' \in [Process -> SUBSET R!Truth]
      BY WatchTypes
    <2>2. QED
      BY <1>1, <2>1 DEF DataInv, DataTypes
  <1>3. NumbersApart'
    <2>1. ran \in Nat
      BY DataAssumption DEF DataInv, DataTypes
    <2>2. \A i \in R!RecordId : record'[i] \in 0 .. ran \cup {MaxRuns + 1}
      BY <1>1, <2>1 DEF DataInv, NumbersApart
    <2>3. \A p \in Process : doing[p] # None =>
             /\ doing[p].number \in 1 .. ran
             /\ \A i \in R!RecordId : record'[i] # doing[p].number
             /\ \A q \in Process \ {p} : doing[q] # None => doing[q].number # doing[p].number
      BY <1>1, <2>1 DEF DataInv, NumbersApart
    <2>4. QED
      BY <2>2, <2>3 DEF NumbersApart
  <1>4. \A p \in Process : IF doing'[p] = None THEN Told(said'[p], seen'[p]) ELSE NowNoted(p)'
    <2> TAKE p \in Process
    <2>1. doing[p] # None => record'[doing[p].id] # doing[p].number
      <3>1. doing[p] # None => doing[p] \in R!Command
        BY DEF DataInv, DataTypes
      <3>2. doing[p] # None => doing[p].id \in R!RecordId
        BY <3>1 DEF R!Command
      <3>3. QED
        BY <1>1, <3>2 DEF DataInv, NumbersApart
    <2>2. QED
      BY <2>1, OthersKeep
  <1>5. QED
    BY <1>2, <1>3, <1>4 DEF DataInv

\* A command that ends, having written its record, removed it, or neither.
LEMMA EndsKeep ==
  ASSUME DataInv, R!Watch, NEW p \in Process, doing[p] # None,
         NEW what \in R!Code \cup R!Done, R!Ends(p, what), UNCHANGED <<mounted, declared, ran>>,
         \/ record' = record
         \/ record' = [record EXCEPT ![doing[p].id] = doing[p].number]
         \/ record' = [record EXCEPT ![doing[p].id] = 0],
         Told(what, seen'[p])
  PROVE  DataInv'
  <1> DEFINE c == doing[p]
  <1>0. c \in R!Command /\ c.id \in R!RecordId /\ c.number \in 1 .. ran /\ ran \in Nat /\ ran <= MaxRuns
    <2>1. c \in R!Command /\ ran \in 0 .. MaxRuns /\ c.number \in 1 .. ran
      BY DEF DataInv, DataTypes, NumbersApart
    <2>2. QED
      BY <2>1, DataAssumption DEF R!Command
  <1>1. /\ record' \in [R!RecordId -> 0 .. MaxRuns + 1]
        /\ \A i \in R!RecordId : record'[i] \in {record[i], 0, c.number}
    BY <1>0, DataAssumption DEF DataInv, DataTypes
  <1>2. /\ doing' \in [Process -> R!Command \cup {None}] /\ doing'[p] = None
        /\ \A q \in Process \ {p} : doing'[q] = doing[q] /\ said'[q] = said[q]
        /\ said' \in [Process -> R!Code \cup R!Done \cup {"nothing"}] /\ said'[p] = what
    <2>1. doing \in [Process -> R!Command \cup {None}] /\ said \in [Process -> R!Code \cup R!Done \cup {"nothing"}]
      BY DEF DataInv, DataTypes
    <2>2. QED
      BY <2>1 DEF R!Ends, R!Says
  <1>3. DataTypes'
    <2>1. seen' \in [Process -> SUBSET R!Truth]
      BY WatchTypes
    <2>2. QED
      BY <1>1, <1>2, <2>1 DEF DataInv, DataTypes
  <1>4. \A q \in Process : doing'[q] # None => q # p /\ doing'[q] = doing[q] /\ doing[q].number # c.number
    BY <1>2 DEF DataInv, NumbersApart
  <1>5. NumbersApart'
    <2>2. \A i \in R!RecordId : record'[i] \in 0 .. ran \cup {MaxRuns + 1}
      BY <1>0, <1>1 DEF DataInv, NumbersApart
    <2>3. \A q \in Process : doing'[q] # None =>
             /\ doing'[q].number \in 1 .. ran
             /\ \A i \in R!RecordId : record'[i] # doing'[q].number
             /\ \A q2 \in Process \ {q} : doing'[q2] # None => doing'[q2].number # doing'[q].number
      BY <1>0, <1>1, <1>4 DEF DataInv, NumbersApart
    <2>4. QED
      BY <2>2, <2>3 DEF NumbersApart
  <1>6. \A q \in Process : IF doing'[q] = None THEN Told(said'[q], seen'[q]) ELSE NowNoted(q)'
    <2> TAKE q \in Process
    <2>1. CASE q = p
      BY <1>2, <2>1
    <2>2. CASE q # p
      <3>1. doing[q] # None => doing[q].id \in R!RecordId /\ doing[q].number # c.number /\ doing[q].number \in 1 .. ran
                               /\ record[doing[q].id] # doing[q].number
        <4>1. doing[q] # None => doing[q] \in R!Command
          BY DEF DataInv, DataTypes
        <4>2. QED
          BY <1>4, <1>2, <2>2, <4>1 DEF DataInv, NumbersApart, R!Command
      <3>2. doing[q] # None => record'[doing[q].id] # doing[q].number
        BY <1>1, <3>1
      <3>3. QED
        BY <1>2, <2>2, <3>2, OthersKeep
    <2>3. QED
      BY <2>1, <2>2
  <1>7. QED
    BY <1>3, <1>5, <1>6 DEF DataInv

\* A command that fails says why, and has written nothing.
LEMMA FailsTold ==
  ASSUME DataInv, R!Watch, NEW p \in Process, doing[p] # None,
         UNCHANGED <<mounted, declared, record>>,
         NEW method \in {"GET", "PATCH", "POST", "PUT", "DELETE", "QUERY"},
         R!Fault(method, doing[p].id) # "none"
  PROVE  LET what == R!MapV1(R!Fault(method, doing[p].id))
         IN /\ what \in R!Code
            /\ Told(what, seen'[p])
            /\ R!MissingRecord(R!Fault(method, doing[p].id)) => Told("nothing_to_delete", seen'[p])
  <1> DEFINE c == doing[p]  fault == R!Fault(method, c.id)
  <1>1. NowNoted(p) /\ c \in R!Command /\ record[c.id] # c.number
    <2>1. NowNoted(p) /\ c \in R!Command
      BY DEF DataInv, DataTypes
    <2>2. QED
      BY <2>1 DEF DataInv, NumbersApart, R!Command
  <1>2. seen[p] \subseteq seen'[p] /\ "mine" \notin seen'[p]
    <2>1. seen[p] \subseteq seen'[p] /\ ("mine" \in seen'[p] <=> ("mine" \in seen[p] \/ record'[c.id] = c.number))
      BY WatchNotes
    <2>2. QED
      BY <1>1, <2>1 DEF NowNoted
  <1>3. /\ fault \in {"database not found", "not declared", "already_exists", "not_found"}
        /\ fault = "already_exists" => record[c.id] # 0
        /\ fault = "not_found" => mounted /\ declared /\ record[c.id] = 0
    BY DEF R!Fault
  <1>4. /\ R!MapV1(fault) \in {"unknown_database", "schema_required", "already_exists", "not_found"}
        /\ R!MapV1(fault) = "already_exists" => fault = "already_exists"
        /\ R!MapV1(fault) = "not_found" => fault = "not_found"
    <2> HIDE DEF fault
    <2>1. QED
      BY <1>3 DEF R!MapV1
  <1>5. /\ R!MapV1(fault) = "already_exists" => "present" \in seen'[p]
        /\ R!MapV1(fault) = "not_found" => "missing" \in seen'[p]
    BY <1>1, <1>2, <1>3, <1>4 DEF NowNoted
  <1> HIDE DEF fault
  <1>6. R!MapV1(fault) \in R!Code /\ Told(R!MapV1(fault), seen'[p])
    BY <1>2, <1>4, <1>5 DEF Told, R!Code
  <1>7. R!MissingRecord(fault) => Told("nothing_to_delete", seen'[p])
    BY <1>5 DEF R!MissingRecord, Told, R!Code
  <1>8. QED
    BY <1>6, <1>7 DEF fault

\* A listing asks for one record more than it shows.
LEMMA AsksForMore == Len(R!Query(R!Ask)) > Limit <=> R!Cardinality(R!Present) > Limit
  <1>1. R!Listed \in Seq({R!Listed[i] : i \in DOMAIN R!Listed}) /\ Len(R!Listed) \in Nat
        /\ Len(R!Listed) = Cardinality(R!Present)
    BY ListedSeq, DataAssumption
  <1>2. R!Cardinality(R!Present) = Len(R!Listed)
    <2>1. R!Cardinality(R!Present) = Cardinality(R!Present)
      BY DEF R!Cardinality, Cardinality, R!IsFiniteSet, IsFiniteSet
    <2>2. QED
      BY <1>1, <2>1
  <1> DEFINE upto == IF Limit + 1 < Len(R!Listed) THEN Limit + 1 ELSE Len(R!Listed)
  <1>3. upto \in Nat /\ upto <= Len(R!Listed)
    BY <1>1, DataAssumption
  <1>4. R!Query(R!Ask) = SubSeq(R!Listed, 1, upto)
    BY DEF R!Query, R!Ask
  <1>5. Len(SubSeq(R!Listed, 1, upto)) = upto
    <2>1. \A i \in 1 .. upto : R!Listed[i] \in {R!Listed[j] : j \in DOMAIN R!Listed}
      BY <1>1, <1>3
    <2> HIDE DEF upto
    <2>2. QED
      BY <1>3, <2>1, SubSeqProperties
  <1>6. QED
    BY <1>1, <1>2, <1>4, <1>5, DataAssumption

LEMMA DataBeginKeeps ==
  ASSUME DataInv, R!Watch, NEW p \in Process, NEW verb \in R!Verb, NEW kind \in R!Kind,
         R!Begin(p, verb, kind)
  PROVE  DataInv'
  <1>0. /\ doing[p] = None /\ ran \in Nat /\ MaxRuns \in Nat /\ ran + 1 \in 1 .. MaxRuns /\ ran' = ran + 1
        /\ UNCHANGED <<mounted, declared, record>>
    BY DataAssumption DEF R!Begin, DataInv, DataTypes
  <1>1. seen' \in [Process -> SUBSET R!Truth]
    BY WatchTypes
  <1>2. \A q \in Process : doing[q] # None => record'[doing[q].id] # doing[q].number
    <2> TAKE q \in Process
    <2>1. doing[q] # None => doing[q].id \in R!RecordId
      BY DEF DataInv, DataTypes, R!Command
    <2>2. QED
      BY <1>0, <2>1 DEF DataInv, NumbersApart
  <1>3. CASE kind \in R!Wants(verb)
    <2>1. PICK id \in R!RecordId, ifExists \in BOOLEAN :
             doing' = [doing EXCEPT ![p] = [verb |-> verb, id |-> id, number |-> ran + 1,
                                            ifExists |-> ifExists, step |-> "call"]]
      BY <1>3 DEF R!Begin
    <2> DEFINE c == [verb |-> verb, id |-> id, number |-> ran + 1, ifExists |-> ifExists, step |-> "call"]
    <2>2. c \in R!Command /\ c # None /\ c.id = id /\ c.number = ran + 1 /\ c.step = "call"
      BY <1>0, DataAssumption DEF R!Command
    <2> HIDE DEF c
    <2>3. /\ doing' \in [Process -> R!Command \cup {None}] /\ doing'[p] = c
          /\ \A q \in Process \ {p} : doing'[q] = doing[q]
          /\ said' \in [Process -> R!Code \cup R!Done \cup {"nothing"}]
          /\ \A q \in Process \ {p} : said'[q] = said[q]
      BY <1>3, <2>1, <2>2 DEF c, R!Begin, R!Says, DataInv, DataTypes
    <2>4. DataTypes'
      BY <1>0, <1>1, <2>3 DEF DataInv, DataTypes
    <2>5. NumbersApart'
      <3>1. \A i \in R!RecordId : record[i] \in 0 .. ran \cup {MaxRuns + 1}
        BY DEF DataInv, NumbersApart
      <3>2. \A i \in R!RecordId : record[i] \in 0 .. ran + 1 \cup {MaxRuns + 1} /\ record[i] # ran + 1
        BY <1>0, <3>1
      <3>3. \A q \in Process \ {p} : doing'[q] # None =>
               doing'[q] = doing[q] /\ doing[q].number \in 1 .. ran /\ doing[q].number # ran + 1
               /\ \A i \in R!RecordId : record[i] # doing[q].number
        BY <1>0, <2>3 DEF DataInv, NumbersApart
      <3>4. \A q \in Process : doing'[q] # None =>
               /\ doing'[q].number \in 1 .. ran + 1
               /\ \A i \in R!RecordId : record[i] # doing'[q].number
        BY <1>0, <2>2, <2>3, <3>2, <3>3
      <3>5. \A q \in Process : doing'[q] # None =>
               \A q2 \in Process \ {q} : doing'[q2] # None => doing'[q2].number # doing'[q].number
        BY <2>2, <2>3, <3>3 DEF DataInv, NumbersApart
      <3>6. QED
        BY <1>0, <3>2, <3>4, <3>5 DEF NumbersApart
    <2>6. NowNoted(p)'
      <3>1. seen'[p] = R!True(c, {}, mounted', declared', record')
        BY <1>0, <2>2, <2>3, WatchIs
      <3>2. record'[c.id] # c.number
        BY <1>0, <2>2 DEF DataInv, NumbersApart
      <3>3. R!Present' = {i \in R!RecordId : record'[i] # 0}
        BY DEF R!Present
      <3>4. /\ record'[c.id] # 0 => "present" \in seen'[p]
            /\ mounted' /\ declared' /\ record'[c.id] = 0 => "missing" \in seen'[p]
            /\ "mine" \notin seen'[p]
            /\ IF R!Cardinality(R!Present') > Limit THEN "many" \in seen'[p] ELSE "few" \in seen'[p]
        BY <3>1, <3>2, <3>3, Truths
      <3>5. QED
        BY <2>2, <2>3, <3>4 DEF NowNoted
    <2>7. \A q \in Process : IF doing'[q] = None THEN Told(said'[q], seen'[q]) ELSE NowNoted(q)'
      <3> TAKE q \in Process
      <3>1. CASE q = p
        BY <2>2, <2>3, <2>6, <3>1
      <3>2. CASE q # p
        BY <1>2, <2>3, <3>2, OthersKeep
      <3>3. QED
        BY <3>1, <3>2
    <2>8. QED
      BY <2>4, <2>5, <2>7 DEF DataInv
  <1>4. CASE kind \notin R!Wants(verb)
    <2>1. /\ UNCHANGED doing /\ said' = [said EXCEPT ![p] = "invalid_argument"]
      BY <1>4 DEF R!Begin, R!Says
    <2>2. DataTypes'
      BY <1>0, <1>1, <2>1 DEF DataInv, DataTypes, R!Code
    <2>3. NumbersApart'
      <3>1. \A i \in R!RecordId : record[i] \in 0 .. ran \cup {MaxRuns + 1}
        BY DEF DataInv, NumbersApart
      <3>2. \A i \in R!RecordId : record[i] \in 0 .. ran + 1 \cup {MaxRuns + 1}
        BY <1>0, <3>1
      <3>3. \A q \in Process : doing[q] # None => doing[q].number \in 1 .. ran + 1
        BY <1>0 DEF DataInv, NumbersApart
      <3>4. QED
        BY <1>0, <2>1, <3>2, <3>3 DEF DataInv, NumbersApart
    <2>4. \A q \in Process : IF doing'[q] = None THEN Told(said'[q], seen'[q]) ELSE NowNoted(q)'
      <3> TAKE q \in Process
      <3>1. CASE q = p
        BY <1>0, <2>1, <3>1 DEF Told, R!Code, DataInv, DataTypes
      <3>2. CASE q # p
        <4>1. doing'[q] = doing[q] /\ said'[q] = said[q]
          BY <2>1, <3>2 DEF DataInv, DataTypes
        <4>2. QED
          BY <1>2, <4>1, OthersKeep
      <3>3. QED
        BY <3>1, <3>2
    <2>5. QED
      BY <2>2, <2>3, <2>4 DEF DataInv
  <1>5. QED
    BY <1>3, <1>4

LEMMA ListKeeps ==
  ASSUME DataInv, R!Watch, NEW p \in Process, R!List(p)
  PROVE  DataInv'
  <1> DEFINE c == doing[p]  fault == R!Fault("QUERY", c.id)
             what == IF fault # "none" THEN R!MapV1(fault)
                     ELSE IF Len(R!Query(R!Ask)) > Limit THEN "more" ELSE "all"
  <1>1. c # None /\ R!Ends(p, what) /\ UNCHANGED <<mounted, declared, record, ran>>
    BY DEF R!List, R!Running
  <1>2. CASE fault # "none"
    <2>1. what = R!MapV1(fault)
      BY <1>2
    <2>2. what \in R!Code /\ Told(what, seen'[p])
      BY <1>1, <1>2, <2>1, FailsTold
    <2> HIDE DEF what
    <2>3. QED
      BY <1>1, <2>2, EndsKeep
  <1>3. CASE fault = "none"
    <2>1. IF R!Cardinality(R!Present) > Limit THEN what = "more" ELSE what = "all"
      BY <1>3, AsksForMore
    <2>2. IF R!Cardinality(R!Present) > Limit THEN "many" \in seen'[p] ELSE "few" \in seen'[p]
      <3>1. R!Present = {i \in R!RecordId : record'[i] # 0}
        BY <1>1 DEF R!Present
      <3>2. QED
        BY <1>1, <3>1, WatchNotes
    <2> HIDE DEF what
    <2>3. what \in R!Done /\ Told(what, seen'[p])
      BY <2>1, <2>2 DEF Told, R!Code, R!Done
    <2>4. QED
      BY <1>1, <2>3, EndsKeep
  <1>4. QED
    BY <1>2, <1>3

LEMMA GetKeeps ==
  ASSUME DataInv, R!Watch, NEW p \in Process, R!Get(p)
  PROVE  DataInv'
  <1> DEFINE c == doing[p]  fault == R!Fault("GET", c.id)
             what == IF fault # "none" THEN R!MapV1(fault) ELSE "shown"
  <1>1. c # None /\ R!Ends(p, what) /\ UNCHANGED <<mounted, declared, record, ran>>
    BY DEF R!Get, R!Running
  <1>2. CASE fault # "none"
    <2>1. what = R!MapV1(fault)
      BY <1>2
    <2>2. what \in R!Code /\ Told(what, seen'[p])
      BY <1>1, <1>2, <2>1, FailsTold
    <2> HIDE DEF what
    <2>3. QED
      BY <1>1, <2>2, EndsKeep
  <1>3. CASE fault = "none"
    <2>1. what = "shown" /\ record[c.id] # 0
      BY <1>3 DEF R!Fault
    <2>2. "present" \in seen'[p]
      <3>1. record'[c.id] # 0
        BY <1>1, <2>1
      <3>2. QED
        BY <1>1, <3>1, WatchNotes
    <2> HIDE DEF what
    <2>3. what \in R!Done /\ Told(what, seen'[p])
      BY <2>1, <2>2 DEF Told, R!Code, R!Done
    <2>4. QED
      BY <1>1, <2>3, EndsKeep
  <1>4. QED
    BY <1>2, <1>3

LEMMA WriteKeeps ==
  ASSUME DataInv, R!Watch, NEW p \in Process, R!Write(p)
  PROVE  DataInv'
  <1> DEFINE c == doing[p]  method == R!Method(c.verb)  fault == R!Fault(method, c.id)
  <1>1. c # None /\ c.verb \in {"set", "field", "add"} /\ UNCHANGED <<mounted, declared, ran>>
    BY DEF R!Write, R!Running
  <1>2. method \in {"POST", "PUT", "PATCH"} /\ (c.verb = "add" <=> method = "POST")
    BY <1>1 DEF R!Method
  <1>3. CASE fault # "none"
    <2>1. R!Ends(p, R!MapV1(fault)) /\ UNCHANGED record
      BY <1>3 DEF R!Write
    <2> HIDE DEF method
    <2>2. R!MapV1(fault) \in R!Code /\ Told(R!MapV1(fault), seen'[p])
      BY <1>1, <1>2, <1>3, <2>1, FailsTold
    <2> HIDE DEF fault
    <2>3. QED
      BY <1>1, <2>1, <2>2, EndsKeep
  <1>4. CASE fault = "none"
    <2> DEFINE what == R!Past(c.verb)
    <2>1. R!Ends(p, what) /\ record' = [record EXCEPT ![c.id] = c.number]
      BY <1>4 DEF R!Write
    <2>2. what \in {"added", "updated", "set"} /\ (what = "added" => c.verb = "add")
      BY <1>1 DEF R!Past
    <2>3. c.id \in R!RecordId /\ record'[c.id] = c.number
      <3>1. c \in R!Command /\ record \in [R!RecordId -> 0 .. MaxRuns + 1]
        BY <1>1 DEF DataInv, DataTypes
      <3>2. QED
        BY <2>1, <3>1 DEF R!Command
    <2>4. NowNoted(p)
      BY <1>1 DEF DataInv
    <2>5. seen[p] \subseteq seen'[p] /\ "mine" \in seen'[p]
      BY <1>1, <2>3, WatchNotes
    <2>6. what = "added" => "missing" \in seen'[p]
      <3>1. what = "added" => mounted /\ declared /\ record[c.id] = 0
        BY <1>2, <1>4, <2>2 DEF R!Fault
      <3>2. QED
        BY <2>4, <2>5, <3>1 DEF NowNoted
    <2> HIDE DEF what
    <2>7. what \in R!Done /\ Told(what, seen'[p])
      BY <2>2, <2>5, <2>6 DEF Told, R!Code, R!Done
    <2>8. QED
      BY <1>1, <2>1, <2>7, EndsKeep
  <1>5. QED
    BY <1>3, <1>4

LEMMA LookKeeps ==
  ASSUME DataInv, R!Watch, NEW p \in Process, R!Look(p)
  PROVE  DataInv'
  <1> DEFINE c == doing[p]  fault == R!Fault("GET", c.id)
             what == IF R!MissingRecord(fault) /\ c.ifExists THEN "nothing_to_delete" ELSE R!MapV1(fault)
  <1>1. c # None /\ c.verb = "delete" /\ UNCHANGED <<mounted, declared, record, ran>>
    BY DEF R!Look, R!Running
  <1>2. CASE fault # "none"
    <2>1. R!Ends(p, what)
      BY <1>2 DEF R!Look
    <2>2. what \in R!Code \cup R!Done /\ Told(what, seen'[p])
      <3>1. /\ R!MapV1(fault) \in R!Code /\ Told(R!MapV1(fault), seen'[p])
            /\ R!MissingRecord(fault) => Told("nothing_to_delete", seen'[p])
        BY <1>1, <1>2, FailsTold
      <3>2. "nothing_to_delete" \in R!Done
        BY DEF R!Done
      <3> HIDE DEF fault
      <3>3. QED
        BY <3>1, <3>2
    <2> HIDE DEF what
    <2>3. QED
      BY <1>1, <2>1, <2>2, EndsKeep
  <1>3. CASE fault = "none"
    <2>1. doing' = [doing EXCEPT ![p].step = "remove"] /\ UNCHANGED said /\ record[c.id] # 0
      BY <1>3 DEF R!Look, R!Fault
    <2>2. c \in R!Command /\ doing \in [Process -> R!Command \cup {None}]
      BY <1>1 DEF DataInv, DataTypes
    <2>3. /\ doing' \in [Process -> R!Command \cup {None}]
          /\ doing'[p] \in R!Command /\ doing'[p] # None
          /\ doing'[p].id = c.id /\ doing'[p].number = c.number /\ doing'[p].verb = "delete"
          /\ \A q \in Process \ {p} : doing'[q] = doing[q]
      <3>1. [c EXCEPT !.step = "remove"] \in R!Command /\ [c EXCEPT !.step = "remove"].id = c.id
            /\ [c EXCEPT !.step = "remove"].number = c.number /\ [c EXCEPT !.step = "remove"].verb = "delete"
        BY <1>1, <2>2 DEF R!Command
      <3>2. [c EXCEPT !.step = "remove"] # None
        BY <3>1, DataAssumption
      <3>3. doing' = [doing EXCEPT ![p] = [c EXCEPT !.step = "remove"]]
        BY <2>1
      <3>4. QED
        BY <2>2, <3>1, <3>2, <3>3
    <2>4. DataTypes'
      <3>1. seen' \in [Process -> SUBSET R!Truth]
        BY WatchTypes
      <3>2. QED
        BY <1>1, <2>1, <2>3, <3>1 DEF DataInv, DataTypes
    <2>5. \A q \in Process : /\ doing'[q] # None <=> doing[q] # None
                             /\ doing[q] # None => doing'[q].number = doing[q].number
      BY <1>1, <2>3
    <2>6. NumbersApart'
      BY <1>1, <2>5 DEF DataInv, NumbersApart
    <2>7. \A q \in Process : doing[q] # None => record'[doing[q].id] # doing[q].number
      <3> TAKE q \in Process
      <3>1. doing[q] # None => doing[q].id \in R!RecordId
        BY DEF DataInv, DataTypes, R!Command
      <3>2. QED
        BY <1>1, <3>1 DEF DataInv, NumbersApart
    <2>8. \A q \in Process : IF doing'[q] = None THEN Told(said'[q], seen'[q]) ELSE NowNoted(q)'
      <3> TAKE q \in Process
      <3>1. CASE q = p
        <4>1. NowNoted(p)'
          BY <1>1, <2>1, <2>3, <2>7, KeepsNoting
        <4>2. QED
          BY <2>3, <3>1, <4>1
      <3>2. CASE q # p
        BY <2>1, <2>3, <2>7, <3>2, OthersKeep
      <3>3. QED
        BY <3>1, <3>2
    <2>9. QED
      BY <2>4, <2>6, <2>8 DEF DataInv
  <1>4. QED
    BY <1>2, <1>3

LEMMA DeleteKeeps ==
  ASSUME DataInv, R!Watch, NEW p \in Process, R!Delete(p)
  PROVE  DataInv'
  <1> DEFINE c == doing[p]  fault == R!Fault("DELETE", c.id)
  <1>1. c # None /\ c.step = "remove" /\ UNCHANGED <<mounted, declared, ran>>
    BY DEF R!Delete, R!Running
  <1>2. CASE fault # "none"
    <2>1. R!Ends(p, R!MapV1(fault)) /\ UNCHANGED record
      BY <1>2 DEF R!Delete
    <2>2. R!MapV1(fault) \in R!Code /\ Told(R!MapV1(fault), seen'[p])
      BY <1>1, <1>2, <2>1, FailsTold
    <2> HIDE DEF fault
    <2>3. QED
      BY <1>1, <2>1, <2>2, EndsKeep
  <1>3. CASE fault = "none"
    <2>1. R!Ends(p, "deleted") /\ record' = [record EXCEPT ![c.id] = 0]
      BY <1>3 DEF R!Delete
    <2>2. record'[c.id] = 0
      <3>1. c \in R!Command /\ record \in [R!RecordId -> 0 .. MaxRuns + 1]
        BY <1>1 DEF DataInv, DataTypes
      <3>2. QED
        BY <2>1, <3>1 DEF R!Command
    <2>3. "present" \in seen[p]
      BY <1>1 DEF DataInv, NowNoted
    <2>4. "went" \in seen'[p]
      BY <1>1, <2>2, <2>3, WatchNotes
    <2>5. "deleted" \in R!Done /\ Told("deleted", seen'[p])
      BY <2>4 DEF Told, R!Code, R!Done
    <2>6. QED
      BY <1>1, <2>1, <2>5, EndsKeep
  <1>4. QED
    BY <1>2, <1>3

LEMMA LostKeeps ==
  ASSUME DataInv, R!Watch, NEW p \in Process, R!Lost(p)
  PROVE  DataInv'
  <1>1. /\ doing[p] # None /\ R!Ends(p, "not_running") /\ UNCHANGED <<mounted, declared, ran>>
        /\ \/ record' = record
           \/ record' = [record EXCEPT ![doing[p].id] = doing[p].number]
           \/ record' = [record EXCEPT ![doing[p].id] = 0]
    BY DEF R!Lost
  <1>2. "not_running" \in R!Code /\ Told("not_running", seen'[p])
    BY DEF Told, R!Code
  <1>3. QED
    BY <1>1, <1>2, EndsKeep

LEMMA DataSteps ==
  ASSUME DataInv, R!Next
  PROVE  DataInv'
  <1>0. R!Step /\ R!Watch
    BY DEF R!Next
  <1>1. ASSUME NEW p \in Process, NEW verb \in R!Verb, NEW kind \in R!Kind, R!Begin(p, verb, kind)
        PROVE  DataInv'
    BY <1>0, <1>1, DataBeginKeeps
  <1>2. ASSUME NEW p \in Process,
               R!List(p) \/ R!Get(p) \/ R!Write(p) \/ R!Look(p) \/ R!Delete(p) \/ R!Lost(p)
        PROVE  DataInv'
    BY <1>0, <1>2, ListKeeps, GetKeeps, WriteKeeps, LookKeeps, DeleteKeeps, LostKeeps
  <1>3. CASE R!Removes
    <2>1. mounted' \in BOOLEAN /\ declared' \in BOOLEAN
      BY <1>3 DEF R!Removes, DataInv, DataTypes
    <2>2. QED
      BY <1>0, <1>3, <2>1, SetsKeep DEF R!Removes
  <1>4. CASE R!Reloads
    <2>1. mounted' \in BOOLEAN /\ declared' \in BOOLEAN
      BY <1>4 DEF R!Reloads, DataInv, DataTypes
    <2>2. QED
      BY <1>0, <1>4, <2>1, SetsKeep DEF R!Reloads
  <1>5. QED
    BY <1>0, <1>1, <1>2, <1>3, <1>4 DEF R!Step

LEMMA DataStutters ==
  ASSUME DataInv, UNCHANGED R!vars
  PROVE  DataInv'
  BY DEF R!vars, DataInv, DataTypes, NumbersApart, Told, NowNoted, R!Present

LEMMA DataTells ==
  ASSUME DataInv
  PROVE  R!DataIsTold /\ R!DataTypeOK
  <1>1. R!SaysWhatHappened
    BY DEF DataInv, Told, R!SaysWhatHappened
  <1>2. R!PagesAgree
    BY PagesAlwaysAgree, DataAssumption
  <1>3. R!DataTypeOK
    BY DEF DataInv, DataTypes, R!DataTypeOK
  <1>4. QED
    BY <1>1, <1>2, <1>3 DEF R!DataIsTold

LEMMA DataInvHolds == R!Spec => []DataInv
  <1>1. R!Init => DataInv
    BY DataStarts
  <1>2. DataInv /\ [R!Next]_(R!vars) => DataInv'
    BY DataSteps, DataStutters
  <1>3. QED
    BY <1>1, <1>2, PTL DEF R!Spec

\* What a data command says happened did happen, whatever other commands,
\* removals, reloads and lost answers came between its calls, and the pages of
\* a nested collection are those of one at the root (data.go:268-279, 524-540,
\* client/data.go:75-102): for any number of processes, records and commands.
THEOREM DataToldTruly == R!Spec => []R!DataIsTold
  <1>1. DataInv => R!DataIsTold
    BY DataTells
  <1>2. QED
    BY <1>1, DataInvHolds, PTL

-----------------------------------------------------------------------------
(* Client: the invariant *)

ClientTypes ==
    /\ instance \in L!Known \cup {None} /\ starts \in 0 .. MaxStarts /\ stranger \in Port \cup {None}
    /\ plan \in [Terminal -> L!Plan] /\ found \in [Terminal -> L!Known \cup {None}]
    /\ noticed \in [Terminal -> BOOLEAN] /\ outcome \in [Terminal -> L!Outcomes \cup {None}]
    /\ applied \in [Terminal -> Seq(L!Site)]
    /\ began \subseteq Terminal /\ stopped \in [Terminal -> SUBSET L!Known]

\* What a command is about to do says which command it is.
PlanFits(c) ==
    LET p == plan[c] IN
    /\ p.command \in {"start", "restart"} => p.start
    /\ p.at = "start" => p.start
    /\ p.at = "lock" => p.command = "config"
    /\ p.at = "stop" => p.command \in {"stop", "restart"}

\* The server a command asks is the one it found, of this home.
Asks(c) ==
    /\ found[c] \in L!Known /\ L!Matches(c, found[c])
    /\ found[c].version = "different" => noticed[c]
    /\ found[c].secret <= starts
    /\ instance # None /\ instance.secret = found[c].secret =>
        instance.home = found[c].home /\ instance.port = found[c].port /\ instance.version = found[c].version

Asked ==
    /\ instance # None => instance.secret <= starts
    /\ \A c \in Terminal : plan[c].at = "ask" => Asks(c)

\* Nothing was done or told before the end, and then as it should be.
ToldOnce(c) ==
    LET p == plan[c] IN
    /\ p.at # "end" => applied[c] = << >> /\ outcome[c] = None
    /\ Len(applied[c]) <= 1
    /\ (outcome[c] = "done" /\ p.command \in L!Writes) => applied[c] # << >>
    /\ outcome[c] \notin {None, "done", "not_running", "cut"} => applied[c] = << >>
    /\ \A i \in DOMAIN applied[c] :
          \/ applied[c][i].where = "files" /\ p.command = "config"
          \/ /\ applied[c][i].where = "own"
             /\ p.port \in {None, applied[c][i].port} \/ p.command = "config"
             /\ applied[c][i].version = "different" => noticed[c]
    /\ c \in began => p.start /\ p.at \in {"ask", "end"} /\ outcome[c] # "invalid"

OwnInv == \A c \in Terminal : PlanFits(c) /\ ToldOnce(c)

ClientInv == ClientTypes /\ OwnInv /\ Asked

\* What each terminal stopped, and what runs when it is about to.
StopsOwn ==
    \A c \in Terminal :
        /\ plan[c].at = "stop" /\ L!Running => L!MatchesStop(c, instance)
        /\ \A s \in stopped[c] :
              \/ s.state = "hangs"
              \/ s.home = "own" /\ (plan[c].port \in {None, s.port} \/ plan[c].command = "restart")

-----------------------------------------------------------------------------
(* Client: its steps keep the invariant *)

Steps == {"check", "look", "found", "none", "start", "ask", "lock", "stop", "end"}

LEMMA GoesTo ==
  ASSUME ClientTypes, NEW c \in Terminal, NEW to \in Steps, L!Goes(c, to)
  PROVE  /\ plan' \in [Terminal -> L!Plan] /\ plan'[c] = [plan[c] EXCEPT !.at = to]
         /\ plan'[c].at = to /\ plan'[c].command = plan[c].command
         /\ plan'[c].start = plan[c].start /\ plan'[c].port = plan[c].port
         /\ \A d \in Terminal \ {c} : plan'[d] = plan[d]
  <1>1. plan' = [plan EXCEPT ![c].at = to] /\ plan \in [Terminal -> L!Plan]
    BY DEF L!Goes, ClientTypes
  <1>2. plan[c] \in L!Plan
    BY <1>1
  <1>3. [plan[c] EXCEPT !.at = to] \in L!Plan
    BY <1>2 DEF L!Plan, Steps
  <1>4. plan'[c] = [plan[c] EXCEPT !.at = to] /\ plan' \in [Terminal -> L!Plan]
    BY <1>1, <1>3
  <1>5. QED
    BY <1>1, <1>2, <1>4 DEF L!Plan

LEMMA TellsIt ==
  ASSUME ClientTypes, NEW c \in Terminal, NEW what \in L!Outcomes, L!Tell(c, what)
  PROVE  /\ L!Goes(c, "end") /\ "end" \in Steps
         /\ outcome' \in [Terminal -> L!Outcomes \cup {None}] /\ outcome'[c] = what
         /\ \A d \in Terminal \ {c} : outcome'[d] = outcome[d]
  BY DEF L!Tell, ClientTypes, Steps

\* Who did nothing stays as it was.
LEMMA OthersStay ==
  ASSUME NEW d \in Terminal, PlanFits(d), ToldOnce(d),
         plan'[d] = plan[d], outcome'[d] = outcome[d], applied'[d] = applied[d], noticed'[d] = noticed[d],
         d \in began' => d \in began
  PROVE  PlanFits(d)' /\ ToldOnce(d)'
  BY DEF PlanFits, ToldOnce

\* The server that runs is the one that ran, or a newer one.
Renewed ==
    /\ starts \in Nat /\ starts' \in Nat /\ starts' >= starts
    /\ instance' # None =>
        \/ /\ instance # None /\ instance'.secret = instance.secret /\ instance'.home = instance.home
           /\ instance'.port = instance.port /\ instance'.version = instance.version
        \/ instance'.secret = starts + 1 /\ starts' = starts + 1

LEMMA AsksStill ==
  ASSUME ClientTypes, NEW d \in Terminal, Asks(d), Renewed,
         plan'[d] = plan[d], found'[d] = found[d], noticed[d] => noticed'[d]
  PROVE  Asks(d)'
  <1>1. found[d].secret \in Nat /\ starts \in Nat
    BY DEF Asks, L!Known, ClientTypes
  <1>2. L!Matches(d, found[d])' <=> L!Matches(d, found[d])
    BY DEF L!Matches
  <1>3. QED
    BY <1>1, <1>2 DEF Asks, Renewed

\* A step of the world beside.
LEMMA WorldMoves ==
  ASSUME ClientInv, Renewed, UNCHANGED L!ownVars,
         instance' \in L!Known \cup {None} /\ starts' \in 0 .. MaxStarts /\ stranger' \in Port \cup {None}
  PROVE  ClientInv'
  <1>1. UNCHANGED <<plan, found, noticed, outcome, applied, began, stopped>>
    BY DEF L!ownVars
  <1>2. ClientTypes'
    BY <1>1 DEF ClientInv, ClientTypes
  <1>3. OwnInv'
    BY <1>1 DEF ClientInv, OwnInv, PlanFits, ToldOnce
  <1>4. instance' # None => instance'.secret <= starts'
    <2>1. instance # None => instance.secret \in Nat
      BY DEF ClientInv, ClientTypes, L!Known
    <2>2. QED
      BY <2>1 DEF ClientInv, Asked, Renewed
  <1>5. \A d \in Terminal : plan'[d].at = "ask" => Asks(d)'
    BY <1>1, AsksStill DEF ClientInv, Asked
  <1>6. QED
    BY <1>2, <1>3, <1>4, <1>5 DEF ClientInv, Asked

LEMMA RunsKnown ==
  ASSUME ClientTypes, MaxStarts \in Nat, starts < MaxStarts, NEW h \in {"own", "other"}, NEW p \in Port,
         NEW v \in {"same", "different"}, NEW s \in {"starting", "answers", "hangs"}
  PROVE  /\ L!Runs(h, p, v, s) \in L!Known /\ L!Runs(h, p, v, s).secret = starts + 1
         /\ L!Runs(h, p, v, s).home = h /\ L!Runs(h, p, v, s).port = p /\ L!Runs(h, p, v, s).version = v
         /\ L!Runs(h, p, v, s).state = s
  BY DEF L!Runs, L!Known, ClientTypes

LEMMA WorldKept ==
  ASSUME ClientInv,
         L!ServerStarts \/ L!ServerPublishes \/ L!ServerHangs \/ L!ServerEnds \/ L!StrangerMoves
  PROVE  ClientInv'
  <1>0. starts \in Nat /\ MaxStarts \in Nat /\ ClientTypes
    BY ClientAssumption DEF ClientInv, ClientTypes
  <1>1. CASE L!ServerStarts
    <2>1. PICK h \in {"own", "other"}, p \in Port \ {stranger}, v \in {"same", "different"} :
              instance' = L!Runs(h, p, v, "starting")
      BY <1>1 DEF L!ServerStarts
    <2>2. starts < MaxStarts /\ starts' = starts + 1 /\ UNCHANGED <<stranger, L!ownVars>>
      BY <1>1 DEF L!ServerStarts
    <2>3. instance' \in L!Known /\ instance'.secret = starts + 1
      BY <1>0, <2>1, <2>2, RunsKnown
    <2>4. QED
      BY <1>0, <2>2, <2>3, WorldMoves DEF Renewed, ClientTypes
  <1>2. CASE L!ServerPublishes \/ L!ServerHangs
    <2>1. /\ instance # None /\ UNCHANGED <<starts, stranger, L!ownVars>>
          /\ \E s \in {"answers", "hangs"} : instance' = [instance EXCEPT !.state = s]
      BY <1>2 DEF L!ServerPublishes, L!ServerHangs
    <2>2. instance \in L!Known
      BY <1>0, <2>1 DEF ClientTypes
    <2>3. /\ instance' \in L!Known /\ instance'.secret = instance.secret /\ instance'.home = instance.home
          /\ instance'.port = instance.port /\ instance'.version = instance.version
      BY <2>1, <2>2 DEF L!Known
    <2>4. QED
      BY <1>0, <2>1, <2>3, WorldMoves DEF Renewed, ClientTypes
  <1>3. CASE L!ServerEnds \/ L!StrangerMoves
    <2>1. /\ instance' = None \/ instance' = instance
          /\ UNCHANGED <<starts, L!ownVars>>
      BY <1>0, <1>3 DEF L!ServerEnds, L!StrangerMoves, ClientTypes
    <2>2. stranger' \in Port \cup {None}
      BY <1>0, <1>3 DEF L!ServerEnds, L!StrangerMoves, ClientTypes
    <2>3. QED
      BY <1>0, <2>1, <2>2, WorldMoves DEF Renewed, ClientTypes
  <1>4. QED
    BY <1>1, <1>2, <1>3

\* A step of one command.
LEMMA CommandMoves ==
  ASSUME ClientInv, ClientTypes', Renewed, NEW c \in Terminal,
         \A d \in Terminal \ {c} : /\ plan'[d] = plan[d] /\ outcome'[d] = outcome[d] /\ applied'[d] = applied[d]
                                   /\ noticed'[d] = noticed[d] /\ found'[d] = found[d],
         began' \subseteq began \cup {c}, PlanFits(c)', ToldOnce(c)',
         plan'[c].at = "ask" => Asks(c)'
  PROVE  ClientInv'
  <1>1. \A d \in Terminal \ {c} : PlanFits(d)' /\ ToldOnce(d)'
    BY OthersStay DEF ClientInv, OwnInv
  <1>2. \A d \in Terminal \ {c} : plan'[d].at = "ask" => Asks(d)'
    BY AsksStill DEF ClientInv, Asked
  <1>3. instance' # None => instance'.secret <= starts'
    <2>1. instance # None => instance.secret \in Nat
      BY DEF ClientInv, ClientTypes, L!Known
    <2>2. QED
      BY <2>1 DEF ClientInv, Asked, Renewed
  <1>4. QED
    BY <1>1, <1>2, <1>3 DEF ClientInv, OwnInv, Asked

\* A step that leaves the world and goes on, or ends with an answer.
LEMMA CommandGoes ==
  ASSUME ClientInv, NEW c \in Terminal, UNCHANGED <<instance, starts, stranger, applied, began, stopped>>,
         \/ \E to \in Steps \ {"ask", "end"} :
               /\ L!Goes(c, to) /\ UNCHANGED outcome
               /\ to = "start" => plan[c].start
               /\ to = "lock" => plan[c].command = "config"
               /\ to = "stop" => plan[c].command \in {"stop", "restart"}
         \/ \E what \in L!Outcomes :
               L!Tell(c, what) /\ (what = "done" => plan[c].command \notin L!Writes),
         plan[c].at \notin {"ask", "end"},
         found' \in [Terminal -> L!Known \cup {None}], noticed' \in [Terminal -> BOOLEAN],
         \A d \in Terminal \ {c} : found'[d] = found[d] /\ noticed'[d] = noticed[d]
  PROVE  ClientInv'
  <1>0. ClientTypes /\ ToldOnce(c) /\ PlanFits(c) /\ c \notin began
    BY DEF ClientInv, OwnInv, ToldOnce
  <1>1. Renewed /\ began' \subseteq began \cup {c}
    BY <1>0 DEF Renewed, ClientTypes
  <1>2. ASSUME NEW to \in Steps \ {"ask", "end"}, L!Goes(c, to), UNCHANGED outcome,
               to = "start" => plan[c].start, to = "lock" => plan[c].command = "config",
               to = "stop" => plan[c].command \in {"stop", "restart"}
        PROVE  ClientInv'
    <2>1. /\ plan' \in [Terminal -> L!Plan] /\ plan'[c].at = to /\ plan'[c].command = plan[c].command
          /\ plan'[c].start = plan[c].start /\ \A d \in Terminal \ {c} : plan'[d] = plan[d]
      BY <1>0, <1>2, GoesTo
    <2>2. ClientTypes'
      BY <1>0, <1>2, <2>1 DEF ClientTypes
    <2>3. PlanFits(c)'
      BY <1>0, <1>2, <2>1 DEF PlanFits
    <2>4. ToldOnce(c)'
      BY <1>0, <1>2, <2>1 DEF ToldOnce
    <2>5. QED
      BY <1>1, <1>2, <2>1, <2>2, <2>3, <2>4, CommandMoves
  <1>3. ASSUME NEW what \in L!Outcomes, L!Tell(c, what), what = "done" => plan[c].command \notin L!Writes
        PROVE  ClientInv'
    <2>1. /\ outcome' \in [Terminal -> L!Outcomes \cup {None}] /\ outcome'[c] = what
          /\ \A d \in Terminal \ {c} : outcome'[d] = outcome[d]
          /\ L!Goes(c, "end") /\ "end" \in Steps
      BY <1>0, <1>3, TellsIt
    <2>2. /\ plan' \in [Terminal -> L!Plan] /\ plan'[c].at = "end" /\ plan'[c].command = plan[c].command
          /\ plan'[c].start = plan[c].start /\ \A d \in Terminal \ {c} : plan'[d] = plan[d]
      BY <1>0, <2>1, GoesTo
    <2>3. ClientTypes'
      BY <1>0, <2>1, <2>2 DEF ClientTypes
    <2>4. PlanFits(c)'
      BY <1>0, <2>2 DEF PlanFits
    <2>5. ToldOnce(c)'
      BY <1>0, <1>3, <2>1, <2>2 DEF ToldOnce
    <2>6. QED
      BY <1>1, <2>1, <2>2, <2>3, <2>4, <2>5, CommandMoves
  <1>4. QED
    BY <1>2, <1>3

LEMMA CommandsBegin ==
  ASSUME ClientInv, NEW c \in Terminal,
         L!Begin(c) \/ L!Connect(c) \/ L!ReadFiles(c) \/ L!Lock(c)
  PROVE  ClientInv'
  <1>0. ClientTypes /\ PlanFits(c)
    BY DEF ClientInv, OwnInv
  <1>1. found' \in [Terminal -> L!Known \cup {None}] /\ noticed' \in [Terminal -> BOOLEAN]
        /\ (\A d \in Terminal \ {c} : found'[d] = found[d] /\ noticed'[d] = noticed[d])
        /\ UNCHANGED <<instance, starts, stranger, applied, began, stopped>>
        /\ plan[c].at \notin {"ask", "end"}
    BY <1>0 DEF L!Begin, L!Connect, L!ReadFiles, L!Lock, L!worldVars, ClientTypes
  <1>2. CASE L!Begin(c)
    <2>1. CASE L!Validates(c) \/ L!ConfirmRemove(c)
      <3>1. \E what \in L!Outcomes : L!Tell(c, what) /\ what # "done"
        BY <2>1 DEF L!Validates, L!ConfirmRemove, L!Outcomes
      <3>2. QED
        BY <1>1, <3>1, CommandGoes
    <2>2. CASE L!Goes(c, IF plan[c].command = "start" THEN "start" ELSE "look") /\ UNCHANGED outcome
      <3>1. \E to \in Steps \ {"ask", "end"} :
               /\ L!Goes(c, to) /\ UNCHANGED outcome
               /\ to = "start" => plan[c].start
               /\ to = "lock" => plan[c].command = "config"
               /\ to = "stop" => plan[c].command \in {"stop", "restart"}
        BY <1>0, <2>2 DEF Steps, PlanFits
      <3>2. QED
        BY <1>1, <3>1, CommandGoes
    <2>3. QED
      BY <1>2, <2>1, <2>2 DEF L!Begin
  <1>3. CASE L!Connect(c)
    <2>1. CASE plan[c].start /\ L!Goes(c, "start") /\ UNCHANGED outcome
      <3>1. \E to \in Steps \ {"ask", "end"} :
               /\ L!Goes(c, to) /\ UNCHANGED outcome
               /\ to = "start" => plan[c].start
               /\ to = "lock" => plan[c].command = "config"
               /\ to = "stop" => plan[c].command \in {"stop", "restart"}
        BY <2>1 DEF Steps
      <3>2. QED
        BY <1>1, <3>1, CommandGoes
    <2>2. CASE L!Tell(c, "not_running")
      <3>1. \E what \in L!Outcomes : L!Tell(c, what) /\ what # "done"
        BY <2>2 DEF L!Outcomes
      <3>2. QED
        BY <1>1, <3>1, CommandGoes
    <2>3. QED
      BY <1>3, <2>1, <2>2 DEF L!Connect
  <1>4. CASE L!ReadFiles(c)
    <2>1. \E what \in L!Outcomes : L!Tell(c, what) /\ what # "done"
      BY <1>4 DEF L!ReadFiles, L!Outcomes
    <2>2. QED
      BY <1>1, <2>1, CommandGoes
  <1>5. CASE L!Lock(c)
    <2>1. \E to \in Steps \ {"ask", "end"} :
               /\ L!Goes(c, to) /\ UNCHANGED outcome
               /\ to = "start" => plan[c].start
               /\ to = "lock" => plan[c].command = "config"
               /\ to = "stop" => plan[c].command \in {"stop", "restart"}
      BY <1>5 DEF L!Lock, Steps
    <2>2. QED
      BY <1>1, <2>1, CommandGoes
  <1>6. QED
    BY <1>2, <1>3, <1>4, <1>5

LEMMA NoticesIt ==
  ASSUME ClientTypes, NEW c \in Terminal, L!Notices(c), instance \in L!Known
  PROVE  /\ noticed' \in [Terminal -> BOOLEAN] /\ noticed'[c] = (noticed[c] \/ instance.version = "different")
         /\ \A d \in Terminal \ {c} : noticed'[d] = noticed[d]
  BY DEF L!Notices, ClientTypes, L!Known

\* The server that is found is the one that runs.
LEMMA FindsIt ==
  ASSUME ClientInv, NEW c \in Terminal, L!Running, L!Matches(c, instance),
         found' = [found EXCEPT ![c] = instance], L!Notices(c), L!Goes(c, "ask"), plan[c].at \notin {"ask", "end"},
         UNCHANGED <<instance, starts, stranger, outcome, applied, began, stopped>>
  PROVE  ClientInv'
  <1>0. ClientTypes /\ ToldOnce(c) /\ PlanFits(c) /\ "ask" \in Steps
    BY DEF ClientInv, OwnInv, Steps
  <1>1. instance \in L!Known /\ instance # None
    BY <1>0 DEF L!Running, ClientTypes
  <1>2. /\ plan' \in [Terminal -> L!Plan] /\ plan'[c].at = "ask" /\ plan'[c].command = plan[c].command
        /\ plan'[c].start = plan[c].start /\ plan'[c].port = plan[c].port
        /\ \A d \in Terminal \ {c} : plan'[d] = plan[d]
    BY <1>0, GoesTo
  <1>3. found' \in [Terminal -> L!Known \cup {None}] /\ found'[c] = instance
        /\ \A d \in Terminal \ {c} : found'[d] = found[d]
    BY <1>0, <1>1 DEF ClientTypes
  <1>4. /\ noticed' \in [Terminal -> BOOLEAN] /\ noticed'[c] = (noticed[c] \/ instance.version = "different")
        /\ \A d \in Terminal \ {c} : noticed'[d] = noticed[d]
    BY <1>0, <1>1, NoticesIt
  <1>5. ClientTypes'
    BY <1>0, <1>2, <1>3, <1>4 DEF ClientTypes
  <1>6. Renewed
    BY <1>0 DEF Renewed, ClientTypes
  <1>7. PlanFits(c)'
    BY <1>0, <1>2 DEF PlanFits
  <1>8. ToldOnce(c)'
    BY <1>0, <1>2 DEF ToldOnce
  <1>9. Asks(c)'
    <2>1. L!Matches(c, found[c])'
      BY <1>2, <1>3 DEF L!Matches
    <2>2. instance.secret <= starts
      BY <1>1 DEF ClientInv, Asked
    <2>3. QED
      BY <1>1, <1>3, <1>4, <2>1, <2>2 DEF Asks
  <1>10. QED
    BY <1>2, <1>3, <1>4, <1>5, <1>6, <1>7, <1>8, <1>9, CommandMoves

LEMMA InspectKept ==
  ASSUME ClientInv, NEW c \in Terminal, L!Inspect(c)
  PROVE  ClientInv'
  <1>0. /\ ClientTypes /\ plan[c].at = "look" /\ UNCHANGED <<instance, starts, stranger, applied, began, stopped>>
        /\ found \in [Terminal -> L!Known \cup {None}] /\ noticed \in [Terminal -> BOOLEAN]
    BY DEF ClientInv, ClientTypes, L!Inspect, L!worldVars
  <1>1. CASE /\ L!Goes(c, IF plan[c].command \in {"stop", "restart"} THEN "stop" ELSE "none")
             /\ UNCHANGED <<found, noticed, outcome>>
    <2>1. \E to \in Steps \ {"ask", "end"} :
               /\ L!Goes(c, to) /\ UNCHANGED outcome
               /\ to = "start" => plan[c].start
               /\ to = "lock" => plan[c].command = "config"
               /\ to = "stop" => plan[c].command \in {"stop", "restart"}
      BY <1>1 DEF Steps
    <2>2. QED
      BY <1>0, <1>1, <2>1, CommandGoes
  <1>2. CASE /\ L!Running /\ L!MatchesStop(c, instance)
             /\ found' = [found EXCEPT ![c] = instance] /\ L!Notices(c) /\ UNCHANGED outcome
             /\ L!Goes(c, IF plan[c].command \in {"stop", "restart"} THEN "stop" ELSE "ask")
    <2>1. CASE plan[c].command \in {"stop", "restart"}
      <3>1. \E to \in Steps \ {"ask", "end"} :
               /\ L!Goes(c, to) /\ UNCHANGED outcome
               /\ to = "start" => plan[c].start
               /\ to = "lock" => plan[c].command = "config"
               /\ to = "stop" => plan[c].command \in {"stop", "restart"}
        BY <1>2, <2>1 DEF Steps
      <3>2. instance \in L!Known
        BY <1>0, <1>2 DEF L!Running, ClientTypes
      <3>3. found' \in [Terminal -> L!Known \cup {None}] /\ (\A d \in Terminal \ {c} : found'[d] = found[d])
        BY <1>0, <1>2, <3>2
      <3>4. noticed' \in [Terminal -> BOOLEAN] /\ (\A d \in Terminal \ {c} : noticed'[d] = noticed[d])
        BY <1>0, <1>2, <3>2, NoticesIt
      <3>5. QED
        BY <1>0, <3>1, <3>3, <3>4, CommandGoes
    <2>2. CASE plan[c].command \notin {"stop", "restart"}
      <3>1. L!Matches(c, instance)
        BY <1>2, <2>2 DEF L!MatchesStop
      <3>2. QED
        BY <1>0, <1>2, <2>2, <3>1, FindsIt
    <2>3. QED
      BY <2>1, <2>2
  <1>3. CASE L!Tell(c, "mismatch") /\ UNCHANGED <<found, noticed>>
    <2>1. \E what \in L!Outcomes : L!Tell(c, what) /\ what # "done"
      BY <1>3 DEF L!Outcomes
    <2>2. QED
      BY <1>0, <1>3, <2>1, CommandGoes
  <1>4. QED
    BY <1>1, <1>2, <1>3 DEF L!Inspect

\* What is applied is applied once, and told in the same step.
LEMMA AppliesOnce ==
  ASSUME ClientInv, NEW c \in Terminal, plan[c].at \notin {"end"}, NEW what \in {"done", "not_running", "cut"},
         L!Tell(c, what), NEW site \in L!Site,
         applied' = [applied EXCEPT ![c] = IF plan[c].command \in L!Writes THEN Append(applied[c], site) ELSE applied[c]],
         \/ site.where = "files" /\ plan[c].command = "config"
         \/ /\ site.where = "own" /\ (plan[c].port \in {None, site.port} \/ plan[c].command = "config")
            /\ site.version = "different" => noticed[c],
         UNCHANGED <<instance, starts, stranger, found, noticed, began, stopped>>
  PROVE  ClientInv'
  <1>0. ClientTypes /\ ToldOnce(c) /\ PlanFits(c) /\ what \in L!Outcomes
    BY DEF ClientInv, OwnInv, L!Outcomes
  <1>1. /\ outcome' \in [Terminal -> L!Outcomes \cup {None}] /\ outcome'[c] = what
        /\ \A d \in Terminal \ {c} : outcome'[d] = outcome[d]
        /\ L!Goes(c, "end") /\ "end" \in Steps
    BY <1>0, TellsIt
  <1>2. /\ plan' \in [Terminal -> L!Plan] /\ plan'[c].at = "end" /\ plan'[c].command = plan[c].command
        /\ plan'[c].start = plan[c].start /\ plan'[c].port = plan[c].port
        /\ \A d \in Terminal \ {c} : plan'[d] = plan[d]
    BY <1>0, <1>1, GoesTo
  <1>3. applied[c] = << >> /\ applied[c] \in Seq(L!Site)
    BY <1>0 DEF ToldOnce, ClientTypes
  <1>4. Append(applied[c], site) \in Seq(L!Site) /\ Append(applied[c], site) = <<site>>
    BY <1>3
  <1>5. applied' \in [Terminal -> Seq(L!Site)]
        /\ \A d \in Terminal \ {c} : applied'[d] = applied[d]
    BY <1>0, <1>3, <1>4 DEF ClientTypes
  <1>6. applied'[c] = IF plan[c].command \in L!Writes THEN <<site>> ELSE << >>
    BY <1>0, <1>3, <1>4 DEF ClientTypes
  <1>7. ClientTypes'
    BY <1>0, <1>1, <1>2, <1>5 DEF ClientTypes
  <1>8. Renewed /\ began' \subseteq began \cup {c}
    BY <1>0 DEF Renewed, ClientTypes
  <1>9. PlanFits(c)'
    BY <1>0, <1>2 DEF PlanFits
  <1>10. ToldOnce(c)'
    <2>1. /\ \A s : s = <<site>> => Len(s) <= 1 /\ s # << >> /\ \A i \in DOMAIN s : s[i] = site
          /\ \A s : s = << >> => Len(s) <= 1 /\ \A i \in DOMAIN s : s[i] = site
      <3>1. \A s : s = <<site>> => Len(s) = 1 /\ DOMAIN s = {1} /\ s[1] = site
        OBVIOUS
      <3>2. \A s : s = << >> => Len(s) = 0 /\ DOMAIN s = {}
        OBVIOUS
      <3>3. \A s : s = <<site>> => s # << >>
        BY <3>1, <3>2
      <3>4. \A s : s = <<site>> => Len(s) <= 1 /\ s # << >> /\ \A i \in DOMAIN s : s[i] = site
        <4> SUFFICES ASSUME NEW s, s = <<site>>
                     PROVE  Len(s) <= 1 /\ s # << >> /\ \A i \in DOMAIN s : s[i] = site
          OBVIOUS
        <4>1. Len(s) = 1 /\ DOMAIN s = {1} /\ s[1] = site
          BY <3>1
        <4>2. s # << >>
          BY <3>3
        <4>3. QED
          BY ONLY <4>1, <4>2
      <3>5. \A s : s = << >> => Len(s) <= 1 /\ \A i \in DOMAIN s : s[i] = site
        BY <3>2
      <3>6. QED
        BY ONLY <3>4, <3>5
    <2>2. /\ Len(applied'[c]) <= 1 /\ (plan[c].command \in L!Writes => applied'[c] # << >>)
          /\ \A i \in DOMAIN applied'[c] : applied'[c][i] = site
      <3>1. CASE plan[c].command \in L!Writes
        BY <1>6, <2>1, <3>1
      <3>2. CASE plan[c].command \notin L!Writes
        BY <1>6, <2>1, <3>2
      <3>3. QED
        BY <3>1, <3>2
    <2>3. c \in began => plan[c].start
      BY <1>0 DEF ToldOnce
    <2>4. QED
      BY <1>1, <1>2, <2>2, <2>3 DEF ToldOnce
  <1>11. QED
    BY <1>1, <1>2, <1>5, <1>7, <1>8, <1>9, <1>10, CommandMoves

LEMMA WithHomeLockKept ==
  ASSUME ClientInv, NEW c \in Terminal, L!WithHomeLock(c)
  PROVE  ClientInv'
  <1>0. /\ ClientTypes /\ PlanFits(c) /\ ToldOnce(c) /\ plan[c].at = "lock" /\ plan[c].command = "config"
        /\ UNCHANGED <<instance, starts, stranger, found, noticed, began, stopped>>
        /\ found \in [Terminal -> L!Known \cup {None}] /\ noticed \in [Terminal -> BOOLEAN]
    BY DEF ClientInv, OwnInv, PlanFits, ClientTypes, L!WithHomeLock, L!worldVars
  <1>1. CASE applied' = [applied EXCEPT ![c] = Append(@, L!InFiles("files"))] /\ L!Tell(c, "done")
    <2>1. L!InFiles("files") \in L!Site /\ L!InFiles("files").where = "files" /\ plan[c].command \in L!Writes
      BY <1>0, ClientAssumption DEF L!InFiles, L!Site, L!Writes
    <2>2. QED
      BY <1>0, <1>1, <2>1, AppliesOnce
  <1>2. CASE L!Tell(c, "failed") /\ UNCHANGED applied
    <2>1. \E what \in L!Outcomes : L!Tell(c, what) /\ what # "done"
      BY <1>2 DEF L!Outcomes
    <2>2. QED
      BY <1>0, <1>2, <2>1, CommandGoes
  <1>3. CASE plan' = [plan EXCEPT ![c].at = "look", ![c].again = TRUE] /\ UNCHANGED <<outcome, applied>>
    <2>1. plan[c] \in L!Plan /\ plan \in [Terminal -> L!Plan]
      BY <1>0 DEF ClientTypes
    <2>2. [plan[c] EXCEPT !.at = "look", !.again = TRUE] \in L!Plan
      BY <2>1 DEF L!Plan
    <2>3. /\ plan' \in [Terminal -> L!Plan] /\ plan'[c] = [plan[c] EXCEPT !.at = "look", !.again = TRUE]
          /\ \A d \in Terminal \ {c} : plan'[d] = plan[d]
      BY <1>3, <2>1, <2>2
    <2>4. plan'[c].at = "look" /\ plan'[c].command = plan[c].command /\ plan'[c].start = plan[c].start
      BY <2>1, <2>3 DEF L!Plan
    <2>5. ClientTypes'
      BY <1>0, <1>3, <2>3 DEF ClientTypes
    <2>6. PlanFits(c)' /\ ToldOnce(c)'
      BY <1>0, <1>3, <2>4 DEF PlanFits, ToldOnce
    <2>7. Renewed
      BY <1>0 DEF Renewed, ClientTypes
    <2>8. QED
      BY <1>0, <1>3, <2>3, <2>4, <2>5, <2>6, <2>7, CommandMoves
  <1>4. QED
    BY <1>1, <1>2, <1>3 DEF L!WithHomeLock

LEMMA StartKept ==
  ASSUME ClientInv, NEW c \in Terminal, L!Start(c)
  PROVE  ClientInv'
  <1>0. /\ ClientTypes /\ PlanFits(c) /\ ToldOnce(c) /\ plan[c].at = "start" /\ plan[c].start
        /\ UNCHANGED <<stranger, applied, stopped>>
        /\ found \in [Terminal -> L!Known \cup {None}] /\ noticed \in [Terminal -> BOOLEAN]
    BY DEF ClientInv, OwnInv, PlanFits, ClientTypes, L!Start
  <1>1. CASE L!Spawns(c)
    <2>1. L!StartPort(c) \in Port /\ starts < MaxStarts /\ MaxStarts \in Nat
      BY <1>0, <1>1, ClientAssumption DEF L!StartPort, L!Spawns, L!Plan, ClientTypes
    <2>2. /\ instance' = L!Runs("own", L!StartPort(c), "same", "answers") /\ starts' = starts + 1
          /\ began' = began \cup {c} /\ found' = [found EXCEPT ![c] = instance'] /\ L!Goes(c, "ask")
          /\ UNCHANGED <<noticed, outcome>>
      BY <1>1 DEF L!Spawns
    <2>3. /\ instance' \in L!Known /\ instance'.secret = starts + 1 /\ instance'.home = "own"
          /\ instance'.port = L!StartPort(c) /\ instance'.version = "same"
      BY <1>0, <2>1, <2>2, RunsKnown
    <2>4. /\ plan' \in [Terminal -> L!Plan] /\ plan'[c].at = "ask" /\ plan'[c].command = plan[c].command
          /\ plan'[c].start = plan[c].start /\ plan'[c].port = plan[c].port
          /\ \A d \in Terminal \ {c} : plan'[d] = plan[d]
      BY <1>0, <2>2, GoesTo DEF Steps
    <2>5. found' \in [Terminal -> L!Known \cup {None}] /\ found'[c] = instance'
          /\ \A d \in Terminal \ {c} : found'[d] = found[d]
      BY <1>0, <2>2, <2>3
    <2>6. starts \in Nat /\ Renewed /\ starts' \in 0 .. MaxStarts
      BY <1>0, <2>1, <2>2, <2>3 DEF Renewed, ClientTypes
    <2>7. ClientTypes'
      BY <1>0, <2>2, <2>3, <2>4, <2>5, <2>6 DEF ClientTypes
    <2>8. PlanFits(c)' /\ ToldOnce(c)'
      BY <1>0, <2>2, <2>4, ClientAssumption DEF PlanFits, ToldOnce, L!Outcomes
    <2>9. Asks(c)'
      <3>1. L!Matches(c, found[c])'
        BY <2>3, <2>4, <2>5 DEF L!Matches, L!StartPort
      <3>2. QED
        BY <2>2, <2>3, <2>5, <2>6, <3>1 DEF Asks
    <2>10. QED
      BY <1>0, <2>2, <2>4, <2>5, <2>6, <2>7, <2>8, <2>9, CommandMoves
  <1>2. CASE L!AlreadyRunning(c)
    BY <1>0, <1>2, FindsIt DEF L!AlreadyRunning
  <1>3. CASE L!StartFails(c)
    <2>1. \E what \in L!Outcomes : L!Tell(c, what) /\ what # "done"
      BY <1>3 DEF L!StartFails, L!Outcomes
    <2>2. UNCHANGED <<instance, starts, found, noticed, began>>
      BY <1>3 DEF L!StartFails
    <2>3. QED
      BY <1>0, <2>1, <2>2, CommandGoes
  <1>4. QED
    BY <1>1, <1>2, <1>3 DEF L!Start

LEMMA StopKept ==
  ASSUME ClientInv, NEW c \in Terminal, L!Stop(c)
  PROVE  ClientInv'
  <1>0. /\ ClientTypes /\ PlanFits(c) /\ ToldOnce(c) /\ plan[c].at = "stop"
        /\ plan[c].command \in {"stop", "restart"} /\ (plan[c].command = "restart" => plan[c].start)
        /\ UNCHANGED <<starts, stranger, found, noticed, applied, began>>
    BY DEF ClientInv, OwnInv, PlanFits, L!Stop
  <1>1. instance' \in L!Known \cup {None} /\ stopped' \in [Terminal -> SUBSET L!Known] /\ Renewed
    <2>1. CASE L!Recorded /\ stopped' = [stopped EXCEPT ![c] = @ \cup {instance}] /\ instance' = None
      <3>1. instance \in L!Known
        BY <1>0, <2>1 DEF L!Recorded, ClientTypes
      <3>2. QED
        BY <1>0, <2>1, <3>1 DEF ClientTypes, Renewed
    <2>2. CASE UNCHANGED <<instance, stopped>>
      BY <1>0, <2>2 DEF ClientTypes, Renewed
    <2>3. QED
      BY <2>1, <2>2 DEF L!Stop
  <1>2. \/ plan[c].start /\ L!Goes(c, "start") /\ UNCHANGED outcome
        \/ L!Tell(c, "done") \/ L!Tell(c, "unconfirmed") \/ L!Tell(c, "failed")
    BY <1>0 DEF L!Stop
  <1>3. CASE plan[c].start /\ L!Goes(c, "start") /\ UNCHANGED outcome
    <2>1. /\ plan' \in [Terminal -> L!Plan] /\ plan'[c].at = "start" /\ plan'[c].command = plan[c].command
          /\ plan'[c].start = plan[c].start /\ \A d \in Terminal \ {c} : plan'[d] = plan[d]
      BY <1>0, <1>3, GoesTo DEF Steps
    <2>2. ClientTypes'
      BY <1>0, <1>1, <1>3, <2>1 DEF ClientTypes
    <2>3. PlanFits(c)' /\ ToldOnce(c)'
      BY <1>0, <1>3, <2>1 DEF PlanFits, ToldOnce
    <2>4. QED
      BY <1>0, <1>1, <1>3, <2>1, <2>2, <2>3, CommandMoves
  <1>4. ASSUME NEW what \in {"done", "unconfirmed", "failed"}, L!Tell(c, what)
        PROVE  ClientInv'
    <2>1. /\ outcome' \in [Terminal -> L!Outcomes \cup {None}] /\ outcome'[c] = what
          /\ \A d \in Terminal \ {c} : outcome'[d] = outcome[d]
          /\ L!Goes(c, "end") /\ "end" \in Steps
      BY <1>0, <1>4, TellsIt DEF L!Outcomes
    <2>2. /\ plan' \in [Terminal -> L!Plan] /\ plan'[c].at = "end" /\ plan'[c].command = plan[c].command
          /\ plan'[c].start = plan[c].start /\ \A d \in Terminal \ {c} : plan'[d] = plan[d]
      BY <1>0, <2>1, GoesTo
    <2>3. ClientTypes'
      BY <1>0, <1>1, <2>1, <2>2 DEF ClientTypes
    <2>4. plan[c].command \notin L!Writes
      BY <1>0 DEF L!Writes
    <2>5. PlanFits(c)' /\ ToldOnce(c)'
      BY <1>0, <2>1, <2>2, <2>4 DEF PlanFits, ToldOnce
    <2>6. QED
      BY <1>0, <1>1, <2>1, <2>2, <2>3, <2>5, CommandMoves
  <1>5. QED
    BY <1>2, <1>3, <1>4

LEMMA DoKept ==
  ASSUME ClientInv, NEW c \in Terminal, L!Do(c)
  PROVE  ClientInv'
  <1>0. /\ ClientTypes /\ PlanFits(c) /\ ToldOnce(c) /\ plan[c].at = "ask" /\ Asks(c)
        /\ UNCHANGED <<instance, starts, stranger, found, noticed, began, stopped>>
    BY DEF ClientInv, OwnInv, Asked, L!Do, L!worldVars
  <1>1. ASSUME L!Reaches(found[c]), L!Applies(c), NEW what \in {"done", "not_running", "cut"}, L!Tell(c, what)
        PROVE  ClientInv'
    <2> DEFINE site == [where |-> instance.home, port |-> instance.port, version |-> instance.version]
    <2>1. /\ instance \in L!Known /\ instance.home = found[c].home /\ instance.port = found[c].port
          /\ instance.version = found[c].version
      BY <1>0, <1>1 DEF L!Reaches, L!Recorded, Asks, ClientTypes
    <2>2. site \in L!Site /\ site.where = found[c].home /\ site.port = found[c].port /\ site.version = found[c].version
      BY <2>1 DEF L!Known, L!Site
    <2>3. /\ site.where = "own" /\ (plan[c].port \in {None, site.port} \/ plan[c].command = "config")
          /\ site.version = "different" => noticed[c]
      BY <1>0, <2>2 DEF Asks, L!Matches
    <2>4. applied' = [applied EXCEPT ![c] = IF plan[c].command \in L!Writes THEN Append(applied[c], site) ELSE applied[c]]
      BY <1>1 DEF L!Applies
    <2> HIDE DEF site
    <2>5. QED
      BY <1>0, <1>1, <2>2, <2>3, <2>4, AppliesOnce
  <1>2. ASSUME NEW what \in L!Outcomes \ {"done"}, L!Tell(c, what), UNCHANGED applied, what # "invalid"
        PROVE  ClientInv'
    <2>1. /\ outcome' \in [Terminal -> L!Outcomes \cup {None}] /\ outcome'[c] = what
          /\ \A d \in Terminal \ {c} : outcome'[d] = outcome[d]
          /\ L!Goes(c, "end") /\ "end" \in Steps
      BY <1>0, <1>2, TellsIt
    <2>2. /\ plan' \in [Terminal -> L!Plan] /\ plan'[c].at = "end" /\ plan'[c].command = plan[c].command
          /\ plan'[c].start = plan[c].start /\ \A d \in Terminal \ {c} : plan'[d] = plan[d]
      BY <1>0, <2>1, GoesTo
    <2>3. ClientTypes'
      BY <1>0, <1>2, <2>1, <2>2 DEF ClientTypes
    <2>5. PlanFits(c)' /\ ToldOnce(c)'
      BY <1>0, <1>2, <2>1, <2>2 DEF PlanFits, ToldOnce
    <2>6. Renewed
      BY <1>0 DEF Renewed, ClientTypes
    <2>7. QED
      BY <1>0, <1>2, <2>1, <2>2, <2>3, <2>5, <2>6, CommandMoves
  <1>3. CASE L!Answers(found[c]) /\ L!Applies(c) /\ L!Tell(c, "done")
    BY <1>1, <1>3 DEF L!Answers
  <1>4. CASE L!Reaches(found[c]) /\ L!Lost(c)
    BY <1>1, <1>4 DEF L!Lost
  <1>5. CASE L!Tell(c, "refused") /\ UNCHANGED applied
    BY <1>2, <1>5 DEF L!Outcomes
  <1>6. CASE L!VersionMismatch(c) /\ UNCHANGED applied
    BY <1>2, <1>6 DEF L!VersionMismatch, L!Outcomes
  <1>7. CASE L!Tell(c, "not_running") /\ UNCHANGED applied
    BY <1>2, <1>7 DEF L!Outcomes
  <1>8. QED
    BY <1>3, <1>4, <1>5, <1>6, <1>7 DEF L!Do

LEMMA ClientInvKept ==
  ASSUME ClientInv, [L!Next]_(L!clientVars)
  PROVE  ClientInv'
  <1>1. CASE UNCHANGED L!clientVars
    BY <1>1 DEF L!clientVars, ClientInv, ClientTypes, OwnInv, PlanFits, ToldOnce, Asked, Asks, L!Matches
  <1>2. CASE \E c \in Terminal :
          \/ L!Begin(c) \/ L!Inspect(c) \/ L!Connect(c) \/ L!ReadFiles(c) \/ L!Lock(c) \/ L!WithHomeLock(c)
          \/ L!Start(c) \/ L!Stop(c) \/ L!Do(c)
    BY <1>2, CommandsBegin, InspectKept, WithHomeLockKept, StartKept, StopKept, DoKept
  <1>3. QED
    BY <1>1, <1>2, WorldKept DEF L!Next

\* One terminal, and no server that comes up between a stop's look and its stop.
OneTerminal == ~Takeover /\ \A c, d \in Terminal : c = d

LEMMA StopsOwnKept ==
  ASSUME OneTerminal, ClientInv, StopsOwn, [L!Next]_(L!clientVars)
  PROVE  StopsOwn'
  <1>0. ClientTypes
    BY DEF ClientInv
  <1>1. ASSUME UNCHANGED <<plan, stopped>>, L!Running' /\ (\E c \in Terminal : plan[c].at = "stop") => instance' = instance /\ L!Running
        PROVE  StopsOwn'
    BY <1>1 DEF StopsOwn, L!MatchesStop, L!Matches
  <1>2. CASE UNCHANGED L!clientVars
    BY <1>1, <1>2 DEF L!clientVars, L!Running
  <1>3. CASE L!ServerStarts \/ L!ServerEnds
    <2>1. UNCHANGED <<plan, stopped>> /\ ~L!Running'
      BY <1>3 DEF L!ServerStarts, L!ServerEnds, L!ownVars, L!Running, L!Runs
    <2>2. QED
      BY <1>1, <2>1
  <1>4. CASE L!ServerPublishes
    BY <1>1, <1>4 DEF L!ServerPublishes, L!ownVars, OneTerminal
  <1>5. CASE L!ServerHangs
    <2>1. UNCHANGED <<plan, stopped>> /\ instance' = [instance EXCEPT !.state = "hangs"] /\ instance # None
      BY <1>5 DEF L!ServerHangs, L!ownVars
    <2>2. instance'.state = "hangs"
      BY <1>0, <2>1 DEF ClientTypes, L!Known
    <2>3. QED
      BY <1>1, <2>1, <2>2 DEF L!Running
  <1>6. CASE L!StrangerMoves
    BY <1>1, <1>6 DEF L!StrangerMoves, L!ownVars, L!Running
  <1>7. ASSUME NEW c \in Terminal,
               \/ L!Begin(c) \/ L!Inspect(c) \/ L!Connect(c) \/ L!ReadFiles(c) \/ L!Lock(c) \/ L!WithHomeLock(c)
               \/ L!Start(c) \/ L!Stop(c) \/ L!Do(c)
        PROVE  StopsOwn'
    <2>1. Terminal = {c}
      BY DEF OneTerminal
    <2>2. plan[c] \in L!Plan /\ plan \in [Terminal -> L!Plan]
      BY <1>0 DEF ClientTypes
    <2>3. plan'[c].command = plan[c].command /\ plan'[c].port = plan[c].port
      BY <1>7, <2>2 DEF L!Begin, L!Inspect, L!Connect, L!ReadFiles, L!Lock, L!WithHomeLock, L!Start, L!Stop, L!Do,
         L!Validates, L!ConfirmRemove, L!Spawns, L!AlreadyRunning, L!StartFails, L!Lost, L!VersionMismatch,
         L!Tell, L!Goes, L!Plan
    <2>4. plan'[c].at = "stop" => L!Inspect(c)
      BY <1>7, <2>2 DEF L!Begin, L!Connect, L!ReadFiles, L!Lock, L!WithHomeLock, L!Start, L!Stop, L!Do,
         L!Validates, L!ConfirmRemove, L!Spawns, L!AlreadyRunning, L!StartFails, L!Lost, L!VersionMismatch,
         L!Tell, L!Goes, L!Plan
    <2>5. plan'[c].at = "stop" /\ L!Running' => L!MatchesStop(c, instance)'
      <3>1. SUFFICES ASSUME L!Inspect(c), plan'[c].at = "stop", L!Running'
                     PROVE  L!MatchesStop(c, instance)
        BY <2>3, <2>4 DEF L!MatchesStop, L!Matches, L!Inspect, L!worldVars
      <3>2. L!Running
        BY <3>1 DEF L!Running, L!Inspect, L!worldVars
      <3>3. CASE L!Tell(c, "mismatch")
        BY <2>2, <3>1, <3>3 DEF L!Tell, L!Goes, L!Plan
      <3>4. QED
        BY <3>1, <3>2, <3>3 DEF L!Inspect
    <2>6. \A s \in stopped'[c] :
              \/ s.state = "hangs"
              \/ s.home = "own" /\ (plan[c].port \in {None, s.port} \/ plan[c].command = "restart")
      <3>1. CASE UNCHANGED stopped
        BY <3>1 DEF StopsOwn
      <3>2. CASE L!Stop(c) /\ L!Recorded /\ stopped' = [stopped EXCEPT ![c] = @ \cup {instance}]
        <4>1. plan[c].at = "stop" /\ plan[c].command \in {"stop", "restart"}
          BY <3>2 DEF L!Stop, ClientInv, OwnInv, PlanFits
        <4>2. instance \in L!Known /\ instance # None /\ instance.state \in {"answers", "hangs"}
          BY <1>0, <3>2 DEF ClientTypes, L!Recorded, L!Known
        <4>3. \/ instance.state = "hangs"
              \/ instance.home = "own" /\ (plan[c].port \in {None, instance.port} \/ plan[c].command = "restart")
          BY <4>1, <4>2 DEF StopsOwn, L!Running, L!MatchesStop, L!Matches
        <4>4. stopped'[c] = stopped[c] \cup {instance}
          BY <1>0, <3>2 DEF ClientTypes
        <4>5. QED
          BY <4>3, <4>4 DEF StopsOwn
      <3>3. QED
        BY <1>7, <3>1, <3>2 DEF L!Begin, L!Inspect, L!Connect, L!ReadFiles, L!Lock, L!WithHomeLock, L!Start,
           L!Stop, L!Do
    <2>7. QED
      BY <2>1, <2>3, <2>5, <2>6 DEF StopsOwn
  <1>8. QED
    BY <1>2, <1>3, <1>4, <1>5, <1>6, <1>7 DEF L!Next

LEMMA ClientInvHolds == L!Spec => []ClientInv
  <1>1. L!Init => ClientInv
    <2> SUFFICES ASSUME L!Init PROVE ClientInv
      OBVIOUS
    <2>1. plan \in [Terminal -> L!Plan] /\ \A c \in Terminal : plan[c].at = "check"
      BY DEF L!Init, L!Plan
    <2>2. ClientTypes
      BY <2>1, ClientAssumption DEF L!Init, ClientTypes
    <2>3. OwnInv
      BY <2>1, ClientAssumption DEF L!Init, OwnInv, PlanFits, ToldOnce, L!Outcomes
    <2>4. Asked
      BY <2>1 DEF L!Init, Asked
    <2>5. QED
      BY <2>2, <2>3, <2>4 DEF ClientInv
  <1>2. ClientInv /\ [L!Next]_(L!clientVars) => ClientInv'
    BY ClientInvKept
  <1>3. QED
    BY <1>1, <1>2, PTL DEF L!Spec

\* What a change comes to, for any number of commands at once and whatever
\* servers come up: it is done once, by this home's server on the port that was
\* asked for or in the files with no server beside, and one that was refused was
\* not done; only commands that may start a server do; and whoever was answered
\* by another version was told of it (client.go:1-14, 388-420, 432-458).
ChangesAreDoneOnce == \A c \in Terminal : ToldOnce(c)

THEOREM ChangesDoneOnce == L!Spec => []ChangesAreDoneOnce
  <1>1. ClientInv => ChangesAreDoneOnce
    BY DEF ClientInv, OwnInv, ChangesAreDoneOnce
  <1>2. QED
    BY <1>1, ClientInvHolds, PTL

\* A command beside no other keeps to its home's server, which it stops and no
\* other one: ClientKeepsToItsServer of Client, when no server comes up between
\* a stop's look and its stop (client.go:92-112, 388-420).
THEOREM ClientKeeps ==
  ASSUME OneTerminal
  PROVE  L!Spec => []L!ClientKeepsToItsServer
  <1>1. L!Init => StopsOwn
    BY DEF L!Init, StopsOwn
  <1>2. ClientInv /\ StopsOwn /\ [L!Next]_(L!clientVars) => StopsOwn'
    BY StopsOwnKept
  <1>3. ClientInv /\ StopsOwn => L!ClientKeepsToItsServer
    BY DEF ClientInv, OwnInv, ToldOnce, StopsOwn, L!ClientKeepsToItsServer
  <1>4. QED
    BY <1>1, <1>2, <1>3, ClientInvHolds, PTL DEF L!Spec

-----------------------------------------------------------------------------
(* PublisherCheck: the invariant, for any lists of manifests *)

AnyListing == [sound : BOOLEAN, entries : Seq(K!Kinds)]

\* The check of repositories whose lists are of any length and kind.
AK == INSTANCE PublisherCheck WITH NoCommit <- None, Listing <- AnyListing

\* The steps do not say which lists there are.
CheckSpec == AK!Init /\ [][K!Next]_(K!checkVars)

Running == pass \in {"run", "again"}
Judging == {"entry", "rights", "metadata", "data"}

RepositoryTypes ==
    /\ tip \in Commit /\ tree \in [K!View -> [Commit -> AnyListing]]
    /\ pin \in [K!View -> Commit \cup {None}] /\ validated \subseteq K!View
    /\ reported \in Commit \cup {None}

PassTypes ==
    /\ pass \in {"discover", "discover_legacy", "run", "again"} /\ view \in K!View
    /\ step \in {"head", "listing", "classify", "descriptor", "done", "ended"} \cup Judging
    /\ nth \in Nat \ {0} /\ descriptors \subseteq Nat /\ handed \subseteq Nat /\ clean \subseteq Nat
    /\ proof \in {"unread", "good", "bad"} /\ proved \subseteq Nat

AnswerTypes ==
    /\ refused \in BOOLEAN /\ kept \in BOOLEAN /\ unrunnable \in BOOLEAN
    /\ verdict \in {"none", "ok", "refused", "unrunnable"}
    /\ met \subseteq {"git", "discovery"}

CheckTypes == RepositoryTypes /\ PassTypes /\ AnswerTypes

\* What has failed is remembered, and a verdict is given at the end only.
Remembered ==
    /\ "git" \in met => unrunnable
    /\ "discovery" \in met => kept
    /\ verdict # "none" => step = "ended"
    /\ verdict \in {"ok", "refused"} => ~unrunnable
    /\ verdict = "ok" => ~refused /\ ~kept

\* A pass reads the commit its view is bound to, which is the one of the
\* original objects and the one that is reported.
Bound ==
    /\ pass = "discover" => view = "original"
    /\ pass = "discover_legacy" => view = "legacy"
    /\ step \in {"head", "listing"} => ~refused
    /\ step # "head" /\ ~refused => pin[view] \in Commit /\ reported = pin[view]
    /\ view = "legacy" => pin["legacy"] = pin["original"] /\ pin["original"] \in Commit

\* What a discovery that found nothing says of the original objects.
Plain(listing, n) ==
    /\ listing.sound /\ Len(listing.entries) <= MaxManifests
    /\ \A i \in DOMAIN listing.entries : i < n => listing.entries[i] # "attached"

Discovered ==
    /\ view = "legacy" =>
        LET listing == tree["original"][pin["original"]] IN Plain(listing, Len(listing.entries) + 1)
    /\ K!Discovering =>
        /\ ~refused /\ step \in {"head", "listing", "classify", "entry"}
        /\ step = "classify" => Plain(tree[view][pin[view]], 1)
        /\ step = "entry" => Plain(tree[view][pin[view]], nth)
                             /\ \A i \in descriptors : K!Listed[i] \in K!Descriptor

\* What a run that has no finding has judged: the entries before the nth, of
\* which descriptors wait for their manifests.
JudgedSoFar ==
    /\ step \in {"head", "listing", "classify"} => nth = 1 /\ clean = {} /\ descriptors = {}
    /\ Running /\ ~refused /\ step \in {"classify", "descriptor"} \cup Judging => tree[view][pin[view]].sound
    /\ Running /\ ~refused /\ step \in {"descriptor"} \cup Judging =>
        /\ \A i \in descriptors : i \in K!Entries /\ K!Listed[i] \in K!Descriptor
        /\ descriptors # {} => K!Paired(descriptors)
        /\ \A i \in clean : /\ i \in K!Entries /\ i \notin descriptors /\ K!Listed[i] \in {"plain", "attached"}
                            /\ i < nth \/ (i = nth /\ step \in {"rights", "metadata", "data"})
        /\ \A i \in 1 .. nth - 1 :
            /\ i \in K!Entries /\ (i \in clean \/ i \in descriptors)
            /\ i \in clean /\ K!Listed[i] = "attached" => view = "original" /\ i \in proved
        /\ step \in {"rights", "metadata", "data"} => nth \in K!Entries /\ view = "original" /\ nth \in clean
        /\ step = "descriptor" => nth \notin K!Entries /\ nth \notin DOMAIN K!Listed

\* At the end of a run without a finding everything was judged.
AllJudged ==
    step \in {"done", "ended"} /\ ~refused =>
        LET listing == tree[view][pin[view]] IN
        /\ Running
        /\ listing.sound /\ Len(listing.entries) <= MaxManifests
        /\ clean = DOMAIN listing.entries
        /\ \A i \in DOMAIN listing.entries :
            /\ listing.entries[i] \notin {"misfit", "invalid"}
            /\ listing.entries[i] = "attached" => view = "original" /\ i \in proved

CheckInv == CheckTypes /\ Remembered /\ Bound /\ Discovered /\ JudgedSoFar /\ AllJudged

-----------------------------------------------------------------------------
(* PublisherCheck: its steps keep the invariant *)

\* What a list of a commit is, and which of its entries are judged.
LEMMA ListsOf ==
  ASSUME CheckTypes, NEW v \in K!View, NEW c \in Commit
  PROVE  /\ tree[v][c].sound \in BOOLEAN /\ tree[v][c].entries \in Seq(K!Kinds)
         /\ Len(tree[v][c].entries) \in Nat /\ DOMAIN tree[v][c].entries = 1 .. Len(tree[v][c].entries)
         /\ \A i \in DOMAIN tree[v][c].entries : tree[v][c].entries[i] \in K!Kinds
  <1>1. tree[v][c] \in AnyListing
    BY DEF CheckTypes, Judging, RepositoryTypes, PassTypes, AnswerTypes
  <1>2. tree[v][c].sound \in BOOLEAN /\ tree[v][c].entries \in Seq(K!Kinds)
    BY <1>1 DEF AnyListing
  <1>3. QED
    BY <1>2

LEMMA EntriesAre ==
  ASSUME CheckTypes, pin[view] \in Commit
  PROVE  /\ \A i : i \in K!Entries <=>
              i \in Nat \ {0} /\ i <= Len(tree[view][pin[view]].entries) /\ i <= MaxManifests
         /\ K!Entries \subseteq DOMAIN K!Listed
         /\ K!Listed = tree[view][pin[view]].entries
  <1>1. view \in K!View
    BY DEF CheckTypes, Judging, RepositoryTypes, PassTypes, AnswerTypes
  <1>2. Len(tree[view][pin[view]].entries) \in Nat
        /\ DOMAIN tree[view][pin[view]].entries = 1 .. Len(tree[view][pin[view]].entries)
    BY <1>1, ListsOf
  <1>3. QED
    BY <1>2, CheckAssumption DEF K!Entries, K!Listed

\* A pass that starts has the types of the first.
LEMMA StartPassTypes ==
  ASSUME CheckTypes, NEW p \in {"discover", "discover_legacy", "run", "again"}, NEW v \in K!View,
         K!StartPass(p, v), UNCHANGED <<tip, tree, validated, reported, verdict>>,
         pin' \in [K!View -> Commit \cup {None}], kept' \in BOOLEAN,
         unrunnable' \in BOOLEAN, met' \subseteq {"git", "discovery"}
  PROVE  CheckTypes'
  <1>1. /\ pass' = p /\ view' = v /\ step' = "head" /\ nth' = 1
        /\ descriptors' = {} /\ handed' = {} /\ clean' = {}
        /\ proof' = "unread" /\ proved' = {} /\ refused' = FALSE
    BY DEF K!StartPass
  <1>2. QED
    <2>1. RepositoryTypes'
      BY <1>1 DEF CheckTypes, RepositoryTypes
    <2>2. PassTypes'
      BY <1>1 DEF CheckTypes, PassTypes, Judging
    <2>3. AnswerTypes'
      BY <1>1 DEF CheckTypes, AnswerTypes
    <2>4. QED
      BY <2>1, <2>2, <2>3 DEF CheckTypes

LEMMA IndeterminateTypes ==
  ASSUME CheckTypes, K!Indeterminate, UNCHANGED <<tip, tree, validated, reported, verdict>>,
         unrunnable' \in BOOLEAN, met' \subseteq {"git", "discovery"}
  PROVE  CheckTypes'
  <1> DEFINE v == IF pass = "discover" THEN "original" ELSE "legacy"
  <1>1. v \in K!View /\ K!StartPass("run", v) /\ pin' \in [K!View -> Commit \cup {None}] /\ kept' \in BOOLEAN
    BY DEF K!Indeterminate, K!View, CheckTypes, Judging, RepositoryTypes, PassTypes, AnswerTypes
  <1> HIDE DEF v
  <1>2. QED
    BY <1>1, StartPassTypes

\* A call that fails, or none.
LEMMA FailedTypes ==
  ASSUME CheckTypes
  PROVE  /\ (\E how \in K!Failures : K!Failed(how)) => unrunnable' \in BOOLEAN /\ met' \subseteq {"git", "discovery"}
         /\ K!Refuted => refused' = TRUE /\ unrunnable' \in BOOLEAN /\ met' \subseteq {"git", "discovery"}
         /\ K!Holds => UNCHANGED <<refused, unrunnable, met>>
  BY DEF CheckTypes, Judging, RepositoryTypes, PassTypes, AnswerTypes, K!Failed, K!Noted, K!Failures, K!Refuted, K!Holds

\* What a run does with an entry: discard the pass, pass over it, judge it, or
\* go on to its proofs.
LEMMA JudgeCases ==
  ASSUME CheckTypes, K!Judge
  PROVE  /\ UNCHANGED <<tip, tree, pin, validated, kept, unrunnable, reported, verdict, met>>
         /\ step = "entry" /\ nth \in K!Entries /\ ~K!Discovering
         /\ \/ K!StartPass("again", "original")
            \/ /\ K!Skipped \/ K!Listed[nth] = "plain"
               /\ nth' = nth + 1 /\ clean' = clean \cup ({nth} \ descriptors)
               /\ UNCHANGED <<pass, view, step, descriptors, handed, proof, proved, refused>>
            \/ /\ ~K!Skipped /\ K!Listed[nth] = "attached" /\ view = "original"
               /\ step' = "rights" /\ clean' = clean \cup {nth}
               /\ UNCHANGED <<pass, view, nth, descriptors, handed, proof, proved, refused>>
            \/ /\ nth' = nth + 1 /\ refused' = TRUE
               /\ UNCHANGED <<pass, view, step, descriptors, handed, clean, proof, proved>>
  BY DEF K!Judge, K!Due, K!View, CheckTypes, Judging, RepositoryTypes, PassTypes, AnswerTypes

LEMMA CheckTypesKept ==
  ASSUME CheckTypes, [K!Next]_(K!checkVars)
  PROVE  CheckTypes'
  <1>1. CASE K!MoveHead
    BY <1>1 DEF K!MoveHead, CheckTypes, Judging, RepositoryTypes, PassTypes, AnswerTypes
  <1>2. CASE K!FailsEarly
    <2>1. UNCHANGED <<tip, tree, validated, reported, verdict>> /\ \E how \in K!Failures : K!Failed(how)
      BY <1>2 DEF K!FailsEarly
    <2>2. CASE K!Indeterminate
      BY <2>1, <2>2, FailedTypes, IndeterminateTypes
    <2>3. CASE K!Ends
      BY <2>1, <2>3, FailedTypes DEF K!Ends, CheckTypes, Judging, RepositoryTypes, PassTypes, AnswerTypes
    <2>4. QED
      BY <1>2, <2>2, <2>3 DEF K!FailsEarly
  <1>3. CASE K!ReadHead
    <2>1. pin' \in [K!View -> Commit \cup {None}] /\ pin'[view] \in Commit \cup {None}
      BY <1>3 DEF K!ReadHead, CheckTypes, Judging, RepositoryTypes, PassTypes, AnswerTypes
    <2>2. QED
      BY <1>3, <2>1 DEF K!ReadHead, CheckTypes, Judging, RepositoryTypes, PassTypes, AnswerTypes
  <1>4. CASE K!ReadListing
    <2>1. UNCHANGED <<tip, tree, validated, unrunnable, reported, verdict, met>> /\ step = "listing"
      BY <1>4 DEF K!ReadListing
    <2>2. CASE K!Indeterminate
      BY <2>1, <2>2, IndeterminateTypes DEF CheckTypes, Judging, RepositoryTypes, PassTypes, AnswerTypes
    <2>3. CASE /\ refused' = ~tree[view][pin[view]].sound /\ step' = "classify"
               /\ UNCHANGED <<pass, view, pin, nth, descriptors, handed, clean, proof, proved, kept>>
      BY <2>1, <2>3 DEF CheckTypes, Judging, RepositoryTypes, PassTypes, AnswerTypes
    <2>4. QED
      BY <1>4, <2>2, <2>3 DEF K!ReadListing
  <1>5. CASE K!Classify
    <2>1. /\ \E how \in K!Failures : K!Failed(how)
          /\ descriptors' \subseteq K!Entries /\ handed' \subseteq K!Entries /\ refused' \in BOOLEAN
      BY <1>5 DEF K!Classify, CheckTypes, Judging, RepositoryTypes, PassTypes, AnswerTypes
    <2>2. K!Entries \subseteq Nat
      BY DEF K!Entries
    <2>3. /\ step' = "entry" /\ step = "classify"
          /\ UNCHANGED <<tip, tree, pass, view, pin, validated, nth, clean, proof, proved, kept, reported, verdict>>
      BY <1>5 DEF K!Classify
    <2>4. QED
      <3>1. RepositoryTypes'
        BY <2>1, <2>2, <2>3, FailedTypes DEF CheckTypes, RepositoryTypes
      <3>2. PassTypes'
        BY <2>1, <2>2, <2>3, FailedTypes DEF CheckTypes, PassTypes, Judging
      <3>3. AnswerTypes'
        BY <2>1, <2>2, <2>3, FailedTypes DEF CheckTypes, AnswerTypes
      <3>4. QED
        BY <3>1, <3>2, <3>3 DEF CheckTypes
  <1>6. CASE K!EntryFails
    <2>1. UNCHANGED <<tip, tree, validated, reported, verdict>> /\ \E how \in K!Failures : K!Failed(how)
      BY <1>6 DEF K!EntryFails
    <2>2. CASE K!Indeterminate
      BY <2>1, <2>2, FailedTypes, IndeterminateTypes
    <2>3. CASE /\ refused' = TRUE /\ nth' = nth + 1
               /\ UNCHANGED <<pass, view, step, pin, descriptors, handed, clean, proof, proved, kept>>
      <3>1. RepositoryTypes'
        BY <2>1, <2>3, FailedTypes DEF CheckTypes, RepositoryTypes
      <3>2. PassTypes'
        BY <2>1, <2>3, FailedTypes DEF CheckTypes, PassTypes, Judging
      <3>3. AnswerTypes'
        BY <2>1, <2>3, FailedTypes DEF CheckTypes, AnswerTypes
      <3>4. QED
        BY <3>1, <3>2, <3>3 DEF CheckTypes
    <2>4. QED
      BY <1>6, <2>2, <2>3 DEF K!EntryFails
  <1>7. CASE K!Discover
    <2>1. UNCHANGED <<tip, tree, validated, unrunnable, reported, verdict, met>>
      BY <1>7 DEF K!Discover
    <2>2. CASE K!Indeterminate
      BY <2>1, <2>2, IndeterminateTypes DEF CheckTypes, Judging, RepositoryTypes, PassTypes, AnswerTypes
    <2>3. CASE K!Present
      <3>1. "run" \in {"discover", "discover_legacy", "run", "again"} /\ "original" \in K!View
        BY DEF K!View
      <3>2. QED
        BY <2>1, <2>3, <3>1, StartPassTypes DEF K!Present, CheckTypes, Judging, RepositoryTypes, PassTypes, AnswerTypes
    <2>4. CASE /\ nth' = nth + 1
               /\ UNCHANGED <<pass, view, step, pin, descriptors, handed, clean, proof, proved, refused, kept>>
      BY <2>1, <2>4 DEF CheckTypes, Judging, RepositoryTypes, PassTypes, AnswerTypes
    <2>5. QED
      BY <1>7, <2>2, <2>3, <2>4 DEF K!Discover
  <1>8. CASE K!DiscoverEnds
    <2>1. UNCHANGED <<tip, tree, validated, kept, unrunnable, reported, verdict, met>> /\ K!Absent
      BY <1>8 DEF K!DiscoverEnds
    <2>2. pin' \in [K!View -> Commit \cup {None}]
      BY <2>1 DEF K!Absent, K!View, CheckTypes, Judging, RepositoryTypes, PassTypes, AnswerTypes
    <2>3. \/ K!StartPass("discover_legacy", "legacy")
          \/ K!StartPass("run", "legacy")
      BY <2>1 DEF K!Absent
    <2>4. "legacy" \in K!View /\ {"run", "discover_legacy"} \subseteq {"discover", "discover_legacy", "run", "again"}
      BY DEF K!View
    <2>5. kept' \in BOOLEAN /\ unrunnable' \in BOOLEAN /\ met' \subseteq {"git", "discovery"}
      BY <2>1 DEF CheckTypes, Judging, RepositoryTypes, PassTypes, AnswerTypes
    <2>6. QED
      BY <2>1, <2>2, <2>3, <2>4, <2>5, StartPassTypes
  <1>9. CASE K!Judge
    <2>1. UNCHANGED <<tip, tree, pin, validated, kept, unrunnable, reported, verdict, met>>
      BY <1>9 DEF K!Judge
    <2>2. CASE K!StartPass("again", "original")
      <3>1. "again" \in {"discover", "discover_legacy", "run", "again"} /\ "original" \in K!View
        BY DEF K!View
      <3>2. QED
        BY <2>1, <2>2, <3>1, StartPassTypes DEF CheckTypes, Judging, RepositoryTypes, PassTypes, AnswerTypes
    <2>3. CASE /\ nth' = nth + 1 /\ clean' = clean \cup ({nth} \ descriptors)
               /\ UNCHANGED <<pass, view, step, descriptors, handed, proof, proved, refused>>
      BY <2>1, <2>3 DEF CheckTypes, Judging, RepositoryTypes, PassTypes, AnswerTypes
    <2>4. CASE /\ step' = "rights" /\ clean' = clean \cup {nth}
               /\ UNCHANGED <<pass, view, nth, descriptors, handed, proof, proved, refused>>
      <3>1. RepositoryTypes'
        BY <2>1, <2>4 DEF CheckTypes, RepositoryTypes
      <3>2. PassTypes'
        BY <2>1, <2>4 DEF CheckTypes, PassTypes, Judging
      <3>3. AnswerTypes'
        BY <2>1, <2>4 DEF CheckTypes, AnswerTypes
      <3>4. QED
        BY <3>1, <3>2, <3>3 DEF CheckTypes
    <2>5. CASE /\ nth' = nth + 1 /\ refused' = TRUE
               /\ UNCHANGED <<pass, view, step, descriptors, handed, clean, proof, proved>>
      BY <2>1, <2>5 DEF CheckTypes, Judging, RepositoryTypes, PassTypes, AnswerTypes
    <2>6. QED
      BY <1>9, <2>2, <2>3, <2>4, <2>5, JudgeCases
  <1>10. CASE K!Rights
    <2>1. RepositoryTypes'
      BY <1>10, FailedTypes DEF CheckTypes, RepositoryTypes, K!Rights
    <2>2. PassTypes'
      BY <1>10, FailedTypes DEF CheckTypes, PassTypes, Judging, K!Rights
    <2>3. AnswerTypes'
      BY <1>10, FailedTypes DEF CheckTypes, AnswerTypes, K!Rights
    <2>4. QED
      BY <2>1, <2>2, <2>3 DEF CheckTypes
  <1>11. CASE K!Metadata
    <2>1. RepositoryTypes'
      BY <1>11, FailedTypes DEF CheckTypes, RepositoryTypes, K!Metadata
    <2>2. PassTypes'
      BY <1>11, FailedTypes DEF CheckTypes, PassTypes, Judging, K!Metadata
    <2>3. AnswerTypes'
      BY <1>11, FailedTypes DEF CheckTypes, AnswerTypes, K!Metadata
    <2>4. QED
      BY <2>1, <2>2, <2>3 DEF CheckTypes
  <1>12. CASE K!SourceData
    <2>1. RepositoryTypes'
      BY <1>12, FailedTypes DEF CheckTypes, RepositoryTypes, K!SourceData
    <2>2. PassTypes'
      <3>1. /\ step' = "entry" /\ nth' = nth + 1 /\ proof' \in {"good", "bad"} /\ proved' \subseteq proved \cup {nth}
            /\ UNCHANGED <<pass, view, descriptors, handed, clean>>
        BY <1>12 DEF K!SourceData
      <3>2. QED
        BY <3>1 DEF CheckTypes, PassTypes, Judging
    <2>3. AnswerTypes'
      BY <1>12, FailedTypes DEF CheckTypes, AnswerTypes, K!SourceData
    <2>4. QED
      BY <2>1, <2>2, <2>3 DEF CheckTypes
  <1>13. CASE K!RunEnds
    BY <1>13 DEF K!RunEnds, K!Ends, CheckTypes, Judging, RepositoryTypes, PassTypes, AnswerTypes
  <1>14. CASE K!JudgeDescriptor
    BY <1>14 DEF K!JudgeDescriptor, CheckTypes, Judging, RepositoryTypes, PassTypes, AnswerTypes
  <1>15. CASE K!Verdict
    BY <1>15 DEF K!Verdict, CheckTypes, Judging, RepositoryTypes, PassTypes, AnswerTypes
  <1>16. CASE UNCHANGED K!checkVars
    BY <1>16 DEF K!checkVars, CheckTypes, Judging, RepositoryTypes, PassTypes, AnswerTypes
  <1>17. QED
    BY <1>1, <1>2, <1>3, <1>4, <1>5, <1>6, <1>7, <1>8, <1>9, <1>10, <1>11, <1>12, <1>13, <1>14, <1>15,
       <1>16 DEF K!Next

\* What a failed call leaves, in a pass that goes on or not.
LEMMA FailuresRemembered ==
  ASSUME AnswerTypes, Remembered, \E how \in K!Failures : K!Failed(how)
  PROVE  /\ "git" \in met' => unrunnable'
         /\ "discovery" \in met' => kept \/ (pass = "discover" /\ step # "classify")
  BY DEF AnswerTypes, Remembered, K!Failed, K!Noted, K!Failures

LEMMA RememberedKept ==
  ASSUME CheckTypes, Remembered, Discovered, [K!Next]_(K!checkVars)
  PROVE  Remembered'
  <1> USE DEF CheckTypes, Remembered
  <1>1. CASE K!MoveHead
    BY <1>1 DEF K!MoveHead
  <1>2. CASE K!FailsEarly
    <2>1. UNCHANGED verdict /\ step \in {"head", "listing"} /\ \E how \in K!Failures : K!Failed(how)
      BY <1>2 DEF K!FailsEarly
    <2>2. kept' = kept \/ kept' = (kept \/ pass = "discover")
      BY <1>2 DEF K!FailsEarly, K!Indeterminate, K!Ends
    <2>3. pass = "discover" => kept' = (kept \/ pass = "discover")
      BY <1>2 DEF K!FailsEarly, K!Indeterminate, K!Discovering
    <2>4. ("git" \in met' => unrunnable') /\ ("discovery" \in met' => kept')
      BY <2>1, <2>2, <2>3, FailuresRemembered
    <2>5. QED
      BY <2>1, <2>4
  <1>3. CASE K!ReadHead
    BY <1>3 DEF K!ReadHead
  <1>4. CASE K!ReadListing
    <2>1. UNCHANGED <<unrunnable, verdict, met>> /\ step = "listing" /\ (kept => kept')
      BY <1>4 DEF K!ReadListing, K!Indeterminate
    <2>2. QED
      BY <2>1
  <1>5. CASE K!Classify
    <2>1. UNCHANGED <<kept, verdict>> /\ step = "classify" /\ \E how \in K!Failures : K!Failed(how)
      BY <1>5 DEF K!Classify
    <2>2. QED
      BY <2>1, FailuresRemembered
  <1>6. CASE K!EntryFails
    <2>1. UNCHANGED verdict /\ step = "entry" /\ \E how \in K!Failures : K!Failed(how)
      BY <1>6 DEF K!EntryFails, K!Reads, K!Due
    <2>2. kept' = kept \/ kept' = (kept \/ pass = "discover")
      BY <1>6 DEF K!EntryFails, K!Indeterminate
    <2>3. pass = "discover" => kept' = (kept \/ pass = "discover")
      BY <1>6 DEF K!EntryFails, K!Indeterminate, K!Discovering
    <2>4. ("git" \in met' => unrunnable') /\ ("discovery" \in met' => kept')
      BY <2>1, <2>2, <2>3, FailuresRemembered
    <2>5. QED
      BY <2>1, <2>4
  <1>7. CASE K!Discover
    <2>1. UNCHANGED <<unrunnable, verdict, met>> /\ step = "entry"
      BY <1>7 DEF K!Discover, K!Due
    <2>2. kept => kept'
      BY <1>7 DEF K!Discover, K!Indeterminate, K!Present
    <2>3. QED
      BY <2>1, <2>2
  <1>8. CASE K!DiscoverEnds
    BY <1>8 DEF K!DiscoverEnds
  <1>9. CASE K!Judge
    BY <1>9, JudgeCases
  <1>10. CASE K!Rights \/ K!Metadata \/ K!SourceData
    <2>1. UNCHANGED <<kept, verdict>> /\ step \in {"rights", "metadata", "data"}
      BY <1>10 DEF K!Rights, K!Metadata, K!SourceData
    <2>2. \/ UNCHANGED <<unrunnable, met>>
          \/ \E how \in K!Failures : K!Failed(how)
      BY <1>10 DEF K!Rights, K!Metadata, K!SourceData, K!Refuted, K!Holds
    <2>3. pass # "discover"
      BY <2>1 DEF Discovered, K!Discovering
    <2>4. QED
      BY <2>1, <2>2, <2>3, FailuresRemembered
  <1>13. CASE K!RunEnds
    BY <1>13 DEF K!RunEnds, K!Ends
  <1>14. CASE K!JudgeDescriptor
    BY <1>14 DEF K!JudgeDescriptor
  <1>15. CASE K!Verdict
    BY <1>15 DEF K!Verdict
  <1>16. CASE UNCHANGED K!checkVars
    BY <1>16 DEF K!checkVars
  <1>17. QED
    BY <1>1, <1>2, <1>3, <1>4, <1>5, <1>6, <1>7, <1>8, <1>9, <1>10, <1>13, <1>14, <1>15, <1>16 DEF K!Next

LEMMA BoundKept ==
  ASSUME CheckTypes, Bound, Discovered, [K!Next]_(K!checkVars)
  PROVE  Bound'
  <1> USE DEF Bound, K!Discovering
  <1>1. CASE K!MoveHead
    BY <1>1 DEF K!MoveHead
  <1>2. ASSUME K!Indeterminate, K!Discovering, UNCHANGED <<tree, reported>>
        PROVE  Bound'
    BY <1>2 DEF K!Indeterminate, K!StartPass
  <1>3. ASSUME UNCHANGED <<pass, view, pin, reported>>, refused => refused', step = "head" => refused',
               step' \notin {"head", "listing"}
        PROVE  Bound'
    BY <1>3
  <1>4. CASE K!FailsEarly
    BY <1>2, <1>4 DEF K!FailsEarly, K!Ends
  <1>5. CASE K!ReadHead
    <2>1. /\ UNCHANGED <<pass, view, refused>> /\ reported' = pin'[view] /\ ~refused
          /\ pin' = [pin EXCEPT ![view] = IF pin[view] = None THEN tip ELSE pin[view]]
      BY <1>5 DEF K!ReadHead
    <2>2. view \in K!View /\ pin \in [K!View -> Commit \cup {None}] /\ tip \in Commit /\ None \notin Commit
      BY CheckAssumption DEF CheckTypes, PassTypes, RepositoryTypes
    <2>3. pin'[view] \in Commit /\ (view = "legacy" => pin' = pin)
      BY <2>1, <2>2 DEF K!View
    <2>4. QED
      BY <2>1, <2>3
  <1>6. CASE K!ReadListing
    <2>1. step = "listing" /\ UNCHANGED <<tree, reported>>
      BY <1>6 DEF K!ReadListing
    <2>2. QED
      BY <1>2, <1>6, <2>1 DEF K!ReadListing
  <1>7. CASE K!Classify
    BY <1>7, <1>3 DEF K!Classify
  <1>8. CASE K!EntryFails
    BY <1>2, <1>3, <1>8 DEF K!EntryFails, K!Reads, K!Due
  <1>9. CASE K!Discover
    <2>1. step = "entry" /\ UNCHANGED <<tree, reported>> /\ K!Discovering
      BY <1>9 DEF K!Discover, K!Due
    <2>2. CASE K!Present
      BY <2>2 DEF K!Present, K!StartPass
    <2>3. QED
      BY <1>2, <1>3, <1>9, <2>1, <2>2 DEF K!Discover
  <1>10. CASE K!DiscoverEnds
    <2>1. K!Absent /\ K!Discovering /\ step = "entry" /\ UNCHANGED reported /\ ~refused
      BY <1>10 DEF K!DiscoverEnds, Discovered
    <2>2. pin[view] \in Commit /\ pin \in [K!View -> Commit \cup {None}]
      BY <2>1 DEF CheckTypes, RepositoryTypes
    <2>3. CASE pass = "discover"
      BY <2>1, <2>2, <2>3 DEF K!Absent, K!StartPass, K!View
    <2>4. CASE pass # "discover"
      BY <2>1, <2>2, <2>4 DEF K!Absent, K!StartPass
    <2>5. QED
      BY <2>3, <2>4
  <1>11. CASE K!Judge
    <2>1. CASE K!StartPass("again", "original")
      BY <2>1 DEF K!StartPass
    <2>2. QED
      BY <1>3, <1>11, <2>1, JudgeCases
  <1>12. CASE K!Rights \/ K!Metadata \/ K!SourceData
    BY <1>3, <1>12 DEF K!Rights, K!Metadata, K!SourceData, K!Holds, K!Refuted
  <1>13. CASE K!RunEnds
    BY <1>3, <1>13 DEF K!RunEnds, K!Ends
  <1>14. CASE K!JudgeDescriptor
    BY <1>3, <1>14 DEF K!JudgeDescriptor
  <1>15. CASE K!Verdict
    BY <1>3, <1>15 DEF K!Verdict
  <1>16. CASE UNCHANGED K!checkVars
    BY <1>16 DEF K!checkVars
  <1>17. QED
    BY <1>1, <1>4, <1>5, <1>6, <1>7, <1>8, <1>9, <1>10, <1>11, <1>12, <1>13, <1>14, <1>15, <1>16 DEF K!Next

LEMMA SameList ==
  ASSUME UNCHANGED <<tree, view, pin>>
  PROVE  K!Listed' = K!Listed /\ K!Entries' = K!Entries
  BY DEF K!Listed, K!Entries

\* Nothing is left of a discovery once a run is under way.
LEMMA DiscoveredInRuns ==
  ASSUME Discovered, UNCHANGED tree, ~K!Discovering', pin' = pin, view' = "legacy" => view = "legacy"
  PROVE  Discovered'
  BY DEF Discovered, Plain

LEMMA DiscoveredKept ==
  ASSUME CheckTypes, Bound, Discovered, JudgedSoFar, [K!Next]_(K!checkVars)
  PROVE  Discovered'
  <1>1. CASE K!MoveHead \/ UNCHANGED K!checkVars
    <2>1. UNCHANGED <<tree, view, pin, pass, step, nth, descriptors, refused>>
      BY <1>1 DEF K!MoveHead, K!checkVars
    <2>2. QED
      BY <2>1, SameList DEF Discovered, Plain, K!Discovering
  <1>2. ASSUME K!Indeterminate, K!Discovering, UNCHANGED tree
        PROVE  Discovered'
    <2>1. ~K!Discovering' /\ pin' = pin /\ (view' = "legacy" => view = "legacy")
      BY <1>2 DEF K!Indeterminate, K!StartPass, K!Discovering, Bound
    <2>2. QED
      BY <1>2, <2>1, DiscoveredInRuns
  <1>3. ASSUME ~K!Discovering, UNCHANGED <<tree, pin, view, pass>>
        PROVE  Discovered'
    BY <1>3, DiscoveredInRuns DEF K!Discovering
  <1>4. CASE K!FailsEarly
    BY <1>2, <1>3, <1>4 DEF K!FailsEarly, K!Ends
  <1>5. CASE K!ReadHead
    <2>1. /\ UNCHANGED <<tree, view, pass, refused>> /\ step' = "listing" /\ K!Discovering' = K!Discovering
          /\ pin' = [pin EXCEPT ![view] = IF pin[view] = None THEN tip ELSE pin[view]]
      BY <1>5 DEF K!ReadHead, K!Discovering
    <2>2. view = "legacy" => pin' = pin
      BY <2>1, CheckAssumption DEF Bound, CheckTypes, RepositoryTypes, K!View
    <2>3. QED
      BY <2>1, <2>2 DEF Discovered, Plain
  <1>6. CASE K!ReadListing
    <2>1. step = "listing" /\ UNCHANGED tree
      BY <1>6 DEF K!ReadListing
    <2>2. CASE /\ ~(K!Discovering /\ (~tree[view][pin[view]].sound \/ Len(tree[view][pin[view]].entries) > MaxManifests))
               /\ refused' = ~tree[view][pin[view]].sound /\ step' = "classify"
               /\ UNCHANGED <<pass, view, pin, nth>>
      <3>1. CASE K!Discovering
        <4>1. ~refused /\ view \in K!View /\ pin[view] \in Commit
          BY <3>1, <2>1 DEF Discovered, Bound, CheckTypes, PassTypes
        <4>2. /\ Len(tree[view][pin[view]].entries) \in Nat /\ tree[view][pin[view]].sound
              /\ DOMAIN tree[view][pin[view]].entries \subseteq Nat \ {0}
          BY <2>2, <3>1, <4>1, ListsOf
        <4>3. Plain(tree[view][pin[view]], 1)
          BY <2>2, <3>1, <4>2, CheckAssumption DEF Plain
        <4>4. QED
          BY <2>1, <2>2, <4>2, <4>3 DEF Discovered, Plain, K!Discovering
      <3>2. CASE ~K!Discovering
        BY <1>3, <2>1, <2>2, <3>2
      <3>3. QED
        BY <3>1, <3>2
    <2>3. QED
      BY <1>2, <1>6, <2>1, <2>2 DEF K!ReadListing
  <1>7. CASE K!Classify
    <2>1. UNCHANGED <<tree, view, pin, pass, nth>> /\ step = "classify" /\ step' = "entry"
      BY <1>7 DEF K!Classify
    <2>2. K!Listed' = K!Listed /\ K!Discovering' = K!Discovering
      BY <2>1, SameList DEF K!Discovering
    <2>3. CASE K!Discovering
      <3>1. refused' = refused /\ \A i \in descriptors' : K!Listed[i] \in K!Descriptor
        BY <1>7, <2>3 DEF K!Classify, CheckTypes, AnswerTypes
      <3>2. nth = 1
        BY <2>1 DEF JudgedSoFar
      <3>3. QED
        BY <2>1, <2>2, <2>3, <3>1, <3>2 DEF Discovered, Plain
    <2>4. CASE ~K!Discovering
      BY <1>3, <2>1, <2>4
    <2>5. QED
      BY <2>3, <2>4
  <1>8. CASE K!EntryFails
    BY <1>2, <1>3, <1>8 DEF K!EntryFails
  <1>9. CASE K!Discover
    <2>1. step = "entry" /\ UNCHANGED tree /\ K!Discovering /\ nth \in K!Entries
      BY <1>9 DEF K!Discover, K!Due
    <2>2. CASE K!Present
      <3>1. ~K!Discovering' /\ pin' = pin /\ view' = "original"
        BY <2>2 DEF K!Present, K!StartPass, K!Discovering
      <3>2. QED
        BY <2>1, <3>1, DiscoveredInRuns
    <2>3. CASE /\ nth \in descriptors \/ K!Listed[nth] = "plain"
               /\ nth' = nth + 1
               /\ UNCHANGED <<pass, view, step, pin, descriptors, handed, clean, proof, proved, refused, kept>>
      <3>1. K!Listed[nth] # "attached"
        BY <2>1, <2>3 DEF Discovered, K!Descriptor
      <3>2. ~refused /\ view \in K!View /\ pin[view] \in Commit /\ nth \in Nat
        BY <2>1 DEF Discovered, Bound, CheckTypes, PassTypes
      <3>3. DOMAIN tree[view][pin[view]].entries \subseteq Nat
        BY <3>2, ListsOf
      <3>4. Plain(tree[view][pin[view]], nth)
        BY <2>1 DEF Discovered
      <3>5. Plain(tree[view][pin[view]], nth + 1)
        BY <3>1, <3>2, <3>3, <3>4 DEF Plain, K!Listed
      <3>6. K!Listed' = K!Listed /\ K!Discovering' = K!Discovering
        BY <2>1, <2>3, SameList DEF K!Discovering
      <3>7. QED
        BY <2>1, <2>3, <3>5, <3>6 DEF Discovered, Plain
    <2>4. QED
      BY <1>2, <1>9, <2>1, <2>2, <2>3 DEF K!Discover
  <1>10. CASE K!DiscoverEnds
    <2>1. K!Absent /\ K!Discovering /\ step = "entry" /\ ~refused /\ nth \notin K!Entries /\ UNCHANGED tree
      BY <1>10 DEF K!DiscoverEnds, Discovered
    <2>2. view \in K!View /\ pin[view] \in Commit /\ pin \in [K!View -> Commit \cup {None}] /\ nth \in Nat \ {0}
      BY <2>1 DEF Bound, CheckTypes, RepositoryTypes, PassTypes
    <2>3. CASE pass = "discover"
      <3>1. /\ pass' = "discover_legacy" /\ view' = "legacy" /\ step' = "head" /\ refused' = FALSE
            /\ pin' = [pin EXCEPT !["legacy"] = pin["original"]]
        BY <2>1, <2>3 DEF K!Absent, K!StartPass
      <3>2. pin'["original"] = pin["original"] /\ view = "original"
        BY <2>2, <2>3, <3>1 DEF K!View, Bound
      <3>3. Plain(tree[view][pin[view]], nth)
        BY <2>1 DEF Discovered
      <3>4. /\ Len(tree[view][pin[view]].entries) \in Nat
            /\ DOMAIN tree[view][pin[view]].entries = 1 .. Len(tree[view][pin[view]].entries)
        BY <2>2, ListsOf
      <3>5. nth > Len(tree[view][pin[view]].entries)
        <4>1. Len(tree[view][pin[view]].entries) <= MaxManifests /\ MaxManifests \in Nat
          BY <3>3, CheckAssumption DEF Plain
        <4>2. ~(nth <= Len(tree[view][pin[view]].entries) /\ nth <= MaxManifests)
          BY <2>1, <2>2, EntriesAre
        <4>3. QED
          BY <2>2, <3>4, <4>1, <4>2
      <3>6. Plain(tree[view][pin[view]], Len(tree[view][pin[view]].entries) + 1)
        BY <2>2, <3>3, <3>4, <3>5 DEF Plain
      <3>7. QED
        BY <2>1, <3>1, <3>2, <3>6 DEF Discovered, Plain
    <2>4. CASE pass # "discover"
      <3>1. ~K!Discovering' /\ pin' = pin /\ view = "legacy"
        BY <2>1, <2>4 DEF K!Absent, K!StartPass, K!Discovering, Bound
      <3>2. QED
        BY <2>1, <3>1, DiscoveredInRuns
    <2>5. QED
      BY <2>3, <2>4
  <1>11. CASE K!Judge
    <2>1. CASE K!StartPass("again", "original")
      <3>1. UNCHANGED <<tree, pin>> /\ ~K!Discovering' /\ view' = "original"
        BY <1>11, <2>1, JudgeCases DEF K!StartPass, K!Discovering
      <3>2. QED
        BY <3>1, DiscoveredInRuns
    <2>2. QED
      BY <1>3, <1>11, <2>1, JudgeCases
  <1>12. CASE K!Rights \/ K!Metadata \/ K!SourceData
    BY <1>3, <1>12 DEF K!Rights, K!Metadata, K!SourceData, Discovered
  <1>13. CASE K!RunEnds
    BY <1>3, <1>13 DEF K!RunEnds, K!Ends
  <1>14. CASE K!JudgeDescriptor
    BY <1>3, <1>14 DEF K!JudgeDescriptor, Discovered
  <1>15. CASE K!Verdict
    BY <1>3, <1>15 DEF K!Verdict, Discovered
  <1>17. QED
    BY <1>1, <1>4, <1>5, <1>6, <1>7, <1>8, <1>9, <1>10, <1>11, <1>12, <1>13, <1>14, <1>15 DEF K!Next

\* A pass that starts has judged nothing.
LEMMA NothingJudged ==
  ASSUME step' \in {"head", "listing"}, nth' = 1, clean' = {}, descriptors' = {}
  PROVE  JudgedSoFar' /\ AllJudged'
  BY DEF JudgedSoFar, AllJudged, Judging

\* Of a pass with a finding nothing is said, nor of a discovery.
LEMMA NothingSaid ==
  ASSUME refused' \/ ~Running', step' \in {"rights", "metadata", "data", "entry", "descriptor"}
  PROVE  JudgedSoFar' /\ AllJudged'
  BY DEF JudgedSoFar, AllJudged, Judging

LEMMA EndsRefused ==
  ASSUME refused', step' \in {"rights", "metadata", "data", "entry", "descriptor", "done", "ended"}
  PROVE  JudgedSoFar' /\ AllJudged'
  BY DEF JudgedSoFar, AllJudged, Judging

\* What is listed is judged to its end when the list is short enough.
LEMMA EndOfList ==
  ASSUME CheckTypes, pin[view] \in Commit,
         nth \notin K!Entries, nth \notin DOMAIN K!Listed, \A i \in 1 .. nth - 1 : i \in K!Entries
  PROVE  /\ K!Entries = DOMAIN K!Listed /\ Len(K!Listed) <= MaxManifests
         /\ \A i \in K!Entries : i \in 1 .. nth - 1
  <1>1. nth \in Nat \ {0} /\ view \in K!View /\ MaxManifests \in Nat
    BY CheckAssumption DEF CheckTypes, PassTypes
  <1>2. /\ Len(K!Listed) \in Nat /\ DOMAIN K!Listed = 1 .. Len(K!Listed)
        /\ \A i : i \in K!Entries <=> i \in Nat \ {0} /\ i <= Len(K!Listed) /\ i <= MaxManifests
    BY <1>1, ListsOf, EntriesAre DEF K!Listed
  <1>3. nth > Len(K!Listed)
    BY <1>1, <1>2
  <1>4. Len(K!Listed) <= MaxManifests
    <2>1. CASE nth = 1
      BY <1>1, <1>2, <1>3, <2>1
    <2>2. CASE nth # 1
      <3>1. nth - 1 \in K!Entries
        BY <1>1, <2>2
      <3>2. QED
        BY <1>1, <1>2, <1>3, <3>1
    <2>3. QED
      BY <2>1, <2>2
  <1>5. \A i : i \in K!Entries <=> i \in 1 .. Len(K!Listed)
    BY <1>1, <1>2, <1>4
  <1>6. \A i \in 1 .. Len(K!Listed) : i \in 1 .. nth - 1
    BY <1>1, <1>2, <1>3
  <1>7. QED
    BY <1>2, <1>4, <1>5, <1>6

LEMMA DescriptorJudged ==
  ASSUME CheckTypes, Bound, Discovered, JudgedSoFar, AllJudged, K!JudgeDescriptor
  PROVE  JudgedSoFar' /\ AllJudged'
  <1> DEFINE fits == {i \in descriptors : K!Paired(descriptors) /\ K!Entries \ descriptors \subseteq clean}
  <1>1. /\ step = "descriptor" /\ step' = "done" /\ UNCHANGED <<tree, pass, view, pin, nth, descriptors, proved>>
        /\ clean' = clean \cup {i \in fits : K!Listed[i] = "descriptor"}
        /\ refused' = (refused \/ \E i \in fits : K!Listed[i] = "misfit")
    BY DEF K!JudgeDescriptor
  <1>2. CASE refused'
    BY <1>1, <1>2, EndsRefused
  <1>3. CASE ~refused'
    <2>1. Running /\ ~refused /\ pin[view] \in Commit
      BY <1>1, <1>3 DEF Discovered, Bound, Running, K!Discovering, CheckTypes, PassTypes
    <2>2. /\ nth \notin K!Entries /\ nth \notin DOMAIN K!Listed
          /\ \A i \in 1 .. nth - 1 : i \in K!Entries /\ (i \in clean \/ i \in descriptors)
          /\ \A i \in 1 .. nth - 1 : i \in clean /\ K!Listed[i] = "attached" => view = "original" /\ i \in proved
          /\ \A i \in descriptors : i \in K!Entries /\ K!Listed[i] \in K!Descriptor
          /\ descriptors # {} => K!Paired(descriptors)
          /\ \A i \in clean : i \in K!Entries /\ K!Listed[i] \in {"plain", "attached"}
          /\ tree[view][pin[view]].sound
      BY <1>1, <2>1 DEF JudgedSoFar
    <2>3. /\ K!Entries = DOMAIN K!Listed /\ Len(K!Listed) <= MaxManifests
          /\ \A i \in K!Entries : i \in 1 .. nth - 1
      BY <2>1, <2>2, EndOfList
    <2>4. \A i \in K!Entries : i \in clean \/ i \in descriptors
      BY <2>2, <2>3
    <2>5. fits = descriptors
      BY <2>2, <2>4
    <2> HIDE DEF fits
    <2>6. \A i \in descriptors : K!Listed[i] = "descriptor"
      BY <1>1, <1>3, <2>2, <2>5 DEF K!Descriptor
    <2>7. clean' = clean \cup descriptors
      BY <1>1, <2>5, <2>6
    <2>8. clean' = K!Entries
      BY <2>2, <2>4, <2>7
    <2>9. \A i \in K!Entries : /\ K!Listed[i] \notin {"misfit", "invalid"}
                               /\ K!Listed[i] = "attached" => view = "original" /\ i \in proved
      BY <2>2, <2>3, <2>4, <2>6
    <2>10. K!Listed = tree[view][pin[view]].entries
      BY DEF K!Listed
    <2>11. QED
      BY <1>1, <1>3, <2>1, <2>2, <2>3, <2>8, <2>9, <2>10 DEF JudgedSoFar, AllJudged, Judging, Running
  <1>4. QED
    BY <1>2, <1>3

LEMMA JudgedKept ==
  ASSUME CheckTypes, Bound, Discovered, JudgedSoFar, AllJudged, [K!Next]_(K!checkVars)
  PROVE  JudgedSoFar' /\ AllJudged'
  <1>0. nth \in Nat \ {0} /\ descriptors \subseteq Nat /\ clean \subseteq Nat
    BY DEF CheckTypes, PassTypes
  <1>1. CASE K!MoveHead \/ UNCHANGED K!checkVars
    <2>1. UNCHANGED <<tree, view, pin, pass, step, nth, descriptors, clean, proved, refused>>
      BY <1>1 DEF K!MoveHead, K!checkVars
    <2>2. QED
      BY <2>1, SameList DEF JudgedSoFar, AllJudged, Running, K!Paired
  <1>2. ASSUME K!Indeterminate
        PROVE  JudgedSoFar' /\ AllJudged'
    BY <1>2, NothingJudged DEF K!Indeterminate, K!StartPass
  <1>4. CASE K!FailsEarly
    BY <1>2, <1>4, EndsRefused DEF K!FailsEarly, K!Ends
  <1>5. CASE K!ReadHead
    BY <1>5, NothingJudged DEF K!ReadHead, JudgedSoFar
  <1>6. CASE K!ReadListing
    <2>1. step = "listing" /\ UNCHANGED tree
      BY <1>6 DEF K!ReadListing
    <2>2. CASE /\ refused' = ~tree[view][pin[view]].sound /\ step' = "classify"
               /\ UNCHANGED <<pass, view, pin, nth, descriptors, clean>>
      BY <2>1, <2>2 DEF JudgedSoFar, AllJudged, Judging
    <2>3. QED
      BY <1>2, <1>6, <2>1, <2>2 DEF K!ReadListing
  <1>7. CASE K!Classify
    <2>1. UNCHANGED <<tree, view, pin, pass, nth, clean>> /\ step = "classify" /\ step' = "entry"
      BY <1>7 DEF K!Classify
    <2>2. K!Listed' = K!Listed /\ K!Entries' = K!Entries
      BY <2>1, SameList
    <2>3. nth = 1 /\ clean = {}
      BY <2>1 DEF JudgedSoFar
    <2>4. \A i \in descriptors' : i \in K!Entries /\ K!Listed[i] \in K!Descriptor
      BY <1>7 DEF K!Classify
    <2>5. CASE Running /\ ~refused'
      <3>1. ~refused /\ (descriptors' # {} => K!Paired(descriptors'))
        BY <1>7, <2>5 DEF K!Classify, K!Discovering, Running
      <3>2. K!Paired(descriptors)' <=> K!Paired(descriptors')
        BY <2>2 DEF K!Paired
      <3>3. QED
        BY <2>1, <2>2, <2>3, <2>4, <2>5, <3>1, <3>2 DEF JudgedSoFar, AllJudged, Judging, Running
    <2>6. CASE ~Running \/ refused'
      BY <2>1, <2>6, NothingSaid DEF Running
    <2>7. QED
      BY <2>5, <2>6 DEF CheckTypes
  <1>8. CASE K!EntryFails
    BY <1>2, <1>8, EndsRefused DEF K!EntryFails, K!Reads, K!Due
  <1>9. CASE K!Discover
    <2>1. step = "entry" /\ K!Discovering
      BY <1>9 DEF K!Discover, K!Due
    <2>2. CASE K!Present
      BY <2>2, NothingJudged DEF K!Present, K!StartPass
    <2>3. CASE UNCHANGED <<pass, step>>
      BY <2>1, <2>3, NothingSaid DEF K!Discovering, Running
    <2>4. QED
      BY <1>2, <1>9, <2>2, <2>3 DEF K!Discover
  <1>10. CASE K!DiscoverEnds
    BY <1>10, NothingJudged DEF K!DiscoverEnds, K!Absent, K!StartPass
  <1>11. CASE K!Judge
    <2>1. UNCHANGED <<tree, pin>> /\ step = "entry" /\ nth \in K!Entries /\ ~K!Discovering
      BY <1>11, JudgeCases
    <2>2. CASE K!StartPass("again", "original")
      BY <2>2, NothingJudged DEF K!StartPass
    <2>3. CASE refused \/ refused'
      <3>1. CASE K!StartPass("again", "original")
        BY <2>2, <3>1
      <3>2. CASE refused' /\ step' \in {"entry", "rights"}
        BY <3>2, EndsRefused
      <3>3. QED
        BY <1>11, <2>1, <2>3, <3>1, <3>2, JudgeCases
    <2>4. CASE /\ ~refused /\ (K!Skipped \/ K!Listed[nth] = "plain")
               /\ nth' = nth + 1 /\ clean' = clean \cup ({nth} \ descriptors)
               /\ UNCHANGED <<pass, view, step, descriptors, handed, proof, proved, refused>>
      <3>1. UNCHANGED <<tree, view, pin>> /\ K!Listed' = K!Listed /\ K!Entries' = K!Entries
            /\ (K!Paired(descriptors)' <=> K!Paired(descriptors))
        BY <2>1, <2>4, SameList DEF K!Paired
      <3>2. nth \notin descriptors => K!Listed[nth] = "plain"
        BY <2>4 DEF K!Skipped
      <3>3. QED
        BY <1>0, <2>1, <2>4, <3>1, <3>2 DEF JudgedSoFar, AllJudged, Judging, Running
    <2>5. CASE /\ ~refused /\ ~K!Skipped /\ K!Listed[nth] = "attached" /\ view = "original"
               /\ step' = "rights" /\ clean' = clean \cup {nth}
               /\ UNCHANGED <<pass, view, nth, descriptors, handed, proof, proved, refused>>
      <3>1. UNCHANGED <<tree, view, pin>> /\ K!Listed' = K!Listed /\ K!Entries' = K!Entries
            /\ (K!Paired(descriptors)' <=> K!Paired(descriptors))
        BY <2>1, <2>5, SameList DEF K!Paired
      <3>2. nth \notin descriptors
        BY <2>1, <2>5 DEF K!Skipped
      <3>3. QED
        BY <1>0, <2>1, <2>5, <3>1, <3>2 DEF JudgedSoFar, AllJudged, Judging, Running
    <2>6. QED
      BY <1>11, <2>2, <2>3, <2>4, <2>5, JudgeCases
  <1>12. CASE K!Rights \/ K!Metadata \/ K!SourceData
    <2>1. UNCHANGED <<tree, pass, view, pin, descriptors, clean>> /\ step \in {"rights", "metadata", "data"}
          /\ step' \in Judging /\ (refused => refused')
      BY <1>12 DEF K!Rights, K!Metadata, K!SourceData, K!Holds, K!Refuted, Judging
    <2>2. CASE refused'
      BY <2>1, <2>2, EndsRefused DEF Judging
    <2>3. CASE ~Running
      BY <2>1, <2>3, NothingSaid DEF Judging, Running
    <2>4. CASE ~refused' /\ Running
      <3>1. K!Listed' = K!Listed /\ K!Entries' = K!Entries /\ (K!Paired(descriptors)' <=> K!Paired(descriptors))
        BY <2>1, SameList DEF K!Paired
      <3>2. CASE UNCHANGED <<nth, proved>> /\ step' \in {"metadata", "data"}
        BY <1>0, <2>1, <2>4, <3>1, <3>2 DEF JudgedSoFar, AllJudged, Judging, Running
      <3>3. CASE nth' = nth + 1 /\ step' = "entry" /\ proved' = proved \cup {nth}
        BY <1>0, <2>1, <2>4, <3>1, <3>3 DEF JudgedSoFar, AllJudged, Judging, Running
      <3>4. QED
        BY <1>12, <2>4, <3>2, <3>3 DEF K!Rights, K!Metadata, K!SourceData, K!Holds, K!Refuted
    <2>5. QED
      BY <2>2, <2>3, <2>4
  <1>13. CASE K!RunEnds
    <2>1. step = "entry" /\ nth \notin K!Entries /\ ~K!Discovering /\ UNCHANGED <<tree, proved>>
      BY <1>13 DEF K!RunEnds, K!Ends
    <2>2. CASE K!Ends
      BY <2>2, EndsRefused DEF K!Ends
    <2>3. CASE /\ nth \notin DOMAIN K!Listed /\ step' = "descriptor"
               /\ UNCHANGED <<pass, view, pin, nth, descriptors, clean, refused>>
      <3>1. K!Listed' = K!Listed /\ K!Entries' = K!Entries /\ (K!Paired(descriptors)' <=> K!Paired(descriptors))
        BY <2>1, <2>3, SameList DEF K!Paired
      <3>2. QED
        BY <1>0, <2>1, <2>3, <3>1 DEF JudgedSoFar, AllJudged, Judging, Running
    <2>4. QED
      BY <1>13, <2>2, <2>3 DEF K!RunEnds
  <1>15. CASE K!Verdict
    BY <1>15 DEF K!Verdict, JudgedSoFar, AllJudged, Judging, Running
  <1>17. QED
    BY <1>1, <1>4, <1>5, <1>6, <1>7, <1>8, <1>9, <1>10, <1>11, <1>12, <1>13, <1>15, DescriptorJudged DEF K!Next

\* What the invariant says at the end.
LEMMA CheckIsSoundThen ==
  ASSUME CheckInv
  PROVE  K!CheckIsSound
  <1>1. "git" \in met => verdict \in {"none", "unrunnable"}
    BY DEF CheckInv, Remembered, CheckTypes, AnswerTypes
  <1>2. ASSUME verdict = "ok"
        PROVE  /\ reported = pin["original"] /\ reported = pin[view]
               /\ tree[view][reported].sound /\ Len(tree[view][reported].entries) <= MaxManifests
               /\ clean = DOMAIN tree[view][reported].entries
               /\ \A i \in DOMAIN tree[view][reported].entries :
                     /\ tree[view][reported].entries[i] \notin {"misfit", "invalid"}
                     /\ tree[view][reported].entries[i] = "attached" => view = "original" /\ i \in proved
               /\ \A v \in K!View : \A i \in DOMAIN tree[v][reported].entries :
                     tree[v][reported].entries[i] = "attached" => view = "original"
               /\ tree["original"][reported].sound /\ "discovery" \notin met
    <2>1. /\ step = "ended" /\ ~unrunnable /\ ~refused /\ ~kept /\ "discovery" \notin met
          /\ view \in K!View
      BY <1>2 DEF CheckInv, Remembered, CheckTypes, PassTypes
    <2>2. pin[view] \in Commit /\ reported = pin[view] /\ (view = "legacy" => pin["legacy"] = pin["original"])
      BY <2>1 DEF CheckInv, Bound
    <2>3. reported = pin["original"] /\ "original" \in K!View
      BY <2>1, <2>2 DEF K!View
    <2>4. /\ tree[view][reported].sound /\ Len(tree[view][reported].entries) <= MaxManifests
          /\ clean = DOMAIN tree[view][reported].entries
          /\ \A i \in DOMAIN tree[view][reported].entries :
                /\ tree[view][reported].entries[i] \notin {"misfit", "invalid"}
                /\ tree[view][reported].entries[i] = "attached" => view = "original" /\ i \in proved
      BY <2>1, <2>2 DEF CheckInv, AllJudged
    <2>5. CASE view = "original"
      BY <2>1, <2>2, <2>3, <2>4, <2>5
    <2>6. CASE view # "original"
      <3>1. view = "legacy"
        BY <2>1, <2>6 DEF K!View
      <3>2. Plain(tree["original"][reported], Len(tree["original"][reported].entries) + 1)
        BY <2>3, <3>1 DEF CheckInv, Discovered
      <3>3. /\ Len(tree["original"][reported].entries) \in Nat
            /\ DOMAIN tree["original"][reported].entries = 1 .. Len(tree["original"][reported].entries)
        BY <2>2, <2>3, ListsOf DEF CheckInv
      <3>4. /\ tree["original"][reported].sound
            /\ \A i \in DOMAIN tree["original"][reported].entries : tree["original"][reported].entries[i] # "attached"
        BY <3>2, <3>3 DEF Plain
      <3>5. \A v \in K!View : \A i \in DOMAIN tree[v][reported].entries :
                tree[v][reported].entries[i] = "attached" => view = "original"
        BY <2>4, <3>1, <3>4 DEF K!View
      <3>6. QED
        BY <2>1, <2>2, <2>3, <2>4, <3>4, <3>5
    <2>7. QED
      BY <2>5, <2>6
  <1>3. QED
    BY <1>1, <1>2 DEF K!CheckIsSound

LEMMA CheckInvHolds == CheckSpec => []CheckInv
  <1>1. AK!Init => CheckInv
    <2> SUFFICES ASSUME AK!Init PROVE CheckInv
      OBVIOUS
    <2>1. RepositoryTypes
      BY DEF AK!Init, RepositoryTypes, AK!View, K!View
    <2>2. PassTypes
      <3>1. /\ pass = "discover" /\ view = "original" /\ step = "head" /\ nth = 1 /\ descriptors = {}
            /\ handed = {} /\ clean = {} /\ proof = "unread" /\ proved = {}
        BY DEF AK!Init
      <3>2. QED
        BY <3>1 DEF PassTypes, K!View
    <2>5. AnswerTypes
      BY DEF AK!Init, AnswerTypes
    <2>3. Remembered /\ Bound /\ Discovered /\ JudgedSoFar /\ AllJudged
      BY DEF AK!Init, Remembered, Bound, Discovered, JudgedSoFar, AllJudged, Judging
    <2>4. QED
      BY <2>1, <2>2, <2>3, <2>5 DEF CheckInv, CheckTypes
  <1>2. CheckInv /\ [K!Next]_(K!checkVars) => CheckInv'
    BY CheckTypesKept, RememberedKept, BoundKept, DiscoveredKept, JudgedKept DEF CheckInv
  <1>3. QED
    BY <1>1, <1>2, PTL DEF CheckSpec

\* What `ovdb publisher check` finds in order is in order: CheckIsSound of
\* PublisherCheck, for lists of any length and kind, whatever moves meanwhile and
\* whatever git's replacements hide (check.go:89-150, 160-210,
\* checkcmd.go:116-133).
THEOREM CheckSound == CheckSpec => []K!CheckIsSound
  <1>1. CheckInv => K!CheckIsSound
    BY CheckIsSoundThen
  <1>2. QED
    BY <1>1, CheckInvHolds, PTL

-----------------------------------------------------------------------------
(* Rights: what the evidence rests on *)

\* The steps from each on.
FromEmit == {"emit"}
FromProvenance == {"provenance", "input", "terms"} \cup FromEmit
FromCompare == {"compare"} \cup FromProvenance
FromServer == {"server"} \cup FromCompare

\* The terms of the author's artifact, which are those of the server.
OfAuthor == IF authored.server = "none" THEN None ELSE author.terms

\* The files the evidence rests on, by what is read of them so far.
ServerPins == IF authored.server = "none" THEN {} ELSE {"server"}
AllPins == {"provenance"} \cup authored.names \cup ServerPins
PinsAt(s) ==
  CASE s \in {"identify", "server"} -> {}
    [] s \in {"compare", "provenance"} -> ServerPins
    [] s = "input" -> ServerPins \cup {"provenance"}
    [] s = "terms" -> ServerPins \cup {"provenance"} \cup (authored.names \cap {"input"})
    [] s = "emit" -> AllPins

\* The declaration that counts for a scope, and the evidence of all.
Declared(s) == G!Nearest(IF s = "database" THEN None ELSE authored.recordsets[s])
Evidence == {[of |-> s, scope |-> Declared(s).scope, terms |-> Declared(s).terms,
              server |-> source, pins |-> pins] : s \in G!Scope}

RightsTypes ==
  /\ authored \in G!Profile /\ materialized \in Term
  /\ author \in [sound : BOOLEAN, id : Server, terms : Term \cup {None}]
  /\ listed \subseteq Server /\ given \in {"missing", "moved", "pinned"}
  /\ held \in [G!Artifact -> {"unread", "pinned", "changed"}]
  /\ due \in {"identify", "server", "compare", "provenance", "input", "terms", "emit", "others", "ended"}
  /\ source \in Server \cup {None} /\ inherited \in Term \cup {None}
  /\ pins \subseteq G!Artifact /\ faulty \in BOOLEAN

\* The server is the author's and the descriptor's.
ServerFound ==
  /\ source \in Server /\ source \in Public
  /\ ~faulty => listed \subseteq {source}
  /\ authored.server # "none" => source = author.id /\ author.sound

\* The terms the manifest repeats are those that are declared.
TermsCompared == G!Nearest(None).terms = materialized

\* Files that are verified held the bytes of their references.
PinsHeld == \A a \in pins : held[a] = "pinned" /\ (G!Elsewhere(a) => given = "pinned")

RightsInv ==
  /\ RightsTypes
  /\ Cardinality(listed) > 1 => faulty
  /\ rights # {} => due \in {"others", "ended"} /\ rights = Evidence /\ pins = AllPins
  /\ due \in FromServer \/ rights # {} => ServerFound
  /\ due \in FromCompare \/ rights # {} => inherited = OfAuthor
  /\ due \in FromProvenance \/ rights # {} => TermsCompared
  /\ due \in FromServer \cup {"identify"} => pins = PinsAt(due)
  /\ due \in {"identify", "server"} => inherited = None
  /\ PinsHeld
  /\ due = "ended" /\ rights # {} => ~faulty

LEMMA RightsCard ==
  ASSUME NEW X
  PROVE  G!Cardinality(X) = Cardinality(X)
  BY DEF G!Cardinality, Cardinality, G!IsFiniteSet, IsFiniteSet

\* The nearest declaration that is there is the effective one.
LEMMA NearestIsEffective ==
  ASSUME inherited = OfAuthor, NEW s \in G!Scope, Declared(s).terms # None
  PROVE  [scope |-> Declared(s).scope, terms |-> Declared(s).terms] \in G!Effective(s)
  <1> DEFINE own == IF s = "database" THEN None ELSE authored.recordsets[s]
             declares == [server |-> OfAuthor, database |-> authored.database, recordset |-> own]
             weight == [server |-> 1, database |-> 2, recordset |-> 3]
             sources == {k \in DOMAIN declares : declares[k] # None}
             best == {k \in sources : \A l \in sources : weight[l] <= weight[k]}
  <1>1. G!Effective(s) = {[scope |-> k, terms |-> declares[k]] : k \in best}
    BY DEF G!Effective, OfAuthor
  <1>2. /\ DOMAIN declares = {"server", "database", "recordset"}
        /\ declares["server"] = OfAuthor /\ declares["database"] = authored.database /\ declares["recordset"] = own
        /\ weight["server"] = 1 /\ weight["database"] = 2 /\ weight["recordset"] = 3
    OBVIOUS
  <1>3. Declared(s) = IF own # None THEN [scope |-> "recordset", terms |-> own]
                      ELSE IF authored.database # None THEN [scope |-> "database", terms |-> authored.database]
                      ELSE [scope |-> "server", terms |-> OfAuthor]
    BY DEF Declared, G!Nearest
  <1> HIDE DEF declares, weight, own
  <1>4. Declared(s).scope \in best /\ Declared(s).terms = declares[Declared(s).scope]
    <2>1. CASE own # None
      BY <1>2, <1>3, <2>1
    <2>2. CASE own = None /\ authored.database # None
      BY <1>2, <1>3, <2>2
    <2>3. CASE own = None /\ authored.database = None
      BY <1>2, <1>3, <2>3
    <2>4. QED
      BY <2>1, <2>2, <2>3
  <1> HIDE DEF best
  <1>5. QED
    BY <1>1, <1>4

LEMMA RightsStart == G!Init => RightsInv
  <1> SUFFICES ASSUME G!Init
               PROVE  RightsInv
    OBVIOUS
  <1>1. RightsTypes
    BY DEF G!Init, RightsTypes, G!Artifact
  <1>2. faulty = (Cardinality(listed) > 1)
    BY RightsCard DEF G!Init
  <1>3. /\ rights = {} /\ due = "identify" /\ pins = {} /\ inherited = None
    BY DEF G!Init
  <1>4. PinsAt(due) = {} /\ PinsHeld
    BY <1>3 DEF PinsAt, PinsHeld
  <1>5. QED
    BY <1>1, <1>2, <1>3, <1>4 DEF RightsInv, FromServer, FromCompare, FromProvenance, FromEmit

\* What is declared stays, and so does what it means.
LEMMA DeclarationsStay ==
  ASSUME UNCHANGED G!inputs
  PROVE  /\ OfAuthor' = OfAuthor /\ ServerPins' = ServerPins /\ AllPins' = AllPins
         /\ \A s : PinsAt(s)' = PinsAt(s)
         /\ \A a : G!Elsewhere(a)' = G!Elsewhere(a)
         /\ inherited' = inherited => TermsCompared' = TermsCompared
         /\ UNCHANGED <<source, inherited, pins>> => Evidence' = Evidence
  <1>1. UNCHANGED <<authored, materialized, author, listed, given>>
    BY DEF G!inputs
  <1>2. OfAuthor' = OfAuthor /\ ServerPins' = ServerPins /\ AllPins' = AllPins
    BY <1>1 DEF OfAuthor, ServerPins, AllPins
  <1>3. ASSUME NEW s
        PROVE  PinsAt(s)' = PinsAt(s)
    BY <1>1, <1>2 DEF PinsAt
  <1>4. ASSUME NEW a
        PROVE  G!Elsewhere(a)' = G!Elsewhere(a)
    BY <1>1 DEF G!Elsewhere
  <1>5. inherited' = inherited => TermsCompared' = TermsCompared
    BY <1>1 DEF TermsCompared, G!Nearest
  <1>6. UNCHANGED <<source, inherited, pins>> => Evidence' = Evidence
    BY <1>1 DEF Evidence, Declared, G!Nearest
  <1>7. QED
    BY <1>2, <1>3, <1>4, <1>5, <1>6

\* A file that is read and found as it was named is held so from then on, and
\* what was held so before still is.
LEMMA LoadsHeld ==
  ASSUME RightsTypes, NEW a \in G!Artifact, G!Loads(a)
  PROVE  /\ held' \in [G!Artifact -> {"unread", "pinned", "changed"}]
         /\ held'[a] = "pinned" /\ (G!Elsewhere(a) => given = "pinned")
         /\ \A b \in G!Artifact : held[b] = "pinned" => held'[b] = "pinned"
  <1>1. /\ held' = [held EXCEPT ![a] = "pinned"] /\ (G!Elsewhere(a) => given = "pinned")
    BY DEF G!Loads, G!Matches, G!Reads
  <1>2. QED
    BY <1>1 DEF RightsTypes

\* A manifest that is refused has no evidence and gets none.
LEMMA RefuseKeeps ==
  ASSUME RightsInv, G!Refuse, due \notin {"others", "ended"},
         held' \in [G!Artifact -> {"unread", "pinned", "changed"}],
         \A b \in G!Artifact : held[b] = "pinned" => held'[b] = "pinned"
  PROVE  RightsInv'
  <1>1. /\ due' = "others" /\ faulty' = TRUE /\ UNCHANGED G!inputs
        /\ UNCHANGED <<authored, materialized, author, listed, given>>
        /\ UNCHANGED <<source, inherited, pins, rights>>
    BY DEF G!Refuse, G!inputs
  <1>2. rights = {}
    BY DEF RightsInv
  <1>3. RightsTypes'
    BY <1>1 DEF RightsInv, RightsTypes
  <1>4. PinsHeld'
    <2>1. \A b \in pins : b \in G!Artifact /\ held[b] = "pinned" /\ (G!Elsewhere(b) => given = "pinned")
      BY DEF RightsInv, PinsHeld, RightsTypes
    <2>2. \A b \in pins : G!Elsewhere(b)' = G!Elsewhere(b)
      BY <1>1, DeclarationsStay
    <2>3. QED
      BY <1>1, <2>1, <2>2 DEF PinsHeld
  <1>5. QED
    BY <1>1, <1>2, <1>3, <1>4 DEF RightsInv, FromServer, FromCompare, FromProvenance, FromEmit

LEMMA FailsKeep ==
  ASSUME RightsInv, G!Fails
  PROVE  RightsInv'
  <1>1. RightsTypes
    BY DEF RightsInv
  <1>2. due \in {"provenance", "input", "terms", "identify", "server"}
    BY <1>1 DEF G!Fails, RightsTypes, G!Profile
  <1> DEFINE a == IF due = "identify" THEN "server" ELSE due
  <1>3. held' = [held EXCEPT ![a] = IF held[a] = "unread" THEN "changed" ELSE held[a]] /\ G!Refuse
    BY DEF G!Fails
  <1>4. a \in G!Artifact
    BY <1>2 DEF G!Artifact
  <1> HIDE DEF a
  <1>5. /\ held' \in [G!Artifact -> {"unread", "pinned", "changed"}]
        /\ \A b \in G!Artifact : held[b] = "pinned" => held'[b] = "pinned"
    BY <1>1, <1>3, <1>4 DEF RightsTypes
  <1>6. QED
    BY <1>2, <1>3, <1>5, RefuseKeeps

LEMMA IdentifyKeeps ==
  ASSUME RightsInv, G!Identify
  PROVE  RightsInv'
  <1>0. RightsTypes /\ due = "identify" /\ rights = {} /\ pins = {}
    BY DEF RightsInv, G!Identify, PinsAt, FromServer
  <1>1. PICK described \in G!Described, again \in G!Described :
          LET id == IF authored.server = "none" THEN described ELSE author.id IN
          /\ IF authored.server = "none" THEN UNCHANGED held ELSE G!Loads("server")
          /\ IF \/ authored.server # "none" /\ ~author.sound
                \/ id = None
                \/ again \notin {None, id}
                \/ id \notin Public
             THEN G!Refuse
             ELSE /\ source' = id /\ due' = "server"
                  /\ UNCHANGED <<G!inputs, inherited, pins, rights, faulty>>
    BY DEF G!Identify
  <1> DEFINE id == IF authored.server = "none" THEN described ELSE author.id
             bad == \/ authored.server # "none" /\ ~author.sound
                    \/ id = None
                    \/ again \notin {None, id}
                    \/ id \notin Public
  <1>2. /\ held' \in [G!Artifact -> {"unread", "pinned", "changed"}]
        /\ \A b \in G!Artifact : held[b] = "pinned" => held'[b] = "pinned"
    <2>1. CASE authored.server = "none"
      BY <1>0, <1>1, <2>1 DEF RightsTypes
    <2>2. CASE authored.server # "none"
      BY <1>0, <1>1, <2>2, LoadsHeld DEF G!Artifact
    <2>3. QED
      BY <2>1, <2>2
  <1>3. CASE bad
    <2>1. G!Refuse
      BY <1>1, <1>3
    <2>2. QED
      BY <1>0, <1>2, <2>1, RefuseKeeps
  <1>4. CASE ~bad
    <2>1. /\ source' = id /\ due' = "server" /\ UNCHANGED <<G!inputs, inherited, pins, rights, faulty>>
      BY <1>1, <1>4
    <2>2. UNCHANGED <<authored, materialized, author, listed, given>>
      BY <2>1 DEF G!inputs
    <2>3. id \in Server /\ id \in Public
      <3>1. author.id \in Server
        BY <1>0 DEF RightsTypes
      <3>2. described \in Server \cup {None}
        BY <1>0, <1>1 DEF G!Described, RightsTypes
      <3>3. QED
        BY <1>4, <3>1, <3>2
    <2>4. ~faulty => listed \subseteq {id}
      <3>1. CASE listed = {}
        BY <3>1
      <3>2. CASE listed # {}
        <4>1. again \in listed /\ again = id
          BY <1>0, <1>1, <1>4, <3>2, RightsAssumption DEF G!Described, RightsTypes
        <4>2. IsFiniteSet(listed)
          BY <1>0, FS_Subset, RightsAssumption DEF RightsTypes
        <4>3. ~faulty => Cardinality(listed) \in Nat /\ Cardinality(listed) <= 1
          BY <4>2, FS_CardinalityType DEF RightsInv
        <4>4. ~faulty => listed = {id}
          <5>1. Cardinality(listed) # 0
            BY <3>2, <4>2, FS_EmptySet
          <5>2. ~faulty => Cardinality(listed) = 1
            BY <4>3, <5>1
          <5>3. ~faulty => \E x : listed = {x}
            BY <4>2, <5>2, FS_Singleton
          <5>4. QED
            BY <4>1, <5>3
        <4>5. QED
          BY <4>4
      <3>3. QED
        BY <3>1, <3>2
    <2>5. ServerFound'
      BY <1>4, <2>1, <2>2, <2>3, <2>4 DEF ServerFound
    <2>6. RightsTypes'
      BY <1>0, <1>2, <2>1, <2>2, <2>3 DEF RightsTypes
    <2>7. pins' = {} /\ PinsAt(due)' = {} /\ PinsHeld'
      BY <1>0, <2>1 DEF PinsAt, PinsHeld
    <2>8. QED
      BY <1>0, <2>1, <2>2, <2>5, <2>6, <2>7 DEF RightsInv, FromServer, FromCompare, FromProvenance, FromEmit
  <1>5. QED
    BY <1>3, <1>4

\* A step that goes on: what was found of the server and of the terms stays, and
\* the pins are those of the next step.
LEMMA GoesOn ==
  ASSUME RightsInv, UNCHANGED <<G!inputs, source, rights, faulty>>,
         due \in FromServer, due' \in FromCompare,
         inherited' \in Term \cup {None}, inherited' = OfAuthor,
         due' \in FromProvenance => TermsCompared',
         held' \in [G!Artifact -> {"unread", "pinned", "changed"}],
         \A b \in G!Artifact : held[b] = "pinned" => held'[b] = "pinned",
         pins' = PinsAt(due'), pins' \subseteq G!Artifact,
         \A a \in pins' \ pins : held'[a] = "pinned" /\ (G!Elsewhere(a) => given = "pinned")
  PROVE  RightsInv'
  <1>0. UNCHANGED G!inputs /\ UNCHANGED <<authored, materialized, author, listed, given>> /\ RightsTypes
    BY DEF G!inputs, RightsInv
  <1>1. due \notin {"others", "ended"} /\ rights = {} /\ rights' = {} /\ due' \notin {"others", "ended", "identify", "server"}
    BY DEF RightsInv, FromServer, FromCompare, FromProvenance, FromEmit
  <1>2. RightsTypes'
    BY <1>0 DEF RightsTypes, FromServer, FromCompare, FromProvenance, FromEmit
  <1>3. ServerFound'
    BY <1>0 DEF RightsInv, ServerFound
  <1>4. inherited' = OfAuthor' /\ pins' = PinsAt(due)'
    <2>1. OfAuthor' = OfAuthor /\ \A s : PinsAt(s)' = PinsAt(s)
      BY <1>0, DeclarationsStay
    <2>2. PinsAt(due)' = PinsAt(due')
      BY <1>0 DEF PinsAt, ServerPins, AllPins
    <2>3. QED
      BY <2>1, <2>2
  <1>5. PinsHeld'
    <2>1. \A a \in pins : a \in G!Artifact /\ held[a] = "pinned" /\ (G!Elsewhere(a) => given = "pinned")
      BY <1>0 DEF RightsInv, PinsHeld, RightsTypes
    <2>2. \A a \in pins' : held'[a] = "pinned" /\ (G!Elsewhere(a) => given = "pinned")
      BY <2>1
    <2>3. \A a : G!Elsewhere(a)' = G!Elsewhere(a)
      BY <1>0, DeclarationsStay
    <2>4. QED
      BY <1>0, <2>2, <2>3 DEF PinsHeld
  <1>6. Cardinality(listed') > 1 => faulty'
    BY <1>0 DEF RightsInv
  <1>7. QED
    BY <1>1, <1>2, <1>3, <1>4, <1>5, <1>6 DEF RightsInv

LEMMA LoadServerKeeps ==
  ASSUME RightsInv, G!LoadServer
  PROVE  RightsInv'
  <1>0. /\ RightsTypes /\ due = "server" /\ due' = "compare" /\ UNCHANGED <<G!inputs, source, rights, faulty>>
        /\ pins = {} /\ rights = {}
    BY DEF RightsInv, G!LoadServer, PinsAt, FromServer
  <1>1. due \in FromServer /\ due' \in FromCompare /\ due' \notin FromProvenance /\ PinsAt(due') = ServerPins
    BY <1>0 DEF FromServer, FromCompare, FromProvenance, FromEmit, PinsAt
  <1>2. CASE authored.server = "none"
    <2>1. UNCHANGED <<held, inherited, pins>> /\ ServerPins = {} /\ OfAuthor = None
      BY <1>2 DEF G!LoadServer, ServerPins, OfAuthor
    <2>2. inherited = None
      BY <1>0 DEF RightsInv, FromServer
    <2>3. QED
      BY <1>0, <1>1, <2>1, <2>2, GoesOn DEF RightsTypes
  <1>3. CASE authored.server # "none"
    <2>1. G!Loads("server") /\ inherited' = author.terms /\ pins' = pins \cup {"server"}
      BY <1>3 DEF G!LoadServer
    <2>2. ServerPins = {"server"} /\ OfAuthor = author.terms /\ author.terms \in Term \cup {None} /\ "server" \in G!Artifact
      BY <1>0, <1>3 DEF ServerPins, OfAuthor, RightsTypes, G!Artifact
    <2>3. /\ held' \in [G!Artifact -> {"unread", "pinned", "changed"}]
          /\ held'["server"] = "pinned" /\ (G!Elsewhere("server") => given = "pinned")
          /\ \A b \in G!Artifact : held[b] = "pinned" => held'[b] = "pinned"
      BY <1>0, <2>1, <2>2, LoadsHeld
    <2>4. pins' = {"server"}
      BY <1>0, <2>1
    <2>5. QED
      BY <1>0, <1>1, <2>1, <2>2, <2>3, <2>4, GoesOn
  <1>4. QED
    BY <1>2, <1>3

LEMMA CompareKeeps ==
  ASSUME RightsInv, G!Compare
  PROVE  RightsInv'
  <1>0. RightsTypes /\ due = "compare" /\ UNCHANGED held /\ inherited = OfAuthor
    BY DEF RightsInv, G!Compare, FromCompare
  <1>1. CASE TermsCompared
    <2>1. due' = "provenance" /\ UNCHANGED <<G!inputs, source, inherited, pins, rights, faulty>>
      BY <1>1 DEF G!Compare, TermsCompared
    <2>2. due \in FromServer /\ due' \in FromCompare /\ PinsAt(due') = ServerPins /\ PinsAt(due) = ServerPins
      BY <1>0, <2>1 DEF FromServer, FromCompare, FromProvenance, FromEmit, PinsAt
    <2>3. pins' = PinsAt(due') /\ pins' \subseteq G!Artifact
      BY <1>0, <2>1, <2>2 DEF RightsInv, RightsTypes
    <2>4. TermsCompared'
      BY <1>1, <2>1, DeclarationsStay
    <2>5. QED
      BY <1>0, <2>1, <2>2, <2>3, <2>4, GoesOn DEF RightsTypes
  <1>2. CASE ~TermsCompared
    <2>1. G!Refuse
      BY <1>2 DEF G!Compare, TermsCompared
    <2>2. QED
      BY <1>0, <2>1, RefuseKeeps DEF RightsTypes
  <1>3. QED
    BY <1>1, <1>2

LEMMA LoadProvenanceKeeps ==
  ASSUME RightsInv, G!LoadProvenance
  PROVE  RightsInv'
  <1>0. /\ RightsTypes /\ due = "provenance" /\ due' = "input" /\ inherited = OfAuthor /\ TermsCompared
        /\ G!Loads("provenance") /\ pins' = pins \cup {"provenance"}
        /\ UNCHANGED <<G!inputs, source, inherited, rights, faulty>>
    BY DEF RightsInv, G!LoadProvenance, FromCompare, FromProvenance
  <1>1. due \in FromServer /\ due' \in FromCompare /\ PinsAt(due') = ServerPins \cup {"provenance"} /\ PinsAt(due) = ServerPins
    BY <1>0 DEF FromServer, FromCompare, FromProvenance, FromEmit, PinsAt
  <1>2. pins' = PinsAt(due') /\ pins' \subseteq G!Artifact /\ "provenance" \in G!Artifact
    BY <1>0, <1>1 DEF RightsInv, RightsTypes, G!Artifact
  <1>3. /\ held' \in [G!Artifact -> {"unread", "pinned", "changed"}]
        /\ held'["provenance"] = "pinned" /\ (G!Elsewhere("provenance") => given = "pinned")
        /\ \A b \in G!Artifact : held[b] = "pinned" => held'[b] = "pinned"
    BY <1>0, <1>2, LoadsHeld
  <1>4. TermsCompared'
    BY <1>0, DeclarationsStay
  <1>5. QED
    BY <1>0, <1>1, <1>2, <1>3, <1>4, GoesOn DEF RightsTypes

LEMMA LoadNamedKeeps ==
  ASSUME RightsInv, G!LoadNamed
  PROVE  RightsInv'
  <1>0. /\ RightsTypes /\ due \in {"input", "terms"} /\ due' = (IF due = "input" THEN "terms" ELSE "emit")
        /\ inherited = OfAuthor /\ TermsCompared
        /\ UNCHANGED <<G!inputs, source, inherited, rights, faulty>>
    BY DEF RightsInv, G!LoadNamed, FromCompare, FromProvenance
  <1>1. due \in FromServer /\ due' \in FromCompare
    BY <1>0 DEF FromServer, FromCompare, FromProvenance, FromEmit
  <1>2. PinsAt(due') = PinsAt(due) \cup (authored.names \cap {due})
    <2>1. authored.names \subseteq {"input", "terms"}
      BY <1>0 DEF RightsTypes, G!Profile
    <2>2. CASE due = "input"
      BY <1>0, <2>2 DEF PinsAt
    <2>3. CASE due = "terms"
      BY <1>0, <2>1, <2>3 DEF PinsAt, AllPins
    <2>4. QED
      BY <1>0, <2>2, <2>3
  <1>3. pins = PinsAt(due)
    BY <1>1 DEF RightsInv
  <1>4. TermsCompared'
    BY <1>0, DeclarationsStay
  <1>5. CASE due \in authored.names
    <2>1. G!Loads(due) /\ pins' = pins \cup {due} /\ due \in G!Artifact
      BY <1>0, <1>5 DEF G!LoadNamed, G!Artifact
    <2>2. /\ held' \in [G!Artifact -> {"unread", "pinned", "changed"}]
          /\ held'[due] = "pinned" /\ (G!Elsewhere(due) => given = "pinned")
          /\ \A b \in G!Artifact : held[b] = "pinned" => held'[b] = "pinned"
      BY <1>0, <2>1, LoadsHeld
    <2>3. pins' = PinsAt(due') /\ pins' \subseteq G!Artifact
      BY <1>0, <1>2, <1>3, <1>5, <2>1 DEF RightsTypes
    <2>4. QED
      BY <1>0, <1>1, <1>4, <2>1, <2>2, <2>3, GoesOn DEF RightsTypes
  <1>6. CASE due \notin authored.names
    <2>1. UNCHANGED <<held, pins>>
      BY <1>6 DEF G!LoadNamed
    <2>2. pins' = PinsAt(due') /\ pins' \subseteq G!Artifact
      BY <1>0, <1>2, <1>3, <1>6, <2>1 DEF RightsTypes
    <2>3. QED
      BY <1>0, <1>1, <1>4, <2>1, <2>2, GoesOn DEF RightsTypes
  <1>7. QED
    BY <1>5, <1>6

LEMMA EmitKeeps ==
  ASSUME RightsInv, G!Emit
  PROVE  RightsInv'
  <1>0. /\ RightsTypes /\ due = "emit" /\ due' = "others" /\ inherited = OfAuthor /\ TermsCompared /\ ServerFound
        /\ rights' = Evidence /\ pins = AllPins /\ PinsHeld
        /\ UNCHANGED <<G!inputs, held, source, inherited, pins, faulty>>
    BY DEF RightsInv, G!Emit, FromCompare, FromProvenance, FromEmit, FromServer, PinsAt, Evidence, Declared
  <1>1. UNCHANGED <<authored, materialized, author, listed, given>>
    BY <1>0 DEF G!inputs
  <1>2. /\ OfAuthor' = OfAuthor /\ TermsCompared' /\ Evidence' = Evidence /\ AllPins' = AllPins
        /\ \A a : G!Elsewhere(a)' = G!Elsewhere(a)
    BY <1>0, DeclarationsStay
  <1>3. RightsTypes' /\ ServerFound' /\ PinsHeld'
    BY <1>0, <1>1, <1>2 DEF RightsTypes, ServerFound, PinsHeld
  <1>4. QED
    BY <1>0, <1>1, <1>2, <1>3 DEF RightsInv, FromServer, FromCompare, FromProvenance, FromEmit

LEMMA RightsEndKeeps ==
  ASSUME RightsInv, G!Ends
  PROVE  RightsInv'
  <1>0. /\ RightsTypes /\ due = "others" /\ due' = "ended" /\ PinsHeld
        /\ faulty' \in BOOLEAN /\ (faulty => faulty')
        /\ rights' = IF faulty' THEN {} ELSE rights
        /\ UNCHANGED <<G!inputs, held, source, inherited, pins>>
    BY DEF RightsInv, G!Ends, RightsTypes
  <1>1. UNCHANGED <<authored, materialized, author, listed, given>>
    BY <1>0 DEF G!inputs
  <1>2. /\ OfAuthor' = OfAuthor /\ TermsCompared' = TermsCompared /\ Evidence' = Evidence /\ AllPins' = AllPins
        /\ \A a : G!Elsewhere(a)' = G!Elsewhere(a)
    BY <1>0, DeclarationsStay
  <1>3. RightsTypes' /\ PinsHeld'
    BY <1>0, <1>1, <1>2 DEF RightsTypes, PinsHeld
  <1>4. rights' # {} => /\ rights' = Evidence' /\ pins' = AllPins' /\ inherited' = OfAuthor' /\ TermsCompared' /\ ~faulty'
    BY <1>0, <1>2 DEF RightsInv
  <1>5. rights' # {} => ServerFound'
    BY <1>0, <1>1 DEF RightsInv, ServerFound
  <1>6. QED
    BY <1>0, <1>1, <1>3, <1>4, <1>5 DEF RightsInv, FromServer, FromCompare, FromProvenance, FromEmit

LEMMA RightsSteps ==
  ASSUME RightsInv, G!Next
  PROVE  RightsInv'
  <1>1. CASE G!EmitsTooMuch
    BY <1>1, RefuseKeeps DEF G!EmitsTooMuch, RightsInv, RightsTypes
  <1>2. QED
    BY <1>1, IdentifyKeeps, LoadServerKeeps, FailsKeep, CompareKeeps, LoadProvenanceKeeps, LoadNamedKeeps,
       EmitKeeps, RightsEndKeeps DEF G!Next

LEMMA RightsStutter ==
  ASSUME RightsInv, UNCHANGED G!rightsVars
  PROVE  RightsInv'
  <1>1. /\ UNCHANGED <<authored, materialized, author, listed, given>> /\ UNCHANGED G!inputs
        /\ UNCHANGED <<held, due, source, inherited, pins, rights, faulty>>
    BY DEF G!rightsVars, G!inputs
  <1>2. /\ OfAuthor' = OfAuthor /\ TermsCompared' = TermsCompared /\ Evidence' = Evidence /\ AllPins' = AllPins
        /\ \A s : PinsAt(s)' = PinsAt(s) /\ \A a : G!Elsewhere(a)' = G!Elsewhere(a)
    BY <1>1, DeclarationsStay
  <1>3. PinsAt(due)' = PinsAt(due)
    BY <1>1 DEF PinsAt, ServerPins, AllPins
  <1>4. RightsTypes' = RightsTypes /\ ServerFound' = ServerFound /\ PinsHeld' = PinsHeld
    BY <1>1, <1>2 DEF RightsTypes, ServerFound, PinsHeld
  <1>5. QED
    BY <1>1, <1>2, <1>3, <1>4 DEF RightsInv

LEMMA RightsProvedAndTyped ==
  ASSUME RightsInv
  PROVE  G!RightsAreProved /\ G!RightsTypeOK
  <1>0. RightsTypes
    BY DEF RightsInv
  <1>1. ASSUME rights # {}
        PROVE  /\ \A s \in G!Scope : Declared(s).terms \in Term /\ Declared(s).scope \in {"server", "database", "recordset"}
                                     /\ (s = "database" => Declared(s).terms = materialized)
               /\ inherited = OfAuthor /\ rights = Evidence /\ source \in Server /\ pins = AllPins
    <2>1. TermsCompared /\ inherited = OfAuthor /\ rights = Evidence /\ ServerFound /\ pins = AllPins
      BY <1>1 DEF RightsInv
    <2>2. ASSUME NEW s \in G!Scope
          PROVE  Declared(s).terms \in Term /\ Declared(s).scope \in {"server", "database", "recordset"}
                 /\ (s = "database" => Declared(s).terms = materialized)
      <3> DEFINE own == IF s = "database" THEN None ELSE authored.recordsets[s]
      <3>1. own \in Term \cup {None} /\ (s = "database" => own = None) /\ Declared(s) = G!Nearest(own)
        BY <1>0 DEF RightsTypes, G!Profile, G!Scope, Declared
      <3> HIDE DEF own
      <3>2. CASE own = None
        <4>1. Declared(s).terms = materialized
          BY <2>1, <3>1, <3>2 DEF TermsCompared
        <4>2. Declared(s).scope \in {"server", "database", "recordset"}
          BY <3>1, <3>2 DEF G!Nearest
        <4>3. QED
          BY <1>0, <4>1, <4>2 DEF RightsTypes
      <3>3. CASE own # None
        BY <3>1, <3>3 DEF G!Nearest
      <3>4. QED
        BY <3>2, <3>3
    <2>3. QED
      BY <2>1, <2>2 DEF ServerFound
  <1>2. rights # {} => {r.of : r \in rights} = G!Scope
    <2> DEFINE proofOf(s) == [of |-> s, scope |-> Declared(s).scope, terms |-> Declared(s).terms,
                            server |-> source, pins |-> pins]
    <2>1. \A s : proofOf(s).of = s
      OBVIOUS
    <2>2. Evidence = {proofOf(s) : s \in G!Scope}
      BY DEF Evidence
    <2> HIDE DEF proofOf
    <2>3. {r.of : r \in Evidence} = G!Scope
      BY <2>1, <2>2
    <2>4. QED
      BY <1>1, <2>3
  <1>3. ASSUME rights # {}, due = "ended", NEW r \in rights
        PROVE  /\ [scope |-> r.scope, terms |-> r.terms] \in G!Effective(r.of)
               /\ r.of = "database" => r.terms = materialized
               /\ r.pins = {"provenance"} \cup authored.names
                           \cup (IF authored.server = "none" THEN {} ELSE {"server"})
               /\ \A a \in r.pins : held[a] = "pinned" /\ (G!Elsewhere(a) => given = "pinned")
               /\ r.server \in Public /\ listed \subseteq {r.server}
               /\ authored.server # "none" => r.server = author.id /\ author.sound
    <2>1. PICK s \in G!Scope : r = [of |-> s, scope |-> Declared(s).scope, terms |-> Declared(s).terms,
                                     server |-> source, pins |-> pins]
      BY <1>1, <1>3 DEF Evidence
    <2>2. r.of = s /\ r.scope = Declared(s).scope /\ r.terms = Declared(s).terms /\ r.server = source /\ r.pins = pins
      BY <2>1
    <2>3. /\ Declared(s).terms \in Term /\ (s = "database" => Declared(s).terms = materialized)
          /\ inherited = OfAuthor /\ pins = AllPins /\ ServerFound /\ ~faulty /\ PinsHeld
      BY <1>1, <1>3 DEF RightsInv
    <2>4. [scope |-> Declared(s).scope, terms |-> Declared(s).terms] \in G!Effective(s)
      BY <2>3, NearestIsEffective, RightsAssumption
    <2>5. QED
      BY <2>2, <2>3, <2>4 DEF AllPins, ServerPins, PinsHeld, ServerFound
  <1>4. G!RightsAreProved
    BY <1>2, <1>3 DEF G!RightsAreProved, RightsInv
  <1>5. rights \subseteq [of : G!Scope, scope : {"server", "database", "recordset"}, terms : Term,
                          server : Server, pins : SUBSET G!Artifact]
    <2>1. CASE rights = {}
      BY <2>1
    <2>2. CASE rights # {}
      <3>1. pins \in SUBSET G!Artifact
        BY <1>0 DEF RightsTypes
      <3>2. QED
        BY <1>1, <2>2, <3>1 DEF Evidence
    <2>3. QED
      BY <2>1, <2>2
  <1>6. G!RightsTypeOK
    BY <1>0, <1>5, Zenon DEF RightsTypes, G!RightsTypeOK
  <1>7. QED
    BY <1>4, <1>6

LEMMA RightsInvHolds == G!Spec => []RightsInv
  <1>1. G!Init => RightsInv
    BY RightsStart
  <1>2. RightsInv /\ [G!Next]_(G!rightsVars) => RightsInv'
    BY RightsSteps, RightsStutter
  <1>3. QED
    BY <1>1, <1>2, PTL DEF G!Spec

\* A check that shows rights shows one for the database and for every recordset
\* with the terms of the nearest declaration, rests on files that held the bytes
\* they were named with, and names the author's and the descriptor's server; a
\* repository that is refused shows none (manifest.go:66, verify.go:27-28,
\* check.go:138-148): for any terms, recordsets and servers.
THEOREM RightsProved == G!Spec => []G!RightsAreProved
  <1>1. RightsInv => G!RightsAreProved
    BY RightsProvedAndTyped
  <1>2. QED
    BY <1>1, RightsInvHolds, PTL

=============================================================================
