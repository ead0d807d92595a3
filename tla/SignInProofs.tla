---------------------------- MODULE SignInProofs ----------------------------
(***************************************************************************)
(* Theorems about SignIn, for any number of browsers, login codes and      *)
(* sessions, and for any lifetimes and bounds, and about Access, for any   *)
(* set of apps and any number of codes and tokens.                         *)
(***************************************************************************)
EXTENDS MCSignIn, TLAPS

USE SignInAssumption, NoneAssumption

-----------------------------------------------------------------------------
(* What an operation finds once it has read the file again *)

LEMMA NoSessionsType == NoSessions \in Sessions
  BY DEF NoSessions, Sessions

LEMMA ReloadedTypes ==
  ASSUME SignInInv
  PROVE  /\ Reloaded.byHash \in Sessions
         /\ Reloaded.dirty \in BOOLEAN
         /\ Reloaded.mod = IF file = None THEN "missing" ELSE "current"
  BY NoSessionsType DEF SignInInv, SignInTypeOK, Reloaded

LEMMA ReloadedPromises ==
  ASSUME SignInInv
  PROVE  WithinPromise(Reloaded.byHash)
  <1>1. WithinPromise(NoSessions)
    BY DEF WithinPromise, NoSessions
  <1>2. QED
    BY <1>1 DEF SignInInv, Promises, Reloaded

\* The file's live sessions are all found, and none that was signed out.
LEMMA ReloadedCovers ==
  ASSUME SignInInv, Free, "remove" \notin Fails
  PROVE  /\ \A t \in Token : Covers(Reloaded.byHash, t)
         /\ \A t \in signedOut : ~Live(Reloaded.byHash, t)
  <1>1. \A t \in Token : ~Live(NoSessions, t)
    BY DEF Live, NoSessions
  <1>2. signedOut \subseteq Token
    BY DEF SignInInv, SignInTypeOK
  <1>3. OutOfMemoryAndFile
    BY DEF SignInInv
  <1>4. \A t \in Token : ~Removing(t)
    BY DEF Free, NoJob, Removing
  <1>5. CASE file = None
    BY <1>1, <1>2, <1>3, <1>5 DEF Reloaded, Covers, OutOfMemoryAndFile
  <1>6. CASE file # None /\ loadedMod = "current"
    BY <1>3, <1>4, <1>6 DEF Reloaded, OutOfMemoryAndFile
  <1>7. CASE file # None /\ loadedMod # "current"
    <2>1. file \in Sessions
      BY <1>7 DEF SignInInv, SignInTypeOK
    <2>2. \A t \in Token : file[t] # None => file[t].expiresAt \in Nat
      BY <2>1 DEF Sessions, Session
    <2>3. Reloaded.byHash = file
      BY <1>7 DEF Reloaded
    <2>4. QED
      BY <1>3, <1>7, <2>2, <2>3 DEF Covers, OutOfMemoryAndFile, Live
  <1>8. QED
    BY <1>5, <1>6, <1>7

LEMMA ReloadedForgets ==
  ASSUME SignInInv, ~EditsDuringWrites
  PROVE  \A t \in removed : Reloaded.byHash[t] = None
  BY DEF SignInInv, SignInTypeOK, RemovedFromFile, Reloaded, NoSessions

LEMMA ReloadedKeeps ==
  ASSUME SignInInv, Free, clean, NEW t \in Token, Lasts(t)
  PROVE  /\ Exact(Reloaded.byHash, t)
         /\ ~Reloaded.dirty => file # None /\ Exact(file, t)
  <1>1. Kept /\ StoreState
    BY DEF SignInInv
  <1>2. job = NoJob /\ job.phase # "stat"
    BY DEF Free, NoJob
  <1>3. loadedMod \in {"never", "missing", "current"}
    BY <1>1, <1>2 DEF Kept, SignInInv, SignInTypeOK
  <1>4. QED
    BY <1>1, <1>2, <1>3 DEF Kept, StoreState, Reloaded

-----------------------------------------------------------------------------
(* The type invariant *)

LEMMA TypeInit == Init => SignInTypeOK
  <1> SUFFICES ASSUME Init PROVE SignInTypeOK
    OBVIOUS
  <1>1. now \in 0 .. MaxTime /\ edits \in 0 .. MaxEdits
    BY DEF Init
  <1>2. codes \in [Code -> (0 .. (MaxTime + LinkTTL)) \cup {None}]
    BY DEF Init
  <1>3. started \in [Token -> Start \cup {None}]
    BY DEF Init
  <1>4. entering \in [Browser -> Code \cup {None}] /\ cookie \in [Browser -> Token \cup {None}]
    BY DEF Init
  <1>5. QED
    BY <1>1, <1>2, <1>3, <1>4, NoSessionsType DEF Init, SignInTypeOK

LEMMA GoneType ==
  ASSUME SignInInv, Gone
  PROVE  /\ running' \in BOOLEAN
         /\ byHash' \in Sessions
         /\ loadedMod' \in {"never", "missing", "current", "stale"}
         /\ dirty' \in BOOLEAN
         /\ lastWrite' \in (0 .. MaxTime) \cup {None}
         /\ codes' \in [Code -> (0 .. (MaxTime + LinkTTL)) \cup {None}]
         /\ entering' \in [Browser -> Code \cup {None}]
         /\ job' \in Job \cup {NoJob}
  <1>1. codes' \in [Code -> (0 .. (MaxTime + LinkTTL)) \cup {None}]
    BY DEF Gone
  <1>2. entering' \in [Browser -> Code \cup {None}]
    BY DEF Gone
  <1>3. QED
    BY <1>1, <1>2, NoSessionsType DEF Gone

LEMMA CurrentType ==
  ASSUME SignInInv
  PROVE  Current \in Sessions
  BY DEF SignInInv, SignInTypeOK, Current, Sessions

LEMMA TypeStep ==
  ASSUME SignInInv, [Next]_vars
  PROVE  SignInTypeOK'
  <1>1. SignInTypeOK
    BY DEF SignInInv
  <1> USE DEF SignInTypeOK, historyVars, storeVars
  <1>2. CASE \E b \in Browser : Login(b)
    BY <1>1, <1>2 DEF Login
  <1>3. CASE \E b \in Browser : Create(b)
    <2>1. PICK b \in Browser : Create(b)
      BY <1>3
    <2>2. PICK t \in Token, sliding \in BOOLEAN :
            /\ Reloads([Reloaded.byHash EXCEPT ![t] =
                          [expiresAt |-> now + (IF sliding THEN SessionTTL ELSE FallbackTTL),
                           sliding |-> sliding]], Reloaded.dirty)
            /\ started' = [started EXCEPT ![t] =
                             [code |-> entering[b], sliding |-> sliding, at |-> now, used |-> now]]
            /\ Writes("create", b, t)
      BY <2>1 DEF Create
    <2>3. byHash' \in Sessions
      BY <1>1, <2>2, ReloadedTypes DEF Reloads, Sessions, Session
    <2>4. started' \in [Token -> Start \cup {None}]
      BY <1>1, <2>1, <2>2 DEF Create, Start
    <2>5. job' \in Job
      BY <2>1, <2>2 DEF Writes, Job
    <2>6. QED
      BY <1>1, <2>1, <2>2, <2>3, <2>4, <2>5, ReloadedTypes DEF Create, Reloads
  <1>4. CASE \E b \in Browser : Touch(b)
    <2>1. PICK b \in Browser : Touch(b)
      BY <1>4
    <2>2. CASE Unrenewed
      BY <1>1, <2>1, <2>2, ReloadedTypes DEF Touch, Unrenewed, Reloads
    <2>3. CASE /\ Renews(b, cookie[b], now + SessionTTL)
               /\ Live(Reloaded.byHash, cookie[b])
      <3>1. cookie[b] \in Token /\ Reloaded.byHash[cookie[b]] \in Session
        BY <1>1, <2>1, <2>3, ReloadedTypes DEF Touch, Live, Sessions
      <3>2. byHash' \in Sessions
        BY <1>1, <2>3, <3>1, ReloadedTypes DEF Renews, Reloads, Sessions, Session
      <3>3. started' \in [Token -> Start \cup {None}]
        <4>1. started[cookie[b]] \in Start
          BY <1>1, <3>1, ReloadedPromises DEF WithinPromise
        <4>2. QED
          BY <1>1, <2>3, <3>1, <4>1 DEF Renews, Start
      <3>4. job' \in Job \cup {NoJob}
        BY <1>1, <2>3, <3>1 DEF Renews, Writes, Job
      <3>5. QED
        BY <1>1, <2>1, <2>3, <3>2, <3>3, <3>4, ReloadedTypes DEF Touch, Renews, Reloads
    <2>4. QED
      BY <2>1, <2>2, <2>3 DEF Touch
  <1>5. CASE \E b \in Browser : Logout(b)
    <2>1. PICK b \in Browser : Logout(b)
      BY <1>5
    <2>2. cookie[b] \in Token
      BY <1>1, <2>1 DEF Logout
    <2>3. byHash' \in Sessions
      BY <2>1, <2>2, ReloadedTypes DEF Logout, Reloads, Sessions
    <2>4. job' \in Job \cup {NoJob}
      BY <1>1, <2>1, <2>2 DEF Logout, Writes, Job
    <2>5. cookie' \in [Browser -> Token \cup {None}] /\ signedOut' \in SUBSET Token
      BY <1>1, <2>1, <2>2 DEF Logout, SignedOut
    <2>6. QED
      BY <1>1, <2>1, <2>3, <2>4, <2>5, ReloadedTypes DEF Logout, Reloads
  <1>6. CASE WriteFile
    BY <1>1, <1>6, CurrentType DEF WriteFile, Job, NoJob
  <1>7. CASE WriteFails
    BY <1>1, <1>7, CurrentType, GoneType DEF WriteFails
  <1>8. CASE StatFile
    <2>1. job \in Job
      BY <1>1, <1>8 DEF StatFile, NoJob
    <2>2. signedOut' \in SUBSET Token /\ cookie' \in [Browser -> Token \cup {None}]
      <3>1. job.kind = "remove" => cookie[job.browser] \in Token
        BY DEF SignInInv, StoreState
      <3>2. QED
        BY <1>1, <1>8, <2>1, <3>1 DEF StatFile, SignedOut, Job
    <2>3. CASE job.kind = "flush"
      BY <1>1, <1>8, <2>2, <2>3, GoneType DEF StatFile
    <2>4. CASE job.kind # "flush"
      BY <1>1, <1>8, <2>2, <2>4 DEF StatFile
    <2>5. QED
      BY <2>3, <2>4
  <1>9. CASE LoginLink
    BY <1>1, <1>9 DEF LoginLink
  <1>10. CASE Stop
    <2>1. CASE Reloaded.dirty
      BY <1>1, <1>10, <2>1, ReloadedTypes DEF Stop, Reloads, Writes, Job
    <2>2. CASE ~Reloaded.dirty
      BY <1>1, <1>10, <2>2, GoneType DEF Stop
    <2>3. QED
      BY <2>1, <2>2
  <1>11. CASE Crash
    BY <1>1, <1>11, GoneType DEF Crash
  <1>12. CASE StartServer
    BY <1>1, <1>12 DEF StartServer
  <1>13. CASE EditFile
    <2>1. file' \in Sessions \cup {None}
      BY <1>1, <1>13 DEF EditFile, Sessions
    <2>2. removed' \in SUBSET Token
      BY <1>1, <1>13 DEF EditFile
    <2>3. loadedMod' \in {"never", "missing", "current", "stale"} /\ edits' \in 0 .. MaxEdits
      BY <1>1, <1>13 DEF EditFile
    <2>4. QED
      BY <1>1, <1>13, <2>1, <2>2, <2>3 DEF EditFile
  <1>14. CASE Tick
    BY <1>1, <1>14 DEF Tick
  <1>15. CASE UNCHANGED vars
    BY <1>1, <1>15 DEF vars
  <1>16. QED
    BY <1>2, <1>3, <1>4, <1>5, <1>6, <1>7, <1>8, <1>9, <1>10, <1>11, <1>12,
       <1>13, <1>14, <1>15 DEF Next

-----------------------------------------------------------------------------
(* A request with a cookie *)

\* Touch renews the session it found, or reads the file and nothing more.
LEMMA TouchRenews ==
  ASSUME SignInInv, NEW b \in Browser, Touch(b)
  PROVE  \/ Unrenewed
         \/ \E t \in Token :
               /\ t = cookie[b]
               /\ Live(Reloaded.byHash, t)
               /\ started[t] \in Start /\ started[t].sliding = TRUE
               /\ started'[t] # None /\ started'[t].used = now
               /\ started'[t].sliding = started[t].sliding
               /\ started'[t].code = started[t].code
               /\ \A u \in Token \ {t} : started'[u] = started[u]
               /\ byHash'[t] # None /\ byHash'[t].expiresAt = now + SessionTTL
               /\ byHash'[t].sliding = started[t].sliding
               /\ \A u \in Token \ {t} : byHash'[u] = Reloaded.byHash[u]
               /\ Renews(b, t, now + SessionTTL)
  <1>1. SignInTypeOK /\ Promises
    BY DEF SignInInv
  <1>2. PICK t \in Token : t = cookie[b]
    BY <1>1 DEF Touch, SignInTypeOK
  <1>3. Unrenewed \/ /\ Live(Reloaded.byHash, t) /\ Reloaded.byHash[t].sliding
                     /\ Renews(b, t, now + SessionTTL)
    BY <1>2 DEF Touch
  <1>4. SUFFICES ASSUME Live(Reloaded.byHash, t), Reloaded.byHash[t].sliding,
                        Renews(b, t, now + SessionTTL)
                 PROVE  /\ started[t] \in Start /\ started[t].sliding = TRUE
                        /\ started'[t] # None /\ started'[t].used = now
                        /\ started'[t].sliding = started[t].sliding
                        /\ started'[t].code = started[t].code
                        /\ \A u \in Token \ {t} : started'[u] = started[u]
                        /\ byHash'[t] # None /\ byHash'[t].expiresAt = now + SessionTTL
                        /\ byHash'[t].sliding = started[t].sliding
                        /\ \A u \in Token \ {t} : byHash'[u] = Reloaded.byHash[u]
    BY <1>2, <1>3
  <1>5. started[t] \in Start /\ Reloaded.byHash[t].sliding = started[t].sliding
    BY <1>1, <1>4, ReloadedPromises DEF Live, WithinPromise, SignInTypeOK
  <1>6. Reloaded.byHash \in Sessions /\ Reloaded.byHash[t] \in Session
    BY <1>4, ReloadedTypes DEF Live, Sessions
  <1>7. started[t].sliding = TRUE
    BY <1>4, <1>5, <1>6 DEF Start, Session
  <1>8. /\ started'[t] # None /\ started'[t].used = now
        /\ started'[t].sliding = started[t].sliding
        /\ started'[t].code = started[t].code
        /\ \A u \in Token \ {t} : started'[u] = started[u]
    <2>1. started' = [started EXCEPT ![t].used = now]
      BY <1>4 DEF Renews
    <2>2. started'[t] = [started[t] EXCEPT !.used = now]
      BY <1>1, <2>1 DEF SignInTypeOK
    <2>3. started'[t] \in Start
      BY <1>1, <1>5, <2>2 DEF Start, SignInTypeOK
    <2>4. QED
      BY <1>1, <1>5, <2>1, <2>2, <2>3 DEF SignInTypeOK, Start
  <1>9. /\ byHash'[t] # None /\ byHash'[t].expiresAt = now + SessionTTL
        /\ byHash'[t].sliding = started[t].sliding
        /\ \A u \in Token \ {t} : byHash'[u] = Reloaded.byHash[u]
    <2>1. byHash' = [Reloaded.byHash EXCEPT ![t].expiresAt = now + SessionTTL]
      BY <1>4 DEF Renews, Reloads
    <2>2. byHash'[t] = [Reloaded.byHash[t] EXCEPT !.expiresAt = now + SessionTTL]
      BY <1>6, <2>1 DEF Sessions
    <2>3. byHash'[t] \in Session
      BY <1>1, <1>6, <2>2 DEF Session, SignInTypeOK
    <2>4. QED
      BY <1>5, <1>6, <2>1, <2>2, <2>3 DEF Sessions, Session
  <1>10. QED
    BY <1>5, <1>7, <1>8, <1>9

LEMMA TouchKeeps ==
  ASSUME SignInInv, NEW b \in Browser, Touch(b)
  PROVE  /\ \A t \in Token : started[t] # None => started'[t] # None
         /\ \A t \in Token :
               /\ Live(Reloaded.byHash, t) => Live(byHash', t)
               /\ Live(byHash', t) => Live(Reloaded.byHash, t)
               /\ Reloaded.byHash[t] # None =>
                     /\ byHash'[t] # None /\ byHash'[t].expiresAt \in Nat
                     /\ byHash'[t].expiresAt >= Reloaded.byHash[t].expiresAt
         /\ job' = job \/ job'.kind = "touch"
  <1>1. SignInTypeOK
    BY DEF SignInInv
  <1>2. now \in Nat /\ \A t \in Token :
          Reloaded.byHash[t] # None => Reloaded.byHash[t].expiresAt \in Nat
    BY <1>1, ReloadedTypes DEF SignInTypeOK, Sessions, Session
  <1>3. CASE Unrenewed
    BY <1>2, <1>3 DEF Unrenewed, Reloads, Live
  <1>4. CASE ~Unrenewed
    <2>1. PICK t \in Token :
            /\ Live(Reloaded.byHash, t)
            /\ started[t] \in Start /\ started[t].sliding = TRUE
            /\ started'[t] # None
            /\ \A u \in Token \ {t} : started'[u] = started[u]
            /\ byHash'[t] # None /\ byHash'[t].expiresAt = now + SessionTTL
            /\ \A u \in Token \ {t} : byHash'[u] = Reloaded.byHash[u]
            /\ Renews(b, t, now + SessionTTL)
      BY <1>4, TouchRenews
    <2>2. job' = job \/ job'.kind = "touch"
      BY <2>1 DEF Renews, Writes
    <2>3. Reloaded.byHash[t].expiresAt <= now + SessionTTL
      <3>1. WithinPromise(Reloaded.byHash) /\ Reloaded.byHash[t] # None
        BY <2>1, ReloadedPromises DEF Live
      <3>2. Reloaded.byHash[t].expiresAt <= started[t].used + SessionTTL
        BY <2>1, <3>1 DEF WithinPromise, Promised
      <3>3. started[t].used <= now /\ started[t].used \in Nat
        BY <1>1, <2>1 DEF SignInInv, Promises, Start, SignInTypeOK
      <3>4. QED
        BY <1>2, <3>1, <3>2, <3>3
    <2>4. QED
      BY <1>2, <2>1, <2>2, <2>3 DEF Live
  <1>5. QED
    BY <1>3, <1>4

-----------------------------------------------------------------------------
(* Login codes *)

LEMMA CodesStep ==
  ASSUME SignInInv, [Next]_vars
  PROVE  CodesSpent'
  <1>1. SignInTypeOK /\ CodesSpent
    BY DEF SignInInv
  <1> USE DEF SignInTypeOK, CodesSpent, LinkSignsInOnce, storeVars, historyVars
  <1>2. CASE \E b \in Browser : Login(b)
    BY <1>1, <1>2 DEF Login, Valid
  <1>3. CASE \E b \in Browser : Create(b)
    BY <1>1, <1>3 DEF Create
  <1>4. CASE \E b \in Browser : Touch(b)
    <2>1. PICK b \in Browser : Touch(b)
      BY <1>4
    <2>2. \A t \in Token :
            started'[t] # None => started[t] # None /\ started'[t].code = started[t].code
      <3>1. CASE Unrenewed
        BY <3>1 DEF Unrenewed
      <3>2. CASE ~Unrenewed
        <4>1. PICK u \in Token :
                /\ started[u] \in Start /\ started'[u].code = started[u].code
                /\ \A t \in Token \ {u} : started'[t] = started[t]
          BY <2>1, <3>2, TouchRenews
        <4>2. QED
          BY <4>1
      <3>3. QED
        BY <3>1, <3>2
    <2>3. QED
      BY <1>1, <2>1, <2>2 DEF Touch
  <1>5. CASE \E b \in Browser : Logout(b)
    BY <1>1, <1>5 DEF Logout
  <1>6. CASE WriteFile
    BY <1>1, <1>6 DEF WriteFile
  <1>7. CASE WriteFails
    BY <1>1, <1>7 DEF WriteFails, Gone
  <1>8. CASE StatFile
    BY <1>1, <1>8 DEF StatFile, Gone
  <1>9. CASE LoginLink
    BY <1>1, <1>9 DEF LoginLink
  <1>10. CASE Stop
    <2>1. CASE Reloaded.dirty
      BY <1>1, <1>10, <2>1 DEF Stop
    <2>2. CASE ~Reloaded.dirty
      BY <1>1, <1>10, <2>2 DEF Stop, Gone
    <2>3. QED
      BY <2>1, <2>2
  <1>11. CASE Crash
    BY <1>1, <1>11 DEF Crash, Gone
  <1>12. CASE StartServer
    BY <1>1, <1>12 DEF StartServer
  <1>13. CASE EditFile
    BY <1>1, <1>13 DEF EditFile
  <1>14. CASE Tick
    BY <1>1, <1>14 DEF Tick
  <1>15. CASE UNCHANGED vars
    BY <1>1, <1>15 DEF vars
  <1>16. QED
    BY <1>2, <1>3, <1>4, <1>5, <1>6, <1>7, <1>8, <1>9, <1>10, <1>11, <1>12,
       <1>13, <1>14, <1>15 DEF Next

-----------------------------------------------------------------------------
(* Lifetimes *)

\* A step that only drops sessions, or reads them back, breaks no promise.
LEMMA DroppedPromises ==
  ASSUME SignInInv, started' = started, now' \in Nat, now <= now',
         \A t \in Token :
            byHash'[t] # None => byHash'[t] \in {byHash[t], Reloaded.byHash[t]},
         file' # None =>
            \A t \in Token :
               file'[t] # None =>
                  file'[t] = byHash[t] \/ (file # None /\ file'[t] = file[t])
  PROVE  Promises'
  <1>1. SignInTypeOK /\ Promises
    BY DEF SignInInv
  <1>2. \A t \in Token : started[t] # None => started[t] \in Start
    BY <1>1 DEF SignInTypeOK
  <1>3. now \in Nat
    BY <1>1 DEF SignInTypeOK
  <1>4. \A t \in Token : started[t] # None => started[t].used <= now'
    BY <1>1, <1>2, <1>3 DEF Promises, Start
  <1>5. \A t \in Token : Promised(t)' = Promised(t)
    BY DEF Promised
  <1>6. WithinPromise(byHash) /\ WithinPromise(Reloaded.byHash)
    BY <1>1, ReloadedPromises DEF Promises
  <1>7. WithinPromise(byHash)'
    BY <1>5, <1>6 DEF WithinPromise
  <1>8. (file # None => WithinPromise(file))'
    BY <1>1, <1>5, <1>6 DEF Promises, WithinPromise
  <1>9. QED
    BY <1>4, <1>7, <1>8 DEF Promises

LEMMA CurrentDrops ==
  \A t \in Token : Current[t] # None => Current[t] = byHash[t]
  BY DEF Current

LEMMA PromisesStep ==
  ASSUME SignInInv, [Next]_vars
  PROVE  Promises'
  <1>1. SignInTypeOK /\ Promises
    BY DEF SignInInv
  <1>2. \A t \in Token : started[t] # None => started[t] \in Start
    BY <1>1 DEF SignInTypeOK
  <1> USE DEF storeVars, historyVars
  <1>3. now \in Nat
    BY <1>1 DEF SignInTypeOK
  <1>4. CASE \E b \in Browser : Login(b)
    BY <1>3, <1>4, DroppedPromises DEF Login
  <1>5. CASE \E b \in Browser : Create(b)
    <2>1. PICK b \in Browser : Create(b)
      BY <1>5
    <2>2. PICK t \in Token, sliding \in BOOLEAN :
            /\ started[t] = None
            /\ byHash' = [Reloaded.byHash EXCEPT ![t] =
                            [expiresAt |-> now + (IF sliding THEN SessionTTL ELSE FallbackTTL),
                             sliding |-> sliding]]
            /\ started' = [started EXCEPT ![t] =
                             [code |-> entering[b], sliding |-> sliding, at |-> now, used |-> now]]
      BY <2>1 DEF Create, Reloads
    <2>3. started'[t] = [code |-> entering[b], sliding |-> sliding, at |-> now, used |-> now]
          /\ started'[t] \in Start
          /\ \A u \in Token \ {t} : started'[u] = started[u]
      BY <1>1, <2>1, <2>2 DEF Create, SignInTypeOK, Start
    <2>4. \A u \in Token \ {t} : Promised(u)' = Promised(u)
      BY <2>3 DEF Promised
    <2>5. WithinPromise(Reloaded.byHash) /\ Reloaded.byHash \in Sessions
      BY ReloadedPromises, ReloadedTypes
    <2>6. byHash'[t].expiresAt = Promised(t)' /\ byHash'[t].sliding = started'[t].sliding
      BY <2>2, <2>3, <2>5 DEF Promised, Sessions
    <2>7. now \in Nat /\ Promised(t)' \in Nat
      BY <1>1, <2>3 DEF SignInTypeOK, Promised
    <2>8. WithinPromise(byHash)'
      BY <2>2, <2>3, <2>4, <2>5, <2>6, <2>7 DEF WithinPromise, Sessions
    <2>9. file' = file /\ now' = now
      BY <2>1 DEF Create
    <2>10. (file # None => WithinPromise(file))'
      BY <1>1, <2>2, <2>3, <2>4, <2>9 DEF Promises, WithinPromise
    <2>11. \A u \in Token : started'[u] # None => started'[u].used <= now'
      BY <1>1, <2>3, <2>7, <2>9 DEF Promises
    <2>12. QED
      BY <2>8, <2>10, <2>11 DEF Promises
  <1>6. CASE \E b \in Browser : Touch(b)
    <2>1. PICK b \in Browser : Touch(b)
      BY <1>6
    <2>2. CASE Unrenewed
      BY <1>3, <2>1, <2>2, DroppedPromises DEF Touch, Unrenewed, Reloads
    <2>3. CASE ~Unrenewed
      <3>1. PICK t \in Token :
              /\ started[t] \in Start /\ started[t].sliding = TRUE
              /\ started'[t] # None /\ started'[t].used = now
              /\ started'[t].sliding = started[t].sliding
              /\ \A u \in Token \ {t} : started'[u] = started[u]
              /\ byHash'[t].expiresAt = now + SessionTTL
              /\ byHash'[t].sliding = started[t].sliding
              /\ \A u \in Token \ {t} : byHash'[u] = Reloaded.byHash[u]
        BY <2>1, <2>3, TouchRenews
      <3>2. now \in Nat /\ started[t].used \in Nat /\ started[t].used <= now
        BY <1>1, <3>1 DEF SignInTypeOK, Promises, Start
      <3>3. /\ \A u \in Token :
                  Promised(u)' = IF u = t THEN now + SessionTTL ELSE Promised(u)
            /\ Promised(t) = started[t].used + SessionTTL
        BY <3>1 DEF Promised
      <3>4. WithinPromise(byHash)'
        <4>1. ASSUME NEW u \in Token, byHash'[u] # None
              PROVE  /\ started'[u] # None
                     /\ byHash'[u].sliding = started'[u].sliding
                     /\ byHash'[u].expiresAt <= Promised(u)'
          <5>1. CASE u = t
            BY <3>1, <3>2, <3>3, <5>1
          <5>2. CASE u # t
            BY <3>1, <3>3, <4>1, <5>2, ReloadedPromises DEF WithinPromise
          <5>3. QED
            BY <5>1, <5>2
        <4>2. QED
          BY <4>1 DEF WithinPromise
      <3>5. file' = file /\ now' = now
        BY <2>1 DEF Touch
      <3>6. (file # None => WithinPromise(file))'
        <4>1. ASSUME file # None, NEW u \in Token, file[u] # None
              PROVE  /\ started'[u] # None
                     /\ file[u].sliding = started'[u].sliding
                     /\ file[u].expiresAt <= Promised(u)'
          <5>1. /\ started[u] # None /\ file[u].sliding = started[u].sliding
                /\ file[u].expiresAt <= Promised(u)
                /\ file[u].expiresAt \in Nat
            BY <1>1, <4>1 DEF Promises, WithinPromise, SignInTypeOK, Sessions, Session
          <5>2. CASE u = t
            BY <3>1, <3>2, <3>3, <5>1, <5>2
          <5>3. CASE u # t
            BY <3>1, <3>3, <5>1, <5>3
          <5>4. QED
            BY <5>2, <5>3
        <4>2. QED
          BY <3>5, <4>1 DEF WithinPromise
      <3>7. \A u \in Token : started'[u] # None => started'[u].used <= now'
        BY <1>1, <3>1, <3>2, <3>5 DEF Promises
      <3>8. QED
        BY <3>4, <3>6, <3>7 DEF Promises
    <2>4. QED
      BY <2>1, <2>2, <2>3
  <1>7. CASE \E b \in Browser : Logout(b)
    <2>1. Reloaded.byHash \in Sessions
      BY ReloadedTypes
    <2>2. \A t \in Token :
            byHash'[t] # None => byHash'[t] = Reloaded.byHash[t]
      BY <1>7, <2>1 DEF Logout, Reloads, Sessions
    <2>3. QED
      BY <1>3, <1>7, <2>2, DroppedPromises DEF Logout
  <1>8. CASE WriteFile
    <2>1. \A t \in Token : Current[t] # None => Current[t] = byHash[t]
      BY CurrentDrops
    <2>2. byHash' = Current /\ file' = Current /\ started' = started /\ now' = now
      BY <1>8 DEF WriteFile
    <2>3. \A t \in Token :
            byHash'[t] # None => byHash'[t] \in {byHash[t], Reloaded.byHash[t]}
      BY <2>1, <2>2
    <2>4. file' # None =>
            \A t \in Token :
               file'[t] # None =>
                  file'[t] = byHash[t] \/ (file # None /\ file'[t] = file[t])
      BY <2>1, <2>2
    <2>5. started' = started /\ now' \in Nat /\ now <= now'
      BY <1>3, <2>2
    <2>6. QED
      BY <2>3, <2>4, <2>5, DroppedPromises
  <1>9. CASE WriteFails
    BY <1>3, <1>9, CurrentDrops, DroppedPromises DEF WriteFails, Gone, NoSessions
  <1>10. CASE StatFile
    BY <1>3, <1>10, DroppedPromises DEF StatFile, Gone, NoSessions
  <1>11. CASE LoginLink
    BY <1>3, <1>11, DroppedPromises DEF LoginLink
  <1>12. CASE Stop
    BY <1>3, <1>12, DroppedPromises DEF Stop, Gone, Reloads, NoSessions
  <1>13. CASE Crash
    BY <1>3, <1>13, DroppedPromises DEF Crash, Gone, NoSessions
  <1>14. CASE StartServer
    BY <1>3, <1>14, DroppedPromises DEF StartServer
  <1>15. CASE EditFile
    <2>1. file \in Sessions
      BY <1>1, <1>15 DEF EditFile, SignInTypeOK
    <2>2. file' # None =>
            \A t \in Token : file'[t] # None => file'[t] = file[t]
      BY <1>15, <2>1 DEF EditFile, Sessions
    <2>3. QED
      BY <1>3, <1>15, <2>2, DroppedPromises DEF EditFile
  <1>16. CASE Tick
    BY <1>3, <1>16, DroppedPromises DEF Tick
  <1>17. CASE UNCHANGED vars
    BY <1>3, <1>17, DroppedPromises DEF vars
  <1>18. QED
    BY <1>4, <1>5, <1>6, <1>7, <1>8, <1>9, <1>10, <1>11, <1>12,
       <1>13, <1>14, <1>15, <1>16, <1>17 DEF Next

-----------------------------------------------------------------------------
(* The store and its file *)

\* An operation has read the file, and holds mu while it writes.
LEMMA ReadFirst ==
  ASSUME SignInInv
  PROVE  /\ job # NoJob => running
         /\ job = NoJob => job.kind = "none" /\ job.phase = "none"
         /\ job.phase \in {"write", "stat"} => job # NoJob
         /\ job.kind # "none" => job # NoJob
  BY DEF SignInInv, StoreState, SignInTypeOK, NoJob, Job

LEMMA StoreStep ==
  ASSUME SignInInv, [Next]_vars
  PROVE  StoreState'
  <1>1. SignInTypeOK /\ StoreState
    BY DEF SignInInv
  <1> USE DEF StoreState, storeVars, historyVars, NoJob
  <1>2. CASE \E b \in Browser : Login(b)
    BY <1>1, <1>2 DEF Login
  <1>3. CASE \E b \in Browser : Create(b)
    <2>1. PICK b \in Browser : Create(b)
      BY <1>3
    <2>2. PICK t \in Token, sliding \in BOOLEAN :
            /\ started' = [started EXCEPT ![t] =
                             [code |-> entering[b], sliding |-> sliding, at |-> now, used |-> now]]
            /\ job' = [kind |-> "create", phase |-> "write", browser |-> b, token |-> t]
            /\ loadedMod' = IF file = None THEN "missing" ELSE "current"
      BY <2>1, ReloadedTypes DEF Create, Reloads, Writes
    <2>3. started'[t] \in Start
      BY <1>1, <2>1, <2>2 DEF Create, Start, SignInTypeOK
    <2>4. started'[t] # None /\ \A u \in Token : started[u] # None => started'[u] # None
      BY <1>1, <2>2, <2>3 DEF SignInTypeOK
    <2>5. QED
      BY <1>1, <2>1, <2>2, <2>4 DEF Create, Free, SignInTypeOK
  <1>4. CASE \E b \in Browser : Touch(b)
    <2>1. PICK b \in Browser : Touch(b)
      BY <1>4
    <2>2. running /\ job = NoJob
      BY <2>1 DEF Touch, Free
    <2>3. loadedMod' = IF file = None THEN "missing" ELSE "current"
      BY <2>1, ReloadedTypes DEF Touch, Unrenewed, Renews, Reloads
    <2>4. job' = job \/ job'.kind = "touch"
      <3>1. CASE Unrenewed
        BY <3>1 DEF Unrenewed
      <3>2. CASE Renews(b, cookie[b], now + SessionTTL)
        BY <3>2 DEF Renews, Writes
      <3>3. QED
        BY <2>1, <3>1, <3>2 DEF Touch
    <2>5. \A t \in Token : started[t] # None => started'[t] # None
      BY <2>1, TypeStep, TouchKeeps
    <2>6. QED
      BY <1>1, <2>1, <2>2, <2>3, <2>4, <2>5 DEF Touch, SignInTypeOK
  <1>5. CASE \E b \in Browser : Logout(b)
    <2>1. PICK b \in Browser : Logout(b)
      BY <1>5
    <2>2. loadedMod' = IF file = None THEN "missing" ELSE "current"
      BY <2>1, ReloadedTypes DEF Logout, Reloads
    <2>3. cookie[b] \in Token
      BY <1>1, <2>1 DEF Logout, SignInTypeOK
    <2>4. QED
      <3>1. \A a \in Browser : cookie'[a] \in {cookie[a], None}
        BY <1>1, <2>1 DEF Logout, SignedOut, SignInTypeOK
      <3>2. running /\ job = NoJob
        BY <2>1 DEF Logout, Free
      <3>3. CASE job' = job
        BY <1>1, <2>1, <2>2, <3>1, <3>2, <3>3 DEF Logout
      <3>4. CASE Writes("remove", b, cookie[b]) /\ cookie' = cookie
        BY <1>1, <2>1, <2>2, <2>3, <3>2, <3>4 DEF Logout, Writes
      <3>5. QED
        BY <2>1, <3>3, <3>4 DEF Logout
  <1>6. CASE WriteFile
    <2>1. job \in Job /\ Current # None
      BY <1>1, <1>6, CurrentType DEF WriteFile, SignInTypeOK
    <2>2. job' = [job EXCEPT !.phase = "stat"] /\ job'.kind = job.kind
          /\ job'.phase = "stat" /\ job'.browser = job.browser /\ job'.token = job.token
      BY <1>6, <2>1 DEF WriteFile, Job
    <2>3. loadedMod \in {"missing", "current", "stale"}
      BY <1>1, <1>6 DEF WriteFile, SignInTypeOK
    <2>4. QED
      BY <1>1, <1>6, <2>1, <2>2, <2>3 DEF WriteFile
  <1>7. CASE WriteFails
    BY <1>1, <1>7 DEF WriteFails, Gone
  <1>8. CASE StatFile
    <2>1. job \in Job
      BY <1>1, <1>8 DEF StatFile, SignInTypeOK
    <2>2. \A b \in Browser :
            cookie'[b] # None => started'[cookie'[b]] # None
      BY <1>1, <1>8, <2>1 DEF StatFile, SignedOut, SignInTypeOK
    <2>3. /\ job' = NoJob
          /\ loadedMod' = "never" =>
                byHash' = NoSessions /\ ~dirty'
          /\ loadedMod' = "current" => file' # None
          /\ loadedMod' = "missing" => file' = None
          /\ ~running' => loadedMod' = "never" /\ \A b \in Browser : entering'[b] = None
      BY <1>1, <1>8 DEF StatFile, Gone
    <2>4. QED
      BY <2>2, <2>3
  <1>9. CASE LoginLink
    BY <1>1, <1>9 DEF LoginLink
  <1>10. CASE Stop
    <2>1. CASE Reloaded.dirty
      BY <1>1, <1>10, <2>1, ReloadedTypes DEF Stop, Free, Reloads, Writes
    <2>2. CASE ~Reloaded.dirty
      BY <1>1, <1>10, <2>2 DEF Stop, Gone
    <2>3. QED
      BY <2>1, <2>2
  <1>11. CASE Crash
    BY <1>1, <1>11 DEF Crash, Gone
  <1>12. CASE StartServer
    BY <1>1, <1>12 DEF StartServer
  <1>13. CASE EditFile
    BY <1>1, <1>13 DEF EditFile, SignInTypeOK
  <1>14. CASE Tick
    BY <1>1, <1>14 DEF Tick
  <1>15. CASE UNCHANGED vars
    BY <1>1, <1>15 DEF vars
  <1>16. QED
    BY <1>2, <1>3, <1>4, <1>5, <1>6, <1>7, <1>8, <1>9, <1>10, <1>11, <1>12,
       <1>13, <1>14, <1>15 DEF Next

-----------------------------------------------------------------------------
(* Sessions taken out of the file by hand *)

LEMMA RemovedStep ==
  ASSUME SignInInv, [Next]_vars, ~EditsDuringWrites
  PROVE  RemovedFromFile'
  <1>1. SignInTypeOK /\ StoreState /\ RemovedFromFile /\ Promises
    BY DEF SignInInv
  <1>2. /\ Reloaded.byHash \in Sessions
        /\ \A t \in removed : t \in Token /\ Reloaded.byHash[t] = None
    BY <1>1, ReloadedTypes, ReloadedForgets DEF SignInTypeOK
  <1> USE DEF RemovedFromFile, storeVars, historyVars
  <1>3. CASE \E b \in Browser : Login(b)
    BY <1>1, <1>3 DEF Login
  <1>4. CASE \E b \in Browser : Create(b)
    <2>1. PICK b \in Browser : Create(b)
      BY <1>4
    <2>2. PICK t \in Token :
            /\ started[t] = None
            /\ \A u \in Token \ {t} : byHash'[u] = Reloaded.byHash[u] /\ started'[u] = started[u]
      BY <1>1, <1>2, <2>1 DEF Create, Reloads, Sessions, SignInTypeOK
    <2>3. QED
      BY <1>1, <1>2, <2>1, <2>2 DEF Create
  <1>5. CASE \E b \in Browser : Touch(b)
    <2>1. PICK b \in Browser : Touch(b)
      BY <1>5
    <2>2. CASE Unrenewed
      BY <1>1, <1>2, <2>1, <2>2 DEF Touch, Unrenewed, Reloads
    <2>3. CASE Renews(b, cookie[b], now + SessionTTL) /\ Live(Reloaded.byHash, cookie[b])
      <3>1. \A t \in removed : t # cookie[b]
        BY <1>2, <2>3 DEF Live
      <3>2. \A t \in removed : byHash'[t] = Reloaded.byHash[t] /\ started'[t] = started[t]
        BY <1>1, <1>2, <2>3, <3>1 DEF Renews, Reloads, Sessions, SignInTypeOK
      <3>3. QED
        BY <1>1, <1>2, <2>1, <3>2 DEF Touch
    <2>4. QED
      BY <2>1, <2>2, <2>3 DEF Touch
  <1>6. CASE \E b \in Browser : Logout(b)
    <2>1. PICK b \in Browser : Logout(b)
      BY <1>6
    <2>2. \A t \in removed : byHash'[t] = None
      BY <1>2, <2>1 DEF Logout, Reloads, Sessions
    <2>3. QED
      BY <1>1, <2>1, <2>2 DEF Logout
  <1>7. CASE WriteFile
    <2>1. job # NoJob
      BY <1>7, ReadFirst DEF WriteFile
    <2>2. \A t \in removed : Current[t] = None
      BY <1>1, <1>2, <2>1 DEF Current
    <2>3. QED
      BY <1>1, <1>7, <2>2 DEF WriteFile
  <1>8. CASE WriteFails
    <2>1. job # NoJob
      BY <1>8, ReadFirst DEF WriteFails
    <2>2. \A t \in removed : byHash'[t] = None
      BY <1>1, <1>2, <1>8, <2>1 DEF WriteFails, Gone, NoSessions, Current
    <2>3. QED
      BY <1>1, <1>8, <2>2 DEF WriteFails
  <1>9. CASE StatFile
    <2>1. job # NoJob
      BY <1>9, ReadFirst DEF StatFile
    <2>2. \A t \in removed : byHash'[t] = None
      BY <1>1, <1>2, <1>9, <2>1 DEF StatFile, Gone, NoSessions
    <2>3. QED
      BY <1>1, <1>9, <2>2 DEF StatFile
  <1>10. CASE LoginLink
    BY <1>1, <1>10 DEF LoginLink
  <1>11. CASE Stop
    <2>1. \A t \in removed : byHash'[t] = None
      BY <1>2, <1>11 DEF Stop, Gone, NoSessions, Reloads
    <2>2. QED
      BY <1>1, <1>11, <2>1 DEF Stop
  <1>12. CASE Crash
    BY <1>1, <1>2, <1>12 DEF Crash, Gone, NoSessions
  <1>13. CASE StartServer
    BY <1>1, <1>13 DEF StartServer
  <1>14. CASE EditFile
    <2>1. job = NoJob /\ job.phase # "stat" /\ file \in Sessions
      BY <1>1, <1>14, ReadFirst DEF EditFile, SignInTypeOK
    <2>2. \A t \in Token : byHash[t] # None => loadedMod' = "stale"
      BY <1>1, <1>14, <2>1 DEF EditFile, StoreState, NoSessions, SignInTypeOK
    <2>3. \A t \in removed' : /\ started[t] # None
                              /\ file' # None => file'[t] = None
                              /\ t \in Token
      BY <1>1, <1>2, <1>14, <2>1 DEF EditFile, Promises, WithinPromise, Sessions
    <2>4. QED
      BY <1>14, <2>1, <2>2, <2>3 DEF EditFile
  <1>15. CASE Tick
    BY <1>1, <1>15 DEF Tick
  <1>16. CASE UNCHANGED vars
    BY <1>1, <1>16 DEF vars
  <1>17. QED
    BY <1>3, <1>4, <1>5, <1>6, <1>7, <1>8, <1>9, <1>10, <1>11, <1>12,
       <1>13, <1>14, <1>15, <1>16 DEF Next

-----------------------------------------------------------------------------
(* Sessions that were signed out *)

LEMMA SignedOutStep ==
  ASSUME SignInInv, [Next]_vars, "remove" \notin Fails
  PROVE  OutOfMemoryAndFile'
  <1>1. SignInTypeOK /\ StoreState /\ OutOfMemoryAndFile /\ Promises
    BY DEF SignInInv
  <1>2. /\ now \in Nat
        /\ byHash \in Sessions
        /\ \A t \in Token : byHash[t] # None => byHash[t].expiresAt \in Nat
        /\ file # None =>
              \A t \in Token : file[t] # None => file[t].expiresAt \in Nat
        /\ signedOut \subseteq Token
    BY <1>1 DEF SignInTypeOK, Sessions, Session
  <1>3. /\ Reloaded.byHash \in Sessions
        /\ \A t \in Token : Reloaded.byHash[t] # None => Reloaded.byHash[t].expiresAt \in Nat
    BY ReloadedTypes DEF Sessions, Session
  <1> USE DEF OutOfMemoryAndFile, storeVars, historyVars
  <1>4. CASE \E b \in Browser : Login(b)
    BY <1>1, <1>4 DEF Login, Covers, Live, Removing
  <1>5. CASE \E b \in Browser : Create(b)
    <2>1. PICK b \in Browser : Create(b)
      BY <1>5
    <2>2. PICK t \in Token :
            /\ started[t] = None /\ started'[t] # None
            /\ \A u \in Token \ {t} : byHash'[u] = Reloaded.byHash[u]
            /\ byHash'[t] # None
            /\ byHash'[t].expiresAt \in Nat
            /\ job' = [kind |-> "create", phase |-> "write", browser |-> b, token |-> t]
      <3>1. PICK t \in Token, sliding \in BOOLEAN :
              /\ started[t] = None
              /\ byHash' = [Reloaded.byHash EXCEPT ![t] =
                              [expiresAt |-> now + (IF sliding THEN SessionTTL ELSE FallbackTTL),
                               sliding |-> sliding]]
              /\ started' = [started EXCEPT ![t] =
                               [code |-> entering[b], sliding |-> sliding, at |-> now, used |-> now]]
              /\ job' = [kind |-> "create", phase |-> "write", browser |-> b, token |-> t]
        BY <2>1 DEF Create, Reloads, Writes
      <3>2. SignInTypeOK'
        BY TypeStep
      <3>3. byHash'[t] \in Session /\ started'[t] \in Start
        BY <1>1, <1>2, <1>3, <2>1, <3>1 DEF Create, Session, Start, Sessions, SignInTypeOK
      <3>4. QED
        BY <1>3, <3>1, <3>3 DEF Sessions, Session
    <2>3. t \notin signedOut /\ (file # None => file[t] = None)
      BY <1>1, <2>2 DEF Promises, WithinPromise
    <2>4. QED
      BY <1>1, <1>2, <1>3, <2>1, <2>2, <2>3, ReloadedCovers
      DEF Create, Covers, Live, Removing
  <1>6. CASE \E b \in Browser : Touch(b)
    <2>1. PICK b \in Browser : Touch(b)
      BY <1>6
    <2>2. running /\ job = NoJob
      BY <2>1 DEF Touch, Free
    <2>3. job'.kind # "remove" /\ \A t \in Token : ~Removing(t)'
      BY <2>2, TouchKeeps, <2>1, ReadFirst DEF Removing
    <2>4. QED
      BY <1>1, <1>2, <1>3, <2>1, <2>2, <2>3, TouchKeeps, ReloadedCovers DEF Touch, Covers, Live, Free
  <1>7. CASE \E b \in Browser : Logout(b)
    <2>1. PICK b \in Browser : Logout(b)
      BY <1>7
    <2>2. cookie[b] \in Token /\ Free /\ job = NoJob
      BY <1>1, <2>1 DEF Logout, SignInTypeOK, Free
    <2>3. byHash' = [Reloaded.byHash EXCEPT ![cookie[b]] = None]
      BY <2>1 DEF Logout, Reloads
    <2>4. CASE Reloaded.byHash[cookie[b]] = None
      BY <1>1, <1>2, <1>3, <2>1, <2>2, <2>3, <2>4, ReloadedCovers, ReadFirst
      DEF Logout, SignedOut, Covers, Live, Removing, Sessions, StoreState
    <2>5. CASE Reloaded.byHash[cookie[b]] # None
      BY <1>1, <1>2, <1>3, <2>1, <2>2, <2>3, <2>5, ReloadedCovers
      DEF Logout, Writes, Covers, Live, Removing, Sessions
    <2>6. QED
      BY <2>4, <2>5
  <1>8. CASE WriteFile
    <2>1. job \in Job
      BY <1>1, <1>8 DEF WriteFile, SignInTypeOK, NoJob
    <2>2. job'.kind = job.kind /\ job'.phase = "stat" /\ job'.token = job.token
      BY <1>8, <2>1 DEF WriteFile, Job
    <2>3. \A t \in Token : /\ Live(Current, t) <=> Live(byHash, t)
                           /\ Live(Current, t) => Current[t] = byHash[t]
                           /\ byHash[t] = None => Current[t] = None
      BY DEF Current, Live
    <2>4. byHash' = Current /\ file' = Current /\ now' = now /\ signedOut' = signedOut
      BY <1>8 DEF WriteFile
    <2>5. \A t \in signedOut : ~Live(Current, t)
      BY <1>1, <1>2, <2>3
    <2>6. \A t \in Token : Current[t] # None => Current[t] = byHash[t]
      BY CurrentDrops
    <2>7. \A t \in Token : Covers(byHash, t)'
      BY <1>2, <2>3, <2>4 DEF Covers, Live
    <2>8. job.kind = "remove" => job.token \in Token /\ Current[job.token] = None
      BY <1>1, <2>3 DEF StoreState
    <2>9. \A t \in signedOut' :
            started'[t] # None /\ ~Live(byHash, t)' /\ ~Live(file, t)'
      BY <1>1, <1>8, <2>4, <2>5 DEF WriteFile, Live
    <2>10. QED
      BY <2>2, <2>4, <2>7, <2>8, <2>9
  <1>9. CASE WriteFails
    <2>1. job.kind # "remove" /\ file' = file /\ now' = now /\ signedOut' = signedOut
          /\ started' = started
      BY <1>9 DEF WriteFails
    <2>2. CASE job.kind = "flush"
      BY <1>1, <1>2, <1>9, <2>1, <2>2 DEF WriteFails, Gone, NoSessions, NoJob, Live
    <2>3. CASE job.kind # "flush"
      <3>1. \A t \in Token : /\ Live(Current, t) <=> Live(byHash, t)
                             /\ Live(Current, t) => Current[t] = byHash[t]
        BY DEF Current, Live
      <3>2. byHash' = Current /\ job' = NoJob /\ loadedMod' = loadedMod
        BY <1>9, <2>3 DEF WriteFails
      <3>3. \A t \in signedOut : ~Live(Current, t)
        BY <1>1, <1>2, <3>1
      <3>4. loadedMod = "current" => \A t \in Token : Covers(Current, t)
        BY <1>1, <1>2, <2>1, <3>1 DEF Covers, Removing, Live
      <3>5. QED
        BY <1>1, <1>2, <2>1, <3>2, <3>3, <3>4 DEF Covers, Live, NoJob
    <2>4. QED
      BY <2>2, <2>3
  <1>10. CASE StatFile
    <2>1. job \in Job /\ job # NoJob
      BY <1>1, <1>10 DEF StatFile, SignInTypeOK, NoJob
    <2>2. file' = file /\ now' = now /\ started' = started /\ job' = NoJob
      BY <1>10 DEF StatFile, Gone
    <2>3. \A t \in signedOut' : started[t] # None /\ ~Live(byHash, t) /\ (file # None => ~Live(file, t))
      BY <1>1, <1>10 DEF StatFile, SignedOut, StoreState, Live
    <2>4. \A t \in signedOut' : t \in Token
      BY TypeStep DEF SignInTypeOK
    <2>5. CASE job.kind = "flush"
      BY <1>10, <2>2, <2>3, <2>4, <2>5 DEF StatFile, Gone, NoSessions, NoJob, Live
    <2>6. CASE job.kind # "flush"
      <3>1. byHash' = byHash
        BY <1>10, <2>6 DEF StatFile
      <3>2. \A t \in Token : Covers(byHash, t)
        BY <1>1, <1>10 DEF StatFile
      <3>3. QED
        BY <2>2, <2>3, <3>1, <3>2 DEF Covers, Live, NoJob
    <2>7. QED
      BY <2>5, <2>6
  <1>11. CASE LoginLink
    BY <1>1, <1>11 DEF LoginLink, Covers, Live, Removing
  <1>12. CASE Stop
    <2>1. Free /\ job = NoJob
      BY <1>12 DEF Stop, Free
    <2>2. file' = file /\ now' = now /\ started' = started /\ signedOut' = signedOut
      BY <1>12 DEF Stop
    <2>3. CASE Reloaded.dirty
      <3>1. byHash' = Reloaded.byHash /\ job'.kind = "flush"
        BY <1>12, <2>3 DEF Stop, Reloads, Writes
      <3>2. QED
        BY <1>1, <2>1, <2>2, <3>1, ReloadedCovers DEF Covers, Live
    <2>4. CASE ~Reloaded.dirty
      BY <1>1, <1>2, <1>12, <2>2, <2>4 DEF Stop, Gone, NoSessions, NoJob, Live
    <2>5. QED
      BY <2>3, <2>4
  <1>13. CASE Crash
    BY <1>1, <1>2, <1>13 DEF Crash, Gone, NoSessions, NoJob, Live
  <1>14. CASE StartServer
    BY <1>1, <1>14 DEF StartServer, Covers, Live, Removing
  <1>15. CASE EditFile
    <2>1. file \in Sessions
      BY <1>1, <1>15 DEF EditFile, SignInTypeOK
    <2>2. file' # None =>
            \A t \in Token : file'[t] = None \/ file'[t] = file[t]
      BY <1>15, <2>1 DEF EditFile, Sessions
    <2>3. /\ now' = now /\ byHash' = byHash /\ signedOut' = signedOut
          /\ started' = started /\ job' = job
          /\ loadedMod' # "current"
      BY <1>15 DEF EditFile
    <2>4. \A t \in signedOut : file' # None => ~Live(file', t)
      BY <1>1, <1>2, <1>15, <2>1, <2>2, <2>3 DEF EditFile, Live
    <2>5. job.phase = "stat" =>
            \A t \in Token : Covers(byHash, t)'
      BY <1>1, <1>15, <2>1, <2>2, <2>3 DEF EditFile, Covers, Live
    <2>6. job.kind = "remove" => job.token \in Token
      BY <1>1 DEF StoreState
    <2>7. QED
      BY <1>1, <1>2, <1>15, <2>2, <2>3, <2>4, <2>5, <2>6 DEF EditFile, Live
  <1>16. CASE Tick
    BY <1>1, <1>2, <1>16 DEF Tick, Covers, Live, Removing
  <1>17. CASE UNCHANGED vars
    BY <1>1, <1>17 DEF vars, Covers, Live, Removing
  <1>18. QED
    BY <1>4, <1>5, <1>6, <1>7, <1>8, <1>9, <1>10, <1>11, <1>12,
       <1>13, <1>14, <1>15, <1>16, <1>17 DEF Next

-----------------------------------------------------------------------------
(* Sessions that last *)

\* A step that changes no session, and neither ends nor begins a write, keeps
\* what was promised.
LEMMA KeptUnchanged ==
  ASSUME SignInInv, clean, now <= now', now' \in Nat,
         UNCHANGED <<byHash, loadedMod, dirty, file, job, started, signedOut>>
  PROVE  Kept'
  <1>1. Kept /\ SignInTypeOK
    BY DEF SignInInv
  <1>2. \A t \in Token : started[t] # None => Promised(t) \in Nat
    BY <1>1 DEF SignInTypeOK, Start, Promised
  <1>3. \A t \in Token : Promised(t)' = Promised(t)
    BY DEF Promised
  <1>4. now \in Nat
    BY <1>1 DEF SignInTypeOK
  <1>5. \A t \in Token : Lasts(t)' => Lasts(t)
    BY <1>2, <1>3, <1>4 DEF Lasts, Removing
  <1>6. QED
    BY <1>1, <1>3, <1>5 DEF Kept, Exact

\* When the memory of a server is lost, the file has what lasts.
LEMMA KeptGone ==
  ASSUME SignInInv, clean, Gone, ~Reloaded.dirty, Free,
         UNCHANGED <<now, file, started, signedOut>>
  PROVE  Kept'
  <1>1. \A t \in Token : Promised(t)' = Promised(t)
    BY DEF Promised
  <1>2. \A t \in Token : Lasts(t)' => Lasts(t)
    BY <1>1 DEF Lasts, Removing, Free, NoJob
  <1>3. \A t \in Token : Lasts(t) => file # None /\ Exact(file, t)
    BY ReloadedKeeps
  <1>4. \A t \in Token : Lasts(t)' => (file # None /\ Exact(file, t))'
    BY <1>1, <1>2, <1>3 DEF Exact
  <1>5. loadedMod' = "never" /\ job'.phase = "none"
    BY DEF Gone, NoJob
  <1>6. QED
    BY <1>4, <1>5 DEF Kept

LEMMA KeptStep ==
  ASSUME SignInInv, [Next]_vars, clean'
  PROVE  Kept'
  <1>1. SignInTypeOK /\ StoreState /\ Promises
    BY DEF SignInInv
  <1> USE DEF storeVars, historyVars
  <1>2. clean
    BY <1>1 DEF Next, Login, Create, Touch, Logout, WriteFile, WriteFails, StatFile,
                LoginLink, Stop, Crash, StartServer, EditFile, Tick, vars, SignInTypeOK
  <1>3. Kept
    BY <1>2 DEF SignInInv
  <1>4. now \in Nat
    BY <1>1 DEF SignInTypeOK
  <1>5. CASE \E b \in Browser : Login(b)
    BY <1>2, <1>4, <1>5, KeptUnchanged DEF Login
  <1>6. CASE \E b \in Browser : Create(b)
    <2>1. PICK b \in Browser : Create(b)
      BY <1>6
    <2>2. PICK t \in Token, sliding \in BOOLEAN :
            /\ byHash' = [Reloaded.byHash EXCEPT ![t] =
                            [expiresAt |-> now + (IF sliding THEN SessionTTL ELSE FallbackTTL),
                             sliding |-> sliding]]
            /\ started' = [started EXCEPT ![t] =
                             [code |-> entering[b], sliding |-> sliding, at |-> now, used |-> now]]
            /\ job' = [kind |-> "create", phase |-> "write", browser |-> b, token |-> t]
            /\ loadedMod' = IF file = None THEN "missing" ELSE "current"
      BY <2>1, ReloadedTypes DEF Create, Reloads, Writes
    <2>3. /\ started'[t] = [code |-> entering[b], sliding |-> sliding, at |-> now, used |-> now]
          /\ \A u \in Token \ {t} : started'[u] = started[u]
      BY <1>1, <2>2 DEF SignInTypeOK
    <2>4. Reloaded.byHash \in Sessions
      BY ReloadedTypes
    <2>5. /\ byHash'[t].expiresAt = Promised(t)'
          /\ byHash'[t] \in Session
          /\ \A u \in Token \ {t} : byHash'[u] = Reloaded.byHash[u]
      BY <1>1, <2>2, <2>3, <2>4 DEF Promised, Sessions, Session, SignInTypeOK
    <2>6. \A u \in Token \ {t} : Promised(u)' = Promised(u)
      BY <2>3 DEF Promised
    <2>7. ASSUME NEW u \in Token \ {t}, Lasts(u)'
          PROVE  Exact(byHash, u)'
      <3>1. Lasts(u)
        BY <2>1, <2>2, <2>3, <2>6, <2>7 DEF Lasts, Removing, Create, Free, NoJob
      <3>2. Exact(Reloaded.byHash, u)
        BY <1>2, <2>1, <3>1, ReloadedKeeps DEF Create
      <3>3. QED
        BY <2>5, <2>6, <3>2 DEF Exact
    <2>8. Exact(byHash, t)'
      BY <2>5 DEF Exact
    <2>9. job'.phase = "write" /\ job' # NoJob /\ loadedMod' # "stale"
      BY <2>2 DEF NoJob
    <2>10. QED
      BY <2>7, <2>8, <2>9 DEF Kept
  <1>7. CASE \E b \in Browser : Touch(b)
    <2>1. PICK b \in Browser : Touch(b)
      BY <1>7
    <2>2. Free /\ job = NoJob /\ file' = file /\ now' = now /\ signedOut' = signedOut
      BY <2>1 DEF Touch, Free
    <2>3. \A t \in Token : Lasts(t) => /\ Exact(Reloaded.byHash, t)
                                       /\ ~Reloaded.dirty => file # None /\ Exact(file, t)
      BY <1>2, <2>2, ReloadedKeeps
    <2>4. CASE Unrenewed
      <3>1. /\ byHash' = Reloaded.byHash /\ dirty' = Reloaded.dirty /\ started' = started
            /\ job' = NoJob
            /\ loadedMod' = IF file = None THEN "missing" ELSE "current"
        BY <2>2, <2>4, ReloadedTypes DEF Unrenewed, Reloads
      <3>2. \A t \in Token : Promised(t)' = Promised(t) /\ (Lasts(t)' => Lasts(t))
        BY <2>2, <3>1 DEF Promised, Lasts, Removing
      <3>3. QED
        BY <2>2, <2>3, <3>1, <3>2 DEF Kept, Exact, NoJob
    <2>5. CASE ~Unrenewed
      <3>1. PICK t \in Token :
              /\ started[t].sliding = TRUE
              /\ started'[t] # None /\ started'[t].used = now
              /\ started'[t].sliding = started[t].sliding
              /\ \A u \in Token \ {t} : started'[u] = started[u]
              /\ byHash'[t] # None /\ byHash'[t].expiresAt = now + SessionTTL
              /\ \A u \in Token \ {t} : byHash'[u] = Reloaded.byHash[u]
              /\ Renews(b, t, now + SessionTTL)
        BY <2>1, <2>5, TouchRenews
      <3>2. /\ dirty' = TRUE
            /\ loadedMod' = IF file = None THEN "missing" ELSE "current"
        BY <3>1, ReloadedTypes DEF Renews, Reloads
      <3>3. job' = NoJob \/ job' = [kind |-> "touch", phase |-> "write", browser |-> b, token |-> t]
        BY <2>2, <3>1 DEF Renews, Writes
      <3>4. job'.kind # "remove" /\ job'.phase # "stat"
        BY <3>3 DEF NoJob
      <3>5. \A u \in Token :
              Promised(u)' = IF u = t THEN now + SessionTTL ELSE Promised(u)
        BY <3>1 DEF Promised
      <3>6. ASSUME NEW u \in Token \ {t}, Lasts(u)'
            PROVE  Exact(byHash, u)'
        <4>1. Lasts(u)
          BY <2>2, <3>1, <3>5, <3>6 DEF Lasts, Removing, NoJob
        <4>2. QED
          BY <2>3, <3>1, <3>5, <4>1 DEF Exact
      <3>7. Exact(byHash, t)'
        BY <3>1, <3>5 DEF Exact
      <3>8. QED
        BY <3>2, <3>4, <3>6, <3>7 DEF Kept
    <2>6. QED
      BY <2>4, <2>5
  <1>8. CASE \E b \in Browser : Logout(b)
    <2>1. PICK b \in Browser : Logout(b)
      BY <1>8
    <2>2. Free /\ job = NoJob /\ file' = file /\ now' = now /\ started' = started
      BY <2>1 DEF Logout, Free
    <2>3. cookie[b] \in Token
      BY <1>1, <2>1 DEF Logout, SignInTypeOK
    <2>4. /\ \A u \in Token \ {cookie[b]} : byHash'[u] = Reloaded.byHash[u]
          /\ dirty' = Reloaded.dirty
          /\ loadedMod' = IF file = None THEN "missing" ELSE "current"
      BY <2>1, <2>3, ReloadedTypes DEF Logout, Reloads, Sessions
    <2>5. \A t \in Token : Lasts(t) => /\ Exact(Reloaded.byHash, t)
                                       /\ ~Reloaded.dirty => file # None /\ Exact(file, t)
      BY <1>2, <2>2, ReloadedKeeps
    <2>6. \A t \in Token : Promised(t)' = Promised(t)
      BY <2>2 DEF Promised
    <2>7. \A u \in Token : u = cookie[b] => ~Lasts(u)'
      <3>1. CASE cookie[b] \in signedOut'
        BY <3>1 DEF Lasts
      <3>2. CASE Writes("remove", b, cookie[b])
        BY <3>2 DEF Writes, Lasts, Removing
      <3>3. QED
        BY <2>1, <3>1, <3>2 DEF Logout, SignedOut
    <2>8. signedOut \subseteq signedOut'
      BY <2>1 DEF Logout, SignedOut
    <2>9. \A t \in Token : Lasts(t)' => Lasts(t)
      BY <2>2, <2>6, <2>8 DEF Lasts, Removing, NoJob
    <2>10. job'.phase # "stat"
      BY <2>1, <2>2 DEF Logout, Writes, NoJob
    <2>11. ASSUME NEW u \in Token, Lasts(u)'
           PROVE  /\ Exact(byHash, u)'
                  /\ ~dirty' => file' # None /\ Exact(file, u)'
      <3>1. u # cookie[b] /\ Lasts(u)
        BY <2>7, <2>9, <2>11
      <3>2. QED
        BY <2>2, <2>4, <2>5, <2>6, <3>1 DEF Exact
    <2>12. QED
      BY <2>4, <2>10, <2>11 DEF Kept
  <1>9. CASE WriteFile
    <2>1. job \in Job
      BY <1>1, <1>9 DEF WriteFile, SignInTypeOK, NoJob
    <2>2. /\ job'.kind = job.kind /\ job'.phase = "stat" /\ job'.token = job.token
          /\ job' # NoJob
      BY <1>9, <2>1 DEF WriteFile, Job, NoJob
    <2>3. /\ byHash' = Current /\ file' = Current /\ now' = now
          /\ started' = started /\ signedOut' = signedOut
      BY <1>9 DEF WriteFile
    <2>4. loadedMod # "never"
      BY <1>1, <1>9 DEF WriteFile, StoreState, NoJob
    <2>5. \A t \in Token : Promised(t)' = Promised(t) /\ (Lasts(t)' => Lasts(t))
      BY <2>2, <2>3 DEF Promised, Lasts, Removing
    <2>6. \A t \in Token : Lasts(t) => Exact(byHash, t) /\ Live(byHash, t)
      BY <1>3, <2>4 DEF Kept, Exact, Lasts, Live
    <2>7. \A t \in Token : Live(byHash, t) => Current[t] = byHash[t]
      BY DEF Current
    <2>8. \A t \in Token : Lasts(t)' => Exact(byHash, t)'
      BY <2>3, <2>5, <2>6, <2>7 DEF Exact
    <2>9. QED
      BY <2>2, <2>3, <2>8 DEF Kept
  <1>10. CASE WriteFails
    BY <1>10 DEF WriteFails
  <1>11. CASE StatFile
    <2>1. job \in Job /\ job # NoJob
      BY <1>1, <1>11 DEF StatFile, SignInTypeOK, NoJob
    <2>2. file' = file /\ now' = now /\ started' = started /\ job' = NoJob
      BY <1>11 DEF StatFile, Gone
    <2>3. file = byHash /\ file # None /\ loadedMod # "never"
      BY <1>1, <1>3, <1>11, <2>1 DEF StatFile, Kept, StoreState, SignInTypeOK
    <2>4. \A t \in Token : Promised(t)' = Promised(t)
      BY <2>2 DEF Promised
    <2>5. signedOut \subseteq signedOut' /\ (job.kind = "remove" => job.token \in signedOut')
      BY <1>1, <1>11 DEF StatFile, SignedOut, StoreState
    <2>6. \A t \in Token : Lasts(t)' => Lasts(t)
      BY <2>2, <2>4, <2>5 DEF Lasts, Removing
    <2>7. \A t \in Token : Lasts(t)' => Exact(file, t)'
      BY <1>3, <2>2, <2>3, <2>4, <2>6 DEF Kept, Exact
    <2>8. CASE job.kind = "flush"
      <3>1. loadedMod' = "never"
        BY <1>11, <2>8 DEF StatFile, Gone
      <3>2. QED
        BY <2>2, <2>3, <2>7, <3>1 DEF Kept, NoJob
    <2>9. CASE job.kind # "flush"
      <3>1. byHash' = file' /\ loadedMod' = "current"
        BY <1>11, <2>2, <2>3, <2>9 DEF StatFile
      <3>2. QED
        BY <2>2, <2>3, <2>7, <3>1 DEF Kept, NoJob, Exact
    <2>10. QED
      BY <2>8, <2>9
  <1>12. CASE LoginLink
    BY <1>2, <1>4, <1>12, KeptUnchanged DEF LoginLink
  <1>13. CASE Stop
    <2>1. Free /\ job = NoJob
      BY <1>13 DEF Stop, Free
    <2>2. file' = file /\ now' = now /\ started' = started /\ signedOut' = signedOut
      BY <1>13 DEF Stop
    <2>3. CASE ~Reloaded.dirty
      BY <1>2, <1>13, <2>1, <2>2, <2>3, KeptGone DEF Stop
    <2>4. CASE Reloaded.dirty
      <3>1. /\ byHash' = Reloaded.byHash
            /\ job' = [kind |-> "flush", phase |-> "write", browser |-> None, token |-> None]
            /\ loadedMod' = IF file = None THEN "missing" ELSE "current"
        BY <1>13, <2>4, ReloadedTypes DEF Stop, Reloads, Writes
      <3>2. \A t \in Token : Promised(t)' = Promised(t) /\ (Lasts(t)' => Lasts(t))
        BY <2>1, <2>2, <3>1 DEF Promised, Lasts, Removing, NoJob
      <3>3. \A t \in Token : Lasts(t) => Exact(Reloaded.byHash, t)
        BY <1>2, <2>1, ReloadedKeeps
      <3>4. job'.phase # "stat" /\ job' # NoJob
        BY <3>1 DEF NoJob
      <3>5. QED
        BY <3>1, <3>2, <3>3, <3>4 DEF Kept, Exact
    <2>5. QED
      BY <2>3, <2>4
  <1>14. CASE Crash
    BY <1>14 DEF Crash
  <1>15. CASE StartServer
    BY <1>2, <1>4, <1>15, KeptUnchanged DEF StartServer
  <1>16. CASE EditFile
    BY <1>16 DEF EditFile
  <1>17. CASE Tick
    BY <1>2, <1>4, <1>17, KeptUnchanged DEF Tick
  <1>18. CASE UNCHANGED vars
    BY <1>2, <1>4, <1>18, KeptUnchanged DEF vars
  <1>19. QED
    BY <1>5, <1>6, <1>7, <1>8, <1>9, <1>10, <1>11, <1>12,
       <1>13, <1>14, <1>15, <1>16, <1>17, <1>18 DEF Next

-----------------------------------------------------------------------------
(* SignIn: the theorems *)

LEMMA SignInInit == Init => SignInInv
  <1> SUFFICES ASSUME Init PROVE SignInInv
    OBVIOUS
  <1>1. job.kind = "none" /\ job.phase = "none"
    BY DEF Init, NoJob
  <1>2. \A t \in Token : started[t] = None /\ byHash[t] = None
    BY DEF Init, NoSessions
  <1>3. CodesSpent
    BY <1>2 DEF Init, CodesSpent, LinkSignsInOnce
  <1>4. Promises /\ StoreState
    BY <1>1, <1>2 DEF Init, Promises, WithinPromise, StoreState
  <1>5. OutOfMemoryAndFile /\ RemovedFromFile
    BY <1>1, <1>2 DEF Init, OutOfMemoryAndFile, RemovedFromFile
  <1>6. Kept
    BY <1>1, <1>2 DEF Init, Kept, Lasts
  <1>7. QED
    BY <1>3, <1>4, <1>5, <1>6, TypeInit DEF SignInInv

\* Codes, memory, file and what was promised agree in every reachable state.
THEOREM SignInInductive == Spec => []SignInInv
  <1>1. SignInInv /\ [Next]_vars => SignInInv'
    BY TypeStep, CodesStep, PromisesStep, StoreStep, SignedOutStep, RemovedStep, KeptStep
    DEF SignInInv
  <1>2. QED
    BY <1>1, SignInInit, PTL DEF Spec

\* Every variable of the sign-in keeps its type.
THEOREM SignInTypes == Spec => []SignInTypeOK
  <1>1. SignInInv => SignInTypeOK
    BY DEF SignInInv
  <1>2. QED
    BY <1>1, SignInInductive, PTL

\* A login link signs in one browser, however many post it.
THEOREM OneSignInPerLink == Spec => []LinkSignsInOnce
  <1>1. SignInInv => LinkSignsInOnce
    BY DEF SignInInv, CodesSpent
  <1>2. QED
    BY <1>1, SignInInductive, PTL

\* When no write of a sign-out fails, a session that was signed out is never
\* accepted again.
THEOREM SignOutLasts ==
  ASSUME "remove" \notin Fails
  PROVE  Spec => []SignedOutStaysOut
  <1>1. SignInInv => SignedOutStaysOut
    BY ReloadedCovers DEF SignedOutStaysOut, Accepted
  <1>2. QED
    BY <1>1, SignInInductive, PTL

\* When people edit the file between requests, a session taken out of it is
\* not accepted any more.
THEOREM RemovalLasts ==
  ASSUME ~EditsDuringWrites
  PROVE  Spec => []RemovedByHandStaysOut
  <1>1. SignInInv => RemovedByHandStaysOut
    BY ReloadedForgets DEF RemovedByHandStaysOut, Accepted, Live
  <1>2. QED
    BY <1>1, SignInInductive, PTL

\* No session is accepted beyond its lifetime.
THEOREM LifetimesEnd == Spec => []NoSessionOutlivesItsTime
  <1>1. ASSUME SignInInv, NEW t \in Token, Accepted(t)
        PROVE  started[t] # None /\ now < Promised(t)
    <2>1. Reloaded.byHash[t] # None /\ now < Reloaded.byHash[t].expiresAt
      BY <1>1 DEF Accepted, Live
    <2>2. started[t] # None /\ Reloaded.byHash[t].expiresAt <= Promised(t)
      BY <1>1, <2>1, ReloadedPromises DEF WithinPromise
    <2>3. Reloaded.byHash[t].expiresAt \in Nat
      BY <1>1, <2>1, ReloadedTypes DEF Sessions, Session
    <2>4. now \in Nat /\ Promised(t) \in Nat
      BY <1>1, <2>2 DEF SignInInv, SignInTypeOK, Start, Promised
    <2>5. QED
      BY <2>1, <2>2, <2>3, <2>4
  <1>2. SignInInv => NoSessionOutlivesItsTime
    BY <1>1 DEF NoSessionOutlivesItsTime
  <1>3. QED
    BY <1>2, SignInInductive, PTL

\* Until a crash, a failed write or an edit, a session that is used within its
\* lifetime is accepted, after any number of restarts.
THEOREM SessionsLast == Spec => []UsedSessionsLast
  <1>1. ASSUME SignInInv, NEW t \in Token, Free, clean, started[t] # None,
               t \notin signedOut, now < Promised(t)
        PROVE  Accepted(t)
    <2>1. Lasts(t)
      BY <1>1 DEF Lasts, Removing, Free, NoJob
    <2>2. QED
      BY <1>1, <2>1, ReloadedKeeps DEF Exact, Accepted, Live
  <1>2. SignInInv => UsedSessionsLast
    BY <1>1 DEF UsedSessionsLast
  <1>3. QED
    BY <1>2, SignInInductive, PTL

-----------------------------------------------------------------------------
(* Access: the invariant *)

\* What authenticate makes of a request: a cookie comes from a page, whose
\* site the browser names, and only the owner's processes know the secret.
Authenticated(q) ==
    /\ q.asked \in A!Request /\ q.credential \in A!Credential
    /\ q.credential = "session" => q.asked.site # "tool"
    /\ q.credential = "secret" => q.asked.site = "tool"

\* A code or a token of a connect flow, or a token the owner minted.
Agreed(t) ==
    /\ t \in A!AppToken /\ t.from \in {"owner", "consent"}
    /\ t.from = "consent" => ~t.server

AccessInv ==
    /\ config \in A!Settings /\ serving \in A!Settings /\ session \in BOOLEAN
    /\ \A t \in tokens \cup approvals : Agreed(t)
    /\ request # None => Authenticated(request)
    /\ did.what \in {"nothing", "local", "read", "write", "mint", "approve", "exchange", "cors"}
    /\ minted \in 0 .. MaxTokens
    /\ A!CallersKeepToTheTable

-----------------------------------------------------------------------------
(* Access: what an answer does *)

\* Endpoints of the local API are reached by the owner's processes, and by
\* the console's session from its own pages.
LEMMA LocalAPIKeeps ==
  ASSUME A!AccessAssumption, Authenticated(request),
         ~A!CrossOrigin(request.asked, request.credential),
         A!LocalAPI(request.asked, request.credential), serving' = serving
  PROVE  A!CallersKeepToTheTable' /\ did'.what = "local"
  <1> DEFINE r == request.asked
             c == request.credential
  <1>1. PICK e \in A!Endpoints : /\ e.path = r.path /\ e.method = r.method
                                 /\ A!Allow(c, e.access)
                                 /\ ~(serving.readOnly /\ e.data)
                                 /\ A!Does("local", e)
    BY DEF A!LocalAPI
  <1>2. did' = [what |-> "local", endpoint |-> e, credential |-> c, site |-> r.site]
    BY <1>1 DEF A!Does
  <1>3. c = "secret" \/ (c = "session" /\ e.access = "owner")
    BY <1>1 DEF A!Allow
  <1>4. c = "session" => r.site \in {"tool", "same"} \/ (e # None /\ e.method \in A!Safe)
    BY <1>1 DEF A!CrossOrigin, Authenticated, A!Request, A!AccessAssumption
  <1>5. QED
    BY <1>1, <1>2, <1>3, <1>4 DEF A!CallersKeepToTheTable

\* The routes that answer without an endpoint.
LEMMA OthersKeep ==
  ASSUME Authenticated(request),
         ~A!CrossOrigin(request.asked, request.credential),
         \/ A!Tokens(request.asked, request.credential)
         \/ A!Data(request.asked, request.credential)
         \/ A!Authorize(request.asked, request.credential)
         \/ A!Exchange(request.asked, request.credential),
         serving' = serving
  PROVE  A!CallersKeepToTheTable' /\ did'.what \in {"read", "write", "mint", "approve", "exchange"}
  <1> DEFINE r == request.asked
             c == request.credential
             Did(what) == did' = [what |-> what, endpoint |-> None, credential |-> c, site |-> r.site]
  <1>1. c = "session" => r.site \in {"tool", "same"} \/ r.method \in A!Safe
    BY DEF A!CrossOrigin, Authenticated, A!Request
  <1>2. CASE A!Tokens(r, c)
    <2>1. Did("mint") /\ c = "secret"
      BY <1>2 DEF A!Tokens, A!Does
    <2>2. QED
      BY <2>1 DEF A!CallersKeepToTheTable
  <1>3. CASE A!Data(r, c)
    <2>1. CASE A!IsWrite(r)
      <3>1. Did("write")
        BY <1>3, <2>1 DEF A!Data, A!Does
      <3>2. ~serving.readOnly /\ r.method \notin A!Safe
        BY <1>3, <2>1 DEF A!Data, A!IsWrite, A!Safe
      <3>3. QED
        BY <1>1, <3>1, <3>2 DEF A!CallersKeepToTheTable
    <2>2. CASE ~A!IsWrite(r)
      <3>1. Did("read")
        BY <1>3, <2>2 DEF A!Data, A!Does
      <3>2. QED
        BY <3>1 DEF A!CallersKeepToTheTable
    <2>3. QED
      BY <2>1, <2>2
  <1>4. CASE A!Authorize(r, c)
    <2>1. Did("approve") /\ c = "session" /\ r.method \notin A!Safe
      BY <1>4 DEF A!Authorize, A!Does, A!Safe
    <2>2. QED
      BY <1>1, <2>1 DEF A!CallersKeepToTheTable
  <1>5. CASE A!Exchange(r, c)
    <2>1. Did("exchange")
      BY <1>5 DEF A!Exchange, A!Does
    <2>2. QED
      BY <2>1 DEF A!CallersKeepToTheTable
  <1>6. QED
    BY <1>2, <1>3, <1>4, <1>5

\* Nothing keeps to the table.
LEMMA NothingKeeps ==
  ASSUME did' = A!Nothing
  PROVE  A!CallersKeepToTheTable' /\ did'.what = "nothing"
  BY DEF A!Nothing, A!CallersKeepToTheTable

\* Codes come from an approval, tokens from a code or from the owner.
LEMMA RoutedAgrees ==
  ASSUME NEW r, NEW c, A!AccessAssumption, AccessInv, A!Routed(r, c)
  PROVE  /\ \A t \in tokens' \cup approvals' : Agreed(t)
         /\ minted' \in 0 .. MaxTokens
  <1>1. CASE A!LocalAPI(r, c) \/ A!Data(r, c)
    BY <1>1 DEF A!LocalAPI, A!Data, AccessInv
  <1>2. CASE A!Tokens(r, c)
    <2>1. PICK app \in App, server \in BOOLEAN :
            tokens' = tokens \cup {[app |-> app, from |-> "owner", server |-> server]}
      BY <1>2 DEF A!Tokens
    <2>2. Agreed([app |-> app, from |-> "owner", server |-> server])
      BY DEF Agreed, A!AppToken
    <2>3. approvals' = approvals /\ minted < MaxTokens /\ minted' = minted + 1
      BY <1>2 DEF A!Tokens
    <2>4. QED
      BY <2>1, <2>2, <2>3 DEF AccessInv, A!AccessAssumption
  <1>3. CASE A!Authorize(r, c)
    <2>1. PICK ask \in A!Ask, approve \in BOOLEAN :
            /\ A!Connectable(ask)
            /\ IF approve
               THEN /\ minted < MaxTokens /\ minted' = minted + 1
                    /\ approvals' = approvals \cup {[app |-> ask.app, from |-> "consent", server |-> ask.server]}
               ELSE UNCHANGED <<approvals, minted>>
      BY <1>3 DEF A!Authorize
    <2>2. Agreed([app |-> ask.app, from |-> "consent", server |-> ask.server])
      BY <2>1 DEF Agreed, A!AppToken, A!Ask, A!Connectable
    <2>3. tokens' = tokens
      BY <1>3 DEF A!Authorize
    <2>4. QED
      BY <2>1, <2>2, <2>3 DEF AccessInv, A!AccessAssumption
  <1>4. CASE A!Exchange(r, c)
    BY <1>4 DEF A!Exchange, AccessInv
  <1>5. QED
    BY <1>1, <1>2, <1>3, <1>4 DEF A!Routed

-----------------------------------------------------------------------------
(* Access: the theorems *)

LEMMA InitAccess ==
  ASSUME A!AccessAssumption, A!Init
  PROVE  AccessInv
  BY DEF A!AccessAssumption, A!Init, AccessInv, A!Nothing, A!CallersKeepToTheTable

LEMMA ArriveKeeps ==
  ASSUME AccessInv, A!Arrive
  PROVE  Authenticated(request')
  <1>1. PICK r \in A!Request :
          /\ r.cookie => r.site # "tool" /\ r.bearer \in {"no", "wrong"}
          /\ r.bearer = "secret" => r.site = "tool"
          /\ request' = [asked |-> r, credential |-> A!CredentialOf(r)]
    BY DEF A!Arrive
  <1>2. A!CredentialOf(r) \in A!Credential
    BY DEF A!CredentialOf, A!Credential, A!Request
  <1>3. /\ A!CredentialOf(r) = "session" => r.cookie
        /\ A!CredentialOf(r) = "secret" => r.bearer = "secret"
    BY DEF A!CredentialOf, A!Request
  <1>4. QED
    BY <1>1, <1>2, <1>3 DEF Authenticated

LEMMA NextAccess ==
  ASSUME A!AccessAssumption, AccessInv, [A!Next]_(A!vars)
  PROVE  AccessInv'
  <1>1. CASE A!Arrive
    <2>1. Authenticated(request)' /\ did' = A!Nothing
      BY <1>1, ArriveKeeps DEF A!Arrive, Authenticated
    <2>2. A!CallersKeepToTheTable' /\ did'.what = "nothing"
      BY <2>1, NothingKeeps
    <2>3. UNCHANGED <<config, serving, session, tokens, approvals, minted>>
      BY <1>1 DEF A!Arrive
    <2>4. QED
      BY <2>1, <2>2, <2>3 DEF AccessInv
  <1>2. CASE A!Serve
    <2> DEFINE r == request.asked
               c == request.credential
    <2>1. request' = None /\ UNCHANGED <<config, serving, session>> /\ Authenticated(request)
      BY <1>2 DEF A!Serve, AccessInv
    <2>2. CASE ~A!CrossOrigin(r, c) /\ A!Routed(r, c)
      <3>1. A!CallersKeepToTheTable' /\ did'.what \in {"local", "read", "write", "mint", "approve", "exchange"}
        BY <2>1, <2>2, LocalAPIKeeps, OthersKeep DEF A!Routed
      <3>2. (\A t \in tokens' \cup approvals' : Agreed(t)) /\ minted' \in 0 .. MaxTokens
        BY <2>2, RoutedAgrees
      <3>3. QED
        BY <2>1, <3>1, <3>2 DEF AccessInv
    <2>3. CASE A!Does("cors", None) /\ UNCHANGED <<tokens, approvals, minted>>
      <3>1. A!CallersKeepToTheTable' /\ did'.what = "cors"
        BY <2>3 DEF A!Does, A!CallersKeepToTheTable
      <3>2. QED
        BY <2>1, <2>3, <3>1 DEF AccessInv
    <2>4. CASE did' = A!Nothing /\ UNCHANGED <<tokens, approvals, minted>>
      <3>1. A!CallersKeepToTheTable' /\ did'.what = "nothing"
        BY <2>4, NothingKeeps
      <3>2. QED
        BY <2>1, <2>4, <3>1 DEF AccessInv
    <2>5. QED
      BY <1>2, <2>2, <2>3, <2>4 DEF A!Serve
  <1>3. CASE A!Sign \/ A!Revoke \/ A!Configure \/ A!Restart
    <2>1. did' = A!Nothing
      BY <1>3 DEF A!Sign, A!Revoke, A!Configure, A!Restart
    <2>2. A!CallersKeepToTheTable' /\ did'.what = "nothing"
      BY <2>1, NothingKeeps
    <2>3. config' \in A!Settings /\ serving' \in A!Settings /\ session' \in BOOLEAN /\ minted' = minted
      BY <1>3 DEF A!Sign, A!Revoke, A!Configure, A!Restart, AccessInv
    <2>4. request' = request \/ request' = None
      BY <1>3 DEF A!Sign, A!Revoke, A!Configure, A!Restart
    <2>5. tokens' \subseteq tokens /\ approvals' \subseteq approvals
      BY <1>3 DEF A!Sign, A!Revoke, A!Configure, A!Restart
    <2>6. QED
      BY <2>2, <2>3, <2>4, <2>5 DEF AccessInv, Authenticated
  <1>4. CASE UNCHANGED A!vars
    BY <1>4 DEF A!vars, AccessInv, Authenticated, A!CallersKeepToTheTable
  <1>5. QED
    BY <1>1, <1>2, <1>3, <1>4 DEF A!Next

LEMMA AccessInvariant ==
  A!Spec => []AccessInv
  <1>1. A!Init => AccessInv
    BY AppsAssumption, InitAccess
  <1>2. AccessInv /\ [A!Next]_(A!vars) => AccessInv'
    BY AppsAssumption, NextAccess
  <1>3. QED
    BY <1>1, <1>2, PTL DEF A!Spec

\* What the runs check is Access beside SignIn, which leaves it alone.
LEMMA ConsoleRunsAccess ==
  ConsoleSpec => A!Spec
  <1>1. ConsoleInit => A!Init
    BY DEF ConsoleInit
  <1>2. [ConsoleNext]_<<vars, accessVars, part>> => [A!Next]_(A!vars)
    BY DEF ConsoleNext, accessVars, A!vars
  <1>3. QED
    BY <1>1, <1>2, PTL DEF ConsoleSpec, A!Spec

\* The variables keep their types, and the number of codes and tokens its
\* bound.
THEOREM AccessTypes == A!Spec => []A!AccessTypeOK
  <1>1. AccessInv => A!AccessTypeOK
    BY DEF AccessInv, A!AccessTypeOK, Agreed, Authenticated
  <1>2. QED
    BY <1>1, AccessInvariant, PTL

\* Every token of an app comes from the owner's command or from one approval
\* in the console, and an app never gets a server-level capability by
\* connecting (connect.go:19-31, server.go:280-287).
THEOREM TokensFromConsent == ConsoleSpec => []TokensComeFromConsent
  <1>1. AccessInv => TokensComeFromConsent
    BY DEF AccessInv, TokensComeFromConsent, A!TokensComeFromConsent, Agreed
  <1>2. QED
    BY <1>1, AccessInvariant, ConsoleRunsAccess, PTL

\* What a page of another site gets the browser to send changes nothing with
\* the console's session, a token reaches data only, shutdown is the owner's
\* processes', and a server that started read-only changes no database
\* (middleware.go:19-27, 206-236).
THEOREM TableIsKept == ConsoleSpec => []CallersKeepToTheTable
  <1>1. AccessInv => CallersKeepToTheTable
    BY DEF AccessInv, CallersKeepToTheTable
  <1>2. QED
    BY <1>1, AccessInvariant, ConsoleRunsAccess, PTL

=============================================================================
