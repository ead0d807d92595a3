------------------------------- MODULE SignIn -------------------------------
(***************************************************************************)
(* Signing in to the console (internal/localserver: logins.go, login.go,   *)
(* sessions.go): single-use login codes in memory, sessions in memory and  *)
(* in sessions.json, restarts, crashes, failing writes, and people who     *)
(* edit the file.                                                          *)
(*                                                                         *)
(* Only s.now() advances time.  The file's modification time and size are  *)
(* represented by how they compare with what the server last saw.          *)
(***************************************************************************)
EXTENDS Naturals, FiniteSets

CONSTANTS
    Browser,           \* browsers, each with at most one console cookie
    Code,              \* login codes, each created once
    Token,             \* cookie values, each created once
    None,
    SessionTTL,        \* from the last use, on ovdb.localhost
    FallbackTTL,       \* from the sign-in, on other hosts
    LinkTTL,
    WriteInterval,     \* the throttle of renewal writes
    Fails,             \* which operations' writes may fail
    EditsDuringWrites, \* whether people edit the file while the server writes it
    MaxTime, MaxEdits  \* bounds

ASSUME SignInAssumption ==
    /\ {SessionTTL, FallbackTTL, LinkTTL, WriteInterval, MaxTime, MaxEdits} \subseteq Nat
    /\ Fails \subseteq {"create", "touch", "remove", "flush"}
    /\ None \notin Token \cup Code \cup Browser \cup Nat
    /\ EditsDuringWrites \in BOOLEAN

VARIABLES
    now,
    running,    \* whether a server runs
    codes,      \* by code: when it expires, or None
    issued,     \* codes that were ever created
    entering,   \* by browser: the code its POST /login has consumed, or None
    cookie,     \* by browser: the session cookie, or None
    byHash,     \* sessions in memory
    file,       \* sessions in sessions.json, or None without the file
    loadedMod,  \* the file as last loaded or written, against the file now
    dirty, lastWrite,
    job,        \* the operation that holds mu and writes
    started,    \* by token: how its session began and when it was last used
    signedOut,  \* sessions whose sign-out was answered with success
    removed,    \* sessions that people took out of the file
    clean,      \* no crash, failed write or edit so far
    edits

storeVars == <<byHash, loadedMod, dirty, lastWrite>>
historyVars == <<started, signedOut, removed, clean, edits>>
vars == <<now, running, codes, issued, entering, cookie, storeVars, file, job, historyVars>>

Session == [expiresAt : 0 .. (MaxTime + SessionTTL + FallbackTTL), sliding : BOOLEAN]
Sessions == [Token -> Session \cup {None}]
NoSessions == [t \in Token |-> None]
NoJob == [kind |-> "none", phase |-> "none", browser |-> None, token |-> None]
Job == [kind : {"create", "touch", "remove", "flush"}, phase : {"write", "stat"},
        browser : Browser \cup {None}, token : Token \cup {None}]
Start == [code : Code, sliding : BOOLEAN, at : 0 .. MaxTime, used : 0 .. MaxTime]

\* Nothing is mistaken for None.
ASSUME NoneAssumption == None \notin Session /\ None \notin Sessions /\ None \notin Start

SignInTypeOK ==
    /\ now \in 0 .. MaxTime
    /\ running \in BOOLEAN
    /\ codes \in [Code -> (0 .. (MaxTime + LinkTTL)) \cup {None}]
    /\ issued \in SUBSET Code
    /\ entering \in [Browser -> Code \cup {None}]
    /\ cookie \in [Browser -> Token \cup {None}]
    /\ byHash \in Sessions
    /\ file \in Sessions \cup {None}
    /\ loadedMod \in {"never", "missing", "current", "stale"}
    /\ dirty \in BOOLEAN
    /\ lastWrite \in (0 .. MaxTime) \cup {None}
    /\ job \in Job \cup {NoJob}
    /\ started \in [Token -> Start \cup {None}]
    /\ signedOut \in SUBSET Token /\ removed \in SUBSET Token
    /\ clean \in BOOLEAN
    /\ edits \in 0 .. MaxEdits

Init ==
    /\ now = 0
    /\ running = TRUE
    /\ codes = [c \in Code |-> None] /\ issued = {}
    /\ entering = [b \in Browser |-> None]
    /\ cookie = [b \in Browser |-> None]
    /\ byHash = NoSessions /\ file = None
    /\ loadedMod = "never" /\ dirty = FALSE /\ lastWrite = None
    /\ job = NoJob
    /\ started = [t \in Token |-> None]
    /\ signedOut = {} /\ removed = {} /\ clean = TRUE /\ edits = 0

-----------------------------------------------------------------------------
(* sessions.go: reload, create, touch, remove and flush, under mu *)

Free == running /\ job = NoJob

Live(m, t) == m[t] # None /\ now < m[t].expiresAt

\* Mutation: the file is read when the server starts, and never again.
ReloadedOnce ==
    IF file = None \/ loadedMod # "never"
    THEN [byHash |-> byHash, mod |-> IF file = None THEN "missing" ELSE loadedMod, dirty |-> dirty]
    ELSE [byHash |-> file, mod |-> "current", dirty |-> FALSE]

\* reload: what the operation that takes mu finds.  A file that was there and
\* is gone ends every session; one that changed replaces them.
Reloaded ==
    IF file = None
    THEN [byHash |-> IF loadedMod \in {"current", "stale"} THEN NoSessions ELSE byHash,
          mod |-> "missing", dirty |-> dirty]
    ELSE [byHash |-> IF loadedMod = "current" THEN byHash ELSE file,
          mod |-> "current", dirty |-> loadedMod = "current" /\ dirty]

Reloads(sessions, pending) ==
    /\ byHash' = sessions
    /\ loadedMod' = Reloaded.mod
    /\ dirty' = pending
    /\ UNCHANGED lastWrite

Writes(kind, b, t) ==
    job' = [kind |-> kind, phase |-> "write", browser |-> b, token |-> t]

\* create, for a browser whose code was consumed.
Create(b) ==
    /\ Free /\ entering[b] # None
    /\ \E t \in Token, sliding \in BOOLEAN :
          /\ started[t] = None
          /\ Reloads([Reloaded.byHash EXCEPT ![t] =
                        [expiresAt |-> now + (IF sliding THEN SessionTTL ELSE FallbackTTL),
                         sliding |-> sliding]], Reloaded.dirty)
          /\ started' = [started EXCEPT ![t] =
                           [code |-> entering[b], sliding |-> sliding, at |-> now, used |-> now]]
          /\ Writes("create", b, t)
    /\ entering' = [entering EXCEPT ![b] = None]
    /\ UNCHANGED <<now, running, codes, issued, cookie, file, signedOut, removed, clean, edits>>

Due == lastWrite = None \/ now >= lastWrite + WriteInterval

\* What touch leaves for the session of token t: renewed, written when the
\* throttle allows.
Renews(b, t, expiry) ==
    /\ Reloads([Reloaded.byHash EXCEPT ![t].expiresAt = expiry], TRUE)
    /\ started' = [started EXCEPT ![t].used = now]
    /\ IF Due THEN Writes("touch", b, t) ELSE UNCHANGED job

Unrenewed == Reloads(Reloaded.byHash, Reloaded.dirty) /\ UNCHANGED <<started, job>>

\* Mutation: a renewal adds to the time that was left.
TouchAdds(b) ==
    /\ Free /\ cookie[b] # None
    /\ LET t == cookie[b] IN
       IF Live(Reloaded.byHash, t) /\ Reloaded.byHash[t].sliding
       THEN Renews(b, t, Reloaded.byHash[t].expiresAt + SessionTTL)
       ELSE Unrenewed
    /\ UNCHANGED <<now, running, codes, issued, entering, cookie, file, signedOut, removed, clean, edits>>

\* Mutation: every session slides.
TouchSlidesAll(b) ==
    /\ Free /\ cookie[b] # None
    /\ LET t == cookie[b] IN
       IF Live(Reloaded.byHash, t) THEN Renews(b, t, now + SessionTTL) ELSE Unrenewed
    /\ UNCHANGED <<now, running, codes, issued, entering, cookie, file, signedOut, removed, clean, edits>>

\* touch, as authenticate calls it for every request with the cookie.
Touch(b) ==
    /\ Free /\ cookie[b] # None
    /\ LET t == cookie[b] IN
       IF Live(Reloaded.byHash, t) /\ Reloaded.byHash[t].sliding
       THEN Renews(b, t, now + SessionTTL)
       ELSE Unrenewed
    /\ UNCHANGED <<now, running, codes, issued, entering, cookie, file, signedOut, removed, clean, edits>>

SignedOut(b) ==
    /\ cookie' = [cookie EXCEPT ![b] = None]
    /\ signedOut' = signedOut \cup {cookie[b]}

\* Mutation: signing out forgets the session in memory only.
LogoutForgets(b) ==
    /\ Free /\ cookie[b] # None
    /\ Reloads([Reloaded.byHash EXCEPT ![cookie[b]] = None], Reloaded.dirty)
    /\ SignedOut(b)
    /\ UNCHANGED <<now, running, codes, issued, entering, file, job, started, removed, clean, edits>>

\* remove: nothing to do for a session that is not in memory.
Logout(b) ==
    /\ Free /\ cookie[b] # None
    /\ Reloads([Reloaded.byHash EXCEPT ![cookie[b]] = None], Reloaded.dirty)
    /\ IF Reloaded.byHash[cookie[b]] = None
       THEN SignedOut(b) /\ UNCHANGED job
       ELSE Writes("remove", b, cookie[b]) /\ UNCHANGED <<cookie, signedOut>>
    /\ UNCHANGED <<now, running, codes, issued, entering, file, started, removed, clean, edits>>

\* The memory and the requests of a process that is gone.
Gone ==
    /\ running' = FALSE
    /\ byHash' = NoSessions /\ loadedMod' = "never" /\ dirty' = FALSE /\ lastWrite' = None
    /\ codes' = [c \in Code |-> None]
    /\ entering' = [b \in Browser |-> None]
    /\ job' = NoJob

\* Mutation: pending renewals are not written when the server stops.
StopUnsaved ==
    /\ Free /\ \A b \in Browser : entering[b] = None
    /\ Gone
    /\ UNCHANGED <<now, issued, cookie, file, historyVars>>

\* The server stops when its requests have ended, and flushes.
Stop ==
    /\ Free /\ \A b \in Browser : entering[b] = None
    /\ IF Reloaded.dirty
       THEN /\ Reloads(Reloaded.byHash, TRUE)
            /\ Writes("flush", None, None)
            /\ UNCHANGED <<running, codes, entering>>
       ELSE Gone
    /\ UNCHANGED <<now, issued, cookie, file, historyVars>>

\* write drops what has expired, in memory too.
Current == [t \in Token |-> IF Live(byHash, t) THEN byHash[t] ELSE None]

\* write: the file is replaced ...
WriteFile ==
    /\ job.phase = "write"
    /\ file' = Current
    /\ byHash' = Current
    /\ loadedMod' = IF loadedMod = "current" THEN "stale" ELSE loadedMod
    /\ job' = [job EXCEPT !.phase = "stat"]
    /\ UNCHANGED <<now, running, codes, issued, entering, cookie, dirty, lastWrite, historyVars>>

\* ... or not: the caller gets the error, and a stopping server stops.
WriteFails ==
    /\ job.phase = "write" /\ job.kind \in Fails
    /\ IF job.kind = "flush"
       THEN Gone
       ELSE /\ byHash' = Current
            /\ job' = NoJob
            /\ UNCHANGED <<running, codes, entering, loadedMod, dirty, lastWrite>>
    /\ clean' = FALSE
    /\ UNCHANGED <<now, issued, cookie, file, started, signedOut, removed, edits>>

\* ... and looked at once more, before the answer.
StatFile ==
    /\ job.phase = "stat"
    /\ IF job.kind = "flush"
       THEN Gone
       ELSE /\ loadedMod' = IF file = None THEN loadedMod ELSE "current"
            /\ dirty' = FALSE /\ lastWrite' = now
            /\ job' = NoJob
            /\ UNCHANGED <<running, codes, entering, byHash>>
    /\ \/ /\ job.kind = "create"
          /\ cookie' = [cookie EXCEPT ![job.browser] = job.token]
          /\ UNCHANGED signedOut
       \/ job.kind = "remove" /\ SignedOut(job.browser)
       \/ job.kind \in {"touch", "flush"} /\ UNCHANGED <<cookie, signedOut>>
    /\ UNCHANGED <<now, issued, file, started, removed, clean, edits>>

-----------------------------------------------------------------------------
(* logins.go, and the world around *)

Valid(c) == codes[c] # None /\ now < codes[c]

\* create, which also forgets the codes that have expired.
LoginLink ==
    /\ running
    /\ \E c \in Code \ issued :
          /\ issued' = issued \cup {c}
          /\ codes' = [d \in Code |-> IF d = c THEN now + LinkTTL
                                      ELSE IF Valid(d) THEN codes[d] ELSE None]
    /\ UNCHANGED <<now, running, entering, cookie, storeVars, file, job, historyVars>>

\* Mutation: a code is spent when its session starts, not when it is checked.
LoginKeepsCode(b) ==
    /\ running /\ entering[b] = None
    /\ \E c \in issued :
          entering' = [entering EXCEPT ![b] = IF Valid(c) THEN c ELSE None]
    /\ UNCHANGED <<now, running, codes, issued, cookie, storeVars, file, job, historyVars>>

\* POST /login: consume, then Create.
Login(b) ==
    /\ running /\ entering[b] = None
    /\ \E c \in issued :
          /\ codes' = [codes EXCEPT ![c] = None]
          /\ entering' = [entering EXCEPT ![b] = IF Valid(c) THEN c ELSE None]
    /\ UNCHANGED <<now, running, issued, cookie, storeVars, file, job, historyVars>>

Crash ==
    /\ running
    /\ Gone
    /\ clean' = FALSE
    /\ UNCHANGED <<now, issued, cookie, file, started, signedOut, removed, edits>>

StartServer ==
    /\ ~running
    /\ running' = TRUE
    /\ UNCHANGED <<now, codes, issued, entering, cookie, storeVars, file, job, historyVars>>

\* A person takes sessions out of sessions.json, or deletes it.
EditFile ==
    /\ edits < MaxEdits /\ file # None
    /\ EditsDuringWrites \/ job = NoJob
    /\ edits' = edits + 1
    /\ \/ /\ file' = None
          /\ removed' = removed \cup {t \in Token : file[t] # None}
       \/ \E t \in Token :
             /\ file[t] # None
             /\ file' = [file EXCEPT ![t] = None]
             /\ removed' = removed \cup {t}
    /\ loadedMod' = IF loadedMod = "current" THEN "stale" ELSE loadedMod
    /\ clean' = FALSE
    /\ UNCHANGED <<now, running, codes, issued, entering, cookie, byHash, dirty, lastWrite, job, started, signedOut>>

Tick ==
    /\ now < MaxTime /\ job = NoJob
    /\ now' = now + 1
    /\ UNCHANGED <<running, codes, issued, entering, cookie, storeVars, file, job, historyVars>>

Next ==
    \/ \E b \in Browser : Login(b) \/ Create(b) \/ Touch(b) \/ Logout(b)
    \/ WriteFile \/ WriteFails \/ StatFile
    \/ LoginLink \/ Stop \/ Crash \/ StartServer \/ EditFile \/ Tick

Spec == Init /\ [][Next]_vars

-----------------------------------------------------------------------------
(* Properties *)

\* What a request with cookie t would be told.
Accepted(t) == Free /\ Live(Reloaded.byHash, t)

\* A login link signs in one browser, however many post it at once and
\* however often the server restarts (logins.go:67-68).
LinkSignsInOnce ==
    \A t, u \in Token :
        started[t] # None /\ started[u] # None /\ started[t].code = started[u].code => t = u

\* A session whose sign-out succeeded is never accepted again, not after a
\* restart or a crash either (sessions.go:197).
SignedOutStaysOut == \A t \in signedOut : ~Accepted(t)

\* A session that a person took out of sessions.json is not accepted by any
\* later request (sessions.go:66-69).
RemovedByHandStaysOut == \A t \in removed : ~Accepted(t)

Promised(t) ==
    IF started[t].sliding THEN started[t].used + SessionTTL ELSE started[t].at + FallbackTTL

\* No session outlives its lifetime: the sliding ones from their last use,
\* the others from the sign-in, whatever is read back (sessions.go:31-36).
NoSessionOutlivesItsTime ==
    \A t \in Token : Accepted(t) => started[t] # None /\ now < Promised(t)

\* A session that is used within its lifetime stays signed in over restarts
\* (sessions.go:44-46, 212).
UsedSessionsLast ==
    \A t \in Token :
        Free /\ clean /\ started[t] # None /\ t \notin signedOut /\ now < Promised(t)
        => Accepted(t)

-----------------------------------------------------------------------------
(* The inductive invariant *)

\* A code is in one place: to be posted, in a browser that signs in, or spent.
CodesSpent ==
    /\ \A c \in Code : codes[c] # None => c \in issued
    /\ \A b \in Browser :
          entering[b] # None =>
              /\ entering[b] \in issued /\ codes[entering[b]] = None
              /\ \A a \in Browser : entering[a] = entering[b] => a = b
    /\ \A t \in Token :
          started[t] # None =>
              /\ started[t].code \in issued /\ codes[started[t].code] = None
              /\ \A b \in Browser : entering[b] # started[t].code
    /\ LinkSignsInOnce

\* What sessions m can hold, in memory or in the file.
WithinPromise(m) ==
    \A t \in Token :
        m[t] # None => /\ started[t] # None
                       /\ m[t].sliding = started[t].sliding
                       /\ m[t].expiresAt <= Promised(t)

Promises ==
    /\ WithinPromise(byHash)
    /\ file # None => WithinPromise(file)
    /\ \A t \in Token : started[t] # None => started[t].used <= now

\* What the store remembers of the file agrees with where it is.
StoreState ==
    /\ loadedMod = "never" => byHash = NoSessions /\ ~dirty /\ job = NoJob
    /\ loadedMod = "current" => file # None
    /\ loadedMod = "missing" /\ job.phase # "stat" => file = None
    /\ ~running => loadedMod = "never" /\ \A b \in Browser : entering[b] = None
    /\ job.kind = "remove" => /\ job.browser \in Browser /\ job.token \in Token
                              /\ cookie[job.browser] = job.token
    /\ job.kind = "create" => started[job.token] # None
    /\ \A b \in Browser : cookie[b] # None => started[cookie[b]] # None

\* Memory has what the file would bring back, except what is being removed.
Covers(m, t) ==
    file # None /\ Live(file, t) => m[t] # None /\ m[t].expiresAt >= file[t].expiresAt

Removing(t) == job.kind = "remove" /\ job.token = t

OutOfMemoryAndFile ==
    /\ \A t \in signedOut :
          started[t] # None /\ ~Live(byHash, t) /\ (file # None => ~Live(file, t))
    /\ loadedMod = "current" \/ job.phase = "stat" =>
          \A t \in Token : (Removing(t) /\ job.phase = "write") \/ Covers(byHash, t)
    /\ job.kind = "remove" =>
          /\ byHash[job.token] = None
          /\ job.phase = "stat" /\ file # None => file[job.token] = None

RemovedFromFile ==
    \A t \in removed :
        /\ started[t] # None
        /\ file # None => file[t] = None
        /\ byHash[t] # None => loadedMod = "stale" /\ job = NoJob

Lasts(t) == started[t] # None /\ t \notin signedOut /\ ~Removing(t) /\ now < Promised(t)

Exact(m, t) == m[t] # None /\ m[t].expiresAt = Promised(t)

\* Until something goes wrong, every session is in memory as promised, or in
\* the file when nothing is pending.
Kept ==
    /\ loadedMod = "stale" => job.phase = "stat"
    /\ job.phase = "stat" => file = byHash
    /\ \A t \in Token :
          Lasts(t) => /\ loadedMod # "never" => Exact(byHash, t)
                      /\ job = NoJob /\ ~dirty => file # None /\ Exact(file, t)

\* The inductive invariant of the proofs: codes, memory, file and what was
\* promised agree (logins.go, sessions.go).
SignInInv ==
    /\ SignInTypeOK /\ CodesSpent /\ Promises /\ StoreState
    /\ "remove" \notin Fails => OutOfMemoryAndFile
    /\ ~EditsDuringWrites => RemovedFromFile
    /\ clean => Kept
=============================================================================
