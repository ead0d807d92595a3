------------------------------- MODULE Contexts -------------------------------
(***************************************************************************)
(* The current database of a project (internal/setup/dbcontext): the        *)
(* context files under <home>/contexts, the ladder that resolves which      *)
(* database a command acts on, the commands that show and change it         *)
(* (ovdb use, pwd, cd and the console), and the removal of a database,      *)
(* which clears the contexts that name it.                                  *)
(*                                                                         *)
(* A handler lists the registered databases before it takes contextMu, and  *)
(* a removal clears contexts without that lock, so each is its own step.    *)
(* Apply holds the lock for one write or one unlink and is one step.        *)
(***************************************************************************)
EXTENDS Naturals, FiniteSets, SequencesExt

CONSTANTS
    Id,          \* database ids as people type them
    Fold,        \* [Id -> Id]: ids that are equal ignoring case fold to one
    Directory,
    Parent,      \* [Directory -> Directory]: the file system root is its own
    GitRoots,    \* directories that hold .git
    UserHome,
    Path,        \* places inside a database
    Root,        \* the path "/"
    Client,      \* commands and console requests in progress at a time
    Browser,     \* the clients that are console sessions
    None, Junk, Global,
    Overlap,     \* whether commands and creates run while a database is removed
    Created,     \* whether databases are registered while commands run
    Failing,     \* whether writes and unlinks fail
    MaxCommands  \* bound on commands

File == Directory \cup {Global}   \* one context file each, by Key(dir)
Stored == [database : Id, path : Path]
Scope == {"flag", "environment", "project", "global", "only"}
Context == [database : Id, path : Path, scope : Scope, dir : Directory \cup {None}]

ContextsAssumption ==
    /\ Fold \in [Id -> Id] /\ Parent \in [Directory -> Directory]
    \* Going up from any directory ends at a root.
    /\ \A T \in SUBSET Directory : T # {} => \E d \in T : Parent[d] = d \/ Parent[d] \notin T
    /\ GitRoots \subseteq Directory /\ UserHome \in Directory
    /\ Root \in Path /\ Browser \subseteq Client
    /\ Global \notin Directory /\ None \notin Id \cup Context
    /\ {None, Junk} \cap [database : Id, path : Path] = {} /\ IsFiniteSet(Directory)
    /\ {Overlap, Created, Failing} \subseteq BOOLEAN /\ MaxCommands \in Nat

VARIABLES
    ids,      \* the registered databases
    stored,   \* [File -> Stored, None (no file) or Junk (not readable as one)]
    pc,       \* where each client's command is
    command,  \* what it runs and where
    listed,   \* the ids its handler read
    context,  \* what cd resolved
    change,   \* what it asks to store
    remover,  \* the removal in progress: step, id, files left to look at
    ran       \* commands begun

clientVars == <<pc, command, listed, context, change>>
vars == <<ids, stored, clientVars, remover, ran>>

Command == [op : {"show", "use", "clear", "cd"}, cwd : Directory, global : BOOLEAN,
            flag : Id \cup {None}]
Change == [scope : {"project", "global"}, dir : Directory \cup {None},
           database : Id \cup {None}, path : Path, clear : BOOLEAN]
NoChange == [scope |-> "global", dir |-> None, database |-> None, path |-> Root, clear |-> TRUE]

ContextsTypeOK ==
    /\ ids \subseteq Id
    /\ stored \in [File -> Stored \cup {None, Junk}]
    /\ pc \in [Client -> {"idle", "ask", "resolve", "put", "apply"}]
    /\ command \in [Client -> Command]
    /\ listed \in [Client -> SUBSET Id]
    /\ context \in [Client -> Context \cup {None}]
    /\ change \in [Client -> Change]
    /\ remover \in [step : {"idle", "unmount", "look", "unlink"}, id : Id \cup {None}, files : Seq(File)]
    /\ ran \in 0 .. MaxCommands

-----------------------------------------------------------------------------
(* Where a command runs *)

\* Find: the directories from dir up to its Git root, or to the top.
Dirs[dir \in Directory] ==
    IF dir \in GitRoots \/ Parent[dir] = dir THEN <<dir>> ELSE <<dir>> \o Dirs[Parent[dir]]

\* Find: where `ovdb use` stores.
ProjectRoot(dir) == IF Last(Dirs[dir]) \in GitRoots THEN Last(Dirs[dir]) ELSE dir

TooBroad(dir) == Parent[dir] = dir \/ dir = UserHome

-----------------------------------------------------------------------------
(* The ladder *)

\* Registered: the id itself, or the only one equal to it ignoring case.
Registered(known, id) ==
    LET folded == {k \in known : Fold[k] = Fold[id]} IN
    IF id \in known THEN id
    ELSE IF Cardinality(folded) = 1 THEN CHOOSE k \in folded : TRUE ELSE None

Applies(known, f) == stored[f] \in Stored /\ Registered(known, stored[f].database) # None
FromFile(known, f, scope, dir) ==
    [database |-> Registered(known, stored[f].database), path |-> stored[f].path,
     scope |-> scope, dir |-> dir]

\* Mutant: the directory nearest to the root wins.
ResolveFarthest(known, cmd) ==
    LET found == SelectLastInSeq(Dirs[cmd.cwd], LAMBDA d : Applies(known, d)) IN
    IF cmd.flag # None THEN [database |-> cmd.flag, path |-> Root, scope |-> "flag", dir |-> None]
    ELSE IF found # 0
    THEN LET d == Dirs[cmd.cwd][found] IN FromFile(known, d, "project", d)
    ELSE None

\* Resolve: the first directory whose database is still registered, then the
\* global default, then the only database.
Resolve(known, cmd) ==
    LET found == SelectInSeq(Dirs[cmd.cwd], LAMBDA d : Applies(known, d)) IN
    IF cmd.flag # None
    THEN [database |-> IF Registered(known, cmd.flag) # None THEN Registered(known, cmd.flag) ELSE cmd.flag,
          path |-> Root, scope |-> "flag", dir |-> None]
    ELSE IF found # 0
    THEN LET d == Dirs[cmd.cwd][found] IN FromFile(known, d, "project", d)
    ELSE IF Applies(known, Global) THEN FromFile(known, Global, "global", None)
    ELSE IF Cardinality(known) = 1
    THEN [database |-> CHOOSE id \in known : TRUE, path |-> Root, scope |-> "only", dir |-> None]
    ELSE None

-----------------------------------------------------------------------------
(* Commands *)

NoCommand == [op |-> "show", cwd |-> UserHome, global |-> FALSE, flag |-> None]

Init ==
    /\ ids \in SUBSET Id
    /\ \A a, b \in ids : Fold[a] = Fold[b] => a = b
    /\ stored \in [File -> {None, Junk}]
    /\ Cardinality({f \in File : stored[f] = Junk}) <= 1
    /\ pc = [c \in Client |-> "idle"]
    /\ command = [c \in Client |-> NoCommand]
    /\ listed = [c \in Client |-> {}]
    /\ context = [c \in Client |-> None]
    /\ change = [c \in Client |-> NoChange]
    /\ remover = [step |-> "idle", id |-> None, files |-> <<>>]
    /\ ran = 0

Goes(c, step) == pc' = [pc EXCEPT ![c] = step]

Returns(c) ==
    /\ Goes(c, "idle")
    /\ command' = [command EXCEPT ![c] = NoCommand]
    /\ listed' = [listed EXCEPT ![c] = {}]
    /\ context' = [context EXCEPT ![c] = None]
    /\ change' = [change EXCEPT ![c] = NoChange]

\* ovdb use <database>, with or without --global.
Use(c) ==
    \E cmd \in Command, id \in Id :
        /\ cmd.op = "use" /\ cmd.flag = None
        /\ command' = [command EXCEPT ![c] = cmd]
        /\ change' = [change EXCEPT ![c] =
             [scope |-> IF cmd.global THEN "global" ELSE "project",
              dir |-> IF cmd.global THEN None ELSE ProjectRoot(cmd.cwd),
              database |-> id, path |-> Root, clear |-> FALSE]]
        /\ Goes(c, "put")
        /\ UNCHANGED <<listed, context>>

\* ovdb use --clear.
Clear(c) ==
    \E cmd \in Command :
        /\ cmd.op = "clear" /\ cmd.flag = None
        /\ command' = [command EXCEPT ![c] = cmd]
        /\ change' = [change EXCEPT ![c] =
             [scope |-> IF cmd.global THEN "global" ELSE "project",
              dir |-> IF cmd.global THEN None ELSE ProjectRoot(cmd.cwd),
              database |-> None, path |-> Root, clear |-> TRUE]]
        /\ Goes(c, "put")
        /\ UNCHANGED <<listed, context>>

\* ovdb cd: asks which database it is in first.
Cd(c) ==
    \E cmd \in Command :
        /\ cmd.op = "cd" /\ ~cmd.global
        /\ command' = [command EXCEPT ![c] = cmd]
        /\ Goes(c, "ask")
        /\ UNCHANGED <<listed, context, change>>

Begin(c) ==
    /\ pc[c] = "idle" /\ ran < MaxCommands
    /\ Overlap \/ remover.step = "idle"
    /\ ran' = ran + 1
    /\ Use(c) \/ Clear(c) \/ (c \notin Browser /\ Cd(c))
    /\ UNCHANGED <<ids, stored, remover>>

\* GET context lists the databases, or the command does when no server runs.
Ask(c) ==
    /\ pc[c] = "ask"
    /\ listed' = [listed EXCEPT ![c] = ids]
    /\ Goes(c, "resolve")
    /\ UNCHANGED <<ids, stored, command, context, change, remover, ran>>

\* cd moves inside the database it resolved; one from --db or the environment
\* is not stored, and the only database is stored for this project.
CdResolves(c) ==
    /\ pc[c] = "resolve"
    /\ LET current == Resolve(listed[c], command[c]) IN
       IF current = None \/ current.scope = "flag" \/ current.database \notin ids
       THEN Returns(c)
       ELSE \E target \in Path :
              /\ context' = [context EXCEPT ![c] = current]
              /\ change' = [change EXCEPT ![c] =
                   [scope |-> IF current.scope = "global" THEN "global" ELSE "project",
                    dir |-> CASE current.scope = "project" -> current.dir
                              [] current.scope = "global" -> None
                              [] OTHER -> ProjectRoot(command[c].cwd),
                    database |-> current.database, path |-> target, clear |-> FALSE]]
              /\ Goes(c, "put")
              /\ UNCHANGED <<command, listed>>
    /\ UNCHANGED <<ids, stored, remover, ran>>

\* putContext: sessions may change only the global default.
Put(c) ==
    /\ pc[c] = "put"
    /\ IF change[c].scope # "global" /\ c \in Browser
       THEN Returns(c)
       ELSE /\ listed' = [listed EXCEPT ![c] = ids]
            /\ Goes(c, "apply")
            /\ UNCHANGED <<command, context, change>>
    /\ UNCHANGED <<ids, stored, remover, ran>>

FileOf(ch) == IF ch.scope = "global" THEN Global ELSE ch.dir

\* Mutant: every context is stored at the root of its database.
ApplyAtRoot(c) ==
    LET ch == change[c] IN
    /\ pc[c] = "apply"
    /\ ~ch.clear /\ Registered(listed[c], ch.database) # None
    /\ ch.scope = "project" => ~TooBroad(ch.dir)
    /\ stored' = [stored EXCEPT ![FileOf(ch)] =
         [database |-> Registered(listed[c], ch.database), path |-> Root]]
    /\ Returns(c)
    /\ UNCHANGED <<ids, remover, ran>>

\* Apply, under contextMu; the write or the unlink may fail.
Apply(c) ==
    LET ch == change[c]
        id == IF ch.clear THEN None ELSE Registered(listed[c], ch.database)
        refused == \/ ~ch.clear /\ ch.scope = "project" /\ TooBroad(ch.dir)
                   \/ ~ch.clear /\ id = None IN
    /\ pc[c] = "apply"
    /\ \/ (refused \/ Failing) /\ UNCHANGED stored
       \/ /\ ~refused
          /\ stored' = [stored EXCEPT ![FileOf(ch)] =
               IF ch.clear THEN None ELSE [database |-> id, path |-> ch.path]]
    /\ Returns(c)
    /\ UNCHANGED <<ids, remover, ran>>

-----------------------------------------------------------------------------
(* The registry *)

\* A database is created or connected.
Register ==
    /\ Overlap \/ remover.step = "idle"
    /\ Created \/ \A c \in Client : pc[c] = "idle"
    /\ \E id \in Id : /\ \A k \in ids : Fold[k] # Fold[id]
                      /\ ids' = ids \cup {id}
    /\ UNCHANGED <<stored, clientVars, remover, ran>>

\* Remove takes the manifest away, and unmounts before it clears contexts.
RemoveDatabase ==
    /\ remover.step = "idle"
    /\ Overlap \/ \A c \in Client : pc[c] = "idle"
    /\ \E id \in ids :
          /\ ids' = ids \ {id}
          /\ remover' = [remover EXCEPT !.step = "unmount", !.id = id]
    /\ UNCHANGED <<stored, clientVars, ran>>

\* Mutant: only project contexts are looked at.
ClearDatabaseProjects ==
    /\ remover.step = "unmount"
    /\ remover' = [remover EXCEPT !.step = "look",
         !.files = SetToSeq({d \in Directory : stored[d] # None})]
    /\ UNCHANGED <<ids, stored, clientVars, ran>>

\* ClearDatabase reads the folder: the global file, then those of projects.
ClearDatabase ==
    /\ remover.step = "unmount"
    /\ remover' = [remover EXCEPT !.step = "look",
         !.files = <<Global>> \o SetToSeq({d \in Directory : stored[d] # None})]
    /\ UNCHANGED <<ids, stored, clientVars, ran>>

\* Mutant: every context that can be read is removed.
ClearLooksAtAll ==
    /\ remover.step = "look"
    /\ remover' =
         IF remover.files = <<>> THEN [remover EXCEPT !.step = "idle", !.id = None]
         ELSE IF stored[Head(remover.files)] \in Stored THEN [remover EXCEPT !.step = "unlink"]
         ELSE [remover EXCEPT !.files = Tail(@)]
    /\ UNCHANGED <<ids, stored, clientVars, ran>>

\* It reads one file after another...
ClearLooks ==
    /\ remover.step = "look"
    /\ remover' =
         IF remover.files = <<>> THEN [remover EXCEPT !.step = "idle", !.id = None]
         ELSE LET s == stored[Head(remover.files)] IN
              IF s \in Stored /\ Fold[s.database] = Fold[remover.id]
              THEN [remover EXCEPT !.step = "unlink"]
              ELSE [remover EXCEPT !.files = Tail(@)]
    /\ UNCHANGED <<ids, stored, clientVars, ran>>

\* ... and removes the ones that name the database, as they then are; a
\* failure is only logged.
ClearRemoves ==
    /\ remover.step = "unlink"
    /\ \/ Failing /\ UNCHANGED stored
       \/ stored' = [stored EXCEPT ![Head(remover.files)] = None]
    /\ remover' = [remover EXCEPT !.step = "look", !.files = Tail(@)]
    /\ UNCHANGED <<ids, clientVars, ran>>

Next ==
    \/ \E c \in Client : Begin(c) \/ Ask(c) \/ CdResolves(c) \/ Put(c) \/ Apply(c)
    \/ Register \/ RemoveDatabase \/ ClearDatabase \/ ClearLooks \/ ClearRemoves

Spec == Init /\ [][Next]_vars

-----------------------------------------------------------------------------
(* Properties *)

Quiet == remover.step = "idle" /\ \A c \in Client : pc[c] = "idle"

\* Removing a database never leaves a context pointing at it, where it would
\* come back to life with the next database of that name (store.go:309-310).
RemovedIsForgotten ==
    Quiet => \A f \in File : stored[f] \in Stored => stored[f].database \in ids

\* A context for a database that is still registered changes only when a
\* command changes it: a removal takes away no other choice than those of its
\* own database (store.go:309-329).
ChoicesLast ==
    [][\A f \in File :
         /\ stored'[f] # stored[f]
         /\ stored[f] \in Stored /\ stored[f].database \in ids
         => \E c \in Client : pc[c] = "apply" /\ FileOf(change[c]) = f]_vars

\* After cd, a command in the same directory acts on the same database, in
\* the place cd moved to, whichever rung the database came from
\* (cli/context.go:222-243).
CdMoves ==
    [][\A c \in Client : \A cmd \in {command[c]} :
         pc[c] = "apply" /\ stored' # stored /\ pc'[c] = "idle" /\ context[c] # None
         => LET now == Resolve(ids, cmd)' IN
            now # None /\ now.database = context[c].database /\ now.path = change[c].path]_vars

Ancestors[d \in Directory] == {d} \cup (IF Parent[d] = d THEN {} ELSE Ancestors[Parent[d]])
\* The Git working tree a directory is in, none outside Git.
Trees(d) == {g \in Ancestors[d] \cap GitRoots :
               \A h \in Ancestors[d] \cap GitRoots : g \in Ancestors[h] => h = g}

\* No project context covers the home directory or a whole file system.
ContextsAreNarrow == \A d \in Directory : stored[d] \in Stored => ~TooBroad(d)

\* A project context applies in its own Git tree and below its directory
\* only, the nearest one wins, and none covers the home directory or a whole
\* file system (project.go:45-48, store.go:227-229, 288-290).
ContextsStayInProjects ==
    /\ ContextsAreNarrow
    /\ \A d \in Directory :
          LET r == Resolve(ids, [NoCommand EXCEPT !.cwd = d])
              near == {a \in Ancestors[d] : Trees(a) = Trees(d) /\ Applies(ids, a)} IN
          IF near = {} THEN r # None => r.scope # "project"
          ELSE r.scope = "project" /\ r.dir \in near /\ near \subseteq Ancestors[r.dir]
=============================================================================
