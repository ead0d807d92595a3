-------------------------------- MODULE Data ---------------------------------
(* The data commands (internal/cli/data.go, internal/client/data.go): list,  *)
(* get, set, set --field, add and delete, each a process that calls the      *)
(* server's data API.  The server answers one call at a time; between the    *)
(* calls of a command other commands run, the database may be removed, and   *)
(* an answer may be lost with the server that gave it.                       *)
EXTENDS Integers, FiniteSets, Sequences

CONSTANTS
    Process,   \* commands that run at the same time
    MaxId,     \* bound: the record ids of the collection
    MaxRuns,   \* bound: how many commands are run
    Limit,     \* --limit of a listing
    MaxOffset, \* the longest offset that DTQL takes: 10000
    None       \* no command

VARIABLES
    mounted,   \* is the database registered?
    declared,  \* does its schema declare the collection?
    record,    \* each id: the number of the command that wrote it, 0 for no record
               \* and MaxRuns + 1 for one that was there before
    ran,       \* how many commands were run
    doing,       \* each process: its command
    seen,      \* each process: what was true while its command ran (history)
    said       \* each process: what its command said

vars == <<mounted, declared, record, ran, doing, seen, said>>

RecordId == 1..MaxId
Verb == {"list", "get", "set", "field", "add", "delete"}
Kind == {"root", "collection", "record"}
Command == [verb : Verb, id : RecordId, number : 1..MaxRuns, ifExists : BOOLEAN, step : {"call", "remove"}]

\* Codes of the envelope people see, and what a command says when it is done.
Code == {"not_found", "unknown_database", "schema_required", "already_exists", "not_running", "invalid_argument"}
Done == {"shown", "all", "more", "set", "updated", "added", "deleted", "nothing_to_delete"}

\* What can be true of the record and the listing a command is about.
Truth == {"present", "missing", "went", "mine", "many", "few"}

DataTypeOK ==
    /\ {mounted, declared} \subseteq BOOLEAN
    /\ record \in [RecordId -> 0..MaxRuns + 1] /\ ran \in 0..MaxRuns
    /\ \A p \in Process : doing[p] = None \/ doing[p] \in Command
    /\ \A p \in Process : seen[p] \subseteq Truth
    /\ said \in [Process -> Code \cup Done \cup {"nothing"}]

Init ==
    /\ mounted = TRUE /\ declared \in BOOLEAN
    /\ record \in [RecordId -> {0, MaxRuns + 1}] /\ ran = 0
    /\ doing = [p \in Process |-> None]
    /\ seen = [p \in Process |-> {}] /\ said = [p \in Process |-> "nothing"]

-----------------------------------------------------------------------------
(* The server's data API, as the commands use it *)

\* The records in the order of their keys.
Present == {i \in RecordId : record[i] # 0}
Listed == [n \in 1 .. Cardinality(Present) |->
              CHOOSE i \in Present : Cardinality({j \in Present : j < i}) = n - 1]

\* POST /query answers at most limit records from the first on.
Query(limit) == SubSeq(Listed, 1, IF limit < Len(Listed) THEN limit ELSE Len(Listed))

\* POST /dtql takes an offset, of root collections only.
DTQL(offset, limit) == SubSeq(Listed, offset + 1, IF offset + limit < Len(Listed) THEN offset + limit ELSE Len(Listed))

\* A call's failure: status 404 comes with three messages.
Fault(method, id) ==
    IF ~mounted THEN "database not found"
    ELSE IF ~declared THEN "not declared"
    ELSE IF method = "POST" /\ record[id] # 0 THEN "already_exists"
    ELSE IF method \in {"GET", "PATCH"} /\ record[id] = 0 THEN "not_found"
    ELSE "none"

-----------------------------------------------------------------------------
(* The client *)

\* MapV1: the code for people.  A missing database and an undeclared
\* collection are answered not_found too.
MapV1(fault) ==
    CASE fault = "database not found" -> "unknown_database"
      [] fault = "not declared" -> "schema_required"
      [] fault = "already_exists" -> "already_exists"
      [] OTHER -> "not_found"

\* A mutant of MissingRecord: any not_found of the server.
AnyNotFound(fault) == fault \in {"database not found", "not declared", "not_found"}

\* MissingRecord: a record that is not there, in a database that is.
MissingRecord(fault) == MapV1(fault) = "not_found"

\* A mutant of PageOf: the limit is asked for as it is.
PageShort(nested, offset, limit) ==
    IF nested \/ offset > MaxOffset THEN LET records == Query(limit)
                   IN SubSeq(records, 1 + (IF offset < Len(records) THEN offset ELSE Len(records)), Len(records))
    ELSE DTQL(offset, limit)

\* PageOf: of a nested collection, or far into one at the root, what comes
\* before the page is read too, and dropped.
PageOf(nested, offset, limit) ==
    IF nested \/ offset > MaxOffset
    THEN LET records == Query(offset + limit)
         IN SubSeq(records, 1 + (IF offset < Len(records) THEN offset ELSE Len(records)), Len(records))
    ELSE DTQL(offset, limit)

\* A mutant of Ask: exactly the limit.
AskLimit == Limit

\* One record more than --limit says whether there are more.
Ask == Limit + 1

\* The method of a write: only add refuses a record that is there.
Method(verb) ==
    CASE verb = "add" -> "POST" [] verb = "set" -> "PUT" [] verb = "field" -> "PATCH" [] OTHER -> "GET"

-----------------------------------------------------------------------------
(* The commands *)

\* requireKind: what a verb can be done to.
Wants(verb) == CASE verb = "list" -> Kind [] verb = "add" -> {"collection"} [] OTHER -> {"record"}

Says(p, what) == said' = [said EXCEPT ![p] = what]
Ends(p, what) == doing' = [doing EXCEPT ![p] = None] /\ Says(p, what)

\* A path of another kind ends the command with the command that fits it.
Begin(p, verb, kind) ==
    /\ doing[p] = None /\ ran < MaxRuns
    /\ ran' = ran + 1
    /\ IF kind \in Wants(verb)
       THEN /\ \E id \in RecordId, ifExists \in (IF verb = "delete" THEN BOOLEAN ELSE {FALSE}) :
                 doing' = [doing EXCEPT ![p] = [verb |-> verb, id |-> id, number |-> ran + 1,
                                            ifExists |-> ifExists, step |-> "call"]]
            /\ Says(p, "nothing")
       ELSE Says(p, "invalid_argument") /\ UNCHANGED doing
    /\ UNCHANGED <<mounted, declared, record>>

Running(p, verbs, step) == doing[p] # None /\ doing[p].verb \in verbs /\ doing[p].step = step

\* listCmd of a collection
List(p) ==
    /\ Running(p, {"list"}, "call")
    /\ LET fault == Fault("QUERY", doing[p].id) IN
       Ends(p, IF fault # "none" THEN MapV1(fault)
               ELSE IF Len(Query(Ask)) > Limit THEN "more" ELSE "all")
    /\ UNCHANGED <<mounted, declared, record, ran>>

\* getCmd, and listCmd of a record
Get(p) ==
    /\ Running(p, {"get"}, "call")
    /\ LET fault == Fault("GET", doing[p].id) IN
       Ends(p, IF fault # "none" THEN MapV1(fault) ELSE "shown")
    /\ UNCHANGED <<mounted, declared, record, ran>>

Past(verb) == CASE verb = "add" -> "added" [] verb = "field" -> "updated" [] OTHER -> "set"

\* setCmd and addCmd: one call.
Write(p) ==
    /\ Running(p, {"set", "field", "add"}, "call")
    /\ LET c == doing[p]
           fault == Fault(Method(c.verb), c.id)
       IN IF fault = "none"
          THEN record' = [record EXCEPT ![c.id] = c.number] /\ Ends(p, Past(c.verb))
          ELSE Ends(p, MapV1(fault)) /\ UNCHANGED record
    /\ UNCHANGED <<mounted, declared, ran>>

\* A mutant of Look: nothing is read.
LookNowhere(p) ==
    /\ Running(p, {"delete"}, "call")
    /\ doing' = [doing EXCEPT ![p].step = "remove"]
    /\ UNCHANGED <<mounted, declared, record, ran, said>>

\* deleteCmd: a DELETE succeeds for a missing record too, so the record is
\* read first.
Look(p) ==
    /\ Running(p, {"delete"}, "call")
    /\ LET fault == Fault("GET", doing[p].id) IN
       IF fault = "none" THEN doing' = [doing EXCEPT ![p].step = "remove"] /\ UNCHANGED said
       ELSE Ends(p, IF MissingRecord(fault) /\ doing[p].ifExists THEN "nothing_to_delete" ELSE MapV1(fault))
    /\ UNCHANGED <<mounted, declared, record, ran>>

Delete(p) ==
    /\ Running(p, {"delete"}, "remove")
    /\ LET fault == Fault("DELETE", doing[p].id) IN
       IF fault = "none"
       THEN record' = [record EXCEPT ![doing[p].id] = 0] /\ Ends(p, "deleted")
       ELSE Ends(p, MapV1(fault)) /\ UNCHANGED record
    /\ UNCHANGED <<mounted, declared, ran>>

\* The server stops before the answer arrives: the command knows only that it
\* is not running.  What the call did stays done.
Lost(p) ==
    /\ doing[p] # None /\ Ends(p, "not_running")
    /\ LET c == doing[p] IN
       \/ UNCHANGED record
       \/ /\ c.verb \in {"set", "field", "add"} /\ Fault(Method(c.verb), c.id) = "none"
          /\ record' = [record EXCEPT ![c.id] = c.number]
       \/ /\ c.step = "remove" /\ Fault("DELETE", c.id) = "none"
          /\ record' = [record EXCEPT ![c.id] = 0]
    /\ UNCHANGED <<mounted, declared, ran>>

\* Somebody removes the database, and creates one of that name again.
Removes == mounted' = ~mounted /\ record' = [i \in RecordId |-> 0] /\ UNCHANGED <<declared, ran, doing, said>>

\* A schema is reloaded that declares the collection, or no longer does.
Reloads == declared' = ~declared /\ UNCHANGED <<mounted, record, ran, doing, said>>

Step ==
    \/ \E p \in Process :
        \/ \E verb \in Verb, kind \in Kind : Begin(p, verb, kind)
        \/ List(p) \/ Get(p) \/ Write(p) \/ Look(p) \/ Delete(p) \/ Lost(p)
    \/ Removes \/ Reloads

\* What is true in a state of the command c that runs in it.
True(c, before, isMounted, isDeclared, records) ==
    LET there == records[c.id] # 0
        absent == isMounted /\ isDeclared /\ ~there
        number == Cardinality({i \in RecordId : records[i] # 0})
    IN before \cup (IF there THEN {"present"} ELSE {}) \cup (IF absent THEN {"missing"} ELSE {})
              \cup (IF ~there /\ "present" \in before THEN {"went"} ELSE {})
              \cup (IF records[c.id] = c.number THEN {"mine"} ELSE {})
              \cup (IF number > Limit THEN {"many"} ELSE {"few"})

\* The history: from the beginning of a command to its answer.
Watch == seen' = [p \in Process |->
    IF doing[p] # None THEN True(doing[p], seen[p], mounted', declared', record')
    ELSE IF doing'[p] # None THEN True(doing'[p], {}, mounted', declared', record')
    ELSE seen[p]]

Next == Step /\ Watch

Spec == Init /\ [][Next]_vars

-----------------------------------------------------------------------------
(* Properties *)

\* What a command says is true: what it says it wrote was there, and was new
\* when it says added; what it says it deleted was there and went while it
\* ran; nothing to delete and not found mean a record that was missing from a
\* database that was there; a listing says that there is more when there was,
\* and only then; a refused write wrote nothing (data.go:268-279, 524-540).
SaysWhatHappened ==
    \A p \in Process : doing[p] = None =>
        /\ said[p] \in {"set", "updated"} => "mine" \in seen[p]
        /\ said[p] = "added" => {"mine", "missing"} \subseteq seen[p]
        /\ said[p] = "deleted" => "went" \in seen[p]
        /\ said[p] \in {"nothing_to_delete", "not_found"} => "missing" \in seen[p]
        /\ said[p] \in {"shown", "already_exists"} => "present" \in seen[p]
        /\ said[p] = "more" => "many" \in seen[p]
        /\ said[p] = "all" => "few" \in seen[p]
        /\ said[p] \in Code \ {"not_running", "invalid_argument"} => "mine" \notin seen[p]

\* The pages of a nested collection are those of one at the root, near its
\* beginning and far from it
\* (client/data.go:75-102).
PagesAgree ==
    \A offset \in 0..MaxId + 1, limit \in 1..MaxId :
        PageOf(TRUE, offset, limit) = PageOf(FALSE, offset, limit)

DataIsTold == SaysWhatHappened /\ PagesAgree
=============================================================================
