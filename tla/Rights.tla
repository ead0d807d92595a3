-------------------------------- MODULE Rights --------------------------------
(* The rights of source data that `ovdb publisher check` proves, one manifest*)
(* with data_rights at a time (internal/publisher/repo/data_rights.go,       *)
(* internal/publisher/datarights).  Terms are declared for the server, for   *)
(* the database or for a recordset, and the nearest declaration counts; the  *)
(* manifest repeats the effective ones.  What the declarations rest on lies  *)
(* in files that are named with their bytes, of the same commit or of another*)
(* repository that the command was given; any read may fail.                 *)
EXTENDS Naturals, FiniteSets

CONSTANTS
    Term, NoTerm,
    Recordset,
    Server, NoServer,  \* identities of serving servers
    Public             \* those that are public URLs

VARIABLES
    authored,      \* data_rights of the manifest, with what its provenance names
    materialized,  \* licences.data of the manifest
    author,        \* the server artifact as it was pinned
    listed,        \* the server of each descriptor that OVDB.md lists
    given,         \* the other repository, as the command was given it
    held,          \* what each reference led to: the bytes of its hash, or others or none
    step,
    source,        \* the server the rights are of
    inherited,     \* the server's terms, as verified
    pins,          \* the artifacts verified
    rights,        \* the evidence, before the check ends and after it
    refused

rightsVars == <<authored, materialized, author, listed, given, held, step, source, inherited, pins, rights, refused>>
inputs == <<authored, materialized, author, listed, given>>

Artifact == {"server", "provenance", "input", "terms"}
Scope == Recordset \cup {"database"}

Profile == [
    server : {"none", "own", "other"},  \* nothing, or a file of this repository or of another
    database : Term \cup {NoTerm},
    recordsets : [Recordset -> Term \cup {NoTerm}],
    names : SUBSET {"input", "terms"}]  \* of the provenance; its input lies in the other repository

RightsTypeOK ==
    /\ authored \in Profile /\ materialized \in Term
    /\ author \in [sound : BOOLEAN, id : Server, terms : Term \cup {NoTerm}]
    /\ listed \subseteq Server /\ given \in {"missing", "moved", "pinned"}
    /\ held \in [Artifact -> {"unread", "pinned", "changed"}]
    /\ step \in {"identify", "server", "compare", "provenance", "input", "terms", "emit", "others", "ended"}
    /\ source \in Server \cup {NoServer} /\ inherited \in Term \cup {NoTerm}
    /\ pins \subseteq Artifact /\ refused \in BOOLEAN
    /\ rights \subseteq [of : Scope, scope : {"server", "database", "recordset"}, terms : Term,
                         server : Server, pins : SUBSET Artifact]

\* Several descriptors are a finding already (checker.descriptors).
Init ==
    /\ authored \in Profile /\ materialized \in Term
    /\ author \in [sound : BOOLEAN, id : Server, terms : Term \cup {NoTerm}]
    /\ listed \in SUBSET Server /\ given \in {"missing", "moved", "pinned"}
    /\ held = [a \in Artifact |-> "unread"]
    /\ step = "identify" /\ source = NoServer /\ inherited = NoTerm
    /\ pins = {} /\ rights = {} /\ refused = (Cardinality(listed) > 1)

-----------------------------------------------------------------------------
(* Reading *)

Elsewhere(a) == a = "input" \/ (a = "server" /\ authored.server = "other")

\* rightsBlob: a regular file of the commit the reference names; a repository
\* that was given at another commit is not read.  What a commit holds stays.
Reads(a, what) ==
    /\ Elsewhere(a) => given = "pinned"
    /\ held[a] \in {"unread", what}
    /\ held' = [held EXCEPT ![a] = what]

\* A mutant of Matches: the bytes are taken as they come.
MatchesAny(what) == what \in {"pinned", "changed"}

\* The byte count and the hash are the ones of the reference.
Matches(what) == what = "pinned"

Loads(a) == \E what \in {"pinned", "changed"} : Matches(what) /\ Reads(a, what)

\* The manifest gets a finding and no evidence; the check goes on with it.
Refuse ==
    /\ step' = "others" /\ refused' = TRUE
    /\ UNCHANGED <<inputs, source, inherited, pins, rights>>

\* A reference cannot be read, or what it names holds other bytes.
Fails ==
    /\ \/ step = "provenance" \/ step \in authored.names
       \/ step \in {"identify", "server"} /\ authored.server # "none"
    /\ held' = [held EXCEPT ![IF step = "identify" THEN "server" ELSE step] = IF @ = "unread" THEN "changed" ELSE @]
    /\ Refuse

-----------------------------------------------------------------------------
(* Who serves the database *)

\* rightsServerID: of the descriptors of a map, any.
Described == IF listed = {} THEN {NoServer} ELSE listed

\* The author's artifact says which server it is; without one the descriptor
\* does, and the two must not contradict each other.
Identify ==
    /\ step = "identify"
    /\ \E described, again \in Described :
       LET id == IF authored.server = "none" THEN described ELSE author.id IN
       /\ IF authored.server = "none" THEN UNCHANGED held ELSE Loads("server")
       /\ IF \/ authored.server # "none" /\ ~author.sound
             \/ id = NoServer
             \/ again \notin {NoServer, id}
             \/ id \notin Public
          THEN Refuse
          ELSE /\ source' = id /\ step' = "server"
               /\ UNCHANGED <<inputs, inherited, pins, rights, refused>>

\* Verify reads the artifact again: bytes before meaning.
LoadServer ==
    /\ step = "server" /\ step' = "compare"
    /\ IF authored.server = "none"
       THEN UNCHANGED <<held, inherited, pins>>
       ELSE /\ Loads("server") /\ author.id = source
            /\ inherited' = author.terms /\ pins' = pins \cup {"server"}
    /\ UNCHANGED <<inputs, source, rights, refused>>

-----------------------------------------------------------------------------
(* Which terms count *)

\* license.Resolve: the whole declaration of the nearest scope.
Nearest(recordset) ==
    CASE recordset # NoTerm -> [scope |-> "recordset", terms |-> recordset]
      [] recordset = NoTerm /\ authored.database # NoTerm -> [scope |-> "database", terms |-> authored.database]
      [] recordset = NoTerm /\ authored.database = NoTerm -> [scope |-> "server", terms |-> inherited]

\* The manifest's licences.data are the effective terms of the database.
Compare ==
    /\ step = "compare" /\ UNCHANGED held
    /\ IF Nearest(NoTerm).terms = materialized
       THEN step' = "provenance" /\ UNCHANGED <<inputs, source, inherited, pins, rights, refused>>
       ELSE Refuse

\* The provenance, then every input and every text of terms that it names.
LoadProvenance ==
    /\ step = "provenance" /\ step' = "input"
    /\ Loads("provenance") /\ pins' = pins \cup {"provenance"}
    /\ UNCHANGED <<inputs, source, inherited, rights, refused>>

LoadNamed ==
    /\ step \in {"input", "terms"} /\ step' = (IF step = "input" THEN "terms" ELSE "emit")
    /\ IF step \in authored.names
       THEN Loads(step) /\ pins' = pins \cup {step}
       ELSE UNCHANGED <<held, pins>>
    /\ UNCHANGED <<inputs, source, inherited, rights, refused>>

\* The evidence: a right of the database, and one of every recordset.
Emit ==
    /\ step = "emit" /\ step' = "others"
    /\ LET Declared(s) == Nearest(IF s = "database" THEN NoTerm ELSE authored.recordsets[s]) IN
       rights' = {[of |-> s, scope |-> Declared(s).scope, terms |-> Declared(s).terms,
                   server |-> source, pins |-> pins] : s \in Scope}
    /\ UNCHANGED <<inputs, held, source, inherited, pins, refused>>

\* The inventory is larger than what is kept of a database.
EmitsTooMuch == step = "emit" /\ Refuse /\ UNCHANGED held

\* A mutant of Ends: what was proved stays with a manifest that is refused.
EndsWithRights ==
    /\ step = "others" /\ step' = "ended"
    /\ \E finding \in BOOLEAN : refused' = (refused \/ finding)
    /\ UNCHANGED <<inputs, held, source, inherited, pins, rights>>

\* The rest of the check finds something or not; a repository that is refused
\* shows no evidence.
Ends ==
    /\ step = "others" /\ step' = "ended"
    /\ \E finding \in BOOLEAN : refused' = (refused \/ finding)
    /\ rights' = IF refused' THEN {} ELSE rights
    /\ UNCHANGED <<inputs, held, source, inherited, pins>>

Next ==
    \/ Identify \/ LoadServer \/ Fails \/ Compare \/ LoadProvenance \/ LoadNamed
    \/ Emit \/ EmitsTooMuch \/ Ends

Spec == Init /\ [][Next]_rightsVars

-----------------------------------------------------------------------------
\* The declaration that a reader of the three files would take.
Effective(s) ==
    LET declared == [server |-> IF authored.server = "none" THEN NoTerm ELSE author.terms,
                     database |-> authored.database,
                     recordset |-> IF s = "database" THEN NoTerm ELSE authored.recordsets[s]]
        weight == [server |-> 1, database |-> 2, recordset |-> 3]
        sources == {k \in DOMAIN declared : declared[k] # NoTerm}
    IN  {[scope |-> k, terms |-> declared[k]] : k \in {k \in sources : \A l \in sources : weight[l] <= weight[k]}}

\* A check that shows rights shows one for the database and for every
\* recordset, with the terms the nearest declaration gives; those of the
\* database are the ones the manifest repeats; every file they rest on held the
\* bytes it was named with, in the commit it was named with; the server is the
\* author's and the descriptor's; and a repository that is refused shows none
\* (manifest.go:66, verify.go:27-28, check.go:138-148).
RightsAreProved ==
    step = "ended" /\ rights # {} =>
        /\ ~refused /\ {r.of : r \in rights} = Scope
        /\ \A r \in rights :
              /\ [scope |-> r.scope, terms |-> r.terms] \in Effective(r.of)
              /\ r.of = "database" => r.terms = materialized
              /\ r.pins = {"provenance"} \cup authored.names
                          \cup (IF authored.server = "none" THEN {} ELSE {"server"})
              /\ \A a \in r.pins : held[a] = "pinned" /\ (Elsewhere(a) => given = "pinned")
              /\ r.server \in Public /\ listed \subseteq {r.server}
              /\ authored.server # "none" => r.server = author.id /\ author.sound
=============================================================================
