------------------------------ MODULE MCConsole ------------------------------
(* Small instances, for TLC, of what people work with at OVDB: the terminal  *)
(* interface, agent skills, the demo, the client of the local server, and    *)
(* the commands that read and write data, name places, serve databases, sign *)
(* in to the cloud and check a publisher's repository, with its rights, host *)
(* names and chains of concepts.  One of them is chosen in the initial state *)
(* and moves; the others stand still.                                        *)
EXTENDS Screens

CONSTANTS
    Harness, First, Folder, Inside, Client, Late, Together, MaxChanges,
    Id, DefaultId, Deletes, Eager,
    Process, MaxId, MaxRuns, Limit, MaxOffset,
    MaxText, MaxDepth,
    Mounted, Request,
    Store, MaxTokens, Page, Overlap,
    Commit, MaxManifests,
    Terminal, Port, DefaultPort, MaxStarts, Takeover,
    Term, Recordset, Server, Public,
    Letter, MaxLetters,
    Concept, Taking, Unknown, MaxChain

VARIABLES
    copy, journal, unusable, detected, changes, pc, shown, request, agreed, left, at, did,
    folder, lists, notes, registered, recorded, install, lost,
    mounted, declared, record, ran, doing, seen, said,
    place,
    main, database, call, served, guarded, stopping, pending, releaser, cleaned, cleanups, answer,
    store, issued, valid, told, next, command,
    tip, tree, pass, view, step, pin, validated, nth, descriptors, handed, clean, proof, proved,
    refused, kept, unrunnable, reported, verdict, met,
    instance, starts, stranger, plan, found, noticed, outcome, applied, began, stopped,
    authored, materialized, author, listed, given, held, due, source, inherited, pins, rights, faulty,
    text,
    extends, values, named, judged, findings,
    part  \* the module that moves

S == INSTANCE Skills
D == INSTANCE Demo
R == INSTANCE Data
P == INSTANCE Paths
V == INSTANCE Serve WITH Database <- Mounted
C == INSTANCE Cloud WITH NoToken <- None

\* The terminal interface: some databases, and bounds that let a command begin.
ASSUME ScreensAssumption ==
    /\ IsFiniteSet(Database) /\ Depth \in Nat /\ MaxPage \in Nat
    /\ MaxWaiting \in Nat \ {0}

\* No command of Data is none.
ASSUME DataAssumption ==
    /\ None \notin R!Command
    /\ MaxId \in Nat /\ MaxRuns \in Nat /\ Limit \in Nat

\* No command, no token and no page are none of what the cloud commands keep.
ASSUME CloudAssumption ==
    /\ MaxTokens \in Nat /\ None \notin 1 .. MaxTokens
    /\ None \notin C!Command

\* The agent that skills are installed for when none is found is an agent.
ASSUME SkillsAssumption == First \in Harness /\ MaxChanges \in Nat

\* What OVDB.md may list: manifests with and without an attachment, alone or
\* beside another, with a descriptor that fits or not, and more than are judged.
Listings ==
    {[sound |-> TRUE, entries |-> list] : list \in
        {<<"plain">>, <<"plain", "attached">>, <<"plain", "descriptor">>,
         <<"misfit", "attached">>, <<"plain", "plain", "plain">>}}
    \cup {[sound |-> FALSE, entries |-> <<"invalid">>]}

K == INSTANCE PublisherCheck WITH NoCommit <- None, Listing <- Listings

\* No commit is none.
ASSUME CheckAssumption == None \notin Commit /\ MaxManifests \in Nat

L == INSTANCE Client WITH server <- instance, seen <- found, told <- outcome, did <- applied

\* A server runs on a port; no server, no port and no answer are none of them.
ASSUME ClientAssumption ==
    /\ DefaultPort \in Port /\ MaxStarts \in Nat
    /\ None \notin Port \cup L!Known \cup L!Outcomes

G == INSTANCE Rights WITH NoTerm <- None, NoServer <- None, step <- due, refused <- faulty

\* No license and no server are none of those there are.
ASSUME RightsAssumption == IsFiniteSet(Server) /\ None \notin Server /\ None \notin Term

N == INSTANCE Punycode

\* Texts have a length.
ASSUME NamesAssumption == MaxLetters \in Nat

H == INSTANCE Chains WITH nth <- judged

\* A file has an end, and so has the longest chain.
ASSUME ChainsAssumption == IsFiniteSet(Concept) /\ MaxChain \in Nat

skillsVars == <<copy, journal, unusable, detected, changes, pc, shown, request, agreed, left, at, did>>
demoVars == <<folder, lists, notes, registered, recorded, install, lost>>
dataVars == <<mounted, declared, record, ran, doing, seen, said>>
serveVars == <<main, database, call, served, guarded, stopping, pending, releaser, cleaned, cleanups, answer>>
cloudVars == <<store, issued, valid, told, next, command>>
checkVars == <<tip, tree, pass, view, step, pin, validated, nth, descriptors, handed, clean, proof, proved,
               refused, kept, unrunnable, reported, verdict, met>>
clientVars == <<instance, starts, stranger, plan, found, noticed, outcome, applied, began, stopped>>
rightsVars == <<authored, materialized, author, listed, given, held, due, source, inherited, pins, rights, faulty>>
chainsVars == <<extends, values, named, judged, findings>>

installVars == <<vars, skillsVars, demoVars>>
commandVars == <<dataVars, place, serveVars, cloudVars, clientVars>>
publisherVars == <<checkVars, rightsVars, text, chainsVars>>

\* The modules that stand still are in one initial state.
ConsoleInit ==
    /\ part \in {"screens", "skills", "demo", "data", "paths", "serve", "cloud", "check", "client",
                "rights", "names", "chains"}
    /\ Init /\ (part # "screens" => menu = {"server", "settings", "use_port"})
    /\ S!Init /\ (part # "skills" => copy = [p \in Harness \cup Folder |-> "none"] /\ detected = {})
    \* An agent that is not found has no copy, unless it goes later.
    /\ \A h \in Harness : h \in detected \/ copy[h] = "none"
    /\ D!Init /\ (part # "demo" => folder = [id \in Id |-> "absent"] /\ registered = [id \in Id |-> "no"])
    /\ R!Init /\ (part # "data" => declared /\ \A i \in DOMAIN record : record[i] = 0)
    /\ P!Init /\ V!Init
    /\ C!Init /\ (part # "cloud" => \A p \in DOMAIN next : next[p] = None)
    /\ K!Init
    \* Objects are replaced in one commit at most.
    /\ \A c \in Commit \ {tip} : tree["legacy"][c] = tree["original"][c]
    /\ tip = CHOOSE c \in Commit : TRUE
    /\ part # "check" => \A v \in DOMAIN tree, c \in Commit : Len(tree[v][c].entries) = 3
    /\ L!Init /\ (part # "client" => \A c \in Terminal : plan[c] =
          [command |-> "stop", at |-> "check", start |-> FALSE, port |-> None, again |-> FALSE])
    /\ N!Init
    /\ \/ part = "rights"
       \/ /\ part # "rights" /\ listed = {} /\ given = "missing"
          /\ authored = [server |-> "none", database |-> None, recordsets |-> [r \in Recordset |-> None], names |-> {}]
          /\ author = [sound |-> TRUE, id |-> (CHOOSE s \in Server : TRUE), terms |-> None]
          /\ materialized = (CHOOSE t \in Term : TRUE)
    /\ G!Init
    /\ \/ part = "chains"
       \/ /\ part # "chains" /\ named = TRUE
          /\ extends = [c \in Concept |-> [form |-> "none", id |-> Unknown]]
          /\ values = [c \in Taking |-> [form |-> "none", id |-> Unknown]]
    /\ H!Init

ConsoleNext ==
    /\ \/ /\ \/ part = "screens" /\ Next /\ UNCHANGED <<skillsVars, demoVars>>
             \/ part = "skills" /\ S!Next /\ UNCHANGED <<vars, demoVars>>
             \/ part = "demo" /\ D!Next /\ UNCHANGED <<vars, skillsVars>>
          /\ UNCHANGED <<commandVars, publisherVars>>
       \/ /\ \/ part = "data" /\ R!Next /\ UNCHANGED <<place, serveVars, cloudVars, clientVars>>
             \/ part = "paths" /\ P!Next /\ UNCHANGED <<dataVars, serveVars, cloudVars, clientVars>>
             \/ part = "serve" /\ V!Next /\ UNCHANGED <<dataVars, place, cloudVars, clientVars>>
             \/ part = "cloud" /\ C!Next /\ UNCHANGED <<dataVars, place, serveVars, clientVars>>
             \/ part = "client" /\ L!Next /\ UNCHANGED <<dataVars, place, serveVars, cloudVars>>
          /\ UNCHANGED <<installVars, publisherVars>>
       \/ /\ \/ part = "check" /\ K!Next /\ UNCHANGED <<rightsVars, text, chainsVars>>
             \/ part = "rights" /\ G!Next /\ UNCHANGED <<checkVars, text, chainsVars>>
             \/ part = "names" /\ N!Next /\ UNCHANGED <<checkVars, rightsVars, chainsVars>>
             \/ part = "chains" /\ H!Next /\ UNCHANGED <<checkVars, rightsVars, text>>
          /\ UNCHANGED <<installVars, commandVars>>
    /\ UNCHANGED part

ConsoleSpec == ConsoleInit /\ [][ConsoleNext]_<<installVars, commandVars, publisherVars, part>>

\* Every variable of the module that moves keeps its type, and every bound holds.
ConsoleTypeOK ==
    CASE part = "screens" -> ScreensTypeOK
      [] part = "skills" -> S!SkillsTypeOK
      [] part = "demo" -> D!DemoTypeOK
      [] part = "data" -> R!DataTypeOK
      [] part = "paths" -> P!PathsTypeOK
      [] part = "serve" -> V!ServeTypeOK
      [] part = "cloud" -> C!CloudTypeOK
      [] part = "check" -> K!CheckTypeOK
      [] part = "client" -> L!ClientTypeOK
      [] part = "rights" -> G!RightsTypeOK
      [] part = "names" -> N!PunycodeTypeOK
      [] part = "chains" -> H!ChainsTypeOK

\* The server writes only to folders the person was shown and said yes to, in
\* this request: OnlyAsAgreed of Skills, when no copy is edited meanwhile
\* (skills.go:515-533).  Whoever is told that the demo is installed finds its
\* lists, and no install deletes what people wrote: DemoIsWhole of Demo
\* (demo.go:6-10, 175-178).
InstallsAsAgreed == (part = "skills" => S!OnlyAsAgreed) /\ (part = "demo" => D!DemoIsWhole)

\* What a data command says happened did happen, and a place that is written
\* is read as the same place: DataIsTold of Data, PathsComeBack of Paths
\* (data.go:268-279, 524-540, datapath.go:58-80, 161-167).  A repository that
\* `ovdb publisher check` finds in order is in order: CheckIsSound of
\* PublisherCheck (check.go:89-150), its rights are proved, a host has one
\* name and no concept a broken chain: RightsAreProved of Rights, OneSpelling of
\* Punycode, ChainsAreJudged of Chains (manifest.go:66, verify.go:27-28,
\* punycode.go:5-30, chains.go:10-15).  A command talks to this home's server or
\* says that it did not: ClientKeepsToItsServer of Client (client.go:92-112,
\* 388-420, 432-458).
DataIsTold ==
    /\ part = "data" => R!DataIsTold
    /\ part = "paths" => P!PathsComeBack
    /\ part = "check" => K!CheckIsSound
    /\ part = "client" => L!ClientKeepsToItsServer
    /\ part = "rights" => G!RightsAreProved
    /\ part = "names" => N!OneSpelling
    /\ part = "chains" => H!ChainsAreJudged

\* No command ends with something open that it started: a database under a
\* request, a cleanup, a token of the cloud: ServeIsSafe of Serve,
\* CloudIsKept of Cloud (serve.go:347-436, cloud.go:152-188, 276-283).
NothingIsLeft == (part = "serve" => V!ServeIsSafe) /\ (part = "cloud" => C!CloudIsKept)
=============================================================================
