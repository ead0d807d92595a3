---------------------------- MODULE ConsoleProofs ----------------------------
(***************************************************************************)
(* Theorems about what people work with, for any number of commands,       *)
(* agents, folders and clients - Screens (the terminal interface), Skills   *)
(* (S) and Demo (D) -, about chains of concepts of any length (Chains, H),  *)
(* and about MCConsole, which puts all of it together.                      *)
(***************************************************************************)
EXTENDS CommandProofs, WellFoundedInduction

-----------------------------------------------------------------------------
(* Screens: sequences of commands *)

LEMMA RemoveAtIs ==
  ASSUME NEW Elem, NEW s \in Seq(Elem), NEW i \in 1 .. Len(s)
  PROVE  /\ RemoveAt(s, i) \in Seq(Elem)
         /\ Len(RemoveAt(s, i)) = Len(s) - 1
         /\ \A j \in 1 .. Len(s) - 1 : RemoveAt(s, i)[j] = IF j < i THEN s[j] ELSE s[j + 1]
  <1> DEFINE a == SubSeq(s, 1, i - 1)
             b == SubSeq(s, i + 1, Len(s))
  <1>1. Len(s) \in Nat /\ i \in Int /\ 1 <= i /\ i <= Len(s)
    OBVIOUS
  <1>2. a \in Seq(Elem) /\ Len(a) = i - 1 /\ \A j \in 1 .. i - 1 : a[j] = s[j]
    BY <1>1
  <1>3. b \in Seq(Elem) /\ Len(b) = Len(s) - i /\ \A j \in 1 .. Len(s) - i : b[j] = s[j + i]
    BY <1>1
  <1>4. RemoveAt(s, i) = a \o b
    BY Zenon DEF RemoveAt
  <1> HIDE DEF a, b
  <1>5. a \o b \in Seq(Elem) /\ Len(a \o b) = Len(s) - 1
    <2>1. Len(a \o b) = Len(a) + Len(b) /\ a \o b \in Seq(Elem)
      BY <1>2, <1>3, ConcatProperties
    <2>2. QED
      BY <1>1, <1>2, <1>3, <2>1
  <1>6. ASSUME NEW j \in 1 .. Len(s) - 1
        PROVE  (a \o b)[j] = IF j < i THEN s[j] ELSE s[j + 1]
    <2>1. CASE j < i
      BY <1>1, <1>2, <1>3, <2>1
    <2>2. CASE ~(j < i)
      <3>1. (a \o b)[j] = b[j - (i - 1)]
        BY <1>1, <1>2, <1>3, <2>2
      <3>2. b[j - (i - 1)] = s[(j - (i - 1)) + i] /\ (j - (i - 1)) + i = j + 1
        BY <1>1, <1>3, <2>2
      <3>3. QED
        BY <2>2, <3>1, <3>2
    <2>3. QED
      BY <2>1, <2>2
  <1>7. QED
    BY <1>4, <1>5, <1>6

-----------------------------------------------------------------------------
(* Screens: who waits for whom *)

\* The operations under way, by their place.
Working == {i \in 1 .. Len(waiting) : waiting[i].what \in Operations}

\* Connect is not reached.
Away == screen # "connect" /\ problemFrom # "connect"

\* What people do not take starts neither command of Connect.
Allowed(what) == "connect" \notin menu => what \notin {"connectEngines", "connectDatabase"}

\* Neither command of Connect is under way.
NoConnect == \A i \in 1 .. Len(waiting) : waiting[i].what \notin {"connectEngines", "connectDatabase"}

\* The server offers what the keys of its screen know.
Offers == server \subseteq {"start", "restart", "stop", "open"}

\* The strengthened invariant: keys wait for an operation that is under way;
\* away from Connect they wait for the only one.
WaitingInv ==
    /\ menu \in Menus /\ Offers
    /\ \E Elem : waiting \in Seq(Elem)
    /\ busy => Working # {}
    /\ "connect" \notin menu =>
          /\ Away /\ NoConnect
          /\ Working # {} => busy
          /\ \A i, j \in Working : i = j

\* A command is started, or none.
Starts ==
    \/ UNCHANGED <<waiting, busy>>
    \/ \E c : /\ waiting' = Append(waiting, c) /\ Allowed(c.what)
              /\ busy' <=> c.what \in Operations

\* What a key does to the commands under way.
KeyEffect ==
    /\ UNCHANGED menu /\ ~busy /\ Offers'
    /\ Starts
    /\ "connect" \notin menu => Away'

LEMMA LoadStarts ==
  ASSUME ~busy, NEW what \in Loads, NEW where, Load(what, where), Allowed(what)
  PROVE  Starts
  <1> DEFINE c == Command(what, where)
  <1>1. c.what = what
    BY DEF Command
  <1>2. waiting' = Append(waiting, c) /\ UNCHANGED busy
    BY DEF Load
  <1>3. what \notin Operations
    BY DEF Loads, Operations
  <1> HIDE DEF c
  <1>4. QED
    BY <1>1, <1>2, <1>3 DEF Starts

LEMMA RunStarts ==
  ASSUME ~busy, NEW what \in Operations, NEW where, Run(what, where), Allowed(what)
  PROVE  Starts
  <1> DEFINE c == Command(what, where)
  <1>1. c.what = what
    BY DEF Command
  <1>2. waiting' = Append(waiting, c) /\ busy' = TRUE
    BY DEF Run
  <1> HIDE DEF c
  <1>3. QED
    BY <1>1, <1>2 DEF Starts

\* Keys of the screens that enter other screens.
LEMMA EntersIs ==
  ASSUME ~busy, Offers, UNCHANGED menu
  PROVE  /\ EnterHome => Starts /\ screen' = "home"
         /\ EnterServer => Starts /\ screen' = "server" /\ Offers'
         /\ EnterSettings => Starts /\ screen' = "settings" /\ Offers'
         /\ EnterCreate => Starts /\ screen' = "create" /\ Offers'
         /\ EnterConnect /\ "connect" \in menu => Starts /\ Offers'
         /\ EnterConnectManifest /\ "connect" \in menu => Starts /\ Offers'
         /\ EnterDatabases => Starts /\ screen' = "databases" /\ Offers'
         /\ EnterBrowse => Starts /\ screen' = "browse" /\ Offers'
         /\ \A db : BrowseDatabase(db) => Starts /\ screen' = "browse" /\ Offers'
         /\ \A path, page : BrowseTo(path, page) => Starts /\ screen' = "browse" /\ Offers'
         /\ EnterDemo => Starts /\ screen' = "demo" /\ Offers'
         /\ EnterSkills => Starts /\ screen' = "skills" /\ Offers'
         /\ OfferSkill => Starts /\ screen' = "skills" /\ Offers'
         /\ \A db : EnterExplore(db) => Starts /\ screen' = "explore" /\ Offers'
  <1> USE DEF Offers, Loads, Allowed, Enter, Lists
  <1>1. EnterHome => Starts /\ screen' = "home"
    BY LoadStarts DEF EnterHome
  <1>2. EnterServer => Starts /\ screen' = "server" /\ Offers'
    BY LoadStarts DEF EnterServer
  <1>3. EnterSettings => Starts /\ screen' = "settings" /\ Offers'
    BY LoadStarts DEF EnterSettings
  <1>4. EnterCreate => Starts /\ screen' = "create" /\ Offers'
    BY LoadStarts DEF EnterCreate
  <1>5. EnterConnect /\ "connect" \in menu => Starts /\ Offers'
    BY LoadStarts DEF EnterConnect
  <1>6. EnterConnectManifest /\ "connect" \in menu => Starts /\ Offers'
    BY LoadStarts DEF EnterConnectManifest
  <1>7. EnterDatabases => Starts /\ screen' = "databases" /\ Offers'
    BY LoadStarts DEF EnterDatabases
  <1>8. EnterBrowse => Starts /\ screen' = "browse" /\ Offers'
    BY LoadStarts DEF EnterBrowse
  <1>9. ASSUME NEW db, BrowseDatabase(db) PROVE Starts /\ screen' = "browse" /\ Offers'
    BY <1>9, LoadStarts DEF BrowseDatabase
  <1>10. ASSUME NEW path, NEW page, BrowseTo(path, page)
         PROVE  Starts /\ screen' = "browse" /\ Offers'
    <2>1. PICK where : Load("page", where)
      BY <1>10, Zenon DEF BrowseTo
    <2>2. QED
      BY <1>10, <2>1, LoadStarts DEF BrowseTo
  <1>11. EnterDemo => Starts /\ screen' = "demo" /\ Offers'
    BY LoadStarts DEF EnterDemo
  <1>12. EnterSkills => Starts /\ screen' = "skills" /\ Offers'
    BY LoadStarts DEF EnterSkills
  <1>13. OfferSkill => Starts /\ screen' = "skills" /\ Offers'
    BY LoadStarts DEF OfferSkill
  <1>14. ASSUME NEW db, EnterExplore(db) PROVE Starts /\ screen' = "explore" /\ Offers'
    BY <1>14, LoadStarts DEF EnterExplore
  <1>15. QED
    BY <1>1, <1>2, <1>3, <1>4, <1>5, <1>6, <1>7, <1>8, <1>9, <1>10, <1>11, <1>12, <1>13, <1>14, Zenon

LEMMA HomeKeys ==
  ASSUME WaitingInv, HomeKey
  PROVE  KeyEffect
  <1>1. screen = "home" /\ ~busy /\ UNCHANGED <<menu, problemFrom>> /\ Offers
    BY DEF HomeKey, Key, Entering, WaitingInv
  <1>2. \/ "connect" \in menu /\ EnterConnect
        \/ EnterServer
        \/ EnterSettings
        \/ EnterCreate
        \/ EnterDatabases
        \/ EnterBrowse
        \/ EnterDemo
        \/ EnterSkills
        \/ EnterExplore(None)
    BY Zenon DEF HomeKey
  <1>3. Starts /\ Offers' /\ (screen' = "connect" => "connect" \in menu)
    <2>1. CASE "connect" \in menu /\ EnterConnect
      BY <1>1, <2>1, EntersIs
    <2>2. CASE EnterServer \/ EnterSettings \/ EnterCreate \/ EnterDatabases
      BY <1>1, <2>2, EntersIs
    <2>3. CASE EnterBrowse \/ EnterDemo \/ EnterSkills \/ EnterExplore(None)
      BY <1>1, <2>3, EntersIs
    <2>4. QED
      BY <1>2, <2>1, <2>2, <2>3
  <1>4. QED
    BY <1>1, <1>3 DEF KeyEffect, WaitingInv, Away

LEMMA ServerKeys ==
  ASSUME WaitingInv, ServerKey \/ SettingsKey
  PROVE  KeyEffect
  <1>1. ~busy /\ UNCHANGED <<menu, screen, problemFrom, server>>
    BY DEF ServerKey, SettingsKey, Key, Staying, Lists
  <1>2. Starts
    <2>1. CASE ServerKey
      <3> DEFINE Started(action) ==
            CASE action \in {"start", "restart"} -> "startServer"
              [] action = "stop" -> "stopServer"
              [] action = "open" -> "openBrowser"
      <3>1. PICK action \in ServerMenu : Run(Started(action), Nowhere)
        BY <2>1, Zenon DEF ServerKey
      <3>2. action \in {"start", "restart", "stop", "open"}
        BY <3>1 DEF ServerMenu, WaitingInv, Offers
      <3>3. Started(action) \in {"startServer", "stopServer", "openBrowser"}
        BY <3>2
      <3> HIDE DEF Started
      <3>4. Started(action) \in Operations /\ Allowed(Started(action))
        BY <3>3 DEF Operations, Allowed
      <3>5. QED
        BY <1>1, <3>1, <3>4, RunStarts
    <2>2. CASE SettingsKey
      <3>1. Run("saveConfig", Nowhere) \/ NoCommand
        BY <2>2, Zenon DEF SettingsKey
      <3>2. "saveConfig" \in Operations /\ Allowed("saveConfig")
        BY DEF Operations, Allowed
      <3>3. QED
        BY <1>1, <3>1, <3>2, RunStarts DEF NoCommand, Starts
    <2>3. QED
      BY <2>1, <2>2
  <1>3. QED
    BY <1>1, <1>2 DEF KeyEffect, WaitingInv, Away, Offers

LEMMA LeaveKeys ==
  ASSUME WaitingInv, Leave
  PROVE  KeyEffect
  <1>1. /\ ~busy /\ EnterHome /\ UNCHANGED <<menu, server>>
        /\ problemFrom' = problemFrom \/ problemFrom' = None
    BY DEF Leave, BackHome, Lists
  <1>2. Starts /\ screen' = "home"
    BY <1>1, EntersIs DEF WaitingInv
  <1>3. QED
    BY <1>1, <1>2, MenusAssumption DEF KeyEffect, WaitingInv, Away, Offers

LEMMA FormKeys ==
  ASSUME WaitingInv, CreateKey \/ CreateForm \/ ConnectKey \/ ConnectForm
  PROVE  KeyEffect
  <1>1. ~busy /\ UNCHANGED <<menu, problemFrom>> /\ Offers
    BY DEF CreateKey, CreateForm, ConnectKey, ConnectForm, Key, Staying, Entering, WaitingInv
  <1>2. CASE CreateKey
    <2>1. \/ NoCommand /\ UNCHANGED <<screen, server>>
          \/ "connect" \in menu /\ EnterConnectManifest
      BY <1>2 DEF CreateKey, Staying, Lists
    <2>2. CASE NoCommand /\ UNCHANGED <<screen, server>>
      BY <1>1, <2>2 DEF KeyEffect, WaitingInv, Away, Offers, NoCommand, Starts
    <2>3. CASE "connect" \in menu /\ EnterConnectManifest
      <3>1. Starts /\ Offers'
        BY <1>1, <2>3, EntersIs
      <3>2. QED
        BY <1>1, <2>3, <3>1 DEF KeyEffect
    <2>4. QED
      BY <2>1, <2>2, <2>3
  <1>3. CASE CreateForm
    <2>1. Run("createDatabase", Nowhere) /\ UNCHANGED <<screen, server>>
      BY <1>3 DEF CreateForm, Staying, Lists
    <2>2. Starts
      BY <1>1, <2>1, RunStarts DEF Operations, Allowed
    <2>3. QED
      BY <1>1, <2>1, <2>2 DEF KeyEffect, WaitingInv, Away, Offers
  <1>4. CASE ConnectKey \/ ConnectForm
    <2>1. "connect" \in menu
      BY <1>4 DEF ConnectKey, ConnectForm, Key, WaitingInv, Away
    <2>2. (Run("connectDatabase", Nowhere) \/ NoCommand) /\ UNCHANGED server
      BY <1>4 DEF ConnectKey, ConnectForm, Lists
    <2>3. Starts
      <3>1. "connectDatabase" \in Operations /\ Allowed("connectDatabase")
        BY <2>1 DEF Operations, Allowed
      <3>2. QED
        BY <1>1, <2>2, <3>1, RunStarts DEF NoCommand, Starts
    <2>4. QED
      BY <1>1, <2>1, <2>2, <2>3 DEF KeyEffect, Offers
  <1>5. QED
    BY <1>2, <1>3, <1>4

LEMMA DatabasesKeys ==
  ASSUME WaitingInv, DatabasesList \/ DatabasesDetails \/ DatabasesConfirm
  PROVE  KeyEffect
  <1>1. ~busy /\ Offers
    BY DEF DatabasesList, DatabasesDetails, DatabasesConfirm, Key, WaitingInv
  <1>2. \/ \E change : DatabasesMove(change)
        \/ EnterCreate /\ Entering
        \/ \E db : BrowseDatabase(db) /\ Entering
        \/ \E db : \E what \in {"useInProject", "reloadDatabase", "removeDatabase"} :
              Run(what, At(db)) /\ Staying /\ UNCHANGED server
    <2>1. CASE DatabasesList
      BY <2>1, Zenon DEF DatabasesList
    <2>2. CASE DatabasesDetails
      <3>1. \/ \E change : DatabasesMove(change)
            \/ \E db : BrowseDatabase(db) /\ Entering
            \/ \E db : Run("useInProject", At(db)) /\ Staying /\ UNCHANGED <<Forms, Lists>>
            \/ OnSelected("reloadDatabase")
        BY <2>2, Zenon DEF DatabasesDetails
      <3>2. QED
        BY <3>1 DEF OnSelected, Lists
    <2>3. CASE DatabasesConfirm
      <3>1. (\E change : DatabasesMove(change)) \/ OnSelected("removeDatabase")
        BY <2>3, Zenon DEF DatabasesConfirm
      <3>2. QED
        BY <3>1 DEF OnSelected
    <2>4. QED
      BY <2>1, <2>2, <2>3
  <1>3. CASE \E change : DatabasesMove(change)
    <2>1. UNCHANGED <<menu, screen, problemFrom, waiting, busy, server>>
      BY <1>3 DEF DatabasesMove, Staying, NoCommand
    <2>2. QED
      BY <1>1, <2>1 DEF KeyEffect, WaitingInv, Away, Offers, Starts
  <1>4. CASE (EnterCreate \/ \E db : BrowseDatabase(db)) /\ Entering
    <2>1. UNCHANGED <<menu, problemFrom>>
      BY <1>4 DEF Entering
    <2>2. Starts /\ screen' # "connect" /\ Offers'
      BY <1>1, <1>4, <2>1, EntersIs
    <2>3. QED
      BY <1>1, <2>1, <2>2 DEF KeyEffect, WaitingInv, Away
  <1>5. ASSUME NEW db, NEW what \in {"useInProject", "reloadDatabase", "removeDatabase"},
               Run(what, At(db)), Staying, UNCHANGED server
        PROVE  KeyEffect
    <2>1. what \in Operations /\ Allowed(what)
      BY DEF Operations, Allowed
    <2>2. Starts
      BY <1>1, <1>5, <2>1, RunStarts
    <2>3. QED
      BY <1>1, <1>5, <2>2 DEF KeyEffect, WaitingInv, Away, Offers, Staying
  <1>6. QED
    BY <1>2, <1>3, <1>4, <1>5

LEMMA BrowseKeys ==
  ASSUME WaitingInv, BrowseDatabases \/ BrowseList \/ BrowseRecord
  PROVE  KeyEffect
  <1>1. ~busy /\ Offers
    BY DEF BrowseDatabases, BrowseList, BrowseRecord, Key, WaitingInv
  <1>2. \/ (\/ \E db : BrowseDatabase(db) 
            \/ \E path, page : BrowseTo(path, page)
            \/ EnterBrowse) /\ Entering
        \/ NoCommand /\ Staying /\ UNCHANGED server
    <2>1. CASE BrowseDatabases
      BY <2>1, Zenon DEF BrowseDatabases
    <2>2. CASE BrowseList
      BY <2>2, Zenon DEF BrowseList
    <2>3. CASE BrowseRecord
      BY <2>3 DEF BrowseRecord
    <2>4. QED
      BY <2>1, <2>2, <2>3
  <1>3. CASE (\/ \E db : BrowseDatabase(db) 
              \/ \E path, page : BrowseTo(path, page)
              \/ EnterBrowse) /\ Entering
    <2>1. UNCHANGED <<menu, problemFrom>>
      BY <1>3 DEF Entering
    <2>2. Starts /\ screen' # "connect" /\ Offers'
      BY <1>1, <1>3, <2>1, EntersIs
    <2>3. QED
      BY <1>1, <2>1, <2>2 DEF KeyEffect, WaitingInv, Away
  <1>4. CASE NoCommand /\ Staying /\ UNCHANGED server
    BY <1>1, <1>4 DEF KeyEffect, WaitingInv, Away, Offers, Starts, NoCommand, Staying
  <1>5. QED
    BY <1>2, <1>3, <1>4

LEMMA OtherKeys ==
  ASSUME WaitingInv, DemoKey \/ SkillsKey \/ ExploreKey
  PROVE  KeyEffect
  <1>1. ~busy /\ Offers /\ UNCHANGED <<menu, problemFrom, server>>
    BY DEF DemoKey, SkillsKey, ExploreKey, Key, WaitingInv, Staying, Lists
  <1>2. NoCommand \/ \E what \in {"installDemo", "installSkill", "exploreCLI", "exploreApp"} :
                        \E where : Run(what, where)
    <2>1. CASE DemoKey
      BY <2>1, Zenon DEF DemoKey
    <2>2. CASE SkillsKey
      BY <2>2, Zenon DEF SkillsKey
    <2>3. CASE ExploreKey
      BY <2>3, Zenon DEF ExploreKey
    <2>4. QED
      BY <2>1, <2>2, <2>3
  <1>3. Starts
    <2>1. CASE NoCommand
      BY <2>1 DEF NoCommand, Starts
    <2>2. ASSUME NEW what \in {"installDemo", "installSkill", "exploreCLI", "exploreApp"},
                 NEW where, Run(what, where)
          PROVE  Starts
      <3>1. what \in Operations /\ Allowed(what)
        BY DEF Operations, Allowed
      <3>2. QED
        BY <1>1, <2>2, <3>1, RunStarts
    <2>3. QED
      BY <1>2, <2>1, <2>2
  <1>4. screen' = screen \/ screen' = "result"
    BY DEF DemoKey, SkillsKey, ExploreKey, Staying
  <1>5. QED
    BY <1>1, <1>3, <1>4 DEF KeyEffect, WaitingInv, Away, Offers

LEMMA EndKeys ==
  ASSUME WaitingInv, ResultKey \/ ProblemKey
  PROVE  KeyEffect
  <1>1. ~busy /\ Offers /\ UNCHANGED menu
    BY DEF ResultKey, ProblemKey, Key, WaitingInv, Entering, Staying
  <1>2. CASE ResultKey
    <2>1. \/ (\/ OfferSkill \/ EnterSkills \/ EnterDatabases
              \/ \E db : BrowseDatabase(db) \/ EnterExplore(db)) /\ Entering
          \/ (\E where : Run("useInProject", where) \/ Run("openDemo", where))
               /\ Staying /\ UNCHANGED <<Forms, Lists>>
      BY <1>2, Zenon DEF ResultKey
    <2>2. CASE (\/ OfferSkill \/ EnterSkills \/ EnterDatabases
                \/ \E db : BrowseDatabase(db) \/ EnterExplore(db)) /\ Entering
      <3>1. Starts /\ screen' # "connect" /\ Offers'
        BY <1>1, <2>2, EntersIs
      <3>2. QED
        BY <1>1, <2>2, <3>1 DEF KeyEffect, WaitingInv, Away, Entering
    <2>3. CASE (\E where : Run("useInProject", where) \/ Run("openDemo", where))
                 /\ Staying /\ UNCHANGED <<Forms, Lists>>
      <3>1. \A what \in {"useInProject", "openDemo"} : what \in Operations /\ Allowed(what)
        BY DEF Operations, Allowed
      <3>2. Starts
        BY <1>1, <2>3, <3>1, RunStarts
      <3>3. QED
        BY <1>1, <2>3, <3>2 DEF KeyEffect, WaitingInv, Away, Offers, Staying, Lists
    <2>4. QED
      BY <2>1, <2>2, <2>3
  <1>3. CASE ProblemKey
    <2>1. screen = "problem"
      BY <1>3 DEF ProblemKey, Key
    <2>2. PICK n \in problem \cap menu :
            \/ n = "use_port" /\ Run("usePort", Nowhere) /\ UNCHANGED <<screen, loaded, Forms, Lists, problemFrom>>
            \/ problemFrom = "connect" /\ problemFrom' = None /\ ConnectRemedy(n)
            \/ /\ UNCHANGED problemFrom
               /\ \/ n = "edit_manifest" /\ EnterConnectManifest
                  \/ CreateRemedy
                  \/ EnterDatabases
      BY <1>3, Zenon DEF ProblemKey
    <2>3. CASE Run("usePort", Nowhere) /\ UNCHANGED <<screen, loaded, Forms, Lists, problemFrom>>
      <3>1. "usePort" \in Operations /\ Allowed("usePort")
        BY DEF Operations, Allowed
      <3>2. Starts
        BY <1>1, <2>3, <3>1, RunStarts
      <3>3. QED
        BY <1>1, <2>3, <3>2 DEF KeyEffect, WaitingInv, Away, Offers, Lists
    <2>4. CASE problemFrom = "connect" /\ problemFrom' = None /\ ConnectRemedy(n)
      <3>1. "connect" \in menu
        BY <2>4 DEF WaitingInv, Away
      <3>2. Starts /\ UNCHANGED server
        BY <2>4 DEF ConnectRemedy, NoCommand, Starts, Lists
      <3>3. QED
        BY <1>1, <3>1, <3>2 DEF KeyEffect, Offers
    <2>5. CASE UNCHANGED problemFrom /\ n = "edit_manifest" /\ EnterConnectManifest
      <3>1. "connect" \in menu
        BY <2>2, <2>5, MenusAssumption DEF WaitingInv
      <3>2. Starts /\ Offers'
        BY <1>1, <2>5, <3>1, EntersIs
      <3>3. QED
        BY <1>1, <3>1, <3>2 DEF KeyEffect
    <2>6. CASE UNCHANGED problemFrom /\ (CreateRemedy \/ EnterDatabases)
      <3>1. CASE EnterDatabases
        <4>1. Starts /\ screen' = "databases" /\ Offers'
          BY <1>1, <3>1, EntersIs
        <4>2. QED
          BY <1>1, <2>6, <4>1 DEF KeyEffect, WaitingInv, Away
      <3>2. CASE CreateRemedy
        BY <1>1, <2>6, <3>2 DEF CreateRemedy, NoCommand, Starts, Lists, KeyEffect, WaitingInv, Away, Offers
      <3>3. QED
        BY <2>6, <3>1, <3>2
    <2>7. QED
      BY <2>2, <2>3, <2>4, <2>5, <2>6
  <1>4. QED
    BY <1>2, <1>3

\* What a key starts keeps the invariant.
LEMMA KeyKeeps ==
  ASSUME WaitingInv, KeyEffect
  PROVE  WaitingInv'
  <1>1. menu' = menu /\ menu' \in Menus /\ Offers' /\ ~busy /\ ("connect" \notin menu => Away')
    BY DEF WaitingInv, KeyEffect
  <1>2. CASE UNCHANGED <<waiting, busy>>
    <2>1. Working' = Working
      BY <1>2 DEF Working
    <2>2. QED
      BY <1>1, <1>2, <2>1 DEF WaitingInv, NoConnect
  <1>3. ASSUME NEW c, waiting' = Append(waiting, c), Allowed(c.what), busy' <=> c.what \in Operations
        PROVE  WaitingInv'
    <2> PICK Elem : waiting \in Seq(Elem)
      BY DEF WaitingInv
    <2> DEFINE n == Len(waiting)
    <2>1. n \in Nat /\ waiting \in Seq(Elem \cup {c})
      OBVIOUS
    <2>2. /\ waiting' \in Seq(Elem \cup {c}) /\ Len(waiting') = n + 1 /\ waiting'[n + 1] = c
          /\ \A i \in 1 .. n : waiting'[i] = waiting[i]
      BY <1>3, <2>1
    <2>3. \E E : waiting' \in Seq(E)
      BY <2>2
    <2>4. \A i \in 1 .. n : i \in Working' <=> i \in Working
      BY <2>1, <2>2 DEF Working
    <2>5. n + 1 \in Working' <=> c.what \in Operations
      BY <2>1, <2>2 DEF Working
    <2>6. Working \subseteq 1 .. n /\ Working' \subseteq 1 .. n \cup {n + 1}
      BY <2>1, <2>2 DEF Working
    <2>7. busy' => Working' # {}
      BY <1>3, <2>5
    <2>8. ASSUME "connect" \notin menu
          PROVE  /\ NoConnect'
                 /\ Working' # {} => busy'
                 /\ \A i, j \in Working' : i = j
      <3>1. Working = {}
        BY <1>1, <2>8 DEF WaitingInv
      <3>2. Working' \subseteq {n + 1}
        BY <2>4, <2>6, <3>1
      <3>3. NoConnect'
        BY <1>3, <2>1, <2>2, <2>8 DEF WaitingInv, NoConnect, Allowed
      <3>4. QED
        BY <1>1, <1>3, <2>5, <3>2, <3>3
    <2>9. QED
      BY <1>1, <2>3, <2>7, <2>8 DEF WaitingInv
  <1>4. QED
    BY <1>2, <1>3 DEF KeyEffect, Starts

\* What an answer changes besides the commands.
LEMMA AnswerIs ==
  ASSUME WaitingInv, NEW i \in 1 .. Len(waiting), Answer(i)
  PROVE  /\ UNCHANGED menu /\ Offers'
         /\ waiting' = RemoveAt(waiting, i)
         /\ busy' = (busy /\ ~Frees(waiting[i]))
         /\ "connect" \notin menu => Away'
  <1> DEFINE c == waiting[i]
  <1>1. UNCHANGED menu /\ waiting' = RemoveAt(waiting, i) /\ busy' = (busy /\ ~Frees(waiting[i]))
    BY Zenon DEF Answer
  <1>2. \/ Fails(c) \/ PageAnswers(c) \/ DemoAnswers(c)
        \/ LoadAnswers(c) \/ OperationAnswers(c)
    BY Zenon DEF Answer
  <1>3. "connect" \notin menu => c.what # "connectDatabase"
    BY DEF WaitingInv, NoConnect
  <1> HIDE DEF c
  <1>4. "connect" \notin menu => Away
    BY DEF WaitingInv
  <1>5. Offers /\ ("connect" \notin menu => problemFrom # "connect")
    BY <1>4 DEF WaitingInv, Away
  <1>6. CASE Fails(c)
    BY <1>1, <1>3, <1>4, <1>5, <1>6 DEF Fails, Lists, Away, Offers
  <1>7. CASE PageAnswers(c)
    BY <1>1, <1>4, <1>5, <1>7 DEF PageAnswers, Lists, Away, Offers
  <1>8. CASE DemoAnswers(c)
    BY <1>1, <1>4, <1>5, <1>8 DEF DemoAnswers, Results, Lists, Away, Offers
  <1>9. CASE LoadAnswers(c)
    <2>1. UNCHANGED <<screen, problemFrom>>
      BY <1>9 DEF LoadAnswers
    <2>2. server' = server \/ server' \in {{"start"}, {"restart", "stop"}}
      BY <1>9 DEF LoadAnswers, Lists
    <2>3. QED
      BY <1>1, <1>4, <1>5, <2>1, <2>2 DEF Away, Offers
  <1>10. CASE OperationAnswers(c)
    <2>1. /\ screen' = screen \/ screen' \in {"server", "result"}
          /\ UNCHANGED problemFrom
      BY <1>10 DEF OperationAnswers, Results
    <2>2. server' = server \/ server' = {"restart", "stop"}
      BY <1>10 DEF OperationAnswers, Results, Lists
    <2>3. QED
      BY <1>1, <1>4, <1>5, <2>1, <2>2 DEF Away, Offers
  <1>11. QED
    BY <1>1, <1>2, <1>6, <1>7, <1>8, <1>9, <1>10

\* An answer ends what it answers and nothing else, away from Connect.
LEMMA AnswerKeeps ==
  ASSUME WaitingInv, NEW i \in 1 .. Len(waiting), Answer(i)
  PROVE  WaitingInv'
  <1>1. /\ menu' = menu /\ menu \in Menus /\ Offers'
        /\ waiting' = RemoveAt(waiting, i)
        /\ busy' = (busy /\ ~Frees(waiting[i]))
        /\ "connect" \notin menu => Away'
    BY AnswerIs DEF WaitingInv
  <1> PICK Elem : waiting \in Seq(Elem)
    BY DEF WaitingInv
  <1> DEFINE n == Len(waiting)
             from(j) == IF j < i THEN j ELSE j + 1
  <1>2. n \in Nat /\ i \in Int /\ 1 <= i /\ i <= n
    OBVIOUS
  <1>3. /\ waiting' \in Seq(Elem) /\ Len(waiting') = n - 1
        /\ \A j \in 1 .. n - 1 : waiting'[j] = IF j < i THEN waiting[j] ELSE waiting[j + 1]
    BY <1>1, RemoveAtIs, Zenon
  <1>4. \A j \in 1 .. n - 1 : from(j) \in 1 .. n /\ from(j) # i /\ waiting'[j] = waiting[from(j)]
    BY <1>2, <1>3
  <1>5. \A j \in 1 .. n : j # i => \E k \in 1 .. n - 1 : from(k) = j
    <2> TAKE j \in 1 .. n
    <2> HAVE j # i
    <2>1. CASE j < i
      <3>1. j \in 1 .. n - 1 /\ from(j) = j
        BY <1>2, <2>1
      <3>2. QED
        BY <3>1
    <2>2. CASE j > i
      <3>1. j - 1 \in 1 .. n - 1 /\ from(j - 1) = j
        BY <1>2, <2>2
      <3>2. QED
        BY <3>1
    <2>3. QED
      BY <1>2, <2>1, <2>2
  <1>6. \A j, k \in 1 .. n - 1 : from(j) = from(k) => j = k
    BY <1>2
  <1> HIDE DEF from
  <1>7. Working \subseteq 1 .. n /\ Working' \subseteq 1 .. n - 1
    BY <1>3 DEF Working
  <1>8. \A j \in 1 .. n - 1 : j \in Working' <=> from(j) \in Working
    BY <1>2, <1>3, <1>4 DEF Working
  <1>9. \E E : waiting' \in Seq(E)
    BY <1>3
  <1>10. busy' => Working' # {}
    <2> SUFFICES ASSUME busy' PROVE Working' # {}
      OBVIOUS
    <2>1. busy /\ i \notin Working
      BY <1>1 DEF Frees, Working
    <2>2. PICK j \in Working : TRUE
      BY <2>1 DEF WaitingInv
    <2>3. PICK k \in 1 .. n - 1 : from(k) = j
      BY <1>5, <1>7, <2>1, <2>2
    <2>4. QED
      BY <1>8, <2>2, <2>3
  <1>11. ASSUME "connect" \notin menu
         PROVE  /\ NoConnect'
                /\ Working' # {} => busy'
                /\ \A j, k \in Working' : j = k
    <2>1. /\ \A j \in 1 .. n : waiting[j].what \notin {"connectEngines", "connectDatabase"}
          /\ Working # {} => busy
          /\ \A j, k \in Working : j = k
      BY <1>11 DEF WaitingInv, NoConnect
    <2>2. \A j \in 1 .. n - 1 : waiting'[j].what \notin {"connectEngines", "connectDatabase"}
      BY <1>4, <2>1
    <2>3. Working' # {} => busy'
      <3> SUFFICES ASSUME NEW j \in Working' PROVE busy'
        OBVIOUS
      <3>1. from(j) \in Working /\ from(j) # i
        BY <1>4, <1>7, <1>8
      <3>2. busy /\ i \notin Working
        BY <2>1, <3>1
      <3>3. ~Frees(waiting[i])
        BY <2>1, <3>2 DEF Frees, Working
      <3>4. QED
        BY <1>1, <3>2, <3>3
    <2>4. \A j, k \in Working' : j = k
      BY <1>6, <1>7, <1>8, <2>1
    <2>5. QED
      BY <1>3, <2>2, <2>3, <2>4 DEF NoConnect
  <1>12. QED
    BY <1>1, <1>9, <1>10, <1>11 DEF WaitingInv

LEMMA WaitingInit == Init => WaitingInv
  <1> SUFFICES ASSUME Init PROVE WaitingInv
    OBVIOUS
  <1> DEFINE c == Command("home", Nowhere)
  <1>1. waiting = <<c>> /\ c.what = "home"
    BY DEF Init, Command
  <1> HIDE DEF c
  <1>2. waiting \in Seq({c}) /\ Len(waiting) = 1 /\ waiting[1] = c
    BY <1>1
  <1>3. Working = {}
    BY <1>1, <1>2 DEF Working, Operations
  <1>4. NoConnect
    BY <1>1, <1>2 DEF NoConnect
  <1>5. /\ menu \in Menus /\ Offers /\ ~busy /\ Away
        /\ \E Elem : waiting \in Seq(Elem)
    BY <1>2, MenusAssumption DEF Init, Offers, Away
  <1>6. QED
    BY <1>3, <1>4, <1>5 DEF WaitingInv

LEMMA WaitingStep ==
  ASSUME WaitingInv, [Next]_vars
  PROVE  WaitingInv'
  <1>1. CASE UNCHANGED vars
    BY <1>1 DEF vars, WaitingInv, Working, Away, NoConnect, Offers
  <1>2. CASE HomeKey \/ ServerKey \/ SettingsKey \/ Leave
    BY <1>2, HomeKeys, ServerKeys, LeaveKeys, KeyKeeps
  <1>3. CASE CreateKey \/ CreateForm \/ ConnectKey \/ ConnectForm
    BY <1>3, FormKeys, KeyKeeps
  <1>4. CASE DatabasesList \/ DatabasesDetails \/ DatabasesConfirm
    BY <1>4, DatabasesKeys, KeyKeeps
  <1>5. CASE BrowseDatabases \/ BrowseList \/ BrowseRecord
    BY <1>5, BrowseKeys, KeyKeeps
  <1>6. CASE DemoKey \/ SkillsKey \/ ExploreKey \/ ResultKey \/ ProblemKey
    BY <1>6, OtherKeys, EndKeys, KeyKeeps
  <1>7. CASE \E i \in 1 .. Len(waiting) : Answer(i)
    BY <1>7, AnswerKeeps
  <1>8. QED
    BY <1>1, <1>2, <1>3, <1>4, <1>5, <1>6, <1>7 DEF Next

LEMMA WaitingIsForOne == WaitingInv => KeysWaitForOne
  <1> SUFFICES ASSUME WaitingInv PROVE KeysWaitForOne
    OBVIOUS
  <1>1. busy => Working # {}
    BY DEF WaitingInv
  <1>2. ASSUME "connect" \notin menu
        PROVE  Cardinality(Working) = (IF busy THEN 1 ELSE 0)
    <2>1. CASE busy
      <3>1. PICK i \in Working : Working = {i}
        BY <1>1, <1>2, <2>1 DEF WaitingInv
      <3>2. QED
        BY <2>1, <3>1, FS_Singleton
    <2>2. CASE ~busy
      <3>1. Working = {}
        BY <1>2, <2>2 DEF WaitingInv
      <3>2. QED
        BY <2>2, <3>1, FS_EmptySet
    <2>3. QED
      BY <2>1, <2>2
  <1>3. QED
    BY <1>1, <1>2, Zenon DEF KeysWaitForOne, Working

\* A run of MCConsole is, for the terminal interface, a run of Screens.
LEMMA ConsoleRunsScreens == ConsoleSpec => Spec
  <1>1. ConsoleInit => Init
    BY Zenon DEF ConsoleInit
  <1>2. ASSUME [ConsoleNext]_<<installVars, commandVars, publisherVars, part>>
        PROVE  [Next]_vars
    BY <1>2 DEF ConsoleNext, installVars
  <1>3. QED
    BY <1>1, <1>2, PTL DEF ConsoleSpec, Spec

\* Keys of the terminal interface wait while an operation is under way and
\* never for good, whatever the order of keys and answers and however many
\* commands are under way; away from Connect, whose engines end any wait, they
\* wait for one operation (model.go:89-91, connect.go:98-101).
THEOREM KeysReturn == ConsoleSpec => []KeysWaitForOne
  <1>1. Spec => []WaitingInv
    BY WaitingInit, WaitingStep, PTL DEF Spec
  <1>2. QED
    BY <1>1, ConsoleRunsScreens, WaitingIsForOne, PTL

-----------------------------------------------------------------------------
(* Screens: the types *)

\* A command under way.
UnderWay == [what : Loads \cup Operations, at : Location]

WaitingTyped == waiting \in Seq(UnderWay) /\ Len(waiting) <= MaxWaiting

FormsTyped ==
  /\ create \in [step : {"choose", "manifest", "form"}, chosen : {None, "file", "manifest"}]
  /\ connect \in [step : {"choose", "manifest", "form"}, chosen : {None, "file", "manifest"}]

DatabasesTyped ==
  /\ databases \in [list : SUBSET Database, cursor : 0 .. Cardinality(Database),
                    view : {"list", "details", "confirm"}, keep : BOOLEAN]
  /\ databases.cursor <= Cardinality(databases.list)

BrowseTyped ==
  browse \in [view : {"databases", "list", "record"}, at : Location, page : Location,
              more : BOOLEAN, typing : BOOLEAN, listed : BOOLEAN]

PlacesTyped ==
  /\ screen \in Screen /\ busy \in BOOLEAN /\ loaded \subseteq Screen
  /\ server \subseteq {"start", "restart", "stop", "open"} /\ editing \in BOOLEAN
  /\ skills \in [consent : BOOLEAN, back : {"home", "result"}]
  /\ explore \in [view : {"menu", "cli", "app"}, db : Database0]

\* What the Result and the Problem offer.
EndsTyped ==
  /\ result \in [next : SUBSET Actions, db : Database0]
  /\ problem \subseteq Remedies /\ problemFrom \in {None, "connect"}

ListsTyped == WaitingTyped /\ FormsTyped /\ DatabasesTyped /\ BrowseTyped /\ PlacesTyped
ScreensTyped == ListsTyped /\ EndsTyped

LEMMA TypedIsOK == ScreensTyped => ScreensTypeOK
  <1> SUFFICES ASSUME ScreensTyped
               PROVE  ScreensTypeOK
    OBVIOUS
  <1>1. \A i \in 1 .. Len(waiting) : waiting[i].what \in Loads \cup Operations /\ waiting[i].at \in Location
    <2> TAKE i \in 1 .. Len(waiting)
    <2>1. waiting[i] \in UnderWay
      BY DEF ScreensTyped, ListsTyped, WaitingTyped
    <2>2. QED
      BY <2>1 DEF UnderWay
  <1>2. QED
    BY <1>1, Zenon DEF ScreensTyped, ListsTyped, WaitingTyped, FormsTyped, DatabasesTyped, BrowseTyped, PlacesTyped,
       EndsTyped, ScreensTypeOK

LEMMA PathTypes ==
  /\ Root \in Path
  /\ \A path \in Path : path \in Seq(Name) /\ Len(path) <= Depth /\ Parent(path) \in Path
  /\ \A path \in Path : Len(path) < Depth => \A name \in Name : Append(path, name) \in Path
  <1>1. \A path : path \in Path <=> path \in Seq(Name) /\ Len(path) <= Depth
    <2>1. ASSUME NEW path \in Path
          PROVE  path \in Seq(Name) /\ Len(path) <= Depth
      BY ScreensAssumption DEF Path
    <2>2. ASSUME NEW path \in Seq(Name), Len(path) <= Depth
          PROVE  path \in Path
      <3>1. path \in [1 .. Len(path) -> Name] /\ Len(path) \in 0 .. Depth
        BY <2>2, ScreensAssumption
      <3>2. QED
        BY <3>1 DEF Path
    <2>3. QED
      BY <2>1, <2>2
  <1>2. Root \in Path
    <2>1. << >> \in Seq(Name) /\ Len(<< >>) = 0
      BY EmptySeq
    <2>2. Len(<< >>) <= Depth
      BY <2>1, ScreensAssumption
    <2>3. QED
      BY <1>1, <2>1, <2>2, Zenon DEF Root
  <1>3. ASSUME NEW path \in Path
        PROVE  Parent(path) \in Path
    <2>1. path \in Seq(Name) /\ Len(path) \in Nat /\ Len(path) <= Depth
      BY <1>1
    <2>2. \A i \in 1 .. Len(path) - 1 : path[i] \in Name
      BY <2>1
    <2>3. SubSeq(path, 1, Len(path) - 1) \in Seq(Name)
          /\ Len(SubSeq(path, 1, Len(path) - 1)) = IF 1 <= Len(path) - 1 THEN Len(path) - 1 ELSE 0
      BY <2>1, <2>2, SubSeqProperties
    <2>4. Len(SubSeq(path, 1, Len(path) - 1)) <= Depth
      BY <2>1, <2>3, ScreensAssumption
    <2>5. QED
      BY <1>1, <2>3, <2>4 DEF Parent, Front
  <1>4. ASSUME NEW path \in Path, Len(path) < Depth, NEW name \in Name
        PROVE  Append(path, name) \in Path
    <2>1. path \in Seq(Name) /\ Append(path, name) \in Seq(Name) /\ Len(Append(path, name)) = Len(path) + 1
      BY <1>1, <1>4
    <2>2. Len(path) \in Nat /\ Len(path) + 1 <= Depth
      BY <1>4, <2>1, ScreensAssumption
    <2>3. Len(Append(path, name)) <= Depth
      BY <2>1, <2>2
    <2>4. QED
      BY <1>1, <2>1, <2>3, Zenon
  <1>5. QED
    BY <1>1, <1>2, <1>3, <1>4

LEMMA LocationTypes ==
  /\ Nowhere \in Location
  /\ \A db \in Database0 : At(db) \in Location
  /\ \A at1 \in Location, path \in Path, page \in 0 .. MaxPage :
        [at1 EXCEPT !.path = path, !.page = page] \in Location
  <1>1. Root \in Path /\ None \in Database0 /\ 0 \in 0 .. MaxPage
    BY PathTypes, ScreensAssumption DEF Database0
  <1>2. QED
    BY <1>1 DEF Nowhere, Location, At

LEMMA CardinalityTypes ==
  /\ Cardinality(Database) \in Nat
  /\ \A list \in SUBSET Database : Cardinality(list) \in 0 .. Cardinality(Database)
  BY FS_Subset, FS_CardinalityType, ScreensAssumption

\* What starts a command.
LEMMA LoadTypes ==
  ASSUME WaitingTyped, busy \in BOOLEAN, NEW what, NEW where \in Location
  PROVE  /\ Load(what, where) /\ what \in Loads => WaitingTyped' /\ busy' \in BOOLEAN
         /\ Run(what, where) /\ what \in Operations => WaitingTyped' /\ busy' \in BOOLEAN
  <1> DEFINE c == Command(what, where)
  <1>1. what \in Loads \cup Operations => c \in UnderWay
    BY DEF Command, UnderWay
  <1> HIDE DEF c
  <1>2. waiting' = Append(waiting, c) /\ c \in UnderWay /\ Len(waiting) < MaxWaiting => WaitingTyped'
    BY ScreensAssumption DEF WaitingTyped
  <1>3. QED
    BY <1>1, <1>2 DEF Load, Run, c

LEMMA EnterTypes ==
  ASSUME PlacesTyped, NEW to \in Screen, Enter(to)
  PROVE  screen' \in Screen /\ loaded' \subseteq Screen
  BY DEF PlacesTyped, Enter

\* Entering a screen.
LEMMA EnteringTypes ==
  ASSUME ListsTyped
  PROVE  /\ EnterHome /\ UNCHANGED <<Forms, Lists>> => ListsTyped'
         /\ EnterServer => ListsTyped'
         /\ EnterSettings => ListsTyped'
         /\ EnterCreate => ListsTyped'
         /\ EnterConnect => ListsTyped'
         /\ EnterConnectManifest => ListsTyped'
         /\ EnterDatabases => ListsTyped'
         /\ EnterBrowse => ListsTyped'
         /\ \A db \in Database0 : BrowseDatabase(db) => ListsTyped'
         /\ \A path \in Path, page \in 0 .. MaxPage : BrowseTo(path, page) => ListsTyped'
         /\ EnterDemo => ListsTyped'
         /\ EnterSkills => ListsTyped'
         /\ OfferSkill => ListsTyped'
         /\ \A db \in Database0 : EnterExplore(db) => ListsTyped'
  <1> DEFINE loads == \E what \in Loads, where \in Location : Load(what, where)
             enters == \E to \in Screen : Enter(to)
  <1>0. WaitingTyped /\ FormsTyped /\ DatabasesTyped /\ BrowseTyped /\ PlacesTyped
    BY DEF ListsTyped
  <1>1. loads => WaitingTyped' /\ busy' \in BOOLEAN
    <2>1. busy \in BOOLEAN
      BY <1>0 DEF PlacesTyped
    <2>2. QED
      BY <1>0, <2>1, LoadTypes
  <1>2. enters => screen' \in Screen /\ loaded' \subseteq Screen
    BY <1>0, EnterTypes
  <1>3. /\ Nowhere \in Location /\ \A db \in Database0 : At(db) \in Location
        /\ \A at1 \in Location, path \in Path, page \in 0 .. MaxPage :
               [at1 EXCEPT !.path = path, !.page = page] \in Location
        /\ None \in Database0
    BY LocationTypes DEF Database0
  <1>4. UNCHANGED <<create, connect>> => FormsTyped'
    BY <1>0 DEF FormsTyped
  <1>5. UNCHANGED databases => DatabasesTyped'
    BY <1>0 DEF DatabasesTyped
  <1>6. UNCHANGED browse => BrowseTyped'
    BY <1>0 DEF BrowseTyped
  <1>7. loads /\ enters /\ UNCHANGED <<server, editing, skills, explore>> => PlacesTyped'
    BY <1>0, <1>1, <1>2 DEF PlacesTyped
  <1>8. NewForm \in [step : {"choose", "manifest", "form"}, chosen : {None, "file", "manifest"}]
    BY DEF NewForm
  <1>9. \A db \in Database0, view1 \in {"databases", "list", "record"} :
           NewBrowse(view1, db) \in [view : {"databases", "list", "record"}, at : Location, page : Location,
                                    more : BOOLEAN, typing : BOOLEAN, listed : BOOLEAN]
    BY <1>3 DEF NewBrowse
  <1>10. EnterHome /\ UNCHANGED <<Forms, Lists>> => ListsTyped'
    <2> SUFFICES ASSUME EnterHome, UNCHANGED <<Forms, Lists>>
                 PROVE  ListsTyped'
      OBVIOUS
    <2>1. loads /\ enters /\ UNCHANGED <<create, connect, server, editing, databases, browse, skills, explore>>
      BY <1>3 DEF EnterHome, Loads, Screen, Forms, Lists
    <2> HIDE DEF loads, enters
    <2>2. QED
      BY <1>1, <1>4, <1>5, <1>6, <1>7, <2>1 DEF ListsTyped
  <1>11. EnterServer => ListsTyped'
    <2> SUFFICES ASSUME EnterServer
                 PROVE  ListsTyped'
      OBVIOUS
    <2>1. loads /\ enters /\ UNCHANGED <<create, connect, server, editing, databases, browse, skills, explore>>
      BY <1>3 DEF EnterServer, Loads, Screen, Forms, Lists
    <2> HIDE DEF loads, enters
    <2>2. QED
      BY <1>1, <1>4, <1>5, <1>6, <1>7, <2>1 DEF ListsTyped
  <1>12. EnterSettings => ListsTyped'
    <2> SUFFICES ASSUME EnterSettings
                 PROVE  ListsTyped'
      OBVIOUS
    <2>1. loads /\ enters /\ editing' = FALSE /\ UNCHANGED <<create, connect, server, databases, browse, skills, explore>>
      BY <1>3 DEF EnterSettings, Loads, Screen, Forms
    <2> HIDE DEF loads, enters
    <2>2. PlacesTyped'
      BY <1>0, <1>1, <1>2, <2>1 DEF PlacesTyped
    <2>3. QED
      BY <1>1, <1>4, <1>5, <1>6, <2>1, <2>2 DEF ListsTyped
  <1>13. EnterCreate => ListsTyped'
    <2> SUFFICES ASSUME EnterCreate
                 PROVE  ListsTyped'
      OBVIOUS
    <2>1. loads /\ enters /\ create' = NewForm /\ UNCHANGED <<connect, server, editing, databases, browse, skills, explore>>
      BY <1>3 DEF EnterCreate, Loads, Screen, Lists
    <2> HIDE DEF loads, enters
    <2>2. FormsTyped'
      BY <1>0, <1>8, <2>1 DEF FormsTyped
    <2>3. QED
      BY <1>1, <1>5, <1>6, <1>7, <2>1, <2>2 DEF ListsTyped
  <1>14. EnterConnect => ListsTyped'
    <2> SUFFICES ASSUME EnterConnect
                 PROVE  ListsTyped'
      OBVIOUS
    <2>1. loads /\ enters /\ connect' = NewForm /\ UNCHANGED <<create, server, editing, databases, browse, skills, explore>>
      BY <1>3 DEF EnterConnect, Loads, Screen, Lists
    <2> HIDE DEF loads, enters
    <2>2. FormsTyped'
      BY <1>0, <1>8, <2>1 DEF FormsTyped
    <2>3. QED
      BY <1>1, <1>5, <1>6, <1>7, <2>1, <2>2 DEF ListsTyped
  <1>15. EnterConnectManifest => ListsTyped'
    <2> SUFFICES ASSUME EnterConnectManifest
                 PROVE  ListsTyped'
      OBVIOUS
    <2>1. /\ loads /\ enters /\ connect' = [step |-> "manifest", chosen |-> create.chosen]
          /\ UNCHANGED <<create, server, editing, databases, browse, skills, explore>>
      BY <1>3 DEF EnterConnectManifest, Loads, Screen, Lists
    <2> HIDE DEF loads, enters
    <2>2. FormsTyped'
      BY <1>0, <2>1 DEF FormsTyped
    <2>3. QED
      BY <1>1, <1>5, <1>6, <1>7, <2>1, <2>2 DEF ListsTyped
  <1>16. EnterDatabases => ListsTyped'
    <2> SUFFICES ASSUME EnterDatabases
                 PROVE  ListsTyped'
      OBVIOUS
    <2>1. loads /\ enters /\ databases' = NewDatabases /\ UNCHANGED <<create, connect, server, editing, browse, skills, explore>>
      BY <1>3 DEF EnterDatabases, Loads, Screen, Forms
    <2> HIDE DEF loads, enters
    <2>2. DatabasesTyped'
      BY <2>1, CardinalityTypes DEF DatabasesTyped, NewDatabases
    <2>3. QED
      BY <1>1, <1>4, <1>6, <1>7, <2>1, <2>2 DEF ListsTyped
  <1>17. EnterBrowse => ListsTyped'
    <2> SUFFICES ASSUME EnterBrowse
                 PROVE  ListsTyped'
      OBVIOUS
    <2>1. /\ loads /\ enters /\ browse' = NewBrowse("databases", None)
          /\ UNCHANGED <<create, connect, server, editing, databases, skills, explore>>
      BY <1>3 DEF EnterBrowse, Loads, Screen, Forms
    <2> HIDE DEF loads, enters
    <2>2. BrowseTyped'
      BY <1>3, <1>9, <2>1 DEF BrowseTyped
    <2>3. QED
      BY <1>1, <1>4, <1>5, <1>7, <2>1, <2>2 DEF ListsTyped
  <1>18. \A db \in Database0 : BrowseDatabase(db) => ListsTyped'
    <2> SUFFICES ASSUME NEW db \in Database0, BrowseDatabase(db)
                 PROVE  ListsTyped'
      OBVIOUS
    <2>1. /\ loads /\ enters /\ browse' = NewBrowse("list", db)
          /\ UNCHANGED <<create, connect, server, editing, databases, skills, explore>>
      BY <1>3 DEF BrowseDatabase, Loads, Screen, Forms
    <2> HIDE DEF loads, enters
    <2>2. BrowseTyped'
      BY <1>9, <2>1 DEF BrowseTyped
    <2>3. QED
      BY <1>1, <1>4, <1>5, <1>7, <2>1, <2>2 DEF ListsTyped
  <1>19. \A path \in Path, page \in 0 .. MaxPage : BrowseTo(path, page) => ListsTyped'
    <2> SUFFICES ASSUME NEW path \in Path, NEW page \in 0 .. MaxPage, BrowseTo(path, page)
                 PROVE  ListsTyped'
      OBVIOUS
    <2> DEFINE to == [browse.at EXCEPT !.path = path, !.page = page]
               showing == IF Kind(path) = "record" THEN "record" ELSE "list"
    <2>1. to \in Location
      BY <1>0, <1>3 DEF BrowseTyped
    <2>2. /\ Load("page", to) /\ enters
          /\ browse' = [browse EXCEPT !.at = to, !.typing = FALSE, !.view = showing]
          /\ UNCHANGED <<create, connect, server, editing, databases, skills, explore>>
      BY DEF BrowseTo, Screen, Forms
    <2>3. showing \in {"list", "record"}
      OBVIOUS
    <2> HIDE DEF to, showing
    <2>4. loads
      BY <2>1, <2>2 DEF Loads
    <2> HIDE DEF loads, enters
    <2>5. BrowseTyped'
      BY <1>0, <2>1, <2>2, <2>3 DEF BrowseTyped
    <2>6. QED
      BY <1>1, <1>4, <1>5, <1>7, <2>2, <2>4, <2>5 DEF ListsTyped
  <1>20. EnterDemo => ListsTyped'
    <2> SUFFICES ASSUME EnterDemo
                 PROVE  ListsTyped'
      OBVIOUS
    <2>1. loads /\ enters /\ UNCHANGED <<create, connect, server, editing, databases, browse, skills, explore>>
      BY <1>3 DEF EnterDemo, Loads, Screen, Forms, Lists
    <2> HIDE DEF loads, enters
    <2>2. QED
      BY <1>1, <1>4, <1>5, <1>6, <1>7, <2>1 DEF ListsTyped
  <1>21. EnterSkills \/ OfferSkill => ListsTyped'
    <2> SUFFICES ASSUME EnterSkills \/ OfferSkill
                 PROVE  ListsTyped'
      OBVIOUS
    <2>1. /\ loads /\ enters /\ \E where \in {"home", "result"} : skills' = [consent |-> FALSE, back |-> where]
          /\ UNCHANGED <<create, connect, server, editing, databases, browse, explore>>
      BY <1>3 DEF EnterSkills, OfferSkill, Loads, Screen, Forms
    <2> HIDE DEF loads, enters
    <2>2. skills' \in [consent : BOOLEAN, back : {"home", "result"}]
      BY <2>1
    <2>3. PlacesTyped'
      BY <1>0, <1>1, <1>2, <2>1, <2>2 DEF PlacesTyped
    <2>4. QED
      BY <1>1, <1>4, <1>5, <1>6, <2>1, <2>3 DEF ListsTyped
  <1>22. \A db \in Database0 : EnterExplore(db) => ListsTyped'
    <2> SUFFICES ASSUME NEW db \in Database0, EnterExplore(db)
                 PROVE  ListsTyped'
      OBVIOUS
    <2>1. /\ loads /\ enters /\ explore' = [view |-> "menu", db |-> None]
          /\ UNCHANGED <<create, connect, server, editing, databases, browse, skills>>
      BY <1>3 DEF EnterExplore, Loads, Screen, Forms
    <2> HIDE DEF loads, enters
    <2>2. explore' \in [view : {"menu", "cli", "app"}, db : Database0]
      BY <1>3, <2>1
    <2>3. PlacesTyped'
      BY <1>0, <1>1, <1>2, <2>1, <2>2 DEF PlacesTyped
    <2>4. QED
      BY <1>1, <1>4, <1>5, <1>6, <2>1, <2>3 DEF ListsTyped
  <1>23. QED
    BY <1>10, <1>11, <1>12, <1>13, <1>14, <1>15, <1>16, <1>17, <1>18, <1>19, <1>20, <1>21, <1>22

\* Keys that stay on their screen, and start an operation or none.
Begins == NoCommand \/ \E what \in Operations, where \in Location : Run(what, where)

\* Variables that keep their types without being written.
LEMMA KeptTypes ==
  ASSUME ListsTyped
  PROVE  /\ UNCHANGED Forms => FormsTyped'
         /\ UNCHANGED databases => DatabasesTyped'
         /\ UNCHANGED browse => BrowseTyped'
         /\ UNCHANGED waiting => WaitingTyped'
  BY DEF ListsTyped, Forms, FormsTyped, DatabasesTyped, BrowseTyped, WaitingTyped

LEMMA EndsKept ==
  ASSUME EndsTyped, UNCHANGED <<Ends, problemFrom>>
  PROVE  EndsTyped'
  BY DEF EndsTyped, Ends

LEMMA StayTypes ==
  ASSUME ScreensTyped, Begins, Staying
  PROVE  /\ WaitingTyped' /\ EndsTyped'
         /\ screen' \in Screen /\ busy' \in BOOLEAN /\ loaded' \subseteq Screen
         /\ UNCHANGED <<server, editing, skills, explore>> => PlacesTyped'
         /\ UNCHANGED <<Forms, Lists>> => ScreensTyped'
  <1>1. WaitingTyped' /\ busy' \in BOOLEAN
    <2>1. busy \in BOOLEAN /\ WaitingTyped
      BY DEF ScreensTyped, ListsTyped, PlacesTyped
    <2>2. CASE NoCommand
      BY <2>1, <2>2 DEF NoCommand, WaitingTyped
    <2>3. QED
      BY <2>1, <2>2, LoadTypes DEF Begins
  <1>2. EndsTyped'
    BY EndsKept DEF ScreensTyped, Staying
  <1>3. screen' \in Screen /\ loaded' \subseteq Screen
    BY DEF ScreensTyped, ListsTyped, PlacesTyped, Staying
  <1>4. UNCHANGED <<server, editing, skills, explore>> => PlacesTyped'
    BY <1>1, <1>3 DEF ScreensTyped, ListsTyped, PlacesTyped
  <1>5. UNCHANGED <<Forms, Lists>> => ScreensTyped'
    BY <1>1, <1>2, <1>4, KeptTypes DEF ScreensTyped, ListsTyped, Lists
  <1>6. QED
    BY <1>1, <1>2, <1>3, <1>4, <1>5

LEMMA EnteringKeeps ==
  ASSUME ScreensTyped, Entering, ListsTyped'
  PROVE  ScreensTyped'
  BY EndsKept DEF ScreensTyped, Entering

LEMMA HomeTypes ==
  ASSUME ScreensTyped, HomeKey
  PROVE  ScreensTyped'
  <1>1. ListsTyped /\ None \in Database0
    BY DEF ScreensTyped, Database0
  <1>2. ListsTyped'
    BY <1>1, EnteringTypes DEF HomeKey
  <1>3. QED
    BY <1>2, EnteringKeeps DEF HomeKey

LEMMA ServerTypes ==
  ASSUME ScreensTyped, ServerKey
  PROVE  ScreensTyped'
  <1>1. Nowhere \in Location
    BY LocationTypes
  <1>2. PICK action \in ServerMenu :
           Run(CASE action \in {"start", "restart"} -> "startServer"
                 [] action = "stop" -> "stopServer"
                 [] action = "open" -> "openBrowser", Nowhere)
    BY DEF ServerKey
  <1>3. action \in {"start", "restart", "stop", "open"}
    BY DEF ServerMenu, ScreensTyped, ListsTyped, PlacesTyped
  <1> DEFINE what == CASE action \in {"start", "restart"} -> "startServer"
                       [] action = "stop" -> "stopServer"
                       [] action = "open" -> "openBrowser"
  <1>4. what \in Operations
    BY <1>3 DEF Operations
  <1> HIDE DEF what
  <1>5. Begins
    BY <1>1, <1>2, <1>4 DEF Begins, what
  <1>6. QED
    BY <1>5, StayTypes DEF ServerKey

LEMMA SettingsTypes ==
  ASSUME ScreensTyped, SettingsKey
  PROVE  ScreensTyped'
  <1>1. Begins
    BY LocationTypes DEF SettingsKey, Begins, Operations
  <1>2. editing' \in BOOLEAN
    BY DEF SettingsKey, ScreensTyped, ListsTyped, PlacesTyped
  <1>3. /\ WaitingTyped' /\ EndsTyped'
        /\ screen' \in Screen /\ busy' \in BOOLEAN /\ loaded' \subseteq Screen
    BY <1>1, StayTypes DEF SettingsKey
  <1>4. UNCHANGED <<Forms, server, databases, browse, skills, explore>>
    BY DEF SettingsKey
  <1>5. PlacesTyped'
    BY <1>2, <1>3, <1>4 DEF ScreensTyped, ListsTyped, PlacesTyped
  <1>6. QED
    BY <1>3, <1>4, <1>5, KeptTypes DEF ScreensTyped, ListsTyped

LEMMA LeaveTypes ==
  ASSUME ScreensTyped, Leave
  PROVE  ScreensTyped'
  <1>1. EnterHome /\ UNCHANGED <<Forms, Lists>>
    BY DEF Leave, BackHome
  <1>2. ListsTyped'
    BY <1>1, EnteringTypes DEF ScreensTyped
  <1>3. UNCHANGED Ends /\ problemFrom' \in {problemFrom, None}
    BY DEF Leave, BackHome
  <1>4. EndsTyped'
    BY <1>3 DEF ScreensTyped, EndsTyped, Ends
  <1>5. QED
    BY <1>2, <1>4 DEF ScreensTyped

LEMMA FormTypes ==
  ASSUME ScreensTyped, CreateKey \/ CreateForm \/ ConnectKey \/ ConnectForm
  PROVE  ScreensTyped'
  <1>1. CASE CreateForm \/ ConnectForm
    <2>1. Begins /\ Staying /\ UNCHANGED <<Forms, Lists>>
      BY <1>1, LocationTypes DEF CreateForm, ConnectForm, Begins, Operations
    <2>2. QED
      BY <2>1, StayTypes
  <1>2. CASE EnterConnectManifest /\ Entering
    BY <1>2, EnteringTypes, EnteringKeeps DEF ScreensTyped
  <1>3. CASE /\ NoCommand /\ Staying /\ UNCHANGED Lists
             /\ \/ UNCHANGED connect /\ \E to \in {"choose", "manifest", "form"} :
                      \/ create' = [create EXCEPT !.step = to]
                      \/ \E engine \in {None, "file", "manifest"} : create' = [step |-> to, chosen |-> engine]
                \/ UNCHANGED create /\ \E to \in {"choose", "manifest", "form"} :
                      \/ connect' = [connect EXCEPT !.step = to]
                      \/ \E engine \in {None, "file", "manifest"} : connect' = [step |-> to, chosen |-> engine]
    <2>1. Begins /\ UNCHANGED <<server, editing, databases, browse, skills, explore>>
      BY <1>3 DEF Begins, Lists
    <2>2. FormsTyped'
      BY <1>3 DEF ScreensTyped, ListsTyped, FormsTyped
    <2>3. WaitingTyped' /\ EndsTyped' /\ PlacesTyped'
      BY <1>3, <2>1, StayTypes
    <2>4. QED
      BY <2>1, <2>2, <2>3, KeptTypes DEF ScreensTyped, ListsTyped
  <1>4. CASE CreateKey
    <2>1. \/ EnterConnectManifest /\ Entering
          \/ /\ NoCommand /\ Staying /\ UNCHANGED Lists /\ UNCHANGED connect
             /\ \E to \in {"choose", "manifest", "form"} :
                   \/ create' = [create EXCEPT !.step = to]
                   \/ \E engine \in {None, "file", "manifest"} : create' = [step |-> to, chosen |-> engine]
      BY <1>4 DEF CreateKey, Lists
    <2>2. QED
      BY <1>2, <1>3, <2>1
  <1>5. CASE ConnectKey
    <2>1. /\ NoCommand /\ Staying /\ UNCHANGED Lists /\ UNCHANGED create
          /\ \E to \in {"choose", "manifest", "form"} :
                \/ connect' = [connect EXCEPT !.step = to]
                \/ \E engine \in {None, "file", "manifest"} : connect' = [step |-> to, chosen |-> engine]
      BY <1>5 DEF ConnectKey, Lists
    <2>2. QED
      BY <1>3, <2>1
  <1>6. QED
    BY <1>1, <1>4, <1>5

LEMMA DatabasesTypes ==
  ASSUME ScreensTyped, DatabasesList \/ DatabasesDetails \/ DatabasesConfirm
  PROVE  ScreensTyped'
  <1> DEFINE V1 == {"list", "details", "confirm"}
  <1>0. /\ ListsTyped /\ DatabasesTyped /\ databases.list \subseteq Database
        /\ Selected \subseteq Database /\ \A db \in Selected : db \in Database0 /\ At(db) \in Location
        /\ Cardinality(databases.list) \in 0 .. Cardinality(Database) /\ Cardinality(Database) \in Nat
    <2>1. ListsTyped /\ DatabasesTyped /\ databases.list \subseteq Database
      BY DEF ScreensTyped, ListsTyped, DatabasesTyped
    <2>2. QED
      BY <2>1, LocationTypes, CardinalityTypes DEF Selected, Database0
  \* Only the list, its cursor or its view changes, and an operation may begin.
  <1>1. CASE /\ Begins /\ Staying /\ UNCHANGED <<Forms, server, editing, browse, skills, explore>>
             /\ \/ \E cursor \in 0 .. Cardinality(databases.list) : databases' = [databases EXCEPT !.cursor = cursor]
                \/ \E view1 \in V1, keep \in BOOLEAN :
                      databases' = [databases EXCEPT !.view = view1]
                      \/ databases' = [databases EXCEPT !.view = view1, !.keep = keep]
                      \/ databases' = [databases EXCEPT !.keep = keep]
    <2>1. ASSUME NEW cursor \in 0 .. Cardinality(databases.list), databases' = [databases EXCEPT !.cursor = cursor]
          PROVE  DatabasesTyped'
      <3>1. cursor \in 0 .. Cardinality(Database) /\ cursor <= Cardinality(databases.list)
        BY <1>0, <2>1
      <3>2. QED
        BY <1>0, <2>1, <3>1 DEF DatabasesTyped
    <2>2. ASSUME NEW view1 \in V1, NEW keep \in BOOLEAN,
                 \/ databases' = [databases EXCEPT !.view = view1]
                 \/ databases' = [databases EXCEPT !.view = view1, !.keep = keep]
                 \/ databases' = [databases EXCEPT !.keep = keep]
          PROVE  DatabasesTyped'
      BY <1>0, <2>2 DEF DatabasesTyped
    <2>3. DatabasesTyped'
      BY <1>1, <2>1, <2>2
    <2>4. WaitingTyped' /\ EndsTyped' /\ PlacesTyped'
      BY <1>1, StayTypes
    <2>5. QED
      BY <1>0, <1>1, <2>3, <2>4, KeptTypes DEF ScreensTyped, ListsTyped
  <1>2. ASSUME NEW what \in {"removeDatabase", "reloadDatabase"}, OnSelected(what)
        PROVE  ScreensTyped'
    <2>1. Begins
      BY <1>0, <1>2 DEF OnSelected, Begins, Operations
    <2>2. QED
      BY <1>1, <1>2, <2>1 DEF OnSelected
  <1>3. ASSUME NEW change, DatabasesMove(change)
        PROVE  Begins /\ databases' = change /\ Staying /\ UNCHANGED <<Forms, server, editing, browse, skills, explore>>
    BY <1>3 DEF DatabasesMove, Begins
  <1>4. CASE DatabasesList
    <2>1. CASE EnterCreate /\ Entering
      <3>1. ListsTyped'
        BY <1>0, <2>1, EnteringTypes
      <3>2. QED
        BY <2>1, <3>1, EnteringKeeps
    <2>2. CASE \E cursor \in 0 .. Cardinality(databases.list) : DatabasesMove([databases EXCEPT !.cursor = cursor])
      <3> PICK cursor \in 0 .. Cardinality(databases.list) : DatabasesMove([databases EXCEPT !.cursor = cursor])
        BY <2>2
      <3>1. /\ Begins /\ Staying /\ UNCHANGED <<Forms, server, editing, browse, skills, explore>>
            /\ databases' = [databases EXCEPT !.cursor = cursor]
        BY DEF DatabasesMove, Begins
      <3>2. QED
        BY <1>1, <3>1
    <2>3. CASE DatabasesMove([databases EXCEPT !.view = "details"])
      BY <1>1, <1>3, <2>3
    <2>4. QED
      BY <1>4, <2>1, <2>2, <2>3 DEF DatabasesList
  <1>5. CASE DatabasesDetails
    <2>1. CASE \E db \in Selected : BrowseDatabase(db) /\ Entering
      BY <1>0, <2>1, EnteringTypes, EnteringKeeps
    <2>2. CASE \E db \in Selected : Run("useInProject", At(db)) /\ Staying /\ UNCHANGED <<Forms, Lists>>
      <3>1. Begins
        BY <1>0, <2>2 DEF Begins, Operations
      <3>2. QED
        BY <2>2, <3>1, StayTypes
    <2>3. CASE DatabasesMove([databases EXCEPT !.view = "list"])
      BY <1>1, <1>3, <2>3
    <2>4. CASE DatabasesMove([databases EXCEPT !.view = "confirm", !.keep = TRUE])
      BY <1>1, <1>3, <2>4
    <2>5. QED
      BY <1>2, <1>5, <2>1, <2>2, <2>3, <2>4 DEF DatabasesDetails
  <1>6. CASE DatabasesConfirm
    <2>1. CASE DatabasesMove([databases EXCEPT !.keep = ~databases.keep])
      <3>1. (~databases.keep) \in BOOLEAN
        BY Zenon
      <3>2. QED
        BY <1>1, <1>3, <2>1, <3>1
    <2>2. CASE DatabasesMove([databases EXCEPT !.view = "details"])
      BY <1>1, <1>3, <2>2
    <2>3. QED
      BY <1>2, <1>6, <2>1, <2>2 DEF DatabasesConfirm
  <1>7. QED
    BY <1>4, <1>5, <1>6

LEMMA BrowseTypes ==
  ASSUME ScreensTyped, BrowseDatabases \/ BrowseList \/ BrowseRecord
  PROVE  ScreensTyped'
  <1>1. /\ ListsTyped /\ BrowseTyped /\ browse.at.path \in Path /\ browse.page.path \in Path
        /\ browse.at.page \in 0 .. MaxPage /\ MaxPage \in Nat /\ Database \subseteq Database0
    BY ScreensAssumption DEF ScreensTyped, ListsTyped, BrowseTyped, Location, Database0
  <1>2. /\ Root \in Path /\ Parent(browse.at.path) \in Path
        /\ \A name \in Name : /\ Len(browse.page.path) < Depth => Append(browse.page.path, name) \in Path
                              /\ Len(browse.at.path) < Depth => Append(browse.at.path, name) \in Path
    BY <1>1, PathTypes
  <1>3. ASSUME NEW path \in Path, NEW page \in 0 .. MaxPage, BrowseTo(path, page), Entering
        PROVE  ScreensTyped'
    <2>1. ListsTyped'
      BY <1>1, <1>3, EnteringTypes
    <2>2. QED
      BY <1>3, <2>1, EnteringKeeps
  <1>4. CASE BrowseDatabases
    <2>1. ListsTyped'
      BY <1>1, <1>4, EnteringTypes DEF BrowseDatabases
    <2>2. QED
      BY <1>4, <2>1, EnteringKeeps DEF BrowseDatabases
  <1>5. CASE BrowseList
    <2>1. CASE EnterBrowse
      <3>1. ListsTyped'
        BY <1>1, <2>1, EnteringTypes
      <3>2. QED
        BY <1>5, <3>1, EnteringKeeps DEF BrowseList
    <2>2. CASE browse.at.page < MaxPage /\ BrowseTo(browse.at.path, browse.at.page + 1)
      <3>1. browse.at.page + 1 \in 0 .. MaxPage
        BY <1>1, <2>2
      <3>2. QED
        BY <1>1, <1>3, <1>5, <2>2, <3>1 DEF BrowseList
    <2>3. CASE browse.at.page > 0 /\ BrowseTo(browse.at.path, browse.at.page - 1)
      <3>1. browse.at.page - 1 \in 0 .. MaxPage
        BY <1>1, <2>3
      <3>2. QED
        BY <1>1, <1>3, <1>5, <2>3, <3>1 DEF BrowseList
    <2>4. CASE Len(browse.page.path) < Depth /\ \E name \in Name : BrowseTo(Append(browse.page.path, name), 0)
      BY <1>1, <1>2, <1>3, <1>5, <2>4 DEF BrowseList
    <2>5. CASE BrowseTo(Parent(browse.at.path), 0)
      BY <1>1, <1>2, <1>3, <1>5, <2>5 DEF BrowseList
    <2>6. QED
      BY <1>5, <2>1, <2>2, <2>3, <2>4, <2>5 DEF BrowseList
  <1>6. CASE BrowseRecord
    <2>1. CASE BrowseTo(Parent(browse.at.path), 0) /\ Entering
      BY <1>1, <1>2, <1>3, <2>1
    <2>2. CASE Len(browse.at.path) < Depth /\ \E name \in Name : BrowseTo(Append(browse.at.path, name), 0) /\ Entering
      BY <1>1, <1>2, <1>3, <2>2
    <2>3. CASE /\ browse' = [browse EXCEPT !.typing = ~browse.typing]
               /\ NoCommand /\ Staying /\ UNCHANGED <<Forms, server, editing, databases, skills, explore>>
      <3>1. (~browse.typing) \in BOOLEAN
        BY Zenon
      <3>2. BrowseTyped'
        BY <1>1, <2>3, <3>1 DEF BrowseTyped
      <3>3. WaitingTyped' /\ EndsTyped' /\ PlacesTyped'
        BY <2>3, StayTypes DEF Begins
      <3>4. QED
        BY <1>1, <2>3, <3>2, <3>3, KeptTypes DEF ScreensTyped, ListsTyped
    <2>4. QED
      BY <1>6, <2>1, <2>2, <2>3 DEF BrowseRecord
  <1>7. QED
    BY <1>4, <1>5, <1>6

\* An answer in place of the demo, of skills or of Explore.
LEMMA OfferTypes ==
  ASSUME ScreensTyped, DemoKey \/ SkillsKey \/ ExploreKey
  PROVE  ScreensTyped'
  <1>1. /\ ListsTyped /\ PlacesTyped /\ EndsTyped /\ Nowhere \in Location /\ At(explore.db) \in Location
        /\ explore.db \in Database0 /\ screen \in Screen /\ loaded \subseteq Screen
    BY LocationTypes DEF ScreensTyped, ListsTyped, PlacesTyped
  <1>2. CASE DemoKey
    <2>1. Begins
      BY <1>1, <1>2 DEF DemoKey, Begins, Operations
    <2>2. QED
      BY <1>2, <2>1, StayTypes DEF DemoKey
  <1>3. CASE SkillsKey
    <2>1. Begins
      BY <1>1, <1>3 DEF SkillsKey, Begins, Operations
    <2>2. skills' \in [consent : BOOLEAN, back : {"home", "result"}]
      BY <1>1, <1>3 DEF SkillsKey, PlacesTyped
    <2>3. /\ UNCHANGED <<menu, loaded, Ends, problemFrom>> /\ screen' \in {screen, "result"}
          /\ UNCHANGED <<Forms, server, editing, databases, browse, explore>>
      BY <1>3 DEF SkillsKey, Staying
    <2>4. WaitingTyped' /\ busy' \in BOOLEAN
      <3>1. busy \in BOOLEAN /\ WaitingTyped
        BY <1>1 DEF ListsTyped, PlacesTyped
      <3>2. CASE NoCommand
        BY <3>1, <3>2 DEF NoCommand, WaitingTyped
      <3>3. QED
        BY <2>1, <3>1, <3>2, LoadTypes DEF Begins
    <2>5. PlacesTyped'
      BY <1>1, <2>2, <2>3, <2>4 DEF PlacesTyped, Screen
    <2>6. EndsTyped'
      BY <1>1, <2>3, EndsKept
    <2>7. QED
      BY <1>1, <2>3, <2>4, <2>5, <2>6, KeptTypes DEF ScreensTyped, ListsTyped
  <1>4. CASE ExploreKey
    <2>1. Begins
      BY <1>1, <1>4 DEF ExploreKey, Begins, Operations
    <2>2. explore' \in [view : {"menu", "cli", "app"}, db : Database0]
      BY <1>1, <1>4 DEF ExploreKey, PlacesTyped
    <2>3. Staying /\ UNCHANGED <<Forms, server, editing, databases, browse, skills>>
      BY <1>4 DEF ExploreKey
    <2>4. /\ WaitingTyped' /\ EndsTyped'
          /\ screen' \in Screen /\ busy' \in BOOLEAN /\ loaded' \subseteq Screen
      BY <2>1, <2>3, StayTypes
    <2>5. PlacesTyped'
      BY <1>1, <2>2, <2>3, <2>4 DEF PlacesTyped
    <2>6. QED
      BY <1>1, <2>3, <2>4, <2>5, KeptTypes DEF ScreensTyped, ListsTyped
  <1>5. QED
    BY <1>2, <1>3, <1>4

LEMMA ResultTypes ==
  ASSUME ScreensTyped, ResultKey
  PROVE  ScreensTyped'
  <1>1. ListsTyped /\ result.db \in Database0 /\ At(result.db) \in Location /\ Nowhere \in Location
    BY LocationTypes DEF ScreensTyped, EndsTyped
  <1>2. CASE /\ OfferSkill \/ EnterSkills \/ BrowseDatabase(result.db) \/ EnterDatabases \/ EnterExplore(result.db)
             /\ Entering
    <2>1. ListsTyped'
      BY <1>1, <1>2, EnteringTypes
    <2>2. QED
      BY <1>2, <2>1, EnteringKeeps
  <1>3. CASE /\ Run("useInProject", At(result.db)) \/ Run("openDemo", Nowhere)
             /\ Staying /\ UNCHANGED <<Forms, Lists>>
    <2>1. Begins
      BY <1>1, <1>3 DEF Begins, Operations
    <2>2. QED
      BY <1>3, <2>1, StayTypes
  <1>4. QED
    BY <1>2, <1>3 DEF ResultKey

LEMMA ProblemTypes ==
  ASSUME ScreensTyped, ProblemKey
  PROVE  ScreensTyped'
  <1>1. ListsTyped /\ EndsTyped /\ PlacesTyped /\ FormsTyped /\ WaitingTyped /\ Nowhere \in Location
    BY LocationTypes DEF ScreensTyped, ListsTyped
  <1>2. PICK n \in problem :
           \/ /\ Run("usePort", Nowhere) /\ UNCHANGED <<screen, loaded, Forms, Lists, problemFrom>>
           \/ problemFrom' = None /\ ConnectRemedy(n)
           \/ UNCHANGED problemFrom /\ (EnterConnectManifest \/ CreateRemedy \/ EnterDatabases)
    BY DEF ProblemKey
  <1>3. EndsTyped'
    BY <1>1, <1>2 DEF ProblemKey, EndsTyped, Ends
  <1>4. CASE Run("usePort", Nowhere) /\ UNCHANGED <<screen, loaded, Forms, Lists, problemFrom>>
    <2>1. WaitingTyped' /\ busy' \in BOOLEAN
      BY <1>1, <1>4, LoadTypes DEF PlacesTyped, Operations
    <2>2. PlacesTyped'
      BY <1>1, <1>4, <2>1 DEF PlacesTyped, Lists
    <2>3. QED
      BY <1>1, <1>3, <1>4, <2>1, <2>2, KeptTypes DEF ScreensTyped, ListsTyped, Lists
  <1>5. CASE ConnectRemedy(n) \/ CreateRemedy
    <2>1. /\ UNCHANGED <<waiting, busy, loaded, server, editing, databases, browse, skills, explore>>
          /\ screen' \in {"create", "connect"}
      BY <1>5 DEF ConnectRemedy, CreateRemedy, NoCommand, Lists
    <2>2. FormsTyped'
      <3>1. CASE CreateRemedy
        BY <1>1, <3>1 DEF CreateRemedy, FormsTyped
      <3>2. CASE ConnectRemedy(n)
        <4> DEFINE to == IF n = "edit_manifest" THEN "manifest"
                         ELSE IF connect.step = "manifest" THEN connect.step ELSE "form"
        <4>1. to \in {"choose", "manifest", "form"}
          BY <1>1 DEF FormsTyped
        <4>2. connect' = [connect EXCEPT !.step = to] /\ UNCHANGED create
          BY <3>2 DEF ConnectRemedy
        <4> HIDE DEF to
        <4>3. QED
          BY <1>1, <4>1, <4>2 DEF FormsTyped
      <3>3. QED
        BY <1>5, <3>1, <3>2
    <2>3. PlacesTyped'
      BY <1>1, <2>1 DEF PlacesTyped, Screen
    <2>4. QED
      BY <1>1, <1>3, <2>1, <2>2, <2>3, KeptTypes DEF ScreensTyped, ListsTyped
  <1>6. CASE EnterConnectManifest \/ EnterDatabases
    BY <1>1, <1>3, <1>6, EnteringTypes DEF ScreensTyped
  <1>7. QED
    BY <1>2, <1>4, <1>5, <1>6

\* A screen that shows what came, and the screens that a result leaves as they are.
LEMMA FailsTypes ==
  ASSUME ScreensTyped, NEW c \in UnderWay, Fails(c)
  PROVE  /\ EndsTyped' /\ screen' \in Screen /\ loaded' \subseteq Screen
         /\ UNCHANGED <<create, connect, server, editing, databases, browse, skills, explore>>
  <1>1. /\ EndsTyped /\ loaded \subseteq Screen
    BY DEF ScreensTyped, ListsTyped, PlacesTyped
  <1>2. NextOf(c.what) \subseteq Remedies
    BY DEF NextOf, Remedies
  <1>3. problem' \subseteq Remedies
    BY <1>2 DEF Fails
  <1>4. QED
    BY <1>1, <1>3 DEF Fails, EndsTyped, Screen, Forms, Lists

\* An answer keeps what its screen shows.
LEMMA LoadAnswersTypes ==
  ASSUME ScreensTyped, NEW c \in UnderWay, LoadAnswers(c)
  PROVE  /\ EndsTyped' /\ FormsTyped' /\ DatabasesTyped' /\ BrowseTyped'
         /\ busy' \in BOOLEAN => PlacesTyped'
  <1>0. /\ ListsTyped /\ EndsTyped /\ FormsTyped /\ DatabasesTyped /\ BrowseTyped /\ PlacesTyped /\ c.at.db \in Database0
        /\ \A what \in Screen : loaded \cup {what} \subseteq Screen
    BY DEF ScreensTyped, ListsTyped, PlacesTyped, UnderWay, Location
  <1>1. EndsTyped' /\ FormsTyped'
    BY <1>0, EndsKept, KeptTypes DEF LoadAnswers
  <1> DEFINE shows == screen' = screen /\ \E what \in Screen : loaded' = loaded \cup {what}
  <1>2. CASE shows /\ UNCHANGED <<server, editing, databases, browse, skills, explore>>
    <2>1. screen' \in Screen /\ loaded' \subseteq Screen
      BY <1>0, <1>2 DEF PlacesTyped
    <2>2. busy' \in BOOLEAN => PlacesTyped'
      BY <1>0, <1>2, <2>1 DEF PlacesTyped
    <2>3. QED
      BY <1>0, <1>1, <1>2, <2>2, KeptTypes
  <1>3. CASE /\ shows /\ server' \in {{"start"}, {"restart", "stop"}}
             /\ UNCHANGED <<editing, databases, browse, skills, explore>>
    <2>1. screen' \in Screen /\ loaded' \subseteq Screen /\ server' \subseteq {"start", "restart", "stop", "open"}
      BY <1>0, <1>3 DEF PlacesTyped
    <2>2. busy' \in BOOLEAN => PlacesTyped'
      BY <1>0, <1>3, <2>1 DEF PlacesTyped
    <2>3. QED
      BY <1>0, <1>1, <1>3, <2>2, KeptTypes
  <1>4. CASE /\ shows
             /\ \E list \in SUBSET Database :
                   databases' = [databases EXCEPT !.list = list, !.cursor = Within(databases.cursor, list)]
             /\ UNCHANGED <<server, editing, browse, skills, explore>>
    <2>1. screen' \in Screen /\ loaded' \subseteq Screen
      BY <1>0, <1>4 DEF PlacesTyped
    <2>2. busy' \in BOOLEAN => PlacesTyped'
      BY <1>0, <1>4, <2>1 DEF PlacesTyped
    <2>3. DatabasesTyped'
      <3> PICK list \in SUBSET Database :
                   databases' = [databases EXCEPT !.list = list, !.cursor = Within(databases.cursor, list)]
        BY <1>4
      <3>1. Cardinality(list) \in 0 .. Cardinality(Database) /\ Cardinality(Database) \in Nat
        BY CardinalityTypes
      <3>2. databases.cursor \in 0 .. Cardinality(Database)
        BY <1>0 DEF DatabasesTyped
      <3>3. /\ Within(databases.cursor, list) \in 0 .. Cardinality(Database)
            /\ Within(databases.cursor, list) <= Cardinality(list)
        BY <3>1, <3>2 DEF Within
      <3>4. QED
        BY <1>0, <3>3 DEF DatabasesTyped
    <2>4. QED
      BY <1>0, <1>1, <1>4, <2>2, <2>3, KeptTypes
  <1>5. CASE /\ shows /\ browse' = [browse EXCEPT !.listed = TRUE]
             /\ UNCHANGED <<server, editing, databases, skills, explore>>
    <2>1. screen' \in Screen /\ loaded' \subseteq Screen
      BY <1>0, <1>5 DEF PlacesTyped
    <2>2. busy' \in BOOLEAN => PlacesTyped'
      BY <1>0, <1>5, <2>1 DEF PlacesTyped
    <2>3. BrowseTyped'
      BY <1>0, <1>5 DEF BrowseTyped
    <2>4. QED
      BY <1>0, <1>1, <1>5, <2>2, <2>3, KeptTypes
  <1>6. CASE /\ shows /\ skills' = [skills EXCEPT !.consent = skills.consent \/ c.what = "offer"]
             /\ UNCHANGED <<server, editing, databases, browse, explore>>
    <2>1. screen' \in Screen /\ loaded' \subseteq Screen
      BY <1>0, <1>6 DEF PlacesTyped
    <2>2. (skills.consent \/ c.what = "offer") \in BOOLEAN
      BY Zenon
    <2>3. skills' \in [consent : BOOLEAN, back : {"home", "result"}]
      BY <1>0, <1>6, <2>2 DEF PlacesTyped
    <2>4. busy' \in BOOLEAN => PlacesTyped'
      BY <1>0, <1>6, <2>1, <2>3 DEF PlacesTyped
    <2>5. QED
      BY <1>0, <1>1, <1>6, <2>4, KeptTypes
  <1>7. CASE /\ shows /\ \E db \in Database0 : explore' = [view |-> "menu", db |-> db]
             /\ UNCHANGED <<server, editing, databases, browse, skills>>
    <2>1. screen' \in Screen /\ loaded' \subseteq Screen
      BY <1>0, <1>7 DEF PlacesTyped
    <2>2. busy' \in BOOLEAN => PlacesTyped'
      BY <1>0, <1>7, <2>1 DEF PlacesTyped
    <2>3. QED
      BY <1>0, <1>1, <1>7, <2>2, KeptTypes
  <1>8. QED
    <2>1. CASE c.what = "exploreMenu"
      <3>1. \E db \in Database0 : explore' = [view |-> "menu", db |-> db]
        BY <1>0, <2>1 DEF LoadAnswers, Database0
      <3>2. shows /\ UNCHANGED <<server, editing, databases, browse, skills>>
        BY <2>1 DEF LoadAnswers, Shows, Screen
      <3>3. QED
        BY <1>7, <3>1, <3>2
    <2>2. CASE c.what = "databases"
      BY <1>4, <2>2 DEF LoadAnswers, Shows, Screen
    <2>3. CASE c.what \in {"skills", "offer"}
      BY <1>6, <2>3 DEF LoadAnswers, Shows, Screen
    <2>4. CASE c.what = "browseDatabases"
      BY <1>5, <2>4 DEF LoadAnswers, Shows, Screen
    <2>5. CASE c.what = "server"
      BY <1>3, <2>5 DEF LoadAnswers, Shows, Screen
    <2>6. CASE c.what \in {"home", "config", "engines", "connectEngines"}
      BY <1>2, <2>6 DEF LoadAnswers, Shows, Screen, Lists
    <2>7. QED
      BY <2>1, <2>2, <2>3, <2>4, <2>5, <2>6 DEF LoadAnswers

LEMMA PageAnswersTypes ==
  ASSUME ScreensTyped, NEW c \in UnderWay, PageAnswers(c)
  PROVE  /\ EndsTyped' /\ FormsTyped' /\ DatabasesTyped' /\ BrowseTyped'
         /\ busy' \in BOOLEAN => PlacesTyped'
  <1>0. ListsTyped /\ EndsTyped /\ BrowseTyped /\ PlacesTyped /\ c.at \in Location
    BY DEF ScreensTyped, ListsTyped, UnderWay
  <1>1. /\ UNCHANGED <<screen, Forms, Ends, problemFrom, server, editing, databases, skills, explore>>
        /\ loaded' \in {loaded, loaded \cup {"browse"}}
        /\ \/ UNCHANGED browse
           \/ \E more \in BOOLEAN : browse' = [browse EXCEPT !.page = c.at, !.more = more]
    BY DEF PageAnswers, Shows, Lists
  <1>2. BrowseTyped'
    BY <1>0, <1>1 DEF BrowseTyped
  <1>3. loaded' \subseteq Screen
    BY <1>0, <1>1 DEF PlacesTyped, Screen
  <1>4. busy' \in BOOLEAN => PlacesTyped'
    BY <1>0, <1>1, <1>3 DEF PlacesTyped
  <1>5. QED
    BY <1>0, <1>1, <1>2, <1>4, EndsKept, KeptTypes

LEMMA ResultsTypes ==
  ASSUME ScreensTyped, NEW c \in UnderWay, Results(c)
  PROVE  /\ EndsTyped' /\ DatabasesTyped' /\ BrowseTyped'
         /\ busy' \in BOOLEAN => PlacesTyped'
  <1>0. ListsTyped /\ EndsTyped /\ PlacesTyped /\ c.at.db \in Database0
    BY DEF ScreensTyped, ListsTyped, UnderWay, Location
  <1>1. ResultOf(c.what) \in SUBSET Actions
    BY DEF ResultOf, Actions
  <1>2. PICK db \in Database0 : result' = [next |-> ResultOf(c.what), db |-> db]
    BY <1>0 DEF Results, Database0
  <1>3. result' \in [next : SUBSET Actions, db : Database0]
    BY <1>1, <1>2
  <1>4. EndsTyped'
    BY <1>0, <1>3 DEF Results, EndsTyped
  <1>5. UNCHANGED <<loaded, server, editing, databases, browse, skills, explore>> /\ screen' \in Screen
    BY DEF Results, Lists, Screen
  <1>6. busy' \in BOOLEAN => PlacesTyped'
    BY <1>0, <1>5 DEF PlacesTyped
  <1>7. QED
    BY <1>0, <1>4, <1>5, <1>6, KeptTypes

LEMMA DemoAnswersTypes ==
  ASSUME ScreensTyped, NEW c \in UnderWay, DemoAnswers(c)
  PROVE  /\ EndsTyped' /\ FormsTyped' /\ DatabasesTyped' /\ BrowseTyped'
         /\ busy' \in BOOLEAN => PlacesTyped'
  <1>0. ListsTyped /\ EndsTyped /\ PlacesTyped
    BY DEF ScreensTyped, ListsTyped
  <1> DEFINE d == [c EXCEPT !.what = "installDemo"]
  <1>1. CASE Results(d) /\ UNCHANGED Forms
    <2>1. d \in UnderWay
      BY DEF UnderWay, Operations
    <2> HIDE DEF d
    <2>2. EndsTyped' /\ DatabasesTyped' /\ BrowseTyped' /\ (busy' \in BOOLEAN => PlacesTyped')
      BY <1>1, <2>1, ResultsTypes
    <2>3. QED
      BY <1>0, <1>1, <2>2, KeptTypes
  <1>2. CASE Shows("demo") /\ UNCHANGED <<screen, Forms, Lists, Ends, problemFrom>>
    <2>1. /\ UNCHANGED <<screen, server, editing, databases, browse, skills, explore>>
          /\ loaded' \subseteq Screen
      BY <1>0, <1>2 DEF Shows, Lists, PlacesTyped, Screen
    <2>2. busy' \in BOOLEAN => PlacesTyped'
      BY <1>0, <2>1 DEF PlacesTyped
    <2>3. QED
      BY <1>0, <1>2, <2>1, <2>2, EndsKept, KeptTypes
  <1>3. QED
    BY <1>1, <1>2 DEF DemoAnswers

LEMMA OperationAnswersTypes ==
  ASSUME ScreensTyped, NEW c \in UnderWay, OperationAnswers(c)
  PROVE  /\ EndsTyped' /\ FormsTyped' /\ DatabasesTyped' /\ BrowseTyped'
         /\ busy' \in BOOLEAN => PlacesTyped'
  <1>0. ListsTyped /\ EndsTyped /\ PlacesTyped /\ FormsTyped
    BY DEF ScreensTyped, ListsTyped
  <1>1. CASE Results(c)
    <2>1. NewForm \in [step : {"choose", "manifest", "form"}, chosen : {None, "file", "manifest"}]
      BY DEF NewForm
    <2>2. create' \in {create, NewForm} /\ connect' \in {connect, NewForm}
      BY <1>1 DEF OperationAnswers, Results, Forms, Screen
    <2>3. FormsTyped'
      BY <1>0, <2>1, <2>2 DEF FormsTyped
    <2>4. QED
      BY <1>1, <2>3, ResultsTypes
  <1>2. CASE /\ screen' \in {screen, "server", "result"}
             /\ loaded' \in {loaded, loaded \cup {"server"}, loaded \cup {"settings"}}
             /\ server' \in {server, {"restart", "stop"}} /\ editing' \in {editing, FALSE}
             /\ explore' \in {explore, [explore EXCEPT !.view = "cli"]}
             /\ UNCHANGED <<Forms, Ends, problemFrom, databases, browse, skills>>
    <2>1. /\ screen' \in Screen /\ loaded' \subseteq Screen
          /\ server' \subseteq {"start", "restart", "stop", "open"} /\ editing' \in BOOLEAN
      BY <1>0, <1>2 DEF PlacesTyped, Screen
    <2>2. explore' \in [view : {"menu", "cli", "app"}, db : Database0]
      BY <1>0, <1>2 DEF PlacesTyped
    <2>3. busy' \in BOOLEAN => PlacesTyped'
      BY <1>0, <1>2, <2>1, <2>2 DEF PlacesTyped
    <2>4. QED
      BY <1>0, <1>2, <2>3, EndsKept, KeptTypes
  <1>3. QED
    <2>1. CASE c.what \in {"startServer", "usePort"} /\ ~Results(c)
      BY <1>2, <2>1 DEF OperationAnswers, Shows, Lists
    <2>2. CASE c.what = "openDemo" /\ ~Results(c)
      BY <1>2, <2>2 DEF OperationAnswers, Shows, Lists
    <2>3. CASE c.what = "saveConfig" /\ ~Results(c)
      BY <1>2, <2>3 DEF OperationAnswers, Shows, Lists
    <2>4. CASE c.what = "exploreCLI" /\ ~Results(c)
      BY <1>2, <2>4 DEF OperationAnswers, Shows, Lists
    <2>5. CASE c.what \in {"openBrowser", "exploreApp"} /\ ~Results(c)
      BY <1>2, <2>5 DEF OperationAnswers, Shows, Lists
    <2>6. QED
      BY <1>1, <2>1, <2>2, <2>3, <2>4, <2>5 DEF OperationAnswers

LEMMA AnswerKeepsTypes ==
  ASSUME ScreensTyped, NEW i \in 1 .. Len(waiting), Answer(i)
  PROVE  ScreensTyped'
  <1> DEFINE c == waiting[i]
  <1>0. ListsTyped /\ WaitingTyped /\ PlacesTyped /\ busy \in BOOLEAN /\ c \in UnderWay
    BY DEF ScreensTyped, ListsTyped, WaitingTyped, PlacesTyped
  <1>1. WaitingTyped'
    <2>1. /\ RemoveAt(waiting, i) \in Seq(UnderWay) /\ Len(RemoveAt(waiting, i)) = Len(waiting) - 1
          /\ Len(waiting) \in Nat /\ MaxWaiting \in Nat
      BY <1>0, RemoveAtIs, ScreensAssumption DEF WaitingTyped
    <2>2. QED
      BY <1>0, <2>1 DEF Answer, WaitingTyped
  <1>2. busy' \in BOOLEAN
    <2>1. busy' = (busy /\ ~Frees(c))
      BY DEF Answer
    <2>2. (busy /\ ~Frees(c)) \in BOOLEAN
      BY Zenon
    <2>3. QED
      BY <2>1, <2>2
  <1>3. Fails(c) \/ PageAnswers(c) \/ DemoAnswers(c) \/ LoadAnswers(c) \/ OperationAnswers(c)
    BY DEF Answer
  <1> HIDE DEF c
  <1>4. CASE Fails(c)
    <2>1. /\ EndsTyped' /\ screen' \in Screen /\ loaded' \subseteq Screen
          /\ UNCHANGED <<create, connect, server, editing, databases, browse, skills, explore>>
      BY <1>0, <1>4, FailsTypes
    <2>2. PlacesTyped'
      BY <1>0, <1>2, <2>1 DEF PlacesTyped
    <2>3. UNCHANGED Forms
      BY <2>1 DEF Forms
    <2>4. QED
      BY <1>0, <1>1, <2>1, <2>2, <2>3, KeptTypes DEF ScreensTyped, ListsTyped
  <1>5. CASE PageAnswers(c) \/ DemoAnswers(c) \/ LoadAnswers(c) \/ OperationAnswers(c)
    <2>1. /\ EndsTyped' /\ FormsTyped' /\ DatabasesTyped' /\ BrowseTyped'
          /\ busy' \in BOOLEAN => PlacesTyped'
      BY <1>0, <1>5, PageAnswersTypes, DemoAnswersTypes, LoadAnswersTypes, OperationAnswersTypes
    <2>2. QED
      BY <1>1, <1>2, <2>1 DEF ScreensTyped, ListsTyped
  <1>6. QED
    BY <1>3, <1>4, <1>5

LEMMA ScreensTypesStart ==
  ASSUME Init
  PROVE  ScreensTyped
  <1>1. /\ Nowhere \in Location /\ None \in Database0 /\ \A db \in Database0 : At(db) \in Location
        /\ Cardinality(Database) \in Nat
    BY LocationTypes, CardinalityTypes DEF Database0
  <1>2. WaitingTyped
    <2>1. Command("home", Nowhere) \in UnderWay
      BY <1>1 DEF Command, UnderWay, Loads
    <2>2. QED
      BY <2>1, ScreensAssumption DEF Init, WaitingTyped
  <1>3. FormsTyped /\ DatabasesTyped
    <2>1. Cardinality({}) = 0
      BY FS_EmptySet
    <2>2. QED
      BY <1>1, <2>1 DEF Init, FormsTyped, NewForm, DatabasesTyped, NewDatabases
  <1>4. BrowseTyped
    BY <1>1 DEF Init, BrowseTyped, NewBrowse
  <1>5. PlacesTyped /\ EndsTyped
    BY <1>1 DEF Init, PlacesTyped, EndsTyped, Screen
  <1>6. QED
    BY <1>2, <1>3, <1>4, <1>5 DEF ScreensTyped, ListsTyped

LEMMA ScreensTypesStep ==
  ASSUME ScreensTyped, [Next]_vars
  PROVE  ScreensTyped'
  <1>1. CASE UNCHANGED vars
    BY <1>1 DEF vars, ScreensTyped, ListsTyped, WaitingTyped, FormsTyped, DatabasesTyped, BrowseTyped, PlacesTyped, EndsTyped
  <1>2. CASE \E i \in 1 .. Len(waiting) : Answer(i)
    BY <1>2, AnswerKeepsTypes
  <1>3. QED
    BY <1>1, <1>2, HomeTypes, ServerTypes, SettingsTypes, LeaveTypes, FormTypes, DatabasesTypes, BrowseTypes,
       OfferTypes, ResultTypes, ProblemTypes DEF Next

-----------------------------------------------------------------------------
(* Skills: what the server is asked to do is what the person agreed to *)

\* One request: what is shown while it is asked, and what is sent, is what
\* the person said yes to; the server works on no other folder.
AsAgreed(c) ==
    /\ pc[c] = "asking" /\ c \in S!Commands =>
          /\ \A p \in request[c].targets : S!CheckTarget(p)
          /\ request[c].adopt = request[c].targets \cap S!ShownAs(c, "adoptable")
    /\ pc[c] \in {"sent", "installing", "removing"} =>
          /\ request[c].targets = agreed[c].targets
          /\ request[c].adopt \subseteq agreed[c].adopt
          /\ request[c].all => c \in S!Whole /\ agreed[c].adopt # {}
          /\ \A p \in request[c].targets : S!CheckTarget(p)
    /\ left[c] \subseteq request[c].targets
    /\ at[c] \in request[c].targets \cup {None}
    /\ pc[c] \notin {"installing", "removing"} => left[c] = {} /\ at[c] = None
    /\ pc[c] = "removing" => at[c] \in request[c].targets

SkillsInv == S!SkillsTypeOK /\ \A c \in Client : AsAgreed(c)

\* Clients that an action leaves alone.
Untouched(d) ==
    /\ pc'[d] = pc[d] /\ shown'[d] = shown[d] /\ request'[d] = request[d]
    /\ agreed'[d] = agreed[d] /\ left'[d] = left[d] /\ at'[d] = at[d]

LEMMA UntouchedAgreed ==
  ASSUME NEW d \in Client, AsAgreed(d), Untouched(d)
  PROVE  AsAgreed(d)'
  <1>1. S!ShownAs(d, "adoptable")' = S!ShownAs(d, "adoptable")
    BY DEF Untouched, S!ShownAs
  <1>2. QED
    BY <1>1 DEF AsAgreed, Untouched, S!CheckTarget, S!CheckUnderHome

\* What is sent is a request, and names no folder that was not agreed to.
LEMMA AsksTypes ==
  ASSUME NEW c, NEW targets \in SUBSET S!Place, NEW replace \in BOOLEAN, NEW adopt \in SUBSET S!Place
  PROVE  /\ S!Asks(c, targets, replace, adopt) \in S!InstallRequest
         /\ S!Asks(c, targets, replace, adopt).targets = targets
         /\ S!Asks(c, targets, replace, adopt).replace = replace
         /\ S!Asks(c, targets, replace, adopt).adopt \subseteq adopt
         /\ S!Asks(c, targets, replace, adopt).all => c \in S!Whole /\ adopt # {}
  BY DEF S!Asks, S!InstallRequest

LEMMA SkillsInit == S!Init => SkillsInv
  <1> SUFFICES ASSUME S!Init PROVE SkillsInv
    OBVIOUS
  <1>1. S!SkillsTypeOK
    BY SkillsAssumption DEF S!Init, S!SkillsTypeOK, S!NoRequest, S!NoConsents, S!InstallRequest, S!Consents, S!Copy, S!Place
  <1>2. ASSUME NEW c \in Client PROVE AsAgreed(c)
    BY DEF AsAgreed, S!Init, S!NoRequest, S!NoConsents
  <1>3. QED
    BY <1>1, <1>2 DEF SkillsInv

\* What is shown of a place is a state.
LEMMA InspectState ==
  ASSUME S!SkillsTypeOK, NEW p \in S!Place
  PROVE  S!Inspect(p) \in S!State
  <1>1. copy[p] \in S!Copy
    BY DEF S!SkillsTypeOK
  <1>2. S!StateFor(copy[p]) \in S!State
    BY <1>1 DEF S!StateFor, S!Copy, S!State
  <1>3. QED
    BY <1>1, <1>2 DEF S!Inspect, S!State, S!Copy

LEMMA ShownState ==
  ASSUME S!SkillsTypeOK, NEW c, NEW places
  PROVE  S!ShownOf(c, places) \in [S!Place -> S!State]
  <1>1. ASSUME NEW p \in S!Place PROVE S!Told(c, S!Inspect(p)) \in S!State
    BY <1>1, InspectState DEF S!Told, S!State
  <1>2. "not_installed" \in S!State
    BY DEF S!State
  <1>3. QED
    BY <1>1, <1>2 DEF S!ShownOf

LEMMA ResolvePlaces ==
  ASSUME S!SkillsTypeOK, NEW hs \in SUBSET Harness, NEW ds \in SUBSET Folder
  PROVE  S!Resolve(hs, ds) \in SUBSET S!Place
  BY SkillsAssumption DEF S!SkillsTypeOK, S!Resolve, S!Place

LEMMA PlanKeeps ==
  ASSUME SkillsInv, NEW c \in Client, S!Plan(c)
  PROVE  SkillsInv'
  <1>1. PICK hs \in SUBSET Harness, ds \in SUBSET Folder, replace \in BOOLEAN :
           LET targets == S!Resolve(hs, ds) IN
           /\ \A p \in targets : S!CheckTarget(p)
           /\ shown' = [shown EXCEPT ![c] = S!ShownOf(c, targets)]
           /\ request' = [request EXCEPT ![c] =
                [targets |-> targets, replace |-> replace, adopt |-> S!Adoptable(targets), all |-> FALSE]]
    BY DEF S!Plan
  <1> DEFINE targets == S!Resolve(hs, ds)
  <1>2. targets \in SUBSET S!Place /\ S!Adoptable(targets) \in SUBSET S!Place
    BY ResolvePlaces DEF SkillsInv, S!Adoptable
  <1>3. S!ShownOf(c, targets) \in [S!Place -> S!State]
    BY ShownState DEF SkillsInv
  <1>4. /\ \A p \in targets : S!CheckTarget(p)
        /\ shown' = [shown EXCEPT ![c] = S!ShownOf(c, targets)]
        /\ request' = [request EXCEPT ![c] =
              [targets |-> targets, replace |-> replace, adopt |-> S!Adoptable(targets), all |-> FALSE]]
    BY <1>1
  <1> HIDE DEF targets
  <1>5. /\ pc[c] = "idle" /\ c \in S!Commands /\ pc' = [pc EXCEPT ![c] = "asking"]
        /\ UNCHANGED <<copy, journal, unusable, detected, changes, left, at, agreed>>
    BY DEF S!Plan, S!NoInstall, S!disk
  <1>6. S!SkillsTypeOK'
    <2>1. [targets |-> targets, replace |-> replace, adopt |-> S!Adoptable(targets), all |-> FALSE] \in S!InstallRequest
      BY <1>2 DEF S!InstallRequest
    <2>2. QED
      BY <1>3, <1>4, <1>5, <2>1 DEF SkillsInv, S!SkillsTypeOK
  <1>7. ASSUME NEW d \in Client, d # c PROVE AsAgreed(d)'
    BY <1>4, <1>5, <1>7, UntouchedAgreed DEF SkillsInv, S!SkillsTypeOK, Untouched
  <1>8. AsAgreed(c)'
    <2>1. /\ pc'[c] = "asking" /\ shown'[c] = S!ShownOf(c, targets)
          /\ request'[c].targets = targets /\ request'[c].adopt = S!Adoptable(targets)
          /\ left'[c] = {} /\ at'[c] = None
      BY <1>4, <1>5 DEF SkillsInv, S!SkillsTypeOK, AsAgreed
    <2>2. S!Adoptable(targets) = targets \cap {p \in S!Place : S!ShownOf(c, targets)[p] = "adoptable"}
      BY <1>2, <1>5 DEF S!Adoptable, S!ShownOf, S!Told, S!Commands, S!Whole
    <2>3. S!ShownAs(c, "adoptable")' = {p \in S!Place : S!ShownOf(c, targets)[p] = "adoptable"}
      BY <2>1 DEF S!ShownAs
    <2>4. QED
      BY <1>4, <2>1, <2>2, <2>3 DEF AsAgreed, S!CheckTarget, S!CheckUnderHome
  <1>9. QED
    BY <1>6, <1>7, <1>8 DEF SkillsInv

LEMMA ConfirmKeeps ==
  ASSUME SkillsInv, NEW c \in Client, S!Confirm(c)
  PROVE  SkillsInv'
  <1> DEFINE r == request[c]
             changed == r.targets \cap S!ShownAs(c, "changed")
             adopt == r.targets \cap S!ShownAs(c, "adoptable")
  <1>1. PICK replace \in BOOLEAN, gone \in SUBSET S!Place :
           /\ pc' = [pc EXCEPT ![c] = "sent"]
           /\ request' = [request EXCEPT ![c] = S!Asks(c, r.targets, replace, r.adopt)]
           /\ agreed' = [agreed EXCEPT ![c] = [targets |-> r.targets, replace |-> gone, adopt |-> adopt]]
    <2>1. r \in S!InstallRequest
      BY DEF SkillsInv, S!SkillsTypeOK
    <2>2. PICK too \in BOOLEAN :
             S!Sends(c, r.targets, r.replace \/ too, r.adopt,
                     [targets |-> r.targets, adopt |-> adopt,
                      replace |-> IF r.replace THEN r.targets ELSE IF too THEN changed ELSE {}])
      BY DEF S!Confirm
    <2>3. (r.replace \/ too) \in BOOLEAN
      BY <2>1 DEF S!InstallRequest
    <2>4. (IF r.replace THEN r.targets ELSE IF too THEN changed ELSE {}) \in SUBSET S!Place
      BY <2>1 DEF S!InstallRequest
    <2> HIDE DEF r, changed, adopt
    <2>5. QED
      BY <2>2, <2>3, <2>4 DEF S!Sends
  <1>2. /\ pc[c] = "asking" /\ c \in S!Commands
        /\ UNCHANGED <<copy, journal, unusable, detected, changes, left, at, shown>>
    BY DEF S!Confirm, S!NoInstall, S!disk
  <1>3. r \in S!InstallRequest /\ adopt \in SUBSET S!Place
    BY DEF SkillsInv, S!SkillsTypeOK, S!InstallRequest
  <1>4. r.adopt = adopt /\ \A p \in r.targets : S!CheckTarget(p)
    BY <1>2 DEF SkillsInv, AsAgreed
  <1> DEFINE ask == S!Asks(c, r.targets, replace, r.adopt)
  <1>a. /\ ask \in S!InstallRequest /\ ask.targets = r.targets /\ ask.adopt \subseteq adopt
        /\ ask.all => c \in S!Whole /\ adopt # {}
    <2>1. r.targets \in SUBSET S!Place /\ r.adopt \in SUBSET S!Place
      BY <1>3 DEF S!InstallRequest
    <2> HIDE DEF r, changed, adopt
    <2>2. QED
      BY <1>4, <2>1, AsksTypes
  <1>5. S!SkillsTypeOK'
    <2>2. [targets |-> r.targets, replace |-> gone, adopt |-> adopt] \in S!Consents
      BY <1>3 DEF S!InstallRequest, S!Consents
    <2> HIDE DEF r, changed, adopt
    <2>3. QED
      BY <1>a, <1>1, <1>2, <2>2 DEF SkillsInv, S!SkillsTypeOK
  <1>6. ASSUME NEW d \in Client, d # c PROVE AsAgreed(d)'
    <2> HIDE DEF r, changed, adopt
    <2>1. QED
      BY <1>1, <1>2, <1>6, UntouchedAgreed DEF SkillsInv, S!SkillsTypeOK, Untouched
  <1>7. AsAgreed(c)'
    <2>1. left[c] = {} /\ at[c] = None
      BY <1>2 DEF SkillsInv, AsAgreed
    <2> HIDE DEF r, changed, adopt
    <2>2. /\ pc'[c] = "sent" /\ left'[c] = {} /\ at'[c] = None /\ request'[c] = ask
          /\ agreed'[c].targets = r.targets /\ agreed'[c].adopt = adopt
      BY <1>1, <1>2, <2>1 DEF SkillsInv, S!SkillsTypeOK
    <2> HIDE DEF ask
    <2>3. QED
      BY <1>4, <1>a, <2>2 DEF AsAgreed, S!CheckTarget, S!CheckUnderHome
  <1>8. QED
    BY <1>5, <1>6, <1>7 DEF SkillsInv

LEMMA OfferKeeps ==
  ASSUME SkillsInv, NEW c \in Client, S!Offer(c)
  PROVE  SkillsInv'
  <1>1. S!ShownOf(c, S!Listed) \in [S!Place -> S!State]
    BY ShownState DEF SkillsInv
  <1>2. /\ pc[c] = "idle" /\ c \notin S!Commands /\ pc' = [pc EXCEPT ![c] = "asking"]
        /\ shown' = [shown EXCEPT ![c] = S!ShownOf(c, S!Listed)]
        /\ UNCHANGED <<copy, journal, unusable, detected, changes, left, at, agreed, request>>
    BY DEF S!Offer, S!NoInstall, S!disk, S!Shows
  <1>3. S!SkillsTypeOK'
    BY <1>1, <1>2 DEF SkillsInv, S!SkillsTypeOK
  <1>4. ASSUME NEW d \in Client, d # c PROVE AsAgreed(d)'
    BY <1>2, <1>4, UntouchedAgreed DEF SkillsInv, S!SkillsTypeOK, Untouched
  <1>5. AsAgreed(c)'
    BY <1>2 DEF SkillsInv, S!SkillsTypeOK, AsAgreed
  <1>6. QED
    BY <1>3, <1>4, <1>5 DEF SkillsInv

LEMMA NotNowKeeps ==
  ASSUME SkillsInv, NEW c \in Client, S!NotNow(c)
  PROVE  SkillsInv'
  <1>1. /\ pc[c] = "asking" /\ pc' = [pc EXCEPT ![c] = "idle"]
        /\ shown' = [shown EXCEPT ![c] = None] /\ request' = [request EXCEPT ![c] = S!NoRequest]
        /\ UNCHANGED <<copy, journal, unusable, detected, changes, left, at, agreed>>
    BY DEF S!NotNow, S!NoInstall, S!disk
  <1>2. S!SkillsTypeOK'
    BY <1>1 DEF SkillsInv, S!SkillsTypeOK, S!NoRequest, S!InstallRequest
  <1>3. ASSUME NEW d \in Client, d # c PROVE AsAgreed(d)'
    BY <1>1, <1>3, UntouchedAgreed DEF SkillsInv, S!SkillsTypeOK, Untouched
  <1>4. AsAgreed(c)'
    BY <1>1 DEF SkillsInv, S!SkillsTypeOK, AsAgreed
  <1>5. QED
    BY <1>2, <1>3, <1>4 DEF SkillsInv

LEMMA InstallTickedKeeps ==
  ASSUME SkillsInv, NEW c \in Client, S!InstallTicked(c)
  PROVE  SkillsInv'
  <1>1. PICK toggled \in SUBSET S!Selectable(c) :
          LET ticked == S!Chosen(c, toggled)
              adopt == ticked \cap S!ShownAs(c, "adoptable")
              replace == ticked \cap S!ShownAs(c, "changed") IN
          S!Sends(c, ticked, replace # {}, adopt,
                  [targets |-> ticked, replace |-> replace \cap toggled, adopt |-> adopt \cap toggled])
    BY DEF S!InstallTicked
  <1> DEFINE ticked == S!Chosen(c, toggled)
             adopt == ticked \cap S!ShownAs(c, "adoptable")
             gone == ticked \cap S!ShownAs(c, "changed") \cap toggled
             replace == ticked \cap S!ShownAs(c, "changed") # {}
  <1>2. S!Sends(c, ticked, replace, adopt, [targets |-> ticked, replace |-> gone, adopt |-> adopt \cap toggled])
    BY <1>1
  <1>3. /\ pc[c] = "asking" /\ c \notin S!Commands
        /\ UNCHANGED <<copy, journal, unusable, detected, changes, left, at, shown>>
    BY DEF S!InstallTicked, S!NoInstall, S!disk
  <1>4. ticked \subseteq S!Selectable(c)
    BY DEF S!Chosen, S!Preselected
  <1>5. S!Selectable(c) \subseteq Harness /\ Harness \subseteq S!Place
    BY DEF S!Selectable, SkillsInv, S!SkillsTypeOK, S!Place
  <1>6. adopt \cap toggled = adopt
    BY DEF S!Chosen, S!Preselected, S!ShownAs
  <1>7. replace \in BOOLEAN /\ ticked \in SUBSET Harness
    BY <1>4, <1>5
  <1>8. adopt \subseteq ticked /\ gone \subseteq ticked
    OBVIOUS
  <1> HIDE DEF ticked, adopt, gone, replace
  <1>9. /\ pc' = [pc EXCEPT ![c] = "sent"]
        /\ request' = [request EXCEPT ![c] = S!Asks(c, ticked, replace, adopt)]
        /\ agreed' = [agreed EXCEPT ![c] = [targets |-> ticked, replace |-> gone, adopt |-> adopt]]
    BY <1>2, <1>6 DEF S!Sends
  <1> DEFINE ask == S!Asks(c, ticked, replace, adopt)
  <1>a. /\ ask \in S!InstallRequest /\ ask.targets = ticked /\ ask.adopt \subseteq adopt
        /\ ask.all => c \in S!Whole /\ adopt # {}
    <2>1. ticked \in SUBSET S!Place /\ adopt \in SUBSET S!Place
      BY <1>5, <1>7, <1>8
    <2>2. QED
      BY <1>7, <2>1 DEF S!Asks, S!InstallRequest
  <1> HIDE DEF ask
  <1>b. request' = [request EXCEPT ![c] = ask]
    BY <1>9 DEF ask
  <1>10. S!SkillsTypeOK'
    <2>2. [targets |-> ticked, replace |-> gone, adopt |-> adopt] \in S!Consents
      BY <1>5, <1>7, <1>8 DEF S!Consents
    <2>3. QED
      BY <1>3, <1>9, <1>a, <1>b, <2>2 DEF SkillsInv, S!SkillsTypeOK
  <1>11. ASSUME NEW d \in Client, d # c PROVE AsAgreed(d)'
    BY <1>3, <1>9, <1>11, UntouchedAgreed DEF SkillsInv, S!SkillsTypeOK, Untouched
  <1>12. AsAgreed(c)'
    <2>1. left[c] = {} /\ at[c] = None
      BY <1>3 DEF SkillsInv, AsAgreed
    <2>2. /\ pc'[c] = "sent" /\ left'[c] = {} /\ at'[c] = None
          /\ request'[c] = ask
          /\ agreed'[c].targets = ticked /\ agreed'[c].adopt = adopt
      BY <1>3, <1>9, <1>b, <2>1 DEF SkillsInv, S!SkillsTypeOK
    <2>3. QED
      BY <1>7, <1>a, <2>2 DEF AsAgreed, S!CheckTarget, S!CheckUnderHome
  <1>13. QED
    BY <1>10, <1>11, <1>12 DEF SkillsInv

LEMMA SkillsEndKeeps ==
  ASSUME SkillsInv, NEW c \in Client, S!Ends(c),
         copy' \in [S!Place -> S!Copy], UNCHANGED <<journal, unusable, detected, changes>>
  PROVE  SkillsInv'
  <1>1. S!SkillsTypeOK'
    BY DEF SkillsInv, S!SkillsTypeOK, S!Ends, S!NoRequest, S!NoConsents, S!InstallRequest, S!Consents
  <1>2. ASSUME NEW d \in Client, d # c PROVE AsAgreed(d)'
    BY <1>2, UntouchedAgreed DEF SkillsInv, S!SkillsTypeOK, S!Ends, Untouched
  <1>3. AsAgreed(c)'
    BY DEF SkillsInv, S!SkillsTypeOK, S!Ends, AsAgreed
  <1>4. QED
    BY <1>1, <1>2, <1>3 DEF SkillsInv

LEMMA ReceiveKeeps ==
  ASSUME SkillsInv, NEW c \in Client, S!Receive(c)
  PROVE  SkillsInv'
  <1>1. UNCHANGED <<copy, journal, unusable, detected, changes>> /\ pc[c] = "sent"
    BY DEF S!Receive, S!disk
  <1>2. CASE S!Ends(c)
    BY <1>1, <1>2, SkillsEndKeeps DEF SkillsInv, S!SkillsTypeOK
  <1>3. CASE /\ pc' = [pc EXCEPT ![c] = "installing"]
             /\ left' = [left EXCEPT ![c] = request[c].targets]
             /\ UNCHANGED <<shown, request, agreed, at>>
    <2>1. request[c].targets \in SUBSET S!Place
      BY DEF SkillsInv, S!SkillsTypeOK, S!InstallRequest
    <2>2. S!SkillsTypeOK'
      BY <1>1, <1>3, <2>1 DEF SkillsInv, S!SkillsTypeOK
    <2>3. ASSUME NEW d \in Client, d # c PROVE AsAgreed(d)'
      BY <1>1, <1>3, <2>3, UntouchedAgreed DEF SkillsInv, S!SkillsTypeOK, Untouched
    <2>4. AsAgreed(c)'
      <3>1. /\ pc'[c] = "installing" /\ left'[c] = request'[c].targets /\ at'[c] = at[c]
            /\ request'[c] = request[c] /\ agreed'[c] = agreed[c]
        BY <1>3 DEF SkillsInv, S!SkillsTypeOK
      <3>2. QED
        BY <1>1, <3>1 DEF SkillsInv, AsAgreed, S!CheckTarget, S!CheckUnderHome
    <2>5. QED
      BY <2>2, <2>3, <2>4 DEF SkillsInv
  <1>4. QED
    BY <1>2, <1>3 DEF S!Receive

\* What a step of the server does to a folder: it is one of those agreed to.
ServesAgreed(c) ==
    did'.client # None =>
        /\ did'.client = c /\ agreed'[c] = agreed[c]
        /\ did'.place \in agreed[c].targets /\ S!CheckTarget(did'.place)
        /\ did'.what = "adopted" => S!TakesOver(c, did'.place)

LEMMA SkillsBeginKeeps ==
  ASSUME SkillsInv, NEW c \in Client, S!Begin(c)
  PROVE  SkillsInv' /\ did' = S!Nothing
  <1>1. PICK p \in left[c] :
          /\ at' = [at EXCEPT ![c] = p]
          /\ left' = [left EXCEPT ![c] = @ \ {p}]
          /\ pc' = [pc EXCEPT ![c] =
               IF request[c].replace /\ S!Inspect(p) = "changed" THEN "removing" ELSE @]
    BY DEF S!Begin
  <1>2. /\ pc[c] = "installing"
        /\ UNCHANGED <<copy, journal, unusable, detected, changes, shown, request, agreed>>
    BY DEF S!Begin, S!disk
  <1>3. p \in request[c].targets /\ p \in S!Place
    BY <1>2 DEF SkillsInv, S!SkillsTypeOK, AsAgreed
  <1>4. /\ at'[c] = p /\ left'[c] = left[c] \ {p} /\ pc'[c] \in {"installing", "removing"}
        /\ \A d \in Client : d # c => pc'[d] = pc[d] /\ left'[d] = left[d] /\ at'[d] = at[d]
    BY <1>1, <1>2 DEF SkillsInv, S!SkillsTypeOK
  <1>5. S!SkillsTypeOK'
    BY <1>1, <1>2, <1>3 DEF SkillsInv, S!SkillsTypeOK
  <1>6. ASSUME NEW d \in Client, d # c PROVE AsAgreed(d)'
    BY <1>2, <1>4, <1>6, UntouchedAgreed DEF SkillsInv, Untouched
  <1>7. AsAgreed(c)'
    BY <1>2, <1>3, <1>4 DEF SkillsInv, AsAgreed, S!CheckTarget, S!CheckUnderHome
  <1>8. QED
    BY <1>5, <1>6, <1>7 DEF SkillsInv, S!Begin

LEMMA RemovesKeeps ==
  ASSUME SkillsInv, NEW c \in Client, S!Removes(c)
  PROVE  /\ SkillsInv'
         /\ ServesAgreed(c)
         /\ did'.what = "replaced" => did'.place = at[c]
  <1>1. /\ pc[c] = "removing" /\ at[c] \in request[c].targets
        /\ UNCHANGED <<journal, unusable, detected, changes>>
    BY DEF S!Removes, SkillsInv, AsAgreed
  <1>2. /\ at[c] \in request[c].targets /\ at[c] \in S!Place
        /\ at[c] \in agreed[c].targets /\ S!CheckTarget(at[c])
    BY <1>1 DEF SkillsInv, S!SkillsTypeOK, S!InstallRequest, AsAgreed
  <1>3. copy' \in [S!Place -> S!Copy]
    <2>1. "none" \in S!Copy /\ copy \in [S!Place -> S!Copy]
      BY DEF SkillsInv, S!SkillsTypeOK, S!Copy
    <2>2. copy' = [copy EXCEPT ![at[c]] = "none"] \/ copy' = copy
      BY DEF S!Removes
    <2>3. QED
      BY <2>1, <2>2
  <1>4. S!Nothing.client = None /\ S!Nothing.what = "nothing"
    BY DEF S!Nothing
  <1>5. CASE S!Ends(c) /\ did' = S!Nothing
    BY <1>1, <1>3, <1>4, <1>5, SkillsEndKeeps DEF ServesAgreed
  <1>6. CASE /\ did' = [what |-> "replaced", place |-> at[c], client |-> c]
             /\ pc' = [pc EXCEPT ![c] = "installing"]
             /\ UNCHANGED <<shown, request, agreed, left, at>>
    <2>1. S!SkillsTypeOK'
      BY <1>1, <1>3, <1>6 DEF SkillsInv, S!SkillsTypeOK
    <2>2. ASSUME NEW d \in Client, d # c PROVE AsAgreed(d)'
      BY <1>6, <2>2, UntouchedAgreed DEF SkillsInv, S!SkillsTypeOK, Untouched
    <2>3. AsAgreed(c)'
      <3>1. pc'[c] = "installing"
        BY <1>6 DEF SkillsInv, S!SkillsTypeOK
      <3>2. QED
        BY <1>1, <1>6, <3>1 DEF SkillsInv, AsAgreed, S!CheckTarget, S!CheckUnderHome
    <2>4. ServesAgreed(c)
      BY <1>2, <1>6 DEF ServesAgreed
    <2>5. QED
      BY <1>6, <2>1, <2>2, <2>3, <2>4 DEF SkillsInv
  <1>7. QED
    BY <1>5, <1>6 DEF S!Removes

LEMMA SyncKeeps ==
  ASSUME SkillsInv, NEW c \in Client, S!Sync(c)
  PROVE  SkillsInv' /\ ServesAgreed(c) /\ did'.what # "replaced"
  <1> DEFINE p == at[c]
  <1>1. /\ pc[c] = "installing" /\ p # None
        /\ at' = [at EXCEPT ![c] = None]
        /\ UNCHANGED <<unusable, detected, changes, pc, shown, request, agreed, left>>
    BY DEF S!Sync
  <1>2. \/ /\ journal' = journal \ {p}
           /\ copy' = [copy EXCEPT ![p] = IF S!Writes(c) THEN "current" ELSE @]
           /\ \/ did' = [what |-> "adopted", place |-> p, client |-> c] /\ S!Adopts(c)
              \/ did' = [what |-> "wrote", place |-> p, client |-> c]
              \/ did' = S!Nothing
        \/ did' = S!Nothing /\ UNCHANGED <<copy, journal>>
    BY DEF S!Sync
  <1>3. /\ p \in request[c].targets /\ p \in S!Place
        /\ p \in agreed[c].targets /\ S!CheckTarget(p)
    BY <1>1 DEF SkillsInv, S!SkillsTypeOK, S!InstallRequest, AsAgreed
  <1>4. S!Adopts(c) => S!TakesOver(c, p)
    BY <1>1 DEF SkillsInv, AsAgreed, S!Adopts, S!Covers, S!TakesOver
  <1> HIDE DEF p
  <1>5. journal' \subseteq S!Place /\ copy' \in [S!Place -> S!Copy]
    <2>1. "current" \in S!Copy /\ copy \in [S!Place -> S!Copy] /\ journal \subseteq S!Place
      BY DEF SkillsInv, S!SkillsTypeOK, S!Copy
    <2>2. copy' = [copy EXCEPT ![p] = "current"] \/ copy' = copy
      BY <1>2, <2>1
    <2>3. QED
      BY <1>2, <2>1, <2>2
  <1>6. S!SkillsTypeOK'
    BY <1>1, <1>5 DEF SkillsInv, S!SkillsTypeOK
  <1>7. ASSUME NEW d \in Client, d # c PROVE AsAgreed(d)'
    BY <1>1, <1>7, UntouchedAgreed DEF SkillsInv, S!SkillsTypeOK, Untouched
  <1>8. AsAgreed(c)'
    <2>1. /\ at'[c] = None /\ left'[c] = left[c]
          /\ pc'[c] = pc[c] /\ request'[c] = request[c] /\ agreed'[c] = agreed[c]
      BY <1>1 DEF SkillsInv, S!SkillsTypeOK
    <2>2. QED
      BY <1>1, <2>1 DEF SkillsInv, AsAgreed, S!CheckTarget, S!CheckUnderHome
  <1>9. S!Nothing.client = None /\ S!Nothing.what = "nothing"
    BY DEF S!Nothing
  <1>10. ServesAgreed(c)
    BY <1>1, <1>2, <1>3, <1>4, <1>9 DEF ServesAgreed
  <1>11. QED
    BY <1>2, <1>6, <1>7, <1>8, <1>9, <1>10 DEF SkillsInv

LEMMA DieKeeps ==
  ASSUME SkillsInv, S!Die
  PROVE  SkillsInv'
  <1> DEFINE working == {c \in Client : pc[c] \in {"sent", "installing", "removing"}}
  <1>1. /\ pc' = [c \in Client |-> IF c \in working THEN "idle" ELSE pc[c]]
        /\ shown' = [c \in Client |-> IF c \in working THEN None ELSE shown[c]]
        /\ request' = [c \in Client |-> IF c \in working THEN S!NoRequest ELSE request[c]]
        /\ agreed' = [c \in Client |-> IF c \in working THEN S!NoConsents ELSE agreed[c]]
        /\ left' = [c \in Client |-> {}] /\ at' = [c \in Client |-> None]
        /\ UNCHANGED <<copy, unusable, detected, changes>>
    BY DEF S!Die
  <1>2. PICK c \in Client : pc[c] = "installing" /\ at[c] # None /\ journal' = journal \cup {at[c]}
    BY DEF S!Die
  <1>3. journal' \subseteq S!Place
    BY <1>2 DEF SkillsInv, S!SkillsTypeOK
  <1>4. S!NoRequest \in S!InstallRequest /\ S!NoConsents \in S!Consents
    BY DEF S!NoRequest, S!NoConsents, S!InstallRequest, S!Consents
  <1>5. S!SkillsTypeOK'
    BY <1>1, <1>3, <1>4 DEF SkillsInv, S!SkillsTypeOK
  <1>6. ASSUME NEW d \in Client PROVE AsAgreed(d)'
    <2>1. CASE d \in working
      <3>1. pc'[d] = "idle" /\ left'[d] = {} /\ at'[d] = None
        BY <1>1, <2>1
      <3>2. QED
        BY <3>1 DEF AsAgreed
    <2>2. CASE d \notin working
      <3>1. left[d] = {} /\ at[d] = None
        BY <2>2 DEF SkillsInv, S!SkillsTypeOK, AsAgreed
      <3>2. Untouched(d)
        BY <1>1, <2>2, <3>1 DEF Untouched
      <3>3. QED
        BY <3>2, UntouchedAgreed DEF SkillsInv
    <2>3. QED
      BY <2>1, <2>2
  <1>7. QED
    BY <1>5, <1>6 DEF SkillsInv

LEMMA ChangeFolderKeeps ==
  ASSUME SkillsInv, NEW p \in Harness, S!ChangeFolder(p)
  PROVE  SkillsInv'
  <1>1. p \in S!Place /\ changes' \in 0 .. MaxChanges
    BY SkillsAssumption DEF S!ChangeFolder, S!Place, SkillsInv, S!SkillsTypeOK
  <1>2. copy' \in [S!Place -> S!Copy]
    <2>1. copy \in [S!Place -> S!Copy] /\ {"edited", "same", "other"} \subseteq S!Copy
      BY DEF SkillsInv, S!SkillsTypeOK, S!Copy
    <2>2. UNCHANGED copy \/ \E put \in {"edited", "same", "other"} : copy' = [copy EXCEPT ![p] = put]
      BY DEF S!ChangeFolder
    <2>3. QED
      BY <1>1, <2>1, <2>2
  <1>3. journal' \subseteq S!Place /\ unusable' \subseteq S!Place /\ detected' \subseteq Harness
    BY <1>1 DEF S!ChangeFolder, SkillsInv, S!SkillsTypeOK
  <1>4. UNCHANGED <<pc, shown, request, agreed, left, at>>
    BY DEF S!ChangeFolder
  <1>5. S!SkillsTypeOK'
    BY <1>1, <1>2, <1>3, <1>4 DEF SkillsInv, S!SkillsTypeOK
  <1>6. QED
    BY <1>4, <1>5, UntouchedAgreed DEF SkillsInv, Untouched

\* Every folder the server writes, takes over or empties is one that was
\* agreed to, and so is every one it takes over: OnlyAsAgreed but for the
\* copies that it replaces.
FoldersAgreed ==
    did.client # None =>
        /\ did.place \in agreed[did.client].targets /\ S!CheckTarget(did.place)
        /\ did.what = "adopted" => S!TakesOver(did.client, did.place)

LEMMA SkillsStep ==
  ASSUME SkillsInv, FoldersAgreed, [S!Next]_(S!vars)
  PROVE  SkillsInv' /\ FoldersAgreed'
  <1>1. ASSUME NEW c \in Client, ServesAgreed(c) PROVE FoldersAgreed'
    BY <1>1 DEF ServesAgreed, FoldersAgreed, S!CheckTarget, S!CheckUnderHome, S!TakesOver
  <1>2. ASSUME did' = S!Nothing PROVE FoldersAgreed'
    BY <1>2 DEF S!Nothing, FoldersAgreed
  <1>3. CASE UNCHANGED S!vars
    <2>1. \A c \in Client : Untouched(c)
      BY <1>3 DEF S!vars, Untouched
    <2>2. S!SkillsTypeOK'
      BY <1>3 DEF S!vars, S!disk, SkillsInv, S!SkillsTypeOK
    <2>3. FoldersAgreed'
      BY <1>3 DEF S!vars, FoldersAgreed, S!CheckTarget, S!CheckUnderHome, S!TakesOver
    <2>4. QED
      BY <2>1, <2>2, <2>3, UntouchedAgreed DEF SkillsInv
  <1>4. ASSUME NEW c \in Client,
               S!Plan(c) \/ S!Confirm(c) \/ S!Offer(c) \/ S!NotNow(c) \/ S!InstallTicked(c)
        PROVE  SkillsInv' /\ FoldersAgreed'
    <2>1. did' = S!Nothing
      BY <1>4 DEF S!Plan, S!Confirm, S!Offer, S!NotNow, S!InstallTicked, S!NoInstall
    <2>2. QED
      BY <1>2, <1>4, <2>1, PlanKeeps, ConfirmKeeps, OfferKeeps, NotNowKeeps, InstallTickedKeeps
  <1>5. ASSUME NEW c \in Client, S!Receive(c) \/ S!Answer(c) PROVE SkillsInv' /\ FoldersAgreed'
    <2>1. did' = S!Nothing
      BY <1>5 DEF S!Receive, S!Answer
    <2>2. S!Answer(c) => SkillsInv'
      BY SkillsEndKeeps DEF S!Answer, S!disk, SkillsInv, S!SkillsTypeOK
    <2>3. QED
      BY <1>2, <1>5, <2>1, <2>2, ReceiveKeeps
  <1>6. ASSUME NEW c \in Client, S!Begin(c) \/ S!Removes(c) \/ S!Sync(c) PROVE SkillsInv' /\ FoldersAgreed'
    BY <1>1, <1>2, <1>6, SkillsBeginKeeps, RemovesKeeps, SyncKeeps
  <1>7. CASE S!Die
    BY <1>2, <1>7, DieKeeps DEF S!Die
  <1>8. ASSUME NEW p \in Harness, S!ChangeFolder(p) PROVE SkillsInv' /\ FoldersAgreed'
    BY <1>2, <1>8, ChangeFolderKeeps DEF S!ChangeFolder
  <1>9. QED
    BY <1>3, <1>4, <1>5, <1>6, <1>7, <1>8 DEF S!Next

-----------------------------------------------------------------------------
(* Skills: the copies that are replaced *)

\* A copy of the skill that the person edited, and nothing hides it.
Edited(p) == copy[p] = "edited" /\ p \notin journal \cup unusable

LEMMA InspectIs ==
  ASSUME S!SkillsTypeOK, NEW p \in S!Place
  PROVE  S!Inspect(p) = "changed" <=> Edited(p)
  BY DEF S!SkillsTypeOK, S!Inspect, S!StateFor, S!Copy, Edited

LEMMA InspectIsNext ==
  ASSUME S!SkillsTypeOK', NEW p \in S!Place
  PROVE  S!Inspect(p)' = "changed" <=> Edited(p)'
  BY DEF S!SkillsTypeOK, S!Inspect, S!StateFor, S!Copy, Edited

\* The edited copies of what is asked for were shown as edited, and of what
\* was sent with "replace", the person agreed to replace those.
ReplacesAgreed(c) ==
    /\ pc[c] = "asking" =>
          \A p \in IF c \in S!Commands THEN request[c].targets ELSE Harness :
             Edited(p) => shown[c][p] = "changed"
    /\ pc[c] \in {"sent", "installing", "removing"} /\ request[c].replace =>
          \A p \in IF pc[c] = "sent" THEN request[c].targets ELSE left[c] :
             Edited(p) => p \in agreed[c].replace
    /\ pc[c] = "removing" => at[c] \in agreed[c].replace
    /\ at[c] # None => at[c] \notin left[c]

\* One client is busy at a time.
OneBusy == \A c, d \in Client : pc[c] # "idle" /\ pc[d] # "idle" => c = d

ReplaceInv == OneBusy /\ \A c \in Client : ReplacesAgreed(c)

\* What the theorem assumes: no copy is found edited while one is offered.
OneAtATime == ~Late /\ \A group \in Together : \A c, d \in group : c = d

LEMMA IdleReplaces ==
  ASSUME SkillsInv', NEW d \in Client, pc'[d] = "idle"
  PROVE  ReplacesAgreed(d)'
  BY DEF SkillsInv, AsAgreed, ReplacesAgreed

LEMMA OthersIdle ==
  ASSUME SkillsInv, SkillsInv', ReplaceInv, NEW c \in Client,
         pc[c] # "idle", \A d \in Client : d # c => pc'[d] = pc[d],
         ReplacesAgreed(c)'
  PROVE  ReplaceInv'
  <1>1. \A d \in Client : d # c => pc'[d] = "idle"
    BY DEF ReplaceInv, OneBusy, SkillsInv, S!SkillsTypeOK
  <1>2. QED
    BY <1>1, IdleReplaces DEF ReplaceInv, OneBusy

LEMMA AloneIdle ==
  ASSUME OneAtATime, SkillsInv, SkillsInv', ReplaceInv, NEW c \in Client,
         S!Alone(c), \A d \in Client : d # c => pc'[d] = pc[d],
         ReplacesAgreed(c)'
  PROVE  ReplaceInv'
  <1>1. \A d \in Client : d # c => pc'[d] = "idle"
    BY DEF S!Alone, OneAtATime, SkillsInv, S!SkillsTypeOK
  <1>2. QED
    BY <1>1, IdleReplaces DEF ReplaceInv, OneBusy

LEMMA PlanShows ==
  ASSUME OneAtATime, SkillsInv, SkillsInv', ReplaceInv, NEW c \in Client, S!Plan(c)
  PROVE  ReplaceInv'
  <1>1. PICK hs \in SUBSET Harness, ds \in SUBSET Folder, replace \in BOOLEAN :
           LET targets == S!Resolve(hs, ds) IN
           /\ shown' = [shown EXCEPT ![c] = S!ShownOf(c, targets)]
           /\ request' = [request EXCEPT ![c] =
                [targets |-> targets, replace |-> replace, adopt |-> S!Adoptable(targets), all |-> FALSE]]
    BY DEF S!Plan
  <1> DEFINE targets == S!Resolve(hs, ds)
  <1>2. targets \in SUBSET S!Place
    BY ResolvePlaces DEF SkillsInv
  <1>3. /\ shown' = [shown EXCEPT ![c] = S!ShownOf(c, targets)]
        /\ request' = [request EXCEPT ![c] =
              [targets |-> targets, replace |-> replace, adopt |-> S!Adoptable(targets), all |-> FALSE]]
    BY <1>1
  <1> HIDE DEF targets
  <1>4. /\ pc[c] = "idle" /\ c \in S!Commands /\ pc' = [pc EXCEPT ![c] = "asking"] /\ S!Alone(c)
        /\ UNCHANGED <<copy, journal, unusable, detected, changes, left, at, agreed>>
    BY DEF S!Plan, S!NoInstall, S!disk
  <1>5. /\ pc'[c] = "asking" /\ shown'[c] = S!ShownOf(c, targets) /\ request'[c].targets = targets
        /\ at'[c] = None
    BY <1>3, <1>4 DEF SkillsInv, S!SkillsTypeOK, AsAgreed
  <1>6. ASSUME NEW p \in targets, Edited(p)' PROVE shown'[c][p] = "changed"
    <2>1. Edited(p)
      BY <1>4, <1>6 DEF Edited
    <2>2. S!Inspect(p) = "changed"
      BY <1>2, <2>1, InspectIs DEF SkillsInv
    <2>3. QED
      BY <1>2, <1>4, <1>5, <2>2 DEF S!ShownOf, S!Told, S!Commands
  <1>7. ReplacesAgreed(c)'
    BY <1>4, <1>5, <1>6 DEF ReplacesAgreed
  <1>8. \A d \in Client : d # c => pc'[d] = pc[d]
    BY <1>4 DEF SkillsInv, S!SkillsTypeOK
  <1>9. QED
    BY <1>4, <1>7, <1>8, AloneIdle

LEMMA ConfirmReplaces ==
  ASSUME SkillsInv, SkillsInv', ReplaceInv, NEW c \in Client, S!Confirm(c)
  PROVE  ReplaceInv'
  <1> DEFINE r == request[c]
             changed == r.targets \cap S!ShownAs(c, "changed")
  <1>1. PICK too \in BOOLEAN :
             S!Sends(c, r.targets, r.replace \/ too, r.adopt,
                     [targets |-> r.targets, adopt |-> r.targets \cap S!ShownAs(c, "adoptable"),
                      replace |-> IF r.replace THEN r.targets ELSE IF too THEN changed ELSE {}])
    BY DEF S!Confirm
  <1>2. /\ pc[c] = "asking" /\ c \in S!Commands
        /\ UNCHANGED <<copy, journal, unusable, detected, changes, left, at, shown>>
    BY DEF S!Confirm, S!NoInstall, S!disk
  <1>3. /\ pc' = [pc EXCEPT ![c] = "sent"] /\ pc'[c] = "sent" /\ at'[c] = None
        /\ request'[c].targets = r.targets /\ request'[c].replace = (r.replace \/ too)
        /\ agreed'[c].replace = IF r.replace THEN r.targets ELSE IF too THEN changed ELSE {}
    <2> HIDE DEF r, changed
    <2>1. QED
      BY <1>1, <1>2 DEF S!Sends, S!Asks, SkillsInv, S!SkillsTypeOK, AsAgreed
  <1>4. r.targets \subseteq S!Place /\ r.replace \in BOOLEAN
    BY DEF SkillsInv, S!SkillsTypeOK, S!InstallRequest
  <1>5. \A p \in r.targets : Edited(p) => p \in changed
    BY <1>2, <1>4 DEF ReplaceInv, ReplacesAgreed, S!ShownAs
  <1> HIDE DEF changed
  <1>6. \A p \in r.targets : Edited(p)' <=> Edited(p)
    BY <1>2 DEF Edited
  <1> HIDE DEF r
  <1>7. ReplacesAgreed(c)'
    BY <1>3, <1>4, <1>5, <1>6 DEF ReplacesAgreed
  <1>8. pc[c] # "idle" /\ \A d \in Client : d # c => pc'[d] = pc[d]
    BY <1>2, <1>3 DEF SkillsInv, S!SkillsTypeOK
  <1>9. QED
    BY <1>7, <1>8, OthersIdle

\* An edited copy of an agent's folder counts as installed, so it is listed.
LEMMA OfferShows ==
  ASSUME OneAtATime, SkillsInv, SkillsInv', ReplaceInv, NEW c \in Client, S!Offer(c)
  PROVE  ReplaceInv'
  <1>1. /\ pc[c] = "idle" /\ c \notin S!Commands /\ pc' = [pc EXCEPT ![c] = "asking"] /\ S!Alone(c)
        /\ shown' = [shown EXCEPT ![c] = S!ShownOf(c, S!Listed)]
        /\ UNCHANGED <<copy, journal, unusable, detected, changes, left, at, agreed, request>>
    BY DEF S!Offer, S!NoInstall, S!disk, S!Shows
  <1>2. pc'[c] = "asking" /\ shown'[c] = S!ShownOf(c, S!Listed) /\ at'[c] = None
    BY <1>1 DEF SkillsInv, S!SkillsTypeOK, AsAgreed
  <1>3. ASSUME NEW p \in Harness, Edited(p)' PROVE shown'[c][p] = "changed"
    <2>1. Edited(p) /\ p \in S!Place
      BY <1>1, <1>3 DEF Edited, S!Place
    <2>2. S!Inspect(p) = "changed"
      BY <2>1, InspectIs DEF SkillsInv
    <2>3. p \in S!Listed
      BY <2>2 DEF S!Listed, S!Installed
    <2>4. QED
      BY <1>2, <2>1, <2>2, <2>3 DEF S!ShownOf, S!Told
  <1>4. ReplacesAgreed(c)'
    BY <1>1, <1>2, <1>3 DEF ReplacesAgreed
  <1>5. \A d \in Client : d # c => pc'[d] = pc[d]
    BY <1>1 DEF SkillsInv, S!SkillsTypeOK
  <1>6. QED
    BY <1>1, <1>4, <1>5, AloneIdle

LEMMA TickedReplaces ==
  ASSUME SkillsInv, SkillsInv', ReplaceInv, NEW c \in Client, S!InstallTicked(c)
  PROVE  ReplaceInv'
  <1>1. PICK toggled \in SUBSET S!Selectable(c) :
          LET ticked == S!Chosen(c, toggled)
              adopt == ticked \cap S!ShownAs(c, "adoptable")
              replace == ticked \cap S!ShownAs(c, "changed") IN
          S!Sends(c, ticked, replace # {}, adopt,
                  [targets |-> ticked, replace |-> replace \cap toggled, adopt |-> adopt \cap toggled])
    BY DEF S!InstallTicked
  <1> DEFINE ticked == S!Chosen(c, toggled)
             replace == ticked \cap S!ShownAs(c, "changed")
             adopt == ticked \cap S!ShownAs(c, "adoptable")
  <1>2. S!Sends(c, ticked, replace # {}, adopt,
                [targets |-> ticked, replace |-> replace \cap toggled, adopt |-> adopt \cap toggled])
    BY <1>1
  <1>3. /\ pc[c] = "asking" /\ c \notin S!Commands
        /\ UNCHANGED <<copy, journal, unusable, detected, changes, left, at, shown>>
    BY DEF S!InstallTicked, S!NoInstall, S!disk
  <1>4. ticked \subseteq Harness
    BY DEF S!Chosen, S!Preselected, S!Selectable, SkillsInv, S!SkillsTypeOK
  <1>5. replace \subseteq toggled
    BY DEF S!Chosen, S!Preselected, S!ShownAs
  <1>6. ASSUME NEW p \in ticked, Edited(p)' PROVE p \in replace \cap toggled
    <2>1. Edited(p) /\ p \in S!Place
      BY <1>3, <1>4, <1>6 DEF Edited, S!Place
    <2>2. p \in replace
      BY <1>3, <1>4, <1>6, <2>1 DEF ReplaceInv, ReplacesAgreed, S!ShownAs
    <2>3. QED
      BY <1>5, <2>2
  <1> HIDE DEF ticked, replace, adopt
  <1>7. /\ pc' = [pc EXCEPT ![c] = "sent"] /\ pc'[c] = "sent" /\ at'[c] = None
        /\ request'[c].targets = ticked /\ agreed'[c].replace = replace \cap toggled
    BY <1>2, <1>3 DEF S!Sends, SkillsInv, S!SkillsTypeOK, AsAgreed
  <1>8. ReplacesAgreed(c)'
    BY <1>6, <1>7 DEF ReplacesAgreed
  <1>9. pc[c] # "idle" /\ \A d \in Client : d # c => pc'[d] = pc[d]
    BY <1>3, <1>7 DEF SkillsInv, S!SkillsTypeOK
  <1>10. QED
    BY <1>8, <1>9, OthersIdle

\* A request that ends, or is refused, leaves everyone idle.
LEMMA EndsIdle ==
  ASSUME SkillsInv, SkillsInv', ReplaceInv, NEW c \in Client, pc[c] # "idle",
         pc' = [pc EXCEPT ![c] = "idle"]
  PROVE  ReplaceInv'
  <1>1. pc'[c] = "idle" /\ \A d \in Client : d # c => pc'[d] = pc[d]
    BY DEF SkillsInv, S!SkillsTypeOK
  <1>2. QED
    BY <1>1, IdleReplaces, OthersIdle

LEMMA ReceiveReplaces ==
  ASSUME SkillsInv, SkillsInv', ReplaceInv, NEW c \in Client, S!Receive(c)
  PROVE  ReplaceInv'
  <1>1. UNCHANGED <<copy, journal, unusable, detected, changes>> /\ pc[c] = "sent"
    BY DEF S!Receive, S!disk
  <1>2. CASE S!Ends(c)
    BY <1>1, <1>2, EndsIdle DEF S!Ends
  <1>3. CASE /\ pc' = [pc EXCEPT ![c] = "installing"]
             /\ left' = [left EXCEPT ![c] = request[c].targets]
             /\ UNCHANGED <<shown, request, agreed, at>>
    <2>1. /\ pc'[c] = "installing" /\ left'[c] = request[c].targets /\ at'[c] = None
          /\ request'[c] = request[c] /\ agreed'[c] = agreed[c]
      BY <1>1, <1>3 DEF SkillsInv, S!SkillsTypeOK, AsAgreed
    <2>2. ReplacesAgreed(c)'
      BY <1>1, <2>1 DEF ReplaceInv, ReplacesAgreed, Edited
    <2>3. pc[c] # "idle" /\ \A d \in Client : d # c => pc'[d] = pc[d]
      BY <1>1, <1>3 DEF SkillsInv, S!SkillsTypeOK
    <2>4. QED
      BY <2>2, <2>3, OthersIdle
  <1>4. QED
    BY <1>2, <1>3 DEF S!Receive

LEMMA BeginReplaces ==
  ASSUME SkillsInv, SkillsInv', ReplaceInv, NEW c \in Client, S!Begin(c)
  PROVE  ReplaceInv'
  <1>1. PICK p \in left[c] :
          /\ at' = [at EXCEPT ![c] = p]
          /\ left' = [left EXCEPT ![c] = @ \ {p}]
          /\ pc' = [pc EXCEPT ![c] =
               IF request[c].replace /\ S!Inspect(p) = "changed" THEN "removing" ELSE @]
    BY DEF S!Begin
  <1>2. /\ pc[c] = "installing"
        /\ UNCHANGED <<copy, journal, unusable, detected, changes, shown, request, agreed>>
    BY DEF S!Begin, S!disk
  <1>3. /\ at'[c] = p /\ left'[c] = left[c] \ {p}
        /\ pc'[c] = IF request[c].replace /\ S!Inspect(p) = "changed" THEN "removing" ELSE "installing"
        /\ \A d \in Client : d # c => pc'[d] = pc[d]
    BY <1>1, <1>2 DEF SkillsInv, S!SkillsTypeOK
  <1>4. p \in S!Place
    BY DEF SkillsInv, S!SkillsTypeOK
  <1>5. pc'[c] = "removing" => p \in agreed[c].replace
    <2>1. SUFFICES ASSUME request[c].replace, S!Inspect(p) = "changed" PROVE p \in agreed[c].replace
      BY <1>3
    <2>2. Edited(p)
      BY <1>4, <2>1, InspectIs DEF SkillsInv
    <2>3. QED
      BY <1>2, <2>1, <2>2 DEF ReplaceInv, ReplacesAgreed
  <1>6. \A q \in left[c] : Edited(q)' => Edited(q)
    BY <1>2 DEF Edited
  <1>7. ReplacesAgreed(c)'
    BY <1>2, <1>3, <1>5, <1>6 DEF ReplaceInv, ReplacesAgreed
  <1>8. QED
    BY <1>2, <1>3, <1>7, OthersIdle

LEMMA RemovesReplaces ==
  ASSUME SkillsInv, SkillsInv', ReplaceInv, NEW c \in Client, S!Removes(c)
  PROVE  ReplaceInv'
  <1>1. pc[c] = "removing" /\ UNCHANGED <<journal, unusable>>
    BY DEF S!Removes
  <1>2. CASE S!Ends(c)
    BY <1>1, <1>2, EndsIdle DEF S!Ends
  <1>3. CASE /\ copy' = [copy EXCEPT ![at[c]] = "none"]
             /\ pc' = [pc EXCEPT ![c] = "installing"]
             /\ UNCHANGED <<shown, request, agreed, left, at>>
    <2>1. pc'[c] = "installing" /\ \A d \in Client : d # c => pc'[d] = pc[d]
      BY <1>3 DEF SkillsInv, S!SkillsTypeOK
    <2>2. \A q \in left[c] : Edited(q)' => Edited(q)
      BY <1>1, <1>3 DEF Edited, SkillsInv, S!SkillsTypeOK
    <2>3. ReplacesAgreed(c)'
      BY <1>1, <1>3, <2>1, <2>2 DEF ReplaceInv, ReplacesAgreed
    <2>4. QED
      BY <1>1, <2>1, <2>3, OthersIdle
  <1>4. QED
    BY <1>2, <1>3 DEF S!Removes

\* Recovering a folder shows its copy again, and that folder is done.
LEMMA SyncReplaces ==
  ASSUME SkillsInv, SkillsInv', ReplaceInv, NEW c \in Client, S!Sync(c)
  PROVE  ReplaceInv'
  <1> DEFINE p == at[c]
  <1>1. /\ pc[c] = "installing" /\ p # None
        /\ at' = [at EXCEPT ![c] = None]
        /\ UNCHANGED <<unusable, detected, changes, pc, shown, request, agreed, left>>
    BY DEF S!Sync
  <1>2. \A q \in S!Place \ {p} : copy'[q] = copy[q] /\ (q \in journal' <=> q \in journal)
    BY DEF S!Sync, SkillsInv, S!SkillsTypeOK
  <1>3. p \notin left[c] /\ left[c] \subseteq S!Place
    BY <1>1 DEF ReplaceInv, ReplacesAgreed, SkillsInv, S!SkillsTypeOK
  <1>4. \A q \in left[c] : Edited(q)' => Edited(q)
    BY <1>1, <1>2, <1>3 DEF Edited
  <1> HIDE DEF p
  <1>5. at'[c] = None
    BY <1>1 DEF SkillsInv, S!SkillsTypeOK
  <1>6. ReplacesAgreed(c)'
    BY <1>1, <1>4, <1>5 DEF ReplaceInv, ReplacesAgreed
  <1>7. QED
    BY <1>1, <1>6, OthersIdle

LEMMA DieReplaces ==
  ASSUME SkillsInv, SkillsInv', ReplaceInv, S!Die
  PROVE  ReplaceInv'
  <1>1. PICK c \in Client : pc[c] = "installing"
    BY DEF S!Die
  <1>2. \A d \in Client : pc'[d] = IF pc[d] \in {"sent", "installing", "removing"} THEN "idle" ELSE pc[d]
    BY DEF S!Die
  <1>3. \A d \in Client : pc'[d] = "idle"
    BY <1>1, <1>2 DEF ReplaceInv, OneBusy
  <1>4. QED
    BY <1>3, IdleReplaces DEF ReplaceInv, OneBusy

LEMMA CalmReplaces ==
  ASSUME SkillsInv, ReplaceInv, UNCHANGED <<pc, shown, request, agreed, left, at>>,
         \A p \in S!Place : Edited(p)' => Edited(p)
  PROVE  ReplaceInv'
  <1>1. ASSUME NEW c \in Client PROVE ReplacesAgreed(c)'
    <2>1. request[c].targets \subseteq S!Place /\ left[c] \subseteq S!Place /\ Harness \subseteq S!Place
      BY DEF SkillsInv, S!SkillsTypeOK, S!InstallRequest, S!Place
    <2>2. ReplacesAgreed(c)
      BY DEF ReplaceInv
    <2>3. pc'[c] = pc[c] /\ shown'[c] = shown[c] /\ request'[c] = request[c]
          /\ agreed'[c] = agreed[c] /\ left'[c] = left[c] /\ at'[c] = at[c]
      OBVIOUS
    <2>4. QED
      BY <2>1, <2>2, <2>3 DEF ReplacesAgreed
  <1>2. QED
    BY <1>1 DEF ReplaceInv, OneBusy

LEMMA ChangeFolderReplaces ==
  ASSUME OneAtATime, SkillsInv, SkillsInv', ReplaceInv, NEW p \in Harness, S!ChangeFolder(p)
  PROVE  ReplaceInv'
  <1>1. UNCHANGED <<pc, shown, request, agreed, left, at>>
    BY DEF S!ChangeFolder
  <1>2. CASE \A c \in Client : pc[c] = "idle"
    BY <1>1, <1>2, IdleReplaces DEF ReplaceInv, OneBusy
  <1>3. CASE ~\A c \in Client : pc[c] = "idle"
    <2>1. p \in S!Place /\ copy \in [S!Place -> S!Copy]
      BY DEF S!Place, SkillsInv, S!SkillsTypeOK
    <2>2. \/ /\ \E put \in {"same", "other"} : copy' = [copy EXCEPT ![p] = put]
             /\ UNCHANGED <<journal, unusable>>
          \/ /\ copy[p] # "edited" /\ UNCHANGED copy
             /\ unusable' = unusable \ {p} /\ journal' = journal \ {p}
          \/ unusable' = unusable \cup {p} /\ UNCHANGED <<copy, journal>>
          \/ UNCHANGED <<copy, journal, unusable>>
      BY <1>3 DEF S!ChangeFolder, OneAtATime
    <2>3. \A q \in S!Place : Edited(q)' => Edited(q)
      BY <2>1, <2>2 DEF Edited
    <2>4. QED
      BY <1>1, <2>3, CalmReplaces
  <1>4. QED
    BY <1>2, <1>3

LEMMA ReplaceStep ==
  ASSUME OneAtATime, SkillsInv, SkillsInv', ReplaceInv, [S!Next]_(S!vars)
  PROVE  ReplaceInv'
  <1>1. CASE UNCHANGED S!vars
    BY <1>1, CalmReplaces DEF S!vars, S!disk, Edited
  <1>2. ASSUME NEW c \in Client, S!NotNow(c) \/ S!Answer(c) PROVE ReplaceInv'
    BY <1>2, EndsIdle DEF S!NotNow, S!Answer, S!Ends
  <1>3. QED
    BY <1>1, <1>2, PlanShows, ConfirmReplaces, OfferShows, TickedReplaces, ReceiveReplaces,
       BeginReplaces, RemovesReplaces, SyncReplaces, DieReplaces, ChangeFolderReplaces DEF S!Next

LEMMA ReplaceInit == S!Init => ReplaceInv
  BY DEF S!Init, ReplaceInv, OneBusy, ReplacesAgreed

LEMMA AgreedStep ==
  ASSUME SkillsInv, ReplaceInv, FoldersAgreed', S!OnlyAsAgreed, [S!Next]_(S!vars)
  PROVE  S!OnlyAsAgreed'
  <1> SUFFICES ASSUME did'.client # None, did'.what = "replaced"
               PROVE  did'.place \in agreed'[did'.client].replace
    BY DEF FoldersAgreed, S!OnlyAsAgreed, S!CheckTarget, S!CheckUnderHome, S!TakesOver
  <1>1. CASE UNCHANGED S!vars
    BY <1>1 DEF S!vars, S!OnlyAsAgreed
  <1>2. ASSUME NEW c \in Client, S!Removes(c)
        PROVE  did'.place \in agreed'[did'.client].replace
    <2>1. did'.client = c /\ agreed'[c] = agreed[c] /\ did'.place = at[c]
      BY <1>2, RemovesKeeps DEF ServesAgreed
    <2>2. QED
      BY <1>2, <2>1 DEF S!Removes, ReplaceInv, ReplacesAgreed
  <1>3. ASSUME did' = S!Nothing PROVE FALSE
    BY <1>3 DEF S!Nothing
  <1>4. ASSUME NEW c \in Client, S!Sync(c) PROVE FALSE
    BY <1>4, SyncKeeps
  <1>5. QED
    BY <1>1, <1>2, <1>3, <1>4
    DEF S!Next, S!Plan, S!Confirm, S!Offer, S!NotNow, S!InstallTicked, S!NoInstall, S!Receive, S!Begin,
        S!Answer, S!Die, S!ChangeFolder

\* Whoever edits folders meanwhile, and however many clients ask at a time,
\* the server writes only to folders that the person was shown and said yes
\* to, and takes over only those they agreed to; the yes of a client that
\* sends adopt is for every target (skills.go:504-533).
THEOREM SkillsFolders == S!Spec => []FoldersAgreed
  <1>1. S!Init => SkillsInv /\ FoldersAgreed
    BY SkillsInit DEF S!Init, S!Nothing, FoldersAgreed
  <1>2. QED
    BY <1>1, SkillsStep, PTL DEF S!Spec

\* What the server does to a folder was agreed to in that very request: it is
\* taken over only with a yes to that folder (of a client that sends adopt,
\* to taking over), and a copy that the person edited is replaced only with a
\* yes to that, as long as no copy is edited while one is offered:
\* OnlyAsAgreed (skills.go:504-533, tui/skills.go:69-73).
THEOREM SkillsAsAgreed ==
  ASSUME OneAtATime
  PROVE  S!Spec => []S!OnlyAsAgreed
  <1>1. S!Init => SkillsInv /\ FoldersAgreed /\ ReplaceInv /\ S!OnlyAsAgreed
    BY SkillsInit, ReplaceInit DEF S!Init, S!Nothing, FoldersAgreed, S!OnlyAsAgreed
  <1>2. SkillsInv /\ FoldersAgreed /\ ReplaceInv /\ S!OnlyAsAgreed /\ [S!Next]_(S!vars)
        => (SkillsInv /\ FoldersAgreed /\ ReplaceInv /\ S!OnlyAsAgreed)'
    BY SkillsStep, ReplaceStep, AgreedStep
  <1>3. QED
    BY <1>1, <1>2, PTL DEF S!Spec

-----------------------------------------------------------------------------
(* Demo: an install deletes no notes, and what is recorded has its lists *)

\* What is written keeps its folder, what is recorded has lists, and the
\* install that holds the mutex works on a demo that nobody has written to.
DemoInv ==
    /\ D!DemoTypeOK
    /\ notes \subseteq {id \in Id : folder[id] = "full"}
    /\ lists \subseteq {id \in Id : folder[id] = "full"}
    /\ recorded \subseteq lists
    /\ install # None =>
          /\ install.phase # "reconnected" => install.id \notin notes \cup recorded
          /\ install.phase = "seed" => folder[install.id] = "full"
          /\ install.phase = "record" => install.id \in lists
          /\ install.phase = "reconnected" => install.id \in recorded
    /\ ~lost

LEMMA DemoInit == D!Init => DemoInv
  BY DEF D!Init, DemoInv, D!DemoTypeOK

LEMMA DemoInstallSteps ==
  ASSUME DemoInv, D!Begin \/ D!Create \/ D!Seed \/ D!Record
  PROVE  DemoInv'
  <1>1. CASE D!Begin
    <2>1. PICK id \in Id :
            /\ \/ /\ folder[id] # "full" /\ D!Step(id, "create", folder[id] = "empty")
                  /\ UNCHANGED registered
               \/ /\ id \in recorded /\ registered' = [registered EXCEPT ![id] = "here"]
                  /\ D!Step(id, "reconnected", TRUE)
            /\ UNCHANGED <<folder, lists, notes, recorded, lost>>
      BY <1>1 DEF D!Begin, D!Reconnect
    <2>2. (folder[id] = "empty") \in BOOLEAN
      OBVIOUS
    <2>3. PICK existed \in BOOLEAN, phase \in {"create", "reconnected"} :
            install' = [id |-> id, phase |-> phase, existed |-> existed]
      BY <2>1, <2>2 DEF D!Step
    <2>4. D!DemoTypeOK'
      <3>1. registered' \in [Id -> {"no", "here", "elsewhere"}]
        BY <2>1 DEF DemoInv, D!DemoTypeOK
      <3>2. install' \in [id : Id, existed : BOOLEAN,
              phase : {"create", "seed", "record", "remove", "delete", "reconnected"}]
        BY <2>3
      <3>3. QED
        BY <2>1, <3>1, <3>2 DEF DemoInv, D!DemoTypeOK
    <2>5. QED
      BY <2>1, <2>4 DEF DemoInv, D!Step
  <1>2. CASE D!Create
    <2>1. /\ install # None /\ install.phase = "create"
          /\ UNCHANGED <<lists, notes, recorded, lost>>
          /\ \/ /\ registered' = [registered EXCEPT ![install.id] = "here"]
                /\ folder' = [folder EXCEPT ![install.id] = "full"]
                /\ D!Step(install.id, "seed", install.existed)
             \/ install' = None /\ UNCHANGED <<registered, folder>>
      BY <1>2 DEF D!Create
    <2>2. D!DemoTypeOK'
      BY <2>1 DEF DemoInv, D!DemoTypeOK, D!Step
    <2>3. /\ install.id \notin notes \cup recorded
          /\ \A id \in Id : folder[id] = "full" => folder'[id] = "full"
      BY <2>1 DEF DemoInv, D!DemoTypeOK
    <2>4. \/ install' = None
          \/ install'.phase = "seed" /\ install'.id = install.id /\ folder'[install.id] = "full"
      BY <2>1 DEF D!Step, DemoInv, D!DemoTypeOK
    <2>5. QED
      BY <2>1, <2>2, <2>3, <2>4 DEF DemoInv
  <1>3. CASE D!Seed
    <2>1. /\ install # None /\ install.phase = "seed"
          /\ UNCHANGED <<folder, notes, registered, recorded, lost>>
          /\ \/ /\ registered[install.id] = "here" /\ lists' = lists \cup {install.id}
                /\ D!Step(install.id, "record", install.existed)
             \/ UNCHANGED lists /\ D!Step(install.id, "remove", install.existed)
      BY <1>3 DEF D!Seed, D!SeedData
    <2>2. D!DemoTypeOK'
      BY <2>1 DEF DemoInv, D!DemoTypeOK, D!Step
    <2>3. QED
      BY <2>1, <2>2 DEF DemoInv, D!DemoTypeOK, D!Step
  <1>4. CASE D!Record
    <2>1. /\ install # None /\ install.phase \in {"record", "reconnected"}
          /\ UNCHANGED <<folder, lists, notes, registered, lost>>
          /\ \/ recorded' = recorded \cup {install.id} /\ install' = None
             \/ /\ UNCHANGED recorded
                /\ \/ install.phase = "record" /\ D!Step(install.id, "remove", install.existed)
                   \/ install' = None
      BY <1>4 DEF D!Record
    <2>2. D!DemoTypeOK'
      BY <2>1 DEF DemoInv, D!DemoTypeOK, D!Step
    <2>3. QED
      BY <2>1, <2>2 DEF DemoInv, D!DemoTypeOK, D!Step
  <1>5. QED
    BY <1>1, <1>2, <1>3, <1>4

LEMMA DemoUndoSteps ==
  ASSUME DemoInv, D!UndoRemove \/ D!UndoDelete \/ D!Crash
  PROVE  DemoInv'
  <1>1. CASE D!UndoRemove
    <2>1. /\ install # None /\ install.phase = "remove"
          /\ UNCHANGED <<folder, lists, notes, recorded, lost>>
          /\ \/ /\ registered' = [registered EXCEPT ![install.id] = "no"]
                /\ D!Step(install.id, "delete", install.existed)
             \/ install' = None /\ UNCHANGED registered
      BY <1>1 DEF D!UndoRemove
    <2>2. D!DemoTypeOK'
      BY <2>1 DEF DemoInv, D!DemoTypeOK, D!Step
    <2>3. QED
      BY <2>1, <2>2 DEF DemoInv, D!DemoTypeOK, D!Step
  <1>2. CASE D!UndoDelete
    <2>1. PICK rest \in {"empty", "absent"} :
            /\ install # None /\ install.phase = "delete"
            /\ folder' = [folder EXCEPT ![install.id] = rest]
            /\ lists' = lists \ {install.id} /\ notes' = notes \ {install.id}
            /\ lost' = (lost \/ install.id \in notes)
            /\ install' = None
            /\ UNCHANGED <<registered, recorded>>
      BY <1>2 DEF D!UndoDelete
    <2>2. install.id \notin notes \cup recorded /\ install.id \in Id
      BY <2>1 DEF DemoInv, D!DemoTypeOK
    <2>3. lost' = FALSE
      BY <2>1, <2>2 DEF DemoInv
    <2>4. D!DemoTypeOK'
      BY <2>1, <2>2, <2>3 DEF DemoInv, D!DemoTypeOK
    <2>5. QED
      BY <2>1, <2>2, <2>3, <2>4 DEF DemoInv, D!DemoTypeOK
  <1>3. CASE D!Crash
    BY <1>3 DEF D!Crash, DemoInv, D!DemoTypeOK
  <1>4. QED
    BY <1>1, <1>2, <1>3

LEMMA DemoOtherSteps ==
  ASSUME ~Deletes, ~Eager, DemoInv, NEW id \in Id,
         D!Remove(id) \/ D!CreateElsewhere(id) \/ D!Write(id) \/ D!DeleteFolder(id)
  PROVE  DemoInv'
  <1>1. CASE D!Remove(id) \/ D!CreateElsewhere(id)
    BY <1>1 DEF D!Remove, D!CreateElsewhere, DemoInv, D!DemoTypeOK
  <1>2. CASE D!Write(id)
    <2>1. /\ install # None => install.id # id
          /\ notes' = notes \cup {id} /\ folder' = [folder EXCEPT ![id] = "full"]
          /\ UNCHANGED <<lists, registered, recorded, install, lost>>
      BY <1>2 DEF D!Write, D!Busy
    <2>2. QED
      BY <2>1 DEF DemoInv, D!DemoTypeOK
  <1>3. CASE D!DeleteFolder(id)
    <2>1. /\ id \notin recorded /\ (install # None => install.id # id)
          /\ folder' = [folder EXCEPT ![id] = "absent"]
          /\ lists' = lists \ {id} /\ notes' = notes \ {id}
          /\ UNCHANGED <<registered, recorded, install, lost>>
      BY <1>3 DEF D!DeleteFolder, D!Busy
    <2>2. QED
      BY <2>1 DEF DemoInv, D!DemoTypeOK
  <1>4. QED
    BY <1>1, <1>2, <1>3

\* Whoever is told that the demo is installed finds its lists, and no install
\* deletes what people wrote, over crashes, failed writes and removals, when
\* people neither delete a recorded demo's folder nor write into a demo before
\* its install answered.  DemoIsWhole (demo.go:6-10, 175-178).
THEOREM DemoStaysWhole ==
  ASSUME ~Deletes, ~Eager
  PROVE  D!Spec => []D!DemoIsWhole
  <1>1. DemoInv /\ [D!Next]_(D!vars) => DemoInv'
    <2>1. ASSUME DemoInv, UNCHANGED D!vars PROVE DemoInv'
      BY <2>1 DEF D!vars, DemoInv, D!DemoTypeOK
    <2>2. QED
      BY <2>1, DemoInstallSteps, DemoUndoSteps, DemoOtherSteps DEF D!Next
  <1>2. DemoInv => D!DemoIsWhole
    BY DEF DemoInv, D!DemoIsWhole, D!InstalledHasLists, D!Installed, D!Found, D!NotesAreKept
  <1>3. QED
    BY <1>1, <1>2, DemoInit, PTL DEF D!Spec

-----------------------------------------------------------------------------
(* What the commands of MCConsole leave behind them *)

LEMMA ConsoleRunsServe == ConsoleSpec => V!Spec
  <1>1. ConsoleInit => V!Init
    BY Zenon DEF ConsoleInit
  <1>2. ASSUME [ConsoleNext]_<<installVars, commandVars, publisherVars, part>>
        PROVE  [V!Next]_(V!vars)
    BY <1>2 DEF ConsoleNext, commandVars, serveVars, V!vars
  <1>3. QED
    BY <1>1, <1>2, PTL DEF ConsoleSpec, V!Spec

LEMMA ConsoleRunsCloud == ConsoleSpec => C!Spec
  <1>1. ConsoleInit => C!Init
    BY Zenon DEF ConsoleInit
  <1>2. ASSUME [ConsoleNext]_<<installVars, commandVars, publisherVars, part>>
        PROVE  [C!Next]_(C!vars)
    BY <1>2 DEF ConsoleNext, commandVars, cloudVars, C!vars
  <1>3. QED
    BY <1>1, <1>2, PTL DEF ConsoleSpec, C!Spec

\* No command ends with something open that it started: a database under a
\* request, a cleanup, a token of the cloud (serve.go:347-436,
\* cloud.go:152-188, 276-283).
THEOREM NothingStays ==
  ASSUME ~Overlap
  PROVE  ConsoleSpec => []NothingIsLeft
  <1>1. V!ServeIsSafe /\ C!CloudIsKept => NothingIsLeft
    BY DEF NothingIsLeft
  <1>2. QED
    BY <1>1, ServeSafe, CloudKept, ConsoleRunsServe, ConsoleRunsCloud, PTL

-----------------------------------------------------------------------------
(* What MCConsole installs *)

\* While one of them moves, the skills and the demo make no other steps.
LEMMA ConsoleRunsSkills == ConsoleSpec => S!Spec
  <1>1. ConsoleInit => S!Init
    BY Zenon DEF ConsoleInit
  <1>2. ASSUME [ConsoleNext]_<<installVars, commandVars, publisherVars, part>>
        PROVE  [S!Next]_(S!vars)
    BY <1>2 DEF ConsoleNext, installVars, skillsVars, S!vars, S!disk
  <1>3. QED
    BY <1>1, <1>2, PTL DEF ConsoleSpec, S!Spec

LEMMA ConsoleRunsDemo == ConsoleSpec => D!Spec
  <1>1. ConsoleInit => D!Init
    BY Zenon DEF ConsoleInit
  <1>2. ASSUME [ConsoleNext]_<<installVars, commandVars, publisherVars, part>>
        PROVE  [D!Next]_(D!vars)
    BY <1>2 DEF ConsoleNext, installVars, demoVars, D!vars
  <1>3. QED
    BY <1>1, <1>2, PTL DEF ConsoleSpec, D!Spec

\* Both installers keep to what people agreed to and wrote: InstallsAsAgreed
\* (skills.go:515-533, demo.go:6-10, 175-178).
THEOREM InstallsKeepToIt ==
  ASSUME OneAtATime, ~Deletes, ~Eager
  PROVE  ConsoleSpec => []InstallsAsAgreed
  <1>1. S!OnlyAsAgreed /\ D!DemoIsWhole => InstallsAsAgreed
    BY DEF InstallsAsAgreed
  <1>2. QED
    BY <1>1, SkillsAsAgreed, DemoStaysWhole, ConsoleRunsSkills, ConsoleRunsDemo, PTL


-----------------------------------------------------------------------------
(* The types of what MCConsole runs *)

\* Of the demo, whatever people delete and write.
LEMMA DemoTypes == D!Spec => []D!DemoTypeOK
  <1>1. D!Init => D!DemoTypeOK
    BY DEF D!Init, D!DemoTypeOK
  <1>2. ASSUME D!DemoTypeOK, [D!Next]_(D!vars)
        PROVE  D!DemoTypeOK'
    <2>1. CASE UNCHANGED D!vars
      BY <1>2, <2>1 DEF D!vars, D!DemoTypeOK
    <2>2. CASE D!Begin
      <3>1. PICK id \in Id :
            /\ \/ /\ D!Step(id, "create", folder[id] = "empty") /\ UNCHANGED registered
               \/ /\ registered' = [registered EXCEPT ![id] = "here"] /\ D!Step(id, "reconnected", TRUE)
            /\ UNCHANGED <<folder, lists, notes, recorded, lost>>
        BY <2>2 DEF D!Begin, D!Reconnect
      <3>2. (folder[id] = "empty") \in BOOLEAN
        OBVIOUS
      <3>3. PICK existed \in BOOLEAN, phase \in {"create", "reconnected"} :
            install' = [id |-> id, phase |-> phase, existed |-> existed]
        BY <3>1, <3>2 DEF D!Step
      <3>4. registered' \in [Id -> {"no", "here", "elsewhere"}]
        BY <1>2, <3>1 DEF D!DemoTypeOK
      <3>5. install' \in [id : Id, existed : BOOLEAN,
              phase : {"create", "seed", "record", "remove", "delete", "reconnected"}]
        BY <3>3
      <3>6. QED
        BY <1>2, <3>1, <3>4, <3>5 DEF D!DemoTypeOK
    <2>3. CASE D!Create \/ D!Seed \/ D!Record \/ D!UndoRemove \/ D!Crash
      BY <1>2, <2>3 DEF D!DemoTypeOK, D!Create, D!Seed, D!SeedData, D!Record, D!UndoRemove, D!Crash, D!Step
    <2>4. CASE D!UndoDelete
      <3>1. (lost \/ install.id \in notes) \in BOOLEAN
        BY Zenon
      <3>2. lost' \in BOOLEAN
        BY <1>2, <2>4, <3>1 DEF D!UndoDelete, D!DemoTypeOK
      <3>3. folder' \in [Id -> {"absent", "empty", "full"}] /\ lists' \subseteq Id /\ notes' \subseteq Id
        BY <1>2, <2>4 DEF D!UndoDelete, D!DemoTypeOK
      <3>4. QED
        BY <1>2, <2>4, <3>2, <3>3 DEF D!UndoDelete, D!DemoTypeOK
    <2>5. ASSUME NEW id \in Id, D!Remove(id) \/ D!CreateElsewhere(id) \/ D!Write(id) \/ D!DeleteFolder(id)
          PROVE  D!DemoTypeOK'
      BY <1>2, <2>5 DEF D!DemoTypeOK, D!Remove, D!CreateElsewhere, D!Write, D!DeleteFolder
    <2>6. QED
      BY <1>2, <2>1, <2>2, <2>3, <2>4, <2>5 DEF D!Next
  <1>3. QED
    BY <1>1, <1>2, PTL DEF D!Spec

\* Of the tokens: whoever is told of one is told of one that was issued.
LEMMA ToldOfIssued ==
  ASSUME CloudInv, told \subseteq 1 .. issued, [C!Next]_(C!vars)
  PROVE  told' \subseteq 1 .. issued'
  <1>1. CloudTypes
    BY DEF CloudInv
  <1>2. CASE UNCHANGED C!vars
    BY <1>2 DEF C!vars
  <1>3. ASSUME NEW p \in Process, C!Issue(p)
        PROVE  told' \subseteq 1 .. issued'
    BY <1>1, <1>3 DEF C!Issue, CloudTypes
  <1>4. ASSUME UNCHANGED <<told, issued>>
        PROVE  told' \subseteq 1 .. issued'
    BY <1>4
  <1>5. \A p \in Process : command[p] # None => {command[p].got, command[p].found} \ {None} \subseteq 1 .. issued
    BY <1>1 DEF CloudTypes, Tokens
  <1>6. ASSUME NEW p \in Process, C!Cleanup(p) \/ C!Previous(p) \/ C!Revoke(p) \/ C!Delete(p) \/ C!Kill(p)
        PROVE  told' \subseteq 1 .. issued'
    <2>1. command[p] # None /\ UNCHANGED issued
      BY <1>6 DEF C!Cleanup, C!Previous, C!Revoke, C!Delete, C!Kill, C!At, C!Idle
    <2>2. CASE C!Cleanup(p)
      <3>1. command[p].got # None
        BY <2>2 DEF C!Cleanup, C!At, C!Idle, CloudInv, LoginInv, LoginOf, Signs
      <3>2. told' \in {told, told \cup {command[p].got}}
        BY <2>2 DEF C!Cleanup, C!Revoked, C!Unrevoked
      <3>3. QED
        BY <1>5, <2>1, <3>1, <3>2
    <2>3. CASE C!Previous(p) \/ C!Revoke(p) \/ C!Delete(p)
      <3>1. command[p].found # None
        BY <2>3 DEF C!Previous, C!Revoke, C!Delete, C!At, C!Idle, CloudInv, LoginInv, LogoutInv, LoginOf, LogoutOf, Signs
      <3>2. told' \in {told, told \cup {command[p].found}}
        BY <2>3 DEF C!Previous, C!Revoke, C!Delete, C!Revoked, C!Unrevoked
      <3>3. QED
        BY <1>5, <2>1, <3>1, <3>2
    <2>4. CASE C!Kill(p)
      BY <1>5, <2>1, <2>4 DEF C!Kill
    <2>5. QED
      BY <1>6, <2>2, <2>3, <2>4
  <1>7. ASSUME NEW p \in Process,
               \/ \E k \in Store : C!Login(p, k) \/ C!Logout(p, k) \/ C!Databases(p, k)
               \/ C!IssueFails(p) \/ C!Validate(p) \/ C!Save(p) \/ C!ReadPage(p) \/ C!Listed(p)
        PROVE  told' \subseteq 1 .. issued'
    BY <1>4, <1>7 DEF C!Login, C!Logout, C!Databases, C!IssueFails, C!Validate, C!Save, C!ReadPage, C!Listed
  <1>8. QED
    BY <1>2, <1>3, <1>6, <1>7 DEF C!Next

LEMMA CloudTypesHold ==
  ASSUME ~Overlap
  PROVE  C!Spec => []C!CloudTypeOK
  <1>1. C!Init => CloudInv /\ told \subseteq 1 .. issued
    BY CloudInit DEF C!Init
  <1>2. CloudInv /\ told \subseteq 1 .. issued /\ [C!Next]_(C!vars) => (CloudInv /\ told \subseteq 1 .. issued)'
    BY CloudStep, ToldOfIssued
  <1>3. CloudInv /\ told \subseteq 1 .. issued => C!CloudTypeOK
    <2> SUFFICES ASSUME CloudInv, told \subseteq 1 .. issued PROVE C!CloudTypeOK
      OBVIOUS
    <2>1. CloudTypes
      BY DEF CloudInv
    <2>2. Tokens \subseteq C!Token \cup {None}
      BY <2>1, CloudAssumption DEF CloudTypes, Tokens, C!Token
    <2>3. store \in [Store -> C!Token \cup {None}]
      BY <2>1, <2>2 DEF CloudTypes
    <2>4. QED
      BY <2>1, <2>3 DEF CloudTypes, C!CloudTypeOK
  <1>4. QED
    BY <1>1, <1>2, <1>3, PTL DEF C!Spec

-----------------------------------------------------------------------------
(* Chains: what lineage finds *)

\* Induction over the natural numbers, as a statement about sets of them.
LEMMA AllNaturals ==
  ASSUME NEW T, T \subseteq Nat, 0 \in T, \A n \in T : n + 1 \in T
  PROVE  T = Nat
  <1> SUFFICES ASSUME Nat \ T # {} PROVE FALSE
    OBVIOUS
  <1>1. PICK n \in Nat \ T : \A m \in Nat \ T : <<m, n>> \notin OpToRel(<, Nat)
    <2>1. Nat \ T \subseteq Nat
      OBVIOUS
    <2>2. QED
      BY <2>1, NatLessThanWellFounded, WFMin
  <1>2. n - 1 \in Nat /\ n - 1 < n
    OBVIOUS
  <1>3. <<n - 1, n>> \in OpToRel(<, Nat)
    BY <1>2 DEF OpToRel
  <1>4. n - 1 \in T
    BY <1>1, <1>2, <1>3
  <1>5. QED
    BY <1>2, <1>4

\* Repeating a step any number of times.
Repeats(f, F, b) == f[0] = b /\ \A n \in Nat : f[n + 1] = F[f[n]]

LEMMA Repeated ==
  ASSUME NEW Element, NEW F \in [Element -> Element], NEW b \in Element
  PROVE  \E f \in [Nat -> Element] : Repeats(f, F, b)
  <1> DEFINE Upto(n, g) == g \in [0 .. n -> Element] /\ g[0] = b /\ \A i \in 0 .. n - 1 : g[i + 1] = F[g[i]]
  <1>1. \A n \in Nat : \E g : Upto(n, g)
    <2> DEFINE T == {n \in Nat : \E g : Upto(n, g)}
    <2>1. 0 \in T
      <3>1. Upto(0, [i \in 0 .. 0 |-> b])
        OBVIOUS
      <3>2. QED
        BY <3>1
    <2>2. ASSUME NEW n \in T PROVE n + 1 \in T
      <3>1. PICK g : Upto(n, g)
        OBVIOUS
      <3> DEFINE h == [i \in 0 .. n + 1 |-> IF i = n + 1 THEN F[g[n]] ELSE g[i]]
      <3>2. n \in Nat /\ n \in 0 .. n /\ g[n] \in Element /\ F[g[n]] \in Element
        BY <3>1
      <3>3. h \in [0 .. n + 1 -> Element]
        BY <3>1, <3>2
      <3>4. h[0] = b
        BY <3>1, <3>2
      <3>5. ASSUME NEW i \in 0 .. (n + 1) - 1 PROVE h[i + 1] = F[h[i]]
        <4>1. CASE i = n
          BY <3>2, <4>1
        <4>2. CASE i # n
          <5>1. i \in 0 .. n - 1 /\ i + 1 # n + 1 /\ i # n + 1 /\ i + 1 \in 0 .. n + 1 /\ i \in 0 .. n + 1
            BY <3>2, <4>2
          <5>2. h[i + 1] = g[i + 1] /\ h[i] = g[i]
            BY <5>1
          <5>3. QED
            BY <3>1, <5>1, <5>2
        <4>3. QED
          BY <4>1, <4>2
      <3>6. Upto(n + 1, h)
        BY <3>3, <3>4, <3>5
      <3> HIDE DEF h, Upto
      <3>7. QED
        BY <3>2, <3>6
    <2> HIDE DEF T
    <2>3. T \subseteq Nat
      BY DEF T
    <2>4. T = Nat
      BY <2>1, <2>2, <2>3, AllNaturals
    <2>5. QED
      BY <2>4 DEF T
  <1>2. ASSUME NEW n \in Nat, NEW g, NEW h, Upto(n, g), Upto(n + 1, h) PROVE \A i \in 0 .. n : g[i] = h[i]
    <2> DEFINE T == {i \in Nat : i \in 0 .. n => g[i] = h[i]}
    <2>1. 0 \in T
      BY <1>2
    <2>2. ASSUME NEW i \in T PROVE i + 1 \in T
      <3> SUFFICES ASSUME i + 1 \in 0 .. n PROVE g[i + 1] = h[i + 1]
        OBVIOUS
      <3>1. i \in Nat /\ i \in 0 .. n - 1 /\ i \in 0 .. n /\ i \in 0 .. (n + 1) - 1
        OBVIOUS
      <3>2. g[i] = h[i]
        BY <3>1
      <3>3. g[i + 1] = F[g[i]]
        BY <1>2, <3>1
      <3>4. h[i + 1] = F[h[i]]
        BY <1>2, <3>1
      <3>5. QED
        BY <3>2, <3>3, <3>4
    <2> HIDE DEF T, Upto
    <2>3. T \subseteq Nat
      BY DEF T
    <2>4. T = Nat
      BY <2>1, <2>2, <2>3, AllNaturals
    <2>5. QED
      BY <2>4 DEF T
  <1> DEFINE Longest(n) == CHOOSE g : Upto(n, g)
             f == [n \in Nat |-> Longest(n)[n]]
  <1>3. \A n \in Nat : Upto(n, Longest(n))
    <2> HIDE DEF Upto
    <2>1. QED
      BY <1>1
  <1> HIDE DEF Longest
  <1>4. f \in [Nat -> Element]
    <2>1. ASSUME NEW n \in Nat PROVE Longest(n)[n] \in Element
      <3>1. n \in 0 .. n
        OBVIOUS
      <3>2. QED
        BY <1>3, <3>1
    <2>2. QED
      BY <2>1
  <1>5. f[0] = b
    BY <1>3
  <1>6. ASSUME NEW n \in Nat PROVE f[n + 1] = F[f[n]]
    <2>1. Upto(n, Longest(n)) /\ Upto(n + 1, Longest(n + 1))
      BY <1>3
    <2>2. n \in 0 .. n /\ n \in 0 .. (n + 1) - 1
      OBVIOUS
    <2>3. Longest(n)[n] = Longest(n + 1)[n]
      <3> HIDE DEF Upto
      <3>1. QED
        BY <1>2, <2>1, <2>2
    <2>4. Longest(n + 1)[n + 1] = F[Longest(n + 1)[n]]
      BY <2>1, <2>2
    <2>5. QED
      BY <2>3, <2>4
  <1> HIDE DEF f
  <1>7. QED
    BY <1>4, <1>5, <1>6 DEF Repeats

-----------------------------------------------------------------------------
(* Chains: the concepts that a concept extends *)

LEMMA SameCardinality == \A T : H!Cardinality(T) = Cardinality(T)
  BY DEF H!Cardinality, Cardinality

LEMMA LaterIds ==
  ASSUME H!ChainsTypeOK, NEW a \in Concept, H!Here(extends[a])
  PROVE  extends[a].id \in Concept
  BY DEF H!Here

\* What a concept extends after n steps.
Reaches(c, f) ==
    /\ f \in [Nat -> SUBSET Concept] /\ f[0] = {}
    /\ \A n \in Nat : f[n + 1] = H!Extended({c} \cup f[n])

LEMMA WithinExists ==
  ASSUME NEW c \in Concept
  PROVE  \E f : Reaches(c, f)
  <1> DEFINE F == [A \in SUBSET Concept |-> H!Extended({c} \cup A)]
  <1>1. F \in [SUBSET Concept -> SUBSET Concept]
    BY DEF H!Extended, H!Here
  <1>2. {} \in SUBSET Concept
    OBVIOUS
  <1>3. \A A \in SUBSET Concept : F[A] = H!Extended({c} \cup A)
    OBVIOUS
  <1> DEFINE Subsets == SUBSET Concept
             None0 == {}
  <1>4. F \in [Subsets -> Subsets] /\ None0 \in Subsets
    BY <1>1, <1>2
  <1> HIDE DEF F, Subsets, None0
  <1>5. PICK f \in [Nat -> Subsets] : Repeats(f, F, None0)
    BY ONLY <1>4, Repeated
  <1>6. f[0] = None0 /\ \A n \in Nat : f[n + 1] = F[f[n]]
    BY <1>5 DEF Repeats
  <1>7. ASSUME NEW n \in Nat PROVE f[n + 1] = H!Extended({c} \cup f[n])
    BY <1>3, <1>5, <1>6 DEF Subsets
  <1>8. QED
    BY <1>5, <1>6, <1>7 DEF Reaches, Subsets, None0

LEMMA WithinIs ==
  ASSUME NEW c \in Concept, NEW f
  PROVE  Reaches(c, f) <=> f = [n \in Nat |-> IF n = 0 THEN {} ELSE H!Extended({c} \cup f[n - 1])]
  <1>1. ASSUME Reaches(c, f) PROVE f = [n \in Nat |-> IF n = 0 THEN {} ELSE H!Extended({c} \cup f[n - 1])]
    <2> DEFINE h == [n \in Nat |-> IF n = 0 THEN {} ELSE H!Extended({c} \cup f[n - 1])]
    <2>1. ASSUME NEW n \in Nat PROVE f[n] = h[n]
      <3>1. CASE n = 0
        BY <1>1, <3>1 DEF Reaches
      <3>2. CASE n # 0
        <4>1. n - 1 \in Nat /\ (n - 1) + 1 = n
          BY <3>2
        <4>2. QED
          BY <1>1, <3>2, <4>1 DEF Reaches
      <3>3. QED
        BY <3>1, <3>2
    <2>2. QED
      BY <1>1, <2>1 DEF Reaches
  <1>2. ASSUME f = [n \in Nat |-> IF n = 0 THEN {} ELSE H!Extended({c} \cup f[n - 1])] PROVE Reaches(c, f)
    <2>1. f[0] = {}
      BY <1>2
    <2>2. ASSUME NEW n \in Nat PROVE f[n + 1] = H!Extended({c} \cup f[n])
      <3>1. n + 1 \in Nat /\ n + 1 # 0 /\ (n + 1) - 1 = n
        OBVIOUS
      <3>2. QED
        BY <1>2, <3>1
    <2>3. ASSUME NEW n \in Nat PROVE f[n] \in SUBSET Concept
      BY <1>2 DEF H!Extended, H!Here
    <2>4. f \in [Nat -> SUBSET Concept]
      BY <1>2, <2>3
    <2>5. QED
      BY <2>1, <2>2, <2>4 DEF Reaches
  <1>3. QED
    BY <1>1, <1>2

LEMMA AncestorsAre ==
  ASSUME NEW c \in Concept
  PROVE  \E f : Reaches(c, f) /\ H!Ancestors(c) = f[Cardinality(Concept)]
  <1> DEFINE f == CHOOSE f : f = [n \in Nat |-> IF n = 0 THEN {} ELSE H!Extended({c} \cup f[n - 1])]
  <1>1. f = [n \in Nat |-> IF n = 0 THEN {} ELSE H!Extended({c} \cup f[n - 1])]
    BY WithinExists, WithinIs
  <1>2. H!Ancestors(c) = f[Cardinality(Concept)]
    BY SameCardinality DEF H!Ancestors
  <1> HIDE DEF f
  <1>3. QED
    BY <1>1, <1>2, WithinIs

LEMMA ExtendedSplits ==
  ASSUME NEW c, NEW A
  PROVE  /\ H!Here(extends[c]) => H!Extended({c} \cup A) = {extends[c].id} \cup H!Extended(A)
         /\ ~H!Here(extends[c]) => H!Extended({c} \cup A) = H!Extended(A)
  BY DEF H!Extended

LEMMA ExtendedGrows ==
  ASSUME NEW A, NEW B, A \subseteq B
  PROVE  H!Extended(A) \subseteq H!Extended(B)
  BY DEF H!Extended

LEMMA ReachesGrows ==
  ASSUME NEW c \in Concept, NEW f, Reaches(c, f)
  PROVE  \A n \in Nat : f[n] \subseteq f[n + 1]
  <1> DEFINE T == {n \in Nat : f[n] \subseteq f[n + 1]}
  <1>1. 0 \in T
    BY DEF Reaches
  <1>2. ASSUME NEW n \in T PROVE n + 1 \in T
    <2>1. f[n + 1] = H!Extended({c} \cup f[n]) /\ f[(n + 1) + 1] = H!Extended({c} \cup f[n + 1])
      BY DEF Reaches
    <2>2. {c} \cup f[n] \subseteq {c} \cup f[n + 1]
      OBVIOUS
    <2>3. f[n + 1] \subseteq f[(n + 1) + 1]
      BY <2>1, <2>2, ExtendedGrows
    <2>4. QED
      BY <2>3
  <1>3. T \subseteq Nat
    OBVIOUS
  <1> HIDE DEF T
  <1>4. T = Nat
    BY <1>1, <1>2, <1>3, AllNaturals
  <1>5. QED
    BY <1>4 DEF T

\* As many steps as there are concepts are enough.
LEMMA ReachesStops ==
  ASSUME IsFiniteSet(Concept), NEW c \in Concept, NEW f, Reaches(c, f)
  PROVE  f[Cardinality(Concept) + 1] = f[Cardinality(Concept)]
  <1> DEFINE Still(n) == f[n + 1] = f[n]
             T == {n \in Nat : Cardinality(f[n]) >= n \/ Still(n)}
  <1>0. ASSUME NEW n \in Nat
        PROVE  f[n] \subseteq Concept /\ IsFiniteSet(f[n]) /\ Cardinality(f[n]) \in Nat
    <2>1. f[n] \subseteq Concept
      BY DEF Reaches
    <2>2. IsFiniteSet(f[n])
      BY <2>1, FS_Subset
    <2>3. QED
      BY <2>1, <2>2, FS_CardinalityType
  <1>1. 0 \in T
    BY <1>0
  <1>2. ASSUME NEW n \in T PROVE n + 1 \in T
    <2>0. n \in Nat /\ n + 1 \in Nat
      OBVIOUS
    <2>1. f[n + 1] = H!Extended({c} \cup f[n]) /\ f[(n + 1) + 1] = H!Extended({c} \cup f[n + 1])
      BY DEF Reaches
    <2>2. CASE Still(n)
      BY <2>0, <2>1, <2>2
    <2>3. CASE ~Still(n)
      <3>1. Cardinality(f[n]) >= n
        BY <2>3
      <3>2. f[n] \subseteq f[n + 1] /\ f[n] # f[n + 1]
        BY <2>0, <2>3, ReachesGrows
      <3>3. Cardinality(f[n]) < Cardinality(f[n + 1])
        <4>1. IsFiniteSet(f[n + 1])
          BY <1>0, <2>0
        <4>2. QED
          BY <1>0, <2>0, <3>2, <4>1, FS_Subset
      <3>4. Cardinality(f[n + 1]) >= n + 1
        BY <1>0, <2>0, <3>1, <3>3
      <3>5. QED
        BY <2>0, <3>4
    <2>4. QED
      BY <2>2, <2>3
  <1>3. T \subseteq Nat
    OBVIOUS
  <1> HIDE DEF T
  <1>4. T = Nat
    BY <1>1, <1>2, <1>3, AllNaturals
  <1> DEFINE N1 == Cardinality(Concept)
  <1>5. N1 \in Nat /\ N1 \in T
    BY <1>4, FS_CardinalityType
  <1>6. CASE Still(N1)
    BY <1>6
  <1>7. CASE Cardinality(f[N1]) >= N1
    <2>1. f[N1] \subseteq Concept /\ f[N1 + 1] \subseteq Concept /\ f[N1] \subseteq f[N1 + 1]
      BY <1>0, <1>5, ReachesGrows
    <2>2. f[N1] = Concept
      <3>1. f[N1] # Concept => Cardinality(f[N1]) < N1
        BY <1>0, <1>5, <2>1, FS_Subset
      <3>2. QED
        BY <1>0, <1>5, <1>7, <3>1
    <2>3. QED
      BY <2>1, <2>2
  <1>8. QED
    BY <1>5, <1>6, <1>7 DEF T

\* One step more from a concept is the step to the one it extends, and then
\* the steps from there.
LEMMA ReachesOneMore ==
  ASSUME H!ChainsTypeOK, NEW c \in Concept, H!Here(extends[c]),
         NEW f, Reaches(c, f), NEW g, Reaches(extends[c].id, g)
  PROVE  \A n \in Nat : f[n + 1] = {extends[c].id} \cup g[n]
  <1> DEFINE d == extends[c].id
             T == {n \in Nat : f[n + 1] = {d} \cup g[n]}
  <1>1. 0 \in T
    <2>1. f[0 + 1] = H!Extended({c} \cup {})
      BY DEF Reaches
    <2>2. H!Extended({}) = {}
      BY DEF H!Extended
    <2>3. QED
      BY <2>1, <2>2, ExtendedSplits DEF Reaches
  <1>2. ASSUME NEW n \in T PROVE n + 1 \in T
    <2>1. /\ f[n + 1] = {d} \cup g[n] /\ n + 1 \in Nat
          /\ f[(n + 1) + 1] = H!Extended({c} \cup f[n + 1])
          /\ g[n + 1] = H!Extended({d} \cup g[n])
      BY DEF Reaches
    <2>2. f[(n + 1) + 1] = {d} \cup H!Extended({d} \cup g[n])
      BY <2>1, ExtendedSplits
    <2>3. QED
      BY <2>1, <2>2
  <1>3. T \subseteq Nat
    OBVIOUS
  <1> HIDE DEF T
  <1>4. T = Nat
    BY <1>1, <1>2, <1>3, AllNaturals
  <1>5. QED
    BY <1>4 DEF T

\* What a concept extends: nothing, or one concept and what that one extends.
LEMMA AncestorsClimb ==
  ASSUME IsFiniteSet(Concept), H!ChainsTypeOK, NEW c \in Concept
  PROVE  /\ H!Ancestors(c) \subseteq Concept
         /\ H!Here(extends[c]) => H!Ancestors(c) = {extends[c].id} \cup H!Ancestors(extends[c].id)
         /\ ~H!Here(extends[c]) => H!Ancestors(c) = {}
  <1> DEFINE N1 == Cardinality(Concept)
  <1>0. N1 \in Nat /\ N1 + 1 \in Nat
    BY FS_CardinalityType
  <1>1. PICK f : Reaches(c, f) /\ H!Ancestors(c) = f[N1]
    BY AncestorsAre
  <1>2. H!Ancestors(c) \subseteq Concept
    BY <1>0, <1>1 DEF Reaches
  <1>3. ASSUME H!Here(extends[c]) PROVE H!Ancestors(c) = {extends[c].id} \cup H!Ancestors(extends[c].id)
    <2>1. extends[c].id \in Concept
      BY <1>3, LaterIds
    <2>2. PICK g : Reaches(extends[c].id, g) /\ H!Ancestors(extends[c].id) = g[N1]
      BY <2>1, AncestorsAre
    <2>3. f[N1 + 1] = {extends[c].id} \cup g[N1]
      BY <1>0, <1>1, <1>3, <2>2, ReachesOneMore
    <2>4. QED
      BY <1>1, <2>2, <2>3, ReachesStops
  <1>4. ASSUME ~H!Here(extends[c]) PROVE H!Ancestors(c) = {}
    <2> DEFINE T == {n \in Nat : f[n] = {}}
    <2>1. 0 \in T
      BY <1>1 DEF Reaches
    <2>2. ASSUME NEW n \in T PROVE n + 1 \in T
      <3>1. f[n + 1] = H!Extended({c} \cup {})
        BY <1>1 DEF Reaches
      <3>2. H!Extended({}) = {}
        BY DEF H!Extended
      <3>3. QED
        BY <1>4, <3>1, <3>2, ExtendedSplits
    <2>3. T \subseteq Nat
      OBVIOUS
    <2> HIDE DEF T
    <2>4. T = Nat
      BY <2>1, <2>2, <2>3, AllNaturals
    <2>5. QED
      BY <1>0, <1>1, <2>4 DEF T
  <1>5. QED
    BY <1>2, <1>3, <1>4

\* A chain from x, after those in seen, that has an end, no break, comes back
\* neither to itself nor to those in seen, and is not too long.
Line(x) == {x} \cup H!Ancestors(x)
Outside(x) == {a \in Line(x) : H!Beyond(extends[a])}
Links(a) == a \notin H!Ancestors(a) /\ (extends[a].form # "none" => H!Here(extends[a]) \/ H!Beyond(extends[a]))
Fits(x, length) ==
    Cardinality(H!Ancestors(x)) + Cardinality(Outside(x)) > 0
    => length + Cardinality(H!Ancestors(x)) + Cardinality(Outside(x)) <= MaxChain
Good(spot) ==
    /\ Line(spot.current) \cap spot.seen = {}
    /\ \A a \in Line(spot.current) : Links(a)
    /\ Fits(spot.current, Cardinality(spot.seen))

LEMMA Sizes ==
  ASSUME IsFiniteSet(Concept), H!ChainsTypeOK, NEW c \in Concept
  PROVE  /\ IsFiniteSet(H!Ancestors(c)) /\ Cardinality(H!Ancestors(c)) \in Nat
         /\ IsFiniteSet(Line(c)) /\ Cardinality(Line(c)) \in Nat
         /\ IsFiniteSet(Outside(c)) /\ Cardinality(Outside(c)) \in Nat
  <1>1. H!Ancestors(c) \subseteq Concept
    BY AncestorsClimb
  <1>2. Line(c) \subseteq Concept /\ Outside(c) \subseteq Concept
    BY <1>1 DEF Line, Outside
  <1>3. IsFiniteSet(H!Ancestors(c)) /\ IsFiniteSet(Line(c)) /\ IsFiniteSet(Outside(c))
    BY <1>1, <1>2, FS_Subset
  <1>4. QED
    BY <1>3, FS_CardinalityType

LEMMA OneReference ==
  ASSUME NEW r
  PROVE  /\ H!Resolve(r) = "outside" <=> H!Beyond(r)
         /\ H!Resolve(r) = "concept" <=> H!Here(r)
         /\ H!Resolve(r) = "error" <=> ~H!Beyond(r) /\ ~H!Here(r)
         /\ ~(H!Beyond(r) /\ H!Here(r))
         /\ H!Here(r) \/ H!Beyond(r) => r.form # "none"
  BY DEF H!Resolve, H!Beyond, H!Here

\* A chain goes on well exactly when the rest of it does.
LEMMA GoodGoesOn ==
  ASSUME IsFiniteSet(Concept), MaxChain \in Nat, H!ChainsTypeOK, NEW spot \in H!Place,
         spot.current \notin spot.seen, H!Here(extends[spot.current])
  PROVE  Good(spot) <=>
            /\ Cardinality(spot.seen) + 1 <= MaxChain
            /\ Good([current |-> extends[spot.current].id, seen |-> spot.seen \cup {spot.current}])
  <1> DEFINE x == spot.current
             y == extends[x].id
             rest == [current |-> y, seen |-> spot.seen \cup {x}]
             A == Cardinality(H!Ancestors(y))
             E == Cardinality(Outside(y))
             L0 == Cardinality(spot.seen)
  <1>1. x \in Concept /\ y \in Concept /\ spot.seen \subseteq Concept
    BY LaterIds DEF H!Place
  <1>2. H!Ancestors(x) = Line(y) /\ Line(x) = {x} \cup Line(y)
    BY <1>1, AncestorsClimb DEF Line
  <1>3. Outside(x) = Outside(y)
    <2>1. ~H!Beyond(extends[x])
      BY OneReference
    <2>2. QED
      BY <1>2, <2>1 DEF Outside
  <1>4. L0 \in Nat /\ Cardinality(rest.seen) = L0 + 1
    <2>1. IsFiniteSet(spot.seen)
      BY <1>1, FS_Subset
    <2>2. QED
      BY <2>1, FS_CardinalityType, FS_AddElement
  <1>5. A \in Nat /\ E \in Nat /\ IsFiniteSet(H!Ancestors(y))
    BY <1>1, Sizes
  <1>6. Line(y) = H!Ancestors(y) \cup {y}
    BY DEF Line
  <1>7. y \notin H!Ancestors(y) => Cardinality(Line(y)) = A + 1
    BY <1>5, <1>6, FS_AddElement
  <1>8. Links(x) <=> x \notin Line(y)
    BY <1>2, OneReference DEF Links
  <1> HIDE DEF A, E, L0
  <1>9. ASSUME Good(spot) PROVE L0 + 1 <= MaxChain /\ Good(rest)
    <2>1. y \in Line(y) /\ Links(y) /\ y \notin H!Ancestors(y)
      BY <1>2, <1>9 DEF Good, Line, Links
    <2>2. Cardinality(H!Ancestors(x)) = A + 1 /\ Cardinality(Outside(x)) = E
      BY <1>2, <1>3, <1>7, <2>1 DEF A, E
    <2>3. L0 + (A + 1) + E <= MaxChain
      <3>1. A + 1 + E > 0
        BY <1>5
      <3>2. QED
        BY <1>9, <2>2, <3>1 DEF Good, Fits, L0
    <2>4. L0 + 1 <= MaxChain /\ (L0 + 1) + A + E <= MaxChain
      BY <1>4, <1>5, <2>3
    <2>5. Fits(y, L0 + 1)
      BY <2>4 DEF Fits, A, E
    <2>6. Line(y) \cap rest.seen = {}
      <3>1. x \notin Line(y)
        BY <1>2, <1>8, <1>9 DEF Good
      <3>2. Line(y) \cap spot.seen = {}
        BY <1>2, <1>9 DEF Good
      <3>3. QED
        BY <3>1, <3>2
    <2>7. \A a \in Line(y) : Links(a)
      BY <1>2, <1>9 DEF Good
    <2>8. Good(rest)
      BY <1>4, <2>5, <2>6, <2>7 DEF Good
    <2>9. QED
      BY <2>4, <2>8
  <1>10. ASSUME L0 + 1 <= MaxChain, Good(rest) PROVE Good(spot)
    <2>1. y \in Line(y) /\ Links(y) /\ y \notin H!Ancestors(y)
      BY <1>10 DEF Good, Line, Links
    <2>2. Cardinality(H!Ancestors(x)) = A + 1 /\ Cardinality(Outside(x)) = E
      BY <1>2, <1>3, <1>7, <2>1 DEF A, E
    <2>3. A + E > 0 => (L0 + 1) + A + E <= MaxChain
      BY <1>4, <1>10 DEF Good, Fits, A, E
    <2>4. L0 + (A + 1) + E <= MaxChain
      BY <1>4, <1>5, <1>10, <2>3
    <2>5. Fits(x, L0)
      BY <2>2, <2>4 DEF Fits
    <2>6. x \notin Line(y) /\ Line(y) \cap spot.seen = {}
      BY <1>10 DEF Good
    <2>7. Line(x) \cap spot.seen = {}
      BY <1>2, <2>6
    <2>8. \A a \in Line(x) : Links(a)
      BY <1>2, <1>8, <1>10, <2>6 DEF Good
    <2>9. QED
      BY <2>5, <2>7, <2>8 DEF Good, L0
  <1>11. QED
    BY <1>9, <1>10 DEF L0

\* One step of lineage, with w for what it finds further on.
Lineage(w, spot) ==
    \/ spot.current \in spot.seen
    \/ /\ extends[spot.current].form # "none"
       /\ \/ H!Cardinality(spot.seen) + 1 > MaxChain
          \/ H!Resolve(extends[spot.current]) = "error"
          \/ H!Resolve(extends[spot.current]) = "concept" /\ w[H!Onward(spot)]

LeadsOn(spot) == spot.current \notin spot.seen /\ H!Here(extends[spot.current])
Rest(spot) == [current |-> extends[spot.current].id, seen |-> spot.seen \cup {spot.current}]

LEMMA RestIsAPlace ==
  ASSUME H!ChainsTypeOK, NEW spot \in H!Place, LeadsOn(spot)
  PROVE  Rest(spot) \in H!Place
  BY LaterIds DEF LeadsOn, Rest, H!Place

LEMMA LineageIs ==
  ASSUME IsFiniteSet(Concept), MaxChain \in Nat, H!ChainsTypeOK, NEW spot \in H!Place, NEW w,
         LeadsOn(spot) => w[Rest(spot)] \in BOOLEAN
  PROVE  /\ Lineage(w, spot) \in BOOLEAN
         /\ spot.current \in spot.seen => Lineage(w, spot)
         /\ spot.current \notin spot.seen /\ extends[spot.current].form = "none" => ~Lineage(w, spot)
         /\ spot.current \notin spot.seen /\ H!Beyond(extends[spot.current])
            => (Lineage(w, spot) <=> Cardinality(spot.seen) + 1 > MaxChain)
         /\ spot.current \notin spot.seen /\ extends[spot.current].form # "none"
            /\ ~H!Beyond(extends[spot.current]) /\ ~H!Here(extends[spot.current]) => Lineage(w, spot)
         /\ LeadsOn(spot) => (Lineage(w, spot) <=> Cardinality(spot.seen) + 1 > MaxChain \/ w[Rest(spot)])
  <1> DEFINE onward == extends[spot.current]
             further == w[Rest(spot)]
             tooLong == Cardinality(spot.seen) + 1 > MaxChain
  <1>1. H!Cardinality(spot.seen) = Cardinality(spot.seen)
    BY SameCardinality
  <1>2. Lineage(w, spot) <=>
          \/ spot.current \in spot.seen
          \/ /\ onward.form # "none"
             /\ \/ tooLong
                \/ H!Resolve(onward) = "error"
                \/ H!Resolve(onward) = "concept" /\ further
    BY <1>1 DEF Lineage, Rest, H!Onward
  <1>3. Lineage(w, spot) \in BOOLEAN
    BY DEF Lineage
  <1>4. /\ H!Resolve(onward) = "concept" <=> H!Here(onward)
        /\ H!Resolve(onward) = "error" <=> ~H!Beyond(onward) /\ ~H!Here(onward)
        /\ ~(H!Beyond(onward) /\ H!Here(onward))
        /\ H!Here(onward) \/ H!Beyond(onward) => onward.form # "none"
    BY OneReference
  <1> HIDE DEF further, tooLong
  <1>5. LeadsOn(spot) => (Lineage(w, spot) <=> tooLong \/ further)
    BY <1>2, <1>4 DEF LeadsOn
  <1>6. /\ spot.current \in spot.seen => Lineage(w, spot)
        /\ spot.current \notin spot.seen /\ onward.form = "none" => ~Lineage(w, spot)
    BY <1>2
  <1>7. /\ spot.current \notin spot.seen /\ H!Beyond(onward) => (Lineage(w, spot) <=> tooLong)
        /\ spot.current \notin spot.seen /\ onward.form # "none" /\ ~H!Beyond(onward) /\ ~H!Here(onward)
           => Lineage(w, spot)
    BY <1>2, <1>4
  <1>8. QED
    BY <1>3, <1>5, <1>6, <1>7 DEF further, tooLong

\* A step finds a problem exactly where the chain is not good, if the steps
\* after it do.
LEMMA LineageDecides ==
  ASSUME IsFiniteSet(Concept), MaxChain \in Nat, H!ChainsTypeOK, NEW spot \in H!Place, NEW w,
         LeadsOn(spot) => w[Rest(spot)] = ~Good(Rest(spot))
  PROVE  Lineage(w, spot) = ~Good(spot)
  <1> DEFINE x == spot.current
             onward == extends[x]
             size == Cardinality(spot.seen)
  <1>1. x \in Concept /\ spot.seen \subseteq Concept
    BY DEF H!Place
  <1>2. size \in Nat
    BY <1>1, FS_Subset, FS_CardinalityType
  <1>3. Good(spot) \in BOOLEAN
    BY DEF Good
  <1>9. LeadsOn(spot) => w[Rest(spot)] \in BOOLEAN
    BY DEF Good
  <1>10. Lineage(w, spot) \in BOOLEAN
    BY <1>9, LineageIs
  <1> HIDE DEF size
  <1>4. CASE x \in spot.seen
    <2>1. ~Good(spot)
      BY <1>4 DEF Good, Line
    <2>2. QED
      BY <1>3, <1>4, <1>9, <1>10, <2>1, LineageIs
  <1>5. CASE x \notin spot.seen /\ ~H!Here(onward)
    <2>1. H!Ancestors(x) = {} /\ Line(x) = {x}
      BY <1>1, <1>5, AncestorsClimb DEF Line
    <2>2. Cardinality({}) = 0 /\ Cardinality({x}) = 1
      BY FS_EmptySet, FS_Singleton
    <2>3. CASE onward.form = "none"
      <3>1. ~H!Beyond(onward)
        BY <2>3, OneReference
      <3>2. Outside(x) = {}
        BY <2>1, <3>1 DEF Outside
      <3>3. Good(spot)
        BY <1>5, <2>1, <2>2, <2>3, <3>2 DEF Good, Links, Fits
      <3>4. QED
        BY <1>3, <1>5, <1>9, <1>10, <2>3, <3>3, LineageIs
    <2>4. CASE onward.form # "none" /\ ~H!Beyond(onward)
      <3>1. ~Good(spot)
        BY <1>5, <2>1, <2>4 DEF Good, Links
      <3>2. QED
        BY <1>3, <1>5, <1>9, <1>10, <2>4, <3>1, LineageIs
    <2>5. CASE H!Beyond(onward)
      <3>1. Outside(x) = {x}
        BY <2>1, <2>5 DEF Outside
      <3>2. Good(spot) <=> size + 1 <= MaxChain
        <4>1. Fits(x, size) <=> size + 1 <= MaxChain
          BY <1>2, <2>1, <2>2, <3>1 DEF Fits
        <4>2. \A a \in Line(x) : Links(a)
          BY <2>1, <2>5 DEF Links
        <4>3. Line(x) \cap spot.seen = {}
          BY <1>5, <2>1
        <4>4. QED
          BY <4>1, <4>2, <4>3 DEF Good, size
      <3>3. Lineage(w, spot) <=> size + 1 > MaxChain
        BY <1>5, <2>5, <1>9, LineageIs DEF size
      <3>4. size + 1 > MaxChain <=> ~(size + 1 <= MaxChain)
        BY <1>2
      <3>5. QED
        BY <1>3, <1>10, <3>2, <3>3, <3>4
    <2>6. QED
      BY <2>3, <2>4, <2>5
  <1>6. CASE LeadsOn(spot)
    <2>1. Good(spot) <=> size + 1 <= MaxChain /\ Good(Rest(spot))
      BY <1>6, GoodGoesOn DEF LeadsOn, Rest, size
    <2>2. Lineage(w, spot) <=> size + 1 > MaxChain \/ ~Good(Rest(spot))
      BY <1>6, <1>9, LineageIs DEF size
    <2>3. size + 1 > MaxChain <=> ~(size + 1 <= MaxChain)
      BY <1>2
    <2>4. Good(Rest(spot)) \in BOOLEAN
      BY DEF Good
    <2>5. QED
      BY <1>3, <1>10, <2>1, <2>2, <2>3, <2>4
  <1>7. QED
    BY <1>4, <1>5, <1>6 DEF LeadsOn

LEMMA LineageEnds ==
  ASSUME IsFiniteSet(Concept), MaxChain \in Nat, H!ChainsTypeOK, NEW w,
         \A spot \in H!Place : w[spot] = Lineage(w, spot)
  PROVE  \A spot \in H!Place : w[spot] = ~Good(spot)
  <1> DEFINE Left(spot) == Cardinality(Concept \ spot.seen)
             T == {n \in Nat : \A spot \in H!Place : Left(spot) <= n => w[spot] = ~Good(spot)}
  <1>1. ASSUME NEW spot \in H!Place
        PROVE  IsFiniteSet(Concept \ spot.seen) /\ Left(spot) \in Nat
    BY FS_Difference, FS_CardinalityType
  <1>2. ASSUME NEW spot \in H!Place, LeadsOn(spot)
        PROVE  Left(spot) = Left(Rest(spot)) + 1
    <2>1. spot.current \in Concept \ spot.seen
      BY <1>2 DEF LeadsOn, H!Place
    <2>2. Concept \ Rest(spot).seen = (Concept \ spot.seen) \ {spot.current}
      BY DEF Rest
    <2>3. Cardinality((Concept \ spot.seen) \ {spot.current}) = Left(spot) - 1
      BY <1>1, <2>1, FS_RemoveElement
    <2>4. Left(Rest(spot)) = Left(spot) - 1
      BY <2>2, <2>3
    <2>5. Left(spot) \in Nat
      BY <1>1
    <2>6. QED
      BY <2>4, <2>5
  <1> HIDE DEF Left
  <1>3. 0 \in T
    <2> SUFFICES ASSUME NEW spot \in H!Place, Left(spot) <= 0 PROVE w[spot] = ~Good(spot)
      OBVIOUS
    <2>1. ~LeadsOn(spot)
      <3> SUFFICES ASSUME LeadsOn(spot) PROVE FALSE
        OBVIOUS
      <3>1. Left(Rest(spot)) \in Nat /\ Left(spot) \in Nat
        BY <1>1, RestIsAPlace
      <3>2. Left(spot) = Left(Rest(spot)) + 1
        BY <1>2
      <3>3. QED
        BY <3>1, <3>2
    <2>2. QED
      BY <2>1, LineageDecides
  <1>4. ASSUME NEW n \in T PROVE n + 1 \in T
    <2> SUFFICES ASSUME NEW spot \in H!Place, Left(spot) <= n + 1 PROVE w[spot] = ~Good(spot)
      OBVIOUS
    <2>1. ASSUME LeadsOn(spot) PROVE w[Rest(spot)] = ~Good(Rest(spot))
      <3>1. Rest(spot) \in H!Place
        BY <2>1, RestIsAPlace
      <3>2. Left(Rest(spot)) <= n
        <4>1. Left(Rest(spot)) \in Nat /\ Left(spot) \in Nat
          BY <1>1, <3>1
        <4>2. Left(spot) = Left(Rest(spot)) + 1
          BY <1>2, <2>1
        <4>3. QED
          BY <4>1, <4>2
      <3>3. QED
        BY <3>1, <3>2
    <2>2. Lineage(w, spot) = ~Good(spot)
      BY <2>1, LineageDecides
    <2>3. QED
      BY <2>2
  <1>5. T \subseteq Nat
    OBVIOUS
  <1> HIDE DEF T
  <1>6. T = Nat
    BY <1>3, <1>4, <1>5, AllNaturals
  <1>7. ASSUME NEW spot \in H!Place PROVE w[spot] = ~Good(spot)
    <2>1. Left(spot) \in T
      BY <1>1, <1>6
    <2>2. QED
      BY <1>1, <2>1 DEF T
  <1>8. QED
    BY <1>7

\* The chain of a concept is good by itself exactly when it is sound.
LEMMA GoodIsSound ==
  ASSUME IsFiniteSet(Concept), MaxChain \in Nat, H!ChainsTypeOK, NEW c \in Concept
  PROVE  Good([current |-> c, seen |-> {}]) <=> H!Sound(c)
  <1>1. Cardinality({}) = 0
    BY FS_EmptySet
  <1>2. /\ Cardinality(H!Ancestors(c)) \in Nat /\ Cardinality(Outside(c)) \in Nat
        /\ H!Cardinality(H!Ancestors(c)) = Cardinality(H!Ancestors(c))
        /\ H!Cardinality(Outside(c)) = Cardinality(Outside(c))
    BY Sizes, SameCardinality
  <1>3. Fits(c, 0) <=> Cardinality(H!Ancestors(c)) + Cardinality(Outside(c)) <= MaxChain
    BY <1>2 DEF Fits
  <1>4. Good([current |-> c, seen |-> {}]) <=> (\A a \in Line(c) : Links(a)) /\ Fits(c, 0)
    BY <1>1 DEF Good
  <1>5. H!Sound(c) <=> /\ \A a \in Line(c) : Links(a)
                       /\ Cardinality(H!Ancestors(c)) + Cardinality(Outside(c)) <= MaxChain
    <2>1. Outside(c) = {a \in {c} \cup H!Ancestors(c) : H!Beyond(extends[a])}
      BY DEF Outside, Line
    <2>2. QED
      BY <1>2, <2>1 DEF H!Sound, Line, Links
  <1>6. QED
    BY <1>3, <1>4, <1>5

\* lineage finds a problem exactly where a chain is not sound.
LEMMA ProblemIs ==
  ASSUME IsFiniteSet(Concept), MaxChain \in Nat, H!ChainsTypeOK, NEW c \in Concept
  PROVE  H!Problem(c) <=> ~H!Sound(c)
  <1> DEFINE IsWalk(w) == w = [spot \in H!Place |-> Lineage(w, spot)]
             start == [current |-> c, seen |-> {}]
             found1 == [spot \in H!Place |-> ~Good(spot)]
             walk == CHOOSE w : IsWalk(w)
  <1>1. IsWalk(found1)
    <2>1. ASSUME NEW spot \in H!Place PROVE Lineage(found1, spot) = ~Good(spot)
      <3>1. LeadsOn(spot) => found1[Rest(spot)] = ~Good(Rest(spot))
        BY RestIsAPlace
      <3> HIDE DEF found1
      <3>2. QED
        BY <3>1, LineageDecides
    <2>2. QED
      BY <2>1
  <1>2. IsWalk(walk)
    <2> HIDE DEF IsWalk
    <2>1. QED
      BY <1>1
  <1>3. H!Problem(c) = walk[start]
    BY DEF H!Problem, Lineage, H!Onward
  <1> HIDE DEF walk
  <1>4. \A spot \in H!Place : walk[spot] = Lineage(walk, spot)
    BY <1>2
  <1>5. start \in H!Place
    BY DEF H!Place
  <1>6. walk[start] = ~Good(start)
    <2> HIDE DEF start
    <2>1. QED
      BY <1>4, <1>5, LineageEnds
  <1>7. Good(start) <=> H!Sound(c)
    BY GoodIsSound
  <1>8. Good(start) \in BOOLEAN /\ H!Sound(c) \in BOOLEAN
    BY DEF Good, H!Sound
  <1>9. QED
    BY <1>3, <1>6, <1>7, <1>8

\* Every concept is judged for what its chain is: "extends" is found exactly
\* where its own chain is broken, "values" where that of its values-of is.
JudgedAsIs(c) ==
    /\ <<c, "extends">> \in findings <=> ~H!Sound(c)
    /\ <<c, "values">> \in findings <=>
          /\ c \in Taking /\ values[c].form # "none"
          /\ ~(H!Beyond(values[c]) \/ (H!Here(values[c]) /\ H!Sound(values[c].id)))

\* One concept after the other, and nothing is found of those to come.
ChainsInv ==
    /\ H!ChainsTypeOK
    /\ \A c \in 1 .. judged - 1 : JudgedAsIs(c)
    /\ \A finding \in findings : finding[1] \in 0 .. judged - 1

\* Every concept of a file, and every values-of, is found wrong exactly when its
\* chain comes back to itself, breaks or is too long, whichever concepts were
\* judged before, for files and limits of every size (chains.go:10-15).
THEOREM ChainsJudged == H!Spec => []H!ChainsAreJudged
  <1> USE ChainsAssumption
  <1>1. H!Init => ChainsInv
    BY DEF H!Init, ChainsInv, H!ChainsTypeOK
  <1>2. ChainsInv /\ [H!Next]_(H!chainsVars) => ChainsInv'
    <2> SUFFICES ASSUME ChainsInv, [H!Next]_(H!chainsVars) PROVE ChainsInv'
      OBVIOUS
    <2>1. CASE UNCHANGED H!chainsVars
      <3>1. UNCHANGED <<extends, values, named, judged, findings>>
        BY <2>1 DEF H!chainsVars
      <3>2. ChainsInv' <=> ChainsInv
        BY <3>1 DEF ChainsInv, H!ChainsTypeOK, JudgedAsIs, H!Sound, H!Ancestors, H!Extended, H!Here, H!Beyond
      <3>3. QED
        BY <3>2
    <2>2. CASE H!Judge
      <3>1. /\ judged \in Concept /\ judged \in Nat /\ judged' = judged + 1
            /\ UNCHANGED <<extends, values, named>>
        BY <2>2 DEF H!Judge, ChainsInv, H!ChainsTypeOK
      <3>2. \A finding \in findings : finding[1] \in 0 .. judged - 1
        BY DEF ChainsInv
      <3>3. <<judged, "extends">> \notin findings /\ <<judged, "values">> \notin findings
        BY <3>1, <3>2
      <3>4. H!Problem(judged) <=> ~H!Sound(judged)
        BY <3>1, ProblemIs DEF ChainsInv
      <3> DEFINE wrong ==
            /\ judged \in Taking /\ values[judged].form # "none"
            /\ ~(H!Beyond(values[judged]) \/ (H!Here(values[judged]) /\ H!Sound(values[judged].id)))
      <3>5. (/\ judged \in Taking /\ values[judged].form # "none"
             /\ \/ H!Resolve(values[judged]) = "error"
                \/ H!Resolve(values[judged]) = "concept" /\ H!Problem(values[judged].id)) <=> wrong
        <4>1. H!Here(values[judged]) => (H!Problem(values[judged].id) <=> ~H!Sound(values[judged].id))
          <5>1. H!Here(values[judged]) => values[judged].id \in Concept
            BY DEF H!Here
          <5>2. QED
            BY <5>1, ProblemIs DEF ChainsInv
        <4>2. /\ H!Resolve(values[judged]) = "concept" <=> H!Here(values[judged])
              /\ H!Resolve(values[judged]) = "error" <=> ~H!Beyond(values[judged]) /\ ~H!Here(values[judged])
              /\ ~(H!Beyond(values[judged]) /\ H!Here(values[judged]))
          BY OneReference
        <4>3. QED
          BY <4>1, <4>2
      <3>6. findings' = findings \cup (IF ~H!Sound(judged) THEN {<<judged, "extends">>} ELSE {})
                                 \cup (IF wrong THEN {<<judged, "values">>} ELSE {})
        BY <2>2, <3>4, <3>5 DEF H!Judge
      <3>7. ASSUME NEW c PROVE JudgedAsIs(c)' <=>
              /\ <<c, "extends">> \in findings' <=> ~H!Sound(c)
              /\ <<c, "values">> \in findings' <=>
                    /\ c \in Taking /\ values[c].form # "none"
                    /\ ~(H!Beyond(values[c]) \/ (H!Here(values[c]) /\ H!Sound(values[c].id)))
        <4>1. (\A d : H!Sound(d)' <=> H!Sound(d)) /\ (\A r : H!Here(r)' <=> H!Here(r)) /\ (\A r : H!Beyond(r)' <=> H!Beyond(r))
          BY <3>1 DEF H!Sound, H!Ancestors, H!Extended, H!Here, H!Beyond
        <4>2. QED
          BY <3>1, <4>1 DEF JudgedAsIs
      <3>8. ASSUME NEW c \in 1 .. judged' - 1 PROVE JudgedAsIs(c)'
        <4>1. CASE c = judged
          <5>1. <<judged, "extends">> \in findings' <=> ~H!Sound(judged)
            BY <3>3, <3>6
          <5>2. <<judged, "values">> \in findings' <=> wrong
            BY <3>3, <3>6
          <5>3. QED
            BY <3>7, <4>1, <5>1, <5>2
        <4>2. CASE c # judged
          <5>1. c \in 1 .. judged - 1
            BY <3>1, <4>2
          <5>2. JudgedAsIs(c)
            BY <5>1 DEF ChainsInv
          <5>3. /\ <<c, "extends">> \in findings' <=> <<c, "extends">> \in findings
                /\ <<c, "values">> \in findings' <=> <<c, "values">> \in findings
            BY <3>6, <4>2
          <5>4. QED
            BY <3>7, <5>2, <5>3 DEF JudgedAsIs
        <4>3. QED
          BY <4>1, <4>2
      <3>9. \A finding \in findings' : finding[1] \in 0 .. judged' - 1
        BY <3>1, <3>2, <3>6
      <3>10. H!ChainsTypeOK'
        BY <3>1, <3>6 DEF ChainsInv, H!ChainsTypeOK, H!Reference
      <3>11. QED
        BY <3>8, <3>9, <3>10 DEF ChainsInv
    <2>3. QED
      BY <2>1, <2>2 DEF H!Next
  <1>3. ChainsInv => H!ChainsAreJudged
    BY DEF ChainsInv, JudgedAsIs, H!ChainsAreJudged
  <1>4. QED
    BY <1>1, <1>2, <1>3, PTL DEF H!Spec

LEMMA ScreensTypesHold == Spec => []ScreensTypeOK
  BY ScreensTypesStart, ScreensTypesStep, TypedIsOK, PTL DEF Spec

LEMMA SkillsTypesHold == S!Spec => []S!SkillsTypeOK
  <1>1. SkillsInv => S!SkillsTypeOK
    BY Zenon DEF SkillsInv
  <1>2. S!Init => FoldersAgreed
    BY DEF S!Init, S!Nothing, FoldersAgreed
  <1>3. SkillsInv /\ FoldersAgreed /\ [S!Next]_(S!vars) => SkillsInv' /\ FoldersAgreed'
    BY SkillsStep
  <1>4. QED
    BY <1>1, <1>2, <1>3, SkillsInit, PTL DEF S!Spec

LEMMA DataTypesHold == R!Spec => []R!DataTypeOK
  <1>1. DataInv => R!DataTypeOK
    BY DataTells
  <1>2. QED
    BY <1>1, DataInvHolds, PTL

LEMMA ServeTypesHold == V!Spec => []V!ServeTypeOK
  <1>1. V!ServeInv => V!ServeTypeOK
    BY DEF V!ServeInv
  <1>2. QED
    BY <1>1, ServeInvInit, ServeInvStep, PTL DEF V!Spec

\* The lists of MCConsole are among those the check is proved for.
LEMMA ListingsAreAny == K!Spec => CheckSpec
  <1>1. Listings \subseteq AnyListing
    <2>1. /\ <<"plain">> \in Seq(K!Kinds) /\ <<"plain", "attached">> \in Seq(K!Kinds)
          /\ <<"plain", "descriptor">> \in Seq(K!Kinds) /\ <<"misfit", "attached">> \in Seq(K!Kinds)
          /\ <<"plain", "plain", "plain">> \in Seq(K!Kinds) /\ <<"invalid">> \in Seq(K!Kinds)
      BY DEF K!Kinds
    <2> SUFFICES ASSUME NEW entry \in Listings PROVE entry \in AnyListing
      OBVIOUS
    <2>2. CASE \E list \in {<<"plain">>, <<"plain", "attached">>, <<"plain", "descriptor">>,
                           <<"misfit", "attached">>, <<"plain", "plain", "plain">>} :
                 entry = [sound |-> TRUE, entries |-> list]
      <3> PICK list \in Seq(K!Kinds) : entry = [sound |-> TRUE, entries |-> list]
        BY <2>1, <2>2
      <3>1. QED
        BY DEF AnyListing
    <2>3. CASE entry = [sound |-> FALSE, entries |-> <<"invalid">>]
      BY <2>1, <2>3 DEF AnyListing
    <2>4. QED
      BY <2>2, <2>3 DEF Listings
  <1>2. K!Init => AK!Init
    <2>1. K!Init => tree \in [K!View -> [Commit -> AnyListing]]
      <3> SUFFICES ASSUME K!Init PROVE tree \in [K!View -> [Commit -> AnyListing]]
        OBVIOUS
      <3>1. tree \in [K!View -> [Commit -> Listings]]
        BY DEF K!Init
      <3>2. QED
        BY <1>1, <3>1
    <2>2. QED
      BY <2>1 DEF K!Init, AK!Init, AK!View, K!View
  <1>3. QED
    BY <1>2, PTL DEF K!Spec, CheckSpec

LEMMA CheckTypesHold == K!Spec => []K!CheckTypeOK
  <1> DEFINE TreeStays == tree \in [K!View -> [Commit -> Listings]]
  <1>1. K!Init => TreeStays
    BY DEF K!Init
  <1>2. ASSUME TreeStays, [K!Next]_(K!checkVars)
        PROVE  TreeStays'
    <2>1. tree' = tree
      <3>1. CASE K!MoveHead \/ K!FailsEarly \/ K!ReadHead \/ K!ReadListing \/ K!Classify
        BY <3>1 DEF K!MoveHead, K!FailsEarly, K!ReadHead, K!ReadListing, K!Classify
      <3>2. CASE K!EntryFails \/ K!Discover \/ K!DiscoverEnds \/ K!Judge \/ K!Rights
        BY <3>2 DEF K!EntryFails, K!Discover, K!DiscoverEnds, K!Judge, K!Rights
      <3>3. CASE K!Metadata \/ K!SourceData \/ K!RunEnds \/ K!JudgeDescriptor \/ K!Verdict
        BY <3>3 DEF K!Metadata, K!SourceData, K!RunEnds, K!JudgeDescriptor, K!Verdict
      <3>4. CASE UNCHANGED K!checkVars
        BY <3>4 DEF K!checkVars
      <3>5. QED
        BY <1>2, <3>1, <3>2, <3>3, <3>4 DEF K!Next
    <2>2. QED
      BY <1>2, <2>1
  <1>3. CheckInv /\ TreeStays => K!CheckTypeOK
    BY DEF CheckInv, CheckTypes, RepositoryTypes, PassTypes, AnswerTypes, Judging, K!CheckTypeOK
  <1> HIDE DEF TreeStays
  <1>4. QED
    BY <1>1, <1>2, <1>3, CheckInvHolds, ListingsAreAny, PTL DEF K!Spec

LEMMA ClientTypesHold == L!Spec => []L!ClientTypeOK
  <1>1. ClientInv => L!ClientTypeOK
    <2> SUFFICES ASSUME ClientInv PROVE L!ClientTypeOK
      OBVIOUS
    <2>1. ClientTypes
      BY DEF ClientInv
    <2>2. \A c \in Terminal : \A i \in DOMAIN applied[c] : applied[c][i] \in L!Site
      <3> TAKE c \in Terminal
      <3>1. applied[c] \in Seq(L!Site)
        BY <2>1 DEF ClientTypes
      <3>2. QED
        BY <3>1
    <2>3. QED
      BY <2>1, <2>2 DEF ClientTypes, L!ClientTypeOK
  <1>2. QED
    BY <1>1, ClientInvHolds, PTL

LEMMA RightsTypesHold == G!Spec => []G!RightsTypeOK
  <1>1. RightsInv => G!RightsTypeOK
    BY RightsProvedAndTyped
  <1>2. QED
    BY <1>1, RightsInvHolds, PTL

LEMMA NamesTypesHold == N!Spec => []N!PunycodeTypeOK
  <1>1. N!Init => N!PunycodeTypeOK
    BY NamesAssumption DEF N!Init, N!PunycodeTypeOK
  <1>2. ASSUME N!PunycodeTypeOK, [N!Next]_text
        PROVE  N!PunycodeTypeOK'
    <2>1. CASE UNCHANGED text
      BY <1>2, <2>1 DEF N!PunycodeTypeOK
    <2>2. CASE N!Write
      <3> PICK c \in Letter : text' = Append(text, c) /\ Len(text) < MaxLetters
        BY <2>2 DEF N!Write
      <3>1. text \in Seq(Letter) /\ Len(text) \in Nat
        BY <1>2 DEF N!PunycodeTypeOK
      <3>2. text' \in Seq(Letter) /\ Len(text') = Len(text) + 1
        BY <3>1
      <3>3. QED
        BY <3>1, <3>2, NamesAssumption DEF N!PunycodeTypeOK
    <2>3. QED
      BY <1>2, <2>1, <2>2 DEF N!Next
  <1>3. QED
    BY <1>1, <1>2, PTL DEF N!Spec

LEMMA ChainsTypesHold == H!Spec => []H!ChainsTypeOK
  <1>1. H!Init => H!ChainsTypeOK
    BY DEF H!Init, H!ChainsTypeOK
  <1>2. ASSUME H!ChainsTypeOK, [H!Next]_(H!chainsVars)
        PROVE  H!ChainsTypeOK'
    <2>1. CASE UNCHANGED H!chainsVars
      BY <1>2, <2>1 DEF H!chainsVars, H!ChainsTypeOK
    <2>2. CASE H!Judge
      <3>1. <<judged, "extends">> \in Concept \X {"extends", "values"} /\ <<judged, "values">> \in Concept \X {"extends", "values"}
        BY <2>2 DEF H!Judge
      <3>2. findings' \subseteq findings \cup {<<judged, "extends">>, <<judged, "values">>}
        BY <2>2 DEF H!Judge
      <3>3. findings' \subseteq Concept \X {"extends", "values"}
        BY <1>2, <3>1, <3>2, Zenon DEF H!ChainsTypeOK
      <3>4. QED
        BY <1>2, <2>2, <3>3 DEF H!Judge, H!ChainsTypeOK
    <2>3. QED
      BY <1>2, <2>1, <2>2 DEF H!Next
  <1>3. QED
    BY <1>1, <1>2, PTL DEF H!Spec

-----------------------------------------------------------------------------
(* The parts of MCConsole are runs of their modules *)

LEMMA ConsoleRunsData == ConsoleSpec => R!Spec
  <1>1. ConsoleInit => R!Init
    BY Zenon DEF ConsoleInit
  <1>2. ASSUME [ConsoleNext]_<<installVars, commandVars, publisherVars, part>>
        PROVE  [R!Next]_(R!vars)
    BY <1>2 DEF ConsoleNext, commandVars, dataVars, R!vars
  <1>3. QED
    BY <1>1, <1>2, PTL DEF ConsoleSpec, R!Spec

LEMMA ConsoleRunsClient == ConsoleSpec => L!Spec
  <1>1. ConsoleInit => L!Init
    BY Zenon DEF ConsoleInit
  <1>2. ASSUME [ConsoleNext]_<<installVars, commandVars, publisherVars, part>>
        PROVE  [L!Next]_(L!clientVars)
    BY <1>2 DEF ConsoleNext, commandVars, clientVars, L!clientVars
  <1>3. QED
    BY <1>1, <1>2, PTL DEF ConsoleSpec, L!Spec

LEMMA ConsoleRunsCheck == ConsoleSpec => K!Spec
  <1>1. ConsoleInit => K!Init
    BY Zenon DEF ConsoleInit
  <1>2. ASSUME [ConsoleNext]_<<installVars, commandVars, publisherVars, part>>
        PROVE  [K!Next]_(K!checkVars)
    BY <1>2 DEF ConsoleNext, publisherVars, checkVars, K!checkVars
  <1>3. QED
    BY <1>1, <1>2, PTL DEF ConsoleSpec, K!Spec

LEMMA ConsoleRunsRights == ConsoleSpec => G!Spec
  <1>1. ConsoleInit => G!Init
    BY Zenon DEF ConsoleInit
  <1>2. ASSUME [ConsoleNext]_<<installVars, commandVars, publisherVars, part>>
        PROVE  [G!Next]_(G!rightsVars)
    BY <1>2 DEF ConsoleNext, publisherVars, rightsVars, G!rightsVars
  <1>3. QED
    BY <1>1, <1>2, PTL DEF ConsoleSpec, G!Spec

LEMMA ConsoleRunsNames == ConsoleSpec => N!Spec
  <1>1. ConsoleInit => N!Init
    BY Zenon DEF ConsoleInit
  <1>2. ASSUME [ConsoleNext]_<<installVars, commandVars, publisherVars, part>>
        PROVE  [N!Next]_text
    BY <1>2 DEF ConsoleNext, publisherVars
  <1>3. QED
    BY <1>1, <1>2, PTL DEF ConsoleSpec, N!Spec

LEMMA ConsoleRunsChains == ConsoleSpec => H!Spec
  <1>1. ConsoleInit => H!Init
    BY Zenon DEF ConsoleInit
  <1>2. ASSUME [ConsoleNext]_<<installVars, commandVars, publisherVars, part>>
        PROVE  [H!Next]_(H!chainsVars)
    BY <1>2 DEF ConsoleNext, publisherVars, chainsVars, H!chainsVars
  <1>3. QED
    BY <1>1, <1>2, PTL DEF ConsoleSpec, H!Spec

\* What a data command says happened did happen; a repository found in order is
\* in order, its rights are proved and no chain of its concepts is broken; and a
\* command talks to this home's server or says that it did not, when it is beside
\* no other and no server comes up between a stop's look and its stop.  DataIsTold
\* but for the written forms of places and of host names, which are folds over
\* texts (data.go:268-279, 524-540, check.go:89-150, manifest.go:66,
\* verify.go:27-28, chains.go:10-15, client.go:92-112, 388-420, 432-458).
THEOREM CommandsTell ==
  ASSUME OneTerminal
  PROVE  ConsoleSpec => [](part \in {"paths", "names"} \/ DataIsTold)
  <1>1. R!DataIsTold /\ K!CheckIsSound /\ L!ClientKeepsToItsServer /\ G!RightsAreProved
     /\ H!ChainsAreJudged
     => part \in {"paths", "names"} \/ DataIsTold
    BY DEF DataIsTold
  <1>2. ConsoleSpec => []K!CheckIsSound
    BY CheckSound, ListingsAreAny, ConsoleRunsCheck, PTL
  <1>3. QED
    BY <1>1, <1>2, DataToldTruly, ClientKeeps, RightsProved, ConsoleRunsData, ConsoleRunsClient,
       ConsoleRunsRights, ChainsJudged, ConsoleRunsChains, PTL

\* Every variable keeps its type and every bound holds, over all orders of keys,
\* answers, crashes and calls, whichever part moves, when no two commands change a
\* store of the cloud at once; that the segments of a place are decoded texts is
\* recursion over data.
THEOREM ConsoleTyped ==
  ASSUME ~Overlap
  PROVE  ConsoleSpec => [](part = "paths" \/ ConsoleTypeOK)
  <1> DEFINE Part == part \in {"screens", "skills", "demo", "data", "paths", "serve", "cloud", "check",
                               "client", "rights", "names", "chains"}
             Typed1 == ScreensTypeOK /\ S!SkillsTypeOK /\ D!DemoTypeOK /\ R!DataTypeOK
             Typed2 == V!ServeTypeOK /\ C!CloudTypeOK /\ K!CheckTypeOK
             Typed3 == L!ClientTypeOK /\ G!RightsTypeOK /\ N!PunycodeTypeOK /\ H!ChainsTypeOK
  <1>1. ConsoleInit => Part
    BY Zenon DEF ConsoleInit
  <1>2. Part /\ [ConsoleNext]_<<installVars, commandVars, publisherVars, part>> => Part'
    BY DEF ConsoleNext
  <1>3. Part /\ Typed1 /\ Typed2 /\ Typed3 => part = "paths" \/ ConsoleTypeOK
    BY DEF ConsoleTypeOK
  <1>4. ConsoleSpec => []Typed1
    BY ScreensTypesHold, SkillsTypesHold, DemoTypes, DataTypesHold, ConsoleRunsScreens, ConsoleRunsSkills,
       ConsoleRunsDemo, ConsoleRunsData, PTL
  <1>5. ConsoleSpec => []Typed2
    BY ServeTypesHold, CloudTypesHold, CheckTypesHold, ConsoleRunsServe, ConsoleRunsCloud, ConsoleRunsCheck, PTL
  <1>6. ConsoleSpec => []Typed3
    BY ClientTypesHold, RightsTypesHold, NamesTypesHold, ChainsTypesHold, ConsoleRunsClient, ConsoleRunsRights,
       ConsoleRunsNames, ConsoleRunsChains, PTL
  <1> HIDE DEF Part, Typed1, Typed2, Typed3
  <1>7. QED
    BY <1>1, <1>2, <1>3, <1>4, <1>5, <1>6, PTL DEF ConsoleSpec
=============================================================================
