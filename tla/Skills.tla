------------------------------- MODULE Skills -------------------------------
(***************************************************************************)
(* Installing an AI agent skill (internal/setup/skills/skills.go): what the  *)
(* interfaces show of it, the consent step, the request, and the server that *)
(* installs it into each agent's skills folder, one after the other.         *)
(*                                                                         *)
(* Between what a person was shown and each write, people edit the folders,  *)
(* other installs run and agents come and go; a server may die while the     *)
(* library writes.  github.com/strongo/cli-helpers/skillsync is external:    *)
(* what it does to one folder, under its lock.                               *)
(***************************************************************************)
EXTENDS Naturals, FiniteSets

CONSTANTS
    Harness,    \* AI agents, by the skills folder each has
    First,      \* the agent installed for when none is found: Claude Code
    Folder,     \* folders a person may name with --dir
    Inside,     \* those of Folder inside the home
    Client,     \* of "cli", "tui", "web"; "old": a console from before adoption;
                \* "cli22", "web22": a command and a console of v0.22.0 to v0.28.x
    None,
    Late,       \* whether copies are found to be edited while one is being offered
    Together,   \* bound: which clients are busy at the same time
    MaxChanges  \* bound on what people do to the folders

Place == Harness \cup Folder
Copy == {"none", "old", "current", "edited", "same", "other"}
State == {"not_installed", "installed", "update_available", "changed", "not_ovdb",
          "adoptable", "recovery_pending", "record_unusable"}
InstallRequest == [targets : SUBSET Place, replace : BOOLEAN, adopt : SUBSET Place, all : BOOLEAN]
Consents == [targets : SUBSET Place, replace : SUBSET Place, adopt : SUBSET Place]

Commands == {"cli", "cli22"}
Sessions == {"web", "web22", "old"}
Whole == {"cli22", "web22"}   \* ask for every target or for none

VARIABLES
    copy,      \* by place: the folder of the skill's name; same: this skill, and not OVDB's
    journal,   \* places with an interrupted install
    unusable,  \* places whose record cannot be used
    detected,  \* agents on this computer
    changes,
    pc,        \* by client
    shown,     \* by client: the states it showed
    request,   \* by client: what it sends the server
    agreed,    \* by client: what the person said yes to
    left,      \* by client: targets the server has not come to
    at,        \* by client: the target being installed
    did        \* what the last step did to a folder, and for whom

disk == <<copy, journal, unusable, detected, changes>>
vars == <<disk, pc, shown, request, agreed, left, at, did>>

Nothing == [what |-> "nothing", place |-> None, client |-> None]
NoRequest == [targets |-> {}, replace |-> FALSE, adopt |-> {}, all |-> FALSE]
NoConsents == [targets |-> {}, replace |-> {}, adopt |-> {}]

SkillsTypeOK ==
    /\ copy \in [Place -> Copy] /\ journal \subseteq Place /\ unusable \subseteq Place
    /\ detected \subseteq Harness /\ changes \in 0 .. MaxChanges
    /\ pc \in [Client -> {"idle", "asking", "sent", "installing", "removing"}]
    /\ shown \in [Client -> [Place -> State] \cup {None}]
    /\ request \in [Client -> InstallRequest] /\ agreed \in [Client -> Consents]
    /\ left \in [Client -> SUBSET Place] /\ at \in [Client -> Place \cup {None}]

Init ==
    /\ copy \in [Place -> {"none", "old", "edited", "same"}]
    /\ \A f \in Folder : copy[f] = "none"
    /\ journal = {} /\ unusable = {} /\ detected \in SUBSET Harness /\ changes = 0
    /\ pc = [c \in Client |-> "idle"] /\ shown = [c \in Client |-> None]
    /\ request = [c \in Client |-> NoRequest] /\ agreed = [c \in Client |-> NoConsents]
    /\ left = [c \in Client |-> {}] /\ at = [c \in Client |-> None]
    /\ did = Nothing

-----------------------------------------------------------------------------
(* What interfaces show *)

\* stateFor: from what skillsync would do without adopting.
StateFor(c) ==
    CASE c = "old" -> "update_available" [] c = "current" -> "installed"
      [] c = "edited" -> "changed" [] c = "same" -> "adoptable"
      [] c = "other" -> "not_ovdb" [] c = "none" -> "not_installed"

\* inspect: no folder is not installed whatever else is there; what is on
\* disk decides what a failed dry run means.
Inspect(p) ==
    CASE copy[p] = "none" -> "not_installed"
      [] copy[p] # "none" /\ p \in journal -> "recovery_pending"
      [] copy[p] # "none" /\ p \in unusable \ journal -> "record_unusable"
      [] OTHER -> StateFor(copy[p])

\* WithoutAdoptable, WithoutRecoveryPending: what a client that does not know
\* these states is told.
Told(c, state) ==
    IF \/ c = "old" /\ state = "adoptable"
       \/ c \in Whole \cup {"old"} /\ state \in {"recovery_pending", "record_unusable"}
    THEN "not_ovdb" ELSE state

\* Resolve: the agents a request names, or every one found, or the first.
Resolve(harnesses, dirs) ==
    IF harnesses \cup dirs # {} THEN harnesses \cup dirs
    ELSE IF detected # {} THEN detected ELSE {First}

\* CheckUnderHome: a folder inside the home by its real path.
CheckUnderHome(p) == p \in Inside

\* CheckTarget: an agent's own layout, or a folder of --dir.
CheckTarget(p) == p \in Harness \/ CheckUnderHome(p)

\* setInspected: the states of a copy that counts as installed.
Installed(p) == Inspect(p) \in {"installed", "update_available", "changed"}

\* Targets: agents found or installed for, and the one always listed.
Listed == {h \in Harness : h \in detected \/ Installed(h) \/ h = First}

\* selectable: found agents whose folder OVDB installed or can take over.
Selectable(c) == {h \in detected : shown[c][h] \notin {"not_ovdb", "record_unusable"}}

\* Mutant: a copy that was already there is ticked for the person.
PreselectedToo(c) == {h \in Selectable(c) : shown[c][h] # "changed"}

\* openConsent, offer: a copy the person edited and one that was already
\* there wait for their tick.
Preselected(c) == {h \in Selectable(c) : shown[c][h] \notin {"changed", "adoptable"}}

\* The places whose shown state is this.
ShownAs(c, state) == {p \in Place : shown[c][p] = state}

\* The states of these places, as an interface shows them.
ShownOf(c, places) ==
    [p \in Place |-> IF p \in places THEN Told(c, Inspect(p)) ELSE "not_installed"]

Shows(c) == shown' = [shown EXCEPT ![c] = ShownOf(c, Listed)]

\* adopt_dirs and adopt_harnesses name the folders to take over; the older
\* field adopt is for every target.
Asks(c, targets, replace, adopt) ==
    [targets |-> targets, replace |-> replace,
     adopt |-> IF c \in Whole THEN {} ELSE adopt, all |-> c \in Whole /\ adopt # {}]

Sends(c, targets, replace, adopt, consents) ==
    /\ pc' = [pc EXCEPT ![c] = "sent"]
    /\ request' = [request EXCEPT ![c] = Asks(c, targets, replace, adopt)]
    /\ agreed' = [agreed EXCEPT ![c] = consents]

\* Nothing is under way that is not modelled together with c.
Alone(c) == \E group \in Together : {c} \cup {d \in Client : pc[d] # "idle"} \subseteq group

NoInstall == UNCHANGED <<disk, left, at>> /\ did' = Nothing

-----------------------------------------------------------------------------
(* The command: ovdb skills install *)

\* describeRequest: folders of a plan that are this skill, and not OVDB's.
Adoptable(targets) == {p \in targets : Inspect(p) = "adoptable"}

\* skillsInstallCmd: agents or one folder, never both.
Flags(harnesses, dirs) ==
    \/ dirs = {}
    \/ harnesses = {} /\ Cardinality(dirs) = 1

\* PlanSkill: what is shown and what the request names are one list, so an
\* agent found later and a folder that becomes adoptable later are not in it.
Plan(c) ==
    /\ c \in Commands /\ pc[c] = "idle" /\ Alone(c)
    /\ \E harnesses \in SUBSET Harness, dirs \in SUBSET Folder, replace \in BOOLEAN :
          /\ Flags(harnesses, dirs)
          /\ LET targets == Resolve(harnesses, dirs) IN
             /\ \A p \in targets : CheckTarget(p)
             /\ shown' = [shown EXCEPT ![c] = ShownOf(c, targets)]
             /\ request' = [request EXCEPT ![c] =
                  [targets |-> targets, replace |-> replace, adopt |-> Adoptable(targets), all |-> FALSE]]
    /\ pc' = [pc EXCEPT ![c] = "asking"]
    /\ UNCHANGED agreed /\ NoInstall

\* confirmSkill, or --yes: with an edited copy among the targets, a second
\* yes replaces it.
Confirm(c) ==
    /\ c \in Commands /\ pc[c] = "asking"
    /\ LET r == request[c]
           changed == r.targets \cap ShownAs(c, "changed") IN
       \E replaceToo \in BOOLEAN :
          /\ replaceToo => changed # {} /\ ~r.replace
          /\ Sends(c, r.targets, r.replace \/ replaceToo, r.adopt,
                   [targets |-> r.targets, adopt |-> r.targets \cap ShownAs(c, "adoptable"),
                    replace |-> IF r.replace THEN r.targets ELSE IF replaceToo THEN changed ELSE {}])
    /\ UNCHANGED shown /\ NoInstall

-----------------------------------------------------------------------------
(* The consent step of the terminal interface and the console *)

Offer(c) ==
    /\ c \notin Commands /\ pc[c] = "idle" /\ Alone(c)
    /\ Shows(c)
    /\ pc' = [pc EXCEPT ![c] = "asking"]
    /\ UNCHANGED <<request, agreed>> /\ NoInstall

\* Not now, or no to the question.
NotNow(c) ==
    /\ pc[c] = "asking"
    /\ pc' = [pc EXCEPT ![c] = "idle"]
    /\ shown' = [shown EXCEPT ![c] = None] /\ request' = [request EXCEPT ![c] = NoRequest]
    /\ UNCHANGED agreed /\ NoInstall

\* chosen: the person ticks and unticks.
Chosen(c, toggled) == (Preselected(c) \ toggled) \cup (toggled \ Preselected(c))

\* installSkillCmd: only what they ticked themselves is replaced or taken over.
InstallTicked(c) ==
    /\ c \notin Commands /\ pc[c] = "asking"
    /\ \E toggled \in SUBSET Selectable(c) :
          LET ticked == Chosen(c, toggled)
              adopt == ticked \cap ShownAs(c, "adoptable")
              replace == ticked \cap ShownAs(c, "changed") IN
          /\ ticked # {}
          /\ Sends(c, ticked, replace # {}, adopt,
                   [targets |-> ticked, replace |-> replace \cap toggled, adopt |-> adopt \cap toggled])
    /\ UNCHANGED shown /\ NoInstall

-----------------------------------------------------------------------------
(* The server *)

Ends(c) ==
    /\ pc' = [pc EXCEPT ![c] = "idle"] /\ agreed' = [agreed EXCEPT ![c] = NoConsents]
    /\ shown' = [shown EXCEPT ![c] = None] /\ request' = [request EXCEPT ![c] = NoRequest]
    /\ left' = [left EXCEPT ![c] = {}] /\ at' = [at EXCEPT ![c] = None]

\* installSkill: a console session names agents that are found now.
Permitted(c) ==
    \A p \in request[c].targets : IF c \in Sessions THEN p \in detected ELSE CheckTarget(p)

\* The folders of commands and of the terminal interface are checked again.
Receive(c) ==
    /\ pc[c] = "sent"
    /\ IF Permitted(c)
       THEN /\ pc' = [pc EXCEPT ![c] = "installing"]
            /\ left' = [left EXCEPT ![c] = request[c].targets]
            /\ UNCHANGED <<shown, request, agreed, at>>
       ELSE Ends(c)
    /\ did' = Nothing
    /\ UNCHANGED disk

\* Install, for the next target: the look at it.
Begin(c) ==
    /\ pc[c] = "installing" /\ at[c] = None
    /\ \E p \in left[c] :
          /\ at' = [at EXCEPT ![c] = p]
          /\ left' = [left EXCEPT ![c] = @ \ {p}]
          /\ pc' = [pc EXCEPT ![c] =
               IF request[c].replace /\ Inspect(p) = "changed" THEN "removing" ELSE @]
    /\ did' = Nothing
    /\ UNCHANGED <<disk, shown, request, agreed>>

\* An edited copy is removed when the request replaces them, whatever is there
\* by then; when that fails, no other target is attempted.
Removes(c) ==
    /\ pc[c] = "removing"
    /\ \/ /\ copy' = [copy EXCEPT ![at[c]] = "none"]
          /\ did' = [what |-> "replaced", place |-> at[c], client |-> c]
          /\ pc' = [pc EXCEPT ![c] = "installing"]
          /\ UNCHANGED <<shown, request, agreed, left, at>>
       \/ Ends(c) /\ did' = Nothing /\ UNCHANGED copy
    /\ UNCHANGED <<journal, unusable, detected, changes>>

\* Mutant: one yes covers every folder, whoever asks.
CoversAll(r, p) == r.all \/ r.adopt # {}

\* covers: whether the person agreed to have this folder taken over.
Covers(r, p) == r.all \/ p \in r.adopt

Adopts(c) == copy[at[c]] = "same" /\ Covers(request[c], at[c])
Writes(c) == copy[at[c]] \in {"none", "old"} \/ Adopts(c)

\* syncSkills: recovers, then adds, updates, takes over or refuses; nothing
\* is written when it fails.
Sync(c) ==
    /\ pc[c] = "installing" /\ at[c] # None
    /\ LET p == at[c] IN
       \/ /\ p \notin unusable
          /\ journal' = journal \ {p}
          /\ copy' = [copy EXCEPT ![p] = IF Writes(c) THEN "current" ELSE @]
          /\ did' = IF Writes(c) THEN [what |-> IF Adopts(c) THEN "adopted" ELSE "wrote", place |-> p, client |-> c]
                    ELSE Nothing
       \/ did' = Nothing /\ UNCHANGED <<copy, journal>>
    /\ at' = [at EXCEPT ![c] = None]
    /\ UNCHANGED <<unusable, detected, changes, pc, shown, request, agreed, left>>

\* Install, at its end.
Answer(c) ==
    /\ pc[c] = "installing" /\ at[c] = None /\ left[c] = {}
    /\ Ends(c) /\ did' = Nothing
    /\ UNCHANGED disk

\* The server dies while skillsync writes; its requests end with it.
Die ==
    /\ \E c \in Client : pc[c] = "installing" /\ at[c] # None /\ Writes(c)
                         /\ journal' = journal \cup {at[c]}
    /\ LET busy == {c \in Client : pc[c] \in {"sent", "installing", "removing"}} IN
       /\ pc' = [c \in Client |-> IF c \in busy THEN "idle" ELSE pc[c]]
       /\ shown' = [c \in Client |-> IF c \in busy THEN None ELSE shown[c]]
       /\ request' = [c \in Client |-> IF c \in busy THEN NoRequest ELSE request[c]]
       /\ agreed' = [c \in Client |-> IF c \in busy THEN NoConsents ELSE agreed[c]]
    /\ left' = [c \in Client |-> {}] /\ at' = [c \in Client |-> None]
    /\ did' = Nothing
    /\ UNCHANGED <<copy, unusable, detected, changes>>

-----------------------------------------------------------------------------
(* People, other tools and other agents, in the folders of agents *)

ChangeFolder(p) ==
    /\ changes < MaxChanges /\ changes' = changes + 1
    /\ \/ /\ copy[p] \in {"old", "current"} /\ copy' = [copy EXCEPT ![p] = "edited"]
          /\ Late \/ \A c \in Client : pc[c] = "idle"
          /\ UNCHANGED <<journal, unusable, detected>>
       \/ /\ copy[p] = "none"
          /\ \E put \in {"same", "other"} : copy' = [copy EXCEPT ![p] = put]
          /\ UNCHANGED <<journal, unusable, detected>>
       \/ /\ p \in unusable \cup journal
          /\ Late \/ copy[p] # "edited" \/ \A c \in Client : pc[c] = "idle"
          /\ unusable' = unusable \ {p} /\ journal' = journal \ {p}
          /\ UNCHANGED <<copy, detected>>
       \/ /\ p \notin unusable /\ copy[p] # "none"
          /\ unusable' = unusable \cup {p}
          /\ UNCHANGED <<copy, journal, detected>>
       \/ /\ detected' = IF p \in detected THEN detected \ {p} ELSE detected \cup {p}
          /\ UNCHANGED <<copy, journal, unusable>>
    /\ did' = Nothing
    /\ UNCHANGED <<pc, shown, request, agreed, left, at>>

Next ==
    \/ \E c \in Client : \/ Plan(c) \/ Confirm(c) \/ Offer(c) \/ NotNow(c) \/ InstallTicked(c)
                         \/ Receive(c) \/ Begin(c) \/ Removes(c) \/ Sync(c) \/ Answer(c)
    \/ Die
    \/ \E p \in Harness : ChangeFolder(p)

Spec == Init /\ [][Next]_vars

-----------------------------------------------------------------------------
(* Properties *)

\* The yes to taking over is for the folders shown as already there; of a
\* client of v0.22.0 to v0.28.x it is for every target (skills.go:504-511).
TakesOver(c, p) == p \in agreed[c].adopt \/ (c \in Whole /\ agreed[c].adopt # {})

\* Every folder the server writes, takes over or empties is one the person
\* said yes to, in this very request, and was shown as such: not one that
\* became so since (skills.go:515-533, tui/skills.go:69-73).
OnlyAsAgreed ==
    did.client # None =>
        LET yes == agreed[did.client] IN
        /\ did.place \in yes.targets /\ CheckTarget(did.place)
        /\ did.what = "adopted" => TakesOver(did.client, did.place)
        /\ did.what = "replaced" => did.place \in yes.replace
=============================================================================
