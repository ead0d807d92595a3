---------------------------- MODULE PublisherCheck ----------------------------
(* `ovdb publisher check`: the manifests of one commit are judged while the  *)
(* repository moves (internal/publisher/repo, internal/publisher/checkcmd).  *)
(* Replacement objects of git must not hide a manifest whose data has to be  *)
(* proved: the original objects are looked at first ("discovery"), and only  *)
(* when they hold none is the commit judged as git shows it.  What a manifest*)
(* says is one of a few kinds; any read may fail, once or for good.          *)
EXTENDS Naturals, Sequences, FiniteSets

CONSTANTS
    Commit,
    NoCommit,
    Listing,      \* what OVDB.md may be: [sound : BOOLEAN, entries : Seq(Kinds)]
    MaxManifests

VARIABLES
    tip,         \* the commit that HEAD names
    tree,        \* OVDB.md of each commit, in each view
    pass,        \* which pass over the commit: two discoveries, the run, its repetition
    view,        \* the objects it reads
    step,        \* where it is
    pin,         \* the commit each view is bound to
    validated,   \* the views whose commit needs no further call of git
    nth,         \* the entry that is judged
    descriptors, \* the entries this pass takes for descriptors
    handed,      \* the entries read before and not judged yet (checker.preread)
    clean,       \* the entries judged without a finding
    proof,       \* the proof of the source data they share (checker.sourceProofs)
    proved,      \* the attached entries that every proof was given of
    refused,     \* has this pass a finding?
    kept,        \* a finding of the discovery of the original objects
    unrunnable,  \* did a call say that git cannot be run?
    reported,    \* the commit of the document
    verdict,
    met          \* calls that failed: of git, in the first discovery (history)

checkVars == <<tip, tree, pass, view, step, pin, validated, nth, descriptors, handed,
               clean, proof, proved, refused, kept, unrunnable, reported, verdict, met>>

View == {"original", "legacy"}

\* "attached": its data or rights need proofs; "misfit": a descriptor that
\* contradicts its manifest; "invalid": not a tracked file, or refused.
Kinds == {"plain", "attached", "descriptor", "misfit", "invalid"}
Descriptor == {"descriptor", "misfit"}

Listed == tree[view][pin[view]].entries
Entries == 1 .. (IF Len(Listed) > MaxManifests THEN MaxManifests ELSE Len(Listed))
Discovering == pass \in {"discover", "discover_legacy"}

CheckTypeOK ==
    /\ tip \in Commit /\ tree \in [View -> [Commit -> Listing]]
    /\ pass \in {"discover", "discover_legacy", "run", "again"} /\ view \in View
    /\ step \in {"head", "listing", "classify", "entry", "rights", "metadata", "data", "descriptor", "done", "ended"}
    /\ pin \in [View -> Commit \cup {NoCommit}] /\ validated \subseteq View
    /\ nth \in Nat \ {0} /\ descriptors \subseteq Nat /\ handed \subseteq Nat /\ clean \subseteq Nat
    /\ proof \in {"unread", "good", "bad"} /\ proved \subseteq Nat
    /\ refused \in BOOLEAN /\ kept \in BOOLEAN /\ unrunnable \in BOOLEAN
    /\ reported \in Commit \cup {NoCommit}
    /\ verdict \in {"none", "ok", "refused", "unrunnable"}
    /\ met \subseteq {"git", "discovery"}

Init ==
    /\ tip \in Commit /\ tree \in [View -> [Commit -> Listing]]
    /\ pass = "discover" /\ view = "original" /\ step = "head"
    /\ pin = [v \in View |-> NoCommit] /\ validated = {}
    /\ nth = 1 /\ descriptors = {} /\ handed = {} /\ clean = {}
    /\ proof = "unread" /\ proved = {}
    /\ refused = FALSE /\ kept = FALSE /\ unrunnable = FALSE
    /\ reported = NoCommit /\ verdict = "none" /\ met = {}

\* Somebody commits: HEAD names another commit.
MoveHead ==
    /\ step # "ended" /\ tip' \in Commit \ {tip}
    /\ UNCHANGED <<tree, pass, view, step, pin, validated, nth, descriptors, handed,
                   clean, proof, proved, refused, kept, unrunnable, reported, verdict, met>>

-----------------------------------------------------------------------------
(* Passes *)

\* A pass starts with a checker of its own: nothing of the last one is left.
StartPass(p, v) ==
    /\ pass' = p /\ view' = v /\ step' = "head" /\ nth' = 1
    /\ descriptors' = {} /\ handed' = {} /\ clean' = {}
    /\ proof' = "unread" /\ proved' = {} /\ refused' = FALSE

\* A mutant of Absent: the other view reads HEAD again.
AbsentUnpinned ==
    IF pass = "discover"
    THEN StartPass("discover_legacy", "legacy") /\ UNCHANGED pin
    ELSE StartPass("run", "legacy") /\ UNCHANGED pin

\* Every listed manifest is sound and needs no proof: the view that git shows
\* is bound to the same commit and discovered too.
Absent ==
    IF pass = "discover"
    THEN StartPass("discover_legacy", "legacy") /\ pin' = [pin EXCEPT !["legacy"] = pin["original"]]
    ELSE StartPass("run", "legacy") /\ UNCHANGED pin

Present == StartPass("run", "original") /\ UNCHANGED <<pin, kept>>

\* A mutant of Indeterminate: the run finds again what is wrong.
IndeterminateForgotten ==
    /\ StartPass("run", IF pass = "discover" THEN "original" ELSE "legacy")
    /\ UNCHANGED <<pin, kept>>

\* Something is wrong or was not read: that is never taken for absence, and a
\* finding about the original objects is kept for the end.
Indeterminate ==
    /\ StartPass("run", IF pass = "discover" THEN "original" ELSE "legacy")
    /\ kept' = (kept \/ pass = "discover")
    /\ UNCHANGED pin

\* In a run a finding ends the pass where the rest cannot be judged.
Ends == /\ refused' = TRUE /\ step' = "done"
        /\ UNCHANGED <<pass, view, pin, nth, descriptors, handed, clean, proof, proved, kept>>

\* A mutant of Noted: only the last error of git counts.
NotedLast(how) == unrunnable' = (how = "unrunnable")

\* A failed call gives a finding; the command remembers the first that says
\* that git cannot be run, is too old or did not finish.
Noted(how) == unrunnable' = (unrunnable \/ how = "unrunnable")

Failed(how) ==
    /\ Noted(how)
    /\ met' = met \cup (IF how = "unrunnable" THEN {"git"} ELSE {})
                   \cup (IF pass = "discover" /\ step # "classify" THEN {"discovery"} ELSE {})

Failures == {"unreadable", "unrunnable"}

\* HEAD, or OVDB.md, cannot be read.
FailsEarly ==
    /\ step \in {"head", "listing"} /\ (step = "head" => view \notin validated)
    /\ \E how \in Failures : Failed(how)
    /\ IF Discovering THEN Indeterminate ELSE Ends
    /\ UNCHANGED <<tip, tree, validated, reported, verdict>>

\* The commit of a view is selected once; a validated one is only repeated.
ReadHead ==
    /\ step = "head" /\ step' = "listing"
    /\ pin' = [pin EXCEPT ![view] = IF @ = NoCommit THEN tip ELSE @]
    /\ validated' = validated \cup {view}
    /\ reported' = pin'[view]
    /\ UNCHANGED <<tip, tree, pass, view, nth, descriptors, handed, clean, proof, proved, refused, kept, unrunnable, verdict, met>>

\* OVDB.md: a discovery takes nothing that has a finding or lists too much.
ReadListing ==
    /\ step = "listing"
    /\ LET listing == tree[view][pin[view]] IN
       IF Discovering /\ (~listing.sound \/ Len(listing.entries) > MaxManifests)
       THEN Indeterminate
       ELSE /\ refused' = ~listing.sound /\ step' = "classify"
            /\ UNCHANGED <<pass, view, pin, nth, descriptors, handed, clean, proof, proved, kept>>
    /\ UNCHANGED <<tip, tree, validated, unrunnable, reported, verdict, met>>

Paired(found) == Cardinality(found) = 1 /\ Cardinality(Entries \ found) = 1

\* Descriptors are told from manifests by reading each entry silently: one
\* that fails is read again as a manifest, the others are handed over.
Classify ==
    /\ step = "classify"
    /\ \E failed \in SUBSET Entries, how \in Failures :
          LET found == {i \in Entries \ failed : Listed[i] \in Descriptor} IN
          /\ (failed = {} => how = "unreadable") /\ Failed(how)
          /\ descriptors' = found /\ handed' = Entries \ (failed \cup found)
          /\ refused' = (refused \/ (~Discovering /\ found # {} /\ ~Paired(found)))
    /\ step' = "entry"
    /\ UNCHANGED <<tip, tree, pass, view, pin, validated, nth, clean, proof, proved, kept, reported, verdict>>

-----------------------------------------------------------------------------
(* Entries *)

Due == step = "entry" /\ nth \in Entries
Skipped == ~Discovering /\ nth \in descriptors
\* The entry is read now, unless Classify read it.
Reads == Due /\ ~Skipped /\ nth \notin handed

EntryFails ==
    /\ Reads /\ \E how \in Failures : Failed(how)
    /\ IF Discovering
       THEN Indeterminate
       ELSE /\ refused' = TRUE /\ nth' = nth + 1
            /\ UNCHANGED <<pass, view, step, pin, descriptors, handed, clean, proof, proved, kept>>
    /\ UNCHANGED <<tip, tree, validated, reported, verdict>>

\* Discovery judges a manifest as it is; a descriptor has no attachment.
Discover ==
    /\ Due /\ Discovering
    /\ CASE nth \in descriptors \/ Listed[nth] = "plain" ->
              /\ nth' = nth + 1
              /\ UNCHANGED <<pass, view, step, pin, descriptors, handed, clean, proof, proved, refused, kept>>
         [] nth \notin descriptors /\ Listed[nth] = "attached" -> Present
         [] nth \notin descriptors /\ Listed[nth] \notin {"plain", "attached"} -> Indeterminate
    /\ UNCHANGED <<tip, tree, validated, unrunnable, reported, verdict, met>>

DiscoverEnds ==
    /\ step = "entry" /\ nth \notin Entries /\ Discovering
    /\ Absent /\ UNCHANGED <<tip, tree, validated, kept, unrunnable, reported, verdict, met>>

\* A mutant of Judge: the view that git shows is judged to its end.
JudgeOn ==
    /\ Due /\ ~Discovering
    /\ CASE Skipped \/ Listed[nth] = "plain" -> nth' = nth + 1 /\ clean' = clean \cup {nth} /\ UNCHANGED <<step, refused>>
         [] ~Skipped /\ Listed[nth] = "attached" -> step' = "rights" /\ clean' = clean \cup {nth} /\ UNCHANGED <<nth, refused>>
         [] ~Skipped /\ Listed[nth] \notin {"plain", "attached"} -> nth' = nth + 1 /\ refused' = TRUE /\ UNCHANGED <<step, clean>>
    /\ UNCHANGED <<tip, tree, pass, view, pin, validated, descriptors, handed, proof, proved, kept, unrunnable, reported, verdict, met>>

\* A run judges an entry.  An attached manifest in the view that git shows
\* discards the pass: it is run again on the original objects.
Judge ==
    /\ Due /\ ~Discovering
    /\ CASE Skipped \/ Listed[nth] = "plain" ->
              /\ nth' = nth + 1 /\ clean' = clean \cup ({nth} \ descriptors)
              /\ UNCHANGED <<pass, view, step, descriptors, handed, proof, proved, refused>>
         [] ~Skipped /\ Listed[nth] = "attached" /\ view = "legacy" -> StartPass("again", "original")
         [] ~Skipped /\ Listed[nth] = "attached" /\ view = "original" ->
              /\ step' = "rights" /\ clean' = clean \cup {nth}
              /\ UNCHANGED <<pass, view, nth, descriptors, handed, proof, proved, refused>>
         [] ~Skipped /\ Listed[nth] \notin {"plain", "attached"} ->
              /\ nth' = nth + 1 /\ refused' = TRUE
              /\ UNCHANGED <<pass, view, step, descriptors, handed, clean, proof, proved>>
    /\ UNCHANGED <<tip, tree, pin, validated, kept, unrunnable, reported, verdict, met>>

\* Every proof reads the repositories the manifest names, as they were given
\* to the command: each holds what it says, or another thing, or fails.
Refuted == refused' = TRUE /\ \E how \in Failures : Failed(how)
Holds == UNCHANGED <<refused, unrunnable, met>>

Rights ==
    /\ step = "rights" /\ step' = "metadata"
    /\ (Holds \/ Refuted)
    /\ UNCHANGED <<tip, tree, pass, view, pin, validated, nth, descriptors, handed, clean, proof, proved, kept, reported, verdict>>

\* The contract of the representation; without it the data is not looked at.
Metadata ==
    /\ step = "metadata"
    /\ \/ Holds /\ step' = "data" /\ UNCHANGED nth
       \/ Refuted /\ step' = "entry" /\ nth' = nth + 1
    /\ UNCHANGED <<tip, tree, pass, view, pin, validated, descriptors, handed, clean, proof, proved, kept, reported, verdict>>

\* The bytes of the source data: one proof, good or bad, for all manifests of
\* a pass that name them.
SourceData ==
    /\ step = "data" /\ step' = "entry" /\ nth' = nth + 1
    /\ \/ proof # "bad" /\ Holds /\ proof' = "good" /\ proved' = proved \cup {nth}
       \/ proof = "unread" /\ Refuted /\ proof' = "bad" /\ UNCHANGED proved
       \/ proof = "bad" /\ refused' = TRUE /\ UNCHANGED <<proof, proved, unrunnable, met>>
    /\ UNCHANGED <<tip, tree, pass, view, pin, validated, descriptors, handed, clean, kept, reported, verdict>>

\* The rest of a list that is too long is one finding.
RunEnds ==
    /\ step = "entry" /\ nth \notin Entries /\ ~Discovering
    /\ IF nth \in DOMAIN Listed THEN Ends
       ELSE /\ step' = "descriptor"
            /\ UNCHANGED <<pass, view, pin, nth, descriptors, handed, clean, proof, proved, refused, kept>>
    /\ UNCHANGED <<tip, tree, validated, unrunnable, reported, verdict, met>>

\* A descriptor is judged with its manifest, when that one had no finding.
JudgeDescriptor ==
    /\ step = "descriptor" /\ step' = "done"
    /\ LET fits == {i \in descriptors : Paired(descriptors) /\ Entries \ descriptors \subseteq clean} IN
       /\ clean' = clean \cup {i \in fits : Listed[i] = "descriptor"}
       /\ refused' = (refused \/ \E i \in fits : Listed[i] = "misfit")
    /\ UNCHANGED <<tip, tree, pass, view, pin, validated, nth, descriptors, handed, proof, proved, kept, unrunnable, reported, verdict, met>>

\* The command's answer: no verdict where git could not be run.
Verdict ==
    /\ step = "done" /\ step' = "ended"
    /\ verdict' = (IF unrunnable THEN "unrunnable" ELSE IF refused \/ kept THEN "refused" ELSE "ok")
    /\ UNCHANGED <<tip, tree, pass, view, pin, validated, nth, descriptors, handed, clean, proof, proved, refused, kept, unrunnable, reported, met>>

Next ==
    \/ MoveHead \/ FailsEarly \/ ReadHead \/ ReadListing \/ Classify
    \/ EntryFails \/ Discover \/ DiscoverEnds \/ Judge \/ Rights \/ Metadata
    \/ SourceData \/ RunEnds \/ JudgeDescriptor \/ Verdict

Spec == Init /\ [][Next]_checkVars

-----------------------------------------------------------------------------
\* A repository that is found in order is in order, at the commit that is
\* reported, whatever moved meanwhile and whatever git's replacements hide:
\* its list is sound and complete, every entry was judged, and a manifest that
\* needs proofs in either view was proved in the original objects.  A check
\* that could not run git gives no verdict, and a call that failed while the
\* original objects were looked at is never forgotten (check.go:89-150,
\* 160-210, checkcmd.go:116-133).
CheckIsSound ==
    /\ "git" \in met => verdict \in {"none", "unrunnable"}
    /\ verdict = "ok" =>
        LET commit == reported
            shown == tree[view][commit]
            Needs(v) == \E i \in DOMAIN tree[v][commit].entries : tree[v][commit].entries[i] = "attached"
        IN  /\ commit = pin["original"] /\ commit = pin[view]
            /\ shown.sound /\ Len(shown.entries) <= MaxManifests
            /\ clean = DOMAIN shown.entries
            /\ \A i \in DOMAIN shown.entries : shown.entries[i] \notin {"misfit", "invalid"}
            /\ (\E v \in View : Needs(v)) => view = "original"
            /\ \A i \in DOMAIN shown.entries : shown.entries[i] = "attached" => i \in proved
            /\ tree["original"][commit].sound
            /\ "discovery" \notin met
=============================================================================
