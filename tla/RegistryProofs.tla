--------------------------- MODULE RegistryProofs ---------------------------
(***************************************************************************)
(* Theorems about Registry: for any number of databases, storages and      *)
(* requests at a time, of every kind, with timeouts, disconnects, a         *)
(* shutdown at any moment and, where the theorem says so, edits by hand.    *)
(***************************************************************************)
EXTENDS Registry, FiniteSetTheorems, TLAPS

USE RegistryAssumption, NoneAssumption

-----------------------------------------------------------------------------
(* The invariants *)

TypesInv ==
    /\ disk \in [Name -> Manifest \cup {None}]
    /\ mounts \in [Name -> MountRecord \cup {None}]
    /\ gen \in [Name -> Nat] /\ closed \in BOOLEAN
    /\ served \in [Name -> Name \cup {None}]
    /\ late \in Nat /\ mu \in Caller \cup {None}
    /\ pc \in [Goroutine -> Pc]
    /\ want \in [Goroutine -> Want]
    /\ regs \in [Goroutine -> [Name -> Name \cup {None}]]
    /\ todo \in [Goroutine -> SUBSET Name]
    /\ task \in [Goroutine -> [Name -> Task \cup {None}]]
    /\ used \in [requests : 0 .. MaxRequests, edits : 0 .. MaxEdits, left : BOOLEAN]

BootPc == {"idle", "mountAll", "pending", "mountEach", "await", "draining", "unmountAll", "closed"}
MakingPc == {"create", "refuse", "provision", "connect", "plan", "staging", "commit", "decline", "rename", "serve"}
HoldingPc == {"refuse", "provision", "plan", "decline", "rename", "serve"}
MadePc == {"commit", "decline", "rename", "serve"}

\* The steps of a create or connect up to its last one.
Makes(c) ==
    \/ Create(c) \/ Refuse(c) \/ Provision(c)
    \/ ConnectPlans(c) \/ ConnectPlanned(c) \/ ConnectMounts(c) \/ ConnectCommits(c) \/ ConnectRenames(c)

\* The mount that goroutine c started for file f has a database open.
Opening(c, f) == task[c][f] # None /\ task[c][f].phase = "opened"

\* Mounts run only while their goroutine starts them or waits for them.
Place(c) ==
    /\ c = Boot => pc[c] \in BootPc
    /\ pc[c] \in MakingPc => want[c] \in Manifest
    /\ pc[c] \notin {"mountEach", "await"} => task[c] = NoTasks
    /\ pc[c] = "mountEach" => \A f \in Files(c) : task[c][f] = None
    /\ \A f \in Name : Opening(c, f) => task[c][f].db \in Name

PlaceInv == \A c \in Goroutine : Place(c)

\* Who has a database open: the server, a mount that has not settled, and a
\* create or connect that has not served it yet.
Served == {n \in Name : served[n] # None}
Opened == {x \in Goroutine \X Name : Opening(x[1], x[2])}
Making == {c \in Goroutine : pc[c] \in MadePc}

Counted == open = Cardinality(Served) + Cardinality(Opened) + Cardinality(Making)

RegistryInv == TypesInv /\ PlaceInv /\ Counted

\* Files keep the id of their name, everywhere, as long as nobody edits ids.
OwnDisk == \A f \in Name : disk[f] # None => disk[f].id = f
OwnMounts == \A f \in Name : mounts[f] # None => mounts[f].id = f
OwnServed == \A f \in Name : served[f] \in {f, None}
OwnRegs == \A c \in Goroutine, f \in Name : regs[c][f] \in {f, None}
OwnTasks ==
    \A c \in Goroutine, f \in Name :
        /\ task[c][f] # None => task[c][f].id = f
        /\ Opening(c, f) => task[c][f].db = f

OwnIds == OwnDisk /\ OwnMounts /\ OwnServed /\ OwnRegs /\ OwnTasks

\* Each served database that is to be unmounted is unmounted by one goroutine,
\* which took its record away.
OneUnmounts ==
    \A f \in Name :
        /\ HasRecord(f, "mounted") => served[f] = f
        /\ \A c \in Goroutine : f \in todo[c] =>
              /\ served[f] # None /\ ~HasRecord(f, "mounted")
              /\ \A d \in Goroutine : f \in todo[d] => c = d

\* A create or connect keeps the lock from its check until it has served its
\* database, so that what it found free stays free.
Holds == \A c \in Goroutine : pc[c] \in HoldingPc => mu = c
Free ==
    \A c \in Goroutine :
        pc[c] \in {"provision", "rename"} => ~Taken(want[c]) \/ \A m, n \in Name : m = n

HandsInv == RegistryInv /\ OwnIds /\ OneUnmounts /\ RegisteredOnce /\ Holds /\ Free

LEMMA NoRegsType == NoRegs \in [Name -> Name \cup {None}]
  BY DEF NoRegs

LEMMA NoTasksType == NoTasks \in [Name -> Task \cup {None}] /\ \A f \in Name : NoTasks[f] = None
  BY DEF NoTasks

LEMMA PcNames ==
  /\ BootPc \subseteq Pc /\ MakingPc \subseteq Pc /\ MakingPc \cap BootPc = {}
  /\ HoldingPc \subseteq MakingPc /\ MadePc \subseteq MakingPc
  /\ {"remove", "reload", "reloadAll", "forget", "mark", "unmountRemoved", "unmountGone", "unmountOld"} \subseteq Pc
  BY DEF BootPc, MakingPc, HoldingPc, MadePc, Pc

LEMMA MountedIdsType ==
  ASSUME TypesInv, NEW files \in SUBSET Name
  PROVE  MountedIds(files) \subseteq Name
  BY DEF TypesInv, MountedIds, HasRecord, Recorded, MountRecord

-----------------------------------------------------------------------------
(* Types *)

LEMMA InitTypes ==
  ASSUME Init
  PROVE  TypesInv
  <1>1. pc \in [Goroutine -> Pc]
    BY DEF Init, Pc
  <1>2. mounts \in [Name -> MountRecord \cup {None}]
    <2>1. \A f \in Name : disk[f] # None => disk[f].id \in Name
      BY DEF Init, Manifest
    <2>2. QED
      BY <2>1 DEF Init, Mounting, MountRecord, State
  <1>3. want \in [Goroutine -> Want]
    BY DEF Init, NoWant, Want
  <1>4. gen \in [Name -> Nat] /\ todo \in [Goroutine -> SUBSET Name] /\ disk \in [Name -> Manifest \cup {None}]
    BY DEF Init
  <1>5. used \in [requests : 0 .. MaxRequests, edits : 0 .. MaxEdits, left : BOOLEAN]
    BY DEF Init
  <1>6. regs \in [Goroutine -> [Name -> Name \cup {None}]] /\ task \in [Goroutine -> [Name -> Task \cup {None}]]
    BY NoRegsType, NoTasksType DEF Init
  <1>7. closed \in BOOLEAN /\ served \in [Name -> Name \cup {None}] /\ late \in Nat /\ mu \in Caller \cup {None}
    BY DEF Init
  <1>8. QED
    BY <1>1, <1>2, <1>3, <1>4, <1>5, <1>6, <1>7 DEF TypesInv

LEMMA RegAt ==
  ASSUME TypesInv, NEW c \in Goroutine, NEW f \in Files(c)
  PROVE  f \in Name /\ regs[c][f] \in Name /\ gen[f] \in Nat
  <1>1. f \in Name /\ regs[c][f] # None
    BY DEF Files
  <1>2. regs[c] \in [Name -> Name \cup {None}] /\ gen[f] \in Nat
    BY <1>1 DEF TypesInv
  <1>3. QED
    BY <1>1, <1>2

LEMMA BeginTypes ==
  ASSUME TypesInv, NEW c \in Caller, Begin(c)
  PROVE  TypesInv'
  <1>1. PICK kind \in Requests, id \in Name, s \in Storage :
          /\ Goes(c, kind)
          /\ want' = [want EXCEPT ![c] =
               CASE kind \in {"create", "connect"} -> [id |-> id, storage |-> s]
                 [] kind \in {"remove", "reload"} -> [id |-> id, storage |-> None]
                 [] OTHER -> NoWant]
    BY DEF Begin
  <1>2. kind \in Pc
    BY DEF Pc
  <1>3. want' \in [Goroutine -> Want]
    <2>1. [id |-> id, storage |-> s] \in Want /\ [id |-> id, storage |-> None] \in Want /\ NoWant \in Want
      BY DEF Want, NoWant
    <2>2. QED
      BY <1>1, <2>1 DEF TypesInv
  <1>4. used' \in [requests : 0 .. MaxRequests, edits : 0 .. MaxEdits, left : BOOLEAN]
    <2>1. used' = [used EXCEPT !.requests = @ + 1] /\ used.requests < MaxRequests
      BY DEF Begin
    <2>2. used \in [requests : 0 .. MaxRequests, edits : 0 .. MaxEdits, left : BOOLEAN]
      BY DEF TypesInv
    <2>3. used.requests + 1 \in 0 .. MaxRequests
      BY <2>1, <2>2, RegistryAssumption
    <2>4. QED
      BY <2>1, <2>2, <2>3
  <1>5. QED
    BY <1>1, <1>2, <1>3, <1>4 DEF TypesInv, Begin, Goes

LEMMA ReturnsTypes ==
  ASSUME TypesInv, NEW c \in Goroutine, Returns(c)
  PROVE  /\ pc' \in [Goroutine -> Pc] /\ want' \in [Goroutine -> Want]
         /\ regs' \in [Goroutine -> [Name -> Name \cup {None}]]
         /\ UNCHANGED <<todo, task>>
  <1>1. NoWant \in Want
    BY DEF NoWant, Want
  <1>2. QED
    BY <1>1, NoRegsType DEF TypesInv, Returns, Goes, Pc

LEMMA GoesTypes ==
  ASSUME TypesInv, NEW c \in Goroutine, NEW to \in Pc, Goes(c, to)
  PROVE  pc' \in [Goroutine -> Pc]
  BY DEF TypesInv, Goes

\* What every step of a create or connect has in common.
LEMMA MakesIs ==
  ASSUME NEW c, Makes(c)
  PROVE  /\ pc[c] \in MakingPc
         /\ UNCHANGED <<mounts, gen, closed, served, used, task, todo>>
         /\ \/ Returns(c)
            \/ UNCHANGED <<want, regs>> /\ \E q \in MakingPc : Goes(c, q)
         /\ disk' = disk \/ disk' = [disk EXCEPT ![want[c].id] = want[c]]
         /\ mu' \in {mu, c, None} /\ late' \in {late, late + 1}
  <1>1. CASE Create(c) \/ ConnectCommits(c)
    BY <1>1 DEF Create, ConnectCommits, Checks, MakingPc
  <1>2. CASE ConnectPlans(c)
    <2>1. CASE Returns(c)
      BY <1>2, <2>1 DEF ConnectPlans, Checks, Returns, MakingPc
    <2>2. CASE Checks(c, "refuse", "plan")
      BY <1>2, <2>2 DEF ConnectPlans, Checks, MakingPc
    <2>3. QED
      BY <1>2, <2>1, <2>2 DEF ConnectPlans
  <1>3. CASE Refuse(c) \/ ConnectPlanned(c)
    BY <1>3 DEF Refuse, ConnectPlanned, Returns, MakingPc
  <1>4. CASE Provision(c)
    BY <1>4 DEF Provision, Returns, MakingPc
  <1>5. CASE ConnectRenames(c)
    BY <1>5 DEF ConnectRenames, Returns, MakingPc
  <1>6. CASE ConnectMounts(c)
    BY <1>6 DEF ConnectMounts, Returns, MakingPc
  <1>7. QED
    BY <1>1, <1>2, <1>3, <1>4, <1>5, <1>6 DEF Makes

LEMMA MakesTypes ==
  ASSUME TypesInv, PlaceInv, NEW c \in Goroutine, Makes(c)
  PROVE  TypesInv'
  <1>1. c \in Caller /\ want[c] \in Manifest
    BY MakesIs, PcNames DEF PlaceInv, Place, Goroutine
  <1>2. pc' \in [Goroutine -> Pc] /\ want' \in [Goroutine -> Want] /\ regs' \in [Goroutine -> [Name -> Name \cup {None}]]
    <2>1. CASE Returns(c)
      BY <2>1, ReturnsTypes
    <2>2. CASE UNCHANGED <<want, regs>> /\ \E q \in MakingPc : Goes(c, q)
      BY <2>2, GoesTypes, PcNames DEF TypesInv
    <2>3. QED
      BY <2>1, <2>2, MakesIs
  <1>3. disk' \in [Name -> Manifest \cup {None}]
    <2>1. disk \in [Name -> Manifest \cup {None}]
      BY DEF TypesInv
    <2>2. QED
      BY <1>1, <2>1, MakesIs
  <1>4. late' \in Nat /\ mu' \in Caller \cup {None}
    BY <1>1, MakesIs DEF TypesInv
  <1>5. QED
    BY <1>2, <1>3, <1>4, MakesIs DEF TypesInv

LEMMA BumpTypes ==
  ASSUME TypesInv, NEW files, Bump(files)
  PROVE  gen' \in [Name -> Nat]
  BY DEF TypesInv, Bump

LEMMA DropTypes ==
  ASSUME TypesInv, NEW files, Drop(files)
  PROVE  mounts' \in [Name -> MountRecord \cup {None}]
  BY DEF TypesInv, Drop

LEMMA SetMountTypes ==
  ASSUME TypesInv, NEW f \in Name, NEW id \in Name, NEW state \in State, SetMount(f, id, state)
  PROVE  mounts' \in [Name -> MountRecord \cup {None}]
  BY DEF TypesInv, SetMount, MountRecord

LEMMA ServeTypes ==
  ASSUME TypesInv, PlaceInv, NEW c \in Goroutine, Serve(c)
  PROVE  TypesInv'
  <1> DEFINE id == want[c].id
  <1>1. id \in Name /\ Returns(c) /\ mu' = None /\ UNCHANGED <<closed, late, used>>
    BY DEF Serve, PlaceInv, Place, MakingPc, Manifest
  <1>2. CASE /\ served' = [served EXCEPT ![id] = id]
             /\ SetMount(id, id, "mounted")
             /\ Bump({id})
             /\ UNCHANGED <<disk, open>>
    BY <1>1, <1>2, ReturnsTypes, BumpTypes, SetMountTypes DEF TypesInv, State
  <1>3. CASE disk' = [disk EXCEPT ![id] = None] /\ UNCHANGED <<served, mounts, gen>>
    BY <1>1, <1>3, ReturnsTypes DEF TypesInv
  <1>4. QED
    BY <1>2, <1>3 DEF Serve

LEMMA OneRegType ==
  ASSUME NEW f \in Name, NEW id \in Name
  PROVE  [NoRegs EXCEPT ![f] = id] \in [Name -> Name \cup {None}]
  BY NoRegsType

LEMMA UnregisterTypes ==
  ASSUME TypesInv, NEW c \in Goroutine, Unregister(c)
  PROVE  TypesInv'
  <1>1. UNCHANGED <<closed, served, open, late, mu, used>>
    BY DEF Unregister, Unlocked
  <1>2. CASE Returns(c) /\ UNCHANGED <<disk, mounts, gen>>
    BY <1>1, <1>2, ReturnsTypes DEF TypesInv
  <1>3. ASSUME NEW f \in Name,
               /\ Finds(want[c].id, f)
               /\ disk' = [disk EXCEPT ![f] = None]
               /\ Drop({f})
               /\ Bump({f})
               /\ todo' = [todo EXCEPT ![c] = IF HasRecord(f, "mounted") THEN {want[c].id} ELSE {}]
               /\ regs' = [regs EXCEPT ![c] = [NoRegs EXCEPT ![f] = want[c].id]]
               /\ Goes(c, "unmountRemoved")
               /\ UNCHANGED <<want, task>>
        PROVE  TypesInv'
    <2>1. want[c].id \in Name
      BY <1>3 DEF Finds, TypesInv, Manifest
    <2>2. regs' \in [Goroutine -> [Name -> Name \cup {None}]]
      BY <1>3, <2>1, OneRegType DEF TypesInv
    <2>3. todo' \in [Goroutine -> SUBSET Name]
      BY <1>3, <2>1 DEF TypesInv
    <2>4. QED
      BY <1>1, <1>3, <2>2, <2>3, BumpTypes, DropTypes, GoesTypes, PcNames DEF TypesInv
  <1>4. QED
    BY <1>2, <1>3 DEF Unregister

LEMMA ReadsTypes ==
  ASSUME TypesInv, NEW c \in Goroutine, ReloadReads(c) \/ ReloadAllReads(c)
  PROVE  TypesInv'
  <1>1. CASE ReloadReads(c) /\ Returns(c)
    BY <1>1, ReturnsTypes DEF TypesInv, ReloadReads
  <1>2. ASSUME ReloadReads(c), NEW f \in Name,
               /\ Finds(want[c].id, f)
               /\ regs' = [regs EXCEPT ![c] = [NoRegs EXCEPT ![f] = want[c].id]]
               /\ Goes(c, "mark")
               /\ UNCHANGED <<want, todo, task>>
        PROVE  TypesInv'
    <2>1. want[c].id \in Name
      BY <1>2 DEF Finds, TypesInv, Manifest
    <2>2. regs' \in [Goroutine -> [Name -> Name \cup {None}]]
      BY <1>2, <2>1, OneRegType DEF TypesInv
    <2>3. QED
      BY <1>2, <2>2, GoesTypes, PcNames DEF TypesInv, ReloadReads
  <1>3. CASE ReloadAllReads(c)
    <2>1. Registrations \in [Name -> Name \cup {None}]
      BY DEF Registrations, TypesInv, Manifest
    <2>2. QED
      BY <1>3, <2>1, GoesTypes, PcNames DEF TypesInv, ReloadAllReads
  <1>4. QED
    BY <1>1, <1>2, <1>3 DEF ReloadReads

\* ForgetGone drops some records, and no others' ids are to be unmounted.
LEMMA ForgetGoneIs ==
  ASSUME NEW c, ForgetGone(c)
  PROVE  \E dropped \in SUBSET Name :
            Drop(dropped) /\ Bump(dropped) /\ todo' = [todo EXCEPT ![c] = MountedIds(dropped)]
  <1> DEFINE recorded == {f \in Name : Recorded(f)}
  <1>1. PICK ms \in [1 .. Cardinality(recorded) -> recorded] :
          LET gone[i \in DOMAIN ms] == ms[i] \notin Files(c) /\ (i > 1 => ~gone[i - 1])
              dropped == {ms[i] : i \in {j \in DOMAIN ms : gone[j]}}
          IN  /\ Sorted(ms)
              /\ Drop(dropped)
              /\ Bump(dropped)
              /\ todo' = [todo EXCEPT ![c] = MountedIds(dropped)]
    BY DEF ForgetGone
  <1> DEFINE gone[i \in DOMAIN ms] == ms[i] \notin Files(c) /\ (i > 1 => ~gone[i - 1])
             dropped == {ms[i] : i \in {j \in DOMAIN ms : gone[j]}}
  <1>2. dropped \subseteq Name
    <2>1. \A i \in DOMAIN ms : ms[i] \in Name
      OBVIOUS
    <2> HIDE DEF gone
    <2>2. QED
      BY <2>1
  <1>3. Drop(dropped) /\ Bump(dropped) /\ todo' = [todo EXCEPT ![c] = MountedIds(dropped)]
    BY <1>1
  <1> HIDE DEF dropped
  <1>4. QED
    BY <1>2, <1>3

LEMMA ForgetTypes ==
  ASSUME TypesInv, NEW c \in Goroutine, ForgetGone(c)
  PROVE  TypesInv'
  <1>1. PICK dropped \in SUBSET Name :
          Drop(dropped) /\ Bump(dropped) /\ todo' = [todo EXCEPT ![c] = MountedIds(dropped)]
    BY ForgetGoneIs
  <1>2. todo' \in [Goroutine -> SUBSET Name]
    BY <1>1, MountedIdsType DEF TypesInv
  <1>3. UNCHANGED <<disk, closed, served, late, mu, want, regs, task, used>> /\ Goes(c, "unmountGone")
    BY DEF ForgetGone, Unlocked
  <1>4. QED
    BY <1>1, <1>2, <1>3, BumpTypes, DropTypes, GoesTypes, PcNames DEF TypesInv

LEMMA MarkTypes ==
  ASSUME TypesInv, NEW c \in Goroutine, Mark(c)
  PROVE  TypesInv'
  <1>1. Files(c) \subseteq Name /\ \A f \in Files(c) : regs[c][f] \in Name
    BY DEF Files, TypesInv
  <1>2. todo' \in [Goroutine -> SUBSET Name]
    BY <1>1, MountedIdsType DEF TypesInv, Mark
  <1>3. mounts' \in [Name -> MountRecord \cup {None}]
    <2>1. \A f \in Files(c) : Mounting(regs[c][f]) \in MountRecord
      BY <1>1 DEF Mounting, MountRecord, State
    <2>2. QED
      BY <2>1 DEF Mark, TypesInv
  <1>4. UNCHANGED <<disk, closed, served, late, mu, want, regs, task, used>>
        /\ Goes(c, "unmountOld") /\ Bump(Files(c))
    BY DEF Mark, Unlocked
  <1>5. QED
    BY <1>2, <1>3, <1>4, BumpTypes, GoesTypes, PcNames DEF TypesInv

LEMMA UnmountTypes ==
  ASSUME TypesInv, NEW c \in Goroutine, Unmount(c)
  PROVE  TypesInv'
  BY DEF TypesInv, Unmount

LEMMA UnmountedTypes ==
  ASSUME TypesInv, NEW c \in Goroutine, Unmounted(c) \/ AllSettled(c)
  PROVE  TypesInv'
  <1>1. UNCHANGED <<disk, mounts, gen, closed, served, late, mu, used>>
    BY DEF Unmounted, AllSettled
  <1>2. CASE Returns(c)
    BY <1>1, <1>2, ReturnsTypes DEF TypesInv
  <1>3. CASE /\ Goes(c, "mark") \/ Goes(c, "mountEach") \/ Goes(c, "closed")
             /\ UNCHANGED <<want, regs, todo, task>>
    BY <1>1, <1>3 DEF TypesInv, Goes, Pc
  <1>4. QED
    BY <1>2, <1>3 DEF Unmounted, AllSettled

LEMMA StartTypes ==
  ASSUME TypesInv, NEW c \in Goroutine, StartMount(c)
  PROVE  TypesInv'
  <1>1. UNCHANGED <<disk, mounts, gen, closed, served, late, mu, want, todo, used>>
    BY DEF StartMount, Unlocked
  <1>2. ASSUME NEW f \in Files(c),
               /\ regs' = [regs EXCEPT ![c][f] = None]
               /\ task' = [task EXCEPT ![c][f] =
                    [id |-> regs[c][f], gen |-> gen[f], phase |-> "check", db |-> None]]
               /\ UNCHANGED pc
        PROVE  TypesInv'
    <2>1. f \in Name /\ regs[c][f] \in Name /\ gen[f] \in Nat
      BY <1>2 DEF Files, TypesInv
    <2>2. [id |-> regs[c][f], gen |-> gen[f], phase |-> "check", db |-> None] \in Task
      BY <2>1 DEF Task
    <2>3. QED
      BY <1>1, <1>2, <2>1, <2>2 DEF TypesInv
  <1>3. CASE Goes(c, "await") /\ UNCHANGED <<regs, task>>
    BY <1>1, <1>3 DEF TypesInv, Goes, Pc
  <1>4. QED
    BY <1>2, <1>3 DEF StartMount

\* One mount moves; the others stay.
LEMMA TaskAt ==
  ASSUME TypesInv, NEW c \in Goroutine, NEW f \in Name, task[c][f] # None
  PROVE  task[c][f] \in Task /\ task[c][f].id \in Name
  <1>1. task[c] \in [Name -> Task \cup {None}]
    BY DEF TypesInv
  <1>2. task[c][f] \in Task
    BY <1>1
  <1>3. QED
    BY <1>2 DEF Task

LEMMA OneTaskMoves ==
  ASSUME TypesInv, NEW c \in Goroutine, NEW f \in Name, NEW t \in Task \cup {None},
         task' = [task EXCEPT ![c][f] = t]
  PROVE  /\ task' \in [Goroutine -> [Name -> Task \cup {None}]]
         /\ task'[c][f] = t
         /\ \A d \in Goroutine, g \in Name : d # c \/ g # f => task'[d][g] = task[d][g]
  BY DEF TypesInv

LEMMA CheckIs ==
  ASSUME TypesInv, NEW c \in Goroutine, NEW f \in Name, Check(c, f)
  PROVE  \E t \in Task : /\ task' = [task EXCEPT ![c][f] = t]
                         /\ t.phase \in {"open", "failed"} /\ t.id = task[c][f].id
                         /\ task[c][f] # None /\ task[c][f].phase = "check"
  <1>1. task[c][f] \in Task /\ task[c][f].phase = "check"
    BY DEF Check, TypesInv
  <1>2. PICK phase \in {"open", "failed"} : task' = [task EXCEPT ![c][f].phase = phase]
    BY DEF Check
  <1> DEFINE t == [task[c][f] EXCEPT !.phase = phase]
  <1>3. t \in Task /\ t.phase = phase /\ t.id = task[c][f].id
    BY <1>1 DEF Task
  <1>4. task' = [task EXCEPT ![c][f] = t]
    BY <1>2 DEF TypesInv
  <1>5. QED
    BY <1>1, <1>3, <1>4

LEMMA OpenIs ==
  ASSUME TypesInv, NEW c \in Goroutine, NEW f \in Name, Open(c, f)
  PROVE  /\ task[c][f] # None /\ task[c][f].phase = "open"
         /\ \E t \in Task :
               /\ task' = [task EXCEPT ![c][f] = t] /\ t.id = task[c][f].id
               /\ \/ t.phase = "failed" /\ open' = open
                  \/ /\ t.phase = "opened" /\ open' = open + 1
                     /\ disk[f] # None /\ t.db = disk[f].id /\ t.db \in Name
  <1>1. task[c][f] \in Task /\ task[c][f].phase = "open"
    BY DEF Open, TypesInv
  <1>2. CASE /\ disk[f] # None
             /\ task' = [task EXCEPT ![c][f].phase = "opened", ![c][f].db = disk[f].id]
             /\ open' = open + 1
    <2> DEFINE t == [task[c][f] EXCEPT !.phase = "opened", !.db = disk[f].id]
    <2>1. disk[f].id \in Name
      BY <1>2 DEF TypesInv, Manifest
    <2>2. t \in Task /\ t.phase = "opened" /\ t.db = disk[f].id /\ t.id = task[c][f].id
      <3> DEFINE n == disk[f].id
      <3>1. n \in Name
        BY <2>1
      <3> HIDE DEF n
      <3>2. [task[c][f] EXCEPT !.phase = "opened", !.db = n] \in Task
        BY <1>1, <3>1 DEF Task
      <3>3. /\ [task[c][f] EXCEPT !.phase = "opened", !.db = n].phase = "opened"
            /\ [task[c][f] EXCEPT !.phase = "opened", !.db = n].db = n
            /\ [task[c][f] EXCEPT !.phase = "opened", !.db = n].id = task[c][f].id
        BY <1>1 DEF Task
      <3>4. QED
        BY <3>2, <3>3 DEF n
    <2>3. task' = [task EXCEPT ![c][f] = t]
      <3>1. task \in [Goroutine -> [Name -> Task \cup {None}]]
        BY DEF TypesInv
      <3>2. QED
        BY <1>2, <3>1
    <2>4. QED
      BY <1>1, <1>2, <2>1, <2>2, <2>3
  <1>3. CASE task' = [task EXCEPT ![c][f].phase = "failed"] /\ UNCHANGED open
    <2> DEFINE t == [task[c][f] EXCEPT !.phase = "failed"]
    <2>1. t \in Task /\ t.phase = "failed" /\ t.id = task[c][f].id
      BY <1>1 DEF Task
    <2>2. task' = [task EXCEPT ![c][f] = t]
      BY <1>3 DEF TypesInv
    <2>3. QED
      BY <1>1, <1>3, <2>1, <2>2
  <1>4. QED
    BY <1>2, <1>3 DEF Open

LEMMA MountsTypes ==
  ASSUME TypesInv, PlaceInv, NEW c \in Goroutine, NEW f \in Name,
         Check(c, f) \/ Open(c, f) \/ Settle(c, f) \/ TimeOut(c, f)
  PROVE  TypesInv'
  <1>1. CASE Check(c, f)
    <2>1. PICK t \in Task : task' = [task EXCEPT ![c][f] = t]
      BY <1>1, CheckIs
    <2>2. QED
      BY <1>1, <2>1, OneTaskMoves DEF TypesInv, Check
  <1>2. CASE Open(c, f)
    <2>1. PICK t \in Task : task' = [task EXCEPT ![c][f] = t]
      BY <1>2, OpenIs
    <2>2. QED
      BY <1>2, <2>1, OneTaskMoves DEF TypesInv, Open
  <1>3. CASE Settle(c, f)
    <2>1. task[c][f] \in Task /\ task[c][f].id \in Name
      BY <1>3, TaskAt DEF Settle
    <2>2. task' \in [Goroutine -> [Name -> Task \cup {None}]]
      BY <1>3, OneTaskMoves DEF Settle
    <2>3. mounts' \in [Name -> MountRecord \cup {None}]
      BY <1>3, <2>1, SetMountTypes DEF Settle, Settled, State, TypesInv
    <2>4. served' \in [Name -> Name \cup {None}]
      BY <1>3 DEF Settle, TypesInv
    <2>5. QED
      BY <1>3, <2>2, <2>3, <2>4 DEF TypesInv, Settle, Unlocked
  <1>4. CASE TimeOut(c, f)
    <2>1. task[c][f] \in Task /\ task[c][f].id \in Name
      BY <1>4 DEF TimeOut, TypesInv, Task
    <2>2. task' \in [Goroutine -> [Name -> Task \cup {None}]]
      BY <1>4, OneTaskMoves DEF TimeOut
    <2>3. mounts' \in [Name -> MountRecord \cup {None}]
      BY <1>4, <2>1, SetMountTypes DEF TimeOut, Settled, State, TypesInv
    <2>4. QED
      BY <1>4, <2>2, <2>3 DEF TypesInv, TimeOut, Unlocked
  <1>5. QED
    BY <1>1, <1>2, <1>3, <1>4

LEMMA AbandonsTypes ==
  ASSUME TypesInv, NEW c \in Goroutine, Abandons(c)
  PROVE  /\ task' \in [Goroutine -> [Name -> Task \cup {None}]]
         /\ late' \in Nat
  <1> DEFINE waiting == {f \in Name : task[c][f] # None /\ task[c][f].phase = "open"}
  <1>1. Cardinality(waiting) \in Nat
    BY FS_Subset, FS_CardinalityType
  <1>2. QED
    BY <1>1, NoTasksType DEF TypesInv, Abandons

LEMMA EndsTypes ==
  ASSUME TypesInv,
         \/ \E c \in Caller : Cancel(c)
         \/ MountAllReads \/ MountAllPicks \/ Stop \/ Close \/ CloseWhenDone \/ EditByHand
  PROVE  TypesInv'
  <1>0. Boot \in Goroutine
    BY DEF Goroutine
  <1>1. ASSUME NEW c \in Caller, Cancel(c)
        PROVE  TypesInv'
    <2>1. c \in Goroutine /\ NoWant \in Want
      BY DEF Goroutine, NoWant, Want
    <2>2. used' \in [requests : 0 .. MaxRequests, edits : 0 .. MaxEdits, left : BOOLEAN]
      BY <1>1 DEF Cancel, TypesInv
    <2>3. QED
      BY <1>1, <2>1, <2>2, AbandonsTypes DEF TypesInv, Cancel, Goes, Pc
  <1>2. CASE MountAllReads
    <2>1. Registrations \in [Name -> Name \cup {None}]
      BY DEF Registrations, TypesInv, Manifest
    <2>2. QED
      BY <1>2, <2>1 DEF TypesInv, MountAllReads, Goes, Pc
  <1>3. CASE MountAllPicks
    <2> DEFINE picked == [f \in Name |-> IF HasRecord(f, "mounting") THEN regs[Boot][f] ELSE None]
    <2>1. picked \in [Name -> Name \cup {None}]
      BY <1>0 DEF TypesInv
    <2>2. regs' = [regs EXCEPT ![Boot] = picked]
      BY <1>3 DEF MountAllPicks
    <2>3. /\ UNCHANGED <<disk, mounts, gen, closed, served, late, mu, want, todo, task, used>>
          /\ Goes(Boot, "mountEach")
      BY <1>3 DEF MountAllPicks, Unlocked
    <2> HIDE DEF picked
    <2>4. QED
      BY <2>1, <2>2, <2>3 DEF TypesInv, Goes, Pc
  <1>4. CASE Stop
    BY <1>0, <1>4, AbandonsTypes, NoRegsType DEF TypesInv, Stop, Goes, Pc
  <1>5. CASE Close
    BY <1>5, MountedIdsType, DropTypes DEF TypesInv, Close, Goes, Pc, Unlocked
  <1>6. CASE CloseWhenDone
    BY <1>6 DEF TypesInv, CloseWhenDone, callVars
  <1>7. CASE EditByHand
    <2>1. disk' \in [Name -> Manifest \cup {None}]
      <3>1. PICK f \in Name :
              \/ \E m \in Manifest : disk' = [disk EXCEPT ![f] = m]
              \/ disk' = [disk EXCEPT ![f] = None]
              \/ disk[f] # None /\ \E id \in Name : disk' = [disk EXCEPT ![f].id = id]
        BY <1>7 DEF EditByHand
      <3>2. CASE disk[f] # None /\ \E id \in Name : disk' = [disk EXCEPT ![f].id = id]
        <4>1. PICK id \in Name : disk' = [disk EXCEPT ![f].id = id]
          BY <3>2
        <4>2. disk \in [Name -> Manifest \cup {None}] /\ disk[f] \in Manifest
          BY <3>2 DEF TypesInv
        <4>3. [disk[f] EXCEPT !.id = id] \in Manifest
          BY <4>2 DEF Manifest
        <4>4. QED
          BY <4>1, <4>2, <4>3
      <3>3. disk \in [Name -> Manifest \cup {None}]
        BY DEF TypesInv
      <3>4. QED
        BY <3>1, <3>2, <3>3
    <2>2. used' \in [requests : 0 .. MaxRequests, edits : 0 .. MaxEdits, left : BOOLEAN]
      <3>1. used' = [used EXCEPT !.edits = @ + 1] /\ used.edits < MaxEdits
        BY <1>7 DEF EditByHand
      <3>2. used.edits + 1 \in 0 .. MaxEdits
        BY <3>1 DEF TypesInv
      <3>3. QED
        BY <3>1, <3>2 DEF TypesInv
    <2>3. QED
      BY <1>7, <2>1, <2>2 DEF TypesInv, EditByHand, callVars
  <1>8. QED
    BY <1>1, <1>2, <1>3, <1>4, <1>5, <1>6, <1>7

LEMMA NextTypes ==
  ASSUME TypesInv, PlaceInv, [Next]_vars
  PROVE  TypesInv'
  <1>1. CASE UNCHANGED vars
    BY <1>1 DEF vars, callVars, TypesInv
  <1>2. QED
    BY <1>1, BeginTypes, MakesTypes, ServeTypes, UnregisterTypes, ReadsTypes, ForgetTypes,
       MarkTypes, UnmountTypes, UnmountedTypes, StartTypes, MountsTypes, EndsTypes
    DEF Next, Waits, Works, Makes, Mounts

-----------------------------------------------------------------------------
(* Places *)

\* What nobody else's step touches stays in its place.
LEMMA OneMoves ==
  ASSUME PlaceInv, NEW c \in Goroutine, Place(c)',
         \A d \in Goroutine \ {c} :
            pc'[d] = pc[d] /\ want'[d] = want[d] /\ regs'[d] = regs[d] /\ task'[d] = task[d]
  PROVE  PlaceInv'
  BY DEF PlaceInv, Place, Files, Opening

LEMMA StaysInPlace ==
  ASSUME PlaceInv, UNCHANGED <<pc, want, regs, task>>
  PROVE  PlaceInv'
  BY DEF PlaceInv, Place, Files, Opening

\* A goroutine without mounts goes to q.
LEMMA GoesInPlace ==
  ASSUME TypesInv, PlaceInv, NEW c \in Goroutine, NEW q, Goes(c, q),
         pc[c] \notin {"mountEach", "await"},
         c = Boot => q \in BootPc,
         q \in MakingPc => want'[c] \in Manifest,
         \A d \in Goroutine \ {c} : want'[d] = want[d] /\ regs'[d] = regs[d],
         UNCHANGED task
  PROVE  PlaceInv'
  <1>1. pc'[c] = q /\ \A d \in Goroutine \ {c} : pc'[d] = pc[d]
    BY DEF TypesInv, Goes
  <1>2. task[c] = NoTasks
    BY DEF PlaceInv, Place
  <1>3. Place(c)'
    BY <1>1, <1>2, NoTasksType DEF Place, Files, Opening
  <1>4. QED
    BY <1>1, <1>3, OneMoves

LEMMA ReturnsInPlace ==
  ASSUME TypesInv, PlaceInv, NEW c \in Goroutine, Returns(c), task[c] = NoTasks
  PROVE  PlaceInv'
  <1>1. pc'[c] = "idle" /\ UNCHANGED task
    BY DEF TypesInv, Returns, Goes
  <1>2. Place(c)'
    BY <1>1, NoTasksType DEF Place, Opening, BootPc, MakingPc
  <1>3. \A d \in Goroutine \ {c} : pc'[d] = pc[d] /\ want'[d] = want[d] /\ regs'[d] = regs[d]
    BY DEF TypesInv, Returns, Goes
  <1>4. QED
    BY <1>1, <1>2, <1>3, OneMoves

LEMMA NoTasksElsewhere ==
  ASSUME PlaceInv, NEW c \in Goroutine, pc[c] \notin {"mountEach", "await"}
  PROVE  task[c] = NoTasks
  BY DEF PlaceInv, Place

LEMMA BeginInPlace ==
  ASSUME TypesInv, PlaceInv, NEW c \in Caller, Begin(c)
  PROVE  PlaceInv'
  <1>1. PICK kind \in Requests, id \in Name, s \in Storage :
          /\ Goes(c, kind)
          /\ want' = [want EXCEPT ![c] =
               CASE kind \in {"create", "connect"} -> [id |-> id, storage |-> s]
                 [] kind \in {"remove", "reload"} -> [id |-> id, storage |-> None]
                 [] OTHER -> NoWant]
    BY DEF Begin
  <1>2. c \in Goroutine /\ c # Boot /\ pc[c] = "idle" /\ UNCHANGED <<regs, task>>
    BY DEF Begin, Goroutine
  <1>3. \A d \in Goroutine \ {c} : want'[d] = want[d] /\ regs'[d] = regs[d]
    BY <1>1, <1>2 DEF TypesInv
  <1>4. kind \in MakingPc => want'[c] \in Manifest
    BY <1>1, <1>2 DEF MakingPc, Manifest, TypesInv
  <1>5. QED
    BY <1>1, <1>2, <1>3, <1>4, GoesInPlace

LEMMA RequestsInPlace ==
  ASSUME TypesInv, PlaceInv, NEW c \in Goroutine,
         \/ Makes(c) \/ Serve(c)
         \/ Unregister(c) \/ ReloadReads(c) \/ ReloadAllReads(c) \/ ForgetGone(c) \/ Mark(c)
  PROVE  PlaceInv'
  <1>1. pc[c] \in MakingPc \cup {"remove", "reload", "reloadAll", "forget", "mark"}
    BY MakesIs DEF Serve, Unregister, ReloadReads, ReloadAllReads, ForgetGone, Mark, MakingPc
  <1>2. c # Boot /\ task[c] = NoTasks /\ pc[c] \notin {"mountEach", "await"}
    BY <1>1 DEF PlaceInv, Place, MakingPc, BootPc
  <1>3. CASE Returns(c)
    BY <1>2, <1>3, ReturnsInPlace
  <1>4. CASE (\E q \in MakingPc : Goes(c, q)) /\ UNCHANGED <<want, regs, task>> /\ pc[c] \in MakingPc
    <2>1. want[c] \in Manifest
      BY <1>4 DEF PlaceInv, Place
    <2>2. QED
      BY <1>2, <1>4, <2>1, GoesInPlace
  <1>5. CASE /\ \/ Goes(c, "unmountRemoved") \/ Goes(c, "mark") \/ Goes(c, "forget")
                \/ Goes(c, "unmountGone") \/ Goes(c, "unmountOld")
             /\ UNCHANGED <<want, task>> /\ \A d \in Goroutine \ {c} : regs'[d] = regs[d]
    BY <1>2, <1>5, GoesInPlace DEF MakingPc
  <1>6. CASE Makes(c)
    BY <1>3, <1>4, <1>6, MakesIs
  <1>7. CASE Unregister(c) \/ ReloadReads(c) \/ ReloadAllReads(c)
    BY <1>3, <1>5, <1>7 DEF Unregister, ReloadReads, ReloadAllReads, TypesInv
  <1>8. CASE ForgetGone(c) \/ Mark(c)
    BY <1>5, <1>8 DEF ForgetGone, Mark
  <1>9. QED
    BY <1>3, <1>6, <1>7, <1>8 DEF Serve

LEMMA UnmountsInPlace ==
  ASSUME TypesInv, PlaceInv, NEW c \in Goroutine, Unmount(c) \/ Unmounted(c) \/ AllSettled(c)
  PROVE  PlaceInv'
  <1>1. CASE Unmount(c)
    BY <1>1, StaysInPlace DEF Unmount
  <1>2. CASE AllSettled(c)
    BY <1>2, ReturnsInPlace DEF AllSettled
  <1>3. CASE Unmounted(c)
    <2>1. pc[c] \notin {"mountEach", "await"}
      BY <1>3 DEF Unmounted
    <2>2. CASE Returns(c)
      BY <2>1, <2>2, ReturnsInPlace, NoTasksElsewhere
    <2>3. CASE /\ \/ pc[c] = "unmountGone" /\ Goes(c, "mark")
                  \/ Goes(c, "mountEach") \/ Goes(c, "closed")
               /\ UNCHANGED <<want, regs, task>>
      <3>1. c = Boot => ~(pc[c] = "unmountGone")
        BY DEF PlaceInv, Place, BootPc
      <3>2. QED
        BY <2>1, <2>3, <3>1, GoesInPlace DEF BootPc, MakingPc
    <2>4. QED
      BY <1>3, <2>2, <2>3 DEF Unmounted
  <1>4. QED
    BY <1>1, <1>2, <1>3

LEMMA StartInPlace ==
  ASSUME TypesInv, PlaceInv, NEW c \in Goroutine, StartMount(c)
  PROVE  PlaceInv'
  <1>1. pc[c] = "mountEach" /\ UNCHANGED want /\ Place(c)
    BY DEF StartMount, PlaceInv
  <1>2. ASSUME NEW f \in Files(c),
               /\ regs' = [regs EXCEPT ![c][f] = None]
               /\ task' = [task EXCEPT ![c][f] =
                    [id |-> regs[c][f], gen |-> gen[f], phase |-> "check", db |-> None]]
               /\ UNCHANGED pc
        PROVE  PlaceInv'
    <2>1. f \in Name
      BY DEF Files
    <2>2. \A g \in Files(c)' : g \in Files(c) /\ g # f
      BY <1>2, <2>1 DEF Files, TypesInv
    <2>3. \A g \in Name \ {f} : task'[c][g] = task[c][g]
      BY <1>2, <2>1 DEF TypesInv
    <2>4. ~Opening(c, f)'
      BY <1>2, <2>1 DEF Opening, TypesInv
    <2>5. Place(c)'
      BY <1>1, <1>2, <2>1, <2>2, <2>3, <2>4 DEF Place, Opening, MakingPc, Files
    <2>6. \A d \in Goroutine \ {c} : regs'[d] = regs[d] /\ task'[d] = task[d]
      BY <1>2, <2>1 DEF TypesInv
    <2>7. QED
      BY <1>1, <1>2, <2>5, <2>6, OneMoves
  <1>3. CASE Goes(c, "await") /\ UNCHANGED <<regs, task>>
    <2>1. pc'[c] = "await" /\ \A d \in Goroutine \ {c} : pc'[d] = pc[d]
      BY <1>3 DEF TypesInv, Goes
    <2>2. Place(c)'
      BY <1>1, <1>3, <2>1 DEF Place, Opening, MakingPc, BootPc
    <2>3. QED
      BY <1>1, <1>3, <2>1, <2>2, OneMoves
  <1>4. QED
    BY <1>2, <1>3 DEF StartMount

\* A mount moves where a mount was.
LEMMA MountsInPlace ==
  ASSUME TypesInv, PlaceInv, NEW c \in Goroutine, NEW f \in Name,
         task[c][f] # None, UNCHANGED <<pc, want, regs>>,
         NEW t \in Task \cup {None}, task' = [task EXCEPT ![c][f] = t],
         t # None /\ t.phase = "opened" => t.db \in Name
  PROVE  PlaceInv'
  <1>1. task[c] # NoTasks /\ pc[c] \in {"mountEach", "await"} /\ Place(c)
    BY NoTasksType DEF PlaceInv, Place
  <1>2. /\ task'[c][f] = t
        /\ \A g \in Name \ {f} : task'[c][g] = task[c][g]
        /\ \A d \in Goroutine \ {c} : task'[d] = task[d]
    BY DEF TypesInv
  <1>3. (Files(c)' = Files(c) /\ f \notin Files(c)) \/ pc[c] = "await"
    BY <1>1 DEF Place, Files
  <1>4. Place(c)'
    BY <1>1, <1>2, <1>3 DEF Place, Opening, Files, MakingPc
  <1>5. QED
    BY <1>2, <1>4, OneMoves

LEMMA SettlesInPlace ==
  ASSUME TypesInv, PlaceInv, NEW c \in Goroutine, NEW f \in Name,
         Check(c, f) \/ Open(c, f) \/ Settle(c, f) \/ TimeOut(c, f)
  PROVE  PlaceInv'
  <1>1. CASE Check(c, f)
    <2>1. PICK t \in Task : task' = [task EXCEPT ![c][f] = t] /\ t.phase # "opened"
      BY <1>1, CheckIs
    <2>2. QED
      BY <1>1, <2>1, MountsInPlace DEF Check
  <1>2. CASE Open(c, f)
    <2>1. PICK t \in Task : /\ task' = [task EXCEPT ![c][f] = t]
                            /\ t.phase = "opened" => t.db \in Name
      BY <1>2, OpenIs
    <2>2. QED
      BY <1>2, <2>1, MountsInPlace DEF Open
  <1>3. CASE Settle(c, f) \/ TimeOut(c, f)
    <2>1. /\ task' = [task EXCEPT ![c][f] = None]
          /\ task[c][f] # None /\ UNCHANGED <<pc, want, regs>>
      BY <1>3 DEF Settle, TimeOut
    <2>2. QED
      BY <2>1, MountsInPlace
  <1>4. QED
    BY <1>1, <1>2, <1>3

LEMMA EndsInPlace ==
  ASSUME TypesInv, PlaceInv,
         \/ \E c \in Caller : Cancel(c)
         \/ MountAllReads \/ MountAllPicks \/ Stop \/ Close \/ CloseWhenDone \/ EditByHand
  PROVE  PlaceInv'
  <1>0. Boot \in Goroutine
    BY DEF Goroutine
  <1>1. ASSUME NEW c \in Caller, Cancel(c)
        PROVE  PlaceInv'
    <2>1. c \in Goroutine /\ c # Boot
      BY DEF Goroutine
    <2>2. pc'[c] = "idle" /\ task'[c] = NoTasks /\ UNCHANGED regs
      BY <1>1, <2>1 DEF TypesInv, Cancel, Goes, Abandons
    <2>3. \A d \in Goroutine \ {c} : pc'[d] = pc[d] /\ want'[d] = want[d] /\ task'[d] = task[d]
      BY <1>1, <2>1 DEF TypesInv, Cancel, Goes, Abandons
    <2>4. Place(c)'
      BY <2>1, <2>2, NoTasksType DEF Place, Opening, MakingPc
    <2>5. QED
      BY <2>1, <2>2, <2>3, <2>4, OneMoves
  <1>2. CASE MountAllReads
    <2>1. \A d \in Goroutine \ {Boot} : want'[d] = want[d] /\ regs'[d] = regs[d]
      BY <1>2 DEF TypesInv, MountAllReads
    <2>2. QED
      BY <1>0, <1>2, <2>1, GoesInPlace DEF MountAllReads, BootPc, MakingPc
  <1>3. CASE MountAllPicks
    <2>1. \A d \in Goroutine \ {Boot} : regs'[d] = regs[d]
      BY <1>3 DEF TypesInv, MountAllPicks
    <2>2. Goes(Boot, "mountEach") /\ UNCHANGED <<want, task>> /\ pc[Boot] = "pending"
      BY <1>3 DEF MountAllPicks
    <2>3. QED
      BY <1>0, <2>1, <2>2, GoesInPlace DEF BootPc, MakingPc
  <1>4. CASE Stop
    <2>1. pc'[Boot] = "draining" /\ task'[Boot] = NoTasks
      BY <1>0, <1>4 DEF TypesInv, Stop, Goes, Abandons
    <2>2. \A d \in Goroutine \ {Boot} :
            pc'[d] = pc[d] /\ want'[d] = want[d] /\ regs'[d] = regs[d] /\ task'[d] = task[d]
      BY <1>4 DEF TypesInv, Stop, Goes, Abandons
    <2>3. Place(Boot)'
      BY <2>1, NoTasksType DEF Place, Opening, MakingPc, BootPc
    <2>4. QED
      BY <1>0, <2>2, <2>3, OneMoves
  <1>5. CASE Close
    BY <1>0, <1>5, GoesInPlace DEF Close, BootPc, MakingPc
  <1>6. CASE CloseWhenDone \/ EditByHand
    BY <1>6, StaysInPlace DEF CloseWhenDone, EditByHand, callVars
  <1>7. QED
    BY <1>1, <1>2, <1>3, <1>4, <1>5, <1>6

LEMMA NextInPlace ==
  ASSUME TypesInv, PlaceInv, [Next]_vars
  PROVE  PlaceInv'
  <1>1. CASE UNCHANGED vars
    BY <1>1, StaysInPlace DEF vars, callVars
  <1>2. QED
    BY <1>1, BeginInPlace, RequestsInPlace, UnmountsInPlace, StartInPlace, SettlesInPlace, EndsInPlace
    DEF Next, Waits, Works, Makes, Mounts

LEMMA InitInPlace ==
  ASSUME Init
  PROVE  PlaceInv
  BY NoTasksType DEF Init, PlaceInv, Place, Opening, BootPc, MakingPc, Goroutine

-----------------------------------------------------------------------------
(* Databases that are open *)

LEMMA FiniteOwners ==
  /\ IsFiniteSet(Served) /\ IsFiniteSet(Opened) /\ IsFiniteSet(Making)
  /\ Cardinality(Served) \in Nat /\ Cardinality(Opened) \in Nat /\ Cardinality(Making) \in Nat
  <1>1. IsFiniteSet(Goroutine)
    <2>1. Goroutine = Caller \cup {Boot}
      BY DEF Goroutine
    <2>2. QED
      BY <2>1, FS_AddElement
  <1>2. IsFiniteSet(Goroutine \X Name)
    BY <1>1, FS_Product
  <1>3. IsFiniteSet(Served)
    BY FS_Subset DEF Served
  <1>4. IsFiniteSet(Opened)
    BY <1>2, FS_Subset DEF Opened
  <1>5. IsFiniteSet(Making)
    BY <1>1, FS_Subset DEF Making
  <1>6. QED
    BY <1>3, <1>4, <1>5, FS_CardinalityType

LEMMA MakingGoes ==
  ASSUME TypesInv, NEW c \in Goroutine, NEW q, Goes(c, q)
  PROVE  Making' = IF q \in MadePc THEN Making \cup {c} ELSE Making \ {c}
  BY DEF TypesInv, Goes, Making

\* A step that opens and closes nothing.
LEMMA CountStays ==
  ASSUME Counted, Served' = Served, Opened' = Opened, Making' = Making, open' = open
  PROVE  Counted'
  BY DEF Counted

\* A create or connect takes one database in hand, or lets go of it.
LEMMA CountMakes ==
  ASSUME Counted, NEW c \in Goroutine, Served' = Served, Opened' = Opened,
         \/ c \notin Making /\ Making' = Making \cup {c} /\ open' = open + 1
         \/ c \in Making /\ Making' = Making \ {c} /\ open' = open - 1
  PROVE  Counted'
  <1>1. CASE c \notin Making /\ Making' = Making \cup {c} /\ open' = open + 1
    <2>1. Cardinality(Making)' = Cardinality(Making) + 1
      BY <1>1, FiniteOwners, FS_AddElement
    <2>2. QED
      BY <1>1, <2>1, FiniteOwners DEF Counted
  <1>2. CASE c \in Making /\ Making' = Making \ {c} /\ open' = open - 1
    <2>1. Cardinality(Making)' = Cardinality(Making) - 1
      BY <1>2, FiniteOwners, FS_RemoveElement
    <2>2. QED
      BY <1>2, <2>1, FiniteOwners DEF Counted
  <1>3. QED
    BY <1>1, <1>2

LEMMA InitCounted ==
  ASSUME Init
  PROVE  Counted
  <1>1. Served = {}
    BY DEF Init, Served
  <1>2. Opened = {}
    <2>1. \A c \in Goroutine, f \in Name : ~Opening(c, f)
      BY NoTasksType DEF Init, Opening
    <2>2. QED
      BY <2>1 DEF Opened
  <1>3. Making = {}
    BY DEF Init, Making, MadePc
  <1>4. QED
    BY <1>1, <1>2, <1>3, FS_EmptySet DEF Init, Counted

\* A goroutine goes on with, gets or loses the database it makes.
LEMMA CountGoes ==
  ASSUME RegistryInv, NEW c \in Goroutine, NEW q, Goes(c, q), UNCHANGED <<served, task>>,
         \/ open' = open /\ (pc[c] \in MadePc <=> q \in MadePc)
         \/ open' = open + 1 /\ pc[c] \notin MadePc /\ q \in MadePc
         \/ open' = open - 1 /\ pc[c] \in MadePc /\ q \notin MadePc
  PROVE  Counted'
  <1>1. TypesInv /\ Counted
    BY DEF RegistryInv
  <1>2. Served' = Served /\ Opened' = Opened
    BY DEF Served, Opened, Opening
  <1>3. Making' = IF q \in MadePc THEN Making \cup {c} ELSE Making \ {c}
    BY <1>1, MakingGoes
  <1>4. c \in Making <=> pc[c] \in MadePc
    BY DEF Making
  <1>5. CASE open' = open /\ (pc[c] \in MadePc <=> q \in MadePc)
    <2>1. Making' = Making
      BY <1>3, <1>4, <1>5
    <2>2. QED
      BY <1>1, <1>2, <1>5, <2>1, CountStays
  <1>6. CASE open' = open + 1 /\ pc[c] \notin MadePc /\ q \in MadePc
    BY <1>1, <1>2, <1>3, <1>4, <1>6, CountMakes
  <1>7. CASE open' = open - 1 /\ pc[c] \in MadePc /\ q \notin MadePc
    BY <1>1, <1>2, <1>3, <1>4, <1>7, CountMakes
  <1>8. QED
    BY <1>5, <1>6, <1>7

LEMMA MakesCounted ==
  ASSUME RegistryInv, NEW c \in Goroutine, Makes(c)
  PROVE  Counted'
  <1>0. UNCHANGED <<served, task>>
    BY MakesIs
  <1>1. CASE Create(c)
    BY <1>0, <1>1, CountGoes DEF Create, Checks, MadePc
  <1>2. CASE Refuse(c)
    BY <1>0, <1>2, CountGoes DEF Refuse, Returns, MadePc
  <1>3. CASE Provision(c)
    BY <1>0, <1>3, CountGoes DEF Provision, Returns, MadePc
  <1>4. CASE ConnectPlans(c)
    BY <1>0, <1>4, CountGoes DEF ConnectPlans, Checks, Returns, MadePc
  <1>5. CASE ConnectPlanned(c)
    BY <1>0, <1>5, CountGoes DEF ConnectPlanned, MadePc
  <1>6. CASE ConnectMounts(c)
    BY <1>0, <1>6, CountGoes DEF ConnectMounts, Returns, MadePc
  <1>7. CASE ConnectCommits(c)
    BY <1>0, <1>7, CountGoes DEF ConnectCommits, Checks, MadePc
  <1>8. CASE ConnectRenames(c)
    BY <1>0, <1>8, CountGoes DEF ConnectRenames, Returns, MadePc
  <1>9. QED
    BY <1>1, <1>2, <1>3, <1>4, <1>5, <1>6, <1>7, <1>8 DEF Makes

LEMMA ServeCounted ==
  ASSUME RegistryInv, NEW c \in Goroutine, Serve(c)
  PROVE  Counted'
  <1> DEFINE id == want[c].id
  <1>0. TypesInv /\ PlaceInv /\ Counted
    BY DEF RegistryInv
  <1>1. id \in Name /\ Returns(c) /\ c \in Making
    BY <1>0 DEF Serve, PlaceInv, Place, MakingPc, Manifest, Making, MadePc
  <1>2. Opened' = Opened /\ Making' = Making \ {c}
    BY <1>0, <1>1, MakingGoes DEF Returns, Opened, Opening, MadePc
  <1>3. CASE served[id] = None /\ served' = [served EXCEPT ![id] = id] /\ open' = open
    <2>1. Served' = Served \cup {id} /\ id \notin Served
      BY <1>0, <1>1, <1>3 DEF Served, TypesInv
    <2>2. Cardinality(Served)' = Cardinality(Served) + 1
      BY <2>1, FiniteOwners, FS_AddElement
    <2>3. Cardinality(Making)' = Cardinality(Making) - 1
      BY <1>1, <1>2, FiniteOwners, FS_RemoveElement
    <2>4. QED
      BY <1>0, <1>2, <1>3, <2>2, <2>3, FiniteOwners DEF Counted
  <1>4. CASE open' = open - 1 /\ served' = served
    <2>1. Served' = Served
      BY <1>4 DEF Served
    <2>2. QED
      BY <1>0, <1>1, <1>2, <1>4, <2>1, CountMakes
  <1>5. QED
    BY <1>3, <1>4 DEF Serve

LEMMA UnmountCounted ==
  ASSUME RegistryInv, NEW c \in Goroutine, Unmount(c)
  PROVE  Counted'
  <1>0. TypesInv /\ Counted
    BY DEF RegistryInv
  <1>1. PICK id \in todo[c] :
          /\ served' = [served EXCEPT ![id] = None]
          /\ open' = IF served[id] = None THEN open ELSE open - 1
    BY DEF Unmount
  <1>2. id \in Name
    BY <1>0 DEF TypesInv
  <1>3. Opened' = Opened /\ Making' = Making
    BY DEF Unmount, Opened, Opening, Making
  <1>4. Served' = Served \ {id}
    BY <1>0, <1>1, <1>2 DEF Served, TypesInv
  <1>5. CASE served[id] = None
    <2>1. Served' = Served
      BY <1>4, <1>5 DEF Served
    <2>2. QED
      BY <1>0, <1>1, <1>3, <1>5, <2>1, CountStays
  <1>6. CASE served[id] # None
    <2>1. id \in Served
      BY <1>2, <1>6 DEF Served
    <2>2. Cardinality(Served)' = Cardinality(Served) - 1
      BY <1>4, <2>1, FiniteOwners, FS_RemoveElement
    <2>3. QED
      BY <1>0, <1>1, <1>3, <1>6, <2>2, FiniteOwners DEF Counted
  <1>7. QED
    BY <1>5, <1>6

\* What one mount does to the set of those that have a database open.
LEMMA OpenedMoves ==
  ASSUME TypesInv, NEW c \in Goroutine, NEW f \in Name, NEW t \in Task \cup {None},
         task' = [task EXCEPT ![c][f] = t]
  PROVE  /\ t # None /\ t.phase = "opened" => Opened' = Opened \cup {<<c, f>>}
         /\ t = None \/ t.phase # "opened" => Opened' = Opened \ {<<c, f>>}
  <1>1. task'[c][f] = t /\ \A d \in Goroutine, g \in Name : d # c \/ g # f => task'[d][g] = task[d][g]
    BY DEF TypesInv
  <1>2. \A x \in Goroutine \X Name : x # <<c, f>> => task'[x[1]][x[2]] = task[x[1]][x[2]]
    BY <1>1
  <1>3. <<c, f>> \in Goroutine \X Name /\ <<c, f>>[1] = c /\ <<c, f>>[2] = f
    OBVIOUS
  <1>4. \A x \in Goroutine \X Name : x # <<c, f>> => (Opening(x[1], x[2])' <=> Opening(x[1], x[2]))
    BY <1>2 DEF Opening
  <1>5. Opening(c, f)' <=> (t # None /\ t.phase = "opened")
    BY <1>1 DEF Opening
  <1>6. QED
    BY <1>3, <1>4, <1>5 DEF Opened

LEMMA OpensCounted ==
  ASSUME RegistryInv, NEW c \in Goroutine, NEW f \in Name, Check(c, f) \/ Open(c, f) \/ TimeOut(c, f)
  PROVE  Counted'
  <1>0. TypesInv /\ Counted
    BY DEF RegistryInv
  <1>1. Served' = Served /\ Making' = Making
    BY DEF Check, Open, TimeOut, Served, Making
  <1>2. <<c, f>> \notin Opened
    BY DEF Check, Open, TimeOut, Opened, Opening
  <1>3. ASSUME NEW t \in Task \cup {None}, task' = [task EXCEPT ![c][f] = t],
               t = None \/ t.phase # "opened", open' = open
        PROVE  Counted'
    <2>1. Opened' = Opened \ {<<c, f>>}
      BY <1>0, <1>3, OpenedMoves
    <2>2. Opened' = Opened
      BY <1>2, <2>1
    <2>3. QED
      BY <1>0, <1>1, <1>3, <2>2, CountStays
  <1>4. CASE Check(c, f)
    <2>1. PICK t \in Task : task' = [task EXCEPT ![c][f] = t] /\ t.phase # "opened"
      BY <1>0, <1>4, CheckIs
    <2>2. QED
      BY <1>3, <1>4, <2>1 DEF Check
  <1>5. CASE TimeOut(c, f)
    BY <1>3, <1>5 DEF TimeOut
  <1>6. CASE Open(c, f)
    <2>1. PICK t \in Task :
            /\ task' = [task EXCEPT ![c][f] = t]
            /\ \/ t.phase = "failed" /\ open' = open
               \/ t.phase = "opened" /\ open' = open + 1
      BY <1>0, <1>6, OpenIs
    <2>2. CASE t.phase = "failed" /\ open' = open
      BY <1>3, <2>1, <2>2
    <2>3. CASE t.phase = "opened" /\ open' = open + 1
      <3>1. t # None
        BY NoneAssumption
      <3>2. Opened' = Opened \cup {<<c, f>>}
        BY <1>0, <2>1, <2>3, <3>1, OpenedMoves
      <3>3. Cardinality(Opened)' = Cardinality(Opened) + 1
        BY <1>2, <3>2, FiniteOwners, FS_AddElement
      <3>4. QED
        BY <1>0, <1>1, <2>3, <3>3, FiniteOwners DEF Counted
    <2>4. QED
      BY <2>1, <2>2, <2>3
  <1>7. QED
    BY <1>4, <1>5, <1>6

LEMMA SettleCounted ==
  ASSUME RegistryInv, NEW c \in Goroutine, NEW f \in Name, Settle(c, f)
  PROVE  Counted'
  <1>0. TypesInv /\ PlaceInv /\ Counted
    BY DEF RegistryInv
  <1>1. Making' = Making /\ task' = [task EXCEPT ![c][f] = None]
    BY DEF Settle, Making
  <1>2. Opened' = Opened \ {<<c, f>>}
    BY <1>0, <1>1, OpenedMoves
  <1>3. CASE task[c][f].phase = "failed" /\ served' = served /\ open' = open
    <2>1. <<c, f>> \notin Opened
      BY <1>3 DEF Opened, Opening
    <2>2. Opened' = Opened /\ Served' = Served
      BY <1>2, <1>3, <2>1 DEF Served
    <2>3. QED
      BY <1>0, <1>1, <1>3, <2>2, CountStays
  <1>4. ASSUME task[c][f].phase = "opened"
        PROVE  Cardinality(Opened)' = Cardinality(Opened) - 1 /\ task[c][f].db \in Name
    <2>1. Opening(c, f) /\ <<c, f>> \in Goroutine \X Name /\ <<c, f>>[1] = c /\ <<c, f>>[2] = f
      BY <1>4 DEF Settle, Opening
    <2>2. <<c, f>> \in Opened
      BY <2>1 DEF Opened
    <2>3. task[c][f].db \in Name
      BY <1>0, <2>1 DEF PlaceInv, Place
    <2>4. QED
      BY <1>2, <2>2, <2>3, FiniteOwners, FS_RemoveElement
  <1>5. CASE task[c][f].phase = "opened" /\ open' = open - 1 /\ served' = served
    <2>1. Served' = Served
      BY <1>5 DEF Served
    <2>2. QED
      BY <1>0, <1>1, <1>4, <1>5, <2>1, FiniteOwners DEF Counted
  <1>6. CASE /\ task[c][f].phase = "opened" /\ open' = open
             /\ served[task[c][f].db] = None
             /\ served' = [served EXCEPT ![task[c][f].db] = f]
    <2>1. Served' = Served \cup {task[c][f].db} /\ task[c][f].db \notin Served
      BY <1>0, <1>4, <1>6 DEF Served, TypesInv
    <2>2. Cardinality(Served)' = Cardinality(Served) + 1
      BY <2>1, FiniteOwners, FS_AddElement
    <2>3. QED
      BY <1>0, <1>1, <1>4, <1>6, <2>2, FiniteOwners DEF Counted
  <1>7. QED
    BY <1>3, <1>5, <1>6 DEF Settle

LEMMA StartCounted ==
  ASSUME RegistryInv, NEW c \in Goroutine, StartMount(c)
  PROVE  Counted'
  <1>0. TypesInv /\ PlaceInv /\ Counted
    BY DEF RegistryInv
  <1>1. Served' = Served /\ open' = open
    BY DEF StartMount, Served
  <1>2. ASSUME NEW f \in Files(c),
               task' = [task EXCEPT ![c][f] =
                    [id |-> regs[c][f], gen |-> gen[f], phase |-> "check", db |-> None]],
               UNCHANGED pc
        PROVE  Counted'
    <2> DEFINE t == [id |-> regs[c][f], gen |-> gen[f], phase |-> "check", db |-> None]
    <2>1. f \in Name /\ t \in Task
      <3>1. f \in Name /\ regs[c][f] \in Name /\ gen[f] \in Nat
        BY <1>0, <1>2, RegAt
      <3>2. QED
        BY <3>1 DEF Task
    <2>2. <<c, f>> \notin Opened
      <3>1. task[c][f] = None
        BY <1>0, <1>2 DEF PlaceInv, Place, StartMount
      <3>2. QED
        BY <3>1 DEF Opened, Opening
    <2>3. t.phase = "check"
      OBVIOUS
    <2>4. task' = [task EXCEPT ![c][f] = t]
      BY <1>2
    <2> HIDE DEF t
    <2>5. Opened' = Opened
      <3>1. Opened' = Opened \ {<<c, f>>}
        BY <1>0, <2>1, <2>3, <2>4, OpenedMoves
      <3>2. QED
        BY <2>2, <3>1
    <2>6. Making' = Making
      BY <1>2 DEF Making
    <2>7. QED
      BY <1>0, <1>1, <2>5, <2>6, CountStays
  <1>3. CASE Goes(c, "await") /\ UNCHANGED task
    <2>1. Making' = Making /\ Opened' = Opened
      BY <1>0, <1>3, MakingGoes DEF Making, MadePc, StartMount, Opened, Opening
    <2>2. QED
      BY <1>0, <1>1, <2>1, CountStays
  <1>4. QED
    BY <1>2, <1>3 DEF StartMount

\* The databases that the mounts of c have open are closed.
LEMMA AbandonsCounted ==
  ASSUME RegistryInv, NEW c \in Goroutine, Abandons(c), Served' = Served, Making' = Making
  PROVE  Counted'
  <1>0. TypesInv /\ Counted
    BY DEF RegistryInv
  <1> DEFINE opened == {f \in Name : task[c][f] # None /\ task[c][f].phase = "opened"}
             its == {c} \X opened
  <1>1. task' = [task EXCEPT ![c] = NoTasks] /\ open' = open - Cardinality(opened)
    BY DEF Abandons
  <1>2. Opened' = Opened \ its
    <2>1. \A x \in Goroutine \X Name : x[1] # c => task'[x[1]][x[2]] = task[x[1]][x[2]]
      BY <1>0, <1>1 DEF TypesInv
    <2>2. \A f \in Name : task'[c][f] = None
      BY <1>0, <1>1, NoTasksType DEF TypesInv
    <2>3. \A x \in Goroutine \X Name : Opening(x[1], x[2])' <=> (Opening(x[1], x[2]) /\ x[1] # c)
      BY <2>1, <2>2 DEF Opening
    <2>4. \A x \in Opened : x \in its <=> x[1] = c
      BY DEF Opened, Opening
    <2>5. QED
      BY <2>3, <2>4 DEF Opened
  <1>3. its \subseteq Opened
    BY DEF Opened, Opening
  <1>4. IsFiniteSet(opened) /\ Cardinality(opened) \in Nat
    BY FS_Subset, FS_CardinalityType
  <1>5. Cardinality(its) = Cardinality(opened)
    <2>1. IsFiniteSet({c}) /\ Cardinality({c}) = 1
      BY FS_Singleton
    <2>2. Cardinality(its) = 1 * Cardinality(opened)
      BY <1>4, <2>1, FS_Product
    <2> HIDE DEF its, opened
    <2>3. QED
      BY <1>4, <2>2
  <1>6. IsFiniteSet(its)
    BY <1>3, FiniteOwners, FS_Subset
  <1>7. Cardinality(Opened)' = Cardinality(Opened) - Cardinality(its)
    <2>1. Opened \cap its = its
      BY <1>3
    <2> HIDE DEF its
    <2>2. Cardinality(Opened \ its) = Cardinality(Opened) - Cardinality(Opened \cap its)
      BY FiniteOwners, FS_Difference
    <2>3. QED
      BY <1>2, <2>1, <2>2
  <1> HIDE DEF its, opened
  <1>8. QED
    BY <1>0, <1>1, <1>4, <1>5, <1>7, FiniteOwners DEF Counted

LEMMA NextCounted ==
  ASSUME RegistryInv, [Next]_vars
  PROVE  Counted'
  <1>0. TypesInv /\ PlaceInv /\ Counted /\ Boot \in Goroutine /\ Caller \subseteq Goroutine
    BY DEF RegistryInv, Goroutine
  <1>1. CASE UNCHANGED vars
    BY <1>0, <1>1, CountStays DEF vars, callVars, Served, Opened, Opening, Making
  <1>2. ASSUME NEW c \in Goroutine, UNCHANGED <<served, task, open>>,
               \E q \in Pc \ MadePc : Goes(c, q) /\ pc[c] \notin MadePc
        PROVE  Counted'
    <2>1. Served' = Served /\ Opened' = Opened
      BY <1>2 DEF Served, Opened, Opening
    <2>2. Making' = Making
      BY <1>0, <1>2, MakingGoes DEF Making
    <2>3. QED
      BY <1>0, <1>2, <2>1, <2>2, CountStays
  <1>3. ASSUME NEW c \in Caller, Begin(c)
        PROVE  Counted'
    <2>1. PICK kind \in Requests : Goes(c, kind)
      BY <1>3 DEF Begin
    <2>2. kind \in Pc \ MadePc
      BY DEF Pc, MadePc
    <2>3. QED
      BY <1>0, <1>2, <1>3, <2>1, <2>2 DEF Begin, MadePc
  <1>4. ASSUME NEW c \in Caller, Cancel(c)
        PROVE  Counted'
    <2>1. Making' = Making /\ Served' = Served
      BY <1>0, <1>4, MakingGoes DEF Cancel, Making, MadePc, Served
    <2>2. QED
      BY <1>0, <1>4, <2>1, AbandonsCounted DEF Cancel
  <1>5. CASE Stop
    <2>1. Boot \notin Making
      BY <1>0 DEF PlaceInv, Place, BootPc, Making, MadePc
    <2>2. Goes(Boot, "draining") /\ Abandons(Boot) /\ UNCHANGED served
      BY <1>5 DEF Stop
    <2>3. Making' = Making
      BY <1>0, <2>1, <2>2, MakingGoes DEF MadePc
    <2>4. Served' = Served
      BY <2>2 DEF Served
    <2>5. QED
      BY <1>0, <2>2, <2>3, <2>4, AbandonsCounted
  <1>6. ASSUME NEW c \in Goroutine,
               Unregister(c) \/ ReloadReads(c) \/ ReloadAllReads(c) \/ ForgetGone(c) \/ Mark(c)
        PROVE  Counted'
    <2>1. UNCHANGED <<served, task, open>>
      BY <1>6 DEF Unregister, ReloadReads, ReloadAllReads, ForgetGone, Mark, Returns
    <2>2. /\ pc[c] \notin MadePc
          /\ \/ Goes(c, "idle") \/ Goes(c, "unmountRemoved") \/ Goes(c, "mark") \/ Goes(c, "forget")
             \/ Goes(c, "unmountGone") \/ Goes(c, "unmountOld")
      BY <1>6 DEF Unregister, ReloadReads, ReloadAllReads, ForgetGone, Mark, Returns, MadePc
    <2>3. QED
      BY <1>2, <2>1, <2>2 DEF Pc, MadePc
  <1>7. ASSUME NEW c \in Goroutine, Unmounted(c) \/ AllSettled(c)
        PROVE  Counted'
    <2>1. UNCHANGED <<served, task, open>>
      BY <1>7 DEF Unmounted, AllSettled, Returns
    <2>2. /\ pc[c] \notin MadePc
          /\ Goes(c, "idle") \/ Goes(c, "mark") \/ Goes(c, "mountEach") \/ Goes(c, "closed")
      BY <1>7 DEF Unmounted, AllSettled, Returns, MadePc
    <2>3. QED
      BY <1>2, <2>1, <2>2 DEF Pc, MadePc
  <1>8. CASE MountAllReads \/ MountAllPicks \/ Close
    <2>1. UNCHANGED <<served, task, open>>
      BY <1>8 DEF MountAllReads, MountAllPicks, Close
    <2>2. /\ pc[Boot] \notin MadePc
          /\ Goes(Boot, "pending") \/ Goes(Boot, "mountEach") \/ Goes(Boot, "unmountAll")
      BY <1>8 DEF MountAllReads, MountAllPicks, Close, MadePc
    <2>3. QED
      BY <1>0, <1>2, <2>1, <2>2 DEF Pc, MadePc
  <1>9. CASE CloseWhenDone \/ EditByHand
    BY <1>0, <1>9, CountStays DEF CloseWhenDone, EditByHand, callVars, Served, Opened, Opening, Making
  <1>10. QED
    BY <1>1, <1>3, <1>4, <1>5, <1>6, <1>7, <1>8, <1>9, MakesCounted, ServeCounted, UnmountCounted,
       StartCounted, OpensCounted, SettleCounted
    DEF Next, Waits, Works, Makes, Mounts

-----------------------------------------------------------------------------
(* Every registry *)

LEMMA RegistryInductive == Spec => []RegistryInv
  <1>1. Init => RegistryInv
    BY InitTypes, InitInPlace, InitCounted DEF RegistryInv
  <1>2. RegistryInv /\ [Next]_vars => RegistryInv'
    <2>1. RegistryInv => TypesInv /\ PlaceInv
      BY DEF RegistryInv
    <2>2. QED
      BY <2>1, NextTypes, NextInPlace, NextCounted DEF RegistryInv
  <1>3. QED
    BY <1>1, <1>2, PTL DEF Spec

\* The registry's state has its type: RegistryTypeOK, for every set of
\* databases, storages and requests; the count of open databases never runs
\* below zero (databases.go:172-174).
THEOREM RegistryTypes == Spec => []RegistryTypeOK
  <1>1. RegistryInv => RegistryTypeOK
    <2>1. Counted => open \in Nat
      BY FiniteOwners DEF Counted
    <2>2. QED
      BY <2>1 DEF RegistryInv, TypesInv, RegistryTypeOK
  <1>2. QED
    BY <1>1, RegistryInductive, PTL

\* However requests, timeouts, disconnects, edits by hand and the shutdown
\* interleave, whatever opened a database serves it or closes it: NothingLeaks
\* (databases.go:172-174, 210-217).
THEOREM OpenedAreServed == Spec => []NothingLeaks
  <1>1. RegistryInv => NothingLeaks
    <2> SUFFICES ASSUME RegistryInv, Quiet
                 PROVE  open = Cardinality(Served)
      BY DEF NothingLeaks, Served
    <2>1. Opened = {}
      BY NoTasksType DEF Quiet, Opened, Opening
    <2>2. Making = {}
      BY DEF Quiet, Making, MadePc
    <2>3. QED
      BY <2>1, <2>2, FS_EmptySet, FiniteOwners DEF RegistryInv, Counted
  <1>2. QED
    BY <1>1, RegistryInductive, PTL

-----------------------------------------------------------------------------
(* A registry whose ids stay apart *)

ownVars == <<disk, mounts, served, regs, task, todo>>

\* What each request leaves alone.
LEMMA RequestFrames ==
  ASSUME NEW c
  PROVE  /\ Begin(c) => UNCHANGED ownVars
         /\ Makes(c) => UNCHANGED <<mounts, served, task, todo>>
         /\ Serve(c) => UNCHANGED <<task, todo>>
         /\ Unregister(c) => UNCHANGED <<served, task>>
         /\ ReloadReads(c) \/ ReloadAllReads(c) => UNCHANGED <<disk, mounts, served, task, todo>>
         /\ ForgetGone(c) \/ Mark(c) => UNCHANGED <<disk, served, regs, task>>
         /\ Unmount(c) => UNCHANGED <<disk, mounts, regs, task>>
         /\ Unmounted(c) \/ AllSettled(c) => UNCHANGED <<disk, mounts, served, task, todo>>
  <1>1. Begin(c) => UNCHANGED ownVars
    BY DEF Begin, ownVars
  <1>2. Makes(c) => UNCHANGED <<mounts, served, task, todo>>
    BY MakesIs
  <1>4. Serve(c) => UNCHANGED <<task, todo>>
    BY DEF Serve, Returns
  <1>5. Unregister(c) => UNCHANGED <<served, task>>
    BY DEF Unregister, Returns
  <1>6. ReloadReads(c) \/ ReloadAllReads(c) => UNCHANGED <<disk, mounts, served, task, todo>>
    BY DEF ReloadReads, ReloadAllReads, Returns
  <1>7. ForgetGone(c) \/ Mark(c) => UNCHANGED <<disk, served, regs, task>>
    BY DEF ForgetGone, Mark
  <1>8. Unmount(c) => UNCHANGED <<disk, mounts, regs, task>>
    BY DEF Unmount
  <1>9. Unmounted(c) \/ AllSettled(c) => UNCHANGED <<disk, mounts, served, task, todo>>
    BY DEF Unmounted, AllSettled, Returns
  <1>10. QED
    BY <1>1, <1>2, <1>4, <1>5, <1>6, <1>7, <1>8, <1>9

\* What each mount, the boot, the shutdown and people leave alone.
LEMMA OtherFrames ==
  ASSUME NEW c, NEW f
  PROVE  /\ StartMount(c) => UNCHANGED <<disk, mounts, served, todo>>
         /\ Check(c, f) \/ Open(c, f) => UNCHANGED <<disk, mounts, served, regs, todo>>
         /\ Settle(c, f) => UNCHANGED <<disk, regs, todo>>
         /\ TimeOut(c, f) => UNCHANGED <<disk, served, regs, todo>>
         /\ Cancel(c) \/ Stop => UNCHANGED <<disk, mounts, served, todo>>
         /\ MountAllReads \/ MountAllPicks => UNCHANGED <<disk, mounts, served, task, todo>>
         /\ Close => UNCHANGED <<disk, served, regs, task>>
         /\ CloseWhenDone \/ UNCHANGED vars => UNCHANGED ownVars
         /\ EditByHand => UNCHANGED <<mounts, served, regs, task, todo>>
  <1>1. StartMount(c) => UNCHANGED <<disk, mounts, served, todo>>
    BY DEF StartMount
  <1>2. Check(c, f) \/ Open(c, f) => UNCHANGED <<disk, mounts, served, regs, todo>>
    BY DEF Check, Open
  <1>3. Settle(c, f) => UNCHANGED <<disk, regs, todo>>
    BY DEF Settle
  <1>4. TimeOut(c, f) => UNCHANGED <<disk, served, regs, todo>>
    BY DEF TimeOut
  <1>5. Cancel(c) \/ Stop => UNCHANGED <<disk, mounts, served, todo>>
    BY DEF Cancel, Stop
  <1>6. MountAllReads \/ MountAllPicks => UNCHANGED <<disk, mounts, served, task, todo>>
    BY DEF MountAllReads, MountAllPicks
  <1>7. Close => UNCHANGED <<disk, served, regs, task>>
    BY DEF Close
  <1>8. CloseWhenDone \/ UNCHANGED vars => UNCHANGED ownVars
    BY DEF CloseWhenDone, vars, callVars, ownVars
  <1>9. EditByHand => UNCHANGED <<mounts, served, regs, task, todo>>
    BY DEF EditByHand, callVars
  <1>10. QED
    BY <1>1, <1>2, <1>3, <1>4, <1>5, <1>6, <1>7, <1>8, <1>9

\* By variable, which actions change it.
LEMMA WhoChanges ==
  ASSUME [Next]_vars
  PROVE  /\ \/ UNCHANGED disk \/ EditByHand
            \/ \E c \in Goroutine : Makes(c) \/ Serve(c) \/ Unregister(c)
         /\ \/ UNCHANGED mounts \/ Close
            \/ \E c \in Goroutine : Serve(c) \/ Unregister(c) \/ ForgetGone(c) \/ Mark(c)
            \/ \E c \in Goroutine, f \in Name : Settle(c, f) \/ TimeOut(c, f)
         /\ \/ UNCHANGED served
            \/ \E c \in Goroutine : Serve(c) \/ Unmount(c)
            \/ \E c \in Goroutine, f \in Name : Settle(c, f)
         /\ \/ UNCHANGED regs \/ MountAllReads \/ MountAllPicks \/ Stop
            \/ \E c \in Goroutine :
                  \/ Makes(c) \/ Serve(c) \/ Unregister(c) \/ ReloadReads(c) \/ ReloadAllReads(c)
                  \/ Unmounted(c) \/ AllSettled(c) \/ StartMount(c)
         /\ \/ UNCHANGED task \/ Stop \/ \E c \in Caller : Cancel(c)
            \/ \E c \in Goroutine : StartMount(c)
            \/ \E c \in Goroutine, f \in Name : Check(c, f) \/ Open(c, f) \/ Settle(c, f) \/ TimeOut(c, f)
         /\ \/ UNCHANGED todo \/ Close
            \/ \E c \in Goroutine : Unregister(c) \/ ForgetGone(c) \/ Mark(c) \/ Unmount(c)
  <1>1. CASE UNCHANGED vars \/ CloseWhenDone \/ \E c \in Caller : Begin(c)
    BY <1>1, OtherFrames, RequestFrames DEF ownVars
  <1>2. CASE \/ MountAllReads \/ MountAllPicks \/ Stop \/ Close \/ EditByHand
             \/ \E c \in Caller : Cancel(c)
    <2>1. CASE \E c \in Caller : Cancel(c)
      <3>1. UNCHANGED <<disk, mounts, served, todo, regs>>
        BY <2>1 DEF Cancel
      <3>2. QED
        BY <2>1, <3>1
    <2>2. QED
      BY <1>2, <2>1, OtherFrames
  <1>3. CASE \E c \in Goroutine : Waits(c) \/ Works(c)
    BY <1>3, OtherFrames, RequestFrames DEF Waits, Works, Makes
  <1>4. CASE \E c \in Goroutine : Mounts(c)
    BY <1>4, OtherFrames DEF Mounts
  <1>5. QED
    BY <1>1, <1>2, <1>3, <1>4 DEF Next

\* What create and connect write: their own manifest, under the lock.
LEMMA CommitsIs ==
  ASSUME HandsInv, NEW c \in Goroutine, Makes(c), disk' # disk
  PROVE  /\ want[c] \in Manifest /\ pc[c] \in {"provision", "rename"} /\ pc'[c] = "serve"
         /\ ~Taken(want[c]) \/ \A m, n \in Name : m = n
         /\ disk' = [disk EXCEPT ![want[c].id] = want[c]]
  <1>1. Provision(c) \/ ConnectRenames(c)
    BY DEF Makes, Create, Refuse, ConnectPlans, ConnectPlanned, ConnectMounts, ConnectCommits
  <1>2. pc[c] \in {"provision", "rename"} /\ Goes(c, "serve")
    BY <1>1 DEF Provision, ConnectRenames
  <1>3. QED
    BY <1>2, MakesIs DEF HandsInv, RegistryInv, PlaceInv, Place, TypesInv, Free, Goes

\* What takes a manifest away.
LEMMA RemovesIs ==
  ASSUME NEW c, Serve(c) \/ Unregister(c)
  PROVE  disk' = disk \/ \E f : disk' = [disk EXCEPT ![f] = None]
  BY DEF Serve, Unregister

\* What people do by hand keeps the ids apart: they write no manifest that
\* could take an id, or there is one id to take.
KeepsIds == Edits \subseteq {"delete"} \/ \A m, n \in Name : m = n

LEMMA HandKeeps ==
  ASSUME HandsInv, KeepsIds, EditByHand
  PROVE  OwnDisk' /\ RegisteredOnce'
  <1>1. disk \in [Name -> Manifest \cup {None}] /\ OwnDisk /\ RegisteredOnce
    BY DEF HandsInv, OwnIds, RegistryInv, TypesInv
  <1>2. CASE Edits \subseteq {"delete"}
    <2>1. PICK f \in Name : disk' = [disk EXCEPT ![f] = None]
      BY <1>2 DEF EditByHand
    <2>2. disk' \in [Name -> Manifest \cup {None}] /\ \A g \in Name : disk'[g] # None => disk'[g] = disk[g]
      BY <1>1, <2>1
    <2>3. QED
      BY <1>1, <2>2 DEF OwnDisk, RegisteredOnce
  <1>3. CASE \A m, n \in Name : m = n
    <2>1. disk' \in [Name -> Manifest \cup {None}]
      <3>1. ASSUME NEW m \in Manifest, NEW id \in Name PROVE [m EXCEPT !.id = id] \in Manifest
        BY DEF Manifest
      <3>2. QED
        BY <1>1, <3>1 DEF EditByHand
    <2>2. \A f \in Name : disk'[f] # None => disk'[f].id = f
      BY <1>3, <2>1 DEF Manifest
    <2>3. QED
      BY <1>3, <2>2 DEF OwnDisk, RegisteredOnce
  <1>4. QED
    BY <1>2, <1>3 DEF KeepsIds

LEMMA OwnDiskKept ==
  ASSUME HandsInv, KeepsIds, [Next]_vars
  PROVE  OwnDisk' /\ RegisteredOnce'
  <1>0. RegistryInv /\ OwnDisk /\ RegisteredOnce /\ disk \in [Name -> Manifest \cup {None}]
    BY DEF HandsInv, OwnIds, RegistryInv, TypesInv
  <1>1. CASE disk' = disk
    BY <1>0, <1>1 DEF OwnDisk, RegisteredOnce
  <1>2. ASSUME NEW f, disk' = [disk EXCEPT ![f] = None]
        PROVE  OwnDisk' /\ RegisteredOnce'
    <2>1. disk' \in [Name -> Manifest \cup {None}] /\ \A g \in Name : disk'[g] # None => disk'[g] = disk[g]
      BY <1>0, <1>2
    <2>2. QED
      BY <1>0, <2>1 DEF OwnDisk, RegisteredOnce
  <1>3. ASSUME NEW m \in Manifest, ~Taken(m) \/ \A f, g \in Name : f = g, disk' = [disk EXCEPT ![m.id] = m]
        PROVE  OwnDisk' /\ RegisteredOnce'
    <2>1. m.id \in Name /\ m # None
      BY NoneAssumption DEF Manifest
    <2>2. disk'[m.id] = m /\ \A g \in Name \ {m.id} : disk'[g] = disk[g]
      BY <1>0, <1>3, <2>1
    <2>3. \A g \in Name \ {m.id} : disk[g] # None => disk[g].id # m.id /\ disk[g].storage # m.storage
      BY <1>3, <2>1 DEF Taken
    <2>4. OwnDisk'
      BY <1>0, <2>1, <2>2 DEF OwnDisk
    <2>5. RegisteredOnce'
      BY <1>0, <2>1, <2>2, <2>3 DEF RegisteredOnce
    <2>6. QED
      BY <2>4, <2>5
  <1>4. QED
    BY <1>0, <1>1, <1>2, <1>3, WhoChanges, CommitsIs, RemovesIs, HandKeeps

\* The records that are new in a step are those of a file's own id.
LEMMA OwnMountsKept ==
  ASSUME HandsInv, [Next]_vars
  PROVE  OwnMounts'
  <1>0. TypesInv /\ PlaceInv /\ OwnMounts /\ OwnRegs /\ OwnTasks
    BY DEF HandsInv, OwnIds, RegistryInv
  <1>1. CASE mounts' = mounts
    BY <1>0, <1>1 DEF OwnMounts
  <1>2. ASSUME NEW files, Drop(files)
        PROVE  OwnMounts'
    BY <1>0, <1>2 DEF OwnMounts, Drop
  <1>3. ASSUME NEW f \in Name, NEW state, SetMount(f, f, state)
        PROVE  OwnMounts'
    BY <1>0, <1>3 DEF OwnMounts, SetMount, TypesInv
  <1>4. ASSUME NEW c \in Goroutine, Mark(c)
        PROVE  OwnMounts'
    <2>1. \A f \in Files(c) : Mounting(regs[c][f]).id = f
      BY <1>0 DEF OwnRegs, Files, Mounting
    <2>2. mounts' = [f \in Name |-> IF f \in Files(c) THEN Mounting(regs[c][f]) ELSE mounts[f]]
      BY <1>4 DEF Mark
    <2>3. QED
      BY <1>0, <2>1, <2>2 DEF OwnMounts
  <1>5. ASSUME NEW c \in Goroutine, Serve(c)
        PROVE  OwnMounts'
    <2>1. want[c].id \in Name
      BY <1>0, <1>5 DEF Serve, PlaceInv, Place, MakingPc, Manifest
    <2>2. mounts' = mounts \/ SetMount(want[c].id, want[c].id, "mounted")
      BY <1>5 DEF Serve
    <2>3. QED
      BY <1>1, <1>3, <2>1, <2>2
  <1>6. ASSUME NEW c \in Goroutine, Unregister(c) \/ ForgetGone(c) \/ Close
        PROVE  OwnMounts'
    BY <1>1, <1>2, <1>6, ForgetGoneIs DEF Unregister, Close
  <1>7. ASSUME NEW c \in Goroutine, NEW f \in Name, Settle(c, f) \/ TimeOut(c, f)
        PROVE  OwnMounts'
    <2>1. task[c][f].id = f
      BY <1>0, <1>7 DEF OwnTasks, Settle, TimeOut
    <2>2. mounts' = mounts \/ \E state : SetMount(f, f, state)
      BY <1>7, <2>1 DEF Settle, TimeOut, Settled
    <2>3. QED
      BY <1>1, <1>3, <2>2
  <1>8. QED
    <2>1. Boot \in Goroutine
      BY DEF Goroutine
    <2>2. QED
      BY <1>1, <1>4, <1>5, <1>6, <1>7, <2>1, WhoChanges

\* What is served is served from the manifest of its own name.
LEMMA OwnServedKept ==
  ASSUME HandsInv, [Next]_vars
  PROVE  OwnServed'
  <1>0. TypesInv /\ PlaceInv /\ OwnServed /\ OwnTasks
    BY DEF HandsInv, OwnIds, RegistryInv
  <1>1. CASE served' = served
    BY <1>0, <1>1 DEF OwnServed
  <1>2. ASSUME NEW n, NEW f, f \in {n, None}, served' = [served EXCEPT ![n] = f]
        PROVE  OwnServed'
    BY <1>0, <1>2 DEF OwnServed, TypesInv
  <1>3. ASSUME NEW c \in Goroutine, Serve(c) \/ Unmount(c)
        PROVE  OwnServed'
    BY <1>1, <1>2, <1>3 DEF Serve, Unmount
  <1>4. ASSUME NEW c \in Goroutine, NEW f \in Name, Settle(c, f)
        PROVE  OwnServed'
    <2>1. CASE task[c][f].phase = "opened" /\ served' = [served EXCEPT ![task[c][f].db] = f]
      <3>1. task[c][f].db = f
        BY <1>0, <1>4, <2>1 DEF OwnTasks, Opening, Settle
      <3>2. QED
        BY <1>2, <2>1, <3>1
    <2>2. QED
      BY <1>1, <1>4, <2>1 DEF Settle
  <1>5. QED
    BY <1>1, <1>3, <1>4, WhoChanges

\* What is read from the folder, and what is found there, keeps its name.
LEMMA OwnRegsKept ==
  ASSUME HandsInv, [Next]_vars
  PROVE  OwnRegs'
  <1>0. TypesInv /\ OwnDisk /\ OwnRegs /\ Boot \in Goroutine
    BY DEF HandsInv, OwnIds, RegistryInv, Goroutine
  <1>1. CASE regs' = regs
    BY <1>0, <1>1 DEF OwnRegs
  <1>2. ASSUME NEW c \in Goroutine, NEW new, regs' = [regs EXCEPT ![c] = new],
               \A f \in Name : new[f] \in {f, None}
        PROVE  OwnRegs'
    <2>1. regs'[c] = new /\ \A d \in Goroutine \ {c} : regs'[d] = regs[d]
      BY <1>0, <1>2 DEF TypesInv
    <2>2. ASSUME NEW d \in Goroutine, NEW f \in Name
          PROVE  regs'[d][f] \in {f, None}
      <3>1. CASE d = c
        BY <1>2, <2>1, <3>1
      <3>2. CASE d # c
        BY <1>0, <2>1, <3>2 DEF OwnRegs
      <3>3. QED
        BY <3>1, <3>2
    <2>3. QED
      BY <2>2 DEF OwnRegs
  <1>3. ASSUME NEW c \in Goroutine, regs' = [regs EXCEPT ![c] = Registrations]
        PROVE  OwnRegs'
    <2>1. \A f \in Name : Registrations[f] \in {f, None}
      BY <1>0 DEF Registrations, OwnDisk
    <2>2. QED
      BY <1>2, <1>3, <2>1
  <1>4. ASSUME NEW c \in Goroutine, regs' = [regs EXCEPT ![c] = NoRegs]
        PROVE  OwnRegs'
    <2>1. \A f \in Name : NoRegs[f] \in {f, None}
      BY DEF NoRegs
    <2>2. QED
      BY <1>2, <1>4, <2>1
  <1>5. ASSUME NEW c \in Goroutine, NEW f \in Name, Finds(want[c].id, f),
               regs' = [regs EXCEPT ![c] = [NoRegs EXCEPT ![f] = want[c].id]]
        PROVE  OwnRegs'
    <2>1. want[c].id = f
      BY <1>0, <1>5 DEF Finds, OwnDisk
    <2>2. \A g \in Name : [NoRegs EXCEPT ![f] = want[c].id][g] \in {g, None}
      BY <2>1 DEF NoRegs
    <2>3. QED
      BY <1>2, <1>5, <2>2
  <1>6. ASSUME NEW c \in Goroutine,
               Makes(c) \/ Serve(c) \/ Unmounted(c) \/ AllSettled(c)
        PROVE  OwnRegs'
    BY <1>1, <1>4, <1>6, MakesIs DEF Serve, Unmounted, AllSettled, Returns
  <1>7. ASSUME NEW c \in Goroutine, Unregister(c) \/ ReloadReads(c) \/ ReloadAllReads(c)
        PROVE  OwnRegs'
    BY <1>3, <1>4, <1>5, <1>7 DEF Unregister, ReloadReads, ReloadAllReads, Returns
  <1>8. ASSUME NEW c \in Goroutine, StartMount(c)
        PROVE  OwnRegs'
    <2>1. regs' = regs \/ \E f \in Files(c) : regs' = [regs EXCEPT ![c][f] = None]
      BY <1>8 DEF StartMount
    <2>2. regs \in [Goroutine -> [Name -> Name \cup {None}]]
      BY <1>0 DEF TypesInv
    <2>3. QED
      BY <1>0, <2>1, <2>2 DEF OwnRegs, Files
  <1>9. CASE MountAllReads \/ Stop
    BY <1>0, <1>3, <1>4, <1>9 DEF MountAllReads, Stop
  <1>10. CASE MountAllPicks
    <2>1. regs' = [regs EXCEPT ![Boot] = [f \in Name |-> IF HasRecord(f, "mounting") THEN regs[Boot][f] ELSE None]]
      BY <1>10 DEF MountAllPicks
    <2>2. QED
      BY <1>0, <1>2, <2>1 DEF OwnRegs
  <1>11. QED
    BY <1>1, <1>6, <1>7, <1>8, <1>9, <1>10, WhoChanges

\* A mount is of the database whose registration it was started for.
LEMMA OwnTasksKept ==
  ASSUME HandsInv, [Next]_vars
  PROVE  OwnTasks'
  <1>0. TypesInv /\ OwnDisk /\ OwnRegs /\ OwnTasks /\ Boot \in Goroutine /\ Caller \subseteq Goroutine
    BY DEF HandsInv, OwnIds, RegistryInv, Goroutine
  <1>1. CASE task' = task
    BY <1>0, <1>1 DEF OwnTasks, Opening
  <1>2. ASSUME NEW c \in Goroutine, NEW f \in Name, NEW t \in Task \cup {None},
               task' = [task EXCEPT ![c][f] = t],
               t # None => t.id = f /\ (t.phase = "opened" => t.db = f)
        PROVE  OwnTasks'
    <2>1. task'[c][f] = t /\ \A d \in Goroutine, g \in Name : d # c \/ g # f => task'[d][g] = task[d][g]
      BY <1>0, <1>2 DEF TypesInv
    <2>2. QED
      BY <1>0, <1>2, <2>1 DEF OwnTasks, Opening
  <1>3. ASSUME NEW c \in Goroutine, task' = [task EXCEPT ![c] = NoTasks]
        PROVE  OwnTasks'
    <2>1. \A f \in Name : task'[c][f] = None
      BY <1>0, <1>3, NoTasksType DEF TypesInv
    <2>2. \A d \in Goroutine, f \in Name : task'[d][f] = None \/ task'[d][f] = task[d][f]
      BY <1>0, <1>3, <2>1 DEF TypesInv
    <2>3. ASSUME NEW d \in Goroutine, NEW f \in Name
          PROVE  /\ task'[d][f] # None => task'[d][f].id = f
                 /\ Opening(d, f)' => task'[d][f].db = f
      <3>1. CASE task'[d][f] = None
        BY <3>1 DEF Opening
      <3>2. CASE task'[d][f] = task[d][f]
        BY <1>0, <3>2 DEF OwnTasks, Opening
      <3>3. QED
        BY <2>2, <3>1, <3>2
    <2>4. QED
      BY <2>3 DEF OwnTasks
  <1>4. ASSUME NEW c \in Goroutine, StartMount(c)
        PROVE  OwnTasks'
    <2>1. CASE task' = task
      BY <1>1, <2>1
    <2>2. ASSUME NEW f \in Files(c),
                 task' = [task EXCEPT ![c][f] =
                    [id |-> regs[c][f], gen |-> gen[f], phase |-> "check", db |-> None]]
          PROVE  OwnTasks'
      <3> DEFINE t == [id |-> regs[c][f], gen |-> gen[f], phase |-> "check", db |-> None]
      <3>1. f \in Name /\ regs[c][f] = f /\ gen[f] \in Nat
        BY <1>0 DEF Files, OwnRegs, TypesInv
      <3>2. t \in Task /\ t.id = f /\ t.phase # "opened"
        BY <3>1 DEF Task
      <3>3. task' = [task EXCEPT ![c][f] = t]
        BY <2>2
      <3> HIDE DEF t
      <3>4. QED
        BY <1>2, <3>1, <3>2, <3>3
    <2>3. QED
      BY <1>4, <2>1, <2>2 DEF StartMount
  <1>5. ASSUME NEW c \in Goroutine, NEW f \in Name, Check(c, f)
        PROVE  OwnTasks'
    <2>1. PICK t \in Task : task' = [task EXCEPT ![c][f] = t] /\ t.phase # "opened" /\ t.id = f
      BY <1>0, <1>5, CheckIs DEF OwnTasks
    <2>2. QED
      BY <1>2, <2>1
  <1>6. ASSUME NEW c \in Goroutine, NEW f \in Name, Open(c, f)
        PROVE  OwnTasks'
    <2>1. PICK t \in Task :
            /\ task' = [task EXCEPT ![c][f] = t] /\ t.id = f
            /\ t.phase = "opened" => disk[f] # None /\ t.db = disk[f].id
      BY <1>0, <1>6, OpenIs DEF OwnTasks
    <2>2. t.phase = "opened" => t.db = f
      BY <1>0, <2>1 DEF OwnDisk
    <2>3. QED
      BY <1>2, <2>1, <2>2
  <1>7. ASSUME NEW c \in Goroutine, NEW f \in Name, Settle(c, f) \/ TimeOut(c, f)
        PROVE  OwnTasks'
    BY <1>2, <1>7 DEF Settle, TimeOut
  <1>8. CASE Stop \/ \E c \in Caller : Cancel(c)
    BY <1>0, <1>3, <1>8 DEF Stop, Cancel, Abandons
  <1>9. QED
    BY <1>1, <1>4, <1>5, <1>6, <1>7, <1>8, WhoChanges

\* Ids to unmount that are taken from records are those of the records' files.
LEMMA OwnMountedIds ==
  ASSUME OwnMounts, NEW files \in SUBSET Name
  PROVE  MountedIds(files) = {f \in files : HasRecord(f, "mounted")}
  <1> DEFINE held == {f \in files : HasRecord(f, "mounted")}
  <1>1. \A f \in held : mounts[f].id = f
    BY DEF OwnMounts, HasRecord, Recorded
  <1>2. held = {g \in files : HasRecord(g, "mounted")}
    OBVIOUS
  <1> HIDE DEF held
  <1>3. {mounts[f].id : f \in held} = held
    BY <1>1
  <1>4. QED
    BY <1>2, <1>3 DEF MountedIds

\* One goroutine takes over the databases of the records it takes away.
LEMMA TakesOver ==
  ASSUME HandsInv, NEW c \in Goroutine, NEW files \in SUBSET Name,
         todo' = [todo EXCEPT ![c] = {f \in files : HasRecord(f, "mounted")}],
         \A f \in files : ~HasRecord(f, "mounted")',
         \A f \in Name \ files : mounts'[f] = mounts[f],
         served' = served
  PROVE  OneUnmounts'
  <1>0. TypesInv /\ OneUnmounts /\ OwnServed
    BY DEF HandsInv, OwnIds, RegistryInv
  <1>1. ASSUME NEW f \in Name, HasRecord(f, "mounted")'
        PROVE  HasRecord(f, "mounted") /\ f \notin files
    BY <1>1 DEF HasRecord, Recorded
  <1>2. \A f \in Name : HasRecord(f, "mounted")' => served'[f] = f
    BY <1>0, <1>1 DEF OneUnmounts
  <1>3. ASSUME NEW f \in Name, NEW d \in Goroutine, f \in todo'[d]
        PROVE  /\ d = c => f \in files /\ HasRecord(f, "mounted")
               /\ d # c => f \in todo[d]
    BY <1>0, <1>3 DEF TypesInv
  <1>4. ASSUME NEW f \in Name, NEW d \in Goroutine, f \in todo'[d]
        PROVE  served'[f] # None /\ ~HasRecord(f, "mounted")'
    BY <1>0, <1>1, <1>3, <1>4 DEF OneUnmounts
  <1>5. ASSUME NEW f \in Name, NEW d \in Goroutine, NEW e \in Goroutine, f \in todo'[d], f \in todo'[e]
        PROVE  d = e
    BY <1>0, <1>3, <1>5 DEF OneUnmounts
  <1>6. QED
    BY <1>2, <1>4, <1>5 DEF OneUnmounts

\* A database that nobody serves starts to be served, with its record.
LEMMA StartsServing ==
  ASSUME HandsInv, NEW f \in Name, served[f] = None, served' = [served EXCEPT ![f] = f],
         SetMount(f, f, "mounted"), todo' = todo
  PROVE  OneUnmounts'
  <1>0. TypesInv /\ OneUnmounts
    BY DEF HandsInv, RegistryInv
  <1>1. \A g \in Name \ {f} : served'[g] = served[g] /\ mounts'[g] = mounts[g]
    BY <1>0 DEF TypesInv, SetMount
  <1>2. served'[f] = f /\ \A d \in Goroutine : f \notin todo[d]
    BY <1>0 DEF OneUnmounts, TypesInv
  <1>3. \A g \in Name \ {f} : HasRecord(g, "mounted")' <=> HasRecord(g, "mounted")
    BY <1>1 DEF HasRecord, Recorded
  <1>4. \A g \in Name : HasRecord(g, "mounted")' => served'[g] = g
    BY <1>0, <1>1, <1>2, <1>3 DEF OneUnmounts
  <1>5. ASSUME NEW g \in Name, NEW d \in Goroutine, g \in todo'[d]
        PROVE  /\ served'[g] # None /\ ~HasRecord(g, "mounted")'
               /\ \A e \in Goroutine : g \in todo'[e] => d = e
    <2>1. g # f /\ g \in todo[d]
      BY <1>2, <1>5
    <2>2. QED
      BY <1>0, <1>1, <1>3, <2>1 DEF OneUnmounts
  <1>6. QED
    BY <1>4, <1>5 DEF OneUnmounts

\* A record that says a database is not mounted.
LEMMA StopsMounting ==
  ASSUME HandsInv, NEW f \in Name, NEW id, NEW state, state # "mounted",
         mounts' = mounts \/ SetMount(f, id, state), UNCHANGED <<served, todo>>
  PROVE  OneUnmounts'
  <1>0. TypesInv /\ OneUnmounts
    BY DEF HandsInv, RegistryInv
  <1>1. \A g \in Name : HasRecord(g, "mounted")' => HasRecord(g, "mounted")
    BY <1>0 DEF TypesInv, SetMount, HasRecord, Recorded
  <1>2. QED
    BY <1>0, <1>1 DEF OneUnmounts

LEMMA OneUnmountsKept ==
  ASSUME HandsInv, [Next]_vars
  PROVE  OneUnmounts'
  <1>0. TypesInv /\ PlaceInv /\ OwnDisk /\ OwnMounts /\ OwnTasks /\ OwnRegs /\ OneUnmounts /\ Boot \in Goroutine
    BY DEF HandsInv, OwnIds, RegistryInv, Goroutine
  <1>1. CASE UNCHANGED <<mounts, served, todo>>
    BY <1>0, <1>1 DEF OneUnmounts, HasRecord, Recorded
  <1>2. CASE Close
    <2>1. todo' = [todo EXCEPT ![Boot] = {f \in Name : HasRecord(f, "mounted")}]
      BY <1>0, <1>2, OwnMountedIds DEF Close
    <2>2. \A f \in Name : ~HasRecord(f, "mounted")'
      BY <1>2 DEF Close, Drop, HasRecord, Recorded
    <2>3. QED
      BY <1>0, <1>2, <2>1, <2>2, TakesOver DEF Close
  <1>3. ASSUME NEW c \in Goroutine, ForgetGone(c)
        PROVE  OneUnmounts'
    <2>1. PICK files \in SUBSET Name : Drop(files) /\ todo' = [todo EXCEPT ![c] = MountedIds(files)]
      BY <1>3, ForgetGoneIs
    <2>2. todo' = [todo EXCEPT ![c] = {f \in files : HasRecord(f, "mounted")}]
      BY <1>0, <2>1, OwnMountedIds
    <2>3. (\A f \in files : ~HasRecord(f, "mounted")') /\ \A f \in Name \ files : mounts'[f] = mounts[f]
      BY <2>1 DEF Drop, HasRecord, Recorded
    <2>4. QED
      BY <1>3, <2>2, <2>3, TakesOver, RequestFrames
  <1>4. ASSUME NEW c \in Goroutine, Mark(c)
        PROVE  OneUnmounts'
    <2>1. Files(c) \subseteq Name
      BY DEF Files
    <2>2. todo' = [todo EXCEPT ![c] = {f \in Files(c) : HasRecord(f, "mounted")}]
      BY <1>0, <1>4, <2>1, OwnMountedIds DEF Mark
    <2>3. mounts' = [f \in Name |-> IF f \in Files(c) THEN Mounting(regs[c][f]) ELSE mounts[f]]
      BY <1>4 DEF Mark
    <2>4. (\A f \in Files(c) : ~HasRecord(f, "mounted")') /\ \A f \in Name \ Files(c) : mounts'[f] = mounts[f]
      BY <2>1, <2>3 DEF Mounting, HasRecord, Recorded
    <2>5. QED
      BY <1>4, <2>1, <2>2, <2>4, TakesOver, RequestFrames
  <1>5. ASSUME NEW c \in Goroutine, Unregister(c)
        PROVE  OneUnmounts'
    <2>1. CASE UNCHANGED <<mounts, todo>>
      BY <1>1, <1>5, <2>1, RequestFrames
    <2>2. ASSUME NEW f \in Name, Finds(want[c].id, f), Drop({f}),
                 todo' = [todo EXCEPT ![c] = IF HasRecord(f, "mounted") THEN {want[c].id} ELSE {}]
          PROVE  OneUnmounts'
      <3>1. want[c].id = f
        BY <1>0, <2>2 DEF Finds, OwnDisk
      <3>2. (IF HasRecord(f, "mounted") THEN {want[c].id} ELSE {}) = {g \in {f} : HasRecord(g, "mounted")}
        BY <3>1
      <3>3. \A g \in {f} : ~HasRecord(g, "mounted")'
        BY <2>2 DEF Drop, HasRecord, Recorded
      <3>4. \A g \in Name \ {f} : mounts'[g] = mounts[g]
        BY <2>2 DEF Drop
      <3>5. todo' = [todo EXCEPT ![c] = {g \in {f} : HasRecord(g, "mounted")}]
        BY <2>2, <3>2
      <3>6. {f} \in SUBSET Name /\ served' = served
        BY <1>5, RequestFrames
      <3>7. QED
        BY <3>3, <3>4, <3>5, <3>6, TakesOver
    <2>3. QED
      BY <1>5, <2>1, <2>2 DEF Unregister, Returns
  <1>6. ASSUME NEW c \in Goroutine, Unmount(c)
        PROVE  OneUnmounts'
    <2>1. PICK id \in todo[c] :
            /\ todo' = [todo EXCEPT ![c] = todo[c] \ {id}]
            /\ served' = [served EXCEPT ![id] = None]
      BY <1>6 DEF Unmount
    <2>2. id \in Name /\ mounts' = mounts
      BY <1>0, <1>6, RequestFrames DEF TypesInv
    <2>3. /\ \A f \in Name \ {id} : served'[f] = served[f]
          /\ \A d \in Goroutine : todo'[d] \subseteq todo[d] /\ id \notin todo'[d]
      BY <1>0, <2>1, <2>2 DEF OneUnmounts, TypesInv
    <2>4. ~HasRecord(id, "mounted") /\ \A f \in Name : HasRecord(f, "mounted")' <=> HasRecord(f, "mounted")
      BY <1>0, <2>2 DEF OneUnmounts, HasRecord, Recorded
    <2>5. QED
      BY <1>0, <2>3, <2>4 DEF OneUnmounts
  <1>7. ASSUME NEW c \in Goroutine, Serve(c)
        PROVE  OneUnmounts'
    <2>1. want[c].id \in Name /\ todo' = todo
      BY <1>0, <1>7, RequestFrames DEF Serve, PlaceInv, Place, MakingPc, Manifest
    <2>2. \/ UNCHANGED <<mounts, served>>
          \/ /\ served[want[c].id] = None /\ served' = [served EXCEPT ![want[c].id] = want[c].id]
             /\ SetMount(want[c].id, want[c].id, "mounted")
      BY <1>7 DEF Serve
    <2>3. QED
      BY <1>1, <2>1, <2>2, StartsServing
  <1>8. ASSUME NEW c \in Goroutine, NEW f \in Name, Settle(c, f) \/ TimeOut(c, f)
        PROVE  OneUnmounts'
    <2>1. todo' = todo /\ task[c][f].id = f
      BY <1>0, <1>8, OtherFrames DEF OwnTasks, Settle, TimeOut
    <2>2. CASE served' = served /\ (mounts' = mounts \/ SetMount(f, f, "needs_attention"))
      BY <2>1, <2>2, StopsMounting
    <2>3. CASE /\ task[c][f].phase = "opened" /\ task[c][f] # None
               /\ served[task[c][f].db] = None
               /\ served' = [served EXCEPT ![task[c][f].db] = f]
               /\ SetMount(f, f, "mounted")
      <3>1. task[c][f].db = f
        BY <1>0, <2>3 DEF OwnTasks, Opening
      <3>2. QED
        BY <2>1, <2>3, <3>1, StartsServing
    <2>4. CASE Settle(c, f)
      BY <2>1, <2>2, <2>3, <2>4 DEF Settle, Settled
    <2>5. CASE TimeOut(c, f)
      BY <2>1, <2>2, <2>5 DEF TimeOut, Settled
    <2>6. QED
      BY <1>8, <2>4, <2>5
  <1>9. QED
    BY <1>1, <1>2, <1>3, <1>4, <1>5, <1>6, <1>7, <1>8, WhoChanges

\* Who takes the lock, and lets go of it.
LEMMA OthersHold ==
  ASSUME TypesInv, [Next]_vars, ~\E c \in Goroutine : Makes(c) \/ Serve(c)
  PROVE  /\ UNCHANGED mu
         /\ \A c \in Goroutine : pc'[c] \in HoldingPc => pc'[c] = pc[c] /\ want'[c] = want[c]
  <1> DEFINE Kept == \A c \in Goroutine : pc'[c] \in HoldingPc => pc'[c] = pc[c] /\ want'[c] = want[c]
  <1>0. /\ pc \in [Goroutine -> Pc] /\ want \in [Goroutine -> Want]
        /\ Boot \in Goroutine /\ Caller \subseteq Goroutine
    BY DEF TypesInv, Goroutine
  <1>1. ASSUME NEW d \in Goroutine, NEW q, Goes(d, q), q \notin HoldingPc,
               want' = want \/ \E w : want' = [want EXCEPT ![d] = w]
        PROVE  Kept
    BY <1>0, <1>1 DEF Goes
  <1>2. ASSUME UNCHANGED <<pc, want>>
        PROVE  Kept
    BY <1>2
  <1>3. ASSUME NEW d \in Goroutine,
               \/ Unregister(d) \/ ReloadReads(d) \/ ReloadAllReads(d) \/ ForgetGone(d) \/ Mark(d)
               \/ Unmounted(d) \/ AllSettled(d)
        PROVE  UNCHANGED mu /\ Kept
    <2>1. UNCHANGED mu
      BY <1>3 DEF Unregister, ReloadReads, ReloadAllReads, ForgetGone, Mark, Unmounted, AllSettled, Unlocked
    <2>2. /\ want' = want \/ want' = [want EXCEPT ![d] = NoWant]
          /\ \/ Goes(d, "idle") \/ Goes(d, "unmountRemoved") \/ Goes(d, "mark") \/ Goes(d, "forget")
             \/ Goes(d, "unmountGone") \/ Goes(d, "unmountOld") \/ Goes(d, "mountEach") \/ Goes(d, "closed")
      BY <1>3 DEF Unregister, ReloadReads, ReloadAllReads, ForgetGone, Mark, Unmounted, AllSettled, Returns
    <2>3. QED
      BY <1>1, <2>1, <2>2 DEF HoldingPc
  <1>4. ASSUME NEW d \in Goroutine, StartMount(d)
        PROVE  UNCHANGED mu /\ Kept
    <2>1. UNCHANGED <<mu, want>> /\ (UNCHANGED pc \/ Goes(d, "await"))
      BY <1>4 DEF StartMount, Unlocked
    <2>2. QED
      BY <1>1, <1>2, <2>1 DEF HoldingPc
  <1>5. ASSUME NEW d \in Goroutine, Unmount(d) \/ Mounts(d)
        PROVE  UNCHANGED mu /\ Kept
    BY <1>2, <1>5 DEF Unmount, Mounts, Check, Open, Settle, TimeOut, Unlocked
  <1>6. ASSUME NEW d \in Caller, Begin(d) \/ Cancel(d)
        PROVE  UNCHANGED mu /\ Kept
    <2>1. UNCHANGED mu /\ \E w : want' = [want EXCEPT ![d] = w]
      BY <1>6 DEF Begin, Cancel
    <2>2. \E q : Goes(d, q) /\ q \notin HoldingPc
      <3>1. CASE Begin(d)
        <4>1. PICK kind \in Requests : Goes(d, kind)
          BY <3>1 DEF Begin
        <4>2. kind \notin HoldingPc
          BY DEF HoldingPc
        <4>3. QED
          BY <4>1, <4>2
      <3>2. QED
        BY <1>6, <3>1 DEF Cancel, HoldingPc
    <2>3. QED
      BY <1>0, <1>1, <2>1, <2>2
  <1>7. ASSUME MountAllReads \/ MountAllPicks \/ Stop \/ Close
        PROVE  UNCHANGED mu /\ Kept
    <2>1. UNCHANGED <<mu, want>> /\ \E q \in {"pending", "mountEach", "draining", "unmountAll"} : Goes(Boot, q)
      BY <1>7 DEF MountAllReads, MountAllPicks, Stop, Close, Unlocked
    <2>2. QED
      BY <1>0, <1>1, <2>1 DEF HoldingPc
  <1>8. ASSUME CloseWhenDone \/ EditByHand \/ UNCHANGED vars
        PROVE  UNCHANGED mu /\ Kept
    BY <1>2, <1>8 DEF CloseWhenDone, EditByHand, vars, callVars
  <1> HIDE DEF Kept
  <1>9. UNCHANGED mu /\ Kept
    <2>1. ASSUME NEW d \in Goroutine, Waits(d) \/ Works(d)
          PROVE  \/ Unregister(d) \/ ReloadReads(d) \/ ReloadAllReads(d) \/ ForgetGone(d) \/ Mark(d)
                 \/ Unmounted(d) \/ AllSettled(d) \/ StartMount(d) \/ Unmount(d)
      BY <2>1 DEF Waits, Works, Makes
    <2>2. ASSUME NEW d \in Goroutine, Waits(d) \/ Works(d) \/ Mounts(d)
          PROVE  UNCHANGED mu /\ Kept
      BY <1>3, <1>4, <1>5, <2>1, <2>2
    <2>3. QED
      BY <1>6, <1>7, <1>8, <2>2 DEF Next
  <1>10. QED
    BY <1>9 DEF Kept

LEMMA HoldsKept ==
  ASSUME HandsInv, [Next]_vars
  PROVE  Holds'
  <1>0. TypesInv /\ Holds /\ pc \in [Goroutine -> Pc] /\ None \notin Goroutine
    BY DEF HandsInv, RegistryInv, TypesInv, Goroutine
  <1>1. ASSUME NEW c \in Goroutine, Makes(c) \/ Serve(c)
        PROVE  Holds'
    <2>1. \A d \in Goroutine \ {c} : pc'[d] = pc[d]
      BY <1>0, <1>1, MakesIs DEF Serve, Returns, Goes
    <2>2. CASE mu = None /\ mu' = c
      BY <1>0, <2>1, <2>2 DEF Holds
    <2>3. CASE (pc[c] \in HoldingPc \/ mu' = mu) /\ pc'[c] \notin HoldingPc
      BY <1>0, <2>1, <2>3 DEF Holds
    <2>4. CASE pc[c] \in HoldingPc /\ mu' = mu
      BY <1>0, <2>1, <2>4 DEF Holds
    <2>5. CASE Create(c) \/ ConnectCommits(c)
      BY <2>2, <2>5 DEF Create, ConnectCommits, Checks
    <2>6. CASE ConnectPlans(c)
      <3>1. \/ mu = None /\ mu' = c
            \/ mu' = mu /\ Goes(c, "idle")
        BY <2>6 DEF ConnectPlans, Checks, Returns
      <3>2. QED
        BY <1>0, <2>2, <2>3, <3>1 DEF Goes, HoldingPc
    <2>7. CASE ConnectMounts(c)
      <3>1. mu' = mu /\ (Goes(c, "idle") \/ Goes(c, "commit"))
        BY <2>7 DEF ConnectMounts, Returns
      <3>2. QED
        BY <1>0, <2>3, <3>1 DEF Goes, HoldingPc
    <2>8. CASE Refuse(c) \/ ConnectPlanned(c) \/ Provision(c) \/ ConnectRenames(c) \/ Serve(c)
      <3>1. /\ pc[c] \in HoldingPc
            /\ mu' = mu \/ Goes(c, "idle") \/ Goes(c, "staging")
        BY <2>8 DEF Refuse, ConnectPlanned, Provision, ConnectRenames, Serve, Returns, HoldingPc
      <3>2. QED
        BY <1>0, <2>3, <2>4, <3>1 DEF Goes, HoldingPc
    <2>9. QED
      BY <1>1, <2>5, <2>6, <2>7, <2>8 DEF Makes
  <1>2. QED
    BY <1>0, <1>1, OthersHold DEF Holds

\* What a create or connect found free under the lock is free until it has
\* taken it, unless a person writes a manifest by hand.
LEMMA FreeKept ==
  ASSUME HandsInv, KeepsIds, [Next]_vars
  PROVE  Free'
  <1>0. /\ TypesInv /\ Holds /\ Free /\ pc \in [Goroutine -> Pc] /\ want \in [Goroutine -> Want]
        /\ None \notin Goroutine /\ disk \in [Name -> Manifest \cup {None}]
    BY DEF HandsInv, RegistryInv, TypesInv, Goroutine
  <1> SUFFICES ASSUME NEW c \in Goroutine, pc'[c] \in {"provision", "rename"}, ~(\A m, n \in Name : m = n)
               PROVE  ~Taken(want[c])'
    BY DEF Free
  <1>1. CASE Create(c) \/ ConnectCommits(c)
    <2>1. Goes(c, IF Taken(want[c]) THEN "refuse" ELSE "provision") \/ Goes(c, IF Taken(want[c]) THEN "decline" ELSE "rename")
      BY <1>1 DEF Create, ConnectCommits, Checks
    <2>2. ~Taken(want[c]) /\ UNCHANGED <<disk, want>>
      BY <1>0, <1>1, <2>1 DEF Create, ConnectCommits, Checks, Goes
    <2>3. QED
      BY <2>2 DEF Taken
  <1>2. CASE (Makes(c) \/ Serve(c)) /\ ~(Create(c) \/ ConnectCommits(c))
    <2>1. \E q : Goes(c, q) /\ q \notin {"provision", "rename"}
      <3>1. CASE Refuse(c) \/ ConnectPlanned(c) \/ Provision(c) \/ ConnectRenames(c) \/ ConnectMounts(c) \/ Serve(c)
        BY <3>1 DEF Refuse, ConnectPlanned, Provision, ConnectRenames, ConnectMounts, Serve, Returns
      <3>2. CASE ConnectPlans(c)
        <4>1. Goes(c, "idle") \/ Goes(c, "refuse") \/ Goes(c, "plan")
          BY <3>2 DEF ConnectPlans, Checks, Returns
        <4>2. QED
          BY <4>1
      <3>3. QED
        BY <1>2, <3>1, <3>2 DEF Makes
    <2>2. QED
      BY <1>0, <2>1 DEF Goes
  <1>3. CASE ~(Makes(c) \/ Serve(c))
    <2>1. pc'[c] = pc[c] /\ want'[c] = want[c]
      <3>1. ASSUME NEW d \in Goroutine, Makes(d) \/ Serve(d)
            PROVE  pc'[c] = pc[c] /\ want'[c] = want[c]
        <4>1. d # c
          BY <1>3, <3>1
        <4>2. QED
          BY <1>0, <3>1, <4>1, MakesIs DEF Serve, Returns, Goes
      <3>2. CASE ~\E d \in Goroutine : Makes(d) \/ Serve(d)
        <4>1. pc'[c] \in HoldingPc
          BY DEF HoldingPc
        <4>2. QED
          BY <1>0, <3>2, <4>1, OthersHold
      <3>3. QED
        BY <3>1, <3>2
    <2>2. mu = c /\ ~Taken(want[c])
      BY <1>0, <2>1 DEF Holds, Free, HoldingPc
    <2>3. CASE disk' = disk
      BY <2>1, <2>2, <2>3 DEF Taken
    <2>4. CASE EditByHand
      <3>1. PICK f \in Name : disk' = [disk EXCEPT ![f] = None]
        BY <2>4 DEF EditByHand, KeepsIds
      <3>2. \A g \in Name : disk'[g] # None => disk'[g] = disk[g]
        BY <1>0, <3>1
      <3>3. want[c].id \in Name
        BY <2>1 DEF HandsInv, RegistryInv, PlaceInv, Place, MakingPc, Manifest
      <3>4. QED
        BY <2>1, <2>2, <3>2, <3>3 DEF Taken
    <2>5. ASSUME NEW d \in Goroutine, Makes(d) \/ Serve(d), disk' # disk
          PROVE  FALSE
      <3>1. pc[d] \in HoldingPc
        BY <2>5, CommitsIs DEF Serve, HoldingPc
      <3>2. d = c
        BY <1>0, <2>2, <3>1 DEF Holds
      <3>3. QED
        BY <1>3, <2>5, <3>2
    <2>6. ASSUME NEW d \in Goroutine, Unregister(d)
          PROVE  FALSE
      BY <1>0, <2>2, <2>6 DEF Unregister, Unlocked
    <2>7. QED
      BY <2>3, <2>4, <2>5, <2>6, WhoChanges
  <1>4. QED
    BY <1>1, <1>2, <1>3

LEMMA HandsInductive ==
  ASSUME KeepsIds
  PROVE  Spec => []HandsInv
  <1>1. Init => HandsInv
    <2> SUFFICES ASSUME Init PROVE HandsInv
      OBVIOUS
    <2>1. RegistryInv
      BY InitTypes, InitInPlace, InitCounted DEF RegistryInv
    <2>2. OwnDisk /\ OwnServed
      BY DEF Init, OwnDisk, OwnServed
    <2>3. OwnMounts
      BY DEF Init, OwnMounts, Mounting
    <2>4. OwnRegs
      BY DEF Init, OwnRegs, NoRegs
    <2>5. OwnTasks
      BY NoTasksType DEF Init, OwnTasks, Opening
    <2>6. OneUnmounts
      BY DEF Init, OneUnmounts, HasRecord, Recorded, Mounting
    <2>7. RegisteredOnce
      BY DEF Init, RegisteredOnce
    <2>8. Holds /\ Free
      BY DEF Init, Holds, Free, HoldingPc
    <2>9. QED
      BY <2>1, <2>2, <2>3, <2>4, <2>5, <2>6, <2>7, <2>8 DEF HandsInv, OwnIds
  <1>2. HandsInv /\ [Next]_vars => HandsInv'
    <2> SUFFICES ASSUME HandsInv, [Next]_vars PROVE HandsInv'
      OBVIOUS
    <2>1. RegistryInv'
      <3>1. RegistryInv /\ TypesInv /\ PlaceInv
        BY DEF HandsInv, RegistryInv
      <3>2. QED
        BY <3>1, NextTypes, NextInPlace, NextCounted DEF RegistryInv
    <2>2. OwnIds'
      BY OwnDiskKept, OwnMountsKept, OwnServedKept, OwnRegsKept, OwnTasksKept DEF OwnIds
    <2>3. QED
      BY <2>1, <2>2, OwnDiskKept, OneUnmountsKept, HoldsKept, FreeKept DEF HandsInv
  <1>3. QED
    BY <1>1, <1>2, PTL DEF Spec

\* However creates, connects, removes and reloads overlap, OVDB registers an
\* id once and a storage once, as long as what people do by hand keeps the ids
\* apart: RegisteredOnce (connect.go:186-188, databases.go:484-488).
THEOREM RegistersOnce ==
  ASSUME KeepsIds
  PROVE  Spec => []RegisteredOnce
  <1>1. HandsInv => RegisteredOnce
    BY DEF HandsInv
  <1>2. QED
    BY <1>1, HandsInductive, PTL

\* What is listed as mounted is served, from its own manifest, at every
\* moment: no reload, remove, late mount or shutdown unmounts a database that
\* another one has mounted again meanwhile, as long as what people do by hand
\* keeps the ids apart.  MountedIsServed (databases.go:36-43, 310-324).
THEOREM MountedStaysServed ==
  ASSUME KeepsIds
  PROVE  Spec => []MountedIsServed
  <1>1. HandsInv => MountedIsServed
    BY DEF HandsInv, OwnIds, OwnMounts, OneUnmounts, MountedIsServed, HasRecord, Recorded
  <1>2. QED
    BY <1>1, HandsInductive, PTL

-----------------------------------------------------------------------------
(* A registry that works on one thing at a time *)

UnmountPc == {"unmountRemoved", "unmountGone", "unmountOld", "unmountAll"}

\* A request in progress, or MountAll.
AtWork(c) ==
    IF c = Boot THEN pc[Boot] \in {"mountAll", "pending", "mountEach", "await"} ELSE pc[c] # "idle"

\* Requests do not overlap, neither with each other nor with MountAll.
OneAtWork == \A c, d \in Goroutine : AtWork(c) /\ AtWork(d) => c = d

\* Ids wait to be unmounted only while their goroutine unmounts.
TodoPlaced == \A c \in Goroutine : todo[c] # {} => pc[c] \in UnmountPc

\* A mount that will be settled is of a record that is not mounted yet.
Fresh == \A c \in Goroutine, f \in Name :
            task[c][f] # None /\ Current(c, f) => ~HasRecord(f, "mounted")
Marked == \A c \in Goroutine :
            pc[c] \in {"unmountOld", "mountEach"} => \A f \in Files(c) : ~HasRecord(f, "mounted")

\* What is served is listed, or somebody is about to unmount it.
Listed == \A n \in Name :
            served[n] # None => HasRecord(n, "mounted") \/ \E c \in Goroutine : n \in todo[c]

SerialInv == TodoPlaced /\ Fresh /\ Marked /\ Listed

\* Where a goroutine goes from where it is, other than by Begin.
Follows(p, q) ==
    \/ p \in MakingPc \cup {"remove", "reload", "await", "unmountRemoved"} /\ q = "idle"
    \/ p \in MakingPc /\ q \in MakingPc
    \/ p = "remove" /\ q = "unmountRemoved"
    \/ p \in {"reload", "unmountGone"} /\ q = "mark"
    \/ p = "reloadAll" /\ q = "forget"
    \/ p = "forget" /\ q = "unmountGone"
    \/ p = "mark" /\ q = "unmountOld"
    \/ p \in {"unmountOld", "pending"} /\ q = "mountEach"
    \/ p = "mountEach" /\ q = "await"
    \/ p = "unmountAll" /\ q = "closed"
    \/ p = "mountAll" /\ q = "pending"
    \/ p = "draining" /\ q = "unmountAll"

\* Every step of one goroutine leaves the others where they are; only Close
\* goes to unmount everything, and only a removal to unmount what it removed.
LEMMA PcFollows ==
  ASSUME TypesInv, [Next]_vars
  PROVE  \/ UNCHANGED pc
         \/ \E c \in Caller : Begin(c)
         \/ \E c \in Goroutine, q \in Pc :
               /\ Goes(c, q) /\ Follows(pc[c], q) /\ (pc[c] \in UnmountPc => todo[c] = {})
               /\ (q = "unmountAll" => Close) /\ (q = "unmountRemoved" => Unregister(c))
         \/ Stop
  <1> DEFINE Moved == \E c \in Goroutine, q \in Pc :
                        /\ Goes(c, q) /\ Follows(pc[c], q) /\ (pc[c] \in UnmountPc => todo[c] = {})
                        /\ (q = "unmountAll" => Close) /\ (q = "unmountRemoved" => Unregister(c))
  <1>1. ASSUME NEW c \in Goroutine, Makes(c) \/ Serve(c)
        PROVE  Moved
    <2>1. pc[c] \in MakingPc /\ \E q \in MakingPc \cup {"idle"} : Goes(c, q)
      BY <1>1, MakesIs DEF Serve, Returns, MakingPc
    <2>2. \E q \in Pc \ {"unmountAll", "unmountRemoved"} :
            Goes(c, q) /\ Follows(pc[c], q) /\ pc[c] \notin UnmountPc
      <3>1. MakingPc \cup {"idle"} \subseteq Pc \ {"unmountAll", "unmountRemoved"} /\ MakingPc \cap UnmountPc = {}
        BY DEF MakingPc, UnmountPc, Pc
      <3>2. QED
        BY <2>1, <3>1 DEF Follows
    <2>3. QED
      BY <2>2
  <1>2. ASSUME NEW c \in Goroutine,
               Unregister(c) \/ ReloadReads(c) \/ ReloadAllReads(c) \/ ForgetGone(c) \/ Mark(c) \/ AllSettled(c)
        PROVE  Moved
    <2>1. CASE Unregister(c)
      <3>1. \E q \in Pc \ {"unmountAll"} : Goes(c, q) /\ Follows(pc[c], q) /\ pc[c] \notin UnmountPc
        BY <2>1 DEF Unregister, Returns, Follows, UnmountPc, Pc
      <3>2. QED
        BY <2>1, <3>1
    <2>2. CASE ReloadReads(c) \/ ReloadAllReads(c) \/ ForgetGone(c) \/ Mark(c) \/ AllSettled(c)
      <3>1. \E q \in Pc \ {"unmountAll", "unmountRemoved"} :
              Goes(c, q) /\ Follows(pc[c], q) /\ pc[c] \notin UnmountPc
        BY <2>2 DEF ReloadReads, ReloadAllReads, ForgetGone, Mark, AllSettled, Returns, Follows, UnmountPc, Pc
      <3>2. QED
        BY <3>1
    <2>3. QED
      BY <1>2, <2>1, <2>2
  <1>3. ASSUME NEW c \in Goroutine, Unmounted(c)
        PROVE  Moved
    <2>1. \E q \in Pc \ {"unmountAll", "unmountRemoved"} : Goes(c, q) /\ Follows(pc[c], q) /\ todo[c] = {}
      BY <1>3 DEF Unmounted, Returns, Follows, Pc
    <2>2. QED
      BY <2>1
  <1>4. ASSUME NEW c \in Goroutine, StartMount(c)
        PROVE  Moved \/ UNCHANGED pc
    <2>1. UNCHANGED pc \/ (Goes(c, "await") /\ pc[c] = "mountEach")
      BY <1>4 DEF StartMount
    <2>2. QED
      BY <2>1 DEF Follows, UnmountPc, Pc
  <1>5. ASSUME NEW c \in Goroutine, Unmount(c)
        PROVE  UNCHANGED pc
    BY <1>5 DEF Unmount
  <1>6. ASSUME NEW c \in Goroutine, NEW f \in Name, Check(c, f) \/ Open(c, f) \/ Settle(c, f) \/ TimeOut(c, f)
        PROVE  UNCHANGED pc
    BY <1>6 DEF Check, Open, Settle, TimeOut
  <1>7. ASSUME NEW c \in Caller, Cancel(c)
        PROVE  Moved
    <2>1. c \in Goroutine /\ Goes(c, "idle") /\ pc[c] = "await"
      BY <1>7 DEF Cancel, Goroutine
    <2>2. QED
      BY <2>1 DEF Follows, UnmountPc, Pc
  <1>8. CASE MountAllReads \/ MountAllPicks \/ Close
    <2>1. /\ Boot \in Goroutine /\ pc[Boot] \notin UnmountPc
          /\ \E q \in Pc \ {"unmountRemoved"} :
                Goes(Boot, q) /\ Follows(pc[Boot], q) /\ (q = "unmountAll" => Close)
      BY <1>8 DEF MountAllReads, MountAllPicks, Close, Goroutine, Follows, UnmountPc, Pc
    <2>2. QED
      BY <2>1
  <1>9. CASE CloseWhenDone \/ EditByHand \/ UNCHANGED vars
    BY <1>9 DEF CloseWhenDone, EditByHand, callVars, vars
  <1>10. QED
    BY <1>1, <1>2, <1>3, <1>4, <1>5, <1>6, <1>7, <1>8, <1>9 DEF Next, Waits, Works, Makes, Mounts

\* Requests of a single client do not overlap, if they wait for MountAll.
LEMMA SingleCaller ==
  ASSUME \A p, q \in Caller : p = q, ~EarlyRequests
  PROVE  Spec => []OneAtWork
  <1>1. Init => OneAtWork
    BY DEF Init, OneAtWork, AtWork, Goroutine
  <1>2. RegistryInv /\ OneAtWork /\ [Next]_vars => OneAtWork'
    <2> SUFFICES ASSUME RegistryInv, OneAtWork, [Next]_vars
                 PROVE  OneAtWork'
      OBVIOUS
    <2>0. TypesInv /\ PlaceInv /\ pc \in [Goroutine -> Pc] /\ Boot \in Goroutine
      BY DEF RegistryInv, TypesInv, Goroutine
    <2>1. AtWork(Boot)' => AtWork(Boot)
      <3>1. CASE UNCHANGED pc
        BY <3>1 DEF AtWork
      <3>2. ASSUME NEW c \in Goroutine, NEW q \in Pc, Goes(c, q), Follows(pc[c], q)
            PROVE  AtWork(Boot)' => AtWork(Boot)
        <4>1. CASE c = Boot
          <5>1. pc[Boot] \in BootPc
            BY <2>0 DEF PlaceInv, Place
          <5>2. pc'[Boot] = q
            BY <2>0, <3>2, <4>1 DEF Goes
          <5>3. QED
            BY <3>2, <4>1, <5>1, <5>2 DEF AtWork, Follows, BootPc, MakingPc
        <4>2. CASE c # Boot
          BY <2>0, <3>2, <4>2 DEF AtWork, Goes
        <4>3. QED
          BY <4>1, <4>2
      <3>3. ASSUME NEW c \in Caller, Begin(c)
            PROVE  AtWork(Boot)' => AtWork(Boot)
        BY <2>0, <3>3 DEF AtWork, Begin, Goes
      <3>4. CASE Stop
        BY <2>0, <3>4 DEF AtWork, Stop, Goes
      <3>5. QED
        BY <2>0, <3>1, <3>2, <3>3, <3>4, PcFollows
    <2>2. ASSUME NEW p \in Caller, AtWork(p)'
          PROVE  AtWork(p) \/ ~AtWork(Boot)
      <3>0. p # Boot /\ p \in Goroutine /\ pc'[p] # "idle"
        BY <2>2 DEF AtWork, Goroutine
      <3>1. ASSUME NEW c \in Goroutine, NEW q \in Pc, Goes(c, q), Follows(pc[c], q)
            PROVE  AtWork(p)
        <4>1. pc[c] # "idle" /\ (c # p => pc'[p] = pc[p])
          BY <2>0, <3>0, <3>1 DEF Follows, MakingPc, Goes
        <4>2. QED
          BY <3>0, <4>1 DEF AtWork
      <3>2. ASSUME NEW c \in Caller, Begin(c)
            PROVE  ~AtWork(Boot)
        BY <3>2 DEF Begin, AtWork
      <3>3. CASE UNCHANGED pc \/ Stop
        BY <2>0, <3>0, <3>3 DEF AtWork, Stop, Goes
      <3>4. QED
        BY <2>0, <3>1, <3>2, <3>3, PcFollows
    <2>3. ASSUME NEW c \in Goroutine, NEW d \in Goroutine, AtWork(c)', AtWork(d)'
          PROVE  c = d
      <3>1. CASE c = Boot /\ d # Boot
        BY <2>0, <2>1, <2>2, <2>3, <3>1 DEF OneAtWork, Goroutine
      <3>2. CASE c # Boot /\ d = Boot
        BY <2>0, <2>1, <2>2, <2>3, <3>2 DEF OneAtWork, Goroutine
      <3>3. QED
        BY <3>1, <3>2 DEF Goroutine
    <2>4. QED
      BY <2>3 DEF OneAtWork
  <1>3. QED
    BY <1>1, <1>2, RegistryInductive, PTL DEF Spec

LEMMA TodoPlacedKept ==
  ASSUME RegistryInv, TodoPlaced, [Next]_vars
  PROVE  TodoPlaced'
  <1>0. TypesInv /\ PlaceInv /\ Boot \in Goroutine /\ pc \in [Goroutine -> Pc] /\ todo \in [Goroutine -> SUBSET Name]
    BY DEF RegistryInv, TypesInv, Goroutine
  <1>1. CASE UNCHANGED todo
    <2>1. CASE UNCHANGED pc
      BY <1>1, <2>1 DEF TodoPlaced
    <2>2. ASSUME NEW c \in Goroutine, NEW q, Goes(c, q), pc[c] \in UnmountPc => todo[c] = {}
          PROVE  TodoPlaced'
      BY <1>0, <1>1, <2>2 DEF TodoPlaced, Goes
    <2>3. ASSUME NEW c \in Caller, Begin(c)
          PROVE  TodoPlaced'
      <3>1. c \in Goroutine /\ pc[c] \notin UnmountPc /\ \E q : Goes(c, q)
        BY <2>3 DEF Begin, Goroutine, UnmountPc
      <3>2. QED
        BY <2>2, <3>1
    <2>4. CASE Stop
      <3>1. pc[Boot] \notin UnmountPc /\ Goes(Boot, "draining")
        BY <1>0, <2>4 DEF Stop, UnmountPc, PlaceInv, Place, BootPc
      <3>2. QED
        BY <1>0, <2>2, <3>1
    <2>5. QED
      BY <1>0, <2>1, <2>2, <2>3, <2>4, PcFollows
  <1>2. ASSUME NEW c \in Goroutine, NEW q \in UnmountPc, Goes(c, q), \A d \in Goroutine \ {c} : todo'[d] = todo[d]
        PROVE  TodoPlaced'
    BY <1>0, <1>2 DEF TodoPlaced, Goes
  <1>3. CASE Close
    <2>1. /\ "unmountAll" \in UnmountPc /\ Goes(Boot, "unmountAll")
          /\ \A d \in Goroutine \ {Boot} : todo'[d] = todo[d]
      BY <1>0, <1>3 DEF Close, UnmountPc
    <2>2. QED
      BY <1>0, <1>2, <2>1
  <1>4. ASSUME NEW c \in Goroutine, ForgetGone(c) \/ Mark(c) \/ Unregister(c)
        PROVE  TodoPlaced'
    <2>1. \/ UNCHANGED todo
          \/ /\ Goes(c, "unmountGone") \/ Goes(c, "unmountOld") \/ Goes(c, "unmountRemoved")
             /\ \A d \in Goroutine \ {c} : todo'[d] = todo[d]
      BY <1>0, <1>4 DEF ForgetGone, Mark, Unregister, Returns
    <2>2. QED
      BY <1>1, <1>2, <2>1 DEF UnmountPc
  <1>5. ASSUME NEW c \in Goroutine, Unmount(c)
        PROVE  TodoPlaced'
    <2>1. UNCHANGED pc /\ \A d \in Goroutine : todo'[d] \subseteq todo[d]
      BY <1>0, <1>5 DEF Unmount
    <2>2. QED
      BY <2>1 DEF TodoPlaced
  <1>6. QED
    BY <1>1, <1>3, <1>4, <1>5, WhoChanges

\* Generations change only where records are replaced, and closed registries
\* stay closed.
LEMMA WhoReplaces ==
  ASSUME [Next]_vars
  PROVE  /\ UNCHANGED gen \/ \E c \in Goroutine : Serve(c) \/ Unregister(c) \/ ForgetGone(c) \/ Mark(c)
         /\ UNCHANGED closed \/ Close
  <1>1. ASSUME NEW c \in Goroutine, Waits(c) \/ Works(c)
        PROVE  /\ UNCHANGED gen \/ Serve(c) \/ Unregister(c) \/ ForgetGone(c) \/ Mark(c)
               /\ UNCHANGED closed
    <2>1. CASE Makes(c) \/ Serve(c)
      BY <2>1, MakesIs DEF Serve
    <2>2. CASE Unregister(c) \/ ReloadReads(c) \/ ReloadAllReads(c) \/ ForgetGone(c) \/ Mark(c)
      BY <2>2 DEF Unregister, ReloadReads, ReloadAllReads, ForgetGone, Mark
    <2>3. CASE Unmount(c) \/ Unmounted(c) \/ StartMount(c) \/ AllSettled(c)
      BY <2>3 DEF Unmount, Unmounted, StartMount, AllSettled
    <2>4. QED
      BY <1>1, <2>1, <2>2, <2>3 DEF Waits, Works, Makes
  <1>2. ASSUME NEW c, NEW f, Check(c, f) \/ Open(c, f) \/ Settle(c, f) \/ TimeOut(c, f)
        PROVE  UNCHANGED <<gen, closed>>
    BY <1>2 DEF Check, Open, Settle, TimeOut
  <1>3. ASSUME NEW c, Begin(c) \/ Cancel(c)
        PROVE  UNCHANGED <<gen, closed>>
    BY <1>3 DEF Begin, Cancel
  <1>4. CASE MountAllReads \/ MountAllPicks \/ Stop \/ CloseWhenDone \/ EditByHand \/ UNCHANGED vars
    BY <1>4 DEF MountAllReads, MountAllPicks, Stop, CloseWhenDone, EditByHand, vars
  <1>5. CASE Close
    BY <1>5 DEF Close
  <1>6. QED
    BY <1>1, <1>2, <1>3, <1>4, <1>5 DEF Next, Mounts

\* Only a request that is at work writes records other than by a mount.
LEMMA ReplacesAtWork ==
  ASSUME RegistryInv, NEW d \in Goroutine, Serve(d) \/ Unregister(d) \/ ForgetGone(d) \/ Mark(d)
  PROVE  AtWork(d) /\ pc[d] \notin {"mountEach", "await", "unmountOld"} /\ task[d] = NoTasks
  <1>1. pc[d] \in {"serve", "remove", "forget", "mark"}
    BY DEF Serve, Unregister, ForgetGone, Mark
  <1>2. d # Boot /\ task[d] = NoTasks
    BY <1>1 DEF RegistryInv, PlaceInv, Place, BootPc
  <1>3. QED
    BY <1>1, <1>2 DEF AtWork

LEMMA MountsAtWork ==
  ASSUME RegistryInv, NEW c \in Goroutine, NEW f \in Name, task[c][f] # None
  PROVE  AtWork(c) /\ pc[c] \in {"mountEach", "await"}
  <1>1. pc[c] \in {"mountEach", "await"}
    BY NoTasksType DEF RegistryInv, PlaceInv, Place
  <1>2. QED
    BY <1>1 DEF AtWork

\* While one goroutine mounts, it alone makes records mounted, and none is
\* replaced.
LEMMA WhileMounting ==
  ASSUME RegistryInv, OneAtWork, [Next]_vars, NEW c \in Goroutine,
         AtWork(c), pc[c] \in {"unmountOld", "mountEach", "await"}
  PROVE  /\ UNCHANGED gen /\ (closed => closed')
         /\ \A g \in Name : HasRecord(g, "mounted")' /\ ~HasRecord(g, "mounted") => Settle(c, g)
  <1>0. TypesInv
    BY DEF RegistryInv
  <1>1. ~\E d \in Goroutine : Serve(d) \/ Unregister(d) \/ ForgetGone(d) \/ Mark(d)
    <2>1. ASSUME NEW d \in Goroutine, Serve(d) \/ Unregister(d) \/ ForgetGone(d) \/ Mark(d)
          PROVE  FALSE
      <3>1. AtWork(d) /\ pc[d] \notin {"mountEach", "await", "unmountOld"}
        BY <2>1, ReplacesAtWork
      <3>2. d = c
        BY <3>1 DEF OneAtWork
      <3>3. QED
        BY <3>1, <3>2
    <2>2. QED
      BY <2>1
  <1>2. UNCHANGED gen /\ (closed => closed')
    <2>1. UNCHANGED gen
      BY <1>1, WhoReplaces
    <2>2. UNCHANGED closed => (closed => closed')
      OBVIOUS
    <2>3. Close => (closed => closed')
      BY DEF Close
    <2>4. QED
      BY <2>1, <2>2, <2>3, WhoReplaces
  <1>3. ASSUME NEW g \in Name, HasRecord(g, "mounted")', ~HasRecord(g, "mounted")
        PROVE  Settle(c, g)
    <2>1. mounts' # mounts /\ ~Close
      BY <1>3 DEF HasRecord, Recorded, Close, Drop
    <2>2. PICK d \in Goroutine, f \in Name : Settle(d, f) \/ TimeOut(d, f)
      BY <1>1, <2>1, WhoChanges
    <2>3. d = c
      BY <2>2, MountsAtWork DEF OneAtWork, Settle, TimeOut
    <2>4. mounts' = mounts \/ Settled(d, f, "needs_attention") \/ (Settle(d, f) /\ Settled(d, f, "mounted"))
      BY <2>2 DEF Settle, TimeOut
    <2>5. Settle(d, f) /\ Settled(d, f, "mounted")
      BY <1>0, <1>3, <2>4 DEF Settled, SetMount, HasRecord, Recorded, TypesInv
    <2>6. f = g
      BY <1>0, <1>3, <2>5 DEF Settled, SetMount, HasRecord, Recorded, TypesInv
    <2>7. QED
      BY <2>3, <2>5, <2>6
  <1>4. QED
    BY <1>2, <1>3

LEMMA FreshKept ==
  ASSUME RegistryInv, RegistryInv', OneAtWork, Fresh, Marked, [Next]_vars
  PROVE  Fresh'
  <1>0. TypesInv /\ PlaceInv
    BY DEF RegistryInv
  <1>1. ASSUME NEW c \in Goroutine, NEW f \in Name, task'[c][f] # None, Current(c, f)', HasRecord(f, "mounted")'
        PROVE  FALSE
    <2>1. CASE /\ task[c][f] # None /\ task'[c][f].gen = task[c][f].gen
               /\ ~Settle(c, f)
      <3>1. AtWork(c) /\ pc[c] \in {"mountEach", "await"}
        BY <2>1, MountsAtWork
      <3>2. UNCHANGED gen /\ (closed => closed') /\ HasRecord(f, "mounted")
        BY <1>1, <2>1, <3>1, WhileMounting
      <3>3. Current(c, f)
        BY <1>1, <2>1, <3>2 DEF Current, HasRecord
      <3>4. QED
        BY <2>1, <3>2, <3>3 DEF Fresh
    <2>2. CASE task[c][f] = None
      <3>1. StartMount(c) /\ f \in Files(c)
        <4>1. ~\E d \in Goroutine, g \in Name : Check(d, g) \/ Open(d, g) \/ Settle(d, g) \/ TimeOut(d, g)
          <5>1. ASSUME NEW d \in Goroutine, NEW g \in Name, Check(d, g) \/ Open(d, g)
                PROVE  FALSE
            <6>1. task[d][g] # None /\ \E t \in Task : task' = [task EXCEPT ![d][g] = t]
              BY <1>0, <5>1, CheckIs, OpenIs
            <6>2. task'[c][f] = task[c][f]
              BY <1>0, <2>2, <6>1, OneTaskMoves
            <6>3. QED
              BY <1>1, <2>2, <6>2
          <5>2. ASSUME NEW d \in Goroutine, NEW g \in Name, Settle(d, g) \/ TimeOut(d, g)
                PROVE  FALSE
            <6>1. task' = [task EXCEPT ![d][g] = None]
              BY <5>2 DEF Settle, TimeOut
            <6>2. QED
              BY <1>0, <1>1, <2>2, <6>1 DEF TypesInv
          <5>3. QED
            BY <5>1, <5>2
        <4>2. ~Stop /\ ~\E d \in Caller : Cancel(d)
          <5>1. ASSUME NEW d \in Goroutine, task' = [task EXCEPT ![d] = NoTasks]
                PROVE  FALSE
            BY <1>0, <1>1, <2>2, <5>1, NoTasksType DEF TypesInv
          <5>2. QED
            BY <5>1 DEF Stop, Cancel, Abandons, Goroutine
        <4>3. PICK d \in Goroutine : StartMount(d) /\ task' # task
          BY <1>1, <2>2, <4>1, <4>2, WhoChanges
        <4>4. PICK g \in Files(d) : \E t : task' = [task EXCEPT ![d][g] = t]
          BY <4>3 DEF StartMount
        <4>5. d = c /\ g = f
          BY <1>0, <1>1, <2>2, <4>4 DEF TypesInv, Files
        <4>6. QED
          BY <4>3, <4>5
      <3>2. pc[c] = "mountEach" /\ mounts' = mounts
        BY <3>1 DEF StartMount
      <3>3. QED
        BY <1>1, <3>1, <3>2 DEF Marked, HasRecord, Recorded
    <2>3. CASE Settle(c, f)
      BY <1>0, <1>1, <2>3 DEF Settle, TypesInv
    <2>4. CASE task[c][f] # None /\ task'[c][f].gen # task[c][f].gen /\ ~Settle(c, f)
      <3>1. ASSUME NEW d \in Goroutine, NEW g \in Name, Check(d, g) \/ Open(d, g)
            PROVE  FALSE
        <4>1. task' = [task EXCEPT ![d][g].phase = "open"] \/ task' = [task EXCEPT ![d][g].phase = "failed"]
              \/ task' = [task EXCEPT ![d][g].phase = "opened", ![d][g].db = disk[g].id]
          BY <3>1 DEF Check, Open
        <4>2. task[c][f] \in Task /\ task \in [Goroutine -> [Name -> Task \cup {None}]]
          BY <1>0, <2>4, TaskAt DEF TypesInv
        <4>3. task'[c][f].gen = task[c][f].gen
          BY <4>1, <4>2 DEF Task
        <4>4. QED
          BY <2>4, <4>3
      <3>2. ASSUME NEW d \in Goroutine, NEW g \in Name, Settle(d, g) \/ TimeOut(d, g)
            PROVE  FALSE
        <4>1. task' = [task EXCEPT ![d][g] = None]
          BY <3>2 DEF Settle, TimeOut
        <4>2. QED
          BY <1>0, <1>1, <2>4, <4>1 DEF TypesInv
      <3>3. ASSUME NEW d \in Goroutine, task' = [task EXCEPT ![d] = NoTasks]
            PROVE  FALSE
        BY <1>0, <1>1, <2>4, <3>3, NoTasksType DEF TypesInv
      <3>4. ASSUME NEW d \in Goroutine, StartMount(d)
            PROVE  FALSE
        <4>1. PICK g \in Files(d) : pc[d] = "mountEach" /\ \E t : task' = [task EXCEPT ![d][g] = t]
          BY <2>4, <3>4 DEF StartMount
        <4>2. d = c /\ g = f
          BY <1>0, <2>4, <4>1 DEF TypesInv, Files
        <4>3. QED
          BY <1>0, <2>4, <4>1, <4>2 DEF PlaceInv, Place
      <3>5. QED
        BY <2>4, <3>1, <3>2, <3>3, <3>4, WhoChanges DEF Stop, Cancel, Abandons, Goroutine
    <2>5. QED
      BY <2>1, <2>2, <2>3, <2>4
  <1>2. QED
    BY <1>1 DEF Fresh

\* Who starts to mount what it has read.
LEMMA EntersMounting ==
  ASSUME TypesInv, [Next]_vars, NEW c \in Goroutine,
         pc'[c] \in {"unmountOld", "mountEach"}, pc[c] \notin {"unmountOld", "mountEach"}
  PROVE  Mark(c) \/ (c = Boot /\ MountAllPicks)
  <1> DEFINE S == {"unmountOld", "mountEach"}
  <1>0. pc \in [Goroutine -> Pc] /\ Boot \in Goroutine /\ Caller \subseteq Goroutine
    BY DEF TypesInv, Goroutine
  <1>1. ASSUME NEW d \in Goroutine, NEW q, Goes(d, q), q \notin S \/ pc[d] \in S
        PROVE  FALSE
    BY <1>0, <1>1 DEF Goes
  <1>2. pc' # pc
    OBVIOUS
  <1>3. ASSUME NEW d \in Goroutine, Makes(d) \/ Serve(d)
        PROVE  FALSE
    <2>1. \E q \in MakingPc \cup {"idle"} : Goes(d, q)
      BY <1>3, MakesIs DEF Serve, Returns
    <2>2. QED
      BY <1>1, <2>1 DEF MakingPc
  <1>4. ASSUME NEW d \in Goroutine,
               Unregister(d) \/ ReloadReads(d) \/ ReloadAllReads(d) \/ ForgetGone(d) \/ AllSettled(d)
        PROVE  FALSE
    <2>1. \/ Goes(d, "idle") \/ Goes(d, "unmountRemoved") \/ Goes(d, "mark")
          \/ Goes(d, "forget") \/ Goes(d, "unmountGone")
      BY <1>4 DEF Unregister, ReloadReads, ReloadAllReads, ForgetGone, AllSettled, Returns
    <2>2. QED
      BY <1>1, <2>1
  <1>5. ASSUME NEW d \in Goroutine, Unmounted(d)
        PROVE  FALSE
    <2>1. Goes(d, "idle") \/ Goes(d, "mark") \/ Goes(d, "closed") \/ (pc[d] = "unmountOld" /\ Goes(d, "mountEach"))
      BY <1>5 DEF Unmounted, Returns
    <2>2. QED
      BY <1>1, <2>1
  <1>6. ASSUME NEW d \in Goroutine, StartMount(d) \/ Unmount(d)
        PROVE  FALSE
    <2>1. Goes(d, "await")
      BY <1>2, <1>6 DEF StartMount, Unmount
    <2>2. QED
      BY <1>1, <2>1
  <1>7. ASSUME NEW d \in Goroutine, Mark(d)
        PROVE  Mark(c)
    <2>1. Goes(d, "unmountOld")
      BY <1>7 DEF Mark
    <2>2. d = c
      BY <1>0, <2>1 DEF Goes
    <2>3. QED
      BY <1>7, <2>2
  <1>8. ASSUME NEW d \in Caller, Begin(d) \/ Cancel(d)
        PROVE  FALSE
    <2>1. \E q : Goes(d, q) /\ q \notin S
      BY <1>8 DEF Begin, Cancel
    <2>2. QED
      BY <1>0, <1>1, <2>1
  <1>9. ASSUME NEW d \in Goroutine, Mounts(d)
        PROVE  FALSE
    BY <1>2, <1>9 DEF Mounts, Check, Open, Settle, TimeOut
  <1>10. CASE MountAllReads \/ Stop \/ Close
    <2>1. \E q \in {"pending", "draining", "unmountAll"} : Goes(Boot, q)
      BY <1>10 DEF MountAllReads, Stop, Close
    <2>2. QED
      BY <1>0, <1>1, <2>1
  <1>11. CASE MountAllPicks
    <2>1. Goes(Boot, "mountEach")
      BY <1>11 DEF MountAllPicks
    <2>2. QED
      BY <1>0, <1>11, <2>1 DEF Goes
  <1>12. ~(CloseWhenDone \/ EditByHand \/ UNCHANGED vars)
    BY <1>2 DEF CloseWhenDone, EditByHand, callVars, vars
  <1>13. QED
    BY <1>3, <1>4, <1>5, <1>6, <1>7, <1>8, <1>9, <1>10, <1>11, <1>12 DEF Next, Waits, Works, Makes

\* What a goroutine has read stays while it unmounts and mounts it, but for
\* what it has started to mount.
LEMMA WhoReads ==
  ASSUME TypesInv, [Next]_vars
  PROVE  \/ UNCHANGED regs
         \/ \E d \in Goroutine :
               /\ \E r : regs' = [regs EXCEPT ![d] = r]
               /\ \/ pc[d] \notin {"unmountRemoved", "unmountOld", "mountEach"}
                  \/ pc'[d] \in {"idle", "draining"}
         \/ \E d \in Goroutine, f \in Name : pc[d] = "mountEach" /\ regs' = [regs EXCEPT ![d][f] = None]
  <1> DEFINE Reads(d) == /\ \E r : regs' = [regs EXCEPT ![d] = r]
                         /\ \/ pc[d] \notin {"unmountRemoved", "unmountOld", "mountEach"}
                            \/ pc'[d] \in {"idle", "draining"}
  <1>0. pc \in [Goroutine -> Pc] /\ Boot \in Goroutine
    BY DEF TypesInv, Goroutine
  <1>1. ASSUME NEW d \in Goroutine,
               Makes(d) \/ Serve(d) \/ Unmounted(d) \/ AllSettled(d)
        PROVE  UNCHANGED regs \/ Reads(d)
    <2>1. \/ UNCHANGED regs
          \/ Goes(d, "idle") /\ regs' = [regs EXCEPT ![d] = NoRegs]
      BY <1>1, MakesIs DEF Serve, Unmounted, AllSettled, Returns
    <2>2. QED
      BY <1>0, <2>1 DEF Goes
  <1>2. ASSUME NEW d \in Goroutine, Unregister(d) \/ ReloadReads(d) \/ ReloadAllReads(d)
        PROVE  UNCHANGED regs \/ Reads(d)
    <2>1. /\ pc[d] \notin {"unmountRemoved", "unmountOld", "mountEach"}
          /\ UNCHANGED regs \/ \E r : regs' = [regs EXCEPT ![d] = r]
      BY <1>2 DEF Unregister, ReloadReads, ReloadAllReads, Returns
    <2>2. QED
      BY <2>1
  <1>3. CASE MountAllReads \/ MountAllPicks \/ Stop
    <2>1. /\ \E r : regs' = [regs EXCEPT ![Boot] = r]
          /\ pc[Boot] \in {"mountAll", "pending"} \/ Goes(Boot, "draining")
      BY <1>3 DEF MountAllReads, MountAllPicks, Stop
    <2>2. Reads(Boot)
      BY <1>0, <2>1 DEF Goes
    <2>3. QED
      BY <1>0, <2>2
  <1>4. ASSUME NEW d \in Goroutine, StartMount(d)
        PROVE  UNCHANGED regs \/ \E f \in Name : pc[d] = "mountEach" /\ regs' = [regs EXCEPT ![d][f] = None]
    BY <1>4 DEF StartMount, Files
  <1>5. QED
    BY <1>1, <1>2, <1>3, <1>4, WhoChanges

LEMMA MountingShrinks ==
  ASSUME TypesInv, [Next]_vars, NEW c \in Goroutine,
         pc[c] \in {"unmountOld", "mountEach"}, pc'[c] \in {"unmountOld", "mountEach"}
  PROVE  \A f \in Name : regs'[c][f] # None => regs[c][f] # None
  <1>0. regs \in [Goroutine -> [Name -> Name \cup {None}]]
    BY DEF TypesInv
  <1>1. ASSUME NEW d \in Goroutine, NEW r, regs' = [regs EXCEPT ![d] = r],
               \/ pc[d] \notin {"unmountRemoved", "unmountOld", "mountEach"}
               \/ pc'[d] \in {"idle", "draining"}
        PROVE  regs'[c] = regs[c]
    BY <1>0, <1>1
  <1>2. ASSUME NEW d \in Goroutine, NEW g \in Name, regs' = [regs EXCEPT ![d][g] = None]
        PROVE  \A f \in Name : regs'[c][f] # None => regs[c][f] # None
    BY <1>0, <1>2
  <1>3. QED
    BY <1>1, <1>2, WhoReads

LEMMA MarkedKept ==
  ASSUME RegistryInv, OneAtWork, Marked, [Next]_vars
  PROVE  Marked'
  <1>0. /\ TypesInv /\ PlaceInv /\ Boot \in Goroutine
        /\ regs \in [Goroutine -> [Name -> Name \cup {None}]]
    BY DEF RegistryInv, TypesInv, Goroutine
  <1>1. ASSUME NEW c \in Goroutine, pc'[c] \in {"unmountOld", "mountEach"},
               NEW f \in Name, regs'[c][f] # None, HasRecord(f, "mounted")'
        PROVE  FALSE
    <2>1. CASE Mark(c)
      <3>1. f \in Files(c)
        BY <1>1, <2>1, RequestFrames DEF Files
      <3>2. mounts' = [g \in Name |-> IF g \in Files(c) THEN Mounting(regs[c][g]) ELSE mounts[g]]
        BY <2>1 DEF Mark
      <3>3. QED
        BY <1>1, <3>1, <3>2 DEF HasRecord, Recorded, Mounting
    <2>2. CASE MountAllPicks /\ c = Boot
      <3>1. regs' = [regs EXCEPT ![Boot] =
                        [g \in Name |-> IF HasRecord(g, "mounting") THEN regs[Boot][g] ELSE None]]
        BY <2>2 DEF MountAllPicks
      <3>2. HasRecord(f, "mounting") /\ mounts' = mounts
        BY <1>0, <1>1, <2>2, <3>1, OtherFrames
      <3>3. QED
        BY <1>1, <3>2 DEF HasRecord, Recorded
    <2>3. CASE pc[c] \in {"unmountOld", "mountEach"}
      <3>1. f \in Files(c)
        BY <1>0, <1>1, <2>3, MountingShrinks DEF Files
      <3>2. ~HasRecord(f, "mounted") /\ AtWork(c)
        BY <1>0, <2>3, <3>1 DEF Marked, AtWork, PlaceInv, Place, BootPc
      <3>3. Settle(c, f)
        BY <1>1, <2>3, <3>2, WhileMounting
      <3>4. task[c][f] # None
        BY <3>3 DEF Settle
      <3>5. pc[c] = "mountEach"
        BY <2>3, <3>4, MountsAtWork
      <3>6. QED
        BY <1>0, <3>1, <3>4, <3>5 DEF PlaceInv, Place
    <2>4. QED
      BY <1>0, <1>1, <2>1, <2>2, <2>3, EntersMounting
  <1>2. QED
    BY <1>1 DEF Marked, Files

\* What one goroutine is about to unmount it takes off the list.
LEMMA TakesOff ==
  ASSUME TypesInv, Listed, NEW c \in Goroutine, NEW files, todo[c] = {},
         todo' = [todo EXCEPT ![c] = {f \in files : HasRecord(f, "mounted")}],
         \A f \in Name \ files : mounts'[f] = mounts[f],
         served' = served
  PROVE  Listed'
  <1>1. todo'[c] = {f \in files : HasRecord(f, "mounted")} /\ \A d \in Goroutine \ {c} : todo'[d] = todo[d]
    BY DEF TypesInv
  <1>2. ASSUME NEW n \in Name, served[n] # None
        PROVE  HasRecord(n, "mounted")' \/ \E d \in Goroutine : n \in todo'[d]
    <2>1. CASE \E d \in Goroutine : n \in todo[d]
      BY <1>1, <2>1
    <2>2. CASE HasRecord(n, "mounted") /\ n \in files
      BY <1>1, <2>2
    <2>3. CASE HasRecord(n, "mounted") /\ n \notin files
      BY <2>3 DEF HasRecord, Recorded
    <2>4. QED
      BY <1>2, <2>1, <2>2, <2>3 DEF Listed
  <1>3. QED
    BY <1>2 DEF Listed

LEMMA ListedKept ==
  ASSUME HandsInv, Fresh, TodoPlaced, Listed, [Next]_vars
  PROVE  Listed'
  <1>0. /\ TypesInv /\ PlaceInv /\ RegistryInv /\ OwnDisk /\ OwnMounts /\ OwnTasks /\ Boot \in Goroutine
        /\ served \in [Name -> Name \cup {None}] /\ mounts \in [Name -> MountRecord \cup {None}]
    BY DEF HandsInv, OwnIds, RegistryInv, TypesInv, Goroutine
  <1>1. CASE UNCHANGED <<mounts, served, todo>>
    BY <1>1 DEF Listed, HasRecord, Recorded
  <1>2. CASE Close
    <2>1. todo' = [todo EXCEPT ![Boot] = {f \in Name : HasRecord(f, "mounted")}] /\ served' = served
      BY <1>0, <1>2, OwnMountedIds DEF Close
    <2>2. todo[Boot] = {}
      BY <1>0, <1>2 DEF TodoPlaced, UnmountPc, Close
    <2>3. QED
      BY <1>0, <2>1, <2>2, TakesOff
  <1>3. ASSUME NEW c \in Goroutine, ForgetGone(c)
        PROVE  Listed'
    <2>1. PICK files \in SUBSET Name : Drop(files) /\ todo' = [todo EXCEPT ![c] = MountedIds(files)]
      BY <1>3, ForgetGoneIs
    <2>2. todo' = [todo EXCEPT ![c] = {f \in files : HasRecord(f, "mounted")}] /\ served' = served
      BY <1>0, <1>3, <2>1, OwnMountedIds, RequestFrames
    <2>3. todo[c] = {}
      BY <1>3 DEF TodoPlaced, UnmountPc, ForgetGone
    <2>4. QED
      BY <1>0, <2>1, <2>2, <2>3, TakesOff DEF Drop
  <1>4. ASSUME NEW c \in Goroutine, Mark(c)
        PROVE  Listed'
    <2>1. Files(c) \subseteq Name
      BY DEF Files
    <2>2. todo' = [todo EXCEPT ![c] = {f \in Files(c) : HasRecord(f, "mounted")}] /\ served' = served
      BY <1>0, <1>4, <2>1, OwnMountedIds DEF Mark
    <2>3. todo[c] = {}
      BY <1>4 DEF TodoPlaced, UnmountPc, Mark
    <2>4. \A f \in Name \ Files(c) : mounts'[f] = mounts[f]
      BY <1>4 DEF Mark
    <2>5. QED
      BY <1>0, <2>2, <2>3, <2>4, TakesOff
  <1>5. ASSUME NEW c \in Goroutine, Unregister(c)
        PROVE  Listed'
    <2>1. CASE UNCHANGED <<mounts, todo>>
      BY <1>1, <1>5, <2>1, RequestFrames
    <2>2. ASSUME NEW f \in Name, Finds(want[c].id, f), Drop({f}),
                 todo' = [todo EXCEPT ![c] = IF HasRecord(f, "mounted") THEN {want[c].id} ELSE {}]
          PROVE  Listed'
      <3>1. want[c].id = f
        BY <1>0, <2>2 DEF Finds, OwnDisk
      <3>2. (IF HasRecord(f, "mounted") THEN {want[c].id} ELSE {}) = {g \in {f} : HasRecord(g, "mounted")}
        BY <3>1
      <3>3. todo' = [todo EXCEPT ![c] = {g \in {f} : HasRecord(g, "mounted")}]
        BY <2>2, <3>2
      <3>4. todo[c] = {}
        BY <1>5 DEF TodoPlaced, UnmountPc, Unregister
      <3>5. served' = served /\ \A g \in Name \ {f} : mounts'[g] = mounts[g]
        BY <1>5, <2>2, RequestFrames DEF Drop
      <3>6. QED
        BY <1>0, <3>3, <3>4, <3>5, TakesOff
    <2>3. QED
      BY <1>5, <2>1, <2>2 DEF Unregister, Returns
  <1>6. ASSUME NEW c \in Goroutine, Unmount(c)
        PROVE  Listed'
    <2>1. PICK id \in todo[c] :
            /\ todo' = [todo EXCEPT ![c] = todo[c] \ {id}]
            /\ served' = [served EXCEPT ![id] = None]
      BY <1>6 DEF Unmount
    <2>2. id \in Name /\ mounts' = mounts
      BY <1>0, <1>6, RequestFrames DEF TypesInv
    <2>3. \A n \in Name : served'[n] # None => n # id /\ served[n] # None
      BY <1>0, <2>1, <2>2
    <2>4. \A n \in Name, d \in Goroutine : n # id /\ n \in todo[d] => n \in todo'[d]
      BY <1>0, <2>1 DEF TypesInv
    <2>5. QED
      BY <2>2, <2>3, <2>4 DEF Listed, HasRecord, Recorded
  <1>7. ASSUME NEW f \in Name, served' = [served EXCEPT ![f] = f], SetMount(f, f, "mounted"), UNCHANGED todo
        PROVE  Listed'
    <2>1. HasRecord(f, "mounted")'
      <3>1. mounts'[f] = [id |-> f, state |-> "mounted"]
        BY <1>0, <1>7 DEF SetMount
      <3>2. mounts'[f] \in MountRecord
        BY <3>1 DEF MountRecord, State
      <3>3. QED
        BY <3>1, <3>2, NoneAssumption DEF HasRecord, Recorded
    <2>2. \A n \in Name \ {f} : served'[n] = served[n] /\ mounts'[n] = mounts[n]
      BY <1>0, <1>7 DEF SetMount
    <2>3. QED
      BY <1>7, <2>1, <2>2 DEF Listed, HasRecord, Recorded
  <1>8. ASSUME NEW c \in Goroutine, Serve(c)
        PROVE  Listed'
    <2>1. want[c].id \in Name /\ todo' = todo
      BY <1>0, <1>8, RequestFrames DEF Serve, PlaceInv, Place, MakingPc, Manifest
    <2>2. \/ UNCHANGED <<mounts, served>>
          \/ /\ served' = [served EXCEPT ![want[c].id] = want[c].id]
             /\ SetMount(want[c].id, want[c].id, "mounted")
      BY <1>8 DEF Serve
    <2>3. QED
      BY <1>1, <1>7, <2>1, <2>2
  <1>9. ASSUME NEW c \in Goroutine, NEW f \in Name, Settle(c, f) \/ TimeOut(c, f)
        PROVE  Listed'
    <2>1. todo' = todo /\ task[c][f] # None /\ task[c][f].id = f
      BY <1>0, <1>9, OtherFrames DEF OwnTasks, Settle, TimeOut
    <2>2. CASE Current(c, f) /\ served' = served /\ SetMount(f, f, "needs_attention")
      <3>1. ~HasRecord(f, "mounted")
        BY <2>1, <2>2 DEF Fresh
      <3>2. \A n \in Name \ {f} : mounts'[n] = mounts[n]
        BY <2>2 DEF SetMount
      <3>3. QED
        BY <2>1, <2>2, <3>1, <3>2 DEF Listed, HasRecord, Recorded
    <2>3. CASE /\ task[c][f].phase = "opened"
               /\ served' = [served EXCEPT ![task[c][f].db] = f]
               /\ SetMount(f, f, "mounted")
      <3>1. task[c][f].db = f
        BY <1>0, <2>1, <2>3 DEF OwnTasks, Opening
      <3>2. QED
        BY <1>7, <2>1, <2>3, <3>1
    <2>4. CASE UNCHANGED <<mounts, served>>
      BY <1>1, <2>1, <2>4
    <2>5. CASE Settle(c, f)
      BY <2>1, <2>2, <2>3, <2>4, <2>5 DEF Settle, Settled
    <2>6. CASE TimeOut(c, f)
      BY <2>1, <2>2, <2>4, <2>6 DEF TimeOut, Settled
    <2>7. QED
      BY <1>9, <2>5, <2>6
  <1>10. QED
    BY <1>1, <1>2, <1>3, <1>4, <1>5, <1>6, <1>8, <1>9, WhoChanges

LEMMA SerialInductive ==
  ASSUME KeepsIds
  PROVE  Spec /\ []OneAtWork => []SerialInv
  <1>1. Init => SerialInv
    <2> SUFFICES ASSUME Init
                 PROVE  SerialInv
      OBVIOUS
    <2>1. \A c \in Goroutine : todo[c] = {} /\ pc[c] \notin {"unmountOld", "mountEach"} /\ task[c] = NoTasks
      BY DEF Init
    <2>2. TodoPlaced /\ Marked /\ Fresh
      BY <2>1, NoTasksType DEF TodoPlaced, Marked, Fresh
    <2>3. Listed
      BY DEF Init, Listed
    <2>4. QED
      BY <2>2, <2>3 DEF SerialInv
  <1>2. HandsInv /\ HandsInv' /\ OneAtWork /\ SerialInv /\ [Next]_vars => SerialInv'
    <2>1. HandsInv => RegistryInv
      BY DEF HandsInv
    <2>2. HandsInv' => RegistryInv'
      BY DEF HandsInv
    <2>3. QED
      BY <2>1, <2>2, TodoPlacedKept, FreshKept, MarkedKept, ListedKept DEF SerialInv
  <1>3. QED
    BY <1>1, <1>2, HandsInductive, PTL DEF Spec

\* A database that is served is listed as mounted once nothing is in progress,
\* so that the next reload or remove takes it away, as long as requests do not
\* overlap and what people do by hand keeps the ids apart, whichever requests
\* time out, are left by their client or outlive the shutdown.  ServedIsRecorded (databases.go:36-38).
THEOREM ServedStaysListed ==
  ASSUME KeepsIds
  PROVE  Spec /\ []OneAtWork => []ServedIsRecorded
  <1>1. HandsInv /\ SerialInv => ServedIsRecorded
    <2> SUFFICES ASSUME HandsInv, SerialInv, Quiet, NEW n \in Name, served[n] # None
                 PROVE  mounts[served[n]] = [id |-> n, state |-> "mounted"]
      BY DEF ServedIsRecorded
    <2>1. \A c \in Goroutine : todo[c] = {}
      BY DEF Quiet, SerialInv, TodoPlaced, UnmountPc
    <2>2. HasRecord(n, "mounted")
      BY <2>1 DEF SerialInv, Listed
    <2>3. served[n] = n /\ mounts[n].id = n /\ mounts[n] \in MountRecord
      BY <2>2 DEF HandsInv, OwnIds, OwnServed, OwnMounts, HasRecord, Recorded, RegistryInv, TypesInv
    <2>4. QED
      BY <2>2, <2>3 DEF HasRecord, MountRecord
  <1>2. QED
    BY <1>1, HandsInductive, SerialInductive, PTL

\* Where a removal waits for its database to be unmounted there is no record,
\* and the shutdown has not begun to unmount.
RemovalInv ==
    /\ pc[Boot] \in {"unmountAll", "closed"} => \A p \in Caller : pc[p] = "idle"
    /\ \A c \in Goroutine : pc[c] = "unmountRemoved" => \A f \in Files(c) : mounts[f] = None

LEMMA ShutdownWaits ==
  ASSUME RegistryInv, RemovalInv, ~SlowHandlers, [Next]_vars
  PROVE  pc'[Boot] \in {"unmountAll", "closed"} => \A p \in Caller : pc'[p] = "idle"
  <1>0. pc \in [Goroutine -> Pc] /\ Boot \in Goroutine /\ TypesInv
    BY DEF RegistryInv, TypesInv, Goroutine
  <1> SUFFICES ASSUME pc'[Boot] \in {"unmountAll", "closed"}, NEW p \in Caller
               PROVE  pc'[p] = "idle"
    OBVIOUS
  <1>1. p # Boot /\ p \in Goroutine
    BY DEF Goroutine
  <1>2. CASE UNCHANGED pc
    BY <1>2 DEF RemovalInv
  <1>3. ASSUME NEW c \in Caller, Begin(c)
        PROVE  FALSE
    BY <1>0, <1>3 DEF Begin, Goes, Goroutine
  <1>4. CASE Stop
    BY <1>0, <1>4 DEF Stop, Goes
  <1>5. CASE Close
    BY <1>0, <1>1, <1>5 DEF Close, Goes
  <1>6. ASSUME NEW c \in Goroutine, NEW q \in Pc, Goes(c, q), Follows(pc[c], q), q # "unmountAll"
        PROVE  pc'[p] = "idle"
    <2>1. CASE c = Boot
      <3>1. pc[Boot] = "unmountAll" /\ pc'[p] = pc[p]
        BY <1>0, <1>1, <1>6, <2>1 DEF Goes, Follows, MakingPc
      <3>2. QED
        BY <3>1 DEF RemovalInv
    <2>2. CASE c # Boot
      <3>1. pc'[Boot] = pc[Boot] /\ c \in Caller /\ pc[c] # "idle"
        BY <1>0, <1>6, <2>2 DEF Goes, Goroutine, Follows, MakingPc
      <3>2. QED
        BY <3>1 DEF RemovalInv
    <2>3. QED
      BY <2>1, <2>2
  <1>7. QED
    BY <1>0, <1>2, <1>3, <1>4, <1>5, <1>6, PcFollows

LEMMA RemovalKept ==
  ASSUME RegistryInv, OneAtWork, RemovalInv, ~SlowHandlers, [Next]_vars
  PROVE  RemovalInv'
  <1>0. /\ pc \in [Goroutine -> Pc] /\ TypesInv /\ PlaceInv /\ Boot \in Goroutine
        /\ mounts \in [Name -> MountRecord \cup {None}] /\ regs \in [Goroutine -> [Name -> Name \cup {None}]]
    BY DEF RegistryInv, TypesInv, Goroutine
  <1>1. ASSUME NEW c \in Goroutine, pc'[c] = "unmountRemoved", NEW f \in Name, regs'[c][f] # None
        PROVE  mounts'[f] = None
    <2>1. CASE Unregister(c)
      <3>1. Goes(c, "idle") \/ \E g \in Name : Drop({g}) /\ regs' = [regs EXCEPT ![c] = [NoRegs EXCEPT ![g] = want[c].id]]
        BY <2>1 DEF Unregister, Returns
      <3>2. PICK g \in Name : Drop({g}) /\ regs' = [regs EXCEPT ![c] = [NoRegs EXCEPT ![g] = want[c].id]]
        BY <1>0, <1>1, <3>1 DEF Goes
      <3>3. f = g
        BY <1>0, <1>1, <3>2 DEF NoRegs
      <3>4. QED
        BY <3>2, <3>3 DEF Drop
    <2>2. CASE pc[c] = "unmountRemoved"
      <3>1. c # Boot /\ AtWork(c)
        BY <1>0, <2>2 DEF PlaceInv, Place, BootPc, AtWork
      <3>2. ASSUME NEW d \in Goroutine, NEW r, regs' = [regs EXCEPT ![d] = r],
                   \/ pc[d] \notin {"unmountRemoved", "unmountOld", "mountEach"}
                   \/ pc'[d] \in {"idle", "draining"}
            PROVE  regs'[c] = regs[c]
        BY <1>0, <1>1, <2>2, <3>2
      <3>3. ASSUME NEW d \in Goroutine, NEW g \in Name, pc[d] = "mountEach", regs' = [regs EXCEPT ![d][g] = None]
            PROVE  regs'[c] = regs[c]
        BY <1>0, <2>2, <3>3
      <3>4. regs'[c] = regs[c]
        BY <1>0, <3>2, <3>3, WhoReads
      <3>5. mounts[f] = None
        BY <1>1, <2>2, <3>4 DEF RemovalInv, Files
      <3>6. ASSUME NEW d \in Goroutine, Serve(d) \/ Mark(d)
            PROVE  FALSE
        <4>1. d = c
          BY <3>1, <3>6, ReplacesAtWork DEF OneAtWork
        <4>2. QED
          BY <2>2, <3>6, <4>1 DEF Serve, Mark
      <3>7. ASSUME NEW d \in Goroutine, NEW g \in Name, Settle(d, g) \/ TimeOut(d, g)
            PROVE  FALSE
        <4>1. task[d][g] # None
          BY <3>7 DEF Settle, TimeOut
        <4>2. AtWork(d) /\ pc[d] \in {"mountEach", "await"}
          BY <4>1, MountsAtWork
        <4>3. d = c
          BY <3>1, <4>2 DEF OneAtWork
        <4>4. QED
          BY <2>2, <4>2, <4>3
      <3>8. ASSUME NEW files, Drop(files)
            PROVE  mounts'[f] = None
        BY <3>5, <3>8 DEF Drop
      <3>9. ASSUME NEW d \in Goroutine, Unregister(d) \/ ForgetGone(d)
            PROVE  mounts'[f] = None
        BY <3>5, <3>8, <3>9, ForgetGoneIs DEF Unregister
      <3>10. QED
        BY <3>5, <3>6, <3>7, <3>8, <3>9, WhoChanges DEF Close
    <2>3. CASE pc[c] # "unmountRemoved" /\ ~Unregister(c)
      <3>1. ASSUME NEW d \in Goroutine, NEW q, Goes(d, q), q # "unmountRemoved" \/ d # c
            PROVE  FALSE
        BY <1>0, <1>1, <2>3, <3>1 DEF Goes
      <3>2. ASSUME NEW d \in Caller, Begin(d)
            PROVE  FALSE
        <4>1. d \in Goroutine /\ \E q : Goes(d, q) /\ q # "unmountRemoved"
          BY <3>2 DEF Begin, Goroutine
        <4>2. QED
          BY <3>1, <4>1
      <3>3. ~Stop /\ pc' # pc
        BY <1>0, <1>1, <2>3, <3>1 DEF Stop
      <3>4. QED
        BY <1>0, <2>3, <3>1, <3>2, <3>3, PcFollows
    <2>4. QED
      BY <2>1, <2>2, <2>3
  <1>2. QED
    BY <1>1, ShutdownWaits DEF RemovalInv, Files

\* A database that was removed is not served any more when the request
\* returns, as long as requests do not overlap, the shutdown waits for them and
\* what people do by hand keeps the ids apart.  RemovedIsNotServed (databases.go:940-945).
THEOREM RemovedGoesAway ==
  ASSUME KeepsIds, ~SlowHandlers
  PROVE  Spec /\ []OneAtWork => RemovedIsNotServed
  <1>1. Init => RemovalInv
    BY DEF Init, RemovalInv, Goroutine
  <1>2. RegistryInv /\ OneAtWork /\ RemovalInv /\ [Next]_vars => RemovalInv'
    BY RemovalKept
  <1>3. HandsInv /\ SerialInv /\ RemovalInv /\ OneAtWork /\ [Next]_vars => [RemoveUnserves]_vars
    <2> SUFFICES ASSUME HandsInv, SerialInv, RemovalInv, OneAtWork, [Next]_vars,
                        NEW c \in Caller, pc[c] = "unmountRemoved", pc'[c] = "idle",
                        NEW f \in Files(c), NEW n \in Name, served[n] = f
                 PROVE  FALSE
      BY DEF RemoveUnserves
    <2>0. /\ TypesInv /\ PlaceInv /\ pc \in [Goroutine -> Pc] /\ c \in Goroutine /\ c # Boot
          /\ f \in Name /\ f # None
      BY DEF HandsInv, RegistryInv, TypesInv, Goroutine, Files
    <2>1. n = f /\ mounts[f] = None
      BY <2>0 DEF HandsInv, OwnIds, OwnServed, RemovalInv
    <2>2. PICK d \in Goroutine : f \in todo[d]
      BY <2>0, <2>1 DEF SerialInv, Listed, HasRecord, Recorded
    <2>3. pc[d] \in UnmountPc
      BY <2>2 DEF SerialInv, TodoPlaced
    <2>4. d = c
      <3>1. CASE d = Boot
        <4>1. pc[Boot] = "unmountAll"
          BY <2>0, <2>3, <3>1 DEF UnmountPc, PlaceInv, Place, BootPc
        <4>2. QED
          BY <4>1 DEF RemovalInv
      <3>2. CASE d # Boot
        BY <2>0, <2>3, <3>2 DEF OneAtWork, AtWork, UnmountPc
      <3>3. QED
        BY <3>1, <3>2
    <2>5. todo[c] = {}
      <3>1. ASSUME NEW e \in Goroutine, NEW q \in Pc, Goes(e, q), pc[e] \in UnmountPc => todo[e] = {}
            PROVE  todo[c] = {}
        <4>1. e = c
          BY <2>0, <3>1 DEF Goes
        <4>2. QED
          BY <3>1, <4>1 DEF UnmountPc
      <3>2. ASSUME NEW e \in Caller, Begin(e)
            PROVE  FALSE
        BY <2>0, <3>2 DEF Begin, Goes, Goroutine
      <3>3. ~Stop
        BY <2>0 DEF Stop, Goes, Goroutine
      <3>4. QED
        BY <2>0, <3>1, <3>2, <3>3, PcFollows
    <2>6. QED
      BY <2>2, <2>4, <2>5
  <1>4. QED
    BY <1>1, <1>2, <1>3, RegistryInductive, HandsInductive, SerialInductive, PTL DEF Spec, RemovedIsNotServed

\* Without creates and connects, nothing is mounted again after Close.
ClosedInv ==
    /\ \A c \in Goroutine : pc[c] \notin MakingPc
    /\ closed => \A f \in Name : ~HasRecord(f, "mounted")

\* A closed registry serves nothing once nothing is in progress, whichever
\* removes and reloads outlive the shutdown, as long as those do not overlap and
\* what people do by hand keeps the ids apart.  ClosedServesNothing (databases.go:365-379).
THEOREM ClosedIsEmpty ==
  ASSUME KeepsIds, Requests \cap {"create", "connect"} = {}
  PROVE  Spec /\ []OneAtWork => []ClosedServesNothing
  <1>1. Init => ClosedInv
    BY DEF Init, ClosedInv, MakingPc
  <1>2. RegistryInv /\ ClosedInv /\ [Next]_vars => ClosedInv'
    <2> SUFFICES ASSUME RegistryInv, ClosedInv, [Next]_vars
                 PROVE  ClosedInv'
      OBVIOUS
    <2>0. TypesInv /\ pc \in [Goroutine -> Pc] /\ Boot \in Goroutine /\ Caller \subseteq Goroutine
      BY DEF RegistryInv, TypesInv, Goroutine
    <2>1. \A c \in Goroutine : pc'[c] \notin MakingPc
      <3>1. ASSUME NEW d \in Goroutine, NEW q, Goes(d, q), q \notin MakingPc
            PROVE  \A c \in Goroutine : pc'[c] \notin MakingPc
        BY <2>0, <3>1 DEF Goes, ClosedInv
      <3>2. ASSUME NEW d \in Goroutine, NEW q \in Pc, Goes(d, q), Follows(pc[d], q)
            PROVE  q \notin MakingPc
        BY <3>2 DEF ClosedInv, Follows, MakingPc
      <3>3. ASSUME NEW d \in Caller, Begin(d)
            PROVE  \E q : Goes(d, q) /\ q \notin MakingPc
        <4>1. PICK kind \in Requests : Goes(d, kind)
          BY <3>3 DEF Begin
        <4>2. kind \notin MakingPc
          BY DEF MakingPc
        <4>3. QED
          BY <4>1, <4>2
      <3>4. Stop => Goes(Boot, "draining") /\ "draining" \notin MakingPc
        BY DEF Stop, MakingPc
      <3>5. UNCHANGED pc => \A c \in Goroutine : pc'[c] \notin MakingPc
        BY DEF ClosedInv
      <3>6. QED
        BY <2>0, <3>1, <3>2, <3>3, <3>4, <3>5, PcFollows
    <2>2. ASSUME closed', NEW f \in Name, HasRecord(f, "mounted")'
          PROVE  FALSE
      <3>1. ~Close
        BY <2>2 DEF Close, Drop, HasRecord, Recorded
      <3>2. closed
        BY <2>2, <3>1, WhoReplaces
      <3>3. ~HasRecord(f, "mounted")
        BY <3>2 DEF ClosedInv
      <3>4. ASSUME NEW c \in Goroutine, Serve(c)
            PROVE  FALSE
        BY <3>4 DEF ClosedInv, Serve, MakingPc
      <3>5. ASSUME NEW c \in Goroutine, Unregister(c) \/ ForgetGone(c)
            PROVE  FALSE
        <4>1. mounts' = mounts \/ \E files : Drop(files)
          BY <3>5, ForgetGoneIs DEF Unregister
        <4>2. QED
          BY <2>2, <3>3, <4>1 DEF Drop, HasRecord, Recorded
      <3>6. ASSUME NEW c \in Goroutine, Mark(c)
            PROVE  FALSE
        <4>1. mounts' = [g \in Name |-> IF g \in Files(c) THEN Mounting(regs[c][g]) ELSE mounts[g]]
          BY <3>6 DEF Mark
        <4>2. QED
          BY <2>2, <3>3, <4>1 DEF Mounting, HasRecord, Recorded
      <3>7. ASSUME NEW c \in Goroutine, NEW g \in Name, Settle(c, g) \/ TimeOut(c, g)
            PROVE  mounts' = mounts
        BY <3>2, <3>7 DEF Settle, TimeOut, Current
      <3>8. mounts' # mounts
        BY <2>2, <3>3 DEF HasRecord, Recorded
      <3>9. QED
        BY <3>1, <3>4, <3>5, <3>6, <3>7, <3>8, WhoChanges
    <2>3. QED
      BY <2>1, <2>2 DEF ClosedInv
  <1>3. ClosedInv /\ SerialInv => ClosedServesNothing
    <2> SUFFICES ASSUME ClosedInv, SerialInv, closed, Quiet, NEW n \in Name, served[n] # None
                 PROVE  FALSE
      BY DEF ClosedServesNothing
    <2>1. \A c \in Goroutine : todo[c] = {}
      BY DEF Quiet, SerialInv, TodoPlaced, UnmountPc
    <2>2. QED
      BY <2>1 DEF SerialInv, Listed, ClosedInv
  <1>4. QED
    BY <1>1, <1>2, <1>3, RegistryInductive, SerialInductive, PTL DEF Spec

=============================================================================
